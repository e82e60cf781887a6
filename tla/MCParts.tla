-------------------------------- MODULE MCParts --------------------------------
(***************************************************************************)
(* Nine parts that share nothing, one of which moves in each behaviour    *)
(* while the others stay as they began: the sum of their states, not the   *)
(* product.                                                                *)
(***************************************************************************)
EXTENDS DesktopSession, OnlineUsers, LobbyWindow, RedisReader, LocalDB, JsonTree, JsonText,
        SdsString, RedisConnection

CONSTANTS ana,                 \* who comes and goes
          viewer, h1, h2,      \* a client at the first of two servers
          r1, r2, me, other    \* rooms of the lobby, the second one coordinated by the user

VARIABLE part

Persons == {ana}
Viewers == {viewer}
Hosts == {h1, h2}
HomeOfViewer(v) == h1

LobbyRooms == {r1, r2}
CoordinatedRooms == {r2}

\* A number, an empty nickname and one that looks like the protocol.
Commands ==
  { [format |-> <<" ", "h", "s", " ", " ", "o", ":", "%s", " ", "%s", " ", "%s">>,
     args |-> << <<"1">>, << >>, <<" ", "CR", "LF">> >>,
     means |-> << <<"h", "s">>, <<"o", ":", "1">>, << >>, <<" ", "CR", "LF">> >>],
    [format |-> <<"m">>, args |-> << >>, means |-> << <<"m">> >>] }

Line(place, type, value) == [place |-> place, type |-> type, value |-> value]

\* A number, nothing, an empty array, a string with line ends, arrays in each other.
Replies ==
  { <<Line(<< >>, ":", <<"1">>)>>,
    <<Line(<< >>, "nil", << >>)>>,
    <<Line(<< >>, "*", <<"0">>)>>,
    <<Line(<< >>, "$", <<"CR", "a", "CR", "LF">>)>>,
    <<Line(<< >>, "*", <<"3">>), Line(<<0>>, "$", <<"a">>), Line(<<1>>, "*", <<"1">>),
      Line(<<1, 0>>, "+", <<"b">>), Line(<<2>>, "$", << >>)>> }

StoreRooms == {1, 2}
StoreUsers == {1, 2}
StoreMessages == {1, 2, 3}
RoomOf(m) == IF m = 3 THEN 2 ELSE 1
Coordinator(r) == 1

\* Headers of one or two bytes, as narrow as that the limits are met.
Widths(a, b, c, d, e) == [t \in SdsType |-> <<a, b, c, d, e>>[t + 1]]
HeaderSizes == Widths(1, 1, 1, 2, 2)
HeaderLimits == Widths(1, 3, 5, 8, 17)
HeaderBounds == Widths(2, 3, 5, 8, 0)

LiteralOf(word) == <<"literal", word>>
NumberOf(digits) == <<"number", digits>>
TextOf(chars) == <<"string", chars>>
ArrayOf(elements) == <<"array", elements>>
ObjectOf(members) == <<"object", members>>
Scalars == {LiteralOf(<<"t", "r", "u", "e">>), NumberOf(<<"1">>), NumberOf(<<"-", "1", "0">>), TextOf(<< >>),
            TextOf(<<"a", Quote>>), TextOf(<<Backslash, Newline>>), TextOf(<<Control, "e">>)}
Values ==
  Scalars \cup {ArrayOf(<< >>), ObjectOf(<< >>)}
  \cup {ArrayOf(<<s>>) : s \in Scalars} \cup {ObjectOf(<< << <<"a">>, s>> >>) : s \in Scalars}
  \cup { ArrayOf(<<NumberOf(<<"1">>), TextOf(<<"a">>)>>),
         ObjectOf(<< << <<"a">>, ArrayOf(<<NumberOf(<<"1">>), LiteralOf(<<"n", "u", "l", "l">>)>>)>>,
                   << <<Quote>>, ObjectOf(<< >>)>> >>),
         ArrayOf(<<ArrayOf(<< >>), ArrayOf(<<ObjectOf(<< >>)>>)>>), ArrayOf(<<ArrayOf(<<ArrayOf(<< >>)>>)>>) }

\* Texts, cut off anywhere or with a wrong character anywhere.
Samples ==
  { <<"[", "1", " ", ",", Quote, Backslash, Quote, "a", Quote, "]">>,
    <<"{", Quote, "a", Quote, ":", "1", "}">>,
    <<Quote, Backslash, "u", "0", "0", "0", "7", Quote>>,
    <<Quote, Backslash, "u", "D", "8", "0", "1", Backslash, "u", "D", "C", "7", "0", Quote>>,
    <<"1", ".", "0", "e", "-", "1">> }
WrongCharacters == {Quote, Backslash, " ", "]", "}", ",", ":", "[", "{", "1", "a", "e", "D", "u"}
Texts ==
  UNION { {SubSeq(s, 1, k) : k \in 0 .. Len(s)}
          \cup {[s EXCEPT ![k] = c] : k \in DOMAIN s, c \in WrongCharacters} : s \in Samples }

-----------------------------------------------------------------------------
\* A part that does not move has one initial state.
PartsInit ==
  /\ part \in {"session", "online", "lobby", "redis", "local", "tree", "text", "string", "connection"}
  /\ SessionInit /\ OnlineInit /\ LobbyInit /\ RedisInit /\ LocalInit
  /\ TreeInit /\ TextInit /\ SdsInit /\ ConnectionInit
  /\ part # "online" => ~web /\ home = [u \in Person |-> h1] /\ stage = [u \in Person |-> "new"]
  /\ part # "lobby" => db = << >>
  /\ part # "redis" => subscriber
  /\ part # "connection" => caller = "child"

OthersStay ==
  /\ UNCHANGED part
  /\ part # "session" => UNCHANGED sessionVars
  /\ part # "online" => UNCHANGED onlineVars
  /\ part # "lobby" => UNCHANGED lobbyVars
  /\ part # "redis" => UNCHANGED redisVars
  /\ part # "local" => UNCHANGED localVars
  /\ part # "tree" => UNCHANGED treeVars
  /\ part # "text" => UNCHANGED textVars
  /\ part # "string" => UNCHANGED sdsVars
  /\ part # "connection" => UNCHANGED connectionVars

PartsNext ==
  /\ OthersStay
  /\ \/ part = "session" /\ SessionNext
     \/ part = "online" /\ OnlineNext
     \/ part = "lobby" /\ LobbyNext
     \/ part = "redis" /\ RedisNext
     \/ part = "local" /\ LocalNext
     \/ part = "tree" /\ TreeNext
     \/ part = "text" /\ TextNext
     \/ part = "string" /\ SdsNext
     \/ part = "connection" /\ ConnectionNext

partsVars == <<part, sessionVars, onlineVars, lobbyVars, redisVars, localVars, treeVars, textVars,
               sdsVars, connectionVars>>

PartsSpec == PartsInit /\ [][PartsNext]_partsVars
================================================================================
