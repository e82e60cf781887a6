------------------------------ MODULE RedisReader ------------------------------
(***************************************************************************)
(* A blocking connection of a chat server to Redis: hiredis/hiredis.c      *)
(* writes the commands and hiredis/read.c makes replies of the bytes that  *)
(* come.  A reply is cut anywhere; the reader keeps a stack of what it is  *)
(* in the middle of, and goes on when there is more.                       *)
(*                                                                         *)
(* Bytes are abstracted: a number is one, and a character of a string is   *)
(* anything, a line end too.  A reply is the sequence of its items, each   *)
(* at its place in the tree; arrays come before what they hold.            *)
(***************************************************************************)
EXTENDS Integers, Sequences, SequencesExt, FiniteSetsExt, TLC

CONSTANTS Command,      \* formats with their arguments, and the words they mean
          Reply,        \* what Redis may answer or publish
          Discard,      \* bytes that are consumed before the buffer is cut: 1024
          MaxReplies    \* bound on the replies of a connection

ASSUME RedisReaderAssumption == Discard \in Nat /\ MaxReplies \in Nat

VARIABLES
  subscriber,           \* redis_subscriber_thread, or a series of commands
  asked, at, looping,   \* calls of redisGetReply so far; where the call is, and its inner loop
  obuf,                 \* redisContext: what is still to be written
  input, pos, task, reply,   \* redisReader: the bytes, the stack, the items of the reply so far
  failed,               \* err of both
  commands, stream, reachable,   \* bytes on their way, whether Redis is there
  meant, taken,         \* history: the commands of the calls, and what Redis took them for
  served, replies       \* history: what Redis has sent, and what calls have returned

stack == <<input, pos, task, reply>>
redisSide == <<commands, stream, reachable, taken, served>>
redisVars == <<subscriber, asked, meant, at, looping, obuf, stack, failed, redisSide, replies>>

\* The type of an item is not known before its first byte.
NewTask(idx) == [type |-> "none", elements |-> -1, idx |-> idx]

RedisInit ==
  /\ subscriber \in BOOLEAN
  /\ asked = 0 /\ at = "idle" /\ looping = FALSE
  /\ obuf = << >>
  /\ input = << >> /\ pos = 0 /\ task = << >> /\ reply = << >>
  /\ failed = FALSE
  /\ commands = << >> /\ stream = << >> /\ reachable = TRUE
  /\ meant = << >> /\ taken = << >>
  /\ served = << >> /\ replies = << >>

-----------------------------------------------------------------------------
\* sds.c: strings of bytes, without the room they keep for more.
sdsrange(s, from) == SubSeq(s, from + 1, Len(s))
sdscatlen(s, t) == s \o t

(***************************************************************************)
(* read.c: items                                                           *)
(***************************************************************************)
\* Only CR and LF together end a line; a CR may be part of a string.
LineEnd(i) == i + 1 \in DOMAIN input /\ input[i] = "CR" /\ input[i + 1] = "LF"

FirstOf(ends) == IF ends = {} THEN 0 ELSE Min(ends)

\* The first line end after this many bytes, 0 if there is none yet.
seekNewline(from) == FirstOf({i \in from + 1 .. Len(input) : LineEnd(i)})

\* The numbers that are strings of one byte here; what is none is a protocol error.
string2ll == [s \in {ToString(i) : i \in -1 .. 9} |-> CHOOSE i \in -1 .. 9 : ToString(i) = s]
IsNumber(line) == Len(line) = 1 /\ line[1] \in DOMAIN string2ll

\* Where the item that is read belongs in the tree.
Place == [i \in 1 .. Len(task) - 1 |-> task[i + 1].idx]
Create(type, value) == reply' = Append(reply, [place |-> Place, type |-> type, value |-> value])

\* Up the stack to the innermost array that is to have more elements; empty if there is none.
moveToNextTask ==
  LET unfinished == {i \in 2 .. Len(task) : task[i].idx # task[i - 1].elements - 1}
      i == Max(unfinished)
  IN IF unfinished = {} THEN << >>
     ELSE Append(SubSeq(task, 1, i - 1), NewTask(task[i].idx + 1))

\* Not all of the item is there: it is tried again, from its type on, when there is more.
NotYet(type, from) ==
  /\ looping' = FALSE
  /\ task' = [task EXCEPT ![Len(task)].type = type]
  /\ pos' = from
  /\ UNCHANGED <<reply, failed>>

\* What was read so far is thrown away.
ProtocolError == failed' = TRUE /\ looping' = FALSE /\ pos' = 0 /\ task' = << >> /\ reply' = << >>

Created(type, value, end) ==
  /\ Create(type, value)
  /\ pos' = end
  /\ task' = moveToNextTask
  /\ UNCHANGED <<looping, failed>>

\* Integers, errors and states.
processLineItem(type, from, end, line) ==
  IF type = ":" /\ ~IsNumber(line) THEN ProtocolError ELSE Created(type, line, end + 1)

\* Strings: the length, then the bytes and a line end; -1 is nil.
processBulkItem(type, from, end, line) ==
  LET len == string2ll[line[1]]
  IN IF ~IsNumber(line) THEN ProtocolError
     ELSE IF len = -1 THEN Created("nil", << >>, end + 1)
     ELSE IF end + 1 + len + 2 <= Len(input)
          THEN Created(type, SubSeq(input, end + 2, end + 1 + len), end + 1 + len + 2)
          ELSE NotYet(type, from)

\* Arrays: the elements follow, if there are any.
processAggregateItem(type, from, end, line) ==
  LET elements == string2ll[line[1]]
  IN IF ~IsNumber(line) THEN ProtocolError
     ELSE IF elements = -1 THEN Created("nil", << >>, end + 1)
     ELSE IF elements = 0 THEN Created(type, line, end + 1)
     ELSE /\ Create(type, line)
          /\ pos' = end + 1
          /\ task' = Append([task EXCEPT ![Len(task)].type = type,
                                         ![Len(task)].elements = elements], NewTask(0))
          /\ UNCHANGED <<looping, failed>>

processItem ==
  LET typed == task[Len(task)].type # "none"
      type == IF typed THEN task[Len(task)].type ELSE input[pos + 1]
      from == IF typed THEN pos ELSE pos + 1
      end == seekNewline(from)
      line == SubSeq(input, from + 1, end - 1)
  IN /\ looping /\ task # << >>
     /\ IF ~typed /\ pos >= Len(input) THEN NotYet("none", pos)
        ELSE IF type \notin {"+", "-", ":", "$", "*"} THEN ProtocolError
        ELSE IF end = 0 THEN NotYet(type, from)
        ELSE IF type = "$" THEN processBulkItem(type, from, end, line)
        ELSE IF type = "*" THEN processAggregateItem(type, from, end, line)
        ELSE processLineItem(type, from, end, line)
     /\ input' = IF failed' THEN << >> ELSE input
     /\ UNCHANGED <<subscriber, asked, meant, at, obuf, redisSide, replies>>

-----------------------------------------------------------------------------
(***************************************************************************)
(* redisReaderGetReply, around the items                                   *)
(***************************************************************************)
\* It looks at the pending bytes before the command is written, or at those that were read.
StartItems(where) ==
  /\ at' = where
  /\ looping' = TRUE
  /\ task' = IF task = << >> THEN <<NewTask(-1)>> ELSE task

\* Mutant: the bytes are cut, and the position stays.
cutOnly ==
  IF pos >= Discard THEN input' = sdsrange(input, pos) /\ UNCHANGED pos
  ELSE UNCHANGED <<input, pos>>

\* What is consumed is discarded when it is much.
DiscardConsumed ==
  IF pos >= Discard THEN input' = sdsrange(input, pos) /\ pos' = 0
  ELSE UNCHANGED <<input, pos>>

\* All items are there, or no more can be read: the call returns the reply or reads on.
redisReaderGetReply ==
  /\ at \in {"pending", "parse"}
  /\ ~looping \/ task = << >>
  /\ looping' = FALSE
  /\ IF failed THEN at' = "idle" /\ UNCHANGED <<input, pos, reply, replies>>
     ELSE /\ DiscardConsumed
          /\ IF task = << >>
             THEN at' = "idle" /\ replies' = Append(replies, reply) /\ reply' = << >>
             ELSE /\ at' = IF at = "pending" THEN "write" ELSE "read"
                  /\ UNCHANGED <<reply, replies>>
  /\ UNCHANGED <<subscriber, asked, meant, obuf, task, failed, redisSide>>

-----------------------------------------------------------------------------
(***************************************************************************)
(* hiredis.c: a call                                                       *)
(***************************************************************************)
BytesOf(item) ==
  CASE item.type = "$"   -> <<"$", ToString(Len(item.value)), "CR", "LF">> \o item.value \o <<"CR", "LF">>
    [] item.type = "nil" -> <<"$", "-1", "CR", "LF">>
    [] OTHER             -> <<item.type>> \o item.value \o <<"CR", "LF">>

String(value) == [place |-> << >>, type |-> "$", value |-> value]

\* A word ends at a space of the format; a conversion makes one also of an empty string.
EndWord(f) == IF f.touched THEN [f EXCEPT !.argv = Append(@, f.word), !.word = << >>, !.touched = FALSE] ELSE f

\* Mutant: a word that is empty is no word.
skipEmpty(f, c) ==
  CASE c = " "  -> EndWord(f)
    [] c = "%s" -> [f EXCEPT !.word = @ \o Head(f.args), !.args = Tail(@), !.touched = f.touched \/ Head(f.args) # << >>]
    [] OTHER    -> [f EXCEPT !.word = Append(@, c), !.touched = TRUE]

FormatStep(f, c) ==
  CASE c = " "  -> EndWord(f)
    [] c = "%s" -> [f EXCEPT !.word = @ \o Head(f.args), !.args = Tail(@), !.touched = TRUE]
    [] OTHER    -> [f EXCEPT !.word = Append(@, c), !.touched = TRUE]

\* A command is an array of strings.
redisvFormatCommand(format, args) ==
  LET start == [argv |-> << >>, word |-> << >>, touched |-> FALSE, args |-> args]
      argv == EndWord(FoldLeft(FormatStep, start, format)).argv
  IN <<"*", ToString(Len(argv)), "CR", "LF">> \o FlattenSeq([i \in DOMAIN argv |-> BytesOf(String(argv[i]))])

\* The thread subscribes, and then only waits for replies; others send a command for each.
redisAppendCommand ==
  IF subscriber /\ asked > 0 THEN UNCHANGED <<obuf, meant>>
  ELSE \E c \in Command :
         /\ obuf' = sdscatlen(obuf, redisvFormatCommand(c.format, c.args))
         /\ meant' = Append(meant, c.means)

\* Mutant: what was read before is not looked at.
writeAtOnce ==
  /\ at = "idle" /\ ~failed /\ asked < MaxReplies
  /\ asked' = asked + 1
  /\ redisAppendCommand
  /\ at' = "write"
  /\ UNCHANGED <<subscriber, looping, stack, failed, redisSide, replies>>

redisGetReply ==
  /\ at = "idle" /\ ~failed /\ asked < MaxReplies
  /\ asked' = asked + 1
  /\ redisAppendCommand
  /\ IF input = << >> THEN at' = "write" /\ UNCHANGED <<looping, task>> ELSE StartItems("pending")
  /\ UNCHANGED <<subscriber, input, pos, reply, failed, redisSide, replies>>

\* A write that fails, or finds that Redis is gone.
Fail == failed' = TRUE /\ at' = "idle"

redisBufferWrite ==
  /\ at = "write"
  /\ \/ obuf = << >> /\ at' = "read" /\ UNCHANGED <<obuf, commands, failed>>
     \/ \E n \in DOMAIN obuf :
          /\ commands' = commands \o SubSeq(obuf, 1, n)
          /\ obuf' = sdsrange(obuf, n)
          /\ at' = IF obuf' = << >> THEN "read" ELSE "write"
          /\ UNCHANGED failed
     \/ obuf # << >> /\ ~reachable /\ Fail /\ UNCHANGED <<obuf, commands>>
  /\ UNCHANGED <<subscriber, asked, meant, looping, stack, stream, reachable, taken, served, replies>>

\* redisReaderFeed appends what a recv returns, cut anywhere.
redisBufferRead ==
  /\ at = "read"
  /\ \/ \E n \in DOMAIN stream :
          /\ input' = sdscatlen(input, SubSeq(stream, 1, n))
          /\ stream' = SubSeq(stream, n + 1, Len(stream))
          /\ StartItems("parse")
          /\ UNCHANGED failed
     \/ stream = << >> /\ ~reachable /\ Fail /\ UNCHANGED <<input, stream, looping, task>>
  /\ UNCHANGED <<subscriber, asked, meant, obuf, pos, reply, commands, reachable, taken, served, replies>>

-----------------------------------------------------------------------------
(***************************************************************************)
(* Redis: answers whole commands, publishes to a subscriber, may go away   *)
(***************************************************************************)
\* The strings of the command at the front, and what is behind it: nothing if it is not whole.
Number(i) == IF i \in DOMAIN commands /\ commands[i] \in DOMAIN string2ll THEN string2ll[commands[i]] ELSE 99
TakeCommand ==
  LET end[k \in 0 .. Number(2)] ==
        IF k = 0 THEN 4 ELSE LET e == end[k - 1] IN e + 4 + Number(e + 2) + 2
      words == [k \in 1 .. Number(2) |-> SubSeq(commands, end[k - 1] + 5, end[k] - 2)]
  IN /\ Number(2) # 99 /\ end[Number(2)] <= Len(commands)
     /\ commands' = SubSeq(commands, end[Number(2)] + 1, Len(commands))
     /\ taken' = Append(taken, words)

ServeReply(r) ==
  /\ stream' = stream \o FlattenSeq([i \in DOMAIN r |-> BytesOf(r[i])])
  /\ served' = Append(served, r)
  /\ UNCHANGED <<subscriber, asked, meant, at, looping, obuf, stack, failed, reachable, replies>>

Redis ==
  /\ reachable
  /\ \/ TakeCommand /\ \E r \in Reply : ServeReply(r)
     \/ /\ subscriber /\ served # << >> /\ Len(served) < MaxReplies
        /\ \E r \in Reply : ServeReply(r)
        /\ UNCHANGED <<commands, taken>>
     \/ /\ reachable' = FALSE
        /\ UNCHANGED <<subscriber, asked, meant, at, looping, obuf, stack, failed, commands, stream, taken, served, replies>>

RedisNext ==
  \/ processItem
  \/ redisReaderGetReply
  \/ redisGetReply
  \/ redisBufferWrite
  \/ redisBufferRead
  \/ Redis

-----------------------------------------------------------------------------
(* The calls return what Redis sent, whole and in order, one reply for     *)
(* each call that did not fail, and only the end of the connection fails   *)
(* one: wherever the bytes are cut, whatever strings hold, and when the    *)
(* buffer is cut in the middle of a reply (read.c redisReaderGetReply and  *)
(* the errors; no call is one reply behind).                               *)
RepliesAnswerCommands ==
  /\ IsPrefix(replies, served)
  /\ at = "idle" /\ ~failed => Len(replies) = asked
  /\ failed => ~reachable

(* Redis takes the words of a command as the caller meant them, a nickname *)
(* with spaces or line ends or none at all too (hiredis.c formats them;    *)
(* chatServerJson.c:356, 467).                                             *)
CommandsArriveAsMeant == IsPrefix(taken, meant)

(* A call that waits for Redis has nothing to return: no reply is left in  *)
(* the buffer or in the middle of the stack (hiredis.c redisGetReply looks *)
(* at what is pending first; the subscriber gets several events at once).  *)
NoReplyWaits == at = "read" /\ stream = << >> => replies = served
================================================================================
