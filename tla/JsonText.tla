------------------------------- MODULE JsonText -------------------------------
(***************************************************************************)
(* JSON texts, as cJSON prints and parses them: the files of the database, *)
(* its answers, the reports to the load balancer.                          *)
(*                                                                         *)
(* A behaviour prints a value and parses what it printed, or parses some   *)
(* other text.  Each goes on to a depth and fails beyond; it fails also    *)
(* when memory runs out, and then gives back what it took, level by level. *)
(*                                                                         *)
(* A value is <<kind, content>>: of an array its elements, of an object    *)
(* <<name, value>> pairs, else characters.  Numbers have the digits 0, 1,  *)
(* 7 and 8; one blank, one control character and one byte stand for all.   *)
(***************************************************************************)
EXTENDS Integers, SequencesExt, FiniteSetsExt

CONSTANTS
  JsonValue, JsonText,       \* what is printed, and what else is parsed
  CJSON_NESTING_LIMIT, INT_MAX,
  default_buffer_size,
  MaxBlocks                  \* bounds how often malloc succeeds: enough for everything

ASSUME JsonTextAssumption ==
  {CJSON_NESTING_LIMIT, INT_MAX, default_buffer_size, MaxBlocks} \subseteq Nat \ {0}

VARIABLES
  printing,                  \* a value, how it is to be printed, how often malloc will succeed
  printed,                   \* what cJSON_Print gave for it
  parsing, parsed            \* a text, how often malloc will succeed; what cJSON_Parse gave

textVars == <<printing, printed, parsing, parsed>>

Nothing == <<"nothing", << >> >>
Quote == "\""
Backslash == "\\"
Newline == "\n"
Tab == "\t"
Control == "BEL"             \* 0x07
Zero == "NUL"                \* the end of a C string
Garbage == "?"               \* what malloc returns
Whitespace == {" ", Newline, Tab, Control, Zero}
Literal == {<<"n", "u", "l", "l">>, <<"f", "a", "l", "s", "e">>, <<"t", "r", "u", "e">>}
Digit == {"0", "1", "7", "8"}
NumberCharacter == Digit \cup {"-", "+", ".", "e"}

Total(Measure(_), s) == FoldLeft(LAMBDA sum, e : sum + Measure(e), 0, s)

\* What malloc gave for a value: its nodes, texts and names.
RECURSIVE Blocks(_)
Blocks(v) ==
  1 + CASE v[1] = "array" -> Total(Blocks, v[2])
        [] v[1] = "object" -> Total(LAMBDA m : 1 + Blocks(m[2]), v[2])
        [] v[1] = "string" -> 1
        [] OTHER -> 0

-----------------------------------------------------------------------------
(***************************************************************************)
(* Printing: pieces, each with the room that is asked for, the bytes, and  *)
(* how far the offset is moved at once                                     *)
(***************************************************************************)
Piece(needed, bytes, moved) == [needed |-> needed, bytes |-> bytes, moved |-> moved]

\* update_offset: on to the zero at the end of what was put.
Update == Piece(0, << >>, 0)

\* Where a value is too deep printing fails, as it does if too much is asked for.
TooDeep == Piece(INT_MAX + 1, << >>, 0)

Tabs(n) == [i \in 1 .. n |-> Tab]

Escaped(c) == CASE c \in {Quote, Backslash} -> <<Backslash, c>>
                [] c = Newline -> <<Backslash, "n">>
                [] c = Control -> <<Backslash, "u", "0", "0", "0", "7">>
                [] OTHER -> <<c>>
AllEscaped(s) == FlattenSeq([i \in DOMAIN s |-> Escaped(s[i])])

\* Mutant: the room for the escapes is forgotten.
print_string_unescaped(s) ==
  <<Piece(Len(s) + 3, <<Quote>> \o AllEscaped(s) \o <<Quote, Zero>>, 0)>>

print_string_ptr(s) ==
  <<Piece(Len(AllEscaped(s)) + 3, <<Quote>> \o AllEscaped(s) \o <<Quote, Zero>>, 0)>>

print_number(digits) == <<Piece(Len(digits) + 1, digits \o <<Zero>>, Len(digits))>>

\* d is the depth inside the array.
RECURSIVE print_value(_, _, _)
print_array(v, format, d) ==
  LET comma == IF format THEN <<",", " ">> ELSE <<",">>
      Comma(i) == IF i = Len(v) THEN << >>
                  ELSE <<Piece(Len(comma) + 1, comma \o <<Zero>>, Len(comma))>>
  IN <<Piece(1, <<"[">>, 1)>>
     \o FlattenSeq([i \in DOMAIN v |-> print_value(v[i], format, d) \o <<Update>> \o Comma(i)])
     \o <<Piece(2, <<"]", Zero>>, 0)>>

print_object(v, format, d) ==
  LET Formatted(s) == IF format THEN s ELSE << >>
      open == <<"{">> \o Formatted(<<Newline>>)
      colon == <<":">> \o Formatted(<<Tab>>)
      End(i) == (IF i = Len(v) THEN << >> ELSE <<",">>) \o Formatted(<<Newline>>)
      Member(i) ==
        Formatted(<<Piece(d, Tabs(d), d)>>)
        \o print_string_ptr(v[i][1]) \o <<Update, Piece(Len(colon), colon, Len(colon))>>
        \o print_value(v[i][2], format, d) \o <<Update>>
        \o <<Piece(Len(End(i)) + 1, End(i) \o <<Zero>>, Len(End(i)))>>
  IN <<Piece(Len(open) + 1, open, Len(open))>>
     \o FlattenSeq([i \in DOMAIN v |-> Member(i)])
     \o <<Piece(IF format THEN d + 1 ELSE 2, Formatted(Tabs(d - 1)) \o <<"}", Zero>>, 0)>>

print_value(v, format, d) ==
  CASE v[1] = "literal" -> <<Piece(Len(v[2]) + 1, v[2] \o <<Zero>>, 0)>>
    [] v[1] = "number" -> print_number(v[2])
    [] v[1] = "string" -> print_string_ptr(v[2])
    [] v[1] \in {"array", "object"} /\ d >= CJSON_NESTING_LIMIT -> <<TooDeep>>
    [] v[1] = "array" /\ d < CJSON_NESTING_LIMIT -> print_array(v[2], format, d + 1)
    [] v[1] = "object" /\ d < CJSON_NESTING_LIMIT -> print_object(v[2], format, d + 1)

\* How long the buffer of p is to be for that; 0 if it cannot be.
ensure(p, needed) ==
  LET least == needed + p.offset + 1
  IN CASE p.offset >= Len(p.buffer) \/ needed > INT_MAX \/ least > INT_MAX -> 0
       [] OTHER -> IF least <= Len(p.buffer) THEN Len(p.buffer)
                   ELSE IF least > INT_MAX \div 2 THEN INT_MAX ELSE least * 2

update_offset(p) ==
  LET zeros == {k \in p.offset + 1 .. Len(p.buffer) : p.buffer[k] = Zero}
  IN IF zeros = {} THEN Len(p.buffer) ELSE Min(zeros) - 1

\* realloc, which frees the buffer if it fails.
Resized(p, n) ==
  CASE n = Len(p.buffer) -> p
    [] n # Len(p.buffer) /\ p.left > 0 ->
         [p EXCEPT !.left = @ - 1,
                   !.buffer = [k \in 1 .. n |-> IF k <= Len(@) THEN @[k] ELSE Garbage]]
    [] OTHER -> [p EXCEPT !.ok = FALSE, !.buffer = << >>, !.live = @ - 1]

Written(p, piece) ==
  [p EXCEPT !.buffer = [k \in DOMAIN @ |-> IF k - p.offset \in DOMAIN piece.bytes
                                           THEN piece.bytes[k - p.offset] ELSE @[k]],
            !.overrun = @ \/ p.offset + Len(piece.bytes) > Len(p.buffer),
            !.offset = @ + piece.moved]

Put(p, piece) ==
  IF ~p.ok THEN p
  ELSE IF piece = Update THEN [p EXCEPT !.offset = update_offset(p)]
  ELSE LET n == ensure(p, piece.needed)
       IN IF n = 0 THEN [p EXCEPT !.ok = FALSE]
          ELSE IF ~Resized(p, n).ok THEN Resized(p, n)
          ELSE Written(Resized(p, n), piece)

\* The text is the buffer, shortened; a buffer that is left after a failure is freed.
Shortened(p) ==
  LET ok == p.ok /\ p.left > 0
  IN [ok |-> ok, overrun |-> p.overrun,
      text |-> IF ok THEN SubSeq(p.buffer, 1, p.offset) ELSE << >>,
      live |-> IF ok \/ p.live = 0 \/ p.buffer = << >> THEN p.live ELSE p.live - 1]

print(v, format, memory) ==
  LET begin == [ok |-> memory > 0, left |-> memory - 1, live |-> IF memory > 0 THEN 1 ELSE 0,
                buffer |-> [k \in 1 .. default_buffer_size |-> Garbage],
                offset |-> 0, overrun |-> FALSE]
  IN Shortened(FoldLeft(Put, begin, print_value(v, format, 0) \o <<Update>>))

-----------------------------------------------------------------------------
(***************************************************************************)
(* Parsing.  s is parse_buffer: the offset, what was found last, whether   *)
(* all went well so far (nothing happens after a failure), the blocks that *)
(* are taken and those that are left.                                      *)
(***************************************************************************)
Failed(s, freed) == [s EXCEPT !.ok = FALSE, !.live = @ - freed]
Found(s, at, value) == [s EXCEPT !.at = at, !.value = value]
Allocate(s) ==
  IF s.ok /\ s.left > 0 THEN [s EXCEPT !.live = @ + 1, !.left = @ - 1] ELSE Failed(s, 0)

\* The character at an offset.
At(text, at) == IF at = Len(text) THEN Zero ELSE text[at + 1]

\* strncmp, within what can be read.
ReadsAs(text, at, word) ==
  at + Len(word) <= Len(text) /\ SubSeq(text, at + 1, at + Len(word)) = word

\* Zero is a blank too, but the last character is not passed.
buffer_skip_whitespace(text, at) ==
  LET visible == {k \in at .. Len(text) : At(text, k) \notin Whitespace}
  IN IF visible = {} THEN Len(text) ELSE Min(visible)
Skip(text, s, at) == IF s.ok THEN [s EXCEPT !.at = buffer_skip_whitespace(text, at)] ELSE s

HexDigit == Digit \cup {"C", "D", "e", "f"}
HexValue(c) == CASE c = "0" -> 0 [] c = "1" -> 1 [] c = "7" -> 7 [] c = "8" -> 8
                 [] c = "C" -> 12 [] c = "D" -> 13 [] c = "e" -> 14 [] c = "f" -> 15

parse_hex4(text, at) ==
  IF \E k \in 0 .. 3 : At(text, at + k) \notin HexDigit THEN 0
  ELSE FoldLeft(LAMBDA h, k : 16 * h + HexValue(At(text, at + k)), 0, <<0, 1, 2, 3>>)

High == 55296 .. 56319       \* 0xD800 .. 0xDBFF
Low == 56320 .. 57343

\* How much of the text is an escape of this kind, and the bytes that it stands for; none if it is
\* wrong, but what is no number is taken for zero.
Utf8(text, at, end, first, second) ==
  LET Bytes(n) == [k \in 1 .. n |-> CASE first = 0 -> Zero [] first = 7 -> Control [] OTHER -> "byte"]
  IN CASE \/ end - at < 6 -> <<0, << >> >>
       [] /\ end - at >= 6 /\ first \notin High \cup Low ->
            <<6, Bytes(IF first < 128 THEN 1 ELSE IF first < 2048 THEN 2 ELSE 3)>>
       [] /\ end - at >= 12 /\ first \in High /\ second \in Low
          /\ At(text, at + 6) = Backslash /\ At(text, at + 7) = "u" -> <<12, Bytes(4)>>
       [] OTHER -> <<0, << >> >>
utf16_literal_to_utf8(text, at, end) ==
  Utf8(text, at, end, parse_hex4(text, at + 2), parse_hex4(text, at + 8))

\* The same for any escape.
Unescaped(text, at, end) ==
  LET c == At(text, at + 1)
  IN CASE c = "n" -> <<2, <<Newline>> >>
       [] c \in {Quote, Backslash} -> <<2, <<c>> >>
       [] c = "u" -> utf16_literal_to_utf8(text, at, end)
       [] OTHER -> <<0, << >> >>

\* The characters from `at' to `end', or Nothing.
RECURSIVE Content(_, _, _, _)
Content(text, at, end, output) ==
  LET unit == IF At(text, at) # Backslash THEN <<1, <<At(text, at)>> >> ELSE Unescaped(text, at, end)
  IN CASE at >= end -> output
       [] at < end /\ unit[1] = 0 -> Nothing
       [] OTHER -> Content(text, at + unit[1], end, output \o unit[2])

\* What a C string has in it.
CString(s) == SubSeq(s, 1, Min({Len(s)} \cup {k - 1 : k \in {k \in DOMAIN s : s[k] = Zero}}))

\* item has taken memory for a string of that size.
Unquoted(item, end, size, content) ==
  IF content = Nothing \/ ~item.ok THEN Failed(item, IF item.ok THEN 1 ELSE 0)
  ELSE [Found(item, end + 1, <<"string", CString(content)>>) EXCEPT !.overrun = @ \/ Len(content) + 1 > size]

\* As much memory is taken as there are characters, an escape being one, and two more.
parse_string(text, s) ==
  LET escape[k \in s.at .. Len(text)] ==
        k > s.at /\ At(text, k) = Backslash /\ ~escape[k - 1]
      ends == {k \in s.at + 1 .. Len(text) : At(text, k) = Quote /\ ~escape[k - 1]}
      end == Min(ends)
      size == end - s.at + 1 - Cardinality({k \in s.at .. end : escape[k]})
  IN CASE ~s.ok -> s
       [] s.ok /\ (At(text, s.at) # Quote \/ ends = {}) -> Failed(s, 0)
       [] OTHER -> Unquoted(Allocate(s), end, size, Content(text, s.at + 1, end, << >>))

AllDigits(s) == s # << >> /\ ToSet(s) \subseteq Digit
Unsigned(s) == IF s # << >> /\ s[1] \in {"-", "+"} THEN Tail(s) ELSE s

\* What strtod takes for a number; one that ends or begins with a point is left out.
IsDouble(s) ==
  LET IsFixed(f) == AllDigits(f) \/ \E k \in DOMAIN f : /\ f[k] = "." /\ AllDigits(SubSeq(f, 1, k - 1))
                                                        /\ AllDigits(SubSeq(f, k + 1, Len(f)))
      u == Unsigned(s)
  IN \/ IsFixed(u)
     \/ \E k \in DOMAIN u : /\ u[k] = "e" /\ IsFixed(SubSeq(u, 1, k - 1))
                            /\ AllDigits(Unsigned(SubSeq(u, k + 1, Len(u))))

\* As much as strtod takes of a copy, which is freed.
parse_number(text, s) ==
  LET ends == {k \in s.at .. Len(text) : At(text, k) \notin NumberCharacter}
      numbers == {k \in s.at + 1 .. Min(ends) : IsDouble(SubSeq(text, s.at + 1, k))}
  IN IF ~Allocate(s).ok \/ numbers = {} THEN Failed(s, 0)
     ELSE Found(s, Max(numbers), <<"number", SubSeq(text, s.at + 1, Max(numbers))>>)

\* d is the depth inside the array.
RECURSIVE parse_value(_, _, _)
RECURSIVE parse_elements(_, _, _, _)
AfterElement(text, item, element, d, items) ==
  LET end == buffer_skip_whitespace(text, element.at)
      more == Append(items, element.value)
  IN CASE ~element.ok -> Failed(element, Total(Blocks, items) + (IF item.ok THEN 1 ELSE 0))
       [] element.ok /\ At(text, end) = "," -> parse_elements(text, [element EXCEPT !.at = end], d, more)
       [] element.ok /\ At(text, end) = "]" -> Found(element, end + 1, <<"array", more>>)
       [] OTHER -> Failed(element, Total(Blocks, more))

parse_elements(text, s, d, items) ==
  LET item == Allocate(s)
  IN AfterElement(text, item, parse_value(text, Skip(text, item, item.at + 1), d), d, items)

parse_array(text, s, d) ==
  LET first == buffer_skip_whitespace(text, s.at + 1)
  IN IF At(text, first) = "]" THEN Found(s, first + 1, <<"array", << >> >>)
     ELSE parse_elements(text, [s EXCEPT !.at = first - 1], d, << >>)

RECURSIVE parse_members(_, _, _, _)
AfterMember(text, item, name, element, d, items) ==
  LET end == buffer_skip_whitespace(text, element.at)
      before == Total(LAMBDA m : 1 + Blocks(m[2]), items)
      more == Append(items, <<name.value[2], element.value>>)
  IN CASE ~element.ok -> Failed(element, before + (IF name.ok THEN 2 ELSE IF item.ok THEN 1 ELSE 0))
       [] element.ok /\ At(text, end) = "," -> parse_members(text, [element EXCEPT !.at = end], d, more)
       [] element.ok /\ At(text, end) = "}" -> Found(element, end + 1, <<"object", more>>)
       [] OTHER -> Failed(element, before + 1 + Blocks(element.value))

AfterName(text, item, name, d, items) ==
  LET colon == buffer_skip_whitespace(text, name.at)
      named == name.ok /\ At(text, colon) = ":"
      element == IF named THEN parse_value(text, Skip(text, name, colon + 1), d) ELSE Failed(name, 0)
  IN AfterMember(text, item, name, element, d, items)

parse_members(text, s, d, items) ==
  LET item == Allocate(s)
      name == IF item.ok /\ item.at + 1 > Len(text) THEN Failed(item, 0)
              ELSE parse_string(text, Skip(text, item, item.at + 1))
  IN AfterName(text, item, name, d, items)

parse_object(text, s, d) ==
  LET first == buffer_skip_whitespace(text, s.at + 1)
  IN IF At(text, first) = "}" THEN Found(s, first + 1, <<"object", << >> >>)
     ELSE parse_members(text, [s EXCEPT !.at = first - 1], d, << >>)

parse_value(text, s, d) ==
  LET c == At(text, s.at)
      literals == {w \in Literal : ReadsAs(text, s.at, w)}
  IN CASE ~s.ok -> s
       [] s.ok /\ literals # {} -> LET w == CHOOSE w \in literals : TRUE
                                   IN Found(s, s.at + Len(w), <<"literal", w>>)
       [] s.ok /\ c = Quote -> parse_string(text, s)
       [] s.ok /\ c \in Digit \cup {"-"} -> parse_number(text, s)
       [] s.ok /\ c = "[" /\ d < CJSON_NESTING_LIMIT -> parse_array(text, s, d + 1)
       [] s.ok /\ c = "{" /\ d < CJSON_NESTING_LIMIT -> parse_object(text, s, d + 1)
       [] OTHER -> Failed(s, 0)

\* What follows the value is not looked at.
cJSON_Parse(text, memory) ==
  LET item == Allocate([ok |-> TRUE, at |-> 0, value |-> Nothing, live |-> 0, left |-> memory,
                        overrun |-> FALSE])
      OrFreed(s) == IF s.ok THEN s ELSE Failed(s, IF item.ok THEN 1 ELSE 0)
  IN OrFreed(parse_value(text, Skip(text, item, 0), 0))

-----------------------------------------------------------------------------
(***************************************************************************)
(* The behaviours                                                          *)
(***************************************************************************)
TextInit == printing = << >> /\ printed = << >> /\ parsing = << >> /\ parsed = << >>

\* cJSON_Print, cJSON_PrintUnformatted.
PrintValue(v, format, memory) ==
  /\ printing' = <<v, format, memory>> /\ printed' = print(v, format, memory)
  /\ UNCHANGED <<parsing, parsed>>

ParseText(text, memory) ==
  /\ parsing' = <<text, memory>> /\ parsed' = cJSON_Parse(text, memory)
  /\ UNCHANGED <<printing, printed>>

TextNext ==
  /\ parsing = << >>
  /\ \/ /\ printing = << >>
        /\ \E memory \in 0 .. MaxBlocks :
             \/ \E v \in JsonValue, format \in BOOLEAN : PrintValue(v, format, memory)
             \/ \E text \in JsonText : ParseText(text, memory)
     \/ /\ printing # << >> /\ printed.ok
        /\ \E memory \in 0 .. MaxBlocks : ParseText(printed.text, memory)

-----------------------------------------------------------------------------
(***************************************************************************)
(* Properties                                                              *)
(***************************************************************************)
\* What a value looks like.
Chars(v, format) ==
  LET pieces == print_value(v, format, 0)
  IN SelectSeq(FlattenSeq([i \in DOMAIN pieces |-> pieces[i].bytes]), LAMBDA c : c # Zero)

RECURSIVE Depth(_)
Depth(v) ==
  CASE v[1] = "array" -> 1 + Max({0} \cup {Depth(v[2][i]) : i \in DOMAIN v[2]})
    [] v[1] = "object" -> 1 + Max({0} \cup {Depth(v[2][i][2]) : i \in DOMAIN v[2]})
    [] OTHER -> 0

(* What a value is printed to is all its pieces, none of which goes beyond *)
(* the end of the buffer, and parses to that value; only a value that is   *)
(* too deep or too long is not printed, unless memory runs out, and what   *)
(* was taken for it is then given back.                                    *)
PrintedTextsParse ==
  printing # << >> =>
    LET v == printing[1]
        text == Chars(v, printing[2])
    IN /\ ~printed.overrun
       /\ printed.ok => Depth(v) <= CJSON_NESTING_LIMIT /\ printed.text = text
       /\ printed.live = IF printed.ok THEN 1 ELSE 0
       /\ /\ Depth(v) <= CJSON_NESTING_LIMIT /\ Len(text) + 2 <= INT_MAX
          /\ printing[3] = MaxBlocks
          => printed.ok
       /\ parsing # << >> /\ parsing[2] = MaxBlocks => parsed.ok /\ parsed.value = v

\* The tokens of a value, as the grammar of JSON has them.
RECURSIVE Tokens(_)
Tokens(v) ==
  LET Listed(t) == FlattenSeq([i \in DOMAIN t |-> (IF i = 1 THEN << >> ELSE << <<",">> >>) \o t[i]])
      Quoted(s) == <<Quote>> \o AllEscaped(s) \o <<Quote>>
  IN CASE v[1] = "array" -> << <<"[">> >> \o Listed([i \in DOMAIN v[2] |-> Tokens(v[2][i])])
                            \o << <<"]">> >>
       [] v[1] = "object" ->
            << <<"{">> >>
            \o Listed([i \in DOMAIN v[2] |-> <<Quoted(v[2][i][1]), <<":">> >> \o Tokens(v[2][i][2])])
            \o << <<"}">> >>
       [] v[1] = "string" -> <<Quoted(v[2])>>
       [] OTHER -> <<v[2]>>

\* Escapes that nothing is printed to: they stand for characters in more than one way.
HasOtherEscapes(text) ==
  \E k \in 1 .. Len(text) - 1 :
    text[k] = Backslash /\ text[k + 1] = "u" /\ ~ReadsAs(text, k - 1, Escaped(Control))

\* Where v ends if the text begins with its tokens, between which there may be blanks; else -1.
EndOf(v, text) ==
  LET After(at, token) ==
        LET begin == buffer_skip_whitespace(text, at)
        IN IF at >= 0 /\ ReadsAs(text, begin, token) THEN begin + Len(token) ELSE -1
  IN FoldLeft(After, 0, Tokens(v))

(* A text is parsed as a value that it begins with, the longest one, and   *)
(* only a text that begins with no value, or with one that is too deep, is *)
(* refused, unless memory runs out; what was taken is what the value       *)
(* needs, and it is all given back after a failure, wherever that was.     *)
TextsAreParsed ==
  parsing # << >> =>
    LET text == parsing[1]
        begun == {v \in JsonValue : Depth(v) <= CJSON_NESTING_LIMIT /\ EndOf(v, text) >= 0}
    IN /\ ~parsed.overrun
       /\ parsed.live = IF parsed.ok THEN Blocks(parsed.value) ELSE 0
       /\ parsed.ok => /\ EndOf(parsed.value, text) = parsed.at \/ HasOtherEscapes(text)
                       /\ Depth(parsed.value) <= CJSON_NESTING_LIMIT
                       /\ \A v \in begun : EndOf(v, text) <= parsed.at
       /\ parsing[2] = MaxBlocks /\ begun # {} => parsed.ok

(* Printing and parsing agree, within the memory they take: what the two   *)
(* definitions above say.                                                  *)
TextsKeepTheirValues == PrintedTextsParse /\ TextsAreParsed

================================================================================
