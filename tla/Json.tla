-------------------------------- MODULE Json --------------------------------
(***************************************************************************)
(* cjson.c and cjson_print.c: strings, numbers and arrays printed as text  *)
(* and parsed again.  Text and string values are sequences of byte codes.  *)
(* print_value, parse_value, parse_array and the functions on objects are  *)
(* declared and missing: print_value is the external dispatch on the type. *)
(*                                                                         *)
(* A number is [neg, whole, frac], a decimal with seven places, one more   *)
(* than print_number keeps; doubles are taken to be exact on these, and    *)
(* what they do to a seventh place 5 is left open.  Numbers beyond int     *)
(* ("%.0f") are out of the range of the model's integers.                  *)
(***************************************************************************)
EXTENDS Integers, SequencesExt, TLC

CONSTANTS
    Items,          \* the items printed: [type, value]
    CodePoints,     \* Unicode characters that are parsed from their escapes
    Literals        \* pairs of a number's text and its value

VARIABLES
    item,           \* the item
    fmt,            \* the argument of print_array: 1 puts a space after a comma
    jpc,            \* where the program is
    entries,        \* print_array's texts of the children so far
    text, room,     \* the text and the size of the buffer it is in
    live,           \* the allocations that exist, as <<name, index>>
    parsed          \* what the parser made of the text

jvars == <<item, fmt, jpc, entries, text, room, live, parsed>>

Quote == 34
Slash == 92
Digit(c) == c \in 48..57
At(s, p) == IF p \in DOMAIN s THEN s[p] ELSE 0     \* 0 ends a C string

JsonInit ==
    /\ item = [type |-> "Invalid"] /\ fmt = 0
    /\ jpc = "idle" /\ entries = <<>> /\ text = <<>> /\ room = 0
    /\ live = {} /\ parsed = [type |-> "Invalid"]

-----------------------------------------------------------------------------
(* Numbers. *)

RECURSIVE Decimal(_, _)
Decimal(n, width) ==
    IF n < 10 /\ width <= 1 THEN <<48 + n>>
    ELSE Append(Decimal(n \div 10, width - 1), 48 + (n % 10))

Unit == 10^7     \* frac counts in these parts of 1

\* n / 10^k, rounded to the nearest.
Rounded(n, k) == (n + 10^k \div 2) \div 10^k

\* The mantissa of "%e": seven digits with a point after the first.
Mantissa(n) == LET d == Decimal(n, 7) IN <<d[1], 46>> \o Tail(d)

(***************************************************************************)
(* print_number: "%d" for what is an int, "%f" for what is not, but "%e"   *)
(* for what is nearer to 0 than 10^-6 or farther away than 10^9.           *)
(***************************************************************************)
print_number(n) ==
    LET sign  == IF n.neg THEN <<45>> ELSE <<>>
        micro == Rounded(n.frac, 1)
    IN  IF n.frac = 0 THEN [text |-> sign \o Decimal(n.whole, 1), room |-> 21]
        ELSE [room |-> 64,
              text |-> sign \o
                IF n.whole = 0 /\ n.frac < 10
                THEN Mantissa(n.frac * 10^6) \o <<101, 45, 48, 55>>
                ELSE IF n.whole >= 10^9
                THEN Mantissa(Rounded(n.whole, 3)) \o <<101, 43, 48, 57>>
                ELSE Decimal(n.whole + micro \div 10^6, 1) \o <<46>> \o Decimal(micro % 10^6, 6)]

\* The first place from p on that is not a digit.
RECURSIVE AfterDigits(_, _)
AfterDigits(s, p) == IF Digit(At(s, p)) THEN AfterDigits(s, p + 1) ELSE p

Natural(digits) == FoldLeft(LAMBDA n, d : 10 * n + (d - 48), 0, digits)

(***************************************************************************)
(* parse_number at place p: the sign, the digits n is made of, the power   *)
(* of ten (scale and subscale) and the place after the number.             *)
(***************************************************************************)
parse_number(s, p) ==
    LET p1   == IF At(s, p) = 45 THEN p + 1 ELSE p
        p2   == IF At(s, p1) = 48 THEN p1 + 1 ELSE p1
        p3   == IF At(s, p2) \in 49..57 THEN AfterDigits(s, p2) ELSE p2
        frac == At(s, p3) = 46 /\ Digit(At(s, p3 + 1))
        p4   == IF frac THEN AfterDigits(s, p3 + 1) ELSE p3
        expo == At(s, p4) \in {101, 69}
        p5   == IF At(s, p4 + 1) \in {43, 45} THEN p4 + 2 ELSE p4 + 1
        p6   == IF expo THEN AfterDigits(s, p5) ELSE p4
        subscale == IF expo THEN Natural(SubSeq(s, p5, p6 - 1)) ELSE 0
    IN  [neg    |-> p1 # p,
         digits |-> SubSeq(s, p2, p3 - 1) \o (IF frac THEN SubSeq(s, p3 + 1, p4 - 1) ELSE <<>>),
         exp    |-> (IF expo /\ At(s, p4 + 1) = 45 THEN -subscale ELSE subscale)
                    - (IF frac THEN p4 - p3 - 1 ELSE 0),
         next   |-> p6]

\* sign * n * pow(10, exp), as a number with seven places.
Value(r) ==
    LET zeros(k) == [i \in 1..k |-> 48]
        shift    == r.exp + 7
        padded   == zeros(8) \o (IF shift >= 0 THEN r.digits \o zeros(shift)
                                 ELSE SubSeq(r.digits, 1, Len(r.digits) + shift))
        cut      == Len(padded) - 7
        whole    == Natural(SubSeq(padded, 1, cut))
        frac     == Natural(SubSeq(padded, cut + 1, Len(padded)))
    IN  [neg |-> r.neg /\ whole + frac > 0, whole |-> whole, frac |-> frac]

-----------------------------------------------------------------------------
(* Strings. *)

\* The letter after the backslash, for the characters that have one.
Escape == 8 :> 98 @@ 12 :> 102 @@ 10 :> 110 @@ 13 :> 114 @@ 9 :> 116
          @@ Quote :> Quote @@ Slash :> Slash

Hex(n) == IF n < 10 THEN 48 + n ELSE 87 + n

\* One character of a string as print_string writes it.
PrintChar(c) ==
    IF c > 31 /\ c # Quote /\ c # Slash THEN <<c>>
    ELSE IF c \in DOMAIN Escape THEN <<Slash, Escape[c]>>
    ELSE <<Slash, 117, 48, 48, Hex(c \div 16), Hex(c % 16)>>

\* The long form of the other control characters is not counted.
PrintLengthShort(c) == 1 + (IF c \in DOMAIN Escape THEN 1 ELSE 0)

\* What the first loop of print_string counts for a character.
PrintLength(c) == 1 + (IF c \in DOMAIN Escape THEN 1 ELSE IF c < 32 THEN 5 ELSE 0)

print_string(value) ==
    [text |-> <<Quote>> \o FlattenSeq([i \in DOMAIN value |-> PrintChar(value[i])]) \o <<Quote>>,
     room |-> 3 + FoldLeft(LAMBDA n, c : n + PrintLength(c), 0, value)]

\* The bytes of a character from its code: firstByteMark in the first one.
Utf8Length(uc) == IF uc < 128 THEN 1 ELSE IF uc < 2048 THEN 2 ELSE IF uc < 65536 THEN 3 ELSE 4
firstByteMark == <<0, 192, 224, 240>>
Utf8(uc) ==
    LET len == Utf8Length(uc)
    IN  [i \in 1..len |-> IF i = 1 THEN firstByteMark[len] + uc \div 64 ^ (len - 1)
                          ELSE 128 + ((uc \div 64 ^ (len - i)) % 64)]

HexDigit(c) == IF Digit(c) THEN c - 48 ELSE c - 87
Hex4(s, p) == FoldLeft(LAMBDA n, c : 16 * n + HexDigit(c), 0, SubSeq(s, p, p + 3))
HighHalf == 55296..56319
LowHalf  == 56320..57343

\* The escape whose u is at place p: what it adds, and the place after it.
ParseUnicode(s, p) ==
    LET uc   == Hex4(s, p + 1)
        two  == At(s, p + 5) = Slash /\ At(s, p + 6) = 117
        uc2  == Hex4(s, p + 7)
    IN  IF uc = 0 \/ uc \in LowHalf \/ (uc \in HighHalf /\ ~two)
        THEN [out |-> <<>>, next |-> p + 5]
        ELSE IF uc \in HighHalf
        THEN [out  |-> IF uc2 \in LowHalf THEN Utf8(65536 + (uc % 1024) * 1024 + (uc2 % 1024))
                       ELSE <<>>,
              next |-> p + 11]
        ELSE [out |-> Utf8(uc), next |-> p + 5]

Unescape == 98 :> 8 @@ 102 :> 12 @@ 110 :> 10 @@ 114 :> 13 @@ 116 :> 9

ParseChar(s, p) ==
    LET c == At(s, p + 1)
    IN  IF s[p] # Slash THEN [out |-> <<s[p]>>, next |-> p + 1]
        ELSE IF c = 117 THEN ParseUnicode(s, p + 1)
        ELSE [out |-> <<IF c \in DOMAIN Unescape THEN Unescape[c] ELSE c>>, next |-> p + 2]

RECURSIVE ParseFrom(_, _)
ParseFrom(s, p) ==
    IF At(s, p) \in {Quote, 0} THEN [value |-> <<>>, next |-> IF At(s, p) = Quote THEN p + 1 ELSE p]
    ELSE LET one  == ParseChar(s, p)
             rest == ParseFrom(s, one.next)
         IN  [rest EXCEPT !.value = one.out \o @]

\* What the first loop of parse_string counts: an escape is one.
RECURSIVE ParseLength(_, _)
ParseLength(s, p) ==
    IF At(s, p) \in {Quote, 0} THEN 0
    ELSE 1 + ParseLength(s, IF s[p] = Slash THEN p + 2 ELSE p + 1)

(***************************************************************************)
(* parse_string at place p, where the quote is: the value, the size of the *)
(* buffer allocated for it, and the place after the closing quote.         *)
(***************************************************************************)
parse_string(s, p) ==
    LET r == ParseFrom(s, p + 1)
    IN  [value |-> r.value, next |-> r.next, room |-> ParseLength(s, p + 1) + 1]

-----------------------------------------------------------------------------
(* Printing and parsing an item; malloc fails where ok is FALSE. *)

print_value(it) == IF it.type = "String" THEN print_string(it.value) ELSE print_number(it.value)

\* A program has an item and prints it, with or without spaces.
cJSON_Print(it, spaces) ==
    /\ jpc = "idle"
    /\ jpc' = "start" /\ item' = it /\ fmt' = spaces
    /\ UNCHANGED <<entries, text, room, live, parsed>>

\* A slip: the entries in the table are forgotten.
FreeTableOnly == {<<"entries", 0>>}

\* print_array's table was cleared when it was allocated, so that the entries in
\* it are those that were printed; they are freed, then the table.
FreeEntries == {<<"entry", i>> : i \in DOMAIN entries} \cup {<<"entries", 0>>}

\* 0 is returned; once there is a table, it is freed before.
Fail ==
    /\ jpc' = "failed"
    /\ live' = IF jpc = "entries" THEN live \ FreeEntries ELSE live
    /\ UNCHANGED <<entries, text, room>>

PrintScalar(ok) ==
    /\ jpc = "start" /\ item.type # "Array"
    /\ IF ok THEN /\ text' = print_value(item).text /\ room' = print_value(item).room
                  /\ live' = live \cup {<<"out", 0>>} /\ jpc' = "printed" /\ UNCHANGED entries
       ELSE Fail
    /\ UNCHANGED <<item, fmt, parsed>>

\* print_array up to its loop: "[]", or the table of entries.
print_array(ok) ==
    /\ jpc = "start" /\ item.type = "Array"
    /\ IF ~ok THEN Fail
       ELSE IF item.value = <<>>
       THEN /\ text' = <<91, 93>> /\ room' = 3
            /\ live' = live \cup {<<"out", 0>>} /\ jpc' = "printed" /\ UNCHANGED entries
       ELSE /\ live' = live \cup {<<"entries", 0>>} /\ jpc' = "entries" /\ UNCHANGED <<entries, text, room>>
    /\ UNCHANGED <<item, fmt, parsed>>

\* One child.
PrintEntry(ok) ==
    LET i == Len(entries) + 1
    IN  /\ jpc = "entries" /\ i <= Len(item.value)
        /\ IF ok THEN /\ entries' = Append(entries, print_value(item.value[i]).text)
                      /\ live' = live \cup {<<"entry", i>>} /\ UNCHANGED <<text, room, jpc>>
           ELSE Fail
        /\ UNCHANGED <<item, fmt, parsed>>

ComposeArray(ok) ==
    LET comma == IF fmt = 1 THEN <<44, 32>> ELSE <<44>>
        body  == FlattenSeq([i \in DOMAIN entries |->
                     IF i = Len(entries) THEN entries[i] ELSE entries[i] \o comma])
    IN  /\ jpc = "entries" /\ Len(entries) = Len(item.value)
        /\ IF ok THEN /\ text' = <<91>> \o body \o <<93>>
                      /\ room' = 5 + FoldLeft(LAMBDA n, e : n + Len(e) + 2 + fmt, 0, entries)
                      /\ live' = (live \ FreeEntries) \cup {<<"out", 0>>}
                      /\ jpc' = "printed" /\ UNCHANGED entries
           ELSE Fail
        /\ UNCHANGED <<item, fmt, parsed>>

\* The text is parsed: the item first, without a value.
cJSON_New_Item(ok) ==
    /\ jpc = "printed" /\ item.type # "Array"
    /\ IF ok THEN jpc' = "item" /\ live' = live \cup {<<"item", 0>>}
       ELSE jpc' = "parse failed" /\ UNCHANGED live
    /\ UNCHANGED <<item, fmt, entries, text, room, parsed>>

ParseNumber ==
    /\ jpc = "item" /\ text[1] # Quote
    /\ jpc' = "parsed"
    /\ parsed' = [type |-> "Number", value |-> Value(parse_number(text, 1))]
    /\ UNCHANGED <<item, fmt, entries, text, room, live>>

ParseString(ok) ==
    /\ jpc = "item" /\ text[1] = Quote
    /\ IF ok THEN /\ jpc' = "parsed" /\ live' = live \cup {<<"valuestring", 0>>}
                  /\ parsed' = [type |-> "String", value |-> parse_string(text, 1).value]
       ELSE jpc' = "no string" /\ UNCHANGED <<live, parsed>>
    /\ UNCHANGED <<item, fmt, entries, text, room>>

\* The caller is done with the item, or its parsing failed half way: then
\* valuestring is still NULL.
cJSON_Delete ==
    /\ jpc \in {"parsed", "no string"}
    /\ jpc' = "deleted"
    /\ live' = live \ ({<<"item", 0>>} \cup (IF parsed.type = "String" THEN {<<"valuestring", 0>>} ELSE {}))
    /\ UNCHANGED <<item, fmt, entries, text, room, parsed>>

JsonNext ==
    \/ \E it \in Items, spaces \in {0, 1} : cJSON_Print(it, spaces)
    \/ \E ok \in BOOLEAN :
          \/ PrintScalar(ok) \/ print_array(ok) \/ PrintEntry(ok) \/ ComposeArray(ok)
          \/ cJSON_New_Item(ok) \/ ParseString(ok)
    \/ ParseNumber \/ cJSON_Delete

-----------------------------------------------------------------------------

\* The items of a printed array, read one after the other; places after the
\* last one or without a comma give no item.
RECURSIVE ReadArray(_, _)
ReadArray(s, p) ==
    LET string == At(s, p) = Quote
        next   == IF string THEN parse_string(s, p).next ELSE parse_number(s, p).next
        one    == IF string THEN [type |-> "String", value |-> parse_string(s, p).value]
                  ELSE [type |-> "Number", value |-> Value(parse_number(s, p))]
    IN  IF At(s, p) \in {0, 93} \/ next = p THEN <<>>
        ELSE <<one>> \o (IF At(s, next) = 44 THEN ReadArray(s, next + 1 + fmt) ELSE <<>>)

\* How a character looks as an escape, in two halves if it needs them.
Escaped(cp) ==
    LET u(n) == <<Slash, 117>> \o [i \in 1..4 |-> Hex((n \div 16 ^ (4 - i)) % 16)]
    IN  IF cp < 65536 THEN u(cp)
        ELSE u(55296 + (cp - 65536) \div 1024) \o u(56320 + ((cp - 65536) % 1024))

\* The bytes are the shortest UTF-8 form of a character.
Denotes(bytes, cp) ==
    LET len  == Len(bytes)
        lead == <<0, 192, 224, 240>>
        sum  == FoldLeft(LAMBDA n, b : 64 * n + (b - 128), bytes[1] - lead[len], Tail(bytes))
    IN  /\ len \in 1..4 /\ sum = cp
        /\ \A i \in 2..len : bytes[i] \in 128..191
        /\ len > 1 => cp >= <<0, 128, 2048, 65536>>[len]

\* The number p as print_number and parse_number give n back: the same if n is an
\* int, has six places or is nearer to 0 than 10^-6; half of the sixth place away
\* at most; and from 10^9 on, where only seven digits are kept, half a thousand.
Near(n, p) ==
    /\ p.neg = n.neg
    /\ IF n.whole >= 10^9 /\ n.frac # 0 THEN p.whole - n.whole \in -500..500
       ELSE /\ p.whole - n.whole \in 0..1
            /\ (p.whole - n.whole) * Unit + p.frac - n.frac \in -5..5
            /\ (n.frac % 10 = 0 \/ (n.whole = 0 /\ n.frac < 10)) => p = n

SameItem(it, back) ==
    /\ it.type = back.type
    /\ IF it.type = "Number" THEN Near(it.value, back.value) ELSE it.value = back.value

(***************************************************************************)
(* What is printed is parsed back: every string, with control characters,  *)
(* quotes and backslashes in any combination, every array, every number    *)
(* but for what the format of print_number drops; in the buffers whose     *)
(* size a separate counting loop (print_string, parse_string, print_array) *)
(* worked out before; and only the text is left allocated, or nothing when *)
(* a malloc of the printer fails, however many entries were printed.       *)
(* Escapes of any character, in one half or two, give its UTF-8 bytes.     *)
(***************************************************************************)
JsonSurvives ==
    /\ jpc = "failed" => live = {}
    /\ jpc \in {"printed", "parse failed", "deleted"} => live = {<<"out", 0>>}
    /\ jpc = "printed" => Len(text) + 1 <= room
    /\ jpc = "printed" /\ item.type = "Array" => ReadArray(text, 2) = item.value
    /\ jpc = "parsed" => SameItem(item, parsed)
    /\ jpc = "parsed" /\ item.type = "String" => Len(parsed.value) + 1 <= parse_string(text, 1).room
    /\ jpc = "start" =>
         /\ \A cp \in CodePoints :
              LET r == parse_string(<<Quote>> \o Escaped(cp) \o <<Quote>>, 1)
              IN  Denotes(r.value, cp) /\ Len(r.value) + 1 <= r.room
         /\ \A l \in Literals : Value(parse_number(l[1], 1)) = l[2]
=============================================================================
