----------------------------- MODULE HttpUtils ------------------------------
(***************************************************************************)
(* The string functions of hw4/HttpUtils.cc, and those of boost that they  *)
(* and the request handlers use.  A string is the sequence of its ASCII    *)
(* codes, so that the arithmetic on hexadecimal digits is the code's.      *)
(***************************************************************************)
EXTENDS Integers, Sequences, SequencesExt, TLC

SP      == 32
Quote   == 34
Percent == 37
Amp     == 38
Apos    == 39
Plus    == 43
Dot     == 46
Less    == 60
Equals  == 61
Greater == 62
Question == 63

-----------------------------------------------------------------------------
(* ctype.h and boost's to_lower and trim. *)
toupper(c) == IF c \in 97..122 THEN c - 32 ELSE c
tolower(c) == IF c \in 65..90 THEN c + 32 ELSE c
isspace(c) == c = SP \/ c \in 9..13

to_lower(s) == [n \in DOMAIN s |-> tolower(s[n])]

trim(s) ==
    LET solid == {n \in DOMAIN s : ~isspace(s[n])}
    IN  IF solid = {} THEN <<>> ELSE SubSeq(s, Min(solid), Max(solid))

(* boost::split: the pieces between the delimiters, empty ones included;   *)
(* with token_compress_on, delimiters in a row count as one.               *)
split(s, delim) ==
    FoldLeft(LAMBDA pieces, c :
                IF c = delim THEN Append(pieces, <<>>)
                ELSE [pieces EXCEPT ![Len(pieces)] = Append(@, c)],
             << <<>> >>, s)

compress(s, delim) ==
    FoldLeft(LAMBDA kept, c :
                IF c = delim /\ kept # <<>> /\ Last(kept) = delim THEN kept ELSE Append(kept, c),
             <<>>, s)

(* boost::replace_all of a single character. *)
replace_all(s, c, by) ==
    FlattenSeq([n \in DOMAIN s |-> IF s[n] = c THEN by ELSE <<s[n]>>])

-----------------------------------------------------------------------------
(* The escapes &amp; &quot; &apos; &lt; and &gt;. *)
Entity ==
    (Amp     :> <<38, 97, 109, 112, 59>>) @@
    (Quote   :> <<38, 113, 117, 111, 116, 59>>) @@
    (Apos    :> <<38, 97, 112, 111, 115, 59>>) @@
    (Less    :> <<38, 108, 116, 59>>) @@
    (Greater :> <<38, 103, 116, 59>>)

(* One replace_all after the other, "&" first: the others' escapes have    *)
(* one, too.                                                               *)
EscapeHtml(from) ==
    FoldLeft(LAMBDA ret, c : replace_all(ret, c, Entity[c]),
             from, <<Amp, Quote, Apos, Less, Greater>>)

(* The character after next may be past the end of the string: a space. *)
CharAt(s, n) == IF n <= Len(s) THEN toupper(s[n]) ELSE SP

ishex(c) == c \in 48..57 \cup 65..70
hex(c)   == IF c >= 65 THEN 10 + (c - 65) ELSE c - 48

(* The code of the escape sequence at a position, and whether it is one    *)
(* that is decoded.                                                        *)
Code(s, n) == 16 * hex(CharAt(s, n + 1)) + hex(CharAt(s, n + 2))

Escaped(s, n) ==
    /\ s[n] = Percent
    /\ ishex(CharAt(s, n + 1)) /\ ishex(CharAt(s, n + 2))
    /\ Code(s, n) \in 32..127

(* One pass from left to right: what an escape sequence stands for is not  *)
(* decoded again, and "+" is a space.                                      *)
URIDecode(from) ==
    LET decoded[pos \in 1..(Len(from) + 1)] ==
            CASE pos > Len(from) -> <<>>
              [] pos <= Len(from) /\ from[pos] = Plus -> <<SP>> \o decoded[pos + 1]
              [] pos <= Len(from) /\ Escaped(from, pos) -> <<Code(from, pos)>> \o decoded[pos + 3]
              [] OTHER -> <<from[pos]>> \o decoded[pos + 1]
    IN  decoded[1]

-----------------------------------------------------------------------------
(* URLParser::Parse: the path, and the value of each field=value after the *)
(* first "?"; the last value of a field counts.                            *)
Path(url) == URIDecode(split(url, Question)[1])

(* Mutant: the arguments are decoded before they are taken apart. *)
Args_DecodeFirst(url) ==
    LET ps == split(url, Question)
        vals == IF Len(ps) < 2 THEN <<>> ELSE split(URIDecode(ps[2]), Amp)
        fvs == SelectSeq([n \in DOMAIN vals |-> split(vals[n], Equals)], LAMBDA fv : Len(fv) = 2)
    IN  [n \in DOMAIN fvs |-> [field |-> fvs[n][1], value |-> fvs[n][2]]]

Args(url) ==
    LET ps == split(url, Question)
        vals == IF Len(ps) < 2 THEN <<>> ELSE split(ps[2], Amp)
        fvs == SelectSeq([n \in DOMAIN vals |-> split(vals[n], Equals)], LAMBDA fv : Len(fv) = 2)
    IN  [n \in DOMAIN fvs |-> [field |-> URIDecode(fvs[n][1]), value |-> URIDecode(fvs[n][2])]]

(* args()[field], which is empty for a field that is not there. *)
Arg(url, field) ==
    LET given == SelectSeq(Args(url), LAMBDA fv : fv.field = field)
    IN  IF given = <<>> THEN <<>> ELSE Last(given).value
=============================================================================
