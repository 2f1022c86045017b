----------------------------- MODULE FileParser -----------------------------
(***************************************************************************)
(* hw2/FileParser.c, from the contents of a file to its words and their    *)
(* positions.  (ReadFileToString, which gets the contents, makes system    *)
(* calls: its steps are in CrawlFileTree.)                                 *)
(*                                                                         *)
(* A text is a sequence of characters, a word a sequence of lower-case     *)
(* letters, a position an offset from 0.  The tables of hw2 are those of   *)
(* KeyValueMap, here as functions.  Their keys are FNVHash64 hashes; all   *)
(* that matters of a hash is which strings share it.                       *)
(***************************************************************************)
EXTENDS Integers, Sequences, SequencesExt, FiniteSetsExt, TLC

CONSTANTS
    tolower,     \* a function: the letters, each with its lower-case form
    NUL,         \* the character '\0'
    NonASCII,    \* a character above ASCII_UPPER_BOUND
    Colliding,   \* strings that FNVHash64 does not tell apart
    NULL,        \* the null pointer
    Exits        \* "returned" by what ends the process: a failed Verify333

isalpha(c) == c \in DOMAIN tolower

(* The hash of a string, as the set of the strings that have it. *)
FNVHash64(s) == IF s \in Colliding THEN Colliding ELSE {s}

(* strlen: a string ends at its first NUL. *)
CString(buf) ==
    LET end == SelectInSeq(buf, LAMBDA c : c = NUL)
    IN  IF end = 0 THEN buf ELSE SubSeq(buf, 1, end - 1)

(* A table with one key more; a key that it has keeps its value. *)
Extended(f, x, v) == [y \in DOMAIN f \cup {x} |-> IF y \in DOMAIN f THEN f[y] ELSE v]

-----------------------------------------------------------------------------
(* Mutant: the first position of a word is the only one. *)
AddWordPosition_First(tab, word, pos) ==
    LET key == FNVHash64(word)
    IN  IF key \notin DOMAIN tab THEN Extended(tab, key, [word |-> word, positions |-> <<pos>>])
        ELSE IF tab[key].word # word THEN Exits
        ELSE tab

(* The word is new, or another word has its hash, or it has one more       *)
(* position.                                                               *)
AddWordPosition(tab, word, pos) ==
    LET key == FNVHash64(word)
    IN  IF key \notin DOMAIN tab THEN Extended(tab, key, [word |-> word, positions |-> <<pos>>])
        ELSE IF tab[key].word # word THEN Exits
        ELSE [tab EXCEPT ![key].positions = Append(@, pos)]

(* The value of wordstart when curptr is at k (both counted from 1): every *)
(* character that is no letter moves it behind itself.                     *)
WordStart(content) ==
    LET wordstart[k \in 1..Len(content)] ==
          IF k = 1 THEN 1
          ELSE IF isalpha(content[k - 1]) THEN wordstart[k - 1] ELSE k
    IN  wordstart

(* A character that is no letter ends the word before it, if there is one. *)
EndsWord(content, k) == k > 1 /\ ~isalpha(content[k]) /\ isalpha(content[k - 1])

InsertContent(content) ==
    LET start(k) == WordStart(content)[k]
        word(k) == [j \in 1..(k - start(k)) |-> tolower[content[start(k) + j - 1]]]
        step(tab, k) ==
          IF tab = Exits \/ ~EndsWord(content, k) THEN tab
          ELSE AddWordPosition(tab, word(k), start(k) - 1)
        loop[k \in 0..Len(content)] == IF k = 0 THEN <<>> ELSE step(loop[k - 1], k)
    IN  loop[Len(content)]

ParseIntoWordPositionsTable(filecontents) ==
    LET text == CString(filecontents)
        tab == InsertContent(text)
    IN  IF text = <<>> \/ NonASCII \in ToSet(text) THEN NULL
        ELSE IF tab = <<>> THEN NULL
        ELSE tab

-----------------------------------------------------------------------------
(* The reference: the words of a text are its maximal runs of letters. *)

Runs(text) ==
    {r \in (1..Len(text)) \X (1..Len(text)) :
        /\ r[1] <= r[2]
        /\ \A k \in r[1]..r[2] : isalpha(text[k])
        /\ r[1] = 1 \/ ~isalpha(text[r[1] - 1])
        /\ r[2] = Len(text) \/ ~isalpha(text[r[2] + 1])}

Occurrence(text, r) ==
    [word |-> [k \in 1..(r[2] - r[1] + 1) |-> tolower[text[r[1] + k - 1]]], pos |-> r[1] - 1]

(* The occurrences of words in a text. *)
Words(text) == {Occurrence(text, r) : r \in Runs(text)}

(* Those that do not end where the text ends. *)
EndedWords(text) == {Occurrence(text, r) : r \in {s \in Runs(text) : s[2] < Len(text)}}
=============================================================================
