---------------------------- MODULE MCSearchShell ---------------------------
(* Small file systems and inputs for SearchShell.                          *)
EXTENDS SearchShell

MCtolower == "a" :> "a" @@ "A" :> "a" @@ "b" :> "b"
MCNames == <<"f", "g", "h">>

Dir(entries) == [type |-> "dir", entries |-> entries]
Entry(n) == [inode |-> n, link |-> FALSE]
Link(n) == [inode |-> n, link |-> TRUE]
File(data) == [type |-> "file", data |-> data]
Other == [type |-> "other"]

Texts ==
    {<<"a", " ", "b", " ", "A", " ">>,
     <<" ", " ", "b", " ">>,
     <<"b", " ", "0", "b">>,
     <<"a", "8", " ">>,
     <<"a", "b">>,
     <<>>}

(* "ab" and "bb" have the same hash, in one text or in two. *)
MCColliding == {<<"a", "b">>, <<"b", "b">>}
ClashingTexts == {<<"b", "b", " ">>, <<"b", "b", " ", "a", "b", " ">>}

(* A subdirectory between two entries, with a link back up in it and an    *)
(* entry that is neither file nor directory; a subdirectory in front of    *)
(* two names of one file; a file in place of rootdir.                      *)
MCFileSystems ==
    {1 :> Dir("f" :> Entry(2) @@ "g" :> Entry(3) @@ "h" :> Entry(4))
       @@ 2 :> File(t) @@ 3 :> Dir("f" :> Entry(5) @@ "g" :> Link(1)) @@ 4 :> Other
       @@ 5 :> File(<<"b", " ", "a", " ">>) : t \in Texts}
    \cup
    {1 :> Dir("f" :> Entry(3) @@ "g" :> Entry(2) @@ "h" :> Entry(2))
       @@ 2 :> File(t) @@ 3 :> Dir("h" :> Entry(4))
       @@ 4 :> File(<<"a", "b", " ">>) : t \in ClashingTexts}
    \cup {1 :> File(<<"a", " ">>)}

(* The second line leaves its newline to the next fgets, the third more. *)
MCInput == <<<<"a">>, <<"b", " ", "a">>, <<" ", "b", "a", " ", "a">>>>
=============================================================================
