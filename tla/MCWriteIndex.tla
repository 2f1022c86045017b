---------------------------- MODULE MCWriteIndex ----------------------------
(* Small tables for WriteIndex: chains of length 0 to 3, names and words   *)
(* of length 1 to 3, two words with the same hash, empty tables; and one   *)
(* word of the greatest length.                                            *)
EXTENDS WriteIndex, TLC

Hashed(n, es) == [b \in 1..n |-> SelectSeq(es, LAMBDA e : e.key % n = b - 1)]

Doc(k) == [key |-> k, len |-> k, name |-> <<"doc", k>>]
MCDocTables == {Hashed(n, [k \in 1..d |-> Doc(k)]) : n \in 1..2, d \in 0..3}

Posting(k, n) == [key |-> k, positions |-> [j \in 1..n |-> j * j]]
OneDoc    == Hashed(1, <<Posting(1, 1)>>)
ThreeDocs == Hashed(2, <<Posting(2, 1), Posting(1, 2), Posting(3, 1)>>)

Word(k, l, p) == [key |-> k, len |-> l, word |-> <<"word", k, l>>, postings |-> p]
MCMemIndexes ==
    {Hashed(2, <<>>), Hashed(1, <<Word(4, 2, OneDoc)>>),
     Hashed(1, <<Word(4, INT16_MAX, OneDoc)>>),
     Hashed(1, <<Word(4, 2, ThreeDocs), Word(7, 3, OneDoc)>>),
     Hashed(2, <<Word(4, 2, OneDoc), Word(4, 1, ThreeDocs), Word(7, 3, OneDoc)>>)}
=============================================================================
