-------------------------- MODULE MCProcessRequest --------------------------
(* Small index files for ProcessRequest: chains of length 0 to 2, two      *)
(* words of one length and one hash, two documents of one name and one     *)
(* rank, a file without its header; queries with missing words at each     *)
(* place, and a word asked for twice; texts with each kind of character.   *)
EXTENDS ProcessRequest

Hashed(n, es) == [b \in 1..n |-> SelectSeq(es, LAMBDA e : e.key % n = b - 1)]

Doc(n) == [key |-> n, len |-> 4 * n, name |-> <<"doc", n>>]
Posting(n, m) == [key |-> n, positions |-> [j \in 1..m |-> j]]
MCHash(word) == IF word = <<97>> \/ word = <<98>> THEN 4 ELSE 7
Asked(word) == [key |-> MCHash(word), len |-> Len(word), word |-> word]
Word(c, postings) ==
    [key |-> MCHash(<<c>>), len |-> 1, word |-> <<c>>, postings |-> postings]

MCIndexTables ==
    [Big |->
        [complete |-> TRUE,
         dt |-> Hashed(2, <<Doc(1), Doc(2), Doc(3)>>),
         mi |-> Hashed(2, <<Word(97, Hashed(2, <<Posting(1, 2), Posting(3, 1), Posting(2, 1)>>)),
                            Word(98, Hashed(1, <<Posting(3, 1), Posting(1, 1)>>)),
                            Word(99, Hashed(1, <<Posting(2, 2)>>))>>)],
     Small |->
        [complete |-> TRUE,
         dt |-> Hashed(1, <<Doc(2)>>),
         mi |-> Hashed(2, <<Word(97, Hashed(1, <<Posting(2, 1)>>))>>)],
     Broken |->
        [complete |-> FALSE, dt |-> Hashed(1, <<>>), mi |-> Hashed(1, <<>>)]]

MCIndexLists == {<<"Big">>, <<"Small", "Big">>, <<"Small", "Small">>, <<"Small", "Broken">>,
                 <<"Small", "Small", "Small">>}

a == Asked(<<97>>)
b == Asked(<<98>>)
c == Asked(<<99>>)
z == Asked(<<122, 122>>)
MCQueries == {<<>>, <<a>>, <<z>>, <<a, b>>, <<b, c>>, <<c, a>>, <<a, a>>, <<a, z>>, <<z, a>>,
              <<a, b, a>>, <<z, a, b>>, <<a, z, b>>}

(* Texts of "a", "C", a space and the characters that mean something in a  *)
(* URL or in HTML, up to three of them; "%41" is three characters, too.    *)
Typed == {97, 67, SP, Percent, Amp, Plus, Less, Equals, Question}
MCTexts == {<<>>} \cup [1..1 -> Typed] \cup [1..2 -> Typed]
             \cup [1..3 -> {97, 67, SP, Percent}] \cup {<<Percent, 52, 49>>, <<97, SP, SP, SP, 98>>}

JS == <<Dot, 106, 115>>
CSS == <<Dot, 99, 115, 115>>
MCContentTypes == (JS :> "text/javascript") @@ (CSS :> "text/css")
MCFiles == {<<97>> \o JS, <<97, SP, 98>> \o CSS, <<97>> \o CSS \o JS, <<Percent, 52, 49>> \o JS,
            <<Plus>> \o CSS, CSS, <<97>> \o <<Dot>>, <<97>>}
MCFileNames == MCFiles \cup {<<>>, <<98>>, <<Less, Amp, Quote>> \o JS}
=============================================================================
