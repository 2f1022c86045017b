----------------------------- MODULE SearchShell ----------------------------
(***************************************************************************)
(* hw2/searchshell.c: a tree is crawled, then lines are read from stdin,   *)
(* for ever, and each is searched for in the index.                        *)
(***************************************************************************)
EXTENDS CrawlFileTree

CONSTANTS
    Input,      \* what stdin holds: a sequence of lines, each a text
    LineMax     \* characters that one fgets takes: bufsize - 2

ASSUME InputAssumption ==
    /\ LineMax \in Nat \ {0}
    /\ Input \in Seq(ToSet(Input))
    /\ \A line \in ToSet(Input) : line \in Seq(ToSet(line))

VARIABLES
    input,      \* the lines that have not been read
    query,      \* the words of the last line
    answer      \* what was printed for them

shellVars == <<input, query, answer>>
vars == <<crawlVars, shellVars>>

Init ==
    /\ CrawlInit
    /\ input = Input
    /\ query = <<>>
    /\ answer = <<>>

Crawl == CrawlStep /\ UNCHANGED shellVars

-----------------------------------------------------------------------------
(* The words strtok_r finds, in order. *)
Tokens(line) ==
    LET starts == {k \in 1..Len(line) : line[k] # " " /\ (k = 1 \/ line[k - 1] = " ")}
        start(i) == CHOOSE k \in starts : Cardinality({m \in starts : m <= k}) = i
        end(k) == Max({m \in k..Len(line) : \A i \in k..m : line[i] # " "})
    IN  [i \in 1..Cardinality(starts) |-> SubSeq(line, start(i), end(start(i)))]

(* PrintOutput looks up the name of each result. *)
PrintOutput(results) ==
    IF results = NULL THEN <<>>
    ELSE [k \in 1..Len(results) |->
            [name |-> DocTable_GetDocName(doctable, results[k].docid), rank |-> results[k].rank]]

Answer(words) ==
    \E q \in {words} : \E results \in MemIndex_Search(index, q) :
       /\ query' = q
       /\ answer' = PrintOutput(results)

(* The body of the loop, for a line or for the first part of a long one;   *)
(* the rest of that, if only its newline, is the next line.                *)
AnswerLine ==
    /\ pc = "crawled" /\ input # <<>>
    /\ LET line == Head(input)
           read == SubSeq(line, 1, Min({LineMax, Len(line)}))
           rest == SubSeq(line, Len(read) + 1, Len(line))
       IN  /\ Answer(Tokens(read))
           /\ input' = IF Len(line) >= LineMax THEN <<rest>> \o Tail(input) ELSE Tail(input)
    /\ UNCHANGED crawlVars

(* At the end of the input fgets leaves the buffer as malloc gave it, and  *)
(* the loop goes on.                                                       *)
AnswerGarbage ==
    /\ pc = "crawled" /\ input = <<>>
    /\ \E words \in {Tokens(CString(buf)) : buf \in [1..LineMax -> Garbage]} : Answer(words)
    /\ UNCHANGED <<crawlVars, input>>

Program == Crawl \/ AnswerLine \/ AnswerGarbage

Next ==
    \/ Program
    \/ ReadError /\ UNCHANGED shellVars
    \/ Change /\ UNCHANGED shellVars

Spec == Init /\ [][Next]_vars

(* The process runs on, in the crawl and in the loop over lines. *)
FairSpec == Spec /\ WF_vars(Crawl) /\ WF_vars(AnswerLine)

-----------------------------------------------------------------------------
(* The number of times a text has a word that does not end with it. *)
Count(text, w) == Cardinality({o \in EndedWords(text) : o.word = w})

Docs == DOMAIN doctable.docid_to_docname

(* A document was not cut short by another process while it was read, and  *)
(* no other path has the hash of its path.                                 *)
Whole(d) == seen[d].whole /\ doctable.docid_to_docname[d] \notin Colliding

PostingsOf(w) == IF FNVHash64(w) \in DOMAIN index THEN index[FNVHash64(w)].postings ELSE <<>>

(* The index has, for each document, exactly the words of the text it had  *)
(* when it was measured, at their positions, in order.  This is claimed of *)
(* the documents that are whole, and of words that are followed by         *)
(* something.                                                              *)
IndexExact ==
    index # NULL =>
        \A d \in Docs :
            LET text == CString(seen[d].text)
            IN  Whole(d) =>
                \A w \in {index[k].word : k \in DOMAIN index} \cup {o.word : o \in EndedWords(text)} :
                    LET positions == IF d \in DOMAIN PostingsOf(w) THEN PostingsOf(w)[d] ELSE <<>>
                    IN  /\ ToSet(positions) = {o.pos : o \in {e \in EndedWords(text) : e.word = w}}
                        /\ \A j \in 2..Len(positions) : positions[j - 1] < positions[j]

(* CrawlFileTree.c: "since we need the ordering to be consistent in order  *)
(* to generate consistent DocTables and MemIndices": the order of paths,   *)
(* whatever readdir returns.                                               *)
Before(p, q) ==
    \E k \in 1..Min({Len(p), Len(q)}) :
        /\ SubSeq(p, 1, k - 1) = SubSeq(q, 1, k - 1)
        /\ alphasort([name |-> p[k]], [name |-> q[k]])

Paths == UNION {[1..n -> ToSet(Names)] : n \in 1..(MaxFds - 1)}

(* Names and ids of documents are each other's inverse, and the ids are 1, *)
(* 2, ... without a gap.                                                   *)
IdsExact ==
    doctable # NULL =>
        /\ Docs = 1..DocTable_NumDocs(doctable) /\ DOMAIN seen = Docs
        /\ doctable.max_id = DocTable_NumDocs(doctable) + 1
        /\ \A d \in Docs : DocTable_GetDocID(doctable, doctable.docid_to_docname[d]) = d

(* The ids of documents are in the order of their paths. *)
OrderExact ==
    doctable # NULL =>
        \A d \in Docs, e \in Docs :
           d < e => Before(doctable.docid_to_docname[d], doctable.docid_to_docname[e])

(* Names and ids of documents are each other's inverse, the ids are 1, 2,  *)
(* ... without a gap in the order of the paths, and a crawl that nothing   *)
(* disturbed has every file that can be reached, with the links a path may *)
(* have, and that is text with words.                                      *)
Complete ==
    /\ IdsExact
    /\ OrderExact
    /\ pc = "crawled" /\ changes = 0 /\ leaked = 0 =>
          {doctable.docid_to_docname[d] : d \in Docs} =
          {p \in Paths :
              /\ IsFile(Resolve(p))
              /\ LET text == CString(fs[Resolve(p)].data)
                 IN  NonASCII \notin ToSet(text) /\ EndedWords(text) # {}}

(* Every descriptor is closed again, except those of reads that failed. *)
DescriptorsClosed ==
    /\ fds \in 0..MaxFds
    /\ fds = leaked + Len(stack) + (IF pc = "read" THEN 1 ELSE 0) \/ pc = "exited"
    /\ pc = "crawled" => fds = leaked

(* How often the words of the query are in a document, each as often as it *)
(* is in the query.                                                        *)
Rank(d) ==
    LET count(w) == Count(CString(seen[d].text), w)
        rank[n \in 0..Len(query)] == IF n = 0 THEN 0 ELSE rank[n - 1] + count(query[n])
    IN  rank[Len(query)]

(* What the shell prints for a query is each document that has all of its  *)
(* words, once, ranked by how often they occur, best first.  Claimed when  *)
(* the documents are whole and the query's hashes are unique.              *)
AnswersExact ==
    pc = "crawled" /\ query # <<>> /\ (\A d \in Docs : Whole(d))
                   /\ ToSet(query) \cap Colliding = {} =>
        LET hits == {d \in Docs : \A w \in ToSet(query) : Count(CString(seen[d].text), w) > 0}
        IN  /\ Len(answer) = Cardinality(hits)
            /\ ToSet(answer) = {[name |-> doctable.docid_to_docname[d], rank |-> Rank(d)] : d \in hits}
            /\ \A k \in 2..Len(answer) : answer[k - 1].rank >= answer[k].rank

(* The crawl ends, in spite of links that lead back up and of files that   *)
(* shrink while they are read, and every line of the input is answered.    *)
CrawlEnds == <>(pc \in {"failed", "exited"} \/ (pc = "crawled" /\ input = <<>>))

(* FileParser.c: "If a character is alphabetic, it's part of a word. If a  *)
(* character is not alphabetic, it's part of the boundary between words."  *)
EveryWordIndexed ==
    index # NULL =>
        \A d \in Docs :
            Whole(d) =>
                \A o \in Words(CString(seen[d].text)) : d \in DOMAIN PostingsOf(o.word)
=============================================================================
