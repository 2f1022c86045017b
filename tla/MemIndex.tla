------------------------------ MODULE MemIndex ------------------------------
(***************************************************************************)
(* hw2/MemIndex.c: the inverted index in memory.  Each word has a table of *)
(* postings, from the id of a document to the positions of the word in it. *)
(***************************************************************************)
EXTENDS DocTable

MemIndex_Allocate == <<>>

(* The word is new, or another word has its hash; a document's postings    *)
(* for it must not be there yet.                                           *)
MemIndex_AddPostingList(index, word, docid, positions) ==
    LET key == FNVHash64(word)
    IN  IF key \notin DOMAIN index
        THEN Extended(index, key, [word |-> word, postings |-> Extended(<<>>, docid, positions)])
        ELSE IF index[key].word # word \/ docid \in DOMAIN index[key].postings THEN Exits
        ELSE [index EXCEPT ![key].postings = Extended(@, docid, positions)]

-----------------------------------------------------------------------------
(* A sequence of search results; the null pointer is none. *)
ASSUME NullAssumption == NULL \notin Seq([docid : Nat, rank : Nat])

(* A result of a higher rank comes first. *)
MI_SearchResultComparator(e1, e2) == e1.rank > e2.rank

(* What LinkedList_Sort may make of a list.  It leaves results of the same *)
(* rank as they are, but that is the order of the hash table's buckets.    *)
SortedByRank(results) ==
    LET orders == {p \in [DOMAIN results -> DOMAIN results] : IsInjective(p)}
    IN  {sorted \in {[k \in DOMAIN results |-> results[p[k]]] : p \in orders} :
            \A j, k \in DOMAIN sorted :
               j < k => ~MI_SearchResultComparator(sorted[k], sorted[j])}

(* The results for the first word, in the order of an iterator. *)
FirstResults(postings) ==
    LET docids == SetToSeq(DOMAIN postings)
    IN  [k \in 1..Len(docids) |-> [docid |-> docids[k], rank |-> Len(postings[docids[k]])]]

(* Mutant: the rank of the first word only. *)
Narrow_FirstRank(results, postings) ==
    SelectSeq(results, LAMBDA sr : sr.docid \in DOMAIN postings)

(* The results that the next word leaves, with their new ranks. *)
Narrow(results, postings) ==
    LET step(left, sr) ==
          IF sr.docid \notin DOMAIN postings THEN left
          ELSE Append(left, [sr EXCEPT !.rank = @ + Len(postings[sr.docid])])
        loop[j \in 0..Len(results)] == IF j = 0 THEN <<>> ELSE step(loop[j - 1], results[j])
    IN  loop[Len(results)]

(* The results for all words, before they are sorted. *)
SearchResults(index, query) ==
    LET found(w) == FNVHash64(w) \in DOMAIN index
        postings(w) == index[FNVHash64(w)].postings
        step(results, w) ==
          IF results = NULL \/ ~found(w) THEN NULL
          ELSE LET left == Narrow(results, postings(w))
               IN  IF left = <<>> THEN NULL ELSE left
        loop[i \in 0..(Len(query) - 1)] ==
          IF i > 0 THEN step(loop[i - 1], query[i + 1])
          ELSE IF found(query[1]) THEN FirstResults(postings(query[1])) ELSE NULL
    IN  IF query = <<>> THEN NULL ELSE loop[Len(query) - 1]

(* What it may return. *)
MemIndex_Search(index, query) ==
    UNION {IF results = NULL THEN {NULL} ELSE SortedByRank(results) :
              results \in {SearchResults(index, query)}}
=============================================================================
