-------------------------- MODULE SearchShellProofs -------------------------
(***************************************************************************)
(* The crawl's descriptors, the doctable, the order of the documents, what *)
(* the index has and what the shell prints, for any file system, any       *)
(* changes other processes make to it, any failures of reads and any input.*)
(***************************************************************************)
EXTENDS SearchShell, FiniteSetTheorems, TLAPS

(* Facts about least elements and recursive functions. *)
Shared == INSTANCE SharedLemmas

-----------------------------------------------------------------------------
(* Descriptors.                                                            *)

(* A sequence, whatever its elements are. *)
IsSeq(s) == s \in Seq(ToSet(s))

(* A sequence has its length in its domain. *)
LEMMA SeqIs ==
    ASSUME NEW s, IsSeq(s)
    PROVE  /\ Len(s) \in Nat /\ DOMAIN s = 1..Len(s)
           /\ Len(s) = 0 <=> s = <<>>
BY DEF IsSeq

(* Another element at one place. *)
LEMMA ExceptIs ==
    ASSUME NEW s, IsSeq(s), NEW n, NEW x
    PROVE  IsSeq([s EXCEPT ![n] = x]) /\ Len([s EXCEPT ![n] = x]) = Len(s)
<1> DEFINE t == [s EXCEPT ![n] = x]
           S == ToSet(s) \cup {x}
<1>1. s \in Seq(S)
  BY DEF IsSeq
<1>2. x \in S
  OBVIOUS
<1> HIDE DEF S
<1>3. t \in Seq(S) /\ Len(t) = Len(s)
  <2>1. Len(s) \in Nat /\ s \in [1..Len(s) -> S]
    BY <1>1
  <2>2. t \in [1..Len(s) -> S]
    BY <1>2, <2>1
  <2> HIDE DEF t
  <2>3. QED
    BY <2>1, <2>2
<1> HIDE DEF t
<1>4. t \in Seq(ToSet(t))
  BY <1>3 DEF ToSet
<1>5. QED
  BY <1>3, <1>4 DEF IsSeq, t

(* One element more. *)
LEMMA AppendIs ==
    ASSUME NEW s, IsSeq(s), NEW x
    PROVE  IsSeq(Append(s, x)) /\ Len(Append(s, x)) = Len(s) + 1
<1> DEFINE t == Append(s, x)
           S == ToSet(s) \cup {x}
<1>1. s \in Seq(S) /\ x \in S
  BY DEF IsSeq
<1> HIDE DEF S
<1>2. t \in Seq(S) /\ Len(t) = Len(s) + 1
  BY <1>1
<1> HIDE DEF t
<1>3. t \in Seq(ToSet(t))
  BY <1>2 DEF ToSet
<1>4. QED
  BY <1>2, <1>3 DEF IsSeq, t

(* One element less. *)
LEMMA FrontIs ==
    ASSUME NEW s, IsSeq(s), Len(s) >= 1
    PROVE  IsSeq(Front(s)) /\ Len(Front(s)) = Len(s) - 1
<1> DEFINE t == Front(s)
           S == ToSet(s)
<1>1. s \in Seq(S) /\ Len(s) \in Nat /\ DOMAIN s = 1..Len(s)
  BY DEF IsSeq
<1> HIDE DEF S
<1>2. t \in Seq(S) /\ Len(t) = Len(s) - 1
  BY <1>1 DEF Front
<1> HIDE DEF t
<1>3. t \in Seq(ToSet(t))
  BY <1>2 DEF ToSet
<1>4. QED
  BY <1>2, <1>3 DEF IsSeq, t

(* Each activation of HandleDir has a directory open, ReadFileToString has *)
(* a file, and a read that fails leaves one open for good.                 *)
Crawling == {"scan", "entry", "open", "read"}

(* The descriptors are those of the activations, of the file that is being *)
(* read, and of the reads that have failed.                                *)
Counted ==
    /\ IsSeq(stack)
    /\ leaked \in Nat
    /\ fds \in 0..MaxFds
    /\ pc \in {"start", "crawled", "failed", "exited"} \cup Crawling
    /\ pc \in {"start", "crawled", "failed"} => stack = <<>>
    /\ pc \in Crawling => Len(stack) >= 1
    /\ pc # "exited" => fds = leaked + Len(stack) + (IF pc = "read" THEN 1 ELSE 0)

(* A step that opens and closes nothing. *)
LEMMA SameCount ==
    ASSUME Counted, IsSeq(stack'), Len(stack') = Len(stack), fds' = fds, leaked' = leaked,
           pc \in Crawling, pc' \in Crawling, pc = "read" <=> pc' = "read"
    PROVE  Counted'
BY DEF Counted, Crawling

(* opendir before an activation. *)
LEMMA EnterCount ==
    ASSUME Counted, NEW path, Enter(path), fds < MaxFds, leaked' = leaked,
           pc \in {"start", "entry"}
    PROVE  Counted'
<1>1. IsSeq(stack') /\ Len(stack') = Len(stack) + 1 /\ fds' = fds + 1 /\ pc' = "scan"
  BY AppendIs DEF Enter, Counted
<1>2. Len(stack) \in Nat /\ fds \in 0..MaxFds /\ fds = leaked + Len(stack) /\ leaked \in Nat
  BY SeqIs DEF Counted
<1>3. QED
  BY <1>1, <1>2, MaxFdsAssumption DEF Counted, Crawling

(* The entry is done with. *)
LEMMA DropCount ==
    ASSUME Counted, DropEntry
    PROVE  IsSeq(stack') /\ Len(stack') = Len(stack)
<1>1. IsSeq(stack)
  BY DEF Counted
<1>2. stack' = [stack EXCEPT ![Len(stack)].entries = Tail(@)]
  BY DEF DropEntry
<1>3. QED
  BY <1>1, <1>2, ExceptIs

(* Every step of the crawl. *)
LEMMA CountedCrawl == Counted /\ CrawlStep => Counted'
<1> SUFFICES ASSUME Counted, CrawlStep
             PROVE  Counted'
  OBVIOUS
<1>0. /\ IsSeq(stack) /\ Len(stack) \in Nat /\ leaked \in Nat /\ fds \in 0..MaxFds
      /\ MaxFds \in Nat
  BY SeqIs, MaxFdsAssumption DEF Counted
<1>1. CASE CrawlFileTree
  <2>1. CASE pc' = "failed"
    <3>1. pc = "start" /\ fds' = fds /\ stack' = stack /\ leaked' = leaked
      BY <1>1, <2>1 DEF CrawlFileTree, Enter
    <3>2. QED
      BY <2>1, <3>1 DEF Counted, Crawling
  <2>2. CASE pc' # "failed"
    <3>1. pc = "start" /\ Enter(<<>>) /\ fds < MaxFds /\ leaked' = leaked
      BY <1>1, <2>2 DEF CrawlFileTree
    <3>2. QED
      BY <3>1, EnterCount
  <2>3. QED
    BY <2>1, <2>2
<1>2. CASE ReadEntry
  <2>1. PICK name \in Top.unread, is_dir \in BOOLEAN :
           stack' = [stack EXCEPT ![Len(stack)].unread = @ \ {name},
                                  ![Len(stack)].entries =
                                      Append(@, [name |-> name, is_dir |-> is_dir])]
    BY <1>2 DEF ReadEntry
  <2> DEFINE s == [stack EXCEPT ![Len(stack)].unread = @ \ {name}]
  <2>2. IsSeq(s) /\ Len(s) = Len(stack)
    BY <1>0, ExceptIs
  <2>3. stack' = [s EXCEPT ![Len(stack)].entries = Append(@, [name |-> name, is_dir |-> is_dir])]
    BY <2>1
  <2> HIDE DEF s
  <2>4. IsSeq(stack') /\ Len(stack') = Len(stack)
    BY <2>2, <2>3, ExceptIs
  <2>5. pc = "scan" /\ pc' = "scan" /\ fds' = fds /\ leaked' = leaked
    BY <1>2 DEF ReadEntry
  <2>6. QED
    BY <2>4, <2>5, SameCount DEF Crawling
<1>3. CASE EndOfDir
  <2>1. pc = "scan" /\ pc' = "entry" /\ fds' = fds /\ leaked' = leaked
    BY <1>3 DEF EndOfDir
  <2>2. IsSeq(stack') /\ Len(stack') = Len(stack)
    <3>1. PICK p \in [DOMAIN Top.entries -> DOMAIN Top.entries] :
             stack' = [stack EXCEPT ![Len(stack)].entries =
                          [n \in DOMAIN Top.entries |-> Top.entries[p[n]]]]
      BY <1>3, Zenon DEF EndOfDir
    <3>2. QED
      BY <1>0, <3>1, ExceptIs
  <2>3. QED
    BY <2>1, <2>2, SameCount DEF Crawling
<1>4. CASE HandleSubdir
  <2>1. pc = "entry" /\ leaked' = leaked
    BY <1>4 DEF HandleSubdir
  <2>2. CASE IsDir(Resolve(EntryPath)) /\ fds < MaxFds
    <3>1. Enter(EntryPath) /\ fds < MaxFds
      BY <1>4, <2>2 DEF HandleSubdir
    <3>2. QED
      BY <2>1, <3>1, EnterCount
  <2>3. CASE ~(IsDir(Resolve(EntryPath)) /\ fds < MaxFds)
    <3>1. DropEntry /\ fds' = fds /\ pc' = pc
      BY <1>4, <2>3 DEF HandleSubdir
    <3>2. QED
      BY <2>1, <3>1, DropCount, SameCount DEF Crawling
  <2>4. QED
    BY <2>2, <2>3
<1>5. CASE Leave
  <2>1. pc = "entry" /\ fds' = fds - 1 /\ leaked' = leaked
    BY <1>5 DEF Leave
  <2>2. Len(stack) >= 1 /\ fds = leaked + Len(stack)
    BY <1>0, <2>1 DEF Counted, Crawling
  <2>3. CASE Len(stack) = 1
    <3>1. pc' = "crawled" /\ stack' = <<>>
      BY <1>5, <2>3 DEF Leave
    <3>2. IsSeq(<<>>) /\ Len(<<>>) = 0
      BY DEF IsSeq
    <3>3. QED
      BY <1>0, <2>1, <2>2, <2>3, <3>1, <3>2 DEF Counted, Crawling
  <2>4. CASE Len(stack) # 1
    <3>1. pc' = pc /\ stack' = [Front(stack) EXCEPT ![Len(stack) - 1].entries = Tail(@)]
      BY <1>5, <2>4 DEF Leave
    <3>2. IsSeq(Front(stack)) /\ Len(Front(stack)) = Len(stack) - 1
      BY <1>0, <2>2, FrontIs
    <3>3. IsSeq(stack') /\ Len(stack') = Len(stack) - 1
      BY <3>1, <3>2, ExceptIs
    <3>4. leaked \in Nat /\ fds \in 0..MaxFds /\ MaxFds \in Nat /\ Len(stack) \in Nat
      BY <1>0, MaxFdsAssumption, SeqIs DEF Counted
    <3>5. Len(stack') >= 1 /\ fds' \in 0..MaxFds /\ fds' = leaked' + Len(stack')
      BY <2>1, <2>2, <2>4, <3>3, <3>4
    <3>6. QED
      BY <2>1, <3>1, <3>3, <3>4, <3>5 DEF Counted, Crawling
  <2>5. QED
    BY <2>3, <2>4
<1>6. CASE StatFile
  <2>1. pc = "entry" /\ fds' = fds /\ leaked' = leaked /\ pc' \in {"open", "entry"}
    BY <1>6 DEF StatFile, Skip
  <2>2. stack' = stack \/ DropEntry
    BY <1>6 DEF StatFile, Skip
  <2>3. IsSeq(stack') /\ Len(stack') = Len(stack)
    BY <1>0, <2>2, DropCount
  <2>4. QED
    BY <2>1, <2>3, SameCount DEF Crawling
<1>7. CASE OpenFile
  <2>1. pc = "open" /\ leaked' = leaked
    BY <1>7 DEF OpenFile
  <2>2. Len(stack) >= 1 /\ fds = leaked + Len(stack)
    BY <1>0, <2>1 DEF Counted, Crawling
  <2>3. CASE pc' = "read"
    <3>1. fds' = fds + 1 /\ fds < MaxFds /\ stack' = stack
      BY <1>7, <2>3 DEF OpenFile, Skip
    <3>2. QED
      BY <1>0, <2>1, <2>2, <2>3, <3>1 DEF Counted, Crawling
  <2>4. CASE pc' # "read"
    <3>1. Skip /\ fds' = fds
      BY <1>7, <2>4 DEF OpenFile
    <3>2. QED
      BY <2>1, <3>1, DropCount, SameCount DEF Skip, Crawling
  <2>5. QED
    BY <2>3, <2>4
<1>8. CASE ReadSome \/ ReadEOF
  <2>1. pc = "read" /\ pc' = "read" /\ fds' = fds /\ leaked' = leaked /\ stack' = stack
    BY <1>8 DEF ReadSome, ReadEOF
  <2>2. QED
    BY <1>0, <2>1, SameCount DEF Crawling
<1>9. CASE IndexFile
  <2>1. pc = "read" /\ fds' = fds - 1 /\ leaked' = leaked
    BY <1>9 DEF IndexFile
  <2>2. Len(stack) >= 1 /\ fds = leaked + Len(stack) + 1
    BY <1>0, <2>1 DEF Counted, Crawling
  <2>3. CASE Skip
    <3>1. pc' = "entry" /\ IsSeq(stack') /\ Len(stack') = Len(stack)
      BY <2>3, DropCount DEF Skip
    <3>2. QED
      BY <1>0, <2>1, <2>2, <3>1 DEF Counted, Crawling
  <2>4. CASE ~Skip
    <3>1. pc' = "exited" /\ stack' = stack
      BY <1>9, <2>4 DEF IndexFile
    <3>2. QED
      BY <1>0, <2>1, <2>2, <3>1 DEF Counted, Crawling
  <2>5. QED
    BY <2>3, <2>4
<1>10. QED
  BY <1>1, <1>2, <1>3, <1>4, <1>5, <1>6, <1>7, <1>8, <1>9 DEF CrawlStep

(* Every step of the program and of the others. *)
LEMMA CountedStep == Counted /\ [Next]_vars => Counted'
<1> SUFFICES ASSUME Counted, [Next]_vars
             PROVE  Counted'
  OBVIOUS
<1>1. CASE Crawl
  BY <1>1, CountedCrawl DEF Crawl
<1>2. CASE ReadError
  <2>1. /\ pc = "read" /\ pc' = "entry" /\ DropEntry /\ leaked' = leaked + 1 /\ fds' = fds
    BY <1>2 DEF ReadError, Skip
  <2>2. IsSeq(stack') /\ Len(stack') = Len(stack) /\ Len(stack) \in Nat
    BY <2>1, DropCount, SeqIs DEF Counted
  <2>3. QED
    BY <2>1, <2>2 DEF Counted, Crawling
<1>3. CASE Change \/ AnswerLine \/ AnswerGarbage \/ UNCHANGED vars
  <2>1. pc' = pc /\ stack' = stack /\ fds' = fds /\ leaked' = leaked
    BY <1>3 DEF Change, AnswerLine, AnswerGarbage, vars, crawlVars
  <2>2. QED
    BY <2>1 DEF Counted
<1>4. QED
  BY <1>1, <1>2, <1>3 DEF Next, Program

(* CrawlFileTree and ReadFileToString close every directory and file they  *)
(* open, whatever other processes do to the tree meanwhile and whatever    *)
(* cannot be opened, except the files whose reads failed.                  *)
THEOREM DescriptorsReturned == Spec => []DescriptorsClosed
<1>1. Init => Counted
  BY MaxFdsAssumption DEF Init, CrawlInit, Counted, Crawling, IsSeq
<1>2. Counted => DescriptorsClosed
  <2> SUFFICES ASSUME Counted
               PROVE  DescriptorsClosed
    OBVIOUS
  <2>1. pc = "crawled" => fds = leaked
    BY DEF Counted, Crawling
  <2>2. QED
    BY <2>1 DEF Counted, DescriptorsClosed
<1>3. QED
  BY <1>1, <1>2, CountedStep, PTL DEF Spec

-----------------------------------------------------------------------------
(* Documents.                                                              *)

(* A doctable, and for each of its documents what it held. *)
TableOK(t, held) ==
    /\ t.max_id \in Nat \ {0}
    /\ DOMAIN t.docid_to_docname = 1..(t.max_id - 1)
    /\ DOMAIN held = 1..(t.max_id - 1)
    /\ \A d \in 1..(t.max_id - 1) :
          /\ FNVHash64(t.docid_to_docname[d]) \in DOMAIN t.docname_to_docid
          /\ t.docname_to_docid[FNVHash64(t.docid_to_docname[d])] = d
    /\ \A h \in DOMAIN t.docname_to_docid :
          /\ t.docname_to_docid[h] \in 1..(t.max_id - 1)
          /\ FNVHash64(t.docid_to_docname[t.docname_to_docid[h]]) = h

(* A new document has the next id; an old one, or one whose name hashes    *)
(* like that of an old one, keeps its id.                                  *)
LEMMA AddIs ==
    ASSUME NEW t, NEW held, TableOK(t, held), NEW name, NEW v,
           NEW u, u = DocTable_Add(t, name),
           NEW docid, docid = DocTable_GetDocID(u, name),
           NEW after, after = Extended(held, docid, v)
    PROVE  TableOK(u, after)
<1> DEFINE h == FNVHash64(name)
           n == t.max_id - 1
<1>1. /\ n \in Nat /\ t.max_id = n + 1 /\ DOMAIN t.docid_to_docname = 1..n /\ DOMAIN held = 1..n
      /\ \A k \in DOMAIN t.docname_to_docid : t.docname_to_docid[k] \in 1..n
  <2>1. t.max_id \in Nat \ {0}
    BY DEF TableOK
  <2>2. /\ DOMAIN t.docid_to_docname = 1..n /\ DOMAIN held = 1..n
        /\ \A k \in DOMAIN t.docname_to_docid : t.docname_to_docid[k] \in 1..n
    BY Zenon DEF TableOK
  <2> HIDE DEF n
  <2>3. n \in Nat /\ t.max_id = n + 1
    BY <2>1 DEF n
  <2>4. QED
    BY <2>2, <2>3
<1>2. DOMAIN after = 1..n \cup {docid}
  BY <1>1, Zenon DEF Extended
<1>3. CASE h \in DOMAIN t.docname_to_docid
  <2>1. DocTable_GetDocID(t, name) = t.docname_to_docid[h] /\ t.docname_to_docid[h] \in 1..n
    BY <1>1, <1>3 DEF DocTable_GetDocID
  <2>2. u = t
    BY <1>1, <2>1 DEF DocTable_Add, INVALID_DOCID
  <2>3. docid \in 1..n
    BY <2>1, <2>2
  <2>4. DOMAIN after = 1..n
    BY <1>2, <2>3
  <2>5. QED
    BY <1>1, <2>2, <2>4 DEF TableOK
<1>4. CASE h \notin DOMAIN t.docname_to_docid
  <2> DEFINE names == Extended(t.docid_to_docname, t.max_id, name)
             ids == Extended(t.docname_to_docid, h, t.max_id)
  <2>1. DocTable_GetDocID(t, name) = INVALID_DOCID
    BY <1>4 DEF DocTable_GetDocID
  <2>2. u = [docid_to_docname |-> names, docname_to_docid |-> ids, max_id |-> t.max_id + 1]
    BY <2>1 DEF DocTable_Add
  <2>3. /\ DOMAIN names = 1..n \cup {n + 1}
        /\ \A d \in 1..n : names[d] = t.docid_to_docname[d]
        /\ names[n + 1] = name
    <3>1. t.max_id \notin DOMAIN t.docid_to_docname
      BY <1>1
    <3>2. /\ DOMAIN names = DOMAIN t.docid_to_docname \cup {t.max_id}
          /\ \A d \in DOMAIN t.docid_to_docname : names[d] = t.docid_to_docname[d]
          /\ names[t.max_id] = name
      <4>1. names = Extended(t.docid_to_docname, t.max_id, name)
        OBVIOUS
      <4> HIDE DEF names
      <4>2. QED
        BY <3>1, <4>1 DEF Extended
    <3> HIDE DEF names, n
    <3>3. QED
      BY <1>1, <3>2
  <2>4. /\ DOMAIN ids = DOMAIN t.docname_to_docid \cup {h}
        /\ \A k \in DOMAIN t.docname_to_docid : ids[k] = t.docname_to_docid[k]
        /\ ids[h] = n + 1
    <3>1. /\ DOMAIN ids = DOMAIN t.docname_to_docid \cup {h}
          /\ \A k \in DOMAIN t.docname_to_docid : ids[k] = t.docname_to_docid[k]
          /\ ids[h] = t.max_id
      <4>1. ids = Extended(t.docname_to_docid, h, t.max_id)
        OBVIOUS
      <4> HIDE DEF ids, h
      <4>2. QED
        BY <1>4, <4>1 DEF Extended
    <3> HIDE DEF ids, h, n
    <3>2. QED
      BY <1>1, <3>1
  <2> HIDE DEF names, ids, n, h
  <2>5. /\ u.max_id = n + 2 /\ u.docid_to_docname = names /\ u.docname_to_docid = ids
        /\ 1..(u.max_id - 1) = 1..n \cup {n + 1}
    BY <1>1, <2>2
  <2>6. docid = n + 1
    BY <2>4, <2>5 DEF DocTable_GetDocID, h
  <2>7. ASSUME NEW d \in 1..n \cup {n + 1}
        PROVE  FNVHash64(names[d]) \in DOMAIN ids /\ ids[FNVHash64(names[d])] = d
    <3>1. CASE d = n + 1
      BY <2>3, <2>4, <3>1 DEF h
    <3>2. CASE d \in 1..n
      <4>1. /\ FNVHash64(t.docid_to_docname[d]) \in DOMAIN t.docname_to_docid
            /\ t.docname_to_docid[FNVHash64(t.docid_to_docname[d])] = d
        BY <3>2 DEF TableOK, n
      <4>2. QED
        BY <2>3, <2>4, <3>2, <4>1
    <3>3. QED
      BY <2>7, <3>1, <3>2
  <2>8. ASSUME NEW k \in DOMAIN ids
        PROVE  ids[k] \in 1..n \cup {n + 1} /\ FNVHash64(names[ids[k]]) = k
    <3>1. CASE k = h
      BY <2>3, <2>4, <3>1 DEF h
    <3>2. CASE k \in DOMAIN t.docname_to_docid
      <4>1. FNVHash64(t.docid_to_docname[t.docname_to_docid[k]]) = k
        BY <3>2 DEF TableOK
      <4>2. QED
        BY <1>1, <2>3, <2>4, <3>2, <4>1
    <3>3. QED
      BY <2>4, <3>1, <3>2
  <2>9. u.max_id \in Nat \ {0}
    BY <1>1, <2>5
  <2>10. QED
    BY <1>2, <2>3, <2>5, <2>6, <2>7, <2>8, <2>9 DEF TableOK
<1>5. QED
  BY <1>3, <1>4

(* The crawl's tables: none before it, then always a good one. *)
Ids == IF pc \in {"start", "failed"} THEN doctable = NULL /\ seen = <<>>
       ELSE TableOK(doctable, seen)

(* Only the start of the crawl and HandleFile change the tables. *)
LEMMA IdsStep == Ids /\ [Next]_vars => Ids'
<1> SUFFICES ASSUME Ids, [Next]_vars
             PROVE  Ids'
  OBVIOUS
<1>1. CASE CrawlFileTree
  <2>1. pc = "start" /\ seen' = seen /\ seen = <<>>
    BY <1>1 DEF CrawlFileTree, Ids
  <2>2. CASE pc' = "failed"
    BY <1>1, <2>1, <2>2 DEF CrawlFileTree, Ids, Enter
  <2>3. CASE pc' # "failed"
    <3>1. pc' = "scan" /\ doctable' = DocTable_Allocate
      BY <1>1, <2>3 DEF CrawlFileTree, Enter
    <3>2. TableOK(doctable', seen')
      BY <2>1, <3>1 DEF TableOK, DocTable_Allocate
    <3>3. QED
      BY <3>1, <3>2 DEF Ids
  <2>4. QED
    BY <2>2, <2>3
<1>2. CASE IndexFile
  <2>1. pc = "read" /\ TableOK(doctable, seen)
    BY <1>2 DEF IndexFile, Ids
  <2>2. CASE UNCHANGED tables
    <3>1. pc' \in {"entry", "exited"} /\ doctable' = doctable /\ seen' = seen
      BY <1>2, <2>2 DEF IndexFile, Skip, tables
    <3>2. QED
      BY <2>1, <3>1 DEF Ids
  <2>3. CASE ~UNCHANGED tables
    <3>1. pc' = "entry"
          /\ \E docid \in {DocTable_GetDocID(doctable', file.path)} :
                /\ doctable' = DocTable_Add(doctable, file.path)
                /\ seen' = Extended(seen, docid, [text |-> file.text,
                                                  whole |-> file.buf = file.text])
      BY <1>2, <2>3, Zenon DEF IndexFile, Skip
    <3>2. TableOK(doctable', seen')
      BY <2>1, <3>1, AddIs
    <3>3. QED
      BY <3>1, <3>2 DEF Ids
  <2>4. QED
    BY <2>2, <2>3
<1>3. CASE doctable' = doctable /\ seen' = seen
           /\ (pc \in {"start", "failed"} <=> pc' \in {"start", "failed"})
  BY <1>3 DEF Ids
<1>4. QED
  <2>1. CASE ReadEntry \/ EndOfDir \/ HandleSubdir \/ Leave \/ StatFile \/ OpenFile
    BY <1>3, <2>1 DEF ReadEntry, EndOfDir, HandleSubdir, Leave, StatFile, OpenFile, Skip, Enter,
                      tables
  <2>2. CASE ReadSome \/ ReadEOF \/ ReadError \/ Change
    BY <1>3, <2>2 DEF ReadSome, ReadEOF, ReadError, Change, Skip, tables
  <2>3. CASE AnswerLine \/ AnswerGarbage \/ UNCHANGED vars
    BY <1>3, <2>3 DEF AnswerLine, AnswerGarbage, vars, crawlVars, tables
  <2>4. QED
    BY <1>1, <1>2, <2>1, <2>2, <2>3 DEF Next, Program, Crawl, CrawlStep

(* DocTable_Add gives every path the next id, or the one it has, and the   *)
(* two tables stay each other's inverse, whatever the names hash to.       *)
THEOREM IdsInverse == Spec => []IdsExact
<1>1. Init => Ids
  BY DEF Init, CrawlInit, Ids
<1>2. Ids => IdsExact
  <2> SUFFICES ASSUME Ids, doctable # NULL
               PROVE  /\ Docs = 1..DocTable_NumDocs(doctable) /\ DOMAIN seen = Docs
                      /\ doctable.max_id = DocTable_NumDocs(doctable) + 1
                      /\ \A d \in Docs : DocTable_GetDocID(doctable, doctable.docid_to_docname[d]) = d
    BY DEF IdsExact
  <2> DEFINE n == doctable.max_id - 1
  <2>1. TableOK(doctable, seen)
    BY DEF Ids
  <2>2. n \in Nat /\ doctable.max_id = n + 1 /\ Docs = 1..n /\ DOMAIN seen = 1..n
    BY <2>1 DEF TableOK, Docs
  <2> HIDE DEF n
  <2>3. 1 \in Int /\ n \in Int
    BY <2>2
  <2>4. Cardinality(1..n) = IF 1 > n THEN 0 ELSE n - 1 + 1
    BY <2>3, FS_Interval, Zenon
  <2>5. DocTable_NumDocs(doctable) = n
    BY <2>2, <2>4 DEF DocTable_NumDocs, Docs
  <2>6. ASSUME NEW d \in Docs
        PROVE  DocTable_GetDocID(doctable, doctable.docid_to_docname[d]) = d
    BY <2>1 DEF TableOK, DocTable_GetDocID, Docs
  <2>7. QED
    BY <2>2, <2>5, <2>6
<1>3. QED
  BY <1>1, <1>2, IdsStep, PTL DEF Spec

-----------------------------------------------------------------------------
(* The scan of a text.                                                     *)

(* The start of the word that curptr is in at k. *)
StartsAt(content, k, s) ==
    /\ s \in 1..k
    /\ \A j \in s..(k - 1) : isalpha(content[j])
    /\ s = 1 \/ ~isalpha(content[s - 1])

(* WordStart is defined by recursion. *)
LEMMA WordStartIs ==
    ASSUME NEW content, IsSeq(content)
    PROVE  \A k \in 1..Len(content) :
              WordStart(content)[k] = IF k = 1 THEN 1
                                      ELSE IF isalpha(content[k - 1]) THEN WordStart(content)[k - 1] ELSE k
<1> DEFINE N == Len(content)
           It(k, s) == IF k = 1 THEN 1 ELSE IF isalpha(content[k - 1]) THEN s ELSE k
           step == [x \in (1..N) \X Nat |-> It(x[1], x[2])]
           F(g) == [k \in 1..N |-> It(k, g[k - 1])]
           start == CHOOSE g : g = F(g)
<1>1. N \in Nat
  BY SeqIs
<1>2. WordStart(content) = start
  BY DEF WordStart
<1>3. \A k \in 1..N, s \in Nat : It(k, s) \in Nat
  BY <1>1
<1> HIDE DEF N, It
<1>4. step \in [(1..N) \X Nat -> Nat]
  BY <1>3
<1>5. PICK h : Shared!Recursion(h, N, Nat, 0, step)
  <2> HIDE DEF step
  <2>1. 0 \in Nat
    OBVIOUS
  <2>2. QED
    BY <1>1, <1>4, <2>1, Shared!RecursionExists, Zenon
<1> DEFINE g == [k \in 1..N |-> h[k]]
<1>6. \A k \in 1..N : h[k] = It(k, h[k - 1]) /\ h[k - 1] \in Nat
  <2>1. /\ h \in [0..N -> Nat]
        /\ \A k \in 1..N : h[k] = step[<<k, h[k - 1]>>]
    BY <1>5 DEF Shared!Recursion
  <2>2. \A k \in 1..N : k - 1 \in 0..N
    BY <1>1
  <2>3. QED
    BY <2>1, <2>2
<1>7. ASSUME NEW k \in 1..N
      PROVE  It(k, h[k - 1]) = It(k, g[k - 1])
  <2>1. CASE k = 1
    BY <2>1 DEF It
  <2>2. CASE k # 1
    <3>1. k - 1 \in 1..N
      BY <1>1, <2>2
    <3>2. QED
      BY <3>1
  <2>3. QED
    BY <2>1, <2>2
<1>8. g = F(g)
  BY <1>6, <1>7
<1> HIDE DEF F, g
<1>9. start = F(start)
  BY <1>8
<1> HIDE DEF start
<1>10. \A k \in 1..N : start[k] = It(k, start[k - 1])
  BY <1>9 DEF F
<1>11. QED
  BY <1>2, <1>10 DEF N, It

(* It is where the letters before k start. *)
LEMMA StartIs ==
    ASSUME NEW content, IsSeq(content), NEW m \in 1..Len(content)
    PROVE  StartsAt(content, m, WordStart(content)[m])
<1> DEFINE N == Len(content)
           start == WordStart(content)
           T == {k \in 0..N : k = 0 \/ StartsAt(content, k, start[k])}
<1>1. N \in Nat
  BY SeqIs
<1>2. \A k \in 1..N : start[k] = IF k = 1 THEN 1
                                 ELSE IF isalpha(content[k - 1]) THEN start[k - 1] ELSE k
  BY WordStartIs
<1> HIDE DEF N, start
<1>3. 0 \in T
  BY <1>1
<1>4. ASSUME NEW k \in 1..N, k - 1 \in T
      PROVE  k \in T
  <2>1. k \in 0..N /\ k \in Nat
    BY <1>1
  <2>2. CASE k = 1
    BY <1>2, <2>1, <2>2 DEF StartsAt
  <2>3. CASE k # 1 /\ isalpha(content[k - 1])
    <3>1. start[k] = start[k - 1]
      BY <1>2, <2>3
    <3>2. StartsAt(content, k - 1, start[k - 1])
      BY <1>4, <2>1, <2>3
    <3>3. \A j \in start[k]..(k - 1) : j = k - 1 \/ j \in start[k]..(k - 1 - 1)
      BY <2>1, <3>1, <3>2 DEF StartsAt
    <3>4. StartsAt(content, k, start[k])
      BY <2>1, <2>3, <3>1, <3>2, <3>3 DEF StartsAt
    <3>5. QED
      BY <2>1, <3>4
  <2>4. CASE k # 1 /\ ~isalpha(content[k - 1])
    <3>1. start[k] = k
      BY <1>2, <2>4
    <3>2. k..(k - 1) = {}
      BY <2>1
    <3>3. StartsAt(content, k, k)
      BY <2>1, <2>4, <3>2 DEF StartsAt
    <3>4. QED
      BY <2>1, <3>1, <3>3
  <2>5. QED
    BY <2>2, <2>3, <2>4
<1>5. \A k \in 0..N : k \in T
  <2> HIDE DEF T
  <2>1. QED
    BY <1>1, <1>3, <1>4, Shared!Induction
<1>6. m \in T /\ m # 0
  BY <1>1, <1>5 DEF N
<1>7. QED
  BY <1>6 DEF start

(* The runs that have ended before k. *)
EndedBefore(text, k) == {r \in Runs(text) : r[2] < k}

(* A character ends one run or none. *)
LEMMA EndsOne ==
    ASSUME NEW text, IsSeq(text), NEW k \in 1..Len(text), NEW s, StartsAt(text, k, s)
    PROVE  /\ EndsWord(text, k) => /\ EndedBefore(text, k) = EndedBefore(text, k - 1) \cup {<<s, k - 1>>}
                                   /\ \A r \in EndedBefore(text, k - 1) : r[1] < s
           /\ ~EndsWord(text, k) => EndedBefore(text, k) = EndedBefore(text, k - 1)
<1>1. Len(text) \in Nat /\ k \in Nat /\ s \in Nat /\ s <= k /\ 1 <= s
  BY SeqIs DEF StartsAt
<1>2. \A r \in Runs(text) :
         /\ r = <<r[1], r[2]>> /\ r[1] \in Nat /\ r[2] \in Nat /\ 1 <= r[1] /\ r[1] <= r[2] /\ r[2] <= Len(text)
         /\ \A j \in r[1]..r[2] : isalpha(text[j])
         /\ r[1] = 1 \/ ~isalpha(text[r[1] - 1])
         /\ r[2] = Len(text) \/ ~isalpha(text[r[2] + 1])
  BY <1>1 DEF Runs
<1>3. ASSUME NEW r \in Runs(text), r[2] = k - 1
      PROVE  EndsWord(text, k) /\ r = <<s, k - 1>>
  <2>1. r[1] \in Nat /\ 1 <= r[1] /\ r[1] <= k - 1 /\ k - 1 < Len(text) /\ k > 1
    BY <1>1, <1>2, <1>3
  <2>2. ~isalpha(text[k])
    <3>1. r[2] # Len(text) /\ r[2] + 1 = k
      BY <1>1, <1>3, <2>1
    <3>2. QED
      BY <1>2, <3>1
  <2>3. isalpha(text[k - 1])
    <3>1. k - 1 \in r[1]..r[2]
      BY <1>1, <1>3, <2>1
    <3>2. QED
      BY <1>2, <3>1
  <2>4. r[1] = s
    <3>1. CASE r[1] < s
      <4>1. s - 1 \in r[1]..r[2] /\ s # 1
        BY <1>1, <1>3, <2>1, <3>1
      <4>2. QED
        BY <1>2, <4>1 DEF StartsAt
    <3>2. CASE s < r[1]
      <4>1. r[1] - 1 \in s..(k - 1) /\ r[1] # 1
        BY <1>1, <2>1, <3>2
      <4>2. QED
        BY <1>2, <4>1 DEF StartsAt
    <3>3. QED
      BY <1>1, <2>1, <3>1, <3>2
  <2>5. QED
    BY <1>2, <1>3, <2>1, <2>2, <2>3, <2>4 DEF EndsWord
<1>4. ASSUME EndsWord(text, k)
      PROVE  <<s, k - 1>> \in Runs(text)
  <2>1. k > 1 /\ ~isalpha(text[k]) /\ isalpha(text[k - 1])
    BY <1>4 DEF EndsWord
  <2>2. s <= k - 1
    <3>1. s # k
      BY <1>1, <2>1 DEF StartsAt
    <3>2. QED
      BY <1>1, <3>1
  <2>3. s \in 1..Len(text) /\ k - 1 \in 1..Len(text) /\ k - 1 + 1 = k
    BY <1>1, <2>1, <2>2
  <2>4. QED
    BY <2>1, <2>2, <2>3 DEF Runs, StartsAt
<1>5. \A r \in Runs(text) : r[2] < k <=> r[2] < k - 1 \/ r[2] = k - 1
  BY <1>1, <1>2
<1>6. ASSUME EndsWord(text, k), NEW r \in EndedBefore(text, k - 1)
      PROVE  r[1] < s
  <2>1. r \in Runs(text) /\ r[2] < k - 1
    BY <1>6 DEF EndedBefore
  <2>2. ~isalpha(text[r[2] + 1])
    BY <1>1, <1>2, <2>1
  <2>3. CASE s <= r[1]
    <3>1. r[2] + 1 \in s..(k - 1)
      BY <1>1, <1>2, <2>1, <2>3
    <3>2. QED
      BY <2>2, <3>1 DEF StartsAt
  <2>4. QED
    BY <1>1, <1>2, <2>1, <2>3
<1>7. CASE EndsWord(text, k)
  <2>1. <<s, k - 1>>[2] = k - 1
    OBVIOUS
  <2>2. EndedBefore(text, k) = EndedBefore(text, k - 1) \cup {<<s, k - 1>>}
    BY <1>3, <1>4, <1>5, <1>7, <2>1 DEF EndedBefore
  <2>3. QED
    BY <1>6, <1>7, <2>2
<1>8. CASE ~EndsWord(text, k)
  BY <1>3, <1>5, <1>8 DEF EndedBefore
<1>9. QED
  BY <1>7, <1>8

-----------------------------------------------------------------------------
(* The order of paths.                                                     *)

(* The place of a name in the order of strcmp. *)
Place(name) == SelectInSeq(Names, LAMBDA n : n = name)

(* No two names have the same place. *)
LEMMA PlaceIs ==
    /\ \A m \in ToSet(Names) : Place(m) \in Nat
    /\ \A m, n \in ToSet(Names) : Place(m) = Place(n) => m = n
<1>1. Names \in Seq(ToSet(Names))
  BY FileSystemsAssumption
<1>2. ASSUME NEW m \in ToSet(Names)
      PROVE  Place(m) \in 1..Len(Names) /\ Names[Place(m)] = m
  <2> DEFINE I == {i \in 1..Len(Names) : Names[i] = m}
  <2>1. I \subseteq Nat /\ I # {}
    BY <1>1 DEF ToSet
  <2>2. Place(m) = Min(I)
    BY <2>1, Zenon DEF Place, SelectInSeq
  <2>3. Min(I) \in I
    <3> HIDE DEF I
    <3>1. QED
      BY <2>1, Shared!MinIs DEF Min, Shared!Min
  <2>4. QED
    BY <2>2, <2>3
<1>3. Len(Names) \in Nat
  BY <1>1
<1>4. QED
  BY <1>2, <1>3

(* Two paths part at a name that has the smaller place in the first. *)
PartAt(p, q, k) ==
    /\ k \in 1..Len(p) /\ k \in 1..Len(q)
    /\ \A j \in 1..(k - 1) : p[j] = q[j]
    /\ p[k] \in ToSet(Names) /\ Place(p[k]) < Place(q[k])

(* They do so somewhere. *)
Precedes(p, q) == \E k \in Nat : PartAt(p, q, k)

(* No path precedes itself. *)
LEMMA NotItself ==
    ASSUME NEW p, Precedes(p, p)
    PROVE  FALSE
<1>1. PICK k \in Nat : PartAt(p, p, k)
  BY DEF Precedes
<1>2. p[k] \in ToSet(Names) /\ Place(p[k]) < Place(p[k])
  BY <1>1 DEF PartAt
<1>3. QED
  BY <1>2, PlaceIs

(* What follows a path follows with another name behind it, and what a     *)
(* path precedes it precedes with another name behind it.                  *)
LEMMA PrecedesMore ==
    ASSUME NEW p, NEW q, IsSeq(p), IsSeq(q), Precedes(p, q), NEW m
    PROVE  Precedes(p, Append(q, m)) /\ Precedes(Append(p, m), q)
<1>1. PICK k \in Nat : PartAt(p, q, k)
  BY DEF Precedes
<1>2. Len(p) \in Nat /\ Len(q) \in Nat
  BY SeqIs
<1>3. ASSUME NEW s, IsSeq(s)
      PROVE  Len(Append(s, m)) = Len(s) + 1 /\ \A j \in 1..Len(s) : Append(s, m)[j] = s[j]
  <2> DEFINE S == ToSet(s) \cup {m}
  <2>1. s \in Seq(S) /\ m \in S
    BY <1>3 DEF IsSeq
  <2> HIDE DEF S
  <2>2. QED
    BY <2>1
<1>4. k \in 1..Len(p) /\ k \in 1..Len(q) /\ k \in 1..(Len(p) + 1) /\ k \in 1..(Len(q) + 1)
  BY <1>1, <1>2 DEF PartAt
<1>5. \A j \in 1..(k - 1) : j \in 1..Len(p) /\ j \in 1..Len(q)
  BY <1>2, <1>4
<1>6. PartAt(p, Append(q, m), k)
  BY <1>1, <1>3, <1>4, <1>5 DEF PartAt
<1>7. PartAt(Append(p, m), q, k)
  BY <1>1, <1>3, <1>4, <1>5 DEF PartAt
<1>8. QED
  BY <1>6, <1>7 DEF Precedes

(* Two entries of a directory. *)
LEMMA PrecedesHere ==
    ASSUME NEW p, IsSeq(p), NEW m \in ToSet(Names), NEW n, Place(m) < Place(n)
    PROVE  Precedes(Append(p, m), Append(p, n))
<1>1. Len(p) \in Nat
  BY SeqIs
<1>2. ASSUME NEW x
      PROVE  /\ Len(Append(p, x)) = Len(p) + 1
             /\ \A j \in 1..Len(p) : Append(p, x)[j] = p[j]
             /\ Append(p, x)[Len(p) + 1] = x
  <2> DEFINE S == ToSet(p) \cup {x}
  <2>1. p \in Seq(S) /\ x \in S
    BY DEF IsSeq
  <2> HIDE DEF S
  <2>2. QED
    BY <2>1
<1>3. Len(p) + 1 \in Nat /\ Len(p) + 1 \in 1..(Len(p) + 1) /\ Len(p) + 1 - 1 = Len(p)
  BY <1>1
<1>4. PartAt(Append(p, m), Append(p, n), Len(p) + 1)
  BY <1>2, <1>3 DEF PartAt
<1>5. QED
  BY <1>3, <1>4 DEF Precedes

(* Precedes is the order that the property names. *)
LEMMA IsBefore ==
    ASSUME NEW p, NEW q, IsSeq(p), IsSeq(q), Precedes(p, q)
    PROVE  Before(p, q)
<1>1. PICK k \in Nat : PartAt(p, q, k)
  BY DEF Precedes
<1>2. Len(p) \in Nat /\ Len(q) \in Nat
  BY SeqIs
<1> DEFINE S == ToSet(p) \cup ToSet(q)
<1>3. p \in Seq(S) /\ q \in Seq(S)
  BY DEF IsSeq
<1>4. k \in 1..Len(p) /\ k \in 1..Len(q) /\ \A j \in 1..(k - 1) : p[j] = q[j]
  BY <1>1 DEF PartAt
<1> HIDE DEF S
<1>5. SubSeq(p, 1, k - 1) = SubSeq(q, 1, k - 1)
  <2> DEFINE a == SubSeq(p, 1, k - 1)
             b == SubSeq(q, 1, k - 1)
  <2>1. /\ a \in Seq(S) /\ Len(a) = k - 1 /\ \A j \in 1..(k - 1) : a[j] = p[j]
        /\ b \in Seq(S) /\ Len(b) = k - 1 /\ \A j \in 1..(k - 1) : b[j] = q[j]
    BY <1>2, <1>3, <1>4
  <2> HIDE DEF a, b
  <2>2. a = b
    BY <1>4, <2>1
  <2>3. QED
    BY <2>2 DEF a, b
<1>6. alphasort([name |-> p[k]], [name |-> q[k]])
  BY <1>1 DEF PartAt, alphasort, Place
<1>7. k \in 1..Min({Len(p), Len(q)})
  <2> DEFINE L == {Len(p), Len(q)}
  <2>1. L \subseteq Nat /\ L # {}
    BY <1>2
  <2>2. Min(L) \in L
    <3> HIDE DEF L
    <3>1. QED
      BY <2>1, Shared!MinIs DEF Min, Shared!Min
  <2>3. QED
    BY <1>2, <1>4, <2>2
<1>8. QED
  BY <1>5, <1>6, <1>7 DEF Before

-----------------------------------------------------------------------------
(* The activations of HandleDir.                                           *)

(* The elements of sequences that are made from others. *)
LEMMA TailIs ==
    ASSUME NEW s, IsSeq(s), Len(s) >= 1
    PROVE  /\ IsSeq(Tail(s)) /\ Len(Tail(s)) = Len(s) - 1 /\ Head(s) = s[1]
           /\ \A j \in 1..(Len(s) - 1) : Tail(s)[j] = s[j + 1]
<1> DEFINE t == Tail(s)
           S == ToSet(s)
<1>1. s \in Seq(S) /\ Len(s) \in Nat
  BY DEF IsSeq
<1> HIDE DEF S
<1>2. s # <<>>
  BY <1>1
<1>3. t \in Seq(S) /\ Len(t) = Len(s) - 1 /\ Head(s) = s[1]
  BY <1>1, <1>2
<1>4. \A j \in 1..(Len(s) - 1) : t[j] = s[j + 1]
  BY <1>1, <1>2
<1> HIDE DEF t
<1>5. t \in Seq(ToSet(t))
  BY <1>3 DEF ToSet
<1>6. QED
  BY <1>3, <1>4, <1>5 DEF IsSeq, t

(* The elements of s with x behind them. *)
LEMMA AppendElements ==
    ASSUME NEW s, IsSeq(s), NEW x
    PROVE  /\ \A j \in 1..Len(s) : Append(s, x)[j] = s[j]
           /\ Append(s, x)[Len(s) + 1] = x
<1> DEFINE S == ToSet(s) \cup {x}
<1>1. s \in Seq(S) /\ x \in S
  BY DEF IsSeq
<1> HIDE DEF S
<1>2. QED
  BY <1>1

(* The elements of s with x in one place. *)
LEMMA ExceptElements ==
    ASSUME NEW s, IsSeq(s), NEW n \in 1..Len(s), NEW x
    PROVE  /\ [s EXCEPT ![n] = x][n] = x
           /\ \A j \in 1..Len(s) : j # n => [s EXCEPT ![n] = x][j] = s[j]
<1>1. DOMAIN s = 1..Len(s)
  BY SeqIs
<1>2. QED
  BY <1>1

(* The elements of s without the last. *)
LEMMA FrontElements ==
    ASSUME NEW s, IsSeq(s), Len(s) >= 1
    PROVE  \A j \in 1..(Len(s) - 1) : Front(s)[j] = s[j]
<1> DEFINE S == ToSet(s)
<1>1. s \in Seq(S) /\ Len(s) \in Nat
  BY DEF IsSeq
<1> HIDE DEF S
<1>2. QED
  BY <1>1 DEF Front

(* An activation: the entries it has read have different names, and none   *)
(* of those it has yet to read.                                            *)
FrameOK(F) ==
    /\ F = [path |-> F.path, unread |-> F.unread, entries |-> F.entries]
    /\ IsSeq(F.path) /\ IsSeq(F.entries)
    /\ F.unread \subseteq ToSet(Names)
    /\ \A m \in 1..Len(F.entries) : F.entries[m].name \in ToSet(Names) \ F.unread
    /\ \A m, n \in 1..Len(F.entries) : m # n => F.entries[m].name # F.entries[n].name

(* It has read them all and they are sorted. *)
Sorted(F) ==
    /\ F.unread = {}
    /\ \A m, n \in 1..Len(F.entries) :
          m < n => Place(F.entries[m].name) < Place(F.entries[n].name)

(* The names it has yet to go to, from the entry "from" on, and a path     *)
(* that precedes all that is there.                                        *)
LeftIn(F, from) == F.unread \cup {F.entries[n].name : n \in from..Len(F.entries)}
Ahead(p, F, from) == \A m \in LeftIn(F, from) : Precedes(p, Append(F.path, m))

(* The activations, and the documents whose paths are names.  The top one  *)
(* is yet to go to its first entry; the others are in theirs.              *)
FramesOK(st, names, scanning) ==
    /\ IsSeq(st)
    /\ \A j \in 1..Len(st) : FrameOK(st[j])
    /\ \A j \in 1..Len(st) : j # Len(st) \/ ~scanning => Sorted(st[j])
    /\ \A j \in 1..Len(st) : j # Len(st) => Len(st[j].entries) >= 1
    /\ \A i, j \in 1..Len(st) : j < i => Ahead(st[i].path, st[j], 2)
    /\ \A d \in DOMAIN names : IsSeq(names[d])
    /\ \A d \in DOMAIN names, j \in 1..Len(st) :
          Ahead(names[d], st[j], IF j = Len(st) THEN 1 ELSE 2)

(* The top activation goes on: what is left of it gets less. *)
LEMMA TopGoesOn ==
    ASSUME NEW st, NEW names, NEW scanning \in BOOLEAN, FramesOK(st, names, scanning), Len(st) >= 1,
           NEW F, FrameOK(F), F.path = Last(st).path,
           LeftIn(F, 1) \subseteq LeftIn(Last(st), 1),
           NEW next \in BOOLEAN, next \/ Sorted(F),
           NEW to, to = [st EXCEPT ![Len(st)] = F]
    PROVE  FramesOK(to, names, next)
<1>1. Len(st) \in Nat /\ Len(st) \in 1..Len(st) /\ Last(st) = st[Len(st)] /\ IsSeq(st)
  BY SeqIs DEF FramesOK, Last
<1>2. /\ IsSeq(to) /\ Len(to) = Len(st)
      /\ to[Len(st)] = F
      /\ \A j \in 1..Len(st) : j # Len(st) => to[j] = st[j]
  <2>1. IsSeq([st EXCEPT ![Len(st)] = F]) /\ Len([st EXCEPT ![Len(st)] = F]) = Len(st)
    BY <1>1, ExceptIs
  <2>2. /\ [st EXCEPT ![Len(st)] = F][Len(st)] = F
        /\ \A j \in 1..Len(st) : j # Len(st) => [st EXCEPT ![Len(st)] = F][j] = st[j]
    BY <1>1, ExceptElements
  <2>3. QED
    BY <2>1, <2>2
<1>3. \A j \in 1..Len(st) : to[j].path = st[j].path
  BY <1>1, <1>2
<1>4. \A j \in 1..Len(st) : FrameOK(to[j])
  BY <1>2 DEF FramesOK
<1>5. \A j \in 1..Len(st) : j # Len(st) \/ ~next => Sorted(to[j])
  BY <1>2 DEF FramesOK
<1>6. \A j \in 1..Len(st) : j # Len(st) => Len(to[j].entries) >= 1
  BY <1>2 DEF FramesOK
<1>7. ASSUME NEW i \in 1..Len(st), NEW j \in 1..Len(st), j < i
      PROVE  Ahead(to[i].path, to[j], 2)
  <2>1. j # Len(st)
    BY <1>1, <1>7
  <2>2. to[j] = st[j] /\ to[i].path = st[i].path
    BY <1>2, <1>3, <2>1
  <2>3. QED
    BY <1>7, <2>2 DEF FramesOK
<1>8. ASSUME NEW d \in DOMAIN names, NEW j \in 1..Len(st)
      PROVE  Ahead(names[d], to[j], IF j = Len(st) THEN 1 ELSE 2)
  <2>1. CASE j # Len(st)
    BY <1>2, <2>1 DEF FramesOK
  <2>2. CASE j = Len(st)
    <3>1. Ahead(names[d], Last(st), 1)
      BY <1>1, <2>2 DEF FramesOK
    <3>2. Ahead(names[d], F, 1)
      BY <3>1 DEF Ahead
    <3>3. QED
      BY <1>2, <2>2, <3>2
  <2>3. QED
    BY <2>1, <2>2
<1>9. QED
  BY <1>2, <1>4, <1>5, <1>6, <1>7, <1>8 DEF FramesOK

(* The entry that is gone to. *)
Gone(F) == [F EXCEPT !.entries = Tail(@)]

(* It is in front of what is then left. *)
LEMMA GoneIs ==
    ASSUME NEW F, FrameOK(F), Sorted(F), Len(F.entries) >= 1
    PROVE  /\ FrameOK(Gone(F)) /\ Sorted(Gone(F)) /\ Gone(F).path = F.path
           /\ LeftIn(Gone(F), 1) = LeftIn(F, 2)
           /\ LeftIn(F, 2) \subseteq LeftIn(F, 1)
           /\ Head(F.entries).name \in LeftIn(F, 1)
           /\ Ahead(Append(F.path, Head(F.entries).name), F, 2)
<1> DEFINE E == F.entries
           n == Len(E)
<1>1. /\ F = [path |-> F.path, unread |-> F.unread, entries |-> E]
      /\ IsSeq(F.path) /\ IsSeq(E) /\ F.unread = {}
      /\ \A m \in 1..n : E[m].name \in ToSet(Names)
      /\ \A l, m \in 1..n : l # m => E[l].name # E[m].name
      /\ \A l, m \in 1..n : l < m => Place(E[l].name) < Place(E[m].name)
  BY DEF FrameOK, Sorted
<1>2. n \in Nat /\ n >= 1
  BY <1>1, SeqIs
<1>3. /\ IsSeq(Tail(E)) /\ Len(Tail(E)) = n - 1 /\ Head(E) = E[1]
      /\ \A j \in 1..(n - 1) : Tail(E)[j] = E[j + 1]
  BY <1>1, TailIs
<1>4. Gone(F) = [path |-> F.path, unread |-> F.unread, entries |-> Tail(E)]
  <2>1. PICK p, u, e : F = [path |-> p, unread |-> u, entries |-> e]
    BY <1>1
  <2>2. F.path = p /\ F.unread = u /\ F.entries = e
    BY <2>1
  <2> DEFINE t == Tail(e)
  <2>3. Gone(F) = [F EXCEPT !.entries = t]
    BY <2>2 DEF Gone
  <2> HIDE DEF t
  <2>5. Gone(F) = [path |-> p, unread |-> u, entries |-> t]
    BY <2>1, <2>3
  <2>6. QED
    BY <2>2, <2>5 DEF t
<1> HIDE DEF E, n
<1>5. Gone(F).path = F.path /\ Gone(F).unread = {} /\ Gone(F).entries = Tail(E)
  BY <1>1, <1>4
<1>6. \A j \in 1..(n - 1) : j + 1 \in 1..n
  BY <1>2
<1>7. FrameOK(Gone(F))
  <2>1. \A m \in 1..(n - 1) : Tail(E)[m].name \in ToSet(Names)
    BY <1>1, <1>3, <1>6
  <2>2. \A l, m \in 1..(n - 1) : l # m => Tail(E)[l].name # Tail(E)[m].name
    BY <1>1, <1>3, <1>6
  <2>3. QED
    BY <1>1, <1>3, <1>4, <1>5, <2>1, <2>2 DEF FrameOK
<1>8. Sorted(Gone(F))
  <2>1. \A l, m \in 1..(n - 1) : l < m => Place(Tail(E)[l].name) < Place(Tail(E)[m].name)
    BY <1>1, <1>3, <1>6
  <2>2. QED
    BY <1>3, <1>5, <2>1 DEF Sorted
<1>9. LeftIn(Gone(F), 1) = LeftIn(F, 2)
  <2>1. \A j \in 2..n : j - 1 \in 1..(n - 1) /\ Tail(E)[j - 1] = E[j]
    BY <1>2, <1>3
  <2>2. \A j \in 1..(n - 1) : j + 1 \in 2..n /\ Tail(E)[j] = E[j + 1]
    BY <1>2, <1>3
  <2>3. {Tail(E)[j].name : j \in 1..(n - 1)} = {E[j].name : j \in 2..n}
    <3> DEFINE T == Tail(E)
               A == 1..(n - 1)
               B == 2..n
    <3>1. /\ \A j \in B : j - 1 \in A /\ T[j - 1] = E[j]
          /\ \A j \in A : j + 1 \in B /\ T[j] = E[j + 1]
      BY <2>1, <2>2
    <3> HIDE DEF T, A, B
    <3>2. {T[j].name : j \in A} = {E[j].name : j \in B}
      <4>1. ASSUME NEW j \in A
            PROVE  T[j].name \in {E[i].name : i \in B}
        BY <3>1
      <4>2. ASSUME NEW j \in B
            PROVE  E[j].name \in {T[i].name : i \in A}
        <5>1. j - 1 \in A /\ E[j].name = T[j - 1].name
          BY <3>1
        <5>2. QED
          BY <5>1
      <4>3. QED
        BY <4>1, <4>2
    <3>3. QED
      BY <3>2 DEF T, A, B
  <2>4. LeftIn(Gone(F), 1) = {Tail(E)[j].name : j \in 1..(n - 1)}
    <3>1. LeftIn(Gone(F), 1) = {} \cup {Tail(E)[j].name : j \in 1..Len(Tail(E))}
      BY <1>5 DEF LeftIn
    <3>2. QED
      BY <1>3, <3>1
  <2>5. LeftIn(F, 2) = {E[j].name : j \in 2..n}
    BY <1>1 DEF LeftIn, E, n
  <2>6. QED
    BY <2>3, <2>4, <2>5
<1>10. LeftIn(F, 2) = {E[j].name : j \in 2..n} /\ LeftIn(F, 1) = {E[j].name : j \in 1..n}
  BY <1>1 DEF LeftIn, E, n
<1>11. 2..n \subseteq 1..n /\ 1 \in 1..n
  BY <1>2
<1>12. ASSUME NEW m \in LeftIn(F, 2)
       PROVE  Precedes(Append(F.path, Head(E).name), Append(F.path, m))
  <2>1. PICK j \in 2..n : m = E[j].name
    BY <1>10
  <2>2. Place(E[1].name) < Place(E[j].name) /\ E[1].name \in ToSet(Names)
    BY <1>1, <1>11, <1>2
  <2>3. QED
    BY <1>1, <1>3, <2>1, <2>2, PrecedesHere
<1>13. QED
  BY <1>3, <1>5, <1>7, <1>8, <1>9, <1>10, <1>11, <1>12 DEF Ahead, E

(* The path of the entry that the top activation is at. *)
EntryOf(F) == Append(F.path, Head(F.entries).name)

(* It follows the documents, and precedes what the activations have left. *)
LEMMA EntryAhead ==
    ASSUME NEW st, NEW names, FramesOK(st, names, FALSE), Len(st) >= 1,
           Len(Last(st).entries) >= 1
    PROVE  /\ IsSeq(EntryOf(Last(st)))
           /\ \A j \in 1..Len(st) : Ahead(EntryOf(Last(st)), st[j], 2)
           /\ \A d \in DOMAIN names : Precedes(names[d], EntryOf(Last(st)))
<1> DEFINE n == Len(st)
           F == Last(st)
           h == Head(F.entries).name
<1>1. n \in Nat /\ n \in 1..n /\ F = st[n] /\ IsSeq(st)
  BY SeqIs DEF FramesOK, Last
<1>2. FrameOK(F) /\ Sorted(F)
  BY <1>1 DEF FramesOK
<1>3. IsSeq(F.path) /\ IsSeq(EntryOf(F)) /\ EntryOf(F) = Append(F.path, h)
  BY <1>2, AppendIs DEF FrameOK, EntryOf
<1>4. Ahead(Append(F.path, h), F, 2) /\ h \in LeftIn(F, 1)
  BY <1>2, GoneIs
<1>5. ASSUME NEW j \in 1..n, j # n
      PROVE  Ahead(EntryOf(F), st[j], 2)
  <2>1. Ahead(F.path, st[j], 2)
    <3>1. j < n
      BY <1>1, <1>5
    <3>2. QED
      BY <1>1, <3>1 DEF FramesOK
  <2>2. IsSeq(st[j].path)
    BY DEF FramesOK, FrameOK
  <2>3. ASSUME NEW m \in LeftIn(st[j], 2)
        PROVE  Precedes(Append(F.path, h), Append(st[j].path, m))
    <3>1. Precedes(F.path, Append(st[j].path, m))
      BY <2>1 DEF Ahead
    <3>2. IsSeq(Append(st[j].path, m))
      BY <2>2, AppendIs
    <3> HIDE DEF h, F
    <3>3. QED
      BY <1>3, <3>1, <3>2, PrecedesMore
  <2>4. QED
    BY <1>3, <2>3 DEF Ahead
<1>6. ASSUME NEW d \in DOMAIN names
      PROVE  Precedes(names[d], EntryOf(F))
  <2>1. Ahead(names[d], F, 1)
    BY <1>1 DEF FramesOK
  <2>2. QED
    BY <1>3, <1>4, <2>1 DEF Ahead
<1>7. \A j \in 1..n : Ahead(EntryOf(F), st[j], 2)
  BY <1>1, <1>3, <1>4, <1>5
<1>8. QED
  BY <1>3, <1>6, <1>7

(* The entry is done with, and no document has come from it. *)
LEMMA EntryDropped ==
    ASSUME NEW st, NEW names, FramesOK(st, names, FALSE), Len(st) >= 1,
           Len(Last(st).entries) >= 1,
           NEW to, to = [st EXCEPT ![Len(st)].entries = Tail(@)]
    PROVE  FramesOK(to, names, FALSE)
<1> DEFINE F == Last(st)
<1>1. Len(st) \in Nat /\ Len(st) \in 1..Len(st) /\ F = st[Len(st)] /\ IsSeq(st)
  BY SeqIs DEF FramesOK, Last
<1>2. FrameOK(F) /\ Sorted(F)
  BY <1>1 DEF FramesOK
<1>3. to = [st EXCEPT ![Len(st)] = Gone(F)]
  BY <1>1 DEF Gone
<1>4. /\ FrameOK(Gone(F)) /\ Sorted(Gone(F)) /\ Gone(F).path = F.path
      /\ LeftIn(Gone(F), 1) \subseteq LeftIn(F, 1)
  BY <1>2, GoneIs
<1> HIDE DEF F
<1>5. QED
  <2> DEFINE G == Gone(F)
  <2> HIDE DEF G
  <2>1. /\ FrameOK(G) /\ Sorted(G) /\ G.path = Last(st).path
        /\ LeftIn(G, 1) \subseteq LeftIn(Last(st), 1) /\ to = [st EXCEPT ![Len(st)] = G]
    BY <1>3, <1>4 DEF F, G
  <2>2. QED
    BY <2>1, TopGoesOn

(* The entry is done with and is a document now. *)
LEMMA EntryAdded ==
    ASSUME NEW st, NEW names, FramesOK(st, names, FALSE), Len(st) >= 1,
           Len(Last(st).entries) >= 1,
           NEW to, to = [st EXCEPT ![Len(st)].entries = Tail(@)],
           NEW x, NEW more, DOMAIN more = DOMAIN names \cup {x}, more[x] = EntryOf(Last(st)),
           \A d \in DOMAIN names : more[d] = names[d], x \notin DOMAIN names
    PROVE  FramesOK(to, more, FALSE)
<1> DEFINE n == Len(st)
           F == Last(st)
<1>1. n \in Nat /\ n \in 1..n /\ F = st[n] /\ IsSeq(st)
  BY SeqIs DEF FramesOK, Last
<1>2. FrameOK(F) /\ Sorted(F)
  BY <1>1 DEF FramesOK
<1>3. FramesOK(to, names, FALSE)
  BY EntryDropped
<1>4. to = [st EXCEPT ![n] = Gone(F)]
  BY <1>1 DEF Gone
<1>5. Len(to) = n /\ to[n] = Gone(F) /\ \A j \in 1..n : j # n => to[j] = st[j]
  <2> HIDE DEF F
  <2> DEFINE G == Gone(F)
  <2> HIDE DEF G
  <2>1. to = [st EXCEPT ![Len(st)] = G]
    BY <1>4 DEF G
  <2>2. Len([st EXCEPT ![Len(st)] = G]) = Len(st)
    BY <1>1, ExceptIs
  <2>3. /\ [st EXCEPT ![Len(st)] = G][Len(st)] = G
        /\ \A j \in 1..Len(st) : j # Len(st) => [st EXCEPT ![Len(st)] = G][j] = st[j]
    BY <1>1, ExceptElements
  <2>4. QED
    BY <2>1, <2>2, <2>3 DEF G
<1>6. /\ IsSeq(EntryOf(F))
      /\ \A j \in 1..n : Ahead(EntryOf(F), st[j], 2)
  BY EntryAhead
<1>7. Ahead(EntryOf(F), Gone(F), 1)
  <2>1. LeftIn(Gone(F), 1) = LeftIn(F, 2) /\ Gone(F).path = F.path
    BY <1>2, GoneIs
  <2>2. Ahead(EntryOf(F), F, 2)
    BY <1>1, <1>6
  <2>3. QED
    BY <2>1, <2>2 DEF Ahead
<1>8. ASSUME NEW d \in DOMAIN more
      PROVE  /\ IsSeq(more[d])
             /\ \A j \in 1..n : Ahead(more[d], to[j], IF j = n THEN 1 ELSE 2)
  <2>1. CASE d = x
    BY <1>5, <1>6, <1>7, <2>1
  <2>2. CASE d \in DOMAIN names
    BY <1>3, <1>5, <2>2 DEF FramesOK
  <2>3. QED
    BY <2>1, <2>2
<1>9. QED
  BY <1>3, <1>5, <1>8 DEF FramesOK

(* The entry is a directory and is entered. *)
LEMMA EntryEntered ==
    ASSUME NEW st, NEW names, FramesOK(st, names, FALSE), Len(st) >= 1,
           Len(Last(st).entries) >= 1,
           NEW U, U \subseteq ToSet(Names),
           NEW to, to = Append(st, [path |-> EntryOf(Last(st)), unread |-> U, entries |-> <<>>])
    PROVE  FramesOK(to, names, TRUE)
<1> DEFINE n == Len(st)
           F == Last(st)
           P == EntryOf(F)
           G == [path |-> P, unread |-> U, entries |-> <<>>]
<1>1. n \in Nat /\ n \in 1..n /\ F = st[n] /\ IsSeq(st)
  BY SeqIs DEF FramesOK, Last
<1>2. FrameOK(F) /\ Sorted(F)
  BY <1>1 DEF FramesOK
<1>3. /\ IsSeq(P)
      /\ \A j \in 1..n : Ahead(P, st[j], 2)
      /\ \A d \in DOMAIN names : Precedes(names[d], P)
  BY EntryAhead
<1>4. /\ IsSeq(to) /\ Len(to) = n + 1
      /\ \A j \in 1..n : to[j] = st[j]
      /\ to[n + 1] = G
  BY <1>1, AppendIs, AppendElements
<1>5. G.path = P /\ LeftIn(G, 1) = U /\ FrameOK(G)
  <2>1. G.path = P /\ G.unread = U /\ G.entries = <<>>
    OBVIOUS
  <2>2. Len(<<>>) = 0 /\ IsSeq(<<>>) /\ 1..0 = {}
    BY DEF IsSeq
  <2>3. LeftIn(G, 1) = U
    BY <2>1, <2>2 DEF LeftIn
  <2>4. QED
    BY <1>3, <2>1, <2>2, <2>3 DEF FrameOK
<1> HIDE DEF n, F, P, G
<1>6. \A j \in 1..(n + 1) : j \in 1..n \/ j = n + 1
  BY <1>1
<1>7. \A j \in 1..(n + 1) : FrameOK(to[j])
  BY <1>4, <1>5, <1>6 DEF FramesOK, n
<1>8. \A j \in 1..(n + 1) : j # n + 1 => Sorted(to[j]) /\ Len(to[j].entries) >= 1
  <2>1. \A j \in 1..n : Sorted(st[j])
    BY DEF FramesOK, n
  <2>2. \A j \in 1..n : Len(st[j].entries) >= 1
    <3>1. \A j \in 1..n : j # n => Len(st[j].entries) >= 1
      BY DEF FramesOK, n
    <3>2. Len(st[n].entries) >= 1
      BY <1>1 DEF F
    <3>3. QED
      BY <3>1, <3>2
  <2>3. QED
    BY <1>4, <1>6, <2>1, <2>2
<1>9. ASSUME NEW i \in 1..(n + 1), NEW j \in 1..(n + 1), j < i
      PROVE  Ahead(to[i].path, to[j], 2)
  <2>1. j \in 1..n
    BY <1>1, <1>9
  <2>2. CASE i = n + 1
    BY <1>3, <1>4, <1>5, <2>1, <2>2
  <2>3. CASE i \in 1..n
    BY <1>4, <1>9, <2>1, <2>3 DEF FramesOK, n
  <2>4. QED
    BY <1>6, <2>2, <2>3
<1>10. ASSUME NEW d \in DOMAIN names, NEW j \in 1..(n + 1)
       PROVE  Ahead(names[d], to[j], IF j = n + 1 THEN 1 ELSE 2)
  <2>1. CASE j = n + 1
    <3>1. IsSeq(names[d]) /\ Precedes(names[d], P)
      BY <1>3 DEF FramesOK
    <3>2. \A m \in U : Precedes(names[d], Append(P, m))
      BY <1>3, <3>1, PrecedesMore
    <3>3. QED
      BY <1>4, <1>5, <2>1, <3>2 DEF Ahead
  <2>2. CASE j = n
    <3>1. Ahead(names[d], F, 1)
      BY <1>1 DEF FramesOK, n
    <3>2. LeftIn(F, 2) \subseteq LeftIn(F, 1)
      BY <1>2, GoneIs DEF F
    <3>3. Ahead(names[d], F, 2)
      BY <3>1, <3>2 DEF Ahead
    <3>4. QED
      BY <1>1, <1>4, <2>2, <3>3
  <2>3. CASE j \in 1..n /\ j # n
    <3>1. Ahead(names[d], st[j], 2)
      BY <2>3 DEF FramesOK, n
    <3>2. j # n + 1
      BY <1>1, <2>3
    <3>3. QED
      BY <1>4, <2>3, <3>1, <3>2
  <2>4. QED
    BY <1>6, <2>1, <2>2, <2>3
<1>11. QED
  BY <1>4, <1>7, <1>8, <1>9, <1>10 DEF FramesOK

(* The directory is done with, and its entry in the one above. *)
LEMMA DirectoryLeft ==
    ASSUME NEW st, NEW names, FramesOK(st, names, FALSE), Len(st) >= 2,
           NEW to, to = [Front(st) EXCEPT ![Len(st) - 1].entries = Tail(@)]
    PROVE  FramesOK(to, names, FALSE)
<1> DEFINE n == Len(st) - 1
           low == Front(st)
           F == st[n]
<1>1. Len(st) \in Nat /\ n \in Nat /\ Len(st) = n + 1 /\ n >= 1 /\ n \in 1..n /\ IsSeq(st)
  BY SeqIs DEF FramesOK
<1>2. IsSeq(low) /\ Len(low) = n /\ \A j \in 1..n : low[j] = st[j]
  <2>1. Len(st) >= 1
    BY <1>1
  <2>2. IsSeq(Front(st)) /\ Len(Front(st)) = Len(st) - 1
    BY <1>1, <2>1, FrontIs
  <2>3. \A j \in 1..(Len(st) - 1) : Front(st)[j] = st[j]
    BY <1>1, <2>1, FrontElements
  <2>4. QED
    BY <2>2, <2>3
<1> HIDE DEF n, low
<1>3. 1..n \subseteq 1..Len(st) /\ n # Len(st) /\ n \in 1..Len(st)
  BY <1>1
<1>4. FrameOK(F) /\ Sorted(F) /\ Len(F.entries) >= 1
  BY <1>3 DEF FramesOK
<1>5. /\ FrameOK(Gone(F)) /\ Sorted(Gone(F)) /\ Gone(F).path = F.path
      /\ LeftIn(Gone(F), 1) = LeftIn(F, 2)
  BY <1>4, GoneIs
<1>6. to = [low EXCEPT ![n] = Gone(F)]
  BY <1>1, <1>2 DEF Gone, n, low
<1> HIDE DEF F
<1>7. IsSeq(to) /\ Len(to) = n /\ to[n] = Gone(F) /\ \A j \in 1..n : j # n => to[j] = st[j]
  <2> DEFINE G == Gone(F)
  <2> HIDE DEF G
  <2>1. to = [low EXCEPT ![n] = G]
    BY <1>6 DEF G
  <2>2. IsSeq([low EXCEPT ![n] = G]) /\ Len([low EXCEPT ![n] = G]) = n
    BY <1>2, ExceptIs
  <2>3. /\ [low EXCEPT ![n] = G][n] = G
        /\ \A j \in 1..Len(low) : j # n => [low EXCEPT ![n] = G][j] = low[j]
    BY <1>1, <1>2, ExceptElements
  <2>4. QED
    BY <1>2, <2>1, <2>2, <2>3 DEF G
<1>8. \A j \in 1..n : to[j].path = st[j].path
  BY <1>5, <1>7 DEF F
<1>9. \A j \in 1..n : FrameOK(to[j]) /\ Sorted(to[j])
  <2>1. ASSUME NEW j \in 1..n, j # n
        PROVE  FrameOK(st[j]) /\ Sorted(st[j])
    BY <1>3 DEF FramesOK
  <2>2. QED
    BY <1>5, <1>7, <2>1
<1>10. \A j \in 1..n : j # n => Len(to[j].entries) >= 1
  <2>1. \A j \in 1..n : j # Len(st)
    BY <1>1
  <2>2. QED
    BY <1>3, <1>7, <2>1 DEF FramesOK
<1>11. ASSUME NEW i \in 1..n, NEW j \in 1..n, j < i
       PROVE  Ahead(to[i].path, to[j], 2)
  <2>1. j # n
    BY <1>1, <1>11
  <2>2. Ahead(st[i].path, st[j], 2)
    BY <1>3, <1>11 DEF FramesOK
  <2>3. QED
    BY <1>7, <1>8, <2>1, <2>2
<1>12. ASSUME NEW d \in DOMAIN names, NEW j \in 1..n
       PROVE  Ahead(names[d], to[j], IF j = n THEN 1 ELSE 2)
  <2>1. Ahead(names[d], st[j], 2)
    <3>1. j # Len(st) /\ j \in 1..Len(st)
      BY <1>1
    <3>2. QED
      BY <3>1 DEF FramesOK
  <2>2. CASE j = n
    <3>1. Ahead(names[d], Gone(F), 1)
      BY <1>5, <2>1, <2>2 DEF Ahead, F
    <3>2. QED
      BY <1>7, <2>2, <3>1
  <2>3. CASE j # n
    BY <1>7, <2>1, <2>3
  <2>4. QED
    BY <2>2, <2>3
<1>13. \A d \in DOMAIN names : IsSeq(names[d])
  BY DEF FramesOK
<1>14. QED
  BY <1>7, <1>9, <1>10, <1>11, <1>12, <1>13 DEF FramesOK

(* readdir returns a name that is left. *)
LEMMA ReadIs ==
    ASSUME NEW F, FrameOK(F), NEW name \in F.unread, NEW e, e.name = name,
           NEW G, G = [path |-> F.path, unread |-> F.unread \ {name}, entries |-> Append(F.entries, e)]
    PROVE  FrameOK(G) /\ G.path = F.path /\ LeftIn(G, 1) \subseteq LeftIn(F, 1)
<1> DEFINE E == F.entries
           n == Len(E)
           A == Append(E, e)
<1>1. /\ IsSeq(F.path) /\ IsSeq(E) /\ F.unread \subseteq ToSet(Names)
      /\ \A m \in 1..n : E[m].name \in ToSet(Names) \ F.unread
      /\ \A l, m \in 1..n : l # m => E[l].name # E[m].name
  BY DEF FrameOK
<1>2. n \in Nat
  BY <1>1, SeqIs
<1>3. IsSeq(A) /\ Len(A) = n + 1 /\ A[n + 1] = e /\ \A j \in 1..n : A[j] = E[j]
  BY <1>1, AppendIs, AppendElements
<1>4. G = [path |-> G.path, unread |-> G.unread, entries |-> G.entries]
      /\ G.path = F.path /\ G.unread = F.unread \ {name} /\ G.entries = A
  <2> HIDE DEF A
  <2>1. G = [path |-> F.path, unread |-> F.unread \ {name}, entries |-> A]
    BY DEF A
  <2>2. QED
    BY <2>1
<1> HIDE DEF E, n, A
<1>5. \A j \in 1..(n + 1) : j \in 1..n \/ j = n + 1
  BY <1>2
<1>6. \A m \in 1..(n + 1) : A[m].name \in ToSet(Names) \ G.unread
  BY <1>1, <1>3, <1>4, <1>5
<1>7. \A l, m \in 1..(n + 1) : l # m => A[l].name # A[m].name
  <2>1. \A m \in 1..n : A[m].name # name
    BY <1>1, <1>3
  <2>2. ASSUME NEW l \in 1..(n + 1), NEW m \in 1..(n + 1), l # m
        PROVE  A[l].name # A[m].name
    <3>1. CASE l \in 1..n /\ m \in 1..n
      BY <1>1, <1>3, <2>2, <3>1
    <3>2. CASE l = n + 1
      BY <1>3, <1>5, <2>1, <2>2, <3>2
    <3>3. CASE m = n + 1
      BY <1>3, <1>5, <2>1, <2>2, <3>3
    <3>4. QED
      BY <1>5, <3>1, <3>2, <3>3
  <2>3. QED
    BY <2>2
<1>8. FrameOK(G)
  <2>1. G.unread \subseteq ToSet(Names) /\ Len(G.entries) = n + 1
    BY <1>1, <1>3, <1>4
  <2>2. \A m \in 1..Len(G.entries) : G.entries[m].name \in ToSet(Names) \ G.unread
    BY <1>4, <1>6, <2>1
  <2>3. ASSUME NEW l \in 1..Len(G.entries), NEW m \in 1..Len(G.entries), l # m
        PROVE  G.entries[l].name # G.entries[m].name
    <3>1. l \in 1..(n + 1) /\ m \in 1..(n + 1) /\ G.entries = A
      BY <1>4, <2>1
    <3>2. A[l].name # A[m].name
      BY <1>7, <2>3, <3>1
    <3>3. QED
      BY <3>1, <3>2, Zenon
  <2>4. IsSeq(G.path) /\ IsSeq(G.entries)
    BY <1>1, <1>3, <1>4
  <2>5. QED
    BY <1>4, <2>1, <2>2, <2>3, <2>4, Zenon DEF FrameOK
<1>9. ASSUME NEW m \in LeftIn(G, 1)
      PROVE  m \in LeftIn(F, 1)
  <2>1. m \in G.unread \/ \E j \in 1..(n + 1) : m = A[j].name
    <3>1. m \in G.unread \cup {G.entries[j].name : j \in 1..Len(G.entries)}
      BY <1>9, Zenon DEF LeftIn
    <3>2. m \in G.unread \/ \E j \in 1..Len(G.entries) : m = G.entries[j].name
      BY <3>1, Zenon
    <3>3. G.entries = A /\ Len(G.entries) = n + 1
      BY <1>3, <1>4
    <3>4. QED
      BY <3>2, <3>3
  <2>2. CASE m \in G.unread
    BY <1>4, <2>2 DEF LeftIn
  <2>3. CASE \E j \in 1..(n + 1) : m = A[j].name
    <3>1. PICK j \in 1..(n + 1) : m = A[j].name
      BY <2>3
    <3>2. CASE j = n + 1
      BY <1>3, <3>1, <3>2 DEF LeftIn
    <3>3. CASE j \in 1..n
      BY <1>3, <3>1, <3>3 DEF LeftIn, E, n
    <3>4. QED
      BY <1>5, <3>2, <3>3
  <2>4. QED
    BY <2>1, <2>2, <2>3
<1>10. QED
  BY <1>4, <1>8, <1>9

(* An order of entries that has none behind a later one. *)
SortOf(entries, p, sorted) ==
    /\ p \in [DOMAIN entries -> DOMAIN entries] /\ IsInjective(p)
    /\ sorted = [n \in DOMAIN entries |-> entries[p[n]]]
    /\ \A m, n \in DOMAIN sorted : m < n => ~alphasort(sorted[n], sorted[m])

(* The entries are sorted. *)
LEMMA SortIs ==
    ASSUME NEW F, FrameOK(F), F.unread = {},
           NEW p, NEW sorted, SortOf(F.entries, p, sorted),
           NEW G, G = [path |-> F.path, unread |-> F.unread, entries |-> sorted]
    PROVE  /\ FrameOK(G) /\ Sorted(G) /\ G.path = F.path
           /\ LeftIn(G, 1) \subseteq LeftIn(F, 1)
<1> DEFINE E == F.entries
           n == Len(E)
<1>1. /\ IsSeq(F.path) /\ IsSeq(E)
      /\ \A m \in 1..n : E[m].name \in ToSet(Names)
      /\ \A l, m \in 1..n : l # m => E[l].name # E[m].name
  BY DEF FrameOK
<1>2. n \in Nat /\ DOMAIN E = 1..n
  BY <1>1, SeqIs
<1>3. /\ p \in [1..n -> 1..n]
      /\ \A l, m \in 1..n : p[l] = p[m] => l = m
      /\ sorted = [m \in 1..n |-> E[p[m]]]
  BY <1>2 DEF IsInjective, SortOf
<1>4. IsSeq(sorted) /\ Len(sorted) = n
  <2>1. sorted \in [1..n -> ToSet(sorted)]
    <3>1. \A m \in 1..n : sorted[m] \in {sorted[k] : k \in 1..n}
      OBVIOUS
    <3>2. DOMAIN sorted = 1..n
      BY <1>3
    <3> HIDE DEF n
    <3>3. QED
      BY <1>3, <3>1, <3>2 DEF ToSet
  <2> HIDE DEF n
  <2> DEFINE S == ToSet(sorted)
  <2> HIDE DEF S
  <2>2. sorted \in Seq(S) /\ Len(sorted) = n
    BY <1>2, <2>1 DEF S
  <2>3. QED
    BY <2>2 DEF IsSeq, S
<1>5. /\ G = [path |-> G.path, unread |-> G.unread, entries |-> G.entries]
      /\ G.path = F.path /\ G.unread = {} /\ G.entries = sorted
  OBVIOUS
<1> HIDE DEF E, n
<1>6. \A m \in 1..n : p[m] \in 1..n /\ sorted[m] = E[p[m]]
  BY <1>3
<1>7. \A m \in 1..n : sorted[m].name \in ToSet(Names)
  BY <1>1, <1>6
<1>8. ASSUME NEW l \in 1..n, NEW m \in 1..n, l # m
      PROVE  sorted[l].name # sorted[m].name
  <2>1. p[l] \in 1..n /\ p[m] \in 1..n /\ p[l] # p[m]
    BY <1>3, <1>6, <1>8
  <2>2. E[p[l]].name # E[p[m]].name
    BY <1>1, <2>1
  <2>3. QED
    BY <1>6, <2>2
<1>9. FrameOK(G)
  <2>1. G.unread \subseteq ToSet(Names) /\ Len(G.entries) = n
    BY <1>4, <1>5
  <2>2. \A m \in 1..Len(G.entries) : G.entries[m].name \in ToSet(Names) \ G.unread
    BY <1>5, <1>7, <2>1
  <2>3. ASSUME NEW l \in 1..Len(G.entries), NEW m \in 1..Len(G.entries), l # m
        PROVE  G.entries[l].name # G.entries[m].name
    <3>1. l \in 1..n /\ m \in 1..n
      BY <2>1
    <3>2. sorted[l].name # sorted[m].name
      BY <1>8, <2>3, <3>1
    <3>3. QED
      BY <1>5, <3>2
  <2>4. IsSeq(G.path) /\ IsSeq(G.entries)
    BY <1>1, <1>4, <1>5
  <2>5. QED
    BY <1>5, <2>1, <2>2, <2>3, <2>4, Zenon DEF FrameOK
<1>10. ASSUME NEW l \in 1..n, NEW m \in 1..n, l < m
       PROVE  Place(sorted[l].name) < Place(sorted[m].name)
  <2>1. DOMAIN sorted = 1..n
    BY <1>3
  <2>2. ~alphasort(sorted[m], sorted[l])
    BY <1>10, <2>1 DEF SortOf
  <2>3. ~(Place(sorted[m].name) < Place(sorted[l].name))
    BY <2>2, Zenon DEF alphasort, Place
  <2>4. Place(sorted[l].name) # Place(sorted[m].name)
    <3>1. l # m
      BY <1>2, <1>10
    <3>2. sorted[l].name # sorted[m].name
      BY <1>8, <3>1
    <3>3. QED
      BY <1>7, <3>2, PlaceIs
  <2>5. Place(sorted[l].name) \in Nat /\ Place(sorted[m].name) \in Nat
    BY <1>7, PlaceIs
  <2>6. QED
    BY <2>3, <2>4, <2>5
<1>11. Sorted(G)
  BY <1>4, <1>5, <1>10 DEF Sorted
<1>12. ASSUME NEW m \in LeftIn(G, 1)
       PROVE  m \in LeftIn(F, 1)
  <2>1. \E j \in 1..n : m = sorted[j].name
    BY <1>4, <1>5 DEF LeftIn
  <2>2. \E j \in 1..n : m = E[j].name
    BY <1>6, <2>1
  <2>3. QED
    BY <2>2 DEF LeftIn, E, n
<1>13. QED
  BY <1>5, <1>9, <1>11, <1>12

-----------------------------------------------------------------------------
(* The crawl.                                                              *)

(* Names that are sequences, in the order of paths. *)
InOrder(names) ==
    /\ \A d \in DOMAIN names : IsSeq(names[d])
    /\ \A d, e \in DOMAIN names : d < e => Precedes(names[d], names[e])

(* The file system is one; the activations are those of a walk that has    *)
(* gone to the documents; the file is the entry the walk is at.            *)
Walk ==
    /\ IsTree(fs)
    /\ pc \in Crawling => FramesOK(stack, doctable.docid_to_docname, pc = "scan")
    /\ pc \in {"open", "read"} => Len(Top.entries) >= 1 /\ file.path = EntryOf(Top)
    /\ pc \notin {"start", "failed"} => InOrder(doctable.docid_to_docname)

(* The next document comes after all others. *)
LEMMA NextIs ==
    ASSUME NEW t, NEW held, TableOK(t, held), InOrder(t.docid_to_docname),
           NEW path, IsSeq(path),
           \A d \in DOMAIN t.docid_to_docname : Precedes(t.docid_to_docname[d], path),
           NEW u, u = DocTable_Add(t, path), u # t
    PROVE  /\ InOrder(u.docid_to_docname)
           /\ t.max_id \notin DOMAIN t.docid_to_docname
           /\ DOMAIN u.docid_to_docname = DOMAIN t.docid_to_docname \cup {t.max_id}
           /\ u.docid_to_docname[t.max_id] = path
           /\ \A d \in DOMAIN t.docid_to_docname : u.docid_to_docname[d] = t.docid_to_docname[d]
           /\ DocTable_GetDocID(u, path) = t.max_id
<1> DEFINE x == t.max_id
           names == t.docid_to_docname
           h == FNVHash64(path)
<1>1. /\ x \in Nat \ {0} /\ DOMAIN names = 1..(x - 1)
      /\ \A k \in DOMAIN t.docname_to_docid : t.docname_to_docid[k] \in 1..(x - 1)
  BY DEF TableOK
<1>2. DocTable_GetDocID(t, path) = INVALID_DOCID
  BY DEF DocTable_Add
<1>3. h \notin DOMAIN t.docname_to_docid
  BY <1>1, <1>2 DEF DocTable_GetDocID, INVALID_DOCID
<1>4. /\ u.docid_to_docname = Extended(names, x, path)
      /\ u.docname_to_docid = Extended(t.docname_to_docid, h, x)
  BY <1>2 DEF DocTable_Add
<1>5. DocTable_GetDocID(u, path) = x
  <2> HIDE DEF x, h, names
  <2>1. h \in DOMAIN Extended(t.docname_to_docid, h, x) /\ Extended(t.docname_to_docid, h, x)[h] = x
    BY <1>3 DEF Extended
  <2>2. QED
    BY <1>4, <2>1 DEF DocTable_GetDocID, h
<1> HIDE DEF x, h, names
<1>6. x \notin DOMAIN names /\ \A d \in DOMAIN names : d < x /\ ~(x < d)
  BY <1>1
<1>7. /\ DOMAIN Extended(names, x, path) = DOMAIN names \cup {x}
      /\ Extended(names, x, path)[x] = path
      /\ \A d \in DOMAIN names : Extended(names, x, path)[d] = names[d]
  BY <1>6 DEF Extended
<1>8. InOrder(u.docid_to_docname)
  <2>1. /\ \A d \in DOMAIN names : IsSeq(names[d])
        /\ \A d, e \in DOMAIN names : d < e => Precedes(names[d], names[e])
        /\ \A d \in DOMAIN names : Precedes(names[d], path)
    BY DEF InOrder, names
  <2>2. ~(x < x)
    BY <1>1
  <2> DEFINE more == u.docid_to_docname
  <2>3. /\ DOMAIN more = DOMAIN names \cup {x} /\ more[x] = path
        /\ \A d \in DOMAIN names : more[d] = names[d]
    BY <1>4, <1>7
  <2> HIDE DEF more
  <2>4. \A d \in DOMAIN more : IsSeq(more[d])
    BY <2>1, <2>3
  <2>5. ASSUME NEW d \in DOMAIN more, NEW e \in DOMAIN more, d < e
        PROVE  Precedes(more[d], more[e])
    <3>1. CASE d = x
      <4>1. e = x \/ e \in DOMAIN names
        BY <2>3
      <4>2. QED
        BY <1>6, <2>2, <2>5, <3>1, <4>1
    <3>2. CASE d \in DOMAIN names /\ e = x
      BY <2>1, <2>3, <3>2
    <3>3. CASE d \in DOMAIN names /\ e \in DOMAIN names
      BY <2>1, <2>3, <2>5, <3>3
    <3>4. QED
      BY <2>3, <3>1, <3>2, <3>3
  <2>6. QED
    BY <2>4, <2>5 DEF InOrder, more
<1>9. QED
  BY <1>4, <1>5, <1>6, <1>7, <1>8 DEF x, names

(* An activation with other entries. *)
LEMMA FrameExcept ==
    ASSUME NEW F, FrameOK(F), NEW X, NEW G, G = [F EXCEPT !.entries = X]
    PROVE  G = [path |-> F.path, unread |-> F.unread, entries |-> X]
<1>1. PICK p, u, e : F = [path |-> p, unread |-> u, entries |-> e]
  BY DEF FrameOK
<1>2. F.path = p /\ F.unread = u
  BY <1>1
<1>3. G = [path |-> p, unread |-> u, entries |-> X]
  BY <1>1
<1>4. QED
  BY <1>2, <1>3

(* The same, and with others yet to be read. *)
LEMMA FrameExceptTwo ==
    ASSUME NEW F, FrameOK(F), NEW U, NEW X, NEW G, G = [[F EXCEPT !.unread = U] EXCEPT !.entries = X]
    PROVE  G = [path |-> F.path, unread |-> U, entries |-> X]
<1>1. PICK p, u, e : F = [path |-> p, unread |-> u, entries |-> e]
  BY DEF FrameOK
<1>2. F.path = p /\ F.unread = u
  BY <1>1
<1>3. [F EXCEPT !.unread = U] = [path |-> p, unread |-> U, entries |-> e]
  BY <1>1
<1>4. [[path |-> p, unread |-> U, entries |-> e] EXCEPT !.entries = X]
        = [path |-> p, unread |-> U, entries |-> X]
  OBVIOUS
<1>5. QED
  BY <1>2, <1>3, <1>4

(* Another process leaves the file system one. *)
LEMMA TreeChange ==
    ASSUME IsTree(fs), Change
    PROVE  IsTree(fs')
<1>1. PICK n \in DOMAIN fs :
          \/ /\ fs[n].type = "file"
             /\ \/ \E len \in 0..(Len(fs[n].data) - 1) :
                      fs' = [fs EXCEPT ![n].data = SubSeq(@, 1, len)]
                \/ fs' = [fs EXCEPT ![n].data = @ \o @]
          \/ /\ fs[n].type = "dir"
             /\ \E name \in DOMAIN fs[n].entries :
                   fs' = [fs EXCEPT ![n].entries = [m \in DOMAIN @ \ {name} |-> @[m]]]
  BY Zenon DEF Change
<1> DEFINE N(x) ==
      /\ x.type = "dir" => /\ x = [type |-> "dir", entries |-> x.entries]
                           /\ DOMAIN x.entries \subseteq ToSet(Names)
      /\ x.type = "file" => /\ x = [type |-> "file", data |-> x.data]
                            /\ x.data \in Seq(ToSet(x.data))
<1>2. \A k \in DOMAIN fs : N(fs[k])
  BY DEF IsTree
<1>3. ASSUME NEW x, N(x), fs' = [fs EXCEPT ![n] = x]
      PROVE  IsTree(fs')
  <2> HIDE DEF N
  <2>1. \A k \in DOMAIN fs' : N(fs'[k])
    BY <1>2, <1>3
  <2>2. QED
    BY <2>1 DEF N, IsTree
<1>4. CASE fs[n].type = "file"
  <2> DEFINE D == fs[n].data
             S == ToSet(D)
  <2>1. fs[n] = [type |-> "file", data |-> D] /\ D \in Seq(S)
    BY <1>2, <1>4
  <2>2. ASSUME NEW d, d \in Seq(S), fs' = [fs EXCEPT ![n].data = d]
        PROVE  IsTree(fs')
    <3> DEFINE x == [type |-> "file", data |-> d]
    <3>1. fs' = [fs EXCEPT ![n] = x]
      <4>1. [fs[n] EXCEPT !.data = d] = x
        <5> HIDE DEF D
        <5>1. QED
          BY <2>1
      <4>2. fs' = [fs EXCEPT ![n] = [fs[n] EXCEPT !.data = d]]
        BY <2>2
      <4>3. QED
        BY <4>1, <4>2
    <3>2. d \in Seq(ToSet(d))
      <4> HIDE DEF S
      <4>1. QED
        BY <2>2 DEF ToSet
    <3>3. x.type = "file" /\ x.data = d
      OBVIOUS
    <3>4. N(x)
      BY <3>2, <3>3
    <3> HIDE DEF x, N
    <3>5. QED
      BY <1>3, <3>1, <3>4
  <2>3. D \o D \in Seq(S)
    <3> HIDE DEF D, S
    <3>1. QED
      BY <2>1
  <2>4. ASSUME NEW len \in 0..(Len(D) - 1)
        PROVE  SubSeq(D, 1, len) \in Seq(S)
    <3> HIDE DEF D, S
    <3>1. QED
      BY <2>1, <2>4
  <2>5. \/ \E len \in 0..(Len(D) - 1) : fs' = [fs EXCEPT ![n].data = SubSeq(D, 1, len)]
        \/ fs' = [fs EXCEPT ![n].data = D \o D]
    BY <1>1, <1>4
  <2> HIDE DEF D, S
  <2>6. CASE fs' = [fs EXCEPT ![n].data = D \o D]
    BY <2>2, <2>3, <2>6
  <2>7. CASE \E len \in 0..(Len(D) - 1) : fs' = [fs EXCEPT ![n].data = SubSeq(D, 1, len)]
    <3>1. PICK len \in 0..(Len(D) - 1) : fs' = [fs EXCEPT ![n].data = SubSeq(D, 1, len)]
      BY <2>7
    <3>2. QED
      BY <2>2, <2>4, <3>1
  <2>8. QED
    BY <2>5, <2>6, <2>7
<1>5. CASE fs[n].type = "dir"
  <2>1. PICK name \in DOMAIN fs[n].entries :
           fs' = [fs EXCEPT ![n].entries = [m \in DOMAIN fs[n].entries \ {name} |-> fs[n].entries[m]]]
    BY <1>1, <1>5
  <2> DEFINE e == [m \in DOMAIN fs[n].entries \ {name} |-> fs[n].entries[m]]
             x == [type |-> "dir", entries |-> e]
  <2>2. fs[n] = [type |-> "dir", entries |-> fs[n].entries] /\ DOMAIN fs[n].entries \subseteq ToSet(Names)
    BY <1>2, <1>5
  <2>3. DOMAIN e \subseteq ToSet(Names)
    BY <2>2
  <2> HIDE DEF e
  <2>4. fs' = [fs EXCEPT ![n] = x]
    <3>1. [fs[n] EXCEPT !.entries = e] = x
      <4>1. PICK y : fs[n] = [type |-> "dir", entries |-> y]
        BY <2>2
      <4>2. QED
        BY <4>1
    <3>2. fs' = [fs EXCEPT ![n] = [fs[n] EXCEPT !.entries = e]]
      BY <2>1 DEF e
    <3>3. QED
      BY <3>1, <3>2
  <2>5. x.type = "dir" /\ x.entries = e
    OBVIOUS
  <2>6. N(x)
    BY <2>3, <2>5
  <2> HIDE DEF x, N
  <2>7. QED
    BY <1>3, <2>4, <2>6
<1>6. QED
  BY <1>1, <1>4, <1>5

(* The entries of a directory are names. *)
LEMMA EntriesAreNames ==
    ASSUME IsTree(fs), NEW n, IsDir(n)
    PROVE  DOMAIN fs[n].entries \subseteq ToSet(Names)
BY DEF IsTree, IsDir

(* The steps that leave the documents as they are. *)
LEMMA WalkOn ==
    ASSUME Counted, Walk, pc \in Crawling, pc' \in Crawling, fs' = fs, doctable' = doctable,
           FramesOK(stack', doctable.docid_to_docname, pc' = "scan"),
           pc' \in {"open", "read"} => Len(Last(stack').entries) >= 1 /\ file'.path = EntryOf(Last(stack'))
    PROVE  Walk'
<1>1. pc \notin {"start", "failed"} /\ pc' \notin {"start", "failed"}
  BY DEF Crawling
<1>2. QED
  BY <1>1 DEF Walk, Top

(* The entry is passed over. *)
LEMMA WalkDrops ==
    ASSUME Counted, Walk, pc \in Crawling \ {"scan"}, pc' = "entry", fs' = fs, doctable' = doctable,
           Top.entries # <<>>, DropEntry
    PROVE  Walk'
<1>1. Len(stack) >= 1 /\ Len(stack) \in Nat /\ IsSeq(stack)
  BY SeqIs DEF Counted
<1>2. FramesOK(stack, doctable.docid_to_docname, FALSE)
  <2>1. (pc = "scan") = FALSE
    OBVIOUS
  <2>2. FramesOK(stack, doctable.docid_to_docname, pc = "scan")
    BY DEF Walk
  <2>3. QED
    BY <2>1, <2>2
<1>3. Len(Last(stack).entries) >= 1
  <2>1. IsSeq(Top.entries)
    <3>1. Len(stack) \in 1..Len(stack) /\ Top = stack[Len(stack)]
      BY <1>1 DEF Top, Last
    <3>2. FrameOK(Top)
      BY <1>2, <3>1 DEF FramesOK
    <3>3. QED
      BY <3>2 DEF FrameOK
  <2>2. Len(Top.entries) \in Nat /\ Len(Top.entries) # 0
    BY <2>1, SeqIs
  <2>3. QED
    BY <2>2 DEF Top
<1>4. FramesOK(stack', doctable.docid_to_docname, FALSE)
  BY <1>1, <1>2, <1>3, EntryDropped DEF DropEntry
<1>5. (pc' = "scan") = FALSE /\ pc' \in Crawling
  BY DEF Crawling
<1>6. FramesOK(stack', doctable.docid_to_docname, pc' = "scan")
  BY <1>4, <1>5
<1>7. QED
  BY <1>5, <1>6, WalkOn

(* The top activation of a crawl. *)
LEMMA TopIs ==
    ASSUME Counted, Walk, pc \in Crawling
    PROVE  /\ Len(stack) >= 1 /\ Len(stack) \in 1..Len(stack) /\ Top = stack[Len(stack)]
           /\ FrameOK(Top) /\ FramesOK(stack, doctable.docid_to_docname, pc = "scan")
           /\ Len(Top.entries) \in Nat /\ (Top.entries # <<>> => Len(Top.entries) >= 1)
           /\ pc \notin {"start", "failed"}
<1>1. Len(stack) >= 1 /\ Len(stack) \in Nat /\ IsSeq(stack)
  BY SeqIs DEF Counted
<1>2. Len(stack) \in 1..Len(stack) /\ Top = stack[Len(stack)]
  BY <1>1 DEF Top, Last
<1>3. FramesOK(stack, doctable.docid_to_docname, pc = "scan")
  BY DEF Walk
<1>4. FrameOK(Top)
  BY <1>2, <1>3 DEF FramesOK
<1>5. IsSeq(Top.entries)
  BY <1>4 DEF FrameOK
<1>6. Len(Top.entries) \in Nat /\ (Len(Top.entries) = 0 <=> Top.entries = <<>>)
  BY <1>5, SeqIs
<1>7. QED
  BY <1>1, <1>2, <1>3, <1>4, <1>6 DEF Crawling

(* The crawl starts. *)
LEMMA WalkStarts == Counted /\ Ids /\ Walk /\ CrawlFileTree => Walk'
<1> SUFFICES ASSUME Counted, Ids, Walk, CrawlFileTree
             PROVE  Walk'
  OBVIOUS
<1>1. pc = "start" /\ fs' = fs /\ stack = <<>> /\ IsTree(fs)
  BY DEF CrawlFileTree, world, Counted, Walk
<1>2. CASE pc' = "failed"
  BY <1>1, <1>2 DEF Walk, Crawling
<1>3. CASE pc' # "failed"
  <2>1. /\ pc' = "scan" /\ IsDir(Resolve(<<>>)) /\ doctable' = DocTable_Allocate
        /\ stack' = Append(stack, Frame(<<>>))
    BY <1>3 DEF CrawlFileTree, Enter
  <2> DEFINE U == DOMAIN fs[Resolve(<<>>)].entries
             F == [path |-> <<>>, unread |-> U, entries |-> <<>>]
  <2>2. U \subseteq ToSet(Names)
    BY <1>1, <2>1, EntriesAreNames
  <2>3. stack' = Append(<<>>, F)
    BY <1>1, <2>1 DEF Frame
  <2> HIDE DEF U
  <2>4. IsSeq(<<>>) /\ Len(<<>>) = 0
    BY DEF IsSeq
  <2>5. FrameOK(F)
    BY <2>2, <2>4 DEF FrameOK
  <2> HIDE DEF F
  <2>6. IsSeq(stack') /\ Len(stack') = 1 /\ stack'[1] = F
    <3>1. IsSeq(Append(<<>>, F)) /\ Len(Append(<<>>, F)) = 0 + 1
      BY <2>4, AppendIs
    <3>2. Append(<<>>, F)[0 + 1] = F
      BY <2>4, AppendElements
    <3>3. QED
      BY <2>3, <3>1, <3>2
  <2>7. doctable'.docid_to_docname = <<>> /\ DOMAIN <<>> = {}
    BY <2>1 DEF DocTable_Allocate
  <2>8. \A j \in 1..1 : j = 1
    OBVIOUS
  <2>9. FramesOK(stack', <<>>, TRUE)
    BY <2>5, <2>6, <2>7, <2>8 DEF FramesOK
  <2>10. InOrder(<<>>)
    BY <2>7 DEF InOrder
  <2>11. (pc' = "scan") = TRUE
    BY <2>1
  <2>12. FramesOK(stack', doctable'.docid_to_docname, pc' = "scan")
    BY <2>7, <2>9, <2>11
  <2>13. QED
    BY <1>1, <2>1, <2>7, <2>10, <2>12 DEF Walk
<1>4. QED
  BY <1>2, <1>3

(* An entry is read. *)
LEMMA WalkReads == Counted /\ Ids /\ Walk /\ ReadEntry => Walk'
<1> SUFFICES ASSUME Counted, Ids, Walk, ReadEntry
             PROVE  Walk'
  OBVIOUS
<1>1. pc = "scan" /\ pc' = "scan" /\ fs' = fs /\ doctable' = doctable /\ pc \in Crawling
  BY DEF ReadEntry, world, tables, Crawling
<1>2. /\ Len(stack) >= 1 /\ Len(stack) \in 1..Len(stack) /\ Top = stack[Len(stack)]
      /\ FrameOK(Top) /\ FramesOK(stack, doctable.docid_to_docname, TRUE)
  <2>1. (pc = "scan") = TRUE
    BY <1>1
  <2>2. QED
    BY <1>1, <2>1, TopIs
<1>3. PICK name \in Top.unread, is_dir \in BOOLEAN :
         stack' = [stack EXCEPT ![Len(stack)].unread = @ \ {name},
                                ![Len(stack)].entries =
                                    Append(@, [name |-> name, is_dir |-> is_dir])]
  BY DEF ReadEntry
<1> DEFINE e == [name |-> name, is_dir |-> is_dir]
           n == Len(stack)
           F == stack[n]
           U == F.unread \ {name}
           X == Append(F.entries, e)
           G == [path |-> F.path, unread |-> F.unread \ {name}, entries |-> X]
<1>4. [[F EXCEPT !.unread = U] EXCEPT !.entries = X] = G
  <2>1. FrameOK(F)
    BY <1>2
  <2> HIDE DEF F, X, U
  <2>2. [[F EXCEPT !.unread = U] EXCEPT !.entries = X] = [path |-> F.path, unread |-> U, entries |-> X]
    BY <2>1, FrameExceptTwo
  <2>3. QED
    BY <2>2 DEF U
<1>5. stack' = [stack EXCEPT ![n] = [[F EXCEPT !.unread = U] EXCEPT !.entries = X]]
  <2>1. DOMAIN stack = 1..n
    BY SeqIs DEF Counted
  <2> DEFINE t == [stack EXCEPT ![n] = [F EXCEPT !.unread = U]]
  <2>2. t[n] = [F EXCEPT !.unread = U] /\ t[n].entries = F.entries
    <3>1. PICK p, u, c : F = [path |-> p, unread |-> u, entries |-> c]
      BY <1>2 DEF FrameOK
    <3> HIDE DEF U, F
    <3>2. [F EXCEPT !.unread = U] = [path |-> p, unread |-> U, entries |-> c] /\ F.entries = c
      BY <3>1
    <3>3. t[n] = [F EXCEPT !.unread = U]
      BY <1>2, <2>1
    <3>4. QED
      BY <3>2, <3>3
  <2>3. stack' = [t EXCEPT ![n].entries = Append(@, e)]
    BY <1>3
  <2>4. [t EXCEPT ![n].entries = Append(@, e)] = [t EXCEPT ![n] = [t[n] EXCEPT !.entries = X]]
    BY <2>2
  <2> HIDE DEF U, F, X
  <2>6. [t EXCEPT ![n] = [t[n] EXCEPT !.entries = X]]
          = [stack EXCEPT ![n] = [[F EXCEPT !.unread = U] EXCEPT !.entries = X]]
    BY <1>2, <2>1, <2>2
  <2>7. QED
    BY <2>3, <2>4, <2>6
<1>6. FrameOK(G) /\ G.path = F.path /\ LeftIn(G, 1) \subseteq LeftIn(F, 1)
  <2>1. FrameOK(F) /\ name \in F.unread /\ e.name = name
    BY <1>2, <1>3
  <2> HIDE DEF F, e
  <2>2. QED
    BY <2>1, ReadIs
<1>7. /\ FrameOK(G) /\ G.path = Last(stack).path /\ LeftIn(G, 1) \subseteq LeftIn(Last(stack), 1)
      /\ stack' = [stack EXCEPT ![Len(stack)] = G]
  BY <1>2, <1>4, <1>5, <1>6 DEF Top
<1> HIDE DEF e, n, F, U, X, G
<1>8. FramesOK(stack', doctable.docid_to_docname, TRUE)
  BY <1>2, <1>7, TopGoesOn
<1>9. (pc' = "scan") = TRUE
  BY <1>1
<1>10. QED
  BY <1>1, <1>8, <1>9, WalkOn

(* The entries are sorted. *)
LEMMA WalkSorts == Counted /\ Ids /\ Walk /\ EndOfDir => Walk'
<1> SUFFICES ASSUME Counted, Ids, Walk, EndOfDir
             PROVE  Walk'
  OBVIOUS
<1>1. /\ pc = "scan" /\ pc' = "entry" /\ fs' = fs /\ doctable' = doctable
      /\ pc \in Crawling /\ pc' \in Crawling /\ Top.unread = {}
  BY DEF EndOfDir, world, tables, Crawling
<1>2. /\ Len(stack) >= 1 /\ Len(stack) \in 1..Len(stack) /\ Top = stack[Len(stack)]
      /\ FrameOK(Top) /\ FramesOK(stack, doctable.docid_to_docname, TRUE)
  <2>1. (pc = "scan") = TRUE
    BY <1>1
  <2>2. QED
    BY <1>1, <2>1, TopIs
<1>3. PICK p \in [DOMAIN Top.entries -> DOMAIN Top.entries] :
         LET sorted == [n \in DOMAIN Top.entries |-> Top.entries[p[n]]]
         IN  /\ IsInjective(p)
             /\ \A m, n \in DOMAIN sorted : m < n => ~alphasort(sorted[n], sorted[m])
             /\ stack' = [stack EXCEPT ![Len(stack)].entries = sorted]
  BY Zenon DEF EndOfDir
<1> DEFINE F == Top
           sorted == [n \in DOMAIN F.entries |-> F.entries[p[n]]]
           G == [path |-> F.path, unread |-> F.unread, entries |-> sorted]
<1>4. /\ IsInjective(p) /\ \A m, n \in DOMAIN sorted : m < n => ~alphasort(sorted[n], sorted[m])
      /\ stack' = [stack EXCEPT ![Len(stack)].entries = sorted]
  BY <1>3
<1>5. FrameOK(G) /\ Sorted(G) /\ G.path = F.path /\ LeftIn(G, 1) \subseteq LeftIn(F, 1)
  <2>1. FrameOK(F) /\ F.unread = {} /\ p \in [DOMAIN F.entries -> DOMAIN F.entries]
    BY <1>1, <1>2
  <2> HIDE DEF F
  <2> DEFINE s == sorted
  <2>2. SortOf(F.entries, p, s)
    BY <1>4, <2>1 DEF SortOf
  <2> HIDE DEF s
  <2> DEFINE H == [path |-> F.path, unread |-> F.unread, entries |-> s]
  <2>3. FrameOK(H) /\ Sorted(H) /\ H.path = F.path /\ LeftIn(H, 1) \subseteq LeftIn(F, 1)
    BY <2>1, <2>2, SortIs
  <2>4. QED
    BY <2>3 DEF s, H
<1> HIDE DEF sorted
<1>6. stack' = [stack EXCEPT ![Len(stack)] = G]
  <2>1. [F EXCEPT !.entries = sorted] = G
    <3>1. FrameOK(F)
      BY <1>2
    <3> HIDE DEF F
    <3>2. QED
      BY <3>1, FrameExcept
  <2>2. stack' = [stack EXCEPT ![Len(stack)] = [F EXCEPT !.entries = sorted]]
    BY <1>2, <1>4
  <2>3. QED
    BY <2>1, <2>2
<1>7. G.path = Last(stack).path /\ LeftIn(G, 1) \subseteq LeftIn(Last(stack), 1)
  BY <1>5 DEF Top
<1> HIDE DEF F, G
<1>8. FramesOK(stack', doctable.docid_to_docname, FALSE)
  BY <1>2, <1>5, <1>6, <1>7, TopGoesOn
<1>9. (pc' = "scan") = FALSE
  BY <1>1
<1>10. QED
  BY <1>1, <1>8, <1>9, WalkOn

(* A subdirectory is entered or passed over. *)
LEMMA WalkEnters == Counted /\ Ids /\ Walk /\ HandleSubdir => Walk'
<1> SUFFICES ASSUME Counted, Ids, Walk, HandleSubdir
             PROVE  Walk'
  OBVIOUS
<1>1. pc = "entry" /\ Top.entries # <<>> /\ fs' = fs /\ doctable' = doctable
      /\ pc \in Crawling /\ pc \in Crawling \ {"scan"}
  BY DEF HandleSubdir, world, tables, Crawling
<1>2. CASE IsDir(Resolve(EntryPath)) /\ fds < MaxFds
  <2> DEFINE P == EntryPath
             U == DOMAIN fs[Resolve(P)].entries
  <2>1. stack' = Append(stack, Frame(P)) /\ pc' = "scan"
    BY <1>2 DEF HandleSubdir, Enter
  <2>2. U \subseteq ToSet(Names)
    BY <1>2, EntriesAreNames DEF Walk
  <2>3. P = EntryOf(Last(stack))
    BY DEF EntryPath, EntryOf, Top
  <2>4. stack' = Append(stack, [path |-> EntryOf(Last(stack)), unread |-> U, entries |-> <<>>])
    BY <2>1, <2>3 DEF Frame
  <2> HIDE DEF U, P
  <2>5. /\ Len(stack) >= 1 /\ Len(Last(stack).entries) >= 1
        /\ FramesOK(stack, doctable.docid_to_docname, FALSE)
    <3>1. (pc = "scan") = FALSE
      BY <1>1
    <3>2. QED
      BY <1>1, <3>1, TopIs DEF Top
  <2>6. FramesOK(stack', doctable.docid_to_docname, TRUE)
    BY <2>2, <2>4, <2>5, EntryEntered
  <2>7. (pc' = "scan") = TRUE /\ pc' \in Crawling
    BY <2>1 DEF Crawling
  <2>8. QED
    BY <1>1, <2>1, <2>6, <2>7, WalkOn
<1>3. CASE ~(IsDir(Resolve(EntryPath)) /\ fds < MaxFds)
  <2>1. DropEntry /\ pc' = "entry"
    BY <1>1, <1>3 DEF HandleSubdir
  <2>2. QED
    BY <1>1, <2>1, WalkDrops
<1>4. QED
  BY <1>2, <1>3

(* HandleDir returns. *)
LEMMA WalkLeaves == Counted /\ Ids /\ Walk /\ Leave => Walk'
<1> SUFFICES ASSUME Counted, Ids, Walk, Leave
             PROVE  Walk'
  OBVIOUS
<1>1. pc = "entry" /\ fs' = fs /\ doctable' = doctable /\ pc \in Crawling
  BY DEF Leave, world, tables, Crawling
<1>2. CASE Len(stack) = 1
  <2>1. pc' = "crawled"
    BY <1>2 DEF Leave
  <2>2. QED
    BY <1>1, <2>1 DEF Walk, Crawling
<1>3. CASE Len(stack) # 1
  <2>1. pc' = "entry" /\ stack' = [Front(stack) EXCEPT ![Len(stack) - 1].entries = Tail(@)]
    BY <1>1, <1>3 DEF Leave
  <2>2. Len(stack) >= 2 /\ FramesOK(stack, doctable.docid_to_docname, FALSE)
    <3>1. (pc = "scan") = FALSE
      BY <1>1
    <3>2. Len(stack) >= 1 /\ Len(stack) \in 1..Len(stack)
          /\ FramesOK(stack, doctable.docid_to_docname, pc = "scan")
      BY <1>1, TopIs
    <3>3. FramesOK(stack, doctable.docid_to_docname, FALSE)
      BY <3>1, <3>2
    <3>4. Len(stack) >= 2
      <4> DEFINE n == Len(stack)
      <4>1. n \in 1..n /\ n >= 1 /\ n # 1
        BY <1>3, <3>2
      <4> HIDE DEF n
      <4>2. n >= 2
        BY <4>1
      <4>3. QED
        BY <4>2 DEF n
    <3>5. QED
      BY <3>3, <3>4
  <2>3. FramesOK(stack', doctable.docid_to_docname, FALSE)
    BY <2>1, <2>2, DirectoryLeft
  <2>4. (pc' = "scan") = FALSE /\ pc' \in Crawling
    BY <2>1 DEF Crawling
  <2>5. QED
    BY <1>1, <2>1, <2>3, <2>4, WalkOn
<1>4. QED
  BY <1>2, <1>3

(* A file is measured or passed over. *)
LEMMA WalkStats == Counted /\ Ids /\ Walk /\ StatFile => Walk'
<1> SUFFICES ASSUME Counted, Ids, Walk, StatFile
             PROVE  Walk'
  OBVIOUS
<1>1. pc = "entry" /\ Top.entries # <<>> /\ fs' = fs /\ doctable' = doctable
      /\ pc \in Crawling /\ pc \in Crawling \ {"scan"}
  BY DEF StatFile, world, tables, Crawling
<1>2. CASE pc' = "open"
  <2>1. stack' = stack /\ file'.path = EntryPath
    BY <1>2 DEF StatFile, Skip
  <2>2. EntryPath = EntryOf(Last(stack)) /\ Len(Last(stack).entries) >= 1
    BY <1>1, TopIs DEF EntryPath, EntryOf, Top
  <2>3. FramesOK(stack, doctable.docid_to_docname, FALSE)
    <3>1. (pc = "scan") = FALSE
      BY <1>1
    <3>2. QED
      BY <1>1, <3>1, TopIs
  <2>4. (pc' = "scan") = FALSE /\ pc' \in Crawling
    BY <1>2 DEF Crawling
  <2>5. QED
    BY <1>1, <2>1, <2>2, <2>3, <2>4, WalkOn
<1>3. CASE pc' # "open"
  <2>1. DropEntry /\ pc' = "entry"
    BY <1>3 DEF StatFile, Skip
  <2>2. QED
    BY <1>1, <2>1, WalkDrops
<1>4. QED
  BY <1>2, <1>3

(* A file is opened or read, or passed over. *)
LEMMA WalkOpens == Counted /\ Ids /\ Walk /\ (OpenFile \/ ReadSome \/ ReadEOF \/ ReadError) => Walk'
<1> SUFFICES ASSUME Counted, Ids, Walk, OpenFile \/ ReadSome \/ ReadEOF \/ ReadError
             PROVE  Walk'
  OBVIOUS
<1>1. /\ pc \in {"open", "read"} /\ fs' = fs /\ doctable' = doctable
      /\ pc \in Crawling /\ pc \in Crawling \ {"scan"}
  BY DEF OpenFile, ReadSome, ReadEOF, ReadError, world, tables, Crawling
<1>2. Len(Top.entries) >= 1 /\ file.path = EntryOf(Top)
  BY <1>1 DEF Walk
<1>3. CASE pc' = "read"
  <2>1. stack' = stack
    BY <1>3 DEF OpenFile, ReadSome, ReadEOF, ReadError, Skip
  <2>2. file'.path = file.path
    <3>1. CASE OpenFile
      <4>1. \E n : file' = [file EXCEPT !.inode = n]
        BY <1>3, <3>1 DEF OpenFile, Skip
      <4>2. QED
        BY <4>1
    <3>2. CASE ReadSome \/ ReadEOF
      <4>1. \E b : file' = [file EXCEPT !.buf = b]
        BY <3>2 DEF ReadSome, ReadEOF
      <4>2. QED
        BY <4>1
    <3>3. CASE ReadError
      BY <1>3, <3>3 DEF ReadError, Skip
    <3>4. QED
      BY <3>1, <3>2, <3>3
  <2>3. FramesOK(stack, doctable.docid_to_docname, FALSE)
    <3>1. (pc = "scan") = FALSE
      BY <1>1
    <3>2. QED
      BY <1>1, <3>1, TopIs
  <2>4. (pc' = "scan") = FALSE /\ pc' \in Crawling
    BY <1>3 DEF Crawling
  <2>5. QED
    BY <1>1, <1>2, <2>1, <2>2, <2>3, <2>4, WalkOn DEF Top
<1>4. CASE pc' # "read"
  <2>1. DropEntry /\ pc' = "entry"
    BY <1>4 DEF OpenFile, ReadSome, ReadEOF, ReadError, Skip
  <2>2. Top.entries # <<>>
    BY <1>2
  <2>3. QED
    BY <1>1, <2>1, <2>2, WalkDrops
<1>5. QED
  BY <1>3, <1>4

(* What IndexFile does to the tables. *)
Added(docid, tab) ==
    /\ docid = DocTable_GetDocID(doctable', file.path)
    /\ doctable' = DocTable_Add(doctable, file.path)
    /\ index' = AddWords(index, tab, docid) /\ index' # Exits
    /\ seen' = Extended(seen, docid, [text |-> file.text, whole |-> file.buf = file.text])

(* The file is passed over, ends the program or is added. *)
LEMMA IndexFileIs ==
    ASSUME IndexFile
    PROVE  /\ pc = "read" /\ fs' = fs
           /\ \/ pc' = "exited" /\ UNCHANGED <<stack, file, tables>>
              \/ Skip /\ UNCHANGED tables
              \/ /\ Skip
                 /\ \E docid : Added(docid, ParseIntoWordPositionsTable(file.buf))
                 /\ ParseIntoWordPositionsTable(file.buf) # NULL
<1> DEFINE tab == ParseIntoWordPositionsTable(file.buf)
<1>1. pc = "read" /\ fs' = fs
  BY DEF IndexFile, world
<1>2. \/ tab = NULL /\ Skip /\ UNCHANGED tables
      \/ \E docid \in {DocTable_GetDocID(DocTable_Add(doctable, file.path), file.path)} :
         \E mi \in {AddWords(index, tab, docid)} :
            \/ mi = Exits /\ pc' = "exited" /\ UNCHANGED <<stack, file, tables>>
            \/ /\ mi # Exits
               /\ Skip
               /\ doctable' = DocTable_Add(doctable, file.path)
               /\ index' = mi
               /\ seen' = Extended(seen, docid, [text |-> file.text, whole |-> file.buf = file.text])
               /\ tab # NULL
  BY Zenon DEF IndexFile
<1> HIDE DEF tab
<1>3. CASE tab = NULL /\ Skip /\ UNCHANGED tables
  BY <1>1, <1>3
<1>4. CASE ~(tab = NULL /\ Skip /\ UNCHANGED tables)
  <2>1. PICK docid \in {DocTable_GetDocID(DocTable_Add(doctable, file.path), file.path)} :
         \E mi \in {AddWords(index, tab, docid)} :
            \/ mi = Exits /\ pc' = "exited" /\ UNCHANGED <<stack, file, tables>>
            \/ /\ mi # Exits
               /\ Skip
               /\ doctable' = DocTable_Add(doctable, file.path)
               /\ index' = mi
               /\ seen' = Extended(seen, docid, [text |-> file.text, whole |-> file.buf = file.text])
               /\ tab # NULL
    BY <1>2, <1>4
  <2>2. CASE pc' = "exited" /\ UNCHANGED <<stack, file, tables>>
    BY <1>1, <2>2
  <2>3. CASE ~(pc' = "exited" /\ UNCHANGED <<stack, file, tables>>)
    <3>1. /\ Skip /\ tab # NULL
          /\ doctable' = DocTable_Add(doctable, file.path)
          /\ index' = AddWords(index, tab, docid) /\ index' # Exits
          /\ seen' = Extended(seen, docid, [text |-> file.text, whole |-> file.buf = file.text])
      BY <2>1, <2>3, Zenon
    <3>2. docid = DocTable_GetDocID(doctable', file.path)
      BY <2>1, <3>1
    <3>3. Added(docid, tab)
      BY <3>1, <3>2 DEF Added
    <3>4. QED
      BY <1>1, <3>1, <3>3 DEF tab
  <2>4. QED
    BY <2>2, <2>3
<1>5. QED
  BY <1>3, <1>4

(* A file becomes a document, or not. *)
LEMMA WalkIndexes == Counted /\ Ids /\ Walk /\ IndexFile => Walk'
<1> SUFFICES ASSUME Counted, Ids, Walk, IndexFile
             PROVE  Walk'
  OBVIOUS
<1>1. pc = "read" /\ fs' = fs /\ pc \in Crawling /\ pc \in Crawling \ {"scan"}
      /\ pc \notin {"start", "failed"}
  BY IndexFileIs DEF Crawling
<1>2. Len(Top.entries) >= 1 /\ file.path = EntryOf(Top) /\ Top.entries # <<>>
  <2>1. Len(Top.entries) >= 1 /\ file.path = EntryOf(Top)
    BY <1>1 DEF Walk
  <2>2. QED
    BY <2>1
<1>3. InOrder(doctable.docid_to_docname) /\ IsTree(fs)
  BY <1>1 DEF Walk
<1>4. CASE pc' = "exited" /\ UNCHANGED <<stack, file, tables>>
  <2>1. doctable' = doctable
    BY <1>4 DEF tables
  <2>2. QED
    BY <1>1, <1>3, <1>4, <2>1 DEF Walk, Crawling
<1>5. CASE Skip /\ doctable' = doctable
  <2>1. pc' = "entry" /\ DropEntry
    BY <1>5 DEF Skip
  <2>2. QED
    BY <1>1, <1>2, <1>5, <2>1, WalkDrops
<1>6. CASE Skip /\ doctable' = DocTable_Add(doctable, file.path) /\ doctable' # doctable
  <2> DEFINE names == doctable.docid_to_docname
             P == file.path
             more == doctable'.docid_to_docname
             x == doctable.max_id
  <2>1. pc' = "entry" /\ stack' = [stack EXCEPT ![Len(stack)].entries = Tail(@)]
    BY <1>6 DEF Skip, DropEntry
  <2>2. Len(stack) >= 1 /\ FramesOK(stack, names, FALSE)
    <3>1. (pc = "scan") = FALSE
      BY <1>1
    <3>2. QED
      BY <1>1, <3>1, TopIs
  <2>3. P = EntryOf(Last(stack)) /\ Len(Last(stack).entries) >= 1
    BY <1>2 DEF Top
  <2>4. IsSeq(P) /\ \A d \in DOMAIN names : Precedes(names[d], P)
    <3> HIDE DEF names
    <3>1. /\ IsSeq(EntryOf(Last(stack)))
          /\ \A d \in DOMAIN names : Precedes(names[d], EntryOf(Last(stack)))
      BY <2>2, <2>3, EntryAhead
    <3>2. QED
      BY <2>3, <3>1
  <2>5. TableOK(doctable, seen)
    BY <1>1 DEF Ids
  <2>6. /\ InOrder(more)
        /\ x \notin DOMAIN names
        /\ DOMAIN more = DOMAIN names \cup {x}
        /\ more[x] = P
        /\ \A d \in DOMAIN names : more[d] = names[d]
    <3> DEFINE u == doctable'
    <3>1. u = DocTable_Add(doctable, P) /\ u # doctable
      BY <1>6
    <3> HIDE DEF u, P
    <3>2. /\ InOrder(u.docid_to_docname)
          /\ doctable.max_id \notin DOMAIN doctable.docid_to_docname
          /\ DOMAIN u.docid_to_docname = DOMAIN doctable.docid_to_docname \cup {doctable.max_id}
          /\ u.docid_to_docname[doctable.max_id] = P
          /\ \A d \in DOMAIN doctable.docid_to_docname :
                u.docid_to_docname[d] = doctable.docid_to_docname[d]
      BY <1>3, <2>4, <2>5, <3>1, NextIs
    <3>3. QED
      BY <3>2 DEF u
  <2> HIDE DEF names, more, x, P
  <2>7. FramesOK(stack', more, FALSE)
    BY <2>1, <2>2, <2>3, <2>6, EntryAdded
  <2>8. (pc' = "scan") = FALSE
    BY <2>1
  <2>9. FramesOK(stack', doctable'.docid_to_docname, pc' = "scan")
    BY <2>7, <2>8 DEF more
  <2>10. InOrder(doctable'.docid_to_docname)
    BY <2>6 DEF more
  <2>11. QED
    BY <1>1, <1>3, <2>1, <2>9, <2>10 DEF Walk
<1>7. QED
  BY <1>4, <1>5, <1>6, IndexFileIs DEF Added, tables

(* Every step of the program and of the others. *)
LEMMA WalkStep == Counted /\ Ids /\ Walk /\ [Next]_vars => Walk'
<1> SUFFICES ASSUME Counted, Ids, Walk, [Next]_vars
             PROVE  Walk'
  OBVIOUS
<1>1. CASE CrawlStep
  <2>1. CASE CrawlFileTree
    BY <2>1, WalkStarts
  <2>2. CASE ReadEntry
    BY <2>2, WalkReads
  <2>3. CASE EndOfDir
    BY <2>3, WalkSorts
  <2>4. CASE HandleSubdir
    BY <2>4, WalkEnters
  <2>5. CASE Leave
    BY <2>5, WalkLeaves
  <2>6. CASE StatFile
    BY <2>6, WalkStats
  <2>7. CASE OpenFile \/ ReadSome \/ ReadEOF
    BY <2>7, WalkOpens
  <2>8. CASE IndexFile
    BY <2>8, WalkIndexes
  <2>9. QED
    BY <1>1, <2>1, <2>2, <2>3, <2>4, <2>5, <2>6, <2>7, <2>8 DEF CrawlStep
<1>2. CASE ReadError
  BY <1>2, WalkOpens
<1>3. CASE Change
  <2>1. pc' = pc /\ stack' = stack /\ file' = file /\ doctable' = doctable /\ IsTree(fs')
    BY <1>3, TreeChange DEF Change, tables, Walk
  <2>2. QED
    BY <2>1 DEF Walk, Top, EntryOf
<1>4. CASE AnswerLine \/ AnswerGarbage \/ UNCHANGED vars
  <2>1. UNCHANGED crawlVars
    BY <1>4 DEF AnswerLine, AnswerGarbage, vars
  <2>2. pc' = pc /\ stack' = stack /\ file' = file /\ doctable' = doctable /\ fs' = fs
    BY <2>1 DEF crawlVars, world, tables
  <2>3. QED
    BY <2>2 DEF Walk, Top, EntryOf
<1>5. QED
  BY <1>1, <1>2, <1>3, <1>4 DEF Next, Program, Crawl

-----------------------------------------------------------------------------
(* The words of a text.                                                    *)

(* The word that curptr ends at k, and the loop's body. *)
WordAt(content, k) ==
    [j \in 1..(k - WordStart(content)[k]) |-> tolower[content[WordStart(content)[k] + j - 1]]]

(* The body of the parser's loop, at the k-th character. *)
ParseStep(content, tab, k) ==
    IF tab = Exits \/ ~EndsWord(content, k) THEN tab
    ELSE AddWordPosition(tab, WordAt(content, k), WordStart(content)[k] - 1)

(* h[k] is the table that the loop has after k characters. *)
IsParse(content, h, m) ==
    /\ DOMAIN h = 0..m
    /\ h[0] = <<>>
    /\ \A k \in 1..m : h[k] = ParseStep(content, h[k - 1], k)

(* The loop is defined by recursion. *)
LEMMA ParseLoop ==
    ASSUME NEW content, IsSeq(content)
    PROVE  \E h : IsParse(content, h, Len(content)) /\ InsertContent(content) = h[Len(content)]
<1> DEFINE N == Len(content)
           T == {m \in 0..N : \E h : IsParse(content, h, m)}
           F(g) == [k \in 0..N |-> IF k = 0 THEN <<>> ELSE ParseStep(content, g[k - 1], k)]
           loop == CHOOSE g : g = F(g)
<1>1. N \in Nat
  BY SeqIs
<1>2. InsertContent(content) = loop[N]
  BY DEF InsertContent, ParseStep, WordAt
<1> HIDE DEF N, loop
<1>3. 0 \in T
  <2> DEFINE h == [k \in 0..0 |-> <<>>]
  <2>1. IsParse(content, h, 0)
    <3>1. 1..0 = {} /\ 0 \in 0..0
      OBVIOUS
    <3>2. QED
      BY <3>1 DEF IsParse
  <2>2. 0 \in 0..N
    BY <1>1
  <2>3. QED
    BY <2>1, <2>2
<1>4. ASSUME NEW m \in 1..N, m - 1 \in T
      PROVE  m \in T
  <2>1. m \in Nat /\ m \in 0..N /\ m - 1 \in Nat /\ m \notin 0..(m - 1)
        /\ \A k \in 0..m : k = m \/ k \in 0..(m - 1)
    BY <1>1
  <2>2. PICK h : IsParse(content, h, m - 1)
    BY <1>4
  <2> DEFINE g == [k \in 0..m |-> IF k = m THEN ParseStep(content, h[m - 1], m) ELSE h[k]]
  <2>3. \A k \in 0..(m - 1) : k \in 0..m /\ g[k] = h[k]
    BY <2>1
  <2>4. g[m] = ParseStep(content, h[m - 1], m)
    BY <2>1
  <2>5. DOMAIN g = 0..m
    OBVIOUS
  <2> HIDE DEF g
  <2>6. g[0] = <<>>
    BY <2>1, <2>2, <2>3 DEF IsParse
  <2>7. ASSUME NEW k \in 1..m
        PROVE  g[k] = ParseStep(content, g[k - 1], k)
    <3>1. k - 1 \in 0..(m - 1) /\ (k = m \/ k \in 1..(m - 1)) /\ k - 1 \in Nat
      BY <2>1
    <3>2. g[k - 1] = h[k - 1]
      BY <2>3, <3>1
    <3>3. CASE k = m
      BY <2>4, <3>2, <3>3
    <3>4. CASE k \in 1..(m - 1)
      <4>1. h[k] = ParseStep(content, h[k - 1], k) /\ k \in 0..(m - 1)
        BY <2>2, <3>4 DEF IsParse
      <4>2. QED
        BY <2>3, <3>2, <4>1
    <3>5. QED
      BY <3>1, <3>3, <3>4
  <2>8. IsParse(content, g, m)
    BY <2>5, <2>6, <2>7 DEF IsParse
  <2>9. QED
    BY <2>1, <2>8
<1>5. \A m \in 0..N : m \in T
  <2> HIDE DEF T
  <2>1. QED
    BY <1>1, <1>3, <1>4, Shared!Induction
<1>6. PICK h : IsParse(content, h, N)
  <2>1. N \in T
    BY <1>1, <1>5
  <2>2. QED
    BY <2>1
<1> DEFINE g == [k \in 0..N |-> h[k]]
<1>7. g = F(g)
  <2>1. \A k \in 0..N : k = 0 \/ (k \in 1..N /\ k - 1 \in 0..N)
    BY <1>1
  <2>2. ASSUME NEW k \in 0..N
        PROVE  h[k] = IF k = 0 THEN <<>> ELSE ParseStep(content, g[k - 1], k)
    <3>1. CASE k = 0
      BY <1>6, <3>1 DEF IsParse
    <3>2. CASE k # 0
      <4>1. k \in 1..N /\ g[k - 1] = h[k - 1]
        BY <2>1, <3>2
      <4>2. QED
        BY <1>6, <3>2, <4>1 DEF IsParse
    <3>3. QED
      BY <3>1, <3>2
  <2>3. QED
    BY <2>2
<1> HIDE DEF F, g
<1>8. loop = F(loop)
  BY <1>7 DEF loop
<1>9. IsParse(content, loop, N)
  <2>1. \A k \in 1..N : k \in 0..N /\ k # 0
    BY <1>1
  <2>2. 0 \in 0..N
    BY <1>1
  <2>3. /\ DOMAIN loop = 0..N
        /\ \A k \in 0..N : loop[k] = IF k = 0 THEN <<>> ELSE ParseStep(content, loop[k - 1], k)
    BY <1>8 DEF F
  <2>4. QED
    BY <2>1, <2>2, <2>3 DEF IsParse
<1>10. QED
  BY <1>2, <1>9 DEF N

(* Positions that are those of the occurrences, in order. *)
Lists(positions, where) ==
    /\ IsSeq(positions)
    /\ ToSet(positions) = where /\ where \subseteq Int /\ where # {}
    /\ \A i, j \in 1..Len(positions) : i < j => positions[i] < positions[j]

(* Where a word is. *)
PositionsIn(occurrences, word) == {o.pos : o \in {e \in occurrences : e.word = word}}

(* A table that has the occurrences of words. *)
TabIs(tab, occurrences) ==
    /\ IsFiniteSet(DOMAIN tab)
    /\ \A h \in DOMAIN tab :
          /\ tab[h] = [word |-> tab[h].word, positions |-> tab[h].positions]
          /\ h = FNVHash64(tab[h].word)
          /\ Lists(tab[h].positions, PositionsIn(occurrences, tab[h].word))
    /\ \A o \in occurrences :
          FNVHash64(o.word) \in DOMAIN tab /\ tab[FNVHash64(o.word)].word = o.word

(* One more position behind the others. *)
LEMMA ListsMore ==
    ASSUME NEW s, NEW W, Lists(s, W), NEW x \in Int, \A y \in W : y < x
    PROVE  Lists(Append(s, x), W \cup {x})
<1> DEFINE n == Len(s)
           t == Append(s, x)
<1>1. IsSeq(s) /\ ToSet(s) = W /\ W \subseteq Int
      /\ \A i, j \in 1..n : i < j => s[i] < s[j]
  BY DEF Lists
<1>2. n \in Nat /\ DOMAIN s = 1..n
  BY <1>1, SeqIs
<1>3. IsSeq(t) /\ Len(t) = n + 1 /\ t[n + 1] = x /\ \A j \in 1..n : t[j] = s[j]
  BY <1>1, AppendIs, AppendElements
<1>4. DOMAIN t = 1..(n + 1)
  <2> HIDE DEF t
  <2>1. QED
    BY <1>3, SeqIs
<1> HIDE DEF n, t
<1>5. \A j \in 1..(n + 1) : j \in 1..n \/ j = n + 1
  BY <1>2
<1>6. \A j \in 1..n : j \in 1..(n + 1) /\ j # n + 1 /\ s[j] \in W
  BY <1>1, <1>2 DEF ToSet
<1>7. ToSet(t) = W \cup {x}
  <2>1. ToSet(t) = {t[j] : j \in 1..(n + 1)} /\ ToSet(s) = {s[j] : j \in 1..n}
    BY <1>2, <1>4, Zenon DEF ToSet
  <2>2. \A y \in ToSet(t) : y \in W \cup {x}
    BY <1>3, <1>5, <1>6, <2>1
  <2>3. \A y \in W : y \in ToSet(t)
    BY <1>1, <1>3, <1>6, <2>1
  <2>4. n + 1 \in 1..(n + 1)
    BY <1>2
  <2>5. x \in ToSet(t)
    BY <1>3, <2>1, <2>4
  <2>6. QED
    BY <2>2, <2>3, <2>5
<1>8. ASSUME NEW i \in 1..(n + 1), NEW j \in 1..(n + 1), i < j
      PROVE  t[i] < t[j]
  <2>1. i \in 1..n
    BY <1>2, <1>8
  <2>2. CASE j = n + 1
    BY <1>3, <1>6, <2>1, <2>2
  <2>3. CASE j \in 1..n
    BY <1>1, <1>3, <1>8, <2>1, <2>3
  <2>4. QED
    BY <1>5, <2>2, <2>3
<1>9. QED
  BY <1>1, <1>3, <1>7, <1>8 DEF Lists, t

(* A first position. *)
LEMMA ListsOne == \A x \in Int : Lists(<<x>>, {x})
<1> SUFFICES ASSUME NEW x \in Int
             PROVE  Lists(<<x>>, {x})
  OBVIOUS
<1> DEFINE s == <<x>>
<1>1. Len(s) = 1 /\ s[1] = x /\ DOMAIN s = 1..1 /\ s \in Seq({x})
  OBVIOUS
<1>2. \A i \in 1..1 : i = 1
  OBVIOUS
<1> HIDE DEF s
<1>3. ToSet(s) = {x}
  BY <1>1, <1>2 DEF ToSet
<1>4. IsSeq(s)
  BY <1>1, <1>3 DEF IsSeq
<1>5. \A i, j \in 1..Len(s) : ~(i < j)
  BY <1>1, <1>2
<1>6. QED
  BY <1>3, <1>4, <1>5 DEF Lists, s

(* AddWordPosition adds the occurrence that it is given, if it returns. *)
LEMMA TabMore ==
    ASSUME NEW tab, NEW O, TabIs(tab, O), NEW word, NEW pos \in Int, \A o \in O : o.pos < pos,
           NEW new, new = AddWordPosition(tab, word, pos), new # Exits
    PROVE  TabIs(new, O \cup {[word |-> word, pos |-> pos]})
<1> DEFINE key == FNVHash64(word)
           one == [word |-> word, pos |-> pos]
           P == O \cup {one}
<1>1. /\ IsFiniteSet(DOMAIN tab)
      /\ \A h \in DOMAIN tab :
            /\ tab[h] = [word |-> tab[h].word, positions |-> tab[h].positions]
            /\ h = FNVHash64(tab[h].word)
            /\ Lists(tab[h].positions, PositionsIn(O, tab[h].word))
      /\ \A o \in O : FNVHash64(o.word) \in DOMAIN tab /\ tab[FNVHash64(o.word)].word = o.word
  BY DEF TabIs
<1>2. one.word = word /\ one.pos = pos
  OBVIOUS
<1> HIDE DEF one
<1>3. PositionsIn(P, word) = PositionsIn(O, word) \cup {pos}
  BY <1>2 DEF PositionsIn
<1>4. \A w : w # word => PositionsIn(P, w) = PositionsIn(O, w)
  BY <1>2 DEF PositionsIn
<1>5. \A p \in PositionsIn(O, word) : p < pos
  BY DEF PositionsIn
<1>6. /\ DOMAIN new = DOMAIN tab \cup {key}
      /\ new[key].word = word
      /\ new[key] = [word |-> new[key].word, positions |-> new[key].positions]
      /\ Lists(new[key].positions, PositionsIn(P, word))
      /\ \A h \in DOMAIN tab : h # key => new[h] = tab[h] /\ tab[h].word # word
      /\ key \in DOMAIN tab => tab[key].word = word
  <2>1. CASE key \notin DOMAIN tab
    <3> DEFINE v == [word |-> word, positions |-> <<pos>>]
    <3>1. new = Extended(tab, key, v)
      BY <2>1 DEF AddWordPosition
    <3>2. v = [word |-> v.word, positions |-> v.positions] /\ v.word = word /\ v.positions = <<pos>>
      OBVIOUS
    <3> HIDE DEF v
    <3>3. PositionsIn(O, word) = {}
      BY <1>1, <2>1 DEF PositionsIn
    <3>4. Lists(v.positions, PositionsIn(P, word))
      BY <1>3, <3>2, <3>3, ListsOne
    <3>5. \A h \in DOMAIN tab : tab[h].word # word
      BY <1>1, <2>1
    <3> HIDE DEF key, P
    <3>6. DOMAIN new = DOMAIN tab \cup {key} /\ new[key] = v /\ \A h \in DOMAIN tab : new[h] = tab[h]
      BY <2>1, <3>1 DEF Extended
    <3>7. QED
      BY <2>1, <3>2, <3>4, <3>5, <3>6
  <2>2. CASE key \in DOMAIN tab
    <3> DEFINE s == tab[key].positions
               q == Append(s, pos)
    <3>1. tab[key].word = word /\ new = [tab EXCEPT ![key].positions = q]
      BY <2>2 DEF AddWordPosition
    <3>2. Lists(q, PositionsIn(P, word))
      <4> DEFINE W == PositionsIn(O, word)
      <4>1. Lists(s, W)
        BY <1>1, <2>2, <3>1
      <4>2. \A p \in W : p < pos
        BY <1>5
      <4> HIDE DEF W, s
      <4>3. Lists(Append(s, pos), W \cup {pos})
        BY <4>1, <4>2, ListsMore
      <4>4. QED
        BY <1>3, <4>3 DEF W
    <3>3. PICK w, l : tab[key] = [word |-> w, positions |-> l]
      BY <1>1, <2>2
    <3>4. \A h \in DOMAIN tab : h # key => tab[h].word # word
      BY <1>1
    <3> HIDE DEF q, key
    <3>5. DOMAIN new = DOMAIN tab /\ \A h \in DOMAIN tab : h # key => new[h] = tab[h]
      BY <3>1
    <3>6. new[key] = [word |-> w, positions |-> q]
      BY <2>2, <3>1, <3>3
    <3>7. w = word
      BY <3>1, <3>3
    <3>8. /\ new[key].word = word /\ new[key].positions = q
          /\ new[key] = [word |-> new[key].word, positions |-> new[key].positions]
      BY <3>6, <3>7
    <3>9. QED
      BY <2>2, <3>1, <3>2, <3>4, <3>5, <3>8
  <2>3. QED
    BY <2>1, <2>2
<1> HIDE DEF P
<1>7. IsFiniteSet(DOMAIN new)
  BY <1>1, <1>6, FS_AddElement
<1>8. ASSUME NEW h \in DOMAIN new
      PROVE  /\ new[h] = [word |-> new[h].word, positions |-> new[h].positions]
             /\ h = FNVHash64(new[h].word)
             /\ Lists(new[h].positions, PositionsIn(P, new[h].word))
  <2>1. CASE h = key
    BY <1>6, <2>1
  <2>2. CASE h # key
    <3>1. h \in DOMAIN tab /\ new[h] = tab[h] /\ tab[h].word # word
      BY <1>6, <2>2
    <3>2. QED
      BY <1>1, <1>4, <3>1
  <2>3. QED
    BY <2>1, <2>2
<1>9. ASSUME NEW o \in P
      PROVE  FNVHash64(o.word) \in DOMAIN new /\ new[FNVHash64(o.word)].word = o.word
  <2>1. CASE o = one
    BY <1>2, <1>6, <2>1
  <2>2. CASE o \in O
    <3>1. FNVHash64(o.word) \in DOMAIN tab /\ tab[FNVHash64(o.word)].word = o.word
      BY <1>1, <2>2
    <3>2. CASE FNVHash64(o.word) = key
      BY <1>1, <1>6, <3>1, <3>2
    <3>3. CASE FNVHash64(o.word) # key
      BY <1>6, <3>1, <3>3
    <3>4. QED
      BY <3>2, <3>3
  <2>3. QED
    BY <2>1, <2>2 DEF P
<1>10. TabIs(new, P)
  BY <1>7, <1>8, <1>9, Zenon DEF TabIs
<1>11. QED
  BY <1>10 DEF P, one

(* What the runs before k stand for. *)
OccurredBefore(text, k) == {Occurrence(text, r) : r \in EndedBefore(text, k)}

(* InsertContent has the words that something follows. *)
LEMMA ContentIs ==
    ASSUME NEW text, IsSeq(text), InsertContent(text) # Exits
    PROVE  TabIs(InsertContent(text), EndedWords(text))
<1> DEFINE N == Len(text)
<1>1. N \in Nat
  BY SeqIs
<1>2. PICK h : IsParse(text, h, N) /\ InsertContent(text) = h[N]
  BY ParseLoop
<1> DEFINE T == {k \in 0..N : h[k] # Exits => TabIs(h[k], OccurredBefore(text, k))}
<1>3. \A r \in Runs(text) : r \in Nat \X Nat /\ 1 <= r[1] /\ r[1] <= r[2] /\ r[2] <= N
  BY <1>1 DEF Runs
<1>4. 0 \in T
  <2>1. EndedBefore(text, 0) = {}
    BY <1>3 DEF EndedBefore
  <2>2. OccurredBefore(text, 0) = {}
    BY <2>1 DEF OccurredBefore
  <2>3. IsFiniteSet({}) /\ DOMAIN <<>> = {}
    BY FS_EmptySet
  <2>4. TabIs(<<>>, {})
    BY <2>3 DEF TabIs
  <2>5. h[0] = <<>>
    BY <1>2 DEF IsParse
  <2>6. 0 \in 0..N
    BY <1>1
  <2>7. QED
    BY <2>2, <2>4, <2>5, <2>6
<1>5. ASSUME NEW k \in 1..N, k - 1 \in T
      PROVE  k \in T
  <2>1. k \in 0..N /\ k \in Nat
    BY <1>1
  <2>2. h[k] = ParseStep(text, h[k - 1], k)
    BY <1>2 DEF IsParse
  <2> DEFINE s == WordStart(text)[k]
             O == OccurredBefore(text, k - 1)
  <2>3. StartsAt(text, k, s)
    BY StartIs
  <2>4. SUFFICES ASSUME h[k] # Exits
                 PROVE  TabIs(h[k], OccurredBefore(text, k))
    BY <2>1
  <2>5. h[k - 1] # Exits
    BY <2>2, <2>4 DEF ParseStep
  <2>6. TabIs(h[k - 1], O)
    BY <1>5, <2>5
  <2>7. CASE ~EndsWord(text, k)
    <3>1. EndedBefore(text, k) = EndedBefore(text, k - 1)
      <4> HIDE DEF s
      <4>1. QED
        BY <2>3, <2>7, EndsOne
    <3>2. h[k] = h[k - 1]
      BY <2>2, <2>7 DEF ParseStep
    <3>3. QED
      BY <2>6, <3>1, <3>2 DEF OccurredBefore
  <2>8. CASE EndsWord(text, k)
    <3> DEFINE w == WordAt(text, k)
    <3>1. h[k] = AddWordPosition(h[k - 1], w, s - 1)
      BY <2>2, <2>5, <2>8 DEF ParseStep
    <3>2. /\ EndedBefore(text, k) = EndedBefore(text, k - 1) \cup {<<s, k - 1>>}
          /\ \A r \in EndedBefore(text, k - 1) : r[1] < s
      <4> HIDE DEF s
      <4>1. QED
        BY <2>3, <2>8, EndsOne
    <3>3. s \in Int /\ s - 1 \in Int
      BY <2>3 DEF StartsAt
    <3>4. Occurrence(text, <<s, k - 1>>) = [word |-> w, pos |-> s - 1]
      <4>1. <<s, k - 1>>[1] = s /\ <<s, k - 1>>[2] = k - 1
        OBVIOUS
      <4>2. k - 1 - s + 1 = k - s
        BY <2>1, <3>3
      <4>3. Occurrence(text, <<s, k - 1>>)
              = [word |-> [j \in 1..(k - 1 - s + 1) |-> tolower[text[s + j - 1]]], pos |-> s - 1]
        BY <4>1 DEF Occurrence
      <4>4. w = [j \in 1..(k - s) |-> tolower[text[s + j - 1]]]
        BY DEF WordAt
      <4> HIDE DEF s, w
      <4>5. QED
        BY <4>2, <4>3, <4>4
    <3>5. \A o \in O : o.pos < s - 1
      <4>1. ASSUME NEW r \in EndedBefore(text, k - 1)
            PROVE  Occurrence(text, r).pos < s - 1
        <5>1. r[1] < s /\ r[1] \in Int
          BY <1>3, <3>2 DEF EndedBefore
        <5>2. Occurrence(text, r).pos = r[1] - 1
          BY DEF Occurrence
        <5> HIDE DEF s
        <5>3. QED
          BY <3>3, <5>1, <5>2
      <4> HIDE DEF s
      <4>2. QED
        BY <4>1 DEF OccurredBefore
    <3>6. OccurredBefore(text, k) = O \cup {[word |-> w, pos |-> s - 1]}
      <4>1. OccurredBefore(text, k)
              = OccurredBefore(text, k - 1) \cup {Occurrence(text, <<s, k - 1>>)}
        <5> HIDE DEF s
        <5>1. QED
          BY <3>2 DEF OccurredBefore
      <4>2. QED
        BY <3>4, <4>1
    <3> HIDE DEF s, w, O
    <3>7. TabIs(h[k], O \cup {[word |-> w, pos |-> s - 1]})
      BY <2>4, <2>6, <3>1, <3>3, <3>5, TabMore
    <3>8. QED
      BY <3>6, <3>7
  <2>9. QED
    BY <2>7, <2>8
<1>6. \A k \in 0..N : k \in T
  <2> HIDE DEF T
  <2>1. QED
    BY <1>1, <1>4, <1>5, Shared!Induction
<1>7. TabIs(h[N], OccurredBefore(text, N))
  <2>1. N \in T
    BY <1>1, <1>6
  <2>2. QED
    BY <1>2, <2>1
<1>8. OccurredBefore(text, N) = EndedWords(text)
  BY DEF OccurredBefore, EndedBefore, EndedWords
<1>9. QED
  BY <1>2, <1>7, <1>8

-----------------------------------------------------------------------------
(* The words of a file in the index.                                       *)

(* An iteration over a table meets each of its keys once. *)
LEMMA KeysAre ==
    ASSUME NEW S, IsFiniteSet(S), NEW s, s = SetToSeq(S)
    PROVE  /\ IsSeq(s) /\ ToSet(s) = S
           /\ \A i, j \in 1..Len(s) : s[i] = s[j] => i = j
<1> DEFINE n == Cardinality(S)
<1>1. n \in Nat /\ ExistsBijection(1..n, S)
  BY FS_CardinalityType
<1>2. \E f \in [1..n -> S] : IsInjective(f)
  BY <1>1 DEF ExistsBijection, Bijection, Injection
<1>3. s \in [1..n -> S] /\ IsInjective(s)
  <2> HIDE DEF n
  <2>1. s = CHOOSE f \in [1..n -> S] : IsInjective(f)
    BY DEF SetToSeq, n
  <2>2. QED
    BY <1>2, <2>1
<1>4. s \in Injection(1..n, S)
  BY <1>3 DEF Injection
<1>5. IsFiniteSet(1..n) /\ Cardinality(1..n) = n
  <2> HIDE DEF n
  <2>1. 1 \in Int /\ n \in Int
    BY <1>1
  <2>2. IsFiniteSet(1..n) /\ Cardinality(1..n) = IF 1 > n THEN 0 ELSE n - 1 + 1
    BY <2>1, FS_Interval, Zenon
  <2>3. QED
    BY <1>1, <2>2
<1>6. s \in Surjection(1..n, S)
  BY <1>4, <1>5, FS_Injection
<1> HIDE DEF n
<1>7. \A x \in S : \E i \in 1..n : s[i] = x
  BY <1>6 DEF Surjection
<1>8. s \in Seq(S) /\ Len(s) = n /\ DOMAIN s = 1..n
  BY <1>1, <1>3
<1>9. ToSet(s) = S
  BY <1>3, <1>7, <1>8 DEF ToSet
<1>10. IsSeq(s)
  BY <1>8, <1>9 DEF IsSeq
<1>11. \A i, j \in 1..n : s[i] = s[j] => i = j
  BY <1>3, <1>8 DEF IsInjective
<1>12. QED
  BY <1>8, <1>9, <1>10, <1>11

(* The loop's body. *)
PutStep(tab, docid, m, key) ==
    IF m = Exits THEN Exits
    ELSE MemIndex_AddPostingList(m, tab[key].word, docid, tab[key].positions)

(* h[k] is the index that the loop has after k words. *)
IsPut(mi, tab, docid, keys, h, n) ==
    /\ DOMAIN h = 0..n
    /\ h[0] = mi
    /\ \A k \in 1..n : h[k] = PutStep(tab, docid, h[k - 1], keys[k])

(* The loop is defined by recursion. *)
LEMMA PutLoop ==
    ASSUME NEW mi, NEW tab, NEW docid, tab # Exits, NEW keys, keys = SetToSeq(DOMAIN tab), IsSeq(keys)
    PROVE  \E h : IsPut(mi, tab, docid, keys, h, Len(keys)) /\ AddWords(mi, tab, docid) = h[Len(keys)]
<1> DEFINE N == Len(keys)
           T == {m \in 0..N : \E h : IsPut(mi, tab, docid, keys, h, m)}
           F(g) == [k \in 0..N |-> IF k = 0 THEN mi ELSE PutStep(tab, docid, g[k - 1], keys[k])]
           loop == CHOOSE g : g = F(g)
<1>1. N \in Nat
  BY SeqIs
<1>2. AddWords(mi, tab, docid) = loop[N]
  BY DEF AddWords, PutStep
<1> HIDE DEF N, loop
<1>3. 0 \in T
  <2> DEFINE h == [k \in 0..0 |-> mi]
  <2>1. IsPut(mi, tab, docid, keys, h, 0)
    <3>1. 1..0 = {} /\ 0 \in 0..0
      OBVIOUS
    <3>2. QED
      BY <3>1 DEF IsPut
  <2>2. 0 \in 0..N
    BY <1>1
  <2>3. QED
    BY <2>1, <2>2
<1>4. ASSUME NEW m \in 1..N, m - 1 \in T
      PROVE  m \in T
  <2>1. m \in Nat /\ m \in 0..N /\ m - 1 \in Nat /\ m \notin 0..(m - 1)
        /\ \A k \in 0..m : k = m \/ k \in 0..(m - 1)
    BY <1>1
  <2>2. PICK h : IsPut(mi, tab, docid, keys, h, m - 1)
    BY <1>4
  <2> DEFINE g == [k \in 0..m |-> IF k = m THEN PutStep(tab, docid, h[m - 1], keys[m]) ELSE h[k]]
  <2>3. \A k \in 0..(m - 1) : k \in 0..m /\ g[k] = h[k]
    BY <2>1
  <2>4. g[m] = PutStep(tab, docid, h[m - 1], keys[m])
    BY <2>1
  <2>5. DOMAIN g = 0..m
    OBVIOUS
  <2> HIDE DEF g
  <2>6. g[0] = mi
    BY <2>1, <2>2, <2>3 DEF IsPut
  <2>7. ASSUME NEW k \in 1..m
        PROVE  g[k] = PutStep(tab, docid, g[k - 1], keys[k])
    <3>1. k - 1 \in 0..(m - 1) /\ (k = m \/ k \in 1..(m - 1)) /\ k - 1 \in Nat
      BY <2>1
    <3>2. g[k - 1] = h[k - 1]
      BY <2>3, <3>1
    <3>3. CASE k = m
      BY <2>4, <3>2, <3>3
    <3>4. CASE k \in 1..(m - 1)
      <4>1. h[k] = PutStep(tab, docid, h[k - 1], keys[k]) /\ k \in 0..(m - 1)
        BY <2>2, <3>4 DEF IsPut
      <4>2. QED
        BY <2>3, <3>2, <4>1
    <3>5. QED
      BY <3>1, <3>3, <3>4
  <2>8. IsPut(mi, tab, docid, keys, g, m)
    BY <2>5, <2>6, <2>7 DEF IsPut
  <2>9. QED
    BY <2>1, <2>8
<1>5. \A m \in 0..N : m \in T
  <2> HIDE DEF T
  <2>1. QED
    BY <1>1, <1>3, <1>4, Shared!Induction
<1>6. PICK h : IsPut(mi, tab, docid, keys, h, N)
  <2>1. N \in T
    BY <1>1, <1>5
  <2>2. QED
    BY <2>1
<1> DEFINE g == [k \in 0..N |-> h[k]]
<1>7. g = F(g)
  <2>1. \A k \in 0..N : k = 0 \/ (k \in 1..N /\ k - 1 \in 0..N)
    BY <1>1
  <2>2. ASSUME NEW k \in 0..N
        PROVE  h[k] = IF k = 0 THEN mi ELSE PutStep(tab, docid, g[k - 1], keys[k])
    <3>1. CASE k = 0
      BY <1>6, <3>1 DEF IsPut
    <3>2. CASE k # 0
      <4>1. k \in 1..N /\ g[k - 1] = h[k - 1]
        BY <2>1, <3>2
      <4>2. QED
        BY <1>6, <3>2, <4>1 DEF IsPut
    <3>3. QED
      BY <3>1, <3>2
  <2>3. QED
    BY <2>2
<1> HIDE DEF F, g
<1>8. loop = F(loop)
  BY <1>7 DEF loop
<1>9. IsPut(mi, tab, docid, keys, loop, N)
  <2>1. \A k \in 1..N : k \in 0..N /\ k # 0
    BY <1>1
  <2>2. 0 \in 0..N
    BY <1>1
  <2>3. /\ DOMAIN loop = 0..N
        /\ \A k \in 0..N : loop[k] = IF k = 0 THEN mi ELSE PutStep(tab, docid, loop[k - 1], keys[k])
    BY <1>8 DEF F
  <2>4. QED
    BY <2>1, <2>2, <2>3 DEF IsPut
<1>10. QED
  BY <1>2, <1>9 DEF N

(* The words of an index have postings. *)
Record(e) == e = [word |-> e.word, postings |-> e.postings]

(* The documents a word has postings for, and an index with the words that *)
(* have the keys in K, and their postings for one document, besides what   *)
(* it had.                                                                 *)
OldDocs(mi, k) == IF k \in DOMAIN mi THEN DOMAIN mi[k].postings ELSE {}

(* The entry of one word has the document's positions and what it had. *)
HasWord(mi, tab, docid, k, e) ==
    /\ e.word = tab[k].word
    /\ docid \notin OldDocs(mi, k)
    /\ DOMAIN e.postings = OldDocs(mi, k) \cup {docid}
    /\ e.postings[docid] = tab[k].positions
    /\ k \in DOMAIN mi => /\ mi[k].word = tab[k].word
                          /\ \A d \in DOMAIN mi[k].postings : e.postings[d] = mi[k].postings[d]

(* So have the entries of the words of K; the others are what they were. *)
HasWords(mi, tab, docid, K, m) ==
    /\ DOMAIN m = DOMAIN mi \cup K
    /\ \A k \in DOMAIN m : Record(m[k])
    /\ \A k \in DOMAIN mi : k \notin K => m[k] = mi[k]
    /\ \A k \in K : HasWord(mi, tab, docid, k, m[k])

(* MemIndex_AddPostingList adds a word, if it returns. *)
LEMMA PutMore ==
    ASSUME NEW mi, NEW tab, NEW docid, NEW K, NEW m, HasWords(mi, tab, docid, K, m),
           NEW key, key \notin K, key = FNVHash64(tab[key].word),
           NEW new, new = MemIndex_AddPostingList(m, tab[key].word, docid, tab[key].positions),
           new # Exits
    PROVE  HasWords(mi, tab, docid, K \cup {key}, new)
<1> DEFINE w == tab[key].word
           ps == tab[key].positions
<1>1. /\ DOMAIN m = DOMAIN mi \cup K
      /\ \A k \in DOMAIN m : Record(m[k])
      /\ \A k \in DOMAIN mi : k \notin K => m[k] = mi[k]
      /\ \A k \in K : HasWord(mi, tab, docid, k, m[k])
  BY DEF HasWords
<1>2. SUFFICES /\ DOMAIN new = DOMAIN m \cup {key}
               /\ \A k \in DOMAIN m : k # key => new[k] = m[k]
               /\ Record(new[key]) /\ HasWord(mi, tab, docid, key, new[key])
  <2>1. DOMAIN new = DOMAIN mi \cup (K \cup {key})
    BY <1>1, <1>2
  <2>2. ASSUME NEW k \in DOMAIN new
        PROVE  Record(new[k])
    BY <1>1, <1>2
  <2>3. \A k \in DOMAIN mi : k \notin K \cup {key} => new[k] = mi[k]
    BY <1>1, <1>2
  <2>4. ASSUME NEW k \in K \cup {key}
        PROVE  HasWord(mi, tab, docid, k, new[k])
    <3>1. CASE k = key
      BY <1>2, <3>1
    <3>2. CASE k # key
      <4>1. k \in K /\ new[k] = m[k]
        BY <1>1, <1>2, <3>2
      <4>2. QED
        BY <1>1, <4>1
    <3>3. QED
      BY <3>1, <3>2
  <2>5. QED
    BY <2>1, <2>2, <2>3, <2>4 DEF HasWords
<1>3. key \in DOMAIN m <=> key \in DOMAIN mi
  BY <1>1
<1>4. CASE key \notin DOMAIN m
  <2> DEFINE P == Extended(<<>>, docid, ps)
             e == [word |-> w, postings |-> P]
  <2>1. new = Extended(m, key, e)
    BY <1>4 DEF MemIndex_AddPostingList
  <2>2. DOMAIN P = {docid} /\ P[docid] = ps
    <3>1. DOMAIN <<>> = {}
      OBVIOUS
    <3>2. QED
      BY <3>1 DEF Extended
  <2> HIDE DEF P
  <2>3. e.word = w /\ e.postings = P /\ Record(e)
    BY DEF Record
  <2> HIDE DEF e
  <2>4. HasWord(mi, tab, docid, key, e)
    BY <1>3, <1>4, <2>2, <2>3 DEF HasWord, OldDocs
  <2>5. DOMAIN new = DOMAIN m \cup {key} /\ new[key] = e /\ \A k \in DOMAIN m : new[k] = m[k]
    BY <1>4, <2>1 DEF Extended
  <2>6. QED
    BY <2>3, <2>4, <2>5
<1>5. CASE key \in DOMAIN m
  <2> DEFINE Q == m[key].postings
             P == Extended(Q, docid, ps)
             e == [word |-> w, postings |-> P]
  <2>1. m[key].word = w /\ docid \notin DOMAIN Q /\ new = [m EXCEPT ![key].postings = P]
    BY <1>5 DEF MemIndex_AddPostingList
  <2>2. m[key] = mi[key] /\ key \in DOMAIN mi
    BY <1>1, <1>3, <1>5
  <2>3. PICK x, y : m[key] = [word |-> x, postings |-> y]
    BY <1>1, <1>5 DEF Record
  <2>4. DOMAIN P = DOMAIN Q \cup {docid} /\ P[docid] = ps /\ \A d \in DOMAIN Q : P[d] = Q[d]
    BY <2>1 DEF Extended
  <2> HIDE DEF P
  <2>5. [m[key] EXCEPT !.postings = P] = e
    BY <2>1, <2>3
  <2>6. new = [m EXCEPT ![key] = e]
    BY <2>1, <2>5
  <2>7. e.word = w /\ e.postings = P /\ Record(e)
    BY DEF Record
  <2> HIDE DEF e
  <2>8. DOMAIN new = DOMAIN m \cup {key} /\ new[key] = e /\ \A k \in DOMAIN m : k # key => new[k] = m[k]
    BY <1>5, <2>6
  <2>9. HasWord(mi, tab, docid, key, e)
    BY <2>1, <2>2, <2>4, <2>7 DEF HasWord, OldDocs
  <2>10. QED
    BY <2>7, <2>8, <2>9
<1>6. QED
  BY <1>4, <1>5

(* The loop adds the words of a table, if it returns. *)
LEMMA PutsAll ==
    ASSUME NEW mi, \A k \in DOMAIN mi : Record(mi[k]), NEW tab, NEW O, TabIs(tab, O), NEW docid,
           AddWords(mi, tab, docid) # Exits
    PROVE  HasWords(mi, tab, docid, DOMAIN tab, AddWords(mi, tab, docid))
<1> DEFINE keys == SetToSeq(DOMAIN tab)
           N == Len(keys)
           K(n) == {keys[i] : i \in 1..n}
<1>1. tab # Exits
  BY DEF AddWords
<1>2. /\ IsSeq(keys) /\ ToSet(keys) = DOMAIN tab
      /\ \A i, j \in 1..N : keys[i] = keys[j] => i = j
  <2>1. IsFiniteSet(DOMAIN tab)
    BY DEF TabIs
  <2>2. QED
    BY <2>1, KeysAre
<1>3. N \in Nat /\ DOMAIN keys = 1..N
  BY <1>2, SeqIs
<1>4. PICK h : IsPut(mi, tab, docid, keys, h, N) /\ AddWords(mi, tab, docid) = h[N]
  BY <1>1, <1>2, PutLoop
<1> HIDE DEF keys, N
<1> DEFINE T == {n \in 0..N : h[n] # Exits => HasWords(mi, tab, docid, K(n), h[n])}
<1>5. 0 \in T
  <2>1. K(0) = {} /\ h[0] = mi /\ 0 \in 0..N
    BY <1>3, <1>4 DEF IsPut
  <2>2. HasWords(mi, tab, docid, {}, mi)
    BY DEF HasWords
  <2>3. QED
    BY <2>1, <2>2
<1>6. ASSUME NEW n \in 1..N, n - 1 \in T
      PROVE  n \in T
  <2>1. n \in 0..N /\ n \in Nat
    BY <1>3
  <2>2. SUFFICES ASSUME h[n] # Exits
                 PROVE  HasWords(mi, tab, docid, K(n), h[n])
    BY <2>1
  <2>3. h[n] = PutStep(tab, docid, h[n - 1], keys[n])
    BY <1>4 DEF IsPut
  <2>4. /\ h[n - 1] # Exits
        /\ h[n] = MemIndex_AddPostingList(h[n - 1], tab[keys[n]].word, docid, tab[keys[n]].positions)
    BY <2>2, <2>3 DEF PutStep
  <2>5. HasWords(mi, tab, docid, K(n - 1), h[n - 1])
    BY <1>6, <2>4
  <2>6. keys[n] \notin K(n - 1)
    <3>1. \A i \in 1..(n - 1) : i \in 1..N /\ i # n
      BY <1>3, <2>1
    <3>2. QED
      BY <1>2, <3>1
  <2>7. K(n) = K(n - 1) \cup {keys[n]}
    <3>1. \A i \in 1..n : i = n \/ i \in 1..(n - 1)
      BY <2>1
    <3>2. \A i \in 1..(n - 1) : i \in 1..n
      BY <2>1
    <3>3. n \in 1..n
      BY <2>1, <1>3
    <3>4. QED
      BY <3>1, <3>2, <3>3
  <2>8. keys[n] = FNVHash64(tab[keys[n]].word)
    <3>1. keys[n] \in DOMAIN tab
      BY <1>2, <1>3 DEF ToSet
    <3>2. QED
      BY <3>1 DEF TabIs
  <2> DEFINE key == keys[n]
             L == K(n - 1)
  <2> HIDE DEF key, L, K
  <2>9. HasWords(mi, tab, docid, L \cup {key}, h[n])
    <3>1. /\ HasWords(mi, tab, docid, L, h[n - 1]) /\ key \notin L /\ key = FNVHash64(tab[key].word)
          /\ h[n] = MemIndex_AddPostingList(h[n - 1], tab[key].word, docid, tab[key].positions)
      BY <2>4, <2>5, <2>6, <2>8 DEF key, L
    <3>2. QED
      BY <2>2, <3>1, PutMore
  <2>10. QED
    BY <2>7, <2>9 DEF key, L
<1>7. \A n \in 0..N : n \in T
  <2> HIDE DEF T
  <2>1. QED
    BY <1>3, <1>5, <1>6, Shared!Induction
<1>8. HasWords(mi, tab, docid, K(N), h[N])
  <2>1. N \in T
    <3> HIDE DEF T
    <3>1. QED
      BY <1>3, <1>7
  <2>2. QED
    BY <1>4, <2>1
<1>9. K(N) = DOMAIN tab
  BY <1>2, <1>3 DEF ToSet
<1>10. QED
  BY <1>4, <1>8, <1>9

(* A string is a sequence. *)
LEMMA CStringIs ==
    ASSUME NEW buf, IsSeq(buf)
    PROVE  IsSeq(CString(buf))
<1> DEFINE I == {i \in 1..Len(buf) : buf[i] = NUL}
           end == SelectInSeq(buf, LAMBDA c : c = NUL)
<1>1. Len(buf) \in Nat /\ I \subseteq Nat
  BY SeqIs
<1>2. CString(buf) = IF end = 0 THEN buf ELSE SubSeq(buf, 1, end - 1)
  BY DEF CString
<1>3. CASE I = {}
  <2>1. end = 0
    BY <1>3, Zenon DEF SelectInSeq
  <2>2. QED
    BY <1>2, <2>1
<1>4. CASE I # {}
  <2>1. end = Min(I)
    BY <1>4, Zenon DEF SelectInSeq
  <2>2. Min(I) \in I
    <3> HIDE DEF I
    <3>1. QED
      BY <1>1, <1>4, Shared!MinIs DEF Min, Shared!Min
  <2>3. end \in 1..Len(buf)
    BY <2>1, <2>2
  <2> DEFINE S == ToSet(buf)
             s == SubSeq(buf, 1, end - 1)
  <2>4. buf \in Seq(S)
    BY DEF IsSeq
  <2> HIDE DEF S, end
  <2>5. s \in Seq(S)
    BY <1>1, <2>3, <2>4
  <2>6. end # 0
    BY <2>3
  <2> HIDE DEF s
  <2>7. IsSeq(s)
    BY <2>5 DEF IsSeq, ToSet
  <2>8. QED
    BY <1>2, <2>6, <2>7 DEF end, s
<1>5. QED
  BY <1>3, <1>4

(* The index has the occurrences of words in a document. *)
DocIn(mi, d, occurrences) ==
    /\ \A k \in DOMAIN mi :
          d \in DOMAIN mi[k].postings =>
              Lists(mi[k].postings[d], PositionsIn(occurrences, mi[k].word))
    /\ \A o \in occurrences :
          /\ FNVHash64(o.word) \in DOMAIN mi
          /\ mi[FNVHash64(o.word)].word = o.word
          /\ d \in DOMAIN mi[FNVHash64(o.word)].postings

(* It has those of every document whose name is unlike others and which    *)
(* was whole when it was read, and it has postings of documents only.      *)
IndexOK(mi, t, held) ==
    /\ \A k \in DOMAIN mi :
          /\ Record(mi[k]) /\ k = FNVHash64(mi[k].word)
          /\ DOMAIN mi[k].postings \subseteq DOMAIN t.docid_to_docname
    /\ \A d \in DOMAIN t.docid_to_docname :
          held[d].whole /\ t.docid_to_docname[d] \notin Colliding =>
              DocIn(mi, d, EndedWords(CString(held[d].text)))

(* What is added for one document leaves the others as they are. *)
LEMMA OthersStay ==
    ASSUME NEW mi, NEW tab, NEW x, NEW new, HasWords(mi, tab, x, DOMAIN tab, new),
           NEW d, d # x, NEW O, DocIn(mi, d, O)
    PROVE  DocIn(new, d, O)
<1>1. /\ DOMAIN new = DOMAIN mi \cup DOMAIN tab
      /\ \A k \in DOMAIN mi : k \notin DOMAIN tab => new[k] = mi[k]
      /\ \A k \in DOMAIN tab : HasWord(mi, tab, x, k, new[k])
  BY DEF HasWords
<1>2. ASSUME NEW k \in DOMAIN new, d \in DOMAIN new[k].postings
      PROVE  Lists(new[k].postings[d], PositionsIn(O, new[k].word))
  <2>1. CASE k \in DOMAIN tab
    <3>1. HasWord(mi, tab, x, k, new[k])
      BY <1>1, <2>1
    <3>2. d \in OldDocs(mi, k)
      BY <1>2, <3>1 DEF HasWord
    <3>3. k \in DOMAIN mi /\ d \in DOMAIN mi[k].postings
      BY <3>2 DEF OldDocs
    <3>4. new[k].postings[d] = mi[k].postings[d] /\ new[k].word = mi[k].word
      BY <3>1, <3>3 DEF HasWord
    <3>5. QED
      BY <3>3, <3>4 DEF DocIn
  <2>2. CASE k \notin DOMAIN tab
    <3>1. k \in DOMAIN mi /\ new[k] = mi[k]
      BY <1>1, <2>2
    <3>2. QED
      BY <1>2, <3>1 DEF DocIn
  <2>3. QED
    BY <2>1, <2>2
<1>3. ASSUME NEW o \in O
      PROVE  /\ FNVHash64(o.word) \in DOMAIN new
             /\ new[FNVHash64(o.word)].word = o.word
             /\ d \in DOMAIN new[FNVHash64(o.word)].postings
  <2> DEFINE k == FNVHash64(o.word)
  <2>1. k \in DOMAIN mi /\ mi[k].word = o.word /\ d \in DOMAIN mi[k].postings
    BY DEF DocIn
  <2> HIDE DEF k
  <2>2. CASE k \in DOMAIN tab
    <3>1. HasWord(mi, tab, x, k, new[k])
      BY <1>1, <2>2
    <3>2. new[k].word = o.word
      BY <2>1, <3>1 DEF HasWord
    <3>3. d \in DOMAIN new[k].postings
      BY <2>1, <3>1 DEF HasWord, OldDocs
    <3>4. QED
      BY <1>1, <2>1, <3>2, <3>3 DEF k
  <2>3. CASE k \notin DOMAIN tab
    BY <1>1, <2>1, <2>3 DEF k
  <2>4. QED
    BY <2>2, <2>3
<1>4. QED
  BY <1>2, <1>3 DEF DocIn

(* What is added is what the document has, if it had nothing before. *)
LEMMA NewComes ==
    ASSUME NEW mi, NEW tab, NEW x, NEW new, HasWords(mi, tab, x, DOMAIN tab, new),
           NEW O, TabIs(tab, O), \A k \in DOMAIN mi : x \notin DOMAIN mi[k].postings
    PROVE  DocIn(new, x, O)
<1>1. /\ DOMAIN new = DOMAIN mi \cup DOMAIN tab
      /\ \A k \in DOMAIN mi : k \notin DOMAIN tab => new[k] = mi[k]
      /\ \A k \in DOMAIN tab : HasWord(mi, tab, x, k, new[k])
  BY DEF HasWords
<1>2. ASSUME NEW k \in DOMAIN new, x \in DOMAIN new[k].postings
      PROVE  Lists(new[k].postings[x], PositionsIn(O, new[k].word))
  <2>1. k \in DOMAIN tab
    BY <1>1, <1>2
  <2>2. new[k].word = tab[k].word /\ new[k].postings[x] = tab[k].positions
    BY <1>1, <2>1 DEF HasWord
  <2>3. Lists(tab[k].positions, PositionsIn(O, tab[k].word))
    BY <2>1 DEF TabIs
  <2>4. QED
    BY <2>2, <2>3
<1>3. ASSUME NEW o \in O
      PROVE  /\ FNVHash64(o.word) \in DOMAIN new
             /\ new[FNVHash64(o.word)].word = o.word
             /\ x \in DOMAIN new[FNVHash64(o.word)].postings
  <2> DEFINE k == FNVHash64(o.word)
  <2>1. k \in DOMAIN tab /\ tab[k].word = o.word
    BY DEF TabIs
  <2> HIDE DEF k
  <2>2. HasWord(mi, tab, x, k, new[k])
    BY <1>1, <2>1
  <2>3. new[k].word = o.word /\ x \in DOMAIN new[k].postings
    BY <2>1, <2>2 DEF HasWord
  <2>4. QED
    BY <1>1, <2>1, <2>3 DEF k
<1>4. QED
  BY <1>2, <1>3 DEF DocIn

(* The words that are added to an index have their hashes for keys, and    *)
(* postings of the documents that there are and of the one.                *)
LEMMA KeysStay ==
    ASSUME NEW mi, NEW tab, NEW x, NEW new, HasWords(mi, tab, x, DOMAIN tab, new),
           NEW O, TabIs(tab, O), NEW D,
           \A k \in DOMAIN mi : k = FNVHash64(mi[k].word) /\ DOMAIN mi[k].postings \subseteq D
    PROVE  \A k \in DOMAIN new : /\ Record(new[k]) /\ k = FNVHash64(new[k].word)
                                 /\ DOMAIN new[k].postings \subseteq D \cup {x}
<1>1. /\ DOMAIN new = DOMAIN mi \cup DOMAIN tab
      /\ \A k \in DOMAIN new : Record(new[k])
      /\ \A k \in DOMAIN mi : k \notin DOMAIN tab => new[k] = mi[k]
      /\ \A k \in DOMAIN tab : HasWord(mi, tab, x, k, new[k])
  BY DEF HasWords
<1>2. ASSUME NEW k \in DOMAIN new
      PROVE  k = FNVHash64(new[k].word) /\ DOMAIN new[k].postings \subseteq D \cup {x}
  <2>1. CASE k \in DOMAIN tab
    <3>1. HasWord(mi, tab, x, k, new[k])
      BY <1>1, <2>1
    <3>2. k = FNVHash64(tab[k].word) /\ new[k].word = tab[k].word
      BY <2>1, <3>1 DEF TabIs, HasWord
    <3>3. OldDocs(mi, k) \subseteq D
      BY DEF OldDocs
    <3>4. DOMAIN new[k].postings = OldDocs(mi, k) \cup {x}
      BY <3>1 DEF HasWord
    <3> HIDE DEF OldDocs
    <3>5. QED
      BY <3>2, <3>3, <3>4
  <2>2. CASE k \notin DOMAIN tab
    BY <1>1, <2>2
  <2>3. QED
    BY <2>1, <2>2
<1>3. QED
  BY <1>1, <1>2

(* A file that is new to the doctable, and one that is not: then its path  *)
(* shares its hash with the path of another.                               *)
LEMMA IndexAdds ==
    ASSUME NEW mi, NEW t, NEW held, TableOK(t, held), InOrder(t.docid_to_docname),
           IndexOK(mi, t, held),
           NEW path, IsSeq(path),
           \A d \in DOMAIN t.docid_to_docname : Precedes(t.docid_to_docname[d], path),
           NEW tab, NEW O, TabIs(tab, O),
           NEW u, u = DocTable_Add(t, path), NEW x, x = DocTable_GetDocID(u, path),
           NEW new, new = AddWords(mi, tab, x), new # Exits,
           NEW v, v.whole => O = EndedWords(CString(v.text)),
           NEW after, after = Extended(held, x, v)
    PROVE  IndexOK(new, u, after)
<1> DEFINE names == t.docid_to_docname
           D == DOMAIN names
<1>1. /\ \A k \in DOMAIN mi : /\ Record(mi[k]) /\ k = FNVHash64(mi[k].word)
                              /\ DOMAIN mi[k].postings \subseteq D
      /\ \A d \in D : held[d].whole /\ names[d] \notin Colliding =>
            DocIn(mi, d, EndedWords(CString(held[d].text)))
  BY DEF IndexOK
<1>2. HasWords(mi, tab, x, DOMAIN tab, new)
  BY <1>1, PutsAll
<1>3. \A k \in DOMAIN new : /\ Record(new[k]) /\ k = FNVHash64(new[k].word)
                            /\ DOMAIN new[k].postings \subseteq D \cup {x}
  <2> HIDE DEF D
  <2>1. QED
    BY <1>1, <1>2, KeysStay
<1>4. DOMAIN held = D
  BY DEF TableOK
<1>5. ASSUME NEW d \in D, d # x, held[d].whole, names[d] \notin Colliding
      PROVE  DocIn(new, d, EndedWords(CString(held[d].text)))
  BY <1>1, <1>2, <1>5, OthersStay
<1>6. \A d \in D : after[d] = held[d]
  BY <1>4 DEF Extended
<1>7. CASE u # t
  <2>1. /\ t.max_id \notin D
        /\ DOMAIN u.docid_to_docname = D \cup {t.max_id}
        /\ \A d \in D : u.docid_to_docname[d] = names[d]
        /\ x = t.max_id
    BY <1>7, NextIs
  <2> DEFINE more == u.docid_to_docname
  <2>2. x \notin D /\ DOMAIN more = D \cup {x} /\ \A d \in D : more[d] = names[d]
    BY <2>1
  <2>3. after[x] = v
    BY <1>4, <2>2 DEF Extended
  <2> HIDE DEF D, names, more
  <2>4. ASSUME NEW d \in DOMAIN more, after[d].whole, more[d] \notin Colliding
        PROVE  DocIn(new, d, EndedWords(CString(after[d].text)))
    <3>1. CASE d = x
      <4>1. O = EndedWords(CString(v.text))
        BY <2>3, <2>4, <3>1
      <4>2. DocIn(new, x, O)
        BY <1>1, <1>2, <2>2, NewComes
      <4>3. QED
        BY <2>3, <3>1, <4>1, <4>2
    <3>2. CASE d \in D
      <4>1. after[d] = held[d] /\ more[d] = names[d] /\ d # x
        BY <1>6, <2>2, <3>2
      <4>2. QED
        BY <1>5, <2>4, <3>2, <4>1
    <3>3. QED
      BY <2>2, <3>1, <3>2
  <2>5. \A k \in DOMAIN new : DOMAIN new[k].postings \subseteq DOMAIN more
    BY <1>3, <2>2
  <2>6. QED
    BY <1>3, <2>4, <2>5 DEF IndexOK, more
<1>8. CASE u = t
  <2> DEFINE h == FNVHash64(path)
  <2>1. t.max_id \in Nat /\ D = 1..(t.max_id - 1)
    BY DEF TableOK
  <2>2. h \in DOMAIN t.docname_to_docid /\ x = t.docname_to_docid[h]
    <3>1. CASE h \notin DOMAIN t.docname_to_docid
      <4>1. DocTable_GetDocID(t, path) = INVALID_DOCID
        BY <3>1 DEF DocTable_GetDocID
      <4>2. u.max_id = t.max_id + 1
        BY <4>1 DEF DocTable_Add
      <4> HIDE DEF D
      <4>3. QED
        BY <1>8, <2>1, <4>2
    <3>2. QED
      BY <1>8, <3>1 DEF DocTable_GetDocID
  <2>3. x \in D /\ FNVHash64(names[x]) = h
    BY <2>1, <2>2 DEF TableOK
  <2>4. names[x] \in Colliding
    <3>1. names[x] # path
      <4>1. Precedes(names[x], path)
        BY <2>3
      <4>2. QED
        BY <4>1, NotItself
    <3>2. CASE path \notin Colliding
      <4>1. h = {path}
        BY <3>2 DEF FNVHash64
      <4>2. CASE names[x] \notin Colliding
        <5>1. FNVHash64(names[x]) = {names[x]}
          BY <4>2 DEF FNVHash64
        <5>2. QED
          BY <2>3, <3>1, <4>1, <5>1
      <4>3. QED
        BY <4>2
    <3>3. CASE path \in Colliding
      <4>1. h = Colliding
        BY <3>3 DEF FNVHash64
      <4>2. CASE names[x] \notin Colliding
        <5>1. FNVHash64(names[x]) = {names[x]}
          BY <4>2 DEF FNVHash64
        <5>2. QED
          BY <2>3, <4>1, <5>1
      <4>3. QED
        BY <4>2
    <3>4. QED
      BY <3>2, <3>3
  <2> HIDE DEF D, names
  <2>5. ASSUME NEW d \in D, after[d].whole, names[d] \notin Colliding
        PROVE  DocIn(new, d, EndedWords(CString(after[d].text)))
    <3>1. d # x /\ after[d] = held[d]
      BY <1>6, <2>4, <2>5
    <3>2. QED
      BY <1>5, <2>5, <3>1
  <2>6. \A k \in DOMAIN new : DOMAIN new[k].postings \subseteq D
    BY <1>3, <2>3
  <2>7. QED
    BY <1>3, <1>8, <2>5, <2>6 DEF IndexOK, names, D
<1>9. QED
  BY <1>7, <1>8

(* A function on 1..n is a sequence. *)
LEMMA FunctionIs ==
    ASSUME NEW r, NEW n \in Nat, DOMAIN r = 1..n, r = [k \in 1..n |-> r[k]]
    PROVE  IsSeq(r)
<1> DEFINE S == {r[k] : k \in 1..n}
<1>1. r \in [1..n -> S]
  OBVIOUS
<1> HIDE DEF S
<1>2. r \in Seq(S)
  BY <1>1
<1>3. r \in Seq(ToSet(r))
  BY <1>2 DEF ToSet
<1>4. QED
  BY <1>3 DEF IsSeq

(* Two sequences, one behind the other. *)
LEMMA ConcatIs ==
    ASSUME NEW s, IsSeq(s), NEW r, IsSeq(r)
    PROVE  IsSeq(s \o r)
<1> DEFINE S == ToSet(s) \cup ToSet(r)
           t == s \o r
<1>1. s \in Seq(S) /\ r \in Seq(S)
  BY DEF IsSeq
<1> HIDE DEF S
<1>2. t \in Seq(S)
  BY <1>1
<1> HIDE DEF t
<1>3. t \in Seq(ToSet(t))
  BY <1>2 DEF ToSet
<1>4. QED
  BY <1>3 DEF IsSeq, t

(* There is no index before the crawl; while a file is read, its text and  *)
(* what has been read of it are sequences; the index is that of the        *)
(* documents.                                                              *)
Indexed ==
    /\ pc \in {"start", "failed"} => index = NULL
    /\ pc \in {"open", "read"} => IsSeq(file.text) /\ IsSeq(file.buf) /\ file.size \in Nat
    /\ pc \notin {"start", "failed"} => IndexOK(index, doctable, seen)

(* A step that leaves the tables alone. *)
LEMMA SameTables ==
    ASSUME Indexed, UNCHANGED tables, pc \notin {"start", "failed"}, pc' \notin {"start", "failed"},
           pc' \in {"open", "read"} => IsSeq(file'.text) /\ IsSeq(file'.buf) /\ file'.size \in Nat
    PROVE  Indexed'
<1>1. index' = index /\ doctable' = doctable /\ seen' = seen
  BY DEF tables
<1>2. QED
  BY <1>1 DEF Indexed

(* The tables are allocated. *)
LEMMA IndexedStarts == Indexed /\ CrawlFileTree => Indexed'
<1> SUFFICES ASSUME Indexed, CrawlFileTree
             PROVE  Indexed'
  OBVIOUS
<1>1. CASE pc' = "failed"
  <2>1. index' = index /\ pc = "start"
    BY <1>1 DEF CrawlFileTree, Enter
  <2>2. QED
    BY <1>1, <2>1 DEF Indexed
<1>2. CASE pc' # "failed"
  <2>1. pc' = "scan" /\ index' = MemIndex_Allocate /\ doctable' = DocTable_Allocate
    BY <1>2 DEF CrawlFileTree, Enter
  <2>2. index' = <<>> /\ doctable'.docid_to_docname = <<>>
    BY <2>1 DEF MemIndex_Allocate, DocTable_Allocate
  <2>3. DOMAIN <<>> = {}
    OBVIOUS
  <2>4. IndexOK(index', doctable', seen')
    BY <2>2, <2>3 DEF IndexOK
  <2>5. QED
    BY <2>1, <2>4 DEF Indexed
<1>3. QED
  BY <1>1, <1>2

(* A file is measured, opened and read. *)
LEMMA IndexedReads == Indexed /\ Walk /\ (StatFile \/ OpenFile \/ ReadSome \/ ReadEOF) => Indexed'
<1> SUFFICES ASSUME Indexed, Walk, StatFile \/ OpenFile \/ ReadSome \/ ReadEOF
             PROVE  Indexed'
  OBVIOUS
<1>1. UNCHANGED tables /\ pc \notin {"start", "failed"} /\ pc' \notin {"start", "failed"}
  BY DEF StatFile, OpenFile, ReadSome, ReadEOF, Skip
<1>2. ASSUME pc' \in {"open", "read"}
      PROVE  IsSeq(file'.text) /\ IsSeq(file'.buf) /\ file'.size \in Nat
  <2>1. CASE StatFile
    <3> DEFINE n == Resolve(EntryPath)
    <3>1. /\ IsFile(n)
          /\ file' = [path |-> EntryPath, inode |-> n, size |-> Len(fs[n].data),
                      buf |-> <<>>, text |-> fs[n].data]
      BY <1>2, <2>1 DEF StatFile, Skip
    <3> HIDE DEF n
    <3>2. n \in DOMAIN fs /\ fs[n].type = "file" /\ IsTree(fs)
      BY <3>1 DEF IsFile, Walk
    <3>3. fs[n].data \in Seq(ToSet(fs[n].data))
      BY <3>2 DEF IsTree
    <3>4. IsSeq(fs[n].data) /\ IsSeq(<<>>)
      BY <3>3 DEF IsSeq
    <3>5. Len(fs[n].data) \in Nat
      BY <3>4, SeqIs
    <3>6. QED
      BY <3>1, <3>4, <3>5
  <2>2. CASE OpenFile
    <3>1. pc = "open"
      BY <2>2 DEF OpenFile
    <3>2. PICK n : file' = [file EXCEPT !.inode = n]
      <4>1. \E n : file' = [file EXCEPT !.inode = n]
        BY <1>2, <2>2 DEF OpenFile, Skip
      <4>2. QED
        BY <4>1
    <3>3. file'.text = file.text /\ file'.buf = file.buf /\ file'.size = file.size
      BY <3>2
    <3>4. QED
      BY <3>1, <3>3 DEF Indexed
  <2>3. CASE ReadSome \/ ReadEOF
    <3>1. pc = "read" /\ IsSeq(file.text) /\ IsSeq(file.buf) /\ file.size \in Nat
      BY <2>3 DEF ReadSome, ReadEOF, Indexed
    <3>2. LeftToRead \in Int
      BY <3>1, SeqIs DEF LeftToRead
    <3>3. PICK r : IsSeq(r) /\ file' = [file EXCEPT !.buf = @ \o r]
      <4>1. CASE ReadSome
        <5>1. PICK n \in 1..LeftToRead :
                 file' = [file EXCEPT !.buf = @ \o [k \in 1..n |-> fs[file.inode].data[Len(file.buf) + k]]]
          BY <4>1 DEF ReadSome
        <5> DEFINE r == [k \in 1..n |-> fs[file.inode].data[Len(file.buf) + k]]
        <5>2. n \in Nat
          BY <3>2
        <5>3. DOMAIN r = 1..n /\ r = [k \in 1..n |-> r[k]]
          OBVIOUS
        <5>4. file' = [file EXCEPT !.buf = @ \o r]
          BY <5>1
        <5> HIDE DEF r
        <5>5. IsSeq(r)
          BY <5>2, <5>3, FunctionIs
        <5>6. QED
          BY <5>4, <5>5
      <4>2. CASE ReadEOF
        <5>1. PICK r \in [1..LeftToRead -> Garbage] : file' = [file EXCEPT !.buf = @ \o r]
          BY <4>2 DEF ReadEOF
        <5>2. LeftToRead > 0
          BY <4>2 DEF ReadEOF
        <5>3. DOMAIN r = 1..LeftToRead /\ r = [k \in 1..LeftToRead |-> r[k]]
          BY <5>1
        <5>4. LeftToRead \in Nat
          BY <3>2, <5>2
        <5>5. IsSeq(r)
          BY <5>3, <5>4, FunctionIs
        <5>6. QED
          BY <5>1, <5>5
      <4>3. QED
        BY <2>3, <4>1, <4>2
    <3> DEFINE b == file.buf \o r
    <3>4. file' = [file EXCEPT !.buf = b]
      BY <3>3
    <3>5. IsSeq(b)
      BY <3>1, <3>3, ConcatIs
    <3> HIDE DEF b
    <3>6. file'.text = file.text /\ file'.size = file.size
      BY <3>4
    <3>7. file'.buf \in {b, file.buf}
      BY <3>4
    <3>8. QED
      BY <3>1, <3>5, <3>6, <3>7
  <2>4. QED
    BY <2>1, <2>2, <2>3
<1>3. QED
  BY <1>1, <1>2, SameTables

(* A file that has been read is added to the index, or not. *)
LEMMA IndexedAdds == Counted /\ Ids /\ Walk /\ Indexed /\ IndexFile => Indexed'
<1> SUFFICES ASSUME Counted, Ids, Walk, Indexed, IndexFile
             PROVE  Indexed'
  OBVIOUS
<1>1. pc = "read" /\ pc \in Crawling /\ pc \in Crawling \ {"scan"} /\ pc \notin {"start", "failed"}
  BY IndexFileIs DEF Crawling
<1>2. CASE pc' = "exited" /\ UNCHANGED <<stack, file, tables>>
  BY <1>1, <1>2, SameTables
<1>3. CASE Skip /\ UNCHANGED tables
  <2>1. pc' = "entry"
    BY <1>3 DEF Skip
  <2>2. QED
    BY <1>1, <1>3, <2>1, SameTables
<1>4. CASE /\ Skip
           /\ \E docid : Added(docid, ParseIntoWordPositionsTable(file.buf))
           /\ ParseIntoWordPositionsTable(file.buf) # NULL
  <2> DEFINE P == file.path
             text == CString(file.buf)
             tab == InsertContent(text)
             O == EndedWords(text)
             v == [text |-> file.text, whole |-> file.buf = file.text]
  <2>1. PICK x : Added(x, ParseIntoWordPositionsTable(file.buf))
    BY <1>4
  <2>2. ParseIntoWordPositionsTable(file.buf) = tab
    BY <1>4 DEF ParseIntoWordPositionsTable
  <2>3. IsSeq(file.buf)
    BY <1>1 DEF Indexed
  <2>4. IsSeq(text)
    BY <2>3, CStringIs
  <2>5. /\ x = DocTable_GetDocID(doctable', P)
        /\ doctable' = DocTable_Add(doctable, P)
        /\ index' = AddWords(index, tab, x) /\ index' # Exits
        /\ seen' = Extended(seen, x, v)
    BY <2>1, <2>2 DEF Added
  <2>6. v.whole => O = EndedWords(CString(v.text))
    OBVIOUS
  <2> HIDE DEF v
  <2>7. tab # Exits
    BY <2>5 DEF AddWords
  <2>8. TabIs(tab, O)
    <3> HIDE DEF text
    <3>1. QED
      BY <2>4, <2>7, ContentIs
  <2>9. IsSeq(P) /\ \A d \in DOMAIN doctable.docid_to_docname : Precedes(doctable.docid_to_docname[d], P)
    <3> DEFINE names == doctable.docid_to_docname
    <3>1. Len(stack) >= 1 /\ FramesOK(stack, names, FALSE)
      <4>1. (pc = "scan") = FALSE
        BY <1>1
      <4>2. QED
        BY <1>1, <4>1, TopIs
    <3>2. P = EntryOf(Last(stack)) /\ Len(Last(stack).entries) >= 1
      BY <1>1 DEF Walk, Top
    <3> HIDE DEF names
    <3>3. /\ IsSeq(EntryOf(Last(stack)))
          /\ \A d \in DOMAIN names : Precedes(names[d], EntryOf(Last(stack)))
      BY <3>1, <3>2, EntryAhead
    <3>4. QED
      BY <3>2, <3>3 DEF names
  <2>10. TableOK(doctable, seen) /\ InOrder(doctable.docid_to_docname) /\ IndexOK(index, doctable, seen)
    BY <1>1 DEF Ids, Walk, Indexed
  <2> HIDE DEF P, text, tab, O
  <2> DEFINE u == doctable'
             new == index'
             after == seen'
  <2>11. /\ u = DocTable_Add(doctable, P) /\ x = DocTable_GetDocID(u, P)
         /\ new = AddWords(index, tab, x) /\ new # Exits
         /\ after = Extended(seen, x, v)
    BY <2>5
  <2> HIDE DEF u, new, after
  <2>12. IndexOK(new, u, after)
    BY <2>6, <2>8, <2>9, <2>10, <2>11, IndexAdds
  <2>13. pc' = "entry"
    BY <1>4 DEF Skip
  <2>14. QED
    BY <2>12, <2>13 DEF Indexed, u, new, after
<1>5. QED
  BY <1>2, <1>3, <1>4, IndexFileIs

(* Every step of the program and of the others. *)
LEMMA IndexedStep == Counted /\ Ids /\ Walk /\ Indexed /\ [Next]_vars => Indexed'
<1> SUFFICES ASSUME Counted, Ids, Walk, Indexed, [Next]_vars
             PROVE  Indexed'
  OBVIOUS
<1>1. CASE CrawlFileTree
  BY <1>1, IndexedStarts
<1>2. CASE ReadEntry \/ EndOfDir \/ HandleSubdir \/ Leave \/ ReadError
  <2>1. UNCHANGED tables /\ pc \notin {"start", "failed"} /\ pc' \in {"scan", "entry", "crawled"}
    BY <1>2 DEF ReadEntry, EndOfDir, HandleSubdir, Leave, ReadError, Skip, Enter
  <2>2. QED
    BY <2>1, SameTables
<1>3. CASE StatFile \/ OpenFile \/ ReadSome \/ ReadEOF
  BY <1>3, IndexedReads
<1>4. CASE IndexFile
  BY <1>4, IndexedAdds
<1>5. CASE Change \/ AnswerLine \/ AnswerGarbage \/ UNCHANGED vars
  <2>1. pc' = pc /\ file' = file /\ UNCHANGED tables
    BY <1>5 DEF Change, AnswerLine, AnswerGarbage, vars, crawlVars
  <2>2. index' = index /\ doctable' = doctable /\ seen' = seen
    BY <2>1 DEF tables
  <2>3. QED
    BY <2>1, <2>2 DEF Indexed
<1>6. QED
  BY <1>1, <1>2, <1>3, <1>4, <1>5 DEF Next, Program, Crawl, CrawlStep

-----------------------------------------------------------------------------
(* The index.                                                              *)

(* The invariant that the crawl keeps. *)
CInv == Counted /\ Ids /\ Walk /\ Indexed

(* It holds at the start, and every step keeps it. *)
LEMMA CrawlKeeps == /\ Init => CInv
                    /\ CInv /\ [Next]_vars => CInv'
<1>1. Init => Counted
  <2> SUFFICES ASSUME Init
               PROVE  Counted
    OBVIOUS
  <2>1. stack = <<>> /\ leaked = 0 /\ fds = 0 /\ pc = "start"
    BY DEF Init, CrawlInit
  <2>2. IsSeq(<<>>) /\ Len(<<>>) = 0
    BY DEF IsSeq
  <2>3. 0 \in 0..MaxFds
    BY MaxFdsAssumption
  <2>4. QED
    BY <2>1, <2>2, <2>3 DEF Counted, Crawling
<1>2. Init => Ids /\ Walk /\ Indexed
  BY FileSystemsAssumption DEF Init, CrawlInit, Ids, Walk, Indexed, Crawling
<1>3. CInv /\ [Next]_vars => CInv'
  BY CountedStep, IdsStep, WalkStep, IndexedStep DEF CInv
<1>4. QED
  BY <1>1, <1>2, <1>3 DEF CInv

(* The crawl takes the entries of each directory in the order of strcmp,   *)
(* whatever order readdir has and whatever others do to the directories:   *)
(* every document has a higher id than those whose paths are before its.   *)
THEOREM DocumentOrder == Spec => []OrderExact
<1>1. CInv => OrderExact
  <2> SUFFICES ASSUME CInv, doctable # NULL, NEW d \in Docs, NEW e \in Docs, d < e
               PROVE  Before(doctable.docid_to_docname[d], doctable.docid_to_docname[e])
    BY DEF OrderExact
  <2>1. InOrder(doctable.docid_to_docname)
    BY DEF CInv, Ids, Walk
  <2> DEFINE p == doctable.docid_to_docname[d]
             q == doctable.docid_to_docname[e]
  <2>2. IsSeq(p) /\ IsSeq(q) /\ Precedes(p, q)
    BY <2>1 DEF InOrder, Docs
  <2>3. QED
    BY <2>2, IsBefore
<1>2. QED
  BY <1>1, CrawlKeeps, PTL DEF Spec

(* The postings of a word in a document that is whole. *)
PostingsIn(w, d) == IF d \in DOMAIN PostingsOf(w) THEN PostingsOf(w)[d] ELSE <<>>

(* They are the positions of the word, if the index or the document has it; *)
(* the document is in the word's postings if it has the word.              *)
LEMMA PostingsExact ==
    ASSUME CInv, pc \notin {"start", "failed"}, NEW d \in Docs, Whole(d),
           NEW O, O = EndedWords(CString(seen[d].text)),
           NEW w, w \in {index[k].word : k \in DOMAIN index} \cup {o.word : o \in O}
    PROVE  /\ \/ d \in DOMAIN PostingsOf(w) /\ Lists(PostingsIn(w, d), PositionsIn(O, w))
              \/ d \notin DOMAIN PostingsOf(w) /\ PositionsIn(O, w) = {}
           /\ d \notin DOMAIN PostingsOf(w) => PostingsIn(w, d) = <<>>
<1> DEFINE k == FNVHash64(w)
<1>1. IndexOK(index, doctable, seen)
  BY DEF CInv, Indexed
<1>2. DocIn(index, d, O)
  BY <1>1 DEF IndexOK, Docs, Whole
<1>3. k \in DOMAIN index /\ index[k].word = w
  <2>1. CASE w \in {index[j].word : j \in DOMAIN index}
    <3>1. PICK j \in DOMAIN index : index[j].word = w
      BY <2>1
    <3>2. j = FNVHash64(index[j].word)
      BY <1>1, <3>1 DEF IndexOK
    <3>3. QED
      BY <3>1, <3>2
  <2>2. CASE w \in {o.word : o \in O}
    BY <1>2, <2>2 DEF DocIn
  <2>3. QED
    BY <2>1, <2>2
<1>4. PostingsOf(w) = index[k].postings
  BY <1>3 DEF PostingsOf
<1>5. CASE d \in DOMAIN PostingsOf(w)
  <2> HIDE DEF k
  <2>1. Lists(index[k].postings[d], PositionsIn(O, index[k].word))
    BY <1>2, <1>3, <1>4, <1>5 DEF DocIn
  <2>2. QED
    BY <1>3, <1>4, <1>5, <2>1 DEF PostingsIn
<1>6. CASE d \notin DOMAIN PostingsOf(w)
  <2>1. \A o \in O : o.word # w
    BY <1>2, <1>4, <1>6 DEF DocIn
  <2>2. PositionsIn(O, w) = {}
    BY <2>1 DEF PositionsIn
  <2>3. QED
    BY <1>6, <2>2 DEF PostingsIn
<1>7. QED
  BY <1>5, <1>6

(* Each document's words are in the index as its text has them, through    *)
(* the parser's loop, its hash tables and the loop that moves them, for    *)
(* every text, every file system and every change made by others.          *)
THEOREM IndexCorrect == Spec => []IndexExact
<1>1. CInv => IndexExact
  <2> SUFFICES ASSUME CInv, index # NULL, NEW d \in Docs, Whole(d),
                      NEW O, O = EndedWords(CString(seen[d].text)),
                      NEW w, w \in {index[k].word : k \in DOMAIN index} \cup {o.word : o \in O}
               PROVE  LET positions == IF d \in DOMAIN PostingsOf(w) THEN PostingsOf(w)[d] ELSE <<>>
                      IN  /\ ToSet(positions) = {o.pos : o \in {e \in O : e.word = w}}
                          /\ \A j \in 2..Len(positions) : positions[j - 1] < positions[j]
    BY DEF IndexExact
  <2> DEFINE s == PostingsIn(w, d)
  <2>1. Lists(s, PositionsIn(O, w)) \/ (s = <<>> /\ PositionsIn(O, w) = {})
    <3>1. pc \notin {"start", "failed"}
      BY DEF CInv, Indexed
    <3>2. QED
      BY <3>1, PostingsExact
  <2> HIDE DEF s
  <2>2. ToSet(s) = PositionsIn(O, w) /\ Len(s) \in Nat
    <3>1. ToSet(<<>>) = {} /\ Len(<<>>) = 0
      BY DEF ToSet
    <3>2. QED
      BY <2>1, <3>1, SeqIs DEF Lists
  <2>3. ASSUME NEW j \in 2..Len(s)
        PROVE  s[j - 1] < s[j]
    <3>1. j - 1 \in 1..Len(s) /\ j \in 1..Len(s) /\ j - 1 < j
      BY <2>2
    <3>2. s # <<>>
      <4>1. Len(<<>>) = 0
        OBVIOUS
      <4>2. QED
        BY <3>1, <4>1, <2>2
    <3>3. QED
      BY <2>1, <3>1, <3>2 DEF Lists
  <2>4. QED
    BY <2>2, <2>3 DEF s, PostingsIn, PositionsIn
<1>2. QED
  BY <1>1, CrawlKeeps, PTL DEF Spec

-----------------------------------------------------------------------------
(* The counts of words.                                                    *)

(* A word is in a text as often as it has positions. *)
LEMMA PositionsCount ==
    ASSUME NEW text, NEW w, NEW s, Lists(s, PositionsIn(EndedWords(text), w))
    PROVE  Count(text, w) = Len(s) /\ Len(s) \in Nat /\ Len(s) > 0
<1> DEFINE O == EndedWords(text)
           F == {o \in O : o.word = w}
           n == Len(s)
<1>1. /\ IsSeq(s) /\ ToSet(s) = {o.pos : o \in F} /\ ToSet(s) \subseteq Int /\ ToSet(s) # {}
      /\ \A i, j \in 1..n : i < j => s[i] < s[j]
  BY DEF Lists, PositionsIn
<1>2. n \in Nat /\ DOMAIN s = 1..n
  BY <1>1, SeqIs
<1>3. \A o \in F : o = [word |-> w, pos |-> o.pos]
  BY DEF EndedWords, Occurrence
<1> HIDE DEF O, F, n
<1>4. \A j \in 1..n : s[j] \in {o.pos : o \in F} /\ s[j] \in Int
  BY <1>1, <1>2 DEF ToSet
<1>5. \A x \in {o.pos : o \in F} : \E j \in 1..n : s[j] = x
  BY <1>1, <1>2 DEF ToSet
<1> DEFINE f == [j \in 1..n |-> [word |-> w, pos |-> s[j]]]
<1>6. \A j \in 1..n : f[j] \in F /\ f[j].pos = s[j]
  <2> TAKE j \in 1..n
  <2>1. PICK o \in F : s[j] = o.pos
    BY <1>4
  <2>2. QED
    BY <1>3, <2>1
<1>7. \A i, j \in 1..n : f[i] = f[j] => i = j
  <2>1. ASSUME NEW i \in 1..n, NEW j \in 1..n, i # j
        PROVE  s[i] # s[j]
    <3>1. i < j \/ j < i
      BY <1>2, <2>1
    <3>2. s[i] < s[j] \/ s[j] < s[i]
      BY <1>1, <3>1 DEF n
    <3>3. QED
      BY <1>4, <3>2
  <2>2. QED
    BY <1>6, <2>1
<1>8. \A o \in F : \E j \in 1..n : f[j] = o
  <2> TAKE o \in F
  <2>1. PICK j \in 1..n : s[j] = o.pos
    BY <1>5
  <2>2. QED
    BY <1>3, <2>1
<1>9. f \in Bijection(1..n, F)
  <2>1. f \in [1..n -> F]
    BY <1>6
  <2> HIDE DEF f
  <2>2. f \in Injection(1..n, F)
    BY <1>7, <2>1 DEF Injection, IsInjective
  <2>3. f \in Surjection(1..n, F)
    BY <1>8, <2>1 DEF Surjection
  <2>4. QED
    BY <2>2, <2>3 DEF Bijection
<1>10. IsFiniteSet(1..n) /\ Cardinality(1..n) = n
  <2>1. 1 \in Int /\ n \in Int /\ n \in Nat
    BY <1>2
  <2>2. IsFiniteSet(1..n) /\ Cardinality(1..n) = IF 1 > n THEN 0 ELSE n - 1 + 1
    BY <2>1, FS_Interval, Zenon
  <2>3. QED
    BY <2>1, <2>2
<1>11. ExistsBijection(1..n, F)
  <2> HIDE DEF f
  <2>1. QED
    BY <1>9 DEF ExistsBijection
<1>12. Cardinality(1..n) = Cardinality(F)
  BY <1>10, <1>11, FS_Bijection
<1>13. Count(text, w) = Cardinality(F)
  BY DEF Count, F, O
<1>14. n > 0
  <2>1. PICK x : x \in {o.pos : o \in F}
    BY <1>1
  <2>2. PICK j \in 1..n : s[j] = x
    BY <1>5, <2>1
  <2>3. QED
    BY <1>2, <2>2
<1>15. QED
  BY <1>2, <1>10, <1>12, <1>13, <1>14 DEF n

(* The postings of a word whose hash is its own have the documents with the *)
(* word, of those that are whole, each with as many positions as the text  *)
(* has the word.                                                           *)
PostingsCount(w, d) ==
    LET count == Count(CString(seen[d].text), w)
    IN  /\ count \in Nat
        /\ d \in DOMAIN PostingsOf(w) <=> count > 0
        /\ d \in DOMAIN PostingsOf(w) => Len(PostingsOf(w)[d]) = count

(* They have as many positions as the text has occurrences of the word. *)
LEMMA PostingsCounted ==
    ASSUME CInv, pc \notin {"start", "failed"}, NEW d \in Docs, Whole(d), NEW w, w \notin Colliding
    PROVE  PostingsCount(w, d)
<1> DEFINE text == CString(seen[d].text)
           O == EndedWords(text)
           W == {index[k].word : k \in DOMAIN index} \cup {o.word : o \in O}
<1>1. \/ d \in DOMAIN PostingsOf(w) /\ Lists(PostingsOf(w)[d], PositionsIn(O, w))
      \/ d \notin DOMAIN PostingsOf(w) /\ PositionsIn(O, w) = {}
  <2>1. CASE w \in W
    <3> HIDE DEF O
    <3>1. /\ \/ d \in DOMAIN PostingsOf(w) /\ Lists(PostingsIn(w, d), PositionsIn(O, w))
             \/ d \notin DOMAIN PostingsOf(w) /\ PositionsIn(O, w) = {}
      BY <2>1, PostingsExact DEF O
    <3>2. QED
      BY <3>1 DEF PostingsIn
  <2>2. CASE w \notin W
    <3>1. PositionsIn(O, w) = {}
      BY <2>2 DEF PositionsIn
    <3>2. FNVHash64(w) \notin DOMAIN index
      <4>1. FNVHash64(w) = {w}
        BY DEF FNVHash64
      <4>2. ASSUME {w} \in DOMAIN index
            PROVE  FALSE
        <5> DEFINE v == index[{w}].word
        <5>1. {w} = FNVHash64(v) /\ v \in W
          BY <4>2 DEF CInv, Indexed, IndexOK
        <5>2. v # w
          BY <2>2, <5>1
        <5> HIDE DEF v
        <5>3. CASE v \in Colliding
          <6>1. {w} = Colliding
            BY <5>1, <5>3 DEF FNVHash64
          <6>2. QED
            BY <6>1
        <5>4. CASE v \notin Colliding
          <6>1. {w} = {v}
            BY <5>1, <5>4 DEF FNVHash64
          <6>2. QED
            BY <5>2, <6>1
        <5>5. QED
          BY <5>3, <5>4
      <4>3. QED
        BY <4>1, <4>2
    <3>3. PostingsOf(w) = <<>> /\ DOMAIN <<>> = {}
      BY <3>2 DEF PostingsOf
    <3>4. QED
      BY <3>1, <3>3
  <2>3. QED
    BY <2>1, <2>2
<1>2. CASE d \in DOMAIN PostingsOf(w) /\ Lists(PostingsOf(w)[d], PositionsIn(O, w))
  <2> DEFINE s == PostingsOf(w)[d]
  <2>1. Lists(s, PositionsIn(EndedWords(text), w))
    BY <1>2
  <2> HIDE DEF s, text
  <2>2. Count(text, w) = Len(s) /\ Len(s) \in Nat /\ Len(s) > 0
    BY <2>1, PositionsCount
  <2>3. QED
    BY <1>2, <2>2 DEF PostingsCount, s, text
<1>3. CASE d \notin DOMAIN PostingsOf(w) /\ PositionsIn(O, w) = {}
  <2>1. {o \in O : o.word = w} = {}
    BY <1>3 DEF PositionsIn
  <2>2. Count(text, w) = 0
    <3>1. Count(text, w) = Cardinality({o \in O : o.word = w})
      BY DEF Count
    <3>2. Cardinality({}) = 0
      BY FS_EmptySet
    <3>3. QED
      BY <2>1, <3>1, <3>2
  <2> HIDE DEF text
  <2>3. QED
    BY <1>3, <2>2 DEF PostingsCount, text
<1>4. QED
  BY <1>1, <1>2, <1>3

-----------------------------------------------------------------------------
(* Lists of results.                                                       *)

(* A search result. *)
Result == [docid : Nat, rank : Nat]

(* A list that has each document of H once, with its rank. *)
ResultsAre(results, H, ranks) ==
    /\ results \in Seq(Result)
    /\ \A j \in 1..Len(results) :
          results[j].docid \in H /\ results[j].rank = ranks[results[j].docid]
    /\ \A i, j \in 1..Len(results) : results[i].docid = results[j].docid => i = j
    /\ \A d \in H : \E j \in 1..Len(results) : results[j].docid = d

(* The empty list. *)
LEMMA NoResults == \A ranks : ResultsAre(<<>>, {}, ranks)
<1>1. <<>> \in Seq(Result) /\ Len(<<>>) = 0 /\ 1..0 = {}
  OBVIOUS
<1>2. QED
  BY <1>1 DEF ResultsAre

(* One result more. *)
LEMMA ResultsMore ==
    ASSUME NEW s, NEW H, NEW ranks, ResultsAre(s, H, ranks),
           NEW x \in Result, x.docid \notin H, x.rank = ranks[x.docid]
    PROVE  ResultsAre(Append(s, x), H \cup {x.docid}, ranks)
<1> DEFINE n == Len(s)
           t == Append(s, x)
<1>1. /\ s \in Seq(Result)
      /\ \A j \in 1..n : s[j].docid \in H /\ s[j].rank = ranks[s[j].docid]
      /\ \A i, j \in 1..n : s[i].docid = s[j].docid => i = j
      /\ \A d \in H : \E j \in 1..n : s[j].docid = d
  BY DEF ResultsAre
<1>2. n \in Nat /\ t \in Seq(Result) /\ Len(t) = n + 1 /\ t[n + 1] = x
      /\ \A j \in 1..n : t[j] = s[j]
  BY <1>1
<1> HIDE DEF n, t
<1>3. n + 1 \in 1..(n + 1) /\ (\A j \in 1..(n + 1) : j \in 1..n \/ j = n + 1)
      /\ \A j \in 1..n : j \in 1..(n + 1)
  BY <1>2
<1>4. \A j \in 1..(n + 1) : t[j].docid \in H \cup {x.docid} /\ t[j].rank = ranks[t[j].docid]
  BY <1>1, <1>2, <1>3
<1>5. ASSUME NEW i \in 1..(n + 1), NEW j \in 1..(n + 1), t[i].docid = t[j].docid
      PROVE  i = j
  <2>1. CASE i \in 1..n /\ j \in 1..n
    BY <1>1, <1>2, <1>5, <2>1
  <2>2. CASE i \in 1..n /\ j = n + 1
    <3>1. t[i].docid \in H /\ t[j].docid = x.docid
      BY <1>1, <1>2, <2>2
    <3>2. QED
      BY <1>5, <3>1
  <2>3. CASE i = n + 1 /\ j \in 1..n
    <3>1. t[j].docid \in H /\ t[i].docid = x.docid
      BY <1>1, <1>2, <2>3
    <3>2. QED
      BY <1>5, <3>1
  <2>4. CASE i = n + 1 /\ j = n + 1
    BY <2>4
  <2>5. QED
    BY <1>3, <2>1, <2>2, <2>3, <2>4
<1>6. \A d \in H \cup {x.docid} : \E j \in 1..(n + 1) : t[j].docid = d
  BY <1>1, <1>2, <1>3
<1>7. QED
  BY <1>2, <1>4, <1>5, <1>6 DEF ResultsAre, t

(* The ranks of these documents are all that matters. *)
LEMMA RanksMatter ==
    ASSUME NEW s, NEW H, NEW ranks, ResultsAre(s, H, ranks),
           NEW G, G = H, NEW others, \A d \in H : others[d] = ranks[d]
    PROVE  ResultsAre(s, G, others)
BY DEF ResultsAre

(* The results for one word. *)
LEMMA FirstIs ==
    ASSUME NEW postings, IsFiniteSet(DOMAIN postings), DOMAIN postings \subseteq Nat,
           NEW ranks, \A d \in DOMAIN postings : ranks[d] \in Nat /\ Len(postings[d]) = ranks[d]
    PROVE  ResultsAre(FirstResults(postings), DOMAIN postings, ranks)
<1> DEFINE D == DOMAIN postings
           s == SetToSeq(D)
           n == Len(s)
           t == FirstResults(postings)
<1>1. IsSeq(s) /\ ToSet(s) = D /\ \A i, j \in 1..n : s[i] = s[j] => i = j
  <2> HIDE DEF D
  <2>1. IsFiniteSet(D)
    BY DEF D
  <2>2. QED
    BY <2>1, KeysAre
<1>2. t = [k \in 1..n |-> [docid |-> s[k], rank |-> Len(postings[s[k]])]]
  BY DEF FirstResults
<1> HIDE DEF s, t
<1>3. n \in Nat /\ DOMAIN s = 1..n
  BY <1>1, SeqIs
<1>4. \A k \in 1..n : s[k] \in D
  BY <1>1, <1>3 DEF ToSet
<1>5. \A d \in D : \E k \in 1..n : s[k] = d
  BY <1>1, <1>3 DEF ToSet
<1> HIDE DEF n
<1>6. \A k \in 1..n : t[k] = [docid |-> s[k], rank |-> ranks[s[k]]]
  BY <1>2, <1>4
<1>7. \A k \in 1..n : t[k] \in Result /\ t[k].docid = s[k] /\ t[k].rank = ranks[s[k]]
  <2> TAKE k \in 1..n
  <2>1. s[k] \in Nat /\ ranks[s[k]] \in Nat
    BY <1>4
  <2>2. t[k] = [docid |-> s[k], rank |-> ranks[s[k]]]
    BY <1>6
  <2>3. QED
    BY <2>1, <2>2 DEF Result
<1>8. t \in [1..n -> Result]
  BY <1>2, <1>7
<1>9. t \in Seq(Result) /\ Len(t) = n
  BY <1>3, <1>8
<1>10. ASSUME NEW i \in 1..n, NEW j \in 1..n, t[i].docid = t[j].docid
       PROVE  i = j
  <2>1. s[i] = s[j]
    BY <1>7, <1>10
  <2>2. QED
    BY <1>1, <2>1 DEF n
<1>11. ASSUME NEW d \in D
       PROVE  \E k \in 1..n : t[k].docid = d
  <2>1. PICK k \in 1..n : s[k] = d
    BY <1>5
  <2>2. t[k].docid = d
    BY <1>7, <2>1
  <2>3. QED
    BY <2>2
<1>12. \A k \in 1..n : t[k].docid \in D /\ t[k].rank = ranks[t[k].docid]
  BY <1>4, <1>7
<1>13. ResultsAre(t, D, ranks)
  <2> HIDE DEF D
  <2>1. QED
    BY <1>9, <1>10, <1>11, <1>12 DEF ResultsAre
<1>14. QED
  BY <1>13 DEF t

(* The body of the loop over the results. *)
NarrowStep(postings, left, sr) ==
    IF sr.docid \notin DOMAIN postings THEN left
    ELSE Append(left, [sr EXCEPT !.rank = @ + Len(postings[sr.docid])])

(* h[j] is what the loop has kept of the first j results. *)
IsNarrowed(results, postings, h) ==
    /\ h \in [0..Len(results) -> Seq(Result)]
    /\ h[0] = <<>>
    /\ \A j \in 1..Len(results) : h[j] = NarrowStep(postings, h[j - 1], results[j])
    /\ Narrow(results, postings) = h[Len(results)]

(* The loop is defined by recursion. *)
LEMMA NarrowLoop ==
    ASSUME NEW results \in Seq(Result), NEW postings,
           \A d \in DOMAIN postings : Len(postings[d]) \in Nat
    PROVE  \E h : IsNarrowed(results, postings, h)
<1> DEFINE n == Len(results)
           S == Seq(Result)
           next(j, left) == NarrowStep(postings, left, results[j])
           step == [x \in (1..n) \X S |-> next(x[1], x[2])]
           F(g) == [j \in 0..n |-> IF j = 0 THEN <<>> ELSE next(j, g[j - 1])]
           loop == CHOOSE g : g = F(g)
<1>1. n \in Nat /\ \A j \in 1..n : results[j] \in Result
  OBVIOUS
<1>2. Narrow(results, postings) = loop[n]
  BY DEF Narrow, NarrowStep
<1> HIDE DEF n
<1>3. ASSUME NEW j \in 1..n, NEW left \in S
      PROVE  next(j, left) \in S
  <2> DEFINE sr == results[j]
  <2>1. sr \in Result
    BY <1>1
  <2> HIDE DEF sr
  <2>2. ASSUME sr.docid \in DOMAIN postings
        PROVE  [sr EXCEPT !.rank = @ + Len(postings[sr.docid])] \in Result
    <3> DEFINE c == Len(postings[sr.docid])
    <3>1. c \in Nat
      BY <2>2
    <3> HIDE DEF c
    <3>2. sr = [docid |-> sr.docid, rank |-> sr.rank] /\ sr.docid \in Nat /\ sr.rank \in Nat
      BY <2>1 DEF Result
    <3>3. [sr EXCEPT !.rank = @ + c] = [docid |-> sr.docid, rank |-> sr.rank + c]
      BY <3>2
    <3>4. [sr EXCEPT !.rank = @ + c] \in Result
      BY <3>1, <3>2, <3>3 DEF Result
    <3>5. QED
      BY <3>4 DEF c
  <2>3. NarrowStep(postings, left, sr) \in S
    BY <2>2 DEF NarrowStep
  <2>4. QED
    BY <2>3 DEF sr
<1> HIDE DEF next
<1>4. <<>> \in S
  OBVIOUS
<1> HIDE DEF S
<1>5. step \in [(1..n) \X S -> S]
  BY <1>3
<1>6. PICK h : Shared!Recursion(h, n, S, <<>>, step)
  <2> HIDE DEF step
  <2>1. QED
    BY <1>1, <1>4, <1>5, Shared!RecursionExists, Zenon
<1>7. /\ h \in [0..n -> S] /\ h[0] = <<>>
      /\ \A j \in 1..n : h[j] = step[<<j, h[j - 1]>>]
  BY <1>6 DEF Shared!Recursion
<1>8. \A j \in 1..n : j - 1 \in 0..n /\ h[j - 1] \in S
  BY <1>1, <1>7
<1>9. \A j \in 1..n : h[j] = next(j, h[j - 1])
  BY <1>7, <1>8
<1> HIDE DEF step
<1>10. h = F(h)
  <2>1. ASSUME NEW j \in 0..n
        PROVE  h[j] = IF j = 0 THEN <<>> ELSE next(j, h[j - 1])
    <3>1. j = 0 \/ j \in 1..n
      BY <1>1
    <3>2. QED
      BY <1>7, <1>9, <3>1
  <2>2. QED
    BY <1>7, <2>1
<1>11. loop = F(loop)
  <2> HIDE DEF F
  <2>1. QED
    BY <1>10
<1> HIDE DEF loop
<1>12. /\ DOMAIN loop = 0..n
       /\ \A j \in 0..n : loop[j] = IF j = 0 THEN <<>> ELSE next(j, loop[j - 1])
  BY <1>11
<1>13. \A j \in 1..n : j # 0 /\ j \in 0..n /\ j - 1 \in 0..n
  BY <1>1
<1> DEFINE T == {j \in 0..n : loop[j] = h[j]}
<1>14. \A j \in 0..n : j \in T
  <2>1. 0 \in T
    <3>1. 0 \in 0..n
      BY <1>1
    <3>2. QED
      BY <1>7, <1>12, <3>1
  <2>2. ASSUME NEW j \in 1..n, j - 1 \in T
        PROVE  j \in T
    BY <1>9, <1>12, <1>13, <2>2
  <2> HIDE DEF T
  <2>3. QED
    BY <1>1, <2>1, <2>2, Shared!Induction
<1>15. n \in 0..n
  BY <1>1
<1>16. Narrow(results, postings) = h[n]
  BY <1>2, <1>14, <1>15
<1>17. IsNarrowed(results, postings, h)
  BY <1>7, <1>9, <1>16 DEF IsNarrowed, n, S, next
<1>18. QED
  BY <1>17

(* Another word leaves the documents that have it, with higher ranks. *)
LEMMA NarrowIs ==
    ASSUME NEW results, NEW H, NEW ranks, ResultsAre(results, H, ranks), NEW postings,
           \A d \in DOMAIN postings : Len(postings[d]) \in Nat,
           NEW more, \A d \in H \cap DOMAIN postings : more[d] = ranks[d] + Len(postings[d])
    PROVE  ResultsAre(Narrow(results, postings), H \cap DOMAIN postings, more)
<1> DEFINE n == Len(results)
           D == DOMAIN postings
           K(j) == {results[i].docid : i \in 1..j} \cap D
<1>1. /\ results \in Seq(Result)
      /\ \A j \in 1..n : results[j].docid \in H /\ results[j].rank = ranks[results[j].docid]
      /\ \A i, j \in 1..n : results[i].docid = results[j].docid => i = j
      /\ \A d \in H : \E j \in 1..n : results[j].docid = d
  BY DEF ResultsAre
<1>2. PICK h : IsNarrowed(results, postings, h)
  BY <1>1, NarrowLoop
<1>3. n \in Nat /\ \A j \in 1..n : results[j] \in Result
  BY <1>1
<1>4. /\ h[0] = <<>> /\ Narrow(results, postings) = h[n]
      /\ \A j \in 1..n : h[j] = NarrowStep(postings, h[j - 1], results[j])
  BY <1>2 DEF IsNarrowed
<1> HIDE DEF n, D
<1> DEFINE T == {j \in 0..n : ResultsAre(h[j], K(j), more)}
<1>5. 0 \in T
  <2>1. K(0) = {}
    OBVIOUS
  <2>2. ResultsAre(h[0], K(0), more)
    BY <1>4, <2>1, NoResults
  <2>3. 0 \in 0..n
    BY <1>3
  <2>4. QED
    BY <2>2, <2>3
<1>6. ASSUME NEW j \in 1..n, j - 1 \in T
      PROVE  j \in T
  <2> DEFINE sr == results[j]
             d == sr.docid
  <2>1. /\ sr \in Result /\ d \in H /\ sr.rank = ranks[d] /\ ResultsAre(h[j - 1], K(j - 1), more)
        /\ h[j] = NarrowStep(postings, h[j - 1], sr) /\ j \in 0..n
    BY <1>1, <1>3, <1>4, <1>6 DEF n
  <2>2. \A i \in 1..j : i = j \/ i \in 1..(j - 1)
    BY <1>3
  <2>3. (\A i \in 1..(j - 1) : i \in 1..j /\ i \in 1..n /\ i # j) /\ j \in 1..j
    BY <1>3
  <2>4. d \notin {results[i].docid : i \in 1..(j - 1)}
    <3>1. ASSUME NEW i \in 1..(j - 1)
          PROVE  results[i].docid # d
      <4>1. i \in 1..Len(results) /\ j \in 1..Len(results) /\ i # j
        BY <2>3 DEF n
      <4>2. results[i].docid = results[j].docid => i = j
        BY <1>1, <4>1, Zenon DEF n
      <4>3. QED
        BY <4>1, <4>2
    <3> HIDE DEF d
    <3>2. QED
      BY <3>1, Zenon
  <2>5. {results[i].docid : i \in 1..j} = {results[i].docid : i \in 1..(j - 1)} \cup {d}
    BY <2>2, <2>3
  <2>6. CASE d \notin D
    <3>1. K(j) = K(j - 1)
      BY <2>5, <2>6
    <3>2. h[j] = h[j - 1]
      BY <2>1, <2>6 DEF NarrowStep, D
    <3>3. QED
      BY <2>1, <3>1, <3>2
  <2>7. CASE d \in D
    <3> DEFINE x == [sr EXCEPT !.rank = @ + Len(postings[d])]
    <3>1. K(j) = K(j - 1) \cup {d} /\ d \notin K(j - 1)
      BY <2>4, <2>5, <2>7
    <3>2. h[j] = Append(h[j - 1], x)
      BY <2>1, <2>7 DEF NarrowStep, D
    <3>3. Len(postings[d]) \in Nat
      BY <2>7 DEF D
    <3>4. more[d] = ranks[d] + Len(postings[d])
      BY <2>1, <2>7 DEF D
    <3>5. x \in Result /\ x.docid = d /\ x.rank = more[d]
      <4> HIDE DEF sr
      <4>1. QED
        BY <2>1, <3>3, <3>4 DEF Result
    <3> HIDE DEF x, d, K
    <3>6. x.docid \notin K(j - 1) /\ x.rank = more[x.docid]
      BY <3>1, <3>5
    <3>7. ResultsAre(Append(h[j - 1], x), K(j - 1) \cup {x.docid}, more)
      BY <2>1, <3>5, <3>6, ResultsMore
    <3>8. ResultsAre(h[j], K(j), more)
      BY <3>1, <3>2, <3>5, <3>7
    <3>9. QED
      BY <2>1, <3>8
  <2>8. QED
    BY <2>6, <2>7
<1>7. n \in T
  <2>1. \A j \in 0..n : j \in T
    <3> HIDE DEF T
    <3>1. QED
      BY <1>3, <1>5, <1>6, Shared!Induction
  <2>2. n \in 0..n
    BY <1>3
  <2>3. QED
    BY <2>1, <2>2
<1>8. K(n) = H \cap D
  BY <1>1 DEF n
<1>9. QED
  BY <1>4, <1>7, <1>8 DEF D

(* The results for the first word, and the loop's body for another. *)
FirstOf(mi, w) ==
    IF FNVHash64(w) \in DOMAIN mi THEN FirstResults(mi[FNVHash64(w)].postings) ELSE NULL

SearchStep(mi, results, w) ==
    IF results = NULL \/ FNVHash64(w) \notin DOMAIN mi THEN NULL
    ELSE LET left == Narrow(results, mi[FNVHash64(w)].postings)
         IN  IF left = <<>> THEN NULL ELSE left

(* Postings that a result can be made from. *)
Postable(postings) ==
    /\ IsFiniteSet(DOMAIN postings) /\ DOMAIN postings \subseteq Nat
    /\ \A d \in DOMAIN postings : Len(postings[d]) \in Nat

(* A list of results, or none. *)
Found == Seq(Result) \cup {NULL}

(* h[i] is what is found for the first i + 1 words. *)
IsSearch(mi, q, h) ==
    /\ h \in [0..(Len(q) - 1) -> Found]
    /\ h[0] = FirstOf(mi, q[1])
    /\ \A i \in 1..(Len(q) - 1) : h[i] = SearchStep(mi, h[i - 1], q[i + 1])
    /\ SearchResults(mi, q) = h[Len(q) - 1]

(* The loop over the words is defined by recursion. *)
LEMMA SearchLoop ==
    ASSUME NEW mi, NEW q, q # <<>>, Len(q) \in Nat \ {0},
           \A k \in DOMAIN mi : Postable(mi[k].postings)
    PROVE  \E h : IsSearch(mi, q, h)
<1> DEFINE n == Len(q) - 1
           next(i, results) == SearchStep(mi, results, q[i + 1])
           base == FirstOf(mi, q[1])
           step == [x \in (1..n) \X Found |-> next(x[1], x[2])]
           F(g) == [i \in 0..n |-> IF i > 0 THEN next(i, g[i - 1]) ELSE base]
           loop == CHOOSE g : g = F(g)
<1>1. n \in Nat
  OBVIOUS
<1>2. SearchResults(mi, q) = loop[n]
  BY DEF SearchResults, SearchStep, FirstOf
<1> HIDE DEF n
<1>3. base \in Found
  <2>1. CASE FNVHash64(q[1]) \in DOMAIN mi
    <3> DEFINE P == mi[FNVHash64(q[1])].postings
               ranks == [d \in DOMAIN P |-> Len(P[d])]
    <3>1. Postable(P)
      BY <2>1
    <3> HIDE DEF P
    <3>2. \A d \in DOMAIN P : ranks[d] \in Nat /\ Len(P[d]) = ranks[d]
      BY <3>1 DEF Postable
    <3> HIDE DEF ranks
    <3>3. ResultsAre(FirstResults(P), DOMAIN P, ranks)
      BY <3>1, <3>2, FirstIs DEF Postable
    <3>4. FirstResults(P) \in Seq(Result)
      BY <3>3 DEF ResultsAre
    <3>5. QED
      BY <2>1, <3>4 DEF FirstOf, P, Found
  <2>2. CASE FNVHash64(q[1]) \notin DOMAIN mi
    BY <2>2 DEF FirstOf, Found
  <2>3. QED
    BY <2>1, <2>2
<1>4. ASSUME NEW i \in 1..n, NEW results \in Found
      PROVE  next(i, results) \in Found
  <2> DEFINE w == q[i + 1]
             P == mi[FNVHash64(w)].postings
  <2>1. CASE results = NULL \/ FNVHash64(w) \notin DOMAIN mi
    BY <2>1 DEF SearchStep, Found
  <2>2. CASE results # NULL /\ FNVHash64(w) \in DOMAIN mi
    <3>1. results \in Seq(Result) /\ Postable(P)
      BY <2>2 DEF Found
    <3>2. Narrow(results, P) \in Seq(Result)
      <4> HIDE DEF P
      <4>1. PICK h : IsNarrowed(results, P, h)
        BY <3>1, NarrowLoop DEF Postable
      <4>2. Len(results) \in 0..Len(results)
        BY <3>1
      <4>3. QED
        BY <4>1, <4>2 DEF IsNarrowed
    <3>3. next(i, results) = IF Narrow(results, P) = <<>> THEN NULL ELSE Narrow(results, P)
      BY <2>2 DEF SearchStep
    <3>4. QED
      BY <3>2, <3>3 DEF Found
  <2>3. QED
    BY <2>1, <2>2
<1> HIDE DEF next, base
<1>5. step \in [(1..n) \X Found -> Found]
  BY <1>4
<1>6. PICK h : Shared!Recursion(h, n, Found, base, step)
  <2> HIDE DEF step
  <2>1. QED
    BY <1>1, <1>3, <1>5, Shared!RecursionExists, Zenon
<1>7. /\ h \in [0..n -> Found] /\ h[0] = base
      /\ \A i \in 1..n : h[i] = step[<<i, h[i - 1]>>]
  BY <1>6 DEF Shared!Recursion
<1>8. \A i \in 1..n : i - 1 \in 0..n /\ h[i - 1] \in Found
  BY <1>1, <1>7
<1>9. \A i \in 1..n : h[i] = next(i, h[i - 1])
  BY <1>7, <1>8
<1> HIDE DEF step
<1>10. h = F(h)
  <2>1. ASSUME NEW i \in 0..n
        PROVE  h[i] = IF i > 0 THEN next(i, h[i - 1]) ELSE base
    <3>1. i = 0 \/ (i \in 1..n /\ i > 0)
      BY <1>1
    <3>2. QED
      BY <1>7, <1>9, <3>1
  <2>2. QED
    BY <1>7, <2>1
<1>11. loop = F(loop)
  <2> HIDE DEF F
  <2>1. QED
    BY <1>10
<1> HIDE DEF loop
<1>12. /\ DOMAIN loop = 0..n
       /\ \A i \in 0..n : loop[i] = IF i > 0 THEN next(i, loop[i - 1]) ELSE base
  BY <1>11
<1>13. \A i \in 1..n : i > 0 /\ i \in 0..n /\ i - 1 \in 0..n
  BY <1>1
<1> DEFINE T == {i \in 0..n : loop[i] = h[i]}
<1>14. \A i \in 0..n : i \in T
  <2>1. 0 \in T
    <3>1. 0 \in 0..n /\ ~(0 > 0)
      BY <1>1
    <3>2. QED
      BY <1>7, <1>12, <3>1
  <2>2. ASSUME NEW i \in 1..n, i - 1 \in T
        PROVE  i \in T
    BY <1>9, <1>12, <1>13, <2>2
  <2> HIDE DEF T
  <2>3. QED
    BY <1>1, <2>1, <2>2, Shared!Induction
<1>15. n \in 0..n
  BY <1>1
<1>16. SearchResults(mi, q) = h[n]
  BY <1>2, <1>14, <1>15
<1>17. IsSearch(mi, q, h)
  BY <1>7, <1>9, <1>16 DEF IsSearch, n, next, base
<1>18. QED
  BY <1>17

-----------------------------------------------------------------------------
(* Ranks.                                                                  *)

(* The ranks of a document by the first words of a query. *)
Sums(q, d) ==
    LET count(w) == Count(CString(seen[d].text), w)
        rank[n \in 0..Len(q)] == IF n = 0 THEN 0 ELSE rank[n - 1] + count(q[n])
    IN  rank

(* It adds up the counts. *)
LEMMA SumsAre ==
    ASSUME NEW q, Len(q) \in Nat, NEW d, NEW text, text = CString(seen[d].text),
           \A m \in 1..Len(q) : Count(text, q[m]) \in Nat
    PROVE  /\ Sums(q, d) \in [0..Len(q) -> Nat]
           /\ Sums(q, d)[0] = 0
           /\ \A m \in 1..Len(q) : Sums(q, d)[m] = Sums(q, d)[m - 1] + Count(text, q[m])
<1> DEFINE n == Len(q)
           C(m) == Count(text, q[m])
           step == [x \in (1..n) \X Nat |-> x[2] + C(x[1])]
           F(g) == [m \in 0..n |-> IF m = 0 THEN 0 ELSE g[m - 1] + C(m)]
           sum == CHOOSE g : g = F(g)
<1>1. n \in Nat /\ \A m \in 1..n : C(m) \in Nat
  OBVIOUS
<1>2. Sums(q, d) = sum
  BY DEF Sums
<1> HIDE DEF C, n
<1>3. step \in [(1..n) \X Nat -> Nat]
  BY <1>1
<1>4. PICK h : Shared!Recursion(h, n, Nat, 0, step)
  <2> HIDE DEF step
  <2>1. 0 \in Nat
    OBVIOUS
  <2>2. QED
    BY <1>1, <1>3, <2>1, Shared!RecursionExists, Zenon
<1>5. h \in [0..n -> Nat] /\ h[0] = 0 /\ \A m \in 1..n : h[m] = step[<<m, h[m - 1]>>]
  BY <1>4 DEF Shared!Recursion
<1>6. \A m \in 1..n : m - 1 \in 0..n /\ h[m - 1] \in Nat
  BY <1>1, <1>5
<1>7. \A m \in 1..n : h[m] = h[m - 1] + C(m)
  BY <1>5, <1>6
<1> HIDE DEF step
<1>8. h = F(h)
  <2>1. \A m \in 0..n : m = 0 \/ (m \in 1..n /\ m # 0)
    BY <1>1
  <2>2. ASSUME NEW m \in 0..n
        PROVE  h[m] = IF m = 0 THEN 0 ELSE h[m - 1] + C(m)
    BY <1>5, <1>7, <2>1
  <2>3. QED
    BY <1>5, <2>2
<1>9. sum = F(sum)
  <2> HIDE DEF F
  <2>1. QED
    BY <1>8
<1> HIDE DEF sum
<1>10. sum = [m \in 0..n |-> sum[m]] /\ \A m \in 0..n : sum[m] = IF m = 0 THEN 0 ELSE sum[m - 1] + C(m)
  BY <1>9
<1>11. \A m \in 1..n : m # 0 /\ m \in 0..n /\ m - 1 \in 0..n
  BY <1>1
<1> DEFINE T == {m \in 0..n : sum[m] \in Nat}
<1>12. 0 \in T
  <2>1. 0 \in 0..n /\ 0 \in Nat
    BY <1>1
  <2>2. sum[0] = 0
    BY <1>10, <2>1, Zenon
  <2>3. QED
    BY <2>1, <2>2
<1>13. ASSUME NEW m \in 1..n, m - 1 \in T
       PROVE  m \in T
  <2>1. sum[m] = sum[m - 1] + C(m) /\ m \in 0..n
    BY <1>10, <1>11
  <2>2. QED
    BY <1>1, <1>13, <2>1
<1>14. \A m \in 0..n : m \in T
  <2> HIDE DEF T
  <2>1. QED
    BY <1>1, <1>12, <1>13, Shared!Induction
<1>15. sum \in [0..n -> Nat]
  BY <1>10, <1>14
<1>16. sum[0] = 0 /\ \A m \in 1..n : sum[m] = sum[m - 1] + C(m)
  <2>1. 0 \in 0..n
    BY <1>1
  <2>2. QED
    BY <1>10, <1>11, <2>1
<1>17. QED
  BY <1>2, <1>15, <1>16 DEF C, n

-----------------------------------------------------------------------------
(* What is found.                                                          *)

(* The documents that have the first n words of a query, and their ranks. *)
Hits(q, n) == {d \in Docs : \A m \in 1..n : Count(CString(seen[d].text), q[m]) > 0}
Ranks(q, n) == [d \in Docs |-> Sums(q, d)[n]]

(* The crawl has ended in an index of whole documents; a query for it. *)
Searchable(q) ==
    /\ CInv /\ pc \notin {"start", "failed"}
    /\ \A d \in Docs : Whole(d)
    /\ Len(q) \in Nat \ {0} /\ q # <<>>
    /\ \A m \in 1..Len(q) : q[m] \notin Colliding

(* Postings are of documents, each with a list of positions. *)
LEMMA AllPostable ==
    ASSUME NEW q, Searchable(q)
    PROVE  /\ Docs \subseteq Nat
           /\ \A k \in DOMAIN index :
                 Postable(index[k].postings) /\ DOMAIN index[k].postings \subseteq Docs
<1>1. IndexOK(index, doctable, seen) /\ TableOK(doctable, seen)
  BY DEF Searchable, CInv, Indexed, Ids
<1>2. doctable.max_id - 1 \in Nat /\ Docs = 1..(doctable.max_id - 1)
  BY <1>1 DEF TableOK, Docs
<1>3. IsFiniteSet(Docs) /\ Docs \subseteq Nat
  <2>1. 1 \in Int /\ doctable.max_id - 1 \in Int
    BY <1>2
  <2>2. IsFiniteSet(1..(doctable.max_id - 1))
    BY <2>1, FS_Interval
  <2>3. QED
    BY <1>2, <2>2
<1>4. ASSUME NEW k \in DOMAIN index
      PROVE  Postable(index[k].postings) /\ DOMAIN index[k].postings \subseteq Docs
  <2> DEFINE P == index[k].postings
  <2>1. DOMAIN P \subseteq Docs
    BY <1>1, <1>4 DEF IndexOK, Docs
  <2>2. IsFiniteSet(DOMAIN P)
    BY <1>3, <2>1, FS_Subset
  <2>3. ASSUME NEW d \in DOMAIN P
        PROVE  Len(P[d]) \in Nat
    <3>1. d \in Docs /\ Whole(d)
      BY <2>1 DEF Searchable
    <3>2. DocIn(index, d, EndedWords(CString(seen[d].text)))
      BY <1>1, <3>1 DEF IndexOK, Docs, Whole
    <3>3. IsSeq(P[d])
      BY <1>4, <2>3, <3>2 DEF DocIn, Lists
    <3>4. QED
      BY <3>3, SeqIs
  <2>4. QED
    BY <1>3, <2>1, <2>2, <2>3 DEF Postable
<1>5. QED
  BY <1>3, <1>4

(* One word of the query. *)
LEMMA WordIs ==
    ASSUME NEW q, Searchable(q), NEW m \in 1..Len(q)
    PROVE  /\ DOMAIN PostingsOf(q[m]) \subseteq Docs
           /\ \A d \in Docs : PostingsCount(q[m], d)
           /\ FNVHash64(q[m]) \notin DOMAIN index => DOMAIN PostingsOf(q[m]) = {}
           /\ FNVHash64(q[m]) \in DOMAIN index =>
                 PostingsOf(q[m]) = index[FNVHash64(q[m])].postings
<1>1. FNVHash64(q[m]) \notin DOMAIN index => DOMAIN PostingsOf(q[m]) = {}
  <2>1. DOMAIN <<>> = {}
    OBVIOUS
  <2>2. QED
    BY <2>1 DEF PostingsOf
<1>2. FNVHash64(q[m]) \in DOMAIN index => PostingsOf(q[m]) = index[FNVHash64(q[m])].postings
  BY DEF PostingsOf
<1>3. DOMAIN PostingsOf(q[m]) \subseteq Docs
  BY <1>1, <1>2, AllPostable
<1>4. ASSUME NEW d \in Docs
      PROVE  PostingsCount(q[m], d)
  <2> DEFINE w == q[m]
  <2>1. CInv /\ pc \notin {"start", "failed"} /\ Whole(d) /\ w \notin Colliding
    BY DEF Searchable
  <2> HIDE DEF w
  <2>2. PostingsCount(w, d)
    BY <2>1, PostingsCounted
  <2>3. QED
    BY <2>2 DEF w
<1>5. QED
  BY <1>1, <1>2, <1>3, <1>4

(* One word more takes the documents that it is not in. *)
LEMMA HitsMore ==
    ASSUME NEW q, Searchable(q), NEW n \in 1..Len(q)
    PROVE  /\ Hits(q, n) = Hits(q, n - 1) \cap DOMAIN PostingsOf(q[n])
           /\ \A d \in Hits(q, n) : /\ Ranks(q, n)[d] \in Nat /\ Ranks(q, n - 1)[d] \in Nat
                                    /\ Ranks(q, n)[d] = Ranks(q, n - 1)[d] + Len(PostingsOf(q[n])[d])
                                    /\ Len(PostingsOf(q[n])[d]) \in Nat
           /\ \A d \in Docs : Ranks(q, 0)[d] = 0
<1>1. Len(q) \in Nat
  BY DEF Searchable
<1>2. 1..n = 1..(n - 1) \cup {n} /\ n \in 0..Len(q) /\ n - 1 \in 0..Len(q)
  BY <1>1
<1>3. ASSUME NEW d \in Docs
      PROVE  /\ d \in DOMAIN PostingsOf(q[n]) <=> Count(CString(seen[d].text), q[n]) > 0
             /\ d \in DOMAIN PostingsOf(q[n]) =>
                   Len(PostingsOf(q[n])[d]) = Count(CString(seen[d].text), q[n])
             /\ Count(CString(seen[d].text), q[n]) \in Nat
  <2>1. PostingsCount(q[n], d)
    BY WordIs
  <2>2. QED
    BY <2>1 DEF PostingsCount
<1>4. Hits(q, n) = Hits(q, n - 1) \cap DOMAIN PostingsOf(q[n])
  BY <1>2, <1>3 DEF Hits
<1>5. ASSUME NEW d \in Docs
      PROVE  /\ Ranks(q, n)[d] \in Nat /\ Ranks(q, n - 1)[d] \in Nat
             /\ Ranks(q, n)[d] = Ranks(q, n - 1)[d] + Count(CString(seen[d].text), q[n])
             /\ Ranks(q, 0)[d] = 0
  <2> DEFINE text == CString(seen[d].text)
  <2>1. ASSUME NEW m \in 1..Len(q)
        PROVE  Count(text, q[m]) \in Nat
    <3>1. PostingsCount(q[m], d)
      BY WordIs
    <3>2. QED
      BY <3>1 DEF PostingsCount
  <2> HIDE DEF text
  <2>2. /\ Sums(q, d) \in [0..Len(q) -> Nat]
        /\ Sums(q, d)[0] = 0
        /\ \A m \in 1..Len(q) : Sums(q, d)[m] = Sums(q, d)[m - 1] + Count(text, q[m])
    <3>1. text = CString(seen[d].text)
      BY DEF text
    <3>2. QED
      BY <1>1, <2>1, <3>1, SumsAre
  <2>3. Ranks(q, n)[d] = Sums(q, d)[n] /\ Ranks(q, n - 1)[d] = Sums(q, d)[n - 1]
        /\ Ranks(q, 0)[d] = Sums(q, d)[0]
    BY DEF Ranks
  <2>4. QED
    BY <1>2, <2>2, <2>3 DEF text
<1>6. \A d \in Hits(q, n) : d \in Docs /\ d \in DOMAIN PostingsOf(q[n])
  BY <1>4 DEF Hits
<1>7. QED
  BY <1>3, <1>4, <1>5, <1>6

(* Results, or none, for the first n words. *)
FoundIs(results, q, n) ==
    IF results = NULL THEN Hits(q, n) = {} ELSE ResultsAre(results, Hits(q, n), Ranks(q, n))

(* For the first word. *)
LEMMA FirstFinds ==
    ASSUME NEW q, Searchable(q)
    PROVE  FoundIs(FirstOf(index, q[1]), q, 1)
<1> DEFINE w == q[1]
           P == PostingsOf(w)
           R == Ranks(q, 1)
<1>1. 1 \in 1..Len(q) /\ 1 - 1 = 0 /\ 1..0 = {}
  BY DEF Searchable
<1>2. Hits(q, 0) = Docs
  BY <1>1 DEF Hits
<1>3. Hits(q, 1) = DOMAIN P
  <2>1. Hits(q, 1) = Hits(q, 1 - 1) \cap DOMAIN P
    BY <1>1, HitsMore
  <2>2. DOMAIN P \subseteq Docs
    BY <1>1, WordIs
  <2>3. QED
    BY <1>1, <1>2, <2>1, <2>2
<1>4. CASE FNVHash64(w) \notin DOMAIN index
  <2>1. DOMAIN P = {}
    BY <1>1, <1>4, WordIs
  <2>2. FirstOf(index, w) = NULL
    BY <1>4 DEF FirstOf
  <2>3. QED
    BY <1>3, <2>1, <2>2 DEF FoundIs
<1>5. CASE FNVHash64(w) \in DOMAIN index
  <2>1. P = index[FNVHash64(w)].postings
    BY <1>1, <1>5, WordIs
  <2>2. FirstOf(index, w) = FirstResults(P)
    BY <1>5, <2>1 DEF FirstOf
  <2>3. IsFiniteSet(DOMAIN P) /\ DOMAIN P \subseteq Nat
    <3>1. Postable(index[FNVHash64(w)].postings)
      BY <1>5, AllPostable
    <3>2. QED
      BY <2>1, <3>1 DEF Postable
  <2>4. \A d \in DOMAIN P : R[d] \in Nat /\ Len(P[d]) = R[d]
    <3> SUFFICES ASSUME NEW d \in DOMAIN P
                 PROVE  R[d] \in Nat /\ Len(P[d]) = R[d]
      OBVIOUS
    <3>1. d \in Hits(q, 1) /\ d \in Docs
      BY <1>3 DEF Hits
    <3>2. /\ R[d] \in Nat /\ Ranks(q, 1 - 1)[d] \in Nat
          /\ R[d] = Ranks(q, 1 - 1)[d] + Len(P[d]) /\ Len(P[d]) \in Nat
      BY <1>1, <3>1, HitsMore
    <3>3. Ranks(q, 0)[d] = 0
      BY <1>1, <3>1, HitsMore
    <3>4. QED
      BY <1>1, <3>2, <3>3
  <2>5. ResultsAre(FirstResults(P), DOMAIN P, R)
    <3> HIDE DEF P, R
    <3>1. QED
      BY <2>3, <2>4, FirstIs
  <2>6. FirstResults(P) # NULL
    BY <2>5, NullAssumption DEF ResultsAre, Result
  <2>7. QED
    BY <1>3, <2>2, <2>5, <2>6 DEF FoundIs
<1>6. QED
  BY <1>4, <1>5

(* For one word more. *)
LEMMA StepFinds ==
    ASSUME NEW q, Searchable(q), NEW n \in 1..Len(q), n - 1 \in 1..Len(q),
           NEW results, FoundIs(results, q, n - 1)
    PROVE  FoundIs(SearchStep(index, results, q[n]), q, n)
<1> DEFINE w == q[n]
           P == PostingsOf(w)
           H == Hits(q, n - 1)
           R == Ranks(q, n - 1)
           S == Ranks(q, n)
<1>1. Hits(q, n) = H \cap DOMAIN P
  BY HitsMore
<1>2. CASE results = NULL
  <2>1. SearchStep(index, results, w) = NULL
    BY <1>2 DEF SearchStep
  <2>2. H = {}
    BY <1>2 DEF FoundIs
  <2>3. QED
    BY <1>1, <2>1, <2>2 DEF FoundIs
<1>3. CASE FNVHash64(w) \notin DOMAIN index
  <2>1. SearchStep(index, results, w) = NULL
    BY <1>3 DEF SearchStep
  <2>2. DOMAIN P = {}
    BY <1>3, WordIs
  <2>3. QED
    BY <1>1, <2>1, <2>2 DEF FoundIs
<1>4. CASE results # NULL /\ FNVHash64(w) \in DOMAIN index
  <2> DEFINE left == Narrow(results, P)
  <2>1. P = index[FNVHash64(w)].postings
    BY <1>4, WordIs
  <2>2. SearchStep(index, results, w) = IF left = <<>> THEN NULL ELSE left
    BY <1>4, <2>1 DEF SearchStep
  <2>3. ResultsAre(results, H, R)
    BY <1>4 DEF FoundIs
  <2>4. \A d \in DOMAIN P : Len(P[d]) \in Nat
    <3>1. Postable(index[FNVHash64(w)].postings)
      BY <1>4, AllPostable
    <3>2. QED
      BY <2>1, <3>1 DEF Postable
  <2>5. \A d \in H \cap DOMAIN P : S[d] = R[d] + Len(P[d])
    BY <1>1, HitsMore
  <2>6. ResultsAre(left, H \cap DOMAIN P, S)
    <3> HIDE DEF P, H, R, S
    <3>1. QED
      BY <2>3, <2>4, <2>5, NarrowIs
  <2> HIDE DEF left
  <2>7. ResultsAre(left, Hits(q, n), S)
    BY <1>1, <2>6
  <2>8. CASE left = <<>>
    <3>1. 1..Len(<<>>) = {}
      OBVIOUS
    <3>2. \A d \in Hits(q, n) : \E j \in 1..Len(left) : left[j].docid = d
      BY <2>7 DEF ResultsAre
    <3>3. Hits(q, n) = {}
      BY <2>8, <3>1, <3>2
    <3>4. QED
      BY <2>2, <2>8, <3>3 DEF FoundIs
  <2>9. CASE left # <<>>
    <3>1. left # NULL
      BY <2>7, NullAssumption DEF ResultsAre, Result
    <3>2. QED
      BY <2>2, <2>7, <2>9, <3>1 DEF FoundIs
  <2>10. QED
    BY <2>8, <2>9
<1>5. QED
  BY <1>2, <1>3, <1>4

(* For all words. *)
LEMMA SearchFinds ==
    ASSUME NEW q, Searchable(q)
    PROVE  FoundIs(SearchResults(index, q), q, Len(q))
<1> DEFINE n == Len(q) - 1
<1>1. q # <<>> /\ Len(q) \in Nat \ {0} /\ n \in Nat /\ n + 1 = Len(q) /\ n \in 0..n
  BY DEF Searchable
<1>2. \A k \in DOMAIN index : Postable(index[k].postings)
  BY AllPostable
<1>3. PICK h : IsSearch(index, q, h)
  <2> HIDE DEF n
  <2>1. QED
    BY <1>1, <1>2, SearchLoop
<1>4. /\ h[0] = FirstOf(index, q[1])
      /\ \A i \in 1..n : h[i] = SearchStep(index, h[i - 1], q[i + 1])
      /\ SearchResults(index, q) = h[n]
  BY <1>3 DEF IsSearch
<1>5. \A i \in 1..n : /\ i + 1 \in 1..Len(q) /\ (i + 1) - 1 = i /\ i \in 1..Len(q)
                      /\ i \in 0..n /\ i - 1 \in 0..n /\ (i - 1) + 1 = i
  BY <1>1
<1> HIDE DEF n
<1> DEFINE T == {i \in 0..n : FoundIs(h[i], q, i + 1)}
<1>6. 0 \in T
  <2>1. 0 \in 0..n /\ 0 + 1 = 1
    BY <1>1
  <2>2. FoundIs(h[0], q, 1)
    BY <1>4, FirstFinds
  <2>3. QED
    BY <2>1, <2>2
<1>7. ASSUME NEW i \in 1..n, i - 1 \in T
      PROVE  i \in T
  <2> DEFINE m == i + 1
             r == h[i - 1]
  <2>1. m \in 1..Len(q) /\ m - 1 = i /\ m - 1 \in 1..Len(q) /\ i \in 0..n /\ (i - 1) + 1 = i
    BY <1>5
  <2>2. FoundIs(r, q, m - 1)
    BY <1>7, <2>1
  <2>3. h[i] = SearchStep(index, r, q[m])
    BY <1>4
  <2> HIDE DEF m, r
  <2>4. FoundIs(SearchStep(index, r, q[m]), q, m)
    BY <2>1, <2>2, StepFinds
  <2>5. FoundIs(h[i], q, m)
    BY <2>3, <2>4
  <2>6. QED
    BY <2>1, <2>5 DEF m
<1>8. \A i \in 0..n : i \in T
  <2> HIDE DEF T
  <2>1. QED
    BY <1>1, <1>6, <1>7, Shared!Induction
<1>9. QED
  BY <1>1, <1>4, <1>8

-----------------------------------------------------------------------------
(* What is printed.                                                        *)

(* A result of a higher rank is not behind one of a lower. *)
Best(results) ==
    \A j, k \in 1..Len(results) : j < k => results[j].rank >= results[k].rank

(* Sorting keeps the results, and the best come first. *)
LEMMA SortKeeps ==
    ASSUME NEW rs, NEW H, NEW R, ResultsAre(rs, H, R), NEW sorted \in SortedByRank(rs)
    PROVE  ResultsAre(sorted, H, R) /\ Best(sorted)
<1> DEFINE n == Len(rs)
           I == 1..n
<1>1. /\ rs \in Seq(Result) /\ n \in Nat /\ DOMAIN rs = I
      /\ \A j \in I : rs[j] \in Result /\ rs[j].docid \in H /\ rs[j].rank = R[rs[j].docid]
      /\ \A j, m \in I : rs[j].docid = rs[m].docid => j = m
      /\ \A d \in H : \E j \in I : rs[j].docid = d
  BY DEF ResultsAre
<1>2. PICK p \in [DOMAIN rs -> DOMAIN rs] :
         /\ IsInjective(p)
         /\ sorted = [k \in DOMAIN rs |-> rs[p[k]]]
         /\ \A j, k \in DOMAIN sorted :
               j < k => ~MI_SearchResultComparator(sorted[k], sorted[j])
  BY DEF SortedByRank
<1> HIDE DEF n
<1>3. p \in [I -> I] /\ (\A j, m \in I : p[j] = p[m] => j = m)
      /\ sorted = [k \in I |-> rs[p[k]]]
  BY <1>1, <1>2 DEF IsInjective
<1>4. \A m \in I : \E j \in I : p[j] = m
  <2>1. IsFiniteSet(I)
    <3>1. 1 \in Int /\ n \in Int
      BY <1>1
    <3>2. QED
      BY <3>1, FS_Interval
  <2> HIDE DEF I
  <2>2. p \in Injection(I, I)
    BY <1>3 DEF Injection, IsInjective
  <2>3. p \in Surjection(I, I)
    BY <2>1, <2>2, FS_Injection
  <2>4. QED
    BY <2>3 DEF Surjection
<1>5. sorted \in Seq(Result) /\ Len(sorted) = n /\ DOMAIN sorted = I
      /\ \A j \in I : sorted[j] = rs[p[j]] /\ p[j] \in I /\ sorted[j] \in Result
  <2>1. \A j \in I : p[j] \in I
    <3> HIDE DEF I
    <3>1. QED
      BY <1>3
  <2>2. \A j \in I : sorted[j] = rs[p[j]] /\ sorted[j] \in Result
    <3>1. \A j \in I : rs[p[j]] \in Result
      BY <1>1, <2>1
    <3> HIDE DEF I
    <3>2. \A j \in I : sorted[j] = rs[p[j]]
      BY <1>3, Zenon
    <3>3. QED
      BY <3>1, <3>2
  <2>3. sorted \in [I -> Result]
    <3> HIDE DEF I
    <3>1. QED
      BY <1>3, <2>2
  <2>4. sorted \in Seq(Result) /\ Len(sorted) = n /\ DOMAIN sorted = I
    BY <1>1, <2>3
  <2>5. QED
    BY <2>1, <2>2, <2>4
<1>6. ASSUME NEW j \in I, NEW m \in I, sorted[j].docid = sorted[m].docid
      PROVE  j = m
  <2>1. rs[p[j]].docid = rs[p[m]].docid /\ p[j] \in I /\ p[m] \in I
    BY <1>5, <1>6
  <2>2. p[j] = p[m]
    BY <1>1, <2>1
  <2>3. QED
    BY <1>3, <2>2
<1>7. ASSUME NEW d \in H
      PROVE  \E j \in I : sorted[j].docid = d
  <2>1. PICK m \in I : rs[m].docid = d
    BY <1>1
  <2>2. PICK j \in I : p[j] = m
    BY <1>4
  <2>3. QED
    BY <1>5, <2>1, <2>2
<1>8. ResultsAre(sorted, H, R)
  <2>1. \A j \in I : sorted[j].docid \in H /\ sorted[j].rank = R[sorted[j].docid]
    BY <1>1, <1>5
  <2> HIDE DEF I
  <2>2. 1..Len(sorted) = I
    BY <1>5 DEF I
  <2>3. QED
    BY <1>5, <1>6, <1>7, <2>1, <2>2 DEF ResultsAre
<1>9. Best(sorted)
  <2> SUFFICES ASSUME NEW j \in I, NEW k \in I, j < k
               PROVE  sorted[j].rank >= sorted[k].rank
    BY <1>5 DEF Best
  <2>1. ~(sorted[k].rank > sorted[j].rank)
    BY <1>2, <1>5 DEF MI_SearchResultComparator
  <2>2. sorted[j].rank \in Nat /\ sorted[k].rank \in Nat
    BY <1>5 DEF Result
  <2>3. QED
    BY <2>1, <2>2
<1>10. QED
  BY <1>8, <1>9

(* There are as many results as documents. *)
LEMMA ResultsCount ==
    ASSUME NEW rs, NEW H, NEW R, ResultsAre(rs, H, R)
    PROVE  Len(rs) = Cardinality(H)
<1> DEFINE n == Len(rs)
           I == 1..n
           f == [j \in I |-> rs[j].docid]
<1>1. /\ n \in Nat
      /\ \A j \in I : rs[j].docid \in H
      /\ \A j, m \in I : rs[j].docid = rs[m].docid => j = m
      /\ \A d \in H : \E j \in I : rs[j].docid = d
  BY DEF ResultsAre
<1> HIDE DEF n
<1>2. IsFiniteSet(I) /\ Cardinality(I) = n
  <2>1. 1 \in Int /\ n \in Int /\ n - 1 + 1 = n /\ (1 > n => n = 0)
    BY <1>1
  <2>2. QED
    BY <2>1, FS_Interval
<1> HIDE DEF I
<1>3. f \in Bijection(I, H)
  <2>1. f \in [I -> H]
    BY <1>1
  <2>2. \A j, m \in I : f[j] = f[m] => j = m
    BY <1>1
  <2>3. \A d \in H : \E j \in I : f[j] = d
    BY <1>1
  <2> HIDE DEF f
  <2>4. QED
    BY <2>1, <2>2, <2>3 DEF Bijection, Injection, Surjection, IsInjective
<1>4. ExistsBijection(I, H)
  BY <1>3 DEF ExistsBijection
<1>5. Cardinality(H) = Cardinality(I)
  BY <1>2, <1>4, FS_Bijection
<1>6. QED
  BY <1>2, <1>5 DEF n

(* The lines for some documents, best first. *)
Prints(lines, H, R) ==
    /\ Len(lines) = Cardinality(H)
    /\ ToSet(lines) = {[name |-> doctable.docid_to_docname[d], rank |-> R[d]] : d \in H}
    /\ \A k \in 2..Len(lines) : lines[k - 1].rank >= lines[k].rank

(* Results are printed with the names of their documents. *)
LEMMA PrintIs ==
    ASSUME NEW rs, NEW H, NEW R, ResultsAre(rs, H, R), Best(rs), rs # NULL,
           H \subseteq Docs, NEW lines, lines = PrintOutput(rs)
    PROVE  Prints(lines, H, R)
<1> DEFINE n == Len(rs)
           I == 1..n
           line(j) == [name |-> doctable.docid_to_docname[rs[j].docid], rank |-> rs[j].rank]
<1>1. /\ n \in Nat
      /\ \A j \in I : rs[j].docid \in H /\ rs[j].rank = R[rs[j].docid]
      /\ \A d \in H : \E j \in I : rs[j].docid = d
  BY DEF ResultsAre
<1>2. \A j \in I : DocTable_GetDocName(doctable, rs[j].docid) = doctable.docid_to_docname[rs[j].docid]
  BY <1>1 DEF DocTable_GetDocName, Docs
<1>3. lines = [j \in I |-> line(j)]
  BY <1>2 DEF PrintOutput
<1>4. \A j, k \in I : j < k => rs[j].rank >= rs[k].rank
  BY DEF Best
<1>5. Len(rs) = Cardinality(H)
  BY ResultsCount
<1> HIDE DEF n
<1>6. Len(lines) = n /\ DOMAIN lines = I /\ \A j \in I : lines[j] = line(j)
  <2> HIDE DEF line
  <2>1. QED
    BY <1>1, <1>3
<1>7. ToSet(lines) = {[name |-> doctable.docid_to_docname[d], rank |-> R[d]] : d \in H}
  <2> DEFINE all == {[name |-> doctable.docid_to_docname[d], rank |-> R[d]] : d \in H}
  <2>1. ASSUME NEW x \in ToSet(lines)
        PROVE  x \in all
    <3>1. PICK j \in I : x = lines[j]
      BY <1>6 DEF ToSet
    <3>2. x = [name |-> doctable.docid_to_docname[rs[j].docid], rank |-> R[rs[j].docid]]
      BY <1>1, <1>6, <3>1
    <3>3. QED
      BY <1>1, <3>2
  <2>2. ASSUME NEW x \in all
        PROVE  x \in ToSet(lines)
    <3>1. PICK d \in H : x = [name |-> doctable.docid_to_docname[d], rank |-> R[d]]
      OBVIOUS
    <3>2. PICK j \in I : rs[j].docid = d
      BY <1>1
    <3>3. x = lines[j]
      BY <1>1, <1>6, <3>1, <3>2
    <3>4. QED
      BY <1>6, <3>3 DEF ToSet
  <2>3. QED
    BY <2>1, <2>2
<1>8. ASSUME NEW k \in 2..n
      PROVE  lines[k - 1].rank >= lines[k].rank
  <2>1. k - 1 \in I /\ k \in I /\ k - 1 < k
    BY <1>1
  <2>2. rs[k - 1].rank >= rs[k].rank
    BY <1>4, <2>1
  <2>3. QED
    BY <1>6, <2>1, <2>2
<1>9. QED
  BY <1>5, <1>6, <1>7, <1>8 DEF Prints, n

(* No results are printed as no lines. *)
LEMMA PrintNone ==
    ASSUME NEW H, H = {}, NEW R, NEW lines, lines = PrintOutput(NULL)
    PROVE  Prints(lines, H, R)
<1>1. lines = <<>>
  BY DEF PrintOutput
<1>2. Len(<<>>) = 0 /\ ToSet(<<>>) = {} /\ 2..0 = {}
  BY DEF ToSet
<1>3. Cardinality({}) = 0
  BY FS_EmptySet
<1>4. QED
  BY <1>1, <1>2, <1>3 DEF Prints

(* A search prints what it finds. *)
LEMMA SearchPrints ==
    ASSUME NEW q, Searchable(q), NEW results \in MemIndex_Search(index, q),
           NEW lines, lines = PrintOutput(results)
    PROVE  Prints(lines, Hits(q, Len(q)), Ranks(q, Len(q)))
<1> DEFINE r == SearchResults(index, q)
           H == Hits(q, Len(q))
           R == Ranks(q, Len(q))
<1>1. IF r = NULL THEN H = {} ELSE ResultsAre(r, H, R)
  BY SearchFinds DEF FoundIs
<1>2. H \subseteq Docs
  BY DEF Hits
<1>3. results \in IF r = NULL THEN {NULL} ELSE SortedByRank(r)
  BY DEF MemIndex_Search
<1> HIDE DEF r, H, R
<1>4. CASE r = NULL
  <2>1. H = {} /\ lines = PrintOutput(NULL)
    BY <1>1, <1>3, <1>4
  <2>2. Prints(lines, H, R)
    BY <2>1, PrintNone
  <2>3. QED
    BY <2>2 DEF H, R
<1>5. CASE r # NULL
  <2>1. ResultsAre(r, H, R) /\ results \in SortedByRank(r)
    BY <1>1, <1>3, <1>5
  <2>2. ResultsAre(results, H, R) /\ Best(results)
    BY <2>1, SortKeeps
  <2>3. results # NULL
    BY <2>2, NullAssumption DEF ResultsAre, Result
  <2>4. Prints(lines, H, R)
    BY <1>2, <2>2, <2>3, PrintIs
  <2>5. QED
    BY <2>4 DEF H, R
<1>6. QED
  BY <1>4, <1>5

-----------------------------------------------------------------------------
(* The answer on the screen.                                               *)

(* Elements of some set, one after another, are a sequence. *)
LEMMA AnySeq ==
    ASSUME NEW S, NEW s \in Seq(S)
    PROVE  IsSeq(s)
BY DEF IsSeq, ToSet

(* The words of a line are a sequence. *)
LEMMA TokensAre ==
    ASSUME NEW line, IsSeq(line)
    PROVE  IsSeq(Tokens(line))
<1> DEFINE starts == {k \in 1..Len(line) : line[k] # " " /\ (k = 1 \/ line[k - 1] = " ")}
           n == Cardinality(starts)
<1>1. n \in Nat
  <2>1. 1 \in Int /\ Len(line) \in Int
    BY SeqIs
  <2>2. IsFiniteSet(1..Len(line))
    BY <2>1, FS_Interval
  <2>3. IsFiniteSet(starts)
    <3>1. starts \subseteq 1..Len(line)
      OBVIOUS
    <3> HIDE DEF starts
    <3>2. QED
      BY <2>2, <3>1, FS_Subset
  <2> HIDE DEF starts
  <2>4. QED
    BY <2>3, FS_CardinalityType
<1>2. PICK word : Tokens(line) = [i \in 1..n |-> word[i]]
  <2> DEFINE start(i) == CHOOSE k \in starts : Cardinality({m \in starts : m <= k}) = i
             end(k) == Max({m \in k..Len(line) : \A i \in k..m : line[i] # " "})
             piece(i) == SubSeq(line, start(i), end(start(i)))
             word == [i \in 1..n |-> piece(i)]
  <2>1. Tokens(line) = word
    BY DEF Tokens
  <2> HIDE DEF piece, n
  <2>2. word = [i \in 1..n |-> word[i]]
    OBVIOUS
  <2>3. QED
    BY <2>1, <2>2
<1> DEFINE r == Tokens(line)
<1>3. DOMAIN r = 1..n /\ r = [k \in 1..n |-> r[k]]
  <2> HIDE DEF n
  <2>1. QED
    BY <1>2
<1> HIDE DEF n, r
<1>4. IsSeq(r)
  BY <1>1, <1>3, FunctionIs
<1>5. QED
  BY <1>4 DEF r

(* The lines that are left are sequences. *)
Lines(lines) == IsSeq(lines) /\ \A j \in 1..Len(lines) : IsSeq(lines[j])

(* One is read, or a part of it. *)
LEMMA LineIs ==
    ASSUME Lines(input), AnswerLine
    PROVE  /\ \E line : IsSeq(line) /\ Answer(Tokens(line))
           /\ Lines(input')
<1> DEFINE line == Head(input)
           m == Min({LineMax, Len(line)})
           read == SubSeq(line, 1, m)
           rest == SubSeq(line, Len(read) + 1, Len(line))
<1>1. /\ input # <<>>
      /\ Answer(Tokens(read))
      /\ input' = IF Len(line) >= LineMax THEN <<rest>> \o Tail(input) ELSE Tail(input)
  BY DEF AnswerLine
<1>2. IsSeq(input) /\ Len(input) \in Nat /\ Len(input) >= 1
  BY <1>1, SeqIs DEF Lines
<1>3. IsSeq(line)
  BY <1>2 DEF Lines, IsSeq
<1>4. Len(line) \in Nat /\ line \in Seq(ToSet(line))
  BY <1>3, SeqIs DEF IsSeq
<1>5. m \in Nat /\ m <= Len(line)
  <2> DEFINE both == {LineMax, Len(line)}
  <2>1. both \subseteq Nat /\ both # {} /\ Len(line) \in both
    BY <1>4, InputAssumption
  <2> HIDE DEF both
  <2>2. Shared!Min(both) \in both /\ \A y \in both : Shared!Min(both) <= y
    BY <2>1, Shared!MinIs
  <2>3. Min(both) = Shared!Min(both)
    BY DEF Min, Shared!Min
  <2>4. QED
    BY <2>1, <2>2, <2>3 DEF both
<1> HIDE DEF line, m
<1>6. IsSeq(read) /\ Len(read) = m
  <2>1. read \in Seq(ToSet(line)) /\ Len(read) = m
    BY <1>4, <1>5
  <2> HIDE DEF read
  <2>2. QED
    BY <2>1, AnySeq
<1>7. IsSeq(rest)
  <2>1. rest \in Seq(ToSet(line))
    BY <1>4, <1>5, <1>6
  <2> HIDE DEF rest
  <2>2. QED
    BY <2>1, AnySeq
<1> HIDE DEF read, rest
<1>8. /\ IsSeq(Tail(input)) /\ Len(Tail(input)) = Len(input) - 1
      /\ \A j \in 1..Len(Tail(input)) : Tail(input)[j] = input[j + 1] /\ j + 1 \in 1..Len(input)
  <2>1. IsSeq(Tail(input)) /\ Len(Tail(input)) = Len(input) - 1
    BY <1>2, TailIs
  <2>2. \A j \in 1..(Len(input) - 1) : Tail(input)[j] = input[j + 1]
    BY <1>2, TailIs
  <2>3. \A j \in 1..(Len(input) - 1) : j + 1 \in 1..Len(input)
    BY <1>2
  <2>4. QED
    BY <2>1, <2>2, <2>3
<1>9. Lines(Tail(input))
  BY <1>8 DEF Lines
<1>10. Lines(<<rest>> \o Tail(input))
  <2> DEFINE t == Tail(input)
             S == {rest} \cup ToSet(t)
             c == <<rest>> \o t
  <2>1. t \in Seq(ToSet(t)) /\ Len(t) \in Nat
    BY <1>8, SeqIs DEF IsSeq
  <2> HIDE DEF t
  <2>2. <<rest>> \in Seq(S) /\ t \in Seq(S) /\ Len(<<rest>>) = 1 /\ <<rest>>[1] = rest
    BY <2>1
  <2>3. c \in Seq(S) /\ Len(c) = 1 + Len(t) /\ c[1] = rest
        /\ \A j \in 2..Len(c) : c[j] = t[j - 1] /\ j - 1 \in 1..Len(t)
    BY <2>1, <2>2
  <2> HIDE DEF c
  <2>4. IsSeq(c)
    BY <2>3, AnySeq
  <2>5. \A j \in 1..Len(c) : j = 1 \/ j \in 2..Len(c)
    BY <2>1, <2>3
  <2>6. \A j \in 1..Len(c) : IsSeq(c[j])
    BY <1>7, <1>9, <2>3, <2>5 DEF Lines, t
  <2>7. QED
    BY <2>4, <2>6 DEF Lines, c, t
<1>11. Lines(input')
  BY <1>1, <1>9, <1>10
<1>12. QED
  BY <1>1, <1>6, <1>11

(* What was printed is the outcome of a search for the query. *)
Shown == \E results \in MemIndex_Search(index, query) : answer = PrintOutput(results)

(* Only the loop over lines answers; its last answer is on the screen. *)
Answered ==
    /\ Lines(input) /\ IsSeq(query)
    /\ pc # "crawled" => query = <<>>
    /\ pc = "crawled" /\ query # <<>> => Shown

(* An answer to a line or to what is in the buffer. *)
LEMMA AnswerShown ==
    ASSUME pc = "crawled", UNCHANGED crawlVars, NEW line, IsSeq(line), Answer(Tokens(line)),
           Lines(input')
    PROVE  Answered'
<1>1. pc' = pc /\ index' = index /\ doctable' = doctable
  BY DEF crawlVars, tables
<1>2. PICK results \in MemIndex_Search(index, Tokens(line)) :
         query' = Tokens(line) /\ answer' = PrintOutput(results)
  BY DEF Answer
<1>3. PrintOutput(results)' = PrintOutput(results)
  BY <1>1 DEF PrintOutput
<1>4. Shown'
  <2>1. MemIndex_Search(index, query)' = MemIndex_Search(index, Tokens(line))
    BY <1>1, <1>2
  <2>2. QED
    BY <1>2, <1>3, <2>1 DEF Shown, PrintOutput
<1>5. IsSeq(query')
  BY <1>2, TokensAre
<1>6. QED
  BY <1>1, <1>4, <1>5 DEF Answered

(* Every step keeps it. *)
LEMMA AnsweredStep == Answered /\ [Next]_vars => Answered'
<1> SUFFICES ASSUME Answered, [Next]_vars
             PROVE  Answered'
  OBVIOUS
<1>1. CASE Crawl
  <2>1. UNCHANGED shellVars /\ pc # "crawled"
    BY <1>1 DEF Crawl, CrawlStep, CrawlFileTree, ReadEntry, EndOfDir, HandleSubdir, Leave,
                StatFile, OpenFile, ReadSome, ReadEOF, IndexFile
  <2>2. query = <<>> /\ query' = query /\ input' = input
    BY <2>1 DEF Answered, shellVars
  <2>3. QED
    BY <2>2 DEF Answered
<1>2. CASE AnswerLine
  <2>1. pc = "crawled" /\ UNCHANGED crawlVars
    BY <1>2 DEF AnswerLine
  <2>2. Lines(input)
    BY DEF Answered
  <2>3. (\E line : IsSeq(line) /\ Answer(Tokens(line))) /\ Lines(input')
    BY <1>2, <2>2, LineIs
  <2>4. PICK line : IsSeq(line) /\ Answer(Tokens(line))
    BY <2>3
  <2>5. QED
    BY <2>1, <2>3, <2>4, AnswerShown
<1>3. CASE AnswerGarbage
  <2>1. pc = "crawled" /\ UNCHANGED crawlVars /\ input' = input
    BY <1>3 DEF AnswerGarbage
  <2>2. PICK buf \in [1..LineMax -> Garbage] : Answer(Tokens(CString(buf)))
    BY <1>3 DEF AnswerGarbage
  <2>3. IsSeq(buf)
    <3>1. LineMax \in Nat /\ DOMAIN buf = 1..LineMax /\ buf = [k \in 1..LineMax |-> buf[k]]
      BY InputAssumption
    <3>2. QED
      BY <3>1, FunctionIs
  <2>4. IsSeq(CString(buf))
    BY <2>3, CStringIs
  <2>5. Lines(input')
    BY <2>1 DEF Answered
  <2>6. QED
    BY <2>1, <2>2, <2>4, <2>5, AnswerShown
<1>4. CASE ReadError /\ UNCHANGED shellVars
  <2>1. pc # "crawled"
    BY <1>4 DEF ReadError
  <2>2. query = <<>> /\ query' = query /\ input' = input
    BY <1>4, <2>1 DEF Answered, shellVars
  <2>3. QED
    BY <2>2 DEF Answered
<1>5. CASE Change /\ UNCHANGED shellVars
  <2>1. pc # "crawled"
    BY <1>5 DEF Change
  <2>2. query = <<>> /\ query' = query /\ input' = input
    BY <1>5, <2>1 DEF Answered, shellVars
  <2>3. QED
    BY <2>2 DEF Answered
<1>6. CASE UNCHANGED vars
  <2>1. UNCHANGED <<pc, index, doctable, input, query, answer>>
    BY <1>6 DEF vars, crawlVars, shellVars, tables
  <2>2. Shown => Shown'
    BY <2>1 DEF Shown, PrintOutput
  <2>3. QED
    BY <2>1, <2>2 DEF Answered
<1>7. QED
  BY <1>1, <1>2, <1>3, <1>4, <1>5, <1>6 DEF Next, Program

(* Nothing has been asked at first. *)
LEMMA AnsweredStarts == Init => Answered
<1> SUFFICES ASSUME Init
             PROVE  Answered
  OBVIOUS
<1>1. query = <<>> /\ input = Input
  BY DEF Init
<1>2. IsSeq(<<>>)
  BY DEF IsSeq
<1>3. Lines(Input)
  <2>1. IsSeq(Input)
    BY InputAssumption DEF IsSeq
  <2>2. \A j \in 1..Len(Input) : Input[j] \in ToSet(Input)
    BY <2>1, SeqIs DEF ToSet
  <2>3. QED
    BY <2>1, <2>2, InputAssumption DEF Lines, IsSeq
<1>4. QED
  BY <1>1, <1>2, <1>3 DEF Answered

(* The shell prints, for each query, each document that has all its words  *)
(* once, with as many as it has of them, best first, for any files, any    *)
(* input, any changes that leave the documents whole, and whatever order   *)
(* the tables and the sort give to results of the same rank.               *)
THEOREM ShellAnswers == Spec => []AnswersExact
<1>1. CInv /\ Answered => AnswersExact
  <2> SUFFICES ASSUME CInv, Answered, pc = "crawled", query # <<>>, \A d \in Docs : Whole(d),
                      ToSet(query) \cap Colliding = {}
               PROVE  LET hits == {d \in Docs : \A w \in ToSet(query) : Count(CString(seen[d].text), w) > 0}
                      IN  /\ Len(answer) = Cardinality(hits)
                          /\ ToSet(answer) = {[name |-> doctable.docid_to_docname[d], rank |-> Rank(d)] : d \in hits}
                          /\ \A k \in 2..Len(answer) : answer[k - 1].rank >= answer[k].rank
    BY DEF AnswersExact
  <2> DEFINE n == Len(query)
             hits == {d \in Docs : \A w \in ToSet(query) : Count(CString(seen[d].text), w) > 0}
             H == Hits(query, n)
             R == Ranks(query, n)
  <2>1. n \in Nat \ {0} /\ DOMAIN query = 1..n
    BY SeqIs DEF Answered
  <2>2. ToSet(query) = {query[m] : m \in 1..n}
    BY <2>1 DEF ToSet
  <2>3. Searchable(query)
    BY <2>1, <2>2 DEF Searchable
  <2>4. PICK results \in MemIndex_Search(index, query) : answer = PrintOutput(results)
    BY DEF Answered, Shown
  <2>5. Prints(answer, H, R)
    BY <2>3, <2>4, SearchPrints
  <2>6. hits = H
    BY <2>2 DEF Hits
  <2>7. \A d \in H : R[d] = Rank(d)
    <3>1. \A d \in Docs : R[d] = Sums(query, d)[n]
      BY DEF Ranks
    <3>2. \A d : Rank(d) = Sums(query, d)[n]
      BY DEF Rank, Sums
    <3>3. QED
      BY <3>1, <3>2 DEF Hits
  <2> HIDE DEF hits, H, R
  <2>8. ToSet(answer) = {[name |-> doctable.docid_to_docname[d], rank |-> Rank(d)] : d \in hits}
    BY <2>5, <2>6, <2>7 DEF Prints
  <2>9. Len(answer) = Cardinality(hits) /\ \A k \in 2..Len(answer) : answer[k - 1].rank >= answer[k].rank
    BY <2>5, <2>6 DEF Prints
  <2>10. QED
    BY <2>8, <2>9 DEF hits
<1>2. QED
  BY <1>1, CrawlKeeps, AnsweredStarts, AnsweredStep, PTL DEF Spec
=============================================================================
