------------------------ MODULE ProcessRequestProofs ------------------------
(***************************************************************************)
(* The FILEs of QueryProcessor, under both of its customers, for any index *)
(* files, requests and sizes of buffers.                                   *)
(***************************************************************************)
EXTENDS ProcessRequest, SharedLemmas

-----------------------------------------------------------------------------
(* Which FILEs are open.                                                   *)

(* At least one index file, and the constructor or the query is at one. *)
Listed ==
    /\ Len(indexlist) \in Nat
    /\ DOMAIN indexlist = 1..Len(indexlist)
    /\ i \in 1..Len(indexlist)

(* Besides the readers there is at most one FILE. *)
OneMore == \E name \in {"file", "postings"} : Opened \subseteq Readers \cup {<<i, name>>}

(* Where the QueryProcessor is while the process runs. *)
Places ==
    {"fopen", "header", "doctable", "indextable", "fclose", "ready", "lookup",
     "found?", "list", "combine", "documents", "sort", "destroyed"}

(* There it has the FILEs open that DescriptorsKept says; Verify333 may    *)
(* have ended the process with one more.                                   *)
Kept ==
    /\ Listed
    /\ pc \in Places => Opened = OpenFiles
    /\ pc \notin Places => pc = "exited" /\ OneMore

(* The open FILEs, by where the QueryProcessor is. *)
OpenFilesAre ==
    /\ pc = "fopen" => OpenFiles = FinishedReaders(i - 1)
    /\ pc \in {"header", "doctable"} => OpenFiles = FinishedReaders(i - 1) \cup {<<i, "file">>}
    /\ pc = "indextable" =>
          OpenFiles = FinishedReaders(i - 1) \cup {<<i, "file">>, <<i, "doctable">>}
    /\ pc = "fclose" =>
          OpenFiles = FinishedReaders(i - 1)
                         \cup {<<i, "file">>, <<i, "doctable">>, <<i, "indextable">>}
    /\ pc \in {"list", "combine"} => OpenFiles = Readers \cup {<<i, "postings">>}
    /\ pc \in {"ready", "lookup", "found?", "documents", "sort"} => OpenFiles = Readers
    /\ pc = "destroyed" => OpenFiles = {}

(* That is what OpenFiles says. *)
LEMMA OpenFilesIs == OpenFilesAre
<1>1. pc = "fopen" => OpenFiles = FinishedReaders(i - 1)
  BY DEF OpenFiles
<1>2. pc \in {"header", "doctable"} => OpenFiles = FinishedReaders(i - 1) \cup {<<i, "file">>}
  BY DEF OpenFiles
<1>3. pc = "indextable" =>
          OpenFiles = FinishedReaders(i - 1) \cup {<<i, "file">>, <<i, "doctable">>}
  BY DEF OpenFiles
<1>4. pc = "fclose" =>
          OpenFiles = FinishedReaders(i - 1)
                         \cup {<<i, "file">>, <<i, "doctable">>, <<i, "indextable">>}
  BY DEF OpenFiles
<1>5. pc \in {"list", "combine"} => OpenFiles = Readers \cup {<<i, "postings">>}
  BY DEF OpenFiles
<1>6. pc \in {"ready", "lookup", "found?", "documents", "sort"} => OpenFiles = Readers
  BY DEF OpenFiles
<1>7. pc = "destroyed" => OpenFiles = {}
  BY DEF OpenFiles
<1>8. QED
  BY <1>1, <1>2, <1>3, <1>4, <1>5, <1>6, <1>7 DEF OpenFilesAre

(* What the constructor has finished with is among the readers, and once   *)
(* it is through, it is all of them.                                       *)
LEMMA Finished ==
    ASSUME Listed
    PROVE  /\ FinishedReaders(i) = FinishedReaders(i - 1) \cup {<<i, "doctable">>, <<i, "indextable">>}
           /\ FinishedReaders(0) = {}
           /\ FinishedReaders(i - 1) \subseteq Readers
           /\ FinishedReaders(i) \subseteq Readers
           /\ i = Len(indexlist) => FinishedReaders(i) = Readers
           /\ \A n : /\ <<n, "file">> \notin Readers /\ <<n, "postings">> \notin Readers
                     /\ <<n, "file">> \notin FinishedReaders(i)
           /\ <<i, "doctable">> \in Readers /\ <<i, "indextable">> \in Readers
<1>1. 1..i = 1..(i - 1) \cup {i} /\ 1..0 = {} /\ 1..i \subseteq 1..Len(indexlist)
  BY DEF Listed
<1>2. FinishedReaders(i) = FinishedReaders(i - 1) \cup {<<i, "doctable">>, <<i, "indextable">>}
  BY <1>1 DEF FinishedReaders
<1>3. FinishedReaders(0) = {}
  BY <1>1 DEF FinishedReaders
<1>4. FinishedReaders(i) \subseteq Readers
  BY <1>1 DEF FinishedReaders, Readers, Listed
<1>5. i = Len(indexlist) => FinishedReaders(i) = Readers
  BY DEF FinishedReaders, Readers, Listed
<1>6. \A n : /\ <<n, "file">> \notin Readers /\ <<n, "postings">> \notin Readers
             /\ <<n, "file">> \notin FinishedReaders(i)
  BY DEF FinishedReaders, Readers
<1>7. <<i, "doctable">> \in Readers /\ <<i, "indextable">> \in Readers
  BY DEF Readers, Listed
<1>8. QED
  BY <1>2, <1>3, <1>4, <1>5, <1>6, <1>7

(* Whatever is open at a place of the code is the readers and one more. *)
LEMMA OneMoreIs ==
    ASSUME Kept
    PROVE  OneMore
<1>0. CASE pc \notin Places
  BY <1>0 DEF Kept
<1>1. CASE pc \in {"list", "combine"}
  BY <1>1, OpenFilesIs DEF OneMore, OpenFilesAre, Kept, Places
<1>2. CASE pc \in {"ready", "lookup", "found?", "documents", "sort", "destroyed"}
  BY <1>2, OpenFilesIs DEF OneMore, OpenFilesAre, Kept, Places
<1>3. CASE pc \in {"fopen", "header", "doctable", "indextable", "fclose"}
  <2>1. Opened \subseteq Readers \cup {<<i, "file">>}
    BY <1>3, OpenFilesIs, Finished DEF OpenFilesAre, Kept, Places
  <2>2. QED
    BY <2>1 DEF OneMore
<1>4. QED
  BY <1>0, <1>1, <1>2, <1>3 DEF Places

(* So many descriptors can be counted. *)
LEMMA OneMoreCounts ==
    ASSUME Listed, OneMore
    PROVE  Cardinality(Opened) <= 2 * Len(indexlist) + 1
<1> DEFINE n == Len(indexlist)
           names == {"doctable", "indextable"}
<1>1. IsFiniteSet(1..n) /\ Cardinality(1..n) = n
  <2>1. 1 \in Int /\ n \in Int /\ n \in Nat
    BY DEF Listed
  <2>2. IsFiniteSet(1..n) /\ Cardinality(1..n) = IF 1 > n THEN 0 ELSE n - 1 + 1
    BY <2>1, FS_Interval, Zenon
  <2>3. QED
    BY <2>1, <2>2
<1>2. IsFiniteSet(names) /\ Cardinality(names) = 2
  <2>1. IsFiniteSet({"doctable"}) /\ Cardinality({"doctable"}) = 1
    BY FS_Singleton, Zenon
  <2>2. names = {"doctable"} \cup {"indextable"} /\ "indextable" \notin {"doctable"}
    OBVIOUS
  <2>3. /\ IsFiniteSet({"doctable"} \cup {"indextable"})
        /\ Cardinality({"doctable"} \cup {"indextable"}) =
              IF "indextable" \in {"doctable"} THEN Cardinality({"doctable"})
              ELSE Cardinality({"doctable"}) + 1
    BY <2>1, FS_AddElement, Zenon
  <2>4. QED
    BY <2>1, <2>2, <2>3
<1> HIDE DEF names
<1>3. Readers = (1..n) \X names
  BY DEF Readers, Listed, names
<1> HIDE DEF n
<1>4. IsFiniteSet(Readers) /\ Cardinality(Readers) = n * 2
  <2>1. IsFiniteSet((1..n) \X names) /\ Cardinality((1..n) \X names) = Cardinality(1..n) * Cardinality(names)
    BY <1>1, <1>2, FS_Product, Zenon
  <2>2. QED
    BY <1>1, <1>2, <1>3, <2>1
<1>5. PICK name \in {"file", "postings"} : Opened \subseteq Readers \cup {<<i, name>>}
  BY DEF OneMore
<1> DEFINE more == Readers \cup {<<i, name>>}
<1>6. /\ IsFiniteSet(more)
      /\ Cardinality(more) = IF <<i, name>> \in Readers THEN Cardinality(Readers)
                             ELSE Cardinality(Readers) + 1
  BY <1>4, FS_AddElement, Zenon
<1>7. Opened \in SUBSET more
  BY <1>5
<1> HIDE DEF more
<1>8. IsFiniteSet(Opened) /\ Cardinality(Opened) <= Cardinality(more)
  BY <1>6, <1>7, FS_Subset, Zenon
<1>9. Cardinality(Opened) \in Nat
  BY <1>8, FS_CardinalityType, Zenon
<1>10. n \in Nat
  BY DEF Listed, n
<1>11. QED
  BY <1>4, <1>6, <1>8, <1>9, <1>10 DEF n

-----------------------------------------------------------------------------
(* The steps.                                                              *)

(* The places where exactly the readers are open. *)
Settled == {"ready", "lookup", "found?", "documents", "sort"}

(* The process ends with what it has open. *)
LEMMA ExitStep == Kept /\ Exit => Kept'
<1> SUFFICES ASSUME Kept, Exit
             PROVE  Kept'
  OBVIOUS
<1>1. pc' = "exited" /\ i' = i /\ indexlist' = indexlist /\ streams' = streams
  BY DEF Exit, args, input
<1>2. OneMore
  BY OneMoreIs
<1>3. OneMore'
  BY <1>1, <1>2 DEF OneMore, Opened, Readers
<1>4. QED
  BY <1>1, <1>3 DEF Kept, Listed, Places

(* From one such place to another nothing is opened or closed. *)
LEMMA SettledStep ==
    ASSUME Kept, pc \in Settled, pc' \in Settled, Opened' = Opened,
           indexlist' = indexlist, i' \in 1..Len(indexlist)
    PROVE  Kept'
<1>1. OpenFilesAre /\ OpenFilesAre'
  BY OpenFilesIs, PTL
<1>2. Opened = Readers /\ Readers' = Readers
  BY <1>1 DEF Kept, OpenFilesAre, Places, Settled, Readers
<1>3. Opened' = OpenFiles'
  BY <1>1, <1>2 DEF OpenFilesAre, Settled
<1>4. Listed'
  BY DEF Kept, Listed
<1>5. QED
  BY <1>3, <1>4 DEF Kept, Places, Settled

(* A step that stays where it is. *)
LEMMA StaysStep ==
    ASSUME Kept, pc' = pc, Opened' = Opened, indexlist' = indexlist, i' = i
    PROVE  Kept'
<1>1. Listed' /\ Readers' = Readers
  BY DEF Kept, Listed, Readers
<1>2. OpenFiles' = OpenFiles
  BY <1>1 DEF OpenFiles, FinishedReaders
<1>3. OneMore <=> OneMore'
  BY <1>1 DEF OneMore
<1>4. QED
  BY <1>1, <1>2, <1>3 DEF Kept

(* FileDup opens one FILE, or the process ends. *)
LEMMA NewReaderStep ==
    ASSUME Kept, NEW name, NEW at, NEW then, NewReader(name, at, then),
           \/ pc = "doctable" /\ name = "doctable" /\ then = "indextable"
           \/ pc = "indextable" /\ name = "indextable" /\ then = "fclose"
           \/ pc = "found?" /\ name = "postings" /\ then = "list"
    PROVE  Kept'
<1>1. CASE Exit
  BY <1>1, ExitStep
<1>2. CASE ~Exit
  <2>1. pc' = then /\ i' = i /\ indexlist' = indexlist /\ streams' = With(name)
    BY <1>2 DEF NewReader, args
  <2>2. Opened' = Opened \cup {<<i, name>>}
    BY <2>1 DEF Opened, With
  <2>3. OpenFilesAre /\ OpenFilesAre'
    BY OpenFilesIs, PTL
  <2>4. Readers' = Readers /\ FinishedReaders(i - 1)' = FinishedReaders(i - 1) /\ Listed'
    BY <2>1 DEF Readers, FinishedReaders, Kept, Listed
  <2>5. Opened = OpenFiles
    BY DEF Kept, Places
  <2>6. CASE pc = "doctable"
    BY <2>1, <2>2, <2>3, <2>4, <2>5, <2>6 DEF OpenFilesAre, Kept, Places
  <2>7. CASE pc = "indextable"
    BY <2>1, <2>2, <2>3, <2>4, <2>5, <2>7 DEF OpenFilesAre, Kept, Places
  <2>8. CASE pc = "found?"
    BY <2>1, <2>2, <2>3, <2>4, <2>5, <2>8 DEF OpenFilesAre, Kept, Places
  <2>9. QED
    BY <2>6, <2>7, <2>8
<1>3. QED
  BY <1>1, <1>2

(* The constructor. *)
LEMMA ConstructStep == Kept /\ Construct => Kept'
<1> SUFFICES ASSUME Kept, Construct
             PROVE  Kept'
  OBVIOUS
<1>1. OpenFilesAre /\ OpenFilesAre'
  BY OpenFilesIs, PTL
<1>2. CASE FOpen
  <2>1. CASE Exit
    BY <2>1, ExitStep
  <2>2. CASE ~Exit
    <3>1. pc = "fopen" /\ pc' = "header" /\ i' = i /\ indexlist' = indexlist /\ streams' = With("file")
      BY <1>2, <2>2 DEF FOpen, args
    <3>2. Opened' = Opened \cup {<<i, "file">>}
      BY <3>1 DEF Opened, With
    <3>3. FinishedReaders(i - 1)' = FinishedReaders(i - 1) /\ Listed'
      BY <3>1 DEF FinishedReaders, Kept, Listed
    <3>4. QED
      BY <1>1, <3>1, <3>2, <3>3 DEF OpenFilesAre, Kept, Places
  <2>3. QED
    BY <2>1, <2>2
<1>3. CASE CheckHeader
  <2>1. CASE Exit
    BY <2>1, ExitStep
  <2>2. CASE ~Exit
    <3>1. pc = "header" /\ pc' = "doctable" /\ i' = i /\ indexlist' = indexlist /\ streams' = streams
      BY <1>3, <2>2 DEF CheckHeader, args
    <3>2. FinishedReaders(i - 1)' = FinishedReaders(i - 1) /\ Listed' /\ Opened' = Opened
      BY <3>1 DEF FinishedReaders, Kept, Listed, Opened
    <3>3. QED
      BY <1>1, <3>1, <3>2 DEF OpenFilesAre, Kept, Places
  <2>3. QED
    BY <2>1, <2>2
<1>4. CASE NewDocTableReader
  BY <1>4, NewReaderStep DEF NewDocTableReader
<1>5. CASE NewIndexTableReader
  BY <1>5, NewReaderStep DEF NewIndexTableReader
<1>6. CASE CloseIndexFile
  <2>1. /\ pc = "fclose" /\ indexlist' = indexlist /\ streams' = Without({<<i, "file">>})
        /\ IF i < Len(indexlist) THEN i' = i + 1 /\ pc' = "fopen" ELSE i' = i /\ pc' = "ready"
    BY <1>6 DEF CloseIndexFile, FClose, args
  <2>2. Opened' = Opened \ {<<i, "file">>}
    BY <2>1 DEF Opened, Without
  <2>3. Opened = FinishedReaders(i - 1) \cup {<<i, "file">>, <<i, "doctable">>, <<i, "indextable">>}
    BY <1>1, <2>1 DEF OpenFilesAre, Kept, Places
  <2>4. Opened' = FinishedReaders(i)
    BY <2>2, <2>3, Finished DEF Kept
  <2>5. CASE i < Len(indexlist)
    <3>1. i' = i + 1 /\ pc' = "fopen" /\ Listed' /\ i' - 1 = i
      BY <2>1, <2>5 DEF Kept, Listed
    <3>2. OpenFiles' = FinishedReaders(i)
      <4>1. OpenFiles' = FinishedReaders(i' - 1)
        BY <1>1, <3>1 DEF OpenFilesAre, FinishedReaders
      <4>2. QED
        BY <3>1, <4>1
    <3>3. QED
      BY <2>4, <3>1, <3>2 DEF Kept, Places
  <2>6. CASE ~(i < Len(indexlist))
    <3>0. Listed
      BY DEF Kept
    <3>1. i' = i /\ pc' = "ready" /\ Listed' /\ i = Len(indexlist) /\ Readers' = Readers
      <4>1. i' = i /\ pc' = "ready"
        BY <2>1, <2>6
      <4>2. Listed' /\ i = Len(indexlist)
        <5>1. i \in 1..Len(indexlist) /\ Len(indexlist) \in Nat
          BY <3>0 DEF Listed
        <5>2. i = Len(indexlist)
          BY <2>6, <5>1
        <5>3. indexlist' = indexlist
          BY <2>1
        <5>4. Listed'
          BY <3>0, <4>1, <5>3 DEF Listed
        <5>5. QED
          BY <5>2, <5>4
      <4>3. Readers' = Readers
        BY <2>1 DEF Readers
      <4>4. QED
        BY <4>1, <4>2, <4>3
    <3>2. OpenFiles' = FinishedReaders(i)
      BY <1>1, <3>1, Finished DEF OpenFilesAre, Kept
    <3>3. QED
      BY <2>4, <3>1, <3>2 DEF Kept, Places
  <2>7. QED
    BY <2>5, <2>6
<1>7. QED
  BY <1>2, <1>3, <1>4, <1>5, <1>6 DEF Construct

(* A query's steps. *)
LEMMA AnswerStep == Kept /\ Answer => Kept'
<1> SUFFICES ASSUME Kept, Answer
             PROVE  Kept'
  OBVIOUS
<1>1. OpenFilesAre /\ OpenFilesAre'
  BY OpenFilesIs, PTL
<1>2. Listed
  BY DEF Kept
<1>3. CASE LookupQueryWord
  <2>1. /\ pc = "lookup" /\ pc' = "found?" /\ i' = i /\ indexlist' = indexlist
        /\ streams' = streams
    BY <1>3 DEF LookupQueryWord, args
  <2>2. QED
    BY <1>2, <2>1, SettledStep DEF Listed, Settled, Opened
<1>4. CASE NewDocIDTableReader
  BY <1>4, NewReaderStep DEF NewDocIDTableReader
<1>5. CASE WordMissing
  <2>1. /\ pc = "found?" /\ pc' \in {"lookup", "documents"} /\ i' = i /\ indexlist' = indexlist
        /\ streams' = streams
    BY <1>5 DEF WordMissing, args, input
  <2>2. QED
    BY <1>2, <2>1, SettledStep DEF Listed, Settled, Opened
<1>6. CASE ReadDocIDList
  <2>1. /\ pc = "list" /\ pc' = "combine" /\ i' = i /\ indexlist' = indexlist
        /\ streams' = streams
    BY <1>6 DEF ReadDocIDList, args
  <2>2. Readers' = Readers /\ Opened' = Opened /\ Listed'
    BY <1>2, <2>1 DEF Readers, Opened, Listed
  <2>3. QED
    BY <1>1, <2>1, <2>2 DEF OpenFilesAre, Kept, Places
<1>7. CASE Combine
  <2>1. /\ pc = "combine" /\ pc' \in {"lookup", "documents"} /\ i' = i /\ indexlist' = indexlist
        /\ streams' = Without({<<i, "postings">>})
    BY <1>7 DEF Combine, FClose, Combined, args
  <2>2. Readers' = Readers /\ Opened' = Opened \ {<<i, "postings">>} /\ Listed'
    BY <1>2, <2>1 DEF Readers, Opened, Without, Listed
  <2>3. Opened = Readers \cup {<<i, "postings">>}
    BY <1>1, <2>1 DEF OpenFilesAre, Kept, Places
  <2>4. Opened' = Readers
    BY <1>2, <2>2, <2>3, Finished
  <2>5. QED
    BY <1>1, <2>1, <2>2, <2>4 DEF OpenFilesAre, Kept, Places
<1>8. CASE NameDocument
  <2>1. CASE Exit
    BY <2>1, ExitStep
  <2>2. CASE ~Exit
    <3>1. pc' = pc /\ i' = i /\ indexlist' = indexlist /\ streams' = streams
      BY <1>8, <2>2 DEF NameDocument, args
    <3>2. QED
      BY <3>1, StaysStep DEF Opened
  <2>3. QED
    BY <2>1, <2>2
<1>9. CASE NextIndex
  <2>1. /\ pc = "documents" /\ pc' \in {"lookup", "sort"} /\ indexlist' = indexlist
        /\ streams' = streams
    BY <1>9 DEF NextIndex, args, input
  <2>2. i' \in 1..Len(indexlist)
    BY <1>2, <1>9 DEF NextIndex, Listed
  <2>3. QED
    BY <2>1, <2>2, SettledStep DEF Settled, Opened
<1>10. CASE Sort
  <2>1. /\ pc = "sort" /\ pc' = "ready" /\ i' = i /\ indexlist' = indexlist
        /\ streams' = streams
    BY <1>10 DEF Sort, args, input
  <2>2. QED
    BY <1>2, <2>1, SettledStep DEF Listed, Settled, Opened
<1>11. QED
  BY <1>3, <1>4, <1>5, <1>6, <1>7, <1>8, <1>9, <1>10 DEF Answer

(* A query is accepted, or ends the process. *)
LEMMA ProcessQueryStep ==
    ASSUME Kept, NEW q, ProcessQuery(q)
    PROVE  Kept'
<1>1. /\ pc = "ready" /\ pc' \in {"lookup", "exited"} /\ indexlist' = indexlist
      /\ streams' = streams
  BY DEF ProcessQuery, args, input
<1>2. CASE pc' = "lookup"
  <2>1. i' = 1 /\ 1 \in 1..Len(indexlist)
    BY <1>2 DEF ProcessQuery, Kept, Listed
  <2>2. QED
    BY <1>1, <1>2, <2>1, SettledStep DEF Settled, Opened
<1>3. CASE pc' = "exited"
  <2>1. i' = i
    BY <1>3 DEF ProcessQuery
  <2>2. OneMore
    BY OneMoreIs
  <2>3. OneMore' /\ Listed'
    BY <1>1, <2>1, <2>2 DEF OneMore, Opened, Readers, Kept, Listed
  <2>4. QED
    BY <1>3, <2>3 DEF Kept, Places
<1>4. QED
  BY <1>1, <1>2, <1>3

(* What the server does between two QueryProcessors. *)
LEMMA ServerStep ==
    ASSUME Kept,
           \/ SearchPage
           \/ \E r \in Parsed : ProcessFileRequest(r) \/ ShowSearchBox(r) \/ StartSearch(r)
    PROVE  Kept'
<1>1. OpenFilesAre /\ OpenFilesAre'
  BY OpenFilesIs, PTL
<1>2. CASE SearchPage
  <2>1. /\ pc = "ready" /\ pc' = "destroyed" /\ streams' = Without(Readers)
        /\ i' = i /\ indexlist' = indexlist
    BY <1>2 DEF SearchPage, Destroy, args
  <2>2. Opened' = Opened \ Readers /\ Opened = Readers
    BY <1>1, <2>1 DEF Opened, Without, OpenFilesAre, Kept, Places
  <2>3. QED
    BY <1>1, <2>1, <2>2 DEF OpenFilesAre, Kept, Places, Listed
<1>3. ASSUME NEW r \in Parsed, ProcessFileRequest(r) \/ ShowSearchBox(r)
      PROVE  Kept'
  <2>1. pc' = pc /\ i' = i /\ indexlist' = indexlist /\ streams' = streams
    BY <1>3 DEF ProcessFileRequest, ShowSearchBox, vars, args, input
  <2>2. QED
    BY <2>1, StaysStep DEF Opened
<1>4. ASSUME NEW r \in Parsed, StartSearch(r)
      PROVE  Kept'
  <2>1. /\ pc = "destroyed" /\ pc' = "fopen" /\ i' = 1 /\ indexlist' = indexlist
        /\ streams' = streams
    BY <1>4 DEF StartSearch, NextRequest, args
  <2>2. Opened' = {} /\ Listed'
    BY <1>1, <2>1 DEF Opened, OpenFilesAre, Kept, Places, Listed
  <2>3. OpenFiles' = FinishedReaders(0)
    BY <1>1, <2>1 DEF OpenFilesAre, FinishedReaders
  <2>4. FinishedReaders(0) = {}
    BY Finished DEF Kept
  <2>5. QED
    BY <2>1, <2>2, <2>3, <2>4 DEF Kept, Places
<1>5. QED
  BY <1>2, <1>3, <1>4

(* Every step keeps the FILEs that are open those that should be. *)
LEMMA KeptStep == Kept /\ [RequestNext]_webVars => Kept'
<1> SUFFICES ASSUME Kept, [RequestNext]_webVars
             PROVE  Kept'
  OBVIOUS
<1>1. CASE Read
  <2>1. pc' = pc /\ i' = i /\ indexlist' = indexlist /\ Opened' = Opened
    BY <1>1 DEF Read, args, Opened
  <2>2. QED
    BY <2>1, StaysStep
<1>2. CASE Construct \/ Answer
  BY <1>2, ConstructStep, AnswerStep
<1>3. CASE SearchTerms \/ Shell
  BY <1>3, ProcessQueryStep DEF SearchTerms, Shell, ShellQuery
<1>4. CASE SearchPage \/ \E r \in Parsed : ProcessFileRequest(r) \/ ShowSearchBox(r) \/ StartSearch(r)
  BY <1>4, ServerStep
<1>5. CASE UNCHANGED webVars
  <2>1. pc' = pc /\ i' = i /\ indexlist' = indexlist /\ streams' = streams
    BY <1>5 DEF webVars, vars, args, input
  <2>2. QED
    BY <2>1, StaysStep DEF Opened
<1>6. QED
  BY <1>1, <1>2, <1>3, <1>4, <1>5 DEF RequestNext, Program, Step

(* Nothing is open before the first constructor. *)
LEMMA InitKept == RequestInit => Kept
<1> SUFFICES ASSUME RequestInit
             PROVE  Kept
  OBVIOUS
<1>1. /\ indexlist \in IndexLists /\ i = 1 /\ streams = <<>> /\ pc \in {"fopen", "destroyed"}
  BY DEF RequestInit, Unborn
<1>2. Listed
  BY <1>1, IndexListsAssumption DEF Listed
<1>3. Opened = {}
  BY <1>1 DEF Opened
<1>4. OpenFiles = {}
  <2>1. pc = "fopen" => OpenFiles = FinishedReaders(0)
    BY <1>1, OpenFilesIs DEF OpenFilesAre
  <2>2. FinishedReaders(0) = {}
    BY <1>2, Finished
  <2>3. QED
    BY <1>1, <2>1, <2>2, OpenFilesIs DEF OpenFilesAre
<1>5. QED
  BY <1>1, <1>2, <1>3, <1>4 DEF Kept, Places

(* QueryProcessor and the index readers: at each place of the code exactly *)
(* the FILEs that should be open are open, and never more than two for     *)
(* each index file and one more, whatever the index files hold and however *)
(* many queries or searches there have been.                               *)
THEOREM DescriptorsBounded == RequestSpec => []DescriptorsKept
<1>1. Kept => DescriptorsKept
  <2> SUFFICES ASSUME Kept
               PROVE  DescriptorsKept
    OBVIOUS
  <2>1. pc # "exited" => Opened = OpenFiles
    BY DEF Kept
  <2>2. Cardinality(Opened) <= 2 * Len(indexlist) + 1
    BY OneMoreIs, OneMoreCounts DEF Kept
  <2>3. QED
    BY <2>1, <2>2 DEF DescriptorsKept
<1>2. QED
  BY <1>1, InitKept, KeptStep, PTL DEF RequestSpec

-----------------------------------------------------------------------------
(* What is read.                                                           *)

(* The FILEs. *)
Streams == [pos : Int, lo : Int, hi : Int]

(* A FILE that reads on: the offset is at the end of its buffer. *)
Ready(s, off) == s \in Streams /\ off = s.hi /\ s.pos <= s.hi

(* After an fseek a FILE is ready, whatever has become of the offset. *)
LEMMA FSeekIs ==
    ASSUME NEW s \in Streams, NEW at \in Int, NEW p, p = FSeek(s, at)
    PROVE  Ready(p.stream, p.offset) /\ p.stream.pos = at
<1>1. s.lo \in Int /\ s.hi \in Int
  BY DEF Streams
<1>2. CASE s.lo <= at /\ at < s.hi
  <2>1. p = [stream |-> [s EXCEPT !.pos = at], offset |-> s.hi]
    BY <1>2 DEF FSeek
  <2>2. [s EXCEPT !.pos = at] = [pos |-> at, lo |-> s.lo, hi |-> s.hi]
    BY DEF Streams
  <2>3. QED
    BY <1>1, <1>2, <2>1, <2>2 DEF Ready, Streams
<1>3. CASE ~(s.lo <= at /\ at < s.hi)
  <2>1. p = [stream |-> [pos |-> at, lo |-> at, hi |-> at], offset |-> at]
    BY <1>3 DEF FSeek
  <2>2. QED
    BY <2>1 DEF Ready, Streams
<1>4. QED
  BY <1>2, <1>3

(* The lesser of two numbers. *)
LEMMA MinTwo ==
    ASSUME NEW a \in Int, NEW b \in Int
    PROVE  Min({a, b}) = IF a <= b THEN a ELSE b
<1> DEFINE m == IF a <= b THEN a ELSE b
<1>1. m \in {a, b} /\ m \in Int /\ \A y \in {a, b} : m <= y
  OBVIOUS
<1>2. ASSUME NEW x \in {a, b}, \A y \in {a, b} : x <= y
      PROVE  x = m
  BY <1>2
<1> HIDE DEF m
<1>3. Min({a, b}) = m
  BY <1>1, <1>2 DEF Min
<1>4. QED
  BY <1>3 DEF m

(* A FILE that is ready reads the bytes at its position. *)
CanRead(s, off, len, unit, size, got) ==
    /\ Ready(s, off) /\ len \in Nat /\ unit \in Nat \ {0} /\ size \in Nat
    /\ s.pos + len <= size
    /\ got = FRead(s, off, len, unit, size)

(* It gets all of them, and a FILE without a buffer leaves the offset      *)
(* behind them.                                                            *)
HasRead(s, len, unit, got) ==
    /\ got.stream \in Streams /\ got.offset \in Int
    /\ len > 0 => got.start = s.pos /\ got.whole = TRUE
    /\ s.pos = s.hi /\ unit = 1 /\ len > 0 =>
          /\ got.offset = s.pos + len
          /\ got.stream.pos = s.pos + len
          /\ got.stream.hi = s.pos + len

(* What fread does with such a FILE. *)
LEMMA FReadIs ==
    ASSUME NEW s, NEW off, NEW len, NEW unit, NEW size, NEW got,
           CanRead(s, off, len, unit, size, got)
    PROVE  HasRead(s, len, unit, got)
<1>0. /\ Ready(s, off) /\ len \in Nat /\ unit \in Nat \ {0} /\ size \in Nat
      /\ s.pos + len <= size
      /\ got = FRead(s, off, len, unit, size)
  BY DEF CanRead
<1> DEFINE have == s.hi - s.pos
           need == len - have
           from == off + unit * ((need - 1) \div unit)
           to   == Min({size, from + unit})
<1>1. /\ s.pos \in Int /\ s.lo \in Int /\ s.hi \in Int /\ off = s.hi /\ s.pos <= s.hi
      /\ s = [pos |-> s.pos, lo |-> s.lo, hi |-> s.hi]
  BY <1>0 DEF Ready, Streams
<1>2. have \in Nat /\ need \in Int /\ (have = 0 <=> s.pos = s.hi)
  BY <1>0, <1>1
<1>3. CASE need <= 0
  <2>1. got = [stream |-> [s EXCEPT !.pos = @ + len], offset |-> off, start |-> s.pos, whole |-> TRUE]
    BY <1>0, <1>3 DEF FRead
  <2>2. [s EXCEPT !.pos = @ + len] = [pos |-> s.pos + len, lo |-> s.lo, hi |-> s.hi]
    BY <1>0, <1>1
  <2>3. ~(s.pos = s.hi /\ len > 0)
    BY <1>0, <1>1, <1>2, <1>3
  <2>4. QED
    BY <1>0, <1>1, <2>1, <2>2, <2>3 DEF Streams, HasRead
<1>4. CASE ~(need <= 0)
  <2>1. got = [stream |-> [pos |-> off + need, lo |-> from, hi |-> to],
               offset |-> to,
               start  |-> IF have > 0 THEN s.pos ELSE off,
               whole  |-> (have > 0 => off = s.hi) /\ off + need <= size]
    BY <1>0, <1>4 DEF FRead
  <2>2. (need - 1) \div unit \in Int
    BY <1>0, <1>2
  <2>3. from \in Int
    <3> HIDE DEF need
    <3> DEFINE q == (need - 1) \div unit
    <3>1. q \in Int
      BY <2>2
    <3> HIDE DEF q
    <3>2. unit * q \in Int
      BY <1>0, <3>1
    <3>3. off + unit * q \in Int
      BY <1>0, <1>1, <3>2
    <3>4. QED
      BY <3>3 DEF q
  <2>4. unit = 1 => from + unit = off + need
    <3> HIDE DEF need
    <3>1. (need - 1) \div 1 = need - 1
      BY <1>0, <1>2
    <3>2. QED
      BY <1>0, <1>1, <1>2, <3>1
  <2>5. off + need = s.pos + len
    BY <1>0, <1>1, <1>2
  <2> HIDE DEF from, need
  <2>6. to = IF size <= from + unit THEN size ELSE from + unit
    BY <1>0, <2>3, MinTwo
  <2> HIDE DEF to, have
  <2>7. to \in Int /\ (unit = 1 => to = s.pos + len)
    <3>1. CASE size <= from + unit
      BY <1>0, <1>1, <2>4, <2>5, <2>6, <3>1
    <3>2. CASE ~(size <= from + unit)
      BY <1>0, <1>1, <2>3, <2>4, <2>5, <2>6, <3>2
    <3>3. QED
      BY <3>1, <3>2
  <2>8. got.stream \in Streams /\ got.offset \in Int
    BY <1>0, <1>1, <1>2, <2>1, <2>3, <2>7 DEF Streams
  <2>9. got.start = s.pos /\ got.whole = TRUE
    <3>1. IF have > 0 THEN s.pos = s.pos ELSE off = s.pos
      BY <1>0, <1>1, <1>2
    <3>2. (have > 0 => off = s.hi) /\ off + need <= size
      BY <1>0, <1>1, <2>5
    <3>3. got.start = s.pos
      BY <1>0, <2>1, <3>1
    <3> DEFINE whole == (have > 0 => off = s.hi) /\ off + need <= size
    <3>4. whole = TRUE
      BY <1>0, <3>2, Zenon
    <3> HIDE DEF whole
    <3>5. got.whole = TRUE
      <4>1. got = [stream |-> [pos |-> off + need, lo |-> from, hi |-> to],
                   offset |-> to,
                   start  |-> IF have > 0 THEN s.pos ELSE off,
                   whole  |-> whole]
        BY <1>0, <2>1 DEF whole
      <4>2. QED
        BY <1>0, <3>4, <4>1
    <3>6. QED
      BY <3>3, <3>5
  <2>10. unit = 1 => /\ got.offset = s.pos + len /\ got.stream.pos = s.pos + len
                     /\ got.stream.hi = s.pos + len
    BY <1>0, <2>1, <2>5, <2>7
  <2>11. QED
    BY <2>8, <2>9, <2>10 DEF HasRead
<1>5. QED
  BY <1>3, <1>4

(* The buffer and the position of a FILE are inside its file. *)
InFile(s, size) ==
    /\ s \in Streams
    /\ 0 <= s.lo /\ s.lo <= s.pos /\ s.pos <= s.hi /\ s.hi <= size

(* All of them, and the offsets. *)
Bounded ==
    /\ \A s \in Opened : s[1] \in 1..Len(indexlist) /\ InFile(streams[s], files[s[1]].size)
    /\ \A x \in 1..Len(indexlist) : offset[x] \in 0..files[x].size

(* A multiple of the buffer's size. *)
LEMMA Multiple ==
    ASSUME NEW a \in Nat, NEW u \in Nat \ {0}
    PROVE  LET q == a \div u
           IN  /\ u * q \in Int /\ 0 <= u * q
               /\ u * q <= a /\ a + 1 <= u * q + u
<1> DEFINE q == a \div u
<1>1. q \in Nat
  OBVIOUS
<1>2. a = u * q + (a % u) /\ a % u \in 0..(u - 1)
  OBVIOUS
<1> HIDE DEF q
<1>3. u * q \in Nat
  BY <1>1
<1> DEFINE m == u * q
           r == a % u
<1>4. m \in Nat /\ r \in 0..(u - 1) /\ a = m + r
  BY <1>2, <1>3
<1> HIDE DEF m, r
<1>5. m \in Int /\ 0 <= m /\ m <= a /\ a + 1 <= m + u
  BY <1>4
<1>6. QED
  BY <1>5 DEF m, q

(* An fseek inside the file stays inside. *)
LEMMA FSeekInFile ==
    ASSUME NEW size \in Nat, NEW s, InFile(s, size), NEW at \in Nat, at <= size,
           NEW p, p = FSeek(s, at)
    PROVE  InFile(p.stream, size) /\ p.offset \in 0..size
<1>1. s.lo \in Int /\ s.hi \in Int
  BY DEF InFile, Streams
<1>2. CASE s.lo <= at /\ at < s.hi
  <2>1. p = [stream |-> [s EXCEPT !.pos = at], offset |-> s.hi]
    BY <1>2 DEF FSeek
  <2>2. [s EXCEPT !.pos = at] = [pos |-> at, lo |-> s.lo, hi |-> s.hi]
    BY DEF InFile, Streams
  <2>3. QED
    BY <1>1, <1>2, <2>1, <2>2 DEF InFile, Streams
<1>3. CASE ~(s.lo <= at /\ at < s.hi)
  <2>1. p = [stream |-> [pos |-> at, lo |-> at, hi |-> at], offset |-> at]
    BY <1>3 DEF FSeek
  <2>2. QED
    BY <2>1 DEF InFile, Streams
<1>4. QED
  BY <1>2, <1>3

(* So does an fread of bytes that are there. *)
LEMMA FReadInFile ==
    ASSUME NEW s, NEW off, NEW len, NEW unit, NEW size, NEW got,
           CanRead(s, off, len, unit, size, got), InFile(s, size)
    PROVE  InFile(got.stream, size) /\ got.offset \in 0..size
<1>0. /\ Ready(s, off) /\ len \in Nat /\ unit \in Nat \ {0} /\ size \in Nat
      /\ s.pos + len <= size
      /\ got = FRead(s, off, len, unit, size)
  BY DEF CanRead
<1> DEFINE have == s.hi - s.pos
           need == len - have
           from == off + unit * ((need - 1) \div unit)
           to   == Min({size, from + unit})
<1>1. /\ s.pos \in Int /\ s.lo \in Int /\ s.hi \in Int /\ off = s.hi
      /\ s = [pos |-> s.pos, lo |-> s.lo, hi |-> s.hi]
      /\ 0 <= s.lo /\ s.lo <= s.pos /\ s.pos <= s.hi /\ s.hi <= size
  BY <1>0 DEF Ready, Streams, InFile
<1>2. have \in Nat /\ need \in Int /\ off + need = s.pos + len
  BY <1>0, <1>1
<1>3. CASE need <= 0
  <2>1. got = [stream |-> [s EXCEPT !.pos = @ + len], offset |-> off, start |-> s.pos, whole |-> TRUE]
    BY <1>0, <1>3 DEF FRead
  <2>2. [s EXCEPT !.pos = @ + len] = [pos |-> s.pos + len, lo |-> s.lo, hi |-> s.hi]
    BY <1>0, <1>1
  <2>3. s.pos + len <= s.hi
    BY <1>0, <1>1, <1>2, <1>3
  <2>4. QED
    BY <1>0, <1>1, <2>1, <2>2, <2>3 DEF InFile, Streams
<1>4. CASE ~(need <= 0)
  <2>1. got = [stream |-> [pos |-> off + need, lo |-> from, hi |-> to],
               offset |-> to,
               start  |-> IF have > 0 THEN s.pos ELSE off,
               whole  |-> (have > 0 => off = s.hi) /\ off + need <= size]
    BY <1>0, <1>4 DEF FRead
  <2>2. /\ from \in Int /\ off <= from /\ from <= off + need - 1
        /\ off + need <= from + unit
    <3> DEFINE a == need - 1
               m == unit * (a \div unit)
    <3>1. a \in Nat
      BY <1>2, <1>4
    <3>2. from = off + m
      OBVIOUS
    <3> HIDE DEF a, need
    <3>3. m \in Int /\ 0 <= m /\ m <= a /\ a + 1 <= m + unit
      BY <1>0, <3>1, Multiple
    <3>4. need \in Int /\ a = need - 1
      BY <1>2 DEF a
    <3> HIDE DEF m, from
    <3>5. QED
      BY <1>0, <1>1, <3>2, <3>3, <3>4
  <2> HIDE DEF from, need
  <2>3. to = IF size <= from + unit THEN size ELSE from + unit
    BY <1>0, <2>2, MinTwo
  <2> HIDE DEF to, have
  <2>4. /\ to \in Int /\ off + need <= to /\ to <= size /\ 0 <= to
    <3>1. off + need <= size /\ off + need \in Int /\ 0 <= off + need
      BY <1>0, <1>1, <1>2
    <3>2. QED
      BY <1>0, <2>2, <2>3, <3>1
  <2>5. /\ 0 <= from /\ from <= off + need
    BY <1>0, <1>1, <1>2, <2>2
  <2>6. got.stream = [pos |-> off + need, lo |-> from, hi |-> to] /\ got.offset = to
    BY <2>1
  <2> DEFINE pos == off + need
  <2>7. pos \in Int
    BY <1>0, <1>1, <1>2
  <2> HIDE DEF pos
  <2>8. QED
    BY <1>0, <2>2, <2>4, <2>5, <2>6, <2>7 DEF InFile, Streams, pos
<1>5. QED
  BY <1>3, <1>4

(* Nobody reads at another's place. *)
StreamsOK ==
    /\ offset \in [1..Len(indexlist) -> Int]
    /\ \A s \in Opened : streams[s] \in Streams

(* While something is still to be read, it is from the FILE of this place  *)
(* of the code.                                                            *)
InUse == runs # <<>> => pc \notin Idle /\ reading = <<i, ReaderInUse>>

(* So far every read has got its bytes, and the next one will. *)
Undisturbed ==
    /\ StreamsOK
    /\ InUse
    /\ HeaderFirst
    /\ misread = FALSE

(* Where the constructor is. *)
Building == {"fopen", "header", "doctable", "indextable", "fclose"}

(* The FILE in use is open. *)
LEMMA InUseOpen ==
    ASSUME Kept, InUse, runs # <<>>
    PROVE  /\ reading \in Opened /\ reading[1] = i /\ i \in 1..Len(indexlist)
           /\ pc \in {"header", "doctable"} => reading = <<i, "file">>
<1>1. /\ pc \notin Idle /\ reading = <<i, ReaderInUse>>
  BY DEF InUse
<1>2. Opened = OpenFiles /\ Listed /\ pc \in Places
  BY <1>1 DEF Kept, Idle
<1>3. OpenFilesAre
  BY OpenFilesIs
<1>4. <<i, "doctable">> \in Readers /\ <<i, "indextable">> \in Readers
  BY <1>2, Finished
<1>5. CASE pc \in {"header", "doctable"}
  BY <1>1, <1>2, <1>3, <1>5 DEF ReaderInUse, OpenFilesAre, Listed
<1>6. CASE pc \in {"indextable", "documents"}
  BY <1>1, <1>2, <1>3, <1>4, <1>6 DEF ReaderInUse, OpenFilesAre, Listed
<1>7. CASE pc \in {"fclose", "found?"}
  BY <1>1, <1>2, <1>3, <1>4, <1>7 DEF ReaderInUse, OpenFilesAre, Listed
<1>8. CASE pc \in {"list", "combine"}
  BY <1>1, <1>2, <1>3, <1>8 DEF ReaderInUse, OpenFilesAre, Listed
<1>9. QED
  BY <1>1, <1>2, <1>5, <1>6, <1>7, <1>8 DEF Places, Idle

(* A run of freads gets its bytes, and stays in its file. *)
LEMMA ReadUndisturbed ==
    ASSUME Kept, Undisturbed, RunsInside, Read
    PROVE  Undisturbed' /\ (Bounded => Bounded')
<1> DEFINE r == Head(runs)
           x == reading[1]
           s == streams[reading]
           size == files[x].size
           unit == Unit(reading[2])
<1>1. /\ runs # <<>> /\ runs' = Tail(runs) /\ pc' = pc /\ i' = i /\ reading' = reading
      /\ indexlist' = indexlist /\ files' = files
  BY DEF Read, args
<1>2. /\ runs \in Seq([seek : BOOLEAN, at : Nat, len : Nat])
      /\ r \in [seek : BOOLEAN, at : Nat, len : Nat] /\ r = runs[1] /\ 1 \in DOMAIN runs
  <2> DEFINE R == [seek : BOOLEAN, at : Nat, len : Nat]
  <2>1. runs \in Seq(R)
    BY DEF RunsInside
  <2> HIDE DEF R
  <2>2. runs[1] \in R /\ 1 \in DOMAIN runs /\ r = runs[1]
    BY <1>1, <2>1
  <2>3. QED
    BY <2>1, <2>2 DEF R
<1>3. /\ reading \in Opened /\ x = i /\ i \in 1..Len(indexlist)
      /\ pc \in {"header", "doctable"} => reading = <<i, "file">>
  BY <1>1, InUseOpen DEF Undisturbed
<1>4. /\ r.at \in Nat /\ r.len \in Nat /\ size \in Nat /\ r.at + r.len <= size
      /\ r.seek \in BOOLEAN
      /\ r.seek \/ pc \in {"header", "doctable"}
  BY <1>2, <1>3 DEF RunsInside, Kept, Listed
<1>5. /\ s \in Streams /\ offset \in [1..Len(indexlist) -> Int] /\ offset[x] \in Int
      /\ unit \in Nat \ {0} /\ (pc \in {"header", "doctable"} => unit = 1)
  BY <1>3, BufSizeAssumption DEF Undisturbed, StreamsOK, Unit
<1>6. PICK at \in {IF r.seek THEN FSeek(s, r.at) ELSE [stream |-> s, offset |-> offset[x]]} :
      \E got \in {FRead(at.stream, at.offset, r.len, unit, size)} :
         /\ streams' = [streams EXCEPT ![reading] = got.stream]
         /\ offset' = [offset EXCEPT ![x] = got.offset]
         /\ misread' = (misread \/ (r.len > 0 /\ ~(got.start = r.at /\ got.whole)))
  BY DEF Read
<1>7. PICK got \in {FRead(at.stream, at.offset, r.len, unit, size)} :
         /\ streams' = [streams EXCEPT ![reading] = got.stream]
         /\ offset' = [offset EXCEPT ![x] = got.offset]
         /\ misread' = (misread \/ (r.len > 0 /\ ~(got.start = r.at /\ got.whole)))
  BY <1>6
<1>8. /\ got = FRead(at.stream, at.offset, r.len, unit, size)
      /\ at = IF r.seek THEN FSeek(s, r.at) ELSE [stream |-> s, offset |-> offset[x]]
  BY <1>6, <1>7
<1>9. pc \in {"header", "doctable"} =>
         /\ ~r.seek /\ s.pos = r.at /\ s.hi = r.at /\ offset[x] = r.at
         /\ runs = <<r>>
         /\ pc = "header" => r.at = 0 /\ r.len = FileHeaderSize
  <2> SUFFICES ASSUME pc \in {"header", "doctable"}
               PROVE  /\ ~r.seek /\ s.pos = r.at /\ s.hi = r.at /\ offset[x] = r.at
                      /\ runs = <<r>>
                      /\ pc = "header" => r.at = 0 /\ r.len = FileHeaderSize
    OBVIOUS
  <2>1. pc \in {"header", "doctable"} /\ reading = <<i, "file">>
    BY <1>3, <1>4
  <2>2. CASE pc = "header"
    <3>1. FileAt(0, FileHeaderSize)
      BY <1>1, <2>2 DEF Undisturbed, HeaderFirst
    <3>2. runs = <<[seek |-> FALSE, at |-> 0, len |-> FileHeaderSize - 0]>>
      BY <1>1, <3>1 DEF FileAt
    <3>3. r = [seek |-> FALSE, at |-> 0, len |-> FileHeaderSize - 0]
      BY <3>2
    <3>4. QED
      BY <1>3, <2>1, <3>1, <3>2, <3>3 DEF FileAt, FileHeaderSize
  <2>3. CASE pc = "doctable"
    <3>1. FileAt(FileHeaderSize, size)
      BY <1>1, <1>3, <2>3 DEF Undisturbed, HeaderFirst
    <3>2. runs = <<[seek |-> FALSE, at |-> FileHeaderSize, len |-> size - FileHeaderSize]>>
      BY <1>1, <3>1 DEF FileAt
    <3>3. r = [seek |-> FALSE, at |-> FileHeaderSize, len |-> size - FileHeaderSize]
      BY <3>2
    <3>4. QED
      BY <1>3, <2>1, <2>3, <3>1, <3>2, <3>3 DEF FileAt
  <2>4. QED
    BY <2>1, <2>2, <2>3
<1> HIDE DEF r, x, s, size, unit
<1>10. Ready(at.stream, at.offset) /\ at.stream.pos = r.at
  <2>1. CASE r.seek
    <3>1. at = FSeek(s, r.at) /\ r.at \in Int
      BY <1>4, <1>8, <2>1
    <3>2. QED
      BY <1>5, <3>1, FSeekIs
  <2>2. CASE ~r.seek
    BY <1>4, <1>5, <1>8, <1>9, <2>2 DEF Ready
  <2>3. QED
    BY <2>1, <2>2
<1>11. /\ CanRead(at.stream, at.offset, r.len, unit, size, got)
       /\ got.stream \in Streams /\ got.offset \in Int
       /\ r.len > 0 => got.start = r.at /\ got.whole = TRUE
       /\ at.stream.pos = at.stream.hi /\ unit = 1 /\ r.len > 0 =>
             /\ got.offset = r.at + r.len
             /\ got.stream.pos = r.at + r.len
             /\ got.stream.hi = r.at + r.len
  <2>1. at.stream.pos + r.len <= size
    BY <1>4, <1>10
  <2>2. /\ CanRead(at.stream, at.offset, r.len, unit, size, got)
        /\ got.stream \in Streams /\ got.offset \in Int
        /\ r.len > 0 => got.start = at.stream.pos /\ got.whole = TRUE
        /\ at.stream.pos = at.stream.hi /\ unit = 1 /\ r.len > 0 =>
              /\ got.offset = at.stream.pos + r.len
              /\ got.stream.pos = at.stream.pos + r.len
              /\ got.stream.hi = at.stream.pos + r.len
    <3>1. CanRead(at.stream, at.offset, r.len, unit, size, got)
      BY <1>4, <1>5, <1>8, <1>10, <2>1 DEF CanRead
    <3>2. HasRead(at.stream, r.len, unit, got)
      BY <3>1, FReadIs
    <3>3. QED
      BY <3>1, <3>2 DEF HasRead
  <2>3. QED
    BY <1>10, <2>2
<1>12. misread' = FALSE
  <2>1. misread = FALSE
    BY DEF Undisturbed
  <2>2. ~(r.len > 0 /\ ~(got.start = r.at /\ got.whole))
    BY <1>11
  <2>3. QED
    BY <1>7, <2>1, <2>2, Zenon DEF r, x
<1>13. StreamsOK'
  <2>1. streams' = [streams EXCEPT ![reading] = got.stream] /\ offset' = [offset EXCEPT ![x] = got.offset]
    BY <1>7 DEF x
  <2>2. Opened' = Opened
    BY <2>1 DEF Opened
  <2>3. \A t \in Opened : streams'[t] \in Streams
    BY <1>11, <2>1 DEF Undisturbed, StreamsOK, Opened
  <2>4. QED
    BY <1>1, <1>5, <1>11, <2>1, <2>2, <2>3 DEF StreamsOK
<1>14. InUse'
  BY <1>1 DEF Undisturbed, InUse, ReaderInUse
<1>15. HeaderFirst'
  <2>0. Tail(<<r>>) = <<>>
    OBVIOUS
  <2>1. pc \notin Idle
    BY <1>1 DEF Undisturbed, InUse
  <2>2. streams' = [streams EXCEPT ![reading] = got.stream] /\ offset' = [offset EXCEPT ![x] = got.offset]
    BY <1>7 DEF x
  <2>3. ASSUME pc \in Building, NEW y \in DOMAIN indexlist, y > i
        PROVE  offset'[y] = 0
    <3>1. offset[y] = 0 /\ y # x
      BY <1>3, <2>3 DEF Undisturbed, HeaderFirst, Building, Kept, Listed
    <3>2. QED
      BY <1>5, <2>2, <3>1
  <2>4. CASE pc = "header"
    <3>1. runs' = <<>>
      BY <1>1, <1>9, <2>0, <2>4
    <3>2. reading = <<i, "file">> /\ streams'[reading] = got.stream /\ offset'[i] = got.offset
      BY <1>3, <1>5, <2>2, <2>4 DEF Opened
    <3>3. /\ got.offset = FileHeaderSize /\ got.stream.pos = FileHeaderSize
          /\ got.stream.hi = FileHeaderSize
      <4>1. at.stream.pos = at.stream.hi
        BY <1>8, <1>9, <2>4
      <4>2. unit = 1 /\ r.at = 0 /\ r.len = FileHeaderSize /\ r.len > 0
        BY <1>5, <1>9, <2>4 DEF FileHeaderSize
      <4>3. QED
        BY <1>11, <4>1, <4>2 DEF FileHeaderSize
    <3>4. FileAt(FileHeaderSize, FileHeaderSize)'
      BY <1>1, <3>1, <3>2, <3>3 DEF FileAt
    <3>5. QED
      BY <1>1, <2>3, <2>4, <3>1, <3>4 DEF HeaderFirst, Building
  <2>5. CASE pc = "doctable"
    <3>1. runs' = <<>>
      BY <1>1, <1>9, <2>0, <2>5
    <3>2. QED
      BY <1>1, <2>3, <2>5, <3>1 DEF HeaderFirst, Building
  <2>6. CASE pc \notin {"header", "doctable"}
    <3>1. pc # "fopen" /\ pc' \notin {"fopen", "header", "doctable"}
      BY <1>1, <2>1, <2>6 DEF Idle
    <3>2. pc' \in Building => \A y \in DOMAIN indexlist' : y > i' => offset'[y] = 0
      BY <1>1, <2>3
    <3>3. QED
      BY <3>1, <3>2 DEF HeaderFirst, Building
  <2>7. QED
    BY <2>4, <2>5, <2>6
<1>16. Undisturbed'
  BY <1>12, <1>13, <1>14, <1>15 DEF Undisturbed
<1>17. ASSUME Bounded
       PROVE  Bounded'
  <2>1. InFile(s, size)
    BY <1>3, <1>17 DEF Bounded, s, size, x
  <2>2. InFile(at.stream, size)
    <3>1. CASE r.seek
      <4>1. at = FSeek(s, r.at) /\ r.at <= size
        BY <1>4, <1>8, <3>1
      <4>2. QED
        BY <1>4, <2>1, <4>1, FSeekInFile
    <3>2. CASE ~r.seek
      BY <1>8, <2>1, <3>2
    <3>3. QED
      BY <3>1, <3>2
  <2>3. InFile(got.stream, size) /\ got.offset \in 0..size
    BY <1>11, <2>2, FReadInFile
  <2>4. streams' = [streams EXCEPT ![reading] = got.stream] /\ offset' = [offset EXCEPT ![x] = got.offset]
    BY <1>7 DEF x
  <2>5. Opened' = Opened
    BY <2>4 DEF Opened
  <2>6. ASSUME NEW y \in Opened
        PROVE  y[1] \in 1..Len(indexlist) /\ InFile(streams'[y], files[y[1]].size)
    <3>1. CASE y = reading
      BY <1>3, <1>17, <2>3, <2>4, <3>1 DEF Opened, x, size
    <3>2. CASE y # reading
      BY <1>17, <2>4, <3>2 DEF Bounded, Opened
    <3>3. QED
      BY <3>1, <3>2
  <2>7. ASSUME NEW y \in 1..Len(indexlist)
        PROVE  offset'[y] \in 0..files[y].size
    <3>1. CASE y = x
      BY <1>5, <2>3, <2>4, <3>1 DEF size
    <3>2. CASE y # x
      BY <1>5, <1>17, <2>4, <3>2 DEF Bounded
    <3>3. QED
      BY <3>1, <3>2
  <2>8. QED
    BY <1>1, <2>5, <2>6, <2>7 DEF Bounded
<1>18. QED
  BY <1>16, <1>17

(* FILEs stay as they are, are opened or are closed. *)
LEMMA SameStreams ==
    ASSUME StreamsOK, streams' = streams, offset' = offset, indexlist' = indexlist
    PROVE  StreamsOK'
BY DEF StreamsOK, Opened

(* A FILE that has just been opened has an empty buffer. *)
LEMMA WithStreams ==
    ASSUME StreamsOK, NEW name, streams' = With(name), offset' = offset, indexlist' = indexlist
    PROVE  StreamsOK'
<1>1. Opened' = Opened \cup {<<i, name>>}
  BY DEF Opened, With
<1>2. Fresh \in Streams
  BY DEF Fresh, Streams
<1>3. \A s \in Opened' : streams'[s] \in Streams
  BY <1>1, <1>2 DEF StreamsOK, With
<1>4. QED
  BY <1>3 DEF StreamsOK

(* Closing one FILE leaves the buffers of the others. *)
LEMMA WithoutStreams ==
    ASSUME StreamsOK, NEW closed, streams' = Without(closed), indexlist' = indexlist,
           offset' \in [1..Len(indexlist) -> Int]
    PROVE  StreamsOK'
<1>1. Opened' = Opened \ closed
  BY DEF Opened, Without
<1>2. \A s \in Opened' : streams'[s] \in Streams
  BY <1>1 DEF StreamsOK, Without
<1>3. QED
  BY <1>2 DEF StreamsOK

(* fclose may move the offset of its own index file. *)
LEMMA FCloseStreams ==
    ASSUME StreamsOK, NEW name, <<i, name>> \in Opened, FClose(name), indexlist' = indexlist
    PROVE  /\ StreamsOK'
           /\ \A x \in 1..Len(indexlist) : x # i => offset'[x] = offset[x]
<1>1. streams[<<i, name>>].pos \in Int /\ offset \in [1..Len(indexlist) -> Int]
  BY DEF StreamsOK, Streams
<1>2. PICK back \in BOOLEAN :
         offset' = IF back THEN [offset EXCEPT ![i] = streams[<<i, name>>].pos] ELSE offset
  BY DEF FClose
<1>3. offset' \in [1..Len(indexlist) -> Int]
  BY <1>1, <1>2
<1>4. \A x \in 1..Len(indexlist) : x # i => offset'[x] = offset[x]
  BY <1>1, <1>2
<1>5. StreamsOK'
  BY <1>3, WithoutStreams DEF FClose
<1>6. QED
  BY <1>4, <1>5

(* Outside the constructor the header has been read. *)
LEMMA OutsideStep ==
    ASSUME StreamsOK', misread' = misread, Undisturbed, pc' \notin Building,
           \/ runs' = <<>>
           \/ pc' \notin Idle /\ reading' = <<i', ReaderInUse'>>
    PROVE  Undisturbed'
<1>1. InUse'
  BY DEF InUse
<1>2. HeaderFirst'
  BY DEF HeaderFirst, Building
<1>3. QED
  BY <1>1, <1>2 DEF Undisturbed

(* The process ends with nothing left to read. *)
LEMMA ExitUndisturbed ==
    ASSUME Undisturbed, runs = <<>>, Exit
    PROVE  Undisturbed'
<1>1. /\ pc' = "exited" /\ runs' = <<>> /\ streams' = streams /\ offset' = offset
      /\ indexlist' = indexlist /\ misread' = misread
  BY DEF Exit, args, input
<1>2. StreamsOK'
  BY <1>1, SameStreams DEF Undisturbed
<1>3. QED
  BY <1>1, <1>2, OutsideStep DEF Building

(* A new FILE is about to read the header of its table, after an fseek. *)
LEMMA NewReaderUndisturbed ==
    ASSUME Undisturbed, runs = <<>>, NEW name, NEW at, NEW then, NewReader(name, at, then),
           \/ pc = "doctable" /\ name = "doctable" /\ then = "indextable"
           \/ pc = "indextable" /\ name = "indextable" /\ then = "fclose"
           \/ pc = "found?" /\ name = "postings" /\ then = "list"
    PROVE  Undisturbed'
<1>1. CASE Exit
  BY <1>1, ExitUndisturbed
<1>2. CASE ~Exit
  <2>1. /\ pc' = then /\ i' = i /\ indexlist' = indexlist /\ streams' = With(name)
        /\ offset' = offset /\ misread' = misread /\ reading' = <<i, name>>
    BY <1>2 DEF NewReader, Reads, args
  <2>2. StreamsOK'
    BY <2>1, WithStreams DEF Undisturbed
  <2>3. pc' \notin Idle /\ reading' = <<i', ReaderInUse'>>
    BY <2>1 DEF Idle, ReaderInUse
  <2>4. HeaderFirst'
    BY <2>1 DEF HeaderFirst, Undisturbed
  <2>5. InUse'
    BY <2>3 DEF InUse
  <2>6. QED
    BY <2>1, <2>2, <2>4, <2>5 DEF Undisturbed
<1>3. QED
  BY <1>1, <1>2

(* The constructor. *)
LEMMA ConstructUndisturbed == Kept /\ Undisturbed /\ Construct => Undisturbed'
<1> SUFFICES ASSUME Kept, Undisturbed, Construct
             PROVE  Undisturbed'
  OBVIOUS
<1>1. OpenFilesAre /\ Listed
  BY OpenFilesIs DEF Kept
<1>2. CASE FOpen
  <2>0. pc = "fopen" /\ runs = <<>>
    BY <1>2 DEF FOpen, Undisturbed, InUse, Idle
  <2>1. CASE Exit
    BY <2>0, <2>1, ExitUndisturbed
  <2>2. CASE ~Exit
    <3>1. /\ pc' = "header" /\ i' = i /\ indexlist' = indexlist /\ streams' = With("file")
          /\ offset' = offset /\ misread' = misread /\ reading' = <<i, "file">>
          /\ runs' = <<[seek |-> FALSE, at |-> 0, len |-> FileHeaderSize]>>
      BY <1>2, <2>2 DEF FOpen, Reads, args
    <3>2. StreamsOK'
      BY <3>1, WithStreams DEF Undisturbed
    <3>3. InUse'
      BY <3>1 DEF InUse, Idle, ReaderInUse
    <3>4. /\ offset[i] = 0
          /\ \A x \in DOMAIN indexlist : x > i => offset[x] = 0
      BY <1>1, <2>0 DEF Undisturbed, HeaderFirst, Listed
    <3>5. streams'[<<i, "file">>] = Fresh
      BY <3>1 DEF With
    <3>6. FileAt(0, FileHeaderSize)' /\ runs' # <<>>
      BY <3>1, <3>4, <3>5 DEF FileAt, Fresh, FileHeaderSize
    <3>7. HeaderFirst'
      BY <3>1, <3>4, <3>6 DEF HeaderFirst
    <3>8. QED
      BY <3>1, <3>2, <3>3, <3>7 DEF Undisturbed
  <2>3. QED
    BY <2>1, <2>2
<1>3. CASE CheckHeader
  <2>0. pc = "header" /\ runs = <<>>
    BY <1>3 DEF CheckHeader
  <2>1. CASE Exit
    BY <2>0, <2>1, ExitUndisturbed
  <2>2. CASE ~Exit
    <3>1. /\ pc' = "doctable" /\ i' = i /\ indexlist' = indexlist /\ streams' = streams
          /\ files' = files
          /\ offset' = offset /\ misread' = misread /\ reading' = <<i, "file">>
          /\ \/ runs' = <<>>
             \/ runs' = <<[seek |-> FALSE, at |-> FileHeaderSize, len |-> files[i].size - FileHeaderSize]>>
      BY <1>3, <2>2 DEF CheckHeader, Reads, args
    <3>2. StreamsOK'
      BY <3>1, SameStreams DEF Undisturbed
    <3>3. InUse'
      BY <3>1 DEF InUse, Idle, ReaderInUse
    <3>4. FileAt(FileHeaderSize, FileHeaderSize)
      BY <2>0 DEF Undisturbed, HeaderFirst
    <3>5. FileAt(FileHeaderSize, files[i].size)'
      BY <3>1, <3>4 DEF FileAt
    <3>6. HeaderFirst'
      BY <2>0, <3>1, <3>5 DEF HeaderFirst, Undisturbed
    <3>7. QED
      BY <3>1, <3>2, <3>3, <3>6 DEF Undisturbed
  <2>3. QED
    BY <2>1, <2>2
<1>4. CASE NewDocTableReader
  BY <1>4, NewReaderUndisturbed DEF NewDocTableReader
<1>5. CASE NewIndexTableReader
  BY <1>5, NewReaderUndisturbed DEF NewIndexTableReader
<1>6. CASE CloseIndexFile
  <2>1. /\ pc = "fclose" /\ runs = <<>> /\ runs' = <<>> /\ indexlist' = indexlist
        /\ FClose("file") /\ misread' = misread
        /\ IF i < Len(indexlist) THEN i' = i + 1 /\ pc' = "fopen" ELSE i' = i /\ pc' = "ready"
    BY <1>6 DEF CloseIndexFile, args
  <2>2. <<i, "file">> \in Opened
    BY <1>1, <2>1 DEF OpenFilesAre, Kept, Places
  <2>3. StreamsOK' /\ \A x \in 1..Len(indexlist) : x # i => offset'[x] = offset[x]
    BY <2>1, <2>2, FCloseStreams DEF Undisturbed
  <2>4. InUse'
    BY <2>1 DEF InUse
  <2>5. HeaderFirst'
    <3>1. \A x \in DOMAIN indexlist : x > i => offset'[x] = 0
      BY <1>1, <2>1, <2>3 DEF Undisturbed, HeaderFirst, Listed
    <3>2. CASE i < Len(indexlist)
      <4>1. i' = i + 1 /\ pc' = "fopen" /\ i \in Nat /\ DOMAIN indexlist \subseteq Nat
        BY <1>1, <2>1, <3>2 DEF Listed
      <4>2. \A x \in DOMAIN indexlist : x > i' \/ x = i' => offset'[x] = 0
        BY <3>1, <4>1
      <4>3. QED
        BY <2>1, <4>1, <4>2 DEF HeaderFirst
    <3>3. CASE ~(i < Len(indexlist))
      BY <2>1, <3>3 DEF HeaderFirst
    <3>4. QED
      BY <3>2, <3>3
  <2>6. QED
    BY <2>1, <2>3, <2>4, <2>5 DEF Undisturbed
<1>7. QED
  BY <1>2, <1>3, <1>4, <1>5, <1>6 DEF Construct

(* A query's steps. *)
LEMMA AnswerUndisturbed == Kept /\ Undisturbed /\ Answer => Undisturbed'
<1> SUFFICES ASSUME Kept, Undisturbed, Answer
             PROVE  Undisturbed'
  OBVIOUS
<1>1. CASE LookupQueryWord
  <2>1. /\ pc' = "found?" /\ i' = i /\ indexlist' = indexlist /\ streams' = streams
        /\ offset' = offset /\ misread' = misread /\ reading' = <<i, "indextable">>
    BY <1>1 DEF LookupQueryWord, Reads, args
  <2>2. StreamsOK'
    BY <2>1, SameStreams DEF Undisturbed
  <2>3. pc' \notin Idle /\ reading' = <<i', ReaderInUse'>> /\ pc' \notin Building
    BY <2>1 DEF Idle, Building, ReaderInUse
  <2>4. QED
    BY <2>1, <2>2, <2>3, OutsideStep
<1>2. CASE NewDocIDTableReader
  BY <1>2, NewReaderUndisturbed DEF NewDocIDTableReader
<1>3. CASE WordMissing
  <2>1. /\ pc' \in {"lookup", "documents"} /\ runs' = <<>> /\ indexlist' = indexlist
        /\ streams' = streams /\ offset' = offset /\ misread' = misread
    BY <1>3 DEF WordMissing, args, input
  <2>2. StreamsOK'
    BY <2>1, SameStreams DEF Undisturbed
  <2>3. QED
    BY <2>1, <2>2, OutsideStep DEF Building
<1>4. CASE ReadDocIDList
  <2>1. /\ pc' = "combine" /\ i' = i /\ indexlist' = indexlist /\ streams' = streams
        /\ offset' = offset /\ misread' = misread /\ reading' = <<i, "postings">>
    BY <1>4 DEF ReadDocIDList, Reads, args
  <2>2. StreamsOK'
    BY <2>1, SameStreams DEF Undisturbed
  <2>3. pc' \notin Idle /\ reading' = <<i', ReaderInUse'>> /\ pc' \notin Building
    BY <2>1 DEF Idle, Building, ReaderInUse
  <2>4. QED
    BY <2>1, <2>2, <2>3, OutsideStep
<1>5. CASE Combine
  <2>1. /\ pc = "combine" /\ pc' \in {"lookup", "documents"} /\ runs' = <<>>
        /\ indexlist' = indexlist /\ FClose("postings") /\ misread' = misread
    BY <1>5 DEF Combine, Combined, args
  <2>2. <<i, "postings">> \in Opened
    BY <2>1, OpenFilesIs DEF OpenFilesAre, Kept, Places
  <2>3. StreamsOK'
    BY <2>1, <2>2, FCloseStreams DEF Undisturbed
  <2>4. QED
    BY <2>1, <2>3, OutsideStep DEF Building
<1>6. CASE NameDocument
  <2>0. pc = "documents" /\ runs = <<>>
    BY <1>6 DEF NameDocument
  <2>1. CASE Exit
    BY <2>0, <2>1, ExitUndisturbed
  <2>2. CASE ~Exit
    <3>1. /\ pc' = "documents" /\ i' = i /\ indexlist' = indexlist /\ streams' = streams
          /\ offset' = offset /\ misread' = misread /\ reading' = <<i, "doctable">>
      BY <1>6, <2>2 DEF NameDocument, Reads, args
    <3>2. StreamsOK'
      BY <3>1, SameStreams DEF Undisturbed
    <3>3. pc' \notin Idle /\ reading' = <<i', ReaderInUse'>> /\ pc' \notin Building
      BY <3>1 DEF Idle, Building, ReaderInUse
    <3>4. QED
      BY <3>1, <3>2, <3>3, OutsideStep
  <2>3. QED
    BY <2>1, <2>2
<1>7. CASE NextIndex
  <2>1. /\ pc' \in {"lookup", "sort"} /\ runs' = <<>> /\ indexlist' = indexlist
        /\ streams' = streams /\ offset' = offset /\ misread' = misread
    BY <1>7 DEF NextIndex, args, input
  <2>2. StreamsOK'
    BY <2>1, SameStreams DEF Undisturbed
  <2>3. QED
    BY <2>1, <2>2, OutsideStep DEF Building
<1>8. CASE Sort
  <2>1. /\ pc = "sort" /\ pc' = "ready" /\ runs' = runs /\ indexlist' = indexlist
        /\ streams' = streams /\ offset' = offset /\ misread' = misread
    BY <1>8 DEF Sort, args, input
  <2>2. runs = <<>>
    BY <2>1 DEF Undisturbed, InUse, Idle
  <2>3. StreamsOK'
    BY <2>1, SameStreams DEF Undisturbed
  <2>4. QED
    BY <2>1, <2>2, <2>3, OutsideStep DEF Building
<1>9. QED
  BY <1>1, <1>2, <1>3, <1>4, <1>5, <1>6, <1>7, <1>8 DEF Answer

(* A query comes when nothing is being read. *)
LEMMA ProcessQueryUndisturbed ==
    ASSUME Undisturbed, NEW q, ProcessQuery(q)
    PROVE  Undisturbed'
<1>1. /\ pc = "ready" /\ pc' \in {"lookup", "exited"} /\ runs' = runs /\ indexlist' = indexlist
      /\ streams' = streams /\ offset' = offset /\ misread' = misread
  BY DEF ProcessQuery, args, input
<1>2. runs = <<>>
  BY <1>1 DEF Undisturbed, InUse, Idle
<1>3. StreamsOK'
  BY <1>1, SameStreams DEF Undisturbed
<1>4. QED
  BY <1>1, <1>2, <1>3, OutsideStep DEF Building

(* A search opens its index files anew, at their start. *)
LEMMA ServerUndisturbed ==
    ASSUME Kept, Undisturbed,
           \/ SearchPage
           \/ \E r \in Parsed : ProcessFileRequest(r) \/ ShowSearchBox(r) \/ StartSearch(r)
    PROVE  Undisturbed'
<1>1. CASE SearchPage
  <2>1. /\ pc = "ready" /\ pc' = "destroyed" /\ streams' = Without(Readers) /\ runs' = runs
        /\ indexlist' = indexlist /\ offset' = offset /\ misread' = misread
    BY <1>1 DEF SearchPage, Destroy, args
  <2>2. runs = <<>>
    BY <2>1 DEF Undisturbed, InUse, Idle
  <2>3. StreamsOK /\ offset' \in [1..Len(indexlist) -> Int]
    BY <2>1 DEF Undisturbed, StreamsOK
  <2>4. StreamsOK'
    BY <2>1, <2>3, WithoutStreams
  <2>5. QED
    BY <2>1, <2>2, <2>4, OutsideStep DEF Building
<1>2. ASSUME NEW r \in Parsed, ProcessFileRequest(r) \/ ShowSearchBox(r)
      PROVE  Undisturbed'
  <2>1. /\ pc = "destroyed" /\ pc' = pc /\ streams' = streams /\ runs' = runs
        /\ indexlist' = indexlist /\ offset' = offset /\ misread' = misread
    BY <1>2 DEF ProcessFileRequest, ShowSearchBox, NextRequest, vars, args, input
  <2>2. runs = <<>>
    BY <2>1 DEF Undisturbed, InUse, Idle
  <2>3. StreamsOK'
    BY <2>1, SameStreams DEF Undisturbed
  <2>4. QED
    BY <2>1, <2>2, <2>3, OutsideStep DEF Building
<1>3. ASSUME NEW r \in Parsed, StartSearch(r)
      PROVE  Undisturbed'
  <2>1. /\ pc = "destroyed" /\ pc' = "fopen" /\ i' = 1 /\ streams' = streams /\ runs' = runs
        /\ indexlist' = indexlist /\ misread' = misread
        /\ offset' = [x \in DOMAIN indexlist |-> 0]
    BY <1>3 DEF StartSearch, NextRequest, args
  <2>2. runs = <<>>
    BY <2>1 DEF Undisturbed, InUse, Idle
  <2>3. offset' \in [1..Len(indexlist) -> Int]
    BY <2>1 DEF Kept, Listed
  <2>4. StreamsOK'
    BY <2>1, <2>3 DEF Undisturbed, StreamsOK, Opened
  <2>5. InUse'
    BY <2>1, <2>2 DEF InUse
  <2>6. HeaderFirst'
    BY <2>1 DEF HeaderFirst
  <2>7. QED
    BY <2>1, <2>4, <2>5, <2>6 DEF Undisturbed
<1>4. QED
  BY <1>1, <1>2, <1>3

(* No step lets a FILE read at another's place. *)
LEMMA UndisturbedStep ==
    Kept /\ Undisturbed /\ RunsInside /\ [RequestNext]_webVars => Undisturbed'
<1> SUFFICES ASSUME Kept, Undisturbed, RunsInside, [RequestNext]_webVars
             PROVE  Undisturbed'
  OBVIOUS
<1>1. CASE Read
  BY <1>1, ReadUndisturbed
<1>2. CASE Construct \/ Answer
  BY <1>2, ConstructUndisturbed, AnswerUndisturbed
<1>3. CASE SearchTerms \/ Shell
  BY <1>3, ProcessQueryUndisturbed DEF SearchTerms, Shell, ShellQuery
<1>4. CASE SearchPage \/ \E r \in Parsed : ProcessFileRequest(r) \/ ShowSearchBox(r) \/ StartSearch(r)
  BY <1>4, ServerUndisturbed
<1>5. CASE UNCHANGED webVars
  <2>1. /\ pc' = pc /\ i' = i /\ streams' = streams /\ runs' = runs /\ reading' = reading
        /\ indexlist' = indexlist /\ offset' = offset /\ misread' = misread /\ files' = files
    BY <1>5 DEF webVars, vars, args, input
  <2>2. StreamsOK'
    BY <2>1, SameStreams DEF Undisturbed
  <2>3. InUse'
    BY <2>1 DEF Undisturbed, InUse, ReaderInUse
  <2>4. HeaderFirst'
    BY <2>1 DEF Undisturbed, HeaderFirst, FileAt
  <2>5. QED
    BY <2>1, <2>2, <2>3, <2>4 DEF Undisturbed
<1>6. QED
  BY <1>1, <1>2, <1>3, <1>4, <1>5 DEF RequestNext, Program, Step

-----------------------------------------------------------------------------
(* What the readers find in an index file.                                 *)

(* The contents of a complete file: its two tables, one after the other.   *)
IsReadable(c, size, tables, D, docs, words, mid) ==
    /\ IsData(D) /\ Shows(c, ToSet(docs)) /\ Shows(c, ToSet(words))
    /\ mid = FileHeaderSize + c[0].doctableBytes
    /\ mid \in Nat /\ size \in Nat /\ mid <= size
    /\ HasTable(D, docs, FileHeaderSize, tables.dt, DocFn(tables.dt), mid)
    /\ ElementsFit(D, DocFn(tables.dt), Elements(tables.dt))
    /\ HasTable(D, words, mid, tables.mi, WordFn(tables.mi), size)
    /\ ElementsFit(D, WordFn(tables.mi), Elements(tables.mi))
    /\ \A e \in Elements(tables.mi) : [text |-> e.word] \in D

(* The contents of a file are those of some such layout. *)
Readable(c, size, tables) ==
    \E D, docs, words, mid : IsReadable(c, size, tables, D, docs, words, mid)

(* What is assumed of each index file's tables. *)
AreTables(tables) ==
    /\ IsDocTable(tables.dt)
    /\ \A d, e \in Elements(tables.dt) : d.name = e.name => d = e
    /\ IsMemIndex(tables.mi)
    /\ tables.complete \in BOOLEAN

(* A file's writes: those of the two tables and, if it is complete, the    *)
(* header.                                                                 *)
LEMMA IndexFileIs ==
    ASSUME NEW tables, AreTables(tables)
    PROVE  LET f == IndexFile(tables)
           IN  /\ f.size \in Nat /\ FileHeaderSize <= f.size
               /\ f.opens => tables.complete
               /\ tables.complete => Readable(f.contents, f.size, tables)
<1> DEFINE dtable == tables.dt
           mindex == tables.mi
           D == Data(dtable, mindex)
           docs == WriteDocTable(dtable, FileHeaderSize)
           mid == FileHeaderSize + Bytes(docs)
           words == WriteMemIndex(mindex, mid)
           to == mid + Bytes(words)
           d == [doctableBytes |-> Bytes(docs), indexBytes |-> Bytes(words)]
           h == Seek(0, FileHeaderSize, d)
           header == IF tables.complete THEN {h} ELSE {}
           T == ToSet(docs \o words)
           ws == T \cup header
           f == IndexFile(tables)
<1>1. IsDocTable(dtable) /\ IsMemIndex(mindex) /\ tables.complete \in BOOLEAN
  BY DEF AreTables
<1>2. /\ HasTable(D, docs, FileHeaderSize, dtable, DocFn(dtable), mid)
      /\ ElementsFit(D, DocFn(dtable), Elements(dtable))
      /\ HasTable(D, words, mid, mindex, WordFn(mindex), to)
      /\ ElementsFit(D, WordFn(mindex), Elements(mindex))
      /\ Tiles(D, docs \o words, FileHeaderSize, to)
      /\ T = ToSet(docs) \cup ToSet(words)
      /\ Bytes(docs) \in Nat /\ Bytes(words) \in Nat /\ FileHeaderSize < to
  BY <1>1, FileLaid, Zenon
<1>3. /\ IsData(D)
      /\ \A e \in Elements(mindex) : [text |-> e.word] \in D
  BY DataIs, Zenon
<1>4. f = [size |-> FileSize(ws), opens |-> OpensAsIndex(ws), contents |-> Contents(ws)]
  BY DEF IndexFile, IndexHeader
<1> HIDE DEF D, docs, words, h, f
<1>5. /\ mid \in Nat /\ to \in Nat /\ mid <= to /\ FileHeaderSize \in Nat /\ FileHeaderSize = 16
  BY <1>2 DEF FileHeaderSize
<1>6. /\ \A v, x \in T : v # x => Apart(v, x)
      /\ \A v \in T : v.at >= FileHeaderSize /\ v \in Writes(D)
      /\ FileSize(T) = to
  <2>1. Tiles(D, docs \o words, FileHeaderSize, to) /\ FileHeaderSize < to
    BY <1>2
  <2> HIDE DEF to
  <2>2. QED
    BY <2>1, TilesSet, Zenon
<1>7. h.at = 0 /\ h.len = FileHeaderSize /\ h.data = d
  BY DEF h, Seek
<1> HIDE DEF d, T, mid, to
<1>8. \A v \in T : v.at \in Nat /\ v.len \in Nat \ {0} /\ v.at # 0
  <2>1. \A v \in Writes(D) : v.at \in Nat /\ v.len \in Nat \ {0}
    BY DEF Writes
  <2>2. QED
    BY <1>5, <1>6, <2>1
<1>9. \A v, x \in ws : v # x => v.at # x.at
  <2>1. \A v, x \in T : v # x => v.at # x.at
    <3>1. ASSUME NEW v \in T, NEW x \in T, v.at = x.at
          PROVE  ~Apart(v, x)
      BY <1>8, <3>1 DEF Apart
    <3>2. QED
      BY <1>6, <3>1
  <2>2. \A v \in T : v.at # h.at
    BY <1>7, <1>8
  <2>3. QED
    BY <2>1, <2>2
<1>10. FileSize(ws) = to
  <2> DEFINE M == {0} \cup {x.at + x.len : x \in ws}
  <2>1. (\E v \in T : v.at + v.len = to) /\ \A v \in T : Within(v, FileHeaderSize, to)
    BY <1>2, <1>5 DEF Tiles, EndsAt, T
  <2>2. to \in M
    BY <2>1
  <2>3. \A y \in M : y \in Nat /\ to >= y
    <3>1. \A v \in T : v.at + v.len \in Nat /\ to >= v.at + v.len
      BY <1>5, <1>8, <2>1 DEF Within
    <3>2. h.at + h.len \in Nat /\ to >= h.at + h.len
      BY <1>2, <1>5, <1>7
    <3>3. 0 <= to
      BY <1>5
    <3>4. QED
      BY <1>5, <3>1, <3>2, <3>3
  <2>4. \A y \in M : (\A z \in M : y >= z) => y = to
    BY <1>5, <2>2, <2>3
  <2>5. FileSize(ws) = CHOOSE y \in M : \A z \in M : y >= z
    BY DEF FileSize, Max
  <2> HIDE DEF M
  <2>6. QED
    BY <2>2, <2>3, <2>4, <2>5
<1> HIDE DEF ws
<1>11. f.size = to /\ f.opens = OpensAsIndex(ws) /\ f.contents = Contents(ws)
  BY <1>4, <1>10
<1>12. OpensAsIndex(ws) => tables.complete
  <2> SUFFICES ASSUME OpensAsIndex(ws), ~tables.complete
               PROVE  FALSE
    BY <1>1
  <2>1. PICK x \in ws : x.at = 0
    BY DEF OpensAsIndex
  <2>2. x \in T
    BY <2>1 DEF ws
  <2>3. QED
    BY <1>8, <2>1, <2>2
<1>13. ASSUME tables.complete
       PROVE  Readable(Contents(ws), to, tables)
  <2> DEFINE c == Contents(ws)
  <2>1. Shows(c, ws)
    BY <1>9, ContentsShow, Zenon
  <2>2. h \in ws /\ T \subseteq ws
    BY <1>13 DEF ws
  <2>3. c[0] = d
    <3>1. c[h.at] = h.data
      BY <2>1, <2>2, Zenon DEF Shows
    <3>2. QED
      BY <1>7, <3>1
  <2> HIDE DEF c
  <2>4. Shows(c, ToSet(docs)) /\ Shows(c, ToSet(words))
    BY <1>2, <2>1, <2>2 DEF Shows
  <2>5. mid = FileHeaderSize + c[0].doctableBytes
    BY <2>3 DEF d, mid
  <2>6. IsReadable(c, to, tables, D, docs, words, mid)
    BY <1>2, <1>3, <1>5, <2>4, <2>5 DEF IsReadable
  <2>7. QED
    BY <2>6, Zenon DEF Readable, c
<1>14. FileHeaderSize <= to
  BY <1>2, <1>5
<1>15. QED
  BY <1>5, <1>11, <1>12, <1>13, <1>14, Zenon DEF f

(* A docID table in such a file. *)
ListAt(c, at, postings, size) ==
    /\ at \in Nat /\ at # 0 /\ size \in Nat
    /\ \E D, ws, to : /\ IsData(D) /\ Shows(c, ToSet(ws)) /\ to \in Nat /\ to <= size
                      /\ HasTable(D, ws, at, postings, PostingsFn(postings), to)

(* The headers of both tables are inside the file. *)
LEMMA HeadersInside ==
    ASSUME NEW c, NEW size, NEW tables, AreTables(tables), Readable(c, size, tables)
    PROVE  /\ size \in Nat
           /\ Inside(HeaderRuns(FileHeaderSize), size)
           /\ Inside(HeaderRuns(FileHeaderSize + c[0].doctableBytes), size)
<1>1. PICK D, docs, words, mid : IsReadable(c, size, tables, D, docs, words, mid)
  BY Zenon DEF Readable
<1> DEFINE dtable == tables.dt
           mindex == tables.mi
           key == 0
<1>2. /\ IsData(D) /\ Shows(c, ToSet(docs)) /\ Shows(c, ToSet(words))
      /\ mid = FileHeaderSize + c[0].doctableBytes
      /\ mid \in Nat /\ size \in Nat /\ mid <= size
      /\ HasTable(D, docs, FileHeaderSize, dtable, DocFn(dtable), mid)
      /\ ElementsFit(D, DocFn(dtable), Elements(dtable))
      /\ HasTable(D, words, mid, mindex, WordFn(mindex), size)
      /\ ElementsFit(D, WordFn(mindex), Elements(mindex))
      /\ \A e \in Elements(mindex) : [text |-> e.word] \in D
  BY <1>1, Zenon DEF IsReadable
<1>3. IsDocTable(dtable) /\ IsMemIndex(mindex)
  BY DEF AreTables
<1>4. FileHeaderSize \in Nat /\ 0 \in Nat
  BY DEF FileHeaderSize
<1> HIDE DEF dtable, mindex
<1>5. Inside(HeaderRuns(FileHeaderSize), mid)
  BY <1>2, <1>3, <1>4, DocRunsInside
<1>6. Inside(HeaderRuns(mid), size)
  <2> DEFINE q == [key |-> 0]
  <2>1. q.key \in Nat
    OBVIOUS
  <2> HIDE DEF q
  <2>2. QED
    BY <1>2, <1>3, <2>1, WordRunsInside
<1>7. QED
  BY <1>2, <1>5, <1>6, RunsInsideWider

(* A document is looked up inside the file, and found if it is in the      *)
(* table.                                                                  *)
LEMMA DocIsNamed ==
    ASSUME NEW c, NEW size, NEW tables, AreTables(tables), Readable(c, size, tables),
           NEW docid \in Nat
    PROVE  /\ Inside(ElementPositionsRuns(c, FileHeaderSize, docid)
                     \o DocTableRuns(c, LookupElementPositions(c, FileHeaderSize, docid), docid), size)
           /\ \A d \in Elements(tables.dt) : d.key = docid =>
                 DocTable_LookupDocID(c, FileHeaderSize, docid) = [found |-> TRUE, name |-> d.name]
           /\ (\A d \in Elements(tables.dt) : d.key # docid) =>
                 DocTable_LookupDocID(c, FileHeaderSize, docid) = NotFound
<1>1. PICK D, docs, words, mid : IsReadable(c, size, tables, D, docs, words, mid)
  BY Zenon DEF Readable
<1> DEFINE dtable == tables.dt
           a == ElementPositionsRuns(c, FileHeaderSize, docid)
           b == DocTableRuns(c, LookupElementPositions(c, FileHeaderSize, docid), docid)
<1>2. /\ Shows(c, ToSet(docs))
      /\ mid \in Nat /\ size \in Nat /\ mid <= size
      /\ HasTable(D, docs, FileHeaderSize, dtable, DocFn(dtable), mid)
      /\ ElementsFit(D, DocFn(dtable), Elements(dtable))
  BY <1>1, Zenon DEF IsReadable
<1>3. IsDocTable(dtable)
  BY DEF AreTables
<1>4. FileHeaderSize \in Nat
  BY DEF FileHeaderSize
<1> HIDE DEF dtable
<1>5. Inside(a, mid) /\ Inside(b, mid)
  BY <1>2, <1>3, <1>4, DocRunsInside
<1>6. Inside(a \o b, size)
  <2> HIDE DEF a, b
  <2>1. Inside(a, size) /\ Inside(b, size)
    BY <1>2, <1>5, RunsInsideWider
  <2>2. QED
    BY <1>2, <2>1, RunsInsideJoin
<1>7. ASSUME NEW d \in Elements(dtable), d.key = docid
      PROVE  DocTable_LookupDocID(c, FileHeaderSize, docid) = [found |-> TRUE, name |-> d.name]
  <2>1. DocTable_LookupDocID(c, FileHeaderSize, d.key) = [found |-> TRUE, name |-> d.name]
    BY <1>2, <1>3, <1>4, DocLookup
  <2>2. QED
    BY <1>7, <2>1
<1>8. ASSUME \A d \in Elements(dtable) : d.key # docid
      PROVE  DocTable_LookupDocID(c, FileHeaderSize, docid) = NotFound
  BY <1>2, <1>3, <1>4, <1>8, NoDocument
<1>9. QED
  BY <1>6, <1>7, <1>8 DEF dtable

(* A word is looked up inside the file, and its docID table is found if it *)
(* has one.                                                                *)
LEMMA WordIsLooked ==
    ASSUME NEW c, NEW size, NEW tables, AreTables(tables), Readable(c, size, tables),
           NEW q, q.key \in Nat,
           \A e \in Elements(tables.mi) : e.word = q.word => e.key = q.key /\ e.len = q.len
    PROVE  LET index == FileHeaderSize + c[0].doctableBytes
           IN  /\ Inside(ElementPositionsRuns(c, index, q.key)
                         \o LookupWordRuns(c, LookupElementPositions(c, index, q.key), q), size)
               /\ \A e \in Elements(tables.mi) : e.word = q.word =>
                     \E start : /\ LookupWord(c, index, q) = [found |-> TRUE, table |-> start]
                                /\ ListAt(c, start, e.postings, size)
               /\ (\A e \in Elements(tables.mi) : e.word # q.word) =>
                     LookupWord(c, index, q) = NotFound
<1>1. PICK D, docs, words, mid : IsReadable(c, size, tables, D, docs, words, mid)
  BY Zenon DEF Readable
<1> DEFINE mindex == tables.mi
           a == ElementPositionsRuns(c, mid, q.key)
           b == LookupWordRuns(c, LookupElementPositions(c, mid, q.key), q)
<1>2. /\ IsData(D) /\ Shows(c, ToSet(words))
      /\ mid = FileHeaderSize + c[0].doctableBytes
      /\ mid \in Nat /\ size \in Nat /\ mid <= size
      /\ HasTable(D, words, mid, mindex, WordFn(mindex), size)
      /\ ElementsFit(D, WordFn(mindex), Elements(mindex))
      /\ \A e \in Elements(mindex) : [text |-> e.word] \in D
  BY <1>1, Zenon DEF IsReadable
<1>3. IsMemIndex(mindex)
  BY DEF AreTables
<1> HIDE DEF mindex
<1>4. Inside(a \o b, size)
  <2>1. Inside(a, size) /\ Inside(b, size)
    BY <1>2, <1>3, WordRunsInside
  <2> HIDE DEF a, b
  <2>2. QED
    BY <1>2, <2>1, RunsInsideJoin
<1>5. ASSUME NEW e \in Elements(mindex), e.word = q.word
      PROVE  \E start : /\ LookupWord(c, mid, q) = [found |-> TRUE, table |-> start]
                        /\ ListAt(c, start, e.postings, size)
  <2>1. PICK start \in Nat :
           /\ start # 0
           /\ LookupWord(c, mid, e) = [found |-> TRUE, table |-> start]
           /\ \E nested, end : /\ HasTable(D, nested, start, e.postings, PostingsFn(e.postings), end)
                               /\ Shows(c, ToSet(nested))
                               /\ end <= size
    BY <1>2, <1>3, WordLookup, ZenonT(40)
  <2>2. PICK nested, end : /\ HasTable(D, nested, start, e.postings, PostingsFn(e.postings), end)
                           /\ Shows(c, ToSet(nested))
                           /\ end <= size
    BY <2>1, Zenon
  <2>3. end \in Nat
    <3>1. Tiles(D, nested, start, end)
      BY <2>2, Zenon DEF HasTable
    <3>2. QED
      BY <3>1, TilesEnd
  <2>4. ListAt(c, start, e.postings, size)
    BY <1>2, <2>1, <2>2, <2>3, Zenon DEF ListAt
  <2>5. LookupWord(c, mid, q) = LookupWord(c, mid, e)
    <3>1. q.key = e.key /\ q.len = e.len /\ q.word = e.word
      BY <1>5 DEF mindex
    <3>2. \A es : WordMatch(c, es, q) = WordMatch(c, es, e)
      BY <3>1 DEF WordMatch
    <3>3. QED
      BY <3>1, <3>2 DEF LookupWord
  <2>6. QED
    BY <2>1, <2>4, <2>5
<1>6. ASSUME \A e \in Elements(mindex) : e.word # q.word
      PROVE  LookupWord(c, mid, q) = NotFound
  BY <1>2, <1>3, <1>6, NoWord
<1>7. QED
  BY <1>2, <1>4, <1>5, <1>6 DEF mindex

(* The documents of a docID table are listed inside the file, each once.   *)
LEMMA ListIsRead ==
    ASSUME NEW c, NEW at, NEW postings, NEW size, ListAt(c, at, postings, size),
           IsPostings(postings)
    PROVE  LET list == GetDocIDList(c, at)
           IN  /\ Inside(HeaderRuns(at), size)
               /\ Inside(GetDocIDListRuns(c, at), size)
               /\ list \in Seq([docID : Nat, numPositions : Nat])
               /\ ToSet(list) = HeadersListed(postings)
               /\ \A j, m \in 1..Len(list) : list[j].docID = list[m].docID => j = m
<1>1. at \in Nat /\ size \in Nat
  BY DEF ListAt
<1>2. PICK D, ws, to : /\ IsData(D) /\ Shows(c, ToSet(ws)) /\ to \in Nat /\ to <= size
                       /\ HasTable(D, ws, at, postings, PostingsFn(postings), to)
  BY Zenon DEF ListAt
<1>3. Inside(HeaderRuns(at), to) /\ Inside(GetDocIDListRuns(c, at), to)
  BY <1>1, <1>2, ListRunsInside
<1>4. Inside(HeaderRuns(at), size) /\ Inside(GetDocIDListRuns(c, at), size)
  BY <1>1, <1>2, <1>3, RunsInsideWider
<1>5. LET list == GetDocIDList(c, at)
      IN  /\ list \in Seq([docID : Nat, numPositions : Nat])
          /\ ToSet(list) = HeadersListed(postings)
          /\ \A j, m \in 1..Len(list) : list[j].docID = list[m].docID => j = m
  BY <1>1, <1>2, ListDiffers
<1>6. QED
  BY <1>4, <1>5

-----------------------------------------------------------------------------
(* Lists of documents. *)

(* The lists that GetDocIDList and ListCombine return. *)
Headers == [docID : Nat, numPositions : Nat]

(* Such a list has each document once. *)
IsList(l) ==
    /\ l \in Seq(Headers)
    /\ \A j, m \in 1..Len(l) : l[j].docID = l[m].docID => j = m

(* A document is in a list. *)
Names(l, x) == \E j \in 1..Len(l) : l[j].docID = x

(* Where ListCombine finds a document in the second list. *)
MatchIn(l, x) == SelectInSeq(l, LAMBDA h : h.docID = x)

(* It is there, unless there is none. *)
LEMMA MatchInIs ==
    ASSUME NEW l \in Seq(Headers), NEW x
    PROVE  /\ MatchIn(l, x) \in 0..Len(l)
           /\ MatchIn(l, x) = 0 <=> ~Names(l, x)
           /\ MatchIn(l, x) # 0 => l[MatchIn(l, x)].docID = x
<1> DEFINE n == Len(l)
           I == {j \in 1..n : l[j].docID = x}
           m == MatchIn(l, x)
<1>1. n \in Nat
  OBVIOUS
<1>2. m = IF I = {} THEN 0 ELSE Min(I)
  BY DEF MatchIn, SelectInSeq
<1>3. I # {} => Min(I) \in I
  <2>1. I \subseteq Nat
    OBVIOUS
  <2> HIDE DEF I
  <2>2. QED
    BY <2>1, MinIs
<1>4. I = {} <=> ~Names(l, x)
  BY DEF Names
<1> HIDE DEF m, n
<1>5. QED
  BY <1>1, <1>2, <1>3, <1>4 DEF m, n

(* The loop of ListCombine: after n documents of the first list. *)
Sum(l1, l2, n) ==
    [docID |-> l1[n].docID,
     numPositions |-> l1[n].numPositions + l2[MatchIn(l2, l1[n].docID)].numPositions]

(* Each iteration appends it if the second list has the document too. *)
Combining(l1, l2, loop) ==
    /\ loop \in [0..Len(l1) -> Seq(Headers)]
    /\ loop[0] = <<>>
    /\ \A n \in 1..Len(l1) :
          loop[n] = IF MatchIn(l2, l1[n].docID) = 0 THEN loop[n - 1]
                    ELSE Append(loop[n - 1], Sum(l1, l2, n))

(* What it appends is a document with its rank. *)
LEMMA SumIs ==
    ASSUME NEW l1 \in Seq(Headers), NEW l2 \in Seq(Headers), NEW n \in 1..Len(l1),
           MatchIn(l2, l1[n].docID) # 0
    PROVE  Sum(l1, l2, n) \in Headers
<1> DEFINE m == MatchIn(l2, l1[n].docID)
<1>1. m \in 1..Len(l2)
  <2>1. m \in 0..Len(l2) /\ m # 0
    BY MatchInIs
  <2> HIDE DEF m
  <2>2. QED
    BY <2>1
<1> HIDE DEF m
<1>2. l1[n] \in Headers /\ l2[m] \in Headers
  <2> HIDE DEF Headers
  <2>1. QED
    BY <1>1
<1>3. Sum(l1, l2, n) = [docID |-> l1[n].docID, numPositions |-> l1[n].numPositions + l2[m].numPositions]
  BY DEF Sum, m
<1>4. l1[n].docID \in Nat /\ l1[n].numPositions \in Nat /\ l2[m].numPositions \in Nat
  BY <1>2 DEF Headers
<1> DEFINE s == l1[n].numPositions + l2[m].numPositions
<1>5. s \in Nat
  BY <1>4
<1> HIDE DEF s
<1>6. [docID |-> l1[n].docID, numPositions |-> s] \in Headers
  BY <1>4, <1>5 DEF Headers
<1>7. QED
  BY <1>3, <1>6, Zenon DEF s

(* ListCombine is that loop. *)
LEMMA CombiningLoop ==
    ASSUME NEW l1 \in Seq(Headers), NEW l2 \in Seq(Headers)
    PROVE  \E loop : Combining(l1, l2, loop) /\ ListCombine(l1, l2) = loop[Len(l1)]
<1> DEFINE S == Seq(Headers)
           N == Len(l1)
           It(n, s) == IF MatchIn(l2, l1[n].docID) = 0 THEN s ELSE Append(s, Sum(l1, l2, n))
           step == [x \in (1..N) \X S |-> It(x[1], x[2])]
           F(g) == [n \in 0..N |-> IF n = 0 THEN <<>> ELSE It(n, g[n - 1])]
           loop == CHOOSE g : g = F(g)
<1>1. N \in Nat
  OBVIOUS
<1>2. <<>> \in S
  OBVIOUS
<1>3. ASSUME NEW n \in 1..N, NEW s \in S
      PROVE  It(n, s) \in S
  <2>1. MatchIn(l2, l1[n].docID) # 0 => Sum(l1, l2, n) \in Headers
    BY SumIs
  <2> HIDE DEF Headers
  <2>2. QED
    BY <2>1
<1>4. ListCombine(l1, l2) = loop[N]
  BY DEF ListCombine, Sum, MatchIn
<1> HIDE DEF S, It
<1>5. step \in [(1..N) \X S -> S]
  BY <1>3
<1> HIDE DEF N
<1>6. PICK h : Recursion(h, N, S, <<>>, step)
  <2> HIDE DEF step
  <2>1. QED
    BY <1>1, <1>2, <1>5, RecursionExists, Zenon
<1>7. h = F(h)
  <2>1. ASSUME NEW m \in 0..N
        PROVE  h[m] = IF m = 0 THEN <<>> ELSE It(m, h[m - 1])
    <3>1. CASE m = 0
      BY <1>6, <3>1 DEF Recursion
    <3>2. CASE m # 0
      <4>1. m \in 1..N /\ m - 1 \in 0..N
        BY <1>1, <3>2
      <4>2. h[m - 1] \in S
        BY <1>6, <4>1 DEF Recursion
      <4>3. step[<<m, h[m - 1]>>] = It(m, h[m - 1])
        BY <4>1, <4>2
      <4>4. QED
        BY <1>6, <3>2, <4>1, <4>3 DEF Recursion
    <3>3. QED
      BY <3>1, <3>2
  <2>2. QED
    BY <1>6, <2>1 DEF Recursion
<1> HIDE DEF F
<1>8. loop = F(loop)
  BY <1>7
<1> HIDE DEF loop
<1>9. /\ loop = [m \in 0..N |-> loop[m]]
      /\ \A m \in 0..N : loop[m] = IF m = 0 THEN <<>> ELSE It(m, loop[m - 1])
  BY <1>8 DEF F
<1>10. loop[0] = <<>> /\ \A m \in 1..N : loop[m] = It(m, loop[m - 1])
  <2>1. 0 \in 0..N /\ \A m \in 1..N : m \in 0..N /\ m # 0
    BY <1>1
  <2>2. QED
    BY <1>9, <2>1, Zenon
<1>11. \A m \in 0..N : loop[m] \in S
  <2> DEFINE T == {m \in 0..N : loop[m] \in S}
  <2>1. 0 \in T
    BY <1>1, <1>2, <1>10
  <2>2. ASSUME NEW m \in 1..N, m - 1 \in T
        PROVE  m \in T
    BY <1>1, <1>3, <1>10, <2>2
  <2>3. \A m \in 0..N : m \in T
    <3> HIDE DEF T
    <3>1. QED
      BY <1>1, <2>1, <2>2, Induction
  <2>4. QED
    BY <2>3
<1>12. loop \in [0..N -> S]
  BY <1>9, <1>11
<1>13. Combining(l1, l2, loop)
  BY <1>10, <1>12 DEF Combining, S, It, N
<1>14. QED
  BY <1>4, <1>13 DEF N

(* What the loop has after n documents: of these the ones that the second  *)
(* list has too, each with the sum of its ranks.                           *)
CombinedOf(l1, l2, l, n) ==
    /\ l \in Seq(Headers)
    /\ \A j \in 1..Len(l) :
          \E m \in 1..n : l[j] = Sum(l1, l2, m) /\ MatchIn(l2, l1[m].docID) # 0
    /\ \A m \in 1..n : MatchIn(l2, l1[m].docID) # 0 => Names(l, l1[m].docID)
    /\ \A j, m \in 1..Len(l) : l[j].docID = l[m].docID => j = m

(* Another document of the first list. *)
LEMMA CombinedMore ==
    ASSUME NEW l1, IsList(l1), NEW l2, l2 \in Seq(Headers), NEW n \in 1..Len(l1),
           NEW l, CombinedOf(l1, l2, l, n - 1), MatchIn(l2, l1[n].docID) # 0
    PROVE  CombinedOf(l1, l2, Append(l, Sum(l1, l2, n)), n)
<1> DEFINE h == Sum(l1, l2, n)
           more == Append(l, h)
           len == Len(l)
<1>1. l1 \in Seq(Headers) /\ l \in Seq(Headers) /\ h \in Headers
  BY SumIs DEF IsList, CombinedOf
<1>2. len \in Nat /\ Len(more) = len + 1 /\ more[len + 1] = h
      /\ (\A j \in 1..len : more[j] = l[j]) /\ more \in Seq(Headers)
  <2> HIDE DEF h, Headers
  <2>1. QED
    BY <1>1
<1>3. h.docID = l1[n].docID
  BY DEF Sum
<1> HIDE DEF more, h, len
<1>4. ASSUME NEW j \in 1..(len + 1)
      PROVE  \E m \in 1..n : more[j] = Sum(l1, l2, m) /\ MatchIn(l2, l1[m].docID) # 0
  <2>1. CASE j = len + 1
    <3>1. more[j] = Sum(l1, l2, n)
      BY <1>2, <2>1 DEF h
    <3>2. QED
      BY <3>1
  <2>2. CASE j # len + 1
    <3>1. j \in 1..len
      BY <1>2, <2>2
    <3>2. PICK m \in 1..(n - 1) : l[j] = Sum(l1, l2, m) /\ MatchIn(l2, l1[m].docID) # 0
      BY <3>1 DEF CombinedOf, len
    <3>3. m \in 1..n
      BY <1>1
    <3>4. QED
      BY <1>2, <3>1, <3>2, <3>3
  <2>3. QED
    BY <2>1, <2>2
<1>5. ASSUME NEW m \in 1..n, MatchIn(l2, l1[m].docID) # 0
      PROVE  Names(more, l1[m].docID)
  <2>1. CASE m = n
    BY <1>2, <1>3, <2>1 DEF Names
  <2>2. CASE m # n
    <3>1. m \in 1..(n - 1)
      BY <2>2
    <3>2. PICK j \in 1..len : l[j].docID = l1[m].docID
      BY <1>5, <3>1 DEF CombinedOf, Names, len
    <3>3. QED
      BY <1>2, <3>2 DEF Names
  <2>3. QED
    BY <2>1, <2>2
<1>6. ASSUME NEW j \in 1..len
      PROVE  l[j].docID # l1[n].docID
  <2>1. PICK m \in 1..(n - 1) : l[j] = Sum(l1, l2, m)
    BY DEF CombinedOf, len
  <2>2. l[j].docID = l1[m].docID
    BY <2>1 DEF Sum
  <2>3. m \in 1..Len(l1) /\ m # n
    BY <1>1
  <2>4. QED
    BY <2>2, <2>3 DEF IsList
<1>7. ASSUME NEW j \in 1..(len + 1), NEW m \in 1..(len + 1), more[j].docID = more[m].docID
      PROVE  j = m
  <2>1. CASE j = len + 1 /\ m # len + 1
    <3>1. m \in 1..len
      BY <1>2, <2>1
    <3>2. QED
      BY <1>2, <1>3, <1>6, <1>7, <2>1, <3>1
  <2>2. CASE m = len + 1 /\ j # len + 1
    <3>1. j \in 1..len
      BY <1>2, <2>2
    <3>2. QED
      BY <1>2, <1>3, <1>6, <1>7, <2>2, <3>1
  <2>3. CASE j # len + 1 /\ m # len + 1
    <3>1. j \in 1..len /\ m \in 1..len
      BY <1>2, <2>3
    <3>2. l[j].docID = l[m].docID
      BY <1>2, <1>7, <3>1
    <3>3. QED
      BY <3>1, <3>2 DEF CombinedOf, len
  <2>4. QED
    BY <2>1, <2>2, <2>3
<1>8. QED
  BY <1>2, <1>4, <1>5, <1>7 DEF CombinedOf, more, h

(* ListCombine: the documents in both lists, with the sums of their ranks. *)
LEMMA ListCombineIs ==
    ASSUME NEW l1, IsList(l1), NEW l2, IsList(l2)
    PROVE  LET l == ListCombine(l1, l2)
           IN  /\ IsList(l)
               /\ \A x : Names(l, x) <=> Names(l1, x) /\ Names(l2, x)
               /\ \A j \in 1..Len(l), m \in 1..Len(l1), n \in 1..Len(l2) :
                     l[j].docID = l1[m].docID /\ l[j].docID = l2[n].docID =>
                        l[j].numPositions = l1[m].numPositions + l2[n].numPositions
<1> DEFINE l == ListCombine(l1, l2)
           N == Len(l1)
<1>1. l1 \in Seq(Headers) /\ l2 \in Seq(Headers) /\ N \in Nat
  BY DEF IsList
<1>2. PICK loop : Combining(l1, l2, loop) /\ l = loop[N]
  BY <1>1, CombiningLoop, Zenon
<1> DEFINE T == {n \in 0..N : CombinedOf(l1, l2, loop[n], n)}
<1>3. 0 \in T
  <2>1. loop[0] = <<>> /\ 0 \in 0..N
    BY <1>1, <1>2 DEF Combining
  <2>2. CombinedOf(l1, l2, <<>>, 0)
    BY DEF CombinedOf
  <2>3. QED
    BY <2>1, <2>2
<1>4. ASSUME NEW n \in 1..N, n - 1 \in T
      PROVE  n \in T
  <2>1. CombinedOf(l1, l2, loop[n - 1], n - 1)
    BY <1>4
  <2>2. loop[n] = IF MatchIn(l2, l1[n].docID) = 0 THEN loop[n - 1]
                  ELSE Append(loop[n - 1], Sum(l1, l2, n))
    BY <1>2 DEF Combining
  <2>3. CASE MatchIn(l2, l1[n].docID) = 0
    <3>1. \A m \in 1..n : m \in 1..(n - 1) \/ m = n
      BY <1>1
    <3>2. \A m \in 1..(n - 1) : m \in 1..n
      BY <1>1
    <3>3. loop[n] = loop[n - 1]
      BY <2>2, <2>3
    <3>4. CombinedOf(l1, l2, loop[n], n)
      BY <2>1, <2>3, <3>1, <3>2, <3>3 DEF CombinedOf
    <3>5. QED
      BY <1>1, <3>4
  <2>4. CASE MatchIn(l2, l1[n].docID) # 0
    <3>1. CombinedOf(l1, l2, loop[n], n)
      BY <1>1, <2>1, <2>2, <2>4, CombinedMore
    <3>2. QED
      BY <1>1, <3>1
  <2>5. QED
    BY <2>3, <2>4
<1>5. CombinedOf(l1, l2, l, N)
  <2>1. \A n \in 0..N : n \in T
    <3> HIDE DEF T, N
    <3>1. QED
      BY <1>1, <1>3, <1>4, Induction
  <2>2. QED
    BY <1>1, <1>2, <2>1
<1> HIDE DEF l
<1>6. IsList(l)
  BY <1>5 DEF CombinedOf, IsList
<1>7. ASSUME NEW x
      PROVE  Names(l, x) <=> Names(l1, x) /\ Names(l2, x)
  <2>1. ASSUME Names(l, x)
        PROVE  Names(l1, x) /\ Names(l2, x)
    <3>1. PICK j \in 1..Len(l) : l[j].docID = x
      BY <2>1 DEF Names
    <3>2. PICK m \in 1..N : l[j] = Sum(l1, l2, m) /\ MatchIn(l2, l1[m].docID) # 0
      BY <1>5 DEF CombinedOf
    <3>3. l1[m].docID = x
      BY <3>1, <3>2 DEF Sum
    <3>4. QED
      BY <1>1, <3>2, <3>3, MatchInIs DEF Names
  <2>2. ASSUME Names(l1, x), Names(l2, x)
        PROVE  Names(l, x)
    <3>1. PICK m \in 1..N : l1[m].docID = x
      BY <2>2 DEF Names
    <3>2. MatchIn(l2, x) # 0
      BY <1>1, <2>2, MatchInIs
    <3>3. QED
      BY <1>5, <3>1, <3>2 DEF CombinedOf
  <2>3. QED
    BY <2>1, <2>2
<1>8. ASSUME NEW j \in 1..Len(l), NEW m \in 1..N, NEW n \in 1..Len(l2),
             l[j].docID = l1[m].docID, l[j].docID = l2[n].docID
      PROVE  l[j].numPositions = l1[m].numPositions + l2[n].numPositions
  <2>1. PICK o \in 1..N : l[j] = Sum(l1, l2, o) /\ MatchIn(l2, l1[o].docID) # 0
    BY <1>5 DEF CombinedOf
  <2>2. l[j].docID = l1[o].docID
        /\ l[j].numPositions = l1[o].numPositions + l2[MatchIn(l2, l1[o].docID)].numPositions
    BY <2>1 DEF Sum
  <2>3. o = m
    BY <1>8, <2>2 DEF IsList
  <2> DEFINE p == MatchIn(l2, l1[m].docID)
  <2>4. p \in 0..Len(l2) /\ p # 0 /\ l2[p].docID = l1[m].docID
    BY <1>1, <2>1, <2>3, MatchInIs
  <2> HIDE DEF p
  <2>5. p = n
    <3>1. p \in 1..Len(l2)
      BY <2>4
    <3>2. l2[p].docID = l2[n].docID
      BY <1>8, <2>4
    <3>3. QED
      BY <3>1, <3>2 DEF IsList
  <2>6. QED
    BY <2>2, <2>3, <2>5 DEF p
<1>9. QED
  BY <1>6, <1>7, <1>8 DEF l

-----------------------------------------------------------------------------
(* Where a query is.                                                       *)

(* The tables of an index file, and which files have their header. *)
TablesOf(x) == IndexTables[indexlist[x]]

(* The first n index files have their header. *)
CompleteUpTo(n) == \A x \in 1..n : TablesOf(x).complete

(* The loop over the words of a query, and all of ProcessQuery. *)
Asking == {"lookup", "found?", "list", "combine"}
Querying == Asking \cup {"documents", "sort"}

(* The arguments, and the files that WriteIndex left. *)
Given ==
    /\ indexlist \in IndexLists
    /\ files = [x \in DOMAIN indexlist |-> IndexFile(TablesOf(x))]

(* The constructor gets past the header only of a complete file. *)
Validated ==
    /\ pc \in {"fopen", "header"} => CompleteUpTo(i - 1)
    /\ pc \in {"doctable", "indextable", "fclose"} => CompleteUpTo(i)
    /\ pc \in Querying \cup {"ready"} => CompleteUpTo(Len(indexlist))

(* What is asked for is a query. *)
Asked ==
    /\ IsQuery(query)
    /\ customer = "http333d" /\ pc # "destroyed" => request \in Parsed
    /\ pc \in Asking => w \in 1..Len(query)
    /\ pc \in {"documents", "sort"} => query # <<>>

(* The documents that match so far, and how many of them are named. *)
Counted ==
    /\ IsList(result)
    /\ k \in 0..Len(result)
    /\ pc \in Asking => k = 0

(* At `table' index file i has the docID table of the query's word. *)
HasList ==
    \E e \in Elements(TablesOf(i).mi) :
        /\ e.word = query[w].word
        /\ ListAt(files[i].contents, table, e.postings, files[i].size)

(* What the lookup of the current word has found. *)
Looked ==
    /\ pc = "found?" => IF table = 0
                        THEN \A e \in Elements(TablesOf(i).mi) : e.word # query[w].word
                        ELSE HasList
    /\ pc \in {"list", "combine"} => HasList

(* Where the query is: in which file, at which word, and what it knows. *)
Located == Given /\ Validated /\ Asked /\ Counted /\ Looked

(* The arguments stay. *)
LEMMA ArgsStay ==
    ASSUME [RequestNext]_webVars
    PROVE  indexlist' = indexlist /\ files' = files /\ args' = args
<1>1. CASE Read
  BY <1>1 DEF Read, args
<1>2. CASE Construct
  BY <1>2 DEF Construct, FOpen, CheckHeader, NewDocTableReader, NewIndexTableReader,
              CloseIndexFile, NewReader, Exit, args
<1>3. CASE Answer
  BY <1>3 DEF Answer, LookupQueryWord, NewDocIDTableReader, WordMissing, ReadDocIDList,
              Combine, NameDocument, NextIndex, Sort, NewReader, Exit, args
<1>4. CASE SearchTerms \/ Shell
  BY <1>4 DEF SearchTerms, Shell, ShellQuery, ProcessQuery, args
<1>5. CASE SearchPage
  BY <1>5 DEF SearchPage, Destroy, args
<1>6. ASSUME NEW r \in Parsed, ProcessFileRequest(r) \/ ShowSearchBox(r) \/ StartSearch(r)
      PROVE  indexlist' = indexlist /\ files' = files /\ args' = args
  BY <1>6 DEF ProcessFileRequest, ShowSearchBox, StartSearch, vars, args
<1>7. CASE UNCHANGED webVars
  BY <1>7 DEF webVars, vars, args
<1>8. QED
  BY <1>1, <1>2, <1>3, <1>4, <1>5, <1>6, <1>7 DEF RequestNext, Program, Step

(* Each file is one that the readers can read, if it is complete. *)
LEMMA FilesAre ==
    ASSUME Listed, Given, NEW x \in 1..Len(indexlist)
    PROVE  /\ AreTables(TablesOf(x))
           /\ files[x].size \in Nat /\ FileHeaderSize <= files[x].size
           /\ files[x].opens => TablesOf(x).complete
           /\ TablesOf(x).complete => Readable(files[x].contents, files[x].size, TablesOf(x))
<1>1. indexlist \in Seq(DOMAIN IndexTables)
  BY IndexListsAssumption DEF Given
<1>2. indexlist[x] \in DOMAIN IndexTables
  <2> DEFINE S == DOMAIN IndexTables
  <2> HIDE DEF S
  <2>1. indexlist \in Seq(S) => indexlist[x] \in S
    OBVIOUS
  <2>2. QED
    BY <1>1, <2>1 DEF S
<1>3. AreTables(TablesOf(x))
  BY <1>2, IndexTablesAssumption DEF AreTables, TablesOf
<1>4. files[x] = IndexFile(TablesOf(x))
  BY DEF Given, Listed
<1> DEFINE tables == TablesOf(x)
<1> HIDE DEF tables
<1>5. LET f == IndexFile(tables)
      IN  /\ f.size \in Nat /\ FileHeaderSize <= f.size
          /\ f.opens => tables.complete
          /\ tables.complete => Readable(f.contents, f.size, tables)
  BY <1>3, IndexFileIs DEF tables
<1>6. QED
  BY <1>3, <1>4, <1>5 DEF tables

(* No words are a query, too, and so is what anybody may ask for. *)
LEMMA QueriesAre ==
    /\ IsQuery(<<>>)
    /\ \A q \in Queries : IsQuery(q)
    /\ \A r \in Parsed : IsQuery(Query(r.words))
<1>1. ToSet(<<>>) = {}
  BY DEF ToSet
<1>2. <<>> \in Seq(ToSet(<<>>))
  OBVIOUS
<1>3. IsQuery(<<>>)
  BY <1>1, <1>2 DEF IsQuery
<1>4. QED
  BY <1>3, QueriesAssumption, WordsAssumption

(* A word of a query. *)
LEMMA WordIs ==
    ASSUME Listed, Given, NEW x \in 1..Len(indexlist), NEW q, IsQuery(q), NEW n \in 1..Len(q)
    PROVE  /\ q[n].key \in Nat
           /\ \A e \in Elements(TablesOf(x).mi) :
                 e.word = q[n].word => e.key = q[n].key /\ e.len = q[n].len
<1>1. indexlist \in Seq(DOMAIN IndexTables)
  BY IndexListsAssumption DEF Given
<1>2. indexlist[x] \in DOMAIN IndexTables
  <2> DEFINE S == DOMAIN IndexTables
  <2> HIDE DEF S
  <2>1. indexlist \in Seq(S) => indexlist[x] \in S
    OBVIOUS
  <2>2. QED
    BY <1>1, <2>1 DEF S
<1>3. q[n] \in ToSet(q)
  <2> DEFINE S == ToSet(q)
  <2>1. q \in Seq(S)
    BY DEF IsQuery
  <2> HIDE DEF S
  <2>2. q[n] \in S
    BY <2>1
  <2>3. QED
    BY <2>2 DEF S
<1>4. QED
  BY <1>2, <1>3, Zenon DEF IsQuery, TablesOf

-----------------------------------------------------------------------------
(* What is read is inside its file.                                        *)

(* New runs of an index file's reader. *)
LEMMA NewRuns ==
    ASSUME Listed, Given, NEW rs, Inside(rs, files[i].size), NEW name,
           runs' = rs, reading' = <<i, name>>, indexlist' = indexlist, files' = files
    PROVE  RunsInside'
<1> DEFINE size == files[i].size
           R == [seek : BOOLEAN, at : Nat, len : Nat]
           S == InsideRuns(size)
<1>1. \A x \in DOMAIN indexlist : files[x].size \in Nat
  BY FilesAre DEF Listed
<1>2. \A r \in S : r \in R /\ r.at + r.len <= size /\ r.seek
  BY DEF InsideRuns
<1>3. rs \in Seq(S)
  BY DEF Inside
<1> HIDE DEF S, R, size
<1>4. rs \in Seq(R) /\ \A n \in DOMAIN rs : rs[n] \in S
  BY <1>2, <1>3
<1>5. \A n \in DOMAIN rs : rs[n].at + rs[n].len <= size /\ rs[n].seek
  BY <1>2, <1>4
<1>6. reading'[1] = i
  OBVIOUS
<1>7. QED
  BY <1>1, <1>4, <1>5, <1>6 DEF RunsInside, R, size

(* Nothing is left to read. *)
LEMMA NoRuns ==
    ASSUME Listed, Given, runs' = <<>>, indexlist' = indexlist, files' = files
    PROVE  RunsInside'
<1>1. \A x \in DOMAIN indexlist : files[x].size \in Nat
  BY FilesAre DEF Listed
<1> DEFINE R == [seek : BOOLEAN, at : Nat, len : Nat]
<1>2. runs' \in Seq(R)
  <2> HIDE DEF R
  <2>1. QED
    OBVIOUS
<1>3. QED
  BY <1>1, <1>2 DEF RunsInside

(* The next run. *)
LEMMA TailInside ==
    ASSUME RunsInside, Read
    PROVE  RunsInside'
<1> DEFINE R == [seek : BOOLEAN, at : Nat, len : Nat]
<1>1. /\ runs # <<>> /\ runs' = Tail(runs) /\ pc' = pc /\ reading' = reading
      /\ indexlist' = indexlist /\ files' = files
  BY DEF Read, args
<1>2. /\ runs \in Seq(R) /\ \A x \in DOMAIN indexlist : files[x].size \in Nat
      /\ \A n \in DOMAIN runs :
            /\ runs[n].at + runs[n].len <= files[reading[1]].size
            /\ runs[n].seek \/ pc \in {"header", "doctable"}
  BY DEF RunsInside
<1> HIDE DEF R
<1>3. runs' \in Seq(R) /\ \A n \in DOMAIN runs' : n + 1 \in DOMAIN runs /\ runs'[n] = runs[n + 1]
  BY <1>1, <1>2
<1>4. \A n \in DOMAIN runs' :
         /\ runs'[n].at + runs'[n].len <= files'[reading'[1]].size
         /\ runs'[n].seek \/ pc' \in {"header", "doctable"}
  BY <1>1, <1>2, <1>3
<1>5. QED
  BY <1>1, <1>2, <1>3, <1>4 DEF RunsInside, R

(* The file and its tables, once the header has been checked. *)
LEMMA FileIsRead ==
    ASSUME Listed, Given, Validated, pc \in {"doctable", "indextable"} \cup Querying
    PROVE  /\ i \in 1..Len(indexlist)
           /\ AreTables(TablesOf(i)) /\ files[i].size \in Nat
           /\ Readable(file, files[i].size, TablesOf(i))
           /\ IndexTable = FileHeaderSize + file[0].doctableBytes
<1>1. i \in 1..Len(indexlist) /\ i \in 1..i
  BY DEF Listed
<1>2. TablesOf(i).complete
  BY <1>1 DEF Validated, CompleteUpTo, Querying
<1>3. AreTables(TablesOf(i)) /\ files[i].size \in Nat
      /\ Readable(files[i].contents, files[i].size, TablesOf(i))
  BY <1>1, <1>2, FilesAre
<1>4. file[0] = ReadAt(file, 0)
  BY DEF ReadAt
<1>5. QED
  BY <1>1, <1>3, <1>4 DEF IndexTable, file

(* A reader starts with the header of its table. *)
LEMMA NewReaderInside ==
    ASSUME Listed, Given, RunsInside, runs = <<>>, NEW name, NEW at, NEW then,
           NewReader(name, at, then), Inside(HeaderRuns(at), files[i].size)
    PROVE  RunsInside'
<1>1. CASE Exit
  <2>1. runs' = <<>> /\ indexlist' = indexlist /\ files' = files
    BY <1>1 DEF Exit, input, args
  <2>2. QED
    BY <2>1, NoRuns
<1>2. CASE ~Exit
  <2>1. /\ runs' = HeaderRuns(at) /\ reading' = <<i, name>>
        /\ indexlist' = indexlist /\ files' = files
    BY <1>2 DEF NewReader, Reads, args
  <2>2. QED
    BY <2>1, NewRuns
<1>3. QED
  BY <1>1, <1>2

(* The docID table of the current word. *)
LEMMA PostingsAre ==
    ASSUME Listed, Given, HasList,
           NEW e \in Elements(TablesOf(i).mi)
    PROVE  IsPostings(e.postings)
<1>1. AreTables(TablesOf(i))
  BY FilesAre DEF Listed
<1>2. QED
  BY <1>1 DEF AreTables, IsMemIndex

(* Its header and its documents are inside the file. *)
LEMMA ListInside ==
    ASSUME Listed, Given, HasList
    PROVE  /\ Inside(HeaderRuns(table), files[i].size)
           /\ Inside(GetDocIDListRuns(file, table), files[i].size)
           /\ IsList(GetDocIDList(file, table))
<1>1. PICK e \in Elements(TablesOf(i).mi) :
         ListAt(files[i].contents, table, e.postings, files[i].size)
  BY DEF HasList
<1>2. IsPostings(e.postings)
  BY PostingsAre
<1> DEFINE postings == e.postings
           size == files[i].size
<1>3. ListAt(file, table, postings, size) /\ IsPostings(postings)
  BY <1>1, <1>2 DEF file
<1> HIDE DEF postings, size
<1>4. LET list == GetDocIDList(file, table)
      IN  /\ Inside(HeaderRuns(table), size)
          /\ Inside(GetDocIDListRuns(file, table), size)
          /\ list \in Seq([docID : Nat, numPositions : Nat])
          /\ \A j, m \in 1..Len(list) : list[j].docID = list[m].docID => j = m
  BY <1>3, ListIsRead
<1>5. QED
  BY <1>4 DEF IsList, Headers, size

(* One run. *)
LEMMA OneRun ==
    ASSUME NEW R, NEW r \in R, NEW rs, rs = <<>> \/ rs = <<r>>
    PROVE  rs \in Seq(R) /\ \A n \in DOMAIN rs : rs[n] = r
<1>1. CASE rs = <<>>
  BY <1>1
<1>2. CASE rs = <<r>>
  <2>1. Len(rs) = 1 /\ rs[1] = r /\ rs \in Seq(R)
    BY <1>2
  <2>2. DOMAIN rs = {1}
    BY <1>2
  <2>3. QED
    BY <2>1, <2>2
<1>3. QED
  BY <1>1, <1>2

(* The constructor reads inside its files. *)
LEMMA ConstructInside ==
    ASSUME Kept, Located, Undisturbed, RunsInside, Construct
    PROVE  RunsInside'
<1>1. Listed /\ Given /\ Validated
  BY DEF Kept, Located
<1>2. files[i].size \in Nat /\ FileHeaderSize <= files[i].size
  BY <1>1, FilesAre DEF Listed
<1>3. CASE Exit
  <2>1. runs = <<>>
    BY <1>3 DEF Construct, FOpen, CheckHeader, NewDocTableReader, NewIndexTableReader,
                CloseIndexFile, Exit, Undisturbed, InUse, Idle
  <2>2. runs' = <<>> /\ indexlist' = indexlist /\ files' = files
    BY <1>3, <2>1 DEF Exit, input, args
  <2>3. QED
    BY <1>1, <2>2, NoRuns
<1>4. CASE FOpen /\ ~Exit
  <2>1. /\ pc' = "header" /\ reading' = <<i, "file">> /\ indexlist' = indexlist /\ files' = files
        /\ runs' = <<[seek |-> FALSE, at |-> 0, len |-> FileHeaderSize]>>
    BY <1>4 DEF FOpen, Reads, args
  <2>2. \A x \in DOMAIN indexlist : files[x].size \in Nat
    BY <1>1, FilesAre DEF Listed
  <2> DEFINE r == [seek |-> FALSE, at |-> 0, len |-> FileHeaderSize]
             R == [seek : BOOLEAN, at : Nat, len : Nat]
  <2>3. r \in R /\ r.at + r.len <= files[i].size
    BY <1>2 DEF FileHeaderSize
  <2> HIDE DEF r, R
  <2>4. runs' \in Seq(R) /\ \A n \in DOMAIN runs' : runs'[n] = r
    <3>1. runs' = <<r>>
      BY <2>1 DEF r
    <3>2. r \in R
      BY <2>3
    <3>3. QED
      BY <3>1, <3>2, OneRun, Zenon
  <2>5. reading'[1] = i
    BY <2>1
  <2>6. QED
    BY <2>1, <2>2, <2>3, <2>4, <2>5 DEF RunsInside, R
<1>5. CASE CheckHeader /\ ~Exit
  <2>1. /\ pc' = "doctable" /\ reading' = <<i, "file">> /\ indexlist' = indexlist /\ files' = files
        /\ \/ runs' = <<>>
           \/ runs' = <<[seek |-> FALSE, at |-> FileHeaderSize, len |-> files[i].size - FileHeaderSize]>>
    BY <1>5 DEF CheckHeader, Reads, args
  <2>2. \A x \in DOMAIN indexlist : files[x].size \in Nat
    BY <1>1, FilesAre DEF Listed
  <2> DEFINE r == [seek |-> FALSE, at |-> FileHeaderSize, len |-> files[i].size - FileHeaderSize]
             R == [seek : BOOLEAN, at : Nat, len : Nat]
  <2>3. r \in R /\ r.at + r.len <= files[i].size
    BY <1>2 DEF FileHeaderSize
  <2>4. runs' = <<>> \/ runs' = <<r>>
    BY <2>1
  <2> HIDE DEF r, R
  <2>5. runs' \in Seq(R) /\ \A n \in DOMAIN runs' : runs'[n] = r
    <3>1. r \in R
      BY <2>3
    <3>2. QED
      BY <2>4, <3>1, OneRun, Zenon
  <2>6. reading'[1] = i
    BY <2>1
  <2>7. QED
    BY <2>1, <2>2, <2>3, <2>5, <2>6 DEF RunsInside, R
<1>6. CASE NewDocTableReader
  <2>1. pc = "doctable" /\ runs = <<>> /\ NewReader("doctable", FileHeaderSize, "indextable")
    BY <1>6 DEF NewDocTableReader, Doctable
  <2>2. AreTables(TablesOf(i)) /\ Readable(file, files[i].size, TablesOf(i))
    BY <1>1, <2>1, FileIsRead
  <2>3. Inside(HeaderRuns(FileHeaderSize), files[i].size)
    BY <2>2, HeadersInside
  <2>4. QED
    BY <1>1, <2>1, <2>3, NewReaderInside
<1>7. CASE NewIndexTableReader
  <2>1. pc = "indextable" /\ runs = <<>> /\ NewReader("indextable", IndexTable, "fclose")
    BY <1>7 DEF NewIndexTableReader
  <2>2. AreTables(TablesOf(i)) /\ Readable(file, files[i].size, TablesOf(i))
        /\ IndexTable = FileHeaderSize + file[0].doctableBytes
    BY <1>1, <2>1, FileIsRead
  <2>3. Inside(HeaderRuns(IndexTable), files[i].size)
    BY <2>2, HeadersInside
  <2>4. QED
    BY <1>1, <2>1, <2>3, NewReaderInside
<1>8. CASE CloseIndexFile
  <2>1. runs' = <<>> /\ indexlist' = indexlist /\ files' = files
    BY <1>8 DEF CloseIndexFile, args
  <2>2. QED
    BY <1>1, <2>1, NoRuns
<1>9. QED
  BY <1>3, <1>4, <1>5, <1>6, <1>7, <1>8 DEF Construct

(* So does a query. *)
LEMMA AnswerInside ==
    ASSUME Kept, Located, Undisturbed, RunsInside, Answer
    PROVE  RunsInside'
<1>1. Listed /\ Given /\ Validated /\ Asked /\ Counted /\ Looked
  BY DEF Kept, Located
<1>2. pc \in Querying /\ runs = <<>>
  BY DEF Answer, LookupQueryWord, NewDocIDTableReader, WordMissing, ReadDocIDList, Combine,
         NameDocument, NextIndex, Sort, Querying, Asking, Undisturbed, InUse, Idle
<1>3. /\ i \in 1..Len(indexlist) /\ AreTables(TablesOf(i)) /\ files[i].size \in Nat
      /\ Readable(file, files[i].size, TablesOf(i))
      /\ IndexTable = FileHeaderSize + file[0].doctableBytes
  BY <1>1, <1>2, FileIsRead
<1>4. CASE LookupQueryWord
  <2> DEFINE q == query[w]
             rs == ElementPositionsRuns(file, IndexTable, q.key)
                   \o LookupWordRuns(file, LookupElementPositions(file, IndexTable, q.key), q)
  <2>1. pc = "lookup"
    BY <1>4 DEF LookupQueryWord
  <2>2. /\ runs' = rs /\ reading' = <<i, "indextable">> /\ indexlist' = indexlist /\ files' = files
    BY <1>4 DEF LookupQueryWord, Reads, args
  <2>3. q.key \in Nat /\ \A e \in Elements(TablesOf(i).mi) : e.word = q.word => e.key = q.key /\ e.len = q.len
    <3>1. IsQuery(query) /\ w \in 1..Len(query)
      BY <1>1, <2>1 DEF Asked, Asking
    <3>2. QED
      BY <1>1, <1>3, <3>1, WordIs
  <2> HIDE DEF q
  <2>4. Inside(rs, files[i].size)
    BY <1>3, <2>3, WordIsLooked
  <2>5. QED
    BY <1>1, <2>2, <2>4, NewRuns
<1>5. CASE NewDocIDTableReader
  <2>1. pc = "found?" /\ table # 0 /\ NewReader("postings", table, "list")
    BY <1>5 DEF NewDocIDTableReader
  <2>2. Inside(HeaderRuns(table), files[i].size)
    BY <1>1, <2>1, ListInside DEF Looked
  <2>3. QED
    BY <1>1, <1>2, <2>1, <2>2, NewReaderInside
<1>6. CASE ReadDocIDList
  <2>1. /\ pc = "list" /\ runs' = GetDocIDListRuns(file, table) /\ reading' = <<i, "postings">>
        /\ indexlist' = indexlist /\ files' = files
    BY <1>6 DEF ReadDocIDList, Reads, args
  <2>2. Inside(GetDocIDListRuns(file, table), files[i].size)
    BY <1>1, <2>1, ListInside DEF Looked
  <2>3. QED
    BY <1>1, <2>1, <2>2, NewRuns
<1>7. CASE NameDocument /\ ~Exit
  <2> DEFINE docid == result[k + 1].docID
             rs == ElementPositionsRuns(file, FileHeaderSize, docid)
                   \o DocTableRuns(file, LookupElementPositions(file, FileHeaderSize, docid), docid)
  <2>1. /\ k < Len(result)
        /\ runs' = rs /\ reading' = <<i, "doctable">> /\ indexlist' = indexlist /\ files' = files
    BY <1>7 DEF NameDocument, Reads, args, Doctable
  <2>2. docid \in Nat
    <3>1. result \in Seq(Headers) /\ k + 1 \in 1..Len(result)
      BY <1>1, <2>1 DEF Counted, IsList
    <3>2. result[k + 1] \in Headers
      <4> HIDE DEF Headers
      <4>1. QED
        BY <3>1
    <3>3. QED
      BY <3>2 DEF Headers
  <2> HIDE DEF docid
  <2>3. Inside(rs, files[i].size)
    BY <1>3, <2>2, DocIsNamed
  <2>4. QED
    BY <1>1, <2>1, <2>3, NewRuns
<1>8. CASE \/ WordMissing \/ Combine \/ NextIndex \/ Sort
           \/ NameDocument /\ Exit
  <2>1. runs' = <<>> /\ indexlist' = indexlist /\ files' = files
    BY <1>2, <1>8 DEF WordMissing, Combine, NextIndex, Sort, Exit, input, args
  <2>2. QED
    BY <1>1, <2>1, NoRuns
<1>9. QED
  BY <1>4, <1>5, <1>6, <1>7, <1>8 DEF Answer

(* So does every step. *)
LEMMA InsideStep ==
    ASSUME Kept, Located, Undisturbed, RunsInside, [RequestNext]_webVars
    PROVE  RunsInside'
<1>1. CASE Read
  BY <1>1, TailInside
<1>2. CASE Construct \/ Answer
  BY <1>2, ConstructInside, AnswerInside
<1>3. CASE UNCHANGED webVars
  BY <1>3 DEF webVars, vars, args, input, RunsInside
<1>4. CASE \/ SearchTerms \/ Shell \/ SearchPage
           \/ \E r \in Parsed : ProcessFileRequest(r) \/ ShowSearchBox(r) \/ StartSearch(r)
  <2>1. pc \in {"ready", "destroyed"} /\ runs' = runs
    BY <1>4 DEF SearchTerms, Shell, ShellQuery, ProcessQuery, SearchPage, Destroy,
                ProcessFileRequest, ShowSearchBox, StartSearch, NextRequest, vars, input
  <2>2. runs' = <<>>
    BY <2>1 DEF Undisturbed, InUse, Idle
  <2>3. indexlist' = indexlist /\ files' = files /\ Listed /\ Given
    BY ArgsStay DEF Kept, Located
  <2>4. QED
    BY <2>2, <2>3, NoRuns
<1>5. QED
  BY <1>1, <1>2, <1>3, <1>4 DEF RequestNext, Program, Step

-----------------------------------------------------------------------------
(* The places of a query are kept.                                         *)

(* The arguments are given once. *)
LEMMA GivenStep ==
    ASSUME Given, [RequestNext]_webVars
    PROVE  Given'
<1>1. indexlist' = indexlist /\ files' = files
  BY ArgsStay
<1>2. QED
  BY <1>1 DEF Given, TablesOf

(* How the steps go on: the constructor's, *)
Constructing ==
    \/ pc' = "exited"
    \/ pc = "fopen" /\ pc' = "header" /\ i' = i
    \/ pc = "header" /\ pc' = "doctable" /\ i' = i /\ files[i].opens
    \/ pc = "doctable" /\ pc' = "indextable" /\ i' = i
    \/ pc = "indextable" /\ pc' = "fclose" /\ i' = i
    \/ pc = "fclose" /\ i < Len(indexlist) /\ pc' = "fopen" /\ i' = i + 1
    \/ pc = "fclose" /\ ~(i < Len(indexlist)) /\ pc' = "ready" /\ i' = i

(* Each step of the constructor is one of these, and leaves the query      *)
(* alone.                                                                  *)
LEMMA ConstructGoesOn ==
    ASSUME Construct
    PROVE  Constructing /\ pc \in Building /\ UNCHANGED work
<1>1. CASE FOpen
  BY <1>1 DEF FOpen, Exit, Constructing, Building
<1>2. CASE CheckHeader
  BY <1>2 DEF CheckHeader, Exit, Constructing, Building
<1>3. CASE NewDocTableReader
  BY <1>3 DEF NewDocTableReader, NewReader, Exit, Constructing, Building
<1>4. CASE NewIndexTableReader
  BY <1>4 DEF NewIndexTableReader, NewReader, Exit, Constructing, Building
<1>5. CASE CloseIndexFile
  BY <1>5 DEF CloseIndexFile, Constructing, Building
<1>6. QED
  BY <1>1, <1>2, <1>3, <1>4, <1>5 DEF Construct

(* and those that answer a query. *)
LEMMA AnswerGoesOn ==
    ASSUME Answer
    PROVE  /\ pc \in Querying
           /\ pc' \in Querying \cup {"ready", "exited"}
           /\ query' = query
<1>1. CASE LookupQueryWord
  BY <1>1 DEF LookupQueryWord, Querying, Asking
<1>2. CASE NewDocIDTableReader
  BY <1>2 DEF NewDocIDTableReader, NewReader, Exit, work, Querying, Asking
<1>3. CASE WordMissing
  BY <1>3 DEF WordMissing, Querying, Asking
<1>4. CASE ReadDocIDList
  BY <1>4 DEF ReadDocIDList, work, Querying, Asking
<1>5. CASE Combine
  BY <1>5 DEF Combine, Combined, Querying, Asking
<1>6. CASE NameDocument
  BY <1>6 DEF NameDocument, Exit, work, Querying, Asking
<1>7. CASE NextIndex
  BY <1>7 DEF NextIndex, Querying, Asking
<1>8. CASE Sort
  BY <1>8 DEF Sort, Querying, Asking
<1>9. QED
  BY <1>1, <1>2, <1>3, <1>4, <1>5, <1>6, <1>7, <1>8 DEF Answer

(* No incomplete file gets past the constructor. *)
LEMMA ValidatedStep ==
    ASSUME Kept, Given, Validated, [RequestNext]_webVars
    PROVE  Validated'
<1>1. Listed /\ i \in 1..Len(indexlist) /\ Len(indexlist) \in Nat
  BY DEF Kept, Listed
<1>2. indexlist' = indexlist /\ files' = files
  BY ArgsStay
<1> DEFINE C(n) == \A x \in 1..n : TablesOf(x).complete
<1>3. \A x : TablesOf(x)' = TablesOf(x)
  BY <1>2 DEF TablesOf
<1>4. /\ pc \in {"fopen", "header"} => C(i - 1)
      /\ pc \in {"doctable", "indextable", "fclose"} => C(i)
      /\ pc \in Querying \cup {"ready"} => C(Len(indexlist))
  BY DEF Validated, CompleteUpTo
<1>5. files[i].opens => TablesOf(i).complete
  BY <1>1, FilesAre
<1> SUFFICES /\ pc' \in {"fopen", "header"} => C(i' - 1)
             /\ pc' \in {"doctable", "indextable", "fclose"} => C(i')
             /\ pc' \in Querying \cup {"ready"} => C(Len(indexlist))
  BY <1>2, <1>3 DEF Validated, CompleteUpTo
<1>6. CASE Construct
  <2>1. Constructing
    BY <1>6, ConstructGoesOn
  <2>2. C(i - 1) /\ TablesOf(i).complete => C(i)
    BY <1>1
  <2> HIDE DEF C
  <2>3. i + 1 - 1 = i /\ (~(i < Len(indexlist)) => i = Len(indexlist))
    BY <1>1
  <2>4. CASE pc' = "exited"
    BY <2>4 DEF Querying, Asking
  <2>5. CASE pc = "fopen" /\ pc' = "header" /\ i' = i
    BY <1>4, <2>5 DEF Querying, Asking
  <2>6. CASE pc = "header" /\ pc' = "doctable" /\ i' = i /\ files[i].opens
    BY <1>4, <1>5, <2>2, <2>6 DEF Querying, Asking
  <2>7. CASE pc = "doctable" /\ pc' = "indextable" /\ i' = i
    BY <1>4, <2>7 DEF Querying, Asking
  <2>8. CASE pc = "indextable" /\ pc' = "fclose" /\ i' = i
    BY <1>4, <2>8 DEF Querying, Asking
  <2>9. CASE pc = "fclose" /\ i < Len(indexlist) /\ pc' = "fopen" /\ i' = i + 1
    <3>1. i' - 1 = i
      BY <1>1, <2>9
    <3>2. C(i' - 1)
      BY <1>4, <2>9, <3>1
    <3>3. QED
      BY <2>9, <3>2 DEF Querying, Asking
  <2>10. CASE pc = "fclose" /\ ~(i < Len(indexlist)) /\ pc' = "ready" /\ i' = i
    BY <1>4, <2>3, <2>10 DEF Querying, Asking
  <2>11. QED
    BY <2>1, <2>4, <2>5, <2>6, <2>7, <2>8, <2>9, <2>10 DEF Constructing
<1>7. CASE Answer
  <2> HIDE DEF C
  <2>1. QED
    BY <1>4, <1>7, AnswerGoesOn DEF Querying, Asking
<1>8. CASE Read \/ UNCHANGED webVars
  <2>1. pc' = pc /\ i' = i
    BY <1>8 DEF Read, webVars, vars
  <2> HIDE DEF C
  <2>2. QED
    BY <1>4, <2>1
<1>9. CASE SearchTerms \/ Shell
  <2>1. pc = "ready" /\ pc' \in {"lookup", "exited"}
    BY <1>9 DEF SearchTerms, Shell, ShellQuery, ProcessQuery
  <2> HIDE DEF C
  <2>2. QED
    BY <1>4, <2>1 DEF Querying, Asking
<1>10. CASE SearchPage \/ \E r \in Parsed : ProcessFileRequest(r) \/ ShowSearchBox(r)
  <2>1. pc' = "destroyed"
    BY <1>10 DEF SearchPage, Destroy, ProcessFileRequest, ShowSearchBox, NextRequest, vars
  <2> HIDE DEF C
  <2>2. QED
    BY <2>1 DEF Querying, Asking
<1>11. ASSUME NEW r \in Parsed, StartSearch(r)
       PROVE  /\ pc' \in {"fopen", "header"} => C(i' - 1)
              /\ pc' \in {"doctable", "indextable", "fclose"} => C(i')
              /\ pc' \in Querying \cup {"ready"} => C(Len(indexlist))
  <2>1. pc' = "fopen" /\ i' = 1
    BY <1>11 DEF StartSearch
  <2>2. C(0) /\ 1 - 1 = 0
    OBVIOUS
  <2> HIDE DEF C
  <2>3. QED
    BY <2>1, <2>2 DEF Querying, Asking
<1> HIDE DEF C
<1>12. QED
  BY <1>6, <1>7, <1>8, <1>9, <1>10, <1>11 DEF RequestNext, Program, Step

(* Only queries are asked, and the loop over their words stays in them. *)
LEMMA AskedStep ==
    ASSUME Asked, Looked, [RequestNext]_webVars
    PROVE  Asked'
<1>1. /\ IsQuery(query)
      /\ customer = "http333d" /\ pc # "destroyed" => request \in Parsed
      /\ pc \in Asking => w \in 1..Len(query)
      /\ pc \in {"documents", "sort"} => query # <<>>
  BY DEF Asked
<1> SUFFICES /\ IsQuery(query')
             /\ customer' = "http333d" /\ pc' # "destroyed" => request' \in Parsed
             /\ pc' \in Asking => w' \in 1..Len(query')
             /\ pc' \in {"documents", "sort"} => query' # <<>>
  BY DEF Asked, IsQuery
<1>2. CASE Construct /\ UNCHANGED web
  <2>1. UNCHANGED work /\ pc \in Building /\ pc' \in Building \cup {"ready", "exited"}
    BY <1>2, ConstructGoesOn DEF Constructing, Building
  <2>2. pc' \notin Asking /\ pc' \notin {"documents", "sort"} /\ pc # "destroyed"
    BY <2>1 DEF Building, Asking
  <2>3. query' = query /\ customer' = customer /\ request' = request
    BY <1>2, <2>1 DEF web, work
  <2>4. QED
    BY <1>1, <2>2, <2>3
<1>3. CASE Answer /\ UNCHANGED web
  <2>1. /\ query' = query /\ customer' = customer /\ request' = request /\ pc \in Querying
        /\ pc' \in Querying \cup {"ready", "exited"} /\ pc # "destroyed"
    BY <1>3, AnswerGoesOn DEF web, Querying, Asking
  <2>2. query \in Seq(ToSet(query)) /\ Len(query) \in Nat
    <3> DEFINE S == ToSet(query)
    <3>1. query \in Seq(S)
      BY <1>1 DEF IsQuery
    <3> HIDE DEF S
    <3>2. Len(query) \in Nat
      BY <3>1
    <3>3. QED
      BY <3>1, <3>2 DEF S
  <2>3. pc \in Asking => query # <<>> /\ w \in 1..Len(query)
    BY <1>1
  <2>4. pc' \in Asking => w' \in 1..Len(query)
    <3>1. CASE LookupQueryWord \/ ReadDocIDList \/ NewDocIDTableReader
      BY <2>3, <3>1 DEF LookupQueryWord, ReadDocIDList, NewDocIDTableReader, NewReader, Exit, work, Asking
    <3>2. CASE WordMissing
      BY <2>2, <3>2 DEF WordMissing, Asking
    <3>3. CASE Combine
      <4>1. pc = "combine" /\ (pc' = "lookup" => w' = w + 1 /\ w # Len(query)) /\ pc' \in {"lookup", "documents"}
        BY <3>3 DEF Combine, Combined
      <4>2. w \in 1..Len(query)
        BY <2>3, <4>1 DEF Asking
      <4>3. QED
        BY <2>2, <4>1, <4>2 DEF Asking
    <3>4. CASE NameDocument \/ Sort
      BY <3>4 DEF NameDocument, Sort, Exit, Asking
    <3>5. CASE NextIndex
      <4>1. pc = "documents" /\ w' = 1
        BY <3>5 DEF NextIndex
      <4>2. Len(query) # 0
        <5> DEFINE S == ToSet(query)
        <5>1. query \in Seq(S) /\ query # <<>>
          BY <1>1, <2>2, <4>1
        <5> HIDE DEF S
        <5>2. QED
          BY <5>1
      <4>3. QED
        BY <2>2, <4>1, <4>2
    <3>6. QED
      BY <1>3, <3>1, <3>2, <3>3, <3>4, <3>5 DEF Answer
  <2>5. pc' \in {"documents", "sort"} => query # <<>>
    <3>1. pc \in Asking \/ pc \in {"documents", "sort"}
      BY <2>1 DEF Querying
    <3>2. QED
      BY <1>1, <2>3, <3>1
  <2>6. QED
    BY <1>1, <2>1, <2>4, <2>5
<1>4. CASE (Read /\ UNCHANGED web) \/ UNCHANGED webVars
  <2>1. pc' = pc /\ w' = w /\ query' = query /\ customer' = customer /\ request' = request
    BY <1>4 DEF Read, webVars, web, vars, work
  <2>2. QED
    BY <1>1, <2>1
<1>5. ASSUME NEW q, ProcessQuery(q), IsQuery(q), UNCHANGED web
      PROVE  /\ IsQuery(query')
             /\ customer' = "http333d" /\ pc' # "destroyed" => request' \in Parsed
             /\ pc' \in Asking => w' \in 1..Len(query')
             /\ pc' \in {"documents", "sort"} => query' # <<>>
  <2>1. /\ pc = "ready" /\ query' = q /\ customer' = customer /\ request' = request
        /\ (pc' = "lookup" /\ q # <<>> /\ w' = 1) \/ pc' = "exited"
    BY <1>5 DEF ProcessQuery, web
  <2>2. q # <<>> => 1 \in 1..Len(q)
    <3> DEFINE S == ToSet(q)
    <3>1. q \in Seq(S)
      BY <1>5 DEF IsQuery
    <3> HIDE DEF S
    <3>2. QED
      BY <3>1
  <2>3. QED
    BY <1>1, <1>5, <2>1, <2>2 DEF Asking
<1>6. CASE SearchTerms
  <2>1. request \in Parsed /\ ProcessQuery(Query(request.words)) /\ UNCHANGED web
    BY <1>1, <1>6 DEF SearchTerms, ProcessQuery
  <2>2. QED
    BY <1>5, <2>1, QueriesAre
<1>7. CASE Shell
  BY <1>5, <1>7, QueriesAre DEF Shell, ShellQuery
<1>8. CASE SearchPage \/ \E r \in Parsed : ProcessFileRequest(r) \/ ShowSearchBox(r)
  <2>1. pc' = "destroyed" /\ query' = query
    BY <1>8 DEF SearchPage, Destroy, ProcessFileRequest, ShowSearchBox, NextRequest, vars, work
  <2>2. QED
    BY <1>1, <2>1 DEF Asking
<1>9. ASSUME NEW r \in Parsed, StartSearch(r)
      PROVE  /\ IsQuery(query')
             /\ customer' = "http333d" /\ pc' # "destroyed" => request' \in Parsed
             /\ pc' \in Asking => w' \in 1..Len(query')
             /\ pc' \in {"documents", "sort"} => query' # <<>>
  <2>1. pc' = "fopen" /\ query' = <<>> /\ request' = r
    BY <1>9 DEF StartSearch, NextRequest
  <2>2. QED
    BY <2>1, QueriesAre DEF Asking
<1>10. QED
  BY <1>2, <1>3, <1>4, <1>6, <1>7, <1>8, <1>9 DEF RequestNext, Program, Step

(* No document. *)
LEMMA NoList == IsList(<<>>) /\ Len(<<>>) = 0 /\ 0 \in 0..0
<1>1. <<>> \in Seq(Headers)
  OBVIOUS
<1>2. QED
  BY <1>1 DEF IsList

(* The list of the documents that match so far. *)
LEMMA CombinedList ==
    ASSUME Listed, Given, HasList, IsList(result), Combined
    PROVE  IsList(result')
<1>1. PICK list \in {GetDocIDList(file, table)} :
         \E combined \in {IF w = 1 THEN list ELSE ListCombine(result, list)} : result' = combined
  BY DEF Combined
<1>2. IsList(list)
  BY <1>1, ListInside
<1>3. IsList(ListCombine(result, list))
  BY <1>2, ListCombineIs
<1>4. QED
  BY <1>1, <1>2, <1>3

(* The documents are named one after the other. *)
LEMMA CountedStep ==
    ASSUME Listed, Given, Counted, Looked, [RequestNext]_webVars
    PROVE  Counted'
<1>1. IsList(result) /\ k \in 0..Len(result) /\ (pc \in Asking => k = 0) /\ Len(result) \in Nat
  BY DEF Counted, IsList
<1> SUFFICES IsList(result') /\ k' \in 0..Len(result') /\ (pc' \in Asking => k' = 0)
  BY DEF Counted, IsList
<1>2. CASE UNCHANGED <<result, k>> /\ (pc' \in Asking => pc \in Asking)
  BY <1>1, <1>2
<1>3. CASE result' = <<>> /\ k' = 0
  BY <1>3, NoList
<1>4. CASE Construct
  <2>1. UNCHANGED work /\ pc' \notin Asking
    BY <1>4, ConstructGoesOn DEF Constructing, Asking
  <2>2. QED
    BY <1>2, <2>1 DEF work
<1>5. CASE Combine
  <2>1. HasList /\ k = 0 /\ Combined /\ k' = k
    BY <1>1, <1>5 DEF Combine, Looked, Asking
  <2>2. IsList(result')
    BY <1>1, <2>1, CombinedList
  <2>3. Len(result') \in Nat
    BY <2>2 DEF IsList
  <2>4. QED
    BY <2>1, <2>2, <2>3
<1>6. CASE NameDocument
  <2>1. pc = "documents" /\ k < Len(result) /\ (k' = k + 1 \/ k' = k) /\ result' = result
        /\ pc' \in {"documents", "exited"}
    BY <1>6 DEF NameDocument, Exit, work
  <2>2. QED
    BY <1>1, <2>1 DEF Asking
<1>7. CASE WordMissing
  <2>1. k = 0 /\ k' = 0 /\ (result' = result \/ result' = <<>>)
    BY <1>1, <1>7 DEF WordMissing, Asking
  <2>2. QED
    BY <1>1, <2>1, NoList
<1>8. CASE Answer /\ ~Combine /\ ~NameDocument /\ ~WordMissing
  BY <1>2, <1>3, <1>8 DEF Answer, LookupQueryWord, NewDocIDTableReader, NewReader, Exit, work,
     ReadDocIDList, NextIndex, Sort, Asking
<1>9. CASE Read \/ UNCHANGED webVars
  BY <1>2, <1>9 DEF Read, webVars, vars, work
<1>10. CASE SearchTerms \/ Shell
  BY <1>2, <1>3, <1>10 DEF SearchTerms, Shell, ShellQuery, ProcessQuery, Asking
<1>11. CASE SearchPage \/ \E r \in Parsed : ProcessFileRequest(r) \/ ShowSearchBox(r) \/ StartSearch(r)
  BY <1>2, <1>3, <1>11 DEF SearchPage, Destroy, ProcessFileRequest, ShowSearchBox, StartSearch,
     NextRequest, vars, work, Asking
<1>12. QED
  BY <1>4, <1>5, <1>6, <1>7, <1>8, <1>9, <1>10, <1>11 DEF RequestNext, Program, Step

(* Where a word's docID table has been found it is. *)
LEMMA LookedStep ==
    ASSUME Kept, Given, Validated, Asked, Looked, [RequestNext]_webVars
    PROVE  Looked'
<1>1. indexlist' = indexlist /\ files' = files
  BY ArgsStay
<1>2. /\ pc = "found?" => IF table = 0
                          THEN \A e \in Elements(TablesOf(i).mi) : e.word # query[w].word
                          ELSE HasList
      /\ pc \in {"list", "combine"} => HasList
  BY DEF Looked
<1>3. CASE UNCHANGED <<i, query, w, table>> /\ pc' \in {"list", "combine"} /\ HasList
  BY <1>1, <1>3 DEF Looked, HasList, TablesOf
<1>4. CASE pc' \notin {"found?", "list", "combine"}
  BY <1>4 DEF Looked
<1>5. CASE UNCHANGED <<i, query, w, table, pc>>
  BY <1>1, <1>2, <1>5 DEF Looked, HasList, TablesOf
<1>6. CASE LookupQueryWord
  <2> DEFINE q == query[w]
             mi == TablesOf(i).mi
             index == FileHeaderSize + file[0].doctableBytes
  <2>1. pc = "lookup" /\ pc' = "found?" /\ UNCHANGED <<i, query, w>>
    BY <1>6 DEF LookupQueryWord
  <2>2. /\ i \in 1..Len(indexlist) /\ AreTables(TablesOf(i)) /\ files[i].size \in Nat
        /\ Readable(file, files[i].size, TablesOf(i))
        /\ IndexTable = index
    BY <2>1, FileIsRead DEF Kept, Querying, Asking
  <2>3. q.key \in Nat /\ \A e \in Elements(TablesOf(i).mi) : e.word = q.word => e.key = q.key /\ e.len = q.len
    <3>1. IsQuery(query) /\ w \in 1..Len(query) /\ Listed
      BY <2>1 DEF Asked, Asking, Kept
    <3>2. QED
      BY <2>2, <3>1, WordIs
  <2>4. table' = IF LookupWord(file, index, q) = NotFound THEN 0 ELSE LookupWord(file, index, q).table
    BY <1>6, <2>2 DEF LookupQueryWord
  <2> HIDE DEF q, index
  <2>5. /\ \A e \in Elements(TablesOf(i).mi) : e.word = q.word =>
              \E start : /\ LookupWord(file, index, q) = [found |-> TRUE, table |-> start]
                         /\ ListAt(file, start, e.postings, files[i].size)
        /\ (\A e \in Elements(TablesOf(i).mi) : e.word # q.word) =>
              LookupWord(file, index, q) = NotFound
    BY <2>2, <2>3, WordIsLooked DEF index
  <2>6. CASE \A e \in Elements(TablesOf(i).mi) : e.word # q.word
    <3>1. table' = 0
      BY <2>4, <2>5, <2>6
    <3>2. QED
      BY <1>1, <2>1, <2>6, <3>1 DEF Looked, TablesOf, q
  <2>7. ASSUME NEW e \in Elements(TablesOf(i).mi), e.word = q.word
        PROVE  Looked'
    <3>1. PICK start : /\ LookupWord(file, index, q) = [found |-> TRUE, table |-> start]
                       /\ ListAt(file, start, e.postings, files[i].size)
      BY <2>5, <2>7
    <3>2. table' = start /\ start # 0
      <4>1. LookupWord(file, index, q).table = start /\ LookupWord(file, index, q).found = TRUE
        BY <3>1
      <4>2. LookupWord(file, index, q) # NotFound
        BY <4>1 DEF NotFound
      <4>3. QED
        BY <2>4, <3>1, <4>1, <4>2 DEF ListAt
    <3>3. ListAt(files[i].contents, table', e.postings, files[i].size)
      BY <3>1, <3>2 DEF file
    <3>4. QED
      BY <1>1, <2>1, <2>7, <3>2, <3>3 DEF Looked, HasList, TablesOf, q
  <2>8. QED
    BY <2>6, <2>7
<1>7. CASE NewDocIDTableReader \/ ReadDocIDList
  BY <1>2, <1>3, <1>4, <1>7 DEF NewDocIDTableReader, ReadDocIDList, NewReader, Exit, work
<1>8. CASE Answer /\ ~LookupQueryWord /\ ~NewDocIDTableReader /\ ~ReadDocIDList
  BY <1>4, <1>8 DEF Answer, WordMissing, Combine, Combined, NameDocument, NextIndex, Sort, Exit
<1>9. CASE Construct
  BY <1>4, <1>9, ConstructGoesOn DEF Constructing
<1>10. CASE Read \/ UNCHANGED webVars
  BY <1>5, <1>10 DEF Read, webVars, vars, work
<1>11. CASE SearchTerms \/ Shell \/ SearchPage
            \/ \E r \in Parsed : ProcessFileRequest(r) \/ ShowSearchBox(r) \/ StartSearch(r)
  BY <1>4, <1>11 DEF SearchTerms, Shell, ShellQuery, ProcessQuery, SearchPage, Destroy,
     ProcessFileRequest, ShowSearchBox, StartSearch, NextRequest, vars
<1>12. QED
  BY <1>6, <1>7, <1>8, <1>9, <1>10, <1>11 DEF RequestNext, Program, Step

(* All of it. *)
LEMMA LocatedStep ==
    ASSUME Kept, Located, [RequestNext]_webVars
    PROVE  Located'
BY GivenStep, ValidatedStep, AskedStep, CountedStep, LookedStep DEF Located, Kept

(* At first there is no query. *)
LEMMA InitLocated ==
    ASSUME RequestInit
    PROVE  Located /\ RunsInside
<1>1. /\ Unborn /\ pc \in {"fopen", "destroyed"} /\ (customer = "http333d" => pc = "destroyed")
  BY DEF RequestInit
<1>2. /\ indexlist \in IndexLists /\ i = 1 /\ runs = <<>> /\ query = <<>> /\ w = 1 /\ result = <<>> /\ k = 0
      /\ files = [x \in DOMAIN indexlist |-> IndexFile(IndexTables[indexlist[x]])]
  BY <1>1 DEF Unborn
<1>3. Given
  BY <1>2 DEF Given, TablesOf
<1>4. Validated
  BY <1>1, <1>2 DEF Validated, CompleteUpTo, Querying, Asking
<1>5. Asked
  BY <1>1, <1>2, QueriesAre DEF Asked, Asking
<1>6. Counted
  BY <1>1, <1>2, NoList DEF Counted, Asking
<1>7. Looked
  BY <1>1 DEF Looked
<1>8. RunsInside
  <2>1. \A x \in DOMAIN indexlist : files[x].size \in Nat
    BY <1>3, InitKept, FilesAre DEF Kept, Listed
  <2> DEFINE R == [seek : BOOLEAN, at : Nat, len : Nat]
  <2>2. runs \in Seq(R)
    <3> HIDE DEF R
    <3>1. QED
      BY <1>2
  <2>3. QED
    BY <1>2, <2>1, <2>2 DEF RunsInside
<1>9. QED
  BY <1>3, <1>4, <1>5, <1>6, <1>7, <1>8 DEF Located

(* FILEs that stay, are opened or are closed stay in their files. *)
LEMMA BoundedStays ==
    ASSUME Listed, Given, Bounded, indexlist' = indexlist, files' = files,
           \/ streams' = streams
           \/ \E name : streams' = With(name)
           \/ \E closed : streams' = Without(closed),
           \A x \in 1..Len(indexlist) : offset'[x] \in 0..files[x].size
    PROVE  Bounded'
<1>1. ASSUME NEW s \in Opened'
      PROVE  s[1] \in 1..Len(indexlist) /\ InFile(streams'[s], files[s[1]].size)
  <2>1. CASE s \in Opened /\ streams'[s] = streams[s]
    BY <2>1 DEF Bounded
  <2>2. CASE ~(s \in Opened /\ streams'[s] = streams[s])
    <3>1. PICK name : streams' = With(name)
      BY <1>1, <2>2 DEF Without, Opened
    <3>2. s = <<i, name>> /\ streams'[s] = Fresh
      BY <1>1, <2>2, <3>1 DEF With, Opened
    <3>3. files[i].size \in Nat /\ i \in 1..Len(indexlist)
      BY FilesAre DEF Listed
    <3>4. InFile(Fresh, files[i].size)
      BY <3>3 DEF InFile, Fresh, Streams
    <3>5. QED
      BY <3>2, <3>3, <3>4
  <2>3. QED
    BY <2>1, <2>2
<1>2. QED
  BY <1>1 DEF Bounded

(* The FILEs stay in their files. *)
LEMMA BoundedStep ==
    ASSUME Kept, Located, Undisturbed, RunsInside, Bounded, [RequestNext]_webVars
    PROVE  Bounded'
<1>1. Listed /\ Given /\ Kept /\ indexlist' = indexlist /\ files' = files
  BY ArgsStay DEF Kept, Located
<1>2. \A x \in 1..Len(indexlist) : offset[x] \in 0..files[x].size /\ files[x].size \in Nat
  BY <1>1, FilesAre DEF Bounded
<1>3. CASE Read
  BY <1>3, ReadUndisturbed
<1>4. CASE /\ offset' = offset
           /\ \/ streams' = streams
              \/ \E name : streams' = With(name)
              \/ \E closed : streams' = Without(closed)
  BY <1>1, <1>2, <1>4, BoundedStays
<1>5. ASSUME NEW name, FClose(name), <<i, name>> \in Opened
      PROVE  Bounded'
  <2>1. PICK back \in BOOLEAN :
           offset' = IF back THEN [offset EXCEPT ![i] = streams[<<i, name>>].pos] ELSE offset
    BY <1>5 DEF FClose
  <2>2. streams[<<i, name>>].pos \in 0..files[i].size
    <3>1. InFile(streams[<<i, name>>], files[i].size)
      BY <1>5 DEF Bounded
    <3>2. files[i].size \in Nat
      BY <1>1, <1>2 DEF Listed
    <3>3. QED
      BY <3>1, <3>2 DEF InFile, Streams
  <2>3. \A x \in 1..Len(indexlist) : offset'[x] \in 0..files[x].size
    BY <1>2, <2>1, <2>2 DEF Undisturbed, StreamsOK
  <2>4. \E closed : streams' = Without(closed)
    BY <1>5 DEF FClose
  <2>5. QED
    BY <1>1, <2>3, <2>4, BoundedStays
<1>6. CASE CloseIndexFile
  <2>1. pc = "fclose" /\ FClose("file")
    BY <1>6 DEF CloseIndexFile
  <2>2. <<i, "file">> \in Opened
    BY <2>1, OpenFilesIs DEF OpenFilesAre, Kept, Places
  <2>3. QED
    BY <1>5, <2>1, <2>2
<1>7. CASE Combine
  <2>1. pc = "combine" /\ FClose("postings")
    BY <1>7 DEF Combine
  <2>2. <<i, "postings">> \in Opened
    BY <2>1, OpenFilesIs DEF OpenFilesAre, Kept, Places
  <2>3. QED
    BY <1>5, <2>1, <2>2
<1>8. CASE Construct /\ ~CloseIndexFile
  BY <1>4, <1>8 DEF Construct, FOpen, CheckHeader, NewDocTableReader, NewIndexTableReader,
                    NewReader, Exit, input
<1>9. CASE Answer /\ ~Combine
  BY <1>4, <1>9 DEF Answer, LookupQueryWord, NewDocIDTableReader, WordMissing, ReadDocIDList,
                    NameDocument, NextIndex, Sort, NewReader, Exit, input
<1>10. CASE SearchTerms \/ Shell \/ SearchPage
            \/ \E r \in Parsed : ProcessFileRequest(r) \/ ShowSearchBox(r)
  BY <1>4, <1>10 DEF SearchTerms, Shell, ShellQuery, ProcessQuery, SearchPage, Destroy,
                     ProcessFileRequest, ShowSearchBox, vars, input
<1>11. ASSUME NEW r \in Parsed, StartSearch(r)
       PROVE  Bounded'
  <2>1. streams' = streams /\ offset' = [x \in DOMAIN indexlist |-> 0]
    BY <1>11 DEF StartSearch
  <2>2. \A x \in 1..Len(indexlist) : offset'[x] \in 0..files[x].size
    BY <1>1, <1>2, <2>1 DEF Listed
  <2>3. QED
    BY <1>1, <2>1, <2>2, BoundedStays
<1>12. CASE UNCHANGED webVars
  BY <1>4, <1>12 DEF webVars, vars, input
<1>13. QED
  BY <1>3, <1>6, <1>7, <1>8, <1>9, <1>10, <1>11, <1>12 DEF RequestNext, Program, Step

(* Together they are inductive. *)
Steady == Kept /\ Located /\ Undisturbed /\ RunsInside /\ Bounded

(* Nothing is open or read at first. *)
LEMMA InitUndisturbed ==
    ASSUME RequestInit
    PROVE  Undisturbed /\ Bounded
<1>1. /\ offset = [x \in DOMAIN indexlist |-> 0] /\ streams = <<>> /\ runs = <<>>
      /\ misread = FALSE /\ pc \in {"fopen", "destroyed"}
  BY DEF RequestInit, Unborn
<1>2. StreamsOK
  BY <1>1, InitKept DEF StreamsOK, Opened, Kept, Listed
<1>3. Bounded
  <2>1. Listed /\ Given
    BY InitKept, InitLocated DEF Kept, Located
  <2>2. \A x \in 1..Len(indexlist) : offset[x] \in 0..files[x].size
    BY <1>1, <2>1, FilesAre DEF Listed
  <2>3. Opened = {}
    BY <1>1 DEF Opened
  <2>4. QED
    BY <2>2, <2>3 DEF Bounded
<1>4. QED
  BY <1>1, <1>2, <1>3 DEF Undisturbed, InUse, HeaderFirst

(* At every place of the code all of this holds. *)
LEMMA SteadyInvariant ==
    /\ RequestInit => Steady
    /\ Steady /\ [RequestNext]_webVars => Steady'
<1>1. RequestInit => Steady
  BY InitKept, InitLocated, InitUndisturbed DEF Steady
<1>2. Steady /\ [RequestNext]_webVars => Steady'
  BY KeptStep, LocatedStep, UndisturbedStep, InsideStep, BoundedStep DEF Steady
<1>3. QED
  BY <1>1, <1>2

(* FileDup: each FILE gets the bytes at the place it asks for, whatever    *)
(* the other FILEs of the index file have done to the offset they share,   *)
(* whatever is in the index files and whatever the size of the buffers,    *)
(* and although the FileIndexReader does not seek.                         *)
THEOREM ReadsUndisturbed == RequestSpec => []ReadsItsBytes
<1>1. Steady => ReadsItsBytes
  BY DEF Steady, Undisturbed, ReadsItsBytes
<1>2. QED
  BY <1>1, SteadyInvariant, PTL DEF RequestSpec

(* QueryProcessor's types: the loops over index files, words and documents *)
(* stay in their bounds, the FILE in use is open, what is read is inside   *)
(* its file, and so are the buffers and the offsets.                       *)
THEOREM TypeCorrect == RequestSpec => []TypeOK
<1>1. Steady => TypeOK
  <2> SUFFICES ASSUME Steady
               PROVE  TypeOK
    OBVIOUS
  <2>1. Kept /\ Listed /\ Asked /\ Counted /\ InUse /\ HeaderFirst /\ RunsInside /\ Bounded
    BY DEF Steady, Located, Undisturbed, Kept
  <2>2. pc \in Places \cup {"exited"}
    BY <2>1 DEF Kept
  <2>3. i \in DOMAIN indexlist
    BY <2>1 DEF Listed
  <2>4. pc \in Asking => w \in DOMAIN query
    <3> DEFINE S == ToSet(query)
    <3>1. query \in Seq(S) /\ (pc \in Asking => w \in 1..Len(query))
      BY <2>1 DEF Asked, IsQuery
    <3> HIDE DEF S
    <3>2. QED
      BY <3>1
  <2>5. runs # <<>> => pc \notin Idle /\ reading = <<i, ReaderInUse>> /\ reading \in Opened
    BY <2>1, InUseOpen DEF InUse
  <2>6. ASSUME NEW s \in Opened
        PROVE  /\ streams[s].lo <= streams[s].pos /\ streams[s].pos <= streams[s].hi
               /\ offset[s[1]] \in 0..files[s[1]].size
    BY <2>1 DEF Bounded, InFile
  <2>7. QED
    BY <2>1, <2>2, <2>3, <2>4, <2>5, <2>6 DEF TypeOK, Places, Asking, Counted
<1>2. QED
  BY <1>1, SteadyInvariant, PTL DEF RequestSpec

-----------------------------------------------------------------------------
(* The answer by the tables.                                               *)

(* How often a document has the m-th word of q. *)
PositionsOf(q, tables, docid, m) ==
    Len((CHOOSE p \in Postings(tables, q[m].word, docid) : TRUE).positions)

(* How often it has the first n words. *)
RankOf(q, tables, docid, n) ==
    LET rank[m \in 0..n] == IF m = 0 THEN 0
                            ELSE rank[m - 1] + PositionsOf(q, tables, docid, m)
    IN  rank[n]

(* It has the first n words. *)
HasWords(q, tables, docid, n) ==
    \A m \in 1..n : Postings(tables, q[m].word, docid) # {}

(* The loop that adds up the ranks. *)
RankSum(q, tables, docid, n, h) ==
    /\ h \in [0..n -> Nat]
    /\ h[0] = 0
    /\ \A m \in 1..n : h[m] = h[m - 1] + PositionsOf(q, tables, docid, m)
    /\ RankOf(q, tables, docid, n) = h[n]

(* It has a solution. *)
LEMMA RankLoop ==
    ASSUME NEW q, NEW tables, NEW docid, NEW n \in Nat,
           \A m \in 1..n : PositionsOf(q, tables, docid, m) \in Nat
    PROVE  \E h : RankSum(q, tables, docid, n, h)
<1> DEFINE P(m) == PositionsOf(q, tables, docid, m)
           step == [x \in (1..n) \X Nat |-> x[2] + P(x[1])]
           F(g) == [m \in 0..n |-> IF m = 0 THEN 0 ELSE g[m - 1] + P(m)]
           sum == CHOOSE g : g = F(g)
<1>1. \A m \in 1..n : P(m) \in Nat
  OBVIOUS
<1>2. RankOf(q, tables, docid, n) = sum[n]
  BY DEF RankOf
<1> HIDE DEF P
<1>3. step \in [(1..n) \X Nat -> Nat]
  BY <1>1
<1>4. PICK h : Recursion(h, n, Nat, 0, step)
  <2> HIDE DEF step
  <2>1. 0 \in Nat
    OBVIOUS
  <2>2. QED
    BY <1>3, <2>1, RecursionExists, Zenon
<1>5. h = F(h)
  <2>1. ASSUME NEW m \in 0..n
        PROVE  h[m] = IF m = 0 THEN 0 ELSE h[m - 1] + P(m)
    <3>1. CASE m = 0
      BY <1>4, <3>1 DEF Recursion
    <3>2. CASE m # 0
      <4>1. m \in 1..n /\ m - 1 \in 0..n
        BY <3>2
      <4>2. h[m - 1] \in Nat
        BY <1>4, <4>1 DEF Recursion
      <4>3. step[<<m, h[m - 1]>>] = h[m - 1] + P(m)
        BY <4>1, <4>2
      <4>4. QED
        BY <1>4, <3>2, <4>1, <4>3 DEF Recursion
    <3>3. QED
      BY <3>1, <3>2
  <2>2. QED
    BY <1>4, <2>1 DEF Recursion
<1> HIDE DEF F
<1>6. sum = F(sum)
  BY <1>5
<1> HIDE DEF sum
<1>7. \A m \in 0..n : sum[m] = IF m = 0 THEN 0 ELSE sum[m - 1] + P(m)
  BY <1>6 DEF F
<1> DEFINE T == {m \in 0..n : sum[m] \in Nat}
<1>8. \A m \in 0..n : m \in T
  <2>1. 0 \in T
    BY <1>7
  <2>2. ASSUME NEW m \in 1..n, m - 1 \in T
        PROVE  m \in T
    BY <1>1, <1>7, <2>2
  <2> HIDE DEF T
  <2>3. QED
    BY <2>1, <2>2, Induction
<1>9. sum = [m \in 0..n |-> sum[m]]
  BY <1>6 DEF F
<1>10. sum \in [0..n -> Nat]
  BY <1>8, <1>9
<1>11. sum[0] = 0 /\ \A m \in 1..n : sum[m] = sum[m - 1] + P(m)
  BY <1>7
<1>12. RankSum(q, tables, docid, n, sum)
  BY <1>2, <1>10, <1>11 DEF RankSum, P
<1>13. QED
  BY <1>12

(* One word more. *)
LEMMA RankMore ==
    ASSUME NEW q, NEW tables, NEW docid, NEW n \in Nat, n > 0,
           \A m \in 1..n : PositionsOf(q, tables, docid, m) \in Nat
    PROVE  /\ RankOf(q, tables, docid, n)
                 = RankOf(q, tables, docid, n - 1) + PositionsOf(q, tables, docid, n)
           /\ RankOf(q, tables, docid, 0) = 0
<1> DEFINE P(m) == PositionsOf(q, tables, docid, m)
<1>1. \A m \in 1..n : P(m) \in Nat
  OBVIOUS
<1>2. n - 1 \in Nat /\ (\A m \in 1..(n - 1) : m \in 1..n) /\ 0 \in Nat /\ n \in 1..n
  OBVIOUS
<1>3. PICK h : RankSum(q, tables, docid, n, h)
  BY RankLoop
<1>4. /\ h \in [0..n -> Nat]
      /\ h[0] = 0
      /\ \A m \in 1..n : h[m] = h[m - 1] + P(m)
      /\ RankOf(q, tables, docid, n) = h[n]
  BY <1>3 DEF RankSum
<1>5. PICK g : RankSum(q, tables, docid, n - 1, g)
  BY <1>1, <1>2, RankLoop
<1>6. /\ g \in [0..(n - 1) -> Nat]
      /\ g[0] = 0
      /\ \A m \in 1..(n - 1) : g[m] = g[m - 1] + P(m)
      /\ RankOf(q, tables, docid, n - 1) = g[n - 1]
  BY <1>5 DEF RankSum
<1>7. RankOf(q, tables, docid, 0) = 0
  <2>1. \A m \in 1..0 : PositionsOf(q, tables, docid, m) \in Nat
    OBVIOUS
  <2>2. PICK f : RankSum(q, tables, docid, 0, f)
    BY <1>2, <2>1, RankLoop
  <2>3. QED
    BY <2>2 DEF RankSum
<1> HIDE DEF P
<1> DEFINE T == {m \in 0..(n - 1) : g[m] = h[m]}
<1>8. \A m \in 0..(n - 1) : m \in T
  <2>1. 0 \in T
    BY <1>2, <1>4, <1>6
  <2>2. ASSUME NEW m \in 1..(n - 1), m - 1 \in T
        PROVE  m \in T
    BY <1>1, <1>2, <1>4, <1>6, <2>2
  <2> HIDE DEF T
  <2>3. QED
    BY <1>2, <2>1, <2>2, Induction
<1>9. g[n - 1] = h[n - 1]
  BY <1>2, <1>8
<1>10. QED
  BY <1>2, <1>4, <1>6, <1>7, <1>9 DEF P

(* What the tables say of a word that the index has, *)
LEMMA PostingsOf ==
    ASSUME NEW tables, AreTables(tables), NEW word,
           \A d, e \in Elements(tables.mi) : d.word = word /\ e.word = word => d.key = e.key,
           NEW e \in Elements(tables.mi), e.word = word, NEW docid
    PROVE  Postings(tables, word, docid) = {p \in Elements(e.postings) : p.key = docid}
<1>1. ASSUME NEW d \in Elements(tables.mi), d.word = word
      PROVE  d = e
  <2> DEFINE mindex == tables.mi
  <2>1. IsTable(mindex) /\ WordsDiffer(mindex)
    BY DEF AreTables, IsMemIndex
  <2>2. d.key = e.key /\ d.word = e.word /\ d \in Elements(mindex) /\ e \in Elements(mindex)
    BY <1>1
  <2> HIDE DEF mindex
  <2>3. QED
    BY <2>1, <2>2, OneWord
<1>2. {m \in Elements(tables.mi) : m.word = word} = {e}
  BY <1>1
<1>3. QED
  BY <1>2 DEF Postings

(* and of one that it has not. *)
LEMMA NoPostings ==
    ASSUME NEW tables, NEW word, \A e \in Elements(tables.mi) : e.word # word, NEW docid
    PROVE  Postings(tables, word, docid) = {}
BY DEF Postings

(* The list of a word's documents names those that the tables have, each   *)
(* with how often the word is in it.                                       *)
WordsList(l, tables, word) ==
    /\ IsList(l)
    /\ \A x : Names(l, x) <=> Postings(tables, word, x) # {}
    /\ \A j \in 1..Len(l) :
          l[j].numPositions = Len((CHOOSE p \in Postings(tables, word, l[j].docID) : TRUE).positions)

(* The list that is read for a word is that one. *)
LEMMA ListOfWord ==
    ASSUME NEW tables, AreTables(tables), NEW word,
           \A d, e \in Elements(tables.mi) : d.word = word /\ e.word = word => d.key = e.key,
           NEW e \in Elements(tables.mi), e.word = word,
           NEW l, IsList(l), ToSet(l) = HeadersListed(e.postings)
    PROVE  WordsList(l, tables, word)
<1> DEFINE E == Elements(e.postings)
           n == Len(l)
<1>1. \A x : Postings(tables, word, x) = {p \in E : p.key = x}
  BY PostingsOf
<1>2. IsTable(e.postings) /\ KeysDiffer(e.postings)
  BY DEF AreTables, IsMemIndex, IsPostings
<1>3. \A p, r \in E : p.key = r.key => p = r
  <2> DEFINE postings == e.postings
  <2>1. IsTable(postings) /\ KeysDiffer(postings)
    BY <1>2
  <2> HIDE DEF postings
  <2>2. \A p, r \in Elements(postings) : p.key = r.key => p = r
    BY <2>1, OneKey
  <2>3. QED
    BY <2>2 DEF postings
<1>4. n \in Nat /\ DOMAIN l = 1..n
  BY DEF IsList
<1>5. \A j \in 1..n : \E p \in E : l[j] = DocIDHeader(p)
  <2>1. \A j \in 1..n : l[j] \in ToSet(l)
    BY <1>4 DEF ToSet
  <2>2. QED
    BY <2>1 DEF HeadersListed
<1>6. \A p \in E : \E j \in 1..n : l[j] = DocIDHeader(p)
  <2>1. \A p \in E : DocIDHeader(p) \in ToSet(l)
    BY DEF HeadersListed
  <2>2. QED
    BY <1>4, <2>1 DEF ToSet
<1>7. \A p \in E : DocIDHeader(p).docID = p.key /\ DocIDHeader(p).numPositions = Len(p.positions)
  BY DEF DocIDHeader
<1> HIDE DEF E, n
<1>8. ASSUME NEW x
      PROVE  Names(l, x) <=> Postings(tables, word, x) # {}
  <2>1. ASSUME Names(l, x)
        PROVE  \E p \in E : p.key = x
    <3>1. PICK j \in 1..n : l[j].docID = x
      BY <2>1 DEF Names, n
    <3>2. PICK p \in E : l[j] = DocIDHeader(p)
      BY <1>5
    <3>3. QED
      BY <1>7, <3>1, <3>2
  <2>2. ASSUME NEW p \in E, p.key = x
        PROVE  Names(l, x)
    <3>1. PICK j \in 1..n : l[j] = DocIDHeader(p)
      BY <1>6
    <3>2. l[j].docID = x
      BY <1>7, <2>2, <3>1
    <3>3. QED
      BY <3>2 DEF Names, n
  <2>3. QED
    BY <1>1, <2>1, <2>2
<1>9. ASSUME NEW j \in 1..n
      PROVE  l[j].numPositions = Len((CHOOSE p \in Postings(tables, word, l[j].docID) : TRUE).positions)
  <2>1. PICK p \in E : l[j] = DocIDHeader(p)
    BY <1>5
  <2>2. l[j].docID = p.key /\ l[j].numPositions = Len(p.positions)
    BY <1>7, <2>1
  <2>3. Postings(tables, word, l[j].docID) = {p}
    BY <1>1, <1>3, <2>2
  <2>4. QED
    BY <2>2, <2>3
<1>10. QED
  BY <1>8, <1>9 DEF WordsList, n

(* The documents that have the first n words of q, each with its rank. *)
Lists(q, l, tables, n) ==
    /\ IsList(l)
    /\ \A x : Names(l, x) <=> HasWords(q, tables, x, n)
    /\ \A j \in 1..Len(l) : l[j].numPositions = RankOf(q, tables, l[j].docID, n)

(* The first word's list, *)
LEMMA ListsFirst ==
    ASSUME NEW q, NEW tables, NEW l, WordsList(l, tables, q[1].word)
    PROVE  Lists(q, l, tables, 1)
<1>1. IsList(l)
  BY DEF WordsList
<1>2. \A x : Names(l, x) <=> HasWords(q, tables, x, 1)
  BY DEF WordsList, HasWords
<1>3. ASSUME NEW j \in 1..Len(l)
      PROVE  l[j].numPositions = RankOf(q, tables, l[j].docID, 1)
  <2> DEFINE docid == l[j].docID
             P(m) == PositionsOf(q, tables, docid, m)
  <2>1. l[j].numPositions = P(1)
    BY DEF WordsList, PositionsOf
  <2>2. l[j].numPositions \in Nat
    <3>1. l \in Seq(Headers)
      BY <1>1 DEF IsList
    <3>2. l[j] \in Headers
      <4> HIDE DEF Headers
      <4>1. QED
        BY <3>1
    <3>3. QED
      BY <3>2 DEF Headers
  <2>3. \A m \in 1..1 : P(m) \in Nat
    BY <2>1, <2>2
  <2> HIDE DEF docid
  <2>4. RankOf(q, tables, docid, 1) = RankOf(q, tables, docid, 1 - 1) + P(1)
        /\ RankOf(q, tables, docid, 0) = 0
    BY <2>3, RankMore
  <2> HIDE DEF P
  <2>5. QED
    BY <2>1, <2>2, <2>4 DEF docid
<1>4. QED
  BY <1>1, <1>2, <1>3 DEF Lists

(* and another word's. *)
LEMMA ListsMore ==
    ASSUME NEW q, NEW tables, NEW n \in Nat, n > 1, NEW l1, Lists(q, l1, tables, n - 1),
           NEW l2, WordsList(l2, tables, q[n].word),
           \A m \in 1..n : \A x : Postings(tables, q[m].word, x) # {} =>
                                  PositionsOf(q, tables, x, m) \in Nat
    PROVE  Lists(q, ListCombine(l1, l2), tables, n)
<1> DEFINE l == ListCombine(l1, l2)
<1>1. IsList(l1) /\ IsList(l2)
  BY DEF Lists, WordsList
<1>2. /\ IsList(l)
      /\ \A x : Names(l, x) <=> Names(l1, x) /\ Names(l2, x)
      /\ \A j \in 1..Len(l), m \in 1..Len(l1), o \in 1..Len(l2) :
            l[j].docID = l1[m].docID /\ l[j].docID = l2[o].docID =>
               l[j].numPositions = l1[m].numPositions + l2[o].numPositions
  BY <1>1, ListCombineIs
<1> HIDE DEF l
<1>3. ASSUME NEW x
      PROVE  Names(l, x) <=> HasWords(q, tables, x, n)
  <2>1. HasWords(q, tables, x, n) <=>
           HasWords(q, tables, x, n - 1) /\ Postings(tables, q[n].word, x) # {}
    <3>1. 1..n = 1..(n - 1) \cup {n}
      OBVIOUS
    <3>2. QED
      BY <3>1 DEF HasWords
  <2>2. QED
    BY <1>2, <2>1 DEF Lists, WordsList
<1>4. ASSUME NEW j \in 1..Len(l)
      PROVE  l[j].numPositions = RankOf(q, tables, l[j].docID, n)
  <2> DEFINE docid == l[j].docID
             P(m) == PositionsOf(q, tables, docid, m)
             R(m) == RankOf(q, tables, docid, m)
  <2>1. Names(l, docid)
    BY DEF Names
  <2>2. Names(l1, docid) /\ Names(l2, docid) /\ HasWords(q, tables, docid, n)
    BY <1>2, <1>3, <2>1
  <2>3. PICK m \in 1..Len(l1) : l1[m].docID = docid
    BY <2>2 DEF Names
  <2>4. PICK o \in 1..Len(l2) : l2[o].docID = docid
    BY <2>2 DEF Names
  <2>5. l[j].numPositions = l1[m].numPositions + l2[o].numPositions
    BY <1>2, <2>3, <2>4
  <2>6. l1[m].numPositions = R(n - 1)
    BY <2>3 DEF Lists
  <2>7. l2[o].numPositions = P(n)
    BY <2>4 DEF WordsList, PositionsOf
  <2>8. \A v \in 1..n : P(v) \in Nat
    BY <2>2 DEF HasWords
  <2> HIDE DEF docid
  <2>9. R(n) = R(n - 1) + P(n)
    BY <2>8, RankMore
  <2> HIDE DEF P, R
  <2>10. l[j].numPositions = R(n)
    BY <2>5, <2>6, <2>7, <2>9
  <2>11. QED
    BY <2>10 DEF R, docid
<1>5. QED
  BY <1>2, <1>3, <1>4 DEF Lists, l

(* Where no document has some word, none has them all. *)
LEMMA ListsNone ==
    ASSUME NEW q, NEW tables, NEW n \in Nat, NEW m \in 1..n,
           \A x : Postings(tables, q[m].word, x) = {}
    PROVE  Lists(q, <<>>, tables, n)
<1>1. IsList(<<>>) /\ Len(<<>>) = 0
  BY NoList
<1>2. \A x : ~Names(<<>>, x)
  BY <1>1 DEF Names
<1>3. \A x : ~HasWords(q, tables, x, n)
  BY DEF HasWords
<1>4. QED
  BY <1>1, <1>2, <1>3 DEF Lists

(* Nor does any when none has the first of them. *)
LEMMA ListsStayNone ==
    ASSUME NEW q, NEW tables, NEW n \in Nat, NEW m \in 1..n, Lists(q, <<>>, tables, m)
    PROVE  Lists(q, <<>>, tables, n)
<1>1. IsList(<<>>) /\ Len(<<>>) = 0
  BY NoList
<1>2. \A x : ~Names(<<>>, x)
  BY <1>1 DEF Names
<1>3. \A x : ~HasWords(q, tables, x, m)
  BY <1>2 DEF Lists
<1>4. \A v \in 1..m : v \in 1..n
  OBVIOUS
<1>5. \A x : ~HasWords(q, tables, x, n)
  BY <1>3, <1>4 DEF HasWords
<1>6. QED
  BY <1>1, <1>2, <1>5 DEF Lists

-----------------------------------------------------------------------------
(* Answers.                                                                *)

(* A sequence that has each element of a set once. *)
Enumerates(g, E) ==
    /\ g \in Seq(E)
    /\ \A j, m \in 1..Len(g) : g[j] = g[m] => j = m
    /\ \A e \in E : \E j \in 1..Len(g) : g[j] = e

(* A sequence of results, one for each pair in E of an index file and a    *)
(* result.                                                                 *)
Shown(rs, g) == rs = [n \in 1..Len(g) |-> g[n][2]]

(* The results are those of the pairs, each pair shown once. *)
Answers(rs, E) == \E g : Enumerates(g, E) /\ Shown(rs, g)

(* None. *)
LEMMA AnswersNone ==
    ASSUME NEW E, E = {}
    PROVE  Answers(<<>>, E)
<1> DEFINE g == <<>>
<1>1. g \in Seq(E) /\ Len(g) = 0 /\ 1..0 = {}
  OBVIOUS
<1>2. Enumerates(g, E)
  BY <1>1 DEF Enumerates
<1>3. Shown(<<>>, g)
  BY <1>1 DEF Shown
<1>4. QED
  BY <1>2, <1>3 DEF Answers

(* One more. *)
LEMMA AnswersMore ==
    ASSUME NEW rs, NEW E, Answers(rs, E), NEW e, e \notin E
    PROVE  Answers(Append(rs, e[2]), E \cup {e})
<1> DEFINE F == E \cup {e}
<1>1. PICK g : Enumerates(g, E) /\ Shown(rs, g)
  BY DEF Answers
<1> DEFINE h == Append(g, e)
           n == Len(g)
<1>2. g \in Seq(E) /\ (\A j, m \in 1..n : g[j] = g[m] => j = m)
      /\ (\A x \in E : \E j \in 1..n : g[j] = x)
  BY <1>1 DEF Enumerates
<1>3. n \in Nat /\ Len(h) = n + 1 /\ h[n + 1] = e /\ (\A j \in 1..n : h[j] = g[j] /\ g[j] \in E)
      /\ h \in Seq(F)
  <2>1. g \in Seq(F) /\ e \in F
    BY <1>2
  <2> HIDE DEF F
  <2>2. QED
    BY <1>2, <2>1
<1> HIDE DEF h, n
<1>4. \A j \in 1..(n + 1) : j \in 1..n \/ j = n + 1
  BY <1>3
<1>5. \A j \in 1..n : j \in 1..(n + 1)
  BY <1>3
<1>6. n + 1 \in 1..(n + 1)
  BY <1>3
<1>7. \A j, m \in 1..(n + 1) : h[j] = h[m] => j = m
  BY <1>2, <1>3, <1>4
<1>8. \A x \in F : \E j \in 1..(n + 1) : h[j] = x
  BY <1>2, <1>3, <1>5, <1>6
<1>9. Enumerates(h, F)
  BY <1>3, <1>7, <1>8 DEF Enumerates
<1>10. Shown(Append(rs, e[2]), h)
  <2> DEFINE f == e[2]
             S == {f} \cup {g[j][2] : j \in 1..n}
             more == Append(rs, f)
  <2>1. rs = [j \in 1..n |-> g[j][2]]
    BY <1>1 DEF Shown, n
  <2>2. rs \in Seq(S) /\ Len(rs) = n /\ \A j \in 1..n : rs[j] = g[j][2]
    <3>1. \A j \in 1..n : g[j][2] \in S
      OBVIOUS
    <3> HIDE DEF S
    <3>2. QED
      BY <1>3, <2>1, <3>1
  <2>3. f \in S /\ f = e[2]
    OBVIOUS
  <2> HIDE DEF S, f
  <2>4. more \in Seq(S) /\ Len(more) = n + 1 /\ more[n + 1] = f /\ \A j \in 1..n : more[j] = rs[j]
    BY <1>3, <2>2, <2>3
  <2> HIDE DEF more
  <2>5. \A j \in 1..(n + 1) : more[j] = h[j][2]
    BY <1>3, <1>4, <2>2, <2>3, <2>4
  <2>6. DOMAIN more = 1..(n + 1)
    BY <2>4
  <2>7. more = [j \in 1..(n + 1) |-> more[j]]
    BY <2>4, <2>6
  <2>8. more = [j \in 1..(n + 1) |-> h[j][2]]
    BY <2>5, <2>7
  <2>9. QED
    BY <1>3, <2>8 DEF Shown, more, f
<1>11. QED
  BY <1>9, <1>10 DEF Answers

(* In another order. *)
LEMMA AnswersSorted ==
    ASSUME NEW rs, NEW E, Answers(rs, E), NEW p \in [DOMAIN rs -> DOMAIN rs], IsInjective(p)
    PROVE  Answers([n \in DOMAIN rs |-> rs[p[n]]], E)
<1>1. PICK g : Enumerates(g, E) /\ Shown(rs, g)
  BY DEF Answers
<1> DEFINE n == Len(g)
           I == 1..n
           h == [j \in I |-> g[p[j]]]
           sorted == [j \in DOMAIN rs |-> rs[p[j]]]
<1>2. g \in Seq(E) /\ (\A j, m \in I : g[j] = g[m] => j = m)
      /\ (\A x \in E : \E j \in I : g[j] = x)
  BY <1>1 DEF Enumerates
<1>3. rs = [j \in I |-> g[j][2]] /\ DOMAIN rs = I /\ n \in Nat /\ \A j \in I : g[j] \in E
  BY <1>1, <1>2 DEF Shown
<1>4. p \in [I -> I] /\ \A j, m \in I : p[j] = p[m] => j = m
  BY <1>3 DEF IsInjective
<1>5. \A m \in I : \E j \in I : p[j] = m
  <2>1. IsFiniteSet(I)
    <3>1. 1 \in Int /\ n \in Int
      BY <1>3
    <3> HIDE DEF n
    <3>2. QED
      BY <3>1, FS_Interval
  <2> HIDE DEF I
  <2>2. p \in Injection(I, I)
    BY <1>4 DEF Injection
  <2>3. p \in Surjection(I, I)
    BY <2>1, <2>2, FS_Injection
  <2>4. QED
    BY <2>3 DEF Surjection
<1>6. Len(h) = n /\ h \in Seq(E)
  BY <1>3, <1>4
<1>7. \A j, m \in I : h[j] = h[m] => j = m
  BY <1>2, <1>4
<1>8. \A x \in E : \E j \in I : h[j] = x
  <2> TAKE x \in E
  <2>1. PICK m \in I : g[m] = x
    BY <1>2
  <2>2. PICK j \in I : p[j] = m
    BY <1>5
  <2>3. QED
    BY <2>1, <2>2
<1>9. Enumerates(h, E)
  BY <1>6, <1>7, <1>8 DEF Enumerates
<1>10. Shown(sorted, h)
  <2>1. \A j \in I : sorted[j] = h[j][2]
    BY <1>3, <1>4
  <2>2. sorted = [j \in I |-> h[j][2]]
    BY <1>3, <1>4, <2>1
  <2>3. QED
    BY <1>6, <2>2 DEF Shown
<1>11. QED
  BY <1>9, <1>10 DEF Answers

(* There are as many results as pairs, and each result is there as often   *)
(* as there are pairs with it.                                             *)
Counts(rs, E) ==
    /\ Len(rs) = Cardinality(E)
    /\ \A x : Cardinality({m \in DOMAIN rs : rs[m] = x}) = Cardinality({e \in E : e[2] = x})

(* That is how AnswersExact counts them. *)
LEMMA AnswersCount ==
    ASSUME NEW rs, NEW E, Answers(rs, E)
    PROVE  Counts(rs, E)
<1>1. PICK g : Enumerates(g, E) /\ Shown(rs, g)
  BY DEF Answers
<1> DEFINE n == Len(g)
           I == 1..n
<1>2. g \in Seq(E) /\ (\A j, m \in I : g[j] = g[m] => j = m)
      /\ (\A x \in E : \E j \in I : g[j] = x)
  BY <1>1 DEF Enumerates
<1>3. rs = [j \in I |-> g[j][2]] /\ DOMAIN rs = I /\ n \in Nat /\ Len(rs) = n
      /\ (\A j \in I : g[j] \in E /\ rs[j] = g[j][2]) /\ DOMAIN g = I
  BY <1>1, <1>2 DEF Shown
<1>4. IsFiniteSet(I) /\ Cardinality(I) = n
  <2>1. 1 \in Int /\ n \in Int /\ n \in Nat
    BY <1>3
  <2> HIDE DEF n
  <2>2. IsFiniteSet(1..n) /\ Cardinality(1..n) = IF 1 > n THEN 0 ELSE n - 1 + 1
    BY <2>1, FS_Interval, Zenon
  <2>3. QED
    BY <2>1, <2>2
<1> HIDE DEF I
<1>5. ASSUME NEW J \in SUBSET I, NEW F \in SUBSET E, \A j \in I : j \in J <=> g[j] \in F
      PROVE  Cardinality(J) = Cardinality(F)
  <2> DEFINE f == [j \in J |-> g[j]]
  <2>1. f \in [J -> F]
    BY <1>5
  <2>2. \A j, m \in J : f[j] = f[m] => j = m
    BY <1>2, <1>5
  <2>3. \A x \in F : \E j \in J : f[j] = x
    BY <1>2, <1>5
  <2> HIDE DEF f
  <2>4. f \in Bijection(J, F)
    <3>1. f \in Injection(J, F)
      BY <2>1, <2>2 DEF Injection, IsInjective
    <3>2. f \in Surjection(J, F)
      BY <2>1, <2>3 DEF Surjection
    <3>3. QED
      BY <3>1, <3>2 DEF Bijection
  <2>5. ExistsBijection(J, F)
    BY <2>4 DEF ExistsBijection
  <2>6. IsFiniteSet(J)
    BY <1>4, <1>5, FS_Subset
  <2>7. QED
    BY <2>5, <2>6, FS_Bijection
<1>6. Cardinality(I) = Cardinality(E)
  BY <1>3, <1>5
<1>7. ASSUME NEW x
      PROVE  Cardinality({m \in DOMAIN rs : rs[m] = x}) = Cardinality({e \in E : e[2] = x})
  <2> DEFINE J == {m \in I : rs[m] = x}
             F == {e \in E : e[2] = x}
  <2>1. J \in SUBSET I /\ F \in SUBSET E /\ \A j \in I : j \in J <=> g[j] \in F
    BY <1>3
  <2> HIDE DEF J, F
  <2>2. Cardinality(J) = Cardinality(F)
    BY <1>5, <2>1
  <2>3. QED
    BY <1>3, <2>2 DEF J, F
<1>8. QED
  BY <1>3, <1>4, <1>6, <1>7 DEF Counts

-----------------------------------------------------------------------------
(* What is expected, index file by index file.                             *)

(* The answer that a document of the x-th index file is. *)
AnswerFor(q, x, tables, d) ==
    <<x, [documentName |-> d.name, rank |-> RankOf(q, tables, d.key, Len(q))]>>

(* Those of the documents that have all the words, *)
AnswersOf(q, x, tables) ==
    {AnswerFor(q, x, tables, d) :
        d \in {m \in Elements(tables.dt) : HasWords(q, tables, m.key, Len(q))}}

(* of the first n index files, *)
ExpectedOf(q, list, n) == UNION {AnswersOf(q, x, IndexTables[list[x]]) : x \in 1..n}

(* and of the first n documents of a list. *)
Named(q, x, tables, l, n) ==
    {AnswerFor(q, x, tables, d) :
        d \in {m \in Elements(tables.dt) : \E j \in 1..n : l[j].docID = m.key}}

(* That is what Expected says. *)
LEMMA ExpectedIs ==
    ASSUME IsQuery(query), NEW n
    PROVE  Expected(n) = ExpectedOf(query, indexlist, n)
<1>1. DOMAIN query = 1..Len(query)
  <2> DEFINE S == ToSet(query)
  <2>1. query \in Seq(S)
    BY DEF IsQuery
  <2> HIDE DEF S
  <2>2. QED
    BY <2>1
<1>2. ASSUME NEW tables, NEW docid, NEW m
      PROVE  RankUpTo(tables, docid, m) = RankOf(query, tables, docid, m)
  BY DEF RankUpTo, RankOf, PositionsOf
<1>3. ASSUME NEW x, NEW tables
      PROVE  {<<x, [documentName |-> d.name, rank |-> Rank(tables, d)]>> : d \in Matching(tables)}
                = AnswersOf(query, x, tables)
  <2>1. Matching(tables) = {m \in Elements(tables.dt) : HasWords(query, tables, m.key, Len(query))}
    BY <1>1 DEF Matching, HasWords
  <2>2. ASSUME NEW d
        PROVE  <<x, [documentName |-> d.name, rank |-> Rank(tables, d)]>> = AnswerFor(query, x, tables, d)
    BY <1>2 DEF Rank, AnswerFor
  <2>3. QED
    BY <2>1, <2>2, Zenon DEF AnswersOf
<1> DEFINE T(x) == IndexTables[indexlist[x]]
           S(x) == {<<x, [documentName |-> d.name, rank |-> Rank(T(x), d)]>> : d \in Matching(T(x))}
           A(x) == AnswersOf(query, x, T(x))
<1>4. Expected(n) = UNION {A(x) : x \in 1..n}
  <2>1. Expected(n) = UNION {S(x) : x \in 1..n}
    BY Zenon DEF Expected
  <2>2. \A x : S(x) = A(x)
    BY <1>3, Zenon
  <2> HIDE DEF S, A
  <2>3. {S(x) : x \in 1..n} = {A(x) : x \in 1..n}
    BY <2>2, Zenon
  <2>4. QED
    BY <2>1, <2>3, Zenon
<1>5. QED
  BY <1>4 DEF ExpectedOf

(* One index file more. *)
LEMMA ExpectedMore ==
    ASSUME NEW q, NEW list, NEW n \in Nat \ {0}
    PROVE  /\ ExpectedOf(q, list, n)
                 = ExpectedOf(q, list, n - 1) \cup AnswersOf(q, n, IndexTables[list[n]])
           /\ \A e \in ExpectedOf(q, list, n - 1) : e[1] # n
           /\ ExpectedOf(q, list, 0) = {}
<1>1. 1..n = 1..(n - 1) \cup {n} /\ 1..0 = {} /\ n \notin 1..(n - 1)
  OBVIOUS
<1>2. ExpectedOf(q, list, n) = ExpectedOf(q, list, n - 1) \cup AnswersOf(q, n, IndexTables[list[n]])
  <2> DEFINE A(x) == AnswersOf(q, x, IndexTables[list[x]])
             I == 1..(n - 1)
  <2>1. 1..n = I \cup {n}
    BY <1>1
  <2> HIDE DEF I, A
  <2>2. UNION {A(x) : x \in I \cup {n}} = (UNION {A(x) : x \in I}) \cup A(n)
    BY Zenon
  <2>3. UNION {A(x) : x \in 1..n} = (UNION {A(x) : x \in I}) \cup A(n)
    BY <2>1, <2>2
  <2>4. QED
    BY <2>3, Zenon DEF ExpectedOf, A, I
<1>3. ASSUME NEW e \in ExpectedOf(q, list, n - 1)
      PROVE  e[1] # n
  <2>1. PICK x \in 1..(n - 1) : e \in AnswersOf(q, x, IndexTables[list[x]])
    BY DEF ExpectedOf
  <2>2. e[1] = x
    BY <2>1 DEF AnswersOf, AnswerFor
  <2>3. QED
    BY <1>1, <2>1, <2>2
<1>4. ExpectedOf(q, list, 0) = {}
  BY <1>1 DEF ExpectedOf
<1>5. QED
  BY <1>2, <1>3, <1>4

(* One document more. *)
LEMMA NamedMore ==
    ASSUME NEW q, NEW x, NEW tables, AreTables(tables), NEW l, IsList(l),
           NEW n \in Nat, n < Len(l), NEW d \in Elements(tables.dt), d.key = l[n + 1].docID
    PROVE  /\ Named(q, x, tables, l, n + 1)
                 = Named(q, x, tables, l, n) \cup {AnswerFor(q, x, tables, d)}
           /\ AnswerFor(q, x, tables, d) \notin Named(q, x, tables, l, n)
<1> DEFINE E == Elements(tables.dt)
           A(m) == AnswerFor(q, x, tables, m)
           Of(o) == {m \in E : \E j \in 1..o : l[j].docID = m.key}
<1>1. 1..(n + 1) = 1..n \cup {n + 1} /\ n + 1 \in 1..Len(l) /\ \A j \in 1..n : j \in 1..Len(l) /\ j # n + 1
  BY DEF IsList
<1>2. \A m \in E : m.key = d.key => m = d
  <2> DEFINE dtable == tables.dt
  <2>1. IsTable(dtable) /\ KeysDiffer(dtable)
    BY DEF AreTables, IsDocTable
  <2> HIDE DEF dtable
  <2>2. \A m, o \in Elements(dtable) : m.key = o.key => m = o
    BY <2>1, OneKey
  <2>3. QED
    BY <2>2 DEF dtable
<1>3. Of(n + 1) = Of(n) \cup {d}
  BY <1>1, <1>2
<1>4. d \notin Of(n)
  <2> SUFFICES ASSUME NEW j \in 1..n, l[j].docID = d.key
               PROVE  FALSE
    OBVIOUS
  <2>1. l[j].docID = l[n + 1].docID
    OBVIOUS
  <2>2. QED
    BY <1>1, <2>1 DEF IsList
<1>5. \A m \in E : A(m) = A(d) => m = d
  <2>1. \A m : A(m)[2].documentName = m.name
    BY DEF AnswerFor
  <2>2. \A m \in E : m.name = d.name => m = d
    BY DEF AreTables
  <2>3. QED
    BY <2>1, <2>2
<1> HIDE DEF A
<1>6. {A(m) : m \in Of(n + 1)} = {A(m) : m \in Of(n)} \cup {A(d)}
  <2> DEFINE U == Of(n)
             V == Of(n + 1)
  <2>1. V = U \cup {d}
    BY <1>3
  <2> HIDE DEF U, V
  <2>2. {A(m) : m \in V} = {A(m) : m \in U} \cup {A(d)}
    BY <2>1, Zenon
  <2>3. QED
    BY <2>2 DEF U, V
<1>7. A(d) \notin {A(m) : m \in Of(n)}
  BY <1>4, <1>5
<1>8. QED
  BY <1>6, <1>7, Zenon DEF Named, A

(* None and all of them. *)
LEMMA NamedAll ==
    ASSUME NEW q, NEW x, NEW tables, NEW l
    PROVE  /\ Named(q, x, tables, l, 0) = {}
           /\ Lists(q, l, tables, Len(q)) => Named(q, x, tables, l, Len(l)) = AnswersOf(q, x, tables)
<1>1. Named(q, x, tables, l, 0) = {}
  BY DEF Named
<1>2. ASSUME Lists(q, l, tables, Len(q))
      PROVE  Named(q, x, tables, l, Len(l)) = AnswersOf(q, x, tables)
  <2>1. \A y : (\E j \in 1..Len(l) : l[j].docID = y) <=> HasWords(q, tables, y, Len(q))
    BY <1>2 DEF Lists, Names
  <2>2. QED
    BY <2>1, Zenon DEF Named, AnswersOf
<1>3. QED
  BY <1>1, <1>2

(* The occurrences of a word are counted. *)
LEMMA PositionsCount ==
    ASSUME NEW q, NEW tables, AreTables(tables), NEW m, NEW docid,
           \A d, e \in Elements(tables.mi) : d.word = q[m].word /\ e.word = q[m].word => d.key = e.key,
           Postings(tables, q[m].word, docid) # {}
    PROVE  PositionsOf(q, tables, docid, m) \in Nat
<1> DEFINE word == q[m].word
<1>1. PICK e \in Elements(tables.mi) : e.word = word
  BY DEF Postings
<1>2. Postings(tables, word, docid) = {p \in Elements(e.postings) : p.key = docid}
  BY <1>1, PostingsOf
<1>3. \A p \in Elements(e.postings) : p.positions \in Seq(Nat)
  BY PositionsAre DEF AreTables, IsMemIndex
<1> DEFINE p == CHOOSE r \in Postings(tables, word, docid) : TRUE
<1>4. p \in Postings(tables, word, docid)
  OBVIOUS
<1> HIDE DEF p
<1>5. p.positions \in Seq(Nat)
  BY <1>2, <1>3, <1>4
<1>6. Len(p.positions) \in Nat
  BY <1>5
<1>7. QED
  BY <1>6 DEF PositionsOf, p

-----------------------------------------------------------------------------
(* What a query has found so far.                                          *)

(* The documents of index file i that have the words up to w, or all. *)
Matched ==
    /\ pc \in Asking => \/ w = 1 /\ result = <<>>
                        \/ w > 1 /\ Lists(query, result, TablesOf(i), w - 1)
    /\ pc = "documents" => Lists(query, result, TablesOf(i), Len(query))

(* The results of the index files before, and of those named of this one. *)
Before == ExpectedOf(query, indexlist, i - 1)

(* The results that have been gathered are those expected so far; the sum  *)
(* over all index files at the end, in order after the sort.               *)
Gathered ==
    /\ pc \in Building => query = <<>>
    /\ pc \in Asking => Answers(finalresult, Before)
    /\ pc = "documents" =>
          Answers(finalresult, Before \cup Named(query, i, TablesOf(i), result, k))
    /\ pc = "sort" \/ (pc = "ready" /\ query # <<>>) =>
          Answers(finalresult, ExpectedOf(query, indexlist, Len(indexlist)))
    /\ pc = "ready" /\ query # <<>> => Descending(finalresult)

(* A step that only reads. *)
LEMMA GatheredStays ==
    ASSUME Matched, Gathered, UNCHANGED <<indexlist, i, query, w, result, k, finalresult>>,
           pc' = pc \/ (pc \in Asking /\ pc' \in Asking)
    PROVE  Matched' /\ Gathered'
<1>1. TablesOf(i)' = TablesOf(i) /\ Before' = Before
  BY DEF TablesOf, Before
<1>2. /\ pc' \in Asking <=> pc \in Asking
      /\ pc' \in Building <=> pc \in Building
      /\ \A p \in {"documents", "sort", "ready"} : pc' = p <=> pc = p
  BY DEF Asking, Building
<1>3. Matched'
  BY <1>1, <1>2 DEF Matched
<1>4. Gathered'
  BY <1>1, <1>2 DEF Gathered
<1>5. QED
  BY <1>3, <1>4

(* One that ends the query, or opens the index files. *)
LEMMA GatheredElsewhere ==
    ASSUME pc' \notin Querying, pc' \in Building \cup {"ready"} => query' = <<>>
    PROVE  Matched' /\ Gathered'
<1>1. pc' \notin Asking /\ pc' # "documents" /\ pc' # "sort" /\ "ready" \notin Building
  BY DEF Querying, Building
<1>2. QED
  BY <1>1 DEF Matched, Gathered

(* The current word and the list of its documents. *)
LEMMA WordsAre ==
    ASSUME Listed, Given, Asked, pc \in Asking
    PROVE  /\ AreTables(TablesOf(i)) /\ Len(query) \in Nat /\ w \in 1..Len(query)
           /\ \A m \in 1..Len(query) : \A d, e \in Elements(TablesOf(i).mi) :
                 d.word = query[m].word /\ e.word = query[m].word => d.key = e.key
<1>1. i \in 1..Len(indexlist) /\ IsQuery(query) /\ w \in 1..Len(query)
  BY DEF Listed, Asked
<1>2. AreTables(TablesOf(i))
  BY <1>1, FilesAre
<1>3. Len(query) \in Nat
  <2> DEFINE S == ToSet(query)
  <2>1. query \in Seq(S)
    BY <1>1 DEF IsQuery
  <2> HIDE DEF S
  <2>2. QED
    BY <2>1
<1>4. \A m \in 1..Len(query) : \A e \in Elements(TablesOf(i).mi) :
         e.word = query[m].word => e.key = query[m].key
  BY <1>1, WordIs
<1>5. QED
  BY <1>1, <1>2, <1>3, <1>4

(* What Combine reads is that list. *)
LEMMA ListIs ==
    ASSUME Listed, Given, Asked, HasList, pc \in Asking
    PROVE  WordsList(GetDocIDList(file, table), TablesOf(i), query[w].word)
<1>1. /\ AreTables(TablesOf(i)) /\ w \in 1..Len(query)
      /\ \A d, e \in Elements(TablesOf(i).mi) :
            d.word = query[w].word /\ e.word = query[w].word => d.key = e.key
  BY WordsAre
<1>2. PICK e \in Elements(TablesOf(i).mi) :
         e.word = query[w].word /\ ListAt(files[i].contents, table, e.postings, files[i].size)
  BY DEF HasList
<1>3. IsPostings(e.postings)
  BY PostingsAre
<1> DEFINE postings == e.postings
           size == files[i].size
           l == GetDocIDList(file, table)
<1>4. ListAt(file, table, postings, size) /\ IsPostings(postings)
  BY <1>2, <1>3 DEF file
<1> HIDE DEF postings, size
<1>5. ToSet(l) = HeadersListed(postings)
  BY <1>4, ListIsRead
<1>6. IsList(l)
  BY ListInside
<1> HIDE DEF l
<1> DEFINE word == query[w].word
           tables == TablesOf(i)
<1>7. /\ AreTables(tables) /\ e \in Elements(tables.mi) /\ e.word = word
      /\ \A d, m \in Elements(tables.mi) : d.word = word /\ m.word = word => d.key = m.key
      /\ ToSet(l) = HeadersListed(e.postings)
  BY <1>1, <1>2, <1>5 DEF postings
<1> HIDE DEF word, tables
<1>8. WordsList(l, tables, word)
  BY <1>6, <1>7, ListOfWord
<1>9. QED
  BY <1>8 DEF l, word, tables

(* Its documents are combined with those found so far. *)
LEMMA CombinedMatches ==
    ASSUME Listed, Given, Asked, HasList, pc \in Asking, Matched, Combined
    PROVE  Lists(query, result', TablesOf(i), w)
<1> DEFINE list == GetDocIDList(file, table)
           tables == TablesOf(i)
<1>1. /\ AreTables(tables) /\ Len(query) \in Nat /\ w \in 1..Len(query)
      /\ \A m \in 1..Len(query) : \A d, e \in Elements(tables.mi) :
            d.word = query[m].word /\ e.word = query[m].word => d.key = e.key
  BY WordsAre
<1>2. WordsList(list, tables, query[w].word)
  BY ListIs
<1>3. result' = IF w = 1 THEN list ELSE ListCombine(result, list)
  BY DEF Combined
<1>4. \A m \in 1..w : \A x : Postings(tables, query[m].word, x) # {} => PositionsOf(query, tables, x, m) \in Nat
  <2>1. \A m \in 1..w : m \in 1..Len(query)
    BY <1>1
  <2> HIDE DEF tables
  <2>2. QED
    BY <1>1, <2>1, PositionsCount
<1>5. \/ w = 1 /\ result = <<>>
      \/ w > 1 /\ Lists(query, result, tables, w - 1)
  BY DEF Matched
<1> HIDE DEF list, tables
<1>6. CASE w = 1
  <2>1. Lists(query, list, tables, 1)
    BY <1>2, <1>6, ListsFirst
  <2>2. QED
    BY <1>3, <1>6, <2>1 DEF tables
<1>7. CASE w # 1
  <2>1. w \in Nat /\ w > 1 /\ Lists(query, result, tables, w - 1)
    BY <1>1, <1>5, <1>7
  <2>2. Lists(query, ListCombine(result, list), tables, w)
    BY <1>2, <1>4, <2>1, ListsMore
  <2>3. QED
    BY <1>3, <1>7, <2>2 DEF tables
<1>8. QED
  BY <1>6, <1>7

(* The end of the loop over the words: nothing is named yet. *)
LEMMA LoopEnds ==
    ASSUME Gathered, Counted, pc \in Asking, UNCHANGED <<indexlist, i, query, k, finalresult>>,
           \/ pc' \in Asking
           \/ pc' = "documents"
    PROVE  Gathered'
<1>1. TablesOf(i)' = TablesOf(i) /\ Before' = Before
  BY DEF TablesOf, Before
<1>2. k' = 0
  BY DEF Counted
<1>3. Answers(finalresult, Before)
  BY DEF Gathered
<1>4. Before \cup Named(query', i', TablesOf(i)', result', k') = Before
  BY <1>2, NamedAll
<1>5. pc' \notin Building /\ pc' # "sort" /\ pc' # "ready"
  BY DEF Asking, Building
<1>6. CASE pc' = "documents"
  <2>1. pc' \notin Asking
    BY <1>6 DEF Asking
  <2>2. QED
    BY <1>1, <1>3, <1>4, <1>5, <1>6, <2>1 DEF Gathered
<1>7. CASE pc' \in Asking
  <2>1. pc' # "documents"
    BY <1>7 DEF Asking
  <2>2. QED
    BY <1>1, <1>3, <1>5, <1>7, <2>1 DEF Gathered
<1>8. QED
  BY <1>6, <1>7

(* A word that the index file does not have. *)
LEMMA MissingMatches ==
    ASSUME Kept, Located, Matched, Gathered, WordMissing
    PROVE  Matched' /\ Gathered'
<1>0. Listed /\ Given /\ Asked /\ Counted /\ Looked /\ indexlist' = indexlist
  BY DEF Kept, Located, WordMissing, args
<1>1. /\ pc = "found?" /\ table = 0 /\ UNCHANGED <<i, query, k, finalresult>>
      /\ IF w = 1 /\ Len(query) > 2 THEN w' = 3 /\ result' = result /\ pc' = "lookup"
         ELSE w' = w /\ result' = <<>> /\ pc' = "documents"
  BY DEF WordMissing
<1>2. pc \in Asking
  BY <1>1 DEF Asking
<1>3. Len(query) \in Nat /\ w \in 1..Len(query)
  BY <1>0, <1>2, WordsAre
<1>4. \A e \in Elements(TablesOf(i).mi) : e.word # query[w].word
  BY <1>0, <1>1 DEF Looked
<1>5. \A x : Postings(TablesOf(i), query[w].word, x) = {}
  BY <1>4, NoPostings
<1>6. TablesOf(i)' = TablesOf(i)
  BY <1>0, <1>1 DEF TablesOf
<1>7. Gathered'
  BY <1>0, <1>1, <1>2, LoopEnds DEF Asking
<1>8. CASE w = 1 /\ Len(query) > 2
  <2>1. w' = 3 /\ result' = result /\ pc' = "lookup" /\ result = <<>>
    BY <1>1, <1>2, <1>8 DEF Matched
  <2>2. 2 \in Nat /\ 1 \in 1..2
    OBVIOUS
  <2>3. Lists(query, <<>>, TablesOf(i), 2)
    BY <1>5, <1>8, <2>2, ListsNone
  <2>4. QED
    BY <1>1, <1>6, <1>7, <2>1, <2>3 DEF Matched, Asking
<1>9. CASE ~(w = 1 /\ Len(query) > 2)
  <2>1. result' = <<>> /\ pc' = "documents"
    BY <1>1, <1>9
  <2>2. Lists(query, <<>>, TablesOf(i), Len(query))
    BY <1>3, <1>5, ListsNone
  <2>3. QED
    BY <1>1, <1>6, <1>7, <2>1, <2>2 DEF Matched, Asking
<1>10. QED
  BY <1>8, <1>9

(* One that it has. *)
LEMMA CombineMatches ==
    ASSUME Kept, Located, Matched, Gathered, Combine
    PROVE  Matched' /\ Gathered'
<1>0. Listed /\ Given /\ Asked /\ Counted /\ Looked /\ indexlist' = indexlist
  BY DEF Kept, Located, Combine, args
<1>1. /\ pc = "combine" /\ Combined /\ UNCHANGED <<i, query, k, finalresult>>
      /\ \/ w' = w + 1 /\ pc' = "lookup"
         \/ w = Len(query) /\ pc' = "documents"
         \/ result' = <<>> /\ pc' = "documents"
  BY DEF Combine, Combined
<1>2. pc \in Asking /\ HasList
  BY <1>0, <1>1 DEF Asking, Looked
<1>3. Len(query) \in Nat /\ w \in 1..Len(query)
  BY <1>0, <1>2, WordsAre
<1>4. Lists(query, result', TablesOf(i), w)
  BY <1>0, <1>1, <1>2, CombinedMatches
<1>5. TablesOf(i)' = TablesOf(i)
  BY <1>0, <1>1 DEF TablesOf
<1>6. Gathered'
  BY <1>0, <1>1, <1>2, LoopEnds DEF Asking
<1>7. CASE w' = w + 1 /\ pc' = "lookup"
  <2>1. w' > 1 /\ w' - 1 = w
    BY <1>3, <1>7
  <2>2. Lists(query', result', TablesOf(i)', w' - 1)
    BY <1>1, <1>4, <1>5, <2>1
  <2>3. QED
    BY <1>6, <1>7, <2>1, <2>2 DEF Matched, Asking
<1>8. CASE pc' = "documents"
  <2>1. Lists(query, result', TablesOf(i), Len(query))
    <3>1. CASE w = Len(query)
      BY <1>4, <3>1
    <3>2. CASE result' = <<>>
      BY <1>3, <1>4, <3>2, ListsStayNone
    <3>3. QED
      BY <1>1, <1>8, <3>1, <3>2
  <2>2. QED
    BY <1>1, <1>5, <1>6, <1>8, <2>1 DEF Matched, Asking
<1>9. QED
  BY <1>1, <1>7, <1>8

(* A document is named. *)
LEMMA NameGathers ==
    ASSUME Kept, Located, Matched, Gathered, NameDocument
    PROVE  Matched' /\ Gathered'
<1>0. Listed /\ Given /\ Validated /\ Asked /\ Counted
  BY DEF Kept, Located
<1>1. CASE Exit
  <2>1. pc' \notin Querying /\ pc' \notin Building /\ pc' # "ready"
    BY <1>1 DEF Exit, Querying, Asking, Building
  <2>2. QED
    BY <2>1, GatheredElsewhere
<1>2. CASE ~Exit
  <2> DEFINE header == result[k + 1]
             docid == header.docID
             doc == DocTable_LookupDocID(file, FileHeaderSize, docid)
             tables == TablesOf(i)
             pair(d) == AnswerFor(query, i, tables, d)
             E == Before \cup Named(query, i, tables, result, k)
             item == [documentName |-> doc.name, rank |-> header.numPositions]
  <2>1. /\ pc = "documents" /\ pc' = pc /\ k < Len(result) /\ doc # NotFound
        /\ finalresult' = Append(finalresult, item)
        /\ k' = k + 1
        /\ indexlist' = indexlist /\ UNCHANGED <<i, query, w, result>>
    BY <1>2 DEF NameDocument, args, Doctable
  <2>2. /\ i \in 1..Len(indexlist) /\ AreTables(tables) /\ Readable(file, files[i].size, tables)
    BY <1>0, <2>1, FileIsRead DEF Querying
  <2>3. IsList(result) /\ k \in Nat /\ k + 1 \in 1..Len(result) /\ docid \in Nat
    <3>1. result \in Seq(Headers) /\ k + 1 \in 1..Len(result) /\ k \in Nat
      BY <1>0, <2>1 DEF Counted, IsList
    <3>2. result[k + 1] \in Headers
      <4> HIDE DEF Headers
      <4>1. QED
        BY <3>1
    <3>3. QED
      BY <1>0, <3>1, <3>2 DEF Headers, Counted
  <2>4. Lists(query, result, tables, Len(query))
    BY <2>1 DEF Matched
  <2>5. header.numPositions = RankOf(query, tables, docid, Len(query))
    BY <2>3, <2>4 DEF Lists
  <2> HIDE DEF docid, tables
  <2>6. PICK d \in Elements(tables.dt) : d.key = docid
    <3>1. (\A d \in Elements(tables.dt) : d.key # docid) => doc = NotFound
      BY <2>2, <2>3, DocIsNamed
    <3>2. QED
      BY <2>1, <3>1
  <2>7. doc = [found |-> TRUE, name |-> d.name]
    BY <2>2, <2>3, <2>6, DocIsNamed
  <2> HIDE DEF doc, header
  <2>8. item = pair(d)[2]
    BY <2>5, <2>6, <2>7 DEF AnswerFor
  <2> HIDE DEF item
  <2>9. /\ Named(query, i, tables, result, k + 1) = Named(query, i, tables, result, k) \cup {pair(d)}
        /\ pair(d) \notin Named(query, i, tables, result, k)
    <3>1. d.key = result[k + 1].docID
      BY <2>6 DEF docid, header
    <3>2. QED
      BY <2>1, <2>2, <2>3, <3>1, NamedMore
  <2>10. pair(d) \notin Before
    <3>1. pair(d)[1] = i
      BY DEF AnswerFor
    <3>2. i \in Nat \ {0}
      BY <2>2
    <3>3. \A e \in ExpectedOf(query, indexlist, i - 1) : e[1] # i
      BY <3>2, ExpectedMore
    <3>4. QED
      BY <3>1, <3>3 DEF Before
  <2> HIDE DEF pair
  <2>11. Answers(finalresult, E)
    BY <2>1 DEF Gathered, tables
  <2>12. Answers(finalresult', E \cup {pair(d)})
    <3>1. pair(d) \notin E
      BY <2>9, <2>10
    <3> HIDE DEF E
    <3>2. Answers(Append(finalresult, pair(d)[2]), E \cup {pair(d)})
      BY <2>11, <3>1, AnswersMore
    <3>3. QED
      BY <2>1, <2>8, <3>2
  <2>13. E \cup {pair(d)} = Before \cup Named(query, i, tables, result, k + 1)
    BY <2>9
  <2>14. TablesOf(i)' = tables /\ Before' = Before
    BY <2>1 DEF TablesOf, Before, tables
  <2>15. Matched'
    <3>1. pc' \notin Asking
      BY <2>1 DEF Asking
    <3>2. QED
      BY <2>1, <2>4, <2>14, <3>1 DEF Matched
  <2>16. Gathered'
    <3>1. pc' \notin Asking /\ pc' \notin Building /\ pc' # "sort" /\ pc' # "ready"
      BY <2>1 DEF Asking, Building
    <3>2. Answers(finalresult', Before' \cup Named(query', i', TablesOf(i)', result', k'))
      BY <2>1, <2>12, <2>13, <2>14
    <3>3. QED
      BY <3>1, <3>2 DEF Gathered
  <2>17. QED
    BY <2>15, <2>16
<1>3. QED
  BY <1>1, <1>2

(* All are: the index file is finished with. *)
LEMMA NextGathers ==
    ASSUME Kept, Matched, Gathered, NextIndex
    PROVE  Matched' /\ Gathered'
<1>1. /\ pc = "documents" /\ k = Len(result) /\ indexlist' = indexlist
      /\ IF i < Len(indexlist) THEN i' = i + 1 /\ pc' = "lookup" ELSE i' = i /\ pc' = "sort"
      /\ w' = 1 /\ result' = <<>> /\ UNCHANGED <<query, finalresult>>
  BY DEF NextIndex, args
<1>2. i \in 1..Len(indexlist) /\ Len(indexlist) \in Nat /\ i \in Nat \ {0}
  BY DEF Kept, Listed
<1>3. ExpectedOf(query, indexlist, i) = Before \cup AnswersOf(query, i, TablesOf(i))
  BY <1>2, ExpectedMore DEF Before, TablesOf
<1>4. Named(query, i, TablesOf(i), result, k) = AnswersOf(query, i, TablesOf(i))
  <2>1. Lists(query, result, TablesOf(i), Len(query))
    BY <1>1 DEF Matched
  <2>2. QED
    BY <1>1, <2>1, NamedAll
<1>5. Answers(finalresult', ExpectedOf(query, indexlist, i))
  BY <1>1, <1>3, <1>4 DEF Gathered
<1>6. CASE i < Len(indexlist)
  <2>1. i' = i + 1 /\ pc' = "lookup" /\ i' - 1 = i
    BY <1>1, <1>2, <1>6
  <2>2. Before' = ExpectedOf(query, indexlist, i)
    BY <1>1, <2>1 DEF Before
  <2>3. QED
    BY <1>1, <1>5, <2>1, <2>2 DEF Matched, Gathered, Asking, Building
<1>7. CASE ~(i < Len(indexlist))
  <2>1. pc' = "sort" /\ i = Len(indexlist)
    BY <1>1, <1>2, <1>7
  <2>2. QED
    BY <1>1, <1>5, <2>1 DEF Matched, Gathered, Asking, Building
<1>8. QED
  BY <1>6, <1>7

(* The results are put in order. *)
LEMMA SortGathers ==
    ASSUME Matched, Gathered, Sort
    PROVE  Matched' /\ Gathered'
<1>1. pc = "sort" /\ pc' = "ready" /\ indexlist' = indexlist /\ query' = query
  BY DEF Sort, args
<1>2. PICK p \in [DOMAIN finalresult -> DOMAIN finalresult] :
         LET sorted == [n \in DOMAIN finalresult |-> finalresult[p[n]]]
         IN  /\ IsInjective(p)
             /\ Descending(sorted)
             /\ finalresult' = sorted
  BY DEF Sort
<1> DEFINE sorted == [n \in DOMAIN finalresult |-> finalresult[p[n]]]
<1>3. IsInjective(p) /\ Descending(sorted) /\ finalresult' = sorted
  BY <1>2
<1>4. Answers(finalresult, ExpectedOf(query, indexlist, Len(indexlist)))
  BY <1>1 DEF Gathered
<1>5. Answers(sorted, ExpectedOf(query, indexlist, Len(indexlist)))
  <2> DEFINE E == ExpectedOf(query, indexlist, Len(indexlist))
  <2> HIDE DEF E
  <2>1. Answers(finalresult, E)
    BY <1>4 DEF E
  <2>2. Answers(sorted, E)
    BY <1>3, <2>1, AnswersSorted
  <2>3. QED
    BY <2>2 DEF E
<1> HIDE DEF sorted
<1>6. Descending(finalresult')
  BY <1>3
<1>7. QED
  BY <1>1, <1>3, <1>5, <1>6 DEF Matched, Gathered, Asking, Building, Descending

-----------------------------------------------------------------------------
(* A query is asked: nothing is found yet. *)
LEMMA AskGathers ==
    ASSUME NEW q, ProcessQuery(q)
    PROVE  Matched' /\ Gathered'
<1>1. CASE q = <<>>
  <2>1. pc' = "exited"
    BY <1>1 DEF ProcessQuery
  <2>2. QED
    BY <2>1, GatheredElsewhere DEF Querying, Asking, Building
<1>2. CASE q # <<>>
  <2>1. pc' = "lookup" /\ w' = 1 /\ result' = <<>> /\ i' = 1 /\ finalresult' = <<>>
    BY <1>2 DEF ProcessQuery
  <2>2. Before' = {}
    <3>1. i' - 1 = 0 /\ 1..0 = {}
      BY <2>1
    <3>2. Before' = ExpectedOf(query', indexlist', 0)
      BY <3>1 DEF Before
    <3>3. ExpectedOf(query', indexlist', 0) = {}
      BY <3>1 DEF ExpectedOf
    <3>4. QED
      BY <3>2, <3>3
  <2>3. Answers(finalresult', Before')
    BY <2>1, <2>2, AnswersNone
  <2>4. QED
    BY <2>1, <2>3 DEF Matched, Gathered, Asking, Building
<1>3. QED
  BY <1>1, <1>2

(* Nothing has been asked at first. *)
LEMMA InitGathered ==
    ASSUME RequestInit
    PROVE  Matched /\ Gathered
<1>1. query = <<>> /\ pc \in {"fopen", "destroyed"}
  BY DEF RequestInit, Unborn
<1>2. QED
  BY <1>1 DEF Matched, Gathered, Asking, Building

(* Every step keeps what has been found right. *)
LEMMA GatheredStep ==
    ASSUME Steady, Matched, Gathered, [RequestNext]_webVars
    PROVE  Matched' /\ Gathered'
<1>1. Kept /\ Located /\ Listed /\ Given /\ indexlist' = indexlist
  BY ArgsStay DEF Steady, Kept, Located
<1>2. CASE Read \/ UNCHANGED webVars
  <2>1. UNCHANGED <<i, query, w, result, k, finalresult>> /\ pc' = pc
    BY <1>2 DEF Read, webVars, vars, work
  <2>2. QED
    BY <1>1, <2>1, GatheredStays
<1>3. CASE Construct
  <2>1. Constructing /\ pc \in Building /\ query' = query
    BY <1>3, ConstructGoesOn DEF work
  <2>2. query' = <<>>
    BY <2>1 DEF Gathered
  <2>3. pc' \notin Querying
    BY <2>1 DEF Constructing, Querying, Asking
  <2>4. QED
    BY <2>2, <2>3, GatheredElsewhere
<1>4. CASE LookupQueryWord
  <2>1. UNCHANGED <<i, query, w, result, k, finalresult>> /\ pc \in Asking /\ pc' \in Asking
    BY <1>4 DEF LookupQueryWord, Asking
  <2>2. QED
    BY <1>1, <2>1, GatheredStays
<1>5. CASE NewDocIDTableReader
  <2>1. CASE Exit
    <3>1. pc' = "exited"
      BY <2>1 DEF Exit
    <3>2. QED
      BY <3>1, GatheredElsewhere DEF Querying, Asking, Building
  <2>2. CASE ~Exit
    <3>1. UNCHANGED <<i, query, w, result, k, finalresult>> /\ pc \in Asking /\ pc' \in Asking
      BY <1>5, <2>2 DEF NewDocIDTableReader, NewReader, work, Asking
    <3>2. QED
      BY <1>1, <3>1, GatheredStays
  <2>3. QED
    BY <2>1, <2>2
<1>6. CASE WordMissing
  BY <1>1, <1>6, MissingMatches
<1>7. CASE ReadDocIDList
  <2>1. UNCHANGED <<i, query, w, result, k, finalresult>> /\ pc \in Asking /\ pc' \in Asking
    BY <1>7 DEF ReadDocIDList, work, Asking
  <2>2. QED
    BY <1>1, <2>1, GatheredStays
<1>8. CASE Combine
  BY <1>1, <1>8, CombineMatches
<1>9. CASE NameDocument
  BY <1>1, <1>9, NameGathers
<1>10. CASE NextIndex
  BY <1>1, <1>10, NextGathers
<1>11. CASE Sort
  BY <1>11, SortGathers
<1>12. CASE SearchTerms \/ Shell
  BY <1>12, AskGathers DEF SearchTerms, Shell, ShellQuery
<1>13. CASE SearchPage \/ \E r \in Parsed : ProcessFileRequest(r) \/ ShowSearchBox(r)
  <2>1. pc' = "destroyed"
    BY <1>13 DEF SearchPage, Destroy, ProcessFileRequest, ShowSearchBox, NextRequest, vars
  <2>2. QED
    BY <2>1, GatheredElsewhere DEF Querying, Asking, Building
<1>14. ASSUME NEW r \in Parsed, StartSearch(r)
       PROVE  Matched' /\ Gathered'
  <2>1. pc' = "fopen" /\ query' = <<>>
    BY <1>14 DEF StartSearch
  <2>2. QED
    BY <2>1, GatheredElsewhere DEF Querying, Asking
<1>15. QED
  BY <1>2, <1>3, <1>4, <1>5, <1>6, <1>7, <1>8, <1>9, <1>10, <1>11, <1>12, <1>13, <1>14
     DEF RequestNext, Program, Step, Answer

(* ProcessQuery, over every index file and for every query: the answer has *)
(* each document of each index file that contains all the words once, with *)
(* the sum of its ranks, and the highest rank first; whatever the words'   *)
(* hashes collide with, whichever words are missing, and whatever was      *)
(* asked before.                                                           *)
THEOREM AnswersCorrect == RequestSpec => []AnswersExact
<1> DEFINE Found == Matched /\ Gathered
<1>1. RequestInit => Steady /\ Found
  BY InitGathered, SteadyInvariant
<1>2. Steady /\ Found /\ [RequestNext]_webVars => Steady' /\ Found'
  BY GatheredStep, SteadyInvariant
<1>3. Steady /\ Found => AnswersExact
  <2> SUFFICES ASSUME Steady, Gathered, pc = "ready", query # <<>>
               PROVE  LET expected == Expected(Len(indexlist))
                      IN  /\ Len(finalresult) = Cardinality(expected)
                          /\ \A n \in DOMAIN finalresult :
                                Cardinality({m \in DOMAIN finalresult : finalresult[m] = finalresult[n]})
                                   = Cardinality({e \in expected : e[2] = finalresult[n]})
                          /\ Descending(finalresult)
    BY DEF AnswersExact
  <2>1. IsQuery(query)
    BY DEF Steady, Located, Asked
  <2>2. Expected(Len(indexlist)) = ExpectedOf(query, indexlist, Len(indexlist))
    BY <2>1, ExpectedIs
  <2>3. Answers(finalresult, Expected(Len(indexlist))) /\ Descending(finalresult)
    BY <2>2 DEF Gathered
  <2> DEFINE expected == Expected(Len(indexlist))
  <2>4. Answers(finalresult, expected)
    BY <2>3
  <2> HIDE DEF expected
  <2>5. Counts(finalresult, expected)
    BY <2>4, AnswersCount
  <2>6. QED
    BY <2>3, <2>5 DEF expected, Counts
<1> HIDE DEF Found
<1>4. QED
  BY <1>1, <1>2, <1>3, PTL DEF RequestSpec
=============================================================================
