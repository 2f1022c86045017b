--------------------------- MODULE QueryProcessor ---------------------------
(***************************************************************************)
(* hw3/QueryProcessor.cc on top of the index readers: a list of index      *)
(* files is opened, queries are answered from them, and everything is      *)
(* closed again.                                                           *)
(*                                                                         *)
(* All readers of one index file read through duplicates of one            *)
(* descriptor.  Duplicates share the kernel's file offset, while each FILE *)
(* has a buffer of its own, so a FILE reads the right bytes only as long   *)
(* as the offset is where it left it or it seeks first.  What a lookup     *)
(* returns is taken from IndexLayout as if each read got its bytes, and    *)
(* `misread' records whether one ever did not.                             *)
(***************************************************************************)
EXTENDS IndexLayout

CONSTANTS
    IndexTables,   \* for each index file its tables, and whether it has its header
    IndexLists,    \* the lists of files a QueryProcessor may be made for
    Queries,       \* the sequences of words that may be asked for
    BufSize,       \* the size of a FILE's buffer
    MaxFds         \* how many descriptors the process may have

ASSUME BufSizeAssumption == BufSize \in Nat \ {0}

(* A command line names at least one index file. *)
ASSUME IndexListsAssumption ==
    \A list \in IndexLists : list \in Seq(DOMAIN IndexTables) /\ list # <<>>

(* The tables are those of DocTable.c, which has each name once, and of    *)
(* MemIndex.c.                                                             *)
ASSUME IndexTablesAssumption ==
    \A x \in DOMAIN IndexTables :
        LET tables == IndexTables[x]
        IN  /\ IsDocTable(tables.dt)
            /\ \A d, e \in Elements(tables.dt) : d.name = e.name => d = e
            /\ IsMemIndex(tables.mi)
            /\ FitsFile(tables.dt, tables.mi)
            /\ tables.complete \in BOOLEAN

(* A word has the same hash and length in a query and in an index. *)
IsQuery(q) ==
    /\ q \in Seq(ToSet(q))
    /\ \A word \in ToSet(q) :
          /\ word.key \in Nat
          /\ \A x \in DOMAIN IndexTables : \A e \in Elements(IndexTables[x].mi) :
                e.word = word.word => e.key = word.key /\ e.len = word.len

ASSUME QueriesAssumption == \A q \in Queries : IsQuery(q)

VARIABLES
    indexlist,    \* the constructor's arguments
    validate,
    files,        \* the contents of the index files
    pc,           \* what the QueryProcessor does next
    i,            \* the current index file
    offset,       \* the kernel's offset of each index file that is open
    streams,      \* the open FILEs and what each of them has buffered
    reading,      \* the FILE in use,
    runs,         \* and what is still to be read from it
    misread,      \* has a read returned other bytes than its reader expects?
    query,        \* the query,
    w,            \* its current word,
    table,        \* where the file has that word's docID table, 0 if it has not,
    result,       \* the documents that match so far,
    k,            \* how many of these have been named,
    finalresult   \* and the answer

args  == <<indexlist, validate, files>>
input == <<offset, streams, reading, runs, misread>>
work  == <<query, w, table, result, k, finalresult>>
vars  == <<args, pc, i, input, work>>

-----------------------------------------------------------------------------
(* An index file as WriteIndex leaves it: what stat, the checks of the     *)
(* constructor and fread find.                                             *)
IndexFile(tables) ==
    LET docs == WriteDocTable(tables.dt, FileHeaderSize)
        words == WriteMemIndex(tables.mi, FileHeaderSize + Bytes(docs))
        header == IF tables.complete THEN {IndexHeader(Bytes(docs), Bytes(words))} ELSE {}
        ws == ToSet(docs \o words) \cup header
    IN  [size |-> FileSize(ws), opens |-> OpensAsIndex(ws), contents |-> Contents(ws)]

file == files[i].contents

Doctable   == FileHeaderSize
IndexTable == FileHeaderSize + ReadAt(file, 0).doctableBytes

(* Before the constructor runs. *)
Unborn ==
    /\ indexlist \in IndexLists
    /\ validate \in BOOLEAN
    /\ files = [x \in DOMAIN indexlist |-> IndexFile(IndexTables[indexlist[x]])]
    /\ i = 1
    /\ offset = [x \in DOMAIN indexlist |-> 0]
    /\ streams = <<>>
    /\ reading = <<>>
    /\ runs = <<>>
    /\ misread = FALSE
    /\ query = <<>>
    /\ w = 1
    /\ table = 0
    /\ result = <<>>
    /\ k = 0
    /\ finalresult = <<>>

Init == Unborn /\ pc = "fopen"

-----------------------------------------------------------------------------
(* stdio.  A FILE has the bytes from lo up to hi in its buffer and is at   *)
(* position pos.                                                           *)
Fresh == [pos |-> 0, lo |-> 0, hi |-> 0]

(* fseek stays in the buffer when it can, and then puts the offset back to *)
(* the buffer's end, in case another process has moved it.                 *)
FSeek(s, at) ==
    IF s.lo <= at /\ at < s.hi THEN [stream |-> [s EXCEPT !.pos = at], offset |-> s.hi]
    ELSE [stream |-> [pos |-> at, lo |-> at, hi |-> at], offset |-> at]

(* fread takes what the buffer has and fills it again from the offset, in  *)
(* units of the buffer's size.                                             *)
FRead(s, off, len, unit, size) ==
    LET have == s.hi - s.pos
        need == len - have
        from == off + unit * ((need - 1) \div unit)
        to   == Min({size, from + unit})
    IN  IF need <= 0
        THEN [stream |-> [s EXCEPT !.pos = @ + len], offset |-> off, start |-> s.pos, whole |-> TRUE]
        ELSE [stream |-> [pos |-> off + need, lo |-> from, hi |-> to],
              offset |-> to,
              start  |-> IF have > 0 THEN s.pos ELSE off,
              whole  |-> (have > 0 => off = s.hi) /\ off + need <= size]

(* FileIndexReader makes its own FILE unbuffered. *)
Unit(name) == IF name = "file" THEN 1 ELSE BufSize

(* One run of freads of the current reader. *)
Read ==
    /\ runs # <<>>
    /\ LET r == Head(runs)
           s == streams[reading]
       IN  \E at \in {IF r.seek THEN FSeek(s, r.at) ELSE [stream |-> s, offset |-> offset[reading[1]]]} :
           \E got \in {FRead(at.stream, at.offset, r.len, Unit(reading[2]), files[reading[1]].size)} :
              /\ streams' = [streams EXCEPT ![reading] = got.stream]
              /\ offset' = [offset EXCEPT ![reading[1]] = got.offset]
              /\ misread' = (misread \/ (r.len > 0 /\ ~(got.start = r.at /\ got.whole)))
    /\ runs' = Tail(runs)
    /\ UNCHANGED <<args, pc, i, reading, work>>

(* The FILE `name' of index file i is about to read `rs'. *)
Reads(name, rs) == reading' = <<i, name>> /\ runs' = rs

Opened == DOMAIN streams
With(name) == [s \in Opened \cup {<<i, name>>} |-> IF s = <<i, name>> THEN Fresh ELSE streams[s]]
Without(closed) == [s \in Opened \ closed |-> streams[s]]

(* fclose may put the offset back to where the reader of the FILE was.     *)
FClose(name) ==
    /\ streams' = Without({<<i, name>>})
    /\ \E back \in BOOLEAN :
          offset' = IF back THEN [offset EXCEPT ![i] = streams[<<i, name>>].pos] ELSE offset

(* Verify333 ends the process. *)
Exit == pc' = "exited" /\ UNCHANGED <<args, i, input, work>>

(* FileDup, and the constructor of the reader for the table at an offset;  *)
(* it exits when there is no descriptor left.                              *)
NewReader(name, at, then) ==
    \/ /\ Cardinality(Opened) < MaxFds
       /\ streams' = With(name)
       /\ Reads(name, HeaderRuns(at))
       /\ pc' = then
       /\ UNCHANGED <<args, i, offset, misread, work>>
    \/ Cardinality(Opened) >= MaxFds /\ Exit

-----------------------------------------------------------------------------
(* The constructor, for index file i: a FileIndexReader reads the header.  *)
FOpen ==
    /\ pc = "fopen"
    /\ \/ /\ Cardinality(Opened) < MaxFds
          /\ streams' = With("file")
          /\ Reads("file", <<[seek |-> FALSE, at |-> 0, len |-> FileHeaderSize]>>)
          /\ pc' = "header"
          /\ UNCHANGED <<args, i, offset, misread, work>>
       \/ Cardinality(Opened) >= MaxFds /\ Exit

(* The header must fit the file; to validate it, the rest is read for the  *)
(* checksum.                                                               *)
CheckHeader ==
    /\ pc = "header" /\ runs = <<>>
    /\ \/ /\ files[i].opens
          /\ Reads("file", IF validate
                           THEN <<[seek |-> FALSE, at |-> FileHeaderSize,
                                   len |-> files[i].size - FileHeaderSize]>>
                           ELSE <<>>)
          /\ pc' = "doctable"
          /\ UNCHANGED <<args, i, offset, streams, misread, work>>
       \/ ~files[i].opens /\ Exit

NewDocTableReader ==
    pc = "doctable" /\ runs = <<>> /\ NewReader("doctable", Doctable, "indextable")

NewIndexTableReader ==
    pc = "indextable" /\ runs = <<>> /\ NewReader("indextable", IndexTable, "fclose")

(* The FileIndexReader goes out of scope. *)
CloseIndexFile ==
    /\ pc = "fclose" /\ runs = <<>>
    /\ FClose("file")
    /\ IF i < Len(indexlist) THEN i' = i + 1 /\ pc' = "fopen" ELSE i' = i /\ pc' = "ready"
    /\ UNCHANGED <<args, reading, runs, misread, work>>

-----------------------------------------------------------------------------
(* ProcessQuery begins.  A query without words is not accepted.            *)
ProcessQuery(q) ==
    /\ pc = "ready"
    /\ query' = q
    /\ \/ /\ q # <<>>
          /\ w' = 1 /\ table' = 0
          /\ result' = <<>> /\ k' = 0 /\ finalresult' = <<>>
          /\ i' = 1
          /\ pc' = "lookup"
          /\ UNCHANGED <<args, input>>
       \/ /\ q = <<>>
          /\ pc' = "exited"
          /\ UNCHANGED <<args, i, input, w, table, result, k, finalresult>>

(* The loop of filesearchshell has a query, without words for an empty     *)
(* line and at the end of its input.                                       *)
ShellQuery == \E q \in Queries : ProcessQuery(q)

LookupQueryWord ==
    /\ pc = "lookup"
    /\ \E index \in {IndexTable}, word \in {query[w]} :
          /\ \E elements \in {LookupElementPositions(file, index, word.key)} :
                Reads("indextable", ElementPositionsRuns(file, index, word.key)
                                    \o LookupWordRuns(file, elements, word))
          /\ \E found \in {LookupWord(file, index, word)} :
                table' = IF found = NotFound THEN 0 ELSE found.table
    /\ pc' = "found?"
    /\ UNCHANGED <<args, i, offset, streams, misread, query, w, result, k, finalresult>>

NewDocIDTableReader ==
    pc = "found?" /\ runs = <<>> /\ table # 0 /\ NewReader("postings", table, "list")

(* Mutant: the word is looked up again. *)
WordMissing_Again ==
    /\ pc = "found?" /\ runs = <<>>
    /\ table = 0
    /\ IF w = 1 /\ Len(query) > 2 THEN w' = 1 /\ result' = result /\ pc' = "lookup"
       ELSE w' = w /\ result' = <<>> /\ pc' = "documents"
    /\ UNCHANGED <<args, i, input, query, table, k, finalresult>>

(* When the first word is missing the loop goes on, but past the second    *)
(* word, with no document; when another one is, nothing matches.           *)
WordMissing ==
    /\ pc = "found?" /\ runs = <<>>
    /\ table = 0
    /\ IF w = 1 /\ Len(query) > 2 THEN w' = 3 /\ result' = result /\ pc' = "lookup"
       ELSE w' = w /\ result' = <<>> /\ pc' = "documents"
    /\ UNCHANGED <<args, i, input, query, table, k, finalresult>>

ReadDocIDList ==
    /\ pc = "list" /\ runs = <<>>
    /\ Reads("postings", GetDocIDListRuns(file, table))
    /\ pc' = "combine"
    /\ UNCHANGED <<args, i, offset, streams, misread, work>>

(* Mutant: the second word's occurrences are not added. *)
ListCombine_First(l1, l2) ==
    SelectSeq(l1, LAMBDA h1 : \E h2 \in ToSet(l2) : h2.docID = h1.docID)

(* The documents in both lists, in the order of the first, with the sums   *)
(* of their ranks.                                                         *)
ListCombine(l1, l2) ==
    LET match(h1) == SelectInSeq(l2, LAMBDA h2 : h2.docID = h1.docID)
        combined[n \in 0..Len(l1)] ==
          IF n = 0 THEN <<>>
          ELSE IF match(l1[n]) = 0 THEN combined[n - 1]
          ELSE Append(combined[n - 1],
                      [docID |-> l1[n].docID,
                       numPositions |-> l1[n].numPositions + l2[match(l1[n])].numPositions])
    IN  combined[Len(l1)]

(* The word's list is combined with the result, and the loop goes on to    *)
(* the next word unless nothing is left.                                   *)
Combined ==
    \E list \in {GetDocIDList(file, table)} :
    \E combined \in {IF w = 1 THEN list ELSE ListCombine(result, list)} :
       /\ result' = combined
       /\ IF w = Len(query) \/ (w > 1 /\ combined = <<>>)
          THEN w' = w /\ pc' = "documents"
          ELSE w' = w + 1 /\ pc' = "lookup"

(* Mutant: the DocIDTableReader is not deleted when the loop ends. *)
Combine_NoDelete ==
    /\ pc = "combine" /\ runs = <<>>
    /\ Combined
    /\ IF pc' = "lookup" THEN FClose("postings") ELSE UNCHANGED <<streams, offset>>
    /\ UNCHANGED <<args, i, reading, runs, misread, query, table, k, finalresult>>

Combine ==
    /\ pc = "combine" /\ runs = <<>>
    /\ FClose("postings")
    /\ Combined
    /\ UNCHANGED <<args, i, reading, runs, misread, query, table, k, finalresult>>

(* The name of the next matching document, which the doctable must have.   *)
NameDocument ==
    /\ pc = "documents" /\ runs = <<>>
    /\ k < Len(result)
    /\ \E header \in {result[k + 1]} :
       \E elements \in {LookupElementPositions(file, Doctable, header.docID)},
          doc \in {DocTable_LookupDocID(file, Doctable, header.docID)} :
          \/ /\ doc # NotFound
             /\ Reads("doctable", ElementPositionsRuns(file, Doctable, header.docID)
                                  \o DocTableRuns(file, elements, header.docID))
             /\ finalresult' = Append(finalresult,
                   [documentName |-> doc.name, rank |-> header.numPositions])
             /\ k' = k + 1
             /\ UNCHANGED <<args, pc, i, offset, streams, misread, query, w, table, result>>
          \/ doc = NotFound /\ Exit

(* Mutant: the iterator over the documents does not start again. *)
NextIndex_NoReset ==
    /\ pc = "documents" /\ runs = <<>>
    /\ k = Len(result)
    /\ IF i < Len(indexlist) THEN i' = i + 1 /\ pc' = "lookup" ELSE i' = i /\ pc' = "sort"
    /\ w' = 1 /\ result' = <<>>
    /\ UNCHANGED <<args, input, query, table, k, finalresult>>

NextIndex ==
    /\ pc = "documents" /\ runs = <<>>
    /\ k = Len(result)
    /\ IF i < Len(indexlist) THEN i' = i + 1 /\ pc' = "lookup" ELSE i' = i /\ pc' = "sort"
    /\ w' = 1 /\ result' = <<>> /\ k' = 0
    /\ UNCHANGED <<args, input, query, table, finalresult>>

(* QueryResult's operator<: a higher rank comes first. *)
Descending(rs) == \A m, n \in DOMAIN rs : m < n => rs[m].rank >= rs[n].rank

(* std::sort leaves documents of the same rank in any order. *)
Sort ==
    /\ pc = "sort"
    /\ \E p \in [DOMAIN finalresult -> DOMAIN finalresult] :
          LET sorted == [n \in DOMAIN finalresult |-> finalresult[p[n]]]
          IN  /\ IsInjective(p)
              /\ Descending(sorted)
              /\ finalresult' = sorted
    /\ pc' = "ready"
    /\ UNCHANGED <<args, i, input, query, w, table, result, k>>

(* The two readers of every index file, which the destructor deletes. *)
Readers == (DOMAIN indexlist) \X {"doctable", "indextable"}

Destroy ==
    /\ pc = "ready"
    /\ streams' = Without(Readers)
    /\ pc' = "destroyed"
    /\ UNCHANGED <<args, i, offset, reading, runs, misread, work>>

Construct == FOpen \/ CheckHeader \/ NewDocTableReader \/ NewIndexTableReader \/ CloseIndexFile

Answer ==
    \/ LookupQueryWord \/ NewDocIDTableReader \/ WordMissing \/ ReadDocIDList \/ Combine
    \/ NameDocument \/ NextIndex \/ Sort

Step == Read \/ Construct \/ Answer

Next == Step \/ ShellQuery \/ Destroy

Spec == Init /\ [][Next]_vars

(* The QueryProcessor runs on; nobody has to ask it anything. *)
FairSpec == Spec /\ WF_vars(Step)

-----------------------------------------------------------------------------
(* Where a FILE is read, and which one. *)
ReaderInUse ==
    CASE pc \in {"header", "doctable"} -> "file"
      [] pc \in {"indextable", "documents"} -> "doctable"
      [] pc \in {"fclose", "found?"} -> "indextable"
      [] pc \in {"list", "combine"} -> "postings"

Idle == {"fopen", "ready", "lookup", "sort", "destroyed", "exited"}

(* What is to be read is in the file, and starts with an fseek unless it   *)
(* is the header or what follows it.                                       *)
RunsInside ==
    /\ runs \in Seq([seek : BOOLEAN, at : Nat, len : Nat])
    /\ \A x \in DOMAIN indexlist : files[x].size \in Nat
    /\ \A n \in DOMAIN runs :
          /\ runs[n].at + runs[n].len <= files[reading[1]].size
          /\ runs[n].seek \/ pc \in {"header", "doctable"}

(* The FileIndexReader does not seek: until it has read the header, and    *)
(* the rest if that is to be validated, the offset is its own.             *)
FileAt(at, from) ==
    /\ offset[i] = at
    /\ streams[<<i, "file">>].pos = at
    /\ streams[<<i, "file">>].hi = at
    /\ runs = <<>> \/ runs = <<[seek |-> FALSE, at |-> at, len |-> from - at]>>

HeaderFirst ==
    /\ pc \in {"fopen", "header", "doctable", "indextable", "fclose"} =>
          \A x \in DOMAIN indexlist : x > i \/ (x = i /\ pc = "fopen") => offset[x] = 0
    /\ pc = "header" =>
          \/ runs # <<>> /\ FileAt(0, FileHeaderSize)
          \/ runs = <<>> /\ FileAt(FileHeaderSize, FileHeaderSize)
    /\ pc = "doctable" /\ runs # <<>> => FileAt(FileHeaderSize, files[i].size)

(* Types, and how far the loops over index files, words and documents are. *)
TypeOK ==
    /\ pc \in {"fopen", "header", "doctable", "indextable", "fclose", "ready", "lookup",
               "found?", "list", "combine", "documents", "sort", "destroyed", "exited"}
    /\ i \in DOMAIN indexlist
    /\ pc \in {"lookup", "found?", "list", "combine"} => w \in DOMAIN query
    /\ k \in 0..Len(result)
    /\ runs # <<>> => pc \notin Idle /\ reading = <<i, ReaderInUse>> /\ reading \in Opened
    /\ RunsInside
    /\ HeaderFirst
    /\ \A s \in Opened :
          /\ streams[s].lo <= streams[s].pos /\ streams[s].pos <= streams[s].hi
          /\ offset[s[1]] \in 0..files[s[1]].size

(* FileDup: whatever the other FILEs of an index file have done to the     *)
(* offset they share, each reader gets the bytes at the place it asks for. *)
ReadsItsBytes == ~misread

(* The FILEs that are open while the process runs: the two readers of each *)
(* index file that is finished with, and what the constructor of file i or *)
(* the query has opened besides.                                           *)
FinishedReaders(n) == (1..n) \X {"doctable", "indextable"}

OpenFiles ==
    CASE pc \in {"fopen", "header", "doctable", "indextable", "fclose"} ->
            FinishedReaders(i - 1) \cup {<<i, name>> : name \in
               CASE pc = "fopen" -> {}
                 [] pc \in {"header", "doctable"} -> {"file"}
                 [] pc = "indextable" -> {"file", "doctable"}
                 [] pc = "fclose" -> {"file", "doctable", "indextable"}}
      [] pc \in {"list", "combine"} -> Readers \cup {<<i, "postings">>}
      [] pc = "destroyed" -> {}
      [] OTHER -> Readers

(* Between queries each index file has its two readers open, during one at *)
(* most one FILE more, and after the destructor none, however many queries *)
(* there have been.                                                        *)
DescriptorsKept ==
    /\ pc # "exited" => Opened = OpenFiles
    /\ Cardinality(Opened) <= 2 * Len(indexlist) + 1

(* The answer by the in-memory tables: a document of an index file matches *)
(* if that file's index has it under each word, and its rank is how often  *)
(* it has them.                                                            *)
Postings(tables, word, docid) ==
    UNION {{p \in Elements(e.postings) : p.key = docid} :
              e \in {m \in Elements(tables.mi) : m.word = word}}

Matching(tables) ==
    {d \in Elements(tables.dt) :
        \A n \in DOMAIN query : Postings(tables, query[n].word, d.key) # {}}

(* How often the first n words of the query are in a document. *)
RankUpTo(tables, docid, n) ==
    LET positions(m) ==
          Len((CHOOSE p \in Postings(tables, query[m].word, docid) : TRUE).positions)
        rank[m \in 0..n] == IF m = 0 THEN 0 ELSE rank[m - 1] + positions(m)
    IN  rank[n]

Rank(tables, d) == RankUpTo(tables, d.key, Len(query))

(* What is to be answered for the index files up to the n-th. *)
Expected(n) ==
    UNION {LET tables == IndexTables[indexlist[x]]
           IN  {<<x, [documentName |-> d.name, rank |-> Rank(tables, d)]>> : d \in Matching(tables)} :
              x \in 1..n}

(* ProcessQuery returns each matching document of each index file once,    *)
(* with its rank, and the highest rank first, whatever collides in the     *)
(* hash tables and whichever word is missing.                              *)
AnswersExact ==
    pc = "ready" /\ query # <<>> =>
        LET expected == Expected(Len(indexlist))
        IN  /\ Len(finalresult) = Cardinality(expected)
            /\ \A n \in DOMAIN finalresult :
                  Cardinality({m \in DOMAIN finalresult : finalresult[m] = finalresult[n]})
                     = Cardinality({e \in expected : e[2] = finalresult[n]})
            /\ Descending(finalresult)

(* A query is answered, or the process ends. *)
Answered == pc = "lookup" ~> pc \in {"ready", "exited"}
=============================================================================
