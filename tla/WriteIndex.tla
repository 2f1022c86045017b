----------------------------- MODULE WriteIndex -----------------------------
(***************************************************************************)
(* hw3/WriteIndex.cc: a doctable and an in-memory index are written into a *)
(* new file, and then the header that makes it an index.  What fwrite      *)
(* writes is in stdio's buffer until that is full or until the next fseek  *)
(* or fclose, then in the kernel's cache, where other processes see it,    *)
(* and it is durable only after an fsync.  Any call may fail, and the      *)
(* machine may crash at any point.                                         *)
(***************************************************************************)
EXTENDS IndexFsck

CONSTANTS
    DocTables, MemIndexes    \* the tables there may be to write

ASSUME TablesAssumption ==
    /\ \A table \in DocTables : IsDocTable(table)
    /\ \A table \in MemIndexes : IsMemIndex(table)
    /\ \A dtable \in DocTables, mindex \in MemIndexes : FitsFile(dtable, mindex)

kFailedWrite == -1
Exited       == -2    \* the process ended instead

VARIABLES
    dt, mi,    \* the arguments
    writes,    \* the fwrites of the two tables, in order
    dtbytes,   \* what WriteDocTable returns when they succeed
    membytes,  \* what WriteMemIndex returns
    i,         \* how many of them have been made
    pc,        \* where WriteIndex is
    buffer,    \* stdio's buffer
    file,      \* the file, as other processes see it
    durable,   \* what survives a crash for sure
    linked,    \* is there a file of that name?
    result     \* what WriteIndex returns

disk == <<buffer, file, durable>>
args == <<dt, mi, writes, dtbytes, membytes>>
vars == <<args, i, pc, disk, linked, result>>

Header == IndexHeader(dtbytes, membytes)

Init ==
    /\ dt \in DocTables
    /\ mi \in MemIndexes
    /\ LET docs == WriteDocTable(dt, FileHeaderSize)
           words == WriteMemIndex(mi, FileHeaderSize + Bytes(docs))
       IN  /\ writes = docs \o words
           /\ dtbytes = Bytes(docs)
           /\ membytes = Bytes(words)
    /\ i = 0
    /\ pc = "open"
    /\ buffer = {}
    /\ file = {}
    /\ durable = {}
    /\ linked = FALSE
    /\ result = 0

-----------------------------------------------------------------------------
(* fopen creates the file. *)
Open ==
    /\ pc = "open"
    /\ \/ linked' = TRUE /\ pc' = "tables" /\ UNCHANGED result
       \/ pc' = "returned" /\ result' = kFailedWrite /\ UNCHANGED linked
    /\ UNCHANGED <<args, i, disk>>

(* fseek writes the buffer to the file. *)
Flushed == file \cup buffer

(* Mutant: the loop over a name or a list of positions does not advance. *)
WriteNext_Stuck ==
    /\ pc = "tables" /\ i < Len(writes)
    /\ LET w == writes[i + 1]
       IN  /\ file' = IF w.seek THEN Flushed ELSE file
           /\ buffer' = IF w.seek THEN {w} ELSE buffer \cup {w}
           /\ i' = IF w.seek THEN i + 1 ELSE i
    /\ UNCHANGED <<args, pc, durable, linked, result>>

(* The next fwrite of WriteDocTable or WriteMemIndex, after an fseek, or   *)
(* with the buffer written out because it is full, or into the buffer.     *)
WriteNext ==
    /\ pc = "tables" /\ i < Len(writes)
    /\ LET w == writes[i + 1]
       IN  \/ file' = Flushed /\ buffer' = {w}
           \/ ~w.seek /\ file' = file /\ buffer' = buffer \cup {w}
    /\ i' = i + 1
    /\ UNCHANGED <<args, pc, durable, linked, result>>

(* WriteHeader goes back to the tables and reads them for the checksum. *)
ReadBack ==
    /\ pc = "tables" /\ i = Len(writes)
    /\ file' = Flushed
    /\ buffer' = {}
    /\ pc' = IF FileSize(Flushed) >= FileHeaderSize + dtbytes + membytes THEN "header" ELSE "failing"
    /\ UNCHANGED <<args, i, durable, linked, result>>

WriteHeader ==
    /\ pc = "header"
    /\ file' = Flushed
    /\ buffer' = {Header}
    /\ pc' = "fsync"
    /\ UNCHANGED <<args, i, durable, linked, result>>

(* An fseek, an fread or an fwrite fails. *)
CallFails ==
    /\ pc \in {"tables", "header"}
    /\ pc' = "failing"
    /\ UNCHANGED <<args, i, disk, linked, result>>

(* Mutant: WriteIndex tries again, for ever. *)
CleanUp_Retry ==
    /\ pc = "failing"
    /\ pc' = "open"
    /\ i' = 0
    /\ buffer' = {} /\ file' = {} /\ durable' = {}
    /\ UNCHANGED <<args, linked, result>>

(* fclose, unlink and kFailedWrite. *)
CleanUp ==
    /\ pc = "failing"
    /\ \E flushes \in BOOLEAN : file' = IF flushes THEN Flushed ELSE file
    /\ buffer' = {}
    /\ linked' = FALSE
    /\ result' = kFailedWrite
    /\ pc' = "returned"
    /\ UNCHANGED <<args, i, durable>>

(* Mutant: no fsync. *)
Fsync_None ==
    /\ pc = "fsync"
    /\ pc' = "fclose"
    /\ UNCHANGED <<args, i, disk, linked, result>>

(* fsync makes durable what the kernel has; if it fails, Verify333 exits,  *)
(* and exit() writes the buffer to the file.                               *)
Fsync ==
    /\ pc = "fsync"
    /\ \/ /\ pc' = "fclose"
          /\ durable' = file
          /\ UNCHANGED <<file, buffer, result>>
       \/ /\ pc' = "returned"
          /\ result' = Exited
          /\ file' = Flushed
          /\ buffer' = {}
          /\ UNCHANGED durable
    /\ UNCHANGED <<args, i, linked>>

(* fclose writes the buffer, or fails to, which is not checked.  curPos    *)
(* started after the header, and the header's size was added to it again.  *)
Fclose ==
    /\ pc = "fclose"
    /\ \E flushes \in BOOLEAN : file' = IF flushes THEN Flushed ELSE file
    /\ buffer' = {}
    /\ result' = FileHeaderSize + dtbytes + membytes + FileHeaderSize
    /\ pc' = "returned"
    /\ UNCHANGED <<args, i, durable, linked>>

(* A crash loses some of what is not durable.  Losing one write stands for *)
(* losing more: it is the most that can be missing from a file in which    *)
(* some given write, such as the header, is present.                       *)
Crash ==
    /\ pc # "crashed"
    /\ pc' = "crashed"
    /\ buffer' = {}
    /\ \E lost \in {{}} \cup {{w} : w \in file \ durable} : file' = file \ lost
    /\ durable' = file'
    /\ UNCHANGED <<args, i, linked, result>>

Running == pc \in {"open", "tables", "header", "failing", "fsync", "fclose"}

Step == Open \/ WriteNext \/ ReadBack \/ WriteHeader \/ CleanUp \/ Fsync \/ Fclose

Next == Step \/ CallFails \/ Crash

Spec == Init /\ [][Next]_vars

(* WriteIndex runs on. *)
FairSpec == Spec /\ WF_vars(Step)

-----------------------------------------------------------------------------
(* Types, and where each write is: not yet made, in the buffer or in the   *)
(* file, unless a failure or a crash has lost it.                          *)
TypeOK ==
    /\ i \in 0..Len(writes)
    /\ pc \in {"open", "tables", "header", "failing", "fsync", "fclose",
               "returned", "crashed"}
    /\ durable \subseteq file
    /\ linked \in BOOLEAN
    /\ Running => file \cup buffer =
          {writes[k] : k \in 1..i} \cup (IF pc \in {"fsync", "fclose"} THEN {Header} ELSE {})

(* The tables' writes are finitely many, do not overlap and leave no gap:  *)
(* the file is exactly the header and the sizes its header gives, and what *)
(* fsck calls garbage between tables does not exist.                       *)
LayoutExact ==
    pc = "open" =>
    LET ws == ToSet(writes)
    IN  /\ writes \in Seq(ws) /\ dtbytes \in Nat /\ membytes \in Nat
        /\ Cardinality(ws) = Len(writes)
        /\ \A w \in ws : w.at >= FileHeaderSize
        /\ \A w \in ws, x \in ws : w # x => w.at + w.len <= x.at \/ x.at + x.len <= w.at
        /\ FileSize(ws) = FileHeaderSize + dtbytes + membytes

(* The writes that make a file an index start at its first byte. *)
Headers(ws) == {x \in ws : x.at = 0}

(* Why TablesFirst and ReadsBack hold: the tables have all been written    *)
(* when the header is, and are durable before it leaves the buffer, unless *)
(* fsync fails; nothing else is ever written; and the file has its name    *)
(* only from fopen until a failure.                                        *)
IInv ==
    /\ TypeOK
    /\ pc \in {"header", "fsync", "fclose"} => i = Len(writes)
    /\ Running => result = 0 /\ Headers(file) = {}
    /\ Running => IF pc \in {"fsync", "fclose"} THEN buffer = {Header} ELSE Headers(buffer) = {}
    /\ pc = "fclose" => ToSet(writes) \subseteq durable
    /\ Headers(file) # {} => result = Exited \/ ToSet(writes) \subseteq durable
    /\ Headers(file) # {} /\ pc = "returned" => ToSet(writes) \subseteq file
    /\ file \cup buffer \subseteq ToSet(writes) \cup {Header}
    /\ pc = "open" \/ (pc = "returned" /\ result = kFailedWrite) => ~linked

(* Whatever a reader can open as an index, while WriteIndex runs, after it *)
(* or after a crash, holds both tables whole, unless fsync has failed; and *)
(* a write that fails leaves no file behind.                               *)
TablesFirst ==
    /\ result # Exited /\ OpensAsIndex(file) => ToSet(writes) \subseteq file
    /\ pc = "returned" /\ result = kFailedWrite => ~linked

(* Every lookup in a file returns what was in the tables. *)
DocsReadBack(contents) ==
    \A e \in Elements(dt) :
       DocTable_LookupDocID(contents, FileHeaderSize, e.key) = [found |-> TRUE, name |-> e.name]

WordsReadBack(contents) ==
    \A e \in Elements(mi) :
       LET found == LookupWord(contents, FileHeaderSize + dtbytes, e)
           docs == GetDocIDList(contents, found.table)
       IN  /\ found # NotFound
           /\ \A p \in Elements(e.postings) :
                 DocIDTable_LookupDocID(contents, found.table, p.key)
                    = [found |-> TRUE, positions |-> p.positions]
           /\ Len(docs) = Cardinality(Elements(e.postings))
           /\ ToSet(docs) = {[docID |-> p.key, numPositions |-> Len(p.positions)] :
                                p \in Elements(e.postings)}

(* Every lookup in the finished file returns what was in the tables, and   *)
(* hw3fsck finds nothing wrong with it.                                    *)
ReadsBack ==
    pc = "returned" /\ OpensAsIndex(file) =>
        /\ WithinLimits(mi) => CheckFile(file)
        /\ DocsReadBack(Contents(file))
        /\ WordsReadBack(Contents(file))

(* WriteIndex returns or exits, or the machine dies. *)
Ends == <>(~Running)

(* WriteIndex.cc: "if we crash part way through writing an index file, it  *)
(* won't contain a valid kMagicNumber and the rest of HW3 will know to     *)
(* report an error."                                                       *)
HeaderLast == OpensAsIndex(file) => ToSet(writes) \subseteq file
=============================================================================
