-------------------------- MODULE WriteIndexProofs --------------------------
(***************************************************************************)
(* Why a file that opens as an index is complete, for every pair of tables *)
(* and every point of failure or crash: the tables are laid out behind the *)
(* header, without a gap and without a byte written twice; and the header  *)
(* is written when they are durable.                                       *)
(*                                                                         *)
(* The tables are those of TablesAssumption.  Theirs are the lengths and   *)
(* offsets for which the code's int16_t and int32_t are exact: texts of at *)
(* most INT16_MAX bytes, in files of at most INT32_MAX.                    *)
(***************************************************************************)
EXTENDS WriteIndex, SharedLemmas

-----------------------------------------------------------------------------
(* The arguments of a call, and the writes they lead to. *)
Arguments ==
    /\ IsDocTable(dt)
    /\ IsMemIndex(mi)
    /\ FitsFile(dt, mi)
    /\ dtbytes = Bytes(WriteDocTable(dt, FileHeaderSize))
    /\ membytes = Bytes(WriteMemIndex(mi, FileHeaderSize + dtbytes))
    /\ writes = WriteDocTable(dt, FileHeaderSize) \o WriteMemIndex(mi, FileHeaderSize + dtbytes)

(* The constants are such arguments, *)
LEMMA InitArguments == Init => Arguments
  BY TablesAssumption, Zenon DEF Init, Arguments

(* and nothing changes them. *)
LEMMA ArgumentsStay == Arguments /\ UNCHANGED args => Arguments'
  BY DEF Arguments, args

(* The layout follows from them. *)
LEMMA LayoutIs == Arguments => LayoutExact
<1> SUFFICES ASSUME Arguments
             PROVE  LayoutExact
  OBVIOUS
<1> DEFINE D == Data(dt, mi)
           to == FileHeaderSize + dtbytes + membytes
           ws == ToSet(writes)
<1>1. Tiles(D, writes, FileHeaderSize, to) /\ FileHeaderSize < to
      /\ dtbytes \in Nat /\ membytes \in Nat
  BY FileLaid, Zenon DEF Arguments
<1> HIDE DEF D, to
<1>2. /\ writes \in Seq(ws)
      /\ Cardinality(ws) = Len(writes)
      /\ \A w, x \in ws : w # x => Apart(w, x)
      /\ \A w \in ws : w.at >= FileHeaderSize
      /\ FileSize(ws) = to
  BY <1>1, TilesSet, Zenon
<1>3. \A w, x \in ws : w # x => w.at + w.len <= x.at \/ x.at + x.len <= w.at
  BY <1>2, Zenon DEF Apart
<1>4. QED
  BY <1>1, <1>2, <1>3, Zenon DEF LayoutExact, to

(* No fwrite begins or ends beyond what an int32_t counts. *)
OffsetsHeld == \A w \in ToSet(writes) : w.at + w.len \in 0..INT32_MAX

(* The layout ends where FitsFile says. *)
LEMMA OffsetsAre == Arguments => OffsetsHeld
<1> SUFFICES ASSUME Arguments, NEW w \in ToSet(writes)
             PROVE  w.at + w.len \in 0..INT32_MAX
  BY DEF OffsetsHeld
<1> DEFINE D == Data(dt, mi)
           to == FileHeaderSize + dtbytes + membytes
           m == INT32_MAX
<1>1. Tiles(D, writes, FileHeaderSize, to) /\ FileHeaderSize < to /\ dtbytes \in Nat /\ membytes \in Nat
  BY FileLaid, Zenon DEF Arguments
<1>2. m \in Nat
  BY SMT DEF INT32_MAX
<1>3. 2 * FileHeaderSize + dtbytes + membytes <= m
  BY Zenon DEF Arguments, FitsFile
<1> HIDE DEF D, m
<1>4. to <= m
  BY <1>1, <1>2, <1>3 DEF FileHeaderSize
<1> HIDE DEF to
<1>5. w \in Writes(D) /\ Within(w, FileHeaderSize, to) /\ to \in Nat
  BY <1>1, TilesSet DEF Tiles
<1>6. w.at + w.len \in 0..m
  BY <1>2, <1>4, <1>5 DEF Writes, Within
<1>7. QED
  BY <1>6 DEF m

-----------------------------------------------------------------------------
(* What the proofs use of LayoutExact; it does not change. *)
Laid ==
    /\ writes \in Seq(ToSet(writes))
    /\ dtbytes \in Nat
    /\ membytes \in Nat
    /\ Headers(ToSet(writes)) = {}

(* The writes that have been made. *)
Made(n) == {writes[k] : k \in 1..n}

(* The next write joins those made. *)
LEMMA MadeNext ==
    ASSUME Laid, NEW n \in 0..Len(writes)
    PROVE  /\ Made(0) = {}
           /\ Made(Len(writes)) = ToSet(writes)
           /\ Made(n) \subseteq ToSet(writes)
           /\ n < Len(writes) => /\ Made(n + 1) = Made(n) \cup {writes[n + 1]}
                                 /\ n + 1 \in 0..Len(writes)
<1>1. Len(writes) \in Nat /\ DOMAIN writes = 1..Len(writes)
  BY DEF Laid
<1>2. Made(0) = {}
  BY DEF Made
<1>3. Made(Len(writes)) = ToSet(writes)
  BY <1>1 DEF Made, ToSet
<1>4. Made(n) \subseteq ToSet(writes)
  BY <1>1 DEF Made, ToSet
<1>5. ASSUME n < Len(writes)
      PROVE  /\ Made(n + 1) = Made(n) \cup {writes[n + 1]}
             /\ n + 1 \in 0..Len(writes)
  <2>1. 1..(n + 1) = 1..n \cup {n + 1}
    BY <1>1
  <2>2. QED
    BY <1>1, <1>5, <2>1 DEF Made
<1>6. QED
  BY <1>2, <1>3, <1>4, <1>5

(* The writes at the first byte, of a part and of a union. *)
LEMMA HeadersOf ==
    ASSUME NEW a, NEW b
    PROVE  /\ Headers({}) = {}
           /\ Headers(a \cup b) = Headers(a) \cup Headers(b)
           /\ a \subseteq b => Headers(a) \subseteq Headers(b)
           /\ Headers(a) \subseteq a
BY DEF Headers

(* A call before any write. *)
LEMMA InitIInv == Init /\ Laid => IInv
<1> SUFFICES ASSUME Init, Laid
             PROVE  IInv
  OBVIOUS
<1>1. Len(writes) \in Nat
  BY DEF Laid
<1>2. i = 0 /\ pc = "open" /\ file = {} /\ buffer = {} /\ durable = {} /\ ~linked
      /\ linked \in BOOLEAN /\ result = 0
  BY DEF Init
<1>3. {writes[k] : k \in 1..i} = {}
  BY <1>2
<1>4. TypeOK
  BY <1>1, <1>2, <1>3 DEF TypeOK
<1>5. QED
  BY <1>2, <1>4 DEF IInv, Headers

-----------------------------------------------------------------------------
(* The arguments stay, and so does what is known of them. *)
LEMMA ArgumentsKept == [Next]_vars => UNCHANGED args
BY DEF Next, Step, Open, WriteNext, ReadBack, WriteHeader, CleanUp, Fsync, Fclose,
       CallFails, Crash, vars

(* With them the layout stays, and the header is not part of it. *)
LEMMA LaidStays == Laid /\ [Next]_vars => Laid' /\ UNCHANGED args
BY ArgumentsKept DEF args, Laid, Headers

(* Whatever is in the buffer or in the file is of the tables, or is the    *)
(* header.                                                                 *)
OnlyTables == file \cup buffer \subseteq ToSet(writes) \cup {Header}

(* No step writes anything else. *)
LEMMA OnlyTablesStep == IInv /\ Laid /\ UNCHANGED args /\ Next => OnlyTables'
<1> SUFFICES ASSUME IInv, Laid, UNCHANGED args, Next
             PROVE  OnlyTables'
  OBVIOUS
<1>1. file \cup buffer \subseteq ToSet(writes) \cup {Header}
  BY DEF IInv
<1>2. writes' = writes /\ Header' = Header
  BY DEF args, Header
<1>3. CASE WriteNext
  <2>1. i \in 0..Len(writes) /\ i < Len(writes)
    BY <1>3 DEF IInv, TypeOK, WriteNext
  <2>2. i + 1 \in DOMAIN writes
    BY <2>1 DEF Laid
  <2>3. writes[i + 1] \in ToSet(writes)
    BY <2>2 DEF ToSet
  <2>4. file' \cup buffer' = file \cup buffer \cup {writes[i + 1]}
    BY <1>3 DEF WriteNext, Flushed
  <2>5. QED
    BY <1>1, <1>2, <2>3, <2>4 DEF OnlyTables
<1>4. CASE WriteHeader
  BY <1>1, <1>2, <1>4 DEF OnlyTables, WriteHeader, Flushed
<1>5. CASE ~(WriteNext \/ WriteHeader)
  <2>1. file' \cup buffer' \subseteq file \cup buffer
    BY <1>5 DEF Next, Step, Open, ReadBack, CleanUp, Fsync, Fclose, CallFails, Crash, disk, Flushed
  <2>2. QED
    BY <1>1, <1>2, <2>1 DEF OnlyTables
<1>6. QED
  BY <1>3, <1>4, <1>5

(* fopen gives the file its name or fails. *)
LEMMA OpenStep == IInv /\ Laid /\ UNCHANGED args /\ Open => IInv'
<1> SUFFICES ASSUME IInv, Laid, UNCHANGED args, Open
             PROVE  IInv'
  OBVIOUS
<1>0. OnlyTables'
  BY OnlyTablesStep DEF Next, Step
<1>1. /\ pc = "open" /\ pc' \in {"tables", "returned"} /\ i' = i /\ writes' = writes
      /\ file' = file /\ buffer' = buffer /\ durable' = durable
      /\ pc' = "tables" => result' = result /\ linked' = TRUE
      /\ pc' = "returned" => linked' = linked
  BY DEF Open, args, disk
<1>2. /\ i \in 0..Len(writes) /\ durable \subseteq file
      /\ result = 0 /\ Headers(file) = {} /\ Headers(buffer) = {}
      /\ file \cup buffer = {writes[k] : k \in 1..i}
  BY <1>1 DEF IInv, TypeOK, Running
<1>3. ~linked /\ linked \in BOOLEAN
  BY <1>1 DEF IInv, TypeOK
<1>4. linked' \in BOOLEAN /\ (pc' = "returned" => ~linked')
  BY <1>1, <1>3
<1>5. TypeOK'
  BY <1>1, <1>2, <1>4 DEF TypeOK, Running
<1>6. QED
  BY <1>0, <1>1, <1>2, <1>4, <1>5 DEF IInv, Running, OnlyTables, Headers

(* Nothing but one more of the tables' writes. *)
LEMMA WriteNextStep == IInv /\ Laid /\ UNCHANGED args /\ WriteNext => IInv'
<1> SUFFICES ASSUME IInv, Laid, UNCHANGED args, WriteNext
             PROVE  IInv'
  OBVIOUS
<1>0. OnlyTables'
  BY OnlyTablesStep DEF Next, Step
<1> DEFINE w == writes[i + 1]
<1>1. /\ pc = "tables" /\ pc' = "tables" /\ i < Len(writes) /\ i' = i + 1
      /\ durable' = durable /\ linked' = linked /\ result' = result /\ writes' = writes
  BY DEF WriteNext, args
<1>2. /\ i \in 0..Len(writes) /\ durable \subseteq file /\ linked \in BOOLEAN
      /\ result = 0 /\ Headers(file) = {} /\ Headers(buffer) = {}
      /\ file \cup buffer = Made(i)
  BY <1>1 DEF IInv, TypeOK, Running, Made
<1>3. Made(i + 1) = Made(i) \cup {w} /\ i + 1 \in 0..Len(writes)
      /\ Made(i + 1) \subseteq ToSet(writes)
  BY <1>1, <1>2, MadeNext
<1>4. /\ file' \cup buffer' = file \cup buffer \cup {w}
      /\ file \subseteq file'
  BY DEF WriteNext, Flushed
<1>5. file' \cup buffer' = Made(i + 1)
  BY <1>2, <1>3, <1>4
<1>6. Headers(file') = {} /\ Headers(buffer') = {}
  <2>1. Headers(ToSet(writes)) = {}
    BY DEF Laid
  <2>2. file' \subseteq ToSet(writes) /\ buffer' \subseteq ToSet(writes)
    BY <1>3, <1>5
  <2>3. QED
    BY <2>1, <2>2, HeadersOf
<1>7. Made(i + 1) = {writes'[k] : k \in 1..i'}
  BY <1>1 DEF Made
<1>8. TypeOK'
  BY <1>1, <1>2, <1>3, <1>4, <1>5, <1>7 DEF TypeOK, Running
<1>9. QED
  BY <1>0, <1>1, <1>2, <1>6, <1>8 DEF IInv, Running, OnlyTables, Headers

(* The tables go into the file. *)
LEMMA ReadBackStep == IInv /\ Laid /\ UNCHANGED args /\ ReadBack => IInv'
<1> SUFFICES ASSUME IInv, Laid, UNCHANGED args, ReadBack
             PROVE  IInv'
  OBVIOUS
<1>0. OnlyTables'
  BY OnlyTablesStep DEF Next, Step
<1>1. /\ pc = "tables" /\ pc' \in {"header", "failing"} /\ i = Len(writes) /\ i' = i
      /\ file' = file \cup buffer /\ buffer' = {}
      /\ durable' = durable /\ linked' = linked /\ result' = result /\ writes' = writes
  BY DEF ReadBack, args, Flushed
<1>2. /\ i \in 0..Len(writes) /\ durable \subseteq file /\ linked \in BOOLEAN
      /\ result = 0 /\ Headers(file) = {} /\ Headers(buffer) = {}
      /\ file \cup buffer = {writes[k] : k \in 1..i}
  BY <1>1 DEF IInv, TypeOK, Running
<1>3. Headers(file') = {} /\ Headers(buffer') = {}
  BY <1>1, <1>2, HeadersOf
<1>4. TypeOK'
  BY <1>1, <1>2 DEF TypeOK, Running
<1>5. QED
  BY <1>0, <1>1, <1>2, <1>3, <1>4 DEF IInv, Running, OnlyTables, Headers

(* The header goes into the buffer, behind tables that are in the file. *)
LEMMA WriteHeaderStep == IInv /\ Laid /\ UNCHANGED args /\ WriteHeader => IInv'
<1> SUFFICES ASSUME IInv, Laid, UNCHANGED args, WriteHeader
             PROVE  IInv'
  OBVIOUS
<1>0. OnlyTables'
  BY OnlyTablesStep DEF Next, Step
<1>1. /\ pc = "header" /\ pc' = "fsync" /\ i' = i
      /\ file' = file \cup buffer /\ buffer' = {Header}
      /\ durable' = durable /\ linked' = linked /\ result' = result /\ writes' = writes
      /\ Header' = Header
  BY DEF WriteHeader, args, Flushed, Header
<1>2. /\ i \in 0..Len(writes) /\ durable \subseteq file /\ linked \in BOOLEAN
      /\ result = 0 /\ Headers(file) = {} /\ Headers(buffer) = {}
      /\ file \cup buffer = {writes[k] : k \in 1..i} /\ i = Len(writes)
  <2>1. i \in 0..Len(writes) /\ durable \subseteq file /\ linked \in BOOLEAN
    BY DEF IInv, TypeOK
  <2>2. file \cup buffer = {writes[k] : k \in 1..i}
    BY <1>1 DEF IInv, TypeOK, Running
  <2>3. result = 0 /\ Headers(file) = {} /\ Headers(buffer) = {} /\ i = Len(writes)
    BY <1>1 DEF IInv, Running
  <2>4. QED
    BY <2>1, <2>2, <2>3
<1>3. Headers(file') = {}
  <2>1. Headers(file \cup buffer) = Headers(file) \cup Headers(buffer)
    BY HeadersOf, Zenon
  <2>2. QED
    BY <1>1, <1>2, <2>1
<1>4. TypeOK'
  BY <1>1, <1>2 DEF TypeOK, Running
<1>5. QED
  BY <1>0, <1>1, <1>2, <1>3, <1>4 DEF IInv, Running, OnlyTables, Headers

(* A call fails. *)
LEMMA CallFailsStep == IInv /\ Laid /\ UNCHANGED args /\ CallFails => IInv'
BY DEF IInv, TypeOK, CallFails, args, disk, Running, Headers, Header, kFailedWrite, Exited

(* The file loses its name, whatever fclose still writes to it: the header *)
(* is not among it.                                                        *)
LEMMA CleanUpStep == IInv /\ Laid /\ UNCHANGED args /\ CleanUp => IInv'
<1> SUFFICES ASSUME IInv, Laid, UNCHANGED args, CleanUp
             PROVE  IInv'
  OBVIOUS
<1>0. OnlyTables'
  BY OnlyTablesStep DEF Next, Step
<1>1. /\ pc = "failing" /\ pc' = "returned" /\ i' = i /\ linked' = FALSE
      /\ file \subseteq file' /\ file' \subseteq file \cup buffer
      /\ durable' = durable /\ result' = kFailedWrite /\ writes' = writes
  BY DEF CleanUp, args, Flushed
<1>2. /\ i \in 0..Len(writes) /\ durable \subseteq file
      /\ Headers(file) = {} /\ Headers(buffer) = {}
  BY <1>1 DEF IInv, TypeOK, Running
<1>3. Headers(file') = {}
  BY <1>1, <1>2 DEF Headers
<1>4. TypeOK'
  BY <1>1, <1>2 DEF TypeOK, Running
<1>5. QED
  BY <1>0, <1>1, <1>2, <1>3, <1>4 DEF IInv, Running, OnlyTables, Headers

(* The tables become durable while the header is in the buffer, or the     *)
(* process exits.                                                          *)
LEMMA FsyncStep == IInv /\ Laid /\ UNCHANGED args /\ Fsync => IInv'
<1> SUFFICES ASSUME IInv, Laid, UNCHANGED args, Fsync
             PROVE  IInv'
  OBVIOUS
<1>0. OnlyTables'
  BY OnlyTablesStep DEF Next, Step
<1>1. /\ pc = "fsync" /\ i' = i /\ linked' = linked /\ writes' = writes /\ Header' = Header
  BY DEF Fsync, args, Header
<1>2. /\ i \in 0..Len(writes) /\ durable \subseteq file /\ linked \in BOOLEAN
      /\ result = 0 /\ Headers(file) = {}
      /\ file \cup buffer = {writes[k] : k \in 1..i} \cup {Header} /\ i = Len(writes)
  BY <1>1 DEF IInv, TypeOK, Running
<1>3. CASE pc' = "fclose"
  <2>1. durable' = file /\ file' = file /\ buffer' = buffer /\ result' = result
    BY <1>3 DEF Fsync
  <2>2. TypeOK'
    BY <1>1, <1>2, <1>3, <2>1 DEF TypeOK, Running
  <2>3. ToSet(writes) \subseteq file
    <3>1. buffer = {Header}
      BY <1>1 DEF IInv, Running
    <3>2. Made(i) = ToSet(writes)
      BY <1>2, MadeNext
    <3>3. Header.at = 0
      BY DEF Header, IndexHeader, Seek
    <3>4. Header \notin ToSet(writes)
      BY <3>3 DEF Laid, Headers
    <3>5. QED
      BY <1>2, <3>1, <3>2, <3>4 DEF Made
  <2>4. QED
    BY <1>0, <1>1, <1>2, <1>3, <2>1, <2>2, <2>3 DEF IInv, Running, OnlyTables, Headers
<1>4. CASE pc' = "returned"
  <2>1. durable' = durable /\ file' = file \cup buffer /\ result' = Exited
    BY <1>4 DEF Fsync, Flushed
  <2>2. TypeOK'
    BY <1>1, <1>2, <1>4, <2>1 DEF TypeOK, Running
  <2>3. ToSet(writes') \subseteq file'
    <3>1. Made(i) = ToSet(writes)
      BY <1>2, MadeNext
    <3>2. QED
      BY <1>1, <1>2, <2>1, <3>1 DEF Made
  <2>4. QED
    BY <1>0, <1>1, <1>2, <1>4, <2>1, <2>2, <2>3
       DEF IInv, Running, OnlyTables, Headers, Exited, kFailedWrite
<1>5. QED
  BY <1>3, <1>4 DEF Fsync

(* fclose may write the header: the tables are durable. *)
LEMMA FcloseStep == IInv /\ Laid /\ UNCHANGED args /\ Fclose => IInv'
<1> SUFFICES ASSUME IInv, Laid, UNCHANGED args, Fclose
             PROVE  IInv'
  OBVIOUS
<1>0. OnlyTables'
  BY OnlyTablesStep DEF Next, Step
<1>1. /\ pc = "fclose" /\ pc' = "returned" /\ i' = i /\ linked' = linked
      /\ writes' = writes /\ durable' = durable /\ file \subseteq file'
      /\ result' = FileHeaderSize + dtbytes + membytes + FileHeaderSize
  BY DEF Fclose, args, Flushed
<1>2. /\ i \in 0..Len(writes) /\ durable \subseteq file /\ linked \in BOOLEAN
      /\ ToSet(writes) \subseteq durable
  BY <1>1 DEF IInv, TypeOK
<1>3. result' # kFailedWrite
  BY <1>1 DEF Laid, kFailedWrite, FileHeaderSize
<1>4. TypeOK'
  BY <1>1, <1>2 DEF TypeOK, Running
<1>5. QED
  BY <1>0, <1>1, <1>2, <1>3, <1>4 DEF IInv, Running, OnlyTables

(* A crash loses no write that is durable. *)
LEMMA CrashStep == IInv /\ Laid /\ UNCHANGED args /\ Crash => IInv'
<1> SUFFICES ASSUME IInv, Laid, UNCHANGED args, Crash
             PROVE  IInv'
  OBVIOUS
<1>0. OnlyTables'
  BY OnlyTablesStep DEF Next, Step
<1>1. /\ pc' = "crashed" /\ i' = i /\ linked' = linked /\ result' = result
      /\ writes' = writes /\ durable' = file'
  BY DEF Crash, args
<1>2. /\ i \in 0..Len(writes) /\ durable \subseteq file /\ linked \in BOOLEAN
      /\ Headers(file) # {} => result = Exited \/ ToSet(writes) \subseteq durable
  BY DEF IInv, TypeOK
<1>3. file' \subseteq file /\ durable \subseteq file'
  BY <1>2 DEF Crash
<1>4. Headers(file') # {} => Headers(file) # {}
  BY <1>3 DEF Headers
<1>5. TypeOK'
  BY <1>1, <1>2 DEF TypeOK, Running
<1>6. QED
  BY <1>0, <1>1, <1>2, <1>3, <1>4, <1>5 DEF IInv, Running, OnlyTables, Headers

(* Every step keeps the invariant. *)
LEMMA IInvStep == IInv /\ Laid /\ [Next]_vars => IInv'
<1> SUFFICES ASSUME IInv, Laid, [Next]_vars
             PROVE  IInv'
  OBVIOUS
<1>1. UNCHANGED args
  BY LaidStays
<1>2. CASE Next
  BY <1>1, <1>2, OpenStep, WriteNextStep, ReadBackStep, WriteHeaderStep, CleanUpStep,
     FsyncStep, FcloseStep, CallFailsStep, CrashStep DEF Next, Step
<1>3. CASE UNCHANGED vars
  BY <1>3 DEF IInv, TypeOK, vars, args, disk, Running, Headers, Header
<1>4. QED
  BY <1>2, <1>3

-----------------------------------------------------------------------------
(* WriteIndex: the fwrites for any two tables of TablesAssumption, however *)
(* many elements they have, fill the bytes behind the header up to the     *)
(* size that the header will give, without a gap and without a byte        *)
(* written twice.  A word of more than INT16_MAX letters is not in such a  *)
(* table; the code writes bytes twice for it (WriteIndex.cc, line 588).    *)
THEOREM Layout == Spec => []LayoutExact
<1>1. Init => Arguments
  BY InitArguments
<1>2. Arguments /\ [Next]_vars => Arguments'
  BY ArgumentsKept, ArgumentsStay
<1>3. QED
  BY <1>1, <1>2, LayoutIs, PTL DEF Spec

(* WriteIndex: the offsets computed for these tables are exact, none of    *)
(* them leaves an IndexFileOffset_t (LayoutStructs.h), an int32_t.         *)
THEOREM OffsetsFit == Spec => []OffsetsHeld
<1>1. Init => Arguments
  BY InitArguments
<1>2. Arguments /\ [Next]_vars => Arguments'
  BY ArgumentsKept, ArgumentsStay
<1>3. QED
  BY <1>1, <1>2, OffsetsAre, PTL DEF Spec

(* WriteIndex: each write is in the buffer, in the file or not yet made,   *)
(* and the header is in the file only when the tables are durable or fsync *)
(* has failed.                                                             *)
THEOREM Invariance == Spec => []IInv
<1>1. Init => Laid
  <2>1. Init => LayoutExact
    BY InitArguments, LayoutIs
  <2>2. QED
    BY <2>1 DEF Init, LayoutExact, Laid, Headers, FileHeaderSize
<1>2. Init => IInv
  BY <1>1, InitIInv
<1>3. IInv /\ Laid /\ [Next]_vars => IInv' /\ Laid'
  BY IInvStep, LaidStays
<1>4. QED
  BY <1>1, <1>2, <1>3, PTL DEF Spec

(* FileIndexReader opens no file of WriteIndex that misses a part of its   *)
(* tables, whatever call of WriteIndex fails and wherever the machine      *)
(* crashes, unless fsync itself has failed; and WriteIndex leaves no file  *)
(* behind when it returns kFailedWrite.                                    *)
THEOREM CrashSafety == Spec => []TablesFirst
<1>1. IInv => TablesFirst
  <2> SUFFICES ASSUME IInv
               PROVE  TablesFirst
    OBVIOUS
  <2>1. OpensAsIndex(file) => Headers(file) # {}
    BY DEF OpensAsIndex, Headers
  <2>2. Headers(file) # {} => result = Exited \/ ToSet(writes) \subseteq file
    BY DEF IInv, TypeOK
  <2>3. pc = "returned" /\ result = kFailedWrite => ~linked
    BY DEF IInv
  <2>4. QED
    BY <2>1, <2>2, <2>3 DEF TablesFirst
<1>2. QED
  BY <1>1, Invariance, PTL

-----------------------------------------------------------------------------
(* Reading the file back. *)

(* The whole file, seen as the readers see it. *)
Whole(c) ==
    /\ file = ToSet(writes) \cup {Header}
    /\ Shows(c, file)
    /\ FileSize(file) = FileHeaderSize + dtbytes + membytes

(* What opens as an index when WriteIndex has returned is the header and   *)
(* all writes of the tables, no two of them at the same offset.            *)
LEMMA WholeIs ==
    ASSUME IInv, Arguments, pc = "returned", OpensAsIndex(file)
    PROVE  Whole(Contents(file))
<1> DEFINE D == Data(dt, mi)
           ws == ToSet(writes)
           to == FileHeaderSize + dtbytes + membytes
<1>1. Tiles(D, writes, FileHeaderSize, to) /\ FileHeaderSize < to
      /\ dtbytes \in Nat /\ membytes \in Nat
  BY FileLaid, Zenon DEF Arguments
<1>2. /\ \A v, x \in ws : v # x => Apart(v, x)
      /\ \A v \in ws : v.at >= FileHeaderSize /\ v \in Writes(D)
  <2> HIDE DEF D, to
  <2>1. QED
    BY <1>1, TilesSet, Zenon
<1>3. Header.at = 0 /\ Header.data = [doctableBytes |-> dtbytes, indexBytes |-> membytes]
  BY DEF Header, IndexHeader, Seek
<1>4. PICK h \in file : /\ h.at = 0
                       /\ FileSize(file) = FileHeaderSize + h.data.doctableBytes + h.data.indexBytes
  BY DEF OpensAsIndex
<1>5. file \subseteq ws \cup {Header} /\ ws \subseteq file
  <2>1. Headers(file) # {}
    BY <1>4 DEF Headers
  <2>2. QED
    BY <2>1 DEF IInv
<1> HIDE DEF ws, D
<1>6. h = Header
  <2>1. h \notin ws
    BY <1>2, <1>4 DEF FileHeaderSize
  <2>2. QED
    BY <1>5, <2>1
<1>7. file = ws \cup {Header}
  BY <1>5, <1>6
<1>8. \A v, x \in file : v # x => v.at # x.at
  <2>1. ASSUME NEW v \in ws, NEW x \in ws, v # x
        PROVE  v.at # x.at
    <3>1. v \in Writes(D) /\ x \in Writes(D) /\ Apart(v, x)
      BY <1>2, <2>1
    <3>2. v.at \in Nat /\ x.at \in Nat /\ v.len \in Nat \ {0} /\ x.len \in Nat \ {0}
      BY <3>1 DEF Writes
    <3>3. QED
      BY <3>1, <3>2 DEF Apart
  <2>2. \A v \in ws : v.at # Header.at
    BY <1>2, <1>3 DEF FileHeaderSize
  <2>3. QED
    BY <1>7, <2>1, <2>2
<1>9. Shows(Contents(file), file)
  BY <1>8, ContentsShow, Zenon
<1>10. FileSize(file) = to
  BY <1>3, <1>4, <1>6
<1>11. QED
  BY <1>7, <1>9, <1>10 DEF Whole, ws

(* Both tables are in it. *)
TablesShown(c) ==
    LET D == Data(dt, mi)
        docs == WriteDocTable(dt, FileHeaderSize)
        index == FileHeaderSize + dtbytes
        words == WriteMemIndex(mi, index)
    IN  /\ IsData(D) /\ \A e \in Elements(mi) : [text |-> e.word] \in D
        /\ HasTable(D, docs, FileHeaderSize, dt, DocFn(dt), index)
        /\ HasTable(D, words, index, mi, WordFn(mi), index + membytes)
        /\ index \in Nat
        /\ Shows(c, ToSet(docs)) /\ Shows(c, ToSet(words))

(* A file with every byte of both tables is read as the tables. *)
LEMMA TablesAreShown ==
    ASSUME NEW c, Arguments, Whole(c)
    PROVE  TablesShown(c)
<1> DEFINE D == Data(dt, mi)
           docs == WriteDocTable(dt, FileHeaderSize)
           index == FileHeaderSize + dtbytes
           words == WriteMemIndex(mi, index)
<1>1. IsData(D) /\ \A e \in Elements(mi) : [text |-> e.word] \in D
  BY DataIs, Zenon
<1>2. /\ HasTable(D, docs, FileHeaderSize, dt, DocFn(dt), index)
      /\ HasTable(D, words, index, mi, WordFn(mi), index + membytes)
      /\ ToSet(docs \o words) = ToSet(docs) \cup ToSet(words)
      /\ dtbytes \in Nat /\ membytes \in Nat
      /\ writes = docs \o words
  BY FileLaid, Zenon DEF Arguments
<1>3. index \in Nat
  BY <1>2 DEF FileHeaderSize
<1>4. Shows(c, ToSet(docs)) /\ Shows(c, ToSet(words))
  <2> HIDE DEF docs, words
  <2>1. ToSet(docs) \subseteq file /\ ToSet(words) \subseteq file
    BY <1>2 DEF Whole
  <2>2. QED
    BY <2>1 DEF Whole, Shows
<1>5. QED
  BY <1>1, <1>2, <1>3, <1>4, Zenon DEF TablesShown

(* Every document is found in the doctable. *)
LEMMA DocsAreRead ==
    ASSUME NEW c, Arguments, TablesShown(c)
    PROVE  DocsReadBack(c)
<1> SUFFICES ASSUME NEW e \in Elements(dt)
             PROVE  DocTable_LookupDocID(c, FileHeaderSize, e.key) = [found |-> TRUE, name |-> e.name]
  BY Zenon DEF DocsReadBack
<1> DEFINE D == Data(dt, mi)
           docs == WriteDocTable(dt, FileHeaderSize)
           index == FileHeaderSize + dtbytes
<1>1. /\ HasTable(D, docs, FileHeaderSize, dt, DocFn(dt), index)
      /\ Shows(c, ToSet(docs))
      /\ IsDocTable(dt)
  BY Zenon DEF TablesShown, Arguments
<1>2. FileHeaderSize \in Nat
  BY DEF FileHeaderSize
<1> HIDE DEF D, docs, index
<1>3. QED
  BY <1>1, <1>2, DocLookup

(* Every word is found in the index, with its documents and its positions  *)
(* in them.                                                                *)
LEMMA WordsAreRead ==
    ASSUME NEW c, Arguments, TablesShown(c)
    PROVE  WordsReadBack(c)
<1> DEFINE D == Data(dt, mi)
           index == FileHeaderSize + dtbytes
           words == WriteMemIndex(mi, index)
           to == index + membytes
<1>1. /\ IsData(D) /\ \A e \in Elements(mi) : [text |-> e.word] \in D
      /\ HasTable(D, words, index, mi, WordFn(mi), to)
      /\ Shows(c, ToSet(words))
      /\ IsMemIndex(mi) /\ index \in Nat
  BY Zenon DEF TablesShown, Arguments
<1> HIDE DEF D, words, to
<1>2. ASSUME NEW e \in Elements(mi)
      PROVE  LET found == LookupWord(c, index, e)
                 docs == GetDocIDList(c, found.table)
             IN  /\ found # NotFound
                 /\ \A p \in Elements(e.postings) :
                       DocIDTable_LookupDocID(c, found.table, p.key)
                          = [found |-> TRUE, positions |-> p.positions]
                 /\ Len(docs) = Cardinality(Elements(e.postings))
                 /\ ToSet(docs) = {DocIDHeader(p) : p \in Elements(e.postings)}
  <2> HIDE DEF index
  <2>1. PICK start \in Nat :
           /\ LookupWord(c, index, e) = [found |-> TRUE, table |-> start]
           /\ \E nested, end : /\ HasTable(D, nested, start, e.postings, PostingsFn(e.postings), end)
                               /\ Shows(c, ToSet(nested))
    BY <1>1, WordLookup, Zenon
  <2>2. PICK nested, end : /\ HasTable(D, nested, start, e.postings, PostingsFn(e.postings), end)
                           /\ Shows(c, ToSet(nested))
    BY <2>1
  <2>3. IsPostings(e.postings)
    BY <1>1 DEF IsMemIndex
  <2> DEFINE t == e.postings
  <2>4. /\ HasTable(D, nested, start, t, PostingsFn(t), end)
        /\ IsPostings(t) /\ Shows(c, ToSet(nested)) /\ IsData(D)
    BY <1>1, <2>2, <2>3
  <2> HIDE DEF t
  <2>5. ASSUME NEW p \in Elements(t)
        PROVE  DocIDTable_LookupDocID(c, start, p.key) = [found |-> TRUE, positions |-> p.positions]
    BY <2>4, PostingsLookup
  <2>6. /\ Len(GetDocIDList(c, start)) = Cardinality(Elements(t))
        /\ ToSet(GetDocIDList(c, start)) = HeadersListed(t)
    BY <2>4, ListRead, ZenonT(40)
  <2> DEFINE found == LookupWord(c, index, e)
  <2>7. found.table = start /\ found # NotFound
    <3>1. found = [found |-> TRUE, table |-> start]
      BY <2>1
    <3> HIDE DEF found
    <3>2. found.table = start /\ found.found = TRUE
      BY <3>1
    <3>3. NotFound.found = FALSE
      BY DEF NotFound
    <3>4. QED
      BY <3>2, <3>3
  <2> HIDE DEF found
  <2>8. QED
    BY <2>5, <2>6, <2>7, Zenon DEF found, t, HeadersListed
<1>3. QED
  BY <1>2, Zenon DEF WordsReadBack, DocIDHeader

-----------------------------------------------------------------------------
(* hw3fsck. *)

(* It finds the buckets where they are. *)
RecordsRead(c, at, table, bpos) ==
    /\ NumBuckets(c, at) = Len(table)
    /\ \A b \in 0..(Len(table) - 1) :
          /\ b + 1 \in 1..Len(table)
          /\ BucketRec(c, at, b).chainNumElements = Len(table[b + 1])
          /\ BucketRec(c, at, b).position = bpos[b + 1]

(* The bucket records are those of the table. *)
LEMMA TableRecords ==
    ASSUME NEW c, NEW ws, NEW at, NEW table, IsTable(table), NEW fn, NEW bpos, NEW pos, NEW to,
           TableRead(c, ws, at, table, fn, bpos, pos, to)
    PROVE  RecordsRead(c, at, table, bpos)
<1> DEFINE n == Len(table)
<1>1. n \in Nat
  BY DEF IsTable
<1>2. c[at] = [numBuckets |-> n]
  BY Zenon DEF TableRead
<1>3. NumBuckets(c, at) = n
  BY <1>2 DEF NumBuckets, ReadAt
<1>4. ASSUME NEW b \in 0..(n - 1)
      PROVE  /\ b + 1 \in 1..n
             /\ BucketRec(c, at, b).chainNumElements = Len(table[b + 1])
             /\ BucketRec(c, at, b).position = bpos[b + 1]
  <2> DEFINE d == b + 1
  <2>1. d \in 1..n /\ d - 1 = b
    BY <1>1
  <2> HIDE DEF d
  <2>2. c[at + BucketListSize + BucketRecordSize * (d - 1)]
           = WriteHTBucketRecord(Len(table[d]), bpos[d])
    BY <2>1, Zenon DEF TableRead
  <2>3. BucketRec(c, at, b) = WriteHTBucketRecord(Len(table[d]), bpos[d])
    BY <2>1, <2>2 DEF BucketRec, ReadAt
  <2>4. /\ BucketRec(c, at, b).chainNumElements = Len(table[d])
        /\ BucketRec(c, at, b).position = bpos[d]
    BY <2>3 DEF WriteHTBucketRecord
  <2>5. QED
    BY <2>1, <2>4 DEF d
<1>5. QED
  BY <1>3, <1>4, Zenon DEF RecordsRead

(* What it takes for an element of the table is one. *)
IsElement(table, pos, x) ==
    \E b \in 1..Len(table) : \E j \in 1..Len(table[b]) : x.bucket = b - 1 /\ x.at = pos[b][j]

(* What the checks of hw3fsck find at the places of elements are elements  *)
(* of the table.                                                           *)
LEMMA TableElements ==
    ASSUME NEW c, NEW ws, NEW at, NEW table, IsTable(table), NEW fn, NEW bpos, NEW pos, NEW to,
           TableRead(c, ws, at, table, fn, bpos, pos, to), NEW x \in BucketElements(c, at)
    PROVE  IsElement(table, pos, x)
<1>1. RecordsRead(c, at, table, bpos)
  BY TableRecords, Zenon
<1> DEFINE rec(a) == BucketRec(c, at, a)
           last(a) == rec(a).chainNumElements - 1
           Element(a, k) ==
             [bucket |-> a, at |-> ReadAt(c, rec(a).position + ElementRecordSize * k).position]
<1>2. PICK a \in 0..(Len(table) - 1) : \E k \in 0..last(a) : x = Element(a, k)
  <2>1. NumBuckets(c, at) = Len(table)
    BY <1>1, Zenon DEF RecordsRead
  <2>2. QED
    BY <2>1 DEF BucketElements
<1>3. PICK k \in 0..last(a) : x = Element(a, k)
  BY <1>2
<1> DEFINE b == a + 1
           j == k + 1
<1>4. b \in 1..Len(table) /\ rec(a).chainNumElements = Len(table[b]) /\ rec(a).position = bpos[b]
  BY <1>1, Zenon DEF RecordsRead
<1>5. table[b] \in Seq(Elements(table)) /\ Len(table[b]) \in Nat
  BY <1>4 DEF IsTable
<1>6. j \in 1..Len(table[b]) /\ j - 1 = k /\ b - 1 = a
  BY <1>3, <1>4, <1>5 DEF IsTable
<1> HIDE DEF b, j, rec
<1>7. c[bpos[b] + ElementRecordSize * (j - 1)] = [position |-> pos[b][j]]
  <2>1. BucketRead(c, ws, table[b], fn, bpos[b], pos[b], to)
    BY <1>4, Zenon DEF TableRead
  <2>2. QED
    BY <1>6, <2>1, Zenon DEF BucketRead
<1>8. x.at = pos[b][j]
  <2>1. x.at = c[bpos[b] + ElementRecordSize * (j - 1)].position
    BY <1>3, <1>4, <1>6 DEF ReadAt
  <2>2. QED
    BY <1>7, <2>1
<1>9. x.bucket = b - 1
  BY <1>3, <1>6
<1>10. QED
  BY <1>4, <1>6, <1>8, <1>9, Zenon DEF IsElement

(* Buckets that follow one another, and those that it takes for the        *)
(* previous ones.                                                          *)
LEMMA BucketsFollow ==
    ASSUME NEW n \in Nat, NEW p \in [0..(n - 1) -> Nat], NEW used, used \subseteq 0..(n - 1),
           \A b \in used, d \in 0..(n - 1) : b < d => p[b] < p[d],
           \A b \in 0..(n - 1) : p[0] <= p[b],
           NEW b \in used, b # Min(used)
    PROVE  LET before == {d \in used : d < b}
           IN  p[IF Cardinality(before) = 1 THEN 0 ELSE Max(before)] < p[b]
<1> DEFINE before == {d \in used : d < b}
<1>1. used # {} /\ used \subseteq Nat
  OBVIOUS
<1>2. Min(used) \in used /\ Min(used) <= b
  BY <1>1, MinIs
<1>3. Min(used) \in before
  <2> DEFINE m == Min(used)
  <2>1. m \in used /\ m <= b /\ m # b
    BY <1>2
  <2> HIDE DEF m
  <2>2. m < b
    BY <1>1, <2>1
  <2>3. QED
    BY <2>1, <2>2 DEF m
<1>4. n - 1 \in Nat /\ before \subseteq 0..(n - 1) /\ before # {}
  <2>1. b \in 0..(n - 1)
    OBVIOUS
  <2>2. n - 1 \in Nat
    BY <2>1
  <2>3. before \subseteq 0..(n - 1)
    OBVIOUS
  <2> HIDE DEF before
  <2>4. QED
    BY <1>3, <2>2, <2>3
<1>5. \A d \in before : d \in 0..(n - 1) /\ p[d] < p[b]
  OBVIOUS
<1> HIDE DEF before
<1>6. CASE Cardinality(before) = 1
  <2>1. PICK d \in before : TRUE
    BY <1>4
  <2>2. p[0] <= p[d] /\ p[d] < p[b] /\ 0 \in 0..(n - 1)
    BY <1>4, <1>5, <2>1
  <2>3. p[0] \in Nat /\ p[d] \in Nat /\ p[b] \in Nat
    BY <1>5, <2>2
  <2>4. p[0] < p[b]
    BY <2>2, <2>3
  <2>5. QED
    BY <1>6, <2>4 DEF before
<1>7. CASE Cardinality(before) # 1
  <2>1. Max(before) \in before
    BY <1>4, MaxIs
  <2>2. p[Max(before)] < p[b]
    BY <1>5, <2>1
  <2>3. QED
    BY <1>7, <2>2 DEF before
<1>8. QED
  BY <1>6, <1>7

(* HashTableChecker accepts a table that WriteHashTable has written. *)
LEMMA TableChecked ==
    ASSUME NEW c, NEW ws, NEW at \in Nat, NEW table, IsTable(table), NEW fn, NEW bpos, NEW pos,
           NEW to \in Nat, TableRead(c, ws, at, table, fn, bpos, pos, to),
           at + BucketListSize + BucketRecordSize * Len(table) <= to,
           NEW D, ElementsFit(D, fn, Elements(table)), NEW len, len = to - at
    PROVE  CheckTable(c, at, len)
<1> DEFINE n == Len(table)
           rec(b) == BucketRec(c, at, b)
           used == {b \in 0..(n - 1) : rec(b).chainNumElements > 0}
           p == [b \in 0..(n - 1) |-> bpos[b + 1]]
           start == at + BucketListSize + BucketRecordSize * n
<1>1. n \in Nat /\ n > 0
  BY DEF IsTable
<1>2. /\ NumBuckets(c, at) = n
      /\ \A b \in 0..(n - 1) : /\ b + 1 \in 1..n
                               /\ rec(b).chainNumElements = Len(table[b + 1])
                               /\ rec(b).position = bpos[b + 1]
  <2>1. RecordsRead(c, at, table, bpos)
    BY TableRecords, Zenon
  <2>2. QED
    BY <2>1, Zenon DEF RecordsRead
<1>3. /\ bpos \in [1..n -> Nat] /\ bpos[1] = start
      /\ \A b \in 1..n : /\ start <= bpos[b]
                         /\ \A d \in 1..n : b < d /\ Len(table[b]) > 0 => bpos[b] < bpos[d]
  BY Zenon DEF TableRead
<1>4. p \in [0..(n - 1) -> Nat] /\ \A b \in 0..(n - 1) : p[b] = bpos[b + 1] /\ rec(b).position = p[b]
  BY <1>1, <1>2, <1>3
<1>5. \A b \in used : b \in 0..(n - 1) /\ Len(table[b + 1]) > 0
  BY <1>2
<1>6. 0 \in 0..(n - 1) /\ p[0] = start
  BY <1>1, <1>3
<1> HIDE DEF p, rec, used, n
<1>7. ASSUME NEW b \in used, NEW d \in 0..(n - 1), b < d
      PROVE  p[b] < p[d]
  <2>1. b + 1 \in 1..n /\ d + 1 \in 1..n /\ b + 1 < d + 1
    BY <1>1, <1>5, <1>7
  <2>2. bpos[b + 1] < bpos[d + 1]
    BY <1>3, <1>5, <2>1
  <2>3. QED
    BY <1>4, <1>5, <2>2
<1>8. \A b \in 0..(n - 1) : p[0] <= p[b]
  BY <1>2, <1>3, <1>4, <1>6
<1>9. ASSUME NEW b \in used, b # Min(used)
      PROVE  LET before == {d \in used : d < b}
                 prev == IF Cardinality(before) = 1 THEN 0 ELSE Max(before)
             IN  rec(prev).position < rec(b).position
  <2> DEFINE before == {d \in used : d < b}
             prev == IF Cardinality(before) = 1 THEN 0 ELSE Max(before)
  <2>1. used \subseteq 0..(n - 1)
    BY <1>5
  <2>2. p[prev] < p[b]
    BY <1>1, <1>4, <1>7, <1>8, <1>9, <2>1, BucketsFollow
  <2>3. prev \in 0..(n - 1)
    <3>1. n - 1 \in Nat
      BY <1>1
    <3>2. before \subseteq 0..(n - 1)
      BY <2>1
    <3>3. before # {}
      <4>1. used # {} /\ used \subseteq Nat
        BY <2>1
      <4>2. Min(used) \in used /\ Min(used) <= b
        BY <4>1, MinIs
      <4> DEFINE m == Min(used)
      <4>3. m \in used /\ m <= b /\ m # b
        BY <1>9, <4>2
      <4> HIDE DEF m
      <4>4. m < b
        BY <4>1, <4>3
      <4>5. QED
        BY <4>3, <4>4
    <3> HIDE DEF before
    <3>4. Max(before) \in before
      BY <3>1, <3>2, <3>3, MaxIs
    <3>5. QED
      BY <1>6, <3>2, <3>4
  <2> HIDE DEF prev
  <2>4. rec(prev).position < rec(b).position
    BY <1>4, <1>5, <2>2, <2>3
  <2>5. QED
    BY <2>4 DEF prev
<1>10. ASSUME NEW x \in BucketElements(c, at)
       PROVE  x.at <= at + len
  <2>1. IsElement(table, pos, x)
    BY TableElements, Zenon
  <2>2. PICK b \in 1..n : \E j \in 1..Len(table[b]) : x.at = pos[b][j]
    BY <2>1, Zenon DEF IsElement, n
  <2>3. PICK j \in 1..Len(table[b]) : x.at = pos[b][j]
    BY <2>2
  <2> DEFINE o == pos[b][j]
             e == table[b][j]
  <2>4. o \in Nat /\ o + Bytes(fn[e][o]) <= to
    BY ElementWrites, Zenon DEF n
  <2>5. e \in Elements(table)
    BY ElementsAre, Zenon DEF n
  <2> HIDE DEF o, e
  <2>6. Tiles(D, fn[e][o], o, o + Bytes(fn[e][o]))
    BY <2>4, <2>5, Zenon DEF ElementsFit
  <2>7. Bytes(fn[e][o]) \in Nat
    BY <2>6, TilesEnd, Zenon
  <2>8. o <= to
    BY <2>4, <2>7
  <2>9. QED
    BY <2>3, <2>8 DEF o
<1>11. n * BucketRecordSize < len
  BY <1>1 DEF BucketListSize, BucketRecordSize, n
<1>12. rec(0).position = start
  BY <1>4, <1>6
<1>13. QED
  BY <1>2, <1>9, <1>10, <1>11, <1>12, Zenon DEF CheckTable, rec, used

(* DocTableChecker accepts the doctable. *)
LEMMA DocTableChecked ==
    ASSUME NEW c, NEW D, NEW ws, Shows(c, ToSet(ws)), NEW at \in Nat, NEW table, IsDocTable(table),
           NEW to \in Nat, HasTable(D, ws, at, table, DocFn(table), to),
           ElementsFit(D, DocFn(table), Elements(table)), NEW len, len = to - at
    PROVE  CheckDocTable(c, at, len)
<1>1. IsTable(table) /\ at + BucketListSize + BucketRecordSize * Len(table) <= to
  BY DEF IsDocTable, HasTable
<1>2. PICK bpos, pos :
         /\ TableRead(c, ToSet(ws), at, table, DocFn(table), bpos, pos, to)
         /\ \A b \in 1..Len(table) : \A j \in 1..Len(table[b]) :
               DocnameRead(c, pos[b][j], table[b][j])
  BY DocTableReads, Zenon
<1>3. CheckTable(c, at, len)
  BY <1>1, <1>2, TableChecked, Zenon
<1>4. NumBuckets(c, at) = Len(table)
  <2>1. RecordsRead(c, at, table, bpos)
    BY <1>1, <1>2, TableRecords, Zenon
  <2>2. QED
    BY <2>1, Zenon DEF RecordsRead
<1>5. ASSUME NEW x \in BucketElements(c, at)
      PROVE  /\ c[x.at].docID % Len(table) = x.bucket
             /\ c[x.at].filenameBytes > 0
  <2>1. IsElement(table, pos, x)
    BY <1>1, <1>2, TableElements, Zenon
  <2>2. PICK b \in 1..Len(table) :
           \E j \in 1..Len(table[b]) : x.bucket = b - 1 /\ x.at = pos[b][j]
    BY <2>1, Zenon DEF IsElement
  <2>3. PICK j \in 1..Len(table[b]) : x.bucket = b - 1 /\ x.at = pos[b][j]
    BY <2>2
  <2> DEFINE e == table[b][j]
  <2>4. e \in Elements(table) /\ e.key % Len(table) = b - 1
    BY <1>1, ElementsAre, Zenon
  <2>5. c[x.at] = [docID |-> e.key, filenameBytes |-> e.len]
    BY <1>2, <2>3, Zenon DEF DocnameRead
  <2> HIDE DEF e
  <2>6. e.len \in Nat \ {0}
    BY <2>4, LengthHeld DEF IsDocTable
  <2>7. QED
    BY <2>3, <2>4, <2>5, <2>6
<1>6. QED
  BY <1>3, <1>4, <1>5, Zenon DEF CheckDocTable, ReadAt

(* Lists of positions that DocIDTableChecker accepts. *)
PostingsWithin(table) ==
    \A p \in Elements(table) :
       /\ Len(p.positions) < kMaxPositions
       /\ \A j \in 2..Len(p.positions) : p.positions[j - 1] < p.positions[j]

(* DocIDTableChecker accepts a docID table with such lists. *)
LEMMA DocIDTableChecked ==
    ASSUME NEW c, NEW D, IsData(D), NEW ws, Shows(c, ToSet(ws)), NEW at \in Nat, NEW table,
           IsPostings(table), PostingsWithin(table),
           NEW to \in Nat, HasTable(D, ws, at, table, PostingsFn(table), to), NEW len, len = to - at
    PROVE  CheckDocIDTable(c, at, len)
<1>1. IsTable(table) /\ at + BucketListSize + BucketRecordSize * Len(table) <= to
  BY DEF IsPostings, HasTable
<1>2. PICK bpos, pos :
         /\ TableRead(c, ToSet(ws), at, table, PostingsFn(table), bpos, pos, to)
         /\ \A b \in 1..Len(table) : \A j \in 1..Len(table[b]) :
               PositionListRead(c, pos[b][j], table[b][j])
  BY PostingsRead, Zenon
<1>3. CheckTable(c, at, len)
  <2>1. ElementsFit(D, PostingsFn(table), Elements(table))
    BY PostingsFit, Zenon
  <2>2. QED
    BY <1>1, <1>2, <2>1, TableChecked, Zenon
<1>4. NumBuckets(c, at) = Len(table)
  <2>1. RecordsRead(c, at, table, bpos)
    BY <1>1, <1>2, TableRecords, Zenon
  <2>2. QED
    BY <2>1, Zenon DEF RecordsRead
<1>5. ASSUME NEW x \in BucketElements(c, at)
      PROVE  LET header == c[x.at]
                 word(k) == c[x.at + DocIDHeaderSize + PositionSize * (k - 1)].position
             IN  /\ header.docID % Len(table) = x.bucket
                 /\ header.numPositions < kMaxPositions
                 /\ \A k \in 2..header.numPositions : word(k - 1) < word(k)
  <2>1. IsElement(table, pos, x)
    BY <1>1, <1>2, TableElements, Zenon
  <2>2. PICK b \in 1..Len(table) :
           \E j \in 1..Len(table[b]) : x.bucket = b - 1 /\ x.at = pos[b][j]
    BY <2>1, Zenon DEF IsElement
  <2>3. PICK j \in 1..Len(table[b]) : x.bucket = b - 1 /\ x.at = pos[b][j]
    BY <2>2
  <2> DEFINE e == table[b][j]
             o == x.at
             n == Len(e.positions)
             at_(k) == o + DocIDHeaderSize + PositionSize * (k - 1)
             word(k) == c[at_(k)].position
  <2>4. e \in Elements(table) /\ e.key % Len(table) = b - 1
    BY <1>1, ElementsAre, Zenon
  <2>5. /\ c[o] = [docID |-> e.key, numPositions |-> n]
        /\ \A k \in 1..n : c[at_(k)] = [position |-> e.positions[k]]
    BY <1>2, <2>3, Zenon DEF PositionListRead
  <2>6. e.positions \in Seq(Nat) /\ n < kMaxPositions
        /\ \A k \in 2..n : e.positions[k - 1] < e.positions[k]
    BY <2>4, PositionsAre DEF PostingsWithin
  <2>7. n \in Nat
    BY <2>6
  <2> HIDE DEF e, o, n, at_
  <2>8. ASSUME NEW k \in 1..n
        PROVE  word(k) = e.positions[k]
    <3> DEFINE q == e.positions[k]
               a == at_(k)
    <3>1. c[a] = [position |-> q]
      BY <2>5, Zenon
    <3> HIDE DEF q, a
    <3>2. c[a].position = q
      BY <3>1
    <3>3. QED
      BY <3>2, Zenon DEF q, a
  <2>9. ASSUME NEW k \in 2..n
        PROVE  word(k - 1) < word(k)
    <3>1. k \in 1..n /\ k - 1 \in 1..n
      BY <2>7
    <3> HIDE DEF word
    <3>2. QED
      BY <2>6, <2>8, <3>1
  <2>10. c[o].docID = e.key /\ c[o].numPositions = n
    BY <2>5
  <2> HIDE DEF word
  <2>11. QED
    BY <2>3, <2>4, <2>6, <2>9, <2>10, Zenon DEF o, at_, word
<1>6. QED
  BY <1>3, <1>4, <1>5, Zenon DEF CheckDocIDTable, ReadAt

(* IndexTableChecker accepts the index. *)
LEMMA IndexTableChecked ==
    ASSUME NEW c, NEW D, IsData(D), NEW ws, Shows(c, ToSet(ws)), NEW at \in Nat, NEW table,
           IsMemIndex(table), WithinLimits(table), \A e \in Elements(table) : [text |-> e.word] \in D,
           NEW to \in Nat, HasTable(D, ws, at, table, WordFn(table), to),
           ElementsFit(D, WordFn(table), Elements(table)), NEW len, len = to - at
    PROVE  CheckIndexTable(c, at, len)
<1>1. IsTable(table) /\ at + BucketListSize + BucketRecordSize * Len(table) <= to
  BY DEF IsMemIndex, HasTable
<1>2. PICK bpos, pos : MemIndexRead(c, ToSet(ws), at, table, bpos, pos, to)
  BY MemIndexReads, Zenon
<1>3. /\ TableRead(c, ToSet(ws), at, table, WordFn(table), bpos, pos, to)
       /\ \A b \in 1..Len(table) : \A j \in 1..Len(table[b]) :
             /\ WordRead(c, pos[b][j], table[b][j])
             /\ ToSet(Nested(pos[b][j], table[b][j])) \subseteq ToSet(ws)
  BY <1>2, Zenon DEF MemIndexRead
<1>4. CheckTable(c, at, len)
  BY <1>1, <1>3, TableChecked, Zenon
<1>5. ASSUME NEW x \in BucketElements(c, at)
      PROVE  LET header == c[x.at]
                 nested == x.at + PostingsHeaderSize + header.wordBytes
             IN  /\ header.wordBytes > 0 /\ header.wordBytes < kMaxWord
                 /\ nested < at + len
                 /\ CheckDocIDTable(c, nested, header.postingsBytes)
  <2>1. IsElement(table, pos, x)
    BY <1>1, <1>3, TableElements, Zenon
  <2>2. PICK b \in 1..Len(table) :
           \E j \in 1..Len(table[b]) : x.bucket = b - 1 /\ x.at = pos[b][j]
    BY <2>1, Zenon DEF IsElement
  <2>3. PICK j \in 1..Len(table[b]) : x.bucket = b - 1 /\ x.at = pos[b][j]
    BY <2>2
  <2> DEFINE e == table[b][j]
             o == x.at
             start == o + PostingsHeaderSize + e.len
             inner == Nested(o, e)
             end == start + Bytes(inner)
  <2>4. e \in Elements(table)
    BY <1>1, ElementsAre, Zenon
  <2>5. c[o] = [wordBytes |-> e.len, postingsBytes |-> Bytes(inner)] /\ ToSet(inner) \subseteq ToSet(ws)
    BY <1>3, <2>3, Zenon DEF WordRead
  <2>6. o \in Nat /\ o + Bytes(WordFn(table)[e][o]) <= to
    BY <1>1, <1>3, <2>3, ElementWrites, ZenonT(40)
  <2> HIDE DEF e, o
  <2>7. WordFn(table)[e][o] = WriteWordToPostingsFn(o, e)
    BY <2>4, <2>6 DEF WordFn
  <2>8. e.len \in 1..INT16_MAX /\ IsPostings(e.postings) /\ [text |-> e.word] \in D
    BY <2>4 DEF IsMemIndex
  <2>9. e.len < kMaxWord /\ PostingsWithin(e.postings)
    BY <2>4, Zenon DEF WithinLimits, PostingsWithin
  <2>10. /\ o + Bytes(WriteWordToPostingsFn(o, e)) = end /\ end \in Nat /\ start \in Nat
         /\ HasTable(D, inner, start, e.postings, PostingsFn(e.postings), end)
    BY <2>6, <2>8, WordLaid
  <2> HIDE DEF inner
  <2>11. end <= to
    BY <2>6, <2>7, <2>10
  <2>12. start < end /\ Bytes(inner) = end - start
    <3>1. /\ Tiles(D, inner, start, end)
          /\ start + BucketListSize + BucketRecordSize * Len(e.postings) <= end
      BY <2>10, Zenon DEF HasTable
    <3> HIDE DEF start, end
    <3>2. Bytes(inner) = end - start
      BY <3>1, Zenon DEF Tiles
    <3> DEFINE m == Len(e.postings)
    <3>3. m \in Nat /\ start \in Nat /\ end \in Nat
          /\ start + BucketListSize + BucketRecordSize * m <= end
      BY <2>8, <2>10, <3>1 DEF IsPostings, IsTable
    <3> HIDE DEF m
    <3>4. start < end
      BY <3>3 DEF BucketListSize, BucketRecordSize
    <3>5. QED
      BY <3>2, <3>4
  <2> HIDE DEF start, end
  <2>13. Shows(c, ToSet(inner))
    BY <2>5 DEF Shows
  <2> DEFINE t == e.postings
  <2>14. CheckDocIDTable(c, start, Bytes(inner))
    <3>1. /\ HasTable(D, inner, start, t, PostingsFn(t), end)
          /\ IsPostings(t) /\ PostingsWithin(t)
      BY <2>8, <2>9, <2>10
    <3> HIDE DEF t
    <3>2. QED
      BY <2>10, <2>12, <2>13, <3>1, DocIDTableChecked, Zenon
  <2>15. c[o].wordBytes = e.len /\ c[o].postingsBytes = Bytes(inner)
    BY <2>5
  <2>16. start < at + len
    BY <2>10, <2>11, <2>12
  <2>17. e.len > 0
    BY <2>8, LengthHeld
  <2>18. QED
    BY <2>9, <2>14, <2>15, <2>16, <2>17, Zenon DEF o, start
<1>6. QED
  BY <1>4, <1>5, Zenon DEF CheckIndexTable, ReadAt

(* FileIndexChecker accepts the file. *)
LEMMA FileChecked ==
    ASSUME Arguments, Whole(Contents(file)), TablesShown(Contents(file)), WithinLimits(mi)
    PROVE  CheckFile(file)
<1> DEFINE c == Contents(file)
           D == Data(dt, mi)
           docs == WriteDocTable(dt, FileHeaderSize)
           index == FileHeaderSize + dtbytes
           words == WriteMemIndex(mi, index)
           to == index + membytes
<1>1. c[0] = [doctableBytes |-> dtbytes, indexBytes |-> membytes]
  <2>1. Header \in file /\ Shows(c, file)
    BY DEF Whole
  <2>2. Header.at = 0 /\ Header.data = [doctableBytes |-> dtbytes, indexBytes |-> membytes]
    BY DEF Header, IndexHeader, Seek
  <2> HIDE DEF c
  <2>3. c[Header.at] = Header.data
    BY <2>1, Zenon DEF Shows
  <2>4. QED
    BY <2>2, <2>3
<1>2. /\ IsData(D) /\ \A e \in Elements(mi) : [text |-> e.word] \in D
      /\ HasTable(D, docs, FileHeaderSize, dt, DocFn(dt), index)
      /\ HasTable(D, words, index, mi, WordFn(mi), to)
      /\ index \in Nat
      /\ Shows(c, ToSet(docs)) /\ Shows(c, ToSet(words))
  BY Zenon DEF TablesShown
<1>3. /\ ElementsFit(D, DocFn(dt), Elements(dt)) /\ ElementsFit(D, WordFn(mi), Elements(mi))
      /\ dtbytes \in Nat /\ membytes \in Nat
  BY FileLaid, Zenon DEF Arguments
<1>4. IsDocTable(dt) /\ IsMemIndex(mi)
  BY DEF Arguments
<1>5. /\ to \in Nat /\ FileHeaderSize \in Nat
      /\ dtbytes = index - FileHeaderSize /\ membytes = to - index
  BY <1>2, <1>3 DEF FileHeaderSize
<1>6. FileSize(file) - FileHeaderSize = dtbytes + membytes
  <2>1. FileSize(file) = FileHeaderSize + dtbytes + membytes
    BY DEF Whole
  <2>2. QED
    BY <1>3, <1>5, <2>1
<1> HIDE DEF c, D, docs, words, to
<1>7. CheckDocTable(c, FileHeaderSize, dtbytes)
  <2> HIDE DEF index
  <2>1. QED
    BY <1>2, <1>3, <1>4, <1>5, DocTableChecked, Zenon
<1>8. CheckIndexTable(c, index, membytes)
  <2> HIDE DEF index
  <2>1. QED
    BY <1>2, <1>3, <1>4, <1>5, IndexTableChecked, Zenon
<1>9. c[0].doctableBytes = dtbytes /\ c[0].indexBytes = membytes
  BY <1>1
<1>10. QED
  BY <1>6, <1>7, <1>8, <1>9, Zenon DEF CheckFile, ReadAt, c

-----------------------------------------------------------------------------
(* FileIndexReader, its readers and hw3fsck: what opens as an index when   *)
(* WriteIndex has returned, even if fsync failed, gives back every         *)
(* document and every posting of the tables, any that TablesAssumption     *)
(* admits, and passes hw3fsck unless a word or a list of positions exceeds *)
(* its limits.                                                             *)
THEOREM RoundTrip == Spec => []ReadsBack
<1>1. IInv /\ Arguments => ReadsBack
  <2> SUFFICES ASSUME IInv, Arguments, pc = "returned", OpensAsIndex(file)
               PROVE  /\ WithinLimits(mi) => CheckFile(file)
                      /\ DocsReadBack(Contents(file))
                      /\ WordsReadBack(Contents(file))
    BY DEF ReadsBack
  <2>1. Whole(Contents(file))
    BY WholeIs
  <2>2. TablesShown(Contents(file))
    BY <2>1, TablesAreShown, Zenon
  <2>3. QED
    BY <2>1, <2>2, DocsAreRead, WordsAreRead, FileChecked, Zenon
<1>2. Init => Arguments
  BY InitArguments
<1>3. Arguments /\ [Next]_vars => Arguments'
  BY ArgumentsKept, ArgumentsStay
<1>4. QED
  BY <1>1, <1>2, <1>3, Invariance, PTL DEF Spec
=============================================================================
