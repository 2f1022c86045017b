----------------------------- MODULE IndexFsck ------------------------------
(***************************************************************************)
(* hw3/hw3fsck: a second reading of the index file's layout, written apart *)
(* from the readers, as what it takes for each check to succeed and each   *)
(* of its asserts to hold.  Left out are the checks of single characters   *)
(* and of the checksum, which depend on data that IndexLayout abstracts.   *)
(***************************************************************************)
EXTENDS IndexLayout

kMaxWord      == 8192
kMaxPositions == 1000000

NumBuckets(file, offset) == ReadAt(file, offset).numBuckets
BucketRec(file, offset, b) == ReadAt(file, offset + BucketListSize + BucketRecordSize * b)

(* What it takes for granted of an index: words and lists of positions of  *)
(* less than its limits, and positions in ascending order.                 *)
WithinLimits(mi) ==
    \A e \in Elements(mi) :
       /\ e.len < kMaxWord
       /\ \A p \in Elements(e.postings) :
             /\ Len(p.positions) < kMaxPositions
             /\ \A j \in 2..Len(p.positions) : p.positions[j - 1] < p.positions[j]

(* Each element of the table: its bucket and its position. *)
BucketElements(file, offset) ==
    UNION {LET rec == BucketRec(file, offset, b)
           IN  {[bucket |-> b, at |-> ReadAt(file, rec.position + ElementRecordSize * j).position] :
                   j \in 0..(rec.chainNumElements - 1)} :
              b \in 0..(NumBuckets(file, offset) - 1)}

(* HashTableChecker::Check, but for the elements.  The buckets that are    *)
(* not empty must follow one another; the first one is compared with what  *)
(* the record of bucket 0 says, whether or not bucket 0 is empty.          *)
CheckTable(file, offset, len) ==
    LET n == NumBuckets(file, offset)
        position(b) == BucketRec(file, offset, b).position
        used == {b \in 0..(n - 1) : BucketRec(file, offset, b).chainNumElements > 0}
        previous(b) == LET before == {c \in used : c < b}
                       IN  IF Cardinality(before) = 1 THEN 0 ELSE Max(before)
    IN  /\ n * BucketRecordSize < len
        /\ used # {} => position(0) = offset + BucketListSize + BucketRecordSize * n
        /\ \A b \in used : b # Min(used) => position(previous(b)) < position(b)
        /\ \A e \in BucketElements(file, offset) : e.at <= offset + len

(* DocTableChecker::CheckElement for each element: an fread of no bytes    *)
(* would fail its assert.                                                  *)
CheckDocTable(file, offset, len) ==
    /\ CheckTable(file, offset, len)
    /\ \A e \in BucketElements(file, offset) :
          LET header == ReadAt(file, e.at)
          IN  /\ header.docID % NumBuckets(file, offset) = e.bucket
              /\ header.filenameBytes > 0

CheckDocIDTable(file, offset, len) ==
    /\ CheckTable(file, offset, len)
    /\ \A e \in BucketElements(file, offset) :
          LET header == ReadAt(file, e.at)
              word(j) == ReadAt(file, e.at + DocIDHeaderSize + PositionSize * (j - 1)).position
          IN  /\ header.docID % NumBuckets(file, offset) = e.bucket
              /\ header.numPositions < kMaxPositions
              /\ \A j \in 2..header.numPositions : word(j - 1) < word(j)

CheckIndexTable(file, offset, len) ==
    /\ CheckTable(file, offset, len)
    /\ \A e \in BucketElements(file, offset) :
          LET header == ReadAt(file, e.at)
              nested == e.at + PostingsHeaderSize + header.wordBytes
          IN  /\ header.wordBytes > 0 /\ header.wordBytes < kMaxWord
              /\ nested < offset + len
              /\ CheckDocIDTable(file, nested, header.postingsBytes)

(* FileIndexChecker::CheckFile. *)
CheckFile(ws) ==
    LET file == Contents(ws)
        header == ReadAt(file, 0)
    IN  /\ FileSize(ws) - FileHeaderSize = header.doctableBytes + header.indexBytes
        /\ CheckDocTable(file, FileHeaderSize, header.doctableBytes)
        /\ CheckIndexTable(file, FileHeaderSize + header.doctableBytes, header.indexBytes)
=============================================================================
