---------------------------- MODULE IndexLayout -----------------------------
(***************************************************************************)
(* The layout of an index file: the fwrites with which hw3/WriteIndex.cc   *)
(* produces it, with their offsets, and how hw3's readers find their way   *)
(* in it.                                                                  *)
(*                                                                         *)
(* A table is a sequence of chains, bucket i at position i + 1.  A chain   *)
(* is a sequence of elements; an element has a key and, in the doctable, a *)
(* name and its length; in the index, a word, its length and a table of    *)
(* postings; in such a table, a sequence of positions.                     *)
(***************************************************************************)
EXTENDS Integers, Sequences, SequencesExt, FiniteSetsExt

(* sizeof the packed structs of LayoutStructs.h *)
FileHeaderSize     == 16
BucketListSize     == 4
BucketRecordSize   == 8
ElementRecordSize  == 4
DoctableHeaderSize == 10
PostingsHeaderSize == 6
DocIDHeaderSize    == 12
PositionSize       == 4

(* In the file the length of a text is an int16_t, other lengths and the   *)
(* offsets are an int32_t; keys are uint64_t there as in memory.           *)
INT16_MAX == 32767
INT32_MAX == 2147483647

(* The int16_t a length becomes. *)
int16_t(n) == ((n + 32768) % 65536) - 32768

(* An fwrite of `len' bytes at offset `at'; after an fseek, or right after *)
(* the previous one.                                                       *)
Seek(at, len, data)  == [at |-> at, len |-> len, seek |-> TRUE, data |-> data]
Write(at, len, data) == [at |-> at, len |-> len, seek |-> FALSE, data |-> data]

(* The elements of a table. *)
Elements(table) == UNION {ToSet(table[b]) : b \in DOMAIN table}

(* What HashTable.c keeps of a table: there are buckets, and each element  *)
(* is in that of its key.                                                  *)
IsTable(table) ==
    /\ table \in Seq(Seq(Elements(table)))
    /\ Len(table) > 0
    /\ \A b \in DOMAIN table : \A e \in ToSet(table[b]) :
          e.key \in Nat /\ e.key % Len(table) = b - 1

KeysDiffer(table) ==
    \A b \in DOMAIN table : \A j, k \in DOMAIN table[b] :
        table[b][j].key = table[b][k].key => j = k

WordsDiffer(table) ==
    \A b \in DOMAIN table : \A j, k \in DOMAIN table[b] :
        table[b][j].word = table[b][k].word => j = k

(* The tables DocTable.c and MemIndex.c make: a document is in each once,  *)
(* and neither a name nor a word is empty.  Left out are tables that they  *)
(* may also make, with a length or a position too large for the file.      *)
IsDocTable(table) ==
    /\ IsTable(table)
    /\ KeysDiffer(table)
    /\ \A e \in Elements(table) : e.len \in 1..INT16_MAX

IsPostings(table) ==
    /\ IsTable(table)
    /\ KeysDiffer(table)
    /\ \A e \in Elements(table) : e.positions \in Seq(0..INT32_MAX)

IsMemIndex(table) ==
    /\ IsTable(table)
    /\ WordsDiffer(table)
    /\ \A e \in Elements(table) : e.len \in 1..INT16_MAX /\ IsPostings(e.postings)

(* What the functions return: the bytes they wrote. *)
Bytes(ws) ==
    LET sum[n \in 0..Len(ws)] == IF n = 0 THEN 0 ELSE sum[n - 1] + ws[n].len
    IN  sum[Len(ws)]

-----------------------------------------------------------------------------
(* The loop over a name or a word: it writes as many of the len characters *)
(* as the int16_t n says, none if that is negative.                        *)
WriteText(at, n, text, len) ==
    IF n <= 0 THEN <<>>
    ELSE <<Write(at, n, [text |-> IF n = len THEN text ELSE [prefix |-> text, bytes |-> n]])>>

WriteDocidToDocnameFn(at, e) ==
    LET filenamelen == int16_t(e.len)
    IN  <<Seek(at, DoctableHeaderSize, [docID |-> e.key, filenameBytes |-> filenamelen])>>
        \o WriteText(at + DoctableHeaderSize, filenamelen, e.name, e.len)

WriteDocidToPositionListFn(at, e) ==
    <<Seek(at, DocIDHeaderSize, [docID |-> e.key, numPositions |-> Len(e.positions)])>>
    \o [i \in 1..Len(e.positions) |->
           Write(at + DocIDHeaderSize + PositionSize * (i - 1), PositionSize,
                 [position |-> e.positions[i]])]

(* Mutant: the items are counted from the second record. *)
DirectoryStart_NoRecords(at, size, n) ==
    [recordPos |-> at, itemPos |-> at + size, ws |-> <<>>]

DirectoryStart(at, size, n) ==
    [recordPos |-> at, itemPos |-> at + size * n, ws |-> <<>>]

(* The loop of both WriteHTBucket and WriteHashTable: n records of one     *)
(* size and, behind them, n items, item m written right after its record.  *)
(* data[m] and item[m] map the item's position to what the record says and *)
(* to the writes of the item.                                              *)
Directory(at, size, n, data, item) ==
    LET loop[m \in 0..n] ==
          IF m = 0 THEN DirectoryStart(at, size, n)
          ELSE LET s == loop[m - 1]
               IN  [recordPos |-> s.recordPos + size,
                    itemPos   |-> s.itemPos + Bytes(item[m][s.itemPos]),
                    ws |-> s.ws \o <<Seek(s.recordPos, size, data[m][s.itemPos])>>
                                \o item[m][s.itemPos]]
    IN  loop[n].ws

(* The parameter fn stands for the WriteElementFn pointer of the code: it  *)
(* maps an element and an offset to the writes of that element.            *)

(* The element positions of a bucket, and the elements. *)
WriteHTBucket(at, chain, fn) ==
    Directory(at, ElementRecordSize, Len(chain),
              [m \in 1..Len(chain) |-> [o \in Nat |-> [position |-> o]]],
              [m \in 1..Len(chain) |-> fn[chain[m]]])

(* Mutant: an empty bucket has no position. *)
WriteHTBucketRecord_NoPosition(numElts, bucketPos) ==
    [chainNumElements |-> numElts, position |-> IF numElts = 0 THEN 0 ELSE bucketPos]

WriteHTBucketRecord(numElts, bucketPos) ==
    [chainNumElements |-> numElts, position |-> bucketPos]

(* The number of buckets, a record for each bucket, and the buckets. *)
WriteHashTable(at, table, fn) ==
    <<Seek(at, BucketListSize, [numBuckets |-> Len(table)])>>
    \o Directory(at + BucketListSize, BucketRecordSize, Len(table),
                 [m \in 1..Len(table) |-> [o \in Nat |-> WriteHTBucketRecord(Len(table[m]), o)]],
                 [m \in 1..Len(table) |-> [o \in Nat |-> WriteHTBucket(o, table[m], fn)]])

(* The nested table goes first, then the header with its size, then the    *)
(* word.                                                                   *)
WriteWordToPostingsFn(at, e) ==
    LET wordBytes == int16_t(e.len)
        nested == WriteHashTable(at + PostingsHeaderSize + wordBytes, e.postings,
                     [p \in Elements(e.postings) |-> [o \in Nat |-> WriteDocidToPositionListFn(o, p)]])
    IN  nested
        \o <<Seek(at, PostingsHeaderSize, [wordBytes |-> wordBytes, postingsBytes |-> Bytes(nested)])>>
        \o WriteText(at + PostingsHeaderSize, wordBytes, e.word, e.len)

WriteDocTable(dt, at) ==
    WriteHashTable(at, dt, [e \in Elements(dt) |-> [o \in Nat |-> WriteDocidToDocnameFn(o, e)]])

WriteMemIndex(mi, at) ==
    WriteHashTable(at, mi, [e \in Elements(mi) |-> [o \in Nat |-> WriteWordToPostingsFn(o, e)]])

(* All offsets of an index file, and what WriteIndex returns, which counts *)
(* the header twice, fit in an int32_t: the sums above are then exact.     *)
FitsFile(dt, mi) ==
    LET docs == WriteDocTable(dt, FileHeaderSize)
        words == WriteMemIndex(mi, FileHeaderSize + Bytes(docs))
    IN  2 * FileHeaderSize + Bytes(docs) + Bytes(words) <= INT32_MAX

(* The header; its checksum, that of the tables, is left out. *)
IndexHeader(dtbytes, membytes) ==
    Seek(0, FileHeaderSize, [doctableBytes |-> dtbytes, indexBytes |-> membytes])

-----------------------------------------------------------------------------
(* The readers.  To them a file is what has been written at each offset.   *)
Contents(ws) == [at \in {x.at : x \in ws} |-> (CHOOSE x \in ws : x.at = at).data]

NotFound == [found |-> FALSE]

(* fseek and fread of the struct at an offset. *)
ReadAt(file, at) == file[at]

(* HashTableReader: the positions of the elements of the key's bucket. *)
LookupElementPositions(file, offset, key) ==
    LET n == ReadAt(file, offset).numBuckets
        record == ReadAt(file, offset + BucketListSize + BucketRecordSize * (key % n))
    IN  [i \in 1..record.chainNumElements |->
            ReadAt(file, record.position + ElementRecordSize * (i - 1)).position]

(* The first of these elements that is a match, 0 if there is none. *)
FirstMatch(elements, matches) ==
    LET i == SelectInSeq(elements, LAMBDA p : p \in matches)
    IN  IF i = 0 THEN 0 ELSE elements[i]

(* Which of these elements is that of a document, or of a word. *)
DocMatch(file, elements, docid) ==
    FirstMatch(elements, {p \in ToSet(elements) : ReadAt(file, p).docID = docid})

WordMatch(file, elements, e) ==
    FirstMatch(elements, {p \in ToSet(elements) :
                            /\ ReadAt(file, p).wordBytes = e.len
                            /\ ReadAt(file, p + PostingsHeaderSize).text = e.word})

DocTable_LookupDocID(file, offset, docid) ==
    LET at == DocMatch(file, LookupElementPositions(file, offset, docid), docid)
    IN  IF at = 0 THEN NotFound
        ELSE [found |-> TRUE, name |-> ReadAt(file, at + DoctableHeaderSize).text]

(* The offset of the word's docID table. *)
LookupWord(file, offset, e) ==
    LET at == WordMatch(file, LookupElementPositions(file, offset, e.key), e)
    IN  IF at = 0 THEN NotFound
        ELSE [found |-> TRUE, table |-> at + PostingsHeaderSize + ReadAt(file, at).wordBytes]

DocIDTable_LookupDocID(file, offset, docid) ==
    LET at == DocMatch(file, LookupElementPositions(file, offset, docid), docid)
    IN  IF at = 0 THEN NotFound
        ELSE [found |-> TRUE,
              positions |-> [i \in 1..ReadAt(file, at).numPositions |->
                 ReadAt(file, at + DocIDHeaderSize + PositionSize * (i - 1)).position]]

(* The headers of all elements of a docID table, bucket by bucket. *)
GetDocIDList(file, offset) ==
    LET n == ReadAt(file, offset).numBuckets
        record(b) == ReadAt(file, offset + BucketListSize + BucketRecordSize * b)
        header(r, j) == ReadAt(file, ReadAt(file, r.position + j * ElementRecordSize).position)
        bucket(r) == [j \in 1..r.chainNumElements |-> header(r, j - 1)]
    IN  FlattenSeq([b \in 1..n |-> bucket(record(b - 1))])

(* FileIndexReader: the magic number, and a size that fits the header. *)
FileSize(ws) == Max({0} \cup {x.at + x.len : x \in ws})

OpensAsIndex(ws) ==
    \E header \in ws :
       /\ header.at = 0
       /\ FileSize(ws) = FileHeaderSize + header.data.doctableBytes + header.data.indexBytes

-----------------------------------------------------------------------------
(* How the readers move in the file: a run is an fseek and the freads that *)
(* follow it, which are contiguous, up to the next fseek.                  *)
Run(at, len) == [seek |-> TRUE, at |-> at, len |-> len]

(* Mutant: the constructor reads where the stream happens to be. *)
HeaderRuns_NoSeek(offset) == <<[seek |-> FALSE, at |-> offset, len |-> BucketListSize]>>

(* The constructor of HashTableReader. *)
HeaderRuns(offset) == <<Run(offset, BucketListSize)>>

ElementPositionsRuns(file, offset, key) ==
    LET at == offset + BucketListSize
                 + BucketRecordSize * (key % ReadAt(file, offset).numBuckets)
        record == ReadAt(file, at)
    IN  <<Run(at, BucketRecordSize),
          Run(record.position, ElementRecordSize * record.chainNumElements)>>

(* The elements that are looked at: all of them, or up to the match. *)
UpTo(elements, at) ==
    IF at = 0 THEN elements
    ELSE SubSeq(elements, 1, SelectInSeq(elements, LAMBDA p : p = at))

(* The headers of these elements; the name of a document that is found,    *)
(* each word of the right length.                                          *)
DocTableRuns(file, elements, docid) ==
    LET match == DocMatch(file, elements, docid)
        seen == UpTo(elements, match)
        name(p) == IF p = match THEN ReadAt(file, p).filenameBytes ELSE 0
    IN  [n \in DOMAIN seen |-> Run(seen[n], DoctableHeaderSize + name(seen[n]))]

LookupWordRuns(file, elements, e) ==
    LET seen == UpTo(elements, WordMatch(file, elements, e))
        word(p) == IF ReadAt(file, p).wordBytes = e.len THEN e.len ELSE 0
    IN  [n \in DOMAIN seen |-> Run(seen[n], PostingsHeaderSize + word(seen[n]))]

GetDocIDListRuns(file, offset) ==
    LET at(b) == offset + BucketListSize + BucketRecordSize * (b - 1)
        position(b, j) == ReadAt(file, at(b)).position + ElementRecordSize * (j - 1)
        element(p) == <<Run(p, ElementRecordSize), Run(ReadAt(file, p).position, DocIDHeaderSize)>>
        bucket(b) == [j \in 1..ReadAt(file, at(b)).chainNumElements |-> element(position(b, j))]
    IN  FlattenSeq([b \in 1..ReadAt(file, offset).numBuckets |->
                       FlattenSeq(<<<<Run(at(b), BucketRecordSize)>>>> \o bucket(b))])
=============================================================================
