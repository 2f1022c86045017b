# A verification of the 333gle search engine

The repository is a search engine built in four steps. `hw1` is a C library (a
linked list and a hash table), `hw2` crawls a directory into an in-memory
inverted index, `hw3` writes that index to a file and answers queries from it,
and `hw4` is a multithreaded web server over the index files. This directory
holds TLA+ models of the parts that carry the logic, the TLC configurations
that check them and TLAPS proofs about them. `PROJECT.json` maps every
definition to the source lines it models, and lists runs, mutants, hazards,
findings and theorems.

## 1. Inventory

| Component | State | Operations | What is hard | What makes it correct |
|---|---|---|---|---|
| `hw1/LinkedList.c` | heap nodes, head, tail, count, one cursor | push, pop, append, slice, sort, free; iterator next/get/remove/rewind | four splice cases, stale cursor, termination of the sort | one doubly linked chain, nothing dangles, stable sort, behaves as a sequence |
| `hw1/HashTable.c` | bucket array of lists, counts, iterator | insert, find, remove, resize; iterator next/get/remove | key width, resize during insertion, removal under an iterator | behaves as a map, each pair visited once |
| `hw2/DocTable.c` | two hash tables | add, look up by id or name | the two tables must stay inverse | a bijection, ids never reused |
| `hw2/FileParser.c` | buffer, word table | read file, split into words, record positions | short reads, last word, file that changes size | every word with its positions, ascending |
| `hw2/CrawlFileTree.c` | recursion over directories | visit entry | links that lead back up, files that change or vanish meanwhile, deterministic order | every readable path once, in order; it ends and closes what it opened |
| `hw2/MemIndex.c` | word -> postings | add a posting list, search | ownership of memory on duplicates, intersection | a result has every query word, ranks add up |
| `hw2/searchshell.c` | the index | crawl, read a line, query, print | long lines, end of input | answers are those of the texts |
| `hw3/filesearchshell.cc`, `hw3/buildfileindex.cc` | - | read a line, query, print; crawl and write | end of input | - |
| `hw3/WriteIndex.cc` | file, stdio buffer, disk | write tables, then the header | partial failure, crash between writes, offsets | a file with a header is complete |
| `hw3/*Reader.cc`, `hw3/Utils.cc` | shared file offset | look up bucket, element, posting | offsets shared between duplicated descriptors | a lookup returns what was written |
| `hw3/QueryProcessor.cc` | readers per index | query | intersection, index without a match | as `MemIndex`, over all indices |
| `hw3/hw3fsck` | - | check a file | - | accepts what `WriteIndex` writes |
| `hw4/ThreadPool.cc` | queue, counter, kill flag, mutex, condition variable, threads | dispatch, worker loop, destructor | lost wake-ups, races, shutdown | each task once, no lost task, destructor returns |
| `hw4/HttpServer.cc`, `HttpConnection.cc`, `ServerSocket.cc` | descriptors, buffers, tasks | accept, dispatch, read, answer, close | descriptors reused while still in use, pipelined requests, clients that are idle or do not read | each client gets its own answers, in order; shutdown is clean |
| request handlers of `hw4/HttpServer.cc`, `HttpUtils.cc`, `FileReader.cc` | - | take a URI apart, decode, escape, read a file, search | order of splitting and decoding, escapes at the end of a string, blank searches | what was typed is what is looked up and shown |
| `hw4/http333d.cc` | - | command line | - | - |

Calls run upwards: `HashTable` uses `LinkedList`; `DocTable` and `MemIndex` use
both; `WriteIndex` reads them; the readers and `QueryProcessor` use the file;
`HttpServer` uses `ThreadPool`, `HttpConnection`, `ServerSocket` and
`QueryProcessor`. Only `hw4` is concurrent. Not part of the system: vendored
gtest, the style checker in `bin`, the documents under `projdocs` (sample data to
index, among them the source of bash, which is by far the largest part of the
repository's lines and which no program here compiles), prebuilt solution
libraries and the one-file exercises.

## 2. Plan

Built so far, in this order: `ThreadPool` (with `TaskPool` and
`ThreadPoolProofs`), `LinkedList` (with `IterableList`), `HashTable` (with
`KeyValueMap`), `HttpServer` (composed with `TaskPool`), `WriteIndex` (over the
pure layout in `IndexLayout`, checked by `IndexFsck`), `SearchShell` (composed of
`CrawlFileTree`, `FileParser`, `DocTable` and `MemIndex`), `QueryProcessor` (over
`IndexLayout`), `ProcessRequest` (composed of `QueryProcessor` and `HttpUtils`).

Proved since, a module of theorems per component: `LinkedListProofs`,
`HashTableProofs`, `HttpServerProofs`, `WriteIndexProofs`, `ProcessRequestProofs` and
`SearchShellProofs`, over the lemmas of `SharedLemmas`. Every safety property of the
passing runs is proved now, except those that section 5 names.

Left: `WriteIndex` and `QueryProcessor` on one file, which `fopen` with `wb+` rewrites
in place.

## 3. Modules

`TaskPool` says what `hw4/ThreadPool.h` promises: tasks start in the order they
were dispatched, once each, at most `NumThreads` at a time; deleting the pool
starts nothing new until the running tasks have finished and then runs what is
left one by one.

`ThreadPool` models `ThreadPool.cc` thread by thread: the mutex and the condition
variable of pthreads (external: spurious wake-ups are possible), the dispatching
customer, the worker loop and the destructor, with one action for each stretch of
code between two points where another thread can run.

`IterableList` is the sequence with a cursor that `LinkedList.h` describes.
`LinkedList` models the C code on a heap: nodes have `payload`, `next` and `prev`,
and unwritten or freed memory holds `Garbage`. Sort and free take one step per
node. `order` and `before` are auxiliary: `Chain` says that the links are those of
`order`, forwards (`Forward`) and backwards (`Backward`), and `PassSoFar` is the loop
invariant of the sort.

`KeyValueMap` is the map with an iterator that `HashTable.h` describes: the order
is free, each pair is visited once. It promises nothing once it is `broken`, which
in the refinement means that a customer has passed a key that does not fit an
`int`. `HashTable` has the bucket array, the chains as
sequences (what `LinkedList` implements) and the iterator as a bucket and a
position. `KeyBits` and `IntBits` scale `HTKey_t` (64) and `int` (32), because the
helper `hasKey` receives its key as an `int`. A failed `Verify333` is mode
`"exited"`. The places of a table are its `Slots` (bucket, position), those that an
iterator has still to visit `Rest`; `Copied` relates them to what a resize has
copied. The header says that the table grows when its load factor "exceeds"
3; the code grows it at 3.

`HttpServer` models `HttpServer::Run`, the task function `HttpServer_ThrFn`,
`HttpConnection` and `ServerSocket`, for any number of clients. The pool is an instance
of `TaskPool`: `Dispatch`, `StartTask`, `TaskReturns`, `AcceptFails`, `DrainPool` and
`Return` each contain the pool's own action. The kernel's descriptor table is part of
the state because the tasks share it: the lowest free number is handed out, and a `read`
or `write` that is blocked stays on its connection (`peer`) when the number is closed. A
`write` returns when all of a response is in the socket; while the client does not read
(`stalled`, which `Stall` changes at any time, also after a half-close) it is blocked,
and fails if the client goes away. A request is a sequence of pieces, of which the last
ends the header; how the text is parsed is left out, except for the boundary and the
`Connection` header, which the control depends on. `asked`, `sent` and `robbed` are
auxiliary: the requests a client has made, in order, the number of pieces sent, for the
bound, and the clients whose pieces another client's task has read. `ProcessThrows` is
the uncaught exception of a file name without a dot.

`IndexLayout` has no state: it gives the fwrites with which `WriteIndex.cc` lays out a
table as a sequence of (offset, length, contents), one operator per function of the
source, and the readers' lookups as operators on the set of writes a file consists of. A
field is a record, not bytes; offsets and lengths are the real ones, from the packed
structs. The loops of the code are recursive functions. The length of a name or a word
goes through `int16_t`, as in lines 465 and 588, and `WriteText` writes as many
characters as that says. Which tables there may be is `TablesAssumption`: texts of 1 to
`INT16_MAX` bytes, for which the conversion keeps the length, positions that fit the low
32 bits, which are what a little-endian build stores of them, and a file whose offsets
fit an `int32_t` (`FitsFile`). `WriteIndex` makes these writes one by one: into stdio's
buffer, from there into the file when the buffer fills up, at an fseek or at fclose, and
onto the disk with fsync. Any call can fail, and the machine can crash anywhere, losing
some write that is not durable. `IInv` says where the header can be (`Headers`) at each
place of the code. The checksum's value is left out: `OpensAsIndex` is what
`FileIndexReader` checks without validation.

`IndexFsck` is what `hw3fsck` demands of a file, as predicates on the same contents:
a reading of the layout independent of the readers, which for instance compares the
first bucket in use with the record of bucket 0 even when bucket 0 is empty.

`QueryProcessor` opens a list of index files that `IndexLayout` writes, answers any
number of queries and is destroyed. What a lookup returns is taken from
`IndexLayout`; how it moves in the file is the sequence of its `runs`, an fseek with
the contiguous freads after it, and each run is a step. The state has the kernel's
offset of each open file, shared by the FILEs that `FileDup` makes, and each FILE's
buffer: a seek inside the buffer puts the offset back to the buffer's end, any other
one drops the buffer, a read refills from wherever the offset is, and a close may
move the offset to where its reader was. `misread` becomes true when a read delivers
other bytes than those at the place its reader means. `RunsInside` says that what is
to be read is inside its file and begins with an fseek, and `HeaderFirst` why the
`FileIndexReader` may do without one; `OpenFiles` lists the FILEs that ought to be
open at each place of the code. FILEs are also descriptors, of
which there are `MaxFds`.

`ProcessRequest` has its two customers. `filesearchshell` makes one `QueryProcessor`,
which validates the index files, and asks it until a `Verify333` ends the process. The
server makes one for each search, without validation and with files of its own, so
that no two threads ever share an offset; `ProcessRequest` follows one thread from
request to request. A request is what a browser makes of a text in the search box or
of a file's name; the browser's encoding is external. `HttpUtils` has the functions
that take the URI apart and escape what is shown, on strings of ASCII codes, with
boost's `split`, `trim` and `replace_all`. What the handlers compute from the URI is
tabulated in `Parsed`, which TLC evaluates once. The program that is built links a
prebuilt `hw4/libhw3/libhw3.a`; the model has the sources of `hw3` in its place.

`SearchShell` is `hw2`'s program. `CrawlFileTree` walks a file system of inodes,
links and directories as the code does, one system call to a step: the pass that
reads and stats the entries, the sort, the pass that recurses, and for a file
`ReadFileToString` with short reads, an early end and failures. Another process may
change the file system between any two steps (`Change`), within a bound. `FileParser`
has the scan of a text into words as functions (`InsertContent` folds over the
characters), `DocTable` and `MemIndex` the two tables; none of these has state of its
own. Where the code leaves an order open, so does the model: `EndOfDir` takes any
permutation that `qsort` may make, and `MemIndex_Search` is the set of the results that
the order of the postings and of equal ranks allow. Words that hash alike are words of one
key, as in the code, which does not compare them (`Colliding`). The tables of `hw2` are
maps: `hw2` links the prebuilt `hw2/libhw1/libhw1.a`, not the sources of `hw1`, so
the key width of `hw1/HashTable.c` is not carried over. At the end of its input the
shell goes on with the contents of an uninitialised buffer (`AnswerGarbage`).
`IdsExact`, a conjunct of `Complete`, is the part that is about `DocTable` alone.

The `MC...` modules only add symmetry sets, the payloads' keys, and the tables, file
systems and queries of the instances.

## 4. Runs

| Run | Shows | Bounds |
|---|---|---|
| `thread_pool` | `IInv` (with `TypeOK` and `RunningCount` among its conjuncts) and the safety properties of `ThreadPool`, that it implements `TaskPool`, and, with fairness, that every task finishes and a deletion returns | 3 threads, 4 tasks: more tasks than threads, so queueing, idle workers and left-over tasks all occur |
| `linked_list` | `IInv`, `Chain` (the iterator and the sort cursor included), `SortedStably`, refinement of `IterableList`, sort and free terminate | 4 nodes: a removal has each of its four cases with a neighbour on both sides; two payloads compare equal |
| `hash_table` | `IInv`, placement, count, load bound, one level of resizing only, a resize ends, refinement of `KeyValueMap` | keys 0, 1, 9, 10 collide in 1, 2 and 9 buckets; the fourth insertion into one bucket resizes; with keys of 8 bits and an `int` of 5, 33 truncates to 1 and 20 sign-extends to 244 |
| `hash_table_find` | **violated**: `FindsStoredKeys` | as above |
| `http_server` | `IInv`, no descriptor leaks, a clean return | 3 clients, 2 threads, 3 descriptors of which one listens: numbers run out and are reused |
| `http_server_live` | answers in order, none lost, none after `Connection: close`; connections are served to their end, the server returns, once the clients stop sending and read what they are sent | 2 clients, 3 pieces in every split, 1 thread: one client waits in the queue; a client may stop and resume reading at any point |
| `http_server_own` | **violated**: `OwnClient` | 2 clients, 2 threads |
| `write_index` | `IInv`, the writes tile the file without gap or overlap, the readers find back what was written, `hw3fsck` accepts it, only complete files open (as long as fsync succeeds), failures unlink the file, `WriteIndex` ends | 8 doctables (0 to 3 documents, 1 or 2 buckets) with 5 indices: empty, chains of 2, two words with one hash, nested tables of 1 and 3 documents, a word of `INT16_MAX` letters |
| `write_index_last` | **violated**: `HeaderLast` | as above |
| `query` | the words typed are the words looked up and the page shows them, files are found under their names, the processes end only for cause and no text ends the server; FILEs that share an offset read their own bytes, exactly the right descriptors are open everywhere, answers are those of the in-memory tables, every query is answered | 1 to 3 index files (one without a header), buffers of 32 bytes for files of up to some 300, so that runs cross buffers; 12 queries in any sequence, with a missing word in each place; texts of up to 2 of 9 characters that mean something in a URL or in HTML, of 3 of 4 and two longer ones, and 11 file names; descriptors for two index files but not for three |
| `search` | index, document ids and answers are those of the texts, every file that does not change is indexed, the crawl ends and leaves only what a failed read leaves open | file systems with a link to a parent, two names of one file, a file that is empty or not ASCII; one change and one failure at any point; a line that leaves its newline and one that leaves more to the next `fgets` |
| `search_last_word` | **violated**: `EveryWordIndexed` | as above |

Deadlock checking is off where the system may stop: the HTTP server when it has returned
or exited or when all clients are idle or do not read, the hash table after a failed
`Verify333`, `WriteIndex` when it has returned, `filesearchshell` and the server when
their process has ended.

Every property has a mutant in `PROJECT.json`, a plausible slip in the code
(`..._HalfSplice`, `..._NoSignal`, `..._NoPosition`), defined before the operator it
changes, that TLC finds to violate the property.

### Findings

* `hash_table_find`: `hasKey` (HashTable.c:467) takes its 64-bit key as an `int`.
  Looking up a key that is equal to a stored one modulo 2^32 returns the other
  key's pair; a key of 2^31 or more that sign-extends to another value is never
  found, although it is stored, and is inserted again by each insertion. A program
  with 64-bit FNV hashes as keys, as in `hw2`, would meet it with these sources;
  `hw2` links a prebuilt library instead.
* `http_server_own`: when reading a request fails, `HttpServer_ThrFn` closes the
  descriptor and then still writes a response to it and closes it again. Between
  the first close and the write the main thread may accept another client, on the
  same number, and that client receives the answer. A third client can be hit the
  same way while its task reads: the late second close frees its number, the next
  client gets it, and one task reads the pieces meant for another. `AnswersInOrder`
  is therefore claimed of clients that are not in `robbed`; without that exception
  TLC finds a counterexample with 3 clients, 3 threads and 2 descriptors.
* `write_index_last`: the fsync that should flush the header comes without an fflush.
  It makes the tables durable, which is what `TablesFirst` needs, but the header
  itself is still in stdio's buffer. If the fsync fails, `Verify333` exits, and
  `exit` writes the header over tables that are not durable; a crash may then leave
  a file that opens although a part of it is missing, which the comment on
  `WriteHeader` excludes.
* `search_last_word`: `InsertContent` (FileParser.c:234) leaves its loop at the end of
  the text without adding the word it is in. A file that ends in a letter loses its
  last word.

Seen on the way, without a run: `WriteIndex` counts the header twice and returns 16 more
than the size of the file, which `WriteIndex.h` says it returns; `filesearchshell` takes
the end of its input for a query without words, on which `Verify333` exits, where its
comment asks for an orderly end, and `searchshell` does not stop there at all; a word of
32768 letters or more does not fit the index file's `int16_t` length; `LLIterator_Get`
stores an 8-byte payload into a 4-byte struct on the stack (WriteIndex.cc:548), which
only works as far as the build lays out the stack to bear it; `hw3fsck` rejects an index
with a name that is not ASCII, which the crawler accepts; the suffix of a file whose
name starts with its only dot loses its last letter (HttpServer.cc:212 passes a length
for an end), so that `.css` is sent as `text/plain`; the links of a result page are not
encoded, so that a document with `%`, `+` or `?` in its name is not found through its
link; `test_httputils.cc:100` expects `FileReader` to call `IsPathSafe`, which it does
not.

### Fairness

`ThreadPool` assumes strong fairness of the owner's steps and of each worker's: a
thread that can again and again take the mutex takes it at last, which weak fairness
would not give and which the scheduler and the futex queue do. `HttpServer` assumes
weak fairness of the main thread, of each task and of the pool's starting of tasks
(what `TaskPool` promises). Tasks are assumed to return in `ThreadPool`; in `HttpServer`
they are modelled, and nothing in the code times out a client. A task waits in `read()`
for as long as its client is silent, and in `write()` (HttpUtils.cc:213) for as long as
its client does not read; either way it keeps its thread, and the destructor, which
waits for the threads, waits with it. No fairness of clients is assumed. Instead
`ServedToTheEnd` has an antecedent, `<>[]Quiet`: from some point on every client is gone,
or has not been accepted, or has stopped sending and reads what it is sent. Without its
second half TLC finds a counterexample, a client that half-closes its connection and
does not read.

`LinkedList`, `HashTable`, `WriteIndex` and `ProcessRequest` assume only that a call
that runs keeps running (weak fairness of `SortLoop` and `FreeLoop`, `ResizeLoop`,
`Step`, `Program`), `SearchShell` the same of its two parts, `Crawl` and `AnswerLine`:
nobody has to ask anything, and other processes need not act.

## 5. Proofs

Every theorem holds for all values of the constants that satisfy the named
`ASSUME`s, which TLC evaluates in the runs. They say what the code, the language or the
machine gives:

* at least one thread, one bucket, one index file on a command line and one byte in a
  buffer, descriptors that are numbers (`NumThreadsAssumption`, `ServerAssumption`,
  `BucketsAssumption`, `IndexListsAssumption`, `BufSizeAssumption`, `MaxFdsAssumption`);
* a finite heap, comparators that compare a key (`NodesAssumption`, `KeyAssumption`),
  unsigned keys no narrower than an `int` (`WidthAssumption`);
* markers such as `NULL`, `Garbage`, `NoTask` and `NoKey` are not also values
  (`NoTaskAssumption`, `PayloadsAssumption`, `NoKeyAssumption`, `NullAssumption`);
* tables are what `HashTable.c`, `DocTable.c` and `MemIndex.c` can make and what an index
  file can hold: texts of at most 32767 bytes, positions and offsets below 2^31
  (`TablesAssumption`, `IndexTablesAssumption`);
* a word has the same hash and the same length in a query and in an index
  (`QueriesAssumption`, `WordsAssumption`);
* directories, files and lines of input are finite sequences or functions
  (`FileSystemsAssumption`, `InputAssumption`).

The bounds on inputs (`MaxElements`, `MaxSends`, `MaxFds`, `MaxChanges`, `Nodes`) are
constants too, so the theorems hold for all of them. Each module's `IInv` is checked by
a run as well; the inductive invariants of `ProcessRequestProofs` and
`SearchShellProofs` are local to the proofs.

What a recursive function computes is proved by induction over its argument all the
same. `SharedLemmas` has it as the least number at which a claim fails (`LeastNat`), and
`Induction` for a claim given as the set of the numbers that have it; `RecursionExists`
says that a recursion over `0..N` has a solution, which the definition by `CHOOSE` then is.

**ThreadPoolProofs**, for any number of threads and tasks. `InductiveInvariant`:
`IInv` adds to the type invariant what ties a thread's program counter to the shared
state: who holds the mutex, that the threads counted as running are those past their
start, that a worker sleeps only with the queue empty or a wake-up on its way, and
that every dispatched task is in exactly one of the queue, a thread's hands and the
finished ones. None of the properties is inductive by itself: `WorkConserving`, for
instance, needs to know which steps happen under the mutex. From it `TypeCorrect`,
`DataRaceFreedom`, `DestructorJoinsAll`, `NoLostWakeup`, `ExactlyOnce`,
`KillStopsWorkers`, and `Refinement`: every step is a step of `TaskPool` or leaves its
variables alone.

**LinkedListProofs**, for any finite heap. `Invariance` and `ChainIntact`: two lemmas
say what linking a node into the chain and unlinking one from it do to `Forward` and
`Backward`, at either end and in the middle; every push, append, pop, removal and
slice is an instance of one of them. `PassSoFar` is needed because a sort may only
stop after a pass without a swap. `Refinement`: `IterableList` is implemented, the
sort included: each of its steps exchanges two neighbours that are out of order, or
nothing, and it ends with no such neighbours left. `StableSort` (`SortedStably`): equal
payloads keep their order, because the swap of two that differ does not move any payload
past one that is equal to it; the invariant is `StableSoFar`.

**HashTableProofs**, for any keys, sizes and numbers of elements. A change to one chain
is an `Update`; the lemmas about it say which slots, pairs and counts change, so that
each operation is reasoned about once, as the movement of slots it causes. `IInv` has,
besides `Placed` and `LoadBounded`, the phases of a resize, `Copied` (the new table
has the pairs the resize has passed and no more, which bounds its load) and
`KeysDistinct`, which only holds while every key fits an `int`. `PairsPlaced` and
`LoadIsBounded` hold with any keys; `Refinement` shows that the table is a
`KeyValueMap` until a key does not fit, iteration included: `Advance` reaches the
first place ahead, and a removal under the iterator leaves the set of places ahead as
it was.

**HttpServerProofs**, for any numbers of clients, threads and descriptors.
`NoLeaks`, `ReturnsClean`: `Bookkeeping` says who owns a descriptor. A number that is
open as a connection belongs to one task that has still to close it, or is the
one about to be dispatched; a task that has closed its number once, and will do so
again, owns nothing, and may hit another's number. That is why ownership goes by
connection and not by number. `InOrderAnswers`: the pieces of a client, those in the
socket and those in `buffer_`, follow one another without a gap behind the request being
served, and the answers are numbered like the requests before them. That is claimed of
clients that are `Served`: connected, or still about to get a `write` that was called
while they were; `Peers` is what a blocked call is on. `Invariance` has the conjunction.
The proofs use frame lemmas for clients that a step is not about.

**WriteIndexProofs**, for the tables of `TablesAssumption`, with any number of buckets,
chains, postings and positions. `Layout`: by induction over the two nested loops, the
records fill the bytes behind their table's start and the items the bytes behind the
records; the layout lemmas are in `SharedLemmas`, because the readers need them too.
`OffsetsFit`: no offset of such a file leaves an `int32_t`, so the code's sums are the
model's. `Invariance` and `CrashSafety`: the header is only in the buffer until fclose,
and the fsync before it made the tables durable; so a file that has a header has the
tables, unless fsync failed. `RoundTrip`: each lookup of the readers follows the
positions in the file to the writes of what it looks for and to nothing else, also past
elements of other keys, and each check of `hw3fsck` is met; `ReadsBack` is proved in
these parts. None of this holds of a table with a word of 32768 letters or more, whose
length `int16_t` changes: see section 6.

**ProcessRequestProofs**, for any lists of index files that `WriteIndex` lays out, buffer
sizes, queries and requests, in either program. `DescriptorsBounded`: the open FILEs are
exactly `OpenFiles`, whose number is counted (`Kept`). `ReadsUndisturbed`, without any
hypothesis: a FILE is ready when the shared offset is at the end of its buffer. An
fseek makes it so whatever the other FILEs have done, and a read from a FILE that is
ready returns the bytes at its position; the FILE that does not seek is the only one to
read until it is done, so it stays ready (`Undisturbed`). It needs `RunsInside`, that what
a lookup reads is in the file, which follows from the layout, and so where the query is
(`Located`). `Steady` is the conjunction with `Bounded`, and inductive; `TypeCorrect` is
read off it. `AnswersCorrect`: `Matched` says which documents of the current index file
have the words so far and with which ranks, `Gathered` that the results are those of the
index files before; `ListCombine` narrows the one, the sort puts the other in order.

**SearchShellProofs**, for any file systems, changes, failures and inputs.
`DescriptorsReturned`: the descriptors are the activations of `HandleDir`, the file
being read and the reads that failed. `IdsInverse` (`IdsExact`, a conjunct of
`Complete`): the ids are 1, 2, ... without a gap and the two tables of `DocTable` are
inverse, also when two paths hash alike, in which case the second gets no id of its own.
`DocumentOrder` (`OrderExact`, another): the path of an activation comes after those of
the documents and before those of what is left to visit. `IndexCorrect`: the loop of
`InsertContent` has added the words that ended before it, each at its position, and
`AddWords` moves them into the index key by key. It is about documents that are whole
(`Whole`): read to the end that `stat` gave, and the only ones with their hash.
`ShellAnswers`: the ranks of what is left after each word are the sums of the
occurrences. The inductive invariant is `CInv`, the conjunction `Counted`, `Ids`, `Walk`
and `Indexed` of what the four theorems about the crawl need; `Answered` adds the query.

Only model-checked, and why:

* liveness (`EveryTaskFinishes`, `ImplementsFairTaskPool`, `LoopsEnd`, `ResizeEnds`,
  `ServedToTheEnd`, `Ends`, `Responds`, `CrawlEnds`): the prover does not reach fairness;
* `RequestsUnderstood`: it compares what a dozen functions make of strings, character by
  character, with what was typed, and is a property of those functions alone, which the
  run evaluates on the texts that its bounds list;
* the last conjunct of `Complete`, that no file is left out: it holds when nothing
  changes and nothing fails, and relates the whole recursion to all paths of a file
  system that links make cyclic.

## 6. What is not modelled

* Running out of memory: `malloc` succeeds in every model.
* Addresses, names, log output, the text of requests and responses.
* Descriptors other than sockets: files opened while a request is processed also
  take numbers, and could be hit by a late `close` in the same way as sockets.
* The functions that only release memory (`DocTable_Free`, `MemIndex_Free`).
* The value of the checksum, byte order, and single characters, except letters,
  case, NUL and non-ASCII bytes in `FileParser`.
* Index files that change while they are open for queries.
* Tables that an index file cannot hold. `IndexLayout` narrows the length of a text as
  the code does, but a word of more than 32767 letters, or a file of 2 GiB, is outside
  `TablesAssumption`, and neither the runs nor the theorems say anything of it. The code
  promises nothing either: it writes the postings of such a word over what is before
  them (WriteIndex.cc:588).
* Paths of more than 1024 characters, the `MAX_PATHNAME_LENGTH` of `CrawlFileTree.c`, as
  far as its `alphasort` compares: longer ones could come in any order.
* The wording of pages. Characters outside 32..127, which `URIDecode` leaves as they
  are escaped, are not typed; `IsPathSafe`, `GetRandPort` and `ConnectToServer`, which
  no code of the server calls, are left out.
* Everything listed as `not_modelled` in `PROJECT.json`, with its reason.
