---------------------------- MODULE CrawlFileTree ---------------------------
(***************************************************************************)
(* hw2/CrawlFileTree.c with FileParser.c's ReadFileToString: a directory   *)
(* tree is walked, its entries in order, and each text file is read and    *)
(* put into the doctable and the index.                                    *)
(*                                                                         *)
(* The tree is a file system's: inodes, directories that map names to      *)
(* inodes, symbolic links that may lead back up.  Every path is resolved   *)
(* anew by every call that takes one, and other processes may change files *)
(* between the calls.  A document's name is its path, a sequence of names. *)
(***************************************************************************)
EXTENDS MemIndex

CONSTANTS
    Names,        \* the names in directories, in the order of strcmp
    Root,         \* the inode of rootdir
    FileSystems,  \* the file systems there may be to crawl
    MaxLinks,     \* symbolic links a path may go through
    MaxFds,       \* descriptors the process may have
    MaxChanges,   \* bound: changes other processes make
    Garbage       \* characters uninitialised memory may hold

ASSUME MaxFdsAssumption == MaxFds \in Nat

(* An inode is a directory, a file or something else. *)
IsTree(f) ==
    \A n \in DOMAIN f :
        /\ f[n].type = "dir" => /\ f[n] = [type |-> "dir", entries |-> f[n].entries]
                               /\ DOMAIN f[n].entries \subseteq ToSet(Names)
        /\ f[n].type = "file" => /\ f[n] = [type |-> "file", data |-> f[n].data]
                                /\ f[n].data \in Seq(ToSet(f[n].data))

ASSUME FileSystemsAssumption ==
    /\ Names \in Seq(ToSet(Names))
    /\ \A f \in FileSystems : IsTree(f)

VARIABLES
    fs,           \* the inodes: directories [type, entries], files [type, data]
    changes,      \* how often another process has changed them
    pc,           \* where the crawl is
    stack,        \* the activations of HandleDir
    file,         \* ReadFileToString: the file being read
    fds,          \* open descriptors
    leaked,       \* history: reads that failed
    doctable, index,
    seen          \* history: what each document held when it was measured

world  == <<fs, changes>>
tables == <<doctable, index, seen>>
crawlVars == <<world, pc, stack, file, fds, leaked, tables>>

NoFile == [path |-> <<>>, inode |-> Root, size |-> 0, buf |-> <<>>, text |-> <<>>]

CrawlInit ==
    /\ fs \in FileSystems
    /\ changes = 0
    /\ pc = "start"
    /\ stack = <<>>
    /\ file = NoFile
    /\ fds = 0
    /\ leaked = 0
    /\ doctable = NULL
    /\ index = NULL
    /\ seen = <<>>

-----------------------------------------------------------------------------
(* The kernel. *)

IsDir(n)  == n \in DOMAIN fs /\ fs[n].type = "dir"
IsFile(n) == n \in DOMAIN fs /\ fs[n].type = "file"

(* What a name stands for in a directory: an inode, or a link to one. *)
Lookup == [n \in DOMAIN fs \cup {NULL}, name \in ToSet(Names) |->
              IF IsDir(n) /\ name \in DOMAIN fs[n].entries
              THEN fs[n].entries[name] ELSE [inode |-> NULL, link |-> FALSE]]

(* The inode a path leads to, NULL if it leads nowhere or through too many *)
(* links.                                                                  *)
Resolve(path) ==
    LET walk[k \in 0..Len(path)] ==
          IF k = 0 THEN [inode |-> Root, link |-> FALSE] ELSE Lookup[walk[k - 1].inode, path[k]]
    IN  IF Cardinality({k \in 1..Len(path) : walk[k].link}) > MaxLinks THEN NULL
        ELSE walk[Len(path)].inode

(* Another process truncates or extends a file, or removes an entry.  What *)
(* happens after the crawl does not matter to it.                          *)
Change ==
    /\ changes < MaxChanges
    /\ pc \notin {"crawled", "failed", "exited"}
    /\ changes' = changes + 1
    /\ \E n \in DOMAIN fs :
          \/ /\ fs[n].type = "file"
             /\ \/ \E len \in 0..(Len(fs[n].data) - 1) :
                      fs' = [fs EXCEPT ![n].data = SubSeq(@, 1, len)]
                \/ fs' = [fs EXCEPT ![n].data = @ \o @]
          \/ /\ fs[n].type = "dir"
             /\ \E name \in DOMAIN fs[n].entries :
                   fs' = [fs EXCEPT ![n].entries =
                             [m \in DOMAIN @ \ {name} |-> @[m]]]
    /\ UNCHANGED <<pc, stack, file, fds, leaked, tables>>

-----------------------------------------------------------------------------
(* HandleDir. *)

Frame(path) ==
    [path |-> path, unread |-> DOMAIN fs[Resolve(path)].entries, entries |-> <<>>]
Top == Last(stack)
EntryPath == Append(Top.path, Head(Top.entries).name)

(* opendir, and the call of HandleDir. *)
Enter(path) ==
    /\ stack' = Append(stack, Frame(path))
    /\ fds' = fds + 1
    /\ pc' = "scan"

(* CrawlFileTree: rootdir must be a directory that can be opened. *)
CrawlFileTree ==
    /\ pc = "start"
    /\ \/ /\ IsDir(Resolve(<<>>)) /\ fds < MaxFds
          /\ Enter(<<>>)
          /\ doctable' = DocTable_Allocate
          /\ index' = MemIndex_Allocate
       \/ /\ ~IsDir(Resolve(<<>>)) \/ fds >= MaxFds
          /\ pc' = "failed"
          /\ UNCHANGED <<stack, fds, doctable, index>>
    /\ UNCHANGED <<world, file, leaked, seen>>

(* Mutant: lstat, which does not follow links. *)
ReadEntry_Lstat ==
    /\ pc = "scan"
    /\ \E name \in Top.unread, is_dir \in BOOLEAN :
          LET n == Resolve(Append(Top.path, name))
          IN  /\ n # NULL => is_dir = (IsDir(n) /\ ~Lookup[Resolve(Top.path), name].link)
              /\ stack' = [stack EXCEPT ![Len(stack)].unread = @ \ {name},
                                        ![Len(stack)].entries =
                                            Append(@, [name |-> name, is_dir |-> is_dir])]
    /\ UNCHANGED <<world, pc, file, fds, leaked, tables>>

(* First pass: readdir returns an entry, any of those left, and stat tells *)
(* whether it is a directory; when stat fails, is_dir is uninitialised.    *)
ReadEntry ==
    /\ pc = "scan"
    /\ \E name \in Top.unread, is_dir \in BOOLEAN :
          LET n == Resolve(Append(Top.path, name))
          IN  /\ n # NULL => is_dir = IsDir(n)
              /\ stack' = [stack EXCEPT ![Len(stack)].unread = @ \ {name},
                                        ![Len(stack)].entries =
                                            Append(@, [name |-> name, is_dir |-> is_dir])]
    /\ UNCHANGED <<world, pc, file, fds, leaked, tables>>

(* The paths of a directory's entries differ only in the names, and have   *)
(* at most the MAX_PATHNAME_LENGTH characters that strncmp compares.       *)
alphasort(e1, e2) == SelectInSeq(Names, LAMBDA n : n = e1.name)
                       < SelectInSeq(Names, LAMBDA n : n = e2.name)

EndOfDir ==
    /\ pc = "scan" /\ Top.unread = {}
    /\ \E p \in [DOMAIN Top.entries -> DOMAIN Top.entries] :
          LET sorted == [n \in DOMAIN Top.entries |-> Top.entries[p[n]]]
          IN  /\ IsInjective(p)
              /\ \A m, n \in DOMAIN sorted : m < n => ~alphasort(sorted[n], sorted[m])
              /\ stack' = [stack EXCEPT ![Len(stack)].entries = sorted]
    /\ pc' = "entry"
    /\ UNCHANGED <<world, file, fds, leaked, tables>>

(* Second pass: the next entry is a directory, which is entered if it can  *)
(* be opened.                                                              *)
DropEntry == stack' = [stack EXCEPT ![Len(stack)].entries = Tail(@)]

HandleSubdir ==
    /\ pc = "entry" /\ Top.entries # <<>> /\ Head(Top.entries).is_dir
    /\ IF IsDir(Resolve(EntryPath)) /\ fds < MaxFds
       THEN Enter(EntryPath)
       ELSE DropEntry /\ UNCHANGED <<fds, pc>>
    /\ UNCHANGED <<world, file, leaked, tables>>

(* Mutant: the caller goes on without closedir. *)
Leave_NoClosedir ==
    /\ pc = "entry" /\ Top.entries = <<>>
    /\ IF Len(stack) = 1
       THEN pc' = "crawled" /\ stack' = <<>> /\ fds' = fds - 1
       ELSE /\ stack' = [Front(stack) EXCEPT ![Len(stack) - 1].entries = Tail(@)]
            /\ UNCHANGED <<pc, fds>>
    /\ UNCHANGED <<world, file, leaked, tables>>

(* HandleDir returns; its caller calls closedir and goes on. *)
Leave ==
    /\ pc = "entry" /\ Top.entries = <<>>
    /\ fds' = fds - 1
    /\ IF Len(stack) = 1
       THEN pc' = "crawled" /\ stack' = <<>>
       ELSE /\ stack' = [Front(stack) EXCEPT ![Len(stack) - 1].entries = Tail(@)]
            /\ UNCHANGED pc
    /\ UNCHANGED <<world, file, leaked, tables>>

-----------------------------------------------------------------------------
(* HandleFile.  A file that cannot be read or has no words is passed over. *)

Skip == pc' = "entry" /\ DropEntry /\ file' = NoFile

(* stat: the file's size is what is going to be read. *)
StatFile ==
    /\ pc = "entry" /\ Top.entries # <<>> /\ ~Head(Top.entries).is_dir
    /\ LET n == Resolve(EntryPath)
       IN  IF IsFile(n)
           THEN /\ file' = [path |-> EntryPath, inode |-> n, size |-> Len(fs[n].data),
                            buf |-> <<>>, text |-> fs[n].data]
                /\ pc' = "open"
                /\ UNCHANGED stack
           ELSE Skip
    /\ UNCHANGED <<world, fds, leaked, tables>>

OpenFile ==
    /\ pc = "open"
    /\ LET n == Resolve(file.path)
       IN  IF n # NULL /\ fds < MaxFds
           THEN /\ file' = [file EXCEPT !.inode = n]
                /\ fds' = fds + 1
                /\ pc' = "read"
                /\ UNCHANGED stack
           ELSE Skip /\ UNCHANGED fds
    /\ UNCHANGED <<world, leaked, tables>>

LeftToRead == file.size - Len(file.buf)
Available == Len(fs[file.inode].data) - Len(file.buf)

(* read returns some of the bytes left, at most those that are there.      *)
(* (EINTR and EAGAIN change nothing: the loop reads again.)                *)
ReadSome ==
    /\ pc = "read" /\ LeftToRead > 0
    /\ \E n \in 1..LeftToRead :
          /\ n <= Available
          /\ file' = [file EXCEPT !.buf = @ \o [k \in 1..n |-> fs[file.inode].data[Len(file.buf) + k]]]
    /\ UNCHANGED <<world, pc, stack, fds, leaked, tables>>

(* Mutant: the end of the file is taken for an interrupted read. *)
ReadEOF_Retry ==
    /\ pc = "read" /\ LeftToRead > 0 /\ Available <= 0
    /\ UNCHANGED crawlVars

(* read returns 0 although the file had more bytes when it was measured:   *)
(* the rest of buf is what malloc left there.                              *)
ReadEOF ==
    /\ pc = "read" /\ LeftToRead > 0 /\ Available <= 0
    /\ \E rest \in [1..LeftToRead -> Garbage] : file' = [file EXCEPT !.buf = @ \o rest]
    /\ UNCHANGED <<world, pc, stack, fds, leaked, tables>>

(* read fails: the file is passed over, its descriptor stays open. *)
ReadError ==
    /\ pc = "read" /\ LeftToRead > 0
    /\ Skip
    /\ leaked' = leaked + 1
    /\ UNCHANGED <<world, fds, tables>>

(* The loop that moves the words of a file into the index. *)
AddWords(mi, tab, docid) ==
    LET keys == SetToSeq(DOMAIN tab)
        step(m, key) ==
          IF m = Exits THEN Exits
          ELSE MemIndex_AddPostingList(m, tab[key].word, docid, tab[key].positions)
        loop[n \in 0..Len(keys)] == IF n = 0 THEN mi ELSE step(loop[n - 1], keys[n])
    IN  IF tab = Exits THEN Exits ELSE loop[Len(keys)]

(* The file is closed and parsed, and what it has goes into the tables. *)
IndexFile ==
    /\ pc = "read" /\ LeftToRead = 0
    /\ fds' = fds - 1
    /\ \E tab \in {ParseIntoWordPositionsTable(file.buf)},
          dt \in {DocTable_Add(doctable, file.path)} :
          \/ tab = NULL /\ Skip /\ UNCHANGED tables
          \/ /\ tab # NULL
             /\ \E docid \in {DocTable_GetDocID(dt, file.path)} :
                \E mi \in {AddWords(index, tab, docid)} :
                   \/ mi = Exits /\ pc' = "exited" /\ UNCHANGED <<stack, file, tables>>
                   \/ /\ mi # Exits
                      /\ Skip
                      /\ doctable' = dt
                      /\ index' = mi
                      /\ seen' = Extended(seen, docid, [text |-> file.text,
                                                       whole |-> file.buf = file.text])
    /\ UNCHANGED <<world, leaked>>

CrawlStep ==
    \/ CrawlFileTree \/ ReadEntry \/ EndOfDir \/ HandleSubdir \/ Leave
    \/ StatFile \/ OpenFile \/ ReadSome \/ ReadEOF \/ IndexFile
=============================================================================
