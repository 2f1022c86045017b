----------------------------- MODULE LinkedList -----------------------------
(***************************************************************************)
(* hw1/LinkedList.c: a doubly linked list of heap nodes, with one list and *)
(* at most one iterator on it.  Memory that is not allocated, or allocated *)
(* and not yet written, holds Garbage, so that a use after free or of an   *)
(* uninitialised field shows.                                              *)
(*                                                                         *)
(* A call is one action, except the two loops: LinkedList_Sort's compare-  *)
(* and-swap and LinkedList_Free's sweep take one step per node.  Customers *)
(* respect LinkedList.h: no LinkedList_* mutation while an iterator is     *)
(* outstanding, no Next, Get or Remove on an iterator past the end.        *)
(***************************************************************************)
EXTENDS Integers, Sequences, SequencesExt, FiniteSets

CONSTANTS
    Nodes,       \* addresses malloc can return; also the bound on the length
    NULL,        \* the null pointer
    Garbage,     \* the content of memory nobody has written
    Payloads, Key, NoPayload    \* as in IterableList

ASSUME NodesAssumption ==
    /\ IsFiniteSet(Nodes)
    /\ NULL \notin Nodes /\ Garbage \notin Nodes /\ NULL # Garbage
ASSUME PayloadsAssumption == Garbage \notin Payloads /\ NoPayload \notin Payloads
ASSUME KeyAssumption == Key \in [Payloads -> Int]

VARIABLES
    payload, next, prev,         \* the nodes' fields
    live,                        \* the nodes that are allocated
    head, tail, num_elements,    \* the LinkedList record
    iter,                        \* the iterator's node, NULL if past the end
    mode,                        \* as in IterableList
    curnode, swapped, ascending, \* LinkedList_Sort's locals
    out,                         \* what the last call returned, as in IterableList
    order,                       \* auxiliary: the nodes, front to back
    before                       \* auxiliary: the payloads when sorting began

fields   == <<payload, next, prev, live>>
record   == <<head, tail, num_elements>>
sortVars == <<curnode, swapped, ascending, before>>
vars     == <<fields, record, iter, mode, sortVars, out, order>>

(* The abstract list. *)
Contents == [k \in 1..Len(order) |-> payload[order[k]]]
Position == IF iter = NULL THEN 0 ELSE CHOOSE k \in DOMAIN order : order[k] = iter

Abstract == INSTANCE IterableList WITH
    seq <- Contents, pos <- Position, up <- ascending

Void == Abstract!Void
Ret(b) == Abstract!Ret(b)
Val(p) == Abstract!Val(p)
Freed(b, p) == Abstract!Freed(b, p)

Init ==
    /\ payload = [n \in Nodes |-> Garbage]
    /\ next = [n \in Nodes |-> Garbage]
    /\ prev = [n \in Nodes |-> Garbage]
    /\ live = {}
    /\ head = NULL
    /\ tail = NULL
    /\ num_elements = 0
    /\ iter = NULL
    /\ mode = "none"
    /\ curnode = NULL
    /\ swapped = FALSE
    /\ ascending = FALSE
    /\ out = Void
    /\ order = <<>>
    /\ before = <<>>

-----------------------------------------------------------------------------
(* malloc of a node n whose three fields the caller then writes, with the  *)
(* two neighbouring fields it also writes; free of a node.                 *)

NewNode(n, p, nx, pv) ==
    /\ n \in Nodes \ live
    /\ live' = live \cup {n}
    /\ payload' = [payload EXCEPT ![n] = p]
    /\ next' = [m \in Nodes |-> IF m = n THEN nx
                                ELSE IF m = pv THEN n ELSE next[m]]
    /\ prev' = [m \in Nodes |-> IF m = n THEN pv
                                ELSE IF m = nx THEN n ELSE prev[m]]

(* free(n), after nxt and prv have been written to the other nodes. *)
FreeNode(n, nxt, prv) ==
    /\ live' = live \ {n}
    /\ payload' = [payload EXCEPT ![n] = Garbage]
    /\ next' = [nxt EXCEPT ![n] = Garbage]
    /\ prev' = [prv EXCEPT ![n] = Garbage]

-----------------------------------------------------------------------------
LinkedList_Allocate ==
    /\ mode = "none"
    /\ mode' = "idle"
    /\ head' = NULL
    /\ tail' = NULL
    /\ num_elements' = 0
    /\ out' = Void
    /\ UNCHANGED <<fields, iter, sortVars, order>>

LinkedList_Push(n, p) ==
    /\ mode = "idle"
    /\ num_elements = 0 <=> head = NULL       \* Verify333
    /\ num_elements = 0 <=> tail = NULL       \* Verify333
    /\ NewNode(n, p, head, NULL)
    /\ head' = n
    /\ tail' = IF num_elements = 0 THEN n ELSE tail
    /\ num_elements' = num_elements + 1
    /\ out' = Void
    /\ order' = <<n>> \o order
    /\ UNCHANGED <<iter, mode, sortVars>>

LinkedList_Append(n, p) ==
    /\ mode = "idle"
    /\ num_elements = 0 <=> head = NULL       \* Verify333
    /\ num_elements = 0 <=> tail = NULL       \* Verify333
    /\ NewNode(n, p, NULL, tail)
    /\ head' = IF num_elements = 0 THEN n ELSE head
    /\ tail' = n
    /\ num_elements' = num_elements + 1
    /\ out' = Void
    /\ order' = Append(order, n)
    /\ UNCHANGED <<iter, mode, sortVars>>

LinkedList_Pop ==
    /\ mode = "idle"
    /\ \/ /\ num_elements = 0
          /\ out' = Ret(FALSE)
          /\ UNCHANGED <<fields, record, order>>
       \/ /\ num_elements # 0
          /\ out' = Val(payload[head])
          /\ IF num_elements = 1
             THEN /\ head' = NULL
                  /\ tail' = NULL
                  /\ FreeNode(head, next, prev)
             ELSE /\ head' = next[head]
                  /\ tail' = tail
                  /\ FreeNode(head, next, [prev EXCEPT ![next[head]] = NULL])
          /\ num_elements' = num_elements - 1
          /\ order' = Tail(order)
    /\ UNCHANGED <<iter, mode, sortVars>>

LinkedList_Slice ==
    /\ mode = "idle"
    /\ \/ /\ num_elements = 0
          /\ out' = Ret(FALSE)
          /\ UNCHANGED <<fields, record, order>>
       \/ /\ num_elements # 0
          /\ out' = Val(payload[tail])
          /\ IF num_elements = 1
             THEN /\ head' = NULL
                  /\ tail' = NULL
                  /\ FreeNode(tail, next, prev)
             ELSE /\ head' = head
                  /\ tail' = prev[tail]
                  /\ FreeNode(tail, [next EXCEPT ![prev[tail]] = NULL], prev)
          /\ num_elements' = num_elements - 1
          /\ order' = Front(order)
    /\ UNCHANGED <<iter, mode, sortVars>>

-----------------------------------------------------------------------------
(* LinkedList_Sort: bubble sort, swapping payloads. *)

LinkedList_Sort(asc) ==
    /\ mode = "idle"
    /\ \/ /\ num_elements < 2
          /\ out' = Void
          /\ UNCHANGED <<mode, sortVars>>
       \/ /\ num_elements >= 2
          /\ mode' = "sorting"
          /\ ascending' = asc
          /\ swapped' = FALSE
          /\ curnode' = head
          /\ before' = Contents
          /\ UNCHANGED out
    /\ UNCHANGED <<fields, record, iter, order>>

(* Mutant: payloads that compare equal are swapped too. *)
MustSwap_OrEqual(p, q) == IF ascending THEN Key[p] >= Key[q] ELSE Key[p] <= Key[q]

(* comparator_function, its result negated when ascending, is negative. *)
MustSwap(p, q) == IF ascending THEN Key[p] > Key[q] ELSE Key[p] < Key[q]

(* One iteration of the inner loop. *)
SortCompare ==
    /\ mode = "sorting"
    /\ next[curnode] # NULL
    /\ LET nx == next[curnode]
       IN  IF MustSwap(payload[curnode], payload[nx])
           THEN /\ payload' = [payload EXCEPT ![curnode] = payload[nx],
                                              ![nx] = payload[curnode]]
                /\ swapped' = TRUE
           ELSE UNCHANGED <<payload, swapped>>
    /\ curnode' = next[curnode]
    /\ UNCHANGED <<next, prev, live, record, iter, mode, ascending, before, out,
                   order>>

(* Mutant: a single bubbling pass. *)
SortPassEnd_OnePass ==
    /\ mode = "sorting"
    /\ next[curnode] = NULL
    /\ mode' = "idle"
    /\ curnode' = NULL
    /\ ascending' = FALSE
    /\ before' = <<>>
    /\ swapped' = FALSE
    /\ out' = Void
    /\ UNCHANGED <<fields, record, iter, order>>

(* The outer loop's test, after a pass. *)
SortPassEnd ==
    /\ mode = "sorting"
    /\ next[curnode] = NULL
    /\ IF swapped
       THEN /\ swapped' = FALSE
            /\ curnode' = head
            /\ UNCHANGED <<mode, ascending, before, out>>
       ELSE /\ mode' = "idle"
            /\ curnode' = NULL
            /\ ascending' = FALSE
            /\ before' = <<>>
            /\ out' = Void
            /\ UNCHANGED swapped
    /\ UNCHANGED <<fields, record, iter, order>>

-----------------------------------------------------------------------------
(* LinkedList_Free: the sweep, then the record.  tail and num_elements are *)
(* not maintained on the way.                                              *)

LinkedList_Free ==
    /\ mode = "idle"
    /\ mode' = "freeing"
    /\ UNCHANGED <<fields, record, iter, sortVars, out, order>>

FreeSweep ==
    /\ mode = "freeing"
    /\ head # NULL
    /\ out' = [Void EXCEPT !.freed = payload[head]]
    /\ head' = next[head]
    /\ FreeNode(head, next, prev)
    /\ order' = Tail(order)
    /\ UNCHANGED <<tail, num_elements, iter, mode, sortVars>>

FreeRecord ==
    /\ mode = "freeing"
    /\ head = NULL
    /\ mode' = "none"
    /\ out' = Void
    /\ UNCHANGED <<fields, record, iter, sortVars, order>>

-----------------------------------------------------------------------------
LLIterator_Allocate ==
    /\ mode = "idle"
    /\ mode' = "iter"
    /\ iter' = head
    /\ out' = Void
    /\ UNCHANGED <<fields, record, sortVars, order>>

LLIterator_Free ==
    /\ mode = "iter"
    /\ mode' = "idle"
    /\ iter' = NULL
    /\ out' = Void
    /\ UNCHANGED <<fields, record, sortVars, order>>

LLIterator_Rewind ==
    /\ mode = "iter"
    /\ iter' = head
    /\ out' = Void
    /\ UNCHANGED <<fields, record, mode, sortVars, order>>

LLIterator_IsValid ==
    /\ mode = "iter"
    /\ out' = Ret(iter # NULL)
    /\ UNCHANGED <<fields, record, iter, mode, sortVars, order>>

LLIterator_Next ==
    /\ mode = "iter" /\ iter # NULL
    /\ iter' = next[iter]
    /\ out' = Ret(next[iter] # NULL)
    /\ UNCHANGED <<fields, record, mode, sortVars, order>>

LLIterator_Get ==
    /\ mode = "iter" /\ iter # NULL
    /\ out' = Val(payload[iter])
    /\ UNCHANGED <<fields, record, iter, mode, sortVars, order>>

(* The four cases: the only element, the head, the tail, the middle. *)
RemoveOnly ==
    /\ num_elements = 1
    /\ iter' = NULL
    /\ head' = NULL
    /\ tail' = NULL
    /\ out' = Freed(FALSE, payload[iter])
    /\ FreeNode(iter, next, prev)

RemoveHead ==
    /\ num_elements # 1
    /\ prev[iter] = NULL
    /\ iter' = next[iter]
    /\ head' = next[iter]
    /\ tail' = tail
    /\ out' = Freed(TRUE, payload[iter])
    /\ FreeNode(iter, next, [prev EXCEPT ![next[iter]] = NULL])

(* Mutant: the iterator is left past the end. *)
RemoveTail_PastEnd ==
    /\ num_elements # 1
    /\ prev[iter] # NULL
    /\ next[iter] = NULL
    /\ iter' = NULL
    /\ head' = head
    /\ tail' = prev[iter]
    /\ out' = Freed(TRUE, payload[iter])
    /\ FreeNode(iter, [next EXCEPT ![prev[iter]] = NULL], prev)

RemoveTail ==
    /\ num_elements # 1
    /\ prev[iter] # NULL
    /\ next[iter] = NULL
    /\ iter' = prev[iter]
    /\ head' = head
    /\ tail' = prev[iter]
    /\ out' = Freed(TRUE, payload[iter])
    /\ FreeNode(iter, [next EXCEPT ![prev[iter]] = NULL], prev)

(* Mutant: the successor's prev is not updated. *)
RemoveMiddle_HalfSplice ==
    /\ num_elements # 1
    /\ prev[iter] # NULL
    /\ next[iter] # NULL
    /\ iter' = next[iter]
    /\ head' = head
    /\ tail' = tail
    /\ out' = Freed(TRUE, payload[iter])
    /\ FreeNode(iter, [next EXCEPT ![prev[iter]] = next[iter]], prev)

RemoveMiddle ==
    /\ num_elements # 1
    /\ prev[iter] # NULL
    /\ next[iter] # NULL
    /\ iter' = next[iter]
    /\ head' = head
    /\ tail' = tail
    /\ out' = Freed(TRUE, payload[iter])
    /\ FreeNode(iter, [next EXCEPT ![prev[iter]] = next[iter]],
                      [prev EXCEPT ![next[iter]] = prev[iter]])

(* Mutant: num_elements is decremented twice, as if by LinkedList_Pop too. *)
LLIterator_Remove_CountTwice ==
    /\ mode = "iter" /\ iter # NULL
    /\ RemoveOnly \/ RemoveHead \/ RemoveTail \/ RemoveMiddle
    /\ num_elements' = num_elements - 2
    /\ order' = RemoveAt(order, Position)
    /\ UNCHANGED <<mode, sortVars>>

LLIterator_Remove ==
    /\ mode = "iter" /\ iter # NULL
    /\ RemoveOnly \/ RemoveHead \/ RemoveTail \/ RemoveMiddle
    /\ num_elements' = num_elements - 1
    /\ order' = RemoveAt(order, Position)
    /\ UNCHANGED <<mode, sortVars>>

-----------------------------------------------------------------------------
IteratorCalls ==
    \/ LLIterator_Allocate \/ LLIterator_Free \/ LLIterator_Rewind
    \/ LLIterator_IsValid \/ LLIterator_Next \/ LLIterator_Get
    \/ LLIterator_Remove

SortLoop == SortCompare \/ SortPassEnd
FreeLoop == FreeSweep \/ FreeRecord

Next ==
    \/ LinkedList_Allocate
    \/ \E n \in Nodes, p \in Payloads :
          LinkedList_Push(n, p) \/ LinkedList_Append(n, p)
    \/ LinkedList_Pop \/ LinkedList_Slice
    \/ \E asc \in BOOLEAN : LinkedList_Sort(asc)
    \/ SortLoop
    \/ LinkedList_Free
    \/ FreeLoop
    \/ IteratorCalls

Spec == Init /\ [][Next]_vars

(* A call that loops keeps running. *)
FairSpec == Spec /\ WF_vars(SortLoop) /\ WF_vars(FreeLoop)

-----------------------------------------------------------------------------
Pointers == Nodes \cup {NULL}

(* Pointers are pointers, and fields of allocated nodes are written.       *)
TypeOK ==
    /\ live \subseteq Nodes
    /\ payload \in [Nodes -> Payloads \cup {Garbage}]
    /\ next \in [Nodes -> Pointers \cup {Garbage}]
    /\ prev \in [Nodes -> Pointers \cup {Garbage}]
    /\ head \in Pointers
    /\ tail \in Pointers
    /\ num_elements \in 0..Cardinality(Nodes)
    /\ iter \in Pointers
    /\ mode \in {"none", "idle", "iter", "sorting", "freeing"}
    /\ curnode \in Pointers
    /\ swapped \in BOOLEAN
    /\ ascending \in BOOLEAN
    /\ order \in Seq(Nodes)
    /\ before \in Seq(Payloads)

(* What next pointers say: from head on they lead through all allocated    *)
(* nodes, each once.                                                       *)
Forward ==
    /\ live = ToSet(order)
    /\ \A j, k \in DOMAIN order : order[j] = order[k] => j = k
    /\ head = IF order = <<>> THEN NULL ELSE order[1]
    /\ \A k \in DOMAIN order :
          /\ payload[order[k]] \in Payloads
          /\ next[order[k]] = IF k = Len(order) THEN NULL ELSE order[k + 1]

(* And prev pointers, tail and num_elements agree with them. *)
Backward ==
    /\ num_elements = Len(order)
    /\ tail = IF order = <<>> THEN NULL ELSE order[Len(order)]
    /\ \A k \in DOMAIN order :
          prev[order[k]] = IF k = 1 THEN NULL ELSE order[k - 1]

(* The links of the allocated nodes form one doubly linked chain from head *)
(* to tail that holds them all, num_elements of them: nothing leaks and    *)
(* nothing dangles, after any sequence of pushes, pops, slices, iterator   *)
(* removals and sorts.  A list being freed keeps the chain of next         *)
(* pointers from head on, which is all the sweep follows.  The iterator    *)
(* and the sort cursor never point at a freed node, and a list that does   *)
(* not exist owns no memory.                                               *)
Chain ==
    /\ Forward
    /\ mode \notin {"freeing", "none"} => Backward
    /\ iter \in live \cup {NULL}
    /\ mode = "sorting" => curnode \in live
    /\ mode # "iter" => iter = NULL
    /\ mode = "none" => live = {}

(* t is s rearranged, f saying where each element of t comes from, and     *)
(* elements that compare equal have kept their relative order.             *)
StableRearrangement(s, t) ==
    /\ Len(s) = Len(t)
    /\ \E f \in [1..Len(t) -> 1..Len(t)] :
          /\ \A k \in 1..Len(t) : t[k] = s[f[k]]
          /\ \A j, k \in 1..Len(t) :
                j < k => f[j] # f[k] /\ (Key[t[j]] = Key[t[k]] => f[j] < f[k])

(* When LinkedList_Sort returns, the payloads are those it was given, in   *)
(* order, and payloads that compare equal have kept their relative order.  *)
SortedStably ==
    [][mode = "sorting" /\ mode' = "idle" =>
          /\ \A k \in 1..(Len(order) - 1) :
                ~MustSwap(Contents[k], Contents[k + 1])
          /\ StableRearrangement(before, Contents)]_vars

(* LinkedList_Sort's loop invariant: as long as a pass has swapped nothing *)
(* the payloads up to curnode are in order, so that the pass that swaps    *)
(* nothing may be the last one.                                            *)
PassSoFar ==
    mode = "sorting" =>
        \E k \in DOMAIN order :
            /\ order[k] = curnode
            /\ ~swapped => \A j \in 1..(k - 1) : ~MustSwap(Contents[j], Contents[j + 1])

(* And no swap so far has lost a payload or reordered equal ones. *)
StableSoFar == mode = "sorting" => StableRearrangement(before, Contents)

(* The inductive invariant. *)
IInv == TypeOK /\ Chain /\ PassSoFar /\ StableSoFar

(* Sorting and freeing terminate. *)
LoopsEnd == mode \in {"sorting", "freeing"} ~> mode \in {"idle", "none"}

(* LinkedList.c implements the list that LinkedList.h describes. *)
ImplementsIterableList == Abstract!Spec
=============================================================================
