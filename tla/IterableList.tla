---------------------------- MODULE IterableList ----------------------------
(***************************************************************************)
(* What hw1/LinkedList.h promises: a list is a sequence of payloads, an    *)
(* iterator is a position in it, and every operation has the stated effect *)
(* on both and on what it returns.                                         *)
(*                                                                         *)
(* A customer uses at most one iterator at a time and calls LinkedList_*   *)
(* mutators only when no iterator is outstanding (LinkedList.h, "you       *)
(* should only use LLIterator*() functions in between").                   *)
(***************************************************************************)
EXTENDS Integers, Sequences, SequencesExt

CONSTANTS
    Payloads,    \* what customers store
    Key,         \* the comparator compares Key[p]
    NoPayload    \* "no payload was returned / freed"

VARIABLES
    seq,     \* the payloads, front to back
    pos,     \* the iterator's position, 0 when there is none or it is past the end
    mode,    \* "none", "idle", "iter", "sorting" or "freeing"
    up,      \* sorting: ascending?
    out      \* what the last call returned, and the payload it freed

listVars == <<seq, pos, mode, up, out>>

Void      == [ret |-> "void", val |-> NoPayload, freed |-> NoPayload]
Ret(b)    == [Void EXCEPT !.ret = IF b THEN "true" ELSE "false"]
Val(p)    == [Void EXCEPT !.ret = "true", !.val = p]
Freed(b, p) == [Ret(b) EXCEPT !.freed = p]

Init ==
    /\ seq = <<>>
    /\ pos = 0
    /\ mode = "none"
    /\ up = FALSE
    /\ out = Void

Allocate ==
    /\ mode = "none"
    /\ mode' = "idle"
    /\ out' = Void
    /\ UNCHANGED <<seq, pos, up>>

Push(p) ==
    /\ mode = "idle"
    /\ seq' = <<p>> \o seq
    /\ out' = Void
    /\ UNCHANGED <<pos, mode, up>>

AppendPayload(p) ==
    /\ mode = "idle"
    /\ seq' = Append(seq, p)
    /\ out' = Void
    /\ UNCHANGED <<pos, mode, up>>

Pop ==
    /\ mode = "idle"
    /\ IF seq = <<>> THEN out' = Ret(FALSE) /\ UNCHANGED seq
                     ELSE out' = Val(Head(seq)) /\ seq' = Tail(seq)
    /\ UNCHANGED <<pos, mode, up>>

Slice ==
    /\ mode = "idle"
    /\ IF seq = <<>> THEN out' = Ret(FALSE) /\ UNCHANGED seq
                     ELSE out' = Val(Last(seq)) /\ seq' = Front(seq)
    /\ UNCHANGED <<pos, mode, up>>

-----------------------------------------------------------------------------
Start == IF seq = <<>> THEN 0 ELSE 1

IterAllocate ==
    /\ mode = "idle"
    /\ mode' = "iter"
    /\ pos' = Start
    /\ out' = Void
    /\ UNCHANGED <<seq, up>>

IterFree ==
    /\ mode = "iter"
    /\ mode' = "idle"
    /\ pos' = 0
    /\ out' = Void
    /\ UNCHANGED <<seq, up>>

IterRewind ==
    /\ mode = "iter"
    /\ pos' = Start
    /\ out' = Void
    /\ UNCHANGED <<seq, mode, up>>

IterIsValid ==
    /\ mode = "iter"
    /\ out' = Ret(pos # 0)
    /\ UNCHANGED <<seq, pos, mode, up>>

IterNext ==
    /\ mode = "iter" /\ pos # 0
    /\ pos' = IF pos < Len(seq) THEN pos + 1 ELSE 0
    /\ out' = Ret(pos < Len(seq))
    /\ UNCHANGED <<seq, mode, up>>

IterGet ==
    /\ mode = "iter" /\ pos # 0
    /\ out' = Val(seq[pos])
    /\ UNCHANGED <<seq, pos, mode, up>>

(* The iterator moves to the successor, or to the predecessor of a removed *)
(* tail, or becomes invalid with the last element.                         *)
IterRemove ==
    /\ mode = "iter" /\ pos # 0
    /\ seq' = RemoveAt(seq, pos)
    /\ pos' = IF pos = Len(seq) THEN pos - 1 ELSE pos
    /\ out' = Freed(Len(seq) > 1, seq[pos])
    /\ UNCHANGED <<mode, up>>

-----------------------------------------------------------------------------
(* Must p and the payload q right after it change places? *)
OutOfOrder(p, q) == IF up THEN Key[p] > Key[q] ELSE Key[p] < Key[q]
Inversions == {k \in 1..(Len(seq) - 1) : OutOfOrder(seq[k], seq[k + 1])}

SortBegin(asc) ==
    /\ mode = "idle"
    /\ IF Len(seq) < 2 THEN out' = Void /\ UNCHANGED <<mode, up>>
                       ELSE mode' = "sorting" /\ up' = asc /\ UNCHANGED out
    /\ UNCHANGED <<seq, pos>>

SortSwap ==
    /\ mode = "sorting"
    /\ \E k \in Inversions :
          seq' = [seq EXCEPT ![k] = seq[k + 1], ![k + 1] = seq[k]]
    /\ UNCHANGED <<pos, mode, up, out>>

SortEnd ==
    /\ mode = "sorting"
    /\ Inversions = {}
    /\ mode' = "idle"
    /\ up' = FALSE
    /\ out' = Void
    /\ UNCHANGED <<seq, pos>>

-----------------------------------------------------------------------------
(* Freeing a list frees each payload once, front to back. *)
FreeBegin ==
    /\ mode = "idle"
    /\ mode' = "freeing"
    /\ UNCHANGED <<seq, pos, up, out>>

FreeStep ==
    /\ mode = "freeing"
    /\ seq # <<>>
    /\ seq' = Tail(seq)
    /\ out' = [Void EXCEPT !.freed = Head(seq)]
    /\ UNCHANGED <<pos, mode, up>>

FreeEnd ==
    /\ mode = "freeing"
    /\ seq = <<>>
    /\ mode' = "none"
    /\ out' = Void
    /\ UNCHANGED <<seq, pos, up>>

Next ==
    \/ Allocate
    \/ \E p \in Payloads : Push(p) \/ AppendPayload(p)
    \/ Pop \/ Slice
    \/ IterAllocate \/ IterFree \/ IterRewind \/ IterIsValid
    \/ IterNext \/ IterGet \/ IterRemove
    \/ \E asc \in BOOLEAN : SortBegin(asc)
    \/ SortSwap \/ SortEnd
    \/ FreeBegin \/ FreeStep \/ FreeEnd

Spec == Init /\ [][Next]_listVars
=============================================================================
