----------------------------- MODULE ElstQueue -----------------------------
(***************************************************************************)
(* What the bounded priority list of src/src/utils/elst.c promises to its  *)
(* callers (the multiplexer's event queue, interrupt queue and per-line    *)
(* command queues), stated over a plain sequence of items.                 *)
(*                                                                         *)
(* An item is a record [prio, ptr].  elst_append and elst_prepend store    *)
(* priority 0 at the tail or the head; elst_insert walks from the head     *)
(* past every item whose priority is >= the new one, so that items of      *)
(* equal priority stay in FIFO order.  A put on a full list fails and      *)
(* returns -2; otherwise it returns the new count.  A pop on an empty list *)
(* returns NULL.  'ret' holds the value the last operation returned.       *)
(***************************************************************************)
EXTENDS Integers, Sequences, SequencesExt

CONSTANTS Capacity,   \* the capacity given to elst_create
          Ptrs,       \* the (non-NULL) payloads callers store
          Prios,      \* the priorities callers use
          NULL

ASSUME Capacity \in Nat \ {0} /\ 0 \in Prios /\ NULL \notin Ptrs

VARIABLES q, ret

Item == [prio : Prios, ptr : Ptrs]

\* Result of a put: the new count, or -2 (__get_free) when full.
PutFailed == -2

\* Number of leading items that elst_nlock_insert walks past: those whose
\* priority is >= prio, stopping at the first one of lower priority.
InsertPos(s, prio) ==
    CHOOSE k \in 0..Len(s) :
        /\ \A i \in 1..k : s[i].prio >= prio
        /\ k < Len(s) => s[k+1].prio < prio

Inserted(s, x, prio) == InsertAt(s, InsertPos(s, prio) + 1, [prio |-> prio, ptr |-> x])

IsFull(s) == Len(s) >= Capacity

\* The three puts share __put: fail without change when full.
PutResult(s, s2) == IF IsFull(s) THEN s ELSE s2
PutRet(s) == IF IsFull(s) THEN PutFailed ELSE Len(s) + 1

Append_(x) ==
    /\ q' = PutResult(q, Append(q, [prio |-> 0, ptr |-> x]))
    /\ ret' = PutRet(q)

Prepend_(x) ==
    /\ q' = PutResult(q, <<[prio |-> 0, ptr |-> x]>> \o q)
    /\ ret' = PutRet(q)

Insert_(x, prio) ==
    /\ q' = PutResult(q, Inserted(q, x, prio))
    /\ ret' = PutRet(q)

\* elst_pop / elst_wait_pop on a non-empty list (an empty wait_pop blocks
\* or times out without touching the list).
Pop_ ==
    /\ q' = IF q = <<>> THEN q ELSE Tail(q)
    /\ ret' = IF q = <<>> THEN NULL ELSE Head(q).ptr

Clear_ ==
    /\ q' = <<>>
    /\ ret' = NULL

Init == q = <<>> /\ ret = NULL

Next ==
    \/ \E x \in Ptrs : Append_(x) \/ Prepend_(x)
    \/ \E x \in Ptrs, p \in Prios : Insert_(x, p)
    \/ Pop_
    \/ Clear_

Spec == Init /\ [][Next]_<<q, ret>>
=============================================================================
