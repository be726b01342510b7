-------------------------------- MODULE Elst --------------------------------
(***************************************************************************)
(* The array-backed doubly linked list of src/src/utils/elst.c.            *)
(*                                                                         *)
(* The C list keeps capacity+2 items: item 0 (ELST_USED) heads the circular *)
(* list of queued items, item 1 (ELST_FREE) heads the circular list of     *)
(* recycled items, and 'hwm' is the next never-used item.  Every public    *)
(* operation runs under the list mutex, so each is one atomic step here.   *)
(* 'ret' is the value the operation returned to its caller.                *)
(*                                                                         *)
(* The list is shown to implement ElstQueue under the mapping that walks   *)
(* the used list from item 0.                                              *)
(***************************************************************************)
EXTENDS Integers, Sequences, FiniteSets

CONSTANTS Capacity, Ptrs, Prios, NULL

ELST_USED == 0
ELST_FREE == 1
ELST_RESVD_ITEMS == 2

\* The C array: capacity + ELST_RESVD_ITEMS items.
Idx == 0..(Capacity + ELST_RESVD_ITEMS - 1)

VARIABLES d,      \* d[i].p, d[i].n: the links of item i
          prio,   \* prio[i]
          ptr,    \* ptr[i]
          count,  \* l->count
          hwm,    \* l->hwm
          ret

vars == <<d, prio, ptr, count, hwm, ret>>

PutFailed == -2

-----------------------------------------------------------------------------
(* The link primitives, on the link function alone.                        *)

\* Mutant: an unlink that forgets to repair the successor's back link.
Unlink_halfLinked(dd, i) == [dd EXCEPT ![dd[i].p].n = dd[i].n]

\* __unlink: d[p].n = n; d[n].p = p
Unlink(dd, i) ==
    LET p == dd[i].p
        n == dd[i].n
    IN  [dd EXCEPT ![p].n = n, ![n].p = p]

\* __link: d[i].p = p; d[i].n = n; d[p].n = i; d[n].p = i
Link(dd, i, p, n) == [dd EXCEPT ![i].p = p, ![i].n = n, ![p].n = i, ![n].p = i]

\* Mutant: the capacity test of __get_free off by one.
IsFull_offByOne == count > Capacity

\* __get_free: full when count >= capacity.
IsFull == count >= Capacity

\* __get_free: take the first recycled item, or a fresh one at hwm.
FreeFromHwm == d[ELST_FREE].n = ELST_FREE
GetFree == IF FreeFromHwm THEN hwm ELSE d[ELST_FREE].n

\* __put(l, x, pr, p, n): fail when full, else link a free item between p
\* and n, which the caller computed before the free item was taken.
Put(x, pr, p, n) ==
    IF IsFull
    THEN /\ ret' = PutFailed
         /\ UNCHANGED <<d, prio, ptr, count, hwm>>
    ELSE LET i == GetFree
             d1 == IF FreeFromHwm THEN d ELSE Unlink(d, i)
         IN  /\ d' = Link(d1, i, p, n)
             /\ prio' = [prio EXCEPT ![i] = pr]
             /\ ptr' = [ptr EXCEPT ![i] = x]
             /\ hwm' = IF FreeFromHwm THEN hwm + 1 ELSE hwm
             /\ count' = count + 1
             /\ ret' = count + 1

\* elst_append / elst_nlock_append
Append_(x) == Put(x, 0, d[ELST_USED].p, ELST_USED)

\* elst_prepend / elst_nlock_prepend
Prepend_(x) == Put(x, 0, ELST_USED, d[ELST_USED].n)

\* Mutant: an insert walk that stops at items of equal priority.
RECURSIVE InsertWalk_strict(_, _, _)
InsertWalk_strict(p, n, pr) ==
    IF n # ELST_USED /\ prio[n] > pr
    THEN InsertWalk_strict(n, d[n].n, pr)
    ELSE <<p, n>>

\* elst_nlock_insert: walk while d[n].prio >= pr; returns <<p, n>>.
RECURSIVE InsertWalk(_, _, _)
InsertWalk(p, n, pr) ==
    IF n # ELST_USED /\ prio[n] >= pr
    THEN InsertWalk(n, d[n].n, pr)
    ELSE <<p, n>>

Insert_(x, pr) ==
    LET pn == InsertWalk(ELST_USED, d[ELST_USED].n, pr)
    IN  Put(x, pr, pn[1], pn[2])

\* Mutant: a pop that decrements count even when the list is empty.
PopLinks_countAlways(s) ==
    LET first == s.d[ELST_USED].n
        d1 == Unlink(s.d, first)
    IN  IF first = ELST_USED THEN [s EXCEPT !.count = s.count - 1]
        ELSE [d |-> Link(d1, first, d1[ELST_FREE].p, ELST_FREE), count |-> s.count - 1]

\* elst_nlock_pop on a list state [d, count]: move the first used item to
\* the tail of the free list.
PopLinks(s) ==
    LET first == s.d[ELST_USED].n
        d1 == Unlink(s.d, first)
    IN  IF first = ELST_USED THEN s
        ELSE [d |-> Link(d1, first, d1[ELST_FREE].p, ELST_FREE), count |-> s.count - 1]

\* elst_pop; elst_wait_pop once the list is non-empty.
Pop_ ==
    LET s == PopLinks([d |-> d, count |-> count])
    IN  /\ d' = s.d
        /\ count' = s.count
        /\ ret' = ptr[d[ELST_USED].n]
        /\ UNCHANGED <<prio, ptr, hwm>>

\* elst_nlock_clear: pop until a pop returns NULL.
RECURSIVE ClearLinks(_)
ClearLinks(s) ==
    IF ptr[s.d[ELST_USED].n] = NULL THEN s ELSE ClearLinks(PopLinks(s))

Clear_ ==
    LET s == ClearLinks([d |-> d, count |-> count])
    IN  /\ d' = s.d
        /\ count' = s.count
        /\ ret' = NULL
        /\ UNCHANGED <<prio, ptr, hwm>>

-----------------------------------------------------------------------------
(* elst_create: both lists empty, hwm at the first non-reserved item.  The *)
(* other items are uninitialised malloc memory that no operation reads     *)
(* before writing; they start at fixed values here.                        *)
Init ==
    /\ d = [i \in Idx |-> IF i = ELST_FREE THEN [p |-> ELST_FREE, n |-> ELST_FREE]
                                          ELSE [p |-> ELST_USED, n |-> ELST_USED]]
    /\ prio = [i \in Idx |-> 0]
    /\ ptr = [i \in Idx |-> NULL]
    /\ count = 0
    /\ hwm = ELST_RESVD_ITEMS
    /\ ret = NULL

Next ==
    \/ \E x \in Ptrs : Append_(x) \/ Prepend_(x)
    \/ \E x \in Ptrs, p \in Prios : Insert_(x, p)
    \/ Pop_
    \/ Clear_

Spec == Init /\ [][Next]_vars

-----------------------------------------------------------------------------
(* The used list read from item 0, as ElstQueue's sequence.  The walk is   *)
(* cut after as many steps as there are items so a corrupt list ends.      *)
RECURSIVE Walk(_, _)
Walk(i, k) ==
    IF i \in {ELST_USED, ELST_FREE} \/ k = 0 \/ i \notin Idx THEN <<>>
    ELSE <<i>> \o Walk(d[i].n, k - 1)

UsedItems == Walk(d[ELST_USED].n, Capacity + ELST_RESVD_ITEMS)

RECURSIVE FreeWalk(_, _)
FreeWalk(i, k) ==
    IF i = ELST_FREE \/ k = 0 \/ i \notin Idx THEN <<>>
    ELSE <<i>> \o FreeWalk(d[i].n, k - 1)

FreeItems == FreeWalk(d[ELST_FREE].n, Capacity + ELST_RESVD_ITEMS)

UsedSeq == [k \in 1..Len(UsedItems) |-> [prio |-> prio[UsedItems[k]], ptr |-> ptr[UsedItems[k]]]]

Abs == INSTANCE ElstQueue WITH q <- UsedSeq

TypeOK ==
    /\ d \in [Idx -> [p : Nat, n : Nat]]
    /\ prio \in [Idx -> Prios]
    /\ ptr \in [Idx -> Ptrs \cup {NULL}]
    /\ count \in Nat
    /\ hwm \in Nat
    /\ ret \in Ptrs \cup {NULL, PutFailed} \cup Nat

SeqSet(s) == {s[k] : k \in DOMAIN s}

(* The used and the free list are two well-formed circular lists that      *)
(* together hold exactly the items handed out so far (2..hwm-1), each once,*)
(* the used one holding 'count' items: what __get_free, __put and          *)
(* elst_nlock_pop must preserve across any sequence of puts and pops.      *)
ListsWellFormed ==
    LET U == SeqSet(UsedItems)
        F == SeqSet(FreeItems)
        Ring == {ELST_USED, ELST_FREE} \cup U \cup F
    IN  /\ Len(UsedItems) = count
        /\ Cardinality(U) = count
        /\ Cardinality(F) = Len(FreeItems)
        /\ U \cap F = {}
        /\ U \cup F = ELST_RESVD_ITEMS..(hwm - 1)
        /\ \A i \in Ring : d[i].n \in Idx /\ d[d[i].n].p = i

(* __get_free never hands out an item beyond the capacity+2 items that     *)
(* elst_create allocated, whatever the order of puts and pops.             *)
HwmInBounds == hwm <= Capacity + ELST_RESVD_ITEMS

(* Every operation of the linked list does to the list of queued items     *)
(* what ElstQueue says, and returns what it says.                          *)
ImplementsElstQueue == Abs!Spec
=============================================================================
