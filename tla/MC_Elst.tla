------------------------------ MODULE MC_Elst -------------------------------
(* A list of capacity 3 fed two payloads at three priorities: enough to    *)
(* fill it, to reuse recycled items, and to insert among equal priorities. *)
EXTENDS Elst

MC_Capacity == 3
MC_Prios == {0, 1, 2}
=============================================================================
