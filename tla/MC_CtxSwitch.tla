--------------------------- MODULE MC_CtxSwitch ---------------------------
(***************************************************************************)
(* A user process (Q = 1, NB = 1, one interrupt level and EXL unmasked)    *)
(* running over an operating system whose stack in block 0 starts six     *)
(* words below the top of the address space: the second frame wraps from  *)
(* 0xFFFF to 0, the third faults part-way at word 4.  Block 1 holds a      *)
(* process context that SP can load.  LIP is written without an argument *)
(* (T = 0); block 0 words 0..3 are mapped, as low memory always is.        *)
(***************************************************************************)
EXTENDS CtxSwitch

MC_StackBase == 65530
MC_UserSr == SRWord(3, 1, 0, 1)

MC_MappedIn == [b \in {0, 1} |->
                  IF b = 0 THEN {0, 1, 2, 3, 64, 96, 97} \cup (MC_StackBase..65535)
                  ELSE {300, 301, 302}]

MC_InitMem == [b \in {0, 1} |->
                 [a \in MC_MappedIn[b] |->
                    CASE b = 0 /\ a = 64 -> 500
                      [] b = 0 /\ a = 96 -> 600
                      [] b = 0 /\ a = 97 -> MC_StackBase
                      [] b = 1 /\ a = 300 -> 700
                      [] b = 1 /\ a = 301 -> 5
                      [] b = 1 /\ a = 302 -> MC_UserSr
                      [] OTHER -> 0]]

MC_IntVector == [l \in {1} |-> 63 + l]
MC_IntBit == [l \in {1} |-> 2]
MC_IntMaskOf == [l \in {1} |-> 0]
====
