------------------------------ MODULE MC_Alu ------------------------------
(***************************************************************************)
(* Checks the word operations of Alu against reference definitions that  *)
(* say what each instruction means on the bits of a word or on its        *)
(* signed or unsigned value, without C's shift-and-mask arithmetic.       *)
(*                                                                         *)
(* The state is the input: two or three words taken from Vals (the values *)
(* at which 16-bit arithmetic has its edges: 0, 1, the sign boundary,     *)
(* all ones, the byte boundaries and alternating patterns), a shift count *)
(* and a flag.  Every state is an input and nothing changes it.  The      *)
(* properties that do not read the shift count t are checked at t = 0     *)
(* only (AtOneCount), which visits every value of the other inputs once.   *)
(***************************************************************************)
EXTENDS Alu, Timekeeping, Transfers

CONSTANTS Vals

VARIABLES x, y, z, t, f

vars == <<x, y, z, t, f>>

Init == x \in Vals /\ y \in Vals /\ z \in Vals /\ t \in 0..15 /\ f \in BOOLEAN
Next == UNCHANGED vars
Spec == Init /\ [][Next]_vars

AtOneCount == t = 0

-----------------------------------------------------------------------------
(* Reference: a word as the set of its one bits, and signed values.        *)
Pos == 0..15
BitsOf(w) == {i \in Pos : (w \div 2^i) % 2 = 1}
FromBits(S) == MapThenSumSet(LAMBDA i : 2^i, S)
Signed(w) == IF w >= 32768 THEN w - W ELSE w
B(b) == IF b THEN 1 ELSE 0

RotR1(w) == FromBits({(i - 1) % 16 : i \in BitsOf(w)})
RECURSIVE RotR(_, _)
RotR(w, n) == IF n = 0 THEN w ELSE RotR(RotR1(w), n - 1)

(* The six left shifts (shift_left) move every bit one place up and shift *)
(* in the chosen flag; Y receives bit 15; V is raised exactly when the    *)
(* signed value doubled plus the bit shifted in leaves -32768..32767 (and *)
(* stays raised).  The right shifts (shift_right) move every bit down,    *)
(* shift the flag in at bit 15 and put bit 0 into Y.                      *)
ShiftsAgree ==
    AtOneCount =>
    \A cv \in BOOLEAN :
        LET sl == ShiftLeft(x, B(f), cv, FALSE)
            sr == ShiftRight(x, B(f) * 32768)
        IN  /\ BitsOf(sl.res) = {i + 1 : i \in BitsOf(x) \ {15}} \cup (IF f THEN {0} ELSE {})
            /\ sl.y = (15 \in BitsOf(x))
            /\ sl.v = (cv /\ 2 * Signed(x) + B(f) \notin -32768..32767)
            /\ BitsOf(sr.res) = {i - 1 : i \in BitsOf(x) \ {0}} \cup (IF f THEN {15} ELSE {})
            /\ sr.y = (0 \in BitsOf(x))

(* SHC rotates the register right by IR_t places, for every count 0..15:   *)
(* t single-bit rotations, the bits falling off bit 0 coming back at 15.  *)
ShcRotates == Shc(x, t) = RotR(x, t)

(* The skip conditions of BB, BC, BN, BM, BS, BLC and BRC, IS's          *)
(* test-and-set and LS's masked load, stated on sets of bit positions: BB *)
(* skips when the argument's bits are all set in the register, BN when   *)
(* none is, BM when the register's bits are all set in the word read, BS  *)
(* when they agree on the bits of r7, BLC on the left byte of R0; IS      *)
(* either skips because all the register's bits are set in the word, or   *)
(* sets them; LS takes r7's bits from the argument, the others from the  *)
(* register.                                                               *)
BitTestsAgree ==
    AtOneCount =>
    /\ Bb(x, y) = (BitsOf(y) \subseteq BitsOf(x))
    /\ Bc(x, y) = ~(BitsOf(y) \subseteq BitsOf(x))
    /\ Bn(x, y) = (BitsOf(x) \cap BitsOf(y) = {})
    /\ Bm(x, y) = (BitsOf(y) \subseteq BitsOf(x))
    /\ Bs(x, y, z) = (BitsOf(x) \cap BitsOf(z) = BitsOf(y) \cap BitsOf(z))
    /\ Blc(x, y) = ~(BitsOf(y) \subseteq {i - 8 : i \in BitsOf(x) \cap 8..15})
    /\ Brc(x, y) = ~(BitsOf(y) \subseteq BitsOf(x))
    /\ BitsOf(Ls(x, y, z)) = (BitsOf(x) \ BitsOf(z)) \cup (BitsOf(y) \cap BitsOf(z))
    /\ LET is == Is(x, y)
       IN  IF BitsOf(y) \subseteq BitsOf(x) THEN is.skip /\ is.data = x
           ELSE ~is.skip /\ BitsOf(is.data) = BitsOf(x) \cup BitsOf(y)

(* Counted loops: a loop whose last instruction is DRB r, back to its     *)
(* start, with n in r runs its body exactly n times and leaves r = 0; one  *)
(* closed by IRB r with -n (two's complement) in r runs it n times too.   *)
(* Both hinge on the handlers testing the register after the 16-bit       *)
(* wrap-around step, not before.  Checked for n in LoopCounts (the        *)
(* recursion follows every pass of the loop); n = 0, which DRB runs 65536  *)
(* times, is beyond that.                                                  *)
RECURSIVE DrbRuns(_), IrbRuns(_)
DrbRuns(r) == IF Drb(r).jump THEN 1 + DrbRuns(Drb(r).res) ELSE 1
IrbRuns(r) == IF Irb(r).jump THEN 1 + IrbRuns(Irb(r).res) ELSE 1
LoopCounts == {1, 2, 255, 256}

CountedLoops ==
    AtOneCount /\ x \in LoopCounts =>
    /\ DrbRuns(x) = x
    /\ IrbRuns(Wrap(-x)) = x

(* The logic handlers on sets of bit positions: OR is union, NR           *)
(* intersection, ER the register's bits less the argument's, XR the        *)
(* symmetric difference, NGL the complement, ZLB/ZRB keep one byte, and Z  *)
(* is set exactly when no bit is left.  The memory forms (OM, NM, EM, XM) *)
(* apply the same operation to (word, register); when the write-back      *)
(* faults, neither the word nor Z changes, so Z never describes a word     *)
(* that memory does not hold.                                              *)
LogicAgrees ==
    AtOneCount =>
    LET X == BitsOf(x)  Y == BitsOf(y)
        Op(i, a, b) == CASE i = 1 -> OpOr(a, b) [] i = 2 -> OpNr(a, b)
                         [] i = 3 -> OpEr(a, b) [] i = 4 -> OpXr(a, b)
        ref == <<X \cup Y, X \cap Y, X \ Y, (X \ Y) \cup (Y \ X)>>
    IN  /\ \A i \in 1..4 :
              LET r == LogicR(Op(i, x, y))
                  m == LogicM(Op(i, x, y), x, f, z = 0)
              IN  /\ BitsOf(r.res) = ref[i] /\ r.z = (ref[i] = {})
                  /\ IF f THEN BitsOf(m.data) = ref[i] /\ m.z = (ref[i] = {})
                     ELSE m.data = x /\ m.z = (z = 0)
        /\ BitsOf(OpNgl(x)) = Pos \ X
        /\ BitsOf(Zlb(x)) = X \cap 0..7 /\ BitsOf(Zrb(x)) = X \cap 8..15
        /\ Sxu(x) = (15 \in X) /\ Sxl(x) = (0 \in X)

(* The MD chain (cpu_do_cycle with op_77_md): k MDs, each with argument x  *)
(* and B-modified by a register holding y, then an instruction with        *)
(* argument z and no B-mod, then one more instruction with argument x.     *)
(*   - With k <= 3 the instruction's AC (and AR) is the sum of the whole   *)
(*     chain, k*(x+y) + z, modulo 2^16, whatever AR held before; ZC17 is   *)
(*     the carry of its own pre-mod; MC is 0 again and nothing is illegal. *)
(*   - A 4th MD raises the illegal-instruction interrupt and discards the  *)
(*     chain: the instruction runs on z alone.                             *)
(*   - Either way the instruction after it is not modified: AC = x.        *)
ChainSums ==
    \A k \in 0..4 :
        LET md  == [md |-> TRUE, arg |-> x, rb |-> y]
            ins == [md |-> FALSE, arg |-> z, rb |-> NoB]
            st0 == [ac |-> 0, ar |-> t, mc |-> 0, zc17 |-> f, ill |-> FALSE]
            s   == RunCycles(st0, [i \in 1..k |-> md] \o <<ins>>)
            nxt == Cycle(s, [md |-> FALSE, arg |-> x, rb |-> NoB])
            sum == (k * (x + y)) % W
        IN  /\ IF k <= 3
               THEN /\ s.ac = (sum + z) % W /\ s.ar = s.ac
                    /\ s.zc17 = (k > 0 /\ sum + z >= W)
                    /\ ~s.ill
               ELSE s.ac = z /\ ~s.zc17 /\ s.ill
            /\ s.mc = 0
            /\ nxt.ac = x /\ nxt.mc = 0

(* Real-speed throttling (cpu_timekeeping after every turn of cpu_loop,    *)
(* started by the STOP -> RUN resynchronisation).  Four turns take x, y,  *)
(* z and x ns; bit i-1 of t makes turn i an OU instruction, whose time    *)
(* comes negated.  The clock read at the start is f's: 7 s, and either 0  *)
(* or 1 us before the next second; the time left over from before the     *)
(* STOP is y.  After every prefix of the turns:                            *)
(*   - no time is lost or counted twice: the deadline plus the time not   *)
(*     yet slept for is the start plus the scaled time of every turn, an   *)
(*     OU's included (it is deferred to the next sleep, not dropped);      *)
(*   - the deadline's nanoseconds stay below a second;                    *)
(*   - every sleep moved the deadline by at least the granularity;        *)
(*   - time of a granularity or more is left unslept only right after an   *)
(*     OU turn: any other turn sleeps it off.                              *)
TkTurns == [i \in 1..4 |-> LET v == <<x, y, z, x>>[i]
                           IN  IF (t \div 2^(i - 1)) % 2 = 1 THEN -v ELSE v]
TkNow == [sec |-> 7, nsec |-> IF f THEN NS - 1000 ELSE 0]
\* Nanoseconds since TkNow's whole second (TLC's integers are 32-bit).
TkAt(ts) == (ts.sec - TkNow.sec) * NS + ts.nsec

TimeConserved ==
    LET st0 == Resync([sec |-> 0, nsec |-> 0, cum |-> y, sleeps |-> 0], TkNow)
        Mag(v) == IF v < 0 THEN -v ELSE v
    IN  \A k \in 0..4 :
          LET s == Throttle(st0, SubSeq(TkTurns, 1, k))
          IN  /\ TkAt(s) + s.cum
                   = TkAt(TkNow) + MapThenSumSet(LAMBDA i : Scale(Mag(TkTurns[i])), 1..k)
              /\ s.nsec \in 0..(NS - 1)
              /\ TkAt(s) - TkAt(TkNow) >= s.sleeps * Granularity
              /\ s.cum >= Granularity => k > 0 /\ TkTurns[k] < 0


-----------------------------------------------------------------------------
(* The transfer handlers on a small memory: block 0 has 100..104 mapped,   *)
(* block NB = 1 has 65534..0 (across the wrap) and 100..102; every cell    *)
(* holds z.  The registers hold x, y, z in turn, IC is x, Q is f; the     *)
(* address used is one of 100, 102, 65535, 104 and the register one of    *)
(* R1..R4, both taken from t.                                              *)
TrCells == ({0} \X (100..104)) \cup ({1} \X {65534, 65535, 0, 100, 101, 102})
TrRegs == [i \in 0..7 |-> <<x, y, z>>[(i % 3) + 1]]
TrS0 == [r |-> TrRegs, ic |-> x, q |-> f, nb |-> 1, mem |-> [c \in TrCells |-> z],
         nomem |-> FALSE]
TrAddr == <<100, 102, 65535, 104>>[(t % 4) + 1]
TrReg == (t \div 4) + 1
\* The transfer properties are checked on four of the values (0, 1, the
\* sign boundary and all ones), which keeps every pair of them distinct
\* or equal as needed and IC at both ends of the wrap.
TrSample == {x, y, z} \subseteq {0, 1, 32768, 65535}
\* How many consecutive cells from a are mapped in block b, up to n.
MappedRun(b, a, n) ==
    Max({k \in 0..n : \A i \in 0..(k - 1) : <<b, U16(a + i)>> \in TrCells})

(* A subroutine call returns to its caller.  LJ S stores the caller's IC  *)
(* in the link word S and continues at S + 1 (wrapping at 2^16); the       *)
(* return, a jump through the link word (D-mod), comes back to the        *)
(* caller's IC.  When S is not mapped, LJ changes nothing but the         *)
(* no-memory interrupt: it neither jumps nor half-links.  RJ Rx, S links *)
(* through the register instead, and a jump to Rx returns.                 *)
CallReturns ==
    TrSample =>
    LET S    == TrAddr
        l    == Lj(TrS0, S)
        back == DMod(l, S)
        j    == Rj(TrS0, TrReg, S)
    IN  /\ IF <<QNB(TrS0), S>> \in TrCells
           THEN /\ l.ic = U16(S + 1) /\ l.r = TrRegs /\ ~l.nomem
                /\ back.ok /\ Jump74(l, back.v).ic = x
           ELSE l = [TrS0 EXCEPT !.nomem = TRUE]
        /\ j.ic = S /\ Jump74(j, j.r[TrReg]).ic = x

(* A run of RIs through Rx fills consecutive words and can be resumed:    *)
(* after k RIs storing x, y, z, x from address A on, Rx has advanced by   *)
(* the number of words actually written, those words hold the arguments   *)
(* in order, and when fewer than k were written Rx points at the first    *)
(* word that faulted (so a retry stores there, not past a hole).          *)
RiFill ==
    TrSample =>
    \A k \in 0..4 :
        LET s0  == [TrS0 EXCEPT !.r[TrReg] = TrAddr]
            arg == <<x, y, z, x>>
            s   == FoldLeft(LAMBDA st, v : Ri(st, TrReg, v), s0, SubSeq(arg, 1, k))
            n   == U16(s.r[TrReg] - TrAddr + 65536)
            b   == QNB(TrS0)
        IN  /\ n = MappedRun(b, TrAddr, k)
            /\ \A i \in 0..(n - 1) : s.mem[<<b, U16(TrAddr + i)>>] = arg[i + 1]
            /\ s.nomem = (n < k)

(* A word stored is read back by a load of the same cell exactly when the *)
(* two handlers address the same block.  RW, RWS and RZ store, and LWS    *)
(* loads, through Q*NB; PW stores and TW loads through NB; LWS/RWS address *)
(* IC + AC.  The multi-register stores (RD, RF, RA, RL through Q*NB, PD,  *)
(* PF, PA, PL through NB) followed by the load of the same form (LD ... / *)
(* TD ...) restore the registers they moved, R1.. or R5..R7, up to the     *)
(* first unmapped word; across Q*NB and NB this holds only in user mode.  *)
(* A load leaves a register it could not reach as it was.                  *)
StoresReadBack ==
    TrSample =>
    LET a    == TrReg
        v    == TrRegs[a]
        c    == U16(v + 1)       \* the register, overwritten before the load
        rel  == U16(TrAddr - x + 65536)
        stores == [rw |-> <<Rw(TrS0, a, TrAddr), TRUE>>, rws |-> <<Rws(TrS0, a, rel), TRUE>>,
                   rz |-> <<Rz(TrS0, TrAddr), TRUE>>, pw |-> <<Pw(TrS0, a, TrAddr), FALSE>>]
        Val(o) == IF o = "rz" THEN 0 ELSE v
        Load(st, qnb) == LET cl == [st EXCEPT !.r[a] = c]
                         IN  IF qnb THEN Lws(cl, a, rel) ELSE Tw(cl, a, TrAddr)
        Blk(qnb) == IF qnb THEN QNB(TrS0) ELSE 1
        Cell(qnb) == <<Blk(qnb), TrAddr>>
    IN  /\ \A o \in DOMAIN stores, lq \in BOOLEAN :
              Load(stores[o][1], lq).r[a] =
                  IF Cell(lq) \notin TrCells THEN c
                  ELSE IF Cell(lq) = Cell(stores[o][2]) THEN Val(o) ELSE z
        /\ \A m \in DOMAIN Multi, sq, lq \in BOOLEAN :
              LET first == Multi[m][1]
                  cnt   == Multi[m][2]
                  st    == Store76(TrS0, m, sq, TrAddr)
                  cl    == [st EXCEPT !.r = [i \in 0..7 |-> U16(st.r[i] + 1)]]
                  ld    == Load75(cl, m, lq, TrAddr)
                  ks    == MappedRun(Blk(sq), TrAddr, cnt)
                  kl    == MappedRun(Blk(lq), TrAddr, cnt)
              IN  /\ \A i \in 0..7 :
                       ld.r[i] = IF i - first \in 0..(kl - 1)
                                 THEN IF Blk(sq) = Blk(lq) /\ i - first < ks
                                      THEN TrRegs[i] ELSE z
                                 ELSE cl.r[i]
                  /\ ld.nomem = (ks < cnt \/ kl < cnt)

=============================================================================
