------------------------------- MODULE MC_MX -------------------------------
(* The channel with four physical lines (one 4-line group), the logical   *)
(* slots the CPU addresses (one in mx_channel, two in the other runs), a   *)
(* bounded CPU, and SETCFG descriptors that bind slot 0 to a terminal-like *)
(* protocol line or that the protocol refuses.                             *)
EXTENDS MX, FiniteSets

\* mx.h: MX_DIR_* are direction bit sets, MX_PHY_* type numbers.
MC_DIR_NONE == 0
MC_DIR_INPUT == 2
MC_DIR_OUTPUT == 4
MC_DIR_HALF_DUPLEX == 6
MC_DIR_FULL_DUPLEX == 7
MC_PHY_USART_ASYNC == 0
MC_PHY_8255 == 1
MC_PHY_USART_SYNC == 2
MC_PHY_MTAPE == 4
MC_PHY_CNT == 6

\* Protocol numbers: a protocol whose table implements TRANSMIT (the
\* protocols other than tape are outside this tree), the tape protocol,
\* and a number mx_proto_get knows nothing of.
PROTO_TERM == 0
PROTO_MTAPE == 6
PROTO_UNKNOWN == 1
TermProto == [dir |-> MC_DIR_INPUT, types |-> {MC_PHY_USART_ASYNC, MC_PHY_USART_SYNC},
              cmds |-> {"TRANSMIT"}]
MC_Protos == (PROTO_TERM :> TermProto) @@ (PROTO_MTAPE :> TapeProto)

MC_LogLines == {0, 1}
MC_OneLine == {0}
MC_CpuCmds == {"SETCFG", "STATUS", "TRANSMIT", "ATTACH", "REQUEUE", "TEST"}

Phy(n, t, d, u) == [count |-> n, type |-> t, dir |-> d, used |-> u]
Log(p, pr) == [phy |-> p, proto |-> pr]

\* One terminal group, and the terminal protocol on a tape line
\* (PROTO_MISMATCH).
MC_Configs ==
    { [phys |-> <<Phy(4, MC_PHY_USART_ASYNC, MC_DIR_FULL_DUPLEX, TRUE)>>,
       logs |-> <<Log(0, PROTO_TERM)>>],
      [phys |-> <<Phy(4, MC_PHY_MTAPE, MC_DIR_NONE, TRUE)>>,
       logs |-> <<Log(0, PROTO_TERM)>>] }

-----------------------------------------------------------------------------
(* The checks of SETCFG against what the descriptor must satisfy, stated   *)
(* without the code's loops: over descriptors of up to two physical and    *)
(* two logical entries drawn from the sets below, on a channel of eight    *)
(* lines (two 4-line groups).                                              *)
C8 == INSTANCE MXConfig WITH LineCnt <- 8, DIR_NONE <- MC_DIR_NONE,
        DIR_INPUT <- MC_DIR_INPUT, DIR_OUTPUT <- MC_DIR_OUTPUT,
        DIR_HALF_DUPLEX <- MC_DIR_HALF_DUPLEX, DIR_FULL_DUPLEX <- MC_DIR_FULL_DUPLEX,
        PHY_USART_ASYNC <- MC_PHY_USART_ASYNC, PHY_8255 <- MC_PHY_8255,
        PHY_USART_SYNC <- MC_PHY_USART_SYNC, PHY_MTAPE <- MC_PHY_MTAPE,
        PHY_CNT <- MC_PHY_CNT, Protos <- MC_Protos, NONE <- NONE

PhyDescs ==
    { Phy(4, MC_PHY_USART_ASYNC, MC_DIR_FULL_DUPLEX, TRUE),
      Phy(1, MC_PHY_USART_ASYNC, MC_DIR_FULL_DUPLEX, TRUE),
      Phy(4, MC_PHY_8255, MC_DIR_OUTPUT, TRUE),
      Phy(3, MC_PHY_8255, MC_DIR_INPUT, TRUE),
      Phy(4, MC_PHY_MTAPE, MC_DIR_NONE, TRUE),
      Phy(5, MC_PHY_MTAPE, MC_DIR_NONE, TRUE),
      Phy(4, MC_PHY_USART_ASYNC, MC_DIR_NONE, FALSE),
      Phy(4, MC_PHY_USART_ASYNC, MC_DIR_NONE, TRUE),
      Phy(4, MC_PHY_8255, MC_DIR_FULL_DUPLEX, TRUE),
      Phy(4, MC_PHY_USART_SYNC, MC_DIR_INPUT, TRUE),
      Phy(4, 9, MC_DIR_NONE, TRUE) }
LogDescs == {Log(p, pr) : p \in {0, 4}, pr \in {PROTO_TERM, PROTO_MTAPE, PROTO_UNKNOWN}}
UpTo2(S) == {<<x>> : x \in S} \cup {<<x, y>> : x, y \in S}
CfgSpace == {[phys |-> ps, logs |-> ls] : ps \in UpTo2(PhyDescs), ls \in UpTo2(LogDescs)}

\* Lines covered by the first i - 1 physical descriptors.
Before(c, i) == FoldLeft(LAMBDA a, d : a + d.count, 0, SubSeq(c.phys, 1, i - 1))

\* Physical line k as the descriptor leaves it: the fields of the
\* descriptor whose range holds k, or a zeroed line past the last one.
LineOf(c, k) ==
    IF \E i \in DOMAIN c.phys : Before(c, i) <= k /\ k < Before(c, i + 1)
    THEN LET d == c.phys[CHOOSE i \in DOMAIN c.phys : Before(c, i) <= k /\ k < Before(c, i + 1)]
         IN  [dir |-> d.dir, used |-> d.used, type |-> d.type]
    ELSE C8!ZeroLine

\* A descriptor SETCFG must accept on a fresh channel: counts in range,
\* every line it names exists and is legal, whole 4-line groups of one
\* type, one tape group at most, and every logical line on its own used
\* physical line under a known protocol whose direction and line type fit.
Sound(c) ==
    LET np == Len(c.phys)
        nl == Len(c.logs)
        L(k) == LineOf(c, k)
    IN  /\ np \in 1..8 /\ nl \in 1..8
        /\ Before(c, np + 1) <= 8
        /\ \A i \in 1..np : C8!ConfPhy(c.phys[i]) = "OK"
        /\ \A g \in 0..1, j \in 1..3 : L(4 * g + j).type = L(4 * g).type
        /\ Cardinality({g \in 0..1 : L(4 * g).type = MC_PHY_MTAPE}) <= 1
        /\ \A i \in 1..nl :
             LET ld == c.logs[i] IN
             /\ L(ld.phy).used
             /\ ld.proto \in DOMAIN MC_Protos
             /\ (MC_Protos[ld.proto].dir & L(ld.phy).dir) = MC_Protos[ld.proto].dir
             /\ L(ld.phy).type \in MC_Protos[ld.proto].types
        /\ \A i, j \in 1..nl : i # j => c.logs[i].phy # c.logs[j].phy

\* The slots a sound descriptor binds: slot i - 1 to logical descriptor i.
BoundBy(c) == [s \in C8!Lines |-> IF s < Len(c.logs) THEN c.logs[s + 1] ELSE NONE]

\* Checked in the states before the CPU's first call, on an eight-line
\* channel as mx_create leaves it: plines zeroed and no slot bound.
\* mx_cmd_setcfg served on it answers IUKON
\* exactly for the sound descriptors, and then leaves plines and llines as
\* the descriptor says: the order of its loops, their first-error exits
\* and the group walk over all of plines (the lines the descriptor leaves
\* zeroed included) agree with what the descriptor means.
SetcfgValidates ==
    nextId = 0 =>
        \A c \in CfgSpace :
            LET r == C8!Setcfg(c, C8!FreshLines, C8!NoBinding) IN
            /\ (r.err = "OK") = Sound(c)
            /\ r.err = "OK" => /\ r.ll = BoundBy(c)
                              /\ r.pl = [k \in C8!Lines |-> LineOf(c, k)]
=============================================================================
