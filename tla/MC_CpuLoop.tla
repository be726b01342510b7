----------------------------- MODULE MC_CpuLoop -----------------------------
(* Every instruction kind, and an operator panel that starts, steps,       *)
(* clears, loads and stops the CPU and switches the emulator off.          *)
EXTENDS CpuLoop

MC_Instrs == InstrKinds
MC_OpRequests == {<<STOP, ANY>>, <<RUN, STOP>>, <<CYCLE, STOP>>, <<CLM, STOP>>,
                  <<CLO, ANY>>, <<BIN, STOP>>, <<OFF, ANY>>}
=============================================================================
