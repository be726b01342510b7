---------------------------- MODULE MC_MXShutdown ----------------------------
(* The channel of MC_MX, shut down at any point after the CPU's calls.     *)
EXTENDS MC_MX, MXShutdown
=============================================================================
