----------------------------- MODULE MCAppBuilder -----------------------------
(* Two applications from one builder, in programs with one and two threads. *)
EXTENDS AppBuilder, TLC

CONSTANTS port1, port2, par1, par2

\* Ports and parameters may be renamed.
Renamings == Permutations({port1, port2}) \cup Permutations({par1, par2})
=============================================================================
