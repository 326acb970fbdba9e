---------------------------- MODULE MCPortBuffers ----------------------------
(* One output port whose buffer has two data blocks. *)
EXTENDS PortBuffers

CONSTANTS out1

MCPortOf == [b \in {out1} |-> "out"]
MCDatas  == [b \in {out1} |-> 2]
=============================================================================
