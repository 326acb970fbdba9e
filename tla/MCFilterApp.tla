---------------------------- MODULE MCFilterApp ----------------------------
(* FilterApp on small instances.  The batches are what parse returns, so they
   include the empty one, repeated names, names never declared. *)
EXTENDS FilterApp

CONSTANTS gain, pan, mute, v1, v2

E(n, v) == [name |-> n, value |-> v]

MCNames  == {gain, pan, mute}
MCValues == {v1, v2}

\* v2 takes more room than v1 (a longer string).
MCSizes == [e \in [name : MCNames, value : MCValues] |-> IF e.value = v1 THEN 1 ELSE 2]

\* Declarations with a duplicate, as ParametersBuilder::add allows.
DuplicateDeclared == <<E(gain, v1), E(gain, v2)>>
SingleDeclared    == <<E(gain, v1), E(pan, v1)>>

\* Batches that bring new names, twice in one case.
OpenBatches ==
    {<<>>, <<E(gain, v2)>>, <<E(pan, v1), E(pan, v2)>>, <<E(gain, v1), E(mute, v1)>>}

\* Batches that only name declared parameters.
ClosedBatches ==
    {<<>>, <<E(gain, v2)>>, <<E(pan, v1), E(gain, v1), E(pan, v2)>>}

BothModes == {"rt", "main_loop"}
LoopMode  == {"main_loop"}
=============================================================================
