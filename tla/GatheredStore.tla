---------------------------- MODULE GatheredStore ----------------------------
(***************************************************************************)
(* ParameterStore, where publishing is not one step: the values are read   *)
(* into a copy name by name, while the signal processor may go on updating *)
(* the store, and the copy is published when no name is missing.  Nothing  *)
(* is merged before the copy of the last publication is dropped.           *)
(***************************************************************************)
EXTENDS ParameterStore

VARIABLE copy   \* The names read so far, with the values they had

gatheredVars == <<map, call, published, copy>>

Nothing == [n \in Names |-> Absent]

GatheredInit == Init /\ copy = Nothing

Start ==
    /\ copy' = Nothing
    /\ UNCHANGED <<map, call, published>>

Gather(n) ==
    /\ map[n] # Absent
    /\ copy[n] = Absent
    /\ copy' = [copy EXCEPT ![n] = map[n]]
    /\ UNCHANGED <<map, call, published>>

PublishCopy ==
    /\ \A n \in Names : copy[n] = Absent => map[n] = Absent
    /\ published' = copy
    /\ UNCHANGED <<map, call, copy>>

GatheredNext ==
    \/ Start
    \/ \E n \in Names : Gather(n)
    \/ PublishCopy
    \/ Merge /\ copy = Nothing /\ UNCHANGED copy
    \/ \E n \in Names, v \in Values : Call(n, v) /\ UNCHANGED copy
    \/ Return /\ UNCHANGED copy
    \/ Forget /\ UNCHANGED copy

GatheredSpec == GatheredInit /\ [][GatheredNext]_gatheredVars
=============================================================================
