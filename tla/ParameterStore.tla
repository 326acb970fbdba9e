--------------------------- MODULE ParameterStore ---------------------------
(***************************************************************************)
(* What a filter's parameters promise: a map from names to values, merged  *)
(* into by the remote side (one member of Merges at a time, atomically),   *)
(* updated by the signal processor (a call that is acknowledged has taken  *)
(* effect, a call on an unknown name is refused), and published to the     *)
(* graph as a snapshot.                                                    *)
(***************************************************************************)
EXTENDS Integers, Sequences

CONSTANTS
    Names,      \* Parameter names
    Values,     \* Parameter values
    Absent,     \* The value of a name that is not in the store
    Merges      \* The update sequences the remote side may merge at once

VARIABLES
    map,        \* The store: Names -> Values \cup {Absent}
    call,       \* The signal processor's update: idle, pending, or its answer
    published   \* The map the graph sees

vars == <<map, call, published>>

Idle     == [status |-> "idle"]
Ok       == [status |-> "ok"]
NotFound == [status |-> "parameter_not_found"]

Snapshots == [Names -> Values \cup {Absent}]

\* The map m after the updates us: the last update of a name wins.
Overridden(m, us) ==
    [n \in Names |->
        IF \E i \in DOMAIN us : us[i].name = n
        THEN us[CHOOSE i \in DOMAIN us :
                    /\ us[i].name = n
                    /\ \A j \in DOMAIN us : us[j].name = n => j <= i].value
        ELSE m[n]]

Init ==
    /\ map \in Snapshots
    /\ call = Idle
    /\ published = [n \in Names |-> Absent]

Merge ==
    /\ \E us \in Merges : map' = Overridden(map, us)
    /\ UNCHANGED <<call, published>>

Call(n, v) ==
    /\ call.status # "pending"
    /\ call' = IF map[n] = Absent
               THEN NotFound
               ELSE [status |-> "pending", name |-> n, value |-> v]
    /\ UNCHANGED <<map, published>>

\* The acknowledgement and the effect are one step.
Return ==
    /\ call.status = "pending"
    /\ map' = [map EXCEPT ![call.name] = call.value]
    /\ call' = Ok
    /\ UNCHANGED published

Forget ==
    /\ call.status # "pending"
    /\ call' = Idle
    /\ UNCHANGED <<map, published>>

Publish ==
    /\ published' = map
    /\ UNCHANGED <<map, call>>

Next ==
    \/ Merge
    \/ \E n \in Names, v \in Values : Call(n, v)
    \/ Return
    \/ Forget
    \/ Publish

Spec == Init /\ [][Next]_vars
=============================================================================
