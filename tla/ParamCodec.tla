------------------------------ MODULE ParamCodec ------------------------------
(***************************************************************************)
(* ParametersProperty between its vector and the SPA pods: what            *)
(* add_to_pod_object writes, how parse reads a struct field by field, and  *)
(* what update_from_pod makes of it.  A struct is a sequence of fields;    *)
(* keys and values alternate, and nothing but parse checks that they do.   *)
(***************************************************************************)
EXTENDS Integers, SequencesExt

CONSTANTS
    Texts,      \* The strings, of keys and of values
    Null,       \* The string "null", one of them
    Numbers,    \* The contents of fields that are not strings
    Pods,       \* Structs the remote side sends
    Stores      \* Parameter vectors whose own publication is sent back

ASSUME TextsAssumption == Null \in Texts

SpaTypes == {"Int", "Long", "Float", "Double", "String", "Bool", "None", "Other"}
Fields   == [type : {"String", "None"}, val : Texts]
            \cup [type : SpaTypes \ {"String", "None"}, val : Numbers]

\* property_value_type: the SPA type write_property_value gives an alternative.
SpaType == [int |-> "Int", long |-> "Long", float |-> "Float", double |-> "Double",
            string |-> "String", bool |-> "Bool", nullopt |-> "None"]
Variants == [alt : {"string", "nullopt"}, val : Texts]
            \cup [alt : {"int", "long", "float", "double", "bool"}, val : Numbers]
Nullopt  == [alt |-> "nullopt", val |-> Null]
Entries  == [name : Texts, value : Variants]

ASSUME PodsAssumption   == Pods \subseteq Seq(Fields)
ASSUME StoresAssumption == Stores \subseteq Seq(Entries)

write_property_value(v) == [type |-> SpaType[v.alt], val |-> v.val]

\* The struct add_to_pod_object builds: each name followed by its value.
add_to_pod_object(ps) ==
    [i \in 1..(2 * Len(ps)) |->
        IF i % 2 = 1 THEN [type |-> "String", val |-> ps[(i + 1) \div 2].name]
                     ELSE write_property_value(ps[i \div 2].value)]

\* The alternatives the switch in parse knows: no bool, no None.
Supported == {"Int", "Long", "Float", "Double", "String"}
Alternative == [Int |-> "int", Long |-> "long", Float |-> "float",
                Double |-> "double", String |-> "string"]

\* Mutants of Decode: the field itself is kept; every number becomes a double.
KeepField(f) == f
DecodeWidened(f) ==
    IF f.type = "String" /\ f.val = Null
    THEN Nullopt
    ELSE [alt |-> IF f.type = "String" THEN "string" ELSE "double", val |-> f.val]

Decode(f) ==
    IF f.type = "String" /\ f.val = Null
    THEN Nullopt
    ELSE [alt |-> Alternative[f.type], val |-> f.val]

\* update_from_pod: each update goes to the first parameter with its name, or
\* to the end.
MergeOne(ps, u) ==
    IF \E i \in DOMAIN ps : ps[i].name = u.name
    THEN LET k == CHOOSE i \in DOMAIN ps :
                     ps[i].name = u.name /\ \A j \in 1..(i - 1) : ps[j].name # u.name
         IN [ps EXCEPT ![k].value = u.value]
    ELSE Append(ps, u)

-----------------------------------------------------------------------------
VARIABLES
    store,      \* *_parameters
    pod,        \* The struct update_from_pod was called with
    count,      \* How many of its fields parse has read
    keys,       \* What parse has collected
    values,
    merged      \* How many of the pairs parse returned are in store

vars == <<store, pod, count, keys, values, merged>>

Init ==
    /\ \/ pod \in Pods /\ store = <<>>
       \/ store \in Stores /\ pod = add_to_pod_object(store)
    /\ count = 0
    /\ keys = <<>>
    /\ values = <<>>
    /\ merged = 0

Field == pod[count + 1]
HasField == count < Len(pod)

\* spa_pod_get_string fails on a field that is not a string and leaves key
\* uninitialised: whatever text is found there is taken for the name.
ReadKey ==
    /\ HasField
    /\ count % 2 = 0
    /\ \E k \in (IF Field.type = "String" THEN {Field.val} ELSE Texts) :
            keys' = Append(keys, k)
    /\ count' = count + 1
    /\ UNCHANGED <<store, pod, values, merged>>

ReadValue ==
    /\ HasField
    /\ count % 2 = 1
    /\ Field.type \in Supported
    /\ values' = Append(values, Decode(Field))
    /\ count' = count + 1
    /\ UNCHANGED <<store, pod, keys, merged>>

\* Mutants of SkipValue: the key of a value that is not understood stays; the
\* oldest key goes instead of the last.
KeepKey ==
    /\ HasField
    /\ count % 2 = 1
    /\ Field.type \notin Supported
    /\ count' = count + 1
    /\ UNCHANGED <<store, pod, keys, values, merged>>

DropOldestKey ==
    /\ HasField
    /\ count % 2 = 1
    /\ Field.type \notin Supported
    /\ keys' = Tail(keys)
    /\ count' = count + 1
    /\ UNCHANGED <<store, pod, values, merged>>

\* A value that is not understood takes its key with it.
SkipValue ==
    /\ HasField
    /\ count % 2 = 1
    /\ Field.type \notin Supported
    /\ keys' = Front(keys)
    /\ count' = count + 1
    /\ UNCHANGED <<store, pod, values, merged>>

\* The pairs parse returns: keys and values side by side, as far as both go.
ZipLength == IF Len(keys) < Len(values) THEN Len(keys) ELSE Len(values)
Result == [i \in 1..ZipLength |-> [name |-> keys[i], value |-> values[i]]]

MergeNext ==
    /\ ~HasField
    /\ merged < ZipLength
    /\ store' = MergeOne(store, Result[merged + 1])
    /\ merged' = merged + 1
    /\ UNCHANGED <<pod, count, keys, values>>

Done == ~HasField /\ merged = ZipLength /\ UNCHANGED vars

Next == ReadKey \/ ReadValue \/ SkipValue \/ MergeNext \/ Done

Spec == Init /\ [][Next]_vars

-----------------------------------------------------------------------------
(* Properties *)

\* The type invariant.
TypeOK ==
    /\ store \in Seq(Entries)
    /\ pod \in Seq(Fields)
    /\ count \in 0..Len(pod)
    /\ keys \in Seq(Texts)
    /\ values \in Seq(Variants)
    /\ merged \in 0..ZipLength

\* The two vectors parse fills never drift apart, whatever mix of fields it is
\* given: between pairs they are equally long, after a key one is ahead.
Aligned == Len(keys) = Len(values) + (count % 2)

\* The pairs read so far whose values are understood.
Understood == {p \in 1..(count \div 2) : pod[2 * p].type \in Supported}

WellFormed == \A i \in DOMAIN pod : i % 2 = 1 => pod[i].type = "String"

\* Every value ends up under the key it was sent with, and none is lost: dropped
\* values, trailing keys and "null" do not shift the pairs after them.
PairedAsSent ==
    WellFormed =>
        \E at \in [1..ZipLength -> Understood] :
            /\ \A i, j \in 1..ZipLength : i < j => at[i] < at[j]
            /\ \A p \in Understood : \E i \in 1..ZipLength : at[i] = p
            /\ \A i \in 1..ZipLength :
                 Result[i] = [name |-> pod[2 * at[i] - 1].val, value |-> Decode(pod[2 * at[i]])]

\* Parameters with different names, and no string "null".
Distinct == \A i, j \in DOMAIN store : store[i].name = store[j].name => i = j
NoNull   == \A i \in DOMAIN store : store[i].value.alt = "string" => store[i].value.val # Null

\* What the graph sends back unchanged changes nothing: such parameters survive
\* publication and re-reading, those whose type parse does not know included.
EchoChangesNothing ==
    [][pod = add_to_pod_object(store) /\ Distinct /\ NoNull => store' = store]_vars
=============================================================================
