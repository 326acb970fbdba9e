----------------------------- MODULE AppBuilder -----------------------------
(***************************************************************************)
(* AppBuilder and ParametersBuilder: the configuration of a filter, the    *)
(* gate and the calls of build, and the life of the applications built     *)
(* from one builder, which share its parameters.  The applications run in  *)
(* mode main_loop, where the signal processor is part of the loop          *)
(* (FilterApp models a single application in both modes).  Nothing locks   *)
(* the vector they share: an emplace_back begins and ends in steps of its  *)
(* own, and two that overlap may lose an entry or crash.                   *)
(***************************************************************************)
EXTENDS Integers, Sequences, FiniteSets

CONSTANTS
    Apps,           \* The applications, numbered in the order they are built
    Names,          \* Parameter names
    PortNames,      \* Names of ports
    Emptied,        \* The texts the program may set to an empty one
    ThreadCounts,   \* How many threads of the program may use the library
    MaxPorts,       \* Bound on the ports declared, in both directions together
    MaxParameters,  \* Bound on the length of a vector when an append begins
    NULL            \* What PipeWire returns when it fails

Required == {"filter_name", "media_type", "media_class", "signal_processor"}
Directions == {"input", "output"}

\* The vectors there could be: 0 is the one the builder is made with.
Vectors == Apps \cup {0}

\* Who appends to a vector: the loops of the applications, and add.
Builder == 0
Appenders == Apps \cup {Builder}

ASSUME AppsAssumption == Apps \subseteq Nat \ {0} /\ IsFiniteSet(Apps)
ASSUME ThreadsAssumption == ThreadCounts \subseteq Nat \ {0}
ASSUME EmptiedAssumption == Emptied \subseteq Required \ {"signal_processor"}
ASSUME BoundsAssumption == MaxPorts \in Nat /\ MaxParameters \in Nat

VARIABLES
    threads,    \* The threads of this program
    given,      \* What the builder has been given and is not empty
    declared,   \* Its port definitions, by direction
    current,    \* The vector its ParametersBuilder adds to
    vector,     \* Names and capacity of each; growing reallocates the storage
    appending,  \* The emplace_back each appender is in, and the vector it read
    inits,      \* Calls of pw_init not yet balanced by pw_deinit
    stage,      \* Where each application is in its life
    filter,     \* Its filter handle
    ports,      \* Its ports, by direction
    store,      \* Its parameters_property's vector
    call,       \* The update its signal processor is in, and the storage it found
    crashed,    \* The program has dereferenced a NULL handle
    wanted,     \* Ghost: the ports declared when it was built, until it is destroyed
    added       \* Ghost: the parameters the program has added

builderVars == <<given, declared, current, added>>
appVars == <<stage, filter, ports, store, wanted>>
vectorVars == <<vector, appending>>
vars == <<threads, builderVars, vectorVars, inits, appVars, call, crashed>>

NoPorts == [d \in Directions |-> <<>>]
NoCall == 0
NoAppend == [name |-> NULL]

Init ==
    /\ threads \in ThreadCounts
    /\ given = {}
    /\ declared = NoPorts
    /\ current = 0
    /\ vector = [v \in Vectors |-> [names |-> <<>>, cap |-> 0]]
    /\ appending = [w \in Appenders |-> NoAppend]
    /\ inits = 0
    /\ stage = [a \in Apps |-> "none"]
    /\ filter = [a \in Apps |-> NULL]
    /\ ports = [a \in Apps |-> NoPorts]
    /\ store = [a \in Apps |-> 0]
    /\ call = [a \in Apps |-> NoCall]
    /\ crashed = FALSE
    /\ wanted = [a \in Apps |-> NoPorts]
    /\ added = <<>>

\* A thread that is in run comes back when run returns, one in add when it is over.
Busy == {a \in Apps : stage[a] \in {"running", "closing"}}
            \cup {w \in {Builder} : appending[w] # NoAppend}
FreeThread == Cardinality(Busy) < threads

NamesIn(v) == {vector[v].names[i] : i \in DOMAIN vector[v].names}

Doubled(old) == IF Len(old.names) < old.cap THEN old.cap
                ELSE IF old.cap = 0 THEN 1 ELSE 2 * old.cap

\* Mutant of Appended: what is new is put in front.
Prepended(old, n) == [names |-> <<n>> \o old.names, cap |-> Doubled(old)]

\* emplace_back: a full vector is reallocated at twice its capacity.
Appended(old, n) == [names |-> Append(old.names, n), cap |-> Doubled(old)]

\* An appender enters emplace_back.
Enter(w, v, n) ==
    /\ Len(vector[v].names) < MaxParameters
    /\ appending' = [appending EXCEPT ![w] = [name |-> n, into |-> v, read |-> vector[v]]]

\* It leaves it.  If another append has got in between, what it read is stale, and
\* the outcome is undefined: both entries are there, the other's is overwritten, or
\* storage that was freed is used.
Leave(w) ==
    LET p == appending[w]
        raced == vector[p.into] # p.read IN
    /\ appending' = [appending EXCEPT ![w] = NoAppend]
    /\ \/ \E old \in {p.read, vector[p.into]} :
              /\ vector' = [vector EXCEPT ![p.into] = Appended(old, p.name)]
              /\ UNCHANGED crashed
       \/ raced /\ crashed' = TRUE /\ UNCHANGED vector

-----------------------------------------------------------------------------
(* The configuration *)

\* One thread at a time configures the builder.
BuilderCall == ~crashed /\ FreeThread /\ appending[Builder] = NoAppend

\* set_filter_name, set_media_type, set_media_class, add_signal_processor.
Set(what) ==
    /\ BuilderCall
    /\ given' = given \cup {what}
    /\ UNCHANGED <<threads, declared, current, added, vectorVars, inits, appVars, call, crashed>>

\* One of the three texts is set to an empty one.
SetEmpty(what) ==
    /\ BuilderCall
    /\ given' = given \ {what}
    /\ UNCHANGED <<threads, declared, current, added, vectorVars, inits, appVars, call, crashed>>

\* add_input_port, add_output_port.
AddPort(d, n) ==
    /\ BuilderCall
    /\ Len(declared["input"]) + Len(declared["output"]) < MaxPorts
    /\ declared' = [declared EXCEPT ![d] = Append(@, n)]
    /\ UNCHANGED <<threads, given, current, added, vectorVars, inits, appVars, call, crashed>>

\* ParametersBuilder::add, which does not look for the name.
AddBegin(n) ==
    /\ BuilderCall
    /\ Enter(Builder, current, n)
    /\ UNCHANGED <<threads, builderVars, vector, inits, appVars, call, crashed>>

AddEnd ==
    /\ ~crashed
    /\ appending[Builder] # NoAppend
    /\ Leave(Builder)
    /\ added' = Append(added, [name |-> appending[Builder].name,
                               index |-> Len(vector'[current].names)])
    /\ UNCHANGED <<threads, given, declared, current, inits, appVars, call>>

-----------------------------------------------------------------------------
(* build *)

NextApp(a) == stage[a] = "none" /\ \A b \in Apps : b < a => stage[b] # "none"

\* Mutant of Refused: the library is initialised before the gate.
RefusedAfterInit ==
    /\ BuilderCall
    /\ \E a \in Apps : NextApp(a)
    /\ ~(Required \subseteq given)
    /\ inits' = inits + 1
    /\ UNCHANGED <<threads, builderVars, vectorVars, appVars, call, crashed>>

\* Something is missing: a configuration error, before anything is done.
Refused ==
    /\ BuilderCall
    /\ \E a \in Apps : NextApp(a)
    /\ ~(Required \subseteq given)
    /\ UNCHANGED vars

\* Mutant of PortsFor: each port goes in front of the ones before it.
PortsInFront(f, d, failed) ==
    LET last == Len(declared[d]) + 1 IN
    [i \in DOMAIN declared[d] |->
        IF last - i \in failed THEN NULL
        ELSE [name |-> declared[d][last - i], direction |-> d, of |-> f]]

\* The transform over a list of definitions.  Each call of a port builder may fail,
\* and what it returns is wrapped and kept.
PortsFor(f, d, failed) ==
    [i \in DOMAIN declared[d] |->
        IF i \in failed THEN NULL ELSE [name |-> declared[d][i], direction |-> d, of |-> f]]

\* build, when it returns an application.  Whether PipeWire gave it a filter and
\* its ports is not looked at; with ports to add, there has to be a filter.
Build(a) ==
    /\ BuilderCall
    /\ NextApp(a)
    /\ Required \subseteq given
    /\ inits' = inits + 1
    /\ stage' = [stage EXCEPT ![a] = "built"]
    /\ \E f \in {a, NULL}, failed \in [Directions -> SUBSET (1..MaxPorts)] :
        /\ f = NULL => declared = NoPorts
        /\ \A d \in Directions : failed[d] \subseteq DOMAIN declared[d]
        /\ filter' = [filter EXCEPT ![a] = f]
        /\ ports' = [ports EXCEPT ![a] = [d \in Directions |-> PortsFor(f, d, failed[d])]]
    /\ store' = [store EXCEPT ![a] = current]
    /\ wanted' = [wanted EXCEPT ![a] = declared]
    /\ UNCHANGED <<threads, builderVars, vectorVars, call, crashed>>

\* build, when PipeWire gives it no loop, or no filter to add ports to.
BuildCrashes ==
    /\ BuilderCall
    /\ \E a \in Apps : NextApp(a)
    /\ Required \subseteq given
    /\ inits' = inits + 1
    /\ crashed' = TRUE
    /\ UNCHANGED <<threads, builderVars, vectorVars, appVars, call>>

-----------------------------------------------------------------------------
(* The applications *)

\* App::run, up to the main loop.
Run(a) ==
    /\ ~crashed /\ FreeThread
    /\ stage[a] = "built"
    /\ IF filter[a] = NULL
       THEN crashed' = TRUE /\ UNCHANGED stage
       ELSE stage' = [stage EXCEPT ![a] = "running"] /\ UNCHANGED crashed
    /\ UNCHANGED <<threads, builderVars, vectorVars, inits, filter, ports, store, wanted, call>>

\* Mutant of ConnectFails: it leaves the library, as execute does.
ConnectFailsDeinit(a) ==
    /\ ~crashed /\ FreeThread
    /\ stage[a] = "built" /\ filter[a] # NULL
    /\ inits' = inits - 1
    /\ UNCHANGED <<threads, builderVars, vectorVars, appVars, call, crashed>>

\* App::run, when pw_filter_connect fails: nothing is undone, and the program may
\* call run again.
ConnectFails(a) ==
    /\ ~crashed /\ FreeThread
    /\ stage[a] = "built" /\ filter[a] # NULL
    /\ UNCHANGED vars

\* Mutant of LoopFree: the loop dispatches while the signal processor runs.
LoopOnly(a) == ~crashed /\ stage[a] = "running"

\* The loop of the application is free to dispatch.
LoopFree(a) ==
    ~crashed /\ stage[a] = "running" /\ call[a] = NoCall /\ appending[a] = NoAppend

\* param_changed merges a parameter: find_if does not find the name, and it is
\* appended.
MergeBegin(a, n) ==
    /\ LoopFree(a)
    /\ n \notin NamesIn(store[a])
    /\ Enter(a, store[a], n)
    /\ UNCHANGED <<threads, builderVars, vector, inits, appVars, call, crashed>>

MergeEnd(a) ==
    /\ ~crashed
    /\ appending[a] # NoAppend
    /\ Leave(a)
    /\ UNCHANGED <<threads, builderVars, inits, appVars, call>>

\* The signal processor is in ParametersProperty::update: find_if has found a
\* parameter, the assignment is still to come.
UpdateFind(a) ==
    /\ LoopFree(a)
    /\ NamesIn(store[a]) # {}
    /\ call' = [call EXCEPT ![a] = vector[store[a]].cap]
    /\ UNCHANGED <<threads, builderVars, vectorVars, inits, appVars, crashed>>

UpdateStore(a) ==
    /\ ~crashed
    /\ call[a] # NoCall
    /\ call' = [call EXCEPT ![a] = NoCall]
    /\ UNCHANGED <<threads, builderVars, vectorVars, inits, appVars, crashed>>

\* The signal processor asks a port that could not be made for a buffer.
UseMissingPort(a) ==
    /\ LoopFree(a)
    /\ \E d \in Directions : \E i \in DOMAIN ports[a][d] : ports[a][d][i] = NULL
    /\ crashed' = TRUE
    /\ UNCHANGED <<threads, builderVars, vectorVars, inits, appVars, call>>

\* The loop has been quit: execute destroys the filter, its ports with it, and the
\* loop.
Destroy(a) ==
    /\ LoopFree(a)
    /\ stage' = [stage EXCEPT ![a] = "closing"]
    /\ filter' = [filter EXCEPT ![a] = NULL]
    /\ ports' = [ports EXCEPT ![a] = NoPorts]
    /\ wanted' = [wanted EXCEPT ![a] = NoPorts]
    /\ UNCHANGED <<threads, builderVars, vectorVars, inits, store, call, crashed>>

\* The end of execute: pw_deinit.
Deinit(a) ==
    /\ ~crashed
    /\ stage[a] = "closing"
    /\ stage' = [stage EXCEPT ![a] = "closed"]
    /\ inits' = inits - 1
    /\ UNCHANGED <<threads, builderVars, vectorVars, filter, ports, store, wanted, call, crashed>>

Crashed == crashed /\ UNCHANGED vars

-----------------------------------------------------------------------------
Next ==
    \/ \E what \in Required : Set(what)
    \/ \E what \in Emptied : SetEmpty(what)
    \/ \E d \in Directions, n \in PortNames : AddPort(d, n)
    \/ \E n \in Names : AddBegin(n)
    \/ AddEnd
    \/ Refused \/ BuildCrashes
    \/ \E a \in Apps :
        \/ Build(a) \/ Run(a) \/ ConnectFails(a)
        \/ UpdateFind(a) \/ UpdateStore(a) \/ UseMissingPort(a)
        \/ Destroy(a) \/ Deinit(a)
        \/ \E n \in Names : MergeBegin(a, n)
        \/ MergeEnd(a)
    \/ Crashed

Spec == Init /\ [][Next]_vars
-----------------------------------------------------------------------------
(* Properties *)

Handles == [name : PortNames, direction : Directions, of : Apps \cup {NULL}]

Vector == [names : Seq(Names), cap : Nat]

\* The type invariant.
TypeOK ==
    /\ threads \in ThreadCounts
    /\ given \subseteq Required
    /\ declared \in [Directions -> Seq(PortNames)]
    /\ current \in Vectors
    /\ vector \in [Vectors -> Vector]
    /\ \A v \in Vectors : Len(vector[v].names) <= vector[v].cap
    /\ appending \in [Appenders -> {NoAppend}
                        \cup {p \in [name : Names, into : Vectors, read : Vector] :
                                Len(p.read.names) <= p.read.cap}]
    /\ inits \in Nat
    /\ stage \in [Apps -> {"none", "built", "running", "closing", "closed"}]
    /\ filter \in [Apps -> Apps \cup {NULL}]
    /\ \A a \in Apps : filter[a] \in {a, NULL}
    /\ ports \in [Apps -> [Directions -> Seq(Handles \cup {NULL})]]
    /\ store \in [Apps -> Vectors]
    /\ call \in [Apps -> Nat]
    /\ crashed \in BOOLEAN
    /\ wanted \in [Apps -> [Directions -> Seq(PortNames)]]
    /\ added \in Seq([name : Names, index : Nat])

\* The library is initialised once for every application that still needs it, after
\* refused builds, failed connections and teardowns in any order.
LibraryBalance ==
    ~crashed =>
        inits = Cardinality({a \in Apps : stage[a] \in {"built", "running", "closing"}})

\* An application has the ports declared when it was built, in that order, in the
\* right direction and on its own filter, except those PipeWire refused; what the
\* builder is told later changes none.
PortsAsDeclared ==
    \A a \in Apps, d \in Directions :
        stage[a] \in {"built", "running"} =>
            /\ DOMAIN ports[a][d] = DOMAIN wanted[a][d]
            /\ \A i \in DOMAIN wanted[a][d] : ports[a][d][i] \in
                    {NULL, [name |-> wanted[a][d][i], direction |-> d, of |-> filter[a]]}

\* In a program with one thread, what it adds to the builder, before a build or
\* after it, is in the list of every application, at the place where it was added,
\* whatever the applications merge into that list.  (With a second thread, an add
\* and a merge may run into each other.)
OneList ==
    threads = 1 =>
        \A a \in Apps : stage[a] # "none" =>
            \A k \in DOMAIN added :
                LET list == vector[store[a]].names IN
                /\ added[k].index \in DOMAIN list
                /\ list[added[k].index] = added[k].name

\* Outside mode rt, the storage an update found is still the vector's when the
\* update assigns, in a program with one thread.  (With a second thread, another
\* application of the same builder, or add, may reallocate it.)
OneThreadLosesNothing ==
    threads = 1 =>
        \A a \in Apps : call[a] # NoCall => call[a] = vector[store[a]].cap
=============================================================================
