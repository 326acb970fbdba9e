------------------------------ MODULE FilterApp ------------------------------
(***************************************************************************)
(* A running filter: App, the PipeWire callbacks AppBuilder installs, and  *)
(* the ParametersProperty both use.  The main loop thread runs App::run,   *)
(* dispatches state_changed and param_changed, and tears everything down;  *)
(* the process callback runs the signal processor, on the data thread when *)
(* the filter was connected with PW_FILTER_FLAG_RT_PROCESS (mode "rt") and *)
(* inside the main loop otherwise (mode "main_loop").  Nothing orders the  *)
(* two threads: a search, the test that follows it and an assignment are   *)
(* steps of their own, and so is each entry that is written to a pod.      *)
(***************************************************************************)
EXTENDS Integers, Sequences

CONSTANTS
    Names,            \* Parameter names
    Values,           \* Parameter values (with their types)
    Absent,           \* No value (only the refinement mapping uses it)
    Declared,         \* The parameters given to ParametersBuilder::add
    Batches,          \* The updates parse finds in the pods the remote side sends
    Modes,            \* The modes the program may call App::run with
    InitialCapacity,  \* Capacity of the vector after the declarations
    SizeOf,           \* The bytes an entry takes in a pod, by name and value
    Room              \* The bytes the 1024-byte pod buffer has for entries

Entries == [name : Names, value : Values]

ASSUME DeclaredAssumption == Declared \in Seq(Entries)
ASSUME BatchesAssumption  == Batches \subseteq Seq(Entries)
ASSUME ModesAssumption    == Modes \subseteq {"rt", "main_loop"}
ASSUME RoomAssumption     == Room \in Nat /\ SizeOf \in [Entries -> Nat]
ASSUME AbsentAssumption   == Absent \notin Values
ASSUME CapacityAssumption ==
    /\ InitialCapacity \in Nat
    /\ InitialCapacity >= Len(Declared)

VARIABLES
    pc,         \* What the main thread is doing
    mode,       \* Where the process callback runs
    running,    \* The main loop's running flag
    signalled,  \* SIGINT or SIGTERM is pending on the loop's signal source
    conn,       \* The pw_filter's state
    alive,      \* The handles not yet destroyed: filter, loop, pw (the library)
    proc,       \* "processing" while the signal processor runs
    span,       \* What the processor's ParametersProperty::parameters() returned
    call,       \* The processor's ParametersProperty::update call
    params,     \* *_parameters
    cap,        \* Its capacity; growing reallocates, so it names the storage
    updates,    \* What update_from_pod has left to apply
    pod,        \* What add_to_pod_object has written in the last callback
    published   \* The SPA_PARAM_Props the filter last published

vars == <<pc, mode, running, signalled, conn, alive, proc, span, call,
          params, cap, updates, pod, published>>
lifeVars == <<mode, running, signalled, conn, alive>>
paramVars == <<params, cap, updates, pod, published>>
procVars == <<proc, span, call>>

Handles == {"filter", "loop", "pw"}
NoSpan  == [cap |-> 0, len |-> 0]
Answers == [status : {"idle", "ok", "parameter_not_found"}]

Init ==
    /\ pc = "user"
    /\ mode = "none"
    /\ running = FALSE
    /\ signalled = FALSE
    /\ conn = "unconnected"
    /\ alive = Handles
    /\ proc = "idle"
    /\ span = NoSpan
    /\ call = [status |-> "idle"]
    /\ params = Declared
    /\ cap = InitialCapacity
    /\ updates = <<>>
    /\ pod = <<>>
    /\ published = <<>>

-----------------------------------------------------------------------------
(* The parameter vector *)

NamesOf(ps) == {ps[i].name : i \in DOMAIN ps}

\* std::find_if: the first parameter with the name, for a name that occurs.
FirstIndex(ps, n) ==
    CHOOSE i \in DOMAIN ps :
        /\ ps[i].name = n
        /\ \A j \in 1..(i - 1) : ps[j].name # n

\* The pod with these entries fits in its buffer.
Fits(ps) ==
    LET Size[k \in 0..Len(ps)] == IF k = 0 THEN 0 ELSE Size[k - 1] + SizeOf[ps[k]]
    IN  Size[Len(ps)] <= Room

\* libstdc++ doubles a full vector.
Grown(c) == IF c = 0 THEN 1 ELSE 2 * c

\* Mutants of Merge: the search is dropped; a parameter that changes is erased
\* and appended; the vector is shrunk to its size; a new one goes in front.
AppendAlways(u) ==
    /\ params' = Append(params, u)
    /\ cap' = IF Len(params) = cap THEN Grown(cap) ELSE cap

EraseAndAppend(u) ==
    /\ params' = Append(SelectSeq(params, LAMBDA p : p.name # u.name), u)
    /\ cap' = IF Len(params) = cap THEN Grown(cap) ELSE cap

ShrinkToFit(u) ==
    IF u.name \in NamesOf(params)
    THEN /\ params' = [params EXCEPT ![FirstIndex(params, u.name)].value = u.value]
         /\ cap' = Len(params)
    ELSE /\ params' = Append(params, u)
         /\ cap' = IF Len(params) = cap THEN Grown(cap) ELSE cap

InsertInFront(u) ==
    IF u.name \in NamesOf(params)
    THEN /\ params' = [params EXCEPT ![FirstIndex(params, u.name)].value = u.value]
         /\ cap' = cap
    ELSE /\ params' = <<u>> \o params
         /\ cap' = IF Len(params) = cap THEN Grown(cap) ELSE cap

\* One iteration of update_from_pod: assign to the parameter found, or append.
Merge(u) ==
    IF u.name \in NamesOf(params)
    THEN /\ params' = [params EXCEPT ![FirstIndex(params, u.name)].value = u.value]
         /\ cap' = cap
    ELSE /\ params' = Append(params, u)
         /\ cap' = IF Len(params) = cap THEN Grown(cap) ELSE cap

-----------------------------------------------------------------------------
(* App::run and the teardown, on the main thread *)

\* pw_filter_connect succeeds and pw_main_loop_run starts the loop.
Run(m) ==
    /\ pc \in {"user", "failed"}
    /\ pc' = "loop"
    /\ mode' = m
    /\ running' = TRUE
    /\ conn' = "connecting"
    /\ UNCHANGED <<signalled, alive, paramVars, procVars>>

\* pw_filter_connect fails: run returns and destroys nothing.
ConnectFail ==
    /\ pc = "user"
    /\ pc' = "failed"
    /\ UNCHANGED <<lifeVars, paramVars, procVars>>

\* SIGINT or SIGTERM arrives (the environment's step).
Signal ==
    /\ "loop" \in alive
    /\ ~signalled
    /\ signalled' = TRUE
    /\ UNCHANGED <<pc, mode, running, conn, alive, paramVars, procVars>>

\* The main loop is between two callbacks.
MainFree == pc = "loop" /\ (mode = "main_loop" => proc = "idle")

\* Mutant of HandleSignal: the handler does not quit the loop.
HandlerWithoutQuit ==
    /\ MainFree
    /\ signalled
    /\ signalled' = FALSE
    /\ UNCHANGED <<pc, mode, running, conn, alive, paramVars, procVars>>

\* The signal source calls quit_main_loop.
HandleSignal ==
    /\ MainFree
    /\ signalled
    /\ signalled' = FALSE
    /\ running' = FALSE
    /\ UNCHANGED <<pc, mode, conn, alive, paramVars, procVars>>

\* Mutant of LoopExit: execute() destroys the loop before the filter.
LoopDestroyedFirst ==
    /\ MainFree
    /\ ~running
    /\ pc' = "destroy_loop"
    /\ UNCHANGED <<lifeVars, paramVars, procVars>>

LoopExit ==
    /\ MainFree
    /\ ~running
    /\ pc' = "destroy_filter"
    /\ UNCHANGED <<lifeVars, paramVars, procVars>>

\* pw_filter_destroy takes the node off the data loop, after the callback that
\* may be running there.
DestroyFilter ==
    /\ pc = "destroy_filter"
    /\ proc = "idle"
    /\ pc' = "destroy_loop"
    /\ alive' = alive \ {"filter"}
    /\ conn' = "unconnected"
    /\ UNCHANGED <<mode, running, signalled, paramVars, procVars>>

DestroyLoop ==
    /\ pc = "destroy_loop"
    /\ pc' = "deinit"
    /\ alive' = alive \ {"loop"}
    /\ UNCHANGED <<mode, running, signalled, conn, paramVars, procVars>>

Deinit ==
    /\ pc = "deinit"
    /\ pc' = "done"
    /\ alive' = alive \ {"pw"}
    /\ UNCHANGED <<mode, running, signalled, conn, paramVars, procVars>>

\* run has returned.
Terminated == pc = "done" /\ UNCHANGED vars

-----------------------------------------------------------------------------
(* The callbacks PipeWire makes from the main loop *)

Transitions == {<<"connecting", "paused">>, <<"connecting", "error">>,
                <<"paused", "streaming">>, <<"streaming", "paused">>,
                <<"paused", "error">>, <<"streaming", "error">>}

\* Mutant of StateChanged: it publishes on the way to STREAMING instead.
PublishOnStreaming(to) ==
    /\ MainFree
    /\ <<conn, to>> \in Transitions
    /\ conn' = to
    /\ IF conn = "paused" /\ to = "streaming"
       THEN pc' = "callback" /\ pod' = <<>>
       ELSE UNCHANGED <<pc, pod>>
    /\ UNCHANGED <<mode, running, signalled, alive, params, cap, updates, published, procVars>>

\* state_changed publishes only on the way from CONNECTING to PAUSED.
StateChanged(to) ==
    /\ MainFree
    /\ <<conn, to>> \in Transitions
    /\ conn' = to
    /\ IF conn = "connecting" /\ to = "paused"
       THEN pc' = "callback" /\ pod' = <<>>
       ELSE UNCHANGED <<pc, pod>>
    /\ UNCHANGED <<mode, running, signalled, alive, params, cap, updates, published, procVars>>

\* param_changed with SPA_PARAM_Props and a SPA_PROP_params property (without
\* it, the callback returns and changes nothing).
ParamChanged(batch) ==
    /\ MainFree
    /\ conn \in {"connecting", "paused", "streaming"}
    /\ updates' = batch
    /\ pod' = <<>>
    /\ pc' = "callback"
    /\ UNCHANGED <<lifeVars, params, cap, published, procVars>>

\* Mutant of MergeNext: the loop over the updates returns after the first.
FirstUpdateOnly ==
    /\ pc = "callback"
    /\ updates # <<>>
    /\ Merge(Head(updates))
    /\ updates' = <<>>
    /\ UNCHANGED <<pc, lifeVars, pod, published, procVars>>

MergeNext ==
    /\ pc = "callback"
    /\ updates # <<>>
    /\ Merge(Head(updates))
    /\ updates' = Tail(updates)
    /\ UNCHANGED <<pc, lifeVars, pod, published, procVars>>

\* The tail of both callbacks.  add_to_pod_object walks the vector: it writes one
\* entry after the other, each as it is when its turn comes.
PublishEntry ==
    /\ pc = "callback"
    /\ updates = <<>>
    /\ Len(pod) < Len(params)
    /\ pod' = Append(pod, params[Len(pod) + 1])
    /\ UNCHANGED <<pc, lifeVars, params, cap, updates, published, procVars>>

\* Mutant of PublishEnd: the NULL pod replaces what was published.
PublishNull ==
    /\ pc = "callback"
    /\ updates = <<>>
    /\ Len(pod) = Len(params)
    /\ pc' = "loop"
    /\ published' = IF Fits(pod) THEN pod ELSE Absent
    /\ UNCHANGED <<lifeVars, params, cap, updates, pod, procVars>>

\* The walk is over.  When the pod has not fitted in its 1024 bytes,
\* spa_pod_builder_pop returns NULL and the filter keeps what it published before.
PublishEnd ==
    /\ pc = "callback"
    /\ updates = <<>>
    /\ Len(pod) = Len(params)
    /\ pc' = "loop"
    /\ published' = IF Fits(pod) THEN pod ELSE published
    /\ UNCHANGED <<lifeVars, params, cap, updates, pod, procVars>>

-----------------------------------------------------------------------------
(* The process callback and the signal processor it runs *)

ProcessBegin ==
    /\ conn = "streaming"
    /\ proc = "idle"
    /\ mode = "main_loop" => pc = "loop"
    /\ proc' = "processing"
    /\ UNCHANGED <<pc, lifeVars, paramVars, span, call>>

Updating == call.status \in {"found", "pending"}
Processing == proc = "processing" /\ ~Updating

\* ParametersProperty::parameters()
TakeSpan ==
    /\ Processing
    /\ span' = [cap |-> cap, len |-> Len(params)]
    /\ UNCHANGED <<pc, lifeVars, paramVars, proc, call>>

\* ParametersProperty::update, find_if: the iterator it returns, which is the end
\* of the vector it searched when no parameter has the name.
UpdateFind(n, v) ==
    /\ Processing
    /\ LET end == Len(params) + 1 IN
       call' = [status |-> "found", name |-> n, value |-> v, end |-> end, cap |-> cap,
                index |-> IF n \in NamesOf(params) THEN FirstIndex(params, n) ELSE end]
    /\ UNCHANGED <<pc, lifeVars, paramVars, proc, span>>

\* The iterator is the end of the vector as it is now.
AtEnd == call.cap = cap /\ call.index = Len(params) + 1

\* ParametersProperty::update, the test against end(), which is read again.
UpdateCheck ==
    /\ call.status = "found"
    /\ call' = IF AtEnd THEN [status |-> "parameter_not_found"]
                        ELSE [call EXCEPT !.status = "pending"]
    /\ UNCHANGED <<pc, lifeVars, paramVars, proc, span>>

\* Mutant of UpdateStore: it assigns to a copy of the parameter found.
StoreInCopy ==
    /\ call.status = "pending"
    /\ call' = [status |-> "ok"]
    /\ UNCHANGED <<pc, lifeVars, paramVars, proc, span>>

\* ParametersProperty::update, the assignment.  Through an iterator of storage
\* that was reallocated since, it writes freed memory and is lost.
UpdateStore ==
    /\ call.status = "pending"
    /\ params' = IF call.cap = cap
                 THEN [params EXCEPT ![call.index].value = call.value]
                 ELSE params
    /\ call' = [status |-> "ok"]
    /\ UNCHANGED <<pc, lifeVars, cap, updates, pod, published, proc, span>>

ProcessEnd ==
    /\ Processing
    /\ proc' = "idle"
    /\ span' = NoSpan
    /\ call' = [status |-> "idle"]
    /\ UNCHANGED <<pc, lifeVars, paramVars>>

-----------------------------------------------------------------------------
Next ==
    \/ \E m \in Modes : Run(m)
    \/ ConnectFail \/ LoopExit
    \/ Signal \/ HandleSignal
    \/ DestroyFilter \/ DestroyLoop \/ Deinit \/ Terminated
    \/ \E to \in {"paused", "streaming", "error"} : StateChanged(to)
    \/ \E batch \in Batches : ParamChanged(batch)
    \/ MergeNext \/ PublishEntry \/ PublishEnd
    \/ ProcessBegin \/ TakeSpan \/ UpdateCheck \/ UpdateStore \/ ProcessEnd
    \/ \E n \in Names, v \in Values : UpdateFind(n, v)

Spec == Init /\ [][Next]_vars

\* The loop dispatches a pending signal among its other sources and tests its
\* flag after every dispatch; pw_filter_destroy gets its turn on the data loop;
\* the signal processor returns; neither thread stops inside a function.
Fairness ==
    /\ SF_vars(HandleSignal) /\ SF_vars(LoopExit) /\ SF_vars(DestroyFilter)
    /\ WF_vars(DestroyLoop) /\ WF_vars(Deinit)
    /\ WF_vars(MergeNext) /\ WF_vars(PublishEntry) /\ WF_vars(PublishEnd)
    /\ WF_vars(UpdateCheck) /\ WF_vars(UpdateStore) /\ SF_vars(ProcessEnd)

FairSpec == Spec /\ Fairness
-----------------------------------------------------------------------------
(* Properties *)

\* The type invariant.
TypeOK ==
    /\ pc \in {"user", "failed", "loop", "callback", "destroy_filter",
               "destroy_loop", "deinit", "done"}
    /\ mode \in Modes \cup {"none"}
    /\ running \in BOOLEAN
    /\ signalled \in BOOLEAN
    /\ conn \in {"unconnected", "connecting", "paused", "streaming", "error"}
    /\ alive \subseteq Handles
    /\ proc \in {"idle", "processing"}
    /\ span \in [cap : Nat, len : Nat]
    /\ call \in Answers \cup [status : {"found", "pending"}, name : Names, value : Values,
                              index : Nat, end : Nat, cap : Nat]
    /\ params \in Seq(Entries)
    /\ cap \in Nat
    /\ updates \in Seq(Entries)
    /\ pod \in Seq(Entries)
    /\ published \in Seq(Entries)

\* update_from_pod never makes a name ambiguous: past the declarations (which
\* add() does not check) every name occurs once, whatever the remote side sends
\* and however the threads interleave.
NoNewDuplicates ==
    \A j \in DOMAIN params : j > Len(Declared) =>
        \A i \in 1..(j - 1) : params[i].name # params[j].name

\* A span that parameters() returned dangles only when the processor has a
\* thread of its own and the vector has outgrown the capacity the span saw: a
\* filter that runs in the main loop, or that declares every name it is sent,
\* may keep its span for the whole callback.
Dangling == span # NoSpan /\ span.cap # cap
DanglingOnlyByGrowth == Dangling => mode = "rt" /\ Len(params) > span.cap

\* With every name declared beforehand, no span ever dangles in either mode.
SpansStayLive == ~Dangling

\* What update() assigns through, after the test against end().  In main_loop it
\* is the first parameter of the name.  In rt it is that too for every name
\* find_if met, unless the storage has gone; but the iterator of a name it did not
\* meet passes the test when the main thread has appended in between, and then
\* designates whatever was appended.
IteratorDesignatesName ==
    call.status = "pending" =>
        IF call.cap = cap
        THEN /\ call.index \in DOMAIN params
             /\ call.index = call.end => mode = "rt"
             /\ call.index # call.end =>
                    /\ params[call.index].name = call.name
                    /\ \A j \in 1..(call.index - 1) : params[j].name # call.name
        ELSE mode = "rt" /\ Len(params) > call.cap

\* Whenever the main loop is idle on a filter that has reached PAUSED, the
\* graph sees every parameter name of the store, in order, unless the pod of the
\* last callback did not fit in its buffer.  (Values that the processor shortens
\* afterwards do not help: nothing publishes them.)
PublishedNames ==
    pc = "loop" /\ conn \in {"paused", "streaming"} /\ Fits(pod) =>
        /\ Len(published) = Len(params)
        /\ \A i \in DOMAIN params : published[i].name = params[i].name

\* execute() destroys nothing that a signal processor still running could use:
\* filter, loop and library outlive the last callback.
TeardownOrder == proc = "processing" => alive = Handles

\* The position of a name never changes: parameters are appended, never
\* removed, moved or renamed, by either thread.
NamesStable ==
    [][ /\ Len(params') >= Len(params)
        /\ \A i \in DOMAIN params : params'[i].name = params[i].name ]_vars

\* SIGINT or SIGTERM ends a run in either mode, however busy the remote side
\* and the signal processor are: App::run returns.
SignalEndsRun == (signalled /\ pc \notin {"user", "failed"}) ~> (pc = "done")

-----------------------------------------------------------------------------
(* Refinement of ParameterStore *)

MapOf(ps) ==
    [n \in Names |-> IF n \in NamesOf(ps) THEN ps[FirstIndex(ps, n)].value ELSE Absent]

AbstractCall ==
    IF ~Updating THEN call
    ELSE IF call.index = call.end THEN [status |-> "parameter_not_found"]
    ELSE [status |-> "pending", name |-> call.name, value |-> call.value]

\* Entry by entry: each update of a batch is merged atomically, each entry of a
\* pod is read atomically.
Entry == INSTANCE GatheredStore WITH
            Merges <- {<<e>> : e \in Entries},
            map <- MapOf(params),
            call <- AbstractCall,
            copy <- MapOf(pod),
            published <- MapOf(published)

\* Batch by batch: a batch takes effect when its param_changed begins, and a pod
\* is the store when it is published.
Whole == INSTANCE ParameterStore WITH
            Merges <- Batches,
            map <- Entry!Overridden(MapOf(params), updates),
            call <- AbstractCall,
            published <- MapOf(published)

\* An acknowledged update has taken effect, an update of an unknown name has none,
\* and what is published was read from the store, each value at its own moment,
\* with no name missing.  Holds in both modes as long as the vector does not grow
\* beside the processor.
ImplementsEntries == Entry!GatheredSpec

\* Batches are atomic, acknowledged updates are kept, and what is published is
\* the store at one moment, after whole batches.  Holds in mode "main_loop".
ImplementsBatches == Whole!Spec
=============================================================================
