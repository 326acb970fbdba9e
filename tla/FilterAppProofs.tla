--------------------------- MODULE FilterAppProofs ---------------------------
(***************************************************************************)
(* Proofs about FilterApp for every set of names, values, declarations and *)
(* batches, every capacity, size of entry and size of buffer: the type     *)
(* invariant, the safety invariants and the stability of the names, which  *)
(* all follow from one inductive invariant, IInv, and that FilterApp       *)
(* implements the parameter stores.  It implements GatheredStore, entry by *)
(* entry, when nothing can append under a search or an assignment (the     *)
(* processor runs in the main loop, or every name the remote side sends    *)
(* was declared), and ParameterStore, batch by batch and snapshot by       *)
(* snapshot, in the main loop.                                             *)
(***************************************************************************)
EXTENDS FilterApp, SequenceTheorems, WellFoundedInduction, TLAPS

-----------------------------------------------------------------------------
(* The inductive invariant *)

\* Who may run when: the processor runs only on a connected filter whose
\* handles all live, and blocks the main loop when it runs inside it.
LifeInv ==
    /\ pc \in {"user", "failed", "destroy_loop", "deinit", "done"} =>
            conn = "unconnected" /\ proc = "idle"
    /\ pc \in {"user", "failed", "loop", "callback", "destroy_filter"} => alive = Handles
    /\ pc \notin {"user", "failed"} => mode # "none"
    /\ mode # "rt" /\ proc = "processing" => pc = "loop"
    /\ proc = "idle" => span = NoSpan /\ call.status = "idle"

\* The vector never shrinks and never exceeds its capacity; a span or an
\* iterator of older storage was made before the vector outgrew it.
StorageInv ==
    /\ Len(Declared) <= Len(params)
    /\ Len(params) <= cap
    /\ span.cap <= cap
    /\ span # NoSpan /\ span.cap # cap => mode = "rt" /\ Len(params) > span.cap

\* The iterator of an update, from find_if on: no entry before it has the name; it
\* is an entry with the name, or the end of the vector that was searched, and then
\* either nothing has been appended yet or another thread has.
IterInv ==
    Updating =>
        /\ call.cap <= cap
        /\ call.cap # cap => mode = "rt" /\ Len(params) > call.cap
        /\ call.cap = cap =>
            /\ call.index \in 1..call.end
            /\ call.end <= Len(params) + 1
            /\ \A j \in 1..(call.index - 1) : params[j].name # call.name
            /\ call.index # call.end => params[call.index].name = call.name
            /\ call.index = call.end =>
                \/ call.status = "found" /\ call.end = Len(params) + 1
                \/ mode = "rt" /\ call.end <= Len(params)

\* The pod holds the names of the vector from the first on, and is empty while
\* updates are merged.
PodInv ==
    /\ Len(pod) <= Len(params)
    /\ \A i \in 1..Len(pod) : pod[i].name = params[i].name
    /\ updates # <<>> => pod = <<>>

IInv ==
    /\ TypeOK
    /\ LifeInv
    /\ StorageInv
    /\ IterInv
    /\ PodInv
    /\ NoNewDuplicates
    /\ PublishedNames

-----------------------------------------------------------------------------
(* The parameter vector *)

\* std::find_if returns the first entry with a name that occurs.
LEMMA FirstIndexProperties ==
    ASSUME NEW ps \in Seq(Entries), NEW n \in NamesOf(ps)
    PROVE  /\ FirstIndex(ps, n) \in 1..Len(ps)
           /\ ps[FirstIndex(ps, n)].name = n
           /\ \A j \in 1..(FirstIndex(ps, n) - 1) : ps[j].name # n
<1> DEFINE T == {i \in DOMAIN ps : ps[i].name = n}
           R == OpToRel(<, Nat)
<1>1. T \subseteq Nat /\ T # {} /\ DOMAIN ps = 1..Len(ps) /\ Len(ps) \in Nat
  BY LenProperties DEF NamesOf
<1>2. PICK i \in T : \A j \in T : ~(<<j, i>> \in R)
  <2>1. IsWellFoundedOn(R, Nat)
    BY NatLessThanWellFounded
  <2> HIDE DEF T, R
  <2> QED BY <1>1, <2>1, WFMin
<1>3. \A j \in T : ~(j < i)
  BY <1>1, <1>2 DEF OpToRel
<1>4. i \in DOMAIN ps /\ ps[i].name = n /\ \A j \in 1..(i - 1) : ps[j].name # n
  BY <1>1, <1>3
<1> QED
  BY <1>1, <1>4 DEF FirstIndex

\* Merging an update changes no position's name, appends at most the update
\* itself and only under a new name, and reallocates only a full vector.
LEMMA MergeProperties ==
    ASSUME params \in Seq(Entries), cap \in Nat, Len(params) <= cap,
           NEW u \in Entries, Merge(u)
    PROVE  /\ params' \in Seq(Entries)
           /\ cap' \in Nat
           /\ Len(params') <= cap'
           /\ \A i \in 1..Len(params) : params'[i].name = params[i].name
           /\ \/ Len(params') = Len(params) /\ cap' = cap
              \/ /\ Len(params') = Len(params) + 1
                 /\ params'[Len(params')] = u
                 /\ \A i \in 1..Len(params) : params[i].name # u.name
                 /\ \/ cap' = cap
                    \/ cap' > cap /\ Len(params') > cap
<1> USE LenProperties
<1>1. CASE u.name \in NamesOf(params)
  <2> DEFINE k == FirstIndex(params, u.name)
             e == [params[k] EXCEPT !.value = u.value]
  <2>1. k \in 1..Len(params)
    BY <1>1, FirstIndexProperties
  <2>2. params[k] \in Entries
    BY <2>1, ElementOfSeq
  <2>3. e \in Entries /\ e.name = params[k].name
    BY <2>2 DEF Entries
  <2>4. params' = [params EXCEPT ![k] = e] /\ cap' = cap
    BY <1>1 DEF Merge
  <2> HIDE DEF k, e
  <2>5. /\ params' \in Seq(Entries)
        /\ Len(params') = Len(params)
        /\ \A j \in 1..Len(params) : params'[j] = IF j = k THEN e ELSE params[j]
    BY <2>1, <2>3, <2>4, ExceptSeq
  <2> QED
    BY <2>3, <2>4, <2>5
<1>2. CASE u.name \notin NamesOf(params)
  <2>1. params' = Append(params, u)
    BY <1>2 DEF Merge
  <2>2. /\ params' \in Seq(Entries)
        /\ Len(params') = Len(params) + 1
        /\ \A i \in 1..Len(params) : params'[i] = params[i]
        /\ params'[Len(params) + 1] = u
    BY <2>1, AppendProperties
  <2>3. \A i \in 1..Len(params) : params[i].name # u.name
    BY <1>2 DEF NamesOf
  <2>4. CASE Len(params) = cap
    <3>1. cap' = Grown(cap)
      BY <1>2, <2>4 DEF Merge
    <3>2. cap' \in Nat /\ cap' > cap
      BY <3>1 DEF Grown
    <3> QED BY <2>2, <2>3, <2>4, <3>2
  <2>5. CASE Len(params) # cap
    <3>1. cap' = cap
      BY <1>2, <2>5 DEF Merge
    <3> QED BY <2>2, <2>3, <2>5, <3>1
  <2> QED BY <2>4, <2>5
<1> QED BY <1>1, <1>2

-----------------------------------------------------------------------------
(* IInv is inductive *)

LEMMA InitIInv == Init => IInv
<1> SUFFICES ASSUME Init PROVE IInv
  OBVIOUS
<1> USE DeclaredAssumption, CapacityAssumption, LenProperties DEF Init, NoSpan
<1>1. TypeOK
  BY EmptySeq DEF TypeOK, Answers, Handles
<1>2. LifeInv /\ StorageInv
  BY DEF LifeInv, StorageInv
<1>3. NoNewDuplicates
  BY DEF NoNewDuplicates
<1>4. IterInv /\ PodInv
  BY EmptySeq DEF IterInv, Updating, PodInv
<1>5. PublishedNames
  BY DEF PublishedNames
<1> QED BY <1>1, <1>2, <1>3, <1>4, <1>5 DEF IInv

\* The actions of the main thread and of the environment that leave parameters
\* and processor alone.
LEMMA LifecycleStep ==
    ASSUME IInv,
           \/ \E m \in Modes : Run(m)
           \/ ConnectFail \/ Signal \/ HandleSignal \/ LoopExit
           \/ DestroyFilter \/ DestroyLoop \/ Deinit
           \/ \E to \in {"paused", "streaming", "error"} : StateChanged(to)
    PROVE  IInv'
<1> USE DEF IInv, paramVars, procVars, lifeVars
<1>1. UNCHANGED <<params, cap, updates, published, proc, span, call>>
  BY DEF Run, ConnectFail, Signal, HandleSignal, LoopExit, DestroyFilter,
         DestroyLoop, Deinit, StateChanged
<1>8. UNCHANGED pod \/ (pod' = <<>> /\ pc' = "callback")
  BY DEF Run, ConnectFail, Signal, HandleSignal, LoopExit, DestroyFilter,
         DestroyLoop, Deinit, StateChanged
<1>2. TypeOK'
  <2>1. pc' \in {"user", "failed", "loop", "callback", "destroy_filter",
                 "destroy_loop", "deinit", "done"}
    BY DEF TypeOK, Run, ConnectFail, Signal, HandleSignal, LoopExit, DestroyFilter,
           DestroyLoop, Deinit, StateChanged
  <2>2. mode' \in Modes \cup {"none"}
    BY DEF TypeOK, Run, ConnectFail, Signal, HandleSignal, LoopExit, DestroyFilter,
           DestroyLoop, Deinit, StateChanged
  <2>3. running' \in BOOLEAN /\ signalled' \in BOOLEAN
    BY DEF TypeOK, Run, ConnectFail, Signal, HandleSignal, LoopExit, DestroyFilter,
           DestroyLoop, Deinit, StateChanged
  <2>4. conn' \in {"unconnected", "connecting", "paused", "streaming", "error"}
    BY DEF TypeOK, Run, ConnectFail, Signal, HandleSignal, LoopExit, DestroyFilter,
           DestroyLoop, Deinit, StateChanged
  <2>5. alive' \subseteq Handles
    BY DEF TypeOK, Run, ConnectFail, Signal, HandleSignal, LoopExit, DestroyFilter,
           DestroyLoop, Deinit, StateChanged
  <2>6. pod' \in Seq(Entries)
    BY <1>8, EmptySeq DEF TypeOK
  <2> QED BY <1>1, <2>1, <2>2, <2>3, <2>4, <2>5, <2>6 DEF TypeOK
<1>3. LifeInv'
  BY <1>1, ModesAssumption
     DEF LifeInv, MainFree, Run, ConnectFail, Signal, HandleSignal, LoopExit, TypeOK,
         DestroyFilter, DestroyLoop, Deinit, StateChanged, Transitions
<1>4. mode' = mode \/ proc = "idle"
  BY DEF LifeInv, Run, ConnectFail, Signal, HandleSignal, LoopExit, DestroyFilter,
         DestroyLoop, Deinit, StateChanged
<1>5. StorageInv' /\ IterInv'
  BY <1>1, <1>4 DEF StorageInv, IterInv, Updating, LifeInv, NoSpan
<1>6. NoNewDuplicates' /\ PodInv'
  BY <1>1, <1>8, LenProperties, EmptySeq DEF NoNewDuplicates, PodInv, TypeOK
<1>7. PublishedNames'
  <2> SUFFICES ASSUME pc' = "loop", conn' \in {"paused", "streaming"}
               PROVE  pc = "loop" /\ conn \in {"paused", "streaming"}
    BY <1>1, <1>8 DEF PublishedNames, Fits
  <2> QED
    BY DEF LifeInv, Run, ConnectFail, Signal, HandleSignal, LoopExit, DestroyFilter,
           DestroyLoop, Deinit, StateChanged, MainFree, Transitions
<1> QED BY <1>2, <1>3, <1>5, <1>6, <1>7

LEMMA ParamChangedStep ==
    ASSUME IInv, NEW batch \in Batches, ParamChanged(batch)
    PROVE  IInv'
<1> USE DEF IInv, ParamChanged, MainFree, lifeVars, procVars
<1>1. batch \in Seq(Entries)
  BY BatchesAssumption
<1>2. TypeOK'
  BY <1>1, EmptySeq DEF TypeOK
<1>3. LifeInv'
  BY ModesAssumption DEF LifeInv, TypeOK
<1>4. StorageInv' /\ IterInv' /\ NoNewDuplicates' /\ PublishedNames'
  BY DEF StorageInv, IterInv, Updating, NoNewDuplicates, PublishedNames
<1>5. PodInv'
  BY LenProperties, EmptySeq DEF PodInv, TypeOK
<1> QED BY <1>2, <1>3, <1>4, <1>5

LEMMA PublishEntryStep ==
    ASSUME IInv, PublishEntry
    PROVE  IInv'
<1> USE DEF IInv, PublishEntry, lifeVars, procVars
<1> DEFINE k == Len(pod) + 1
           e == params[k]
<1>1. /\ params \in Seq(Entries) /\ pod \in Seq(Entries)
      /\ Len(params) \in Nat /\ Len(pod) \in Nat
  BY LenProperties DEF TypeOK
<1>2. k \in 1..Len(params)
  BY <1>1
<1>3. e \in Entries
  BY <1>1, <1>2, ElementOfSeq
<1>4. pod' = Append(pod, e)
  OBVIOUS
<1> HIDE DEF e
<1>5. /\ pod' \in Seq(Entries) /\ Len(pod') = k
      /\ \A i \in 1..Len(pod) : pod'[i] = pod[i]
      /\ pod'[k] = e
  BY <1>1, <1>3, <1>4, AppendProperties
<1>6. TypeOK' /\ LifeInv'
  BY <1>5 DEF TypeOK, LifeInv
<1>7. StorageInv' /\ IterInv' /\ NoNewDuplicates' /\ PublishedNames'
  BY DEF StorageInv, IterInv, Updating, NoNewDuplicates, PublishedNames
<1>8. PodInv'
  <2>1. ASSUME NEW i \in 1..k PROVE pod'[i].name = params[i].name
    <3>1. CASE i = k
      BY <1>5, <3>1 DEF e
    <3>2. CASE i # k
      <4>1. i \in 1..Len(pod)
        BY <1>1, <3>2
      <4> QED BY <1>5, <4>1 DEF PodInv
    <3> QED BY <3>1, <3>2
  <2> QED BY <1>2, <1>5, <2>1 DEF PodInv
<1> QED BY <1>6, <1>7, <1>8

LEMMA PublishEndStep ==
    ASSUME IInv, PublishEnd
    PROVE  IInv'
<1> USE DEF IInv, PublishEnd, lifeVars, procVars
<1>1. TypeOK' /\ LifeInv'
  BY DEF TypeOK, LifeInv
<1>2. StorageInv' /\ IterInv' /\ NoNewDuplicates' /\ PodInv'
  BY DEF StorageInv, IterInv, Updating, NoNewDuplicates, PodInv
<1>3. PublishedNames'
  <2> SUFFICES ASSUME Fits(pod')
               PROVE  /\ Len(published') = Len(params)
                      /\ \A i \in DOMAIN params : published'[i].name = params[i].name
    BY DEF PublishedNames, Fits
  <2>1. published' = pod
    BY DEF Fits
  <2>2. DOMAIN params = 1..Len(params)
    BY LenProperties DEF TypeOK
  <2> QED BY <2>1, <2>2 DEF PodInv
<1> QED BY <1>1, <1>2, <1>3

LEMMA MergeNextStep ==
    ASSUME IInv, MergeNext
    PROVE  IInv'
<1> DEFINE u == Head(updates)
<1> USE DEF IInv, lifeVars, procVars
<1>1. u \in Entries /\ updates' \in Seq(Entries)
  BY HeadTailProperties DEF TypeOK, MergeNext
<1>2. params \in Seq(Entries) /\ cap \in Nat /\ Len(params) <= cap
  BY DEF TypeOK, StorageInv
<1>3. Merge(u)
  BY DEF MergeNext
<1> HIDE DEF u
<1>4. /\ params' \in Seq(Entries)
      /\ cap' \in Nat
      /\ Len(params') <= cap'
      /\ \A i \in 1..Len(params) : params'[i].name = params[i].name
      /\ \/ Len(params') = Len(params) /\ cap' = cap
         \/ /\ Len(params') = Len(params) + 1
            /\ params'[Len(params')] = u
            /\ \A i \in 1..Len(params) : params[i].name # u.name
            /\ \/ cap' = cap
               \/ cap' > cap /\ Len(params') > cap
  BY <1>1, <1>2, <1>3, MergeProperties
<1> DEFINE L == Len(params)
           M == Len(params')
<1>5. /\ L \in Nat /\ M \in Nat /\ Len(Declared) \in Nat /\ Len(Declared) <= L
      /\ L <= cap /\ M <= cap' /\ cap \in Nat /\ cap' \in Nat
      /\ M = L \/ M = L + 1
      /\ cap' = cap \/ (cap' > cap /\ M > cap)
      /\ DOMAIN params = 1..L
      /\ DOMAIN params' = 1..M
  BY <1>2, <1>4, LenProperties, DeclaredAssumption DEF StorageInv
<1>6. UNCHANGED <<pc, mode, running, signalled, conn, alive, pod, published, proc, span, call>>
      /\ pc = "callback" /\ pod = <<>>
  BY DEF MergeNext, PodInv
<1>7. TypeOK'
  BY <1>1, <1>4, <1>6 DEF TypeOK
<1>8. LifeInv'
  BY <1>6 DEF LifeInv
<1>9. proc = "processing" => mode = "rt"
  BY <1>6 DEF LifeInv
<1>10. span.cap \in Nat /\ (span # NoSpan => proc = "processing")
  BY DEF TypeOK, LifeInv
<1>11. Updating => /\ proc = "processing" /\ call.cap \in Nat /\ call.cap <= cap
                   /\ call.end \in Nat /\ call.index \in Nat
  BY DEF TypeOK, LifeInv, Answers, IterInv, Updating
<1>12. StorageInv'
  <2> DEFINE c == span.cap
  <2>1. /\ c \in Nat /\ c <= cap
        /\ span # NoSpan /\ c # cap => L > c
    BY <1>10 DEF StorageInv
  <2>2. c <= cap' /\ (span # NoSpan /\ c # cap' => M > c)
    <3> HIDE DEF c, L, M
    <3> QED BY <1>5, <2>1
  <2>4. Len(Declared) <= M
    <3> HIDE DEF L, M
    <3> QED BY <1>5
  <2> QED BY <1>5, <1>6, <1>9, <1>10, <2>2, <2>4 DEF StorageInv
<1>13. IterInv'
  <2> DEFINE d == call.cap
             k == call.index
             end == call.end
  <2> SUFFICES ASSUME Updating
               PROVE  /\ d <= cap'
                      /\ d # cap' => mode = "rt" /\ M > d
                      /\ d = cap' =>
                          /\ k \in 1..end /\ end <= M + 1
                          /\ \A j \in 1..(k - 1) : params'[j].name # call.name
                          /\ k # end => params'[k].name = call.name
                          /\ k = end => \/ call.status = "found" /\ end = M + 1
                                        \/ mode = "rt" /\ end <= M
    BY <1>6 DEF IterInv, Updating
  <2>1. d <= cap /\ d \in Nat /\ k \in Nat /\ end \in Nat /\ mode = "rt"
    BY <1>9, <1>11
  <2>2. d # cap => L > d
    BY DEF IterInv
  <2>3. d = cap =>
           /\ k \in 1..end /\ end <= L + 1
           /\ \A j \in 1..(k - 1) : params[j].name # call.name
           /\ k # end => params[k].name = call.name
           /\ k = end => \/ call.status = "found" /\ end = L + 1
                         \/ end <= L
    BY DEF IterInv
  <2>4. \A j \in 1..L : params'[j].name = params[j].name
    BY <1>4
  <2>5. d <= cap' /\ (d # cap' => M > d)
    <3> HIDE DEF d, L, M
    <3> QED BY <1>5, <2>1, <2>2
  <2>6. ASSUME d = cap'
        PROVE  /\ k \in 1..end /\ end <= M + 1
               /\ \A j \in 1..(k - 1) : params'[j].name # call.name
               /\ k # end => params'[k].name = call.name
               /\ k = end => \/ call.status = "found" /\ end = M + 1
                             \/ end <= M
    <3>1. d = cap
      <4> HIDE DEF d, L, M
      <4> QED BY <1>5, <2>1, <2>6
    <3>2. /\ \A j \in 1..(k - 1) : j \in 1..L
          /\ k # end => k \in 1..L
      <4>1. /\ k \in 1..end /\ end <= L + 1
            /\ L \in Nat /\ end \in Nat /\ k \in Nat
        BY <1>5, <2>1, <2>3, <3>1
      <4> HIDE DEF k, end, L
      <4> QED BY <4>1
    <3>3. /\ \A j \in 1..(k - 1) : params'[j].name # call.name
          /\ k # end => params'[k].name = call.name
      BY <2>3, <2>4, <3>1, <3>2
    <3>4. /\ k \in 1..end /\ end <= M + 1
          /\ k = end => \/ call.status = "found" /\ end = M + 1
                        \/ end <= M
      <4>1. k \in 1..end /\ end <= L + 1
        BY <2>3, <3>1
      <4>2. end <= M + 1 /\ (end <= M \/ (end = M + 1 /\ ~(end <= L)))
        <5>1. L \in Nat /\ (M = L \/ M = L + 1) /\ end \in Nat /\ end <= L + 1
          BY <1>5, <2>1, <4>1
        <5> HIDE DEF end, L, M
        <5> QED BY <5>1
      <4>3. k = end => call.status = "found" \/ end <= L
        BY <2>3, <3>1
      <4> QED BY <4>1, <4>2, <4>3
    <3> QED BY <3>3, <3>4
  <2> QED BY <2>1, <2>5, <2>6
<1>14. NoNewDuplicates'
  <2> SUFFICES ASSUME NEW j \in 1..M, j > Len(Declared), NEW i \in 1..(j - 1)
               PROVE  params'[i].name # params'[j].name
    BY <1>5 DEF NoNewDuplicates
  <2>1. i \in 1..L /\ (j \in 1..L \/ (j = M /\ M = L + 1))
    <3> HIDE DEF L, M
    <3> QED BY <1>5
  <2>2. params'[i].name = params[i].name
    BY <1>4, <2>1
  <2>3. CASE j \in 1..L
    <3>1. params[i].name # params[j].name
      BY <1>5, <2>3 DEF NoNewDuplicates
    <3>2. params'[j].name = params[j].name
      BY <1>4, <2>3
    <3> QED BY <2>2, <3>1, <3>2
  <2>4. CASE j = M /\ M = L + 1
    <3>1. M # L
      <4> HIDE DEF L, M
      <4> QED BY <1>5, <2>4
    <3>2. params'[M] = u /\ params[i].name # u.name
      BY <1>4, <2>1, <3>1
    <3> QED BY <2>2, <2>4, <3>2
  <2> QED BY <2>1, <2>3, <2>4
<1>15. PublishedNames'
  BY <1>6 DEF PublishedNames
<1>16. PodInv'
  <2>1. pod' = <<>> /\ Len(<<>>) = 0 /\ M \in Nat
    BY <1>5, <1>6
  <2> QED BY <2>1 DEF PodInv
<1> QED BY <1>7, <1>8, <1>12, <1>13, <1>14, <1>15, <1>16

\* The processor's steps that leave the parameters alone.
LEMMA ProcessorStep ==
    ASSUME IInv,
           \/ ProcessBegin \/ TakeSpan \/ UpdateCheck \/ ProcessEnd
           \/ \E n \in Names, v \in Values : UpdateFind(n, v)
    PROVE  IInv'
<1> USE DEF IInv, lifeVars, paramVars
<1>1. UNCHANGED <<pc, mode, running, signalled, conn, alive, params, cap, updates, pod, published>>
  BY DEF ProcessBegin, TakeSpan, UpdateCheck, ProcessEnd, UpdateFind
<1>2. params \in Seq(Entries) /\ cap \in Nat /\ Len(params) \in Nat
      /\ DOMAIN params = 1..Len(params)
  BY LenProperties DEF TypeOK
<1>3. NoNewDuplicates' /\ PublishedNames' /\ PodInv'
  BY <1>1 DEF NoNewDuplicates, PublishedNames, Fits, PodInv
<1>4. CASE ProcessBegin
  <2>1. TypeOK' /\ StorageInv' /\ IterInv'
    BY <1>1, <1>4 DEF ProcessBegin, TypeOK, StorageInv, IterInv, Updating
  <2>2. LifeInv'
    BY <1>1, <1>4, ModesAssumption DEF ProcessBegin, LifeInv, TypeOK
  <2> QED BY <1>3, <2>1, <2>2
<1>5. CASE TakeSpan
  <2>1. TypeOK' /\ IterInv'
    BY <1>1, <1>2, <1>5 DEF TakeSpan, TypeOK, IterInv, Updating
  <2>2. LifeInv' /\ StorageInv'
    BY <1>1, <1>2, <1>5 DEF TakeSpan, Processing, LifeInv, StorageInv
  <2> QED BY <1>3, <2>1, <2>2
<1>6. CASE ProcessEnd
  <2>1. TypeOK' /\ IterInv'
    BY <1>1, <1>6 DEF ProcessEnd, TypeOK, NoSpan, IterInv, Updating, Answers
  <2>2. LifeInv' /\ StorageInv'
    BY <1>1, <1>2, <1>6 DEF ProcessEnd, LifeInv, StorageInv, NoSpan
  <2> QED BY <1>3, <2>1, <2>2
<1>7. ASSUME NEW n \in Names, NEW v \in Values, UpdateFind(n, v)
      PROVE  IInv'
  <2> DEFINE end == Len(params) + 1
             k == IF n \in NamesOf(params) THEN FirstIndex(params, n) ELSE end
  <2>1. UNCHANGED <<proc, span>> /\ proc = "processing"
    BY <1>7 DEF UpdateFind, Processing
  <2>2. /\ k \in 1..end
        /\ \A j \in 1..(k - 1) : params[j].name # n
        /\ k # end => params[k].name = n
    <3>1. CASE n \in NamesOf(params)
      <4>1. /\ k \in 1..Len(params) /\ params[k].name = n
            /\ \A j \in 1..(k - 1) : params[j].name # n
        BY <1>2, <3>1, FirstIndexProperties
      <4> HIDE DEF k
      <4> QED BY <1>2, <4>1
    <3>2. CASE n \notin NamesOf(params)
      <4>1. k = end /\ end - 1 = Len(params) /\ end \in 1..end
        BY <1>2, <3>2
      <4>2. \A j \in 1..Len(params) : params[j].name # n
        BY <1>2, <3>2 DEF NamesOf
      <4> HIDE DEF k, end
      <4> QED BY <4>1, <4>2
    <3> QED BY <3>1, <3>2
  <2>3. call' = [status |-> "found", name |-> n, value |-> v, end |-> end, cap |-> cap,
                 index |-> k]
    BY <1>7 DEF UpdateFind
  <2> HIDE DEF k
  <2>4. k \in Nat /\ end \in Nat
    BY <1>2, <2>2
  <2>5. call' \in [status : {"found", "pending"}, name : Names, value : Values,
                   index : Nat, end : Nat, cap : Nat]
    BY <1>2, <2>3, <2>4
  <2>6. TypeOK' /\ LifeInv'
    BY <1>1, <2>1, <2>5 DEF TypeOK, LifeInv
  <2>7. StorageInv'
    BY <1>1, <2>1 DEF StorageInv
  <2>8. IterInv'
    BY <1>1, <1>2, <2>2, <2>3 DEF IterInv
  <2> QED BY <1>3, <2>6, <2>7, <2>8
<1>8. CASE UpdateCheck
  <2>1. UNCHANGED <<proc, span>> /\ call.status = "found" /\ proc = "processing"
    BY <1>8 DEF UpdateCheck, LifeInv, TypeOK
  <2>2. StorageInv'
    BY <1>1, <2>1 DEF StorageInv
  <2>3. CASE AtEnd
    <3>1. call' = [status |-> "parameter_not_found"]
      BY <1>8, <2>3 DEF UpdateCheck
    <3>2. TypeOK' /\ LifeInv'
      BY <1>1, <2>1, <3>1 DEF TypeOK, LifeInv, Answers
    <3>3. IterInv'
      BY <3>1 DEF IterInv, Updating
    <3> QED BY <1>3, <2>2, <3>2, <3>3
  <2>4. CASE ~AtEnd
    <3>1. call' = [call EXCEPT !.status = "pending"]
      BY <1>8, <2>4 DEF UpdateCheck
    <3>2. call \in [status : {"found", "pending"}, name : Names, value : Values,
                    index : Nat, end : Nat, cap : Nat]
      BY <2>1 DEF TypeOK, Answers
    <3>3. /\ call' \in [status : {"found", "pending"}, name : Names, value : Values,
                        index : Nat, end : Nat, cap : Nat]
          /\ call'.status = "pending" /\ call'.name = call.name /\ call'.index = call.index
          /\ call'.end = call.end /\ call'.cap = call.cap
      BY <3>1, <3>2
    <3>4. TypeOK' /\ LifeInv'
      BY <1>1, <2>1, <3>3 DEF TypeOK, LifeInv
    <3>5. call.cap = cap /\ call.index = call.end => call.end # Len(params) + 1
      BY <2>4 DEF AtEnd
    <3>6. IterInv'
      BY <1>1, <2>1, <3>3, <3>5 DEF IterInv, Updating
    <3> QED BY <1>3, <2>2, <3>4, <3>6
  <2> QED BY <2>3, <2>4
<1> QED BY <1>4, <1>5, <1>6, <1>7, <1>8

\* The processor's assignment changes no name and no length.
LEMMA UpdateStoreProperties ==
    ASSUME IInv, UpdateStore
    PROVE  /\ params' \in Seq(Entries)
           /\ Len(params') = Len(params)
           /\ \A i \in 1..Len(params) : params'[i].name = params[i].name
<1>1. params \in Seq(Entries) /\ DOMAIN params = 1..Len(params)
  BY LenProperties DEF IInv, TypeOK
<1>2. call.value \in Values
  BY DEF IInv, UpdateStore, TypeOK, Answers
<1>3. CASE call.cap = cap
  <2> DEFINE k == call.index
             e == [params[k] EXCEPT !.value = call.value]
  <2>1. k \in 1..Len(params)
    <3>1. /\ k \in 1..call.end /\ call.end \in Nat /\ Len(params) \in Nat
          /\ call.end <= Len(params) + 1
          /\ k = call.end => call.end <= Len(params)
      BY <1>1, <1>3, LenProperties DEF IInv, UpdateStore, IterInv, Updating, TypeOK, Answers
    <3> DEFINE end == call.end
    <3> HIDE DEF k, end
    <3> QED BY <3>1 DEF end
  <2>2. params[k] \in Entries
    BY <1>1, <2>1, ElementOfSeq
  <2>3. e \in Entries /\ e.name = params[k].name
    BY <1>2, <2>2 DEF Entries
  <2>4. params' = [params EXCEPT ![k] = e]
    BY <1>3 DEF UpdateStore
  <2> HIDE DEF k, e
  <2> QED
    BY <1>1, <2>1, <2>3, <2>4, ExceptSeq
<1>4. CASE call.cap # cap
  BY <1>1, <1>4 DEF UpdateStore
<1> QED BY <1>3, <1>4

LEMMA UpdateStoreStep ==
    ASSUME IInv, UpdateStore
    PROVE  IInv'
<1> USE DEF IInv, lifeVars
<1>1. UNCHANGED <<pc, mode, running, signalled, conn, alive, cap, updates, pod, published,
                  proc, span>>
      /\ call' = [status |-> "ok"]
  BY DEF UpdateStore
<1>2. params \in Seq(Entries) /\ Len(params) \in Nat /\ DOMAIN params = 1..Len(params)
  BY LenProperties DEF TypeOK
<1>3. proc = "processing"
  BY DEF UpdateStore, LifeInv, TypeOK
<1>4. /\ params' \in Seq(Entries)
      /\ Len(params') = Len(params)
      /\ \A i \in 1..Len(params) : params'[i].name = params[i].name
  BY UpdateStoreProperties
<1>5. DOMAIN params' = 1..Len(params)
  BY <1>4, LenProperties
<1>6. TypeOK' /\ LifeInv'
  BY <1>1, <1>3, <1>4 DEF TypeOK, LifeInv, Answers
<1>7. StorageInv' /\ IterInv'
  BY <1>1, <1>4 DEF StorageInv, IterInv, Updating
<1>10. PodInv'
  <2>1. ASSUME NEW i \in 1..Len(pod) PROVE i \in 1..Len(params)
    <3>1. Len(pod) \in Nat /\ Len(pod) <= Len(params)
      BY LenProperties DEF TypeOK, PodInv
    <3> QED BY <1>2, <3>1
  <2> QED BY <1>1, <1>4, <2>1 DEF PodInv
<1>8. NoNewDuplicates'
  BY <1>2, <1>4, <1>5, DeclaredAssumption, LenProperties DEF NoNewDuplicates
<1>9. PublishedNames'
  BY <1>1, <1>2, <1>4, <1>5 DEF PublishedNames, Fits
<1> QED BY <1>6, <1>7, <1>8, <1>9, <1>10

LEMMA NextIInv == IInv /\ [Next]_vars => IInv'
<1> SUFFICES ASSUME IInv, [Next]_vars PROVE IInv'
  OBVIOUS
<1>1. CASE UNCHANGED vars
  BY <1>1 DEF vars, IInv, TypeOK, LifeInv, StorageInv, NoNewDuplicates,
              IterInv, Updating, PodInv, PublishedNames, Fits
<1>2. CASE Terminated
  BY <1>1, <1>2 DEF Terminated
<1>3. CASE \/ \E m \in Modes : Run(m)
           \/ ConnectFail \/ Signal \/ HandleSignal \/ LoopExit
           \/ DestroyFilter \/ DestroyLoop \/ Deinit
           \/ \E to \in {"paused", "streaming", "error"} : StateChanged(to)
  BY <1>3, LifecycleStep
<1>4. CASE \E batch \in Batches : ParamChanged(batch)
  BY <1>4, ParamChangedStep
<1>5. CASE PublishEntry \/ PublishEnd
  BY <1>5, PublishEntryStep, PublishEndStep
<1>6. CASE MergeNext
  BY <1>6, MergeNextStep
<1>7. CASE \/ ProcessBegin \/ TakeSpan \/ UpdateCheck \/ ProcessEnd
           \/ \E n \in Names, v \in Values : UpdateFind(n, v)
  BY <1>7, ProcessorStep
<1>8. CASE UpdateStore
  BY <1>8, UpdateStoreStep
<1> QED BY <1>1, <1>2, <1>3, <1>4, <1>5, <1>6, <1>7, <1>8 DEF Next

-----------------------------------------------------------------------------
(* The theorems *)

LEMMA SpecIInv == Spec => []IInv
<1> QED BY InitIInv, NextIInv, PTL DEF Spec

\* Type correctness of the whole application.
THEOREM TypeCorrect == Spec => []TypeOK
<1>1. IInv => TypeOK
  BY DEF IInv
<1> QED BY <1>1, SpecIInv, PTL

\* No remote batch, however it interleaves with the processor, makes a name
\* ambiguous.
THEOREM NamesStayUnique == Spec => []NoNewDuplicates
<1>1. IInv => NoNewDuplicates
  BY DEF IInv
<1> QED BY <1>1, SpecIInv, PTL

\* A span dangles only on the data thread and only once the vector has outgrown
\* the capacity the span was taken at.
THEOREM SpansDangleOnlyByGrowth == Spec => []DanglingOnlyByGrowth
<1>1. IInv => DanglingOnlyByGrowth
  BY DEF IInv, StorageInv, DanglingOnlyByGrowth, Dangling
<1> QED BY <1>1, SpecIInv, PTL

\* What update() assigns through, in either mode: the parameter of the name when
\* find_if met it; what was appended in between, in rt, when it did not; freed
\* storage, in rt, when the vector was reallocated.
THEOREM IteratorsStayValid == Spec => []IteratorDesignatesName
<1>1. ASSUME IInv PROVE IteratorDesignatesName
  <2> SUFFICES ASSUME call.status = "pending"
               PROVE  IF call.cap = cap
                      THEN /\ call.index \in DOMAIN params
                           /\ call.index = call.end => mode = "rt"
                           /\ call.index # call.end =>
                                /\ params[call.index].name = call.name
                                /\ \A j \in 1..(call.index - 1) : params[j].name # call.name
                      ELSE mode = "rt" /\ Len(params) > call.cap
    BY DEF IteratorDesignatesName
  <2>1. Updating
    BY DEF Updating
  <2> DEFINE k == call.index
             end == call.end
             L == Len(params)
  <2>2. ASSUME call.cap = cap PROVE k \in DOMAIN params
    <3>1. /\ k \in 1..end /\ end <= L + 1 /\ (k = end => end <= L)
      BY <1>1, <2>1, <2>2 DEF IInv, IterInv
    <3>2. end \in Nat /\ L \in Nat /\ DOMAIN params = 1..L
      BY <1>1, LenProperties DEF IInv, TypeOK, Answers
    <3> HIDE DEF k, end, L
    <3> QED BY <3>1, <3>2
  <2> QED BY <1>1, <2>1, <2>2 DEF IInv, IterInv
<1> QED BY <1>1, SpecIInv, PTL

\* The graph sees every name unless the last pod did not fit in its buffer.
THEOREM NamesArePublished == Spec => []PublishedNames
<1>1. IInv => PublishedNames
  BY DEF IInv
<1> QED BY <1>1, SpecIInv, PTL

\* Filter, loop and library outlive every process callback.
THEOREM TeardownIsSafe == Spec => []TeardownOrder
<1>1. IInv => TeardownOrder
  BY DEF IInv, TypeOK, LifeInv, TeardownOrder
<1> QED BY <1>1, SpecIInv, PTL

\* No step of either thread moves, renames or removes a parameter.
THEOREM NamesNeverMove == Spec => NamesStable
<1>1. ASSUME IInv, [Next]_vars
      PROVE  /\ Len(params') >= Len(params)
             /\ \A i \in DOMAIN params : params'[i].name = params[i].name
  <2>1. params \in Seq(Entries) /\ Len(params) \in Nat /\ DOMAIN params = 1..Len(params)
    BY <1>1, LenProperties DEF IInv, TypeOK
  <2>2. CASE UNCHANGED params
    BY <2>1, <2>2
  <2>3. CASE UpdateStore
    BY <1>1, <2>1, <2>3, UpdateStoreProperties
  <2>4. CASE MergeNext
    <3>1. Head(updates) \in Entries /\ cap \in Nat /\ Len(params) <= cap
      BY <1>1, <2>4, HeadTailProperties DEF IInv, TypeOK, StorageInv, MergeNext
    <3>2. Merge(Head(updates))
      BY <2>4 DEF MergeNext
    <3> QED BY <2>1, <3>1, <3>2, MergeProperties
  <2>5. UNCHANGED params \/ UpdateStore \/ MergeNext
    BY <1>1 DEF Next, vars, Run, ConnectFail, Signal, HandleSignal, LoopExit, DestroyFilter,
           DestroyLoop, Deinit, StateChanged, Terminated, ParamChanged, PublishEntry, PublishEnd,
           ProcessBegin, TakeSpan, ProcessEnd, UpdateFind, UpdateCheck, paramVars
  <2> QED BY <2>2, <2>3, <2>4, <2>5
<1> QED BY <1>1, SpecIInv, PTL DEF Spec, NamesStable

-----------------------------------------------------------------------------
(* Refinement *)

\* The remote side only sends declared names.
OnlyDeclaredNames ==
    \A b \in Batches : \A i \in 1..Len(b) : b[i].name \in NamesOf(Declared)

\* The vector an update searched is still the vector, and has not grown.
NoLoss ==
    Updating =>
        /\ call.cap = cap
        /\ call.index = call.end => call.status = "found" /\ call.end = Len(params) + 1

-----------------------------------------------------------------------------
(* The map the vector represents *)

\* A name is in the map exactly when it is in the vector.
LEMMA MapOfAbsent ==
    ASSUME NEW ps \in Seq(Entries), NEW n \in Names
    PROVE  MapOf(ps)[n] = Absent <=> n \notin NamesOf(ps)
<1>1. CASE n \in NamesOf(ps)
  <2> DEFINE k == FirstIndex(ps, n)
  <2>1. k \in 1..Len(ps)
    BY <1>1, FirstIndexProperties
  <2>2. ps[k] \in Entries
    BY <2>1, ElementOfSeq
  <2>3. MapOf(ps)[n] = ps[k].value
    BY <1>1 DEF MapOf
  <2> HIDE DEF k
  <2>4. ps[k].value \in Values
    BY <2>2 DEF Entries
  <2> QED BY <1>1, <2>3, <2>4, AbsentAssumption
<1>2. CASE n \notin NamesOf(ps)
  BY <1>2 DEF MapOf
<1> QED BY <1>1, <1>2

LEMMA MapOfNone == MapOf(<<>>) = [n \in Names |-> Absent]
<1>1. NamesOf(<<>>) = {}
  BY DEF NamesOf
<1> QED BY <1>1 DEF MapOf

LEMMA MapOfType ==
    ASSUME NEW ps \in Seq(Entries)
    PROVE  MapOf(ps) \in [Names -> Values \cup {Absent}]
<1> SUFFICES ASSUME NEW n \in Names, n \in NamesOf(ps)
             PROVE  ps[FirstIndex(ps, n)].value \in Values
  BY DEF MapOf
<1> DEFINE k == FirstIndex(ps, n)
<1>1. k \in 1..Len(ps)
  BY FirstIndexProperties
<1>2. ps[k] \in Entries
  BY <1>1, ElementOfSeq
<1> HIDE DEF k
<1> QED BY <1>2 DEF Entries, k

\* An entry with the name and no earlier one with it is the first.
LEMMA FirstIndexUnique ==
    ASSUME NEW ps \in Seq(Entries), NEW n, NEW k \in 1..Len(ps),
           ps[k].name = n, \A j \in 1..(k - 1) : ps[j].name # n
    PROVE  n \in NamesOf(ps) /\ FirstIndex(ps, n) = k
<1>1. DOMAIN ps = 1..Len(ps) /\ Len(ps) \in Nat
  BY LenProperties
<1>2. n \in NamesOf(ps)
  BY <1>1 DEF NamesOf
<1> DEFINE f == FirstIndex(ps, n)
<1>3. f \in 1..Len(ps) /\ ps[f].name = n /\ \A j \in 1..(f - 1) : ps[j].name # n
  BY <1>2, FirstIndexProperties
<1> HIDE DEF f
<1>4. ~(f < k) /\ ~(k < f)
  BY <1>1, <1>3
<1> QED BY <1>1, <1>2, <1>3, <1>4 DEF f

\* Keeping every position's name keeps the first index of every name.
LEMMA FirstIndexStable ==
    ASSUME NEW ps \in Seq(Entries), NEW qs \in Seq(Entries), Len(ps) <= Len(qs),
           \A i \in 1..Len(ps) : qs[i].name = ps[i].name,
           NEW n \in NamesOf(ps)
    PROVE  n \in NamesOf(qs) /\ FirstIndex(qs, n) = FirstIndex(ps, n)
<1> DEFINE k == FirstIndex(ps, n)
<1>1. k \in 1..Len(ps) /\ ps[k].name = n /\ \A j \in 1..(k - 1) : ps[j].name # n
  BY FirstIndexProperties
<1> HIDE DEF k
<1>2. Len(ps) \in Nat /\ Len(qs) \in Nat
  BY LenProperties
<1>3. k \in 1..Len(qs) /\ \A j \in 1..(k - 1) : j \in 1..Len(ps)
  BY <1>1, <1>2
<1>4. qs[k].name = n /\ \A j \in 1..(k - 1) : qs[j].name # n
  BY <1>1, <1>3
<1> QED BY <1>3, <1>4, FirstIndexUnique DEF k

\* Assigning to the first parameter of a name overrides the name in the map.
LEMMA MapOfAssign ==
    ASSUME NEW ps \in Seq(Entries), NEW e \in Entries, e.name \in NamesOf(ps),
           NEW qs \in Seq(Entries),
           qs = [ps EXCEPT ![FirstIndex(ps, e.name)] = e]
    PROVE  MapOf(qs) = [MapOf(ps) EXCEPT ![e.name] = e.value]
<1> DEFINE n == e.name
           k == FirstIndex(ps, n)
<1>1. k \in 1..Len(ps) /\ ps[k].name = n
  BY FirstIndexProperties
<1>4. qs = [ps EXCEPT ![k] = e]
  OBVIOUS
<1>5. k = FirstIndex(ps, n) /\ e.name = n /\ n \in NamesOf(ps)
  OBVIOUS
<1> HIDE DEF n, k
<1>6. /\ Len(qs) = Len(ps)
      /\ \A i \in 1..Len(ps) : qs[i] = IF i = k THEN e ELSE ps[i]
  BY <1>1, <1>4, ExceptSeq
<1>7. \A i \in 1..Len(ps) : qs[i].name = ps[i].name /\ ps[i].name = qs[i].name
  BY <1>1, <1>5, <1>6
<1>8. DOMAIN qs = 1..Len(ps) /\ DOMAIN ps = 1..Len(ps) /\ Len(ps) \in Nat
  BY <1>6, LenProperties
<1>9. NamesOf(qs) = NamesOf(ps)
  BY <1>7, <1>8 DEF NamesOf
<1>10. \A m \in NamesOf(ps) : FirstIndex(qs, m) = FirstIndex(ps, m)
  <2>1. Len(ps) <= Len(qs)
    BY <1>6, <1>8
  <2>2. \A i \in 1..Len(ps) : qs[i].name = ps[i].name
    BY <1>7
  <2> QED BY <2>1, <2>2, FirstIndexStable, ZenonT(30)
<1>11. ASSUME NEW m \in Names
       PROVE  MapOf(qs)[m] = [MapOf(ps) EXCEPT ![n] = e.value][m]
  <2>1. CASE m \notin NamesOf(ps)
    BY <1>5, <1>9, <2>1 DEF MapOf
  <2>2. CASE m \in NamesOf(ps)
    <3> DEFINE f == FirstIndex(ps, m)
    <3>1. f \in 1..Len(ps) /\ ps[f].name = m
      BY <2>2, FirstIndexProperties
    <3>2. FirstIndex(qs, m) = f
      BY <1>10, <2>2
    <3>3. MapOf(qs)[m] = qs[f].value /\ MapOf(ps)[m] = ps[f].value
      BY <1>9, <2>2, <3>2 DEF MapOf
    <3>4. m = n => f = k
      BY <1>5
    <3> HIDE DEF f
    <3>5. m # n => f # k
      BY <1>1, <3>1
    <3>6. m = n => qs[f].value = e.value
      BY <1>6, <3>1, <3>4
    <3>8. m # n => qs[f].value = ps[f].value
      BY <1>6, <3>1, <3>5
    <3>7. DOMAIN MapOf(ps) = Names
      BY DEF MapOf
    <3> QED BY <3>3, <3>6, <3>7, <3>8
  <2> QED BY <2>1, <2>2
<1>12. MapOf(qs) = [MapOf(ps) EXCEPT ![n] = e.value]
  BY <1>11 DEF MapOf
<1> QED BY <1>12 DEF n

\* Appending a new name adds it to the map.
LEMMA MapOfAppend ==
    ASSUME NEW ps \in Seq(Entries), NEW u \in Entries, u.name \notin NamesOf(ps)
    PROVE  MapOf(Append(ps, u)) = [MapOf(ps) EXCEPT ![u.name] = u.value]
<1> DEFINE qs == Append(ps, u)
           L == Len(ps)
<1>1. /\ qs \in Seq(Entries)
      /\ Len(qs) = L + 1
      /\ \A i \in 1..L : qs[i] = ps[i]
      /\ qs[L + 1] = u
  BY AppendProperties
<1>2. DOMAIN qs = 1..(L + 1) /\ DOMAIN ps = 1..L /\ L \in Nat
  BY <1>1, LenProperties
<1> HIDE DEF qs
<1>3. NamesOf(qs) = NamesOf(ps) \cup {u.name}
  <2>1. 1..(L + 1) = 1..L \cup {L + 1}
    <3> HIDE DEF L
    <3> QED BY <1>2
  <2> HIDE DEF L
  <2> QED BY <1>1, <1>2, <2>1 DEF NamesOf
<1>4. ASSUME NEW m \in Names
      PROVE  MapOf(qs)[m] = [MapOf(ps) EXCEPT ![u.name] = u.value][m]
  <2>1. CASE m \in NamesOf(ps)
    <3> DEFINE f == FirstIndex(ps, m)
    <3>1. f \in 1..L
      BY <2>1, FirstIndexProperties
    <3>2. L <= Len(qs) /\ \A i \in 1..L : qs[i].name = ps[i].name
      BY <1>1, <1>2
    <3>3. FirstIndex(qs, m) = f
      BY <1>1, <2>1, <3>2, FirstIndexStable
    <3>4. MapOf(qs)[m] = qs[f].value /\ MapOf(ps)[m] = ps[f].value
      BY <1>3, <2>1, <3>3 DEF MapOf
    <3>5. qs[f] = ps[f]
      BY <1>1, <3>1
    <3>6. m # u.name
      BY <2>1
    <3> HIDE DEF f
    <3> QED BY <3>4, <3>5, <3>6 DEF MapOf
  <2>2. CASE m = u.name
    <3> DEFINE k == L + 1
    <3>1. k \in 1..Len(qs) /\ k - 1 = L
      BY <1>1, <1>2
    <3>2. qs[k].name = m /\ \A j \in 1..(k - 1) : qs[j].name # m
      BY <1>1, <1>2, <2>2, <3>1 DEF NamesOf
    <3>3. qs[k] = u
      BY <1>1
    <3> HIDE DEF k
    <3>4. FirstIndex(qs, m) = k
      BY <1>1, <3>1, <3>2, FirstIndexUnique
    <3> QED BY <1>3, <2>2, <3>3, <3>4 DEF MapOf
  <2>3. CASE m \notin NamesOf(ps) /\ m # u.name
    BY <1>3, <2>3 DEF MapOf
  <2> QED BY <2>1, <2>2, <2>3
<1>5. MapOf(qs) = [MapOf(ps) EXCEPT ![u.name] = u.value]
  BY <1>4 DEF MapOf
<1> QED BY <1>5 DEF qs

\* Appending a name that is there changes nothing in the map.
LEMMA MapOfAppendKnown ==
    ASSUME NEW ps \in Seq(Entries), NEW u \in Entries, u.name \in NamesOf(ps)
    PROVE  MapOf(Append(ps, u)) = MapOf(ps)
<1> DEFINE qs == Append(ps, u)
           L == Len(ps)
<1>1. /\ qs \in Seq(Entries)
      /\ Len(qs) = L + 1
      /\ \A i \in 1..L : qs[i] = ps[i]
      /\ qs[L + 1] = u
  BY AppendProperties
<1>2. DOMAIN qs = 1..(L + 1) /\ DOMAIN ps = 1..L /\ L \in Nat /\ L <= Len(qs)
  BY <1>1, LenProperties
<1> HIDE DEF qs
<1>3. \A i \in 1..L : qs[i].name = ps[i].name
  BY <1>1
<1>4. NamesOf(qs) = NamesOf(ps)
  <2>1. 1..(L + 1) = 1..L \cup {L + 1}
    <3> HIDE DEF L
    <3> QED BY <1>2
  <2> HIDE DEF L
  <2>2. NamesOf(qs) = NamesOf(ps) \cup {u.name}
    BY <1>1, <1>2, <2>1 DEF NamesOf
  <2> QED BY <2>2
<1>5. ASSUME NEW m \in NamesOf(ps)
      PROVE  qs[FirstIndex(qs, m)] = ps[FirstIndex(ps, m)]
  <2>1. FirstIndex(ps, m) \in 1..L
    BY FirstIndexProperties
  <2>2. FirstIndex(qs, m) = FirstIndex(ps, m)
    BY <1>1, <1>2, <1>3, FirstIndexStable
  <2> QED BY <1>1, <2>1, <2>2
<1>6. MapOf(qs) = MapOf(ps)
  BY <1>4, <1>5 DEF MapOf
<1> QED BY <1>6 DEF qs

\* Merging one entry overrides one name.
LEMMA OverriddenByOne ==
    ASSUME NEW m \in [Names -> Values \cup {Absent}], NEW u \in Entries
    PROVE  Entry!Overridden(m, <<u>>) = [m EXCEPT ![u.name] = u.value]
<1> DEFINE us == <<u>>
<1>1. DOMAIN us = {1} /\ us[1] = u
  OBVIOUS
<1> HIDE DEF us
<1>2. ASSUME NEW n \in Names, u.name = n
      PROVE  us[CHOOSE i \in DOMAIN us :
                    us[i].name = n /\ \A j \in DOMAIN us : us[j].name = n => j <= i] = u
  <2>1. us[1].name = n /\ \A j \in DOMAIN us : us[j].name = n => j <= 1
    BY <1>1, <1>2
  <2> QED BY <1>1, <2>1
<1>3. ASSUME NEW n \in Names
      PROVE  Entry!Overridden(m, us)[n] = [m EXCEPT ![u.name] = u.value][n]
  <2>1. CASE u.name = n
    BY <1>1, <1>2, <2>1 DEF Entry!Overridden
  <2>2. CASE u.name # n
    BY <1>1, <2>2 DEF Entry!Overridden
  <2> QED BY <2>1, <2>2
<1>4. Entry!Overridden(m, us) = [m EXCEPT ![u.name] = u.value]
  BY <1>3 DEF Entry!Overridden
<1> QED BY <1>4 DEF us

\* Nothing is overridden by no updates.
LEMMA OverriddenByNone ==
    ASSUME NEW m \in [Names -> Values \cup {Absent}]
    PROVE  Entry!Overridden(m, <<>>) = m
<1>1. Entry!Overridden(m, <<>>) = [n \in Names |-> m[n]]
  BY DEF Entry!Overridden
<1> QED BY <1>1

\* The updates of a name have a last one.
LEMMA LastUpdate ==
    ASSUME NEW us \in Seq(Entries), NEW n, \E i \in DOMAIN us : us[i].name = n
    PROVE  \E k \in DOMAIN us :
              us[k].name = n /\ \A j \in DOMAIN us : us[j].name = n => j <= k
<1> DEFINE L == Len(us)
           S == {L - i : i \in {j \in DOMAIN us : us[j].name = n}}
           R == OpToRel(<, Nat)
<1>1. L \in Nat /\ DOMAIN us = 1..L
  BY LenProperties
<1> HIDE DEF L
<1>2. S \subseteq Nat /\ S # {}
  BY <1>1
<1>3. PICK d \in S : \A e \in S : <<e, d>> \notin R
  <2>1. IsWellFoundedOn(R, Nat)
    BY NatLessThanWellFounded
  <2> HIDE DEF S, R
  <2> QED BY <1>2, <2>1, WFMin
<1>4. PICK k \in DOMAIN us : us[k].name = n /\ d = L - k
  BY <1>3
<1>5. ASSUME NEW j \in DOMAIN us, us[j].name = n PROVE j <= k
  <2>1. L - j \in S /\ L - j \in Nat
    BY <1>1, <1>5
  <2>2. ~(L - j < L - k)
    BY <1>2, <1>3, <1>4, <2>1 DEF OpToRel
  <2> QED BY <1>1, <2>2
<1> QED BY <1>4, <1>5

\* What a name is overridden with, from the last update of it.
LEMMA OverriddenByLast ==
    ASSUME NEW m, NEW us \in Seq(Entries), NEW n \in Names,
           NEW k \in DOMAIN us, us[k].name = n,
           \A j \in DOMAIN us : us[j].name = n => j <= k
    PROVE  Entry!Overridden(m, us)[n] = us[k].value
<1> DEFINE c == CHOOSE i \in DOMAIN us :
                    us[i].name = n /\ \A j \in DOMAIN us : us[j].name = n => j <= i
<1>1. c \in DOMAIN us /\ us[c].name = n /\ \A j \in DOMAIN us : us[j].name = n => j <= c
  OBVIOUS
<1>2. Entry!Overridden(m, us)[n] = us[c].value
  BY DEF Entry!Overridden
<1>3. DOMAIN us = 1..Len(us) /\ Len(us) \in Nat
  BY LenProperties
<1> HIDE DEF c
<1>4. c = k
  <2>1. c <= k /\ k <= c
    BY <1>1
  <2>2. c \in Nat /\ k \in Nat
    BY <1>1, <1>3
  <2> QED BY <2>1, <2>2
<1> QED BY <1>2, <1>4

\* The first update may be applied before the others.
LEMMA OverriddenByHead ==
    ASSUME NEW m \in [Names -> Values \cup {Absent}], NEW us \in Seq(Entries), us # <<>>
    PROVE  Entry!Overridden([m EXCEPT ![Head(us).name] = Head(us).value], Tail(us))
             = Entry!Overridden(m, us)
<1> DEFINE u == Head(us)
           ts == Tail(us)
           L == Len(us)
           m2 == [m EXCEPT ![u.name] = u.value]
<1>1. /\ u \in Entries /\ u = us[1] /\ ts \in Seq(Entries) /\ Len(ts) = L - 1
      /\ \A i \in 1..Len(ts) : ts[i] = us[i + 1]
  BY HeadTailProperties
<1>2. L \in Nat /\ L >= 1 /\ DOMAIN us = 1..L /\ DOMAIN ts = 1..(L - 1)
  <2>1. L \in Nat /\ L # 0 /\ DOMAIN us = 1..L /\ DOMAIN ts = 1..Len(ts)
    BY <1>1, LenProperties, EmptySeq
  <2> HIDE DEF L, ts
  <2> QED BY <1>1, <2>1
<1> HIDE DEF u, ts, L, m2
<1>3. ASSUME NEW n \in Names
      PROVE  Entry!Overridden(m2, ts)[n] = Entry!Overridden(m, us)[n]
  <2>1. CASE \E i \in DOMAIN ts : ts[i].name = n
    <3>1. PICK k \in DOMAIN ts : ts[k].name = n /\ \A j \in DOMAIN ts : ts[j].name = n => j <= k
      BY <1>1, <2>1, LastUpdate
    <3>2. k + 1 \in DOMAIN us /\ us[k + 1].name = n /\ ts[k] = us[k + 1]
      BY <1>1, <1>2, <3>1
    <3>3. ASSUME NEW j \in DOMAIN us, us[j].name = n PROVE j <= k + 1
      <4>1. CASE j = 1
        BY <1>2, <3>1, <4>1
      <4>2. CASE j # 1
        <5>1. j - 1 \in DOMAIN ts /\ (j - 1) + 1 = j
          BY <1>2, <4>2
        <5>2. ts[j - 1] = us[j]
          BY <1>1, <1>2, <5>1
        <5>3. j - 1 <= k
          BY <3>1, <3>3, <5>1, <5>2
        <5> QED BY <1>2, <3>1, <5>3
      <4> QED BY <4>1, <4>2
    <3>4. Entry!Overridden(m2, ts)[n] = ts[k].value
      BY <1>1, <3>1, OverriddenByLast, ZenonT(30)
    <3>5. Entry!Overridden(m, us)[n] = us[k + 1].value
      BY <3>2, <3>3, OverriddenByLast
    <3> QED BY <3>2, <3>4, <3>5
  <2>2. CASE ~\E i \in DOMAIN ts : ts[i].name = n
    <3>1. Entry!Overridden(m2, ts)[n] = m2[n]
      BY <2>2 DEF Entry!Overridden
    <3>2. ASSUME NEW j \in DOMAIN us, us[j].name = n PROVE j = 1
      <4> SUFFICES ASSUME j # 1 PROVE FALSE
        OBVIOUS
      <4>1. j - 1 \in DOMAIN ts /\ (j - 1) + 1 = j
        BY <1>2
      <4>2. ts[j - 1] = us[j]
        BY <1>1, <1>2, <4>1
      <4> QED BY <2>2, <3>2, <4>1, <4>2
    <3>3. CASE u.name = n
      <4>1. 1 \in DOMAIN us /\ us[1].name = n /\ \A j \in DOMAIN us : us[j].name = n => j <= 1
        BY <1>1, <1>2, <3>2, <3>3
      <4>2. Entry!Overridden(m, us)[n] = us[1].value
        BY <4>1, OverriddenByLast
      <4>3. m2[n] = u.value
        BY <3>3 DEF m2
      <4> QED BY <1>1, <3>1, <4>2, <4>3
    <3>4. CASE u.name # n
      <4>1. ~\E j \in DOMAIN us : us[j].name = n
        BY <1>1, <3>2, <3>4
      <4>2. Entry!Overridden(m, us)[n] = m[n]
        BY <4>1 DEF Entry!Overridden
      <4> QED BY <3>1, <3>4, <4>2 DEF m2
    <3> QED BY <3>3, <3>4
  <2> QED BY <2>1, <2>2
<1>4. Entry!Overridden(m2, ts) = Entry!Overridden(m, us)
  BY <1>3 DEF Entry!Overridden
<1> QED BY <1>4 DEF u, ts, m2

-----------------------------------------------------------------------------
(* The refinement, entry by entry *)

LEMMA InitRefines == Init => Entry!GatheredInit
<1> SUFFICES ASSUME Init PROVE Entry!GatheredInit
  OBVIOUS
<1>1. MapOf(params) \in Entry!Snapshots
  BY DeclaredAssumption, MapOfType DEF Init, Entry!Snapshots
<1>2. AbstractCall = Entry!Idle
  BY DEF Init, AbstractCall, Updating, Entry!Idle
<1>3. /\ MapOf(published) = [n \in Names |-> Absent]
      /\ MapOf(pod) = [n \in Names |-> Absent]
  BY MapOfNone DEF Init
<1> QED BY <1>1, <1>2, <1>3 DEF Entry!GatheredInit, Entry!Init, Entry!Nothing

\* Merging the next update of a batch overrides its name in the map.
LEMMA MergeMaps ==
    ASSUME IInv, MergeNext
    PROVE  /\ Head(updates) \in Entries
           /\ UNCHANGED <<AbstractCall, MapOf(pod), MapOf(published)>>
           /\ MapOf(params)' =
                [MapOf(params) EXCEPT ![Head(updates).name] = Head(updates).value]
<1>1. params \in Seq(Entries) /\ DOMAIN params = 1..Len(params) /\ Len(params) \in Nat
  BY LenProperties DEF IInv, TypeOK
<1> DEFINE u == Head(updates)
<1>2. u \in Entries
  BY HeadTailProperties DEF IInv, TypeOK, MergeNext
<1>3. UNCHANGED <<call, pod, published>> /\ Merge(u)
  BY DEF MergeNext, procVars
<1> HIDE DEF u
<1>4. UNCHANGED <<AbstractCall, MapOf(pod), MapOf(published)>>
  BY <1>3 DEF AbstractCall, Updating, MapOf, NamesOf, FirstIndex
<1>5. MapOf(params') = [MapOf(params) EXCEPT ![u.name] = u.value]
  <2>1. CASE u.name \in NamesOf(params)
    <3> DEFINE k == FirstIndex(params, u.name)
    <3>1. k \in 1..Len(params) /\ params[k].name = u.name
      BY <1>1, <2>1, FirstIndexProperties
    <3>2. params[k] \in Entries
      BY <1>1, <3>1, ElementOfSeq
    <3>3. [params[k] EXCEPT !.value = u.value] = u
      BY <1>2, <3>1, <3>2 DEF Entries
    <3>4. params' = [params EXCEPT ![k] = [params[k] EXCEPT !.value = u.value]]
      BY <1>3, <2>1 DEF Merge
    <3>5. params' = [params EXCEPT ![FirstIndex(params, u.name)] = u]
      BY <3>3, <3>4
    <3>6. params' \in Seq(Entries)
      BY <1>1, <1>2, <1>3, MergeProperties DEF IInv, TypeOK, StorageInv
    <3> QED BY <1>1, <1>2, <2>1, <3>5, <3>6, MapOfAssign
  <2>2. CASE u.name \notin NamesOf(params)
    <3>1. params' = Append(params, u)
      BY <1>3, <2>2 DEF Merge
    <3> QED BY <1>1, <1>2, <2>2, <3>1, MapOfAppend
  <2> QED BY <2>1, <2>2
<1>6. MapOf(params)' = MapOf(params')
  BY DEF MapOf, NamesOf, FirstIndex
<1> QED BY <1>2, <1>4, <1>5, <1>6 DEF u

\* The processor's steps, in the terms of the store.
LEMMA ProcessorRefines ==
    ASSUME IInv, NoLoss,
           \/ UpdateCheck \/ UpdateStore \/ ProcessEnd
           \/ \E n \in Names, v \in Values : UpdateFind(n, v)
    PROVE  /\ UNCHANGED <<MapOf(pod), MapOf(published)>>
           /\ \/ UNCHANGED <<MapOf(params), AbstractCall>>
              \/ Entry!Return \/ Entry!Forget
              \/ \E n \in Names, v \in Values : Entry!Call(n, v)
<1>1. params \in Seq(Entries) /\ DOMAIN params = 1..Len(params) /\ Len(params) \in Nat
  BY LenProperties DEF IInv, TypeOK
<1>2. UNCHANGED <<MapOf(pod), MapOf(published)>>
  <2>1. UNCHANGED <<pod, published>>
    BY DEF UpdateCheck, UpdateStore, ProcessEnd, UpdateFind, paramVars
  <2> QED BY <2>1 DEF MapOf, NamesOf, FirstIndex
<1>3. ASSUME UNCHANGED params PROVE UNCHANGED MapOf(params)
  BY <1>3 DEF MapOf, NamesOf, FirstIndex
<1>4. CASE UpdateCheck
  <2>1. UNCHANGED params /\ call.status = "found" /\ Updating
    BY <1>4 DEF UpdateCheck, paramVars, Updating
  <2>2. CASE AtEnd
    <3>1. call' = [status |-> "parameter_not_found"]
      BY <1>4, <2>2 DEF UpdateCheck
    <3>2. call.index = call.end
      <4> DEFINE k == call.index
                 end == call.end
      <4>1. /\ k \in 1..end /\ end \in Nat /\ end <= Len(params) + 1
            /\ k = Len(params) + 1
        BY <2>1, <2>2 DEF IInv, IterInv, TypeOK, Answers, AtEnd
      <4> HIDE DEF k, end
      <4>2. k = end
        BY <1>1, <4>1
      <4> QED BY <4>2 DEF k, end
    <3> QED BY <1>2, <1>3, <2>1, <3>1, <3>2 DEF AbstractCall, Updating
  <2>3. CASE ~AtEnd
    <3>1. call' = [call EXCEPT !.status = "pending"]
      BY <1>4, <2>3 DEF UpdateCheck
    <3>2. call.index # call.end
      BY <2>1, <2>3 DEF AtEnd, NoLoss
    <3>3. call \in [status : {"found", "pending"}, name : Names, value : Values,
                    index : Nat, end : Nat, cap : Nat]
      BY <2>1 DEF IInv, TypeOK, Answers
    <3>4. /\ call'.status = "pending" /\ call'.name = call.name /\ call'.value = call.value
          /\ call'.index = call.index /\ call'.end = call.end
      BY <3>1, <3>3
    <3> QED BY <1>2, <1>3, <2>1, <3>2, <3>4 DEF AbstractCall, Updating
  <2> QED BY <2>2, <2>3
<1>5. ASSUME NEW n \in Names, NEW v \in Values, UpdateFind(n, v)
      PROVE  Entry!Call(n, v)
  <2> DEFINE end == Len(params) + 1
             k == IF n \in NamesOf(params) THEN FirstIndex(params, n) ELSE end
  <2>1. UNCHANGED params /\ ~Updating
    BY <1>5 DEF UpdateFind, Processing, paramVars
  <2>2. AbstractCall.status # "pending"
    BY <2>1 DEF AbstractCall, Updating
  <2>3. MapOf(params)[n] = Absent <=> n \notin NamesOf(params)
    BY <1>1, MapOfAbsent
  <2>4. call' = [status |-> "found", name |-> n, value |-> v, end |-> end, cap |-> cap,
                 index |-> k]
    BY <1>5 DEF UpdateFind
  <2>5. k = end <=> n \notin NamesOf(params)
    <3>1. CASE n \in NamesOf(params)
      <4>1. k \in 1..Len(params)
        BY <1>1, <3>1, FirstIndexProperties
      <4> HIDE DEF k
      <4>2. k # end
        BY <1>1, <4>1
      <4> QED BY <3>1, <4>2
    <3> QED BY <3>1
  <2> HIDE DEF k, end
  <2>6. AbstractCall' = IF k = end THEN Entry!NotFound
                        ELSE [status |-> "pending", name |-> n, value |-> v]
    BY <2>4 DEF AbstractCall, Updating, Entry!NotFound
  <2> QED BY <1>2, <1>3, <2>1, <2>2, <2>3, <2>5, <2>6 DEF Entry!Call
<1>6. CASE UpdateStore
  <2> DEFINE n == call.name
             v == call.value
             k == call.index
             e == [params[k] EXCEPT !.value = v]
  <2>1. /\ call' = [status |-> "ok"] /\ call.status = "pending" /\ Updating
        /\ call.cap = cap /\ k # call.end
        /\ params' = [params EXCEPT ![k] = e]
    BY <1>6 DEF UpdateStore, NoLoss, Updating
  <2>2. /\ k \in 1..Len(params) /\ params[k].name = n
        /\ \A j \in 1..(k - 1) : params[j].name # n
    <3>1. /\ k \in 1..call.end /\ call.end \in Nat /\ call.end <= Len(params) + 1
          /\ params[k].name = n /\ \A j \in 1..(k - 1) : params[j].name # n
      BY <2>1 DEF IInv, IterInv, TypeOK, Answers
    <3> DEFINE end == call.end
    <3>2. k # end
      BY <2>1
    <3> HIDE DEF n, k, end
    <3>3. k \in 1..Len(params)
      BY <1>1, <3>1, <3>2 DEF end
    <3> QED BY <3>1, <3>3
  <2>3. n \in NamesOf(params) /\ FirstIndex(params, n) = k
    BY <1>1, <2>2, FirstIndexUnique
  <2>4. v \in Values
    BY <2>1 DEF IInv, TypeOK, Answers
  <2>5. params' \in Seq(Entries)
    BY <1>6, UpdateStoreProperties
  <2>6. AbstractCall = [status |-> "pending", name |-> n, value |-> v]
        /\ AbstractCall' = Entry!Ok
    BY <2>1 DEF AbstractCall, Updating, Entry!Ok
  <2>11. params[k] \in Entries
    BY <1>1, <2>2, ElementOfSeq
  <2>12. e \in Entries /\ e.name = n /\ e.value = v
    BY <2>2, <2>4, <2>11 DEF Entries
  <2> HIDE DEF n, v, k, e
  <2>9. MapOf(params') = [MapOf(params) EXCEPT ![n] = v]
    <3>1. e.name \in NamesOf(params) /\ params' = [params EXCEPT ![FirstIndex(params, e.name)] = e]
      BY <2>1, <2>3, <2>12
    <3>2. MapOf(params') = [MapOf(params) EXCEPT ![e.name] = e.value]
      BY <1>1, <2>5, <2>12, <3>1, MapOfAssign
    <3> QED BY <2>12, <3>2
  <2>10. MapOf(params)' = MapOf(params')
    BY DEF MapOf, NamesOf, FirstIndex
  <2> QED BY <1>2, <2>6, <2>9, <2>10 DEF Entry!Return
<1>7. CASE ProcessEnd
  <2>1. UNCHANGED params /\ call' = [status |-> "idle"] /\ ~Updating
    BY <1>7 DEF ProcessEnd, Processing, paramVars
  <2>2. AbstractCall.status # "pending" /\ AbstractCall' = Entry!Idle
    BY <2>1 DEF AbstractCall, Updating, Entry!Idle
  <2> QED BY <1>2, <1>3, <2>1, <2>2 DEF Entry!Forget
<1> QED BY <1>2, <1>4, <1>5, <1>6, <1>7

\* The next entry of the pod is a name read from the store, or a duplicate.
LEMMA PublishEntryRefines ==
    ASSUME IInv, PublishEntry
    PROVE  /\ UNCHANGED <<MapOf(params), AbstractCall, MapOf(published)>>
           /\ UNCHANGED MapOf(pod) \/ \E n \in Names : Entry!Gather(n)
<1> DEFINE k == Len(pod) + 1
           e == params[k]
           n == e.name
<1>1. /\ params \in Seq(Entries) /\ DOMAIN params = 1..Len(params) /\ Len(params) \in Nat
      /\ pod \in Seq(Entries) /\ DOMAIN pod = 1..Len(pod) /\ Len(pod) \in Nat
  BY LenProperties DEF IInv, TypeOK
<1>2. k \in 1..Len(params) /\ k - 1 = Len(pod)
  BY <1>1 DEF PublishEntry
<1>3. e \in Entries
  BY <1>1, <1>2, ElementOfSeq
<1>4. n \in Names /\ e.value \in Values
  BY <1>3 DEF Entries
<1>5. /\ UNCHANGED <<params, call, published>>
      /\ pod' = Append(pod, e)
  BY DEF PublishEntry, procVars
<1>6. UNCHANGED <<MapOf(params), AbstractCall, MapOf(published)>>
  BY <1>5 DEF AbstractCall, Updating, MapOf, NamesOf, FirstIndex
<1>7. MapOf(pod)' = MapOf(pod')
  BY DEF MapOf, NamesOf, FirstIndex
<1>8. \A i \in 1..Len(pod) : params[i].name = pod[i].name /\ pod[i].name = params[i].name
  BY DEF IInv, PodInv
<1> HIDE DEF k, e, n
<1>9. CASE n \in NamesOf(pod)
  <2>1. MapOf(pod') = MapOf(pod)
    BY <1>1, <1>3, <1>5, <1>9, MapOfAppendKnown DEF n
  <2> QED BY <1>6, <1>7, <2>1
<1>10. CASE n \notin NamesOf(pod)
  <2>1. MapOf(pod') = [MapOf(pod) EXCEPT ![n] = e.value]
    BY <1>1, <1>3, <1>5, <1>10, MapOfAppend DEF n
  <2>2. \A j \in 1..(k - 1) : params[j].name # n
    BY <1>1, <1>2, <1>8, <1>10 DEF NamesOf
  <2>3. params[k].name = n
    BY DEF n, e
  <2>4. n \in NamesOf(params) /\ FirstIndex(params, n) = k
    BY <1>1, <1>2, <2>2, <2>3, FirstIndexUnique
  <2>5. MapOf(params)[n] = e.value
    BY <1>4, <2>4 DEF MapOf, e
  <2>6. MapOf(params)[n] # Absent /\ MapOf(pod)[n] = Absent
    BY <1>1, <1>4, <1>10, <2>4, MapOfAbsent
  <2> QED BY <1>4, <1>6, <1>7, <2>1, <2>5, <2>6 DEF Entry!Gather
<1> QED BY <1>9, <1>10

\* What the pod holds when it is done: every name of the vector.
LEMMA PublishEndProperties ==
    ASSUME IInv, PublishEnd
    PROVE  /\ UNCHANGED <<MapOf(params), AbstractCall, MapOf(pod)>>
           /\ MapOf(published)' \in {MapOf(published), MapOf(pod)}
           /\ NamesOf(pod) = NamesOf(params)
<1>1. /\ params \in Seq(Entries) /\ DOMAIN params = 1..Len(params)
      /\ pod \in Seq(Entries) /\ DOMAIN pod = 1..Len(pod) /\ Len(pod) = Len(params)
  BY LenProperties DEF IInv, TypeOK, PublishEnd
<1>2. /\ UNCHANGED <<params, call, pod>>
      /\ published' = pod \/ published' = published
  BY DEF PublishEnd, procVars
<1>3. UNCHANGED <<MapOf(params), AbstractCall, MapOf(pod)>>
  BY <1>2 DEF AbstractCall, Updating, MapOf, NamesOf, FirstIndex
<1>4. MapOf(published)' = MapOf(published')
  BY DEF MapOf, NamesOf, FirstIndex
<1>5. \A i \in 1..Len(pod) : params[i].name = pod[i].name /\ pod[i].name = params[i].name
  BY DEF IInv, PodInv
<1>6. NamesOf(pod) = NamesOf(params)
  BY <1>1, <1>5 DEF NamesOf
<1> QED BY <1>2, <1>3, <1>4, <1>6

\* The steps that the store does not see, and those that empty the pod.
LEMMA OtherSteps ==
    ASSUME [Next]_vars
    PROVE  \/ UNCHANGED <<params, updates, call, pod, published>>
           \/ UNCHANGED <<params, updates, call, published>> /\ pod' = <<>> /\ MainFree
           \/ \E b \in Batches : ParamChanged(b)
           \/ MergeNext \/ PublishEntry \/ PublishEnd
           \/ UpdateCheck \/ UpdateStore \/ ProcessEnd
           \/ \E n \in Names, v \in Values : UpdateFind(n, v)
BY DEF Next, vars, Run, ConnectFail, Signal, HandleSignal, LoopExit, DestroyFilter,
       DestroyLoop, Deinit, StateChanged, Terminated, ProcessBegin, TakeSpan, paramVars,
       procVars

\* Every step is a step or a stutter of the store merged into and read entry by
\* entry.
LEMMA StepRefines ==
    ASSUME IInv, NoLoss, [Next]_vars
    PROVE  [Entry!GatheredNext]_(Entry!gatheredVars)
<1>1. params \in Seq(Entries)
  BY DEF IInv, TypeOK
<1>2. CASE MergeNext
  <2> DEFINE u == Head(updates)
  <2>1. /\ u \in Entries
        /\ UNCHANGED <<AbstractCall, MapOf(pod), MapOf(published)>>
        /\ MapOf(params)' = [MapOf(params) EXCEPT ![u.name] = u.value]
    BY <1>2, MergeMaps
  <2> HIDE DEF u
  <2>2. Entry!Overridden(MapOf(params), <<u>>) = [MapOf(params) EXCEPT ![u.name] = u.value]
    BY <1>1, <2>1, MapOfType, OverriddenByOne
  <2>3. <<u>> \in {<<e>> : e \in Entries}
    BY <2>1
  <2>4. Entry!Merge
    BY <2>1, <2>2, <2>3 DEF Entry!Merge
  <2>5. MapOf(pod) = Entry!Nothing
    <3>1. pod = <<>>
      BY <1>2 DEF IInv, PodInv, MergeNext
    <3> QED BY <3>1, MapOfNone DEF Entry!Nothing
  <2> QED BY <2>1, <2>4, <2>5 DEF Entry!GatheredNext
<1>3. CASE UNCHANGED <<params, call, published>> /\ (UNCHANGED pod \/ pod' = <<>>)
  <2>1. UNCHANGED <<MapOf(params), AbstractCall, MapOf(published)>>
    BY <1>3 DEF AbstractCall, Updating, MapOf, NamesOf, FirstIndex
  <2>2. MapOf(pod)' = MapOf(pod')
    BY DEF MapOf, NamesOf, FirstIndex
  <2>3. UNCHANGED MapOf(pod) \/ MapOf(pod)' = Entry!Nothing
    BY <1>3, <2>2, MapOfNone DEF Entry!Nothing
  <2> QED BY <2>1, <2>3 DEF Entry!GatheredNext, Entry!Start, Entry!gatheredVars
<1>4. CASE PublishEntry
  BY <1>4, PublishEntryRefines DEF Entry!GatheredNext, Entry!gatheredVars
<1>5. CASE PublishEnd
  <2>1. /\ UNCHANGED <<MapOf(params), AbstractCall, MapOf(pod)>>
        /\ MapOf(published)' \in {MapOf(published), MapOf(pod)}
        /\ NamesOf(pod) = NamesOf(params)
    BY <1>5, PublishEndProperties
  <2>2. \A n \in Names : MapOf(pod)[n] = Absent => MapOf(params)[n] = Absent
    <3>1. pod \in Seq(Entries)
      BY DEF IInv, TypeOK
    <3> QED BY <1>1, <2>1, <3>1, MapOfAbsent
  <2> QED BY <2>1, <2>2 DEF Entry!GatheredNext, Entry!PublishCopy, Entry!gatheredVars
<1>6. CASE \/ UpdateCheck \/ UpdateStore \/ ProcessEnd
           \/ \E n \in Names, v \in Values : UpdateFind(n, v)
  BY <1>6, ProcessorRefines DEF Entry!GatheredNext, Entry!gatheredVars
<1>7. ASSUME NEW b \in Batches, ParamChanged(b)
      PROVE  UNCHANGED <<params, call, published>> /\ pod' = <<>>
  BY <1>7 DEF ParamChanged, procVars
<1> QED BY <1>2, <1>3, <1>4, <1>5, <1>6, <1>7, OtherSteps

\* With the processor inside the main loop, updates take effect when they are
\* acknowledged, batches are merged and pods are read entry by entry, and no name
\* is missing in what is published, whatever names arrive.
THEOREM MainLoopImplementsEntries ==
    ASSUME Modes \subseteq {"main_loop"}
    PROVE  Spec => ImplementsEntries
<1>1. ASSUME IInv PROVE NoLoss
  BY <1>1 DEF IInv, TypeOK, IterInv, NoLoss
<1>2. IInv /\ [Next]_vars => [Entry!GatheredNext]_(Entry!gatheredVars)
  BY <1>1, StepRefines
<1> QED BY <1>2, InitRefines, SpecIInv, PTL DEF Spec, ImplementsEntries,
          Entry!GatheredSpec

-----------------------------------------------------------------------------
(* The refinement, batch by batch *)

\* The map a whole batch leads to, as soon as its callback has begun.
WholeMap == Entry!Overridden(MapOf(params), updates)

\* Updates remain only inside a callback.
BatchInv == updates # <<>> => pc = "callback"

LEMMA SpecBatchInv == Spec => []BatchInv
<1>1. Init => BatchInv
  BY DEF Init, BatchInv
<1>2. ASSUME BatchInv, [Next]_vars PROVE BatchInv'
  BY <1>2 DEF BatchInv, Next, vars, Run, ConnectFail, Signal, HandleSignal, LoopExit,
       DestroyFilter, DestroyLoop, Deinit, StateChanged, Terminated, ParamChanged, MergeNext,
       PublishEntry, PublishEnd, ProcessBegin, TakeSpan, UpdateFind, UpdateCheck, UpdateStore,
       ProcessEnd, MainFree, paramVars
<1> QED BY <1>1, <1>2, PTL DEF Spec

\* In the main loop, nobody changes an entry between the reading of the first one
\* and the publication.
ExactPod ==
    mode # "rt" /\ pc = "callback" => \A i \in 1..Len(pod) : pod[i] = params[i]

LEMMA SpecExactPod == Spec => []ExactPod
<1>1. Init => ExactPod
  BY DEF Init, ExactPod
<1>2. ASSUME IInv, ExactPod, [Next]_vars PROVE ExactPod'
  <2> SUFFICES ASSUME mode' # "rt", pc' = "callback", NEW i \in 1..Len(pod')
               PROVE  pod'[i] = params'[i]
    BY DEF ExactPod
  <2>1. CASE pod' = <<>>
    BY <2>1, EmptySeq
  <2>2. CASE PublishEntry
    <3> DEFINE k == Len(pod) + 1
               e == params[k]
    <3>1. /\ UNCHANGED <<mode, pc, params>> /\ pod' = Append(pod, e)
          /\ params \in Seq(Entries) /\ pod \in Seq(Entries)
          /\ Len(pod) \in Nat /\ k \in 1..Len(params)
      BY <1>2, <2>2, LenProperties DEF PublishEntry, lifeVars, IInv, TypeOK
    <3>2. e \in Entries
      BY <3>1, ElementOfSeq
    <3> HIDE DEF e
    <3>3. /\ Len(pod') = k /\ \A j \in 1..Len(pod) : pod'[j] = pod[j]
          /\ pod'[k] = e
      BY <3>1, <3>2, AppendProperties
    <3>4. CASE i = k
      BY <3>1, <3>3, <3>4 DEF e
    <3>5. CASE i # k
      <4>1. i \in 1..Len(pod)
        BY <3>1, <3>3, <3>5
      <4> QED BY <1>2, <3>1, <3>3, <4>1 DEF ExactPod
    <3> QED BY <3>4, <3>5
  <2>3. CASE MergeNext
    BY <1>2, <2>1, <2>3 DEF MergeNext, IInv, PodInv
  <2>4. CASE UpdateStore
    <3>1. UNCHANGED <<mode, pc>> /\ proc = "processing"
      BY <1>2, <2>4 DEF UpdateStore, lifeVars, IInv, TypeOK, LifeInv
    <3> QED BY <1>2, <3>1 DEF IInv, LifeInv
  <2>5. CASE UNCHANGED <<mode, pc, params, pod>>
    BY <1>2, <2>5 DEF ExactPod
  <2>6. \/ pod' = <<>> \/ PublishEntry \/ MergeNext \/ UpdateStore
        \/ UNCHANGED <<mode, pc, params, pod>>
    BY <1>2 DEF Next, vars, Run, ConnectFail, Signal, HandleSignal, LoopExit, DestroyFilter,
       DestroyLoop, Deinit, StateChanged, Terminated, ParamChanged, PublishEnd, ProcessBegin,
       TakeSpan, UpdateFind, UpdateCheck, ProcessEnd, lifeVars, paramVars
  <2> QED BY <2>1, <2>2, <2>3, <2>4, <2>5, <2>6
<1> QED BY <1>1, <1>2, SpecIInv, PTL DEF Spec

LEMMA WholeMapWhenDone ==
    ASSUME params \in Seq(Entries), updates = <<>>
    PROVE  WholeMap = MapOf(params)
BY MapOfType, OverriddenByNone DEF WholeMap

LEMMA WholeInit == Init => Whole!Init
<1> SUFFICES ASSUME Init PROVE Whole!Init
  OBVIOUS
<1>1. WholeMap = MapOf(params)
  BY DeclaredAssumption, WholeMapWhenDone DEF Init
<1> QED BY <1>1, InitRefines DEF WholeMap, Entry!GatheredInit, Entry!Init, Whole!Init, Entry!Snapshots,
           Whole!Snapshots, Entry!Idle, Whole!Idle

\* A batch takes effect when its callback begins; the merges that follow leave
\* the map it leads to as it is; nobody else runs before the last of them.
LEMMA WholeStep ==
    ASSUME IInv, IInv', BatchInv, ExactPod, [Next]_vars, mode # "rt"
    PROVE  [Whole!Next]_(Whole!vars)
<1>1. params \in Seq(Entries) /\ params' \in Seq(Entries) /\ updates \in Seq(Entries)
  BY DEF IInv, TypeOK
<1>2. WholeMap' = Entry!Overridden(MapOf(params)', updates')
  BY DEF WholeMap, Entry!Overridden, MapOf, NamesOf, FirstIndex
<1>3. NoLoss
  BY DEF IInv, IterInv, NoLoss
<1>4. CASE MergeNext
  <2>1. updates # <<>> /\ updates' = Tail(updates)
    BY <1>4 DEF MergeNext
  <2>2. /\ UNCHANGED <<AbstractCall, MapOf(published)>>
        /\ MapOf(params)' = [MapOf(params) EXCEPT ![Head(updates).name] = Head(updates).value]
    BY <1>4, MergeMaps
  <2>3. UNCHANGED WholeMap
    BY <1>1, <1>2, <2>1, <2>2, MapOfType, OverriddenByHead DEF WholeMap
  <2> QED BY <2>2, <2>3 DEF Whole!vars, WholeMap
<1>5. ASSUME NEW b \in Batches, ParamChanged(b)
      PROVE  Whole!Merge
  <2>1. UNCHANGED <<params, call, published>> /\ updates' = b /\ updates = <<>>
    BY <1>5 DEF ParamChanged, procVars, BatchInv, MainFree
  <2>2. UNCHANGED <<MapOf(params), AbstractCall, MapOf(published)>>
    BY <2>1 DEF AbstractCall, Updating, MapOf, NamesOf, FirstIndex
  <2>3. WholeMap = MapOf(params)
    BY <1>1, <2>1, WholeMapWhenDone
  <2>4. WholeMap' = Whole!Overridden(WholeMap, b)
    BY <1>2, <2>1, <2>2, <2>3 DEF Entry!Overridden, Whole!Overridden
  <2> QED BY <2>2, <2>4 DEF Whole!Merge, WholeMap
<1>6. CASE UNCHANGED <<params, updates, call, published>>
  BY <1>6 DEF Whole!vars, AbstractCall, Updating, MapOf, NamesOf, FirstIndex, Entry!Overridden
<1>7. ASSUME updates = <<>>, updates' = <<>>
      PROVE  WholeMap = MapOf(params) /\ WholeMap' = MapOf(params)'
  <2>1. MapOf(params)' = MapOf(params')
    BY DEF MapOf, NamesOf, FirstIndex
  <2> QED BY <1>1, <1>2, <1>7, <2>1, WholeMapWhenDone, MapOfType, OverriddenByNone
<1>8. CASE PublishEnd
  <2>1. updates = <<>> /\ updates' = <<>> /\ pc = "callback" /\ Len(pod) = Len(params)
    BY <1>8 DEF PublishEnd
  <2>2. /\ UNCHANGED <<MapOf(params), AbstractCall>>
        /\ MapOf(published)' \in {MapOf(published), MapOf(pod)}
    BY <1>8, PublishEndProperties
  <2>3. pod = params
    <3>1. pod \in Seq(Entries)
      BY DEF IInv, TypeOK
    <3> QED BY <1>1, <2>1, <3>1, SeqEqual DEF ExactPod
  <2> QED BY <1>7, <2>1, <2>2, <2>3 DEF Whole!Next, Whole!Publish, Whole!vars, WholeMap
<1>9. CASE \/ UpdateCheck \/ UpdateStore \/ ProcessEnd
           \/ \E n \in Names, v \in Values : UpdateFind(n, v)
  <2>1. proc = "processing"
    BY <1>9 DEF UpdateCheck, UpdateStore, ProcessEnd, UpdateFind, Processing, IInv, TypeOK, LifeInv
  <2>2. updates = <<>> /\ updates' = <<>>
    <3>1. pc = "loop"
      BY <2>1 DEF IInv, LifeInv
    <3>2. UNCHANGED updates
      BY <1>9 DEF UpdateCheck, UpdateStore, ProcessEnd, UpdateFind, paramVars
    <3> QED BY <3>1, <3>2 DEF BatchInv
  <2>3. WholeMap = MapOf(params) /\ WholeMap' = MapOf(params)'
    BY <1>7, <2>2
  <2>4. /\ UNCHANGED MapOf(published)
        /\ \/ UNCHANGED <<MapOf(params), AbstractCall>>
           \/ Entry!Return \/ Entry!Forget
           \/ \E n \in Names, v \in Values : Entry!Call(n, v)
    BY <1>3, <1>9, ProcessorRefines
  <2>5. CASE UNCHANGED <<MapOf(params), AbstractCall>>
    BY <2>3, <2>4, <2>5 DEF Whole!vars, WholeMap
  <2>6. CASE Entry!Return
    BY <2>3, <2>6 DEF Entry!Return, Whole!Return, Whole!Next, WholeMap, Entry!Ok, Whole!Ok
  <2>7. CASE Entry!Forget
    BY <2>3, <2>7 DEF Entry!Forget, Whole!Forget, Whole!Next, WholeMap, Entry!Idle, Whole!Idle
  <2>8. ASSUME NEW n \in Names, NEW v \in Values, Entry!Call(n, v)
        PROVE  Whole!Call(n, v)
    BY <2>3, <2>8 DEF Entry!Call, Whole!Call, WholeMap, Entry!NotFound, Whole!NotFound
  <2> QED BY <2>4, <2>5, <2>6, <2>7, <2>8 DEF Whole!Next
<1>10. CASE PublishEntry
  BY <1>6, <1>10 DEF PublishEntry, procVars
<1> QED BY <1>4, <1>5, <1>6, <1>8, <1>9, <1>10, OtherSteps DEF Whole!Next

\* With the processor inside the main loop, a batch is one step to everybody,
\* whatever names it brings, updates that are acknowledged stay, and what is
\* published is the store after whole batches.
THEOREM MainLoopImplementsBatches ==
    ASSUME Modes \subseteq {"main_loop"}
    PROVE  Spec => ImplementsBatches
<1>1. ASSUME IInv PROVE mode # "rt"
  BY <1>1 DEF IInv, TypeOK
<1>2. IInv /\ IInv' /\ BatchInv /\ ExactPod /\ [Next]_vars => [Whole!Next]_(Whole!vars)
  BY <1>1, WholeStep
<1> QED BY <1>2, WholeInit, SpecIInv, SpecBatchInv, SpecExactPod, PTL
        DEF Spec, ImplementsBatches, Whole!Spec

-----------------------------------------------------------------------------
(* Only declared names *)

\* What the vector keeps of the declarations when only declared names arrive.
ClosedInv ==
    /\ cap = InitialCapacity
    /\ Len(params) = Len(Declared)
    /\ \A i \in 1..Len(Declared) : params[i].name = Declared[i].name
    /\ \A i \in 1..Len(updates) : updates[i].name \in NamesOf(Declared)
    /\ NoLoss

LEMMA ClosedStep ==
    ASSUME OnlyDeclaredNames, IInv, ClosedInv, [Next]_vars
    PROVE  ClosedInv'
<1>1. /\ params \in Seq(Entries) /\ DOMAIN params = 1..Len(params)
      /\ DOMAIN Declared = 1..Len(Declared) /\ Len(Declared) \in Nat
      /\ updates \in Seq(Entries) /\ Len(updates) \in Nat
  BY LenProperties, DeclaredAssumption DEF IInv, TypeOK
<1>2. NamesOf(params) = NamesOf(Declared)
  <2>1. \A i \in 1..Len(Declared) :
            params[i].name = Declared[i].name /\ Declared[i].name = params[i].name
    BY DEF ClosedInv
  <2>2. DOMAIN params = DOMAIN Declared /\ DOMAIN params = 1..Len(Declared)
    BY <1>1 DEF ClosedInv
  <2> QED BY <2>1, <2>2 DEF NamesOf
<1>3. ASSUME NEW b \in Batches, ParamChanged(b)
      PROVE  ClosedInv'
  <2>1. \A i \in 1..Len(b) : b[i].name \in NamesOf(Declared)
    BY DEF OnlyDeclaredNames
  <2>2. UNCHANGED <<params, cap, call>> /\ updates' = b
    BY <1>3 DEF ParamChanged, procVars
  <2> QED BY <2>1, <2>2 DEF ClosedInv, NoLoss, Updating
<1>4. CASE MergeNext
  <2> DEFINE u == Head(updates)
  <2>1. updates # <<>> /\ updates' = Tail(updates) /\ Merge(u) /\ UNCHANGED call
    BY <1>4 DEF MergeNext, procVars
  <2>2. /\ u \in Entries
        /\ Len(Tail(updates)) = Len(updates) - 1
        /\ \A i \in 1..Len(Tail(updates)) : Tail(updates)[i] = updates[i + 1]
        /\ u = updates[1]
        /\ Len(updates) # 0
    BY <1>1, <2>1, HeadTailProperties, EmptySeq
  <2>3. u.name \in NamesOf(params)
    BY <1>1, <1>2, <2>2 DEF ClosedInv
  <2> HIDE DEF u
  <2>4. cap' = cap
    BY <2>1, <2>3 DEF Merge
  <2>5. cap \in Nat /\ Len(params) <= cap
    BY DEF IInv, TypeOK, StorageInv
  <2>6. \A i \in 1..Len(params) : params'[i].name = params[i].name
    BY <1>1, <2>1, <2>2, <2>5, MergeProperties
  <2>7. Len(params') = Len(params)
    <3>1. PICK i \in DOMAIN params : params[i].name = u.name
      BY <2>3 DEF NamesOf
    <3> QED BY <1>1, <2>1, <2>2, <2>5, <3>1, MergeProperties
  <2>8. \A i \in 1..Len(updates') : updates'[i].name \in NamesOf(Declared)
    <3> SUFFICES ASSUME NEW i \in 1..Len(Tail(updates))
                 PROVE  Tail(updates)[i].name \in NamesOf(Declared)
      BY <2>1
    <3>1. i + 1 \in 1..Len(updates)
      BY <1>1, <2>2
    <3> QED BY <2>2, <3>1 DEF ClosedInv
  <2> QED BY <2>1, <2>4, <2>6, <2>7, <2>8 DEF ClosedInv, NoLoss, Updating
<1>5. CASE UpdateStore
  <2>1. UNCHANGED <<cap, updates>> /\ call'.status = "ok"
    BY <1>5 DEF UpdateStore
  <2> QED BY <1>5, <2>1, UpdateStoreProperties DEF ClosedInv, NoLoss, Updating
<1>6. CASE UNCHANGED <<params, cap, updates>> /\ NoLoss'
  BY <1>6 DEF ClosedInv
<1>7. ASSUME NEW n \in Names, NEW v \in Values, UpdateFind(n, v)
      PROVE  UNCHANGED <<params, cap, updates>> /\ NoLoss'
  BY <1>7 DEF UpdateFind, paramVars, NoLoss
<1>8. CASE ProcessEnd
  BY <1>6, <1>8 DEF ProcessEnd, paramVars, NoLoss, Updating
<1>11. CASE UpdateCheck
  <2>1. UNCHANGED <<params, cap, updates>> /\ call.status = "found" /\ Updating
    BY <1>11 DEF UpdateCheck, paramVars, Updating
  <2>2. CASE AtEnd
    <3>1. call' = [status |-> "parameter_not_found"]
      BY <1>11, <2>2 DEF UpdateCheck
    <3> QED BY <1>6, <2>1, <3>1 DEF NoLoss, Updating
  <2>3. CASE ~AtEnd
    <3>1. call' = [call EXCEPT !.status = "pending"]
      BY <1>11, <2>3 DEF UpdateCheck
    <3>2. call.cap = cap /\ call.index # call.end
      BY <2>1, <2>3 DEF ClosedInv, NoLoss, AtEnd
    <3>3. call \in [status : {"found", "pending"}, name : Names, value : Values,
                    index : Nat, end : Nat, cap : Nat]
      BY <2>1 DEF IInv, TypeOK, Answers
    <3>4. call'.cap = call.cap /\ call'.index = call.index /\ call'.end = call.end
      BY <3>1, <3>3
    <3> QED BY <1>6, <2>1, <3>2, <3>4 DEF NoLoss
  <2> QED BY <2>2, <2>3
<1>9. CASE UNCHANGED <<params, cap, updates, call>>
  BY <1>9 DEF ClosedInv, NoLoss, Updating
<1>10. \/ UNCHANGED <<params, cap, updates, call>>
       \/ MergeNext \/ UpdateCheck \/ UpdateStore \/ ProcessEnd
       \/ \E b \in Batches : ParamChanged(b)
       \/ \E n \in Names, v \in Values : UpdateFind(n, v)
  BY DEF Next, vars, Run, ConnectFail, Signal, HandleSignal, LoopExit, DestroyFilter,
         DestroyLoop, Deinit, StateChanged, Terminated, PublishEntry, PublishEnd,
         ProcessBegin, TakeSpan, paramVars, procVars
<1> QED BY <1>3, <1>4, <1>5, <1>6, <1>7, <1>8, <1>9, <1>10, <1>11

LEMMA SpecClosedInv ==
    ASSUME OnlyDeclaredNames
    PROVE  Spec => []ClosedInv
<1>1. Init => ClosedInv
  BY DEF Init, ClosedInv, NoLoss, Updating
<1>2. IInv /\ ClosedInv /\ [Next]_vars => ClosedInv'
  BY ClosedStep
<1> QED BY <1>1, <1>2, SpecIInv, PTL DEF Spec

\* With every name declared beforehand, the same holds on the data thread: updates may
\* come between the entries of a batch and of a pod, and none is lost.
THEOREM DeclaredNamesImplementEntries ==
    ASSUME OnlyDeclaredNames
    PROVE  Spec => ImplementsEntries
<1>1. IInv /\ ClosedInv /\ [Next]_vars => [Entry!GatheredNext]_(Entry!gatheredVars)
  BY StepRefines DEF ClosedInv
<1> QED BY <1>1, InitRefines, SpecIInv, SpecClosedInv, PTL DEF Spec, ImplementsEntries,
          Entry!GatheredSpec

\* With every name declared beforehand, no span ever dangles, on either thread.
THEOREM DeclaredNamesKeepSpans ==
    ASSUME OnlyDeclaredNames
    PROVE  Spec => []SpansStayLive
<1> DEFINE SpanInv == span = NoSpan \/ span.cap = cap
<1>1. Init => SpanInv
  BY DEF Init
<1>2. ASSUME SpanInv, ClosedInv, ClosedInv', [Next]_vars PROVE SpanInv'
  <2>1. cap' = cap
    BY <1>2 DEF ClosedInv
  <2>2. span' = span \/ span' = NoSpan \/ span' = [cap |-> cap, len |-> Len(params)]
    BY <1>2 DEF Next, vars, Run, ConnectFail, Signal, HandleSignal, LoopExit, DestroyFilter,
           DestroyLoop, Deinit, StateChanged, Terminated, ParamChanged, MergeNext, PublishEntry,
           PublishEnd, ProcessBegin, TakeSpan, UpdateFind, UpdateCheck, UpdateStore, ProcessEnd,
           procVars
  <2> QED BY <1>2, <2>1, <2>2
<1>3. SpanInv => SpansStayLive
  BY DEF Dangling, SpansStayLive
<1> QED BY <1>1, <1>2, <1>3, SpecClosedInv, PTL DEF Spec

=============================================================================
