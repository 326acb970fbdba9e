--------------------------- MODULE AppBuilderProofs ---------------------------
(***************************************************************************)
(* What holds for every number of applications of one builder, whatever    *)
(* the builder is told, in whatever order, and whatever PipeWire refuses.  *)
(***************************************************************************)
EXTENDS AppBuilder, FiniteSetTheorems, TLAPS

\* The applications that need the library.
Users == {a \in Apps : stage[a] \in {"built", "running", "closing"}}

\* No more threads are busy than there are; updates and merges are made in running
\* loops, one at a time.
LifeInv ==
    /\ Cardinality(Busy) <= threads
    /\ \A a \in Apps : call[a] # NoCall => stage[a] = "running"
    /\ \A a \in Apps : appending[a] # NoAppend => stage[a] = "running" /\ call[a] = NoCall

\* There is one vector.  With one thread, what an append has read is not stale, and
\* what was added to the vector stays where it was put.
ListInv ==
    /\ \A a \in Apps : stage[a] # "none" => store[a] = current
    /\ \A w \in Appenders : appending[w] # NoAppend => appending[w].into = current
    /\ threads = 1 =>
        /\ \A w \in Appenders : appending[w] # NoAppend => appending[w].read = vector[current]
        /\ \A k \in DOMAIN added :
            LET list == vector[current].names IN
            /\ added[k].index \in DOMAIN list
            /\ list[added[k].index] = added[k].name

IInv == TypeOK /\ LibraryBalance /\ LifeInv /\ ListInv /\ PortsAsDeclared /\ OneThreadLosesNothing

\* The appends there can be.
Appends == {NoAppend} \cup {p \in [name : Names, into : Vectors, read : Vector] :
                                Len(p.read.names) <= p.read.cap}

-----------------------------------------------------------------------------
(* The vector *)

\* emplace_back adds one name behind the others.
LEMMA Appending ==
    ASSUME NEW old \in Vector, Len(old.names) <= old.cap, NEW n \in Names
    PROVE  /\ Appended(old, n) \in Vector
           /\ Len(Appended(old, n).names) <= Appended(old, n).cap
           /\ Appended(old, n).names = Append(old.names, n)
<1>1. old.names \in Seq(Names) /\ old.cap \in Nat /\ Len(old.names) \in Nat
  BY DEF Vector
<1>2. Doubled(old) \in Nat /\ Len(old.names) + 1 <= Doubled(old)
  <2>1. CASE Len(old.names) < old.cap
    BY <1>1, <2>1 DEF Doubled
  <2>2. CASE Len(old.names) = old.cap /\ old.cap = 0
    BY <1>1, <2>2 DEF Doubled
  <2>3. CASE Len(old.names) = old.cap /\ old.cap # 0
    BY <1>1, <2>3 DEF Doubled
  <2> QED BY <1>1, <2>1, <2>2, <2>3
<1>3. Append(old.names, n) \in Seq(Names) /\ Len(Append(old.names, n)) = Len(old.names) + 1
  BY <1>1
<1> QED BY <1>2, <1>3 DEF Appended, Vector

\* Entering emplace_back records what the appender has read.
LEMMA Entering ==
    ASSUME TypeOK, NEW w \in Appenders, NEW v \in Vectors, NEW n \in Names, Enter(w, v, n)
    PROVE  /\ appending' \in [Appenders -> Appends]
           /\ appending'[w].into = v /\ appending'[w].read = vector[v]
           /\ \A x \in Appenders \ {w} : appending'[x] = appending[x]
<1> DEFINE p == [name |-> n, into |-> v, read |-> vector[v]]
<1>1. appending \in [Appenders -> Appends]
  BY DEF TypeOK, Appends
<1>2. vector[v] \in Vector /\ Len(vector[v].names) <= vector[v].cap
  BY DEF TypeOK
<1>3. p \in Appends /\ p.into = v /\ p.read = vector[v]
  BY <1>2 DEF Appends
<1>4. appending' = [appending EXCEPT ![w] = p]
  BY DEF Enter
<1> HIDE DEF p
<1> QED BY <1>1, <1>3, <1>4

\* Leaving it puts a name behind what was read or behind what is there, or crashes
\* when these differ.
LEMMA Leaving ==
    ASSUME TypeOK, NEW w \in Appenders, appending[w] # NoAppend, Leave(w), ~crashed
    PROVE  /\ appending' \in [Appenders -> Appends]
           /\ appending'[w] = NoAppend
           /\ \A x \in Appenders \ {w} : appending'[x] = appending[x]
           /\ vector' \in [Vectors -> Vector] /\ crashed' \in BOOLEAN
           /\ \A v \in Vectors : Len(vector'[v].names) <= vector'[v].cap
           /\ appending[w] \in [name : Names, into : Vectors, read : Vector]
           /\ appending[w].read = vector[appending[w].into] =>
                /\ UNCHANGED crashed
                /\ vector' = [vector EXCEPT ![appending[w].into] =
                                Appended(vector[appending[w].into], appending[w].name)]
                /\ vector'[appending[w].into].names =
                        Append(vector[appending[w].into].names, appending[w].name)
<1> DEFINE p == appending[w]
<1>1. appending \in [Appenders -> Appends] /\ vector \in [Vectors -> Vector]
      /\ \A v \in Vectors : Len(vector[v].names) <= vector[v].cap
  BY DEF TypeOK, Appends
<1>2. p \in [name : Names, into : Vectors, read : Vector] /\ Len(p.read.names) <= p.read.cap
  BY <1>1 DEF Appends
<1>3. p.name \in Names /\ p.into \in Vectors /\ p.read \in Vector
  BY <1>2
<1>4. appending' = [appending EXCEPT ![w] = NoAppend]
  BY DEF Leave
<1>5. /\ appending' \in [Appenders -> Appends] /\ appending'[w] = NoAppend
      /\ \A x \in Appenders \ {w} : appending'[x] = appending[x]
  <2>1. NoAppend \in Appends
    BY DEF Appends
  <2> QED BY <1>1, <1>4, <2>1
<1>6. \/ \E old \in {p.read, vector[p.into]} :
            /\ vector' = [vector EXCEPT ![p.into] = Appended(old, p.name)]
            /\ UNCHANGED crashed
      \/ p.read # vector[p.into] /\ crashed' = TRUE /\ UNCHANGED vector
  BY DEF Leave
<1> HIDE DEF p
<1>7. CASE \E old \in {p.read, vector[p.into]} :
            /\ vector' = [vector EXCEPT ![p.into] = Appended(old, p.name)]
            /\ UNCHANGED crashed
  <2>1. PICK old \in {p.read, vector[p.into]} :
            /\ vector' = [vector EXCEPT ![p.into] = Appended(old, p.name)]
            /\ UNCHANGED crashed
    BY <1>7
  <2>2. old \in Vector /\ Len(old.names) <= old.cap
    BY <1>1, <1>2, <1>3
  <2> DEFINE new == Appended(old, p.name)
  <2>3. new \in Vector /\ Len(new.names) <= new.cap /\ new.names = Append(old.names, p.name)
    BY <1>3, <2>2, Appending
  <2>4. vector' = [vector EXCEPT ![p.into] = new]
    BY <2>1
  <2>5. p.read = vector[p.into] => new = Appended(vector[p.into], p.name)
    OBVIOUS
  <2>6. p.read = vector[p.into] => new.names = Append(vector[p.into].names, p.name)
    BY <2>3
  <2> HIDE DEF new
  <2>7. vector' \in [Vectors -> Vector] /\ vector'[p.into] = new
        /\ \A v \in Vectors : Len(vector'[v].names) <= vector'[v].cap
    BY <1>1, <1>3, <2>3, <2>4
  <2>8. crashed' \in BOOLEAN /\ UNCHANGED crashed
    BY <2>1 DEF TypeOK
  <2> QED BY <1>2, <1>5, <2>4, <2>5, <2>6, <2>7, <2>8 DEF p
<1>8. CASE p.read # vector[p.into] /\ crashed' = TRUE /\ UNCHANGED vector
  BY <1>1, <1>2, <1>5, <1>8 DEF p
<1> QED BY <1>6, <1>7, <1>8

-----------------------------------------------------------------------------
(* Who uses the library *)

\* The sets are finite, whatever the stages are.
LEMMA FiniteApps ==
    /\ IsFiniteSet(Users) /\ Cardinality(Users) \in Nat
    /\ IsFiniteSet(Busy) /\ Cardinality(Busy) \in Nat
<1>1. IsFiniteSet(Apps \cup {Builder})
  BY AppsAssumption, FS_AddElement
<1>2. Users \in SUBSET Apps /\ Busy \in SUBSET (Apps \cup {Builder})
  BY DEF Users, Busy
<1> QED BY <1>1, <1>2, AppsAssumption, FS_Subset, FS_CardinalityType

\* One application enters another stage.
LEMMA StageChange ==
    ASSUME TypeOK, NEW a \in Apps, NEW s \in {"none", "built", "running", "closing", "closed"},
           stage' = [stage EXCEPT ![a] = s]
    PROVE  /\ stage'[a] = s /\ \A b \in Apps \ {a} : stage'[b] = stage[b]
           /\ Users' = IF s \in {"built", "running", "closing"} THEN Users \cup {a} ELSE Users \ {a}
           /\ appending' = appending =>
                Busy' = IF s \in {"running", "closing"} THEN Busy \cup {a} ELSE Busy \ {a}
<1>1. stage'[a] = s /\ \A b \in Apps \ {a} : stage'[b] = stage[b]
  BY DEF TypeOK
<1>2. Users' = IF s \in {"built", "running", "closing"} THEN Users \cup {a} ELSE Users \ {a}
  BY <1>1 DEF Users
<1>3. ASSUME appending' = appending
      PROVE  Busy' = IF s \in {"running", "closing"} THEN Busy \cup {a} ELSE Busy \ {a}
  <2>1. a # Builder
    BY AppsAssumption DEF Builder
  <2> QED BY <1>1, <1>3, <2>1 DEF Busy
<1> QED BY <1>1, <1>2, <1>3

LEMMA BalanceMeans == LibraryBalance <=> (~crashed => inits = Cardinality(Users))
BY DEF LibraryBalance, Users

-----------------------------------------------------------------------------
(* Types *)

\* The ports build makes are handles, one for every definition.
LEMMA PortsForType ==
    ASSUME TypeOK, NEW f \in Apps \cup {NULL}, NEW d \in Directions, NEW failed
    PROVE  /\ PortsFor(f, d, failed) \in Seq(Handles \cup {NULL})
           /\ DOMAIN PortsFor(f, d, failed) = DOMAIN declared[d]
<1>1. declared[d] \in Seq(PortNames)
  BY DEF TypeOK
<1>2. DOMAIN declared[d] = 1..Len(declared[d]) /\ Len(declared[d]) \in Nat
      /\ \A i \in 1..Len(declared[d]) : declared[d][i] \in PortNames
  BY <1>1
<1> QED BY <1>2 DEF PortsFor, Handles

LEMMA BuildType ==
    ASSUME TypeOK, NEW a \in Apps, Build(a)
    PROVE  TypeOK'
<1>1. /\ inits' = inits + 1 /\ stage' = [stage EXCEPT ![a] = "built"]
      /\ store' = [store EXCEPT ![a] = current] /\ wanted' = [wanted EXCEPT ![a] = declared]
      /\ UNCHANGED <<threads, builderVars, vectorVars, call, crashed>>
  BY DEF Build
<1>2. PICK f \in {a, NULL}, failed \in [Directions -> SUBSET (1..MaxPorts)] :
        /\ filter' = [filter EXCEPT ![a] = f]
        /\ ports' = [ports EXCEPT ![a] = [d \in Directions |-> PortsFor(f, d, failed[d])]]
  BY DEF Build
<1>3. [d \in Directions |-> PortsFor(f, d, failed[d])] \in [Directions -> Seq(Handles \cup {NULL})]
  BY PortsForType
<1>4. ports' \in [Apps -> [Directions -> Seq(Handles \cup {NULL})]]
  BY <1>2, <1>3 DEF TypeOK
<1>5. filter' \in [Apps -> Apps \cup {NULL}] /\ \A b \in Apps : filter'[b] \in {b, NULL}
  BY <1>2 DEF TypeOK
<1>6. /\ inits' \in Nat
      /\ stage' \in [Apps -> {"none", "built", "running", "closing", "closed"}]
      /\ store' \in [Apps -> Vectors]
      /\ wanted' \in [Apps -> [Directions -> Seq(PortNames)]]
  BY <1>1 DEF TypeOK
<1> QED BY <1>1, <1>4, <1>5, <1>6 DEF TypeOK, builderVars, vectorVars

LEMMA InitType == Init => TypeOK
<1> SUFFICES ASSUME Init PROVE TypeOK
  OBVIOUS
<1>1. 0 \in Vectors
  BY DEF Vectors
<1>2. vector \in [Vectors -> Vector]
      /\ \A v \in Vectors : Len(vector[v].names) <= vector[v].cap
  <2>1. vector = [v \in Vectors |-> [names |-> <<>>, cap |-> 0]]
    BY DEF Init
  <2>2. <<>> \in Seq(Names) /\ Len(<<>>) = 0
    OBVIOUS
  <2> QED BY <2>1, <2>2 DEF Vector
<1>3. /\ NoPorts \in [Directions -> Seq(PortNames)]
      /\ NoPorts \in [Directions -> Seq(Handles \cup {NULL})]
  BY DEF NoPorts
<1>4. <<>> \in Seq([name : Names, index : Nat])
  OBVIOUS
<1> QED BY <1>1, <1>2, <1>3, <1>4 DEF Init, TypeOK, NoCall

\* The library is left only by an application that has entered it.
LEMMA NextType == TypeOK /\ LibraryBalance /\ [Next]_vars => TypeOK'
<1> SUFFICES ASSUME TypeOK, LibraryBalance, [Next]_vars PROVE TypeOK'
  OBVIOUS
<1>1. CASE UNCHANGED vars \/ Refused \/ Crashed \/ \E a \in Apps : ConnectFails(a)
  BY <1>1 DEF TypeOK, vars, builderVars, appVars, vectorVars, Refused, Crashed, ConnectFails
<1>2. CASE \/ \E what \in Required : Set(what)
           \/ \E what \in Emptied : SetEmpty(what)
  BY <1>2 DEF TypeOK, Set, SetEmpty, appVars, vectorVars
<1>3. CASE \E d \in Directions, n \in PortNames : AddPort(d, n)
  <2>1. PICK d \in Directions, n \in PortNames : declared' = [declared EXCEPT ![d] = Append(@, n)]
    BY <1>3 DEF AddPort
  <2>2. declared' \in [Directions -> Seq(PortNames)]
    BY <2>1 DEF TypeOK
  <2> QED BY <1>3, <2>2 DEF TypeOK, AddPort, appVars, vectorVars
<1>4. CASE (\E n \in Names : AddBegin(n)) \/ (\E a \in Apps, n \in Names : MergeBegin(a, n))
  <2>1. PICK w \in Appenders, v \in Vectors, n \in Names : Enter(w, v, n)
    BY <1>4 DEF AddBegin, MergeBegin, TypeOK, Appenders
  <2>2. appending' \in [Appenders -> Appends]
    BY <2>1, Entering
  <2> QED BY <1>4, <2>2 DEF TypeOK, Appends, AddBegin, MergeBegin, appVars, builderVars
<1>5. CASE AddEnd \/ \E a \in Apps : MergeEnd(a)
  <2>1. PICK w \in Appenders : appending[w] # NoAppend /\ Leave(w) /\ ~crashed
    BY <1>5 DEF AddEnd, MergeEnd, Appenders
  <2>2. /\ appending' \in [Appenders -> Appends]
        /\ vector' \in [Vectors -> Vector] /\ crashed' \in BOOLEAN
        /\ \A v \in Vectors : Len(vector'[v].names) <= vector'[v].cap
    BY <2>1, Leaving
  <2>3. added' \in Seq([name : Names, index : Nat])
    <3>1. CASE AddEnd
      <4>1. /\ appending[Builder] # NoAppend /\ Leave(Builder) /\ ~crashed
            /\ Builder \in Appenders /\ current \in Vectors
        BY <3>1 DEF AddEnd, TypeOK, Appenders
      <4>2. appending[Builder].name \in Names
        BY <4>1, Leaving
      <4>3. Len(vector'[current].names) \in Nat
        BY <2>2, <4>1 DEF Vector
      <4>4. [name |-> appending[Builder].name, index |-> Len(vector'[current].names)]
                \in [name : Names, index : Nat]
        BY <4>2, <4>3
      <4> QED BY <3>1, <4>4 DEF AddEnd, TypeOK
    <3>2. CASE \E a \in Apps : MergeEnd(a)
      BY <3>2 DEF MergeEnd, builderVars, TypeOK
    <3> QED BY <1>5, <3>1, <3>2
  <2> QED BY <1>5, <2>2, <2>3 DEF TypeOK, Appends, AddEnd, MergeEnd, appVars, builderVars
<1>6. CASE BuildCrashes
  BY <1>6, SMTT(30) DEF TypeOK, BuildCrashes, appVars, builderVars, vectorVars
<1>7. CASE \E a \in Apps : Build(a)
  BY <1>7, BuildType
<1>8. CASE \E a \in Apps : Run(a) \/ UseMissingPort(a)
  BY <1>8 DEF TypeOK, Run, UseMissingPort, appVars, builderVars, vectorVars
<1>11. ASSUME NEW a \in Apps, Destroy(a) PROVE TypeOK'
  <2>1. /\ NoPorts \in [Directions -> Seq(PortNames)]
        /\ NoPorts \in [Directions -> Seq(Handles \cup {NULL})]
    BY DEF NoPorts
  <2>2. /\ ports' \in [Apps -> [Directions -> Seq(Handles \cup {NULL})]]
        /\ wanted' \in [Apps -> [Directions -> Seq(PortNames)]]
    BY <1>11, <2>1 DEF Destroy, TypeOK
  <2>3. /\ filter' \in [Apps -> Apps \cup {NULL}] /\ \A b \in Apps : filter'[b] \in {b, NULL}
        /\ stage' \in [Apps -> {"none", "built", "running", "closing", "closed"}]
    BY <1>11 DEF Destroy, TypeOK
  <2> QED BY <1>11, <2>2, <2>3 DEF TypeOK, Destroy, builderVars, vectorVars
<1>9. CASE \E a \in Apps : UpdateFind(a) \/ UpdateStore(a)
  <2>1. PICK a \in Apps : \/ call' = [call EXCEPT ![a] = vector[store[a]].cap]
                          \/ call' = [call EXCEPT ![a] = NoCall]
    BY <1>9 DEF UpdateFind, UpdateStore
  <2>2. vector[store[a]].cap \in Nat /\ NoCall \in Nat
    BY DEF TypeOK, Vector, NoCall
  <2>3. call' \in [Apps -> Nat]
    BY <2>1, <2>2 DEF TypeOK
  <2> QED BY <1>9, <2>3 DEF TypeOK, UpdateFind, UpdateStore, appVars, builderVars, vectorVars
<1>10. ASSUME NEW a \in Apps, Deinit(a) PROVE TypeOK'
  <2>1. ~crashed /\ a \in Users /\ inits' = inits - 1
    BY <1>10 DEF Deinit, Users
  <2>2. inits = Cardinality(Users)
    BY <2>1, BalanceMeans
  <2>3. Cardinality(Users) # 0
    BY <2>1, FiniteApps, FS_EmptySet
  <2>4. inits' \in Nat
    BY <2>1, <2>2, <2>3, FiniteApps
  <2> QED BY <1>10, <2>4 DEF TypeOK, Deinit, appVars, builderVars, vectorVars
<1> QED BY <1>1, <1>2, <1>3, <1>4, <1>5, <1>6, <1>7, <1>8, <1>9, <1>10, <1>11 DEF Next

-----------------------------------------------------------------------------
(* The steps *)

\* Most steps of the configuration, and those that crash, touch no application and
\* no vector.
LEMMA StepKinds ==
    [Next]_vars =>
        /\ UNCHANGED <<threads, current>>
        /\ \/ UNCHANGED <<appVars, call, vector, appending, added>>
           \/ AddEnd \/ \E n \in Names : AddBegin(n)
           \/ \E a \in Apps :
                \/ Build(a) \/ Run(a) \/ UpdateFind(a) \/ UpdateStore(a)
                \/ Destroy(a) \/ Deinit(a)
                \/ MergeEnd(a) \/ \E n \in Names : MergeBegin(a, n)
<1> SUFFICES ASSUME [Next]_vars
             PROVE  /\ UNCHANGED <<threads, current>>
                    /\ \/ UNCHANGED <<appVars, call, vector, appending, added>>
                       \/ AddEnd \/ \E n \in Names : AddBegin(n)
                       \/ \E a \in Apps :
                            \/ Build(a) \/ Run(a) \/ UpdateFind(a) \/ UpdateStore(a)
                            \/ Destroy(a) \/ Deinit(a)
                            \/ MergeEnd(a) \/ \E n \in Names : MergeBegin(a, n)
  OBVIOUS
<1>1. UNCHANGED <<threads, current>>
  BY DEF Next, vars, builderVars, Set, SetEmpty, AddPort, AddBegin, AddEnd, Refused, BuildCrashes,
         Build, Run, ConnectFails, UpdateFind, UpdateStore, UseMissingPort, Destroy, Deinit,
         MergeBegin, MergeEnd, Crashed
<1>2. \/ UNCHANGED <<appVars, call, vector, appending, added>>
      \/ AddEnd \/ \E n \in Names : AddBegin(n)
      \/ \E a \in Apps :
            \/ Build(a) \/ Run(a) \/ UpdateFind(a) \/ UpdateStore(a)
            \/ Destroy(a) \/ Deinit(a)
            \/ MergeEnd(a) \/ \E n \in Names : MergeBegin(a, n)
  BY DEF Next, vars, builderVars, appVars, vectorVars, Set, SetEmpty, AddPort, Refused, BuildCrashes,
         ConnectFails, UseMissingPort, Crashed
<1> QED BY <1>1, <1>2

-----------------------------------------------------------------------------
(* The steps that move an application *)

\* What build has done, run leaves and execute undoes.
LEMMA NextBalance == TypeOK /\ LibraryBalance /\ [Next]_vars => LibraryBalance'
<1> SUFFICES ASSUME TypeOK, LibraryBalance, [Next]_vars, ~crashed' PROVE LibraryBalance'
  BY DEF LibraryBalance
<1>0. LibraryBalance' <=> inits' = Cardinality(Users')
  BY DEF LibraryBalance, Users
<1>1. ~crashed
  BY DEF Next, vars, Set, SetEmpty, AddPort, AddBegin, AddEnd, Refused, BuildCrashes, Build, Run,
         ConnectFails, UpdateFind, UpdateStore, UseMissingPort, Destroy, Deinit, MergeBegin,
         MergeEnd, Crashed, BuilderCall, LoopFree
<1>2. inits = Cardinality(Users)
  BY <1>1, BalanceMeans
<1>3. CASE UNCHANGED <<stage, inits>>
  BY <1>0, <1>2, <1>3 DEF Users
<1>4. ASSUME NEW a \in Apps, Build(a) PROVE LibraryBalance'
  <2>1. stage' = [stage EXCEPT ![a] = "built"] /\ inits' = inits + 1 /\ a \notin Users
    BY <1>4 DEF Build, NextApp, Users
  <2>2. Users' = Users \cup {a}
    BY <2>1, StageChange
  <2>3. Cardinality(Users') = Cardinality(Users) + 1
    BY <2>1, <2>2, FiniteApps, FS_AddElement
  <2> QED BY <1>0, <1>2, <2>1, <2>3
<1>5. ASSUME NEW a \in Apps, Run(a) \/ Destroy(a) PROVE LibraryBalance'
  <2>1. UNCHANGED inits /\ a \in Users
        /\ (\E s \in {"running", "closing"} : stage' = [stage EXCEPT ![a] = s])
    BY <1>1, <1>5 DEF Run, Destroy, LoopFree, Users
  <2>2. Users' = Users \cup {a}
    BY <2>1, StageChange
  <2> QED BY <1>0, <1>2, <2>1, <2>2
<1>6. ASSUME NEW a \in Apps, Deinit(a) PROVE LibraryBalance'
  <2>1. stage' = [stage EXCEPT ![a] = "closed"] /\ inits' = inits - 1 /\ a \in Users
    BY <1>6 DEF Deinit, Users
  <2>2. Users' = Users \ {a}
    BY <2>1, StageChange
  <2>3. Cardinality(Users') = Cardinality(Users) - 1
    BY <2>1, <2>2, FiniteApps, FS_RemoveElement
  <2> QED BY <1>0, <1>2, <2>1, <2>3
<1>7. \/ UNCHANGED <<stage, inits>>
      \/ \E a \in Apps : Build(a) \/ Run(a) \/ Destroy(a) \/ Deinit(a)
  BY DEF Next, vars, appVars, Set, SetEmpty, AddPort, AddBegin, AddEnd, Refused, BuildCrashes,
         ConnectFails, UpdateFind, UpdateStore, UseMissingPort, MergeBegin, MergeEnd, Crashed
<1> QED BY <1>3, <1>4, <1>5, <1>6, <1>7

\* A thread enters only when one is free, and a loop is left only between updates
\* and merges.
LEMMA NextLife == TypeOK /\ LifeInv /\ [Next]_vars => LifeInv'
<1> SUFFICES ASSUME TypeOK, LifeInv, [Next]_vars PROVE LifeInv'
  OBVIOUS
<1>1. threads' = threads /\ threads \in Nat
  BY StepKinds, ThreadsAssumption DEF TypeOK
<1>2. CASE UNCHANGED <<appVars, call, vector, appending, added>>
  BY <1>1, <1>2 DEF LifeInv, Busy, appVars
<1>3. ASSUME NEW a \in Apps, Build(a) PROVE LifeInv'
  <2>1. /\ stage' = [stage EXCEPT ![a] = "built"] /\ stage[a] = "none"
        /\ call' = call /\ appending' = appending
    BY <1>3 DEF Build, NextApp, vectorVars
  <2>2. Busy' = Busy
    BY <2>1, StageChange, AppsAssumption DEF Busy, Builder
  <2> QED BY <1>1, <2>1, <2>2, StageChange DEF LifeInv
<1>4. ASSUME NEW a \in Apps, Run(a) PROVE LifeInv'
  <2>1. CASE stage' = stage
    BY <1>1, <1>4, <2>1 DEF LifeInv, Busy, Run, vectorVars
  <2>2. CASE stage' = [stage EXCEPT ![a] = "running"]
    <3>1. /\ stage[a] = "built" /\ call' = call /\ appending' = appending
          /\ Cardinality(Busy) < threads /\ a \notin Busy
      BY <1>4, AppsAssumption DEF Run, Busy, FreeThread, vectorVars, Builder
    <3>2. Busy' = Busy \cup {a}
      BY <2>2, <3>1, StageChange
    <3>3. Cardinality(Busy') = Cardinality(Busy) + 1
      BY <3>1, <3>2, FiniteApps, FS_AddElement
    <3>4. Cardinality(Busy') <= threads'
      BY <1>1, <3>1, <3>3, FiniteApps
    <3> QED BY <2>2, <3>1, <3>4, StageChange DEF LifeInv
  <2> QED BY <1>4, <2>1, <2>2 DEF Run
<1>5. ASSUME NEW a \in Apps, Destroy(a) PROVE LifeInv'
  <2>1. /\ stage' = [stage EXCEPT ![a] = "closing"] /\ a \in Busy
        /\ call[a] = NoCall /\ appending[a] = NoAppend /\ call' = call /\ appending' = appending
    BY <1>5 DEF Destroy, LoopFree, Busy, vectorVars
  <2>2. Busy' = Busy \cup {a}
    BY <2>1, StageChange
  <2>3. Busy' = Busy
    BY <2>1, <2>2
  <2> QED BY <1>1, <2>1, <2>3, StageChange DEF LifeInv
<1>6. ASSUME NEW a \in Apps, Deinit(a) PROVE LifeInv'
  <2>1. /\ stage' = [stage EXCEPT ![a] = "closed"] /\ stage[a] = "closing" /\ a \in Busy
        /\ call' = call /\ appending' = appending
    BY <1>6 DEF Deinit, Busy, vectorVars
  <2>2. Cardinality(Busy') = Cardinality(Busy) - 1
    BY <2>1, StageChange, FiniteApps, FS_RemoveElement
  <2>3. Cardinality(Busy') <= threads'
    BY <1>1, <2>2, FiniteApps DEF LifeInv
  <2> QED BY <2>1, <2>3, StageChange DEF LifeInv
<1>7. ASSUME NEW a \in Apps, UpdateFind(a) \/ UpdateStore(a) PROVE LifeInv'
  <2>1. stage' = stage /\ Busy' = Busy /\ appending' = appending
    BY <1>7 DEF UpdateFind, UpdateStore, appVars, vectorVars, Busy
  <2>2. \A b \in Apps : call'[b] # NoCall => stage[b] = "running" /\ appending[b] = NoAppend
    BY <1>7 DEF UpdateFind, UpdateStore, LoopFree, LifeInv, TypeOK
  <2> QED BY <1>1, <2>1, <2>2 DEF LifeInv
<1>8. ASSUME NEW n \in Names, AddBegin(n) PROVE LifeInv'
  <2>1. /\ UNCHANGED <<stage, call>> /\ Cardinality(Busy) < threads
        /\ Enter(Builder, current, n) /\ Builder \in Appenders /\ current \in Vectors
    BY <1>8 DEF AddBegin, BuilderCall, FreeThread, appVars, Appenders, TypeOK
  <2>2. \A a \in Apps : appending'[a] = appending[a]
    BY <2>1, Entering, AppsAssumption DEF Builder, Appenders
  <2>3. Builder \notin Busy
    BY <1>8, AppsAssumption DEF AddBegin, BuilderCall, Busy, Builder
  <2>4. Cardinality(Busy \cup {Builder}) = Cardinality(Busy) + 1
    BY <2>3, FiniteApps, FS_AddElement
  <2>5. Busy' \in {Busy, Busy \cup {Builder}}
    <3>1. appending[Builder] = NoAppend
      BY <1>8 DEF AddBegin, BuilderCall
    <3> QED BY <2>1, <3>1 DEF Busy
  <2>6. Cardinality(Busy') <= threads'
    <3>1. Cardinality(Busy') = Cardinality(Busy) \/ Cardinality(Busy') = Cardinality(Busy) + 1
      BY <2>4, <2>5
    <3>2. Cardinality(Busy) \in Nat /\ Cardinality(Busy) < threads
      BY <2>1, FiniteApps
    <3> QED BY <1>1, <3>1, <3>2
  <2>7. \A a \in Apps : /\ call'[a] # NoCall => stage'[a] = "running"
                        /\ appending'[a] # NoAppend => stage'[a] = "running" /\ call'[a] = NoCall
    BY <2>1, <2>2 DEF LifeInv
  <2> QED BY <2>6, <2>7 DEF LifeInv
<1>9. ASSUME AddEnd PROVE LifeInv'
  <2>1. /\ UNCHANGED <<stage, call>> /\ appending[Builder] # NoAppend /\ Leave(Builder) /\ ~crashed
        /\ Builder \in Appenders
    BY <1>9 DEF AddEnd, appVars, Appenders
  <2>2. appending'[Builder] = NoAppend /\ \A a \in Apps : appending'[a] = appending[a]
    BY <2>1, Leaving, AppsAssumption DEF Builder, Appenders
  <2>3. Busy' = Busy \ {Builder} /\ Builder \in Busy
    BY <2>1, <2>2, AppsAssumption DEF Busy, Builder
  <2>4. Cardinality(Busy') = Cardinality(Busy) - 1
    BY <2>3, FiniteApps, FS_RemoveElement
  <2>5. Cardinality(Busy') <= threads'
    BY <1>1, <2>4, FiniteApps DEF LifeInv
  <2> QED BY <2>1, <2>2, <2>5 DEF LifeInv
<1>10. ASSUME NEW a \in Apps, MergeEnd(a) \/ \E n \in Names : MergeBegin(a, n) PROVE LifeInv'
  <2>1. /\ UNCHANGED <<stage, call>> /\ stage[a] = "running" /\ call[a] = NoCall /\ a \in Appenders
    BY <1>10 DEF MergeBegin, MergeEnd, LoopFree, LifeInv, appVars, Appenders
  <2>2. \A x \in Appenders \ {a} : appending'[x] = appending[x]
    <3>1. CASE MergeEnd(a)
      BY <2>1, <3>1, Leaving DEF MergeEnd
    <3>2. CASE \E n \in Names : MergeBegin(a, n)
      <4>1. PICK n \in Names : Enter(a, store[a], n)
        BY <3>2 DEF MergeBegin
      <4>2. store[a] \in Vectors
        BY DEF TypeOK
      <4> QED BY <2>1, <4>1, <4>2, Entering
    <3> QED BY <1>10, <3>1, <3>2
  <2>3. Busy' = Busy
    BY <2>1, <2>2, AppsAssumption DEF Busy, Builder, Appenders
  <2>4. \A b \in Apps : appending'[b] # NoAppend => stage[b] = "running" /\ call[b] = NoCall
    BY <2>1, <2>2 DEF LifeInv, Appenders
  <2> QED BY <1>1, <2>1, <2>3, <2>4 DEF LifeInv
<1> QED BY <1>2, <1>3, <1>4, <1>5, <1>6, <1>7, <1>8, <1>9, <1>10, StepKinds

\* With one thread, whoever is busy is alone.
LEMMA AloneWhenBusy ==
    ASSUME TypeOK, LifeInv, threads = 1, NEW x \in Busy
    PROVE  (\A y \in Busy : y = x) /\ ~FreeThread
<1>1. Cardinality(Busy) <= 1
  BY DEF LifeInv
<1>2. Cardinality(Busy) # 0
  BY FiniteApps, FS_EmptySet
<1>3. Cardinality(Busy) = 1
  BY <1>1, <1>2, FiniteApps
<1>4. \E y : Busy = {y}
  BY <1>3, FiniteApps, FS_Singleton
<1> QED BY <1>3, <1>4 DEF FreeThread

\* Who is in an append, or in an update, is busy.
LEMMA WhoIsBusy ==
    ASSUME LifeInv
    PROVE  /\ \A w \in Appenders : appending[w] # NoAppend => w \in Busy
           /\ \A a \in Apps : call[a] # NoCall \/ stage[a] = "running" => a \in Busy
BY DEF LifeInv, Busy, Appenders

-----------------------------------------------------------------------------
(* The shared vector *)

\* There stays one vector, and every append is into it.
LEMMA NextOneVector ==
    ASSUME TypeOK, ListInv, [Next]_vars
    PROVE  /\ \A a \in Apps : stage'[a] # "none" => store'[a] = current'
           /\ \A w \in Appenders : appending'[w] # NoAppend => appending'[w].into = current'
<1>1. current' = current
  BY StepKinds
<1>2. \A a \in Apps : stage'[a] # "none" => store'[a] = current'
  <2>1. CASE UNCHANGED <<stage, store>>
    BY <1>1, <2>1 DEF ListInv
  <2>2. ASSUME NEW b \in Apps, Build(b)
        PROVE  \A a \in Apps : stage'[a] # "none" => store'[a] = current'
    BY <1>1, <2>2 DEF Build, ListInv, TypeOK
  <2>3. ASSUME NEW b \in Apps, Run(b) \/ Destroy(b) \/ Deinit(b)
        PROVE  \A a \in Apps : stage'[a] # "none" => store'[a] = current'
    <3>1. store' = store /\ stage[b] # "none"
          /\ \A a \in Apps \ {b} : stage'[a] = stage[a]
      BY <2>3 DEF Run, Destroy, Deinit, LoopFree, TypeOK
    <3> QED BY <1>1, <3>1 DEF ListInv
  <2>4. \/ UNCHANGED <<stage, store>>
        \/ \E b \in Apps : Build(b) \/ Run(b) \/ Destroy(b) \/ Deinit(b)
    BY StepKinds DEF appVars, AddBegin, AddEnd, UpdateFind, UpdateStore, MergeBegin, MergeEnd
  <2> QED BY <2>1, <2>2, <2>3, <2>4
<1>3. \A w \in Appenders : appending'[w] # NoAppend => appending'[w].into = current'
  <2>1. CASE UNCHANGED appending
    BY <1>1, <2>1 DEF ListInv
  <2>2. ASSUME NEW v \in Appenders, NEW n \in Names, Enter(v, current, n)
        PROVE  \A w \in Appenders : appending'[w] # NoAppend => appending'[w].into = current'
    <3>1. current \in Vectors
      BY DEF TypeOK
    <3> QED BY <1>1, <2>2, <3>1, Entering DEF ListInv
  <2>3. ASSUME NEW v \in Appenders, appending[v] # NoAppend, Leave(v), ~crashed
        PROVE  \A w \in Appenders : appending'[w] # NoAppend => appending'[w].into = current'
    BY <1>1, <2>3, Leaving DEF ListInv
  <2>4. \/ UNCHANGED appending
        \/ \E v \in Appenders, n \in Names : Enter(v, current, n)
        \/ \E v \in Appenders : appending[v] # NoAppend /\ Leave(v) /\ ~crashed
    <3>1. \A a \in Apps, n \in Names : MergeBegin(a, n) => Enter(a, current, n)
      BY DEF MergeBegin, LoopFree, ListInv
    <3> QED BY <3>1, StepKinds
            DEF vectorVars, Appenders, AddBegin, AddEnd, MergeEnd, Build, Run, Destroy, Deinit,
                UpdateFind, UpdateStore
  <2> QED BY <2>1, <2>2, <2>3, <2>4
<1> QED BY <1>2, <1>3

\* With one thread an append is alone: what it has read stays what there is, and it
\* puts one name behind the others.
LEMMA NextList == TypeOK /\ LifeInv /\ ListInv /\ [Next]_vars => ListInv'
<1> SUFFICES ASSUME TypeOK, LifeInv, ListInv, [Next]_vars PROVE ListInv'
  OBVIOUS
<1> DEFINE Listed(item, list) == item.index \in DOMAIN list /\ list[item.index] = item.name
           Fresh(w) == appending'[w] # NoAppend => appending'[w].read = vector'[current]
<1>1. current' = current /\ threads' = threads /\ current \in Vectors
  BY StepKinds DEF TypeOK
<1>2. SUFFICES ASSUME threads = 1
               PROVE  /\ \A w \in Appenders : Fresh(w)
                      /\ \A k \in DOMAIN added' : Listed(added'[k], vector'[current].names)
  BY <1>1, NextOneVector DEF ListInv
<1>3. /\ \A w \in Appenders : appending[w] # NoAppend =>
            appending[w].into = current /\ appending[w].read = vector[current]
      /\ \A k \in DOMAIN added : Listed(added[k], vector[current].names)
  BY <1>2 DEF ListInv
<1>4. CASE UNCHANGED <<vector, appending, added>>
  BY <1>3, <1>4
<1>5. ASSUME NEW v \in Appenders, NEW n \in Names, Enter(v, current, n), UNCHANGED <<vector, added>>
      PROVE  /\ \A w \in Appenders : Fresh(w)
             /\ \A k \in DOMAIN added' : Listed(added'[k], vector'[current].names)
  BY <1>1, <1>3, <1>5, Entering
<1>6. ASSUME NEW v \in Appenders, appending[v] # NoAppend, Leave(v), ~crashed
      PROVE  /\ \A w \in Appenders : Fresh(w)
             /\ vector'[current].names = Append(vector[current].names, appending[v].name)
  <2>1. vector'[current].names = Append(vector[current].names, appending[v].name)
        /\ appending'[v] = NoAppend /\ \A x \in Appenders \ {v} : appending'[x] = appending[x]
    BY <1>3, <1>6, Leaving
  <2>2. v \in Busy
    BY <1>6, WhoIsBusy
  <2>3. \A x \in Appenders \ {v} : appending[x] = NoAppend
    BY <1>2, <2>2, AloneWhenBusy, WhoIsBusy
  <2> QED BY <2>1, <2>3
<1>7. \A n : \A k \in DOMAIN added : Listed(added[k], Append(vector[current].names, n))
  <2>1. vector[current].names \in Seq(Names)
    BY <1>1 DEF TypeOK, Vector
  <2> QED BY <1>3, <2>1
<1>8. ASSUME NEW a \in Apps, MergeEnd(a)
      PROVE  /\ \A w \in Appenders : Fresh(w)
             /\ \A k \in DOMAIN added' : Listed(added'[k], vector'[current].names)
  <2>1. a \in Appenders /\ appending[a] # NoAppend /\ Leave(a) /\ ~crashed /\ added' = added
    BY <1>8 DEF MergeEnd, Appenders, builderVars
  <2> HIDE DEF Listed, Fresh
  <2> QED BY <1>6, <1>7, <2>1
<1>9. ASSUME AddEnd
      PROVE  /\ \A w \in Appenders : Fresh(w)
             /\ \A k \in DOMAIN added' : Listed(added'[k], vector'[current].names)
  <2> DEFINE item == [name |-> appending[Builder].name, index |-> Len(vector'[current].names)]
  <2>1. /\ Builder \in Appenders /\ appending[Builder] # NoAppend /\ Leave(Builder) /\ ~crashed
        /\ added' = Append(added, item)
    BY <1>9 DEF AddEnd, Appenders
  <2>2. vector'[current].names = Append(vector[current].names, item.name)
    BY <1>6, <2>1
  <2>3. vector[current].names \in Seq(Names) /\ item.index = Len(vector'[current].names)
    BY <1>1 DEF TypeOK, Vector
  <2> HIDE DEF item
  <2>4. Listed(item, vector'[current].names)
    BY <2>2, <2>3
  <2>5. \A k \in DOMAIN added' : (k \in DOMAIN added /\ added'[k] = added[k]) \/ added'[k] = item
    <3>1. added \in Seq([name : Names, index : Nat])
      BY DEF TypeOK
    <3> QED BY <2>1, <3>1
  <2> HIDE DEF Listed, Fresh
  <2>6. \A k \in DOMAIN added : Listed(added[k], vector'[current].names)
    BY <1>7, <2>2
  <2> QED BY <1>6, <2>1, <2>4, <2>5, <2>6
<1>10. \/ UNCHANGED <<vector, appending, added>>
       \/ \E v \in Appenders, n \in Names : Enter(v, current, n) /\ UNCHANGED <<vector, added>>
       \/ AddEnd \/ \E a \in Apps : MergeEnd(a)
  <2>1. \A a \in Apps, n \in Names : MergeBegin(a, n) => Enter(a, current, n)
    BY DEF MergeBegin, LoopFree, ListInv
  <2> QED BY <2>1, StepKinds
          DEF builderVars, vectorVars, Appenders, AddBegin, MergeBegin, Build, Run, Destroy, Deinit,
              UpdateFind, UpdateStore
<1> QED BY <1>4, <1>5, <1>8, <1>9, <1>10

-----------------------------------------------------------------------------
(* The ports *)

LEMMA NextPorts == TypeOK /\ PortsAsDeclared /\ [Next]_vars => PortsAsDeclared'
<1> DEFINE AsDeclared(s, ps, ws, f) ==
        s \in {"built", "running"} =>
            \A d \in Directions :
                /\ DOMAIN ps[d] = DOMAIN ws[d]
                /\ \A i \in DOMAIN ws[d] :
                    ps[d][i] \in {NULL, [name |-> ws[d][i], direction |-> d, of |-> f]}
<1> SUFFICES ASSUME TypeOK, PortsAsDeclared, [Next]_vars PROVE PortsAsDeclared'
  OBVIOUS
<1>1. \A a \in Apps : AsDeclared(stage[a], ports[a], wanted[a], filter[a])
  BY DEF PortsAsDeclared
<1>2. PortsAsDeclared' <=> \A a \in Apps : AsDeclared(stage'[a], ports'[a], wanted'[a], filter'[a])
  BY DEF PortsAsDeclared
<1>3. CASE UNCHANGED <<stage, filter, ports, wanted>>
  BY <1>1, <1>2, <1>3
<1>4. ASSUME NEW b \in Apps, Build(b) PROVE PortsAsDeclared'
  <2>1. PICK f \in {b, NULL}, failed \in [Directions -> SUBSET (1..MaxPorts)] :
            /\ filter' = [filter EXCEPT ![b] = f]
            /\ ports' = [ports EXCEPT ![b] = [d \in Directions |-> PortsFor(f, d, failed[d])]]
    BY <1>4 DEF Build
  <2>2. stage' = [stage EXCEPT ![b] = "built"] /\ wanted' = [wanted EXCEPT ![b] = declared]
    BY <1>4 DEF Build
  <2>3. \A a \in Apps \ {b} : /\ stage'[a] = stage[a] /\ filter'[a] = filter[a]
                              /\ ports'[a] = ports[a] /\ wanted'[a] = wanted[a]
    BY <2>1, <2>2 DEF TypeOK
  <2>4. /\ filter'[b] = f /\ wanted'[b] = declared
        /\ \A d \in Directions : ports'[b][d] = PortsFor(f, d, failed[d])
    BY <2>1, <2>2 DEF TypeOK
  <2>5. AsDeclared(stage'[b], ports'[b], wanted'[b], filter'[b])
    BY <2>4, ZenonT(30) DEF PortsFor
  <2> HIDE DEF AsDeclared
  <2>6. ASSUME NEW a \in Apps PROVE AsDeclared(stage'[a], ports'[a], wanted'[a], filter'[a])
    BY <1>1, <2>3, <2>5
  <2> QED BY <1>2, <2>6
<1>5. ASSUME NEW b \in Apps, Run(b) PROVE PortsAsDeclared'
  <2>1. /\ stage[b] = "built" /\ UNCHANGED <<filter, ports, wanted>>
        /\ stage' = stage \/ stage' = [stage EXCEPT ![b] = "running"]
    BY <1>5 DEF Run
  <2>2. \A a \in Apps : stage'[a] = stage[a] \/ stage[a] = "built"
    BY <2>1 DEF TypeOK
  <2> QED BY <1>1, <1>2, <2>1, <2>2
<1>6. ASSUME NEW b \in Apps, Destroy(b) \/ Deinit(b) PROVE PortsAsDeclared'
  <2>1. /\ stage'[b] \notin {"built", "running"}
        /\ \A a \in Apps \ {b} : /\ stage'[a] = stage[a] /\ filter'[a] = filter[a]
                                 /\ ports'[a] = ports[a] /\ wanted'[a] = wanted[a]
    BY <1>6 DEF Destroy, Deinit, TypeOK
  <2> QED BY <1>1, <1>2, <2>1
<1>7. \/ UNCHANGED <<stage, filter, ports, wanted>>
      \/ \E b \in Apps : Build(b) \/ Run(b) \/ Destroy(b) \/ Deinit(b)
  BY StepKinds DEF appVars, AddBegin, AddEnd, UpdateFind, UpdateStore, MergeBegin, MergeEnd
<1> QED BY <1>3, <1>4, <1>5, <1>6, <1>7

-----------------------------------------------------------------------------
(* Updates, in a program with one thread *)

\* With one thread, an update is alone: nobody appends, and nobody enters.
LEMMA NextOneThread ==
    TypeOK /\ LifeInv /\ OneThreadLosesNothing /\ [Next]_vars => OneThreadLosesNothing'
<1> SUFFICES ASSUME TypeOK, LifeInv, OneThreadLosesNothing, [Next]_vars, threads' = 1,
                    NEW a \in Apps, call'[a] # NoCall
             PROVE  call'[a] = vector'[store'[a]].cap
  BY DEF OneThreadLosesNothing
<1>1. threads = 1
  BY StepKinds
<1>2. call[a] # NoCall => call[a] = vector[store[a]].cap
  BY <1>1 DEF OneThreadLosesNothing
<1>3. CASE UNCHANGED <<call, vector, store>>
  BY <1>2, <1>3
<1>4. ASSUME NEW b \in Apps, UpdateFind(b) \/ UpdateStore(b)
      PROVE  call'[a] = vector'[store'[a]].cap
  <2>1. UNCHANGED <<vector, store>>
    BY <1>4 DEF UpdateFind, UpdateStore, appVars, vectorVars
  <2>2. \/ call'[a] = call[a]
        \/ call'[a] = vector[store[a]].cap
        \/ call'[a] = NoCall
    BY <1>4 DEF UpdateFind, UpdateStore, TypeOK
  <2> QED BY <1>2, <2>1, <2>2
<1>5. ASSUME FreeThread, call' = call
      PROVE  call'[a] = vector'[store'[a]].cap
  BY <1>1, <1>5, AloneWhenBusy, WhoIsBusy
<1>6. ASSUME NEW w \in Appenders, appending[w] # NoAppend, call' = call
      PROVE  call'[a] = vector'[store'[a]].cap
  <2>1. w \in Busy /\ a \in Busy
    BY <1>6, WhoIsBusy
  <2>2. w = a
    BY <1>1, <2>1, AloneWhenBusy
  <2> QED BY <1>6, <2>2 DEF LifeInv
<1>7. \/ UNCHANGED <<call, vector, store>>
      \/ FreeThread /\ call' = call
      \/ \E w \in Appenders : appending[w] # NoAppend /\ call' = call
      \/ \E b \in Apps : UpdateFind(b) \/ UpdateStore(b)
  BY StepKinds DEF appVars, vectorVars, Appenders, AddBegin, AddEnd, Build, Run, Destroy, Deinit,
                   MergeBegin, MergeEnd, BuilderCall
<1> QED BY <1>3, <1>4, <1>5, <1>6, <1>7

-----------------------------------------------------------------------------
LEMMA InitIInv == Init => IInv
<1> SUFFICES ASSUME Init PROVE IInv
  OBVIOUS
<1>1. /\ \A a \in Apps : stage[a] = "none" /\ call[a] = NoCall
      /\ \A w \in Appenders : appending[w] = NoAppend
      /\ inits = 0 /\ added = <<>> /\ threads \in Nat \ {0}
  BY ThreadsAssumption DEF Init
<1>2. Users = {} /\ Busy = {}
  BY <1>1 DEF Users, Busy, Appenders
<1>3. LibraryBalance
  BY <1>1, <1>2, FS_EmptySet, BalanceMeans
<1>4. LifeInv
  BY <1>1, <1>2, FS_EmptySet DEF LifeInv, Appenders
<1>5. ListInv /\ PortsAsDeclared /\ OneThreadLosesNothing
  BY <1>1 DEF ListInv, PortsAsDeclared, OneThreadLosesNothing
<1> QED BY <1>3, <1>4, <1>5, InitType DEF IInv

LEMMA SpecIInv == Spec => []IInv
<1>1. IInv /\ [Next]_vars => IInv'
  BY NextType, NextBalance, NextLife, NextList, NextPorts, NextOneThread DEF IInv
<1> QED BY <1>1, InitIInv, PTL DEF Spec

\* Every variable keeps its type; the library is never left more often than it was
\* entered (app_builder.h, app.h).
THEOREM BuilderTypes == Spec => []TypeOK
<1>1. IInv => TypeOK
  BY DEF IInv
<1> QED BY <1>1, SpecIInv, PTL

\* pw_init (app_builder.h) and pw_deinit (app.h) balance, for any number of
\* applications, refused builds, failed connections and orders of teardown.
THEOREM LibraryIsBalanced == Spec => []LibraryBalance
<1>1. IInv => LibraryBalance
  BY DEF IInv
<1> QED BY <1>1, SpecIInv, PTL

\* An application keeps the ports of the definitions it was built from
\* (app_builder.h), whatever the builder is told later.
THEOREM PortsStayAsDeclared == Spec => []PortsAsDeclared
<1>1. IInv => PortsAsDeclared
  BY DEF IInv
<1> QED BY <1>1, SpecIInv, PTL

\* In a program with one thread, all applications share the one list it adds to
\* (parameters_builder.h), and merging never moves what was added.
THEOREM OneListForAll == Spec => []OneList
<1>1. IInv => OneList
  BY DEF IInv, ListInv, OneList
<1> QED BY <1>1, SpecIInv, PTL

\* In a program with one thread, no update (parameters_property.h) loses its
\* storage between its search and its assignment.
THEOREM OneThreadIsSafe == Spec => []OneThreadLosesNothing
<1>1. IInv => OneThreadLosesNothing
  BY DEF IInv
<1> QED BY <1>1, SpecIInv, PTL
=============================================================================
