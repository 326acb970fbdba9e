--------------------------- MODULE OscWriterProofs ---------------------------
(***************************************************************************)
(* What OscWriter does to its buffer, for buffers of every size and        *)
(* packets of every shape: first the linked list of open bundles in it,    *)
(* then the layout.  The calls follow the grammar of packets, each takes   *)
(* the room that OSCPP::Size says, and what it wrote stays.  What is       *)
(* defined by recursion over the log is proved by least counterexample     *)
(* (LeastNatural).                                                         *)
(***************************************************************************)
EXTENDS OscLayout, SequenceTheorems, WellFoundedInduction, TLAPS

-----------------------------------------------------------------------------
(* The list of open bundles *)

\* The list is the stack, positions rise from the bottom to the top and lie
\* below what is written next; an open bundle has at least its header.
ListInv ==
    /\ chain \in Seq(Nat)
    /\ chain = <<>> => sizePosB \in {None, 0}
    /\ \A i \in 1..Len(chain) : chain[i] < pos
    /\ \A i \in 1..Len(chain) : \A j \in 1..(i - 1) : chain[j] < chain[i]
    /\ ~threw => \A i \in 1..Len(chain) : chain[i] + 5 <= pos

\* An open message lies above every open bundle's size field.
MessageInv ==
    inMessage =>
        /\ inBundle > 0 => sizePosM \in Nat /\ \A i \in 1..Len(chain) : chain[i] < sizePosM
        /\ \A i \in 1..Len(chain) : chain[i] < tags.at

IInv == TypeOK /\ ListIsStack /\ ListInv /\ MessageInv

-----------------------------------------------------------------------------
(* Writing *)

\* What fits is one of the cuts or everything, and fits.
LEMMA FittingProperties ==
    ASSUME NEW n \in Nat, NEW c \in Nat, NEW p \in Nat, cap \in Nat, p <= cap
    PROVE  /\ Fitting(n, {0, c}, p) \in {0, c, n}
           /\ p + Fitting(n, {0, c}, p) <= cap
<1> DEFINE Largest(k) == /\ p + k <= cap
                         /\ \A j \in {0, c} \cup {n} : p + j <= cap => j <= k
<1>1. \E k \in {0, c} \cup {n} : Largest(k)
  <2>1. CASE p + n <= cap /\ (p + c <= cap => c <= n)
    BY <2>1
  <2>2. CASE p + c <= cap /\ (p + n <= cap => n <= c)
    BY <2>2
  <2>3. CASE p + n > cap /\ p + c > cap
    BY <2>3
  <2> QED BY <2>1, <2>2, <2>3
<1>2. Fitting(n, {0, c}, p) = CHOOSE k \in {0, c} \cup {n} : Largest(k)
  BY DEF Fitting
<1> HIDE DEF Largest
<1>3. Fitting(n, {0, c}, p) \in {0, c} \cup {n} /\ Largest(Fitting(n, {0, c}, p))
  BY <1>1, <1>2
<1> QED BY <1>3 DEF Largest

\* Words below the position that is written stay.
LEMMA OverwriteBelow ==
    ASSUME NEW m, NEW p \in Int, NEW ws, NEW i \in Int, i \in DOMAIN m, i < p
    PROVE  Overwrite(m, p, ws)[i] = m[i]
BY DEF Overwrite

LEMMA OverwriteDomain ==
    ASSUME NEW m, NEW p, NEW ws
    PROVE  DOMAIN Overwrite(m, p, ws) = DOMAIN m
BY DEF Overwrite

\* A function over 1..n is a sequence, over any set with its values in it.
LEMMA FunctionIsSequence ==
    ASSUME NEW n \in Nat, NEW S, NEW f, f = [i \in 1..n |-> f[i]],
           \A i \in 1..n : f[i] \in S
    PROVE  f \in Seq(S) /\ Len(f) = n
<1>1. f \in [1..n -> S]
  OBVIOUS
<1> QED BY <1>1

LEMMA ConcatLength ==
    ASSUME NEW m \in Nat, NEW n \in Nat, NEW s, NEW t,
           s = [i \in 1..m |-> s[i]], t = [i \in 1..n |-> t[i]]
    PROVE  /\ Len(s \o t) = m + n
           /\ m > 0 => (s \o t)[1] = s[1]
<1> DEFINE S == {s[i] : i \in 1..m} \cup {t[i] : i \in 1..n}
<1>1. (\A i \in 1..m : s[i] \in S) /\ (\A i \in 1..n : t[i] \in S)
  OBVIOUS
<1> HIDE DEF S
<1>2. s \in Seq(S) /\ t \in Seq(S) /\ Len(s) = m /\ Len(t) = n
  BY <1>1, FunctionIsSequence
<1> QED BY <1>2, ConcatProperties

\* Strings and tag areas are sequences of their lengths.
LEMMA HeadLength ==
    ASSUME NEW addr \in Texts, NEW n \in Nat
    PROVE  Len(StringWords(addr) \o TagWords(n)) \in Nat
<1>1. WordsOf[addr] \in Nat /\ WordsFor(n) \in Nat
  BY WordsAssumption DEF WordsFor
<1>2. StringWords(addr) = [i \in 1..WordsOf[addr] |-> StringWords(addr)[i]]
  BY DEF StringWords
<1>3. TagWords(n) = [i \in 1..WordsFor(n) |-> TagWords(n)[i]]
  BY DEF TagWords
<1> QED BY <1>1, <1>2, <1>3, ConcatLength

LEMMA ArgumentProperties ==
    ASSUME NEW a \in Arguments
    PROVE  Len(a.words) \in Nat /\ \E c \in Nat : a.cuts = {0, c}
<1>1. CASE \E v \in Numbers : a = Int32(v) \/ a = Float32(v)
  BY <1>1 DEF Int32, Float32
<1>2. CASE \E t \in Texts : a = String(t)
  <2>1. PICK t \in Texts : a = String(t)
    BY <1>2
  <2>2. a.words = [i \in 1..WordsOf[t] |-> <<"string", t, i>>] /\ a.cuts = {0, 0}
    BY <2>1 DEF String, StringWords
  <2>3. WordsOf[t] \in Nat
    BY WordsAssumption
  <2> QED BY <2>2, <2>3
<1>3. CASE \E n \in BlobSizes : a = Blob(n)
  <2>1. PICK n \in BlobSizes : a = Blob(n)
    BY <1>3
  <2> DEFINE s == <<<<"int32", n>>>>
             t == [i \in 1..WordsFor(n) |-> <<"data", n, i>>]
             S == {s[1]} \cup {t[i] : i \in 1..WordsFor(n)}
  <2>2. WordsFor(n) \in Nat
    BY BlobsAssumption DEF WordsFor
  <2>3. s \in Seq(S) /\ t \in Seq(S)
    BY <2>2
  <2>4. a.words = s \o t /\ a.cuts = {0, 1}
    BY <2>1 DEF Blob
  <2> HIDE DEF s, t, S
  <2>5. Len(s \o t) \in Nat
    BY <2>3, ConcatProperties, LenProperties
  <2> QED BY <2>4, <2>5
<1>4. CASE a = Bracket("[") \/ a = Bracket("]")
  BY <1>4 DEF Bracket
<1> QED BY <1>1, <1>2, <1>3, <1>4 DEF Arguments

LEMMA InitIInv == Init => IInv
<1> SUFFICES ASSUME Init PROVE IInv
  OBVIOUS
<1>1. TypeOK
  <2>1. cap \in Nat /\ DOMAIN mem = 0..(cap - 1)
    BY CapacitiesAssumption DEF Init
  <2>2. pos = 0 /\ inBundle = 0 /\ bundles = 0
    BY DEF Init
  <2>3. tags.at = 0 /\ tags.size = 0 /\ tags.len = 0
    BY DEF Init, NoTags
  <2>4. sizePosM \in 0..cap \cup {None} /\ sizePosB \in 0..cap \cup {None}
    BY DEF Init
  <2>5. inMessage \in BOOLEAN /\ threw \in BOOLEAN /\ miscounted \in BOOLEAN
    BY DEF Init
  <2>6. /\ pos \in 0..cap /\ inBundle \in Nat /\ bundles \in 0..inBundle
        /\ tags.at \in Nat /\ tags.size \in Nat /\ tags.len \in 0..tags.size
    BY <2>1, <2>2, <2>3
  <2> QED BY <2>1, <2>4, <2>5, <2>6 DEF TypeOK
<1> USE DEF Init
<1>2. chain = <<>> /\ Len(chain) = 0 /\ chain \in Seq(Nat)
  OBVIOUS
<1>3. ListIsStack
  BY <1>2 DEF ListIsStack
<1>4. ListInv
  BY <1>2 DEF ListInv
<1>5. MessageInv
  BY <1>2 DEF MessageInv
<1> QED BY <1>1, <1>3, <1>4, <1>5 DEF IInv

-----------------------------------------------------------------------------
(* Each call preserves the invariant *)

\* The facts about the state that the steps share.
LEMMA StateFacts ==
    ASSUME IInv
    PROVE  /\ cap \in Nat /\ pos \in Nat /\ pos <= cap /\ DOMAIN mem = 0..(cap - 1)
           /\ inBundle \in Nat /\ bundles \in 0..inBundle
           /\ chain \in Seq(Nat) /\ Len(chain) \in Nat
           /\ \A i \in 1..Len(chain) : chain[i] \in Nat /\ chain[i] < pos
BY LenProperties, ElementOfSeq DEF IInv, TypeOK, ListInv

\* Words above the stack can be written without touching it.
LEMMA StackBelow ==
    ASSUME IInv, NEW m, DOMAIN m = DOMAIN mem, NEW p \in Int, NEW words,
           \A i \in 1..Len(chain) : chain[i] < p /\ m[chain[i]] = mem[chain[i]]
    PROVE  \A i \in 1..Len(chain) : Overwrite(m, p, words)[chain[i]] = mem[chain[i]]
<1> SUFFICES ASSUME NEW i \in 1..Len(chain)
             PROVE  Overwrite(m, p, words)[chain[i]] = mem[chain[i]]
  OBVIOUS
<1>1. chain[i] \in Int /\ chain[i] \in DOMAIN m /\ chain[i] < p
  BY StateFacts
<1> QED BY <1>1, OverwriteBelow

\* The stack is not touched: what is written lies above it.
LEMMA StackUntouched ==
    ASSUME IInv, UNCHANGED <<sizePosB, inBundle, chain>>,
           \A i \in 1..Len(chain) : mem'[chain[i]] = mem[chain[i]],
           pos' \in Nat, pos <= pos',
           ~threw' => ~threw /\ bundles' = bundles
    PROVE  ListIsStack' /\ ListInv'
<1>1. ListIsStack'
  <2>1. \A i \in 1..Len(chain) :
            mem[chain[i]] = <<"offset", IF i = 1 THEN 0 ELSE chain[i - 1]>>
    BY DEF IInv, ListIsStack
  <2>2. \A i \in 1..Len(chain') :
            mem'[chain'[i]] = <<"offset", IF i = 1 THEN 0 ELSE chain'[i - 1]>>
    BY <2>1
  <2>3. ~threw' => inBundle' = bundles'
    BY DEF IInv, ListIsStack
  <2>4. /\ Len(chain') = IF inBundle' = 0 THEN 0 ELSE inBundle' - 1
        /\ chain' # <<>> => sizePosB' = chain'[Len(chain')]
    BY DEF IInv, ListIsStack
  <2> QED BY <2>2, <2>3, <2>4 DEF ListIsStack
<1>2. ListInv'
  <2>0. /\ pos \in Nat /\ \A i \in 1..Len(chain) : chain[i] \in Nat /\ chain[i] < pos
        /\ ~threw => \A i \in 1..Len(chain) : chain[i] + 5 <= pos
    BY StateFacts DEF IInv, ListInv
  <2>1. /\ \A i \in 1..Len(chain) : chain[i] \in Nat /\ chain[i] < pos'
        /\ ~threw' => \A i \in 1..Len(chain) : chain[i] + 5 <= pos'
    BY <2>0
  <2>2. /\ \A i \in 1..Len(chain') : chain'[i] < pos'
        /\ ~threw' => \A i \in 1..Len(chain') : chain'[i] + 5 <= pos'
    BY <2>1
  <2>3. \A i \in 1..Len(chain') : \A j \in 1..(i - 1) : chain'[j] < chain'[i]
    BY DEF IInv, ListInv
  <2> QED BY <2>2, <2>3 DEF IInv, ListInv
<1> QED BY <1>1, <1>2

LEMMA OpenBundleStep ==
    ASSUME IInv, NEW time \in Times, OpenBundle(time)
    PROVE  IInv'
<1> DEFINE nested == inBundle > 0
           start  == IF nested THEN pos + 1 ELSE pos
           n      == Fitting(4, {0, 2}, start)
           field  == IF nested THEN <<<<"offset", OuterOffset>>>> ELSE <<>>
           words  == field \o SubSeq(BundleWords(time), 1, n)
<1>0. /\ cap \in Nat /\ pos \in Nat /\ pos <= cap /\ DOMAIN mem = 0..(cap - 1)
      /\ inBundle \in Nat /\ bundles \in 0..inBundle
      /\ chain \in Seq(Nat) /\ Len(chain) \in Nat
      /\ \A i \in 1..Len(chain) : chain[i] \in Nat /\ chain[i] < pos
  BY StateFacts
<1>1. ~inMessage
  BY DEF OpenBundle
<1>2. CASE Throw /\ UNCHANGED <<packet, chain>>
  <2> USE <1>2 DEF Throw, packet
  <2>1. TypeOK'
    BY DEF IInv, TypeOK
  <2>2. ListIsStack' /\ ListInv'
    BY <1>0, StackUntouched
  <2>3. MessageInv'
    BY <1>1 DEF MessageInv
  <2> QED BY <2>1, <2>2, <2>3 DEF IInv
<1>3. CASE /\ IF nested THEN start <= cap ELSE pos = 0
           /\ mem' = Overwrite(mem, pos, words)
           /\ pos' = start + n
           /\ sizePosB' = IF nested THEN pos ELSE sizePosB
           /\ inBundle' = inBundle + 1
           /\ chain' = IF nested THEN Append(chain, pos) ELSE chain
           /\ UNCHANGED <<cap, tags, sizePosM>>
           /\ IF n = 4
              THEN /\ bundles' = bundles + 1
                   /\ UNCHANGED <<inMessage, threw, miscounted>>
              ELSE Throw
  <2>1. n \in {0, 2, 4} /\ start + n <= cap /\ start \in Nat
    BY <1>0, <1>3, FittingProperties
  <2> HIDE DEF n
  <2>2. TypeOK'
    <3>1. DOMAIN mem' = 0..(cap - 1) /\ pos' \in 0..cap
      BY <1>0, <1>3, <2>1, OverwriteDomain
    <3>2. bundles' \in 0..inBundle' /\ inBundle' \in Nat
      BY <1>0, <1>3 DEF Throw
    <3>3. sizePosB' \in 0..cap \cup {None}
      BY <1>0, <1>3 DEF IInv, TypeOK
    <3>4. inMessage' = inMessage /\ threw' \in BOOLEAN /\ miscounted' = miscounted
      BY <1>3 DEF Throw, IInv, TypeOK
    <3> QED BY <1>3, <3>1, <3>2, <3>3, <3>4 DEF IInv, TypeOK
  <2>3. \A i \in 1..Len(chain) : mem'[chain[i]] = mem[chain[i]]
    <3>1. mem' = Overwrite(mem, pos, words)
      BY <1>3
    <3>2. pos \in Int /\ \A i \in 1..Len(chain) : chain[i] < pos
      BY <1>0
    <3> HIDE DEF words
    <3>3. \A i \in 1..Len(chain) : Overwrite(mem, pos, words)[chain[i]] = mem[chain[i]]
      BY <3>2, StackBelow
    <3> QED BY <3>1, <3>3
  <2>4. ~threw' => ~threw /\ n = 4 /\ bundles' = bundles + 1
    BY <1>3 DEF Throw
  <2>5. CASE ~nested
    <3>1. chain = <<>> /\ chain' = chain /\ Len(chain) = 0 /\ inBundle = 0
      BY <1>0, <1>3, <2>5 DEF IInv, ListIsStack
    <3>2. ListIsStack'
      BY <1>0, <1>3, <2>4, <3>1 DEF IInv, ListIsStack
    <3>3. ListInv'
      BY <1>3, <2>5, <3>1 DEF IInv, ListInv
    <3>4. MessageInv'
      BY <1>1, <1>3 DEF MessageInv, Throw
    <3> QED BY <2>2, <3>2, <3>3, <3>4 DEF IInv
  <2>6. CASE nested
    <3>1. /\ chain' = Append(chain, pos) /\ Len(chain') = Len(chain) + 1
          /\ chain' \in Seq(Nat) /\ chain'[Len(chain) + 1] = pos /\ chain' # <<>>
          /\ \A i \in 1..Len(chain) : chain'[i] = chain[i]
      <4>1. chain' = Append(chain, pos)
        BY <1>3, <2>6
      <4>2. chain \in Seq(Nat) /\ pos \in Nat
        BY <1>0
      <4>3. /\ Append(chain, pos) \in Seq(Nat) /\ Append(chain, pos) # <<>>
            /\ Len(Append(chain, pos)) = Len(chain) + 1
            /\ \A i \in 1..Len(chain) : Append(chain, pos)[i] = chain[i]
            /\ Append(chain, pos)[Len(chain) + 1] = pos
        BY <4>2, AppendProperties
      <4> QED BY <4>1, <4>3
    <3>2. pos + 1 <= cap /\ pos' = pos + 1 + n
      BY <1>3, <2>6
    <3>3. mem'[pos] = <<"offset", IF Len(chain) = 0 THEN 0 ELSE chain[Len(chain)]>>
      <4>1. field = <<<<"offset", OuterOffset>>>>
        BY <2>6
      <4>2. pos \in DOMAIN mem
        BY <1>0, <3>2
      <4> DEFINE tail == SubSeq(BundleWords(time), 1, n)
                 S == {field[1]} \cup {BundleWords(time)[i] : i \in 1..4}
      <4>3. BundleWords(time) \in Seq(S) /\ Len(BundleWords(time)) = 4
        BY DEF BundleWords
      <4>4. tail \in Seq(S)
        BY <2>1, <4>3, SubSeqProperties
      <4>5. field \in Seq(S) /\ Len(field) = 1
        BY <4>1
      <4> HIDE DEF tail, S, field
      <4>6. Len(field \o tail) \in Nat /\ Len(field \o tail) >= 1 /\ (field \o tail)[1] = field[1]
        BY <4>4, <4>5, ConcatProperties, LenProperties
      <4>7. mem'[pos] = field[1]
        <5>1. mem' = Overwrite(mem, pos, field \o tail)
          BY <1>3 DEF tail
        <5> QED BY <1>0, <4>2, <4>6, <5>1 DEF Overwrite
      <4>8. OuterOffset = IF Len(chain) = 0 THEN 0 ELSE chain[Len(chain)]
        <5>1. CASE Len(chain) = 0
          BY <1>0, <5>1, EmptySeq DEF IInv, ListInv, OuterOffset
        <5>2. CASE Len(chain) # 0
          <6>1. chain # <<>> /\ sizePosB = chain[Len(chain)] /\ sizePosB \in Nat
            BY <1>0, <5>2 DEF IInv, ListIsStack
          <6> QED BY <5>2, <6>1, NoneAssumption DEF OuterOffset
        <5> QED BY <5>1, <5>2
      <4> QED BY <4>1, <4>7, <4>8 DEF field
    <3>4. ListIsStack'
      <4>1. Len(chain') = IF inBundle' = 0 THEN 0 ELSE inBundle' - 1
        BY <1>0, <1>3, <2>6, <3>1 DEF IInv, ListIsStack
      <4>2. sizePosB' = chain'[Len(chain')]
        BY <1>3, <2>6, <3>1
      <4>3. ASSUME NEW i \in 1..Len(chain')
            PROVE  mem'[chain'[i]] = <<"offset", IF i = 1 THEN 0 ELSE chain'[i - 1]>>
        <5>1. CASE i = Len(chain) + 1
          BY <1>0, <3>1, <3>3, <5>1
        <5>2. CASE i \in 1..Len(chain)
          <6>1. i = 1 \/ i - 1 \in 1..Len(chain)
            BY <1>0, <5>2
          <6>2. mem[chain[i]] = <<"offset", IF i = 1 THEN 0 ELSE chain[i - 1]>>
            BY <5>2 DEF IInv, ListIsStack
          <6> QED BY <2>3, <3>1, <5>2, <6>1, <6>2
        <5>3. i \in 1..(Len(chain) + 1)
          BY <3>1
        <5> QED BY <1>0, <5>1, <5>2, <5>3
      <4>4. ~threw' => inBundle' = bundles'
        BY <1>3, <2>4 DEF IInv, ListIsStack
      <4> QED BY <4>1, <4>2, <4>3, <4>4 DEF ListIsStack
    <3>5. ListInv'
      <4>1. \A i \in 1..Len(chain') : i \in 1..Len(chain) \/ i = Len(chain) + 1
        BY <1>0, <3>1
      <4>2. \A i \in 1..Len(chain') : chain'[i] < pos'
        BY <1>0, <2>1, <3>1, <3>2, <4>1
      <4>3. \A i \in 1..Len(chain') : \A j \in 1..(i - 1) : chain'[j] < chain'[i]
        <5>1. \A i \in 1..Len(chain) : \A j \in 1..(i - 1) : chain[j] < chain[i]
          BY DEF IInv, ListInv
        <5>2. \A i \in 1..Len(chain') : \A j \in 1..(i - 1) : j \in 1..Len(chain)
          BY <1>0, <4>1
        <5> QED BY <1>0, <3>1, <4>1, <5>1, <5>2
      <4>4. ~threw' => \A i \in 1..Len(chain') : chain'[i] + 5 <= pos'
        <5>1. ~threw => \A i \in 1..Len(chain) : chain[i] + 5 <= pos
          BY DEF IInv, ListInv
        <5> QED BY <1>0, <2>4, <3>1, <3>2, <4>1, <5>1
      <4> QED BY <3>1, <4>2, <4>3, <4>4 DEF ListInv
    <3>6. MessageInv'
      BY <1>1, <1>3 DEF MessageInv, Throw
    <3> QED BY <2>2, <3>4, <3>5, <3>6 DEF IInv
  <2> QED BY <2>5, <2>6
<1> QED BY <1>2, <1>3 DEF OpenBundle

LEMMA CloseBundleStep ==
    ASSUME IInv, CloseBundle
    PROVE  IInv'
<1> DEFINE front == SubSeq(chain, 1, Len(chain) - 1)
<1>0. /\ cap \in Nat /\ pos \in Nat /\ pos <= cap /\ DOMAIN mem = 0..(cap - 1)
      /\ inBundle \in Nat /\ bundles \in 0..inBundle
      /\ chain \in Seq(Nat) /\ Len(chain) \in Nat
      /\ \A i \in 1..Len(chain) : chain[i] \in Nat /\ chain[i] < pos
  BY StateFacts
<1>1. ~inMessage
  BY DEF CloseBundle
<1>2. CASE Throw /\ UNCHANGED <<packet, chain>>
  <2> USE <1>2 DEF Throw, packet
  <2>1. TypeOK'
    BY DEF IInv, TypeOK
  <2>2. ListIsStack' /\ ListInv'
    BY <1>0, StackUntouched
  <2>3. MessageInv'
    BY <1>1 DEF MessageInv
  <2> QED BY <2>1, <2>2, <2>3 DEF IInv
<1>3. CASE /\ inBundle > 0 /\ bundles > 0
           /\ IF inBundle > 1
              THEN /\ mem' = Overwrite(mem, sizePosB, <<<<"int32", CalcSize(sizePosB, pos)>>>>)
                   /\ sizePosB' = mem[sizePosB][2]
                   /\ chain' = front
              ELSE UNCHANGED <<mem, sizePosB, chain>>
           /\ inBundle' = inBundle - 1 /\ bundles' = bundles - 1
           /\ UNCHANGED <<cap, pos, tags, sizePosM, inMessage, threw, miscounted>>
  <2>1. /\ inBundle > 0 /\ bundles > 0
        /\ inBundle' = inBundle - 1 /\ bundles' = bundles - 1
        /\ UNCHANGED <<cap, pos, tags, sizePosM, inMessage, threw, miscounted>>
    BY <1>3
  <2>2. CASE inBundle = 1
    <3>1. UNCHANGED <<mem, sizePosB, chain>>
      BY <1>3, <2>2
    <3>2. TypeOK'
      <4>1. inBundle' \in Nat /\ bundles' \in 0..inBundle'
        BY <1>0, <2>1
      <4> QED BY <2>1, <3>1, <4>1 DEF IInv, TypeOK
    <3>3. Len(chain) = 0
      BY <2>2 DEF IInv, ListIsStack
    <3>4. chain = <<>>
      BY <1>0, <3>3, EmptySeq
    <3>5. ListIsStack'
      <4>1. ~threw' => inBundle' = bundles'
        BY <1>0, <2>1 DEF IInv, ListIsStack
      <4>2. chain' = <<>> /\ Len(chain') = 0 /\ inBundle' = 0
        BY <2>1, <2>2, <3>1, <3>3, <3>4
      <4> QED BY <4>1, <4>2 DEF ListIsStack
    <3>6. ListInv'
      BY <2>1, <3>1 DEF IInv, ListInv
    <3>7. MessageInv'
      BY <1>1, <2>1 DEF MessageInv
    <3> QED BY <3>2, <3>5, <3>6, <3>7 DEF IInv
  <2>3. CASE inBundle > 1
    <3>1. /\ mem' = Overwrite(mem, sizePosB, <<<<"int32", CalcSize(sizePosB, pos)>>>>)
          /\ sizePosB' = mem[sizePosB][2]
          /\ chain' = front
      BY <1>3, <2>3
    <3>2. Len(chain) = inBundle - 1 /\ Len(chain) > 0
      BY <1>0, <2>3 DEF IInv, ListIsStack
    <3>3. /\ front \in Seq(Nat) /\ Len(front) = Len(chain) - 1
          /\ \A i \in 1..(Len(chain) - 1) : front[i] = chain[i]
      <4>1. \A i \in 1..(Len(chain) - 1) : chain[i] \in Nat
        BY <1>0
      <4>2. 1 \in Int /\ Len(chain) - 1 \in Int
        BY <1>0
      <4>3. /\ SubSeq(chain, 1, Len(chain) - 1) \in Seq(Nat)
            /\ Len(SubSeq(chain, 1, Len(chain) - 1)) =
                 IF 1 <= Len(chain) - 1 THEN (Len(chain) - 1) - 1 + 1 ELSE 0
            /\ \A i \in 1..((Len(chain) - 1) - 1 + 1) :
                 SubSeq(chain, 1, Len(chain) - 1)[i] = chain[1 + i - 1]
        BY <4>1, <4>2, SubSeqProperties
      <4> QED BY <1>0, <3>2, <4>3
    <3> HIDE DEF front
    <3>4. sizePosB = chain[Len(chain)] /\ sizePosB \in Nat
      <4>1. chain # <<>>
        BY <3>2
      <4> QED BY <1>0, <3>2, <4>1 DEF IInv, ListIsStack
    <3>5. sizePosB' = IF Len(chain) = 1 THEN 0 ELSE chain[Len(chain) - 1]
      <4>1. \A i \in 1..Len(chain) :
                mem[chain[i]] = <<"offset", IF i = 1 THEN 0 ELSE chain[i - 1]>>
        BY DEF IInv, ListIsStack
      <4>2. Len(chain) \in 1..Len(chain)
        BY <1>0, <3>2
      <4>3. mem[sizePosB] = <<"offset", IF Len(chain) = 1 THEN 0 ELSE chain[Len(chain) - 1]>>
        BY <3>4, <4>1, <4>2
      <4> QED BY <3>1, <4>3
    <3>6. \A i \in 1..(Len(chain) - 1) : mem'[chain[i]] = mem[chain[i]]
      <4> SUFFICES ASSUME NEW i \in 1..(Len(chain) - 1)
                   PROVE  mem'[chain[i]] = mem[chain[i]]
        OBVIOUS
      <4>1. i \in 1..Len(chain) /\ Len(chain) \in 1..Len(chain) /\ i \in 1..(Len(chain) - 1)
        BY <1>0, <3>2
      <4>2. chain[i] < sizePosB
        BY <3>4, <4>1 DEF IInv, ListInv
      <4>3. chain[i] \in Int /\ chain[i] \in DOMAIN mem /\ sizePosB \in Int
        BY <1>0, <3>4, <4>1
      <4> QED BY <3>1, <4>2, <4>3, OverwriteBelow
    <3>7. TypeOK'
      <4>1. inBundle' \in Nat /\ bundles' \in 0..inBundle'
        BY <1>0, <2>1
      <4>2. DOMAIN mem' = 0..(cap' - 1)
        BY <1>0, <2>1, <3>1, OverwriteDomain
      <4>3. sizePosB' \in 0..cap'
        BY <1>0, <2>1, <3>2, <3>5
      <4> QED BY <2>1, <4>1, <4>2, <4>3 DEF IInv, TypeOK
    <3>8. ListIsStack'
      <4>1. Len(chain') = IF inBundle' = 0 THEN 0 ELSE inBundle' - 1
        BY <1>0, <2>1, <2>3, <3>1, <3>2, <3>3
      <4>2. chain' # <<>> => sizePosB' = chain'[Len(chain')]
        <5>1. chain' # <<>> => Len(chain') > 0
          BY <3>1, <3>3, EmptySeq
        <5>2. CASE Len(chain) = 1
          BY <3>1, <3>3, <5>1, <5>2
        <5>3. CASE Len(chain) # 1
          BY <1>0, <3>1, <3>2, <3>3, <3>5, <5>3
        <5> QED BY <5>2, <5>3
      <4>3. ASSUME NEW i \in 1..Len(chain')
            PROVE  mem'[chain'[i]] = <<"offset", IF i = 1 THEN 0 ELSE chain'[i - 1]>>
        <5>1. i \in 1..(Len(chain) - 1) /\ i \in 1..Len(chain)
          BY <1>0, <3>1, <3>3
        <5>2. i = 1 \/ i - 1 \in 1..(Len(chain) - 1)
          BY <1>0, <5>1
        <5>3. mem[chain[i]] = <<"offset", IF i = 1 THEN 0 ELSE chain[i - 1]>>
          BY <5>1 DEF IInv, ListIsStack
        <5> QED BY <3>1, <3>3, <3>6, <5>1, <5>2, <5>3
      <4>4. ~threw' => inBundle' = bundles'
        BY <2>1 DEF IInv, ListIsStack
      <4> QED BY <4>1, <4>2, <4>3, <4>4 DEF ListIsStack
    <3>9. ListInv'
      <4>1. chain' = <<>> => sizePosB' \in {None, 0}
        <5>1. chain' = <<>> => Len(chain) = 1
          BY <1>0, <3>1, <3>3
        <5> QED BY <3>5, <5>1
      <4>2. \A i \in 1..Len(chain') : i \in 1..(Len(chain) - 1) /\ i \in 1..Len(chain)
        BY <1>0, <3>1, <3>3
      <4>3. \A i \in 1..Len(chain') : chain'[i] < pos'
        BY <1>0, <2>1, <3>1, <3>3, <4>2
      <4>4. \A i \in 1..Len(chain') : \A j \in 1..(i - 1) : chain'[j] < chain'[i]
        <5>1. \A i \in 1..Len(chain) : \A j \in 1..(i - 1) : chain[j] < chain[i]
          BY DEF IInv, ListInv
        <5>2. \A i \in 1..Len(chain') : \A j \in 1..(i - 1) : j \in 1..(Len(chain) - 1)
          BY <1>0, <4>2
        <5> QED BY <3>1, <3>3, <4>2, <5>1, <5>2
      <4>5. ~threw' => \A i \in 1..Len(chain') : chain'[i] + 5 <= pos'
        <5>1. ~threw => \A i \in 1..Len(chain) : chain[i] + 5 <= pos
          BY DEF IInv, ListInv
        <5> QED BY <2>1, <3>1, <3>3, <4>2, <5>1
      <4> QED BY <3>1, <3>3, <4>1, <4>3, <4>4, <4>5 DEF ListInv
    <3>10. MessageInv'
      BY <1>1, <2>1 DEF MessageInv
    <3> QED BY <3>7, <3>8, <3>9, <3>10 DEF IInv
  <2>4. inBundle = 1 \/ inBundle > 1
    BY <1>0, <2>1
  <2> QED BY <2>2, <2>3, <2>4
<1> QED BY <1>2, <1>3 DEF CloseBundle

LEMMA OpenMessageStep ==
    ASSUME IInv, NEW addr \in Texts, NEW num \in Counts, OpenMessage(addr, num)
    PROVE  IInv'
<1> DEFINE nested == inBundle > 0
           start  == IF nested THEN pos + 1 ELSE pos
           head   == StringWords(addr) \o TagWords(TagBytes(num))
           k      == Fitting(Len(head), {0, WordsOf[addr]}, start)
<1>0. /\ cap \in Nat /\ pos \in Nat /\ pos <= cap /\ DOMAIN mem = 0..(cap - 1)
      /\ inBundle \in Nat /\ bundles \in 0..inBundle
      /\ chain \in Seq(Nat) /\ Len(chain) \in Nat
      /\ \A i \in 1..Len(chain) : chain[i] \in Nat /\ chain[i] < pos
  BY StateFacts
<1>1. /\ ~inMessage /\ ~threw
      /\ sizePosM' = IF nested THEN pos ELSE sizePosM
      /\ UNCHANGED <<cap, sizePosB, inBundle, chain>>
  BY DEF OpenMessage, MayWrite
<1>2. /\ start \in Nat /\ pos <= start /\ WordsOf[addr] \in Nat
      /\ TagBytes(num) \in Nat
  BY <1>0, CountsAssumption, WordsAssumption DEF TagBytes
<1>3. Len(head) \in Nat
  BY <1>2, HeadLength
<1>4. sizePosM' \in 0..cap \cup {None}
  BY <1>0, <1>1 DEF IInv, TypeOK
<1>5. CASE Throw /\ UNCHANGED <<mem, pos, tags>>
  <2>1. TypeOK'
    BY <1>1, <1>4, <1>5 DEF IInv, TypeOK, Throw
  <2>2. ~threw' => ~threw /\ bundles' = bundles
    BY <1>5 DEF Throw
  <2>3. ListIsStack' /\ ListInv'
    BY <1>0, <1>1, <1>5, <2>2, StackUntouched
  <2>4. MessageInv'
    BY <1>1, <1>5 DEF MessageInv, Throw
  <2> QED BY <2>1, <2>3, <2>4 DEF IInv
<1>6. CASE /\ start <= cap
           /\ mem' = Overwrite(mem, start, SubSeq(head, 1, k))
           /\ pos' = start + k
           /\ IF k = Len(head)
              THEN /\ tags' = [at |-> start + WordsOf[addr], size |-> TagBytes(num), len |-> 1]
                   /\ inMessage' = TRUE
                   /\ UNCHANGED <<bundles, threw, miscounted>>
              ELSE Throw /\ UNCHANGED tags
  <2> HIDE DEF head
  <2>1. k \in {0, WordsOf[addr], Len(head)} /\ start + k <= cap
    BY <1>0, <1>2, <1>3, <1>6, FittingProperties
  <2> HIDE DEF start, k
  <2>2. pos' \in Nat /\ pos <= pos' /\ pos' \in 0..cap
    BY <1>0, <1>2, <1>3, <1>6, <2>1
  <2>3. \A i \in 1..Len(chain) : mem'[chain[i]] = mem[chain[i]]
    <3>1. \A i \in 1..Len(chain) : chain[i] < start
      BY <1>0, <1>2
    <3>2. mem' = Overwrite(mem, start, SubSeq(head, 1, k)) /\ start \in Int
      BY <1>2, <1>6
    <3> QED BY <3>1, <3>2, StackBelow
  <2>4. /\ inMessage' \in BOOLEAN /\ threw' \in BOOLEAN /\ miscounted' = miscounted /\ bundles' = bundles
        /\ ~threw' => ~threw
    BY <1>6 DEF Throw, IInv, TypeOK
  <2>5. tags'.at \in Nat /\ tags'.size \in Nat /\ tags'.len \in 0..tags'.size
    <3>1. CASE k = Len(head)
      BY <1>2, <1>6, <3>1, CountsAssumption DEF TagBytes
    <3>2. CASE k # Len(head)
      BY <1>6, <3>2 DEF IInv, TypeOK
    <3> QED BY <3>1, <3>2
  <2>6. TypeOK'
    <3>1. DOMAIN mem' = 0..(cap - 1)
      BY <1>0, <1>6, OverwriteDomain
    <3> QED BY <1>1, <1>4, <2>2, <2>4, <2>5, <3>1 DEF IInv, TypeOK
  <2>7. ListIsStack' /\ ListInv'
    BY <1>1, <2>2, <2>3, <2>4, StackUntouched
  <2>8. MessageInv'
    <3>1. CASE k = Len(head)
      <4>1. tags'.at = start + WordsOf[addr] /\ (nested => sizePosM' = pos)
        BY <1>1, <1>6, <3>1
      <4>2. \A i \in 1..Len(chain') : chain'[i] < tags'.at /\ chain'[i] < pos
        BY <1>0, <1>1, <1>2, <4>1
      <4> QED BY <1>0, <1>1, <4>1, <4>2 DEF MessageInv
    <3>2. CASE k # Len(head)
      BY <1>1, <1>6, <3>2 DEF MessageInv, Throw
    <3> QED BY <3>1, <3>2
  <2> QED BY <2>6, <2>7, <2>8 DEF IInv
<1> QED BY <1>5, <1>6 DEF OpenMessage

LEMMA CloseMessageStep ==
    ASSUME IInv, CloseMessage
    PROVE  IInv'
<1>0. /\ cap \in Nat /\ pos \in Nat /\ pos <= cap /\ DOMAIN mem = 0..(cap - 1)
      /\ inBundle \in Nat /\ bundles \in 0..inBundle
      /\ chain \in Seq(Nat) /\ Len(chain) \in Nat
      /\ \A i \in 1..Len(chain) : chain[i] \in Nat /\ chain[i] < pos
  BY StateFacts
<1>1. /\ inMessage /\ inMessage' = FALSE
      /\ miscounted' = (miscounted \/ tags.len # tags.size - 1)
      /\ UNCHANGED <<cap, pos, sizePosM, sizePosB, inBundle, bundles, threw, chain>>
  BY DEF CloseMessage
<1>2. /\ DOMAIN mem' = 0..(cap - 1)
      /\ \A i \in 1..Len(chain) : mem'[chain[i]] = mem[chain[i]]
  <2>1. CASE inBundle > 0
    <3>1. mem' = Overwrite(mem, sizePosM, <<<<"int32", CalcSize(sizePosM, pos)>>>>)
      BY <2>1 DEF CloseMessage
    <3>2. sizePosM \in Int /\ \A i \in 1..Len(chain) : chain[i] < sizePosM
      BY <1>1, <2>1 DEF IInv, MessageInv
    <3>3. DOMAIN mem' = 0..(cap - 1)
      BY <1>0, <3>1, OverwriteDomain
    <3>4. \A i \in 1..Len(chain) : mem'[chain[i]] = mem[chain[i]]
      BY <3>1, <3>2, StackBelow
    <3> QED BY <3>3, <3>4
  <2>2. CASE ~(inBundle > 0)
    BY <1>0, <2>2 DEF CloseMessage
  <2> QED BY <2>1, <2>2
<1>3. tags'.at \in Nat /\ tags'.size \in Nat /\ tags'.len \in 0..tags'.size
  <2>1. tags' = NoTags \/ tags' = tags
    BY DEF CloseMessage
  <2>2. CASE tags' = NoTags
    BY <2>2 DEF NoTags
  <2>3. CASE tags' = tags
    BY <2>3 DEF IInv, TypeOK
  <2> QED BY <2>1, <2>2, <2>3
<1>4. TypeOK'
  BY <1>1, <1>2, <1>3 DEF IInv, TypeOK
<1>5. ListIsStack' /\ ListInv'
  BY <1>0, <1>1, <1>2, StackUntouched
<1>6. MessageInv'
  BY <1>1 DEF MessageInv
<1> QED BY <1>4, <1>5, <1>6 DEF IInv

LEMMA PutStep ==
    ASSUME IInv, NEW a \in Arguments, Put(a)
    PROVE  IInv'
<1> DEFINE n == Fitting(Len(a.words), a.cuts, pos)
           w == tags.at + (tags.len \div 4)
<1>0. /\ cap \in Nat /\ pos \in Nat /\ pos <= cap /\ DOMAIN mem = 0..(cap - 1)
      /\ inBundle \in Nat /\ bundles \in 0..inBundle
      /\ chain \in Seq(Nat) /\ Len(chain) \in Nat
      /\ \A i \in 1..Len(chain) : chain[i] \in Nat /\ chain[i] < pos
  BY StateFacts
<1>1. /\ inMessage
      /\ UNCHANGED <<cap, sizePosM, sizePosB, inBundle, chain>>
  BY DEF Put
<1>2. CASE Throw /\ UNCHANGED <<mem, pos, tags>>
  <2>1. TypeOK'
    BY <1>1, <1>2 DEF IInv, TypeOK, Throw
  <2>2. ~threw' => ~threw /\ bundles' = bundles
    BY <1>2 DEF Throw
  <2>3. ListIsStack' /\ ListInv'
    BY <1>0, <1>1, <1>2, <2>2, StackUntouched
  <2>4. MessageInv'
    BY <1>1, <1>2 DEF IInv, MessageInv, Throw
  <2> QED BY <2>1, <2>3, <2>4 DEF IInv
<1>3. CASE /\ tags.len < tags.size
           /\ mem' = Overwrite(TagPut(a.tag), pos, SubSeq(a.words, 1, n))
           /\ pos' = pos + n
           /\ tags' = [tags EXCEPT !.len = tags.len + 1]
           /\ IF n = Len(a.words)
              THEN UNCHANGED <<bundles, inMessage, threw, miscounted>>
              ELSE Throw
  <2>1. n \in Nat /\ pos + n <= cap
    <3>1. PICK c \in Nat : a.cuts = {0, c}
      BY ArgumentProperties
    <3>2. Len(a.words) \in Nat
      BY ArgumentProperties
    <3>3. n = Fitting(Len(a.words), {0, c}, pos)
      BY <3>1
    <3> HIDE DEF n
    <3>4. n \in {0, c, Len(a.words)} /\ pos + n <= cap
      BY <1>0, <3>2, <3>3, FittingProperties
    <3> QED BY <3>2, <3>4
  <2> HIDE DEF n
  <2>2. pos' \in Nat /\ pos <= pos' /\ pos' \in 0..cap
    BY <1>0, <1>3, <2>1
  <2>3. /\ tags.at \in Nat /\ tags.size \in Nat /\ tags.len \in Nat
    BY DEF IInv, TypeOK
  <2>4. /\ DOMAIN mem' = 0..(cap - 1)
        /\ \A i \in 1..Len(chain) : mem'[chain[i]] = mem[chain[i]]
    <3> DEFINE tag == <<<<"tags", [mem[w][2] EXCEPT ![(tags.len % 4) + 1] = a.tag]>>>>
    <3>1. TagPut(a.tag) = Overwrite(mem, w, tag)
      BY DEF TagPut
    <3>2. \A i \in 1..Len(chain) : chain[i] < tags.at
      BY <1>1 DEF IInv, MessageInv
    <3>3. w \in Int /\ \A i \in 1..Len(chain) : chain[i] < w
      <4>1. w \in Nat /\ tags.at <= w
        BY <2>3
      <4>2. \A i \in 1..Len(chain) : chain[i] \in Nat
        BY <1>0
      <4> HIDE DEF w
      <4> QED BY <2>3, <3>2, <4>1, <4>2
    <3> HIDE DEF tag, w
    <3>4. /\ DOMAIN TagPut(a.tag) = DOMAIN mem
          /\ \A i \in 1..Len(chain) : TagPut(a.tag)[chain[i]] = mem[chain[i]]
      BY <3>1, <3>3, StackBelow, OverwriteDomain
    <3>5. mem' = Overwrite(TagPut(a.tag), pos, SubSeq(a.words, 1, n)) /\ pos \in Int
      BY <1>0, <1>3
    <3>6. DOMAIN mem' = 0..(cap - 1)
      BY <1>0, <3>4, <3>5, OverwriteDomain
    <3>7. \A i \in 1..Len(chain) :
              chain[i] < pos /\ TagPut(a.tag)[chain[i]] = mem[chain[i]]
      BY <1>0, <3>4
    <3>8. \A i \in 1..Len(chain) : mem'[chain[i]] = mem[chain[i]]
      BY <3>4, <3>5, <3>7, StackBelow
    <3> QED BY <3>6, <3>8
  <2>5. /\ inMessage' = inMessage /\ threw' \in BOOLEAN /\ bundles' = bundles
        /\ ~threw' => ~threw
    BY <1>3 DEF Throw, IInv, TypeOK
  <2>6. miscounted' \in BOOLEAN
    BY <1>3 DEF Throw, IInv, TypeOK
  <2>7. tags'.at = tags.at /\ tags'.size = tags.size /\ tags'.len \in 0..tags.size
    BY <1>3, <2>3
  <2>8. TypeOK'
    BY <1>1, <2>2, <2>3, <2>4, <2>5, <2>6, <2>7 DEF IInv, TypeOK
  <2>9. ListIsStack' /\ ListInv'
    BY <1>1, <2>2, <2>4, <2>5, StackUntouched
  <2>10. MessageInv'
    BY <1>1, <2>7 DEF IInv, MessageInv
  <2> QED BY <2>8, <2>9, <2>10 DEF IInv
<1> QED BY <1>2, <1>3 DEF Put

LEMMA ResetStep ==
    ASSUME IInv, Reset
    PROVE  IInv'
<1>1. TypeOK'
  <2>1. cap' \in Nat /\ DOMAIN mem' = 0..(cap' - 1) /\ tags' = tags
    BY CapacitiesAssumption DEF Reset
  <2>2. pos' \in 0..cap' /\ inBundle' \in Nat /\ bundles' \in 0..inBundle'
    BY <2>1 DEF Reset
  <2>3. sizePosM' = None /\ sizePosB' = None
    BY DEF Reset
  <2>4. inMessage' \in BOOLEAN /\ threw' \in BOOLEAN /\ miscounted' \in BOOLEAN
    BY DEF Reset
  <2>5. tags.at \in Nat /\ tags.size \in Nat /\ tags.len \in 0..tags.size
    BY DEF IInv, TypeOK
  <2> QED BY <2>1, <2>2, <2>3, <2>4, <2>5 DEF TypeOK
<1>2. chain' = <<>> /\ Len(chain') = 0 /\ chain' \in Seq(Nat) /\ inBundle' = 0 /\ bundles' = 0
  BY DEF Reset
<1>3. ListIsStack'
  BY <1>2 DEF ListIsStack
<1>4. ListInv'
  BY <1>2 DEF ListInv, Reset
<1>5. MessageInv'
  BY DEF MessageInv, Reset
<1> QED BY <1>1, <1>3, <1>4, <1>5 DEF IInv

LEMMA NextIInv == IInv /\ [Next]_vars => IInv'
<1> SUFFICES ASSUME IInv, [Next]_vars PROVE IInv'
  OBVIOUS
<1>1. CASE UNCHANGED vars
  BY <1>1 DEF vars, packet, program, IInv, TypeOK, ListIsStack, ListInv, MessageInv
<1>2. CASE Next
  BY <1>2, OpenBundleStep, CloseBundleStep, OpenMessageStep, CloseMessageStep, PutStep,
     ResetStep DEF Next
<1> QED BY <1>1, <1>2

-----------------------------------------------------------------------------
(* What is preserved is what the runs check *)

\* Every reachable packet has the types of the fields of client.hpp, whatever
\* the capacity of the buffer and the calls made.
THEOREM PacketTypes == Spec => []TypeOK
<1>1. IInv => TypeOK
  BY DEF IInv
<1> QED BY <1>1, InitIInv, NextIInv, PTL DEF Spec

\* The linked list in the buffer is the stack of the open bundles
\* (openBundle, closeBundle), whatever is written between and whichever call
\* threw.
THEOREM OpenBundlesAreListed == Spec => []ListIsStack
<1>1. IInv => ListIsStack
  BY DEF IInv
<1> QED BY <1>1, InitIInv, NextIInv, PTL DEF Spec

\* The assertion of closeBundle holds as long as no call has thrown.
THEOREM ClosedBundlesHaveHeaders == Spec => []SizeAssertionUntilThrow
<1>1. IInv => SizeAssertionUntilThrow
  <2> SUFFICES ASSUME IInv, ~threw, inBundle > 1
               PROVE  CalcSize(sizePosB, pos) >= 16
    BY DEF SizeAssertionUntilThrow, SizeAssertion
  <2>1. Len(chain) = inBundle - 1 /\ inBundle \in Nat /\ Len(chain) \in 1..Len(chain)
    BY StateFacts DEF IInv, ListIsStack
  <2>2. sizePosB = chain[Len(chain)]
    <3>1. chain # <<>>
      BY <2>1
    <3> QED BY <3>1 DEF IInv, ListIsStack
  <2>3. sizePosB \in Nat /\ sizePosB + 5 <= pos /\ pos \in Nat
    BY <2>1, <2>2, StateFacts DEF IInv, ListInv
  <2> QED BY <2>3 DEF CalcSize
<1> QED BY <1>1, InitIInv, NextIInv, PTL DEF Spec

-----------------------------------------------------------------------------
(* Sums over the calls *)

\* A non-empty set of naturals has a least element: what the proofs below use
\* in place of induction.
LEMMA LeastNatural ==
    ASSUME NEW S, S \subseteq Nat, S # {}
    PROVE  \E n \in S : \A m \in S : n <= m
<1> DEFINE R == OpToRel(<, Nat)
<1>1. PICK n \in S : \A m \in S : <<m, n>> \notin R
  <2>1. IsWellFoundedOn(R, Nat)
    BY NatLessThanWellFounded
  <2> HIDE DEF R
  <2> QED BY <2>1, WFMin
<1>2. ASSUME NEW m \in S PROVE n <= m
  <2>1. ~(m < n)
    <3>1. <<m, n>> \in Nat \X Nat /\ <<m, n>>[1] = m /\ <<m, n>>[2] = n
      OBVIOUS
    <3> QED BY <1>1, <3>1 DEF OpToRel
  <2> QED BY <2>1
<1> QED BY <1>2

\* Sequences with the same numbers so far have the same sums so far, if they are
\* what the recursion says.
IsSums(s, f) == s = [i \in 0..Len(f) |-> IF i = 0 THEN 0 ELSE s[i - 1] + f[i]]

LEMMA SumsAgree ==
    ASSUME NEW f \in Seq(Int), NEW g \in Seq(Int), NEW s, NEW t, IsSums(s, f), IsSums(t, g),
           NEW n \in Nat, n <= Len(f), n <= Len(g), \A i \in 1..n : f[i] = g[i]
    PROVE  \A i \in 0..n : s[i] = t[i]
<1> DEFINE bad == {i \in 0..n : s[i] # t[i]}
<1>0. Len(f) \in Nat /\ Len(g) \in Nat
  OBVIOUS
<1>1. SUFFICES ASSUME bad # {} PROVE FALSE
  OBVIOUS
<1>2. PICK i \in bad : \A m \in bad : i <= m
  <2>1. bad \subseteq Nat
    OBVIOUS
  <2> HIDE DEF bad
  <2> QED BY <1>1, <2>1, LeastNatural
<1>3. s[0] = 0 /\ t[0] = 0
  BY <1>0 DEF IsSums
<1>4. i \in 1..n /\ i - 1 \in 0..n /\ ~(i <= i - 1)
  BY <1>2, <1>3
<1>5. s[i - 1] = t[i - 1]
  BY <1>2, <1>4
<1>6. s[i] = s[i - 1] + f[i] /\ t[i] = t[i - 1] + g[i]
  <2>1. i \in 0..Len(f) /\ i \in 0..Len(g) /\ i # 0
    BY <1>0, <1>4
  <2>2. s[i] = IF i = 0 THEN 0 ELSE s[i - 1] + f[i]
    BY <2>1 DEF IsSums
  <2>3. t[i] = IF i = 0 THEN 0 ELSE t[i - 1] + g[i]
    BY <2>1 DEF IsSums
  <2> QED BY <2>1, <2>2, <2>3
<1>7. f[i] = g[i] /\ s[i] # t[i]
  BY <1>2, <1>4
<1> QED BY <1>5, <1>6, <1>7

\* There are such sums for every sequence.
LEMMA SumsExist ==
    ASSUME NEW f \in Seq(Int)
    PROVE  \E s : IsSums(s, f)
<1> DEFINE N == Len(f)
           Part(n, s) == s = [i \in 0..n |-> IF i = 0 THEN 0 ELSE s[i - 1] + f[i]]
           bad == {n \in 0..N : ~ \E s : Part(n, s)}
<1>0. N \in Nat
  OBVIOUS
<1>1. CASE bad = {}
  <2>1. PICK s : Part(N, s)
    BY <1>0, <1>1
  <2> QED BY <2>1 DEF IsSums
<1>2. CASE bad # {}
  <2> HIDE DEF N
  <2>1. PICK n \in bad : \A m \in bad : n <= m
    <3>1. bad \subseteq Nat
      BY <1>0
    <3> HIDE DEF bad
    <3> QED BY <3>1, <1>2, LeastNatural
  <2>2. n # 0
    <3>1. Part(0, [i \in 0..0 |-> 0])
      OBVIOUS
    <3> HIDE DEF Part
    <3> QED BY <2>1, <3>1
  <2>3. n \in 1..N /\ n - 1 \in 0..N /\ ~(n <= n - 1)
    BY <1>0, <2>1, <2>2
  <2>4. PICK s : Part(n - 1, s)
    BY <2>1, <2>3
  <2> DEFINE t == [i \in 0..n |-> IF i = n THEN s[n - 1] + f[n] ELSE s[i]]
  <2>5. Part(n, t)
    <3>1. \A i \in 0..n : t[i] = IF i = 0 THEN 0 ELSE t[i - 1] + f[i]
      <4> SUFFICES ASSUME NEW i \in 0..n PROVE t[i] = IF i = 0 THEN 0 ELSE t[i - 1] + f[i]
        OBVIOUS
      <4>1. CASE i = n
        BY <2>3, <4>1
      <4>2. CASE i # n
        <5>1. i \in 0..(n - 1) /\ (i # 0 => i - 1 \in 0..n /\ i - 1 # n)
          BY <2>3, <4>2
        <5>2. s[i] = IF i = 0 THEN 0 ELSE s[i - 1] + f[i]
          BY <2>4, <5>1
        <5> QED BY <4>2, <5>1, <5>2
      <4> QED BY <4>1, <4>2
    <3>2. t = [i \in 0..n |-> t[i]]
      OBVIOUS
    <3> HIDE DEF t
    <3> QED BY <3>1, <3>2
  <2> QED BY <2>1, <2>5
<1> QED BY <1>1, <1>2

\* What Sums computes.
LEMMA SumsProperties ==
    ASSUME NEW f \in Seq(Int)
    PROVE  /\ IsSums(Sums(f), f)
           /\ Sums(f)[0] = 0
           /\ \A i \in 1..Len(f) : Sums(f)[i] = Sums(f)[i - 1] + f[i]
           /\ \A i \in 0..Len(f) : Sums(f)[i] \in Int
<1>0. Len(f) \in Nat
  OBVIOUS
<1>1. IsSums(Sums(f), f)
  <2>1. Sums(f) = CHOOSE s : IsSums(s, f)
    BY DEF Sums, IsSums
  <2> QED BY <2>1, SumsExist
<1> DEFINE s == Sums(f)
<1> HIDE DEF s
<1>2. s = [i \in 0..Len(f) |-> IF i = 0 THEN 0 ELSE s[i - 1] + f[i]]
  BY <1>1 DEF IsSums, s
<1>3. s[0] = 0 /\ \A i \in 1..Len(f) : s[i] = s[i - 1] + f[i]
  BY <1>0, <1>2
<1>4. \A i \in 0..Len(f) : s[i] \in Int
  <2> DEFINE bad == {i \in 0..Len(f) : s[i] \notin Int}
  <2>1. SUFFICES ASSUME bad # {} PROVE FALSE
    OBVIOUS
  <2>2. PICK i \in bad : \A m \in bad : i <= m
    <3>1. bad \subseteq Nat
      OBVIOUS
    <3> HIDE DEF bad
    <3> QED BY <2>1, <3>1, LeastNatural
  <2>3. i \in 1..Len(f) /\ i - 1 \in 0..Len(f) /\ ~(i <= i - 1)
    BY <1>0, <1>3, <2>2
  <2>4. s[i - 1] \in Int /\ f[i] \in Int
    BY <2>2, <2>3
  <2> QED BY <1>3, <2>2, <2>3, <2>4
<1> QED BY <1>1, <1>3, <1>4 DEF s

\* Numbers that do not fall make sums that do not fall.
LEMMA SumsMonotone ==
    ASSUME NEW f \in Seq(Int), NEW a \in Nat, NEW b \in Nat, a <= b, b <= Len(f),
           \A i \in (a + 1)..b : f[i] >= 0
    PROVE  Sums(f)[a] <= Sums(f)[b]
<1> DEFINE s == Sums(f)
           bad == {i \in a..b : s[i] < s[a]}
<1>1. /\ \A i \in 1..Len(f) : s[i] = s[i - 1] + f[i]
      /\ \A i \in 0..Len(f) : s[i] \in Int
      /\ Len(f) \in Nat
  BY SumsProperties
<1> HIDE DEF s
<1>2. SUFFICES ASSUME bad # {} PROVE FALSE
  <2>1. a \in 0..Len(f) /\ b \in 0..Len(f) /\ b \in a..b
    BY <1>1
  <2>2. ~(s[b] < s[a]) => s[a] <= s[b]
    BY <1>1, <2>1
  <2> QED BY <2>1, <2>2 DEF s
<1>3. PICK i \in bad : \A m \in bad : i <= m
  <2>1. bad \subseteq Nat
    OBVIOUS
  <2> HIDE DEF bad
  <2> QED BY <1>2, <2>1, LeastNatural
<1>4. i \in a..b /\ s[i] < s[a]
  BY <1>3
<1>5. i \in (a + 1)..b /\ i - 1 \in a..b /\ ~(i <= i - 1)
  <2>1. i # a
    BY <1>1, <1>4
  <2> QED BY <1>4, <2>1
<1>6. ~(s[i - 1] < s[a])
  BY <1>3, <1>5
<1>7. s[i] = s[i - 1] + f[i] /\ f[i] \in Int /\ f[i] >= 0
  BY <1>1, <1>5
<1>8. s[i - 1] \in Int /\ s[a] \in Int
  BY <1>1, <1>5
<1> QED BY <1>4, <1>6, <1>7, <1>8

\* Elements that are zero leave the sums as they are.
LEMMA SumsFlat ==
    ASSUME NEW f \in Seq(Int), NEW a \in Nat, NEW b \in Nat, a <= b, b <= Len(f),
           \A i \in (a + 1)..b : f[i] = 0
    PROVE  Sums(f)[a] = Sums(f)[b]
<1> DEFINE s == Sums(f)
           bad == {i \in a..b : s[i] # s[a]}
<1>1. /\ \A i \in 1..Len(f) : s[i] = s[i - 1] + f[i]
      /\ \A i \in 0..Len(f) : s[i] \in Int
      /\ Len(f) \in Nat
  BY SumsProperties
<1> HIDE DEF s
<1>2. SUFFICES ASSUME bad # {} PROVE FALSE
  <2>1. b \in a..b
    OBVIOUS
  <2> QED BY <2>1 DEF s
<1>3. PICK i \in bad : \A m \in bad : i <= m
  <2>1. bad \subseteq Nat
    OBVIOUS
  <2> HIDE DEF bad
  <2> QED BY <1>2, <2>1, LeastNatural
<1>4. i \in (a + 1)..b /\ i - 1 \in a..b /\ ~(i <= i - 1)
  BY <1>1, <1>3
<1>5. s[i - 1] = s[a] /\ s[i] # s[a]
  BY <1>3, <1>4
<1>6. s[i] = s[i - 1] + f[i] /\ f[i] = 0 /\ s[i - 1] \in Int
  BY <1>1, <1>4
<1> QED BY <1>5, <1>6

-----------------------------------------------------------------------------
(* The invariant of the layout *)

Calls ==
    {<<"bundle", time>> : time \in Times} \cup {<<"message", addr, n>> : addr \in Texts, n \in Counts}
        \cup {<<a.tag, a.words>> : a \in Arguments} \cup {<<"end">>, <<"close">>}

\* Arguments and the end of a message follow the message or an argument.
Inside(call) == call[1] = "message" \/ IsArgument(call)

GrammarInv ==
    /\ log \in Seq(Calls)
    /\ \A i \in DOMAIN log :
        (IsArgument(log[i]) \/ log[i][1] = "close") <=> (i > 1 /\ Inside(log[i - 1]))
    /\ inMessage <=> log # <<>> /\ Inside(log[Len(log)])

\* The calls leave open what the program has open; after the outermost packet
\* there is nothing.
DepthInv ==
    /\ Depth[Len(log)] = bundles + (IF inMessage THEN 1 ELSE 0)
    /\ \A j \in 1..(Len(log) - 1) : Depth[j] >= 1

\* The list in the buffer is of the size fields of the calls that are open.
OpenInv ==
    ~threw => \A d \in 1..Len(chain) : \E i \in DOMAIN log \ {1} :
        /\ log[i][1] = "bundle" /\ chain[d] = Start(i) - 1
        /\ Depth[i] = d + 1 /\ \A k \in i..Len(log) : Depth[k] >= d + 1

\* Call i is the message that is open, and its tags and size are where the
\* packet puts them.
IsOpenMessage(i) ==
    /\ log[i][1] = "message"
    /\ \A k \in (i + 1)..Len(log) : IsArgument(log[k])
    /\ \A k \in i..Len(log) : Depth[k] = bundles + 1
    /\ IF i > 1 THEN inBundle > 0 /\ sizePosM = Start(i) - 1 ELSE inBundle = 0
    /\ tags = [at |-> Start(i) + WordsOf[log[i][2]], size |-> TagBytes(log[i][3]),
               len |-> Len(log) - i + 1]

OpenMessageInv == ~threw /\ inMessage => \E i \in DOMAIN log : IsOpenMessage(i)

CountsInv ==
    ~threw /\ ~miscounted =>
        \A i, j \in DOMAIN log :
            /\ log[i][1] = "message" /\ log[j][1] = "close" /\ i < j
            /\ \A k \in (i + 1)..(j - 1) : IsArgument(log[k])
            => j - i - 1 = log[i][3]

LayoutInv ==
    IInv /\ GrammarInv /\ DepthInv /\ OpenInv /\ OpenMessageInv /\ CountsInv
        /\ SizesPredicted /\ LaidOut

-----------------------------------------------------------------------------
(* The calls and their places *)

\* The arguments of a log are those of a call: as many words as its size says.
LEMMA ArgumentWords ==
    ASSUME NEW a \in Arguments
    PROVE  /\ IsArgument(<<a.tag, a.words>>)
           /\ SizeOf(<<a.tag, a.words>>) \in Nat
           /\ DOMAIN a.words = 1..SizeOf(<<a.tag, a.words>>)
           /\ Len(a.words) = SizeOf(<<a.tag, a.words>>)
           /\ a.words = [k \in 1..Len(a.words) |-> a.words[k]]
<1> DEFINE c == <<a.tag, a.words>>
<1>1. CASE \E v \in Numbers : a = Int32(v) \/ a = Float32(v)
  <2>1. PICK v \in Numbers : a = Int32(v) \/ a = Float32(v)
    BY <1>1
  <2>2. a.tag \in {"i", "f"} /\ Len(a.words) = 1 /\ DOMAIN a.words = 1..1
        /\ a.words = [k \in 1..1 |-> a.words[k]]
    BY <2>1 DEF Int32, Float32
  <2>3. IsArgument(c) /\ SizeOf(c) = 1
    BY <2>2 DEF IsArgument, SizeOf
  <2> QED BY <2>2, <2>3
<1>2. CASE \E t \in Texts : a = String(t)
  <2>1. PICK t \in Texts : a = String(t)
    BY <1>2
  <2>2. WordsOf[t] \in Nat /\ WordsOf[t] >= 1
    BY WordsAssumption
  <2>3. a.tag = "s" /\ a.words = [i \in 1..WordsOf[t] |-> <<"string", t, i>>]
    BY <2>1 DEF String, StringWords
  <2>4. a.words[1][2] = t /\ Len(a.words) = WordsOf[t] /\ DOMAIN a.words = 1..WordsOf[t]
        /\ a.words = [k \in 1..WordsOf[t] |-> a.words[k]]
    BY <2>2, <2>3
  <2>5. IsArgument(c) /\ SizeOf(c) = WordsOf[t]
    BY <2>3, <2>4 DEF IsArgument, SizeOf
  <2> QED BY <2>2, <2>4, <2>5
<1>3. CASE \E n \in BlobSizes : a = Blob(n)
  <2>1. PICK n \in BlobSizes : a = Blob(n)
    BY <1>3
  <2> DEFINE s == <<<<"int32", n>>>>
             t == [i \in 1..WordsFor(n) |-> <<"data", n, i>>]
             S == {s[1]} \cup {t[i] : i \in 1..WordsFor(n)}
  <2>2. n \in Nat /\ WordsFor(n) \in Nat
    BY BlobsAssumption DEF WordsFor
  <2>3. s \in Seq(S) /\ t \in Seq(S) /\ Len(s) = 1 /\ Len(t) = WordsFor(n)
    BY <2>2
  <2>4. a.words = s \o t /\ a.tag = "b"
    BY <2>1 DEF Blob
  <2> HIDE DEF t, S
  <2>5. /\ s \o t \in Seq(S) /\ Len(s \o t) = 1 + WordsFor(n) /\ (s \o t)[1] = s[1]
    BY <2>2, <2>3, ConcatProperties
  <2>6. /\ a.words[1] = <<"int32", n>> /\ Len(a.words) = 1 + WordsFor(n)
        /\ DOMAIN a.words = 1..(1 + WordsFor(n))
        /\ a.words = [k \in 1..(1 + WordsFor(n)) |-> a.words[k]]
    BY <2>2, <2>4, <2>5
  <2>7. IsArgument(c) /\ SizeOf(c) = 1 + WordsFor(n)
    BY <2>4, <2>6 DEF IsArgument, SizeOf
  <2> QED BY <2>2, <2>6, <2>7
<1>4. CASE a = Bracket("[") \/ a = Bracket("]")
  <2>1. a.tag \in {"[", "]"} /\ Len(a.words) = 0 /\ DOMAIN a.words = 1..0
        /\ a.words = [k \in 1..0 |-> a.words[k]]
    BY <1>4 DEF Bracket
  <2>2. IsArgument(c) /\ SizeOf(c) = 0
    BY <2>1 DEF IsArgument, SizeOf
  <2> QED BY <2>1, <2>2
<1> QED BY <1>1, <1>2, <1>3, <1>4 DEF Arguments

\* Every call is of one kind.
LEMMA CallKinds ==
    ASSUME NEW c \in Calls
    PROVE  \/ \E time \in Times : c = <<"bundle", time>>
           \/ \E addr \in Texts, n \in Counts : c = <<"message", addr, n>>
           \/ \E a \in Arguments : c = <<a.tag, a.words>>
           \/ c = <<"end">>
           \/ c = <<"close">>
BY DEF Calls

\* Every call of the log opens a packet, closes one, or is an argument.
LEMMA CallProperties ==
    ASSUME NEW c \in Calls
    PROVE  /\ SizeOf(c) \in Nat
           /\ Opens(c) => SizeOf(c) >= 1 /\ ~Closes(c) /\ ~IsArgument(c)
           /\ Closes(c) => SizeOf(c) = 0 /\ ~IsArgument(c)
           /\ Opens(c) \/ Closes(c) \/ IsArgument(c)
           /\ c[1] = "bundle" => SizeOf(c) = 4 /\ \E time \in Times : c = <<"bundle", time>>
           /\ c[1] = "message" =>
                /\ \E addr \in Texts, n \in Counts : c = <<"message", addr, n>>
                /\ c[2] \in Texts /\ c[3] \in Nat /\ WordsOf[c[2]] \in Nat
                /\ WordsOf[c[2]] >= 1 /\ WordsFor(TagBytes(c[3])) \in Nat
                /\ SizeOf(c) = WordsOf[c[2]] + WordsFor(TagBytes(c[3]))
           /\ IsArgument(c) => \E a \in Arguments : c = <<a.tag, a.words>>
           /\ IsArgument(c) =>
                Len(c[2]) = SizeOf(c) /\ c[2] = [k \in 1..SizeOf(c) |-> c[2][k]]
           /\ c[1] = "end" => c = <<"end">>
           /\ c[1] = "close" => c = <<"close">>
<1> USE DEF Opens, Closes
<1>1. CASE \E time \in Times : c = <<"bundle", time>>
  BY <1>1 DEF SizeOf, IsArgument
<1>2. CASE \E addr \in Texts, n \in Counts : c = <<"message", addr, n>>
  <2>1. PICK addr \in Texts, n \in Counts : c = <<"message", addr, n>>
    BY <1>2
  <2>2. c[1] = "message" /\ c[2] = addr /\ c[3] = n
    BY <2>1
  <2>3. WordsOf[addr] \in Nat /\ WordsOf[addr] >= 1 /\ n \in Nat
    BY WordsAssumption, CountsAssumption
  <2>4. WordsFor(n + 2) \in Nat
    BY <2>3 DEF WordsFor
  <2>5. SizeOf(c) = WordsOf[addr] + WordsFor(n + 2)
    BY <2>2 DEF SizeOf
  <2> QED BY <2>1, <2>2, <2>3, <2>4, <2>5 DEF IsArgument, TagBytes
<1>3. CASE \E a \in Arguments : c = <<a.tag, a.words>>
  <2>1. PICK a \in Arguments : c = <<a.tag, a.words>>
    BY <1>3
  <2>2. IsArgument(c) /\ SizeOf(c) \in Nat /\ c[2] = a.words
        /\ Len(a.words) = SizeOf(c) /\ a.words = [k \in 1..Len(a.words) |-> a.words[k]]
    BY <2>1, ArgumentWords
  <2>3. ~Opens(c) /\ ~Closes(c)
    BY <2>2 DEF IsArgument
  <2> QED BY <1>3, <2>2, <2>3
<1>4. CASE c = <<"end">> \/ c = <<"close">>
  BY <1>4 DEF SizeOf, IsArgument
<1> QED BY <1>1, <1>2, <1>3, <1>4, CallKinds

\* The rooms of the calls of a log, and what they add to the depth.
Rooms(l)  == [i \in DOMAIN l |-> (IF Opens(l[i]) /\ i > 1 THEN 1 ELSE 0) + SizeOf(l[i])]
Levels(l) == [i \in DOMAIN l |-> IF Opens(l[i]) THEN 1 ELSE IF Closes(l[i]) THEN -1 ELSE 0]

\* The numbers that Predicted and Depth add up.
LEMMA RoomsLevels ==
    ASSUME NEW l \in Seq(Calls)
    PROVE  /\ Len(l) \in Nat /\ DOMAIN l = 1..Len(l)
           /\ \A i \in 1..Len(l) : l[i] \in Calls
           /\ Rooms(l) \in Seq(Int) /\ Len(Rooms(l)) = Len(l)
           /\ Levels(l) \in Seq(Int) /\ Len(Levels(l)) = Len(l)
           /\ \A i \in 1..Len(l) : Rooms(l)[i] \in Nat
<1>1. Len(l) \in Nat /\ DOMAIN l = 1..Len(l) /\ \A i \in 1..Len(l) : l[i] \in Calls
  OBVIOUS
<1>2. ASSUME NEW i \in 1..Len(l) PROVE Rooms(l)[i] \in Nat
  <2>1. Rooms(l)[i] = (IF Opens(l[i]) /\ i > 1 THEN 1 ELSE 0) + SizeOf(l[i])
    BY <1>1 DEF Rooms
  <2>2. SizeOf(l[i]) \in Nat
    BY <1>1, CallProperties
  <2> QED BY <2>1, <2>2
<1>3. Rooms(l) = [i \in 1..Len(l) |-> Rooms(l)[i]] /\ \A i \in 1..Len(l) : Rooms(l)[i] \in Int
  BY <1>1, <1>2 DEF Rooms
<1>4. Rooms(l) \in Seq(Int) /\ Len(Rooms(l)) = Len(l)
  BY <1>1, <1>3, FunctionIsSequence
<1>5. Levels(l) = [i \in 1..Len(l) |-> Levels(l)[i]] /\ \A i \in 1..Len(l) : Levels(l)[i] \in Int
  BY <1>1 DEF Levels
<1>6. Levels(l) \in Seq(Int) /\ Len(Levels(l)) = Len(l)
  BY <1>1, <1>5, FunctionIsSequence
<1> QED BY <1>1, <1>2, <1>4, <1>6

LEMMA PredictedIsSums == Predicted = Sums(Rooms(log)) /\ Depth = Sums(Levels(log))
BY DEF Predicted, Prefix, Rooms, Depth, Levels

\* Where the calls are.
LEMMA Places ==
    ASSUME log \in Seq(Calls)
    PROVE  /\ Len(log) \in Nat /\ DOMAIN log = 1..Len(log)
           /\ \A i \in 1..Len(log) : log[i] \in Calls
           /\ Predicted[0] = 0 /\ Depth[0] = 0
           /\ \A i \in 0..Len(log) : Predicted[i] \in Nat /\ Depth[i] \in Int
           /\ \A i \in 1..Len(log) :
                /\ Prefix(i) \in {0, 1} /\ Start(i) = Predicted[i - 1] + Prefix(i)
                /\ Start(i) \in Nat
                /\ Predicted[i] = Start(i) + SizeOf(log[i])
                /\ Depth[i] = Depth[i - 1] + (IF Opens(log[i]) THEN 1 ELSE IF Closes(log[i]) THEN -1 ELSE 0)
           /\ \A i, j \in 0..Len(log) : i <= j => Predicted[i] <= Predicted[j]
<1> DEFINE p == Predicted
           d == Depth
<1>1. Len(log) \in Nat /\ DOMAIN log = 1..Len(log) /\ \A i \in 1..Len(log) : log[i] \in Calls
  BY RoomsLevels
<1>2. /\ Rooms(log) \in Seq(Int) /\ Len(Rooms(log)) = Len(log)
      /\ Levels(log) \in Seq(Int) /\ Len(Levels(log)) = Len(log)
      /\ \A i \in 1..Len(log) : Rooms(log)[i] \in Nat
  BY RoomsLevels
<1>3. /\ p[0] = 0 /\ d[0] = 0
      /\ \A i \in 1..Len(log) : p[i] = p[i - 1] + Rooms(log)[i] /\ d[i] = d[i - 1] + Levels(log)[i]
      /\ \A i \in 0..Len(log) : p[i] \in Int /\ d[i] \in Int
  BY <1>2, SumsProperties, PredictedIsSums
<1>4. \A i, j \in 0..Len(log) : i <= j => p[i] <= p[j]
  <2> SUFFICES ASSUME NEW i \in 0..Len(log), NEW j \in 0..Len(log), i <= j
               PROVE  p[i] <= p[j]
    OBVIOUS
  <2>1. i \in Nat /\ j \in Nat /\ j <= Len(Rooms(log))
        /\ \A k \in (i + 1)..j : Rooms(log)[k] >= 0
    BY <1>1, <1>2
  <2>2. Sums(Rooms(log))[i] <= Sums(Rooms(log))[j]
    BY <1>2, <2>1, SumsMonotone
  <2> QED BY <2>2, PredictedIsSums
<1> HIDE DEF p, d
<1>5. \A i \in 0..Len(log) : p[i] \in Nat
  <2> SUFFICES ASSUME NEW i \in 0..Len(log) PROVE p[i] \in Nat
    OBVIOUS
  <2>1. 0 \in 0..Len(log) /\ 0 <= i
    BY <1>1
  <2>2. p[0] <= p[i] /\ p[i] \in Int
    BY <1>3, <1>4, <2>1
  <2> QED BY <1>3, <2>2
<1>6. \A i \in 1..Len(log) :
        /\ Prefix(i) \in {0, 1} /\ Start(i) = p[i - 1] + Prefix(i) /\ Start(i) \in Nat
        /\ p[i] = Start(i) + SizeOf(log[i])
        /\ d[i] = d[i - 1] + (IF Opens(log[i]) THEN 1 ELSE IF Closes(log[i]) THEN -1 ELSE 0)
  <2> SUFFICES ASSUME NEW i \in 1..Len(log)
               PROVE  /\ Prefix(i) \in {0, 1} /\ Start(i) = p[i - 1] + Prefix(i) /\ Start(i) \in Nat
                      /\ p[i] = Start(i) + SizeOf(log[i])
                      /\ d[i] = d[i - 1] + (IF Opens(log[i]) THEN 1 ELSE IF Closes(log[i]) THEN -1 ELSE 0)
    OBVIOUS
  <2>1. i - 1 \in 0..Len(log) /\ log[i] \in Calls
    BY <1>1
  <2>2. p[i - 1] \in Nat /\ SizeOf(log[i]) \in Nat
    BY <1>5, <2>1, CallProperties
  <2>3. Prefix(i) \in {0, 1} /\ Rooms(log)[i] = Prefix(i) + SizeOf(log[i])
    BY <1>1 DEF Prefix, Rooms
  <2>4. Start(i) = p[i - 1] + Prefix(i)
    BY DEF Start, p
  <2>5. Levels(log)[i] = (IF Opens(log[i]) THEN 1 ELSE IF Closes(log[i]) THEN -1 ELSE 0)
    BY <1>1 DEF Levels
  <2>6. p[i] = p[i - 1] + Rooms(log)[i]
    BY <1>3
  <2>7. d[i] = d[i - 1] + Levels(log)[i]
    BY <1>3
  <2>8. Start(i) \in Nat /\ p[i] = Start(i) + SizeOf(log[i])
    BY <2>2, <2>3, <2>4, <2>6
  <2> QED BY <2>3, <2>4, <2>5, <2>7, <2>8
<1> QED BY <1>1, <1>3, <1>4, <1>5, <1>6 DEF p, d

\* The sums of a longer log begin with those of the shorter one.
LEMMA PrefixSums ==
    ASSUME NEW f \in Seq(Int), NEW g \in Seq(Int), NEW n \in Nat, Len(f) = n, Len(g) = n + 1,
           \A i \in 1..n : f[i] = g[i]
    PROVE  \A i \in 0..n : Sums(g)[i] = Sums(f)[i]
<1>1. IsSums(Sums(f), f) /\ IsSums(Sums(g), g)
  BY SumsProperties
<1>2. n <= Len(f) /\ n <= Len(g)
  OBVIOUS
<1> DEFINE s == Sums(f)
           t == Sums(g)
<1> HIDE DEF s, t
<1>3. \A i \in 0..n : s[i] = t[i]
  BY <1>1, <1>2, SumsAgree DEF s, t
<1> QED BY <1>3 DEF s, t

\* A call more changes no place of the calls before it.
LEMMA LogGrows ==
    ASSUME log \in Seq(Calls), NEW c \in Calls, log' = Append(log, c), NEW N, N = Len(log)
    PROVE  /\ N \in Nat /\ DOMAIN log = 1..N
           /\ log' \in Seq(Calls) /\ Len(log') = N + 1
           /\ DOMAIN log' = 1..(N + 1) /\ log'[N + 1] = c
           /\ \A i \in 1..N : log'[i] = log[i]
           /\ \A i \in 0..N : Predicted'[i] = Predicted[i] /\ Depth'[i] = Depth[i]
           /\ \A i \in 1..N : Start(i)' = Start(i)
           /\ Start(N + 1)' = Predicted[N] + (IF Opens(c) /\ N > 0 THEN 1 ELSE 0)
           /\ Predicted'[N + 1] = Start(N + 1)' + SizeOf(c)
           /\ Depth'[N + 1] =
                Depth[N] + (IF Opens(c) THEN 1 ELSE IF Closes(c) THEN -1 ELSE 0)
<1> DEFINE l == log'
<1>0. /\ N \in Nat /\ DOMAIN log = 1..N /\ \A i \in 0..N : Predicted[i] \in Nat /\ Depth[i] \in Int
  BY Places
<1>1. /\ l \in Seq(Calls) /\ Len(l) = N + 1 /\ DOMAIN l = 1..(N + 1) /\ l[N + 1] = c
      /\ \A i \in 1..N : l[i] = log[i]
  BY <1>0, AppendProperties
<1> HIDE DEF l
<1>2. /\ Rooms(l) \in Seq(Int) /\ Len(Rooms(l)) = N + 1
      /\ Levels(l) \in Seq(Int) /\ Len(Levels(l)) = N + 1
  BY <1>1, RoomsLevels
<1>3. /\ Rooms(log) \in Seq(Int) /\ Len(Rooms(log)) = N
      /\ Levels(log) \in Seq(Int) /\ Len(Levels(log)) = N
  BY RoomsLevels
<1>4. \A i \in 1..N : Rooms(l)[i] = Rooms(log)[i] /\ Levels(l)[i] = Levels(log)[i]
  BY <1>0, <1>1 DEF Rooms, Levels
<1>5. Predicted' = Sums(Rooms(l)) /\ Depth' = Sums(Levels(l))
  BY DEF Predicted, Prefix, Rooms, Depth, Levels, l
<1>6. Predicted = Sums(Rooms(log)) /\ Depth = Sums(Levels(log))
  BY PredictedIsSums
<1>7. \A i \in 0..N : Predicted'[i] = Predicted[i]
  BY <1>0, <1>2, <1>3, <1>4, <1>5, <1>6, PrefixSums
<1>8. \A i \in 0..N : Depth'[i] = Depth[i]
  BY <1>0, <1>2, <1>3, <1>4, <1>5, <1>6, PrefixSums
<1>9. \A i \in 1..N : Start(i)' = Start(i)
  <2> SUFFICES ASSUME NEW i \in 1..N PROVE Start(i)' = Start(i)
    OBVIOUS
  <2>1. Prefix(i)' = Prefix(i)
    BY <1>1 DEF Prefix, l
  <2>2. i - 1 \in 0..N
    BY <1>0
  <2> QED BY <1>7, <2>1, <2>2 DEF Start
<1>10. Start(N + 1)' = Predicted[N] + (IF Opens(c) /\ N > 0 THEN 1 ELSE 0)
  <2>1. Prefix(N + 1)' = IF Opens(c) /\ N > 0 THEN 1 ELSE 0
    BY <1>0, <1>1 DEF Prefix, l, Opens
  <2>2. Start(N + 1)' = Predicted'[N + 1 - 1] + Prefix(N + 1)'
    BY DEF Start
  <2>3. N + 1 - 1 = N /\ N \in 0..N
    BY <1>0
  <2> QED BY <1>7, <2>1, <2>2, <2>3
<1>11. N + 1 \in 1..Len(Rooms(l)) /\ N + 1 \in 1..Len(Levels(l)) /\ N + 1 - 1 = N /\ N \in 0..N
  BY <1>0, <1>2
<1>12. Predicted'[N + 1] = Start(N + 1)' + SizeOf(c)
  <2>1. Predicted'[N + 1] = Predicted'[N] + Rooms(l)[N + 1]
    BY <1>2, <1>5, <1>11, SumsProperties
  <2>2. Rooms(l)[N + 1] = (IF Opens(c) /\ N > 0 THEN 1 ELSE 0) + SizeOf(c)
    <3>1. N + 1 \in DOMAIN l /\ (N + 1 > 1 <=> N > 0)
      BY <1>0, <1>1
    <3> QED BY <1>1, <3>1 DEF Rooms
  <2>3. SizeOf(c) \in Nat /\ Predicted[N] \in Nat /\ Predicted'[N] = Predicted[N]
    BY <1>0, <1>7, <1>11, CallProperties
  <2> QED BY <1>10, <2>1, <2>2, <2>3
<1>13. Depth'[N + 1] = Depth[N] + (IF Opens(c) THEN 1 ELSE IF Closes(c) THEN -1 ELSE 0)
  <2>1. Depth'[N + 1] = Depth'[N] + Levels(l)[N + 1]
    BY <1>2, <1>5, <1>11, SumsProperties
  <2>2. Levels(l)[N + 1] = (IF Opens(c) THEN 1 ELSE IF Closes(c) THEN -1 ELSE 0)
    BY <1>1, <1>11, <1>2 DEF Levels
  <2>3. Depth'[N] = Depth[N]
    BY <1>8, <1>11
  <2> QED BY <2>1, <2>2, <2>3
<1>14. l = log'
  BY DEF l
<1> QED BY <1>0, <1>1, <1>7, <1>8, <1>9, <1>10, <1>12, <1>13, <1>14

\* Who encloses whom does not change either.
LEMMA EnclosingStays ==
    ASSUME log \in Seq(Calls), NEW c \in Calls, log' = Append(log, c),
           NEW i \in 1..Len(log), NEW j \in 1..Len(log)
    PROVE  Encloses(i, j)' <=> Encloses(i, j)
<1>1. Len(log) \in Nat /\ \A k \in 0..Len(log) : Depth'[k] = Depth[k]
  BY LogGrows
<1>2. i - 1 \in 0..Len(log) /\ j \in 0..Len(log) /\ \A k \in i..(j - 1) : k \in 0..Len(log)
  BY <1>1
<1>3. Depth'[i - 1] = Depth[i - 1] /\ Depth'[j] = Depth[j] /\ \A k \in i..(j - 1) : Depth'[k] = Depth[k]
  BY <1>1, <1>2
<1> QED BY <1>3 DEF Encloses

\* Only a message whose arguments go on gets another tag.
LEMMA TagsStay ==
    ASSUME log \in Seq(Calls), NEW c \in Calls, log' = Append(log, c),
           NEW i \in 1..Len(log), NEW b \in Nat,
           \/ ~IsArgument(c)
           \/ \E k \in (i + 1)..Len(log) : ~IsArgument(log[k])
           \/ i + b # Len(log) + 1
    PROVE  TagByte(i, b)' = TagByte(i, b)
<1> DEFINE N == Len(log)
<1>0. /\ N \in Nat /\ DOMAIN log = 1..N /\ DOMAIN log' = 1..(N + 1) /\ log'[N + 1] = c
      /\ \A k \in 1..N : log'[k] = log[k]
  BY LogGrows, Places
<1> HIDE DEF N
<1>1. CASE i + b \in 1..N
  <2>1. log'[i + b] = log[i + b] /\ \A k \in (i + 1)..(i + b) : k \in 1..N /\ log'[k] = log[k]
    BY <1>0, <1>1
  <2>2. i + b \in DOMAIN log /\ i + b \in DOMAIN log'
    BY <1>0, <1>1
  <2>3. (\A k \in (i + 1)..(i + b) : IsArgument(log'[k]))
            <=> (\A k \in (i + 1)..(i + b) : IsArgument(log[k]))
    BY <2>1
  <2>4. TagByte(i, b)' = IF b = 0 THEN "," ELSE
            IF \A k \in (i + 1)..(i + b) : IsArgument(log'[k]) THEN log'[i + b][1] ELSE ""
    BY <2>2 DEF TagByte, IsArgument
  <2>5. TagByte(i, b) = IF b = 0 THEN "," ELSE
            IF \A k \in (i + 1)..(i + b) : IsArgument(log[k]) THEN log[i + b][1] ELSE ""
    BY <2>2 DEF TagByte
  <2>6. CASE \A k \in (i + 1)..(i + b) : IsArgument(log[k])
    <3>1. TagByte(i, b) = IF b = 0 THEN "," ELSE log[i + b][1]
      BY <2>5, <2>6
    <3>2. TagByte(i, b)' = IF b = 0 THEN "," ELSE log'[i + b][1]
      BY <2>3, <2>4, <2>6
    <3>3. CASE b = 0
      BY <3>1, <3>2, <3>3
    <3>4. CASE b # 0
      BY <2>1, <3>1, <3>2, <3>4
    <3> QED BY <3>3, <3>4
  <2>7. CASE ~ \A k \in (i + 1)..(i + b) : IsArgument(log[k])
    <3>1. TagByte(i, b) = IF b = 0 THEN "," ELSE ""
      BY <2>5, <2>7
    <3>2. TagByte(i, b)' = IF b = 0 THEN "," ELSE ""
      BY <2>3, <2>4, <2>7
    <3> QED BY <3>1, <3>2
  <2> QED BY <2>6, <2>7
<1>2. CASE i + b \notin 1..(N + 1)
  <2>1. i + b \notin DOMAIN log /\ i + b \notin DOMAIN log'
    BY <1>0, <1>2
  <2>2. TagByte(i, b) = IF b = 0 THEN "," ELSE ""
    BY <2>1 DEF TagByte
  <2>3. TagByte(i, b)' = IF b = 0 THEN "," ELSE ""
    BY <2>1 DEF TagByte
  <2> QED BY <2>2, <2>3
<1>3. CASE i + b = N + 1
  <2>1. i + b \notin DOMAIN log /\ b # 0
    BY <1>0, <1>3, i \in 1..N DEF N
  <2>2. \E k \in (i + 1)..(i + b) : ~IsArgument(log'[k])
    <3>1. CASE ~IsArgument(c)
      <4>1. N + 1 \in (i + 1)..(i + b)
        BY <1>0, <1>3, i \in 1..N DEF N
      <4> QED BY <1>0, <3>1, <4>1
    <3>2. CASE \E k \in (i + 1)..N : ~IsArgument(log[k])
      <4>1. PICK k \in (i + 1)..N : ~IsArgument(log[k])
        BY <3>2
      <4>2. k \in (i + 1)..(i + b) /\ k \in 1..N
        BY <1>0, <1>3
      <4> QED BY <1>0, <4>1, <4>2
    <3> QED BY <1>3, <3>1, <3>2 DEF N
  <2>3. TagByte(i, b)' = ""
    BY <2>1, <2>2 DEF TagByte, IsArgument
  <2> QED BY <2>1, <2>3 DEF TagByte
<1>4. i + b \in 1..N \/ i + b \notin 1..(N + 1) \/ i + b = N + 1
  BY <1>0, i \in 1..N DEF N
<1> QED BY <1>1, <1>2, <1>3, <1>4

\* A call whose words, and whose tags, are left alone stays intact.
LEMMA IntactStays ==
    ASSUME log \in Seq(Calls), NEW c \in Calls, log' = Append(log, c),
           NEW i \in 1..Len(log), Intact(i),
           \A p \in Start(i)..(Predicted[i] - 1) : mem'[p] = mem[p],
           \/ ~IsArgument(c)
           \/ \E k \in (i + 1)..Len(log) : ~IsArgument(log[k])
           \/ log[i][1] # "message"
    PROVE  Intact(i)'
<1> DEFINE S == Start(i)
<1>0. /\ log'[i] = log[i] /\ log[i] \in Calls /\ S \in Nat
      /\ Predicted[i] = S + SizeOf(log[i]) /\ Start(i)' = S
  BY LogGrows, Places
<1> HIDE DEF S
<1>1. CASE log[i][1] = "bundle"
  <2>1. SizeOf(log[i]) = 4 /\ Len(BundleWords(log[i][2])) = 4
    BY <1>0, <1>1, CallProperties DEF BundleWords
  <2>2. \A k \in 1..4 : S + k - 1 \in Start(i)..(Predicted[i] - 1)
    BY <1>0, <2>1 DEF S
  <2>3. \A k \in 1..4 : mem[S + k - 1] = BundleWords(log[i][2])[k]
    BY <1>1, <2>1 DEF Intact, Holds, S
  <2>4. \A k \in 1..4 : mem'[S + k - 1] = BundleWords(log[i][2])[k]
    BY <2>2, <2>3
  <2>5. Holds(Start(i), BundleWords(log[i][2]))'
    BY <1>0, <2>1, <2>4 DEF Holds, BundleWords
  <2> QED BY <1>0, <1>1, <2>5 DEF Intact, IsArgument
<1>2. CASE log[i][1] = "message"
  <2> DEFINE W == WordsOf[log[i][2]]
             n == log[i][3]
             T == WordsFor(TagBytes(n))
  <2>1. W \in Nat /\ W >= 1 /\ n \in Nat /\ T \in Nat /\ SizeOf(log[i]) = W + T
    BY <1>0, <1>2, CallProperties
  <2>2. Len(StringWords(log[i][2])) = W
    BY <2>1 DEF StringWords
  <2>3. Holds(S, StringWords(log[i][2])) /\ HoldsTags(S + W, i)
    BY <1>2 DEF Intact, S
  <2> HIDE DEF W, T, n
  <2>4. Holds(Start(i), StringWords(log[i][2]))'
    <3>1. \A k \in 1..W : S + k - 1 \in Start(i)..(Predicted[i] - 1)
      BY <1>0, <2>1 DEF S
    <3>2. \A k \in 1..W : mem'[S + k - 1] = StringWords(log[i][2])[k]
      BY <2>2, <2>3, <3>1 DEF Holds
    <3> QED BY <1>0, <2>2, <3>2 DEF Holds, StringWords
  <2>5. HoldsTags(Start(i) + WordsOf[log[i][2]], i)'
    <3> SUFFICES ASSUME NEW k \in 0..(T - 1)
                 PROVE  mem'[S + W + k] = <<"tags", [d \in 1..4 |-> TagByte(i, 4 * k + d - 1)']>>
      BY <1>0 DEF HoldsTags, T, n, W
    <3>1. \A d \in 1..4 : TagByte(i, 4 * k + d - 1)' = TagByte(i, 4 * k + d - 1)
      <4>1. \A d \in 1..4 : 4 * k + d - 1 \in Nat
        BY <2>1
      <4> QED BY <1>2, <4>1, TagsStay
    <3>2. S + W + k \in Start(i)..(Predicted[i] - 1)
      BY <1>0, <2>1 DEF S
    <3>3. mem[S + W + k] = <<"tags", [d \in 1..4 |-> TagByte(i, 4 * k + d - 1)]>>
      BY <2>3 DEF HoldsTags, T, n
    <3> QED BY <3>1, <3>2, <3>3
  <2> QED BY <1>0, <1>2, <2>4, <2>5 DEF Intact, IsArgument
<1>3. CASE IsArgument(log[i])
  <2>1. Len(log[i][2]) = SizeOf(log[i]) /\ SizeOf(log[i]) \in Nat
    BY <1>0, <1>3, CallProperties
  <2>2. Holds(S, log[i][2])
    BY <1>3 DEF Intact, IsArgument, S
  <2>3. \A k \in 1..Len(log[i][2]) : S + k - 1 \in Start(i)..(Predicted[i] - 1)
    BY <1>0, <2>1, SMTT(30) DEF S
  <2>4. \A k \in 1..Len(log[i][2]) : mem'[S + k - 1] = log[i][2][k]
    BY <2>2, <2>3 DEF Holds
  <2>5. Holds(Start(i), log[i][2])'
    BY <1>0, <2>4 DEF Holds
  <2> QED BY <1>0, <1>3, <2>5 DEF Intact, IsArgument
<1>4. CASE log[i][1] # "bundle" /\ log[i][1] # "message" /\ ~IsArgument(log[i])
  BY <1>0, <1>4 DEF Intact, IsArgument
<1> QED BY <1>1, <1>2, <1>3, <1>4

\* What holds up to a call and of the next one.
LEMMA UpToLast ==
    ASSUME NEW i \in Nat, NEW n \in Nat, i <= n, NEW k \in i..(n + 1)
    PROVE  k = n + 1 \/ (k \in i..n /\ k \in 0..n)
OBVIOUS

\* What overwriting does to a buffer that has room for it.
LEMMA OverwriteProperties ==
    ASSUME cap \in Nat, NEW m, DOMAIN m = 0..(cap - 1), NEW p \in Nat, NEW ws,
           Len(ws) \in Nat, p + Len(ws) <= cap
    PROVE  /\ \A k \in 1..Len(ws) : Overwrite(m, p, ws)[p + k - 1] = ws[k]
           /\ \A i \in 0..(cap - 1) :
                i < p \/ i >= p + Len(ws) => Overwrite(m, p, ws)[i] = m[i]
<1>1. ASSUME NEW k \in 1..Len(ws) PROVE Overwrite(m, p, ws)[p + k - 1] = ws[k]
  <2>1. p + k - 1 \in DOMAIN m /\ p + k - 1 >= p /\ p + k - 1 < p + Len(ws)
        /\ (p + k - 1) - p + 1 = k
    OBVIOUS
  <2> QED BY <2>1 DEF Overwrite
<1>2. ASSUME NEW i \in 0..(cap - 1), i < p \/ i >= p + Len(ws) PROVE Overwrite(m, p, ws)[i] = m[i]
  <2>1. i \in DOMAIN m /\ ~(i >= p /\ i < p + Len(ws))
    BY <1>2
  <2> QED BY <2>1 DEF Overwrite
<1> QED BY <1>1, <1>2

\* The words of the calls do not overlap, and no size field is among them.
LEMMA Geometry ==
    ASSUME log \in Seq(Calls), NEW N, N = Len(log)
    PROVE  /\ \A i \in 1..N : Start(i) <= Predicted[i] /\ Predicted[i] <= Predicted[N]
           /\ \A i, j \in 1..N : i < j => Predicted[i] <= Start(j)
           /\ \A i \in 2..N : Opens(log[i]) =>
                /\ Start(i) - 1 = Predicted[i - 1] /\ Start(i) - 1 \in Nat
                /\ Start(i) < Predicted[i]
           /\ \A i \in 2..N, j \in 1..N :
                Opens(log[i]) => Start(i) - 1 \notin Start(j)..(Predicted[j] - 1)
           /\ \A i, j \in 2..N :
                Opens(log[i]) /\ Opens(log[j]) /\ i # j => Start(i) - 1 # Start(j) - 1
<1>0. /\ N \in Nat /\ DOMAIN log = 1..N /\ \A i \in 1..N : log[i] \in Calls
      /\ \A i \in 0..N : Predicted[i] \in Nat
      /\ \A i, j \in 0..N : i <= j => Predicted[i] <= Predicted[j]
      /\ \A i \in 1..N : /\ Start(i) = Predicted[i - 1] + Prefix(i) /\ Start(i) \in Nat
                         /\ Prefix(i) \in {0, 1}
                         /\ Predicted[i] = Start(i) + SizeOf(log[i])
  BY Places
<1>1. \A i \in 1..N : Start(i) <= Predicted[i] /\ Predicted[i] <= Predicted[N]
  <2> SUFFICES ASSUME NEW i \in 1..N PROVE Start(i) <= Predicted[i] /\ Predicted[i] <= Predicted[N]
    OBVIOUS
  <2>1. SizeOf(log[i]) \in Nat
    BY <1>0, CallProperties
  <2>2. N \in Nat /\ i \in 0..N /\ N \in 0..N /\ i <= N
    BY <1>0
  <2>3. Predicted[i] = Start(i) + SizeOf(log[i]) /\ Start(i) \in Nat
    BY <1>0
  <2>4. Predicted[i] <= Predicted[N]
    BY <1>0, <2>2
  <2> QED BY <2>1, <2>3, <2>4
<1>2. \A i, j \in 1..N : i < j => Predicted[i] <= Start(j)
  <2> SUFFICES ASSUME NEW i \in 1..N, NEW j \in 1..N, i < j PROVE Predicted[i] <= Start(j)
    OBVIOUS
  <2>1. i \in 0..N /\ j - 1 \in 0..N /\ i <= j - 1
    BY <1>0
  <2>2. Predicted[i] <= Predicted[j - 1] /\ Predicted[i] \in Nat /\ Predicted[j - 1] \in Nat
    BY <1>0, <2>1
  <2>3. Start(j) = Predicted[j - 1] + Prefix(j) /\ Prefix(j) \in {0, 1}
    BY <1>0
  <2> QED BY <2>2, <2>3
<1>3. \A i \in 2..N : Opens(log[i]) =>
        Start(i) - 1 = Predicted[i - 1] /\ Start(i) - 1 \in Nat /\ Start(i) < Predicted[i]
  <2> SUFFICES ASSUME NEW i \in 2..N, Opens(log[i])
               PROVE  Start(i) - 1 = Predicted[i - 1] /\ Start(i) - 1 \in Nat /\ Start(i) < Predicted[i]
    OBVIOUS
  <2>1. i \in 1..N /\ i > 1 /\ i - 1 \in 0..N
    BY <1>0
  <2>2. Prefix(i) = 1
    BY <2>1 DEF Prefix
  <2>3. SizeOf(log[i]) \in Nat /\ SizeOf(log[i]) >= 1
    BY <1>0, <2>1, CallProperties
  <2>4. Start(i) = Predicted[i - 1] + 1 /\ Predicted[i - 1] \in Nat
        /\ Predicted[i] = Start(i) + SizeOf(log[i])
    BY <1>0, <2>1, <2>2
  <2> QED BY <2>3, <2>4
<1>4. \A i \in 2..N, j \in 1..N : Opens(log[i]) => Start(i) - 1 \notin Start(j)..(Predicted[j] - 1)
  <2> SUFFICES ASSUME NEW i \in 2..N, NEW j \in 1..N, Opens(log[i]),
                      Start(i) - 1 \in Start(j)..(Predicted[j] - 1)
               PROVE  FALSE
    OBVIOUS
  <2>1. Start(i) - 1 = Predicted[i - 1] /\ Start(i) < Predicted[i] /\ i \in 1..N
    BY <1>0, <1>3
  <2>2. /\ Start(i) \in Nat /\ Start(j) \in Nat /\ Predicted[i] \in Nat /\ Predicted[j] \in Nat
    BY <1>0, <2>1
  <2>3. CASE j < i
    <3>1. j \in 0..N /\ i - 1 \in 0..N /\ j <= i - 1
      BY <1>0, <2>3
    <3>2. Predicted[j] <= Predicted[i - 1]
      BY <1>0, <3>1
    <3> QED BY <2>1, <2>2, <3>2
  <2>4. CASE j = i
    BY <2>1, <2>2, <2>4
  <2>5. CASE i < j
    <3>1. Predicted[i] <= Start(j)
      BY <1>2, <2>1, <2>5
    <3> QED BY <2>1, <2>2, <3>1
  <2> QED BY <1>0, <2>3, <2>4, <2>5
<1>5. ASSUME NEW i \in 2..N, NEW j \in 2..N, Opens(log[i]), Opens(log[j]), i < j
      PROVE  Start(i) - 1 < Start(j) - 1
  <2>1. i \in 1..N /\ j \in 1..N
    BY <1>0
  <2>2. Start(i) < Predicted[i] /\ Predicted[i] <= Start(j)
    BY <1>2, <1>3, <1>5, <2>1
  <2>3. Start(i) \in Nat /\ Start(j) \in Nat /\ Predicted[i] \in Nat
    BY <1>0, <2>1
  <2> QED BY <2>2, <2>3
<1>6. \A i, j \in 2..N : Opens(log[i]) /\ Opens(log[j]) /\ i # j => Start(i) - 1 # Start(j) - 1
  <2> SUFFICES ASSUME NEW i \in 2..N, NEW j \in 2..N, Opens(log[i]), Opens(log[j]), i # j
               PROVE  Start(i) - 1 # Start(j) - 1
    OBVIOUS
  <2>1. Start(i) \in Nat /\ Start(j) \in Nat
    BY <1>0
  <2>2. i < j \/ j < i
    BY <1>0
  <2> QED BY <1>5, <2>1, <2>2
<1> QED BY <1>1, <1>2, <1>3, <1>4, <1>6

\* What the next call closes: one packet at most.
LEMMA EnclosesNext ==
    ASSUME log \in Seq(Calls), NEW c \in Calls, log' = Append(log, c), NEW N, N = Len(log),
           NEW i \in 1..N
    PROVE  Encloses(i, N + 1)' <=>
               Depth'[N + 1] = Depth[i - 1] /\ \A k \in i..N : Depth[k] > Depth[i - 1]
<1>1. N \in Nat /\ \A k \in 0..N : Depth'[k] = Depth[k]
  BY LogGrows
<1>2. i - 1 \in 0..N /\ N + 1 - 1 = N /\ i < N + 1 /\ \A k \in i..N : k \in 0..N
  BY <1>1
<1>3. Depth'[i - 1] = Depth[i - 1] /\ \A k \in i..N : Depth'[k] = Depth[k]
  BY <1>1, <1>2
<1>4. Encloses(i, N + 1)' <=>
        Depth'[N + 1] = Depth'[i - 1] /\ \A k \in i..N : Depth'[k] > Depth'[i - 1]
  BY <1>2 DEF Encloses
<1> QED BY <1>3, <1>4

\* What a call closes was the innermost packet.
LEMMA OneIsClosed ==
    ASSUME log \in Seq(Calls), NEW c \in Calls, log' = Append(log, c), NEW N, N = Len(log),
           NEW i \in 1..N, NEW j \in 1..N, Encloses(i, N + 1)', Encloses(j, N + 1)'
    PROVE  i = j
<1>0. N \in Nat /\ \A k \in 0..N : Depth[k] \in Int
  BY Places
<1>1. /\ Depth[i - 1] = Depth[j - 1]
      /\ \A k \in i..N : Depth[k] > Depth[i - 1]
      /\ \A k \in j..N : Depth[k] > Depth[j - 1]
  BY EnclosesNext
<1>2. Depth[i - 1] \in Int /\ Depth[j - 1] \in Int
  <2>1. i - 1 \in 0..N /\ j - 1 \in 0..N
    BY <1>0
  <2> QED BY <1>0, <2>1
<1>3. CASE i < j
  <2>1. j - 1 \in i..N
    BY <1>0, <1>3
  <2> QED BY <1>1, <1>2, <2>1
<1>4. CASE j < i
  <2>1. i - 1 \in j..N
    BY <1>0, <1>4
  <2> QED BY <1>1, <1>2, <2>1
<1> QED BY <1>0, <1>3, <1>4

-----------------------------------------------------------------------------
(* A call more: what it takes to preserve the parts of the invariant *)

\* One call more, laid out where it belongs.
LEMMA LaidOutGrows ==
    ASSUME log \in Seq(Calls), LaidOut, ~threw,
           NEW c \in Calls, log' = Append(log, c), NEW N, N = Len(log),
           \A i \in 1..(N + 1) : Intact(i)',
           \A i \in 2..N, j \in 1..N : Opens(log[i]) /\ Closes(log[j]) /\ Encloses(i, j) =>
                mem'[Start(i) - 1] = mem[Start(i) - 1],
           \A i \in 2..N : Closes(c) /\ Opens(log[i]) /\ Encloses(i, N + 1)' =>
                mem'[Start(i) - 1] = <<"int32", 4 * (Predicted[N] - Start(i))>>
    PROVE  LaidOut'
<1>0. /\ N \in Nat /\ DOMAIN log = 1..N /\ DOMAIN log' = 1..(N + 1) /\ log'[N + 1] = c
      /\ \A i \in 1..N : log'[i] = log[i]
      /\ \A i \in 0..N : Predicted'[i] = Predicted[i]
      /\ \A i \in 1..N : Start(i)' = Start(i)
      /\ Start(N + 1)' = Predicted[N] + (IF Opens(c) /\ N > 0 THEN 1 ELSE 0)
      /\ Predicted'[N + 1] = Start(N + 1)' + SizeOf(c)
  BY LogGrows
<1>1. /\ \A i \in 1..N : Start(i) \in Nat
      /\ \A i \in 0..N : Predicted[i] \in Nat
  BY Places
<1>2. ASSUME NEW i \in DOMAIN log' \ {1}, Opens(log'[i]),
             NEW j \in DOMAIN log', Closes(log'[j]), Encloses(i, j)'
      PROVE  mem'[Start(i)' - 1] = <<"int32", 4 * (Predicted'[j] - Start(i)')>>
  <2>1. i < j /\ i \in 1..(N + 1) /\ j \in 1..(N + 1) /\ i # 1
    BY <1>0, <1>2 DEF Encloses
  <2>2. i \in 2..N /\ i \in 1..N /\ Start(i)' = Start(i) /\ Opens(log[i])
    <3>1. i \in 2..N /\ i \in 1..N
      BY <1>0, <2>1
    <3> QED BY <1>0, <1>2, <3>1
  <2>3. CASE j \in 1..N
    <3>1. Encloses(i, j) /\ Closes(log[j]) /\ Predicted'[j] = Predicted[j] /\ j \in DOMAIN log
      BY <1>0, <1>2, <2>2, <2>3, EnclosingStays
    <3>2. i \in DOMAIN log \ {1}
      BY <1>0, <2>1, <2>2
    <3>3. mem[Start(i) - 1] = <<"int32", 4 * (Predicted[j] - Start(i))>>
      BY <2>2, <3>1, <3>2 DEF LaidOut
    <3> QED BY <2>2, <2>3, <3>1, <3>3
  <2>4. CASE j = N + 1
    <3>1. Closes(c)
      BY <1>0, <1>2, <2>4
    <3>2. SizeOf(c) = 0 /\ ~Opens(c)
      BY <3>1, CallProperties
    <3>3. Predicted'[N + 1] = Predicted[N]
      BY <1>0, <1>1, <3>2
    <3>4. mem'[Start(i) - 1] = <<"int32", 4 * (Predicted[N] - Start(i))>>
      BY <1>2, <2>2, <2>4, <3>1
    <3> QED BY <2>2, <2>4, <3>3, <3>4
  <2> QED BY <1>0, <2>1, <2>3, <2>4
<1> QED BY <1>0, <1>2 DEF LaidOut, Opens, Closes

\* One call more, where it may stand.
LEMMA GrammarGrows ==
    ASSUME GrammarInv, NEW c \in Calls, log' = Append(log, c),
           (IsArgument(c) \/ c[1] = "close") <=> inMessage, inMessage' <=> Inside(c)
    PROVE  GrammarInv'
<1> DEFINE N == Len(log)
<1>0. /\ N \in Nat /\ DOMAIN log = 1..N /\ DOMAIN log' = 1..(N + 1) /\ log'[N + 1] = c
      /\ log' \in Seq(Calls) /\ Len(log') = N + 1
      /\ \A i \in 1..N : log'[i] = log[i]
  BY LogGrows DEF GrammarInv
<1> HIDE DEF N
<1>1. ASSUME NEW i \in 1..(N + 1)
      PROVE  (IsArgument(log'[i]) \/ log'[i][1] = "close") <=> (i > 1 /\ Inside(log'[i - 1]))
  <2>1. CASE i \in 1..N
    <3>1. log'[i] = log[i] /\ (i > 1 => log'[i - 1] = log[i - 1]) /\ i \in DOMAIN log
      BY <1>0, <2>1
    <3> QED BY <3>1 DEF GrammarInv
  <2>2. CASE i = N + 1
    <3>1. inMessage <=> log # <<>> /\ Inside(log[N])
      BY DEF GrammarInv, N
    <3>2. i > 1 <=> log # <<>>
      BY <1>0, <2>2 DEF N, GrammarInv
    <3>3. i > 1 => log'[i - 1] = log[N]
      BY <1>0, <2>2
    <3> QED BY <1>0, <2>2, <3>1, <3>2, <3>3
  <2> QED BY <1>0, <2>1, <2>2
<1>2. log' # <<>> /\ log'[Len(log')] = c
  BY <1>0
<1> QED BY <1>0, <1>1, <1>2 DEF GrammarInv, IsArgument, Inside

\* One call more, at its depth.
LEMMA DepthGrows ==
    ASSUME log \in Seq(Calls), DepthInv, NEW c \in Calls, log' = Append(log, c),
           NEW N, N = Len(log), N > 0 => Depth[N] >= 1,
           Depth'[N + 1] = bundles' + (IF inMessage' THEN 1 ELSE 0)
    PROVE  DepthInv'
<1>0. /\ N \in Nat /\ Len(log') = N + 1 /\ \A i \in 0..N : Depth'[i] = Depth[i]
  BY LogGrows
<1>1. ASSUME NEW j \in 1..N PROVE Depth'[j] >= 1
  <2>1. j \in 0..N /\ (j = N \/ j \in 1..(N - 1)) /\ (j = N => N > 0)
    BY <1>0
  <2> QED BY <1>0, <2>1 DEF DepthInv
<1>2. Len(log') - 1 = N
  BY <1>0
<1> QED BY <1>0, <1>1, <1>2 DEF DepthInv

\* One call more, inside the bundles that are open.
LEMMA OpenGrows ==
    ASSUME log \in Seq(Calls), OpenInv, ~threw, NEW c \in Calls, log' = Append(log, c),
           NEW N, N = Len(log), chain \in Seq(Nat), chain' \in Seq(Nat),
           Len(chain') > 0 => Depth'[N + 1] >= Len(chain') + 1,
           \A d \in 1..Len(chain') :
                \/ d <= Len(chain) /\ chain'[d] = chain[d]
                \/ c[1] = "bundle" /\ N > 0 /\ chain'[d] = Predicted[N] /\ Depth'[N + 1] = d + 1
    PROVE  OpenInv'
<1>0. /\ N \in Nat /\ DOMAIN log = 1..N /\ DOMAIN log' = 1..(N + 1) /\ log'[N + 1] = c
      /\ Len(log') = N + 1
      /\ \A i \in 1..N : log'[i] = log[i]
      /\ \A i \in 0..N : Predicted'[i] = Predicted[i] /\ Depth'[i] = Depth[i]
      /\ \A i \in 1..N : Start(i)' = Start(i)
      /\ Start(N + 1)' = Predicted[N] + (IF Opens(c) /\ N > 0 THEN 1 ELSE 0)
      /\ Depth'[N + 1] = Depth[N] + (IF Opens(c) THEN 1 ELSE IF Closes(c) THEN -1 ELSE 0)
  BY LogGrows
<1>1. \A i \in 0..N : Predicted[i] \in Nat /\ Depth[i] \in Int
  BY Places
<1>6. Len(chain) \in Nat /\ Len(chain') \in Nat /\ N \in Nat
  BY <1>0
<1>2. SUFFICES ASSUME NEW d \in 1..Len(chain')
               PROVE  \E i \in DOMAIN log' \ {1} :
                        /\ log'[i][1] = "bundle" /\ chain'[d] = Start(i)' - 1
                        /\ Depth'[i] = d + 1 /\ \A k \in i..Len(log') : Depth'[k] >= d + 1
  BY DEF OpenInv
<1>3. d \in Nat /\ Depth'[N + 1] \in Int /\ Depth'[N + 1] >= d + 1
  <2>1. Depth[N] \in Int /\ d \in Nat /\ d <= Len(chain')
    BY <1>1, <1>6
  <2>2. Depth'[N + 1] \in Int
    <3> DEFINE l == IF Opens(c) THEN 1 ELSE IF Closes(c) THEN -1 ELSE 0
    <3>1. l \in Int
      OBVIOUS
    <3>2. Depth'[N + 1] = Depth[N] + l
      BY <1>0
    <3> HIDE DEF l
    <3> QED BY <2>1, <3>1, <3>2
  <2> QED BY <1>6, <2>1, <2>2
<1>4. CASE d <= Len(chain) /\ chain'[d] = chain[d]
  <2>1. d \in 1..Len(chain)
    BY <1>6, <1>4
  <2>2. PICK i \in DOMAIN log \ {1} :
            /\ log[i][1] = "bundle" /\ chain[d] = Start(i) - 1
            /\ Depth[i] = d + 1 /\ \A k \in i..Len(log) : Depth[k] >= d + 1
    BY <2>1 DEF OpenInv
  <2>3. i \in 1..N /\ i \in DOMAIN log' \ {1} /\ i \in 0..N
    BY <1>0
  <2>4. log'[i] = log[i] /\ Start(i)' = Start(i) /\ Depth'[i] = Depth[i]
    BY <1>0, <2>3
  <2>5. ASSUME NEW k \in i..(N + 1) PROVE Depth'[k] >= d + 1
    <3>1. k = N + 1 \/ (k \in i..N /\ k \in 0..N)
      <4>1. i \in Nat /\ i <= N
        BY <2>3
      <4> QED BY <1>6, <4>1, UpToLast
    <3> QED BY <1>0, <1>3, <2>2, <3>1
  <2> QED BY <1>0, <1>4, <2>2, <2>3, <2>4, <2>5, ZenonT(30)
<1>5. CASE c[1] = "bundle" /\ N > 0 /\ chain'[d] = Predicted[N] /\ Depth'[N + 1] = d + 1
  <2>1. Start(N + 1)' - 1 = Predicted[N]
    <3>1. Opens(c) /\ N \in 0..N
      BY <1>0, <1>5 DEF Opens
    <3> QED BY <1>0, <1>1, <1>5, <3>1
  <2>2. N + 1 \in DOMAIN log' \ {1} /\ log'[N + 1][1] = "bundle"
    BY <1>0, <1>5
  <2>3. \A k \in (N + 1)..Len(log') : k = N + 1
    BY <1>0
  <2> QED BY <1>3, <1>5, <2>1, <2>2, <2>3
<1> QED BY <1>2, <1>4, <1>5

\* One call more, of messages with as many arguments as announced.
LEMMA CountsGrow ==
    ASSUME log \in Seq(Calls), CountsInv, ~threw, ~miscounted, NEW c \in Calls,
           log' = Append(log, c), NEW N, N = Len(log),
           \A i \in 1..N : /\ c[1] = "close" /\ log[i][1] = "message"
                           /\ \A k \in (i + 1)..N : IsArgument(log[k])
                           => N - i = log[i][3]
    PROVE  CountsInv'
<1>0. /\ N \in Nat /\ DOMAIN log = 1..N /\ DOMAIN log' = 1..(N + 1) /\ log'[N + 1] = c
      /\ \A i \in 1..N : log'[i] = log[i]
  BY LogGrows
<1> SUFFICES ASSUME ~threw', ~miscounted' PROVE CountsInv'
  BY DEF CountsInv
<1>1. ASSUME NEW i \in DOMAIN log', NEW j \in DOMAIN log',
             log'[i][1] = "message", log'[j][1] = "close", i < j,
             \A k \in (i + 1)..(j - 1) : IsArgument(log'[k])
      PROVE  j - i - 1 = log'[i][3]
  <2>1. i \in 1..N /\ \A k \in (i + 1)..(j - 1) : k \in 1..N
    BY <1>0, <1>1
  <2>2. log'[i] = log[i] /\ \A k \in (i + 1)..(j - 1) : IsArgument(log[k])
    BY <1>0, <1>1, <2>1
  <2>3. CASE j \in 1..N
    <3>1. i \in DOMAIN log /\ j \in DOMAIN log /\ log[j][1] = "close"
      BY <1>0, <1>1, <2>1, <2>3
    <3> QED BY <1>1, <2>2, <3>1 DEF CountsInv
  <2>4. CASE j = N + 1
    <3>1. c[1] = "close" /\ j - 1 = N /\ j - i - 1 = N - i
      BY <1>0, <1>1, <2>1, <2>4
    <3> QED BY <1>1, <2>1, <2>2, <3>1
  <2> QED BY <1>0, <2>3, <2>4
<1>2. \A i, j \in DOMAIN log' :
        /\ log'[i][1] = "message" /\ log'[j][1] = "close" /\ i < j
        /\ \A k \in (i + 1)..(j - 1) : IsArgument(log'[k])
        => j - i - 1 = log'[i][3]
  BY <1>1
<1> QED BY <1>2 DEF CountsInv, IsArgument

\* What the invariant says of a state.
LEMMA LayoutFacts ==
    ASSUME LayoutInv, NEW N, N = Len(log)
    PROVE  /\ N \in Nat /\ log \in Seq(Calls) /\ DOMAIN log = 1..N
           /\ cap \in Nat /\ pos \in Nat /\ pos <= cap /\ DOMAIN mem = 0..(cap - 1)
           /\ inBundle \in Nat /\ bundles \in Nat
           /\ chain \in Seq(Nat) /\ Len(chain) = IF inBundle = 0 THEN 0 ELSE inBundle - 1
           /\ Depth[N] = bundles + (IF inMessage THEN 1 ELSE 0)
           /\ ~threw => pos = Predicted[N] /\ inBundle = bundles
           /\ N > 0 => Opens(log[1]) /\ Depth[1] = 1 /\ Predicted[N] >= 1
<1>1. /\ cap \in Nat /\ pos \in Nat /\ pos <= cap /\ DOMAIN mem = 0..(cap - 1)
      /\ inBundle \in Nat /\ bundles \in 0..inBundle
      /\ chain \in Seq(Nat)
  BY StateFacts DEF LayoutInv
<1>2. bundles \in Nat
  BY <1>1
<1>3. log \in Seq(Calls) /\ Depth[N] = bundles + (IF inMessage THEN 1 ELSE 0)
  BY DEF LayoutInv, GrammarInv, DepthInv
<1>4. Len(chain) = IF inBundle = 0 THEN 0 ELSE inBundle - 1
  BY DEF LayoutInv, IInv, ListIsStack
<1>5. ~threw => pos = Predicted[N] /\ inBundle = bundles
  BY DEF LayoutInv, IInv, ListIsStack, SizesPredicted
<1>6. /\ N \in Nat /\ DOMAIN log = 1..N /\ \A i \in 1..N : log[i] \in Calls
      /\ Predicted[0] = 0 /\ Depth[0] = 0 /\ \A i \in 0..N : Predicted[i] \in Nat
      /\ \A i \in 1..N :
           /\ Start(i) \in Nat /\ Predicted[i] = Start(i) + SizeOf(log[i])
           /\ Depth[i] = Depth[i - 1] + (IF Opens(log[i]) THEN 1 ELSE IF Closes(log[i]) THEN -1 ELSE 0)
      /\ \A i, j \in 0..N : i <= j => Predicted[i] <= Predicted[j]
  BY <1>3, Places
<1>7. ASSUME N > 0 PROVE Opens(log[1]) /\ Depth[1] = 1 /\ Predicted[N] >= 1
  <2>1. 1 \in DOMAIN log /\ 1 \in 1..N /\ log[1] \in Calls /\ 1 - 1 = 0
    BY <1>6, <1>7
  <2>2. Depth[1] = IF Opens(log[1]) THEN 1 ELSE IF Closes(log[1]) THEN -1 ELSE 0
    <3>1. Depth[1] = 0 + (IF Opens(log[1]) THEN 1 ELSE IF Closes(log[1]) THEN -1 ELSE 0)
      BY <1>6, <2>1
    <3> QED BY <3>1
  <2>3. ~IsArgument(log[1])
    BY <2>1 DEF LayoutInv, GrammarInv
  <2>4. Depth[1] >= 0
    <3>1. CASE N = 1
      BY <1>2, <1>3, <3>1
    <3>2. CASE N > 1
      <4>1. 1 \in 1..(Len(log) - 1)
        BY <1>6, <3>2
      <4>2. Depth[1] >= 1
        BY <4>1 DEF LayoutInv, DepthInv
      <4> QED BY <2>2, <4>2
    <3> QED BY <1>6, <1>7, <3>1, <3>2
  <2>5. Opens(log[1])
    <3>1. Opens(log[1]) \/ Closes(log[1])
      BY <2>1, <2>3, CallProperties
    <3>2. CASE ~Opens(log[1])
      <4>1. Depth[1] = -1
        BY <2>2, <3>1, <3>2
      <4> QED BY <2>4, <4>1
    <3> QED BY <3>2
  <2>6. SizeOf(log[1]) >= 1 /\ SizeOf(log[1]) \in Nat
    BY <2>1, <2>5, CallProperties
  <2>7. Predicted[1] >= 1
    <3>1. Start(1) \in Nat /\ Predicted[1] = Start(1) + SizeOf(log[1])
      BY <1>6, <2>1
    <3> QED BY <2>6, <3>1
  <2>8. Predicted[1] <= Predicted[N] /\ Predicted[1] \in Nat /\ Predicted[N] \in Nat
    <3>1. 1 \in 0..N /\ N \in 0..N /\ 1 <= N
      BY <1>6, <1>7
    <3> QED BY <1>6, <3>1
  <2> QED BY <2>2, <2>5, <2>7, <2>8
<1> QED BY <1>1, <1>2, <1>3, <1>4, <1>5, <1>6, <1>7

\* A call that throws leaves the log, and nothing is said of the packet.
LEMMA ThrowLayout ==
    ASSUME LayoutInv, IInv', Throw
    PROVE  LayoutInv'
<1>1. log' = log /\ inMessage' = inMessage /\ bundles' = bundles /\ threw'
  BY DEF Throw
<1>2. GrammarInv'
  BY <1>1 DEF LayoutInv, GrammarInv, IsArgument, Inside
<1>3. Depth' = Depth
  BY <1>1 DEF Depth, Opens, Closes
<1>4. DepthInv'
  BY <1>1, <1>3 DEF LayoutInv, DepthInv
<1> QED BY <1>1, <1>2, <1>4
        DEF LayoutInv, OpenInv, OpenMessageInv, CountsInv, SizesPredicted, LaidOut

\* A call that writes behind what is written leaves that as it is.
LEMMA WrittenStays ==
    ASSUME LayoutInv, ~threw, NEW c \in Calls, log' = Append(log, c), ~IsArgument(c),
           NEW N, N = Len(log), \A p \in 0..(pos - 1) : mem'[p] = mem[p]
    PROVE  /\ \A i \in 1..N : Intact(i)'
           /\ \A i \in 2..N : Opens(log[i]) => mem'[Start(i) - 1] = mem[Start(i) - 1]
<1>1. /\ N \in Nat /\ log \in Seq(Calls) /\ DOMAIN log = 1..N /\ pos = Predicted[N]
      /\ pos \in Nat
  BY LayoutFacts
<1>2. /\ \A i \in 1..N : Start(i) <= Predicted[i] /\ Predicted[i] <= Predicted[N]
      /\ \A i \in 2..N : Opens(log[i]) => Start(i) - 1 \in Nat /\ Start(i) < Predicted[i]
  BY <1>1, Geometry
<1>3. /\ \A i \in 1..N : Start(i) \in Nat
      /\ \A i \in 0..N : Predicted[i] \in Nat
  BY <1>1, Places
<1>4. ASSUME NEW i \in 1..N PROVE Intact(i)'
  <2>1. Intact(i)
    BY <1>1 DEF LayoutInv, LaidOut
  <2>2. \A p \in Start(i)..(Predicted[i] - 1) : mem'[p] = mem[p]
    <3>1. Start(i) \in Nat /\ Predicted[i] \in Nat /\ Predicted[i] <= pos
      <4>1. i \in 0..N
        BY <1>1
      <4> QED BY <1>1, <1>2, <1>3, <4>1
    <3>2. \A p \in Start(i)..(Predicted[i] - 1) : p \in 0..(pos - 1)
      BY <1>1, <3>1
    <3> QED BY <3>2
  <2> QED BY <1>1, <2>1, <2>2, IntactStays
<1>5. ASSUME NEW i \in 2..N, Opens(log[i]) PROVE mem'[Start(i) - 1] = mem[Start(i) - 1]
  <2>1. i \in 1..N /\ i \in 0..N
    BY <1>1
  <2>2. Start(i) - 1 \in Nat /\ Start(i) < Predicted[i] /\ Predicted[i] <= pos
        /\ Start(i) \in Nat /\ Predicted[i] \in Nat
    BY <1>1, <1>2, <1>3, <1>5, <2>1
  <2>3. Start(i) - 1 \in 0..(pos - 1)
    BY <1>1, <2>2
  <2> QED BY <2>3
<1> QED BY <1>4, <1>5

\* A field and a header, one behind the other.
LEMMA FieldAndWords ==
    ASSUME NEW x, NEW n \in Nat, NEW ws, ws = [k \in 1..n |-> ws[k]]
    PROVE  /\ Len(<<x>> \o ws) = 1 + n
           /\ \A k \in 1..n : (<<x>> \o ws)[k + 1] = ws[k]
           /\ (<<x>> \o ws)[1] = x
<1> DEFINE S == {x} \cup {ws[k] : k \in 1..n}
<1>1. \A k \in 1..n : ws[k] \in S
  OBVIOUS
<1>2. x \in S
  OBVIOUS
<1> HIDE DEF S
<1>3. ws \in Seq(S) /\ Len(ws) = n
  BY <1>1, FunctionIsSequence
<1>4. <<x>> \in Seq(S) /\ Len(<<x>>) = 1
  BY <1>2
<1> DEFINE s == <<x>>
<1>5. s \in Seq(S) /\ Len(s) = 1 /\ s[1] = x
  BY <1>4
<1> HIDE DEF s
<1>6. Len(s \o ws) = 1 + n /\ \A k \in 1..(1 + n) : (s \o ws)[k] = IF k <= 1 THEN s[k] ELSE ws[k - 1]
  <2>1. /\ Len(s \o ws) = Len(s) + Len(ws)
        /\ \A k \in 1..(Len(s) + Len(ws)) :
              (s \o ws)[k] = IF k <= Len(s) THEN s[k] ELSE ws[k - Len(s)]
    BY <1>3, <1>5, ConcatProperties
  <2> QED BY <1>3, <1>5, <2>1
<1>7. \A k \in 1..n : (s \o ws)[k + 1] = ws[k]
  <2> SUFFICES ASSUME NEW k \in 1..n PROVE (s \o ws)[k + 1] = ws[k]
    OBVIOUS
  <2>1. k + 1 \in 1..(1 + n) /\ ~(k + 1 <= 1) /\ (k + 1) - 1 = k
    OBVIOUS
  <2> QED BY <1>6, <2>1
<1>8. (s \o ws)[1] = x
  <2>1. 1 \in 1..(1 + n) /\ 1 <= 1
    OBVIOUS
  <2> QED BY <1>5, <1>6, <2>1
<1> QED BY <1>6, <1>7, <1>8 DEF s

\* All of a sequence.
LEMMA WholeSequence ==
    ASSUME NEW n \in Nat, NEW ws, ws = [k \in 1..n |-> ws[k]]
    PROVE  SubSeq(ws, 1, n) = ws /\ Len(ws) = n
<1>1. SubSeq(ws, 1, n) = [k \in 1..n |-> ws[k]]
  <2> DEFINE S == {ws[k] : k \in 1..n}
  <2>1. \A k \in 1..n : ws[k] \in S
    OBVIOUS
  <2> HIDE DEF S
  <2>2. ws \in Seq(S) /\ Len(ws) = n
    BY <2>1, FunctionIsSequence
  <2>3. SubSeq(ws, 1, n) \in Seq(S) /\ Len(SubSeq(ws, 1, n)) = n
        /\ \A k \in 1..n : SubSeq(ws, 1, n)[k] = ws[k]
    BY <2>2, SubSeqProperties
  <2> QED BY <2>3
<1>2. Len(ws) = n
  <2>1. Len([k \in 1..n |-> ws[k]]) = n
    OBVIOUS
  <2> QED BY <2>1
<1> QED BY <1>1, <1>2

\* openBundle preserves the invariant of the layout.
LEMMA OpenBundleLayout ==
    ASSUME LayoutInv, NEW time \in Times, OpenBundle(time)
    PROVE  LayoutInv'
<1> DEFINE nested == inBundle > 0
           start  == IF nested THEN pos + 1 ELSE pos
           n      == Fitting(4, {0, 2}, start)
           field  == IF nested THEN <<<<"offset", OuterOffset>>>> ELSE <<>>
           head   == BundleWords(time)
           words  == field \o SubSeq(head, 1, n)
           c      == <<"bundle", time>>
<1>0. IInv'
  BY OpenBundleStep DEF LayoutInv
<1>1. CASE Throw
  BY <1>0, <1>1, ThrowLayout
<1>2. CASE ~Throw
  <2>1. /\ ~threw /\ ~inMessage
        /\ IF nested THEN start <= cap ELSE pos = 0
        /\ n = 4
        /\ mem' = Overwrite(mem, pos, words)
        /\ pos' = start + 4
        /\ inBundle' = inBundle + 1
        /\ chain' = (IF nested THEN Append(chain, pos) ELSE chain)
        /\ bundles' = bundles + 1
        /\ log' = Append(log, c)
        /\ UNCHANGED <<cap, inMessage, threw, miscounted>>
    <3>1. /\ ~threw /\ ~inMessage
          /\ IF nested THEN start <= cap ELSE pos = 0
          /\ mem' = Overwrite(mem, pos, words)
          /\ pos' = start + n
          /\ inBundle' = inBundle + 1
          /\ chain' = (IF nested THEN Append(chain, pos) ELSE chain)
          /\ cap' = cap
          /\ IF n = 4
             THEN /\ bundles' = bundles + 1
                  /\ log' = Append(log, c)
                  /\ UNCHANGED <<inMessage, threw, miscounted>>
             ELSE Throw
      BY <1>2 DEF OpenBundle, MayWrite
    <3> HIDE DEF n, words, start
    <3>2. n = 4
      BY <1>2, <3>1
    <3> QED BY <3>1, <3>2
  <2>0. PICK N : N = Len(log)
    OBVIOUS
  <2>2. /\ N \in Nat /\ log \in Seq(Calls) /\ DOMAIN log = 1..N
        /\ cap \in Nat /\ pos \in Nat /\ pos <= cap /\ DOMAIN mem = 0..(cap - 1)
        /\ inBundle \in Nat /\ bundles = inBundle /\ pos = Predicted[N]
        /\ chain \in Seq(Nat) /\ Len(chain) = IF inBundle = 0 THEN 0 ELSE inBundle - 1
        /\ Depth[N] = bundles /\ (N > 0 => pos >= 1)
    <3>1. ~threw /\ ~inMessage
      BY <2>1
    <3> HIDE DEF n, words, start, c, field, nested
    <3> QED BY <2>0, <3>1, LayoutFacts
  <2>3. c \in Calls /\ Opens(c) /\ ~Closes(c) /\ ~IsArgument(c) /\ SizeOf(c) = 4
        /\ c[1] = "bundle" /\ ~Inside(c)
    BY DEF Calls, Opens, Closes, IsArgument, SizeOf, Inside
  <2>4. nested <=> N > 0
    <3>1. Depth[0] = 0
      BY <2>2, Places
    <3> HIDE DEF n, words, start, c, field
    <3>2. bundles > 0 => N # 0
      BY <2>2, <3>1
    <3>3. N > 0 => pos # 0
      BY <2>2
    <3> QED BY <2>1, <2>2, <3>2, <3>3
  <2>5. /\ DOMAIN log' = 1..(N + 1) /\ Len(log') = N + 1 /\ log'[N + 1] = c
        /\ Start(N + 1)' = Predicted[N] + (IF Opens(c) /\ N > 0 THEN 1 ELSE 0)
        /\ Predicted'[N + 1] = Start(N + 1)' + SizeOf(c)
        /\ Depth'[N + 1] = Depth[N] + (IF Opens(c) THEN 1 ELSE IF Closes(c) THEN -1 ELSE 0)
    <3> HIDE DEF c
    <3> QED BY <2>0, <2>1, <2>2, <2>3, LogGrows
  <2>6. Start(N + 1)' = start /\ Predicted'[N + 1] = pos' /\ Depth'[N + 1] = bundles'
        /\ start \in Nat /\ start >= pos
    <3>1. Start(N + 1)' = start
      BY <2>2, <2>3, <2>4, <2>5
    <3>2. start \in Nat /\ start >= pos
      BY <2>2
    <3> HIDE DEF start
    <3>3. Predicted'[N + 1] = pos'
      BY <2>1, <2>3, <2>5, <3>1
    <3>4. Depth'[N + 1] = bundles'
      BY <2>0, <2>1, <2>2, <2>3, <2>5
    <3> QED BY <3>1, <3>2, <3>3, <3>4
  <2>7. pos' <= cap
    BY <1>0, <2>1 DEF IInv, TypeOK
  <2>8. /\ \A k \in 1..4 : mem'[start + k - 1] = head[k]
        /\ \A p \in 0..(pos - 1) : mem'[p] = mem[p]
    <3>1. SubSeq(head, 1, n) = head /\ Len(head) = 4 /\ head = [k \in 1..4 |-> head[k]]
      <4>1. head = [k \in 1..4 |-> head[k]]
        BY DEF BundleWords
      <4> HIDE DEF head
      <4> QED BY <2>1, <4>1, WholeSequence
    <3> HIDE DEF n, head
    <3>4. mem' = Overwrite(mem, pos, words) /\ cap \in Nat /\ pos \in Nat
          /\ DOMAIN mem = 0..(cap - 1)
      BY <2>1, <2>2
    <3>2. CASE nested
      <4>1. words = <<<<"offset", OuterOffset>>>> \o head
        BY <3>1, <3>2
      <4> HIDE DEF words
      <4>2. Len(words) = 5 /\ \A k \in 1..4 : words[k + 1] = head[k]
        BY <3>1, <4>1, FieldAndWords
      <4>3. pos + 5 <= cap
        BY <2>1, <2>2, <2>7, <3>2
      <4>4. /\ \A k \in 1..5 : mem'[pos + k - 1] = words[k]
            /\ \A i \in 0..(cap - 1) : i < pos \/ i >= pos + 5 => mem'[i] = mem[i]
        <5>1. Len(words) \in Nat /\ pos + Len(words) <= cap
          BY <4>2, <4>3
        <5>2. /\ \A k \in 1..Len(words) : mem'[pos + k - 1] = words[k]
              /\ \A i \in 0..(cap - 1) : i < pos \/ i >= pos + Len(words) => mem'[i] = mem[i]
          BY <3>4, <5>1, OverwriteProperties
        <5> QED BY <4>2, <5>2
      <4>5. ASSUME NEW k \in 1..4 PROVE mem'[start + k - 1] = head[k]
        <5>1. k + 1 \in 1..5 /\ pos + (k + 1) - 1 = start + k - 1
          BY <2>2, <3>2, SMTT(30)
        <5> QED BY <4>2, <4>4, <5>1
      <4>6. ASSUME NEW p \in 0..(pos - 1) PROVE mem'[p] = mem[p]
        <5>1. p \in 0..(cap - 1) /\ p < pos
          BY <2>2
        <5> QED BY <4>4, <5>1
      <4> QED BY <4>5, <4>6
    <3>3. CASE ~nested
      <4>1. words = head
        <5>1. head \in Seq({head[k] : k \in 1..4})
          BY <3>1
        <5>2. <<>> \o head = head
          BY <5>1, ConcatEmptySeq
        <5> QED BY <3>1, <3>3, <5>2
      <4> HIDE DEF words
      <4>2. Len(words) = 4 /\ start = pos /\ pos + 4 <= cap
        BY <2>1, <2>2, <2>7, <3>1, <3>3, <4>1
      <4>3. /\ \A k \in 1..4 : mem'[pos + k - 1] = words[k]
            /\ \A i \in 0..(cap - 1) : i < pos \/ i >= pos + 4 => mem'[i] = mem[i]
        <5>1. Len(words) \in Nat /\ pos + Len(words) <= cap
          BY <4>2
        <5>2. /\ \A k \in 1..Len(words) : mem'[pos + k - 1] = words[k]
              /\ \A i \in 0..(cap - 1) : i < pos \/ i >= pos + Len(words) => mem'[i] = mem[i]
          BY <3>4, <5>1, OverwriteProperties
        <5> QED BY <4>2, <5>2
      <4>4. \A p \in 0..(pos - 1) : p \in 0..(cap - 1) /\ p < pos
        BY <2>2
      <4> QED BY <4>1, <4>2, <4>3, <4>4
    <3> QED BY <3>2, <3>3
  <2>9. GrammarInv'
    BY <2>1, <2>3, GrammarGrows DEF LayoutInv
  <2>10. DepthInv'
    <3>1. N > 0 => Depth[N] >= 1
      BY <2>2, <2>4
    <3>2. Depth'[N + 1] = bundles' + (IF inMessage' THEN 1 ELSE 0)
      BY <2>1, <2>2, <2>6
    <3> QED BY <2>0, <2>1, <2>2, <2>3, <3>1, <3>2, DepthGrows DEF LayoutInv
  <2>11. OpenInv'
    <3>1. chain' \in Seq(Nat)
      BY <1>0 DEF IInv, ListInv
    <3>2. /\ Len(chain') = (IF nested THEN inBundle ELSE 0)
          /\ \A d \in 1..Len(chain') :
                \/ d <= Len(chain) /\ chain'[d] = chain[d]
                \/ N > 0 /\ chain'[d] = Predicted[N] /\ d = inBundle
      <4>1. CASE nested
        <5>1. chain' = Append(chain, pos) /\ Len(chain) = inBundle - 1
          BY <2>1, <2>2, <4>1
        <5>2. Len(chain') = inBundle
              /\ \A d \in 1..inBundle : chain'[d] = IF d = inBundle THEN pos ELSE chain[d]
          BY <2>2, <4>1, <5>1, AppendProperties
        <5> QED BY <2>2, <2>4, <4>1, <5>1, <5>2
      <4>2. CASE ~nested
        BY <2>1, <2>2, <4>2
      <4> QED BY <4>1, <4>2
    <3>3. Depth'[N + 1] = inBundle + 1 /\ Depth'[N + 1] >= Len(chain') + 1
      BY <2>1, <2>2, <2>6, <3>2
    <3>4. ~threw /\ log' = Append(log, c) /\ OpenInv /\ log \in Seq(Calls) /\ chain \in Seq(Nat)
      BY <2>1, <2>2 DEF LayoutInv
    <3>5. \A d \in 1..Len(chain') :
                \/ d <= Len(chain) /\ chain'[d] = chain[d]
                \/ c[1] = "bundle" /\ N > 0 /\ chain'[d] = Predicted[N] /\ Depth'[N + 1] = d + 1
      BY <2>3, <3>2, <3>3
    <3> HIDE DEF c
    <3> QED BY <2>0, <2>3, <3>1, <3>3, <3>4, <3>5, OpenGrows
  <2>12. OpenMessageInv'
    BY <2>1 DEF OpenMessageInv
  <2>13. CountsInv'
    <3>1. CASE miscounted
      BY <2>1, <3>1 DEF CountsInv
    <3>2. CASE ~miscounted
      BY <2>0, <2>1, <2>2, <2>3, <3>2, CountsGrow DEF LayoutInv
    <3> QED BY <3>1, <3>2
  <2>14. SizesPredicted'
    BY <2>5, <2>6 DEF SizesPredicted
  <2>15. LaidOut'
    <3>1. /\ \A i \in 1..N : Intact(i)'
          /\ \A i \in 2..N : Opens(log[i]) => mem'[Start(i) - 1] = mem[Start(i) - 1]
      <4> HIDE DEF c
      <4> QED BY <2>0, <2>1, <2>3, <2>8, WrittenStays
    <3>2. Intact(N + 1)'
      <4>1. Len(head) = 4 /\ head = BundleWords(c[2])
        BY DEF BundleWords
      <4>2. Holds(Start(N + 1), BundleWords(log[N + 1][2]))'
        BY <2>5, <2>6, <2>8, <4>1, ZenonT(60) DEF Holds, BundleWords
      <4> QED BY <2>3, <2>5, <4>2 DEF Intact, IsArgument
    <3>3. \A i \in 1..(N + 1) : Intact(i)'
      BY <2>2, <3>1, <3>2
    <3> HIDE DEF c
    <3> QED BY <2>0, <2>1, <2>2, <2>3, <3>1, <3>3, LaidOutGrows DEF LayoutInv
  <2> QED BY <1>0, <2>9, <2>10, <2>11, <2>12, <2>13, <2>14, <2>15 DEF LayoutInv
<1> QED BY <1>1, <1>2

\* A size field is filled in, and nothing else is touched.
LEMMA OneWordOverwritten ==
    ASSUME cap \in Nat, DOMAIN mem = 0..(cap - 1), NEW p \in Nat, p < cap, NEW x
    PROVE  /\ \A i \in 0..(cap - 1) : i # p => Overwrite(mem, p, <<x>>)[i] = mem[i]
           /\ Overwrite(mem, p, <<x>>)[p] = x
<1> DEFINE ws == <<x>>
<1>1. Len(ws) = 1 /\ ws[1] = x
  OBVIOUS
<1> HIDE DEF ws
<1>2. Len(ws) \in Nat /\ p + Len(ws) <= cap
  BY <1>1
<1>3. /\ \A k \in 1..Len(ws) : Overwrite(mem, p, ws)[p + k - 1] = ws[k]
      /\ \A i \in 0..(cap - 1) : i < p \/ i >= p + Len(ws) => Overwrite(mem, p, ws)[i] = mem[i]
  BY <1>2, OverwriteProperties
<1>4. Overwrite(mem, p, ws)[p] = x
  <2>1. 1 \in 1..Len(ws) /\ p + 1 - 1 = p
    BY <1>1
  <2> QED BY <1>1, <1>3, <2>1
<1>5. \A i \in 0..(cap - 1) : i # p => i < p \/ i >= p + Len(ws)
  BY <1>1
<1> QED BY <1>3, <1>4, <1>5 DEF ws

\* What closes takes no room.
LEMMA ClosingCall ==
    ASSUME log \in Seq(Calls), NEW c \in Calls, Closes(c), log' = Append(log, c),
           NEW N, N = Len(log)
    PROVE  /\ DOMAIN log' = 1..(N + 1) /\ Len(log') = N + 1
           /\ Predicted'[N + 1] = Predicted[N] /\ Depth'[N + 1] = Depth[N] - 1
           /\ Intact(N + 1)'
<1>1. SizeOf(c) = 0 /\ ~Opens(c) /\ ~IsArgument(c)
  BY CallProperties
<1>2. /\ N \in Nat /\ DOMAIN log' = 1..(N + 1) /\ Len(log') = N + 1 /\ log'[N + 1] = c
      /\ Start(N + 1)' = Predicted[N] + (IF Opens(c) /\ N > 0 THEN 1 ELSE 0)
      /\ Predicted'[N + 1] = Start(N + 1)' + SizeOf(c)
      /\ Depth'[N + 1] = Depth[N] + (IF Opens(c) THEN 1 ELSE IF Closes(c) THEN -1 ELSE 0)
  BY LogGrows
<1>3. Predicted[N] \in Nat /\ Depth[N] \in Int
  <2>1. N \in 0..N
    BY <1>2
  <2> QED BY <2>1, Places
<1>4. Predicted'[N + 1] = Predicted[N]
  BY <1>1, <1>2, <1>3
<1>5. Depth'[N + 1] = Depth[N] - 1
  BY <1>1, <1>2, <1>3
<1>6. Intact(N + 1)'
  BY <1>1, <1>2 DEF Intact, IsArgument, Opens
<1> QED BY <1>2, <1>4, <1>5, <1>6

\* The packet that is closed gets its size, and nothing else changes.
LEMMA FieldFilled ==
    ASSUME LayoutInv, ~threw, NEW c \in Calls, Closes(c), log' = Append(log, c),
           NEW N, N = Len(log), NEW e \in 2..N, Opens(log[e]), Encloses(e, N + 1)',
           \A p \in 0..(cap - 1) : p # Start(e) - 1 => mem'[p] = mem[p],
           mem'[Start(e) - 1] = <<"int32", 4 * (Predicted[N] - Start(e))>>
    PROVE  LaidOut'
<1>1. /\ N \in Nat /\ log \in Seq(Calls) /\ DOMAIN log = 1..N /\ pos = Predicted[N]
      /\ pos \in Nat /\ cap \in Nat /\ pos <= cap
  BY LayoutFacts
<1>2. /\ \A i \in 1..N : Start(i) <= Predicted[i] /\ Predicted[i] <= Predicted[N]
      /\ \A i \in 2..N : Opens(log[i]) => Start(i) - 1 \in Nat /\ Start(i) < Predicted[i]
      /\ \A i \in 2..N, j \in 1..N :
           Opens(log[i]) => Start(i) - 1 \notin Start(j)..(Predicted[j] - 1)
      /\ \A i, j \in 2..N :
           Opens(log[i]) /\ Opens(log[j]) /\ i # j => Start(i) - 1 # Start(j) - 1
  <2>1. \A i \in 1..N : Start(i) <= Predicted[i] /\ Predicted[i] <= Predicted[N]
    BY <1>1, Geometry
  <2>2. \A i \in 2..N : Opens(log[i]) => Start(i) - 1 \in Nat /\ Start(i) < Predicted[i]
    BY <1>1, Geometry
  <2>3. \A i \in 2..N, j \in 1..N :
           Opens(log[i]) => Start(i) - 1 \notin Start(j)..(Predicted[j] - 1)
    BY <1>1, Geometry
  <2>4. \A i, j \in 2..N :
           Opens(log[i]) /\ Opens(log[j]) /\ i # j => Start(i) - 1 # Start(j) - 1
    BY <1>1, Geometry
  <2> QED BY <2>1, <2>2, <2>3, <2>4
<1>3. \A i \in 1..N : Start(i) \in Nat /\ Predicted[i] \in Nat
  <2>1. \A i \in 1..N : i \in 0..N
    BY <1>1
  <2> QED BY <1>1, <2>1, Places
<1>4. ~IsArgument(c) /\ Intact(N + 1)'
  BY <1>1, CallProperties, ClosingCall
<1>5. ASSUME NEW i \in 1..N PROVE Intact(i)'
  <2>1. Intact(i)
    BY <1>1 DEF LayoutInv, LaidOut
  <2>2. ASSUME NEW p \in Start(i)..(Predicted[i] - 1) PROVE mem'[p] = mem[p]
    <3>1. Start(i) \in Nat /\ Predicted[i] \in Nat /\ Predicted[i] <= pos
      BY <1>1, <1>2, <1>3
    <3>2. p \in 0..(cap - 1)
      BY <1>1, <3>1
    <3>3. p # Start(e) - 1
      BY <1>2
    <3> QED BY <3>2, <3>3
  <2> QED BY <1>1, <1>4, <2>1, <2>2, IntactStays
<1>6. ASSUME NEW i \in 2..N, NEW j \in 1..N, Opens(log[i]), Encloses(i, j)
      PROVE  mem'[Start(i) - 1] = mem[Start(i) - 1]
  <2>1. e \in 1..N /\ i \in 1..N /\ i - 1 \in 0..N /\ j \in 0..N
    BY <1>1
  <2>2. i # e
    <3>1. SUFFICES ASSUME i = e PROVE FALSE
      OBVIOUS
    <3>2. \A k \in e..N : Depth[k] > Depth[e - 1]
      BY <1>1, <2>1, EnclosesNext
    <3>3. j \in e..N /\ Depth[j] = Depth[e - 1]
      BY <1>1, <1>6, <3>1 DEF Encloses
    <3>4. Depth[j] \in Int /\ Depth[e - 1] \in Int
      BY <1>1, <2>1, <3>1, Places
    <3> QED BY <3>2, <3>3, <3>4
  <2>3. Start(i) - 1 # Start(e) - 1
    BY <1>2, <1>6, <2>2
  <2>4. Start(i) - 1 \in Nat /\ Start(i) < Predicted[i] /\ Predicted[i] <= pos
        /\ Start(i) \in Nat /\ Predicted[i] \in Nat
    BY <1>1, <1>2, <1>3, <1>6, <2>1
  <2>5. Start(i) - 1 \in 0..(cap - 1)
    BY <1>1, <2>4, SMTT(30)
  <2> QED BY <2>3, <2>5
<1>7. ASSUME NEW i \in 2..N, Encloses(i, N + 1)'
      PROVE  mem'[Start(i) - 1] = <<"int32", 4 * (Predicted[N] - Start(i))>>
  <2>1. e \in 1..N /\ i \in 1..N
    BY <1>1
  <2>2. i = e
    BY <1>1, <1>7, <2>1, OneIsClosed
  <2> QED BY <2>2
<1>8. \A i \in 1..(N + 1) : Intact(i)'
  <2>1. N \in Nat
    BY <1>1
  <2>2. \A i \in 1..N : Intact(i)'
    BY <1>5
  <2> QED BY <1>4, <2>1, <2>2
<1>9. log \in Seq(Calls) /\ LaidOut
  BY <1>1 DEF LayoutInv
<1> QED BY <1>6, <1>7, <1>8, <1>9, LaidOutGrows

\* The outermost packet has no size.
LEMMA NoFieldFilled ==
    ASSUME LayoutInv, ~threw, NEW c \in Calls, Closes(c), log' = Append(log, c),
           NEW N, N = Len(log), mem' = mem,
           \A i \in 2..N : ~Encloses(i, N + 1)'
    PROVE  LaidOut'
<1>1. N \in Nat /\ log \in Seq(Calls) /\ LaidOut
  BY LayoutFacts DEF LayoutInv
<1>2. ~IsArgument(c) /\ Intact(N + 1)'
  BY <1>1, CallProperties, ClosingCall
<1>3. /\ \A i \in 1..N : Intact(i)'
      /\ \A i \in 2..N : Opens(log[i]) => mem'[Start(i) - 1] = mem[Start(i) - 1]
  BY <1>2, WrittenStays
<1>4. \A i \in 1..(N + 1) : Intact(i)'
  BY <1>1, <1>2, <1>3
<1> QED BY <1>1, <1>3, <1>4, LaidOutGrows

\* closeBundle preserves it.
LEMMA CloseBundleLayout ==
    ASSUME LayoutInv, CloseBundle
    PROVE  LayoutInv'
<1> DEFINE c == <<"end">>
<1>0. IInv'
  BY CloseBundleStep DEF LayoutInv
<1>1. CASE Throw
  BY <1>0, <1>1, ThrowLayout
<1>2. CASE ~Throw
  <2>1. /\ ~inMessage /\ inBundle > 0 /\ bundles > 0
        /\ bundles' = bundles - 1 /\ log' = Append(log, c)
        /\ UNCHANGED <<cap, pos, inMessage, threw, miscounted>>
        /\ IF inBundle > 1
           THEN /\ mem' = Overwrite(mem, sizePosB, <<<<"int32", CalcSize(sizePosB, pos)>>>>)
                /\ chain' = SubSeq(chain, 1, Len(chain) - 1)
           ELSE UNCHANGED <<mem, chain>>
    BY <1>2 DEF CloseBundle
  <2>0. PICK N : N = Len(log)
    OBVIOUS
  <2>2. c \in Calls /\ Closes(c) /\ ~IsArgument(c) /\ ~Inside(c) /\ c[1] # "close"
    BY DEF Calls, Closes, IsArgument, Inside
  <2> HIDE DEF c
  <2>3. /\ N \in Nat /\ log \in Seq(Calls) /\ DOMAIN log = 1..N
        /\ cap \in Nat /\ pos \in Nat /\ pos <= cap /\ DOMAIN mem = 0..(cap - 1)
        /\ inBundle \in Nat /\ bundles \in Nat
        /\ chain \in Seq(Nat) /\ Len(chain) = inBundle - 1
        /\ Depth[N] = bundles
        /\ ~threw => pos = Predicted[N] /\ inBundle = bundles
    <3>1. ~inMessage /\ inBundle > 0
      BY <2>1
    <3> QED BY <2>0, <3>1, LayoutFacts
  <2>4. /\ DOMAIN log' = 1..(N + 1) /\ Len(log') = N + 1
        /\ Predicted'[N + 1] = Predicted[N] /\ Depth'[N + 1] = Depth[N] - 1
    BY <2>0, <2>1, <2>2, <2>3, ClosingCall
  <2>5. GrammarInv'
    BY <2>1, <2>2, GrammarGrows DEF LayoutInv
  <2>6. DepthInv'
    <3>1. Depth[N] >= 1 /\ Depth'[N + 1] = bundles' + (IF inMessage' THEN 1 ELSE 0)
      BY <2>1, <2>3, <2>4
    <3> QED BY <2>0, <2>1, <2>2, <2>3, <3>1, DepthGrows DEF LayoutInv
  <2>7. CASE threw
    BY <1>0, <2>1, <2>5, <2>6, <2>7
       DEF LayoutInv, OpenInv, OpenMessageInv, CountsInv, SizesPredicted, LaidOut
  <2>8. CASE ~threw
    <3>1. OpenMessageInv' /\ SizesPredicted'
      BY <2>1, <2>3, <2>4, <2>8 DEF OpenMessageInv, SizesPredicted
    <3>2. CountsInv'
      <4>1. CASE miscounted
        BY <2>1, <4>1 DEF CountsInv
      <4>2. CASE ~miscounted
        BY <2>0, <2>1, <2>2, <2>3, <2>8, <4>2, CountsGrow DEF LayoutInv
      <4> QED BY <4>1, <4>2
    <3>3. /\ chain' \in Seq(Nat)
          /\ Len(chain') > 0 => Depth'[N + 1] >= Len(chain') + 1
          /\ \A d \in 1..Len(chain') : d <= Len(chain) /\ chain'[d] = chain[d]
      <4>1. chain' \in Seq(Nat)
        BY <1>0 DEF IInv, ListInv
      <4>2. CASE inBundle > 1
        <5>1. chain' = SubSeq(chain, 1, Len(chain) - 1) /\ Len(chain) - 1 \in Nat
          BY <2>1, <2>3, <4>2
        <5>2. Len(chain') = Len(chain) - 1 /\ \A d \in 1..(Len(chain) - 1) : chain'[d] = chain[d]
          BY <2>3, <5>1, SubSeqProperties
        <5> QED BY <2>3, <2>4, <2>8, <4>1, <4>2, <5>1, <5>2
      <4>3. CASE ~(inBundle > 1)
        <5>1. chain' = chain /\ Len(chain) = 0
          BY <2>1, <2>3, <4>3
        <5>2. Len(chain') = 0
          BY <5>1
        <5> QED BY <4>1, <5>1, <5>2
      <4> QED BY <4>2, <4>3
    <3>4. OpenInv'
      <4>1. ~threw /\ log' = Append(log, c) /\ OpenInv
        BY <2>1, <2>8 DEF LayoutInv
      <4> QED BY <2>0, <2>2, <2>3, <3>3, <4>1, OpenGrows
    <3>5. LaidOut'
      <4>1. CASE inBundle > 1
        <5> DEFINE d == Len(chain)
        <5>1. d \in 1..Len(chain) /\ d = bundles - 1
          BY <2>3, <2>8, <4>1
        <5> HIDE DEF d
        <5>2. PICK e \in DOMAIN log \ {1} :
                /\ log[e][1] = "bundle" /\ chain[d] = Start(e) - 1
                /\ Depth[e] = d + 1 /\ \A k \in e..Len(log) : Depth[k] >= d + 1
          BY <2>8, <5>1 DEF LayoutInv, OpenInv
        <5>3. e \in 2..N /\ e \in 1..N /\ Opens(log[e]) /\ e - 1 \in 0..N
          BY <2>3, <5>2 DEF Opens
        <5>4. sizePosB = Start(e) - 1
          <6>1. chain # <<>> /\ d = Len(chain)
            BY <5>1 DEF d
          <6> QED BY <5>2, <6>1 DEF LayoutInv, IInv, ListIsStack
        <5>5. Start(e) - 1 \in Nat /\ Start(e) < Predicted[e] /\ Predicted[e] <= Predicted[N]
          BY <2>0, <2>3, <5>3, Geometry
        <5>6. Start(e) \in Nat /\ Predicted[e] \in Nat /\ Depth[e - 1] \in Int
              /\ Depth[e] = Depth[e - 1] + 1
          <6>1. Depth[e] = Depth[e - 1] + (IF Opens(log[e]) THEN 1 ELSE IF Closes(log[e]) THEN -1 ELSE 0)
            BY <2>0, <2>3, <5>3, Places
          <6>2. Start(e) \in Nat /\ Predicted[e] \in Nat /\ Depth[e - 1] \in Int
            <7>1. e \in 0..N
              BY <5>3
            <7> QED BY <2>0, <2>3, <5>3, <7>1, Places
          <6> QED BY <5>3, <6>1, <6>2
        <5>7. Encloses(e, N + 1)'
          <6>1. Depth[e - 1] = bundles - 1
            <7>1. bundles \in Nat /\ Depth[e] = d + 1
              BY <2>3, <5>2
            <7> QED BY <5>1, <5>6, <7>1
          <6>2. Depth'[N + 1] = Depth[e - 1]
            BY <2>3, <2>4, <6>1
          <6>3. \A k \in e..N : Depth[k] > Depth[e - 1]
            <7>1. \A k \in e..N : Depth[k] >= d + 1 /\ k \in 0..N
              BY <2>0, <2>3, <5>2, <5>3
            <7>2. \A k \in 0..N : Depth[k] \in Int
              BY <2>0, <2>3, Places
            <7>3. d + 1 = Depth[e - 1] + 1 /\ d \in Int
              BY <2>3, <5>1, <6>1
            <7> QED BY <5>6, <7>1, <7>2, <7>3
          <6> QED BY <2>0, <2>1, <2>2, <2>3, <5>3, <6>2, <6>3, EnclosesNext
        <5>8. mem' = Overwrite(mem, sizePosB, <<<<"int32", CalcSize(sizePosB, pos)>>>>)
          BY <2>1, <4>1
        <5>9. CalcSize(sizePosB, pos) = 4 * (Predicted[N] - Start(e))
          <6>1. Start(e) \in Nat /\ Predicted[N] \in Nat /\ pos = Predicted[N]
            BY <2>3, <2>8, <5>6
          <6>2. CalcSize(sizePosB, pos) = 4 * (Predicted[N] - (Start(e) - 1)) - 4
            BY <5>4, <6>1 DEF CalcSize
          <6> QED BY <6>1, <6>2
        <5>10. /\ \A p \in 0..(cap - 1) : p # Start(e) - 1 => mem'[p] = mem[p]
               /\ mem'[Start(e) - 1] = <<"int32", 4 * (Predicted[N] - Start(e))>>
          <6>1. mem' = Overwrite(mem, Start(e) - 1, <<<<"int32", 4 * (Predicted[N] - Start(e))>>>>)
            BY <5>4, <5>8, <5>9
          <6>2. Start(e) - 1 \in Nat /\ Start(e) - 1 < cap
            BY <2>3, <2>8, <5>5, <5>6, SMTT(30)
          <6>3. cap \in Nat /\ DOMAIN mem = 0..(cap - 1)
            BY <2>3
          <6> QED BY <6>1, <6>2, <6>3, OneWordOverwritten
        <5> QED BY <2>0, <2>1, <2>2, <2>8, <5>3, <5>7, <5>10, FieldFilled
      <4>2. CASE ~(inBundle > 1)
        <5>1. mem' = mem /\ bundles = 1
          BY <2>1, <2>3, <2>8, <4>2
        <5>2. ASSUME NEW i \in 2..N, Encloses(i, N + 1)' PROVE FALSE
          <6>1. i \in 1..N /\ i - 1 \in 1..(Len(log) - 1)
            BY <2>0, <2>3
          <6>2. Depth'[N + 1] = Depth[i - 1]
            BY <2>0, <2>1, <2>2, <2>3, <5>2, <6>1, EnclosesNext
          <6>3. Depth[i - 1] >= 1
            BY <6>1 DEF LayoutInv, DepthInv
          <6> QED BY <2>3, <2>4, <5>1, <6>2, <6>3
        <5> QED BY <2>0, <2>1, <2>2, <2>8, <5>1, <5>2, NoFieldFilled
      <4> QED BY <4>1, <4>2
    <3> QED BY <1>0, <2>5, <2>6, <3>1, <3>2, <3>4, <3>5 DEF LayoutInv
  <2> QED BY <2>7, <2>8
<1> QED BY <1>1, <1>2

\* closeMessage preserves it.
LEMMA CloseMessageLayout ==
    ASSUME LayoutInv, CloseMessage
    PROVE  LayoutInv'
<1> DEFINE c == <<"close">>
<1>0. IInv'
  BY CloseMessageStep DEF LayoutInv
<1>1. /\ inMessage /\ inMessage' = FALSE
      /\ miscounted' = (miscounted \/ tags.len # tags.size - 1)
      /\ log' = Append(log, c)
      /\ UNCHANGED <<cap, pos, sizePosM, inBundle, bundles, threw, chain>>
      /\ inBundle > 0 =>
            mem' = Overwrite(mem, sizePosM, <<<<"int32", CalcSize(sizePosM, pos)>>>>)
      /\ ~(inBundle > 0) => mem' = mem
  BY DEF CloseMessage
<1>2. PICK N : N = Len(log)
  OBVIOUS
<1>3. c \in Calls /\ Closes(c) /\ ~IsArgument(c) /\ ~Inside(c) /\ c[1] = "close"
  BY DEF Calls, Closes, IsArgument, Inside
<1> HIDE DEF c
<1>4. /\ N \in Nat /\ log \in Seq(Calls) /\ DOMAIN log = 1..N
      /\ cap \in Nat /\ pos \in Nat /\ pos <= cap /\ DOMAIN mem = 0..(cap - 1)
      /\ inBundle \in Nat /\ bundles \in Nat
      /\ chain \in Seq(Nat) /\ Len(chain) = IF inBundle = 0 THEN 0 ELSE inBundle - 1
      /\ Depth[N] = bundles + 1
      /\ ~threw => pos = Predicted[N] /\ inBundle = bundles
  BY <1>1, <1>2, LayoutFacts
<1>5. /\ DOMAIN log' = 1..(N + 1) /\ Len(log') = N + 1
      /\ Predicted'[N + 1] = Predicted[N] /\ Depth'[N + 1] = Depth[N] - 1
  BY <1>1, <1>2, <1>3, <1>4, ClosingCall
<1>6. GrammarInv'
  BY <1>1, <1>3, GrammarGrows DEF LayoutInv
<1>7. DepthInv'
  <2>1. Depth[N] >= 1 /\ Depth'[N + 1] = bundles' + (IF inMessage' THEN 1 ELSE 0)
    BY <1>1, <1>4, <1>5
  <2> QED BY <1>1, <1>2, <1>3, <1>4, <2>1, DepthGrows DEF LayoutInv
<1>8. CASE threw
  BY <1>0, <1>1, <1>6, <1>7, <1>8
     DEF LayoutInv, OpenInv, OpenMessageInv, CountsInv, SizesPredicted, LaidOut
<1>9. CASE ~threw
  <2>1. OpenMessageInv' /\ SizesPredicted'
    BY <1>1, <1>4, <1>5, <1>9 DEF OpenMessageInv, SizesPredicted
  <2>2. PICK m \in DOMAIN log : IsOpenMessage(m)
    BY <1>1, <1>9 DEF LayoutInv, OpenMessageInv
  <2>3. /\ m \in 1..N /\ log[m][1] = "message" /\ Opens(log[m])
        /\ \A k \in (m + 1)..N : IsArgument(log[k])
        /\ \A k \in m..N : Depth[k] = bundles + 1
        /\ m > 1 => inBundle > 0 /\ sizePosM = Start(m) - 1
        /\ m = 1 => inBundle = 0
        /\ tags.size = TagBytes(log[m][3]) /\ tags.len = N - m + 1
        /\ log[m][3] \in Nat
    <3>1. log[m] \in Calls /\ m \in 1..N
      BY <1>4
    <3>2. log[m][1] = "message" /\ log[m][3] \in Nat
      BY <2>2, <3>1, CallProperties DEF IsOpenMessage
    <3>3. ~(m > 1) <=> m = 1
      BY <3>1
    <3> QED BY <1>2, <2>2, <3>1, <3>2, <3>3 DEF IsOpenMessage, Opens
  <2>4. CountsInv'
    <3>1. CASE miscounted'
      BY <3>1 DEF CountsInv
    <3>2. CASE ~miscounted'
      <4>1. ~miscounted /\ tags.len = tags.size - 1
        BY <1>1, <3>2
      <4>2. N - m = log[m][3]
        <5>1. PICK n \in Nat : n = log[m][3]
          BY <2>3
        <5>2. tags.len = N - m + 1 /\ tags.size = n + 2
          BY <2>3, <5>1 DEF TagBytes
        <5>3. PICK t \in Int : t = tags.len /\ t = N - m + 1
          BY <1>4, <2>3, <5>2
        <5>4. t = n + 2 - 1
          BY <4>1, <5>2, <5>3
        <5>5. N \in Nat /\ m \in Nat
          BY <1>4, <2>3
        <5> QED BY <5>1, <5>3, <5>4, <5>5
      <4>3. ASSUME NEW i \in 1..N, log[i][1] = "message", \A k \in (i + 1)..N : IsArgument(log[k])
            PROVE  i = m
        <5>1. ~IsArgument(log[i]) /\ ~IsArgument(log[m])
          BY <2>3, <4>3 DEF IsArgument
        <5>2. i \notin (m + 1)..N /\ m \notin (i + 1)..N
          BY <2>3, <4>3, <5>1
        <5> QED BY <1>4, <2>3, <5>2
      <4>4. \A i \in 1..N : /\ c[1] = "close" /\ log[i][1] = "message"
                            /\ \A k \in (i + 1)..N : IsArgument(log[k])
                            => N - i = log[i][3]
        BY <4>2, <4>3
      <4> QED BY <1>1, <1>2, <1>3, <1>4, <1>9, <4>1, <4>4, CountsGrow, ZenonT(60) DEF LayoutInv
    <3> QED BY <3>1, <3>2
  <2>5. OpenInv'
    <3>1. chain' \in Seq(Nat) /\ chain' = chain
      BY <1>1, <1>4
    <3>2. Len(chain') > 0 => Depth'[N + 1] >= Len(chain') + 1
      <4>1. Depth'[N + 1] = bundles /\ bundles = inBundle
        BY <1>4, <1>5, <1>9
      <4>2. Len(chain) = IF bundles = 0 THEN 0 ELSE bundles - 1
        BY <1>4, <4>1
      <4>3. bundles \in Nat
        BY <1>4
      <4> QED BY <3>1, <4>1, <4>2, <4>3
    <3>3. \A d \in 1..Len(chain') : d <= Len(chain) /\ chain'[d] = chain[d]
      <4>1. Len(chain) \in Nat
        BY <1>4
      <4> QED BY <3>1, <4>1
    <3>4. OpenInv /\ log' = Append(log, c)
      BY <1>1 DEF LayoutInv
    <3> QED BY <1>2, <1>3, <1>4, <1>9, <3>1, <3>2, <3>3, <3>4, OpenGrows
  <2>6. Encloses(m, N + 1)'
    <3>1. Depth[m] = Depth[m - 1] + 1 /\ Depth[m - 1] \in Int /\ Depth[m] = bundles + 1
      <4>1. m \in m..N /\ m - 1 \in 0..N
        BY <1>4, <2>3, SMTT(30)
      <4>2. Depth[m] = Depth[m - 1] + (IF Opens(log[m]) THEN 1 ELSE IF Closes(log[m]) THEN -1 ELSE 0)
        BY <1>2, <1>4, <2>3, Places
      <4>3. Depth[m - 1] \in Int
        BY <1>2, <1>4, <4>1, Places
      <4> QED BY <2>3, <4>1, <4>2, <4>3
    <3>2. bundles \in Nat /\ Depth'[N + 1] = bundles
      BY <1>4, <1>5
    <3>3. Depth[m - 1] = bundles
      BY <3>1, <3>2
    <3>4. \A k \in m..N : Depth[k] > Depth[m - 1]
      BY <2>3, <3>2, <3>3
    <3> QED BY <1>1, <1>2, <1>3, <1>4, <2>3, <3>2, <3>3, <3>4, EnclosesNext
  <2>7. LaidOut'
    <3>1. CASE m > 1
      <4>1. m \in 2..N
        BY <1>4, <2>3, <3>1
      <4>2. Start(m) - 1 \in Nat /\ Start(m) < Predicted[m] /\ Predicted[m] <= Predicted[N]
        BY <1>2, <1>4, <2>3, <4>1, Geometry
      <4>3. Start(m) \in Nat /\ Predicted[m] \in Nat
        <5>1. m \in 0..N
          BY <2>3
        <5> QED BY <1>2, <1>4, <2>3, <5>1, Places
      <4>4. mem' = Overwrite(mem, Start(m) - 1, <<<<"int32", 4 * (Predicted[N] - Start(m))>>>>)
        <5>1. Predicted[N] \in Nat /\ pos = Predicted[N]
          BY <1>4, <1>9
        <5>2. CalcSize(sizePosM, pos) = 4 * (Predicted[N] - (Start(m) - 1)) - 4
          BY <2>3, <3>1, <5>1 DEF CalcSize
        <5>3. CalcSize(sizePosM, pos) = 4 * (Predicted[N] - Start(m))
          BY <4>3, <5>1, <5>2
        <5> QED BY <1>1, <2>3, <3>1, <5>3
      <4>5. Start(m) - 1 < cap /\ cap \in Nat /\ DOMAIN mem = 0..(cap - 1)
        BY <1>4, <1>9, <4>2, <4>3
      <4>6. /\ \A p \in 0..(cap - 1) : p # Start(m) - 1 => mem'[p] = mem[p]
            /\ mem'[Start(m) - 1] = <<"int32", 4 * (Predicted[N] - Start(m))>>
        BY <4>2, <4>4, <4>5, OneWordOverwritten
      <4> QED BY <1>1, <1>2, <1>3, <1>9, <2>3, <2>6, <4>1, <4>6, FieldFilled
    <3>2. CASE m = 1
      <4>1. mem' = mem
        BY <1>1, <2>3, <3>2
      <4>2. ASSUME NEW i \in 2..N, Encloses(i, N + 1)' PROVE FALSE
        <5>1. i \in 1..N /\ i # m
          BY <1>4, <3>2
        <5> QED BY <1>1, <1>2, <1>3, <1>4, <2>3, <2>6, <4>2, <5>1, OneIsClosed
      <4> QED BY <1>1, <1>2, <1>3, <1>9, <4>1, <4>2, NoFieldFilled
    <3> QED BY <2>3, <3>1, <3>2
  <2> QED BY <1>0, <1>6, <1>7, <2>1, <2>4, <2>5, <2>7 DEF LayoutInv
<1> QED BY <1>8, <1>9

\* It holds of an empty buffer.
LEMMA NothingLayout ==
    ASSUME IInv, log = <<>>, pos = 0, bundles = 0, inMessage = FALSE, chain = <<>>
    PROVE  LayoutInv
<1>1. log \in Seq(Calls) /\ Len(log) = 0 /\ DOMAIN log = 1..0
  OBVIOUS
<1>2. Predicted[0] = 0 /\ Depth[0] = 0
  BY <1>1, Places
<1>3. GrammarInv
  BY <1>1 DEF GrammarInv
<1>4. DepthInv
  BY <1>1, <1>2 DEF DepthInv
<1>5. OpenInv
  BY DEF OpenInv
<1>6. OpenMessageInv /\ CountsInv
  BY <1>1 DEF OpenMessageInv, CountsInv
<1>7. SizesPredicted
  BY <1>1, <1>2 DEF SizesPredicted
<1>8. LaidOut
  BY <1>1 DEF LaidOut
<1> QED BY <1>3, <1>4, <1>5, <1>6, <1>7, <1>8 DEF LayoutInv

LEMMA InitLayout == Init => LayoutInv
BY InitIInv, NothingLayout DEF Init

\* reset preserves it.
LEMMA ResetLayout ==
    ASSUME LayoutInv, Reset
    PROVE  LayoutInv'
<1>0. IInv'
  BY ResetStep DEF LayoutInv
<1>1. log' = <<>> /\ pos' = 0 /\ bundles' = 0 /\ inMessage' = FALSE /\ chain' = <<>>
  BY DEF Reset
<1>2. (IInv /\ log = <<>> /\ pos = 0 /\ bundles = 0 /\ inMessage = FALSE /\ chain = <<>> => LayoutInv)'
  BY NothingLayout, PTL
<1> QED BY <1>0, <1>1, <1>2

\* Two functions over 1..n, one behind the other.
LEMMA ConcatWords ==
    ASSUME NEW m \in Nat, NEW n \in Nat, NEW s, NEW t,
           s = [k \in 1..m |-> s[k]], t = [k \in 1..n |-> t[k]]
    PROVE  /\ Len(s \o t) = m + n
           /\ s \o t = [k \in 1..(m + n) |-> (s \o t)[k]]
           /\ \A k \in 1..m : (s \o t)[k] = s[k]
           /\ \A k \in 1..n : (s \o t)[m + k] = t[k]
<1> DEFINE S == {s[k] : k \in 1..m} \cup {t[k] : k \in 1..n}
<1>1. (\A k \in 1..m : s[k] \in S) /\ (\A k \in 1..n : t[k] \in S)
  OBVIOUS
<1> HIDE DEF S
<1>2. s \in Seq(S) /\ t \in Seq(S) /\ Len(s) = m /\ Len(t) = n
  BY <1>1, FunctionIsSequence
<1>3. /\ s \o t \in Seq(S) /\ Len(s \o t) = Len(s) + Len(t)
      /\ \A k \in 1..(Len(s) + Len(t)) :
            (s \o t)[k] = IF k <= Len(s) THEN s[k] ELSE t[k - Len(s)]
  BY <1>2, ConcatProperties, ZenonT(30)
<1>4. /\ s \o t \in Seq(S) /\ Len(s \o t) = m + n
      /\ \A k \in 1..(m + n) : (s \o t)[k] = IF k <= m THEN s[k] ELSE t[k - m]
  BY <1>2, <1>3
<1>5. ASSUME NEW k \in 1..m PROVE (s \o t)[k] = s[k]
  <2>1. k \in 1..(m + n) /\ k <= m
    OBVIOUS
  <2> QED BY <1>4, <2>1
<1>6. ASSUME NEW k \in 1..n PROVE (s \o t)[m + k] = t[k]
  <2>1. m + k \in 1..(m + n) /\ ~(m + k <= m) /\ (m + k) - m = k
    OBVIOUS
  <2> QED BY <1>4, <2>1
<1>7. s \o t = [k \in 1..(m + n) |-> (s \o t)[k]]
  BY <1>4
<1> QED BY <1>4, <1>5, <1>6, <1>7

\* What is stored for the tags of a message without arguments.
LEMMA FirstTags ==
    ASSUME NEW N \in Nat, DOMAIN log' = 1..(N + 1), NEW n \in Nat,
           NEW k \in 0..(WordsFor(n) - 1)
    PROVE  TagWords(n)[k + 1] = <<"tags", [d \in 1..4 |-> TagByte(N + 1, 4 * k + d - 1)']>>
<1>1. WordsFor(n) \in Nat /\ k + 1 \in 1..WordsFor(n)
  BY DEF WordsFor
<1>3. ASSUME NEW d \in 1..4
      PROVE  TagByte(N + 1, 4 * k + d - 1)' = IF k = 0 /\ d = 1 THEN "," ELSE ""
  <2>1. 4 * k + d - 1 \in Nat /\ (4 * k + d - 1 = 0 <=> k = 0 /\ d = 1)
    OBVIOUS
  <2>2. CASE 4 * k + d - 1 = 0
    BY <2>1, <2>2 DEF TagByte
  <2>3. CASE 4 * k + d - 1 # 0
    <3>1. N + 1 + (4 * k + d - 1) \notin DOMAIN log'
      BY <2>1, <2>3
    <3> QED BY <2>1, <2>3, <3>1 DEF TagByte
  <2> QED BY <2>2, <2>3
<1>4. [d \in 1..4 |-> TagByte(N + 1, 4 * k + d - 1)']
        = [d \in 1..4 |-> IF k = 0 /\ d = 1 THEN "," ELSE ""]
  BY <1>3
<1>5. NoChars = [d \in 1..4 |-> ""]
  <2>1. NoChars = [d \in 1..4 |-> NoChars[d]] /\ \A d \in 1..4 : NoChars[d] = ""
    BY DEF NoChars
  <2> HIDE DEF NoChars
  <2> QED BY <2>1
<1> DEFINE first == [NoChars EXCEPT ![1] = ","]
<1>6. first = [d \in 1..4 |-> IF d = 1 THEN "," ELSE ""]
  BY <1>5
<1>8. \A i \in 1..WordsFor(n) : TagWords(n)[i] = <<"tags", IF i = 1 THEN first ELSE NoChars>>
  BY DEF TagWords
<1> HIDE DEF first
<1>7. TagWords(n)[k + 1] = <<"tags", [d \in 1..4 |-> IF k = 0 /\ d = 1 THEN "," ELSE ""]>>
  <2>1. CASE k = 0
    <3>1. TagWords(n)[k + 1] = <<"tags", first>>
      <4>1. k + 1 = 1
        BY <2>1
      <4>2. TagWords(n)[1] = <<"tags", first>>
        BY <1>1, <1>8, <4>1
      <4> QED BY <4>1, <4>2
    <3>2. first = [d \in 1..4 |-> IF k = 0 /\ d = 1 THEN "," ELSE ""]
      BY <1>6, <2>1
    <3> QED BY <3>1, <3>2
  <2>2. CASE k # 0
    <3>1. k + 1 # 1
      BY <2>2
    <3>2. TagWords(n)[k + 1] = <<"tags", NoChars>>
      BY <1>1, <1>8, <3>1
    <3>3. NoChars = [d \in 1..4 |-> IF k = 0 /\ d = 1 THEN "," ELSE ""]
      BY <1>5, <2>2
    <3> QED BY <3>2, <3>3
  <2> QED BY <2>1, <2>2
<1> QED BY <1>4, <1>7

\* openMessage preserves it.
LEMMA OpenMessageLayout ==
    ASSUME LayoutInv, NEW addr \in Texts, NEW num \in Counts, OpenMessage(addr, num)
    PROVE  LayoutInv'
<1> DEFINE nested == inBundle > 0
           start  == IF nested THEN pos + 1 ELSE pos
           W      == WordsOf[addr]
           T      == WordsFor(TagBytes(num))
           head   == StringWords(addr) \o TagWords(TagBytes(num))
           k      == Fitting(Len(head), {0, W}, start)
           c      == <<"message", addr, num>>
<1>0. IInv'
  BY OpenMessageStep DEF LayoutInv
<1>1. CASE Throw
  BY <1>0, <1>1, ThrowLayout
<1>2. CASE ~Throw
  <2>1. /\ ~threw /\ ~inMessage /\ (bundles = 0 => log = <<>>)
        /\ sizePosM' = (IF nested THEN pos ELSE sizePosM)
        /\ UNCHANGED <<cap, inBundle, chain, bundles, threw, miscounted>>
        /\ mem' = Overwrite(mem, start, SubSeq(head, 1, Len(head)))
        /\ pos' = start + Len(head)
        /\ tags' = [at |-> start + W, size |-> TagBytes(num), len |-> 1]
        /\ inMessage' = TRUE
        /\ log' = Append(log, c)
    <3>1. /\ ~threw /\ ~inMessage /\ (bundles = 0 => log = <<>>)
          /\ sizePosM' = (IF nested THEN pos ELSE sizePosM)
          /\ UNCHANGED <<cap, inBundle, chain>>
          /\ mem' = Overwrite(mem, start, SubSeq(head, 1, k))
          /\ pos' = start + k
          /\ IF k = Len(head)
             THEN /\ tags' = [at |-> start + W, size |-> TagBytes(num), len |-> 1]
                  /\ inMessage' = TRUE
                  /\ log' = Append(log, c)
                  /\ UNCHANGED <<bundles, threw, miscounted>>
             ELSE Throw /\ UNCHANGED tags
      BY <1>2 DEF OpenMessage, MayWrite
    <3> HIDE DEF k, head, start, W, c
    <3>2. k = Len(head)
      BY <1>2, <3>1
    <3> QED BY <3>1, <3>2
  <2> HIDE DEF k
  <2>0. PICK N : N = Len(log)
    OBVIOUS
  <2>2. /\ N \in Nat /\ log \in Seq(Calls) /\ DOMAIN log = 1..N
        /\ cap \in Nat /\ pos \in Nat /\ pos <= cap /\ DOMAIN mem = 0..(cap - 1)
        /\ inBundle \in Nat /\ bundles = inBundle /\ pos = Predicted[N]
        /\ chain \in Seq(Nat) /\ Len(chain) = IF inBundle = 0 THEN 0 ELSE inBundle - 1
        /\ Depth[N] = bundles
    <3>1. ~threw /\ ~inMessage
      BY <2>1
    <3> HIDE DEF head, start, c, nested
    <3> QED BY <2>0, <3>1, LayoutFacts
  <2>3. /\ c \in Calls /\ Opens(c) /\ ~Closes(c) /\ ~IsArgument(c) /\ Inside(c)
        /\ c[1] = "message" /\ c[2] = addr /\ c[3] = num
    BY DEF Calls, Opens, Closes, IsArgument, Inside
  <2>4. W \in Nat /\ W >= 1 /\ T \in Nat /\ SizeOf(c) = W + T /\ num \in Nat /\ TagBytes(num) \in Nat
    <3> HIDE DEF c
    <3>1. /\ WordsOf[c[2]] \in Nat /\ WordsOf[c[2]] >= 1 /\ WordsFor(TagBytes(c[3])) \in Nat
          /\ SizeOf(c) = WordsOf[c[2]] + WordsFor(TagBytes(c[3]))
      BY <2>3, CallProperties
    <3> QED BY <2>3, <3>1, CountsAssumption DEF TagBytes
  <2> HIDE DEF T
  <2>5. nested <=> N > 0
    <3>1. Depth[0] = 0
      BY <2>2, Places
    <3> HIDE DEF head, start, c
    <3>2. bundles > 0 => N # 0
      BY <2>2, <3>1
    <3>3. bundles = 0 => N = 0
      BY <2>0, <2>1
    <3> QED BY <2>2, <3>2, <3>3
  <2>6. /\ DOMAIN log' = 1..(N + 1) /\ Len(log') = N + 1 /\ log'[N + 1] = c
        /\ Start(N + 1)' = Predicted[N] + (IF Opens(c) /\ N > 0 THEN 1 ELSE 0)
        /\ Predicted'[N + 1] = Start(N + 1)' + SizeOf(c)
        /\ Depth'[N + 1] = Depth[N] + (IF Opens(c) THEN 1 ELSE IF Closes(c) THEN -1 ELSE 0)
    <3>1. log' = Append(log, c)
      BY <2>1
    <3> HIDE DEF c
    <3> QED BY <2>0, <2>2, <2>3, <3>1, LogGrows
  <2>7. /\ Len(head) = W + T /\ SubSeq(head, 1, Len(head)) = head
        /\ \A j \in 1..W : head[j] = StringWords(addr)[j]
        /\ \A j \in 1..T : head[W + j] = TagWords(TagBytes(num))[j]
    <3>1. StringWords(addr) = [j \in 1..W |-> StringWords(addr)[j]]
      BY DEF StringWords
    <3>2. TagWords(TagBytes(num)) = [j \in 1..T |-> TagWords(TagBytes(num))[j]]
      BY DEF TagWords, T
    <3> DEFINE s == StringWords(addr)
               t == TagWords(TagBytes(num))
    <3>3. head = s \o t
      OBVIOUS
    <3>7. s = [j \in 1..W |-> s[j]] /\ t = [j \in 1..T |-> t[j]]
      BY <3>1, <3>2
    <3> HIDE DEF s, t, head, W, c
    <3>4. /\ Len(s \o t) = W + T
          /\ s \o t = [j \in 1..(W + T) |-> (s \o t)[j]]
          /\ \A j \in 1..W : (s \o t)[j] = s[j]
          /\ \A j \in 1..T : (s \o t)[W + j] = t[j]
      BY <2>4, <3>7, ConcatWords, SMTT(30)
    <3>5. head = [j \in 1..(W + T) |-> head[j]] /\ W + T \in Nat
      BY <2>4, <3>3, <3>4
    <3>6. SubSeq(head, 1, W + T) = head
      BY <3>5, WholeSequence
    <3> QED BY <3>3, <3>4, <3>6 DEF s, t
  <2> HIDE DEF head, W
  <2>8. /\ Start(N + 1)' = start /\ Predicted'[N + 1] = pos' /\ Depth'[N + 1] = bundles + 1
        /\ start \in Nat /\ start >= pos /\ (N > 0 => start - 1 = pos)
    <3>1. Start(N + 1)' = start
      BY <2>2, <2>3, <2>5, <2>6
    <3>2. start \in Nat /\ start >= pos /\ (nested => start - 1 = pos)
      BY <2>2
    <3> HIDE DEF start, nested, c
    <3>3. Predicted'[N + 1] = pos'
      BY <2>1, <2>4, <2>6, <2>7, <3>1
    <3>4. Depth'[N + 1] = bundles + 1
      BY <2>2, <2>3, <2>6
    <3> QED BY <2>5, <3>1, <3>2, <3>3, <3>4
  <2> HIDE DEF start
  <2>9. /\ \A j \in 1..(W + T) : mem'[start + j - 1] = head[j]
        /\ \A p \in 0..(pos - 1) : mem'[p] = mem[p]
    <3>1. pos' <= cap
      BY <1>0, <2>1 DEF IInv, TypeOK
    <3>2. mem' = Overwrite(mem, start, head) /\ Len(head) \in Nat /\ start + Len(head) <= cap
      <4> HIDE DEF c
      <4>1. W + T \in Nat
        BY <2>4
      <4>2. mem' = Overwrite(mem, start, head) /\ pos' = start + Len(head)
        BY <2>1, <2>7
      <4> QED BY <2>7, <3>1, <4>1, <4>2
    <3>3. cap \in Nat /\ DOMAIN mem = 0..(cap - 1) /\ start \in Nat
      BY <2>2, <2>8
    <3>4. /\ \A j \in 1..Len(head) : mem'[start + j - 1] = head[j]
          /\ \A i \in 0..(cap - 1) : i < start \/ i >= start + Len(head) => mem'[i] = mem[i]
      BY <3>2, <3>3, OverwriteProperties
    <3>5. \A p \in 0..(pos - 1) : p \in 0..(cap - 1) /\ p < start
      BY <2>2, <2>8
    <3> QED BY <2>7, <3>4, <3>5
  <2>10. log' = Append(log, c) /\ ~threw /\ miscounted' = miscounted /\ threw' = threw
    BY <2>1
  <2>11. GrammarInv'
    <3> HIDE DEF c
    <3> QED BY <2>1, <2>3, GrammarGrows DEF LayoutInv
  <2>12. DepthInv'
    <3>1. N > 0 => Depth[N] >= 1
      BY <2>2, <2>5
    <3>2. Depth'[N + 1] = bundles' + (IF inMessage' THEN 1 ELSE 0)
      BY <2>1, <2>8
    <3> HIDE DEF c
    <3> QED BY <2>0, <2>2, <2>3, <2>10, <3>1, <3>2, DepthGrows DEF LayoutInv
  <2>13. OpenInv'
    <3>1. chain' = chain /\ OpenInv
      BY <2>1 DEF LayoutInv
    <3>2. Len(chain') > 0 => Depth'[N + 1] >= Len(chain') + 1
      <4>1. bundles \in Nat /\ Len(chain) = IF bundles = 0 THEN 0 ELSE bundles - 1
        BY <2>2
      <4> QED BY <2>8, <3>1, <4>1
    <3>3. \A d \in 1..Len(chain') : d <= Len(chain) /\ chain'[d] = chain[d]
      <4>1. Len(chain) \in Nat
        BY <2>2
      <4> QED BY <3>1, <4>1
    <3>4. chain' \in Seq(Nat)
      BY <2>2, <3>1
    <3> HIDE DEF c
    <3> QED BY <2>0, <2>2, <2>3, <2>10, <3>1, <3>2, <3>3, <3>4, OpenGrows
  <2>14. OpenMessageInv'
    <3>1. N + 1 \in DOMAIN log' /\ N + 1 \in 1..(N + 1)
      BY <2>2, <2>6
    <3>2. \A j \in (N + 1)..Len(log') : j = N + 1
      BY <2>2, <2>6
    <3>3. \A j \in (N + 1 + 1)..Len(log') : FALSE
      BY <2>2, <2>6
    <3>4. IF N + 1 > 1 THEN inBundle' > 0 /\ sizePosM' = Start(N + 1)' - 1 ELSE inBundle' = 0
      <4>1. CASE N > 0
        BY <2>1, <2>2, <2>5, <2>8, <4>1
      <4>2. CASE ~(N > 0)
        BY <2>1, <2>2, <2>5, <4>2
      <4> QED BY <2>2, <4>1, <4>2
    <3>5. tags' = [at |-> Start(N + 1)' + WordsOf[log'[N + 1][2]], size |-> TagBytes(log'[N + 1][3]),
                   len |-> Len(log') - (N + 1) + 1]
      <4>1. Len(log') - (N + 1) + 1 = 1
        BY <2>2, <2>6
      <4> QED BY <2>1, <2>3, <2>6, <2>8, <4>1 DEF W
    <3>6. \A j \in (N + 1)..Len(log') : Depth'[j] = bundles' + 1
      BY <2>1, <2>8, <3>2
    <3>7. IsOpenMessage(N + 1)'
      BY <2>3, <2>6, <3>3, <3>4, <3>5, <3>6 DEF IsOpenMessage, IsArgument
    <3> QED BY <3>1, <3>7 DEF OpenMessageInv
  <2>15. CountsInv'
    <3>1. CASE miscounted
      BY <2>10, <3>1 DEF CountsInv
    <3>2. CASE ~miscounted
      <4> HIDE DEF c
      <4> QED BY <2>0, <2>2, <2>3, <2>10, <3>2, CountsGrow DEF LayoutInv
    <3> QED BY <3>1, <3>2
  <2>16. SizesPredicted'
    BY <2>6, <2>8 DEF SizesPredicted
  <2>17. LaidOut'
    <3>1. /\ \A i \in 1..N : Intact(i)'
          /\ \A i \in 2..N : Opens(log[i]) => mem'[Start(i) - 1] = mem[Start(i) - 1]
      <4> HIDE DEF c
      <4> QED BY <2>0, <2>3, <2>9, <2>10, WrittenStays
    <3>2. Intact(N + 1)'
      <4>1. Holds(Start(N + 1), StringWords(log[N + 1][2]))'
        <5>1. Len(StringWords(addr)) = W
          BY <2>4 DEF StringWords, W
        <5>2. \A j \in 1..W : j \in 1..(W + T)
          BY <2>4
        <5>3. \A j \in 1..W : mem'[start + j - 1] = StringWords(addr)[j]
          BY <2>7, <2>9, <5>2
        <5> QED BY <2>3, <2>6, <2>8, <5>1, <5>3 DEF Holds, StringWords
      <4>2. HoldsTags(Start(N + 1) + WordsOf[log[N + 1][2]], N + 1)'
        <5>1. ASSUME NEW j \in 0..(T - 1)
              PROVE  mem'[start + W + j] = <<"tags", [d \in 1..4 |-> TagByte(N + 1, 4 * j + d - 1)']>>
          <6>1. W + (j + 1) \in 1..(W + T) /\ start + (W + (j + 1)) - 1 = start + W + j /\ j + 1 \in 1..T
            BY <2>4, <2>8
          <6>2. mem'[start + W + j] = TagWords(TagBytes(num))[j + 1]
            BY <2>7, <2>9, <6>1
          <6>3. j \in 0..(WordsFor(TagBytes(num)) - 1)
            BY DEF T
          <6> QED BY <2>2, <2>4, <2>6, <6>2, <6>3, FirstTags
        <5> QED BY <2>3, <2>6, <2>8, <5>1 DEF HoldsTags, T, W
      <4> QED BY <2>3, <2>6, <4>1, <4>2 DEF Intact, IsArgument
    <3>3. \A i \in 1..(N + 1) : Intact(i)'
      BY <2>2, <3>1, <3>2
    <3> HIDE DEF c
    <3> QED BY <2>0, <2>2, <2>3, <2>10, <3>1, <3>3, LaidOutGrows DEF LayoutInv
  <2> QED BY <1>0, <2>11, <2>12, <2>13, <2>14, <2>15, <2>16, <2>17 DEF LayoutInv
<1> QED BY <1>1, <1>2

\* A byte, its word and its place in the word.
LEMMA PlaceInWord ==
    ASSUME NEW l \in Nat
    PROVE  l \div 4 \in Nat /\ l % 4 \in 0..3 /\ l = 4 * (l \div 4) + (l % 4)
<1>1. l \div 4 \in Nat
  BY SMT
<1>2. l % 4 \in 0..3
  BY SMT
<1>3. l = 4 * (l \div 4) + (l % 4)
  BY SMT
<1> QED BY <1>1, <1>2, <1>3

\* The word and the place in it of a byte of the tags.
LEMMA WhichByte ==
    ASSUME NEW l \in Nat, NEW k \in Nat
    PROVE  /\ (l % 4) + 1 \in 1..4
           /\ \A d \in 1..4 : (4 * k + d - 1 = l) <=> (k = l \div 4 /\ d = (l % 4) + 1)
<1> DEFINE q == l \div 4
           r == l % 4
<1>1. q \in Nat /\ r \in 0..3 /\ l = 4 * q + r
  BY PlaceInWord
<1> HIDE DEF q, r
<1>2. r + 1 \in 1..4
  BY <1>1
<1>3. \A d \in 1..4 : (4 * k + d - 1 = l) <=> (k = q /\ d = r + 1)
  BY <1>1
<1> QED BY <1>2, <1>3 DEF q, r

\* The next tag takes its byte of the tags.
LEMMA NextTag ==
    ASSUME log \in Seq(Calls), NEW c \in Calls, IsArgument(c), log' = Append(log, c),
           NEW N, N = Len(log), NEW i \in 1..N, \A k \in (i + 1)..N : IsArgument(log[k]),
           NEW b \in Nat
    PROVE  TagByte(i, b)' = IF b = N - i + 1 THEN c[1] ELSE TagByte(i, b)
<1> DEFINE l == N - i + 1
<1>1. /\ N \in Nat /\ DOMAIN log' = 1..(N + 1) /\ log'[N + 1] = c
      /\ \A j \in 1..N : log'[j] = log[j]
  BY LogGrows
<1>2. l \in Nat
  BY <1>1
<1>3. ASSUME b # l
      PROVE  TagByte(i, b)' = TagByte(i, b)
  <2>1. b \in Nat /\ i + b # N + 1
    BY <1>1, <1>3
  <2> QED BY <2>1, TagsStay
<1>4. TagByte(i, l)' = c[1]
  <2>1. i + l = N + 1 /\ i + l \in DOMAIN log' /\ l # 0
    BY <1>1
  <2>2. \A j \in (i + 1)..(i + l) : IsArgument(log'[j])
    <3> SUFFICES ASSUME NEW j \in (i + 1)..(i + l) PROVE IsArgument(log'[j])
      OBVIOUS
    <3>1. CASE j = N + 1
      BY <1>1, <3>1
    <3>2. CASE j # N + 1
      <4>1. j \in (i + 1)..N /\ j \in 1..N
        BY <1>1, <2>1, <3>2
      <4> QED BY <1>1, <4>1
    <3> QED BY <3>1, <3>2
  <2>3. TagByte(i, l)' = IF l = 0 THEN "," ELSE
            IF i + l \in DOMAIN log' /\ \A j \in (i + 1)..(i + l) : IsArgument(log'[j])
            THEN log'[i + l][1] ELSE ""
    BY DEF TagByte, IsArgument
  <2> QED BY <1>1, <2>1, <2>2, <2>3
<1> QED BY <1>3, <1>4

\* The arguments preserve it.
LEMMA PutLayout ==
    ASSUME LayoutInv, NEW a \in Arguments, Put(a)
    PROVE  LayoutInv'
<1> DEFINE n == Fitting(Len(a.words), a.cuts, pos)
           c == <<a.tag, a.words>>
           Z == Len(a.words)
<1>0. IInv'
  BY PutStep DEF LayoutInv
<1>1. CASE Throw
  BY <1>0, <1>1, ThrowLayout
<1>2. CASE ~Throw
  <2>1. /\ ~threw /\ inMessage
        /\ UNCHANGED <<cap, sizePosM, inBundle, chain, bundles, inMessage, threw, miscounted>>
        /\ tags.len < tags.size
        /\ mem' = Overwrite(TagPut(a.tag), pos, SubSeq(a.words, 1, Z))
        /\ pos' = pos + Z
        /\ tags' = [tags EXCEPT !.len = tags.len + 1]
        /\ log' = Append(log, c)
    <3>1. /\ ~threw /\ inMessage
          /\ UNCHANGED <<cap, sizePosM, inBundle, chain>>
          /\ tags.len < tags.size
          /\ mem' = Overwrite(TagPut(a.tag), pos, SubSeq(a.words, 1, n))
          /\ pos' = pos + n
          /\ tags' = [tags EXCEPT !.len = tags.len + 1]
          /\ IF n = Z
             THEN /\ log' = Append(log, c)
                  /\ UNCHANGED <<bundles, inMessage, threw, miscounted>>
             ELSE Throw
      BY <1>2 DEF Put, MayWrite
    <3> HIDE DEF n, c
    <3>2. n = Z
      BY <1>2, <3>1
    <3> QED BY <3>1, <3>2
  <2> HIDE DEF n
  <2>0. PICK N : N = Len(log)
    OBVIOUS
  <2>2. /\ N \in Nat /\ log \in Seq(Calls) /\ DOMAIN log = 1..N
        /\ cap \in Nat /\ pos \in Nat /\ pos <= cap /\ DOMAIN mem = 0..(cap - 1)
        /\ inBundle \in Nat /\ bundles = inBundle /\ pos = Predicted[N]
        /\ chain \in Seq(Nat) /\ Len(chain) = IF inBundle = 0 THEN 0 ELSE inBundle - 1
        /\ Depth[N] = bundles + 1
    <3>1. ~threw /\ inMessage
      BY <2>1
    <3> HIDE DEF c, Z
    <3> QED BY <2>0, <3>1, LayoutFacts
  <2>3. /\ c \in Calls /\ IsArgument(c) /\ c[1] = a.tag /\ c[2] = a.words
        /\ SizeOf(c) = Z /\ Z \in Nat /\ a.words = [k \in 1..Z |-> a.words[k]]
    BY ArgumentWords DEF Calls
  <2>4. ~Opens(c) /\ ~Closes(c) /\ Inside(c) /\ c[1] # "bundle" /\ c[1] # "message" /\ c[1] # "close"
    BY <2>3 DEF Opens, Closes, IsArgument, Inside
  <2> HIDE DEF Z, c
  <2>5. /\ DOMAIN log' = 1..(N + 1) /\ Len(log') = N + 1 /\ log'[N + 1] = c
        /\ \A i \in 1..N : log'[i] = log[i] /\ Start(i)' = Start(i)
        /\ \A i \in 0..N : Depth'[i] = Depth[i]
        /\ Start(N + 1)' = Predicted[N] + (IF Opens(c) /\ N > 0 THEN 1 ELSE 0)
        /\ Predicted'[N + 1] = Start(N + 1)' + SizeOf(c)
        /\ Depth'[N + 1] = Depth[N] + (IF Opens(c) THEN 1 ELSE IF Closes(c) THEN -1 ELSE 0)
    <3>1. log' = Append(log, c)
      BY <2>1
    <3> QED BY <2>0, <2>2, <2>3, <3>1, LogGrows, ZenonT(30)
  <2>6. Start(N + 1)' = pos /\ Predicted'[N + 1] = pos' /\ Depth'[N + 1] = bundles + 1
    <3>1. Start(N + 1)' = pos
      BY <2>2, <2>4, <2>5
    <3>2. Depth'[N + 1] = bundles + 1
      BY <2>2, <2>4, <2>5
    <3> QED BY <2>1, <2>3, <2>5, <3>1, <3>2
  <2>7. PICK m \in DOMAIN log : IsOpenMessage(m)
    BY <2>1 DEF LayoutInv, OpenMessageInv
  <2> DEFINE W == WordsOf[log[m][2]]
             T == WordsFor(TagBytes(log[m][3]))
             l == tags.len
             w == Start(m) + W + (l \div 4)
  <2>8. /\ m \in 1..N /\ log[m][1] = "message" /\ ~IsArgument(log[m])
        /\ \A k \in (m + 1)..N : IsArgument(log[k])
        /\ \A k \in m..N : Depth[k] = bundles + 1
        /\ IF m > 1 THEN inBundle > 0 /\ sizePosM = Start(m) - 1 ELSE inBundle = 0
        /\ tags = [at |-> Start(m) + W, size |-> TagBytes(log[m][3]), len |-> N - m + 1]
    BY <2>0, <2>2, <2>7 DEF IsOpenMessage, IsArgument
  <2>9. /\ W \in Nat /\ W >= 1 /\ T \in Nat /\ log[m][3] \in Nat
        /\ Start(m) \in Nat /\ Predicted[m] = Start(m) + W + T
        /\ Predicted[m] <= pos /\ Intact(m)
    <3>1. log[m] \in Calls
      BY <2>2
    <3>2. W \in Nat /\ W >= 1 /\ T \in Nat /\ log[m][3] \in Nat /\ SizeOf(log[m]) = W + T
      BY <2>8, <3>1, CallProperties
    <3>3. Start(m) \in Nat /\ Predicted[m] = Start(m) + SizeOf(log[m])
      BY <2>0, <2>2, <2>8, Places
    <3>4. Predicted[m] <= pos
      BY <2>0, <2>2, <2>8, Geometry
    <3>5. Intact(m)
      BY <2>1 DEF LayoutInv, LaidOut
    <3> QED BY <3>2, <3>3, <3>4, <3>5
  <2> HIDE DEF W
  <2>10. l \in Nat /\ l = N - m + 1 /\ l \div 4 \in 0..(T - 1)
    <3>1. l = N - m + 1 /\ l \in Nat
      BY <2>2, <2>8
    <3>2. l < TagBytes(log[m][3]) /\ TagBytes(log[m][3]) \in Nat
      BY <2>1, <2>8, <2>9, SMTT(30) DEF TagBytes
    <3> HIDE DEF l
    <3>3. l \div 4 \in 0..(T - 1)
      BY <3>1, <3>2 DEF WordsFor
    <3> QED BY <3>1, <3>3
  <2>11. mem[w] = <<"tags", [d \in 1..4 |-> TagByte(m, 4 * (l \div 4) + d - 1)]>>
    <3>1. HoldsTags(Start(m) + W, m)
      BY <2>8, <2>9 DEF Intact, W
    <3> QED BY <2>10, <3>1 DEF HoldsTags
  <2> DEFINE old == [d \in 1..4 |-> TagByte(m, 4 * (l \div 4) + d - 1)]
             new == <<"tags", [old EXCEPT ![(l % 4) + 1] = a.tag]>>
  <2>12. TagPut(a.tag) = Overwrite(mem, w, <<new>>)
    <3>1. tags.at + (l \div 4) = w
      BY <2>8
    <3>2. mem[w][2] = old
      BY <2>11
    <3>3. TagPut(a.tag) = Overwrite(mem, tags.at + (l \div 4),
            <<<<"tags", [mem[tags.at + (l \div 4)][2] EXCEPT ![(l % 4) + 1] = a.tag]>>>>)
      BY DEF TagPut
    <3> QED BY <3>1, <3>2, <3>3
  <2>13. w \in Nat /\ w < pos /\ w < cap /\ w >= Start(m) + W /\ w < Predicted[m]
    <3> DEFINE q == l \div 4
    <3>1. q \in 0..(T - 1)
      BY <2>10
    <3>2. w = Start(m) + W + q
      OBVIOUS
    <3> HIDE DEF l, T, q, w
    <3>3. w \in Nat /\ w >= Start(m) + W /\ w < Predicted[m]
      BY <2>9, <3>1, <3>2
    <3>4. Predicted[m] \in Nat /\ pos \in Nat /\ cap \in Nat /\ Predicted[m] <= pos /\ pos <= cap
      BY <2>2, <2>9, SMTT(30)
    <3> QED BY <3>3, <3>4
  <2> HIDE DEF w, new
  <2>14. /\ \A p \in 0..(pos - 1) : p # w => mem'[p] = mem[p]
         /\ mem'[w] = new
         /\ \A k \in 1..Z : mem'[pos + k - 1] = a.words[k]
    <3>0. cap \in Nat /\ DOMAIN mem = 0..(cap - 1) /\ pos \in Nat /\ pos <= cap
      BY <2>2
    <3>1. /\ \A i \in 0..(cap - 1) : i # w => TagPut(a.tag)[i] = mem[i]
          /\ TagPut(a.tag)[w] = new
      BY <2>12, <2>13, <3>0, OneWordOverwritten
    <3>2. DOMAIN TagPut(a.tag) = 0..(cap - 1)
      BY <2>12, <3>0, OverwriteDomain
    <3>3. SubSeq(a.words, 1, Z) = a.words /\ Len(a.words) = Z
      BY <2>3, WholeSequence
    <3>4. pos' <= cap
      BY <1>0, <2>1 DEF IInv, TypeOK
    <3>5. mem' = Overwrite(TagPut(a.tag), pos, a.words) /\ Len(a.words) \in Nat
          /\ pos + Len(a.words) <= cap
      BY <2>1, <2>3, <3>3, <3>4
    <3> DEFINE M == TagPut(a.tag)
    <3> HIDE DEF M
    <3>6. /\ \A k \in 1..Len(a.words) : mem'[pos + k - 1] = a.words[k]
          /\ \A i \in 0..(cap - 1) : i < pos \/ i >= pos + Len(a.words) => mem'[i] = TagPut(a.tag)[i]
      BY <3>0, <3>2, <3>5, OverwriteProperties
    <3>7. \A p \in 0..(pos - 1) : p \in 0..(cap - 1) /\ p < pos
      BY <3>0
    <3>8. w \in 0..(cap - 1) /\ w < pos
      BY <2>13, <3>0
    <3> QED BY <3>1, <3>3, <3>6, <3>7, <3>8
  <2>15. log' = Append(log, c) /\ ~threw /\ miscounted' = miscounted /\ threw' = threw /\ bundles' = bundles
    BY <2>1
  <2>16. GrammarInv'
    <3>1. (IsArgument(c) \/ c[1] = "close") <=> inMessage
      BY <2>1, <2>3
    <3>2. inMessage' <=> Inside(c)
      BY <2>1, <2>4
    <3> QED BY <2>3, <2>15, <3>1, <3>2, GrammarGrows DEF LayoutInv
  <2>17. DepthInv'
    <3>1. Depth[N] >= 1
      BY <2>2
    <3>2. Depth'[N + 1] = bundles' + (IF inMessage' THEN 1 ELSE 0)
      BY <2>1, <2>2, <2>6
    <3> QED BY <2>0, <2>2, <2>3, <2>15, <3>1, <3>2, DepthGrows DEF LayoutInv
  <2>18. OpenInv'
    <3>1. chain' = chain /\ OpenInv
      BY <2>1 DEF LayoutInv
    <3>2. Len(chain') > 0 => Depth'[N + 1] >= Len(chain') + 1
      <4>1. bundles \in Nat /\ Len(chain) = IF bundles = 0 THEN 0 ELSE bundles - 1
        BY <2>2
      <4> QED BY <2>6, <3>1, <4>1
    <3>3. \A d \in 1..Len(chain') : d <= Len(chain) /\ chain'[d] = chain[d]
      <4>1. Len(chain) \in Nat
        BY <2>2
      <4> QED BY <3>1, <4>1
    <3>4. chain' \in Seq(Nat)
      BY <2>2, <3>1
    <3> QED BY <2>0, <2>2, <2>3, <2>15, <3>1, <3>2, <3>3, <3>4, OpenGrows
  <2>19. OpenMessageInv'
    <3>1. m \in DOMAIN log' /\ m \in 1..N /\ log'[m] = log[m] /\ Start(m)' = Start(m)
      BY <2>2, <2>5, <2>8
    <3>2. ASSUME NEW k \in (m + 1)..Len(log') PROVE IsArgument(log'[k])
      <4>1. k = N + 1 \/ (k \in (m + 1)..N /\ k \in 1..N)
        BY <2>2, <2>5, <2>8
      <4> QED BY <2>3, <2>5, <2>8, <4>1
    <3>3. ASSUME NEW k \in m..Len(log') PROVE Depth'[k] = bundles' + 1
      <4>1. k = N + 1 \/ (k \in m..N /\ k \in 0..N)
        BY <2>2, <2>5, <2>8
      <4> QED BY <2>5, <2>6, <2>8, <2>15, <4>1
    <3>4. IF m > 1 THEN inBundle' > 0 /\ sizePosM' = Start(m)' - 1 ELSE inBundle' = 0
      BY <2>1, <2>8, <3>1
    <3>5. tags' = [at |-> Start(m)' + WordsOf[log'[m][2]], size |-> TagBytes(log'[m][3]),
                   len |-> Len(log') - m + 1]
      <4>1. N - m + 1 + 1 = Len(log') - m + 1
        BY <2>2, <2>5
      <4> QED BY <2>1, <2>8, <3>1, <4>1 DEF W
    <3>6. IsOpenMessage(m)'
      BY <2>8, <3>1, <3>2, <3>3, <3>4, <3>5 DEF IsOpenMessage, IsArgument
    <3> QED BY <3>1, <3>6 DEF OpenMessageInv
  <2>20. CountsInv'
    <3>1. CASE miscounted
      BY <2>15, <3>1 DEF CountsInv
    <3>2. CASE ~miscounted
      BY <2>0, <2>2, <2>3, <2>4, <2>15, <3>2, CountsGrow DEF LayoutInv
    <3> QED BY <3>1, <3>2
  <2>21. SizesPredicted'
    BY <2>5, <2>6 DEF SizesPredicted
  <2>22. LaidOut'
    <3>0. /\ \A i \in 1..N : Start(i) <= Predicted[i] /\ Predicted[i] <= Predicted[N]
          /\ \A i, j \in 1..N : i < j => Predicted[i] <= Start(j)
          /\ \A i \in 2..N : Opens(log[i]) => Start(i) - 1 \in Nat /\ Start(i) < Predicted[i]
          /\ \A i \in 2..N, j \in 1..N :
               Opens(log[i]) => Start(i) - 1 \notin Start(j)..(Predicted[j] - 1)
      BY <2>0, <2>2, Geometry
    <3>1. \A i \in 1..N : Start(i) \in Nat /\ Predicted[i] \in Nat
      <4>1. \A i \in 1..N : i \in 0..N
        BY <2>2
      <4> QED BY <2>0, <2>2, <4>1, Places
    <3>2. ASSUME NEW i \in 1..N, i # m PROVE Intact(i)'
      <4>1. Intact(i)
        BY <2>1, <2>2 DEF LayoutInv, LaidOut
      <4>2. i < m \/ m < i
        BY <2>2, <2>8, <3>2
      <4>3. ASSUME NEW p \in Start(i)..(Predicted[i] - 1) PROVE mem'[p] = mem[p]
        <5>1. Start(i) \in Nat /\ Predicted[i] \in Nat /\ Predicted[i] <= pos
          BY <2>2, <3>0, <3>1
        <5>2. p \in 0..(pos - 1)
          BY <2>2, <5>1, SMTT(30)
        <5>3. p # w
          <6>1. i < m => Predicted[i] <= Start(m)
            BY <2>8, <3>0
          <6>2. m < i => Predicted[m] <= Start(i)
            BY <2>8, <3>0
          <6>3. Start(m) \in Nat /\ Predicted[m] \in Nat /\ W \in Nat
            BY <2>8, <2>9, <3>1
          <6> QED BY <2>13, <4>2, <5>1, <6>1, <6>2, <6>3
        <5> QED BY <2>14, <5>2, <5>3
      <4>4. \/ \E k \in (i + 1)..N : ~IsArgument(log[k])
            \/ log[i][1] # "message"
        <5>1. CASE i < m
          <6>1. m \in (i + 1)..N
            BY <2>2, <2>8, <5>1
          <6> QED BY <2>8, <6>1
        <5>2. CASE m < i
          <6>1. i \in (m + 1)..N
            BY <2>2, <2>8, <5>2
          <6> QED BY <2>8, <6>1 DEF IsArgument
        <5> QED BY <4>2, <5>1, <5>2
      <4> QED BY <2>0, <2>2, <2>3, <2>15, <4>1, <4>3, <4>4, IntactStays
    <3>3. Intact(m)'
      <4>1. log'[m] = log[m] /\ Start(m)' = Start(m)
        BY <2>5, <2>8
      <4>2. Holds(Start(m), StringWords(log[m][2]))'
        <5>1. Len(StringWords(log[m][2])) = W
          BY <2>9 DEF StringWords, W
        <5>2. Holds(Start(m), StringWords(log[m][2]))
          BY <2>8, <2>9 DEF Intact
        <5>3. ASSUME NEW k \in 1..W PROVE mem'[Start(m) + k - 1] = StringWords(log[m][2])[k]
          <6>1. Start(m) + k - 1 \in 0..(pos - 1) /\ Start(m) + k - 1 # w
            <7>1. W \in Nat /\ T \in Nat /\ Start(m) \in Nat /\ pos \in Nat
                  /\ Start(m) + W + T <= pos
              BY <2>2, <2>9
            <7>2. w \in Nat /\ w >= Start(m) + W
              BY <2>13
            <7> HIDE DEF T, l
            <7> QED BY <7>1, <7>2
          <6>2. mem[Start(m) + k - 1] = StringWords(log[m][2])[k]
            BY <5>1, <5>2 DEF Holds
          <6> QED BY <2>14, <6>1, <6>2
        <5> QED BY <4>1, <5>1, <5>3 DEF Holds, StringWords
      <4>3. HoldsTags(Start(m) + WordsOf[log[m][2]], m)'
        <5>1. ASSUME NEW k \in 0..(T - 1)
              PROVE  mem'[Start(m) + W + k] = <<"tags", [d \in 1..4 |-> TagByte(m, 4 * k + d - 1)']>>
          <6>0. PICK word : word = [d \in 1..4 |-> TagByte(m, 4 * k + d - 1)]
            OBVIOUS
          <6>1. mem[Start(m) + W + k] = <<"tags", word>>
            <7>1. HoldsTags(Start(m) + W, m)
              BY <2>8, <2>9 DEF Intact, W
            <7> QED BY <6>0, <7>1 DEF HoldsTags
          <6>2. ASSUME NEW d \in 1..4
                PROVE  TagByte(m, 4 * k + d - 1)' =
                         IF k = l \div 4 /\ d = (l % 4) + 1 THEN c[1] ELSE word[d]
            <7>1. k \in Nat /\ word[d] = TagByte(m, 4 * k + d - 1)
              BY <2>9, <6>0
            <7>2. l \in Nat /\ l = N - m + 1
              BY <2>10
            <7>3. log \in Seq(Calls) /\ c \in Calls /\ IsArgument(c) /\ log' = Append(log, c)
              BY <2>2, <2>3, <2>15
            <7>4. N = Len(log) /\ m \in 1..N /\ \A j \in (m + 1)..N : IsArgument(log[j])
              BY <2>0, <2>8
            <7> HIDE DEF l, T
            <7>5. \A b \in Nat : TagByte(m, b)' = IF b = l THEN c[1] ELSE TagByte(m, b)
              BY <7>2, <7>3, <7>4, NextTag
            <7>6. 4 * k + d - 1 \in Nat
              BY <7>1
            <7>7. (4 * k + d - 1 = l) <=> (k = l \div 4 /\ d = (l % 4) + 1)
              BY <7>1, <7>2, WhichByte
            <7> DEFINE b == 4 * k + d - 1
            <7> HIDE DEF b
            <7>8. TagByte(m, b)' = IF b = l THEN c[1] ELSE TagByte(m, b)
              BY <7>5, <7>6 DEF b
            <7> QED BY <7>1, <7>7, <7>8 DEF b
          <6>3. CASE k = l \div 4
            <7>1. Start(m) + W + k = w
              BY <6>3 DEF w
            <7>2. new = <<"tags", [word EXCEPT ![(l % 4) + 1] = c[1]]>>
              BY <2>3, <6>0, <6>3 DEF new
            <7>3. (l % 4) + 1 \in 1..4
              BY <2>10, WhichByte
            <7>4. [word EXCEPT ![(l % 4) + 1] = c[1]]
                    = [d \in 1..4 |-> IF d = (l % 4) + 1 THEN c[1] ELSE word[d]]
              BY <6>0, <7>3
            <7>5. [d \in 1..4 |-> TagByte(m, 4 * k + d - 1)']
                    = [d \in 1..4 |-> IF d = (l % 4) + 1 THEN c[1] ELSE word[d]]
              BY <6>2, <6>3
            <7> QED BY <2>14, <7>1, <7>2, <7>4, <7>5
          <6>4. CASE k # l \div 4
            <7>1. Start(m) + W + k # w
              <8> DEFINE q == l \div 4
              <8>1. q \in Nat /\ w = Start(m) + W + q /\ k # q
                BY <2>10, <6>4 DEF w
              <8> HIDE DEF q, l
              <8> QED BY <2>9, <8>1
            <7>2. Start(m) + W + k \in 0..(pos - 1)
              <8>1. W \in Nat /\ T \in Nat /\ Start(m) \in Nat /\ pos \in Nat
                    /\ Start(m) + W + T <= pos
                BY <2>2, <2>9
              <8> HIDE DEF l, T
              <8> QED BY <8>1
            <7>3. [d \in 1..4 |-> TagByte(m, 4 * k + d - 1)'] = word
              BY <6>0, <6>2, <6>4
            <7> QED BY <2>14, <6>1, <7>1, <7>2, <7>3
          <6> QED BY <6>3, <6>4
        <5> QED BY <4>1, <5>1 DEF HoldsTags, W
      <4> QED BY <2>8, <4>1, <4>2, <4>3 DEF Intact, IsArgument
    <3>4. Intact(N + 1)'
      <4>1. Holds(Start(N + 1), log[N + 1][2])'
        <5>1. Len(a.words) = Z /\ log'[N + 1][2] = a.words
          BY <2>3, <2>5 DEF Z
        <5> QED BY <2>6, <2>14, <5>1 DEF Holds
      <4> QED BY <2>4, <2>5, <4>1 DEF Intact, IsArgument
    <3>5. \A i \in 1..(N + 1) : Intact(i)'
      <4>1. N \in Nat
        BY <2>2
      <4> QED BY <3>2, <3>3, <3>4, <4>1
    <3>6. ASSUME NEW i \in 2..N, Opens(log[i]) PROVE mem'[Start(i) - 1] = mem[Start(i) - 1]
      <4>1. i \in 1..N
        BY <2>2
      <4>2. Start(i) - 1 \in Nat /\ Start(i) < Predicted[i] /\ Predicted[i] <= pos
            /\ Start(i) \in Nat /\ Predicted[i] \in Nat
        BY <2>2, <3>0, <3>1, <3>6, <4>1
      <4>3. Start(i) - 1 \in 0..(pos - 1)
        BY <2>2, <4>2, SMTT(30)
      <4>4. Start(i) - 1 # w
        <5>1. w \in Start(m)..(Predicted[m] - 1)
          BY <2>8, <2>9, <2>13, <3>1
        <5>2. Start(i) - 1 \notin Start(m)..(Predicted[m] - 1)
          BY <2>8, <3>0, <3>6
        <5> QED BY <5>1, <5>2
      <4> QED BY <2>14, <4>3, <4>4
    <3> QED BY <2>0, <2>2, <2>3, <2>4, <2>15, <3>5, <3>6, LaidOutGrows DEF LayoutInv
  <2> QED BY <1>0, <2>16, <2>17, <2>18, <2>19, <2>20, <2>21, <2>22 DEF LayoutInv
<1> QED BY <1>1, <1>2

\* The invariant of the layout is inductive.
LEMMA NextLayout == LayoutInv /\ [Next]_vars => LayoutInv'
<1> SUFFICES ASSUME LayoutInv, [Next]_vars PROVE LayoutInv'
  OBVIOUS
<1>1. CASE UNCHANGED vars
  <2> USE <1>1 DEF vars, packet, program
  <2>0. IInv'
    BY NextIInv DEF LayoutInv
  <2>1. /\ Depth' = Depth /\ Predicted' = Predicted
        /\ \A i : Prefix(i)' = Prefix(i)
    BY DEF Depth, Predicted, Opens, Closes, Prefix
  <2>2. \A i : Start(i)' = Start(i)
    BY <2>1 DEF Start
  <2>3. GrammarInv' /\ DepthInv'
    BY <2>1 DEF LayoutInv, GrammarInv, DepthInv, IsArgument, Inside
  <2>4. OpenInv'
    BY <2>1, <2>2 DEF LayoutInv, OpenInv
  <2>5. OpenMessageInv'
    BY <2>1, <2>2 DEF LayoutInv, OpenMessageInv, IsOpenMessage, IsArgument
  <2>6. CountsInv' /\ SizesPredicted'
    BY <2>1 DEF LayoutInv, CountsInv, SizesPredicted, IsArgument
  <2>7. \A i, b : TagByte(i, b)' = TagByte(i, b)
    BY DEF TagByte, IsArgument
  <2>8. \A i : Intact(i)' = Intact(i)
    BY <2>2, <2>7, ZenonT(30) DEF Intact, IsArgument, Holds, HoldsTags
  <2>9. \A i, j : Encloses(i, j)' = Encloses(i, j)
    BY <2>1 DEF Encloses
  <2>10. LaidOut'
    BY <2>1, <2>2, <2>8, <2>9 DEF LayoutInv, LaidOut, Opens, Closes
  <2> QED BY <2>0, <2>3, <2>4, <2>5, <2>6, <2>10 DEF LayoutInv
<1>2. CASE Next
  BY <1>2, OpenBundleLayout, CloseBundleLayout, OpenMessageLayout, CloseMessageLayout,
     PutLayout, ResetLayout DEF Next
<1> QED BY <1>1, <1>2

\* A packet takes exactly the bytes that OSCPP::Size predicts for its calls, at every
\* moment of its construction, for every nesting, every text and every size.
THEOREM SizesArePredicted == Spec => []SizesPredicted
<1>1. LayoutInv => SizesPredicted
  BY DEF LayoutInv
<1> QED BY <1>1, InitLayout, NextLayout, PTL DEF Spec

\* What openBundle, openMessage and the arguments have written stays in its place, and
\* every closed packet has its size before it, for every packet and every buffer.
THEOREM PacketsAreLaidOut == Spec => []LaidOut
<1>1. LayoutInv => LaidOut
  BY DEF LayoutInv
<1> QED BY <1>1, InitLayout, NextLayout, PTL DEF Spec
=============================================================================
