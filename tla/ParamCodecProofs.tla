--------------------------- MODULE ParamCodecProofs ---------------------------
(***************************************************************************)
(* parse pairs every value with its key on every struct of every length,   *)
(* and a filter that is sent what it published keeps what it has.          *)
(***************************************************************************)
EXTENDS ParamCodec, SequenceTheorems, TLAPS

\* The pairs of the struct p, among its first c fields, whose values are
\* understood, and a listing of them in order by the names ks and values vs.
UnderstoodOf(p, c) == {i \in 1..(c \div 2) : p[2 * i].type \in Supported}

IsListing(at, p, c, ks, vs) ==
    /\ at \in [1..Len(vs) -> UnderstoodOf(p, c)]
    /\ \A i, j \in 1..Len(vs) : i < j => at[i] < at[j]
    /\ \A k \in UnderstoodOf(p, c) : \E i \in 1..Len(vs) : at[i] = k
    /\ \A i \in 1..Len(vs) : /\ ks[i] = p[2 * at[i] - 1].val
                            /\ vs[i] = Decode(p[2 * at[i]])

\* The names before the last odd one and the values list the pairs; the odd one
\* is the key just read.
Listed ==
    WellFormed =>
        /\ \E at : IsListing(at, pod, count, keys, values)
        /\ count % 2 = 1 => keys[Len(keys)] = pod[count].val

\* Nothing is merged before the whole struct is read.
IInv ==
    /\ TypeOK
    /\ Aligned
    /\ HasField => merged = 0
    /\ Listed

\* The publication of a parameter vector is a struct of fields.
LEMMA PublicationIsStruct ==
    ASSUME NEW ps \in Seq(Entries)
    PROVE  add_to_pod_object(ps) \in Seq(Fields)
<1> DEFINE F(i) == IF i % 2 = 1 THEN [type |-> "String", val |-> ps[(i + 1) \div 2].name]
                   ELSE write_property_value(ps[i \div 2].value)
<1>1. Len(ps) \in Nat /\ 2 * Len(ps) \in Nat
  BY LenProperties
<1>2. ASSUME NEW i \in 1..(2 * Len(ps))
      PROVE  F(i) \in Fields
  <2>1. CASE i % 2 = 1
    <3>1. (i + 1) \div 2 \in 1..Len(ps)
      BY <1>1, <2>1
    <3>2. ps[(i + 1) \div 2] \in Entries
      BY <3>1, ElementOfSeq
    <3> QED BY <2>1, <3>2 DEF Entries, Fields
  <2>2. CASE i % 2 # 1
    <3>1. i \div 2 \in 1..Len(ps)
      BY <1>1, <2>2
    <3>2. ps[i \div 2] \in Entries
      BY <3>1, ElementOfSeq
    <3>3. ps[i \div 2].value \in Variants
      BY <3>2 DEF Entries
    <3>4. write_property_value(ps[i \div 2].value) \in Fields
      BY <3>3 DEF write_property_value, Variants, SpaType, Fields, SpaTypes
    <3> QED BY <2>2, <3>4
  <2> QED BY <2>1, <2>2
<1>3. [i \in 1..(2 * Len(ps)) |-> F(i)] \in Seq(Fields)
  BY <1>1, <1>2, IsASeq
<1> QED BY <1>3 DEF add_to_pod_object

\* A supported field decodes to a variant.
LEMMA DecodeType ==
    ASSUME NEW f \in Fields, f.type \in Supported
    PROVE  Decode(f) \in Variants
BY TextsAssumption DEF Fields, SpaTypes, Supported, Decode, Alternative, Nullopt, Variants

\* Keys and values take turns.
LEMMA Parity ==
    \A c \in Nat : /\ c % 2 = 0 => (c + 1) % 2 = 1
                  /\ c % 2 = 1 => (c + 1) % 2 = 0
OBVIOUS

\* Which pair a position belongs to.
LEMMA Halves ==
    \A c \in Nat : /\ c % 2 = 0 => (c + 1) \div 2 = c \div 2
                  /\ c % 2 = 1 => (c + 1) \div 2 = c \div 2 + 1 /\ 2 * (c \div 2) = c - 1
OBVIOUS

\* As far as both vectors go is as far as the values go.
LEMMA ZipIsValues ==
    ASSUME TypeOK, Aligned
    PROVE  /\ ZipLength = Len(values)
           /\ Len(keys) \in Nat /\ Len(values) \in Nat
           /\ Len(pod) \in Nat /\ count \in Nat
<1>1. Len(keys) \in Nat /\ Len(values) \in Nat /\ Len(pod) \in Nat
  BY LenProperties DEF TypeOK
<1>2. count \in Nat
  BY <1>1 DEF TypeOK
<1>3. count % 2 \in {0, 1}
  BY <1>2
<1> QED BY <1>1, <1>2, <1>3 DEF Aligned, ZipLength

\* The pairs parse returns are parameters.
LEMMA ResultType ==
    ASSUME TypeOK, Aligned, NEW i \in 1..ZipLength
    PROVE  Result[i] \in Entries
<1>1. i \in 1..Len(keys) /\ i \in 1..Len(values)
  BY ZipIsValues DEF ZipLength
<1>2. keys[i] \in Texts /\ values[i] \in Variants
  BY <1>1, ElementOfSeq DEF TypeOK
<1> QED BY <1>2 DEF Result, Entries

\* A merge changes the value of a parameter, or appends one.
LEMMA MergeType ==
    ASSUME NEW ps \in Seq(Entries), NEW u \in Entries
    PROVE  MergeOne(ps, u) \in Seq(Entries)
<1>1. Append(ps, u) \in Seq(Entries)
  BY AppendProperties
<1>2. ASSUME NEW k PROVE [ps EXCEPT ![k].value = u.value] \in Seq(Entries)
  <2> DEFINE qs == [ps EXCEPT ![k].value = u.value]
  <2>1. Len(ps) \in Nat /\ ps = [x \in 1..Len(ps) |-> ps[x]]
    BY LenProperties
  <2>2. qs = [x \in 1..Len(ps) |-> IF x = k THEN [ps[x] EXCEPT !.value = u.value] ELSE ps[x]]
    BY <2>1
  <2>3. ASSUME NEW x \in 1..Len(ps) PROVE qs[x] \in Entries
    <3>1. ps[x] \in Entries
      BY <2>3, ElementOfSeq
    <3>2. [ps[x] EXCEPT !.value = u.value] \in Entries
      BY <3>1 DEF Entries
    <3> QED BY <2>2, <3>1, <3>2
  <2> HIDE DEF qs
  <2>4. qs = [x \in 1..Len(ps) |-> qs[x]]
    BY <2>2
  <2>5. [x \in 1..Len(ps) |-> qs[x]] \in Seq(Entries)
    BY <2>1, <2>3, IsASeq
  <2> QED BY <2>4, <2>5 DEF qs
<1> QED BY <1>1, <1>2 DEF MergeOne

LEMMA InitIInv == Init => IInv
<1> SUFFICES ASSUME Init PROVE IInv
  OBVIOUS
<1>1. pod \in Seq(Fields) /\ store \in Seq(Entries)
  BY PodsAssumption, StoresAssumption, PublicationIsStruct, EmptySeq DEF Init
<1>2. Len(pod) \in Nat
  BY <1>1, LenProperties
<1>3. count = 0 /\ keys = <<>> /\ values = <<>> /\ merged = 0
  BY DEF Init
<1>4. keys \in Seq(Texts) /\ values \in Seq(Variants) /\ Len(keys) = 0 /\ Len(values) = 0
  BY <1>3, EmptySeq
<1>5. TypeOK /\ Aligned
  BY <1>1, <1>2, <1>3, <1>4 DEF TypeOK, Aligned, ZipLength
<1>6. Listed
  <2>1. UnderstoodOf(pod, count) = {}
    BY <1>3 DEF UnderstoodOf
  <2>2. IsListing([i \in 1..0 |-> 0], pod, count, keys, values)
    BY <1>4, <2>1 DEF IsListing
  <2> QED BY <1>3, <2>2 DEF Listed
<1> QED BY <1>3, <1>5, <1>6 DEF IInv

LEMMA NextIInv == IInv /\ [Next]_vars => IInv'
<1> SUFFICES ASSUME IInv, [Next]_vars PROVE IInv'
  OBVIOUS
<1>1. /\ TypeOK /\ Aligned /\ Listed /\ (HasField => merged = 0)
      /\ pod \in Seq(Fields) /\ Len(pod) \in Nat /\ count \in Nat /\ count <= Len(pod)
      /\ store \in Seq(Entries) /\ keys \in Seq(Texts) /\ values \in Seq(Variants)
      /\ Len(keys) \in Nat /\ Len(values) \in Nat
      /\ merged \in 0..ZipLength /\ ZipLength = Len(values)
  BY ZipIsValues DEF IInv, TypeOK
<1>2. ASSUME HasField
      PROVE  /\ Field \in Fields /\ Field = pod[count + 1]
             /\ count + 1 \in 1..Len(pod) /\ merged = 0
  <2>1. count + 1 \in 1..Len(pod)
    BY <1>1, <1>2 DEF HasField
  <2> QED BY <1>1, <1>2, <2>1, ElementOfSeq DEF Field
<1>3. CASE ReadKey
  <2>1. HasField /\ count % 2 = 0 /\ count' = count + 1 /\ UNCHANGED <<store, pod, values, merged>>
    BY <1>3 DEF ReadKey
  <2>2. PICK k \in Texts : keys' = Append(keys, k) /\ (Field.type = "String" => k = Field.val)
    <3>1. Field.type = "String" => Field.val \in Texts
      BY <1>2, <2>1 DEF Fields
    <3> QED BY <1>3, <3>1 DEF ReadKey
  <2>3. /\ keys' \in Seq(Texts) /\ Len(keys') = Len(keys) + 1
        /\ \A i \in 1..Len(keys) : keys'[i] = keys[i]
        /\ keys'[Len(keys) + 1] = k
    BY <1>1, <2>2, AppendProperties
  <2>4. Len(keys) = Len(values) /\ count' % 2 = 1
    <3>1. Len(keys) = Len(values) + 0
      BY <1>1, <2>1 DEF Aligned
    <3>2. count' % 2 = 1
      <4>1. count \in Nat /\ count % 2 = 0 /\ count' = count + 1
        BY <1>1, <2>1
      <4> QED BY <4>1
    <3>3. Len(keys) = Len(values)
      BY <1>1, <3>1
    <3> QED BY <3>2, <3>3
  <2>5. Aligned'
    BY <1>1, <2>1, <2>3, <2>4 DEF Aligned
  <2>6. TypeOK'
    BY <1>1, <1>2, <2>1, <2>3, <2>4 DEF TypeOK, ZipLength
  <2>7. Listed'
    <3> SUFFICES ASSUME WellFormed PROVE /\ \E at : IsListing(at, pod, count', keys', values)
                                         /\ keys'[Len(keys')] = pod[count'].val
      BY <2>1 DEF Listed, WellFormed
    <3>1. PICK at : IsListing(at, pod, count, keys, values)
      BY <1>1 DEF Listed
    <3>2. UnderstoodOf(pod, count') = UnderstoodOf(pod, count)
      BY <1>1, <2>1, Halves DEF UnderstoodOf
    <3>3. \A i \in 1..Len(values) : keys'[i] = keys[i]
      BY <1>1, <2>3, <2>4
    <3>4. IsListing(at, pod, count', keys', values)
      BY <3>1, <3>2, <3>3 DEF IsListing
    <3>5. Field.type = "String"
      BY <1>1, <1>2, <2>1, <2>4 DEF WellFormed
    <3> QED BY <1>2, <2>1, <2>2, <2>3, <3>4, <3>5
  <2> QED BY <1>2, <2>1, <2>5, <2>6, <2>7 DEF IInv
<1>4. CASE ReadValue
  <2>1. /\ HasField /\ count % 2 = 1 /\ count' = count + 1 /\ UNCHANGED <<store, pod, keys, merged>>
        /\ values' = Append(values, Decode(Field)) /\ Field.type \in Supported
    BY <1>4 DEF ReadValue
  <2>2. Decode(Field) \in Variants
    BY <1>2, <2>1, DecodeType
  <2>3. /\ values' \in Seq(Variants) /\ Len(values') = Len(values) + 1
        /\ \A i \in 1..Len(values) : values'[i] = values[i]
        /\ values'[Len(values) + 1] = Decode(Field)
    BY <1>1, <2>1, <2>2, AppendProperties
  <2>4. Len(keys) = Len(values) + 1 /\ count' % 2 = 0
    BY <1>1, <2>1, Parity DEF Aligned
  <2>5. Aligned'
    BY <1>1, <2>1, <2>3, <2>4 DEF Aligned
  <2>6. TypeOK'
    BY <1>1, <1>2, <2>1, <2>3, <2>4 DEF TypeOK, ZipLength
  <2>7. Listed'
    <3> SUFFICES ASSUME WellFormed PROVE \E at : IsListing(at, pod, count', keys, values')
      BY <2>1, <2>4 DEF Listed, WellFormed
    <3>1. PICK at : IsListing(at, pod, count, keys, values)
      BY <1>1 DEF Listed
    <3>2. keys[Len(keys)] = pod[count].val
      BY <1>1, <2>1 DEF Listed
    <3>3. PICK q \in Nat : q = count' \div 2 /\ q = count \div 2 + 1 /\ 2 * q = count + 1
      BY <1>1, <2>1, Halves
    <3>4. UnderstoodOf(pod, count') = UnderstoodOf(pod, count) \cup {q}
      <4>1. pod[2 * q].type \in Supported
        BY <1>2, <2>1, <3>3
      <4>2. 1..q = (1..(count \div 2)) \cup {q} /\ count \div 2 \in Nat
        BY <1>1, <3>3
      <4> QED BY <3>3, <4>1, <4>2 DEF UnderstoodOf
    <3>5. \A p \in UnderstoodOf(pod, count) : p \in Nat /\ p < q
      BY <1>1, <3>3 DEF UnderstoodOf
    <3>6. PICK n \in Nat : n = Len(values)
      BY <1>1
    <3> DEFINE at2 == [i \in 1..(n + 1) |-> IF i = n + 1 THEN q ELSE at[i]]
    <3>7. \A i \in 1..n : at[i] \in UnderstoodOf(pod, count) /\ i \in 1..(n + 1) /\ i # n + 1
      BY <3>1, <3>6 DEF IsListing
    <3>8. /\ at2 \in [1..(n + 1) -> UnderstoodOf(pod, count')]
          /\ at2[n + 1] = q /\ \A i \in 1..n : at2[i] = at[i]
      BY <3>4, <3>6, <3>7
    <3> HIDE DEF at2
    <3>9. \A i, j \in 1..(n + 1) : i < j => at2[i] < at2[j]
      <4> SUFFICES ASSUME NEW i \in 1..(n + 1), NEW j \in 1..(n + 1), i < j
                   PROVE  at2[i] < at2[j]
        OBVIOUS
      <4>1. i \in 1..n /\ at2[i] = at[i] /\ at[i] < q
        BY <3>5, <3>6, <3>7, <3>8
      <4>2. CASE j = n + 1
        BY <3>8, <4>1, <4>2
      <4>3. CASE j \in 1..n
        BY <3>1, <3>6, <3>8, <4>1, <4>3 DEF IsListing
      <4> QED BY <3>6, <4>2, <4>3
    <3>10. \A p \in UnderstoodOf(pod, count') : \E i \in 1..(n + 1) : at2[i] = p
      BY <3>1, <3>4, <3>6, <3>7, <3>8 DEF IsListing
    <3>11. ASSUME NEW i \in 1..(n + 1)
           PROVE  keys[i] = pod[2 * at2[i] - 1].val /\ values'[i] = Decode(pod[2 * at2[i]])
      <4>1. CASE i = n + 1
        <5>1. 2 * at2[i] - 1 = count /\ 2 * at2[i] = count + 1
          BY <1>1, <3>3, <3>8, <4>1
        <5> QED BY <1>2, <2>1, <2>3, <2>4, <3>2, <3>6, <4>1, <5>1
      <4>2. CASE i \in 1..n
        BY <2>3, <3>1, <3>6, <3>8, <4>2 DEF IsListing
      <4> QED BY <3>6, <4>1, <4>2
    <3>12. IsListing(at2, pod, count', keys, values')
      BY <2>3, <3>6, <3>8, <3>9, <3>10, <3>11 DEF IsListing
    <3> QED BY <3>12
  <2> QED BY <1>2, <2>1, <2>5, <2>6, <2>7 DEF IInv
<1>5. CASE SkipValue
  <2>1. /\ HasField /\ count % 2 = 1 /\ count' = count + 1 /\ UNCHANGED <<store, pod, values, merged>>
        /\ keys' = SubSeq(keys, 1, Len(keys) - 1) /\ Field.type \notin Supported
    BY <1>5 DEF SkipValue, Front
  <2>2. Len(keys) = Len(values) + 1 /\ count' % 2 = 0
    BY <1>1, <2>1, Parity DEF Aligned
  <2>3. /\ keys' \in Seq(Texts) /\ Len(keys') = Len(values)
        /\ \A i \in 1..Len(values) : keys'[i] = keys[i]
    <3> DEFINE n == Len(values)
    <3>1. n \in Nat /\ n \in Int /\ 1 \in Int /\ keys' = SubSeq(keys, 1, n)
      BY <1>1, <2>1, <2>2
    <3>2. \A i \in 1..n : keys[i] \in Texts
      BY <1>1, <2>2, ElementOfSeq
    <3> HIDE DEF n
    <3>3. /\ SubSeq(keys, 1, n) \in Seq(Texts)
          /\ Len(SubSeq(keys, 1, n)) = IF 1 <= n THEN n - 1 + 1 ELSE 0
          /\ \A i \in 1..(n - 1 + 1) : SubSeq(keys, 1, n)[i] = keys[1 + i - 1]
      BY <3>1, <3>2, SubSeqProperties
    <3>4. Len(SubSeq(keys, 1, n)) = n
      BY <3>1, <3>3
    <3>5. \A i \in 1..n : i \in 1..(n - 1 + 1) /\ 1 + i - 1 = i
      BY <3>1
    <3> QED BY <3>1, <3>3, <3>4, <3>5 DEF n
  <2>4. Aligned'
    BY <1>1, <2>1, <2>2, <2>3 DEF Aligned
  <2>5. TypeOK'
    BY <1>1, <1>2, <2>1, <2>3 DEF TypeOK, ZipLength
  <2>6. Listed'
    <3> SUFFICES ASSUME WellFormed PROVE \E at : IsListing(at, pod, count', keys', values)
      BY <2>1, <2>2 DEF Listed, WellFormed
    <3>1. PICK at : IsListing(at, pod, count, keys, values)
      BY <1>1 DEF Listed
    <3>2. UnderstoodOf(pod, count') = UnderstoodOf(pod, count)
      <4>1. PICK q \in Nat : q = count' \div 2 /\ q = count \div 2 + 1 /\ 2 * q = count + 1
        BY <1>1, <2>1, Halves
      <4>2. pod[2 * q].type \notin Supported
        BY <1>2, <2>1, <4>1
      <4>3. 1..q = (1..(count \div 2)) \cup {q} /\ count \div 2 \in Nat
        BY <1>1, <4>1
      <4> QED BY <4>1, <4>2, <4>3 DEF UnderstoodOf
    <3>3. IsListing(at, pod, count', keys', values)
      BY <2>3, <3>1, <3>2 DEF IsListing
    <3> QED BY <3>3
  <2> QED BY <1>2, <2>1, <2>4, <2>5, <2>6 DEF IInv
<1>6. CASE MergeNext
  <2>1. /\ ~HasField /\ merged < ZipLength /\ merged' = merged + 1
        /\ store' = MergeOne(store, Result[merged + 1]) /\ UNCHANGED <<pod, count, keys, values>>
    BY <1>6 DEF MergeNext
  <2>2. merged + 1 \in 1..ZipLength
    BY <1>1, <2>1
  <2>3. store' \in Seq(Entries)
    BY <1>1, <2>1, <2>2, ResultType, MergeType
  <2>4. TypeOK'
    BY <1>1, <2>1, <2>2, <2>3 DEF TypeOK, ZipLength
  <2>5. Aligned' /\ Listed'
    BY <1>1, <2>1 DEF Aligned, Listed, WellFormed
  <2> QED BY <2>1, <2>4, <2>5 DEF IInv, HasField
<1>7. CASE UNCHANGED vars
  BY <1>1, <1>7 DEF vars, IInv, TypeOK, Aligned, Listed, WellFormed, HasField, ZipLength
<1> QED BY <1>3, <1>4, <1>5, <1>6, <1>7 DEF Next, Done

\* The parameters stay a vector of names and variants, and the update loop stays
\* within the pairs parse returned.
THEOREM CodecTypes == Spec => []TypeOK
<1>1. IInv => TypeOK
  BY DEF IInv
<1> QED BY <1>1, InitIInv, NextIInv, PTL DEF Spec

\* Keys and values never drift apart, whatever fields the struct has.
THEOREM ParseStaysAligned == Spec => []Aligned
<1>1. IInv => Aligned
  BY DEF IInv
<1> QED BY <1>1, InitIInv, NextIInv, PTL DEF Spec

\* A listing by keys and values is a listing by the pairs parse returns.
LEMMA ListedArePaired ==
    ASSUME TypeOK, Aligned, Listed, WellFormed
    PROVE  \E at \in [1..ZipLength -> Understood] :
            /\ \A i, j \in 1..ZipLength : i < j => at[i] < at[j]
            /\ \A p \in Understood : \E i \in 1..ZipLength : at[i] = p
            /\ \A i \in 1..ZipLength :
                 Result[i] = [name |-> pod[2 * at[i] - 1].val, value |-> Decode(pod[2 * at[i]])]
<1>1. PICK at : IsListing(at, pod, count, keys, values)
  BY DEF Listed
<1>2. Understood = UnderstoodOf(pod, count) /\ ZipLength = Len(values)
  BY ZipIsValues DEF Understood, UnderstoodOf
<1>3. \A i \in 1..ZipLength : Result[i] = [name |-> keys[i], value |-> values[i]]
  BY DEF Result
<1>4. at \in [1..ZipLength -> Understood]
  BY <1>1, <1>2 DEF IsListing
<1>5. \A i, j \in 1..ZipLength : i < j => at[i] < at[j]
  BY <1>1, <1>2 DEF IsListing
<1>6. \A p \in Understood : \E i \in 1..ZipLength : at[i] = p
  BY <1>1, <1>2 DEF IsListing
<1>7. \A i \in 1..ZipLength :
        Result[i] = [name |-> pod[2 * at[i] - 1].val, value |-> Decode(pod[2 * at[i]])]
  BY <1>1, <1>2, <1>3 DEF IsListing
<1> QED BY <1>4, <1>5, <1>6, <1>7

\* Every value parse returns is under the key it was sent with, and none is lost.
THEOREM ValuesKeepTheirKeys == Spec => []PairedAsSent
<1>1. IInv => PairedAsSent
  BY ListedArePaired DEF IInv, PairedAsSent
<1> QED BY <1>1, InitIInv, NextIInv, PTL DEF Spec

\* Merging a parameter into a vector that holds it, under that name alone,
\* leaves the vector as it is.
LEMMA MergeOfOwnEntry ==
    ASSUME NEW ps \in Seq(Entries), NEW p \in 1..Len(ps),
           \A i, j \in DOMAIN ps : ps[i].name = ps[j].name => i = j
    PROVE  MergeOne(ps, ps[p]) = ps
<1> DEFINE First(k) == /\ k \in DOMAIN ps /\ ps[k].name = ps[p].name
                       /\ \A j \in 1..(k - 1) : ps[j].name # ps[p].name
<1>1. Len(ps) \in Nat /\ DOMAIN ps = 1..Len(ps) /\ ps[p] \in Entries
  BY LenProperties, ElementOfSeq
<1>2. First(p)
  BY <1>1
<1> DEFINE k == CHOOSE i \in DOMAIN ps :
                    ps[i].name = ps[p].name /\ \A j \in 1..(i - 1) : ps[j].name # ps[p].name
<1>3. k \in DOMAIN ps /\ ps[k].name = ps[p].name
  BY <1>2
<1>4. k = p
  BY <1>1, <1>3
<1>5. MergeOne(ps, ps[p]) = [ps EXCEPT ![k].value = ps[p].value]
  BY <1>1 DEF MergeOne
<1> HIDE DEF k
<1>6. [ps[p] EXCEPT !.value = ps[p].value] = ps[p]
  BY <1>1 DEF Entries
<1>7. [ps EXCEPT ![p].value = ps[p].value] = [ps EXCEPT ![p] = ps[p]]
  BY <1>6
<1> QED BY <1>4, <1>5, <1>7

\* The pairs of a publication are the parameters published: names are strings,
\* and an understood value, if it is not the string "null", decodes to itself.
LEMMA PublicationOfPairs ==
    ASSUME NEW ps \in Seq(Entries), NEW p \in 1..Len(ps)
    PROVE  /\ add_to_pod_object(ps)[2 * p - 1] = [type |-> "String", val |-> ps[p].name]
           /\ add_to_pod_object(ps)[2 * p] = write_property_value(ps[p].value)
<1>1. /\ 2 * p - 1 \in 1..(2 * Len(ps)) /\ (2 * p - 1) % 2 = 1 /\ ((2 * p - 1) + 1) \div 2 = p
      /\ 2 * p \in 1..(2 * Len(ps)) /\ (2 * p) % 2 = 0 /\ (2 * p) \div 2 = p
  BY LenProperties
<1> QED BY <1>1 DEF add_to_pod_object

LEMMA WrittenIsRead ==
    ASSUME NEW v \in Variants, write_property_value(v).type \in Supported,
           v.alt = "string" => v.val # Null
    PROVE  Decode(write_property_value(v)) = v
<1>1. v.alt \in {"int", "long", "float", "double", "string"}
  BY DEF write_property_value, SpaType, Supported, Variants
<1>2. write_property_value(v) = [type |-> SpaType[v.alt], val |-> v.val]
  BY DEF write_property_value
<1>3. Alternative[SpaType[v.alt]] = v.alt /\ (SpaType[v.alt] = "String" <=> v.alt = "string")
  BY <1>1 DEF SpaType, Alternative
<1>4. v = [alt |-> v.alt, val |-> v.val]
  BY DEF Variants
<1>5. Decode(write_property_value(v)) = [alt |-> v.alt, val |-> v.val]
  BY <1>2, <1>3 DEF Decode
<1> QED BY <1>4, <1>5

\* A filter that is sent its own publication is left as it was.
THEOREM EchoIsHarmless == Spec => EchoChangesNothing
<1>1. ASSUME IInv, [Next]_vars, pod = add_to_pod_object(store), Distinct, NoNull
      PROVE  store' = store
  <2>1. CASE MergeNext
    <3>1. /\ ~HasField /\ merged < ZipLength /\ store' = MergeOne(store, Result[merged + 1])
          /\ TypeOK /\ Aligned /\ Listed /\ store \in Seq(Entries) /\ merged \in 0..ZipLength
      BY <1>1, <2>1 DEF MergeNext, IInv, TypeOK
    <3>2. Len(store) \in Nat /\ DOMAIN store = 1..Len(store)
          /\ Len(pod) = 2 * Len(store) /\ DOMAIN pod = 1..(2 * Len(store))
      BY <1>1, <3>1, LenProperties DEF add_to_pod_object
    <3>3. WellFormed
      BY <1>1, <3>2 DEF WellFormed, add_to_pod_object
    <3>4. PICK i \in 1..ZipLength : i = merged + 1
      BY <3>1, ZipIsValues
    <3>5. PICK p \in Understood :
            Result[i] = [name |-> pod[2 * p - 1].val, value |-> Decode(pod[2 * p])]
      BY <3>1, <3>3, ListedArePaired
    <3>6. p \in 1..Len(store) /\ pod[2 * p].type \in Supported
      BY <3>1, <3>2, ZipIsValues DEF Understood, TypeOK
    <3>7. store[p] \in Entries /\ store[p].value \in Variants
      <4>1. store[p] \in Entries
        BY <3>1, <3>6, ElementOfSeq
      <4> QED BY <4>1 DEF Entries
    <3>8. pod[2 * p - 1].val = store[p].name /\ pod[2 * p] = write_property_value(store[p].value)
      <4>1. /\ pod[2 * p - 1] = [type |-> "String", val |-> store[p].name]
            /\ pod[2 * p] = write_property_value(store[p].value)
        BY <1>1, <3>1, <3>6, PublicationOfPairs
      <4> QED BY <4>1
    <3>9. Decode(pod[2 * p]) = store[p].value
      BY <1>1, <3>2, <3>6, <3>7, <3>8, WrittenIsRead DEF NoNull
    <3>10. Result[i] = store[p]
      BY <3>5, <3>7, <3>8, <3>9 DEF Entries
    <3> QED BY <1>1, <3>1, <3>4, <3>6, <3>10, MergeOfOwnEntry DEF Distinct
  <2> QED BY <1>1, <2>1 DEF Next, ReadKey, ReadValue, SkipValue, Done, vars
<1>2. IInv /\ [Next]_vars =>
        [pod = add_to_pod_object(store) /\ Distinct /\ NoNull => store' = store]_vars
  BY <1>1
<1> QED BY <1>2, InitIInv, NextIInv, PTL DEF Spec, EchoChangesNothing
=============================================================================
