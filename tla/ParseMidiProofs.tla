---------------------------- MODULE ParseMidiProofs ----------------------------
(***************************************************************************)
(* parse_midi returns the messages of the pod, in order and all of them,   *)
(* for arrays of every size and pods of every length.                      *)
(***************************************************************************)
EXTENDS ParseMidi, FiniteSetTheorems, TLAPS

\* A control is decoded if and only if it is a message, and to what it says.
LEMMA Decoding ==
    ASSUME NEW c \in Controls
    PROVE  /\ MessageOf(c) \in message \cup {NoMessage}
           /\ IsMessage(c) => MessageOf(c) \in message /\ Says(MessageOf(c), c)
           /\ ~IsMessage(c) => MessageOf(c) = NoMessage
<1> DEFINE w == c.word
<1> DEFINE status == w.status
<1> DEFINE data == w.data
<1> DEFINE halves == 0..65535
<1>1. /\ status \in 0..255 /\ data \in 0..255 /\ w.high \in halves /\ w.low \in halves
  <2>1. w \in Words
    BY DEF Controls
  <2> HIDE DEF w
  <2>3. Words = [mtype : 0..15, status : 0..255, data : 0..255, high : halves, low : halves]
    BY DEF Words
  <2> HIDE DEF halves
  <2>2. /\ w.status \in 0..255 /\ w.data \in 0..255
        /\ w.high \in halves /\ w.low \in halves
    BY <2>1, <2>3
  <2> QED BY <2>2
<1> HIDE DEF w, status, data, halves
<1>2. \A s \in 0..255 :
        /\ (s \in 128..143 <=> s \div 16 = 8) /\ (s \in 144..159 <=> s \div 16 = 9)
        /\ (s \in 176..191 <=> s \div 16 = 11)
        /\ s % 16 \in 0..15 /\ (s % 16) + 16 * (s \div 16) = s
  OBVIOUS
<1>3. \A d \in 0..255 : d % 128 \in 0..127 /\ d % 128 = IF d < 128 THEN d ELSE d - 128
  OBVIOUS
<1>4. /\ DOMAIN Ranges = {"control_change", "note_off", "note_on"}
      /\ Ranges["note_off"] = 128..143 /\ Ranges["note_on"] = 144..159
      /\ Ranges["control_change"] = 176..191
  BY DEF Ranges
<1>5. /\ DOMAIN Opcode = {8, 9, 11}
      /\ Opcode[8] = "note_off" /\ Opcode[9] = "note_on" /\ Opcode[11] = "control_change"
  BY DEF Opcode
<1>6. \A k \in DOMAIN Ranges :
        status \in Ranges[k] <=> status \div 16 \in {8, 9, 11} /\ Opcode[status \div 16] = k
  BY <1>1, <1>2, <1>4, <1>5
<1>7. IsMessage(c) <=> /\ c.type = "UMP" /\ c.length = 8 /\ w.mtype = 4
                       /\ \E k \in DOMAIN Ranges : status \in Ranges[k]
  <2>1. status \div 16 \in {8, 9, 11} => Opcode[status \div 16] \in DOMAIN Ranges
    BY <1>4, <1>5
  <2> QED BY <1>5, <1>6, <2>1 DEF IsMessage, w, status
<1>8. ~IsMessage(c) => MessageOf(c) = NoMessage
  BY <1>7 DEF MessageOf, parse_ump_64, w, status
<1>9. ASSUME IsMessage(c) PROVE MessageOf(c) \in message /\ Says(MessageOf(c), c)
  <2> DEFINE k == CHOOSE k \in DOMAIN Ranges : status \in Ranges[k]
  <2> DEFINE value == IF k = "control_change" THEN <<w.high, w.low>> ELSE <<w.high>>
  <2> DEFINE m == [kind |-> k, channel |-> status % 16, number |-> data % 128, value |-> value]
  <2>1. k \in DOMAIN Ranges /\ status \in Ranges[k]
    BY <1>7, <1>9
  <2>2. MessageOf(c) = m
    BY <1>7, <1>9 DEF MessageOf, parse_ump_64, w, status, data
  <2>3. value \in Seq(halves)
    <3>1. <<w.high>> \in Seq(halves) /\ <<w.high, w.low>> \in Seq(halves)
      BY <1>1
    <3> QED BY <3>1
  <2> HIDE DEF k, value
  <2>4. m \in message
    <3> DEFINE kinds == DOMAIN Ranges
               channels == 0..15
               numbers == 0..127
               values == Seq(halves)
    <3>1. status % 16 \in channels /\ data % 128 \in numbers
      BY <1>1, <1>2, <1>3
    <3>2. message = [kind : kinds, channel : channels, number : numbers, value : values]
      BY DEF message, halves
    <3>3. k \in kinds /\ value \in values
      BY <2>1, <2>3
    <3> HIDE DEF kinds, channels, numbers, values
    <3>4. m \in [kind : kinds, channel : channels, number : numbers, value : values]
      BY <3>1, <3>3
    <3> QED BY <3>2, <3>4
  <2>5. /\ m.kind = Opcode[status \div 16]
        /\ m.channel + 16 * (status \div 16) = status
        /\ m.number = IF data < 128 THEN data ELSE data - 128
    <3>1. m.kind = k /\ m.channel = status % 16 /\ m.number = data % 128
      OBVIOUS
    <3> HIDE DEF m
    <3>2. Opcode[status \div 16] = k
      BY <1>6, <2>1
    <3>3. (status % 16) + 16 * (status \div 16) = status
      BY <1>1, <1>2
    <3>4. data % 128 = IF data < 128 THEN data ELSE data - 128
      BY <1>1, <1>3
    <3> QED BY <3>1, <3>2, <3>3, <3>4
  <2>6. m # NoMessage
    BY <2>4, NoMessageAssumption
  <2> HIDE DEF m
  <2> QED BY <2>2, <2>4, <2>5, <2>6 DEF Says, w, status, data
<1> QED BY <1>8, <1>9

-----------------------------------------------------------------------------
(* The messages that have been reached *)

\* at lists the places of the messages among the first n controls, in order, and the
\* first of the results are theirs.
IsListing(at, n) ==
    /\ at \in [1..index -> Messages(n)]
    /\ \A i, j \in 1..index : i < j => at[i] < at[j]
    /\ \A k \in Messages(n) : \E i \in 1..index : at[i] = k
    /\ \A i \in 1..index : Says(result[i], pod.controls[at[i]])

\* The controls still to be looked at are the end of the pod's.
SequenceInv ==
    pod.kind = "sequence" =>
        /\ pod.controls \in Seq(Controls)
        /\ Len(rest) <= Len(pod.controls)
        /\ \A k \in 1..Len(rest) : rest[k] = pod.controls[Reached + k]
        /\ \E at : IsListing(at, Reached)
        /\ outcome = "messages" => rest = <<>>

IInv ==
    /\ TypeOK
    /\ SequenceInv
    /\ \A i \in 1..MAX_N : i > index => result[i] = NoMessage

LEMMA InitIInv == Init => IInv
<1> SUFFICES ASSUME Init PROVE IInv
  OBVIOUS
<1>1. /\ pod \in Pods /\ index = 0 /\ outcome = "running"
      /\ result = [i \in 1..MAX_N |-> NoMessage]
      /\ rest = IF pod.kind = "sequence" THEN pod.controls ELSE <<>>
  BY DEF Init
<1>2. pod.kind = "sequence" => pod.controls \in Seq(Controls)
  BY <1>1, PodsAssumption DEF Empty, Null, NotASeq
<1>3. TypeOK
  BY <1>1, <1>2, MaxAssumption DEF TypeOK
<1>4. ASSUME pod.kind = "sequence" PROVE SequenceInv
  <2>1. /\ rest = pod.controls /\ rest \in Seq(Controls) /\ Len(rest) \in Nat
        /\ Reached = 0
    BY <1>1, <1>2, <1>4 DEF Reached
  <2>2. Messages(0) = {}
    BY DEF Messages
  <2>3. IsListing([i \in 1..0 |-> 0], 0)
    BY <1>1, <2>2 DEF IsListing
  <2> QED BY <1>1, <1>2, <2>1, <2>3 DEF SequenceInv
<1> QED BY <1>1, <1>3, <1>4 DEF IInv, SequenceInv

\* The next control is the one behind those reached.
LEMMA NextControl ==
    ASSUME IInv, Running, rest # <<>>
    PROVE  /\ pod.controls \in Seq(Controls) /\ Len(pod.controls) \in Nat
           /\ Len(rest) \in Nat /\ Len(rest) >= 1 /\ Len(rest) <= Len(pod.controls)
           /\ Reached \in Nat /\ Reached = Len(pod.controls) - Len(rest)
           /\ Reached + 1 \in 1..Len(pod.controls)
           /\ Head(rest) \in Controls /\ Head(rest) = pod.controls[Reached + 1]
           /\ Tail(rest) \in Seq(Controls) /\ Len(Tail(rest)) = Len(rest) - 1
           /\ \A k \in 1..Len(Tail(rest)) : Tail(rest)[k] = pod.controls[Reached + 1 + k]
<1>1. /\ pod.kind = "sequence" /\ pod.controls \in Seq(Controls) /\ rest \in Seq(Controls)
      /\ Len(pod.controls) \in Nat /\ Len(rest) \in Nat /\ Len(rest) <= Len(pod.controls)
      /\ \A k \in 1..Len(rest) : rest[k] = pod.controls[Reached + k]
  BY DEF IInv, TypeOK, SequenceInv, Running
<1>2. Len(rest) >= 1 /\ Reached = Len(pod.controls) - Len(rest) /\ Reached \in Nat
  BY <1>1 DEF Reached
<1>3. /\ Head(rest) = rest[1] /\ Head(rest) \in Controls
      /\ Tail(rest) \in Seq(Controls) /\ Len(Tail(rest)) = Len(rest) - 1
      /\ \A k \in 1..Len(Tail(rest)) : Tail(rest)[k] = rest[k + 1]
  BY <1>1, <1>2
<1> HIDE DEF Reached
<1>4. \A k \in 1..Len(Tail(rest)) : Tail(rest)[k] = pod.controls[Reached + 1 + k]
  <2> SUFFICES ASSUME NEW k \in 1..Len(Tail(rest))
               PROVE  Tail(rest)[k] = pod.controls[Reached + 1 + k]
    OBVIOUS
  <2>1. k \in 1..(Len(rest) - 1)
    BY <1>3
  <2>2. k + 1 \in 1..Len(rest) /\ Reached + (k + 1) = Reached + 1 + k
    <3>1. Len(rest) \in Nat /\ Reached \in Nat
      BY <1>1, <1>2
    <3>2. \A a, b \in Nat : \A j \in 1..(a - 1) : j + 1 \in 1..a /\ b + (j + 1) = b + 1 + j
      OBVIOUS
    <3> QED BY <2>1, <3>1, <3>2, Zenon
  <2> QED BY <1>1, <1>3, <2>2
<1>5. 1 \in 1..Len(rest) /\ Reached + 1 \in 1..Len(pod.controls)
  BY <1>1, <1>2
<1> QED BY <1>1, <1>2, <1>3, <1>4, <1>5

\* A control adds its place to the messages, if it is one.
LEMMA ControlStep ==
    ASSUME IInv, Control
    PROVE  IInv'
<1> DEFINE c == Head(rest)
<1> SUFFICES ASSUME NEW n, n = Reached PROVE IInv'
  OBVIOUS
<1>1. /\ Running /\ rest # <<>> /\ index < MAX_N
      /\ rest' = Tail(rest) /\ UNCHANGED <<pod, outcome>>
      /\ IF MessageOf(c) = NoMessage
         THEN UNCHANGED <<index, result>>
         ELSE result' = [result EXCEPT ![index + 1] = MessageOf(c)] /\ index' = index + 1
  BY DEF Control
<1>2. /\ pod.controls \in Seq(Controls) /\ Len(pod.controls) \in Nat
      /\ Len(rest) \in Nat /\ Len(rest) >= 1 /\ Len(rest) <= Len(pod.controls)
      /\ n \in Nat /\ n = Len(pod.controls) - Len(rest) /\ n + 1 \in 1..Len(pod.controls)
      /\ c \in Controls /\ c = pod.controls[n + 1]
      /\ Tail(rest) \in Seq(Controls) /\ Len(Tail(rest)) = Len(rest) - 1
      /\ \A k \in 1..Len(Tail(rest)) : Tail(rest)[k] = pod.controls[n + 1 + k]
  BY <1>1, NextControl
<1>3. Reached' = n + 1
  BY <1>1, <1>2 DEF Reached
<1> HIDE DEF c
<1>4. /\ index \in Nat /\ MAX_N \in Nat /\ index + 1 \in 1..MAX_N
      /\ result \in [1..MAX_N -> message \cup {NoMessage}]
      /\ \A i \in 1..MAX_N : i > index => result[i] = NoMessage
  BY <1>1, MaxAssumption DEF IInv, TypeOK
<1>5. PICK at : IsListing(at, n)
  BY <1>1 DEF IInv, SequenceInv, Running
<1>6. Messages(n) \subseteq 1..n
  BY DEF Messages
<1>7. CASE ~IsMessage(c)
  <2>1. UNCHANGED <<index, result>>
    BY <1>1, <1>2, <1>7, Decoding
  <2>2. Messages(n + 1)' = Messages(n)
    BY <1>1, <1>2, <1>7 DEF Messages
  <2>3. IsListing(at, n + 1)'
    BY <1>1, <1>5, <2>1, <2>2 DEF IsListing
  <2>4. SequenceInv'
    BY <1>1, <1>2, <1>3, <2>3 DEF SequenceInv, Running
  <2>5. TypeOK'
    BY <1>1, <1>2, <2>1 DEF IInv, TypeOK
  <2> QED BY <2>1, <2>4, <2>5 DEF IInv
<1>8. CASE IsMessage(c)
  <2>1. /\ MessageOf(c) \in message /\ Says(MessageOf(c), c)
        /\ result' = [result EXCEPT ![index + 1] = MessageOf(c)] /\ index' = index + 1
    BY <1>1, <1>2, <1>8, Decoding, NoMessageAssumption
  <2>2. Messages(n + 1)' = Messages(n) \cup {n + 1}
    BY <1>1, <1>2, <1>8 DEF Messages
  <2> DEFINE next == [i \in 1..(index + 1) |-> IF i <= index THEN at[i] ELSE n + 1]
  <2>3. /\ result' \in [1..MAX_N -> message \cup {NoMessage}]
        /\ result'[index + 1] = MessageOf(c)
        /\ \A i \in 1..MAX_N : i # index + 1 => result'[i] = result[i]
    BY <1>4, <2>1
  <2> SUFFICES ASSUME NEW t, t = next PROVE IInv'
    OBVIOUS
  <2>4. IsListing(t, n + 1)'
    <3>1. /\ at \in [1..index -> Messages(n)]
          /\ \A i, j \in 1..index : i < j => at[i] < at[j]
          /\ \A k \in Messages(n) : \E i \in 1..index : at[i] = k
          /\ \A i \in 1..index : Says(result[i], pod.controls[at[i]])
      BY <1>5 DEF IsListing
    <3>2. /\ t \in [1..(index + 1) -> Messages(n) \cup {n + 1}]
          /\ t[index + 1] = n + 1 /\ \A i \in 1..index : t[i] = at[i]
      BY <1>4, <3>1
    <3> HIDE DEF next
    <3>3. \A i, j \in 1..(index + 1) : i < j => t[i] < t[j]
      <4> SUFFICES ASSUME NEW i \in 1..(index + 1), NEW j \in 1..(index + 1), i < j
                   PROVE  t[i] < t[j]
        OBVIOUS
      <4>1. i \in 1..index /\ t[i] \in 1..n
        BY <1>4, <1>6, <3>1, <3>2
      <4>2. CASE j = index + 1
        BY <1>2, <3>2, <4>1, <4>2
      <4>3. CASE j \in 1..index
        BY <3>1, <3>2, <4>1, <4>3
      <4> QED BY <1>4, <4>2, <4>3
    <3>4. \A k \in Messages(n) \cup {n + 1} : \E i \in 1..(index + 1) : t[i] = k
      <4>1. index + 1 \in 1..(index + 1) /\ 1..index \subseteq 1..(index + 1)
        BY <1>4
      <4> QED BY <3>1, <3>2, <4>1
    <3>5. \A i \in 1..(index + 1) : Says(result'[i], pod.controls[t[i]])
      <4> SUFFICES ASSUME NEW i \in 1..(index + 1) PROVE Says(result'[i], pod.controls[t[i]])
        OBVIOUS
      <4>1. CASE i = index + 1
        BY <1>2, <2>1, <2>3, <3>2, <4>1
      <4>2. CASE i \in 1..index
        <5>1. i # index + 1 /\ i \in 1..MAX_N
          BY <1>4, <4>2
        <5> QED BY <2>3, <3>1, <3>2, <4>2, <5>1
      <4> QED BY <1>4, <4>1, <4>2
    <3> QED BY <1>1, <2>1, <2>2, <3>2, <3>3, <3>4, <3>5 DEF IsListing
  <2>5. SequenceInv'
    BY <1>1, <1>2, <1>3, <2>4 DEF SequenceInv, Running
  <2>6. TypeOK'
    BY <1>1, <1>2, <1>4, <2>1, <2>3 DEF IInv, TypeOK
  <2>7. \A i \in 1..MAX_N : i > index' => result'[i] = NoMessage
    <3> SUFFICES ASSUME NEW i \in 1..MAX_N, i > index + 1 PROVE result'[i] = NoMessage
      BY <2>1
    <3> QED BY <1>4, <2>3
  <2> QED BY <2>5, <2>6, <2>7 DEF IInv
<1> QED BY <1>7, <1>8

LEMMA NextIInv == IInv /\ [Next]_vars => IInv'
<1> SUFFICES ASSUME IInv, [Next]_vars PROVE IInv'
  OBVIOUS
<1>1. ASSUME UNCHANGED <<pod, rest, index, result>>,
             outcome' \in {"running", "messages", "pod_not_a_sequence", "too_many_messages",
                          "crashed"},
             pod.kind = "sequence" /\ outcome' = "messages" => rest = <<>>
      PROVE  IInv'
  <2>1. \A at, n : IsListing(at, n)' <=> IsListing(at, n)
    BY <1>1 DEF IsListing, Messages
  <2>2. SequenceInv'
    BY <1>1, <2>1 DEF IInv, SequenceInv, Reached
  <2> QED BY <1>1, <2>2 DEF IInv, TypeOK
<1>2. CASE UNCHANGED vars \/ Done
  BY <1>1, <1>2 DEF vars, Done, IInv, TypeOK, SequenceInv
<1>3. CASE NoPod \/ PodIsNull \/ NotASequence
  BY <1>1, <1>3 DEF NoPod, PodIsNull, NotASequence
<1>4. CASE TooMany \/ Return
  BY <1>1, <1>4 DEF TooMany, Return
<1>5. CASE Control
  BY <1>5, ControlStep
<1> QED BY <1>2, <1>3, <1>4, <1>5 DEF Next

\* The types of parse_midi's state, for arrays of every size: nothing is stored beyond
\* the array (parse_midi.h tests the index before it looks at the control).
THEOREM MidiTypes == Spec => []TypeOK
<1>1. IInv => TypeOK
  BY DEF IInv
<1> QED BY <1>1, InitIInv, NextIInv, PTL DEF Spec

\* The array holds the messages reached so far, in order, without gaps and with what
\* their packets say (parse_midi, parse_ump_64), and nothing else.
THEOREM ArrayIsFilledInOrder == Spec => []FilledInOrder
<1>1. IInv => FilledInOrder
  <2> SUFFICES ASSUME IInv, pod.kind = "sequence"
               PROVE  \E at \in [1..index -> Messages(Reached)] :
                        /\ \A i, j \in 1..index : i < j => at[i] < at[j]
                        /\ \A k \in Messages(Reached) : \E i \in 1..index : at[i] = k
                        /\ \A i \in 1..MAX_N :
                            IF i <= index THEN Says(result[i], pod.controls[at[i]])
                            ELSE result[i] = NoMessage
    BY DEF FilledInOrder
  <2>1. PICK at : IsListing(at, Reached)
    BY DEF IInv, SequenceInv
  <2>2. at \in [1..index -> Messages(Reached)]
    BY <2>1 DEF IsListing
  <2>3. index \in Nat /\ \A i \in 1..MAX_N : i <= index => i \in 1..index
    BY MaxAssumption DEF IInv, TypeOK
  <2>4. \A i \in 1..MAX_N : ~(i <= index) => i > index
    BY <2>3
  <2> WITNESS at \in [1..index -> Messages(Reached)]
  <2> QED BY <2>1, <2>3, <2>4 DEF IInv, IsListing
<1> QED BY <1>1, InitIInv, NextIInv, PTL DEF Spec

\* A parse that succeeds has returned as many messages as the pod contains.
THEOREM EveryMessageIsReturned == Spec => []ReturnsEveryMessage
<1>1. IInv => ReturnsEveryMessage
  <2> SUFFICES ASSUME IInv, outcome = "messages", pod.kind = "sequence"
               PROVE  index = Cardinality(Messages(Len(pod.controls)))
    BY DEF ReturnsEveryMessage
  <2>1. /\ rest = <<>> /\ pod.controls \in Seq(Controls)
        /\ \E at : IsListing(at, Reached)
    BY DEF IInv, SequenceInv
  <2>2. Reached = Len(pod.controls)
    BY <2>1 DEF Reached
  <2>3. PICK at : IsListing(at, Reached)
    BY <2>1
  <2>4. index \in Nat
    BY MaxAssumption DEF IInv, TypeOK
  <2>5. Messages(Reached) \subseteq Int
    BY <2>1, <2>2 DEF Messages
  <2>6. at \in Bijection(1..index, Messages(Reached))
    <3>1. \A i, j \in 1..index : at[i] = at[j] => i = j
      <4> SUFFICES ASSUME NEW i \in 1..index, NEW j \in 1..index, at[i] = at[j] PROVE i = j
        OBVIOUS
      <4>1. at[i] \in Int /\ at[j] \in Int
        BY <2>3, <2>5 DEF IsListing
      <4>2. ~(i < j) /\ ~(j < i)
        BY <2>3, <4>1 DEF IsListing
      <4> QED BY <2>4, <4>2
    <3> QED BY <2>3, <3>1 DEF IsListing, Bijection, Injection, Surjection, IsInjective
  <2>7. ExistsBijection(1..index, Messages(Reached))
    BY <2>6 DEF ExistsBijection
  <2> QED BY <2>2, <2>4, <2>7, FS_CountingElements
<1> QED BY <1>1, InitIInv, NextIInv, PTL DEF Spec
=============================================================================
