-------------------------- MODULE PortBuffersProofs --------------------------
(***************************************************************************)
(* Who has which buffer, for every set of ports and buffers and every way  *)
(* of the signal processor with them.                                      *)
(***************************************************************************)
EXTENDS PortBuffers, TLAPS

\* The queues and the program's Buffer objects.
PlacesOK ==
    /\ graph \subseteq Buffers
    /\ available \in [Ports -> Seq(Buffers)]
    /\ held \subseteq [buffer : Buffers, port : Ports]
    /\ queued \in [Ports -> Seq(Buffers)]

QueuesInv == \A p \in Ports : Orderly(p, available[p]) /\ Orderly(p, queued[p])

HeldInv == \A o \in held : o.port = PortOf[o.buffer]

Available(b) == InSeq(b, available[PortOf[b]])
Queued(b)    == InSeq(b, queued[PortOf[b]])

\* One of the four has the buffer, and no two of them.
HandsInv ==
    \A b \in Buffers :
        /\ b \in graph \/ Available(b) \/ b \in HeldBuffers \/ Queued(b)
        /\ ~(b \in graph /\ Available(b)) /\ ~(b \in graph /\ b \in HeldBuffers)
        /\ ~(b \in graph /\ Queued(b)) /\ ~(Available(b) /\ b \in HeldBuffers)
        /\ ~(Available(b) /\ Queued(b)) /\ ~(b \in HeldBuffers /\ Queued(b))

IInv == PlacesOK /\ QueuesInv /\ HeldInv /\ HandsInv

-----------------------------------------------------------------------------
(* Queues *)

\* The end of a queue of port p.
LEMMA Appending ==
    ASSUME NEW p \in Ports, NEW s \in Seq(Buffers), NEW b \in Buffers,
           Orderly(p, s), PortOf[b] = p, ~InSeq(b, s)
    PROVE  /\ Append(s, b) \in Seq(Buffers)
           /\ Orderly(p, Append(s, b))
           /\ \A c \in Buffers : InSeq(c, Append(s, b)) <=> InSeq(c, s) \/ c = b
<1> DEFINE t == Append(s, b)
<1>1. /\ t \in Seq(Buffers) /\ Len(t) = Len(s) + 1 /\ Len(s) \in Nat
      /\ DOMAIN s = 1..Len(s) /\ DOMAIN t = 1..Len(t)
      /\ t[Len(t)] = b /\ \A i \in 1..Len(s) : t[i] = s[i]
  OBVIOUS
<1> HIDE DEF t
<1>2. \A i \in DOMAIN t : i \in DOMAIN s \/ i = Len(t)
  BY <1>1
<1>3. Orderly(p, t)
  BY <1>1, <1>2 DEF Orderly, InSeq
<1>4. \A c \in Buffers : InSeq(c, t) <=> InSeq(c, s) \/ c = b
  BY <1>1, <1>2 DEF InSeq
<1> QED BY <1>1, <1>3, <1>4 DEF t

\* The front of a queue of port p.
LEMMA Removing ==
    ASSUME NEW p \in Ports, NEW s \in Seq(Buffers), Orderly(p, s), s # <<>>
    PROVE  /\ Tail(s) \in Seq(Buffers) /\ Head(s) \in Buffers
           /\ PortOf[Head(s)] = p /\ InSeq(Head(s), s)
           /\ Orderly(p, Tail(s))
           /\ \A c \in Buffers : InSeq(c, Tail(s)) <=> InSeq(c, s) /\ c # Head(s)
<1> DEFINE t == Tail(s)
<1>1. /\ t \in Seq(Buffers) /\ Len(t) = Len(s) - 1 /\ Len(s) \in Nat \ {0}
      /\ DOMAIN s = 1..Len(s) /\ DOMAIN t = 1..Len(t)
      /\ Head(s) = s[1] /\ s[1] \in Buffers
      /\ \A i \in 1..Len(t) : t[i] = s[i + 1]
  OBVIOUS
<1> HIDE DEF t
<1>2. \A i \in DOMAIN t : i + 1 \in DOMAIN s
  BY <1>1
<1>3. \A i \in DOMAIN s : i = 1 \/ (i - 1 \in DOMAIN t /\ t[i - 1] = s[i])
  BY <1>1
<1>4. 1 \in DOMAIN s
  BY <1>1
<1>5. Orderly(p, t)
  <2>1. \A i \in DOMAIN t : PortOf[t[i]] = p
    BY <1>1, <1>2 DEF Orderly
  <2>2. ASSUME NEW i \in DOMAIN t, NEW j \in DOMAIN t, t[i] = t[j]
        PROVE  i = j
    <3>1. s[i + 1] = s[j + 1] /\ i + 1 \in DOMAIN s /\ j + 1 \in DOMAIN s
      BY <1>1, <1>2, <2>2
    <3>2. i + 1 = j + 1
      BY <3>1 DEF Orderly
    <3> QED BY <3>2, <1>1
  <2> QED BY <2>1, <2>2 DEF Orderly
<1>6. \A c \in Buffers : InSeq(c, t) <=> InSeq(c, s) /\ c # Head(s)
  <2> SUFFICES ASSUME NEW c \in Buffers
               PROVE  InSeq(c, t) <=> InSeq(c, s) /\ c # Head(s)
    OBVIOUS
  <2>1. ASSUME NEW i \in DOMAIN t, t[i] = c
        PROVE  InSeq(c, s) /\ c # Head(s)
    <3>1. i + 1 \in DOMAIN s /\ s[i + 1] = c /\ i + 1 # 1
      BY <1>1, <1>2, <2>1
    <3> QED BY <3>1, <1>1, <1>4 DEF Orderly, InSeq
  <2>2. ASSUME NEW i \in DOMAIN s, s[i] = c, c # Head(s)
        PROVE  InSeq(c, t)
    BY <1>1, <1>3, <2>2 DEF InSeq
  <2> QED BY <2>1, <2>2 DEF InSeq
<1>7. PortOf[Head(s)] = p /\ InSeq(Head(s), s)
  BY <1>1, <1>4 DEF Orderly, InSeq
<1> QED BY <1>1, <1>5, <1>6, <1>7 DEF t

-----------------------------------------------------------------------------
(* The invariant *)

LEMMA InitIInv == BufferInit => IInv
<1> SUFFICES ASSUME BufferInit PROVE IInv
  OBVIOUS
<1>1. PlacesOK
  BY DEF BufferInit, PlacesOK
<1>2. \A p \in Ports : available[p] = <<>> /\ queued[p] = <<>>
  BY DEF BufferInit
<1>3. QueuesInv
  BY <1>2 DEF QueuesInv, Orderly
<1>4. HeldInv
  BY DEF BufferInit, HeldInv
<1>5. HandsInv
  BY <1>2, PortsAssumption DEF BufferInit, HandsInv, Available, Queued, HeldBuffers, InSeq
<1> QED BY <1>1, <1>3, <1>4, <1>5 DEF IInv

\* What the hands are after a step.
LEMMA NextHands ==
    \A c \in Buffers :
        /\ Available(c)' <=> InSeq(c, available'[PortOf[c]])
        /\ Queued(c)' <=> InSeq(c, queued'[PortOf[c]])
        /\ (c \in HeldBuffers)' <=> \E o \in held' : o.buffer = c
BY DEF Available, Queued, HeldBuffers, InSeq

\* The graph offers a buffer: from its hands to the end of what is available.
LEMMA GraphOfferStep ==
    ASSUME IInv, NEW b \in Buffers, GraphOffer(b)
    PROVE  IInv'
<1> DEFINE p == PortOf[b]
<1> DEFINE s == Append(available[p], b)
<1>1. p \in Ports /\ available[p] \in Seq(Buffers) /\ Orderly(p, available[p]) /\ b \in graph
  BY PortsAssumption DEF IInv, PlacesOK, QueuesInv, GraphOffer
<1>2. ~InSeq(b, available[p])
  BY <1>1 DEF IInv, HandsInv, Available
<1>3. /\ s \in Seq(Buffers) /\ Orderly(p, s)
      /\ \A c \in Buffers : InSeq(c, s) <=> InSeq(c, available[p]) \/ c = b
  BY <1>1, <1>2, Appending
<1>4. /\ graph' = graph \ {b} /\ held' = held /\ queued' = queued
      /\ available' = [available EXCEPT ![p] = s]
  BY DEF GraphOffer
<1> HIDE DEF p, s
<1>5. PlacesOK'
  BY <1>1, <1>3, <1>4 DEF IInv, PlacesOK
<1>6. \A q \in Ports : available'[q] = IF q = p THEN s ELSE available[q]
  BY <1>4 DEF IInv, PlacesOK
<1>7. QueuesInv'
  BY <1>3, <1>4, <1>6 DEF IInv, QueuesInv, Orderly
<1>8. HeldInv'
  BY <1>4 DEF IInv, HeldInv
<1>9. \A c \in Buffers : Available(c)' <=> Available(c) \/ c = b
  BY <1>3, <1>6, NextHands, PortsAssumption DEF Available, p
<1>10. \A c \in Buffers : /\ Queued(c)' <=> Queued(c)
                          /\ (c \in HeldBuffers)' <=> c \in HeldBuffers
  BY <1>4, NextHands DEF Queued, HeldBuffers
<1>11. HandsInv'
  BY <1>1, <1>4, <1>9, <1>10 DEF IInv, HandsInv
<1> QED BY <1>5, <1>7, <1>8, <1>11 DEF IInv

\* The graph collects a buffer: from the front of what is queued to its hands.
LEMMA GraphCollectStep ==
    ASSUME IInv, NEW p \in Ports, GraphCollect(p)
    PROVE  IInv'
<1> DEFINE b == Head(queued[p])
<1> DEFINE s == Tail(queued[p])
<1>1. queued[p] \in Seq(Buffers) /\ Orderly(p, queued[p]) /\ queued[p] # <<>>
  BY DEF IInv, PlacesOK, QueuesInv, GraphCollect
<1>2. /\ s \in Seq(Buffers) /\ b \in Buffers
      /\ PortOf[b] = p /\ InSeq(b, queued[p]) /\ Orderly(p, s)
      /\ \A c \in Buffers : InSeq(c, s) <=> InSeq(c, queued[p]) /\ c # b
  BY <1>1, Removing
<1>3. /\ graph' = graph \cup {b} /\ held' = held /\ available' = available
      /\ queued' = [queued EXCEPT ![p] = s]
  BY DEF GraphCollect
<1> HIDE DEF b, s
<1>4. PlacesOK'
  BY <1>2, <1>3 DEF IInv, PlacesOK
<1>5. \A q \in Ports : queued'[q] = IF q = p THEN s ELSE queued[q]
  BY <1>3 DEF IInv, PlacesOK
<1>6. QueuesInv'
  BY <1>2, <1>3, <1>5 DEF IInv, QueuesInv, Orderly
<1>7. HeldInv'
  BY <1>3 DEF IInv, HeldInv
<1>8. Queued(b) /\ \A c \in Buffers : Queued(c)' <=> Queued(c) /\ c # b
  BY <1>2, <1>5, NextHands, PortsAssumption DEF Queued
<1>9. \A c \in Buffers : /\ Available(c)' <=> Available(c)
                         /\ (c \in HeldBuffers)' <=> c \in HeldBuffers
  BY <1>3, NextHands DEF Available, HeldBuffers
<1>10. HandsInv'
  BY <1>2, <1>3, <1>8, <1>9 DEF IInv, HandsInv
<1> QED BY <1>4, <1>6, <1>7, <1>10 DEF IInv

\* FilterPort::get_buffer: from the front of what is available to the program.
LEMMA GetBufferStep ==
    ASSUME IInv, NEW p \in Ports, GetBuffer(p)
    PROVE  IInv'
<1> DEFINE b == Head(available[p])
<1> DEFINE s == Tail(available[p])
<1>1. available[p] \in Seq(Buffers) /\ Orderly(p, available[p]) /\ available[p] # <<>>
  BY DEF IInv, PlacesOK, QueuesInv, GetBuffer
<1>2. /\ s \in Seq(Buffers) /\ b \in Buffers
      /\ PortOf[b] = p /\ InSeq(b, available[p]) /\ Orderly(p, s)
      /\ \A c \in Buffers : InSeq(c, s) <=> InSeq(c, available[p]) /\ c # b
  BY <1>1, Removing
<1>3. /\ graph' = graph /\ queued' = queued
      /\ held' = held \cup {[buffer |-> b, port |-> p]}
      /\ available' = [available EXCEPT ![p] = s]
  BY DEF GetBuffer
<1> HIDE DEF b, s
<1>4. PlacesOK'
  BY <1>2, <1>3 DEF IInv, PlacesOK
<1>5. \A q \in Ports : available'[q] = IF q = p THEN s ELSE available[q]
  BY <1>3 DEF IInv, PlacesOK
<1>6. QueuesInv'
  BY <1>2, <1>3, <1>5 DEF IInv, QueuesInv, Orderly
<1>7. HeldInv'
  BY <1>2, <1>3 DEF IInv, HeldInv
<1>8. Available(b) /\ \A c \in Buffers : Available(c)' <=> Available(c) /\ c # b
  BY <1>2, <1>5, NextHands, PortsAssumption DEF Available
<1>9. \A c \in Buffers : Queued(c)' <=> Queued(c)
  BY <1>3, NextHands DEF Queued
<1>10. \A c \in Buffers : (c \in HeldBuffers)' <=> c \in HeldBuffers \/ c = b
  <2>1. \A c \in Buffers : (c \in HeldBuffers)' <=> \E o \in held' : o.buffer = c
    BY NextHands
  <2>2. [buffer |-> b, port |-> p].buffer = b
    OBVIOUS
  <2> QED BY <2>1, <2>2, <1>3 DEF HeldBuffers
<1>11. HandsInv'
  BY <1>2, <1>3, <1>8, <1>9, <1>10 DEF IInv, HandsInv
<1> QED BY <1>4, <1>6, <1>7, <1>11 DEF IInv

\* Buffer::finish: from the program to the end of what is queued.  No other Buffer
\* of the program is about the same buffer, since all know its port.
LEMMA FinishStep ==
    ASSUME IInv, NEW o \in held, Finish(o)
    PROVE  IInv'
<1> DEFINE b == o.buffer
<1> DEFINE p == PortOf[b]
<1> DEFINE s == Append(queued[p], b)
<1>1. b \in Buffers /\ b \in HeldBuffers /\ o.port = p /\ p \in Ports
  BY PortsAssumption DEF IInv, PlacesOK, HeldInv, HeldBuffers
<1>2. queued[p] \in Seq(Buffers) /\ Orderly(p, queued[p]) /\ ~InSeq(b, queued[p])
  BY <1>1 DEF IInv, PlacesOK, QueuesInv, HandsInv, Queued
<1>3. /\ s \in Seq(Buffers) /\ Orderly(p, s)
      /\ \A c \in Buffers : InSeq(c, s) <=> InSeq(c, queued[p]) \/ c = b
  BY <1>1, <1>2, Appending
<1>4. /\ graph' = graph /\ available' = available /\ held' = held \ {o}
      /\ queued' = [queued EXCEPT ![p] = s]
  BY <1>1 DEF Finish
<1>5. \A r \in held : r.buffer = b => r = o
  <2>1. \A r \in held : r = [buffer |-> r.buffer, port |-> PortOf[r.buffer]]
    BY DEF IInv, PlacesOK, HeldInv
  <2> QED BY <2>1
<1> HIDE DEF b, p, s
<1>6. PlacesOK'
  BY <1>1, <1>3, <1>4 DEF IInv, PlacesOK
<1>7. \A q \in Ports : queued'[q] = IF q = p THEN s ELSE queued[q]
  BY <1>4 DEF IInv, PlacesOK
<1>8. QueuesInv'
  BY <1>3, <1>4, <1>7 DEF IInv, QueuesInv, Orderly
<1>9. HeldInv'
  BY <1>4 DEF IInv, HeldInv
<1>10. \A c \in Buffers : Queued(c)' <=> Queued(c) \/ c = b
  BY <1>3, <1>7, NextHands, PortsAssumption DEF Queued, p
<1>11. \A c \in Buffers : Available(c)' <=> Available(c)
  BY <1>4, NextHands DEF Available
<1>12. \A c \in Buffers : (c \in HeldBuffers)' <=> c \in HeldBuffers /\ c # b
  <2>1. \A c \in Buffers : (c \in HeldBuffers)' <=> \E r \in held' : r.buffer = c
    BY NextHands
  <2>2. o.buffer = b
    BY DEF b
  <2> QED BY <2>1, <2>2, <1>4, <1>5 DEF HeldBuffers
<1>13. HandsInv'
  BY <1>1, <1>4, <1>10, <1>11, <1>12 DEF IInv, HandsInv
<1> QED BY <1>6, <1>8, <1>9, <1>13 DEF IInv

\* Writing moves no buffer.
LEMMA StayingStep ==
    ASSUME IInv, UNCHANGED <<graph, available, held, queued>>
    PROVE  IInv'
<1>1. PlacesOK' /\ HeldInv'
  BY DEF IInv, PlacesOK, HeldInv
<1>2. QueuesInv'
  BY DEF IInv, QueuesInv, Orderly
<1>3. \A c \in Buffers : /\ Available(c)' <=> Available(c)
                         /\ Queued(c)' <=> Queued(c)
                         /\ (c \in HeldBuffers)' <=> c \in HeldBuffers
  BY NextHands DEF Available, Queued, HeldBuffers
<1>4. HandsInv'
  BY <1>3 DEF IInv, HandsInv
<1> QED BY <1>1, <1>2, <1>4 DEF IInv

LEMMA NextIInv == IInv /\ [BufferNext]_bufferVars => IInv'
<1> SUFFICES ASSUME IInv, [BufferNext]_bufferVars PROVE IInv'
  OBVIOUS
<1>1. CASE UNCHANGED bufferVars
  BY <1>1, StayingStep DEF bufferVars
<1>2. CASE GraphStep
  BY <1>2, GraphOfferStep, GraphCollectStep DEF GraphStep
<1>3. CASE ProcessorStep
  <2>1. CASE \E p \in Ports : GetBuffer(p)
    BY <2>1, GetBufferStep
  <2>2. CASE \E o \in held : Finish(o)
    BY <2>2, FinishStep
  <2>3. ASSUME NEW b \in Outputs, NEW i \in Blocks(b),
               GetSpaData(b, i) \/ \E d \in Payloads : Write(b, i, d)
        PROVE  IInv'
    BY <2>3, StayingStep DEF GetSpaData, Write
  <2> QED BY <1>3, <2>1, <2>2, <2>3 DEF ProcessorStep
<1> QED BY <1>1, <1>2, <1>3 DEF BufferNext

-----------------------------------------------------------------------------
\* Every buffer is in one hand, and in no other port than its own, through
\* get_buffer and finish in any order (filter_port.h, buffer.h).
THEOREM BuffersHaveOneOwner == BufferSpec => []OneOwner
<1>1. IInv => OneOwner
  <2> SUFFICES ASSUME IInv, NEW b \in Buffers
               PROVE  \E i \in 1..4 : Having(b)[i] /\ \A j \in (1..4) \ {i} : ~Having(b)[j]
    BY DEF OneOwner, IInv, QueuesInv, HeldInv
  <2> DEFINE h == Having(b)
  <2>1. /\ h[1] = (b \in graph) /\ h[2] = Available(b)
        /\ h[3] = (b \in HeldBuffers) /\ h[4] = Queued(b)
    BY DEF Having, Available, Queued
  <2>2. /\ h[1] \/ h[2] \/ h[3] \/ h[4]
        /\ ~(h[1] /\ h[2]) /\ ~(h[1] /\ h[3]) /\ ~(h[1] /\ h[4])
        /\ ~(h[2] /\ h[3]) /\ ~(h[2] /\ h[4]) /\ ~(h[3] /\ h[4])
    BY <2>1 DEF IInv, HandsInv
  <2> HIDE DEF h
  <2>3. \A i \in 1..4 : i = 1 \/ i = 2 \/ i = 3 \/ i = 4
    OBVIOUS
  <2>4. \E i \in 1..4 : h[i] /\ \A j \in (1..4) \ {i} : ~h[j]
    BY <2>2, <2>3
  <2> QED BY <2>4 DEF h
<1> QED BY <1>1, InitIInv, NextIInv, PTL DEF BufferSpec

-----------------------------------------------------------------------------
(* The content of the buffers *)

BlocksInv ==
    /\ DOMAIN chunk = Buffers /\ DOMAIN written = Buffers
    /\ \A b \in Buffers :
        /\ DOMAIN chunk[b] = Blocks(b)
        /\ \A i \in Blocks(b) : chunk[b][i] \in Contents(b)
        /\ DOMAIN written[b] \subseteq Blocks(b)

\* An output has a first block, and payloads in it.
LEMMA OutputBlocks ==
    ASSUME NEW b \in Outputs
    PROVE  b \in Buffers /\ b \notin Inputs /\ Contents(b) = Seq(Payloads) /\ 0 \in Blocks(b)
<1>1. b \in Buffers /\ b \notin Inputs
  BY PortsAssumption DEF Outputs, Inputs
<1>2. Datas[b] \in Nat /\ Datas[b] >= 1
  BY <1>1, DatasAssumption
<1> QED BY <1>1, <1>2 DEF Contents, Blocks

LEMMA InitBlocks == BufferInit => BlocksInv
<1> SUFFICES ASSUME BufferInit PROVE BlocksInv
  OBVIOUS
<1>1. DOMAIN chunk = Buffers /\ DOMAIN written = Buffers
  BY DEF BufferInit
<1>2. ASSUME NEW b \in Buffers
      PROVE  /\ DOMAIN chunk[b] = Blocks(b)
             /\ \A i \in Blocks(b) : chunk[b][i] \in Contents(b)
             /\ DOMAIN written[b] \subseteq Blocks(b)
  <2>1. chunk[b] = [i \in Blocks(b) |-> IF b \in Inputs THEN NULL ELSE <<>>]
    BY DEF BufferInit
  <2>2. written[b] = <<>> /\ DOMAIN written[b] = {}
    BY DEF BufferInit
  <2>3. ASSUME NEW i \in Blocks(b) PROVE chunk[b][i] \in Contents(b)
    <3>1. <<>> \in Seq(Payloads)
      OBVIOUS
    <3>2. chunk[b][i] = IF b \in Inputs THEN NULL ELSE <<>>
      BY <2>1
    <3> QED BY <3>1, <3>2 DEF Contents
  <2>4. DOMAIN chunk[b] = Blocks(b)
    BY <2>1
  <2> QED BY <2>2, <2>3, <2>4
<1> QED BY <1>1, <1>2 DEF BlocksInv

\* Putting content into the first block of an output.
LEMMA FirstBlock ==
    ASSUME BlocksInv, NEW b \in Outputs, NEW c \in Seq(Payloads), NEW w,
           DOMAIN w \subseteq Blocks(b),
           chunk' = [chunk EXCEPT ![b][0] = c],
           written' = [written EXCEPT ![b] = w]
    PROVE  BlocksInv'
<1>1. b \in Buffers /\ Contents(b) = Seq(Payloads) /\ 0 \in Blocks(b)
  BY OutputBlocks
<1>2. DOMAIN chunk = Buffers /\ DOMAIN written = Buffers
  BY DEF BlocksInv
<1>3. /\ DOMAIN chunk' = Buffers /\ DOMAIN written' = Buffers
      /\ chunk'[b] = [chunk[b] EXCEPT ![0] = c] /\ written'[b] = w
      /\ \A d \in Buffers \ {b} : chunk'[d] = chunk[d] /\ written'[d] = written[d]
  BY <1>1, <1>2
<1>4. DOMAIN chunk[b] = Blocks(b) /\ \A i \in Blocks(b) : chunk[b][i] \in Contents(b)
  BY <1>1 DEF BlocksInv
<1>5. /\ DOMAIN chunk'[b] = Blocks(b)
      /\ \A i \in Blocks(b) : chunk'[b][i] \in Contents(b)
  BY <1>1, <1>3, <1>4
<1>6. ASSUME NEW d \in Buffers
      PROVE  /\ DOMAIN chunk'[d] = Blocks(d)
             /\ \A i \in Blocks(d) : chunk'[d][i] \in Contents(d)
             /\ DOMAIN written'[d] \subseteq Blocks(d)
  BY <1>3, <1>5 DEF BlocksInv
<1> QED BY <1>3, <1>6 DEF BlocksInv, Contents, Blocks, Inputs

LEMMA NextBlocks == BlocksInv /\ [BufferNext]_bufferVars => BlocksInv'
<1> SUFFICES ASSUME BlocksInv, [BufferNext]_bufferVars PROVE BlocksInv'
  OBVIOUS
<1>1. CASE UNCHANGED <<chunk, written>>
  BY <1>1 DEF BlocksInv, Contents, Blocks, Inputs
<1>2. ASSUME NEW b \in Buffers, GraphOffer(b) PROVE BlocksInv'
  <2>1. CASE b \notin Inputs
    BY <1>1, <1>2, <2>1 DEF GraphOffer
  <2>2. CASE b \in Inputs
    <3>1. PICK c \in [Blocks(b) -> Pods \cup {NULL}] : chunk' = [chunk EXCEPT ![b] = c]
      BY <1>2, <2>2 DEF GraphOffer
    <3>2. written' = written
      BY <1>2 DEF GraphOffer
    <3>3. Contents(b) = Pods \cup {NULL}
      BY <2>2 DEF Contents
    <3>4. /\ DOMAIN chunk' = Buffers /\ chunk'[b] = c
          /\ \A d \in Buffers \ {b} : chunk'[d] = chunk[d]
      BY <3>1 DEF BlocksInv
    <3>5. ASSUME NEW d \in Buffers
          PROVE  /\ DOMAIN chunk'[d] = Blocks(d)
                 /\ \A i \in Blocks(d) : chunk'[d][i] \in Contents(d)
      BY <3>3, <3>4 DEF BlocksInv
    <3> QED BY <3>2, <3>4, <3>5 DEF BlocksInv, Contents, Blocks, Inputs
  <2> QED BY <2>1, <2>2
<1>3. ASSUME NEW p \in Ports, GetBuffer(p) PROVE BlocksInv'
  <2>1. chunk' = chunk /\ written' = [written EXCEPT ![Head(available[p])] = <<>>]
    BY <1>3 DEF GetBuffer
  <2>2. \A b \in Buffers : written'[b] = written[b] \/ written'[b] = <<>>
    BY <2>1 DEF BlocksInv
  <2>3. \A b \in Buffers : DOMAIN written'[b] \subseteq Blocks(b)
    BY <2>2 DEF BlocksInv
  <2> QED BY <2>1, <2>3 DEF BlocksInv, Contents, Blocks, Inputs
<1>4. ASSUME NEW b \in Outputs, NEW i \in Blocks(b), GetSpaData(b, i) PROVE BlocksInv'
  <2> DEFINE w == [j \in DOMAIN written[b] \cup {i} |-> IF j = i THEN <<>> ELSE written[b][j]]
  <2>1. b \in Buffers
    BY OutputBlocks
  <2>2. chunk' = [chunk EXCEPT ![b][0] = <<>>] /\ written' = [written EXCEPT ![b] = w]
    BY <1>4, <2>1 DEF GetSpaData, SpaDataBlock, BlocksInv
  <2>3. DOMAIN w \subseteq Blocks(b)
    BY <2>1 DEF BlocksInv
  <2> HIDE DEF w
  <2>4. <<>> \in Seq(Payloads)
    OBVIOUS
  <2> QED BY <2>2, <2>3, <2>4, FirstBlock
<1>5. ASSUME NEW b \in Outputs, NEW i \in Blocks(b), NEW d \in Payloads, Write(b, i, d)
      PROVE  BlocksInv'
  <2> DEFINE c == Append(chunk[b][0], d)
  <2> DEFINE w == [written[b] EXCEPT ![i] = Append(@, d)]
  <2>1. b \in Buffers /\ 0 \in Blocks(b) /\ Contents(b) = Seq(Payloads)
    BY OutputBlocks
  <2>2. chunk[b][0] \in Seq(Payloads)
    BY <2>1 DEF BlocksInv
  <2>3. c \in Seq(Payloads)
    BY <2>2
  <2>4. chunk' = [chunk EXCEPT ![b][0] = c] /\ written' = [written EXCEPT ![b] = w]
    BY <1>5, <2>1 DEF Write, SpaDataBlock, BlocksInv
  <2>5. DOMAIN w \subseteq Blocks(b)
    BY <2>1 DEF BlocksInv
  <2> HIDE DEF c, w
  <2> QED BY <2>3, <2>4, <2>5, FirstBlock
<1>6. CASE GraphStep
  BY <1>1, <1>2, <1>6 DEF GraphStep, GraphCollect
<1>7. CASE ProcessorStep
  BY <1>1, <1>3, <1>4, <1>5, <1>7 DEF ProcessorStep, Finish
<1> QED BY <1>1, <1>6, <1>7 DEF BufferNext, bufferVars

\* Every buffer, queue and block keeps its type.
THEOREM BufferTypes == BufferSpec => []BuffersTypeOK
<1>1. IInv /\ BlocksInv => BuffersTypeOK
  BY DEF IInv, PlacesOK, BlocksInv, BuffersTypeOK
<1> QED BY <1>1, InitIInv, NextIInv, InitBlocks, NextBlocks, PTL DEF BufferSpec

-----------------------------------------------------------------------------
(* What is in an output *)

\* With one block to an output, the index of get_spa_data does not matter.
OneBlock == \A b \in Outputs : Datas[b] = 1

WrittenInv ==
    \A b \in Outputs : \A i \in DOMAIN written[b] : chunk[b][i] = written[b][i]

LEMMA NextWritten ==
    ASSUME OneBlock, BlocksInv, WrittenInv, [BufferNext]_bufferVars
    PROVE  WrittenInv'
<1> USE DEF WrittenInv
<1>1. CASE UNCHANGED <<chunk, written>>
  BY <1>1 DEF Outputs
<1>2. \A b \in Outputs : b \in Buffers /\ b \notin Inputs /\ Blocks(b) = {0}
  BY OutputBlocks DEF OneBlock, Blocks
<1>3. ASSUME NEW b \in Buffers, GraphOffer(b) PROVE WrittenInv'
  <2>1. written' = written /\ \A d \in Outputs : chunk'[d] = chunk[d]
    BY <1>2, <1>3 DEF GraphOffer, BlocksInv
  <2> QED BY <2>1 DEF Outputs
<1>4. ASSUME NEW p \in Ports, GetBuffer(p) PROVE WrittenInv'
  <2>1. chunk' = chunk /\ \A b \in Outputs : written'[b] = written[b] \/ written'[b] = <<>>
    BY <1>2, <1>4 DEF GetBuffer, BlocksInv
  <2> QED BY <2>1 DEF Outputs
<1>5. ASSUME NEW b \in Outputs, NEW i \in Blocks(b), GetSpaData(b, i) PROVE WrittenInv'
  <2> DEFINE w == [j \in DOMAIN written[b] \cup {i} |-> IF j = i THEN <<>> ELSE written[b][j]]
  <2>1. b \in Buffers /\ i = 0 /\ DOMAIN written[b] \subseteq {0}
    BY <1>2 DEF BlocksInv
  <2>2. chunk' = [chunk EXCEPT ![b][0] = <<>>] /\ written' = [written EXCEPT ![b] = w]
    BY <1>5, <2>1 DEF GetSpaData, SpaDataBlock, BlocksInv
  <2>3. DOMAIN w = {0} /\ w[0] = <<>> /\ DOMAIN w \subseteq Blocks(b)
    BY <2>1, <1>2
  <2> HIDE DEF w
  <2>5. /\ chunk'[b][0] = <<>> /\ written'[b] = w
        /\ \A d \in Buffers \ {b} : chunk'[d] = chunk[d] /\ written'[d] = written[d]
    BY <2>1, <2>2, <1>2 DEF BlocksInv
  <2> QED BY <2>3, <2>5, <1>2 DEF Outputs
<1>6. ASSUME NEW b \in Outputs, NEW i \in Blocks(b), NEW d \in Payloads, Write(b, i, d)
      PROVE  WrittenInv'
  <2> DEFINE c == Append(chunk[b][0], d)
  <2> DEFINE w == [written[b] EXCEPT ![i] = Append(@, d)]
  <2>1. b \in Buffers /\ i = 0 /\ DOMAIN written[b] = {0} /\ written[b][0] = chunk[b][0]
    BY <1>2, <1>6 DEF BlocksInv, Write
  <2>3. chunk' = [chunk EXCEPT ![b][0] = c] /\ written' = [written EXCEPT ![b] = w]
    BY <1>6, <2>1 DEF Write, SpaDataBlock, BlocksInv
  <2>4. DOMAIN w = {0} /\ w[0] = c /\ DOMAIN w \subseteq Blocks(b)
    BY <2>1, <1>2
  <2> HIDE DEF c, w
  <2>5. /\ chunk'[b][0] = c /\ written'[b] = w
        /\ \A e \in Buffers \ {b} : chunk'[e] = chunk[e] /\ written'[e] = written[e]
    BY <2>1, <2>3, <1>2 DEF BlocksInv
  <2> QED BY <2>4, <2>5, <1>2 DEF Outputs
<1>7. CASE GraphStep
  BY <1>1, <1>3, <1>7 DEF GraphStep, GraphCollect
<1>8. CASE ProcessorStep
  BY <1>1, <1>4, <1>5, <1>6, <1>8 DEF ProcessorStep, Finish
<1> QED BY <1>1, <1>7, <1>8 DEF BufferNext, bufferVars

\* On outputs with one block, what the graph gets back is what the program wrote
\* since get_spa_data (buffer.h), whatever earlier cycles left there.
THEOREM OneBlockIsAsWritten ==
    ASSUME OneBlock
    PROVE  BufferSpec => []OutputAsWritten
<1>1. BufferInit => WrittenInv
  BY OutputBlocks DEF BufferInit, WrittenInv
<1>2. BlocksInv /\ WrittenInv /\ [BufferNext]_bufferVars => WrittenInv'
  BY NextWritten
<1>3. WrittenInv => OutputAsWritten
  BY DEF WrittenInv, OutputAsWritten
<1> QED BY <1>1, <1>2, <1>3, InitBlocks, NextBlocks, PTL DEF BufferSpec
=============================================================================
