--------------------------- MODULE OscMessagesProofs ---------------------------
(***************************************************************************)
(* The processor of OscInput and OscMessages does with its buffers what    *)
(* PortBuffers allows, finds what the graph put there, and stays inside    *)
(* the packets it walks and the messages it reads.                         *)
(***************************************************************************)
EXTENDS OscMessages, PortBuffersProofs, FiniteSetTheorems, SequenceTheorems,
        WellFoundedInduction

\* What OscMessages adds to the steps of OscInput, as far as OscInput can tell.
ReadingStep ==
    /\ UNCHANGED <<bufferVars, source, rest, index, result, outcome, walk>>
    /\ pc \in {"between", "reading"} /\ pc' \in {"between", "reading", "crashed"}

LEMMA MessageSteps == [MessagesNext]_allVars => [Next]_vars \/ ReadingStep
<1> SUFFICES ASSUME MessagesNext PROVE [Next]_vars \/ ReadingStep
  BY DEF allVars
<1>1. CASE \E i \in DOMAIN result : Message(i) \/ MessageOverNull(i)
  BY <1>1 DEF Message, MessageOverNull, ReadingStep
<1>2. CASE LeaveStream
  BY <1>2 DEF LeaveStream, ReadingStep
<1>3. CASE \/ \E accessor \in DOMAIN Accepts : Reading(Get(accessor))
           \/ Reading(Drop) \/ Reading(Array)
  BY <1>3 DEF Reading
<1> QED BY <1>1, <1>2, <1>3 DEF MessagesNext, Input

\* Every step of the processor and of the graph is one of PortBuffers or leaves
\* the buffers alone.
LEMMA StepIsBufferStep == [Next]_vars \/ ReadingStep => [BufferNext]_bufferVars
<1> SUFFICES ASSUME [Next]_vars \/ ReadingStep PROVE BufferNext \/ UNCHANGED bufferVars
  OBVIOUS
<1>0. CASE ReadingStep
  BY <1>0 DEF ReadingStep
<1>1. CASE UNCHANGED vars
  BY <1>1 DEF vars
<1>2. CASE Graph
  BY <1>2 DEF Graph, BufferNext
<1>3. CASE \E p \in Ports : Between(GetBuffer(p))
  BY <1>3 DEF Between, BufferNext, ProcessorStep
<1>4. CASE \E b \in Outputs : \E i \in Blocks(b) :
             Between(GetSpaData(b, i)) \/ \E d \in Payloads : Between(Write(b, i, d))
  BY <1>4 DEF Between, BufferNext, ProcessorStep
<1>5. CASE \E o \in held : FinishBuffer(o)
  BY <1>5 DEF FinishBuffer, BufferNext, ProcessorStep
<1>6. CASE \E b \in Inputs, n \in MaxNs : ParseOsc(b, n)
  BY <1>6 DEF ParseOsc
<1>7. CASE \E i \in DOMAIN result : Bundle(i)
  BY <1>7 DEF Bundle
<1>8. CASE Running
  BY <1>8 DEF Running, TooMany, Control, Return, NextPacket, NextThrows, WalkEnds
<1>9. CASE Crashed
  BY <1>9 DEF Crashed, vars
<1> QED BY <1>0, <1>1, <1>2, <1>3, <1>4, <1>5, <1>6, <1>7, <1>8, <1>9 DEF Next

\* A processor that parses and walks is one of the programs PortBuffers is about.
THEOREM InputImplementsBuffers == Spec => BufferSpec
<1>1. Init => BufferInit
  BY DEF Init
<1> QED BY <1>1, StepIsBufferStep, PTL DEF Spec, BufferSpec

\* While the processor parses and walks, every buffer still has one owner.
THEOREM InputsHaveOneOwner == Spec => []OneOwner
BY InputImplementsBuffers, BuffersHaveOneOwner, PTL

-----------------------------------------------------------------------------
(* The packets are views into a buffer that is held *)

\* The buffer that was parsed is held, and holds a sequence.
SourceOK ==
    /\ source \in HeldBuffers /\ source \in Inputs /\ 0 \in Blocks(source)
    /\ chunk[source][0] \in Pods /\ chunk[source][0].kind = "sequence"

Parsed == chunk[source][0].controls

HasPackets == \E i \in DOMAIN result : result[i] # NoPacket

RestInv ==
    pc = "parsing" =>
        /\ rest \in Seq(Controls) /\ Len(rest) <= Len(Parsed)
        /\ \A k \in 1..Len(rest) : rest[k] = Parsed[Len(Parsed) - Len(rest) + k]

ResultInv ==
    \A i \in DOMAIN result :
        result[i] # NoPacket =>
            /\ result[i].at \in 1..Len(Parsed)
            /\ Parsed[result[i].at].packet = result[i].packet

ViewInv ==
    /\ pc = "parsing" \/ HasPackets => SourceOK
    /\ RestInv
    /\ ResultInv

LEMMA SourceFacts ==
    ASSUME SourceOK
    PROVE  /\ Parsed \in Seq(Controls)
           /\ GetPod(source, 0) = [engaged |-> TRUE, pod |-> chunk[source][0]]
           /\ PodOf(GetPod(source, 0)) = "sequence"
<1>1. Parsed \in Seq(Controls)
  BY PodsAssumption DEF SourceOK, Parsed
<1>2. source \in Buffers /\ Datas[source] > 0
  BY DatasAssumption DEF SourceOK, Inputs, Blocks
<1>3. GetPod(source, 0) = [engaged |-> TRUE, pod |-> chunk[source][0]]
  BY <1>2 DEF GetPod
<1>4. chunk[source][0] # NULL
  BY ContentAssumption DEF SourceOK
<1> QED BY <1>1, <1>3, <1>4 DEF PodOf, SourceOK

\* A step that leaves the buffer, and what was read from it, alone.
LEMMA QuietStep ==
    ASSUME ViewInv, UNCHANGED <<source, rest, result>>, pc' = "parsing" => pc = "parsing",
           SourceOK => source \in HeldBuffers' /\ chunk'[source] = chunk[source]
    PROVE  ViewInv'
<1>1. SourceOK => SourceOK' /\ Parsed' = Parsed
  BY DEF SourceOK, Parsed, Inputs, Blocks
<1>2. HasPackets' <=> HasPackets
  BY DEF HasPackets
<1>3. pc' = "parsing" \/ HasPackets => SourceOK /\ SourceOK' /\ Parsed' = Parsed
  BY <1>1 DEF ViewInv
<1>4. RestInv'
  BY <1>3 DEF ViewInv, RestInv
<1>5. ResultInv'
  BY <1>3 DEF ViewInv, ResultInv, HasPackets
<1> QED BY <1>2, <1>3, <1>4, <1>5 DEF ViewInv

\* The graph fills only buffers that nobody holds.
LEMMA HeldChunk ==
    ASSUME IInv, BlocksInv, Graph, source \in HeldBuffers, source \in Inputs
    PROVE  chunk'[source] = chunk[source]
<1>1. source \in Buffers /\ source \notin graph
  BY DEF Inputs, IInv, HandsInv
<1>2. CASE \E b \in Buffers : GraphOffer(b)
  BY <1>1, <1>2 DEF GraphOffer, BlocksInv
<1>3. CASE \E p \in Ports : GraphCollect(p)
  BY <1>3 DEF GraphCollect
<1> QED BY <1>2, <1>3 DEF Graph, GraphStep

LEMMA GraphView ==
    ASSUME IInv, BlocksInv, ViewInv, Graph
    PROVE  ViewInv'
<1>1. UNCHANGED oscVars /\ held' = held
  BY DEF Graph, GraphStep, GraphOffer, GraphCollect
<1>2. source \in HeldBuffers' <=> source \in HeldBuffers
  BY <1>1 DEF HeldBuffers
<1>3. SourceOK => chunk'[source] = chunk[source]
  BY HeldChunk DEF SourceOK
<1> QED BY <1>1, <1>2, <1>3, QuietStep DEF oscVars, SourceOK

\* The processor takes another buffer, or writes to an output.
LEMMA BetweenChunk ==
    ASSUME BlocksInv, source \in HeldBuffers, source \in Inputs,
           \/ \E p \in Ports : Between(GetBuffer(p))
           \/ \E b \in Outputs : \E i \in Blocks(b) :
                Between(GetSpaData(b, i)) \/ \E d \in Payloads : Between(Write(b, i, d))
    PROVE  source \in HeldBuffers' /\ chunk'[source] = chunk[source]
<1>1. HeldBuffers \subseteq HeldBuffers'
  BY DEF Between, GetBuffer, GetSpaData, Write, HeldBuffers
<1>2. CASE \E p \in Ports : Between(GetBuffer(p))
  BY <1>1, <1>2 DEF Between, GetBuffer
<1>3. ASSUME NEW b \in Outputs, NEW i \in Blocks(b),
             GetSpaData(b, i) \/ \E d \in Payloads : Write(b, i, d)
      PROVE  chunk'[source] = chunk[source]
  <2>1. b # source
    BY OutputBlocks
  <2> QED BY <1>3, <2>1 DEF GetSpaData, Write, BlocksInv, Inputs
<1> QED BY <1>1, <1>2, <1>3 DEF Between

LEMMA BetweenView ==
    ASSUME BlocksInv, ViewInv,
           \/ \E p \in Ports : Between(GetBuffer(p))
           \/ \E b \in Outputs : \E i \in Blocks(b) :
                Between(GetSpaData(b, i)) \/ \E d \in Payloads : Between(Write(b, i, d))
    PROVE  ViewInv'
<1>1. UNCHANGED oscVars
  BY DEF Between
<1>2. SourceOK => source \in HeldBuffers' /\ chunk'[source] = chunk[source]
  BY BetweenChunk DEF SourceOK
<1> QED BY <1>1, <1>2, QuietStep DEF oscVars

\* Its packets are gone when the buffer is finished.
LEMMA FinishView ==
    ASSUME IInv, ViewInv, NEW o \in held, FinishBuffer(o)
    PROVE  ViewInv'
<1>1. /\ pc = "between" /\ pc' = pc /\ rest' = rest
      /\ held' = held \ {o} /\ chunk' = chunk
  BY DEF FinishBuffer, Finish
<1>2. CASE o.buffer = source
  <2>1. result' = EmptyArray(0)
    BY <1>2 DEF FinishBuffer
  <2>2. DOMAIN result' = {}
    BY <2>1 DEF EmptyArray
  <2> QED BY <1>1, <2>2 DEF ViewInv, HasPackets, RestInv, ResultInv
<1>3. CASE o.buffer # source
  <2>1. UNCHANGED <<source, result>>
    BY <1>3 DEF FinishBuffer
  <2>2. source \in HeldBuffers => source \in HeldBuffers'
    BY <1>1, <1>3 DEF HeldBuffers
  <2> QED BY <1>1, <2>1, <2>2, QuietStep DEF SourceOK
<1> QED BY <1>2, <1>3

\* parse_osc begins with no packets, and with all of the controls.
LEMMA ParseView ==
    ASSUME BlocksInv, ViewInv, NEW b \in Inputs, NEW n \in MaxNs, ParseOsc(b, n)
    PROVE  ViewInv'
<1> DEFINE found == GetPod(b, 0)
<1>1. /\ b \in HeldBuffers /\ source' = b /\ result' = EmptyArray(n)
      /\ UNCHANGED bufferVars
      /\ pc' = "parsing" => PodOf(found) = "sequence"
      /\ PodOf(found) = "sequence" => rest' = found.pod.controls
  BY DEF ParseOsc
<1>2. \A i \in DOMAIN result' : result'[i] = NoPacket
  BY <1>1 DEF EmptyArray
<1>3. ~HasPackets' /\ ResultInv'
  BY <1>2 DEF HasPackets, ResultInv
<1>4. ASSUME pc' = "parsing" PROVE SourceOK' /\ rest' = Parsed'
  <2>1. /\ found.engaged /\ found.pod # NULL /\ found.pod.kind = "sequence"
        /\ rest' = found.pod.controls
    BY <1>1, <1>4 DEF PodOf
  <2>2. b \in Buffers /\ Datas[b] > 0 /\ Datas[b] \in Nat /\ found.pod = chunk[b][0]
    BY <2>1, DatasAssumption DEF GetPod, Inputs
  <2>3. 0 \in Blocks(b)
    BY <2>2 DEF Blocks
  <2>4. chunk[b][0] \in Pods
    BY <2>1, <2>2, <2>3 DEF BlocksInv, Contents
  <2>5. b \in HeldBuffers'
    BY <1>1 DEF bufferVars, HeldBuffers
  <2>6. SourceOK'
    BY <1>1, <2>1, <2>2, <2>3, <2>4, <2>5 DEF bufferVars, SourceOK, Inputs, Blocks
  <2>7. rest' = Parsed'
    BY <1>1, <2>1, <2>2 DEF bufferVars, Parsed
  <2> QED BY <2>6, <2>7
<1>5. RestInv'
  <2> SUFFICES ASSUME pc' = "parsing"
               PROVE  /\ rest' \in Seq(Controls) /\ Len(rest') <= Len(Parsed')
                      /\ \A k \in 1..Len(rest') : rest'[k] = Parsed'[Len(Parsed') - Len(rest') + k]
    BY DEF RestInv
  <2>1. rest' = Parsed' /\ chunk'[source'][0] \in Pods /\ chunk'[source'][0].kind = "sequence"
    BY <1>4 DEF SourceOK
  <2>2. rest' \in Seq(Controls)
    BY <2>1, PodsAssumption DEF Parsed
  <2> QED BY <2>1, <2>2
<1> QED BY <1>3, <1>4, <1>5 DEF ViewInv

\* A control: its packet is what the buffer has at its place.
LEMMA ControlView ==
    ASSUME ViewInv, Control
    PROVE  ViewInv'
<1>1. /\ pc = "parsing" /\ rest # <<>> /\ rest' = Tail(rest)
      /\ UNCHANGED bufferVars /\ source' = source
      /\ result' = IF IsOsc(Head(rest)) THEN Stored(Head(rest)) ELSE result
  BY DEF Control, Remaining
<1>2. SourceOK /\ SourceOK' /\ Parsed' = Parsed
  BY <1>1 DEF ViewInv, SourceOK, Parsed, bufferVars, HeldBuffers, Inputs, Blocks
<1>3. /\ Parsed \in Seq(Controls) /\ rest \in Seq(Controls)
      /\ Len(rest) \in Nat \ {0} /\ Len(Parsed) \in Nat /\ Len(rest) <= Len(Parsed)
  BY <1>1, <1>2, SourceFacts DEF ViewInv, RestInv
<1>4. Position \in 1..Len(Parsed) /\ Parsed[Position] = Head(rest)
  BY <1>1, <1>3, SMTT(30) DEF ViewInv, RestInv, Position, Parsed
<1>5. RestInv'
  <2>1. /\ Tail(rest) \in Seq(Controls) /\ Len(Tail(rest)) = Len(rest) - 1
        /\ \A k \in 1..Len(Tail(rest)) : Tail(rest)[k] = rest[k + 1]
    BY <1>1, <1>3
  <2>2. \A k \in 1..Len(rest) : rest[k] = Parsed[Len(Parsed) - Len(rest) + k]
    BY <1>1 DEF ViewInv, RestInv
  <2>3. ASSUME NEW k \in 1..Len(Tail(rest))
        PROVE  Tail(rest)[k] = Parsed[Len(Parsed) - Len(Tail(rest)) + k]
    <3>1. k + 1 \in 1..Len(rest) /\ Tail(rest)[k] = rest[k + 1]
      BY <1>3, <2>1
    <3>2. Len(Parsed) - Len(rest) + (k + 1) = Len(Parsed) - Len(Tail(rest)) + k
      BY <1>3, <2>1
    <3> QED BY <2>2, <3>1, <3>2
  <2> QED BY <1>1, <1>2, <1>3, <2>1, <2>3 DEF RestInv
<1>6. ResultInv'
  <2> SUFFICES ASSUME NEW i \in DOMAIN result', result'[i] # NoPacket
               PROVE  /\ result'[i].at \in 1..Len(Parsed)
                      /\ Parsed[result'[i].at].packet = result'[i].packet
    BY <1>2 DEF ResultInv
  <2>1. CASE result'[i] = View(Head(rest))
    BY <1>4, <2>1 DEF View
  <2>2. CASE i \in DOMAIN result /\ result'[i] = result[i]
    BY <2>2 DEF ViewInv, ResultInv
  <2>3. \/ result'[i] = View(Head(rest))
        \/ i \in DOMAIN result /\ result'[i] = result[i]
    BY <1>1 DEF Stored
  <2> QED BY <2>1, <2>2, <2>3
<1> QED BY <1>2, <1>5, <1>6 DEF ViewInv

LEMMA NextView == IInv /\ BlocksInv /\ ViewInv /\ ([Next]_vars \/ ReadingStep) => ViewInv'
<1> SUFFICES ASSUME IInv, BlocksInv, ViewInv, [Next]_vars \/ ReadingStep PROVE ViewInv'
  OBVIOUS
<1>1. ASSUME UNCHANGED <<bufferVars, source, rest, result>>, pc' = "parsing" => pc = "parsing"
      PROVE  ViewInv'
  <2>1. SourceOK => source \in HeldBuffers' /\ chunk'[source] = chunk[source]
    BY <1>1 DEF SourceOK, HeldBuffers, bufferVars
  <2> QED BY <1>1, <2>1, QuietStep
<1>2. CASE UNCHANGED vars
  BY <1>1, <1>2 DEF vars, oscVars
<1>3. CASE Graph
  BY <1>3, GraphView
<1>4. CASE \/ \E p \in Ports : Between(GetBuffer(p))
           \/ \E b \in Outputs : \E i \in Blocks(b) :
                Between(GetSpaData(b, i)) \/ \E d \in Payloads : Between(Write(b, i, d))
  BY <1>4, BetweenView
<1>5. CASE \E o \in held : FinishBuffer(o)
  BY <1>5, FinishView
<1>6. CASE \E b \in Inputs, n \in MaxNs : ParseOsc(b, n)
  BY <1>6, ParseView
<1>7. CASE \E i \in DOMAIN result : Bundle(i)
  BY <1>1, <1>7 DEF Bundle
<1>8. CASE Control
  BY <1>8, ControlView
<1>9. CASE TooMany \/ Return \/ NextThrows \/ WalkEnds \/ \E size \in Sizes : NextPacket(size)
  BY <1>1, <1>9 DEF TooMany, Return, NextThrows, WalkEnds, NextPacket
<1>10. CASE Crashed
  BY <1>2, <1>10 DEF Crashed
<1>11. CASE ReadingStep
  BY <1>1, <1>11 DEF ReadingStep
<1> QED
  BY <1>11, <1>2, <1>3, <1>4, <1>5, <1>6, <1>7, <1>8, <1>9, <1>10 DEF Next, Running

LEMMA ViewInvMeans == ViewInv => ViewsStayValid
<1> SUFFICES ASSUME ViewInv, NEW i \in DOMAIN result, result[i] # NoPacket
             PROVE  /\ source \in HeldBuffers
                    /\ PodOf(GetPod(source, 0)) = "sequence"
                    /\ result[i].at \in DOMAIN Parsed
                    /\ Parsed[result[i].at].packet = result[i].packet
  BY DEF ViewsStayValid, Parsed
<1>1. SourceOK
  BY DEF ViewInv, HasPackets
<1> QED BY <1>1, SourceFacts DEF ViewInv, ResultInv, SourceOK

\* As long as its buffer is not finished, a packet shows what the graph wrote where
\* parse_osc (parse_osc.h) found it.
THEOREM PacketsStayValid == Spec => []ViewsStayValid
<1>1. Init => BufferInit /\ ViewInv
  BY DEF Init, ViewInv, HasPackets, RestInv, ResultInv, EmptyArray
<1> QED BY <1>1, ViewInvMeans, InitIInv, InitBlocks, StepIsBufferStep, NextIInv, NextBlocks, NextView,
           PTL DEF Spec

-----------------------------------------------------------------------------
(* The walk over a bundle *)

Spans == [begin : Nat, end : Nat]

\* What has been returned ends where the next element begins, or before.
WalkInv ==
    /\ walk \in [pos : Nat, end : Nat, found : Seq(Spans)]
    /\ walk.pos <= walk.end
    /\ pc = "walking" => walk.pos >= 16
    /\ \A i \in DOMAIN walk.found :
        /\ walk.found[i].begin >= IF i = 1 THEN 20 ELSE walk.found[i - 1].end + 4
        /\ walk.found[i].begin <= walk.found[i].end
        /\ walk.found[i].end <= walk.pos

\* A packet has a length.
LEMMA PacketLength ==
    ASSUME ViewInv, NEW i \in DOMAIN result, result[i] # NoPacket, result[i].packet # NULL
    PROVE  result[i].packet.length \in Nat
<1>1. SourceOK
  BY DEF ViewInv, HasPackets
<1>2. Parsed \in Seq(Controls) /\ result[i].at \in 1..Len(Parsed)
      /\ Parsed[result[i].at].packet = result[i].packet
  BY <1>1, SourceFacts DEF ViewInv, ResultInv
<1>3. Parsed[result[i].at] \in Controls
  BY <1>2
<1> QED BY <1>2, <1>3 DEF Controls, Packets

\* The next element begins behind the last one and ends within the bundle.
LEMMA NextPacketWalk ==
    ASSUME WalkInv, NEW size \in Sizes, NextPacket(size)
    PROVE  WalkInv'
<1> DEFINE next == [begin |-> walk.pos + 4, end |-> walk.pos + 4 + size]
<1>1. /\ walk.pos \in Nat /\ walk.end \in Nat /\ walk.found \in Seq(Spans)
      /\ walk.pos >= 16 /\ size \in Int /\ size >= 0 /\ size <= walk.end - walk.pos - 4
  <2>1. pc = "walking" /\ Skippable(size)
    BY DEF NextPacket
  <2>2. /\ walk.pos \in Nat /\ walk.end \in Nat /\ walk.found \in Seq(Spans)
        /\ walk.pos >= 16
    BY <2>1 DEF WalkInv
  <2>3. size \in Int
    BY SizesAssumption
  <2> QED BY <2>1, <2>2, <2>3 DEF Skippable
<1>2. /\ walk' = [pos |-> walk.pos + 4 + size, end |-> walk.end,
                  found |-> Append(walk.found, next)]
      /\ pc' = pc
  BY DEF NextPacket, WalkInv
<1>3. next \in Spans
  BY <1>1 DEF Spans
<1>4. /\ walk'.found \in Seq(Spans) /\ DOMAIN walk'.found = 1..(Len(walk.found) + 1)
      /\ walk'.found[Len(walk.found) + 1] = next
      /\ \A i \in 1..Len(walk.found) : walk'.found[i] = walk.found[i]
      /\ DOMAIN walk.found = 1..Len(walk.found) /\ Len(walk.found) \in Nat
  BY <1>1, <1>2, <1>3
<1>5. ASSUME NEW i \in DOMAIN walk'.found
      PROVE  /\ walk'.found[i].begin >= IF i = 1 THEN 20 ELSE walk'.found[i - 1].end + 4
             /\ walk'.found[i].begin <= walk'.found[i].end
             /\ walk'.found[i].end <= walk'.pos
  <2>1. CASE i \in 1..Len(walk.found)
    <3>1. walk.found[i].end \in Nat /\ walk.found[i].end <= walk.pos
      <4>1. walk.found[i] \in Spans
        BY <1>1, <2>1
      <4> QED BY <1>4, <2>1, <4>1 DEF Spans, WalkInv
    <3>2. walk'.found[i] = walk.found[i]
          /\ (i # 1 => walk'.found[i - 1] = walk.found[i - 1])
      BY <1>4, <2>1
    <3>3. walk.pos <= walk'.pos
      BY <1>1, <1>2
    <3>4. /\ walk.found[i].begin >= IF i = 1 THEN 20 ELSE walk.found[i - 1].end + 4
          /\ walk.found[i].begin <= walk.found[i].end
      BY <1>4, <2>1 DEF WalkInv
    <3>5. walk'.found[i].end <= walk'.pos
      <4>1. walk'.pos \in Nat
        BY <1>1, <1>2
      <4> QED BY <1>1, <3>1, <3>2, <3>3, <4>1
    <3> QED BY <3>2, <3>4, <3>5
  <2>2. CASE i = Len(walk.found) + 1
    <3>1. walk'.found[i] = next /\ walk'.pos = next.end
      BY <1>2, <1>4, <2>2
    <3>2. ASSUME i # 1
          PROVE  walk'.found[i - 1].end \in Nat /\ walk'.found[i - 1].end <= walk.pos
      <4>1. i - 1 \in 1..Len(walk.found)
        BY <1>4, <2>2, <3>2
      <4>2. walk.found[i - 1] \in Spans
        BY <1>1, <4>1
      <4>3. walk.found[i - 1].end \in Nat /\ walk.found[i - 1].end <= walk.pos
        BY <1>4, <4>1, <4>2 DEF WalkInv, Spans
      <4> QED BY <1>4, <4>1, <4>3
    <3>3. next.begin = walk.pos + 4 /\ next.end = walk.pos + 4 + size
      OBVIOUS
    <3>4. /\ walk'.found[i].begin = walk.pos + 4
          /\ walk'.found[i].end = walk.pos + 4 + size
          /\ walk'.pos = walk.pos + 4 + size
      BY <3>1, <3>3
    <3>5. /\ walk'.found[i].begin <= walk'.found[i].end
          /\ walk'.found[i].end <= walk'.pos
      BY <1>1, <3>4
    <3>6. CASE i = 1
      BY <1>1, <3>4, <3>5, <3>6
    <3>7. CASE i # 1
      <4>1. walk'.found[i - 1].end + 4 <= walk.pos + 4
        BY <1>1, <3>2, <3>7
      <4> QED BY <1>1, <3>4, <3>5, <3>7, <4>1
    <3> QED BY <3>6, <3>7
  <2> QED BY <1>4, <2>1, <2>2
<1>6. /\ walk'.pos = walk.pos + 4 + size /\ walk'.end = walk.end
      /\ walk'.pos \in Nat /\ walk'.end \in Nat /\ walk'.pos <= walk'.end /\ walk'.pos >= 16
  BY <1>1, <1>2
<1>7. walk' \in [pos : Nat, end : Nat, found : Seq(Spans)]
  BY <1>2, <1>4, <1>6
<1> QED BY <1>5, <1>6, <1>7 DEF WalkInv

LEMMA NextWalk == ViewInv /\ WalkInv /\ ([Next]_vars \/ ReadingStep) => WalkInv'
<1> SUFFICES ASSUME ViewInv, WalkInv, [Next]_vars \/ ReadingStep PROVE WalkInv'
  OBVIOUS
<1>1. ASSUME walk' = walk, pc' = "walking" => pc = "walking" PROVE WalkInv'
  BY <1>1 DEF WalkInv
<1>2. ASSUME walk' = NoWalk, pc' = "between" PROVE WalkInv'
  BY <1>2 DEF WalkInv, NoWalk
<1>3. CASE UNCHANGED vars \/ Crashed
  BY <1>1, <1>3 DEF Crashed, vars, oscVars
<1>4. CASE \/ Graph \/ \E p \in Ports : Between(GetBuffer(p))
           \/ \E b \in Outputs : \E i \in Blocks(b) :
                Between(GetSpaData(b, i)) \/ \E d \in Payloads : Between(Write(b, i, d))
  BY <1>1, <1>4 DEF Graph, Between, oscVars
<1>5. CASE \E o \in held : FinishBuffer(o)
  BY <1>1, <1>5 DEF FinishBuffer
<1>6. CASE \E b \in Inputs, n \in MaxNs : ParseOsc(b, n)
  BY <1>1, <1>6 DEF ParseOsc
<1>7. ASSUME NEW i \in DOMAIN result, Bundle(i) PROVE WalkInv'
  <2>1. result[i].packet.length \in Nat
    BY <1>7, PacketLength DEF Bundle
  <2>2. /\ walk' = [pos |-> 16, end |-> result[i].packet.length, found |-> <<>>]
        /\ result[i].packet.length > 15
    BY <1>7 DEF Bundle
  <2> QED BY <2>1, <2>2 DEF WalkInv
<1>8. CASE TooMany \/ Control \/ Return
  BY <1>1, <1>8 DEF TooMany, Control, Return
<1>9. CASE \E size \in Sizes : NextPacket(size)
  BY <1>9, NextPacketWalk
<1>10. CASE NextThrows \/ WalkEnds
  BY <1>2, <1>10 DEF NextThrows, WalkEnds
<1>11. CASE ReadingStep
  BY <1>1, <1>11 DEF ReadingStep
<1> QED
  BY <1>11, <1>3, <1>4, <1>5, <1>6, <1>7, <1>8, <1>9, <1>10 DEF Next, Running

LEMMA WalkInvMeans == WalkInv => ElementsInside
<1> SUFFICES ASSUME WalkInv, NEW i \in DOMAIN walk.found
             PROVE  walk.found[i].end <= walk.end
  BY DEF WalkInv, ElementsInside
<1>1. walk.found[i] \in Spans
  BY DEF WalkInv
<1> QED BY <1>1 DEF WalkInv, Spans

\* The elements PacketStream returns (server.hpp) lie inside the bundle, one behind
\* the other, whatever sizes the packet announces.
THEOREM ElementsLieInside == Spec => []ElementsInside
<1>1. Init => BufferInit /\ ViewInv /\ WalkInv
  BY DEF Init, ViewInv, HasPackets, RestInv, ResultInv, EmptyArray, WalkInv, NoWalk
<1> QED BY <1>1, WalkInvMeans, InitIInv, InitBlocks, StepIsBufferStep, NextIInv, NextBlocks, NextView,
           NextWalk, PTL DEF Spec

-----------------------------------------------------------------------------
(* The types *)

TypesInv ==
    /\ pc \in {"between", "parsing", "walking", "reading", "crashed"}
    /\ source \in Inputs \cup {NULL}
    /\ rest \in Seq(Controls)
    /\ index = 0
    /\ \E n \in MaxNs \cup {0} : DOMAIN result = 0..(n - 1)
    /\ \A i \in DOMAIN result : result[i] = NoPacket \/ result[i] \in Views
    /\ outcome \in {"none", "packets", "pod_not_a_sequence", "too_many_messages"}

\* The next control is in the pod, where Position says.
LEMMA NextControl ==
    ASSUME ViewInv, pc = "parsing", rest # <<>>
    PROVE  /\ SourceOK
           /\ rest \in Seq(Controls) /\ Parsed \in Seq(Controls)
           /\ Len(rest) \in Nat /\ Len(Parsed) \in Nat
           /\ Len(rest) > 0 /\ Len(rest) <= Len(Parsed)
           /\ Position = Len(Parsed) - Len(rest) + 1
           /\ Position \in 1..Len(Parsed) /\ Parsed[Position] = Head(rest)
           /\ Head(rest) \in Controls /\ View(Head(rest)) \in Views
<1>1. SourceOK
  BY DEF ViewInv
<1>2. /\ rest \in Seq(Controls) /\ Parsed \in Seq(Controls)
      /\ Len(rest) \in Nat /\ Len(Parsed) \in Nat
      /\ Len(rest) > 0 /\ Len(rest) <= Len(Parsed)
  BY <1>1, SourceFacts DEF ViewInv, RestInv
<1>3. Position = Len(Parsed) - Len(rest) + 1
  BY DEF Position, Parsed
<1>4. Position \in 1..Len(Parsed) /\ Parsed[Position] = Head(rest)
  BY <1>2, <1>3 DEF ViewInv, RestInv
<1>5. Head(rest) \in Controls
  BY <1>2
<1>6. View(Head(rest)) \in Views
  BY <1>4, <1>5 DEF View, Views, Controls
<1> QED BY <1>1, <1>2, <1>3, <1>4, <1>5, <1>6

LEMMA ParseTypes ==
    ASSUME BlocksInv, TypesInv, NEW b \in Inputs, NEW n \in MaxNs, ParseOsc(b, n)
    PROVE  TypesInv'
<1> DEFINE found == GetPod(b, 0)
<1>1. /\ source' = b /\ index' = 0 /\ result' = EmptyArray(n)
      /\ pc' \in {"between", "parsing", "crashed"}
      /\ outcome' \in {"none", "packets", "pod_not_a_sequence"}
      /\ rest' = IF PodOf(found) = "sequence" THEN found.pod.controls ELSE <<>>
  BY DEF ParseOsc
<1>2. /\ DOMAIN result' = 0..(n - 1)
      /\ \A i \in DOMAIN result' : result'[i] = NoPacket
  BY <1>1 DEF EmptyArray
<1>3. ASSUME PodOf(found) = "sequence" PROVE found.pod.controls \in Seq(Controls)
  <2>1. found.engaged /\ found.pod # NULL /\ found.pod.kind = "sequence"
    BY <1>3 DEF PodOf
  <2>2. b \in Buffers /\ Datas[b] > 0 /\ Datas[b] \in Nat /\ found.pod = chunk[b][0]
    BY <2>1, DatasAssumption DEF GetPod, Inputs
  <2>3. chunk[b][0] \in Pods
    BY <2>1, <2>2 DEF BlocksInv, Contents, Blocks
  <2> QED BY <2>1, <2>2, <2>3, PodsAssumption
<1>4. rest' \in Seq(Controls)
  BY <1>1, <1>3
<1> HIDE DEF found
<1> QED BY <1>1, <1>2, <1>4 DEF TypesInv, Inputs

LEMMA ControlTypes ==
    ASSUME ViewInv, TypesInv, Control
    PROVE  TypesInv'
<1>1. /\ pc = "parsing" /\ rest # <<>> /\ index \in DOMAIN result
      /\ rest' = Tail(rest) /\ pc' \in {pc, "crashed"}
      /\ result' = IF IsOsc(Head(rest)) THEN Stored(Head(rest)) ELSE result
      /\ UNCHANGED <<source, index, outcome>>
  BY DEF Control, Remaining, Full
<1>2. rest' \in Seq(Controls)
  BY <1>1, NextControl
<1>3. /\ DOMAIN result' = DOMAIN result
      /\ \A i \in DOMAIN result : result'[i] = result[i] \/ result'[i] = View(Head(rest))
  BY <1>1 DEF Stored
<1>4. \A i \in DOMAIN result' : result'[i] = NoPacket \/ result'[i] \in Views
  BY <1>1, <1>3, NextControl DEF TypesInv
<1> QED BY <1>1, <1>2, <1>3, <1>4 DEF TypesInv, Inputs

LEMMA NextTypes ==
    BlocksInv /\ ViewInv /\ TypesInv /\ ([Next]_vars \/ ReadingStep) => TypesInv'
<1> SUFFICES ASSUME BlocksInv, ViewInv, TypesInv, [Next]_vars \/ ReadingStep PROVE TypesInv'
  OBVIOUS
<1>1. ASSUME UNCHANGED <<source, rest, index, result, outcome>>,
             pc' = pc \/ pc' \in {"between", "walking", "reading", "crashed"}
      PROVE  TypesInv'
  BY <1>1 DEF TypesInv, Inputs
<1>2. CASE UNCHANGED vars \/ Crashed
  BY <1>1, <1>2 DEF Crashed, vars, oscVars
<1>3. CASE \/ Graph \/ \E p \in Ports : Between(GetBuffer(p))
           \/ \E b \in Outputs : \E i \in Blocks(b) :
                Between(GetSpaData(b, i)) \/ \E d \in Payloads : Between(Write(b, i, d))
  BY <1>1, <1>3 DEF Graph, Between, oscVars
<1>4. ASSUME NEW o \in held, FinishBuffer(o) PROVE TypesInv'
  <2>1. CASE o.buffer = source
    <3>1. /\ source' = NULL /\ result' = EmptyArray(0) /\ outcome' = "none"
          /\ UNCHANGED <<pc, rest, index>>
      BY <1>4, <2>1 DEF FinishBuffer
    <3>2. DOMAIN result' = 0..(0 - 1) /\ \A i \in DOMAIN result' : FALSE
      BY <3>1 DEF EmptyArray
    <3> QED BY <3>1, <3>2 DEF TypesInv, Inputs
  <2>2. CASE o.buffer # source
    BY <1>1, <1>4, <2>2 DEF FinishBuffer
  <2> QED BY <2>1, <2>2
<1>5. CASE \E b \in Inputs, n \in MaxNs : ParseOsc(b, n)
  BY <1>5, ParseTypes
<1>6. CASE Control
  BY <1>6, ControlTypes
<1>7. CASE TooMany \/ Return
  BY <1>7 DEF TooMany, Return, TypesInv, Inputs
<1>8. CASE \/ \E i \in DOMAIN result : Bundle(i)
           \/ NextThrows \/ WalkEnds \/ \E size \in Sizes : NextPacket(size)
  BY <1>1, <1>8 DEF Bundle, NextThrows, WalkEnds, NextPacket
<1>9. CASE ReadingStep
  BY <1>1, <1>9 DEF ReadingStep
<1> QED
  BY <1>2, <1>3, <1>4, <1>5, <1>6, <1>7, <1>8, <1>9 DEF Next, Running

-----------------------------------------------------------------------------
(* What a parse returns *)

\* The places of the packets, and the last OSC control of the first n.
IsFound(k) == \E i \in DOMAIN result : result[i] # NoPacket /\ result[i].at = k
IsNewest(k, n) ==
    /\ k \in OscControls(source) /\ k <= n
    /\ \A l \in OscControls(source) : l <= n => l <= k

\* Only the first place of the array is ever filled, with the last OSC control
\* among those that have been looked at.
NewestInv ==
    /\ \A i \in DOMAIN result : result[i] # NoPacket => i = 0
    /\ pc = "parsing" =>
        outcome = "none" /\ \A k : IsFound(k) <=> IsNewest(k, Len(Parsed) - Len(rest))
    /\ outcome = "packets" /\ 0 \in Blocks(source) =>
        SourceOK /\ \A k : IsFound(k) <=> IsNewest(k, Len(Parsed))

\* A step that does not parse, and leaves the buffer alone as long as it is held.
LEMMA QuietParse ==
    ASSUME ViewInv, NewestInv, UNCHANGED <<source, rest, result, outcome>>,
           pc' = "parsing" => pc' = pc,
           source \in HeldBuffers /\ source \in Inputs =>
                source \in HeldBuffers' /\ chunk'[source] = chunk[source]
    PROVE  NewestInv'
<1>1. SourceOK => SourceOK' /\ Parsed' = Parsed /\ OscControls(source)' = OscControls(source)
  BY DEF SourceOK, Parsed, OscControls, Inputs, Blocks
<1>2. /\ \A k : IsFound(k)' <=> IsFound(k)
      /\ SourceOK => \A k, n : IsNewest(k, n)' <=> IsNewest(k, n)
  BY <1>1 DEF IsFound, IsNewest
<1>3. pc' = "parsing" => /\ pc = "parsing" /\ SourceOK
                         /\ Len(Parsed')  - Len(rest') = Len(Parsed) - Len(rest)
  BY <1>1 DEF ViewInv
<1>4. pc' = "parsing" => outcome' = "none" /\ \A k : IsFound(k)' <=> IsNewest(k, Len(Parsed) - Len(rest))'
  BY <1>1, <1>2, <1>3 DEF NewestInv
<1>5. outcome' = "packets" /\ 0 \in Blocks(source') =>
        SourceOK' /\ \A k : IsFound(k)' <=> IsNewest(k, Len(Parsed))'
  BY <1>1, <1>2 DEF NewestInv
<1> QED BY <1>4, <1>5 DEF NewestInv, Blocks

LEMMA ParseNewest ==
    ASSUME BlocksInv, NewestInv, NEW b \in Inputs, NEW n \in MaxNs, ParseOsc(b, n), ViewInv'
    PROVE  NewestInv'
<1> DEFINE found == GetPod(b, 0)
<1>1. /\ b \in HeldBuffers /\ source' = b /\ result' = EmptyArray(n)
      /\ UNCHANGED bufferVars
  BY DEF ParseOsc
<1>2. /\ pc' = "parsing" => PodOf(found) = "sequence"
      /\ PodOf(found) = "sequence" => rest' = found.pod.controls
      /\ outcome' = "packets" => ~found.engaged
  BY DEF ParseOsc
<1>3. b \in Buffers /\ Datas[b] \in Nat
      /\ (Datas[b] > 0 => found.engaged /\ found.pod = chunk[b][0])
      /\ (found.engaged <=> Datas[b] > 0)
      /\ (0 \in Blocks(b) <=> Datas[b] > 0)
  BY DatasAssumption DEF GetPod, Inputs, Blocks
<1>4. \A i \in DOMAIN result' : result'[i] = NoPacket
  BY <1>1 DEF EmptyArray
<1>6. ASSUME pc' = "parsing"
      PROVE  outcome' = "none" /\ \A k : IsFound(k)' <=> IsNewest(k, Len(Parsed) - Len(rest))'
  <2>1. found.engaged /\ found.pod # NULL /\ found.pod.kind = "sequence"
    BY <1>2, <1>6 DEF PodOf
  <2>2. outcome' = "none"
    BY <1>6, <2>1 DEF ParseOsc, PodOf
  <2>3. rest' = Parsed'
    BY <1>1, <1>2, <1>3, <1>6, <2>1 DEF bufferVars, Parsed
  <2>4. SourceOK' /\ Parsed' \in Seq(Controls)
    <3>1. SourceOK'
      BY <1>6 DEF ViewInv
    <3> QED BY <3>1, PodsAssumption DEF SourceOK, Parsed
  <2>5. Len(Parsed') - Len(rest') = 0
    BY <2>3, <2>4
  <2>6. OscControls(source)' \subseteq 1..Len(Parsed')
    BY <2>4 DEF OscControls, Parsed
  <2>7. ASSUME NEW k PROVE ~IsNewest(k, Len(Parsed) - Len(rest))'
    BY <2>4, <2>5, <2>6 DEF IsNewest
  <2>8. ASSUME NEW k PROVE ~IsFound(k)'
    BY <1>4 DEF IsFound
  <2> QED BY <2>2, <2>7, <2>8
<1>7. ~(outcome' = "packets" /\ 0 \in Blocks(source'))
  BY <1>1, <1>2, <1>3
<1> HIDE DEF found
<1> QED BY <1>4, <1>6, <1>7 DEF NewestInv, Blocks

\* An OSC control is the newest of those that have been looked at, and takes place 0.
LEMMA ControlNewest ==
    ASSUME ViewInv, TypesInv, NewestInv, Control
    PROVE  NewestInv'
<1> DEFINE c == Head(rest)
<1> DEFINE n == Len(Parsed) - Len(rest)
<1>1. /\ pc = "parsing" /\ rest # <<>> /\ index \in DOMAIN result
      /\ rest' = Tail(rest) /\ UNCHANGED <<bufferVars, source, outcome>>
      /\ result' = IF IsOsc(c) THEN Stored(c) ELSE result
      /\ pc' \in {pc, "crashed"}
  BY DEF Control, Remaining, Full
<1>2. /\ SourceOK /\ Parsed \in Seq(Controls)
      /\ Len(rest) \in Nat /\ Len(Parsed) \in Nat /\ Len(rest) > 0
      /\ Len(Tail(rest)) = Len(rest) - 1
      /\ Position = n + 1 /\ Position \in 1..Len(Parsed) /\ Parsed[Position] = c
      /\ View(c) \in Views
  BY <1>1, NextControl
<1>3. /\ Parsed' = Parsed /\ OscControls(source)' = OscControls(source) /\ SourceOK'
      /\ OscControls(source) \subseteq 1..Len(Parsed)
      /\ (Position \in OscControls(source) <=> IsOsc(c))
  <2>1. Parsed' = Parsed /\ OscControls(source)' = OscControls(source) /\ SourceOK'
    BY <1>1, <1>2 DEF Parsed, OscControls, SourceOK, HeldBuffers, bufferVars, Inputs, Blocks
  <2>2. OscControls(source) = {k \in 1..Len(Parsed) : Parsed[k].type = "OSC"}
    BY <1>2 DEF OscControls, Parsed
  <2> QED BY <1>2, <2>1, <2>2 DEF IsOsc
<1>4. n \in Int /\ Len(Parsed') - Len(rest') = n + 1
  BY <1>1, <1>2, <1>3
<1> HIDE DEF n, c
<1>6. /\ outcome = "none"
      /\ \A k : IsFound(k) <=> IsNewest(k, n)
      /\ \A i \in DOMAIN result : result[i] # NoPacket => i = 0
  BY <1>1 DEF NewestInv, n
<1>7. CASE IsOsc(c)
  <2>1. /\ 0 \in DOMAIN result' /\ result'[0] = View(c)
        /\ \A i \in DOMAIN result' : i # 0 => i \in DOMAIN result /\ result'[i] = result[i]
    BY <1>1, <1>7 DEF Stored, TypesInv
  <2>2. View(c) # NoPacket /\ View(c).at = n + 1
    BY <1>2, NoPacketAssumption DEF View
  <2>3. \A i \in DOMAIN result' : result'[i] # NoPacket => i = 0
    BY <1>6, <2>1
  <2>4. ASSUME NEW k PROVE IsFound(k)' <=> k = n + 1
    BY <2>1, <2>2, <2>3 DEF IsFound
  <2>5. ASSUME NEW k PROVE IsNewest(k, Len(Parsed) - Len(rest))' <=> k = n + 1
    <3>1. n + 1 \in OscControls(source)'
      BY <1>2, <1>3, <1>7
    <3>2. IsNewest(k, Len(Parsed) - Len(rest))' <=>
            /\ k \in OscControls(source)' /\ k <= n + 1
            /\ \A l \in OscControls(source)' : l <= n + 1 => l <= k
      BY <1>4 DEF IsNewest
    <3> QED BY <1>3, <1>4, <3>1, <3>2
  <2> QED BY <1>1, <1>6, <2>3, <2>4, <2>5 DEF NewestInv
<1>8. CASE ~IsOsc(c)
  <2>1. result' = result /\ n + 1 \notin OscControls(source)
    BY <1>1, <1>2, <1>3, <1>8
  <2>2. ASSUME NEW k PROVE IsNewest(k, Len(Parsed) - Len(rest))' <=> IsNewest(k, n)
    <3>1. IsNewest(k, Len(Parsed) - Len(rest))' <=>
            /\ k \in OscControls(source) /\ k <= n + 1
            /\ \A l \in OscControls(source) : l <= n + 1 => l <= k
      BY <1>3, <1>4 DEF IsNewest
    <3>2. \A l \in OscControls(source) : l \in Int /\ (l <= n + 1 <=> l <= n)
      BY <1>3, <1>4, <2>1
    <3> QED BY <3>1, <3>2 DEF IsNewest
  <2>3. ASSUME NEW k PROVE IsFound(k)' <=> IsFound(k)
    BY <2>1 DEF IsFound
  <2> QED BY <1>1, <1>6, <2>1, <2>2, <2>3 DEF NewestInv
<1> QED BY <1>7, <1>8

ParseInv == TypesInv /\ NewestInv

LEMMA NextParse ==
    IInv /\ BlocksInv /\ ViewInv /\ ParseInv /\ ([Next]_vars \/ ReadingStep) => ParseInv'
<1> SUFFICES ASSUME IInv, BlocksInv, ViewInv, ParseInv, [Next]_vars \/ ReadingStep
             PROVE  NewestInv'
  BY NextTypes DEF ParseInv
<1>0. TypesInv /\ NewestInv
  BY DEF ParseInv
<1>1. ASSUME UNCHANGED <<bufferVars, source, rest, result, outcome>>,
             pc' = "parsing" => pc' = pc
      PROVE  NewestInv'
  <2>1. source \in HeldBuffers => source \in HeldBuffers' /\ chunk'[source] = chunk[source]
    BY <1>1 DEF bufferVars, HeldBuffers
  <2> QED BY <1>0, <1>1, <2>1, QuietParse
<1>2. CASE UNCHANGED vars \/ Crashed
  BY <1>1, <1>2 DEF Crashed, vars, oscVars
<1>3. CASE Graph
  <2>1. UNCHANGED oscVars /\ held' = held
    BY <1>3 DEF Graph, GraphStep, GraphOffer, GraphCollect
  <2>2. ASSUME source \in HeldBuffers, source \in Inputs
        PROVE  source \in HeldBuffers' /\ chunk'[source] = chunk[source]
    BY <1>3, <2>1, <2>2, HeldChunk DEF HeldBuffers
  <2> QED BY <1>0, <2>1, <2>2, QuietParse DEF oscVars
<1>4. CASE \/ \E p \in Ports : Between(GetBuffer(p))
           \/ \E b \in Outputs : \E i \in Blocks(b) :
                Between(GetSpaData(b, i)) \/ \E d \in Payloads : Between(Write(b, i, d))
  <2>1. UNCHANGED oscVars
    BY <1>4 DEF Between
  <2>2. source \in HeldBuffers /\ source \in Inputs =>
            source \in HeldBuffers' /\ chunk'[source] = chunk[source]
    BY <1>4, BetweenChunk
  <2> QED BY <1>0, <2>1, <2>2, QuietParse DEF oscVars
<1>5. ASSUME NEW o \in held, FinishBuffer(o) PROVE NewestInv'
  <2>1. /\ pc = "between" /\ pc' = pc /\ rest' = rest
        /\ held' = held \ {o} /\ chunk' = chunk
    BY <1>5 DEF FinishBuffer, Finish
  <2>2. CASE o.buffer = source
    <3>1. result' = EmptyArray(0) /\ outcome' = "none"
      BY <1>5, <2>2 DEF FinishBuffer
    <3>2. DOMAIN result' = {}
      BY <3>1 DEF EmptyArray
    <3> QED BY <2>1, <3>1, <3>2 DEF NewestInv
  <2>3. CASE o.buffer # source
    <3>1. UNCHANGED <<source, result, outcome>>
      BY <1>5, <2>3 DEF FinishBuffer
    <3>2. source \in HeldBuffers => source \in HeldBuffers' /\ chunk'[source] = chunk[source]
      BY <2>1, <2>3 DEF HeldBuffers
    <3> QED BY <1>0, <2>1, <3>1, <3>2, QuietParse
  <2> QED BY <2>2, <2>3
<1>6. CASE \E b \in Inputs, n \in MaxNs : ParseOsc(b, n)
  <2>1. ViewInv'
    BY NextView
  <2> QED BY <1>0, <1>6, <2>1, ParseNewest
<1>7. CASE Control
  BY <1>0, <1>7, ControlNewest
<1>8. CASE TooMany
  <2>1. UNCHANGED <<source, rest, result>> /\ pc' = "between" /\ outcome' = "too_many_messages"
    BY <1>8 DEF TooMany
  <2> QED BY <1>0, <2>1 DEF NewestInv
<1>9. CASE Return
  <2>1. /\ UNCHANGED <<bufferVars, source, rest, result>>
        /\ pc = "parsing" /\ pc' = "between" /\ rest = <<>>
    BY <1>9 DEF Return
  <2>2. SourceOK /\ Parsed \in Seq(Controls) /\ Len(Parsed) - Len(rest) = Len(Parsed)
    BY <2>1, SourceFacts DEF ViewInv
  <2>3. SourceOK' /\ Parsed' = Parsed /\ OscControls(source)' = OscControls(source)
    BY <2>1, <2>2 DEF bufferVars, SourceOK, HeldBuffers, Parsed, OscControls, Inputs, Blocks
  <2>4. ASSUME NEW k PROVE IsFound(k)' <=> IsNewest(k, Len(Parsed))'
    <3>1. IsFound(k)' <=> IsFound(k)
      BY <2>1 DEF IsFound
    <3>2. IsNewest(k, Len(Parsed))' <=> IsNewest(k, Len(Parsed) - Len(rest))
      BY <2>2, <2>3 DEF IsNewest
    <3> QED BY <1>0, <2>1, <3>1, <3>2 DEF NewestInv
  <2> QED BY <1>0, <2>1, <2>3, <2>4 DEF NewestInv
<1>10. CASE \/ \E i \in DOMAIN result : Bundle(i)
            \/ NextThrows \/ WalkEnds \/ \E size \in Sizes : NextPacket(size)
  BY <1>1, <1>10 DEF Bundle, NextThrows, WalkEnds, NextPacket
<1>11. CASE ReadingStep
  BY <1>1, <1>11 DEF ReadingStep
<1> QED
  BY <1>2, <1>3, <1>4, <1>5, <1>6, <1>7, <1>8, <1>9, <1>10, <1>11 DEF Next, Running

LEMMA InitParse == Init => ParseInv
<1> SUFFICES ASSUME Init PROVE ParseInv
  OBVIOUS
<1>1. /\ pc = "between" /\ source = NULL /\ rest = <<>> /\ index = 0
      /\ result = EmptyArray(0) /\ outcome = "none"
  BY DEF Init
<1>2. DOMAIN result = 0..(0 - 1) /\ \A i \in DOMAIN result : FALSE
  BY <1>1 DEF EmptyArray
<1> QED BY <1>1, <1>2 DEF ParseInv, TypesInv, NewestInv

LEMMA ParseInvMeans ==
    IInv /\ BlocksInv /\ WalkInv /\ ParseInv =>
        InputTypeOK /\ NewestPacketIsReturned
<1> SUFFICES ASSUME IInv, BlocksInv, WalkInv, TypesInv, NewestInv
             PROVE  InputTypeOK /\ NewestPacketIsReturned
  BY DEF ParseInv
<1>1. BuffersTypeOK
  BY DEF IInv, PlacesOK, BlocksInv, BuffersTypeOK
<1>2. InputTypeOK
  <2>1. PICK n \in MaxNs \cup {0} : DOMAIN result = 0..(n - 1)
    BY DEF TypesInv
  <2>2. n \in Nat /\ index \in 0..n
    BY MaxAssumption DEF TypesInv
  <2>3. DOMAIN walk = {"pos", "end", "found"}
    BY DEF WalkInv
  <2> QED BY <1>1, <2>1, <2>2, <2>3 DEF TypesInv, InputTypeOK
<1>3. NewestPacketIsReturned
  <2> SUFFICES ASSUME outcome = "packets", 0 \in Blocks(source)
               PROVE  {result[i].at : i \in {j \in DOMAIN result : result[j] # NoPacket}} =
                        {k \in OscControls(source) : \A l \in OscControls(source) : l <= k}
    BY DEF NewestPacketIsReturned
  <2>1. SourceOK /\ \A k : IsFound(k) <=> IsNewest(k, Len(Parsed))
    BY DEF NewestInv
  <2>2. \A k \in OscControls(source) : k <= Len(Parsed)
    BY <2>1, SourceFacts DEF OscControls, Parsed
  <2>3. \A k : IsFound(k) <=>
            k \in OscControls(source) /\ \A l \in OscControls(source) : l <= k
    BY <2>1, <2>2 DEF IsNewest
  <2> QED BY <2>3 DEF IsFound
<1> QED BY <1>2, <1>3

InputInv == IInv /\ BlocksInv /\ ViewInv /\ WalkInv /\ ParseInv

LEMMA InitInput == Init => InputInv
<1>1. Init => BufferInit /\ ViewInv /\ WalkInv
  BY DEF Init, ViewInv, HasPackets, RestInv, ResultInv, EmptyArray, WalkInv, NoWalk
<1> QED BY <1>1, InitIInv, InitBlocks, InitParse DEF InputInv

LEMMA NextInput == InputInv /\ ([Next]_vars \/ ReadingStep) => InputInv'
BY StepIsBufferStep, NextIInv, NextBlocks, NextView, NextWalk, NextParse DEF InputInv

\* The types of the processor's state, in programs that do not read messages.
THEOREM InputTypes == Spec => []InputTypeOK
<1>1. InputInv => InputTypeOK
  BY ParseInvMeans DEF InputInv
<1> QED BY <1>1, InitInput, NextInput, PTL DEF Spec

\* A parse_osc that succeeds returns the last OSC message of the pod and no other
\* (parse_osc.h never moves its index), whatever else the pod contains.
THEOREM OnlyNewestIsReturned == Spec => []NewestPacketIsReturned
<1>1. InputInv => NewestPacketIsReturned
  BY ParseInvMeans DEF InputInv
<1> QED BY <1>1, InitInput, NextInput, PTL DEF Spec

-----------------------------------------------------------------------------
(* The streams of a message *)

Streams == [tag : Nat, last : Nat, pos : Nat, end : Nat, thrown : BOOLEAN]

\* A stream, which may be that of an array, stays within its tags and its data,
\* and in step until it throws; the data of an array ends with its last element.
StreamOK(r, inArray) ==
    /\ r \in Streams
    /\ r.tag \in 1..(r.last + 1) /\ r.last <= Len(message.tags)
    /\ r.pos <= r.end
    /\ ~r.thrown => InStep(r)
    /\ inArray /\ ~r.thrown => r.end = Offset(message, r.last)

StreamsInv ==
    /\ readers \in Seq(Streams)
    /\ pc = "reading" <=> readers # <<>>
    /\ pc = "reading" <=> message # NoPacket
    /\ pc = "reading" => message \in Packets
    /\ \A k \in 1..Len(readers) : StreamOK(readers[k], k > 1)

\* Where the data of the tags ends is a number that grows with them.
LEMMA Offsets ==
    ASSUME message \in Packets
    PROVE  /\ message.tags \in Seq(STRING) /\ Len(message.tags) \in Nat
           /\ \A k \in 0..Len(message.tags) : Offset(message, k) \in Nat
           /\ \A j, k \in 0..Len(message.tags) :
                j <= k => Offset(message, j) <= Offset(message, k)
           /\ \A k \in 1..Len(message.tags) :
                message.tags[k] \in {"[", "]"} => Offset(message, k) = Offset(message, k - 1)
<1>1. /\ message.tags \in Seq(STRING) /\ message.ends \in Seq(Nat) /\ LaidOut(message)
      /\ Len(message.tags) \in Nat
  BY DEF Packets
<1>2. \A k \in 0..Len(message.tags) : Offset(message, k) \in Nat
  BY <1>1 DEF Offset, LaidOut
<1> QED BY <1>1, <1>2 DEF LaidOut

\* The data an accessor finds is of a size that is a number, whatever it reads.
LEMMA BytesAre ==
    ASSUME message \in Packets, NEW r \in Streams, r.tag >= 1, r.last <= Len(message.tags),
           r.pos <= r.end, NEW c \in r.tag..r.last, NEW b \in Bytes(r, c)
    PROVE  b \in Nat /\ (InStep(r) => b = Offset(message, c) - r.pos)
<1> DEFINE Count(types) == Cardinality({k \in r.tag..c : message.tags[k] \in types})
<1>1. /\ r.tag \in Nat /\ r.last \in Nat /\ r.pos \in Nat /\ r.end \in Nat /\ c \in Nat
      /\ Len(message.tags) \in Nat
  BY Offsets DEF Streams
<1>2. CASE InStep(r)
  <2>1. b = Offset(message, c) - r.pos
    BY <1>2 DEF Bytes
  <2>2. r.tag - 1 \in 0..Len(message.tags) /\ c \in 0..Len(message.tags) /\ r.tag - 1 <= c
    BY <1>1
  <2>3. r.pos <= Offset(message, c) /\ Offset(message, c) \in Nat
    BY <1>2, <2>2, Offsets DEF InStep
  <2> QED BY <1>1, <2>1, <2>3
<1>3. CASE ~InStep(r)
  <2>1. \A types : Count(types) \in Nat
    <3> SUFFICES ASSUME NEW types PROVE Count(types) \in Nat
      OBVIOUS
    <3>1. IsFiniteSet(r.tag..c)
      <4>1. r.tag \in Int /\ c \in Int
        BY <1>1
      <4> QED BY <4>1, FS_Interval
    <3>2. IsFiniteSet({k \in r.tag..c : message.tags[k] \in types})
      BY <3>1, FS_Subset
    <3> QED BY <3>2, FS_CardinalityType
  <2> DEFINE words == Count({"i", "f", "s", "b"})
  <2> DEFINE more == IF Count({"s", "b"}) = 0 THEN {0} ELSE 0..(Room(r) \div 4 + 1)
  <2>2. words \in Nat
    BY <2>1
  <2>3. b \in {4 * (words + k) : k \in more}
    BY <1>3 DEF Bytes
  <2>4. \A k \in more : k \in Nat
    OBVIOUS
  <2> HIDE DEF words, more
  <2>5. PICK k \in more : b = 4 * (words + k)
    BY <2>3
  <2> QED BY <1>3, <2>2, <2>4, <2>5
<1> QED BY <1>2, <1>3

LEMMA PassedAre ==
    ASSUME message \in Packets, NEW r \in Streams, r.tag >= 1, r.last <= Len(message.tags),
           r.pos <= r.end, NEW c \in r.tag..r.last, NEW s \in Passed(r, c)
    PROVE  /\ s \in Streams /\ s.tag = c + 1 /\ s.last = r.last /\ s.end = r.end
           /\ s.pos >= r.pos /\ s.pos <= r.end
           /\ s.thrown = r.thrown
           /\ InStep(r) => InStep(s)
<1>1. /\ r.tag \in Nat /\ r.last \in Nat /\ r.pos \in Nat /\ r.end \in Nat /\ c \in Nat
      /\ r.thrown \in BOOLEAN
  BY DEF Streams
<1>2. PICK n \in Bytes(r, c) : n <= Room(r) /\ s = [r EXCEPT !.tag = c + 1, !.pos = @ + n]
  BY DEF Passed
<1>3. n \in Nat /\ (InStep(r) => n = Offset(message, c) - r.pos)
  BY BytesAre
<1>4. n <= r.end - r.pos
  BY <1>2 DEF Room
<1>5. s = [tag |-> c + 1, last |-> r.last, pos |-> r.pos + n, end |-> r.end, thrown |-> r.thrown]
  BY <1>2 DEF Streams
<1>6. /\ s.tag = c + 1 /\ s.last = r.last /\ s.end = r.end /\ s.thrown = r.thrown
      /\ s.pos = r.pos + n
  BY <1>5
<1>7. s \in Streams /\ s.pos >= r.pos /\ s.pos <= r.end
  BY <1>1, <1>3, <1>4, <1>5 DEF Streams
<1>8. ASSUME InStep(r) PROVE InStep(s)
  <2>1. Offset(message, c) \in Nat
    BY <1>1, Offsets
  <2>2. s.pos = Offset(message, c) /\ s.tag - 1 = c
    BY <1>1, <1>3, <1>6, <1>8, <2>1
  <2> QED BY <2>2 DEF InStep
<1> QED BY <1>6, <1>7, <1>8

LEMMA StoppedAre ==
    ASSUME message \in Packets, NEW r \in Streams, r.tag >= 1, r.last <= Len(message.tags),
           r.pos <= r.end, NEW c \in r.tag..r.last, NEW s \in Stopped(r, c)
    PROVE  /\ s \in Streams /\ s.tag \in (r.tag + 1)..(c + 1) /\ s.last = r.last
           /\ s.end = r.end /\ s.pos <= r.end /\ s.thrown
<1>1. /\ r.tag \in Nat /\ r.last \in Nat /\ r.pos \in Nat /\ r.end \in Nat /\ c \in Nat
  BY DEF Streams
<1> DEFINE SizeRead(k, n) == IF message.tags[k] = "b" /\ n + 4 <= Room(r) THEN 4 ELSE 0
<1>2. PICK x \in (r.tag..c) \X (0..Room(r)) :
        s = Stream(x[1] + 1, r.last, r.pos + x[2] + SizeRead(x[1], x[2]), r.end, TRUE)
  BY Zenon DEF Stopped
<1> DEFINE e == SizeRead(x[1], x[2])
<1>3. /\ x[1] \in r.tag..c /\ x[2] \in 0..(r.end - r.pos)
  BY DEF Room
<1>4. e \in {0, 4} /\ (e = 4 => x[2] + 4 <= Room(r))
  OBVIOUS
<1> HIDE DEF e
<1>5. s = [tag |-> x[1] + 1, last |-> r.last, pos |-> r.pos + x[2] + e, end |-> r.end,
           thrown |-> TRUE]
  BY <1>2 DEF Stream, e
<1>6. r.pos + x[2] + e \in Nat /\ r.pos + x[2] + e <= r.end
  BY <1>1, <1>3, <1>4, SMTT(30) DEF Room
<1>7. x[1] + 1 \in (r.tag + 1)..(c + 1) /\ x[1] + 1 \in Nat
  BY <1>1, <1>3
<1> QED BY <1>1, <1>5, <1>6, <1>7 DEF Streams

LEMMA LeastNumber ==
    ASSUME NEW S \in SUBSET Nat, S # {}
    PROVE  \E m \in S : \A n \in S : m <= n
<1>1. PICK m \in S : \A n \in S : <<n, m>> \notin OpToRel(<, Nat)
  BY WFMin, NatLessThanWellFounded, Zenon
<1>2. \A n \in S : ~(n < m)
  BY <1>1 DEF OpToRel
<1> QED BY <1>2

\* How many of the tags from k to c are t.
CountOf(k, c, t) == Cardinality({j \in k..c : message.tags[j] = t})

LEMMA CountTags ==
    ASSUME NEW k \in Nat, NEW c \in Nat, NEW t
    PROVE  /\ CountOf(k, c, t) \in Nat /\ CountOf(k, c + 1, t) \in Nat
           /\ k <= c + 1 =>
                CountOf(k, c + 1, t) = CountOf(k, c, t) + IF message.tags[c + 1] = t THEN 1 ELSE 0
           /\ CountOf(k, k, t) = IF message.tags[k] = t THEN 1 ELSE 0
<1> DEFINE Tags(d) == {j \in k..d : message.tags[j] = t}
<1>1. \A d \in Nat : IsFiniteSet(Tags(d)) /\ Cardinality(Tags(d)) \in Nat
  <2> SUFFICES ASSUME NEW d \in Nat PROVE IsFiniteSet(Tags(d)) /\ Cardinality(Tags(d)) \in Nat
    OBVIOUS
  <2>1. k \in Int /\ d \in Int
    OBVIOUS
  <2>2. IsFiniteSet(k..d)
    BY <2>1, FS_Interval
  <2>3. IsFiniteSet(Tags(d))
    BY <2>2, FS_Subset
  <2> QED BY <2>3, FS_CardinalityType
<1>2. ASSUME k <= c + 1
      PROVE  Cardinality(Tags(c + 1)) =
                Cardinality(Tags(c)) + IF message.tags[c + 1] = t THEN 1 ELSE 0
  <2>1. c + 1 \notin Tags(c) /\ IsFiniteSet(Tags(c))
    BY <1>1
  <2>2. CASE message.tags[c + 1] = t
    <3>1. Tags(c + 1) = Tags(c) \cup {c + 1}
      BY <1>2, <2>2
    <3>2. Cardinality(Tags(c) \cup {c + 1}) = Cardinality(Tags(c)) + 1
      <4> HIDE DEF Tags
      <4> QED BY <2>1, FS_AddElement
    <3> QED BY <2>2, <3>1, <3>2
  <2>3. CASE message.tags[c + 1] # t
    <3>1. Tags(c + 1) = Tags(c)
      BY <2>3
    <3>2. Cardinality(Tags(c)) \in Nat
      BY <1>1
    <3> HIDE DEF Tags
    <3> QED BY <2>3, <3>1, <3>2
  <2> QED BY <2>2, <2>3
<1>3. Cardinality(Tags(k)) = IF message.tags[k] = t THEN 1 ELSE 0
  <2>1. CASE message.tags[k] = t
    <3>1. Tags(k) = {k}
      BY <2>1
    <3> HIDE DEF Tags
    <3> QED BY <2>1, <3>1, FS_Singleton
  <2>2. CASE message.tags[k] # t
    <3>1. Tags(k) = {}
      BY <2>2
    <3> HIDE DEF Tags
    <3> QED BY <2>2, <3>1, FS_EmptySet
  <2> QED BY <2>1, <2>2
<1>4. Cardinality(Tags(c)) \in Nat /\ Cardinality(Tags(c + 1)) \in Nat
  <2>1. c \in Nat /\ c + 1 \in Nat
    OBVIOUS
  <2> HIDE DEF Tags
  <2> QED BY <1>1, <2>1
<1>5. \A d : CountOf(k, d, t) = Cardinality(Tags(d))
  BY DEF CountOf
<1> HIDE DEF Tags
<1>6. CountOf(k, c, t) \in Nat /\ CountOf(k, c + 1, t) \in Nat
  BY <1>4, <1>5
<1>7. k <= c + 1 =>
        CountOf(k, c + 1, t) = CountOf(k, c, t) + IF message.tags[c + 1] = t THEN 1 ELSE 0
  BY <1>2, <1>5
<1>8. CountOf(k, k, t) = IF message.tags[k] = t THEN 1 ELSE 0
  BY <1>3, <1>5
<1> QED BY <1>6, <1>7, <1>8

\* A bracket raises or lowers the level by one, another tag leaves it.
LEMMA Levels ==
    ASSUME NEW k \in Nat, NEW c \in Nat, k <= c + 1
    PROVE  /\ Level(k, c) \in Int /\ Level(k, c + 1) \in Int
           /\ message.tags[c + 1] = "]" => Level(k, c + 1) = Level(k, c) - 1
           /\ message.tags[c + 1] # "]" => Level(k, c + 1) >= Level(k, c)
           /\ message.tags[k] = "[" => Level(k, k) = 1
<1>1. \A d : Level(k, d) = CountOf(k, d, "[") - CountOf(k, d, "]")
  BY DEF Level, CountOf
<1>2. /\ CountOf(k, c, "[") \in Nat /\ CountOf(k, c + 1, "[") \in Nat
      /\ CountOf(k, c + 1, "[") = CountOf(k, c, "[") + IF message.tags[c + 1] = "[" THEN 1 ELSE 0
      /\ CountOf(k, k, "[") = IF message.tags[k] = "[" THEN 1 ELSE 0
  BY CountTags
<1>3. /\ CountOf(k, c, "]") \in Nat /\ CountOf(k, c + 1, "]") \in Nat
      /\ CountOf(k, c + 1, "]") = CountOf(k, c, "]") + IF message.tags[c + 1] = "]" THEN 1 ELSE 0
      /\ CountOf(k, k, "]") = IF message.tags[k] = "]" THEN 1 ELSE 0
  BY CountTags
<1> QED BY <1>1, <1>2, <1>3

\* dropArray stops behind a closing bracket, or at the end of the tags.
LEMMA CloseIs ==
    ASSUME message \in Packets, NEW r \in Streams, r.tag >= 1, r.tag <= r.last,
           message.tags[r.tag] = "["
    PROVE  /\ Close(r) \in (r.tag + 1)..(r.last + 1)
           /\ Close(r) <= r.last => message.tags[Close(r)] = "]"
<1>1. r.tag \in Nat /\ r.last \in Nat
  BY DEF Streams
<1> DEFINE IsClose(c) ==
        /\ c <= r.last => Level(r.tag, c) = 0
        /\ \A j \in r.tag..(c - 1) : Level(r.tag, j) > 0
<1>2. Level(r.tag, r.tag) = 1
  <2>1. r.tag <= r.tag + 1
    BY <1>1
  <2> QED BY <1>1, <2>1, Levels
<1>3. \E c \in r.tag..(r.last + 1) : IsClose(c)
  <2> DEFINE S == {c \in r.tag..(r.last + 1) : c <= r.last => Level(r.tag, c) <= 0}
  <2>1. r.last + 1 \in S /\ S \in SUBSET Nat
    BY <1>1
  <2>2. PICK c \in S : \A d \in S : c <= d
    <3> HIDE DEF S
    <3> QED BY <2>1, LeastNumber
  <2>3. \A j \in r.tag..(c - 1) : Level(r.tag, j) > 0
    <3> SUFFICES ASSUME NEW j \in r.tag..(c - 1) PROVE Level(r.tag, j) > 0
      OBVIOUS
    <3>1. j \in Nat /\ j < c /\ j \in r.tag..(r.last + 1) /\ j <= r.last
      BY <1>1
    <3>2. j \notin S
      BY <2>1, <2>2, <3>1
    <3>3. ~(Level(r.tag, j) <= 0)
      BY <3>1, <3>2
    <3>4. Level(r.tag, j) \in Int
      BY <1>1, <3>1, Levels
    <3> QED BY <3>3, <3>4
  <2>4. ASSUME c <= r.last PROVE Level(r.tag, c) = 0
    <3>1. c \in Nat /\ c >= r.tag /\ Level(r.tag, c) <= 0
      BY <1>1, <2>4
    <3>2. c # r.tag
      BY <1>2, <3>1
    <3>3. c - 1 \in Nat /\ c - 1 \in r.tag..(c - 1) /\ r.tag <= (c - 1) + 1 /\ (c - 1) + 1 = c
      BY <1>1, <3>1, <3>2
    <3>4. Level(r.tag, c - 1) > 0
      BY <2>3, <3>3
    <3>5. /\ Level(r.tag, c - 1) \in Int /\ Level(r.tag, c) \in Int
          /\ \/ Level(r.tag, c) = Level(r.tag, c - 1) - 1
             \/ Level(r.tag, c) >= Level(r.tag, c - 1)
      <4>1. /\ Level(r.tag, c - 1) \in Int /\ Level(r.tag, (c - 1) + 1) \in Int
            /\ \/ Level(r.tag, (c - 1) + 1) = Level(r.tag, c - 1) - 1
               \/ Level(r.tag, (c - 1) + 1) >= Level(r.tag, c - 1)
        BY <1>1, <3>3, Levels
      <4> QED BY <4>1, <3>3
    <3> QED BY <3>1, <3>4, <3>5
  <2> QED BY <2>3, <2>4
<1> DEFINE c == Close(r)
<1>4. c \in r.tag..(r.last + 1) /\ IsClose(c)
  BY <1>3 DEF Close
<1> HIDE DEF c
<1>5. c # r.tag
  BY <1>1, <1>2, <1>4
<1>6. ASSUME c <= r.last PROVE message.tags[c] = "]"
  <2>1. c - 1 \in Nat /\ c - 1 \in r.tag..(c - 1) /\ r.tag <= (c - 1) + 1 /\ (c - 1) + 1 = c
    BY <1>1, <1>4, <1>5
  <2>2. Level(r.tag, c - 1) > 0 /\ Level(r.tag, c) = 0
    BY <1>4, <1>6, <2>1
  <2>3. /\ Level(r.tag, c - 1) \in Int
        /\ message.tags[(c - 1) + 1] # "]" => Level(r.tag, (c - 1) + 1) >= Level(r.tag, c - 1)
    BY <1>1, <2>1, Levels
  <2> QED BY <2>1, <2>2, <2>3
<1>7. c \in (r.tag + 1)..(r.last + 1)
  BY <1>1, <1>4, <1>5
<1> QED BY <1>6, <1>7 DEF c

-----------------------------------------------------------------------------
(* The accessors *)

\* The stream in use is replaced by one that is in order.
LEMMA ReplaceTop ==
    ASSUME StreamsInv, readers # <<>>, UNCHANGED <<pc, message>>,
           NEW s, StreamOK(s, Len(readers) > 1), readers' = ReadersWith(s)
    PROVE  StreamsInv'
<1> DEFINE n == Len(readers)
<1>1. readers \in Seq(Streams) /\ n \in Nat /\ n >= 1 /\ s \in Streams
  BY DEF StreamsInv, StreamOK
<1>2. /\ readers' \in Seq(Streams) /\ Len(readers') = n /\ readers'[n] = s /\ readers' # <<>>
      /\ \A k \in 1..n : k # n => readers'[k] = readers[k]
  BY <1>1 DEF ReadersWith
<1>3. \A r, b : StreamOK(r, b)' <=> StreamOK(r, b)
  BY DEF StreamOK, InStep
<1> HIDE DEF n
<1>4. \A k \in 1..n : StreamOK(readers'[k], k > 1)
  BY <1>1, <1>2 DEF StreamsInv, n
<1> QED BY <1>1, <1>2, <1>3, <1>4 DEF StreamsInv

\* The facts about the stream in use that the accessors need.
LEMMA TopIs ==
    ASSUME StreamsInv, pc = "reading"
    PROVE  /\ message \in Packets /\ readers # <<>> /\ StreamOK(Top, Len(readers) > 1)
           /\ Top \in Streams /\ Top.tag \in Nat /\ Top.last \in Nat
           /\ Top.tag >= 1 /\ Top.last <= Len(message.tags) /\ Top.pos <= Top.end
<1>1. readers # <<>> /\ readers \in Seq(Streams) /\ message \in Packets
  BY DEF StreamsInv
<1>2. Len(readers) \in 1..Len(readers)
  BY <1>1
<1>3. StreamOK(Top, Len(readers) > 1)
  BY <1>2 DEF StreamsInv, Top
<1> QED BY <1>1, <1>3 DEF StreamOK, Streams

LEMMA PassedOK ==
    ASSUME StreamsInv, pc = "reading", NEW c \in Top.tag..Top.last, NEW s \in Passed(Top, c)
    PROVE  StreamOK(s, Len(readers) > 1)
<1>1. /\ s \in Streams /\ s.tag = c + 1 /\ s.last = Top.last /\ s.end = Top.end
      /\ s.pos <= Top.end /\ s.thrown = Top.thrown /\ (InStep(Top) => InStep(s))
  BY TopIs, PassedAre
<1>2. s.tag \in 1..(s.last + 1)
  BY <1>1, TopIs
<1> QED BY <1>1, <1>2, TopIs DEF StreamOK

LEMMA StoppedOK ==
    ASSUME StreamsInv, pc = "reading", NEW c \in Top.tag..Top.last, NEW s \in Stopped(Top, c)
    PROVE  StreamOK(s, Len(readers) > 1)
<1>1. /\ s \in Streams /\ s.tag \in (Top.tag + 1)..(c + 1) /\ s.last = Top.last
      /\ s.end = Top.end /\ s.pos <= Top.end /\ s.thrown
  BY TopIs, StoppedAre
<1>2. s.tag \in 1..(s.last + 1)
  BY <1>1, TopIs
<1> QED BY <1>1, <1>2, TopIs DEF StreamOK

\* A tag that is gone with its data left over.
LEMMA RefusedOK ==
    ASSUME StreamsInv, pc = "reading", Top.tag <= Top.last
    PROVE  StreamOK(Refused(Top), Len(readers) > 1)
<1> DEFINE s == Refused(Top)
<1>1. s = [tag |-> Top.tag + 1, last |-> Top.last, pos |-> Top.pos, end |-> Top.end,
           thrown |-> TRUE]
  BY DEF Refused, Stream
<1>2. s \in Streams /\ s.tag \in 1..(s.last + 1)
  BY <1>1, TopIs DEF Streams
<1> HIDE DEF s
<1>3. StreamOK(s, Len(readers) > 1)
  BY <1>1, <1>2, TopIs DEF StreamOK
<1> QED BY <1>3 DEF s

LEMMA GetStep ==
    ASSUME StreamsInv, NEW accessor \in DOMAIN Accepts, Reading(Get(accessor))
    PROVE  StreamsInv'
<1>1. pc = "reading" /\ UNCHANGED <<pc, message>> /\ Top.tag <= Top.last
  BY DEF Reading, Get, vars, oscVars
<1>2. readers # <<>> /\ Top.tag \in Top.tag..Top.last
  BY <1>1, TopIs
<1>3. PICK s : StreamOK(s, Len(readers) > 1) /\ readers' = ReadersWith(s)
  <2>1. CASE Tag \in Accepts[accessor]
    <3>1. PICK s \in Passed(Top, Top.tag) \cup Stopped(Top, Top.tag) : readers' = ReadersWith(s)
      BY <2>1 DEF Reading, Get
    <3> QED BY <1>1, <1>2, <3>1, PassedOK, StoppedOK
  <2>2. CASE Tag \notin Accepts[accessor]
    BY <1>1, <2>2, RefusedOK DEF Reading, Get
  <2> QED BY <2>1, <2>2
<1> QED BY <1>1, <1>2, <1>3, ReplaceTop

LEMMA DropThrewOK ==
    ASSUME StreamsInv, pc = "reading", Top.tag <= Top.last, Tag = "[", NEW s \in DropThrew(Top)
    PROVE  StreamOK(s, Len(readers) > 1)
<1>1. Close(Top) \in (Top.tag + 1)..(Top.last + 1) /\ Top.last \in Top.tag..Top.last
  BY TopIs, CloseIs DEF Tag
<1>2. CASE Close(Top) <= Top.last
  <2>1. Close(Top) \in Top.tag..Top.last /\ s \in Stopped(Top, Close(Top))
    BY <1>1, <1>2, TopIs DEF DropThrew
  <2> QED BY <2>1, StoppedOK
<1>3. CASE ~(Close(Top) <= Top.last)
  <2>1. CASE s \in Stopped(Top, Top.last)
    BY <1>1, <2>1, StoppedOK
  <2>2. ASSUME NEW t \in Passed(Top, Top.last), s = [t EXCEPT !.thrown = TRUE]
        PROVE  StreamOK(s, Len(readers) > 1)
    <3>1. StreamOK(t, Len(readers) > 1)
      BY <1>1, PassedOK
    <3>2. s = [tag |-> t.tag, last |-> t.last, pos |-> t.pos, end |-> t.end, thrown |-> TRUE]
      BY <2>2, <3>1 DEF StreamOK, Streams
    <3> QED BY <3>1, <3>2 DEF StreamOK, Streams
  <2> QED BY <1>3, <2>1, <2>2 DEF DropThrew
<1> QED BY <1>2, <1>3

LEMMA DropStep ==
    ASSUME StreamsInv, Reading(Drop)
    PROVE  StreamsInv'
<1>1. pc = "reading" /\ UNCHANGED <<pc, message>> /\ Top.tag <= Top.last
  BY DEF Reading, Drop, vars, oscVars
<1>2. readers # <<>> /\ Top.tag \in Top.tag..Top.last
  BY <1>1, TopIs
<1>3. PICK s \in IF Tag = "[" THEN Dropped(Top) \cup DropThrew(Top)
                 ELSE Passed(Top, Top.tag) \cup Stopped(Top, Top.tag) :
        readers' = ReadersWith(s)
  BY DEF Reading, Drop
<1>4. StreamOK(s, Len(readers) > 1)
  <2>1. CASE Tag # "["
    BY <1>1, <1>2, <1>3, <2>1, PassedOK, StoppedOK
  <2>2. CASE Tag = "[" /\ s \in DropThrew(Top)
    BY <1>1, <2>2, DropThrewOK
  <2>3. CASE Tag = "[" /\ s \in Dropped(Top)
    <3>1. Close(Top) <= Top.last /\ s \in Passed(Top, Close(Top))
      BY <2>3 DEF Dropped
    <3>2. Close(Top) \in Top.tag..Top.last
      BY <1>1, <2>3, <3>1, TopIs, CloseIs DEF Tag
    <3> QED BY <1>1, <3>1, <3>2, PassedOK
  <2> QED BY <1>3, <2>1, <2>2, <2>3
<1> QED BY <1>1, <1>2, <1>3, <1>4, ReplaceTop

\* The elements of an array begin with its first element and end with its last.
LEMMA ElementsOK ==
    ASSUME StreamsInv, pc = "reading", Top.tag <= Top.last, Tag = "[", NEW s \in Dropped(Top)
    PROVE  StreamOK(s, Len(readers) > 1) /\ StreamOK(Elements(Top, s), TRUE)
<1> DEFINE c == Close(Top)
<1>1. c <= Top.last /\ s \in Passed(Top, c)
  BY DEF Dropped
<1>2. c \in (Top.tag + 1)..(Top.last + 1) /\ message.tags[c] = "]"
  BY <1>1, TopIs, CloseIs DEF Tag
<1> HIDE DEF c
<1>3. c \in Top.tag..Top.last /\ c \in Nat
  BY <1>1, <1>2, TopIs
<1>4. StreamOK(s, Len(readers) > 1)
  BY <1>1, <1>3, PassedOK
<1>5. /\ s \in Streams /\ s.tag = c + 1 /\ s.pos >= Top.pos /\ s.thrown = Top.thrown
      /\ (InStep(Top) => InStep(s))
  BY <1>1, <1>3, TopIs, PassedAre
<1> DEFINE e == [tag |-> Top.tag + 1, last |-> c - 1, pos |-> Top.pos, end |-> s.pos,
                 thrown |-> Top.thrown]
<1>6. Elements(Top, s) = e
  BY <1>3, <1>5 DEF Elements, Stream
<1>7. /\ e \in Streams /\ e.tag \in 1..(e.last + 1) /\ e.last <= Len(message.tags)
      /\ e.pos <= e.end
  BY <1>2, <1>3, <1>5, TopIs, Offsets, SMTT(30) DEF Streams
<1>8. ASSUME ~Top.thrown PROVE InStep(e) /\ e.end = Offset(message, e.last)
  <2>1. InStep(Top) /\ InStep(s)
    BY <1>5, <1>8, TopIs DEF StreamOK
  <2>2. /\ Top.tag \in 1..Len(message.tags) /\ c \in 1..Len(message.tags)
    BY <1>2, <1>3, TopIs, Offsets
  <2>3. /\ Offset(message, Top.tag) = Offset(message, Top.tag - 1)
        /\ Offset(message, c) = Offset(message, c - 1)
    BY <1>2, <2>2, Offsets, TopIs DEF Tag
  <2>4. e.tag - 1 = Top.tag /\ s.tag - 1 = c
    BY <1>3, <1>5, TopIs
  <2> QED BY <2>1, <2>3, <2>4 DEF InStep
<1>9. StreamOK(e, TRUE)
  BY <1>7, <1>8 DEF StreamOK
<1> QED BY <1>4, <1>6, <1>9

LEMMA ArrayStep ==
    ASSUME StreamsInv, Reading(Array)
    PROVE  StreamsInv'
<1>1. pc = "reading" /\ UNCHANGED <<pc, message>> /\ Top.tag <= Top.last
  BY DEF Reading, Array, vars, oscVars
<1>2. readers # <<>>
  BY <1>1, TopIs
<1>3. CASE Tag # "["
  BY <1>1, <1>2, <1>3, RefusedOK, ReplaceTop DEF Reading, Array
<1>4. ASSUME Tag = "[", NEW s \in DropThrew(Top), readers' = ReadersWith(s) PROVE StreamsInv'
  BY <1>1, <1>2, <1>4, DropThrewOK, ReplaceTop
<1>5. ASSUME Tag = "[", NEW s \in Dropped(Top),
             readers' = Append(ReadersWith(s), Elements(Top, s))
      PROVE  StreamsInv'
  <2> DEFINE n == Len(readers)
  <2> DEFINE e == Elements(Top, s)
  <2>1. StreamOK(s, n > 1) /\ StreamOK(e, TRUE)
    BY <1>1, <1>5, ElementsOK
  <2>2. readers \in Seq(Streams) /\ n \in Nat /\ n >= 1 /\ s \in Streams /\ e \in Streams
    BY <1>2, <2>1 DEF StreamsInv, StreamOK
  <2>3. /\ ReadersWith(s) \in Seq(Streams) /\ Len(ReadersWith(s)) = n /\ ReadersWith(s)[n] = s
        /\ \A k \in 1..n : k # n => ReadersWith(s)[k] = readers[k]
    BY <2>2 DEF ReadersWith
  <2> HIDE DEF n, e
  <2>4. /\ readers' \in Seq(Streams) /\ Len(readers') = n + 1 /\ readers' # <<>>
        /\ readers'[n + 1] = e /\ readers'[n] = s
        /\ \A k \in 1..n : k # n => readers'[k] = readers[k]
    BY <1>5, <2>2, <2>3 DEF e
  <2>5. \A r, b : StreamOK(r, b)' <=> StreamOK(r, b)
    BY <1>1 DEF StreamOK, InStep
  <2>6. \A k \in 1..(n + 1) : StreamOK(readers'[k], k > 1)
    <3> SUFFICES ASSUME NEW k \in 1..(n + 1) PROVE StreamOK(readers'[k], k > 1)
      OBVIOUS
    <3>1. CASE k = n + 1
      <4>1. k > 1
        BY <2>2, <3>1
      <4> QED BY <2>1, <2>4, <3>1, <4>1
    <3>2. CASE k = n
      BY <2>1, <2>4, <3>2
    <3>3. CASE k \in 1..n /\ k # n
      BY <2>4, <3>3 DEF StreamsInv, n
    <3> QED BY <2>2, <3>1, <3>2, <3>3
  <2> QED BY <1>1, <2>4, <2>5, <2>6 DEF StreamsInv
<1> QED BY <1>3, <1>4, <1>5 DEF Reading, Array

\* A message begins with all of its tags and no data passed over.
LEMMA MessageStep ==
    ASSUME ViewInv, TypesInv, StreamsInv, NEW i \in DOMAIN result, Message(i)
    PROVE  StreamsInv'
<1> DEFINE p == result[i].packet
<1> DEFINE s == Stream(1, Len(p.tags), 0, p.length - HeaderBytes(p), FALSE)
<1>1. /\ result[i] # NoPacket /\ p # NULL /\ p.length >= HeaderBytes(p)
      /\ message' = p /\ readers' = <<s>> /\ pc' = "reading"
  BY DEF Message
<1>2. p \in Packets /\ p # NoPacket
  BY <1>1, NoPacketAssumption DEF TypesInv, Views
<1>3. /\ p.length \in Nat /\ p.tags \in Seq(STRING) /\ Len(p.tags) \in Nat
  BY <1>2 DEF Packets
<1> HIDE DEF p
<1> DEFINE length == p.length
<1> DEFINE last == Len(p.tags)
<1> DEFINE header == HeaderBytes(p)
<1>4. header \in Nat
  <2>1. \A n \in Nat : 4 + 4 * ((n + 5) \div 4) \in Nat
    OBVIOUS
  <2> QED BY <1>3, <2>1 DEF HeaderBytes
<1>5. s = [tag |-> 1, last |-> last, pos |-> 0, end |-> length - header, thrown |-> FALSE]
  BY DEF Stream
<1> HIDE DEF s
<1> SUFFICES ASSUME NEW t, t = s PROVE StreamsInv'
  OBVIOUS
<1>6. s \in Streams /\ s.tag \in 1..(s.last + 1) /\ s.pos <= s.end
  <2>1. last \in Nat /\ length - header \in Nat
    BY <1>1, <1>3, <1>4
  <2> HIDE DEF last, length, header
  <2>2. s.tag = 1 /\ s.last = last /\ s.pos = 0 /\ s.end = length - header
    BY <1>5
  <2> QED BY <1>5, <2>1, <2>2 DEF Streams
<1>7. StreamOK(t, FALSE)'
  <2>1. t.last = Len(message'.tags) /\ t.last \in Nat /\ t.tag = 1 /\ t.pos = 0
    BY <1>1, <1>3, <1>5
  <2>2. InStep(t)'
    BY <2>1 DEF InStep, Offset
  <2> QED BY <1>6, <2>1, <2>2 DEF StreamOK
<1>8. readers' \in Seq(Streams) /\ Len(readers') = 1 /\ readers'[1] = t /\ readers' # <<>>
  BY <1>1, <1>6
<1>9. \A k \in 1..Len(readers') : StreamOK(readers[k], k > 1)'
  <2> SUFFICES ASSUME NEW k \in 1..Len(readers') PROVE StreamOK(t, k > 1)'
    BY <1>8
  <2>1. ~(k > 1)
    BY <1>8
  <2> QED BY <1>7, <2>1 DEF StreamOK
<1> QED BY <1>1, <1>2, <1>8, <1>9 DEF StreamsInv

\* Nothing is read any more.
LEMMA OverNullStep ==
    ASSUME StreamsInv, NEW i \in DOMAIN result, MessageOverNull(i)
    PROVE  StreamsInv'
<1>1. pc # "reading" /\ pc' # "reading" /\ UNCHANGED messageVars
  BY DEF MessageOverNull
<1>2. \A r, b : StreamOK(r, b)' <=> StreamOK(r, b)
  BY <1>1 DEF StreamOK, InStep, messageVars
<1> QED BY <1>1, <1>2 DEF StreamsInv, messageVars

LEMMA LeaveStep ==
    ASSUME StreamsInv, LeaveStream
    PROVE  StreamsInv'
<1>1. /\ pc = "reading" /\ readers' = SubSeq(readers, 1, Len(readers) - 1)
      /\ IF Len(readers) = 1 THEN pc' = "between" /\ message' = NoPacket
         ELSE UNCHANGED <<pc, message>>
  BY DEF LeaveStream, Front
<1>2. readers \in Seq(Streams) /\ readers # <<>> /\ Len(readers) \in Nat /\ Len(readers) >= 1
  BY <1>1 DEF StreamsInv
<1>3. /\ readers' \in Seq(Streams) /\ Len(readers') = Len(readers) - 1
      /\ \A k \in 1..Len(readers') : readers'[k] = readers[k]
      /\ readers' = <<>> <=> Len(readers) = 1
  <2>1. \A k \in 1..(Len(readers) - 1) : readers[k] \in Streams
    BY <1>2
  <2>2. Len(readers) - 1 \in Nat
    BY <1>2
  <2> DEFINE n == Len(readers) - 1
  <2>3. n \in Nat /\ 1 \in Int /\ n \in Int /\ \A k \in 1..n : readers[k] \in Streams
    BY <2>1, <2>2
  <2>4. /\ readers' \in Seq(Streams)
        /\ Len(readers') = IF 1 <= n THEN n - 1 + 1 ELSE 0
        /\ \A k \in 1..(n - 1 + 1) : readers'[k] = readers[1 + k - 1]
    <3>1. readers' = SubSeq(readers, 1, n)
      BY <1>1
    <3> HIDE DEF n
    <3> QED BY <2>3, <3>1, SubSeqProperties
  <2> HIDE DEF n
  <2>5. Len(readers') = n /\ \A k \in 1..n : readers'[k] = readers[k]
    BY <2>3, <2>4
  <2> QED BY <1>2, <2>4, <2>5 DEF n
<1>4. CASE Len(readers) = 1
  BY <1>1, <1>3, <1>4 DEF StreamsInv
<1>5. CASE Len(readers) # 1
  <2>1. \A r, b : StreamOK(r, b)' <=> StreamOK(r, b)
    BY <1>1, <1>5 DEF StreamOK, InStep
  <2> QED BY <1>1, <1>2, <1>3, <1>5, <2>1 DEF StreamsInv
<1> QED BY <1>4, <1>5

\* The other steps neither begin nor end the reading of a message.
LEMMA InputStreams ==
    ASSUME StreamsInv, [Next]_vars, UNCHANGED messageVars
    PROVE  StreamsInv'
<1>1. pc' = "reading" <=> pc = "reading"
  BY DEF Next, vars, oscVars, Graph, Between, FinishBuffer, ParseOsc, Bundle, Running, TooMany,
         Control, Return, NextPacket, NextThrows, WalkEnds, Crashed
<1>2. \A r, b : StreamOK(r, b)' <=> StreamOK(r, b)
  BY DEF StreamOK, InStep, messageVars
<1> QED BY <1>1, <1>2 DEF StreamsInv, messageVars

LEMMA NextStreams ==
    ViewInv /\ TypesInv /\ StreamsInv /\ [MessagesNext]_allVars => StreamsInv'
<1> SUFFICES ASSUME ViewInv, TypesInv, StreamsInv, [MessagesNext]_allVars PROVE StreamsInv'
  OBVIOUS
<1>1. CASE UNCHANGED allVars \/ Input(Next)
  BY <1>1, InputStreams DEF allVars, Input
<1>2. CASE \E i \in DOMAIN result : Message(i) \/ MessageOverNull(i)
  BY <1>2, MessageStep, OverNullStep
<1>3. CASE \E accessor \in DOMAIN Accepts : Reading(Get(accessor))
  BY <1>3, GetStep
<1>4. CASE Reading(Drop)
  BY <1>4, DropStep
<1>5. CASE Reading(Array)
  BY <1>5, ArrayStep
<1>6. CASE LeaveStream
  BY <1>6, LeaveStep
<1> QED BY <1>1, <1>2, <1>3, <1>4, <1>5, <1>6 DEF MessagesNext

MessagesInv == InputInv /\ StreamsInv

LEMMA InitMessages == MessagesInit => MessagesInv
BY InitInput DEF MessagesInit, MessagesInv, StreamsInv, Init

LEMMA NextMessages == MessagesInv /\ [MessagesNext]_allVars => MessagesInv'
BY MessageSteps, NextInput, NextStreams DEF MessagesInv, InputInv, ParseInv

-----------------------------------------------------------------------------
(* The program that reads messages too *)

\* It is one of the programs PortBuffers is about as well.
THEOREM MessagesImplementBuffers == MessagesSpec => BufferSpec
<1>1. MessagesInit => BufferInit
  BY DEF MessagesInit, Init
<1> QED BY <1>1, MessageSteps, StepIsBufferStep, PTL DEF MessagesSpec, BufferSpec

\* The types of its state; in particular the streams (ArgStream, server.hpp) stay within
\* the tags and the data of the message, whatever their accessors run into.
THEOREM MessageTypes == MessagesSpec => []TypeOK
<1>1. MessagesInv => TypeOK
  <2> SUFFICES ASSUME MessagesInv, NEW k \in DOMAIN readers
               PROVE  /\ readers[k].tag \in 1..(readers[k].last + 1)
                      /\ readers[k].pos \in 0..readers[k].end
    BY ParseInvMeans DEF MessagesInv, InputInv, StreamsInv, TypeOK
  <2>1. StreamOK(readers[k], k > 1)
    BY DEF MessagesInv, StreamsInv
  <2> QED BY <2>1 DEF StreamOK, Streams
<1> QED BY <1>1, InitMessages, NextMessages, PTL DEF MessagesSpec

\* Until an accessor throws, tags and data stay in step through conversions, drops and
\* arrays inside arrays (ArgStream::array, dropArray, server.hpp), for every message.
THEOREM ArgumentsStayInStep == MessagesSpec => []ArgumentsInStep
<1>1. MessagesInv => ArgumentsInStep
  <2> SUFFICES ASSUME MessagesInv, NEW k \in DOMAIN readers, ~readers[k].thrown
               PROVE  /\ InStep(readers[k])
                      /\ k > 1 /\ readers[k].tag > readers[k].last =>
                            readers[k].pos = readers[k].end
    BY DEF ArgumentsInStep
  <2>1. StreamOK(readers[k], k > 1)
    BY DEF MessagesInv, StreamsInv
  <2>2. ASSUME k > 1, readers[k].tag > readers[k].last
        PROVE  readers[k].pos = readers[k].end
    <3>1. readers[k].tag - 1 = readers[k].last
      BY <2>1, <2>2 DEF StreamOK, Streams
    <3> QED BY <2>1, <2>2, <3>1 DEF StreamOK, InStep
  <2> QED BY <2>1, <2>2 DEF StreamOK
<1> QED BY <1>1, InitMessages, NextMessages, PTL DEF MessagesSpec

\* What was shown of the program without messages holds with them: one owner for each
\* buffer, valid packets, elements in bounds, the newest packet.
THEOREM InputPropertiesRemain ==
    MessagesSpec => [](/\ OneOwner /\ ViewsStayValid /\ ElementsInside
                       /\ NewestPacketIsReturned)
<1>1. MessagesInv => ViewsStayValid /\ ElementsInside /\ NewestPacketIsReturned
  BY ViewInvMeans, WalkInvMeans, ParseInvMeans DEF MessagesInv, InputInv
<1>2. MessagesSpec => []OneOwner
  BY MessagesImplementBuffers, BuffersHaveOneOwner, PTL
<1> QED BY <1>1, <1>2, InitMessages, NextMessages, PTL DEF MessagesSpec
=============================================================================
