----------------------------- MODULE PortBuffers -----------------------------
(***************************************************************************)
(* FilterPort and Buffer: the pw_buffers of a filter's ports on their way  *)
(* from the graph through the signal processor and back.  The graph runs   *)
(* on threads of its own; the signal processor is one thread, and may do   *)
(* with the buffers it holds what the interface allows, in any order, and  *)
(* keep them over several calls of process.                                *)
(***************************************************************************)
EXTENDS Integers, Sequences

CONSTANTS
    InPorts, OutPorts,  \* The ports of the filter
    Buffers,            \* All their buffers
    PortOf,             \* The port for which the graph allocated a buffer
    Datas,              \* n_datas of each buffer
    Mapped,             \* The buffers whose memory is mapped: data is not NULL
    NULL,               \* No pod, where a pod is expected
    Pods,               \* The pods the graph may put into a block of an input
    Payloads,           \* What the program may write into a block of an output
    MaxWrites           \* Bound on the writes to one block

Ports == InPorts \cup OutPorts
Inputs  == {b \in Buffers : PortOf[b] \in InPorts}
Outputs == {b \in Buffers : PortOf[b] \in OutPorts}
Blocks(b) == 0..(Datas[b] - 1)

ASSUME PortsAssumption ==
    /\ InPorts \cap OutPorts = {}
    /\ PortOf \in [Buffers -> Ports]
ASSUME DatasAssumption ==
    /\ Datas \in [Buffers -> Nat]
    /\ \A b \in Outputs : Datas[b] >= 1
    /\ Mapped \subseteq Buffers /\ Inputs \subseteq Mapped
ASSUME ContentAssumption == NULL \notin Pods /\ MaxWrites \in Nat

VARIABLES
    graph,      \* The buffers the graph has, to fill them or to send them on
    available,  \* What pw_filter_dequeue_buffer hands out next, port by port
    held,       \* The Buffer objects of the program that are not finished
    queued,     \* What pw_filter_queue_buffer took back, port by port
    chunk,      \* What the chunk of each block says is valid in it
    written     \* Ghost: what the program wrote to the blocks it asked for

bufferVars == <<graph, available, held, queued, chunk, written>>

\* A chunk that is empty or truncated holds no whole pod.
Contents(b) == IF b \in Inputs THEN Pods \cup {NULL} ELSE Seq(Payloads)

BufferInit ==
    /\ graph = Buffers
    /\ available = [p \in Ports |-> <<>>]
    /\ held = {}
    /\ queued = [p \in Ports |-> <<>>]
    /\ chunk = [b \in Buffers |-> [i \in Blocks(b) |-> IF b \in Inputs THEN NULL ELSE <<>>]]
    /\ written = [b \in Buffers |-> <<>>]

InSeq(b, s) == \E i \in DOMAIN s : s[i] = b
HeldBuffers == {o.buffer : o \in held}

-----------------------------------------------------------------------------
(* The graph *)

\* It makes a buffer available on its port: an input with new content, an output
\* with what was in it before.
GraphOffer(b) ==
    /\ b \in graph
    /\ graph' = graph \ {b}
    /\ available' = [available EXCEPT ![PortOf[b]] = Append(@, b)]
    /\ IF b \in Inputs
       THEN \E c \in [Blocks(b) -> Pods \cup {NULL}] : chunk' = [chunk EXCEPT ![b] = c]
       ELSE UNCHANGED chunk
    /\ UNCHANGED <<held, queued, written>>

\* It takes the next buffer a port has queued.
GraphCollect(p) ==
    /\ queued[p] # <<>>
    /\ graph' = graph \cup {Head(queued[p])}
    /\ queued' = [queued EXCEPT ![p] = Tail(@)]
    /\ UNCHANGED <<available, held, chunk, written>>

-----------------------------------------------------------------------------
(* The signal processor *)

\* Mutant of GetBuffer: the buffer is looked at and stays in the port.
PeekBuffer(p) ==
    /\ available[p] # <<>>
    /\ held' = held \cup {[buffer |-> Head(available[p]), port |-> p]}
    /\ written' = [written EXCEPT ![Head(available[p])] = <<>>]
    /\ UNCHANGED <<graph, available, queued, chunk>>

\* FilterPort::get_buffer: a Buffer that knows its port.  (Without a buffer it
\* returns an empty optional and changes nothing.)
GetBuffer(p) ==
    /\ available[p] # <<>>
    /\ available' = [available EXCEPT ![p] = Tail(@)]
    /\ held' = held \cup {[buffer |-> Head(available[p]), port |-> p]}
    /\ written' = [written EXCEPT ![Head(available[p])] = <<>>]
    /\ UNCHANGED <<graph, queued, chunk>>

\* Buffer::get_pod: nothing for an index without data, and otherwise an engaged
\* optional, also when spa_pod_from_data finds no whole pod and returns NULL.
GetPod(b, index) ==
    IF Datas[b] > index
    THEN [engaged |-> TRUE, pod |-> chunk[b][index]]
    ELSE [engaged |-> FALSE]

\* The block get_spa_data returns: its index plays no part.
SpaDataBlock(index) == 0

\* Mutant of GetSpaData: the chunk keeps its size.
GetSpaDataUncleared(b, index) ==
    /\ b \in HeldBuffers \cap Mapped
    /\ written' = [written EXCEPT ![b] = [i \in DOMAIN @ \cup {index} |->
                                            IF i = index THEN <<>> ELSE @[i]]]
    /\ UNCHANGED <<graph, available, held, queued, chunk>>

\* Buffer::get_spa_data on an output: the chunk is reset to empty.  (On memory
\* that is not mapped it returns an empty optional and changes nothing.)
GetSpaData(b, index) ==
    /\ b \in HeldBuffers \cap Mapped
    /\ chunk' = [chunk EXCEPT ![b][SpaDataBlock(index)] = <<>>]
    /\ written' = [written EXCEPT ![b] = [i \in DOMAIN @ \cup {index} |->
                                            IF i = index THEN <<>> ELSE @[i]]]
    /\ UNCHANGED <<graph, available, held, queued>>

\* The program adds a payload to the block it was given for an index, and to the
\* size in its chunk.
Write(b, index, d) ==
    /\ b \in HeldBuffers
    /\ index \in DOMAIN written[b]
    /\ Len(written[b][index]) < MaxWrites
    /\ chunk' = [chunk EXCEPT ![b][SpaDataBlock(index)] = Append(@, d)]
    /\ written' = [written EXCEPT ![b][index] = Append(@, d)]
    /\ UNCHANGED <<graph, available, held, queued>>

\* Buffer::finish, once for each Buffer: pw_filter_queue_buffer on its port.
Finish(o) ==
    /\ held' = held \ {o}
    /\ queued' = [queued EXCEPT ![o.port] = Append(@, o.buffer)]
    /\ UNCHANGED <<graph, available, chunk, written>>

GraphStep ==
    \/ \E b \in Buffers : GraphOffer(b)
    \/ \E p \in Ports : GraphCollect(p)

ProcessorStep ==
    \/ \E p \in Ports : GetBuffer(p)
    \/ \E b \in Outputs : \E i \in Blocks(b) :
        GetSpaData(b, i) \/ \E d \in Payloads : Write(b, i, d)
    \/ \E o \in held : Finish(o)

BufferNext == GraphStep \/ ProcessorStep

BufferSpec == BufferInit /\ [][BufferNext]_bufferVars
-----------------------------------------------------------------------------
(* Properties *)

\* The type invariant.
BuffersTypeOK ==
    /\ graph \subseteq Buffers
    /\ available \in [Ports -> Seq(Buffers)]
    /\ held \subseteq [buffer : Buffers, port : Ports]
    /\ queued \in [Ports -> Seq(Buffers)]
    /\ \A b \in Buffers :
        /\ DOMAIN chunk[b] = Blocks(b)
        /\ \A i \in Blocks(b) : chunk[b][i] \in Contents(b)
        /\ DOMAIN written[b] \subseteq Blocks(b)

\* A queue holds buffers of its own port, and each once.
Orderly(p, s) ==
    /\ \A i \in DOMAIN s : PortOf[s[i]] = p
    /\ \A i, j \in DOMAIN s : s[i] = s[j] => i = j

\* Who has the buffer: the graph, its port, the program, its port again.
Having(b) == <<b \in graph, InSeq(b, available[PortOf[b]]),
               b \in HeldBuffers, InSeq(b, queued[PortOf[b]])>>

\* Each buffer is in exactly one hand, and never in another port than its own, on
\* every way through dequeue, the program's Buffer objects and finish: nobody
\* reads or fills what somebody else has, and nothing gets lost.
OneOwner ==
    /\ \A p \in Ports : Orderly(p, available[p]) /\ Orderly(p, queued[p])
    /\ \A o \in held : o.port = PortOf[o.buffer]
    /\ \A b \in Buffers :
        \E i \in 1..4 : Having(b)[i] /\ \A j \in (1..4) \ {i} : ~Having(b)[j]

\* "Get the spa data at the given index for writing": when the graph gets an
\* output back, each block the program asked for holds what it wrote to that
\* block since, and nothing the buffer carried in an earlier cycle.
OutputAsWritten ==
    \A b \in Outputs :
        InSeq(b, queued[PortOf[b]]) =>
            \A i \in DOMAIN written[b] : chunk[b][i] = written[b][i]
=============================================================================
