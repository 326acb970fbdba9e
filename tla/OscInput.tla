------------------------------- MODULE OscInput -------------------------------
(***************************************************************************)
(* A signal processor that reads OSC: parse_osc<MAX_N> on the buffers of   *)
(* PortBuffers, and a walk over the packets it returns with                *)
(* OSCPP::Server::PacketStream.  Both look at the memory of a buffer that  *)
(* the graph fills again as soon as it has it back.                        *)
(***************************************************************************)
EXTENDS PortBuffers

CONSTANTS
    MaxNs,      \* The sizes of the arrays the program asks for
    Sizes,      \* What getInt32 may read as the size of a bundle's element
    NoPacket    \* An empty optional

\* Where the data of the first k tags of a message ends, as its sender laid it out.
Offset(p, k) == IF k = 0 THEN 0 ELSE p.ends[k]

\* A bracket has no data; the tag of a bundle and the texts of a message end in NUL.
LaidOut(p) ==
    /\ p.bundle \/ p.tags # <<>> => p.nul
    /\ Len(p.ends) = Len(p.tags)
    /\ \A j, k \in 0..Len(p.tags) : j <= k => Offset(p, j) <= Offset(p, k)
    /\ \A k \in 1..Len(p.tags) : p.tags[k] \in {"[", "]"} => Offset(p, k) = Offset(p, k - 1)

\* A control is of another type than SPA_CONTROL_OSC, or of that type with a
\* value that is no byte string, or with a packet in it.
Packets ==
    {p \in [length : Nat, nul : BOOLEAN, bundle : BOOLEAN, tags : Seq(STRING), ends : Seq(Nat)] :
        LaidOut(p)}
Views == [at : Nat, packet : Packets \cup {NULL}]
Controls == [type : {"other", "OSC"}, packet : Packets \cup {NULL}]

ASSUME MaxAssumption == MaxNs \subseteq Nat
ASSUME SizesAssumption == Sizes \subseteq Int
ASSUME NoPacketAssumption == NoPacket \notin Packets \cup Views
ASSUME PodsAssumption ==
    \A p \in Pods : \/ p.kind = "other"
                    \/ p.kind = "sequence" /\ p.controls \in Seq(Controls)

VARIABLES
    pc,         \* What the processor is doing
    source,     \* The buffer parse_osc was last called on
    rest,       \* The controls SPA_POD_SEQUENCE_FOREACH has not reached
    index,      \* parse_osc's index
    result,     \* result_messages: views into the buffer
    outcome,    \* What parse_osc returned
    walk        \* The PacketStream and the packets it has returned

oscVars == <<pc, source, rest, index, result, outcome, walk>>
vars == <<bufferVars, oscVars>>

EmptyArray(n) == [i \in 0..(n - 1) |-> NoPacket]
NoWalk == [pos |-> 0, end |-> 0, found |-> <<>>]

Init ==
    /\ BufferInit
    /\ pc = "between"
    /\ source = NULL
    /\ rest = <<>>
    /\ index = 0
    /\ result = EmptyArray(0)
    /\ outcome = "none"
    /\ walk = NoWalk

\* The graph's steps, whatever the processor does; the processor's other calls,
\* when it is neither parsing nor walking.
Graph == GraphStep /\ UNCHANGED oscVars
Between(A) == pc = "between" /\ A /\ UNCHANGED oscVars

\* What was parsed goes out of scope with its buffer.
FinishBuffer(o) ==
    /\ pc = "between"
    /\ Finish(o)
    /\ IF o.buffer = source
       THEN /\ source' = NULL
            /\ result' = EmptyArray(0)
            /\ outcome' = "none"
       ELSE UNCHANGED <<source, result, outcome>>
    /\ UNCHANGED <<pc, rest, index, walk>>

-----------------------------------------------------------------------------
(* parse_osc *)

PodOf(found) == IF found.engaged /\ found.pod # NULL THEN found.pod.kind ELSE "none"

\* parse_osc up to its loop.  Without a pod it succeeds with nothing; an engaged
\* optional that holds NULL is dereferenced by spa_pod_is_sequence.
ParseOsc(b, n) ==
    /\ pc = "between"
    /\ b \in HeldBuffers \cap Inputs
    /\ LET found == GetPod(b, 0) IN
        /\ pc' = CASE found.engaged /\ found.pod = NULL -> "crashed"
                   [] PodOf(found) = "sequence" -> "parsing"
                   [] OTHER -> "between"
        /\ rest' = IF PodOf(found) = "sequence" THEN found.pod.controls ELSE <<>>
        /\ outcome' = CASE ~found.engaged -> "packets"
                        [] PodOf(found) = "other" -> "pod_not_a_sequence"
                        [] OTHER -> "none"
    /\ source' = b
    /\ index' = 0
    /\ result' = EmptyArray(n)
    /\ UNCHANGED <<bufferVars, walk>>

Position == Len(chunk[source][0].controls) - Len(rest) + 1
View(c) == [at |-> Position, packet |-> c.packet]

\* Mutants of Stored, Remaining and Full: a packet does not replace one that is
\* there; a control of another type is looked at forever; the index is not tested.
StoredFirst(c) == IF result[index] = NoPacket THEN [result EXCEPT ![index] = View(c)] ELSE result
NotSkipped(c) == IF c.type = "OSC" THEN Tail(rest) ELSE rest
NeverFull == FALSE

IsOsc(c) == c.type = "OSC"
Stored(c) == [i \in DOMAIN result \cup {index} |-> IF i = index THEN View(c) ELSE result[i]]
Remaining(c) == Tail(rest)

\* Packet's constructor and the trace before it read what is not theirs: data is NULL
\* and length uninitialised, or the trace prints the bytes up to a NUL behind them.
Misread(c) == IsOsc(c) /\ (c.packet # NULL => ~c.packet.nul)
Full == index \notin DOMAIN result

\* The next control, and the array is full.  The index does not move, so this
\* happens only to an array of size zero.
TooMany ==
    /\ pc = "parsing" /\ rest # <<>>
    /\ Full
    /\ outcome' = "too_many_messages"
    /\ pc' = "between"
    /\ UNCHANGED <<bufferVars, source, rest, index, result, walk>>

\* A control of another type is skipped; a packet goes to where the index is.  What
\* is misread may crash; otherwise a value that is no byte string has become a
\* short packet over NULL.
Control ==
    /\ pc = "parsing" /\ rest # <<>>
    /\ ~Full
    /\ result' = IF IsOsc(Head(rest)) THEN Stored(Head(rest)) ELSE result
    /\ \/ pc' = pc
       \/ Misread(Head(rest)) /\ pc' = "crashed"
    /\ rest' = Remaining(Head(rest))
    /\ UNCHANGED <<bufferVars, source, index, outcome, walk>>

\* Mutant of Return: the buffer is finished as soon as it has been parsed.
ReturnAndFinish ==
    /\ pc = "parsing" /\ rest = <<>>
    /\ outcome' = "packets"
    /\ pc' = "between"
    /\ queued' = [queued EXCEPT ![PortOf[source]] = Append(@, source)]
    /\ UNCHANGED <<graph, available, held, chunk, written, source, rest, index, result, walk>>

\* The sequence is exhausted.
Return ==
    /\ pc = "parsing" /\ rest = <<>>
    /\ outcome' = "packets"
    /\ pc' = "between"
    /\ UNCHANGED <<bufferVars, source, rest, index, result, walk>>

-----------------------------------------------------------------------------
(* PacketStream, on one of the packets *)

\* The conversion to Bundle, which throws for a packet that is none: a bundle has
\* its tag and more than 15 bytes.  Its elements begin after the time.
Bundle(i) ==
    /\ pc = "between"
    /\ result[i] # NoPacket
    /\ LET p == result[i].packet IN
        /\ p # NULL /\ p.length > 15 /\ p.bundle
        /\ walk' = [pos |-> 16, end |-> p.length, found |-> <<>>]
    /\ pc' = "walking"
    /\ UNCHANGED <<bufferVars, source, rest, index, result, outcome>>

\* getInt32 can read a size: four bytes are left and aligned.
SizeReadable == walk.end - walk.pos >= 4 /\ walk.pos % 4 = 0

\* Mutant of Skippable: the constructor's test alone, in the signed type.
SkippableSigned(size) == size <= walk.end - walk.pos - 4

\* As a size_t a negative size is beyond what is left.  It gets past the constructor
\* of the element's stream, where the end wraps around, but not past skip.
Skippable(size) == size >= 0 /\ size <= walk.end - walk.pos - 4

\* PacketStream::next returns the element and moves on.
NextPacket(size) ==
    /\ pc = "walking" /\ walk.pos # walk.end
    /\ SizeReadable /\ Skippable(size)
    /\ LET element == [begin |-> walk.pos + 4, end |-> walk.pos + 4 + size] IN
        walk' = [pos |-> element.end, end |-> walk.end, found |-> Append(walk.found, element)]
    /\ UNCHANGED <<bufferVars, pc, source, rest, index, result, outcome>>

\* It throws, and the program stops walking.
NextThrows ==
    /\ pc = "walking" /\ walk.pos # walk.end
    /\ ~SizeReadable \/ \E size \in Sizes : ~Skippable(size)
    /\ pc' = "between"
    /\ walk' = NoWalk
    /\ UNCHANGED <<bufferVars, source, rest, index, result, outcome>>

WalkEnds ==
    /\ pc = "walking" /\ walk.pos = walk.end
    /\ pc' = "between"
    /\ walk' = NoWalk
    /\ UNCHANGED <<bufferVars, source, rest, index, result, outcome>>

\* The processor has crashed.
Crashed == pc = "crashed" /\ UNCHANGED vars

Running ==
    \/ TooMany \/ Control \/ Return
    \/ \E size \in Sizes : NextPacket(size)
    \/ NextThrows \/ WalkEnds

Next ==
    \/ Graph
    \/ \E p \in Ports : Between(GetBuffer(p))
    \/ \E b \in Outputs : \E i \in Blocks(b) :
        Between(GetSpaData(b, i)) \/ \E d \in Payloads : Between(Write(b, i, d))
    \/ \E o \in held : FinishBuffer(o)
    \/ \E b \in Inputs, n \in MaxNs : ParseOsc(b, n)
    \/ \E i \in DOMAIN result : Bundle(i)
    \/ Running
    \/ Crashed

Spec == Init /\ [][Next]_vars
-----------------------------------------------------------------------------
(* Properties *)

\* The type invariant, but for the messages.
InputTypeOK ==
    /\ BuffersTypeOK
    /\ pc \in {"between", "parsing", "walking", "reading", "crashed"}
    /\ source \in Inputs \cup {NULL}
    /\ rest \in Seq(Controls)
    /\ \E n \in MaxNs \cup {0} : index \in 0..n /\ DOMAIN result = 0..(n - 1)
    /\ \A i \in DOMAIN result : result[i] = NoPacket \/ result[i] \in Views
    /\ outcome \in {"none", "packets", "pod_not_a_sequence", "too_many_messages"}
    /\ DOMAIN walk = {"pos", "end", "found"}

\* A packet is a view into the buffer.  As long as the buffer is not finished, it
\* shows what the graph wrote at the place it was parsed from, whatever happens to
\* the other buffers in the meantime.
ViewsStayValid ==
    \A i \in DOMAIN result :
        result[i] # NoPacket =>
            /\ source \in HeldBuffers
            /\ PodOf(GetPod(source, 0)) = "sequence"
            /\ result[i].at \in DOMAIN chunk[source][0].controls
            /\ chunk[source][0].controls[result[i].at].packet = result[i].packet

OscControls(b) == {k \in DOMAIN chunk[b][0].controls : chunk[b][0].controls[k].type = "OSC"}

\* A parse that succeeds on a pod with OSC messages returns the last of them, and,
\* since its index never moves, no other.
NewestPacketIsReturned ==
    outcome = "packets" /\ 0 \in Blocks(source) =>
        {result[i].at : i \in {j \in DOMAIN result : result[j] # NoPacket}} =
            {k \in OscControls(source) : \A l \in OscControls(source) : l <= k}

\* The elements a walk returns lie inside the bundle, one behind the other, whatever
\* sizes the packet announces.
ElementsInside ==
    /\ walk.pos <= walk.end
    /\ \A i \in DOMAIN walk.found :
        /\ walk.found[i].begin >= IF i = 1 THEN 20 ELSE walk.found[i - 1].end + 4
        /\ walk.found[i].begin <= walk.found[i].end
        /\ walk.found[i].end <= walk.end
=============================================================================
