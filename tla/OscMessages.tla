----------------------------- MODULE OscMessages -----------------------------
(***************************************************************************)
(* The processor of OscInput also reads the messages among its packets,    *)
(* with OSCPP::Server::ArgStream: a stream of tags and a stream of data,   *)
(* which nothing but the accessors keeps in step.                          *)
(***************************************************************************)
EXTENDS OscInput, FiniteSets, SequencesExt

\* The bytes of a message before its data: an address of one word, the tag string
\* with its comma and its terminator.
HeaderBytes(p) == 4 + 4 * ((Len(p.tags) + 5) \div 4)

VARIABLES
    message,    \* The packet that is being read
    readers     \* The ArgStreams on it, the one in use last

messageVars == <<message, readers>>
allVars == <<vars, messageVars>>

\* A stream over the tags from tag to last and the data from pos to end.  Ghost:
\* whether one of its accessors has thrown, or one of the stream it was taken from.
Stream(tag, last, pos, end, thrown) ==
    [tag |-> tag, last |-> last, pos |-> pos, end |-> end, thrown |-> thrown]

MessagesInit ==
    /\ Init
    /\ message = NoPacket
    /\ readers = <<>>

-----------------------------------------------------------------------------
\* The conversion to Message; it throws for a bundle, and for a packet without a
\* tag string.
Message(i) ==
    /\ pc = "between"
    /\ result[i] # NoPacket
    /\ LET p == result[i].packet IN
        /\ p # NULL
        /\ ~(p.length > 15 /\ p.bundle)
        /\ p.length >= HeaderBytes(p)
        /\ message' = p
        /\ readers' = <<Stream(1, Len(p.tags), 0, p.length - HeaderBytes(p), FALSE)>>
    /\ pc' = "reading"
    /\ UNCHANGED <<bufferVars, source, rest, index, result, outcome, walk>>

\* The conversion of a short packet over NULL: it is no bundle, and getString reads
\* its bytes (or finds that there are too few, and throws).
MessageOverNull(i) ==
    /\ pc = "between"
    /\ result[i] # NoPacket
    /\ result[i].packet = NULL
    /\ pc' = "crashed"
    /\ UNCHANGED <<bufferVars, source, rest, index, result, outcome, walk, messageVars>>

Top == readers[Len(readers)]
Tag == message.tags[Top.tag]
ReadersWith(r) == [readers EXCEPT ![Len(readers)] = r]

\* An ArgStream is in step when its data begins where that of its next tag does.
InStep(r) == r.pos = Offset(message, r.tag - 1)

Room(r) == r.end - r.pos

\* The bytes the data of the next tags up to tag c takes.  Out of step it is read
\* from the middle of something else: a number still takes a word, a string or
\* a blob any number of words.
Bytes(r, c) ==
    LET Count(types) == Cardinality({k \in r.tag..c : message.tags[k] \in types}) IN
    IF InStep(r) THEN {Offset(message, c) - r.pos}
    ELSE {4 * (Count({"i", "f", "s", "b"}) + k) :
            k \in IF Count({"s", "b"}) = 0 THEN {0} ELSE 0..(Room(r) \div 4 + 1)}

\* The data of the tags up to c is passed over.
Passed(r, c) == {[r EXCEPT !.tag = c + 1, !.pos = @ + n] : n \in {b \in Bytes(r, c) : b <= Room(r)}}

\* Or UnderrunError is thrown at one of them: its tag is gone, and its data is still
\* there, except for the size of a blob.
Stopped(r, c) ==
    LET SizeRead(k, n) == IF message.tags[k] = "b" /\ n + 4 <= Room(r) THEN 4 ELSE 0 IN
    {Stream(x[1] + 1, r.last, r.pos + x[2] + SizeRead(x[1], x[2]), r.end, TRUE) :
        x \in {y \in (r.tag..c) \X (0..Room(r)) :
                /\ y[2] \in IF y[1] = r.tag THEN {0} ELSE Bytes(r, y[1] - 1)
                /\ \E b \in Bytes(r, y[1]) : b > Room(r)}}

Reading(A) ==
    /\ pc = "reading"
    /\ A
    /\ UNCHANGED <<vars, message>>

\* The types an accessor reads: numbers are converted.
Accepts == [int32 |-> {"i", "f"}, float32 |-> {"i", "f"}, string |-> {"s"}, blob |-> {"b"}]

\* ParseError is thrown at a tag of another type: the tag is gone, its data is not.
Refused(r) == Stream(r.tag + 1, r.last, r.pos, r.end, TRUE)

\* int32, float32, string, blob.
Get(accessor) ==
    /\ Top.tag <= Top.last
    /\ IF Tag \in Accepts[accessor]
       THEN \E r \in Passed(Top, Top.tag) \cup Stopped(Top, Top.tag) : readers' = ReadersWith(r)
       ELSE readers' = ReadersWith(Refused(Top))

\* The bracket that closes the array whose opening bracket is tag k, or one behind
\* the tags of the stream.
Level(k, c) ==
    Cardinality({j \in k..c : message.tags[j] = "["}) - Cardinality({j \in k..c : message.tags[j] = "]"})
Close(r) ==
    CHOOSE c \in r.tag..(r.last + 1) :
        /\ c <= r.last => Level(r.tag, c) = 0
        /\ \A j \in r.tag..(c - 1) : Level(r.tag, j) > 0

\* dropArray, with the opening bracket still there, has passed over the closing one.
Dropped(r) == IF Close(r) <= r.last THEN Passed(r, Close(r)) ELSE {}

\* Or it has thrown.  Without a closing bracket it reads the tags to their end first.
DropThrew(r) ==
    IF Close(r) <= r.last THEN Stopped(r, Close(r))
    ELSE {[s EXCEPT !.thrown = TRUE] : s \in Passed(r, r.last)} \cup Stopped(r, r.last)

\* drop, of an array or of a single argument.
Drop ==
    /\ Top.tag <= Top.last
    /\ \E r \in IF Tag = "[" THEN Dropped(Top) \cup DropThrew(Top)
               ELSE Passed(Top, Top.tag) \cup Stopped(Top, Top.tag) :
        readers' = ReadersWith(r)

\* Mutant of Elements: the data of the array begins where dropArray has stopped.
ElementsAfterDrop(r, after) == Stream(r.tag + 1, after.tag - 2, after.pos, after.pos, r.thrown)

\* The stream on the elements of an array: what dropArray has passed over.
Elements(r, after) == Stream(r.tag + 1, after.tag - 2, r.pos, after.pos, r.thrown)

\* array, and the program goes on with the elements; or it throws.
Array ==
    /\ Top.tag <= Top.last
    /\ IF Tag # "["
       THEN readers' = ReadersWith(Refused(Top))
       ELSE \/ \E r \in Dropped(Top) : readers' = Append(ReadersWith(r), Elements(Top, r))
            \/ \E r \in DropThrew(Top) : readers' = ReadersWith(r)

\* The program is done with a stream, and goes on with the one around it.
LeaveStream ==
    /\ pc = "reading"
    /\ readers' = Front(readers)
    /\ IF Len(readers) = 1
       THEN pc' = "between" /\ message' = NoPacket
       ELSE UNCHANGED <<pc, message>>
    /\ UNCHANGED <<bufferVars, source, rest, index, result, outcome, walk>>

-----------------------------------------------------------------------------
Input(A) == A /\ UNCHANGED messageVars

MessagesNext ==
    \/ Input(Next)
    \/ \E i \in DOMAIN result : Message(i) \/ MessageOverNull(i)
    \/ \E accessor \in DOMAIN Accepts : Reading(Get(accessor))
    \/ Reading(Drop) \/ Reading(Array)
    \/ LeaveStream

MessagesSpec == MessagesInit /\ [][MessagesNext]_allVars

\* The processor does not stop inside parse_osc, a walk or a message; it asks its
\* ports for buffers and finishes what it holds again and again, as the
\* documentation of finish demands; the graph collects what is queued.
FairSpec ==
    /\ MessagesSpec
    /\ WF_allVars(Input(Running) \/ LeaveStream)
    /\ \A p \in Ports :
        /\ SF_allVars(Input(Between(GetBuffer(p))))
        /\ WF_allVars(Input(GraphCollect(p) /\ UNCHANGED oscVars))
    /\ \A b \in Buffers :
        SF_allVars(Input(FinishBuffer([buffer |-> b, port |-> PortOf[b]])))
-----------------------------------------------------------------------------
(* Properties *)

\* The type invariant.
TypeOK ==
    /\ InputTypeOK
    /\ pc = "reading" <=> readers # <<>>
    /\ pc = "reading" <=> message # NoPacket
    /\ \A k \in DOMAIN readers :
        /\ readers[k].tag \in 1..(readers[k].last + 1)
        /\ readers[k].pos \in 0..readers[k].end

\* As long as no accessor has thrown, the tags and the data of a stream are in step:
\* what an accessor reads is what the sender wrote for that tag, also inside
\* arrays and behind them; and the data of an array ends with its last element.
ArgumentsInStep ==
    \A k \in DOMAIN readers :
        ~readers[k].thrown =>
            /\ InStep(readers[k])
            /\ k > 1 /\ readers[k].tag > readers[k].last => readers[k].pos = readers[k].end

\* A buffer that is offered to the processor comes back to the graph, however the
\* parses, walks and messages end that use it, unless the processor crashes.
BuffersComeBack ==
    \A b \in Buffers :
        InSeq(b, available[PortOf[b]]) ~> (b \in graph \/ pc = "crashed")
=============================================================================
