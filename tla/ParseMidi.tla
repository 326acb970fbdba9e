------------------------------ MODULE ParseMidi ------------------------------
(***************************************************************************)
(* parse_midi<MAX_N>: from the pod of a buffer to an array of MAX_N        *)
(* optional messages, one control of the sequence per step.                *)
(***************************************************************************)
EXTENDS Integers, Sequences, FiniteSets

CONSTANTS
    MAX_N,      \* The size of the array the caller asks for
    NoMessage,  \* An empty optional
    Pods        \* What get_pod may return: no pod, NULL, another pod, a sequence

ASSUME MaxAssumption == MAX_N \in Nat

\* The two words of a 64-bit Universal MIDI Packet, by what parse_ump_64 looks
\* at: message type, status byte, data byte, the halves of the second word.
Words == [mtype : 0..15, status : 0..255, data : 0..255,
          high : 0..65535, low : 0..65535]

ControlTypes == {"UMP", "Midi", "OSC", "Properties"}
Controls == [type : ControlTypes, length : Nat, word : Words]

Empty    == [kind |-> "none"]
Null     == [kind |-> "null"]
NotASeq  == [kind |-> "other"]
SequencePod(cs) == [kind |-> "sequence", controls |-> cs]

ASSUME PodsAssumption ==
    \A p \in Pods : \/ p \in {Empty, Null, NotASeq}
                    \/ p.kind = "sequence" /\ p.controls \in Seq(Controls)

\* The status bytes parse_ump_64 compares with.
Ranges == [control_change |-> 176..191, note_off |-> 128..143, note_on |-> 144..159]

\* What it decodes: the value is one or two halves of a word.
message == [kind : DOMAIN Ranges, channel : 0..15, number : 0..127, value : Seq(0..65535)]

ASSUME NoMessageAssumption == NoMessage \notin message

\* Only message type 4 is decoded.  A control_change takes the whole second
\* word as its value, a note its upper half as its velocity.
parse_ump_64(w) ==
    IF w.mtype = 4 /\ \E k \in DOMAIN Ranges : w.status \in Ranges[k]
    THEN LET k == CHOOSE k \in DOMAIN Ranges : w.status \in Ranges[k] IN
         [kind |-> k, channel |-> w.status % 16, number |-> w.data % 128,
          value |-> IF k = "control_change" THEN <<w.high, w.low>> ELSE <<w.high>>]
    ELSE NoMessage

-----------------------------------------------------------------------------
VARIABLES
    pod,        \* The pod get_pod(0) returned
    rest,       \* The controls SPA_POD_SEQUENCE_FOREACH has not reached
    index,      \* Messages stored so far
    result,     \* result_messages
    outcome     \* "running", then what the function returned

vars == <<pod, rest, index, result, outcome>>

Init ==
    /\ pod \in Pods
    /\ rest = IF pod.kind = "sequence" THEN pod.controls ELSE <<>>
    /\ index = 0
    /\ result = [i \in 1..MAX_N |-> NoMessage]
    /\ outcome = "running"

\* No pod: an array of empty optionals is returned.
NoPod ==
    /\ outcome = "running" /\ pod.kind = "none"
    /\ outcome' = "messages"
    /\ UNCHANGED <<pod, rest, index, result>>

\* spa_pod_from_data has found no pod in the data: the optional is engaged, around
\* NULL, and spa_pod_is_sequence reads through it.
PodIsNull ==
    /\ outcome = "running" /\ pod.kind = "null"
    /\ outcome' = "crashed"
    /\ UNCHANGED <<pod, rest, index, result>>

NotASequence ==
    /\ outcome = "running" /\ pod.kind = "other"
    /\ outcome' = "pod_not_a_sequence"
    /\ UNCHANGED <<pod, rest, index, result>>

Running == outcome = "running" /\ pod.kind = "sequence"

\* Mutant of TooMany: the array is not guarded.
TooManyLate ==
    /\ Running /\ rest # <<>>
    /\ index >= MAX_N
    /\ index' = index + 1
    /\ rest' = Tail(rest)
    /\ UNCHANGED <<pod, result, outcome>>

\* The array is full and there is another control, of whatever type.
TooMany ==
    /\ Running /\ rest # <<>>
    /\ index >= MAX_N
    /\ outcome' = "too_many_messages"
    /\ UNCHANGED <<pod, rest, index, result>>

MessageOf(c) ==
    IF c.type = "UMP" /\ c.length = 8 THEN parse_ump_64(c.word) ELSE NoMessage

\* Mutant of Control: the index moves on for every control.
AdvanceAlways ==
    /\ Running /\ rest # <<>>
    /\ index < MAX_N
    /\ result' = [result EXCEPT ![index + 1] = MessageOf(Head(rest))]
    /\ index' = index + 1
    /\ rest' = Tail(rest)
    /\ UNCHANGED <<pod, outcome>>

\* One control of the sequence: a message goes to the next free slot, any other
\* control is skipped.
Control ==
    /\ Running /\ rest # <<>>
    /\ index < MAX_N
    /\ LET m == MessageOf(Head(rest)) IN
        IF m = NoMessage
        THEN UNCHANGED <<index, result>>
        ELSE /\ result' = [result EXCEPT ![index + 1] = m]
             /\ index' = index + 1
    /\ rest' = Tail(rest)
    /\ UNCHANGED <<pod, outcome>>

\* Mutant of Return: the array is returned as soon as it is full.
ReturnWhenFull ==
    /\ Running
    /\ rest = <<>> \/ index = MAX_N
    /\ outcome' = "messages"
    /\ UNCHANGED <<pod, rest, index, result>>

\* The sequence is exhausted.
Return ==
    /\ Running /\ rest = <<>>
    /\ outcome' = "messages"
    /\ UNCHANGED <<pod, rest, index, result>>

Done == outcome # "running" /\ UNCHANGED vars

Next == NoPod \/ PodIsNull \/ NotASequence \/ TooMany \/ Control \/ Return \/ Done

Spec == Init /\ [][Next]_vars
-----------------------------------------------------------------------------
(* Properties *)

\* The type invariant.
TypeOK ==
    /\ pod \in Pods
    /\ rest \in Seq(Controls)
    /\ index \in 0..MAX_N
    /\ result \in [1..MAX_N -> message \cup {NoMessage}]
    /\ outcome \in {"running", "messages", "pod_not_a_sequence", "too_many_messages",
                    "crashed"}

\* MIDI 2.0 channel voice messages by their opcode, the status's high nibble.
Opcode == [o \in {8, 9, 11} |-> CASE o = 8  -> "note_off"
                                    [] o = 9  -> "note_on"
                                    [] o = 11 -> "control_change"]

IsMessage(c) ==
    /\ c.type = "UMP" /\ c.length = 8 /\ c.word.mtype = 4
    /\ c.word.status \div 16 \in DOMAIN Opcode

\* Where the messages among the first n controls of the pod are.
Messages(n) == {k \in 1..n : IsMessage(pod.controls[k])}
Reached == Len(pod.controls) - Len(rest)

\* m is what the control c says: right kind, channel and key.
Says(m, c) ==
    /\ m # NoMessage
    /\ m.kind = Opcode[c.word.status \div 16]
    /\ m.channel + 16 * (c.word.status \div 16) = c.word.status
    /\ m.number = IF c.word.data < 128 THEN c.word.data ELSE c.word.data - 128

\* The array holds the messages reached so far, in order and without gaps, and
\* nothing else, however they are mixed with controls that are no messages.
FilledInOrder ==
    pod.kind = "sequence" =>
        \E at \in [1..index -> Messages(Reached)] :
            /\ \A i, j \in 1..index : i < j => at[i] < at[j]
            /\ \A k \in Messages(Reached) : \E i \in 1..index : at[i] = k
            /\ \A i \in 1..MAX_N :
                IF i <= index THEN Says(result[i], pod.controls[at[i]]) ELSE result[i] = NoMessage

\* A successful parse has dropped no message of the pod.
ReturnsEveryMessage ==
    outcome = "messages" /\ pod.kind = "sequence" =>
        index = Cardinality(Messages(Len(pod.controls)))

\* "An error to indicate that the pod contains more midi messages than
\* expected": a pod with at most MAX_N messages is not refused as too many.
TooManyMeansTooMany ==
    outcome = "too_many_messages" => Cardinality(Messages(Len(pod.controls))) > MAX_N

\* The buffer test: a control change sent as a three-byte SPA_CONTROL_Midi is
\* among the messages returned, with its channel and controller number.
MidiControlIsParsed ==
    outcome = "messages" /\ pod.kind = "sequence" =>
        \A c \in {pod.controls[k] : k \in DOMAIN pod.controls} :
            c.type = "Midi" /\ c.length = 3 /\ c.word.status \in Ranges.control_change =>
                \E i \in 1..MAX_N :
                    /\ result[i] # NoMessage
                    /\ result[i].channel = c.word.status % 16
                    /\ result[i].number = c.word.data
=============================================================================
