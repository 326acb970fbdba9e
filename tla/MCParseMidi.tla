----------------------------- MODULE MCParseMidi -----------------------------
(* parse_midi<2> on every sequence of up to three controls of seven kinds, and
   on single controls with every status byte. *)
EXTENDS ParseMidi

W(m, s, d) == [mtype |-> m, status |-> s, data |-> d, high |-> 1, low |-> 7]
C(t, l, w) == [type |-> t, length |-> l, word |-> w]

MCControls ==
    {C("UMP", 8, W(4, 178, 3)),   C("UMP", 8, W(4, 159, 200)), C("UMP", 8, W(4, 128, 60)),
     C("UMP", 8, W(4, 192, 3)),   C("UMP", 8, W(3, 178, 3)),   C("UMP", 4, W(4, 178, 3)),
     C("OSC", 8, W(4, 178, 3))}

\* Sequences, and the sweep over message types, status and data bytes.
MCSequences ==
    UNION {[1..n -> MCControls] : n \in 0..3}
        \cup {<<C("UMP", 8, W(m, s, d))>> : m \in {3, 4, 5}, s \in 0..255, d \in {127, 128}}

MCPods == {Empty, Null, NotASeq} \cup {SequencePod(cs) : cs \in MCSequences}

\* The pod of the buffer test: one SPA_CONTROL_Midi control of three bytes,
\* 0b10110010 3 7.
TestPods == {SequencePod(<<C("Midi", 3, W(11, 178, 3))>>)}
=============================================================================
