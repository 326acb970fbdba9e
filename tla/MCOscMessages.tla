----------------------------- MODULE MCOscMessages -----------------------------
(* One input port with two buffers, one of which has no data blocks, and one output
   port with one; pods with every kind of content, a bundle with elements that fit,
   that do not, and of negative size, messages that are whole or cut short, and
   bytes without a NUL. *)
EXTENDS OscMessages, TLC

CONSTANTS in1, in2, out1

Bundle28 == [length |-> 28, nul |-> TRUE, bundle |-> TRUE, tags |-> <<>>, ends |-> <<>>]

\* A message with arrays inside each other; one that lacks the end of its last
\* argument and a closing bracket.
Nested == [length |-> 40, nul |-> TRUE, bundle |-> FALSE,
           tags |-> <<"i", "[", "s", "[", "f", "]", "]", "b">>,
           ends |-> <<4, 4, 12, 12, 16, 16, 16, 24>>]
Cut == [length |-> 24, nul |-> TRUE, bundle |-> FALSE,
        tags |-> <<"[", "s", "T", "b">>, ends |-> <<0, 8, 8, 16>>]
Bare == [length |-> 4, nul |-> FALSE, bundle |-> FALSE, tags |-> <<>>, ends |-> <<>>]

Osc(p) == [type |-> "OSC", packet |-> p]
Ump == [type |-> "other", packet |-> NULL]
SequencePod(cs) == [kind |-> "sequence", controls |-> cs]

MCPortOf == (in1 :> "in") @@ (in2 :> "in") @@ (out1 :> "out")
MCDatas  == (in1 :> 1) @@ (in2 :> 0) @@ (out1 :> 1)

MCPods ==
    {[kind |-> "other"], SequencePod(<<>>),
     SequencePod(<<Osc(Nested), Ump, Osc(Bundle28)>>),
     SequencePod(<<Osc(Bare), Osc(NULL)>>),
     SequencePod(<<Osc(NULL), Osc(Nested)>>),
     SequencePod(<<Osc(Nested), Osc(Cut)>>)}

MCSizes == {-4, 0, 4, 6, 8}
=============================================================================
