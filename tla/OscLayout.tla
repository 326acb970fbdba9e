------------------------------ MODULE OscLayout ------------------------------
(***************************************************************************)
(* Where the calls of OscWriter leave what they write: the format of a     *)
(* packet, told from the calls alone, and the sizes that a program adds up *)
(* beforehand with OSCPP::Size to choose its buffer.                       *)
(***************************************************************************)
EXTENDS OscWriter

\* The sums of the first elements of a sequence of numbers.
Sums(f) == LET s[i \in 0..Len(f)] == IF i = 0 THEN 0 ELSE s[i - 1] + f[i] IN s

Opens(call)      == call[1] \in {"bundle", "message"}
Closes(call)     == call[1] \in {"end", "close"}
IsArgument(call) == call[1] \in {"i", "f", "s", "b", "[", "]"}

\* Mutant of SizeOf: a blob without its size.
SizeOfBareBlob(call) ==
    CASE call[1] = "bundle"  -> 4
      [] call[1] = "message" -> WordsOf[call[2]] + WordsFor(call[3] + 2)
      [] call[1] \in {"i", "f"} -> 1
      [] call[1] = "s" -> WordsOf[call[2][1][2]]
      [] call[1] = "b" -> WordsFor(call[2][1][2])
      [] OTHER -> 0

\* Size::bundle and Size::message without the prefixes of their elements, and
\* Size::int32, float32, string and blob, in words.
SizeOf(call) ==
    CASE call[1] = "bundle"  -> 4
      [] call[1] = "message" -> WordsOf[call[2]] + WordsFor(call[3] + 2)
      [] call[1] \in {"i", "f"} -> 1
      [] call[1] = "s" -> WordsOf[call[2][1][2]]
      [] call[1] = "b" -> 1 + WordsFor(call[2][1][2])
      [] OTHER -> 0

\* Size::bundle counts a word for each of its elements: every packet but the
\* outermost is one.
Prefix(i) == IF Opens(log[i]) /\ i > 1 THEN 1 ELSE 0

\* Predicted[i] is the size of the first i calls, and where the next one starts.
Predicted == Sums([i \in DOMAIN log |-> Prefix(i) + SizeOf(log[i])])

\* Depth[i] is the number of packets that the first i calls leave open.
Depth == Sums([i \in DOMAIN log |->
                  IF Opens(log[i]) THEN 1 ELSE IF Closes(log[i]) THEN -1 ELSE 0])

\* Call j closes the packet that call i opens.
Encloses(i, j) ==
    /\ i < j
    /\ Depth[j] = Depth[i - 1]
    /\ \A k \in i..(j - 1) : Depth[k] > Depth[i - 1]

\* The word behind the size field of a packet.
Start(i) == Predicted[i - 1] + Prefix(i)

Holds(p, words) == \A k \in 1..Len(words) : mem[p + k - 1] = words[k]

\* Byte b of the type tags of message i: the comma, the tags of its arguments
\* so far, and zeros.
TagByte(i, b) ==
    IF b = 0 THEN ","
    ELSE IF i + b \in DOMAIN log /\ \A k \in (i + 1)..(i + b) : IsArgument(log[k])
         THEN log[i + b][1]
         ELSE ""

HoldsTags(p, i) ==
    \A k \in 0..(WordsFor(TagBytes(log[i][3])) - 1) :
        mem[p + k] = <<"tags", [c \in 1..4 |-> TagByte(i, 4 * k + c - 1)]>>

\* What call i has written is there.
Intact(i) ==
    /\ log[i][1] = "bundle"  => Holds(Start(i), BundleWords(log[i][2]))
    /\ log[i][1] = "message" => /\ Holds(Start(i), StringWords(log[i][2]))
                                /\ HoldsTags(Start(i) + WordsOf[log[i][2]], i)
    /\ IsArgument(log[i])    => Holds(Start(i), log[i][2])

-----------------------------------------------------------------------------
(* Properties *)

\* A packet takes exactly the bytes that the Size functions predict for it, at
\* every moment of its construction.
SizesPredicted == ~threw => pos = Predicted[Len(log)]

\* What the calls have written stays as they wrote it, whatever is written behind
\* it, put into its tags or filled into size fields later; and every packet that
\* has been closed inside another one is preceded by its size.
LaidOut ==
    ~threw =>
        /\ \A i \in DOMAIN log : Intact(i)
        /\ \A i \in DOMAIN log \ {1} : Opens(log[i]) =>
            \A j \in DOMAIN log : Closes(log[j]) /\ Encloses(i, j) =>
                mem[Start(i) - 1] = <<"int32", 4 * (Predicted[j] - Start(i))>>
=============================================================================
