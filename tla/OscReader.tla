------------------------------ MODULE OscReader ------------------------------
(***************************************************************************)
(* OSCPP::Server on what OscWriter has written.  Printing a packet walks   *)
(* all of it: the stack of its streams (PacketStream, ArgStream) is the    *)
(* stack of the calls of print.hpp, and what it comes upon is put down in  *)
(* the form in which OscWriter logs its calls.                             *)
(***************************************************************************)
EXTENDS OscLayout

ASSUME DroppingAssumption == None \notin [level : Nat, at : Nat, tag : Nat]

VARIABLES
    reader,     \* "idle", "reading", or "failed" when something has thrown
    streams,    \* What is left of each stream: words at..end, tags in bytes tag..stop
    dropping,   \* Inside dropArray: its level, and where the array begins; or None
    seen        \* What has been read

readerVars == <<reader, streams, dropping, seen>>

ReaderInit ==
    /\ Init
    /\ reader = "idle"
    /\ streams = <<>>
    /\ dropping = None
    /\ seen = <<>>

Top        == streams[Len(streams)]
Below      == SubSeq(streams, 1, Len(streams) - 1)
Replace(s) == Append(Below, s)

\* ReadStream and the functions of ArgStream throw.
Fail == reader' = "failed" /\ UNCHANGED <<streams, dropping, seen>>

\* The last byte of a word is zero.
Ends(w) ==
    \/ w[1] = "string" /\ w[3] = WordsOf[w[2]]
    \/ w[1] = "tags" /\ w[2][4] = ""
    \/ w[1] = "int32" /\ w[2] % 256 = 0

\* getString: the position behind the string at p, or None.
StringEnd(p, end) ==
    LET stops == {q \in p..(end - 1) : Ends(mem[q])}
    IN  IF stops = {} THEN None
        ELSE 1 + CHOOSE q \in stops : \A r \in stops : q <= r

\* A byte of the tags.
Tag(b) == IF mem[b \div 4][1] = "tags" THEN mem[b \div 4][2][(b % 4) + 1] ELSE ""

\* strlen, of the string from one byte to another.
TagsEnd(from, to) ==
    CHOOSE b \in from..to : Tag(b) = "" /\ \A c \in from..(b - 1) : Tag(c) # ""

\* int32, float32, string, blob and dropAtom: the position behind the argument
\* of type t at p, or None.  What is no argument takes no room.
ArgEnd(t, p, end) ==
    LET q == CASE t \in {"i", "f"} -> p + 1
               [] t = "s" -> StringEnd(p, end)
               [] t = "b" -> IF p < end /\ mem[p][1] = "int32" /\ mem[p][2] >= 0
                             THEN p + 1 + WordsFor(mem[p][2]) ELSE None
               [] OTHER -> p
    IN  IF q # None /\ q <= end THEN q ELSE None

\* A packet is a bundle when it has 16 bytes and starts with "#bundle".
IsBundle(p, end) ==
    /\ end - p >= 4
    /\ mem[p] = <<"#bundle", 1>> /\ mem[p + 1] = <<"#bundle", 2>>

\* Packet's conversions to a bundle and to a message, in the streams below.
Enter(below, p, end) ==
    LET addr == StringEnd(p, end)
        args == IF addr = None THEN None ELSE StringEnd(addr, end)
    IN
    /\ UNCHANGED dropping
    /\ IF IsBundle(p, end)
       THEN /\ streams' = Append(below, [kind |-> "bundle", at |-> p + 4, end |-> end,
                                         tag |-> 0, stop |-> 0])
            /\ seen' = Append(seen, <<"bundle", mem[p + 2][2]>>)
            /\ reader' = "reading"
       ELSE IF args = None \/ mem[p][1] # "string" \/ Tag(4 * addr) # ","
       THEN reader' = "failed" /\ UNCHANGED <<streams, seen>>
       ELSE /\ streams' = Append(below, [kind |-> "message", at |-> args, end |-> end,
                                         tag  |-> 4 * addr + 1,
                                         stop |-> TagsEnd(4 * addr, 4 * args - 1)])
            /\ seen' = Append(seen, <<"message", mem[p][2]>>)
            /\ reader' = "reading"

\* printPacket, of a packet that has been closed.
PrintPacket ==
    /\ reader = "idle"
    /\ ~threw /\ ~inMessage /\ bundles = 0 /\ log # <<>>
    /\ Enter(<<>>, 0, pos)

\* printBundle: the size of the next packet, and the packet within it.
NextPacket ==
    /\ reader = "reading" /\ streams # <<>> /\ Top.kind = "bundle"
    /\ Top.at < Top.end
    /\ LET p == Top.at + 1
           q == p + mem[Top.at][2] \div 4
       IN  IF mem[Top.at][1] # "int32" \/ mem[Top.at][2] < 0 \/ q > Top.end THEN Fail
           ELSE Enter(Replace([Top EXCEPT !.at = q]), p, q)

\* printArgs has tags left, and is not inside dropArray.
AtArgument ==
    /\ reader = "reading" /\ streams # <<>> /\ dropping = None
    /\ Top.kind # "bundle" /\ Top.tag < Top.stop

\* The accessor the tag asks for, or drop.
ReadArgument ==
    /\ AtArgument /\ Tag(Top.tag) # "["
    /\ LET t == Tag(Top.tag)
           q == ArgEnd(t, Top.at, Top.end)
       IN  IF q = None THEN Fail
           ELSE /\ streams' = Replace([Top EXCEPT !.at = q, !.tag = @ + 1])
                /\ seen' = Append(seen, <<t, [k \in 1..(q - Top.at) |-> mem[Top.at + k - 1]]>>)
                /\ UNCHANGED <<reader, dropping>>

\* array() takes the bracket and goes on to dropArray.
ReadArray ==
    /\ AtArgument /\ Tag(Top.tag) = "["
    /\ streams' = Replace([Top EXCEPT !.tag = @ + 1])
    /\ dropping' = [level |-> 0, at |-> Top.at, tag |-> Top.tag + 1]
    /\ UNCHANGED <<reader, seen>>

\* dropArray looks at one tag.  Behind the bracket that closes the array, what was
\* dropped becomes a stream of its own.
DropTag ==
    /\ reader = "reading" /\ dropping # None
    /\ LET t    == Tag(Top.tag)
           q    == ArgEnd(t, Top.at, Top.end)
           next == Replace([Top EXCEPT !.at = q, !.tag = @ + 1])
       IN  IF Top.tag = Top.stop \/ q = None THEN Fail
           ELSE /\ UNCHANGED reader
                /\ IF t = "]" /\ dropping.level = 0
                   THEN /\ streams' = Append(next, [kind |-> "array",
                                at |-> dropping.at, end |-> q,
                                tag |-> dropping.tag, stop |-> Top.tag])
                        /\ dropping' = None
                        /\ seen' = Append(seen, <<"[", <<>>>>)
                   ELSE /\ streams' = next
                        /\ dropping' = [dropping EXCEPT !.level =
                                CASE t = "[" -> @ + 1 [] t = "]" -> @ - 1 [] OTHER -> @]
                        /\ UNCHANGED seen

\* A stream is at its end: printBundle or printArgs returns.
LeaveStream ==
    /\ reader = "reading" /\ streams # <<>> /\ dropping = None
    /\ IF Top.kind = "bundle" THEN Top.at = Top.end ELSE Top.tag = Top.stop
    /\ streams' = Below
    /\ seen' = Append(seen, CASE Top.kind = "bundle"  -> <<"end">>
                              [] Top.kind = "message" -> <<"close">>
                              [] Top.kind = "array"   -> <<"]", <<>>>>)
    /\ UNCHANGED <<reader, dropping>>

\* Printing returns, or throws.
PrintEnds ==
    /\ reader = "failed" \/ (reader = "reading" /\ streams = <<>>)
    /\ reader' = "idle"
    /\ streams' = <<>>
    /\ dropping' = None
    /\ seen' = <<>>

Read == PrintPacket \/ NextPacket \/ ReadArgument \/ ReadArray \/ DropTag \/ LeaveStream
            \/ PrintEnds

ReaderNext ==
    \/ reader = "idle" /\ Next /\ UNCHANGED readerVars
    \/ Read /\ UNCHANGED vars

ReaderSpec == ReaderInit /\ [][ReaderNext]_<<vars, readerVars>>

-----------------------------------------------------------------------------
(* Properties *)

\* A call without the count of openMessage, which a reader cannot tell.
Written(call) == IF call[1] = "message" THEN <<"message", call[2]>> ELSE call

\* Bracket[i] is the number of arrays that the first i calls leave open.
Brackets == Sums([i \in DOMAIN log |->
                     CASE log[i][1] = "[" -> 1 [] log[i][1] = "]" -> -1 [] OTHER -> 0])

\* Every array of a message is closed in it: closeArray does not check.
ArraysNested ==
    \A i \in DOMAIN log :
        /\ Brackets[i] >= 0
        /\ ~IsArgument(log[i]) => Brackets[i] = 0

\* What was written is what is read: a packet whose arrays are closed and whose
\* messages have as many arguments as announced, with bundles and messages nested
\* in any way, is read back as the calls that built it, and nothing throws.
RoundTrip ==
    ~miscounted /\ ArraysNested =>
        /\ reader # "failed"
        /\ Len(seen) <= Len(log)
        /\ \A i \in DOMAIN seen : seen[i] = Written(log[i])
        /\ reader = "reading" /\ streams = <<>> => Len(seen) = Len(log)
=============================================================================
