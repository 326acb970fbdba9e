------------------------------ MODULE OscWriter ------------------------------
(***************************************************************************)
(* OSCPP::Client::Packet: a packet under construction in a buffer.  The    *)
(* buffer is counted in words of four bytes, the unit everything but a     *)
(* type tag is aligned to.  The size of a bundle is written when the       *)
(* bundle is closed; until then its size field holds the position of the   *)
(* size field of the bundle around it, so that the open bundles form a     *)
(* linked list inside the buffer.  Every write can overflow and throw,     *)
(* with whatever the call did before the throw left in place.              *)
(***************************************************************************)
EXTENDS Integers, Sequences

CONSTANTS
    Capacities,     \* The sizes a buffer may have, in words
    Texts,          \* Addresses and string arguments
    WordsOf,        \* How many words a text takes, its terminator included
    Numbers,        \* Values of int32 and float32 arguments
    BlobSizes,      \* Sizes of blob arguments, in bytes
    Times,          \* Time tags of bundles
    Counts,         \* What openMessage may be told for numTags
    MaxCalls,       \* Bound: the calls that build a packet
    None            \* nullptr

ASSUME CapacitiesAssumption == Capacities \subseteq Nat
ASSUME WordsAssumption == WordsOf \in [Texts -> Nat \ {0}]
ASSUME CountsAssumption == Counts \subseteq Nat
ASSUME BlobsAssumption == BlobSizes \subseteq Nat
ASSUME MaxCallsAssumption == MaxCalls \in Nat
ASSUME NoneAssumption == None \notin Nat

VARIABLES
    cap,        \* m_capacity, in words
    mem,        \* The buffer: its words by their position
    pos,        \* m_args: the position of the next word
    tags,       \* m_tags: the word its area starts at, its length and position in bytes
    sizePosM,   \* m_sizePosM, m_sizePosB: positions of size fields
    sizePosB,
    inBundle,   \* m_inBundle
    bundles,    \* The bundles the program has opened (a call that throws opens nothing)
    inMessage,  \* The program has a message open
    threw,      \* A call has thrown: the program only closes what it has open
    miscounted, \* A message has more or fewer arguments than announced
    chain,      \* The positions that the list in the buffer stands for
    log         \* The calls that have succeeded

packet  == <<cap, mem, pos, tags, sizePosM, sizePosB, inBundle>>
program == <<bundles, inMessage, threw, miscounted, chain, log>>
vars    == <<packet, program>>

\* An unwritten word, and what an earlier packet left in a reused buffer.
Raw     == <<"raw">>
NoChars == <<"", "", "", "">>
NoTags  == [at |-> 0, size |-> 0, len |-> 0]

\* align(n), in words.
WordsFor(n) == (n + 3) \div 4

StringWords(t) == [i \in 1..WordsOf[t] |-> <<"string", t, i>>]
BundleWords(time) == <<<<"#bundle", 1>>, <<"#bundle", 2>>, <<"time", time, 1>>, <<"time", time, 2>>>>

\* The area openMessage zeroes for n bytes of type tags, with the comma in it.
TagWords(n) == [i \in 1..WordsFor(n) |->
                    <<"tags", IF i = 1 THEN [NoChars EXCEPT ![1] = ","] ELSE NoChars>>]

\* An argument: its tag, its words, and where writing the words may stop.
Int32(v)   == [tag |-> "i", words |-> <<<<"int32", v>>>>, cuts |-> {0}]
Float32(v) == [tag |-> "f", words |-> <<<<"float32", v>>>>, cuts |-> {0}]
String(t)  == [tag |-> "s", words |-> StringWords(t), cuts |-> {0}]
Blob(n)    == [tag |-> "b", cuts |-> {0, 1},
               words |-> <<<<"int32", n>>>> \o [i \in 1..WordsFor(n) |-> <<"data", n, i>>]]
Bracket(c) == [tag |-> c, words |-> <<>>, cuts |-> {0}]

Arguments ==
    {Int32(v) : v \in Numbers} \cup {Float32(v) : v \in Numbers}
        \cup {String(t) : t \in Texts} \cup {Blob(n) : n \in BlobSizes}
        \cup {Bracket("["), Bracket("]")}

Init ==
    /\ cap \in Capacities
    /\ mem = [i \in 0..(cap - 1) |-> Raw]
    /\ pos = 0
    /\ tags = NoTags
    /\ sizePosM = None
    /\ sizePosB = None
    /\ inBundle = 0
    /\ bundles = 0
    /\ inMessage = FALSE
    /\ threw = FALSE
    /\ miscounted = FALSE
    /\ chain = <<>>
    /\ log = <<>>

-----------------------------------------------------------------------------
(* Writing *)

\* Mutant of Fitting: nothing checks that the buffer has room.
FittingUnchecked(n, cuts, p) == n

\* How many of n words are written from position p when the writes in between
\* end at the cuts: each write fits or throws.
Fitting(n, cuts, p) ==
    CHOOSE k \in cuts \cup {n} :
        /\ p + k <= cap
        /\ \A j \in cuts \cup {n} : p + j <= cap => j <= k

Overwrite(m, p, words) ==
    [i \in DOMAIN m |->
        IF i >= p /\ i < p + Len(words) THEN words[i - p + 1] ELSE m[i]]

\* A call that throws.
Throw ==
    /\ threw' = TRUE
    /\ UNCHANGED <<bundles, inMessage, miscounted, log>>

\* The program goes on writing.
MayWrite == ~threw /\ Len(log) < MaxCalls

\* Mutant of CalcSize: the size field is counted twice.
CalcSizeTwice(from, to) == 4 * (to - from) - 8

\* calcSize: the bytes between a size field and a position behind it.
CalcSize(from, to) == 4 * (to - from) - 4

\* Mutant of OuterOffset: the list ends with every second bundle.
OuterOffsetReset == IF sizePosB = None \/ Len(chain) % 2 = 1 THEN 0 ELSE sizePosB

\* What openBundle leaves in the size field.
OuterOffset == IF sizePosB = None THEN 0 ELSE sizePosB

\* A bundle inside a bundle is preceded by its size field.  Depth and size
\* position have changed when a header that does not fit throws.
OpenBundle(time) ==
    /\ MayWrite /\ ~inMessage
    /\ LET nested == inBundle > 0
           start  == IF nested THEN pos + 1 ELSE pos
           n      == Fitting(4, {0, 2}, start)
           field  == IF nested THEN <<<<"offset", OuterOffset>>>> ELSE <<>>
       IN
       \/ /\ (IF nested THEN start > cap ELSE pos > 0)
          /\ Throw
          /\ UNCHANGED <<packet, chain>>
       \/ /\ (IF nested THEN start <= cap ELSE pos = 0)
          /\ mem' = Overwrite(mem, pos, field \o SubSeq(BundleWords(time), 1, n))
          /\ pos' = start + n
          /\ sizePosB' = IF nested THEN pos ELSE sizePosB
          /\ inBundle' = inBundle + 1
          /\ chain' = IF nested THEN Append(chain, pos) ELSE chain
          /\ UNCHANGED <<cap, tags, sizePosM>>
          /\ IF n = 4
             THEN /\ bundles' = bundles + 1
                  /\ log' = Append(log, <<"bundle", time>>)
                  /\ UNCHANGED <<inMessage, threw, miscounted>>
             ELSE Throw

\* The size replaces the position of the bundle around this one.
CloseBundle ==
    /\ ~inMessage
    /\ \/ /\ inBundle = 0
          /\ Throw
          /\ UNCHANGED <<packet, chain>>
       \/ /\ inBundle > 0
          /\ bundles > 0
          /\ IF inBundle > 1
             THEN /\ mem' = Overwrite(mem, sizePosB, <<<<"int32", CalcSize(sizePosB, pos)>>>>)
                  /\ sizePosB' = mem[sizePosB][2]
                  /\ chain' = SubSeq(chain, 1, Len(chain) - 1)
             ELSE UNCHANGED <<mem, sizePosB, chain>>
          /\ inBundle' = inBundle - 1
          /\ bundles' = bundles - 1
          /\ log' = Append(log, <<"end">>)
          /\ UNCHANGED <<cap, pos, tags, sizePosM, inMessage, threw, miscounted>>

\* sigLen: the comma, a tag for each argument, and the terminator.
TagBytes(n) == n + 2

\* One packet to a buffer: a message that is not in a bundle is the only one.
OpenMessage(addr, n) ==
    /\ MayWrite /\ ~inMessage
    /\ bundles = 0 => log = <<>>
    /\ LET nested == inBundle > 0
           start  == IF nested THEN pos + 1 ELSE pos
           head   == StringWords(addr) \o TagWords(TagBytes(n))
           k      == Fitting(Len(head), {0, WordsOf[addr]}, start)
       IN
       /\ sizePosM' = IF nested THEN pos ELSE sizePosM
       /\ UNCHANGED <<cap, sizePosB, inBundle, chain>>
       /\ \/ /\ start > cap
             /\ Throw
             /\ UNCHANGED <<mem, pos, tags>>
          \/ /\ start <= cap
             /\ mem' = Overwrite(mem, start, SubSeq(head, 1, k))
             /\ pos' = start + k
             /\ IF k = Len(head)
                THEN /\ tags' = [at |-> start + WordsOf[addr], size |-> TagBytes(n), len |-> 1]
                     /\ inMessage' = TRUE
                     /\ log' = Append(log, <<"message", addr, n>>)
                     /\ UNCHANGED <<bundles, threw, miscounted>>
                ELSE /\ Throw
                     /\ UNCHANGED tags

\* Mutant of CloseMessage: the size is left out.
CloseMessageUnsized ==
    /\ inMessage
    /\ inMessage' = FALSE
    /\ miscounted' = (miscounted \/ tags.len # tags.size - 1)
    /\ log' = Append(log, <<"close">>)
    /\ tags' = IF inBundle > 0 THEN NoTags ELSE tags
    /\ UNCHANGED <<cap, mem, pos, sizePosM, sizePosB, inBundle, bundles, threw, chain>>

CloseMessage ==
    /\ inMessage
    /\ inMessage' = FALSE
    /\ miscounted' = (miscounted \/ tags.len # tags.size - 1)
    /\ log' = Append(log, <<"close">>)
    /\ IF inBundle > 0
       THEN /\ mem' = Overwrite(mem, sizePosM, <<<<"int32", CalcSize(sizePosM, pos)>>>>)
            /\ tags' = NoTags
       ELSE UNCHANGED <<mem, tags>>
    /\ UNCHANGED <<cap, pos, sizePosM, sizePosB, inBundle, bundles, threw, chain>>

\* The buffer with the next type tag in its word.
TagPut(c) ==
    LET w == tags.at + (tags.len \div 4)
    IN  Overwrite(mem, w, <<<<"tags", [mem[w][2] EXCEPT ![(tags.len % 4) + 1] = c]>>>>)

\* int32, float32, string, blob, openArray, closeArray: the tag, then the value.
\* The tag stays when the value does not fit.
Put(a) ==
    /\ MayWrite /\ inMessage
    /\ UNCHANGED <<cap, sizePosM, sizePosB, inBundle, chain>>
    /\ \/ /\ tags.len >= tags.size
          /\ Throw
          /\ UNCHANGED <<mem, pos, tags>>
       \/ LET n == Fitting(Len(a.words), a.cuts, pos) IN
          /\ tags.len < tags.size
          /\ mem' = Overwrite(TagPut(a.tag), pos, SubSeq(a.words, 1, n))
          /\ pos' = pos + n
          /\ tags' = [tags EXCEPT !.len = tags.len + 1]
          /\ IF n = Len(a.words)
             THEN /\ log' = Append(log, <<a.tag, a.words>>)
                  /\ UNCHANGED <<bundles, inMessage, threw, miscounted>>
             ELSE Throw

\* reset(), and reset with another buffer: another packet.  The tag stream stays, also
\* when the buffer it looks into does not.
Reset ==
    /\ cap' \in Capacities
    /\ mem' = [i \in 0..(cap' - 1) |-> Raw]
    /\ pos' = 0
    /\ sizePosM' = None
    /\ sizePosB' = None
    /\ inBundle' = 0
    /\ bundles' = 0
    /\ inMessage' = FALSE
    /\ threw' = FALSE
    /\ miscounted' = FALSE
    /\ chain' = <<>>
    /\ log' = <<>>
    /\ UNCHANGED tags

Next ==
    \/ \E time \in Times : OpenBundle(time)
    \/ CloseBundle
    \/ \E addr \in Texts, n \in Counts : OpenMessage(addr, n)
    \/ CloseMessage
    \/ \E a \in Arguments : Put(a)
    \/ Reset

Spec == Init /\ [][Next]_vars
-----------------------------------------------------------------------------
(* Properties *)

\* The type invariant.
TypeOK ==
    /\ cap \in Nat /\ DOMAIN mem = 0..(cap - 1)
    /\ pos \in 0..cap
    /\ tags.at \in Nat /\ tags.size \in Nat /\ tags.len \in 0..tags.size
    /\ sizePosM \in 0..cap \cup {None}
    /\ sizePosB \in 0..cap \cup {None}
    /\ inBundle \in Nat /\ bundles \in 0..inBundle
    /\ inMessage \in BOOLEAN /\ threw \in BOOLEAN /\ miscounted \in BOOLEAN

\* The list in the buffer is the stack of the open bundles: following it from
\* m_sizePosB visits their size fields from the innermost to the outermost,
\* whatever was written, closed or refused in between.  As long as nothing has
\* thrown, they are the bundles the program has open.
ListIsStack ==
    /\ Len(chain) = IF inBundle = 0 THEN 0 ELSE inBundle - 1
    /\ chain # <<>> => sizePosB = chain[Len(chain)]
    /\ \A i \in 1..Len(chain) :
        mem[chain[i]] = <<"offset", IF i = 1 THEN 0 ELSE chain[i - 1]>>
    /\ ~threw => inBundle = bundles

\* The assertion of closeBundle: the size of the bundle that is closed is at
\* least that of an empty bundle.
SizeAssertion ==
    ~inMessage /\ bundles > 0 /\ inBundle > 1 => CalcSize(sizePosB, pos) >= 16

\* It holds as long as nothing has thrown.
SizeAssertionUntilThrow == ~threw => SizeAssertion
=============================================================================
