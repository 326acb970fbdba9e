--------------------------- MODULE OscReaderProofs ---------------------------
(***************************************************************************)
(* The reader finds what the writer has written: each of its streams       *)
(* stands for a call that opened something and the call that closes it,    *)
(* and what is left of the stream for the calls in between.                *)
(***************************************************************************)
EXTENDS OscReader, OscWriterProofs

-----------------------------------------------------------------------------
(* A packet that has been closed *)

Closed == ~threw /\ ~inMessage /\ bundles = 0 /\ log # <<>>

\* What a packet that is closed has been built by.
LEMMA ClosedFacts ==
    ASSUME LayoutInv, Closed, NEW N, N = Len(log)
    PROVE  /\ N \in Nat /\ N >= 1 /\ log \in Seq(Calls) /\ DOMAIN log = 1..N
           /\ \A i \in 1..N : log[i] \in Calls /\ Intact(i)
           /\ pos = Predicted[N] /\ Opens(log[1]) /\ ~Inside(log[N])
           /\ \A i \in 1..N :
                (IsArgument(log[i]) \/ log[i][1] = "close") <=> (i > 1 /\ Inside(log[i - 1]))
           /\ \A i \in 0..N : Predicted[i] \in Nat /\ Depth[i] \in Nat
           /\ Depth[0] = 0 /\ Depth[N] = 0 /\ Predicted[0] = 0
<1>1. /\ N \in Nat /\ log \in Seq(Calls) /\ DOMAIN log = 1..N
      /\ Depth[N] = bundles + (IF inMessage THEN 1 ELSE 0)
      /\ ~threw => pos = Predicted[N]
      /\ N > 0 => Opens(log[1])
  BY LayoutFacts
<1>2. N >= 1
  BY <1>1, EmptySeq DEF Closed
<1>3. /\ \A i \in 1..N : log[i] \in Calls
      /\ Predicted[0] = 0 /\ Depth[0] = 0
      /\ \A i \in 0..N : Predicted[i] \in Nat /\ Depth[i] \in Int
  BY <1>1, Places
<1>4. Depth[N] = 0
  BY <1>1 DEF Closed
<1>5. \A i \in 1..(N - 1) : Depth[i] >= 1
  BY DEF LayoutInv, DepthInv
<1>6. \A i \in 0..N : Depth[i] \in Nat
  <2> SUFFICES ASSUME NEW i \in 0..N PROVE Depth[i] \in Nat
    OBVIOUS
  <2>1. i = 0 \/ i = N \/ i \in 1..(N - 1)
    BY <1>1
  <2> QED BY <1>3, <1>4, <1>5, <2>1
<1>7. \A i \in 1..N : Intact(i)
  BY <1>1 DEF LayoutInv, LaidOut, Closed
<1>8. /\ ~Inside(log[N])
      /\ \A i \in 1..N :
           (IsArgument(log[i]) \/ log[i][1] = "close") <=> (i > 1 /\ Inside(log[i - 1]))
  BY <1>1 DEF LayoutInv, GrammarInv, Closed
<1> QED BY <1>1, <1>2, <1>3, <1>4, <1>6, <1>7, <1>8 DEF Closed

\* Arguments leave the depth as it is.
LEMMA ArgumentsAreFlat ==
    ASSUME log \in Seq(Calls), NEW N, N = Len(log), NEW a \in 0..N, NEW b \in a..N,
           \A k \in (a + 1)..b : IsArgument(log[k])
    PROVE  Depth[b] = Depth[a]
<1>1. N \in Nat /\ DOMAIN log = 1..N /\ Levels(log) \in Seq(Int) /\ Len(Levels(log)) = N
  BY RoomsLevels
<1>2. ASSUME NEW i \in (a + 1)..b PROVE Levels(log)[i] = 0
  <2>1. i \in 1..N /\ IsArgument(log[i])
    BY <1>1
  <2> QED BY <1>1, <2>1 DEF Levels, IsArgument, Opens, Closes
<1>3. a \in Nat /\ b \in Nat /\ a <= b /\ b <= Len(Levels(log))
  BY <1>1
<1>4. Sums(Levels(log))[a] = Sums(Levels(log))[b]
  BY <1>1, <1>2, <1>3, SumsFlat
<1> QED BY <1>4, PredictedIsSums

\* Behind the arguments of a message its end follows.
LEMMA MessageCloses ==
    ASSUME LayoutInv, Closed, NEW N, N = Len(log),
           NEW i \in 1..N, log[i][1] = "message"
    PROVE  \E e \in (i + 1)..N : /\ log[e] = <<"close">>
                                 /\ \A k \in (i + 1)..(e - 1) : IsArgument(log[k])
<1> DEFINE S == {k \in (i + 1)..N : ~IsArgument(log[k])}
<1>1. /\ N \in Nat /\ N >= 1 /\ ~Inside(log[N])
      /\ \A k \in 1..N : log[k] \in Calls
      /\ \A k \in 1..N :
            (IsArgument(log[k]) \/ log[k][1] = "close") <=> (k > 1 /\ Inside(log[k - 1]))
  BY ClosedFacts
<1>2. i # N
  BY <1>1 DEF Inside
<1>3. N \in S
  BY <1>1, <1>2 DEF Inside
<1>4. PICK e \in S : \A k \in S : e <= k
  <2>1. S \subseteq Nat /\ S # {}
    BY <1>1, <1>3
  <2> HIDE DEF S
  <2> QED BY <2>1, LeastNatural
<1>5. \A k \in (i + 1)..(e - 1) : IsArgument(log[k])
  BY <1>1, <1>4
<1>6. Inside(log[e - 1])
  <2>1. e - 1 = i \/ e - 1 \in (i + 1)..(e - 1)
    BY <1>1
  <2> QED BY <1>5, <2>1 DEF Inside
<1>7. e \in 1..N /\ e > 1 /\ e \in (i + 1)..N
  BY <1>1
<1>8. log[e][1] = "close"
  BY <1>1, <1>4, <1>6, <1>7
<1>9. log[e] = <<"close">>
  BY <1>1, <1>7, <1>8, CallProperties
<1> QED BY <1>5, <1>7, <1>9

\* And the end of a message follows its arguments.
LEMMA CloseHasMessage ==
    ASSUME LayoutInv, Closed, NEW N, N = Len(log),
           NEW e \in 1..N, log[e][1] = "close"
    PROVE  \E i \in 1..(e - 1) : /\ log[i][1] = "message"
                                 /\ \A k \in (i + 1)..(e - 1) : IsArgument(log[k])
<1> DEFINE S == {d \in 0..(e - 2) : ~IsArgument(log[e - 1 - d])}
<1>1. /\ N \in Nat /\ N >= 1 /\ Opens(log[1])
      /\ \A k \in 1..N :
            (IsArgument(log[k]) \/ log[k][1] = "close") <=> (k > 1 /\ Inside(log[k - 1]))
  BY ClosedFacts
<1>2. e > 1
  BY <1>1
<1>3. e - 2 \in S
  <2>1. e - 1 - (e - 2) = 1 /\ e - 2 \in 0..(e - 2)
    BY <1>1, <1>2
  <2> QED BY <1>1, <2>1 DEF Opens, IsArgument
<1>4. PICK d \in S : \A k \in S : d <= k
  <2>1. S \subseteq Nat
    BY <1>1
  <2> HIDE DEF S
  <2>2. S # {}
    BY <1>3
  <2> QED BY <2>1, <2>2, LeastNatural
<1> DEFINE i == e - 1 - d
<1>5. d \in 0..(e - 2) /\ ~IsArgument(log[i])
  BY <1>4
<1>6. i \in 1..(e - 1) /\ i + 1 \in 1..N /\ i + 1 > 1 /\ (i + 1) - 1 = i
  BY <1>1, <1>2, <1>5
<1>7. ASSUME NEW k \in (i + 1)..(e - 1) PROVE IsArgument(log[k])
  <2>1. e - 1 - k \in 0..(e - 2) /\ e - 1 - k < d /\ e - 1 - (e - 1 - k) = k
    BY <1>1, <1>2, <1>5
  <2> QED BY <1>4, <2>1
<1>8. IsArgument(log[i + 1]) \/ log[i + 1][1] = "close"
  <2>1. i + 1 = e \/ i + 1 \in (i + 1)..(e - 1)
    BY <1>1, <1>6
  <2> HIDE DEF i
  <2>2. CASE i + 1 = e
    BY <2>2
  <2>3. CASE i + 1 \in (i + 1)..(e - 1)
    BY <1>7, <2>3
  <2> QED BY <2>1, <2>2, <2>3
<1>9. Inside(log[i])
  BY <1>1, <1>6, <1>8
<1> QED BY <1>5, <1>6, <1>7, <1>9 DEF Inside

\* Every packet is closed: a message behind its arguments, a bundle by closeBundle.
LEMMA MessageIsEnclosed ==
    ASSUME LayoutInv, Closed, NEW N, N = Len(log),
           NEW i \in 1..N, log[i][1] = "message", NEW e \in (i + 1)..N,
           log[e][1] = "close", \A k \in (i + 1)..(e - 1) : IsArgument(log[k])
    PROVE  /\ Encloses(i, e)
           /\ \A k \in i..(e - 1) : Depth[k] = Depth[i - 1] + 1
<1>1. /\ N \in Nat /\ log \in Seq(Calls)
      /\ \A k \in 0..N : Depth[k] \in Nat
  BY ClosedFacts
<1>2. Depth[i] = Depth[i - 1] + 1 /\ Depth[e] = Depth[e - 1] - 1
  <2>1. e \in 1..N /\ Opens(log[i]) /\ Closes(log[e]) /\ ~Opens(log[e])
    BY <1>1 DEF Opens, Closes
  <2> QED BY <1>1, <2>1, Places
<1>3. ASSUME NEW k \in i..(e - 1) PROVE Depth[k] = Depth[i - 1] + 1
  <2>1. i \in 0..N /\ k \in i..N /\ \A j \in (i + 1)..k : IsArgument(log[j])
    BY <1>1
  <2>2. Depth[k] = Depth[i]
    BY <1>1, <2>1, ArgumentsAreFlat
  <2> QED BY <1>2, <2>2
<1>4. i < e /\ e - 1 \in i..(e - 1) /\ i - 1 \in 0..N
  BY <1>1
<1>5. Depth[e] = Depth[i - 1]
  BY <1>1, <1>2, <1>3, <1>4, SMTT(30)
<1>6. \A k \in i..(e - 1) : Depth[k] > Depth[i - 1]
  BY <1>1, <1>3, <1>4
<1> QED BY <1>3, <1>4, <1>5, <1>6 DEF Encloses

\* A bundle is closed by its end.
LEMMA BundleCloses ==
    ASSUME LayoutInv, Closed, NEW N, N = Len(log),
           NEW i \in 1..N, log[i][1] = "bundle"
    PROVE  \E e \in (i + 1)..N : log[e] = <<"end">> /\ Encloses(i, e)
<1> DEFINE S == {k \in (i + 1)..N : Depth[k] <= Depth[i - 1]}
<1>1. /\ N \in Nat /\ N >= 1 /\ log \in Seq(Calls) /\ \A k \in 1..N : log[k] \in Calls
      /\ \A k \in 0..N : Depth[k] \in Nat
      /\ Depth[N] = 0
  BY ClosedFacts
<1>2. \A k \in 1..N : Depth[k] =
         Depth[k - 1] + (IF Opens(log[k]) THEN 1 ELSE IF Closes(log[k]) THEN -1 ELSE 0)
  BY <1>1, Places
<1>3. i - 1 \in 0..N /\ Depth[i] = Depth[i - 1] + 1
  BY <1>1, <1>2 DEF Opens
<1>4. N \in S
  BY <1>1, <1>3
<1>5. PICK e \in S : \A k \in S : e <= k
  <2>1. S \subseteq Nat /\ S # {}
    BY <1>1, <1>4
  <2> HIDE DEF S
  <2> QED BY <2>1, LeastNatural
<1>6. e \in (i + 1)..N /\ Depth[e] <= Depth[i - 1]
  BY <1>5
<1>7. ASSUME NEW k \in i..(e - 1) PROVE Depth[k] > Depth[i - 1]
  <2>1. CASE k = i
    BY <1>1, <1>3, <2>1
  <2>2. CASE k # i
    <3>1. k \in (i + 1)..N /\ k \notin S
      BY <1>1, <1>5, <1>6, <2>2
    <3>2. ~(Depth[k] <= Depth[i - 1]) /\ k \in 0..N
      BY <1>1, <3>1
    <3> QED BY <1>1, <1>3, <3>2
  <2> QED BY <2>1, <2>2
<1>8. Closes(log[e]) /\ Depth[e] = Depth[i - 1]
  <2>1. e \in 1..N /\ e - 1 \in 0..N /\ e - 1 \in i..(e - 1)
    BY <1>1, <1>6
  <2>2. Depth[e - 1] > Depth[i - 1]
    BY <1>7, <2>1
  <2>3. Depth[e] = Depth[e - 1] + (IF Opens(log[e]) THEN 1 ELSE IF Closes(log[e]) THEN -1 ELSE 0)
    BY <1>2, <2>1
  <2>4. Depth[e] \in Nat /\ Depth[e - 1] \in Nat /\ Depth[i - 1] \in Nat
    BY <1>1, <1>3, <2>1
  <2> QED BY <1>6, <2>2, <2>3, <2>4 DEF Opens, Closes
<1>9. Encloses(i, e)
  <2>1. i < e
    BY <1>1, <1>6
  <2> QED BY <1>7, <1>8, <2>1 DEF Encloses
<1>10. log[e][1] # "close"
  <2> SUFFICES ASSUME log[e][1] = "close" PROVE FALSE
    OBVIOUS
  <2>1. e \in 1..N
    BY <1>1, <1>6
  <2>2. PICK m \in 1..(e - 1) : /\ log[m][1] = "message"
                               /\ \A k \in (m + 1)..(e - 1) : IsArgument(log[k])
    BY <2>1, CloseHasMessage
  <2>3. m \in 1..N /\ e \in (m + 1)..N /\ m # i
    BY <1>1, <1>6, <2>2
  <2>4. Encloses(m, e)
    BY <2>2, <2>3, MessageIsEnclosed
  <2>5. CASE m < i
    <3>1. i \in (m + 1)..(e - 1)
      BY <1>1, <1>6, <2>3, <2>5
    <3>2. IsArgument(log[i])
      BY <2>2, <3>1
    <3> QED BY <3>2 DEF IsArgument
  <2>6. CASE i < m
    <3>1. m - 1 \in i..(e - 1) /\ m - 1 \in 0..N
      BY <1>1, <2>2, <2>6
    <3>2. Depth[m - 1] > Depth[i - 1]
      BY <1>7, <3>1
    <3>3. Depth[m - 1] = Depth[e]
      BY <2>4 DEF Encloses
    <3>4. Depth[m - 1] \in Nat /\ Depth[i - 1] \in Nat
      BY <1>1, <1>3, <3>1
    <3> QED BY <1>8, <3>2, <3>3, <3>4
  <2> QED BY <2>3, <2>5, <2>6, <1>1
<1>11. log[e] = <<"end">>
  <2>1. log[e] \in Calls
    BY <1>1, <1>6
  <2> QED BY <1>8, <1>10, <2>1, CallProperties DEF Closes
<1> QED BY <1>6, <1>9, <1>11

\* So every packet that was opened is closed.
LEMMA PacketCloses ==
    ASSUME LayoutInv, Closed, NEW N, N = Len(log),
           NEW i \in 1..N, Opens(log[i])
    PROVE  \E e \in (i + 1)..N :
             /\ Encloses(i, e) /\ Closes(log[e])
             /\ log[i][1] = "bundle" => log[e] = <<"end">>
             /\ log[i][1] = "message" =>
                    log[e] = <<"close">> /\ \A k \in (i + 1)..(e - 1) : IsArgument(log[k])
<1>1. CASE log[i][1] = "bundle"
  <2>1. PICK e \in (i + 1)..N : log[e] = <<"end">> /\ Encloses(i, e)
    BY <1>1, BundleCloses
  <2>2. Closes(log[e]) /\ log[i][1] # "message"
    BY <1>1, <2>1 DEF Closes
  <2> QED BY <2>1, <2>2
<1>2. CASE log[i][1] = "message"
  <2>1. PICK e \in (i + 1)..N : /\ log[e] = <<"close">>
                               /\ \A k \in (i + 1)..(e - 1) : IsArgument(log[k])
    BY <1>2, MessageCloses
  <2>2. Encloses(i, e)
    BY <1>2, <2>1, MessageIsEnclosed
  <2>3. Closes(log[e]) /\ log[i][1] # "bundle"
    BY <1>2, <2>1 DEF Closes
  <2> QED BY <2>1, <2>2, <2>3
<1> QED BY <1>1, <1>2 DEF Opens

-----------------------------------------------------------------------------
(* Reading strings and tags *)

\* A string ends with the first word that ends with a zero.
LEMMA StringEndIs ==
    ASSUME NEW p \in Nat, NEW end \in Nat, NEW q \in p..(end - 1), Ends(mem[q]),
           \A r \in p..(q - 1) : ~Ends(mem[r])
    PROVE  StringEnd(p, end) = q + 1
<1> DEFINE stops == {r \in p..(end - 1) : Ends(mem[r])}
<1>1. q \in stops /\ q \in Nat
  OBVIOUS
<1>2. \A r \in stops : r \in Nat /\ q <= r
  <2> SUFFICES ASSUME NEW r \in stops PROVE r \in Nat /\ q <= r
    OBVIOUS
  <2>1. r \in p..(end - 1) /\ Ends(mem[r]) /\ r \notin p..(q - 1)
    OBVIOUS
  <2> QED BY <1>1, <2>1
<1> DEFINE c == CHOOSE x \in stops : \A r \in stops : x <= r
<1>3. c \in stops /\ \A r \in stops : c <= r
  <2> HIDE DEF stops
  <2> QED BY <1>1, <1>2
<1>4. StringEnd(p, end) = IF stops = {} THEN None ELSE 1 + c
  BY DEF StringEnd
<1> HIDE DEF stops, c
<1>5. c = q
  BY <1>1, <1>2, <1>3
<1> QED BY <1>1, <1>4, <1>5

\* The words of a text are read as a string.
LEMMA TextIsRead ==
    ASSUME NEW t \in Texts, NEW p \in Nat, Holds(p, StringWords(t)),
           NEW end \in Nat, p + WordsOf[t] <= end
    PROVE  StringEnd(p, end) = p + WordsOf[t]
<1> DEFINE W == WordsOf[t]
<1>1. W \in Nat /\ W >= 1
  BY WordsAssumption
<1>2. \A k \in 1..W : mem[p + k - 1] = <<"string", t, k>>
  <2>1. Len(StringWords(t)) = W /\ \A k \in 1..W : StringWords(t)[k] = <<"string", t, k>>
    BY <1>1 DEF StringWords
  <2> QED BY <2>1 DEF Holds
<1> HIDE DEF W
<1>3. ASSUME NEW r \in p..(p + W - 1) PROVE mem[r] = <<"string", t, r - p + 1>>
  <2>1. r - p + 1 \in 1..W /\ p + (r - p + 1) - 1 = r
    BY <1>1
  <2> QED BY <1>2, <2>1
<1> DEFINE q == p + W - 1
<1>4. q \in p..(end - 1) /\ q \in p..(p + W - 1) /\ q - p + 1 = W /\ q + 1 = p + W
  BY <1>1 DEF W
<1>5. Ends(mem[q])
  <2>1. mem[q] = <<"string", t, W>>
    BY <1>3, <1>4
  <2> QED BY <2>1 DEF Ends, W
<1>6. \A r \in p..(q - 1) : ~Ends(mem[r])
  <2> SUFFICES ASSUME NEW r \in p..(q - 1) PROVE ~Ends(mem[r])
    OBVIOUS
  <2>1. r \in p..(p + W - 1) /\ r - p + 1 # W
    BY <1>1
  <2>2. mem[r] = <<"string", t, r - p + 1>>
    BY <1>3, <2>1
  <2> QED BY <2>1, <2>2 DEF Ends, W
<1> HIDE DEF q
<1>7. StringEnd(p, end) = q + 1
  BY <1>4, <1>5, <1>6, StringEndIs
<1> QED BY <1>4, <1>7 DEF W

\* Message i ends with call e.
MessageSpan(i, e) ==
    /\ i < e /\ log[i][1] = "message" /\ log[e] = <<"close">>
    /\ \A k \in (i + 1)..(e - 1) : IsArgument(log[k])

\* Its tags take this room, from the byte of the comma on.
TagRoom(i) == WordsFor(TagBytes(log[i][3]))
Address(i) == Start(i) + WordsOf[log[i][2]]
TagsAt(i)  == 4 * Address(i)

\* The tags of a message that has as many arguments as announced.
LEMMA TagsOfMessage ==
    ASSUME LayoutInv, Closed, NEW N, N = Len(log), NEW i \in 1..N, NEW e \in 1..N,
           MessageSpan(i, e), NEW b \in Nat
    PROVE  TagByte(i, b) = IF b = 0 THEN "," ELSE IF i + b < e THEN log[i + b][1] ELSE ""
<1>1. N \in Nat /\ DOMAIN log = 1..N
  BY ClosedFacts
<1>2. CASE b # 0 /\ i + b < e
  <2>1. i + b \in DOMAIN log
    BY <1>1, <1>2
  <2>2. \A k \in (i + 1)..(i + b) : k \in (i + 1)..(e - 1)
    BY <1>1, <1>2
  <2>3. \A k \in (i + 1)..(i + b) : IsArgument(log[k])
    BY <2>2 DEF MessageSpan
  <2> QED BY <1>2, <2>1, <2>3 DEF TagByte
<1>3. CASE b # 0 /\ ~(i + b < e)
  <2>1. i < e /\ log[e] = <<"close">>
    BY DEF MessageSpan
  <2>2. e \in (i + 1)..(i + b) /\ ~IsArgument(log[e])
    BY <1>1, <1>3, <2>1 DEF IsArgument
  <2> QED BY <1>3, <2>2 DEF TagByte
<1>4. CASE b = 0
  BY <1>4 DEF TagByte
<1> QED BY <1>2, <1>3, <1>4

\* They are all letters up to the end of the message, and zeros behind.
LEMMA TagsAreLetters ==
    ASSUME LayoutInv, Closed, NEW N, N = Len(log), NEW i \in 1..N, NEW e \in 1..N,
           MessageSpan(i, e), NEW b \in Nat
    PROVE  TagByte(i, b) = "" <=> i + b >= e
<1>1. N \in Nat /\ i < e
  BY ClosedFacts DEF MessageSpan
<1>2. TagByte(i, b) = IF b = 0 THEN "," ELSE IF i + b < e THEN log[i + b][1] ELSE ""
  BY TagsOfMessage
<1>3. i \in Nat /\ e \in Nat
  BY <1>1
<1>4. CASE b = 0
  <2>1. TagByte(i, b) # ""
    BY <1>2, <1>4
  <2>2. ~(i + b >= e)
    BY <1>1, <1>3, <1>4
  <2> QED BY <2>1, <2>2
<1>5. CASE b # 0 /\ i + b < e
  <2>1. i + b \in (i + 1)..(e - 1)
    BY <1>1, <1>5
  <2>2. log[i + b][1] \in {"i", "f", "s", "b", "[", "]"}
    BY <2>1 DEF IsArgument, MessageSpan
  <2>3. TagByte(i, b) # ""
    BY <1>2, <1>5, <2>2
  <2>4. ~(i + b >= e)
    BY <1>3, <1>5
  <2> QED BY <2>3, <2>4
<1>6. CASE b # 0 /\ ~(i + b < e)
  <2>1. TagByte(i, b) = ""
    BY <1>2, <1>6
  <2>2. i + b >= e
    BY <1>3, <1>6
  <2> QED BY <2>1, <2>2
<1> QED BY <1>4, <1>5, <1>6

\* The places of a message: its address, its tags, and the room the tags take.
LEMMA MessageProperties ==
    ASSUME LayoutInv, Closed, ~miscounted, NEW N, N = Len(log), NEW i \in 1..N, NEW e \in 1..N,
           MessageSpan(i, e)
    PROVE  /\ log[i][2] \in Texts /\ Start(i) \in Nat /\ Address(i) \in Nat
           /\ WordsOf[log[i][2]] \in Nat /\ WordsOf[log[i][2]] >= 1
           /\ Start(i) + WordsOf[log[i][2]] = Address(i)
           /\ TagRoom(i) \in Nat /\ TagRoom(i) >= 1
           /\ Predicted[i] = Address(i) + TagRoom(i) /\ Predicted[i] \in Nat
           /\ e - i - 1 = log[i][3] /\ e - i \in Nat
           /\ e - i + 1 <= 4 * TagRoom(i) /\ 4 * TagRoom(i) <= e - i + 4
           /\ Holds(Start(i), StringWords(log[i][2]))
           /\ HoldsTags(Address(i), i)
<1>0. PICK W, T : W = WordsOf[log[i][2]] /\ T = TagRoom(i)
  OBVIOUS
<1>1. N \in Nat /\ log \in Seq(Calls) /\ DOMAIN log = 1..N /\ log[i] \in Calls /\ Intact(i)
  BY ClosedFacts
<1>2. i < e /\ log[i][1] = "message" /\ log[e][1] = "close"
  BY DEF MessageSpan
<1>3. log[i][2] \in Texts /\ log[i][3] \in Nat /\ W \in Nat /\ W >= 1 /\ T \in Nat
      /\ SizeOf(log[i]) = W + T
  BY <1>0, <1>1, <1>2, CallProperties DEF TagRoom
<1>4. Start(i) \in Nat /\ Predicted[i] = Start(i) + SizeOf(log[i])
  BY <1>1, Places
<1>5. e - i - 1 = log[i][3]
  <2>1. \A k \in (i + 1)..(e - 1) : IsArgument(log[k])
    BY DEF MessageSpan
  <2>2. i \in DOMAIN log /\ e \in DOMAIN log
    BY <1>1
  <2> QED BY <1>2, <2>1, <2>2 DEF LayoutInv, CountsInv, Closed
<1>6. T = (e - i + 4) \div 4 /\ e - i \in Nat
  <2>1. TagBytes(log[i][3]) + 3 = e - i + 4
    BY <1>1, <1>3, <1>5 DEF TagBytes
  <2>2. T = (TagBytes(log[i][3]) + 3) \div 4
    BY <1>0 DEF WordsFor, TagRoom
  <2> QED BY <1>1, <1>2, <2>1, <2>2
<1>7. e - i + 1 <= 4 * T /\ 4 * T <= e - i + 4 /\ T >= 1
  BY <1>3, <1>6
<1>8. Address(i) = Start(i) + W
  BY <1>0 DEF Address
<1>9. /\ Holds(Start(i), StringWords(log[i][2]))
      /\ HoldsTags(Address(i), i)
  BY <1>1, <1>2 DEF Intact, Address
<1>10. Predicted[i] = Address(i) + T /\ Predicted[i] \in Nat /\ Address(i) \in Nat
  BY <1>3, <1>4, <1>8
<1> QED BY <1>0, <1>3, <1>4, <1>5, <1>6, <1>7, <1>8, <1>9, <1>10

\* Byte b of the tags is read.
LEMMA TagIsRead ==
    ASSUME NEW i, NEW p \in Nat, HoldsTags(p, i), TagRoom(i) \in Nat,
           NEW b \in 0..(4 * TagRoom(i) - 1)
    PROVE  Tag(4 * p + b) = TagByte(i, b)
<1>0. PICK k, r, T : k = b \div 4 /\ r = b % 4 /\ T = TagRoom(i)
  OBVIOUS
<1>1. b \in Nat /\ b < 4 * T /\ T \in Nat
  BY <1>0
<1>2. k \in Nat /\ r \in 0..3 /\ b = 4 * k + r
  BY <1>0, <1>1, PlaceInWord
<1>3. (4 * p + b) \div 4 = p + k /\ (4 * p + b) % 4 = r
  <2>1. 4 * p + b \in Nat
    BY <1>1
  <2>2. PICK m, s : m = (4 * p + b) \div 4 /\ s = (4 * p + b) % 4
    OBVIOUS
  <2>3. m \in Nat /\ s \in 0..3 /\ 4 * p + b = 4 * m + s
    BY <2>1, <2>2, PlaceInWord
  <2>4. m = p + k /\ s = r
    BY <1>2, <2>3
  <2> QED BY <2>2, <2>4
<1>4. k \in 0..(T - 1) /\ r + 1 \in 1..4 /\ 4 * k + (r + 1) - 1 = b
  BY <1>1, <1>2
<1>5. mem[p + k] = <<"tags", [c \in 1..4 |-> TagByte(i, 4 * k + c - 1)]>>
  BY <1>0, <1>4 DEF HoldsTags, TagRoom
<1>6. mem[p + k][1] = "tags" /\ mem[p + k][2][r + 1] = TagByte(i, b)
  BY <1>4, <1>5
<1> QED BY <1>3, <1>6 DEF Tag

\* The tags end with their first zero.
FirstZero(from, b) == Tag(b) = "" /\ \A c \in from..(b - 1) : Tag(c) # ""

\* strlen finds the first zero.
LEMMA TagsEndIs ==
    ASSUME NEW from \in Nat, NEW to \in Nat, NEW q \in from..to, FirstZero(from, q)
    PROVE  TagsEnd(from, to) = q
<1>1. PICK x \in from..to : FirstZero(from, x) /\ TagsEnd(from, to) = x
  <2> DEFINE x == CHOOSE b \in from..to : FirstZero(from, b)
  <2>1. x \in from..to /\ FirstZero(from, x)
    OBVIOUS
  <2>2. TagsEnd(from, to) = x
    BY DEF TagsEnd, FirstZero
  <2> QED BY <2>1, <2>2
<1>2. CASE x < q
  <2>1. x \in from..(q - 1)
    BY <1>2
  <2> QED BY <1>1, <2>1 DEF FirstZero
<1>3. CASE q < x
  <2>1. q \in from..(x - 1)
    BY <1>3
  <2> QED BY <1>1, <2>1 DEF FirstZero
<1> QED BY <1>1, <1>2, <1>3

\* A word of tags ends with a zero when its last byte is one.
LEMMA TagWordEnds ==
    ASSUME NEW i, NEW p \in Nat, HoldsTags(p, i), NEW k \in 0..(TagRoom(i) - 1)
    PROVE  Ends(mem[p + k]) <=> TagByte(i, 4 * k + 3) = ""
<1>1. mem[p + k] = <<"tags", [c \in 1..4 |-> TagByte(i, 4 * k + c - 1)]>>
  BY DEF HoldsTags, TagRoom
<1>2. 4 * k + 4 - 1 = 4 * k + 3
  OBVIOUS
<1>3. mem[p + k][1] = "tags" /\ mem[p + k][2][4] = TagByte(i, 4 * k + 3)
  BY <1>1, <1>2
<1> QED BY <1>3 DEF Ends

\* What ArgStream finds of a message: the end of its address, the end of its tags,
\* and how many they are.
LEMMA MessageIsRead ==
    ASSUME LayoutInv, Closed, ~miscounted, NEW N, N = Len(log), NEW i \in 1..N, NEW e \in 1..N,
           MessageSpan(i, e), NEW end \in Nat, Predicted[i] <= end
    PROVE  /\ mem[Start(i)] = <<"string", log[i][2], 1>>
           /\ StringEnd(Start(i), end) = Address(i)
           /\ StringEnd(Address(i), end) = Predicted[i]
           /\ \A b \in 0..(e - i) : Tag(TagsAt(i) + b) = TagByte(i, b)
           /\ TagsEnd(TagsAt(i), 4 * Predicted[i] - 1) = TagsAt(i) + (e - i)
           /\ Address(i) \in Nat /\ e - i \in Nat /\ Predicted[i] \in Nat
<1>0. PICK W, T, d, A, P : /\ W = WordsOf[log[i][2]] /\ T = TagRoom(i) /\ d = e - i
                           /\ A = Address(i) /\ P = Predicted[i]
  OBVIOUS
<1>1. /\ A \in Nat /\ T \in Nat /\ T >= 1 /\ P = A + T /\ P \in Nat /\ P <= end
      /\ d \in Nat /\ d + 1 <= 4 * T /\ 4 * T <= d + 4
  BY <1>0, MessageProperties
<1>2. d = e - i /\ i \in Nat /\ e \in Nat
  BY <1>0, ClosedFacts
<1>10. /\ log[i][2] \in Texts /\ Start(i) \in Nat /\ W \in Nat /\ W >= 1 /\ Start(i) + W = A
       /\ Holds(Start(i), StringWords(log[i][2])) /\ HoldsTags(A, i)
  BY <1>0, MessageProperties
<1>3. mem[Start(i)] = <<"string", log[i][2], 1>>
  <2>1. Len(StringWords(log[i][2])) = W /\ StringWords(log[i][2])[1] = <<"string", log[i][2], 1>>
    BY <1>0, <1>10 DEF StringWords
  <2>2. 1 \in 1..W /\ Start(i) + 1 - 1 = Start(i)
    BY <1>10
  <2> QED BY <1>10, <2>1, <2>2 DEF Holds
<1>4. StringEnd(Start(i), end) = A
  <2>1. Start(i) + W <= end
    BY <1>1, <1>10
  <2> QED BY <1>0, <1>10, <2>1, TextIsRead
<1>5. ASSUME NEW k \in 0..(T - 1) PROVE Ends(mem[A + k]) <=> k = T - 1
  <2>1. Ends(mem[A + k]) <=> TagByte(i, 4 * k + 3) = ""
    BY <1>0, <1>1, <1>10, TagWordEnds
  <2>2. PICK b : b = 4 * k + 3
    OBVIOUS
  <2>3. b \in Nat /\ (i + b >= e <=> k = T - 1)
    BY <1>1, <1>2, <2>2
  <2>4. TagByte(i, b) = "" <=> i + b >= e
    BY <2>3, TagsAreLetters
  <2> QED BY <2>1, <2>2, <2>3, <2>4
<1>6. StringEnd(A, end) = P
  <2>1. PICK q : q = A + (T - 1)
    OBVIOUS
  <2>2. q \in A..(end - 1) /\ q + 1 = P /\ T - 1 \in 0..(T - 1)
    BY <1>1, <2>1
  <2>3. Ends(mem[q])
    BY <1>5, <2>1, <2>2
  <2>4. \A r \in A..(q - 1) : ~Ends(mem[r])
    <3> SUFFICES ASSUME NEW r \in A..(q - 1) PROVE ~Ends(mem[r])
      OBVIOUS
    <3>1. PICK k : k = r - A
      OBVIOUS
    <3>2. k \in 0..(T - 1) /\ k # T - 1 /\ A + k = r
      BY <1>1, <2>1, <3>1
    <3> QED BY <1>5, <3>2
  <2>5. StringEnd(A, end) = q + 1
    BY <1>1, <2>2, <2>3, <2>4, StringEndIs
  <2> QED BY <2>2, <2>5
<1>7. TagsAt(i) = 4 * A
  BY <1>0 DEF TagsAt
<1>8. ASSUME NEW b \in 0..d PROVE Tag(4 * A + b) = TagByte(i, b)
  <2>1. b \in 0..(4 * T - 1)
    BY <1>1
  <2> QED BY <1>0, <1>1, <1>10, <2>1, TagIsRead
<1>9. TagsEnd(4 * A, 4 * P - 1) = 4 * A + d
  <2>0. PICK q, from, to : q = 4 * A + d /\ from = 4 * A /\ to = 4 * P - 1
    OBVIOUS
  <2>1. from \in Nat /\ to \in Nat /\ q \in from..to
    BY <1>1, <2>0
  <2>2. Tag(q) = ""
    <3>1. d \in 0..d /\ d \in Nat /\ i + d >= e
      BY <1>1, <1>2
    <3>2. TagByte(i, d) = ""
      BY <3>1, TagsAreLetters
    <3> QED BY <1>8, <2>0, <3>1, <3>2
  <2>3. ASSUME NEW c \in from..(q - 1) PROVE Tag(c) # ""
    <3>1. PICK b : b = c - from
      OBVIOUS
    <3>2. b \in 0..d /\ b \in Nat /\ ~(i + b >= e) /\ 4 * A + b = c
      BY <1>1, <1>2, <2>0, <3>1
    <3>3. TagByte(i, b) # ""
      BY <3>2, TagsAreLetters
    <3> QED BY <1>8, <3>2, <3>3
  <2>4. FirstZero(from, q)
    BY <2>2, <2>3 DEF FirstZero
  <2> QED BY <2>0, <2>1, <2>4, TagsEndIs
<1> QED BY <1>0, <1>1, <1>3, <1>4, <1>6, <1>7, <1>8, <1>9

-----------------------------------------------------------------------------
(* Reading arguments *)

\* The arguments, by their tags.
LEMMA ArgumentShapes ==
    ASSUME NEW a \in Arguments, NEW c, c = <<a.tag, a.words>>
    PROVE  \/ a.tag \in {"i", "f"} /\ SizeOf(c) = 1
           \/ \E t \in Texts : a.tag = "s" /\ a.words = StringWords(t) /\ SizeOf(c) = WordsOf[t]
           \/ \E n \in BlobSizes :
                a.tag = "b" /\ a.words[1] = <<"int32", n>> /\ SizeOf(c) = 1 + WordsFor(n)
           \/ a.tag \in {"[", "]"} /\ a.words = <<>> /\ SizeOf(c) = 0
<1>1. CASE \E v \in Numbers : a = Int32(v) \/ a = Float32(v)
  <2>1. a.tag \in {"i", "f"}
    BY <1>1 DEF Int32, Float32
  <2> QED BY <2>1 DEF SizeOf
<1>2. CASE \E t \in Texts : a = String(t)
  <2>1. PICK t \in Texts : a = String(t)
    BY <1>2
  <2>2. WordsOf[t] \in Nat /\ WordsOf[t] >= 1
    BY WordsAssumption
  <2>3. a.tag = "s" /\ a.words = StringWords(t)
    BY <2>1 DEF String
  <2>4. a.words[1][2] = t
    BY <2>2, <2>3 DEF StringWords
  <2>5. SizeOf(c) = WordsOf[t]
    BY <2>3, <2>4 DEF SizeOf
  <2> QED BY <2>3, <2>5
<1>3. CASE \E n \in BlobSizes : a = Blob(n)
  <2>1. PICK n \in BlobSizes : a = Blob(n)
    BY <1>3
  <2> DEFINE s == <<<<"int32", n>>>>
             t == [i \in 1..WordsFor(n) |-> <<"data", n, i>>]
             S == {s[1]} \cup {t[i] : i \in 1..WordsFor(n)}
  <2>2. n \in Nat /\ WordsFor(n) \in Nat
    BY BlobsAssumption DEF WordsFor
  <2>3. s \in Seq(S) /\ t \in Seq(S) /\ Len(s) = 1 /\ Len(t) = WordsFor(n)
    BY <2>2
  <2>4. a.words = s \o t /\ a.tag = "b"
    BY <2>1 DEF Blob
  <2> HIDE DEF t, S
  <2>5. (s \o t)[1] = s[1]
    BY <2>2, <2>3, ConcatProperties
  <2>6. a.words[1] = <<"int32", n>>
    BY <2>4, <2>5
  <2>7. SizeOf(c) = 1 + WordsFor(n)
    BY <2>4, <2>6 DEF SizeOf
  <2> QED BY <2>4, <2>6, <2>7
<1>4. CASE a = Bracket("[") \/ a = Bracket("]")
  <2>1. a.tag \in {"[", "]"} /\ a.words = <<>>
    BY <1>4 DEF Bracket
  <2> QED BY <2>1 DEF SizeOf
<1> QED BY <1>1, <1>2, <1>3, <1>4 DEF Arguments

\* An argument is read back as it was written.
WordsRead(t, p, q) == <<t, [k \in 1..(q - p) |-> mem[p + k - 1]]>>

LEMMA ArgumentIsRead ==
    ASSUME LayoutInv, Closed, NEW N, N = Len(log), NEW i \in 1..N, IsArgument(log[i]),
           NEW p, p = Predicted[i - 1], NEW q, q = Predicted[i], NEW end \in Nat, q <= end
    PROVE  /\ ArgEnd(log[i][1], p, end) = q
           /\ WordsRead(log[i][1], p, q) = log[i]
           /\ log[i][1] \in {"[", "]"} => q = p /\ log[i] = <<log[i][1], <<>>>>
<1>1. N \in Nat /\ log \in Seq(Calls) /\ log[i] \in Calls /\ Intact(i)
  BY ClosedFacts
<1>2. PICK a \in Arguments : log[i] = <<a.tag, a.words>>
  BY <1>1, CallProperties
<1>3. PICK Z : Z = SizeOf(log[i])
  OBVIOUS
<1>4. p \in Nat /\ q = p + Z /\ Z \in Nat /\ Start(i) = p
  <2>1. ~Opens(log[i])
    BY DEF Opens, IsArgument
  <2>2. Start(i) = p + 0 /\ Start(i) \in Nat /\ q = Start(i) + Z
    <3>1. Prefix(i) = 0
      BY <2>1 DEF Prefix
    <3> QED BY <1>1, <1>3, <3>1, Places
  <2>3. p \in Nat
    BY <1>1, Places
  <2>4. Z \in Nat
    BY <1>1, <1>3, CallProperties
  <2> QED BY <2>2, <2>3, <2>4
<1>5. Len(a.words) = Z /\ a.words = [k \in 1..Z |-> a.words[k]]
  BY <1>2, <1>3, ArgumentWords
<1>6. Holds(p, a.words)
  BY <1>1, <1>2, <1>4 DEF Intact
<1>7. \A k \in 1..Z : mem[p + k - 1] = a.words[k]
  BY <1>5, <1>6 DEF Holds
<1>8. WordsRead(log[i][1], p, q) = <<log[i][1], a.words>>
  <2>1. q - p = Z
    BY <1>4
  <2> QED BY <1>5, <1>7, <2>1 DEF WordsRead
<1>9. q # None
  BY <1>4, NoneAssumption
<1>10. CASE a.tag \in {"i", "f"} /\ Z = 1
  BY <1>2, <1>4, <1>8, <1>9, <1>10 DEF ArgEnd
<1>11. CASE \E t \in Texts : a.tag = "s" /\ a.words = StringWords(t) /\ Z = WordsOf[t]
  <2>1. PICK t \in Texts : a.tag = "s" /\ a.words = StringWords(t) /\ Z = WordsOf[t]
    BY <1>11
  <2>2. StringEnd(p, end) = q
    BY <1>4, <1>6, <2>1, TextIsRead
  <2> QED BY <1>2, <1>8, <1>9, <2>1, <2>2 DEF ArgEnd
<1>12. CASE \E n \in BlobSizes :
              a.tag = "b" /\ a.words[1] = <<"int32", n>> /\ Z = 1 + WordsFor(n)
  <2>1. PICK n \in BlobSizes :
              a.tag = "b" /\ a.words[1] = <<"int32", n>> /\ Z = 1 + WordsFor(n)
    BY <1>12
  <2>2. n \in Nat /\ WordsFor(n) \in Nat
    BY BlobsAssumption DEF WordsFor
  <2>3. 1 \in 1..Z /\ p + 1 - 1 = p /\ p < end /\ q = p + 1 + WordsFor(n)
    <3>1. PICK m : m = WordsFor(n)
      OBVIOUS
    <3>2. m \in Nat /\ Z = 1 + m
      BY <2>1, <2>2, <3>1
    <3>3. q = p + (1 + m) /\ p \in Nat
      BY <1>4, <3>2
    <3> QED BY <3>1, <3>2, <3>3, SMTT(30)
  <2>4. mem[p] = <<"int32", n>>
    BY <1>7, <2>1, <2>3
  <2>5. mem[p][1] = "int32" /\ mem[p][2] = n /\ n >= 0
    BY <2>2, <2>4
  <2>6. ArgEnd("b", p, end) = q
    BY <1>9, <2>3, <2>5 DEF ArgEnd
  <2> QED BY <1>2, <1>8, <2>1, <2>6
<1>13. CASE a.tag \in {"[", "]"} /\ a.words = <<>> /\ Z = 0
  BY <1>2, <1>4, <1>8, <1>9, <1>13 DEF ArgEnd
<1> QED BY <1>2, <1>3, <1>10, <1>11, <1>12, <1>13, ArgumentShapes

\* How a call changes the number of open arrays.
LEMMA BracketSteps ==
    ASSUME LayoutInv, NEW N, N = Len(log)
    PROVE  /\ \A i \in 0..N : Brackets[i] \in Int
           /\ \A i \in 1..N : Brackets[i] = Brackets[i - 1] +
                (IF log[i][1] = "[" THEN 1 ELSE IF log[i][1] = "]" THEN -1 ELSE 0)
           /\ Brackets[0] = 0
<1> DEFINE f == [i \in DOMAIN log |->
                     CASE log[i][1] = "[" -> 1 [] log[i][1] = "]" -> -1 [] OTHER -> 0]
<1>1. N \in Nat /\ DOMAIN log = 1..N
  BY LayoutFacts
<1>2. \A i \in 1..N : f[i] = IF log[i][1] = "[" THEN 1 ELSE IF log[i][1] = "]" THEN -1 ELSE 0
  <2> SUFFICES ASSUME NEW i \in 1..N
               PROVE  f[i] = IF log[i][1] = "[" THEN 1 ELSE IF log[i][1] = "]" THEN -1 ELSE 0
    OBVIOUS
  <2>1. f[i] = CASE log[i][1] = "[" -> 1 [] log[i][1] = "]" -> -1 [] OTHER -> 0
    BY <1>1
  <2>2. CASE log[i][1] = "["
    BY <2>1, <2>2
  <2>3. CASE log[i][1] = "]"
    BY <2>1, <2>3
  <2>4. CASE log[i][1] # "[" /\ log[i][1] # "]"
    BY <2>1, <2>4
  <2> QED BY <2>2, <2>3, <2>4
<1>3. f = [i \in 1..N |-> f[i]] /\ \A i \in 1..N : f[i] \in Int
  <2>1. f = [i \in 1..N |-> f[i]]
    BY <1>1
  <2> HIDE DEF f
  <2>2. \A i \in 1..N : f[i] \in Int
    BY <1>2
  <2> QED BY <2>1, <2>2
<1> HIDE DEF f
<1>4. f \in Seq(Int) /\ Len(f) = N
  BY <1>1, <1>3, FunctionIsSequence
<1>5. Brackets = Sums(f)
  BY DEF Brackets, f
<1> QED BY <1>2, <1>4, <1>5, SumsProperties

-----------------------------------------------------------------------------
(* The streams and the calls they were written by *)

\* The packet that call i opens ends with call e.
PacketSpan(i, e) ==
    /\ Encloses(i, e)
    /\ \/ log[i][1] = "bundle" /\ log[e] = <<"end">>
       \/ MessageSpan(i, e)

\* Every packet has a span.
LEMMA PacketEnds ==
    ASSUME LayoutInv, Closed, NEW N, N = Len(log), NEW i \in 1..N, Opens(log[i])
    PROVE  \E e \in (i + 1)..N : PacketSpan(i, e)
<1>1. PICK e \in (i + 1)..N :
             /\ Encloses(i, e) /\ Closes(log[e])
             /\ log[i][1] = "bundle" => log[e] = <<"end">>
             /\ log[i][1] = "message" =>
                    log[e] = <<"close">> /\ \A k \in (i + 1)..(e - 1) : IsArgument(log[k])
  BY PacketCloses
<1>2. i < e
  BY <1>1 DEF Encloses
<1>3. CASE log[i][1] = "bundle"
  BY <1>1, <1>3 DEF PacketSpan
<1>4. CASE log[i][1] = "message"
  BY <1>1, <1>2, <1>4 DEF PacketSpan, MessageSpan
<1> QED BY <1>3, <1>4 DEF Opens

\* A stream stands for calls of the log: it was opened by one, has been read up to
\* another, and will be left with a third.  The one before belongs to the message
\* whose tags it reads.
Frames  == [of : Nat, from : Nat, at : Nat, to : Nat]
Streams == [kind : {"bundle", "message", "array"}, at : Nat, end : Nat, tag : Nat, stop : Nat]

BundleFrame(s, f) ==
    /\ s.kind = "bundle" /\ log[f.from][1] = "bundle" /\ log[f.to] = <<"end">>
    /\ Encloses(f.from, f.to)
    /\ Depth[f.at] = Depth[f.from] /\ ~Inside(log[f.at])

ArrayFrame(f) ==
    /\ log[f.from] = <<"[", <<>>>> /\ log[f.to] = <<"]", <<>>>>
    /\ Brackets[f.to] < Brackets[f.from]
    /\ \A k \in f.from..(f.to - 1) : Brackets[k] >= Brackets[f.from]

ArgumentFrame(s, f) ==
    /\ \E e \in f.to..Len(log) : MessageSpan(f.of, e) /\ (s.kind = "message" => e = f.to)
    /\ 1 <= f.of /\ f.of <= f.from
    /\ s.tag = TagsAt(f.of) + (f.at + 1 - f.of)
    /\ s.stop = TagsAt(f.of) + (f.to - f.of)
    /\ \/ s.kind = "message" /\ f.of = f.from
       \/ s.kind = "array" /\ ArrayFrame(f)

IsFrame(s, f) ==
    /\ f \in Frames /\ s \in Streams
    /\ 1 <= f.from /\ f.from <= f.at /\ f.at < f.to /\ f.to <= Len(log)
    /\ s.at = Predicted[f.at] /\ s.end = Predicted[f.to]
    /\ BundleFrame(s, f) \/ ArgumentFrame(s, f)

\* A packet is entered.
LEMMA PacketIsEntered ==
    ASSUME LayoutInv, Closed, ~miscounted, NEW N, N = Len(log),
           NEW i \in 1..N, NEW e \in 1..N, PacketSpan(i, e),
           NEW below, NEW p, p = Start(i), NEW end, end = Predicted[e], Enter(below, p, end)
    PROVE  /\ reader' = "reading" /\ dropping' = dropping
           /\ seen' = Append(seen, Written(log[i]))
           /\ \E s : /\ streams' = Append(below, s)
                     /\ IsFrame(s, [of |-> i, from |-> i, at |-> i, to |-> e])
<1>0. PICK f : f = [of |-> i, from |-> i, at |-> i, to |-> e]
  OBVIOUS
<1>1. N \in Nat /\ log \in Seq(Calls) /\ log[i] \in Calls /\ Intact(i) /\ i < e
  BY ClosedFacts DEF PacketSpan, Encloses
<1>2. /\ p \in Nat /\ end \in Nat /\ Predicted[i] = p + SizeOf(log[i])
      /\ Predicted[i] <= end /\ Predicted[i] \in Nat
  BY <1>1, Places
<1>3. f \in Frames /\ 1 <= f.from /\ f.from <= f.at /\ f.at < f.to /\ f.to <= Len(log)
      /\ f.of = i /\ f.from = i /\ f.at = i /\ f.to = e
  BY <1>0, <1>1 DEF Frames
<1>4. CASE log[i][1] = "bundle" /\ log[e] = <<"end">>
  <2>1. PICK time \in Times : log[i] = <<"bundle", time>>
    BY <1>1, <1>4, CallProperties
  <2>2. Predicted[i] = p + 4 /\ end - p >= 4
    <3>1. SizeOf(log[i]) = 4
      BY <1>1, <1>4, CallProperties
    <3> QED BY <1>2, <3>1
  <2>3. Holds(p, BundleWords(time))
    BY <1>1, <2>1 DEF Intact
  <2>4. mem[p] = <<"#bundle", 1>> /\ mem[p + 1] = <<"#bundle", 2>> /\ mem[p + 2] = <<"time", time, 1>>
    <3>1. Len(BundleWords(time)) = 4 /\ BundleWords(time)[1] = <<"#bundle", 1>>
          /\ BundleWords(time)[2] = <<"#bundle", 2>> /\ BundleWords(time)[3] = <<"time", time, 1>>
      BY DEF BundleWords
    <3>2. \A k \in 1..4 : mem[p + k - 1] = BundleWords(time)[k]
      BY <2>3, <3>1 DEF Holds
    <3>3. p + 1 - 1 = p /\ p + 2 - 1 = p + 1 /\ p + 3 - 1 = p + 2
      BY <1>2
    <3>4. 1 \in 1..4 /\ 2 \in 1..4 /\ 3 \in 1..4
      OBVIOUS
    <3>5. mem[p + 1 - 1] = BundleWords(time)[1] /\ mem[p + 2 - 1] = BundleWords(time)[2]
          /\ mem[p + 3 - 1] = BundleWords(time)[3]
      BY <3>2, <3>4
    <3> QED BY <3>1, <3>3, <3>5
  <2>5. IsBundle(p, end)
    BY <2>2, <2>4 DEF IsBundle
  <2>6. PICK s : s = [kind |-> "bundle", at |-> p + 4, end |-> end, tag |-> 0, stop |-> 0]
    OBVIOUS
  <2>7. /\ streams' = Append(below, s) /\ seen' = Append(seen, <<"bundle", mem[p + 2][2]>>)
        /\ reader' = "reading" /\ dropping' = dropping
    BY <2>5, <2>6 DEF Enter
  <2>8. <<"bundle", mem[p + 2][2]>> = Written(log[i])
    BY <2>1, <2>4 DEF Written
  <2>9. IsFrame(s, f)
    <3>1. BundleFrame(s, f)
      BY <1>3, <1>4, <2>6 DEF BundleFrame, PacketSpan, MessageSpan, Inside, IsArgument
    <3>2. s.at = Predicted[i] /\ s.end = end
      BY <2>2, <2>6
    <3>3. s \in Streams
      BY <1>2, <2>2, <2>6 DEF Streams
    <3> QED BY <1>3, <3>1, <3>2, <3>3 DEF IsFrame
  <2> QED BY <1>0, <2>7, <2>8, <2>9
<1>5. CASE MessageSpan(i, e)
  <2>1. /\ mem[p] = <<"string", log[i][2], 1>>
        /\ StringEnd(p, end) = Address(i)
        /\ StringEnd(Address(i), end) = Predicted[i]
        /\ \A b \in 0..(e - i) : Tag(TagsAt(i) + b) = TagByte(i, b)
        /\ TagsEnd(TagsAt(i), 4 * Predicted[i] - 1) = TagsAt(i) + (e - i)
        /\ Address(i) \in Nat /\ e - i \in Nat
    BY <1>2, <1>5, MessageIsRead
  <2>2. TagsAt(i) = 4 * Address(i)
    BY DEF TagsAt
  <2>3. Tag(TagsAt(i)) = ","
    <3>1. 0 \in 0..(e - i) /\ TagsAt(i) + 0 = TagsAt(i)
      BY <2>1, <2>2
    <3>2. TagByte(i, 0) = ","
      BY DEF TagByte
    <3> QED BY <2>1, <3>1, <3>2
  <2>4. ~IsBundle(p, end)
    BY <2>1 DEF IsBundle
  <2>5. Address(i) # None /\ Predicted[i] # None
    BY <1>2, <2>1, NoneAssumption
  <2>6. PICK s : s = [kind |-> "message", at |-> Predicted[i], end |-> end,
                      tag |-> TagsAt(i) + 1, stop |-> TagsAt(i) + (e - i)]
    OBVIOUS
  <2>7. /\ streams' = Append(below, s) /\ seen' = Append(seen, <<"message", mem[p][2]>>)
        /\ reader' = "reading" /\ dropping' = dropping
    <3>1. PICK A, P, z : A = Address(i) /\ P = Predicted[i] /\ z = TagsAt(i) + (e - i)
      OBVIOUS
    <3>2. /\ StringEnd(p, end) = A /\ StringEnd(A, end) = P /\ A # None /\ P # None
          /\ mem[p][1] = "string" /\ Tag(4 * A) = "," /\ TagsEnd(4 * A, 4 * P - 1) = z
      <4>1. StringEnd(p, end) = A /\ StringEnd(A, end) = P /\ A # None /\ P # None
        BY <2>1, <2>5, <3>1
      <4>2. mem[p][1] = "string"
        BY <2>1
      <4>3. 4 * A = TagsAt(i)
        BY <2>2, <3>1
      <4>4. TagsEnd(TagsAt(i), 4 * P - 1) = z
        BY <2>1, <3>1
      <4> QED BY <2>3, <4>1, <4>2, <4>3, <4>4
    <3>3. s = [kind |-> "message", at |-> P, end |-> end, tag |-> 4 * A + 1, stop |-> z]
      BY <2>2, <2>6, <3>1
    <3> QED BY <2>4, <3>2, <3>3 DEF Enter
  <2>8. <<"message", mem[p][2]>> = Written(log[i])
    BY <1>5, <2>1 DEF Written, MessageSpan
  <2>9. IsFrame(s, f)
    <3>1. e \in f.to..Len(log) /\ i + 1 - i = 1
      BY <1>1, <1>3
    <3>2. ArgumentFrame(s, f)
      BY <1>3, <1>5, <2>6, <3>1 DEF ArgumentFrame
    <3>3. TagsAt(i) + 1 \in Nat /\ TagsAt(i) + (e - i) \in Nat
      BY <2>1, <2>2
    <3>4. s \in Streams
      BY <1>2, <2>6, <3>3 DEF Streams
    <3> QED BY <1>3, <2>6, <3>2, <3>4 DEF IsFrame
  <2> QED BY <1>0, <2>7, <2>8, <2>9
<1> QED BY <1>4, <1>5 DEF PacketSpan

\* The open streams, each of which is left with the call that the one below has been
\* read up to; the outermost packet is left with the last call.
Stack(fs, ss) ==
    /\ fs \in Seq(Frames) /\ ss \in Seq(Streams) /\ Len(fs) = Len(ss)
    /\ \A d \in 1..Len(ss) : IsFrame(ss[d], fs[d])
    /\ \A d \in 1..(Len(ss) - 1) : fs[d].at = fs[d + 1].to
    /\ ss # <<>> => fs[1].to = Len(log)

\* A stream is entered.
LEMMA StackPush ==
    ASSUME NEW fs, NEW ss, Stack(fs, ss), NEW f, NEW s, IsFrame(s, f),
           ss = <<>> => f.to = Len(log),
           ss # <<>> => fs[Len(ss)].at = f.to
    PROVE  Stack(Append(fs, f), Append(ss, s))
<1>0. PICK n, gs, ts : n = Len(ss) /\ gs = Append(fs, f) /\ ts = Append(ss, s)
  OBVIOUS
<1>1. f \in Frames /\ s \in Streams
  BY DEF IsFrame
<1>2. fs \in Seq(Frames) /\ ss \in Seq(Streams) /\ Len(fs) = n /\ n \in Nat
  BY <1>0 DEF Stack
<1>3. /\ gs \in Seq(Frames) /\ Len(gs) = n + 1 /\ gs[n + 1] = f /\ \A d \in 1..n : gs[d] = fs[d]
  BY <1>0, <1>1, <1>2
<1>4. /\ ts \in Seq(Streams) /\ Len(ts) = n + 1 /\ ts[n + 1] = s /\ \A d \in 1..n : ts[d] = ss[d]
  BY <1>0, <1>1, <1>2
<1>5. \A d \in 1..(n + 1) : IsFrame(ts[d], gs[d])
  <2> SUFFICES ASSUME NEW d \in 1..(n + 1) PROVE IsFrame(ts[d], gs[d])
    OBVIOUS
  <2>1. CASE d = n + 1
    BY <1>3, <1>4, <2>1
  <2>2. CASE d # n + 1
    <3>1. d \in 1..n
      BY <1>2, <2>2
    <3>2. IsFrame(ss[d], fs[d])
      BY <1>0, <3>1 DEF Stack
    <3> QED BY <1>3, <1>4, <3>1, <3>2
  <2> QED BY <2>1, <2>2
<1>6. \A d \in 1..n : gs[d].at = gs[d + 1].to
  <2> SUFFICES ASSUME NEW d \in 1..n PROVE gs[d].at = gs[d + 1].to
    OBVIOUS
  <2>1. CASE d = n
    <3>1. ss # <<>>
      BY <1>0, <1>2, <2>1
    <3> QED BY <1>0, <1>3, <2>1, <3>1
  <2>2. CASE d # n
    <3>1. d \in 1..(n - 1) /\ d + 1 \in 1..n
      BY <1>2, <2>2
    <3>2. fs[d].at = fs[d + 1].to
      BY <1>0, <3>1 DEF Stack
    <3> QED BY <1>3, <3>1, <3>2
  <2> QED BY <2>1, <2>2
<1>7. gs[1].to = Len(log)
  <2>1. CASE n = 0
    <3>1. ss = <<>>
      BY <1>0, <1>2, <2>1, EmptySeq
    <3> QED BY <1>3, <2>1, <3>1
  <2>2. CASE n # 0
    <3>1. ss # <<>> /\ 1 \in 1..n
      BY <1>0, <1>2, <2>2
    <3>2. fs[1].to = Len(log)
      BY <3>1 DEF Stack
    <3> QED BY <1>3, <3>1, <3>2
  <2> QED BY <2>1, <2>2
<1>8. (n + 1) - 1 = n
  BY <1>2
<1>9. Stack(gs, ts)
  BY <1>3, <1>4, <1>5, <1>6, <1>7, <1>8 DEF Stack
<1> QED BY <1>0, <1>9

\* What is left below the top.
Popped(n, fs, ss, gs, ts) ==
    /\ Stack(gs, ts) /\ n \in Nat /\ n >= 1 /\ Len(ts) = n - 1
    /\ IsFrame(ss[n], fs[n])
    /\ (ts = <<>> => n = 1) /\ (ts # <<>> => n > 1)
    /\ n = 1 => fs[n].to = Len(log)
    /\ n > 1 => gs[n - 1].at = fs[n].to

\* The top is left.
LEMMA StackPop ==
    ASSUME NEW fs, NEW ss, Stack(fs, ss), ss # <<>>, NEW n, n = Len(ss),
           NEW m, m = n - 1, NEW gs, gs = SubSeq(fs, 1, m), NEW ts, ts = SubSeq(ss, 1, m)
    PROVE  Popped(n, fs, ss, gs, ts)
<1>1. fs \in Seq(Frames) /\ ss \in Seq(Streams) /\ Len(fs) = n
  BY DEF Stack
<1>2. n \in Nat /\ n >= 1
  BY <1>1
<1>3. gs \in Seq(Frames) /\ Len(gs) = n - 1 /\ \A d \in 1..(n - 1) : gs[d] = fs[d]
  BY <1>1, <1>2
<1>4. ts \in Seq(Streams) /\ Len(ts) = n - 1 /\ \A d \in 1..(n - 1) : ts[d] = ss[d]
  BY <1>1, <1>2
<1>5. IsFrame(ss[n], fs[n])
  BY <1>2 DEF Stack
<1>6. \A d \in 1..(n - 1) : IsFrame(ts[d], gs[d])
  <2> SUFFICES ASSUME NEW d \in 1..(n - 1) PROVE IsFrame(ts[d], gs[d])
    OBVIOUS
  <2>1. d \in 1..n
    BY <1>2
  <2> QED BY <1>3, <1>4, <2>1 DEF Stack
<1>7. \A d \in 1..(n - 1) : fs[d].at = fs[d + 1].to
  BY DEF Stack
<1>8. \A d \in 1..((n - 1) - 1) : gs[d].at = gs[d + 1].to
  <2> SUFFICES ASSUME NEW d \in 1..((n - 1) - 1) PROVE gs[d].at = gs[d + 1].to
    OBVIOUS
  <2>1. d \in 1..(n - 1) /\ d + 1 \in 1..(n - 1)
    BY <1>2
  <2> QED BY <1>3, <1>7, <2>1
<1>9. fs[1].to = Len(log)
  BY DEF Stack
<1>10. (ts = <<>> => n = 1) /\ (ts # <<>> => n > 1)
  <2>1. CASE ts = <<>>
    <3>1. Len(ts) = 0
      BY <2>1, EmptySeq
    <3> QED BY <1>2, <1>4, <2>1, <3>1
  <2>2. CASE ts # <<>>
    <3>1. Len(ts) \in Nat \ {0}
      BY <1>4, <2>2, EmptySeq
    <3> QED BY <1>2, <1>4, <2>2, <3>1
  <2> QED BY <2>1, <2>2
<1>11. ts # <<>> => gs[1].to = Len(log)
  <2> SUFFICES ASSUME ts # <<>> PROVE gs[1].to = Len(log)
    OBVIOUS
  <2>1. 1 \in 1..(n - 1)
    BY <1>2, <1>10
  <2> QED BY <1>3, <1>9, <2>1
<1>12. n > 1 => gs[n - 1].at = fs[n].to
  <2> SUFFICES ASSUME n > 1 PROVE gs[n - 1].at = fs[n].to
    OBVIOUS
  <2>1. n - 1 \in 1..(n - 1) /\ (n - 1) + 1 = n
    BY <1>2
  <2> QED BY <1>3, <1>7, <2>1
<1>13. Stack(gs, ts)
  BY <1>3, <1>4, <1>6, <1>8, <1>11 DEF Stack
<1> QED BY <1>2, <1>4, <1>5, <1>9, <1>10, <1>12, <1>13 DEF Popped

\* The top is replaced.
LEMMA StackReplace ==
    ASSUME NEW fs, NEW ss, Stack(fs, ss), ss # <<>>, NEW n, n = Len(ss),
           NEW f, NEW s, IsFrame(s, f), f.to = fs[n].to
    PROVE  /\ Stack(Append(SubSeq(fs, 1, n - 1), f), Append(SubSeq(ss, 1, n - 1), s))
           /\ Len(Append(SubSeq(ss, 1, n - 1), s)) = n
           /\ Append(SubSeq(fs, 1, n - 1), f)[n] = f
           /\ Append(SubSeq(ss, 1, n - 1), s)[n] = s
           /\ Append(SubSeq(ss, 1, n - 1), s) # <<>>
<1>0. PICK m, gs, ts : m = n - 1 /\ gs = SubSeq(fs, 1, m) /\ ts = SubSeq(ss, 1, m)
  OBVIOUS
<1>1. /\ Stack(gs, ts) /\ n \in Nat /\ n >= 1 /\ Len(ts) = n - 1
      /\ (ts = <<>> => n = 1) /\ (ts # <<>> => n > 1)
      /\ n = 1 => fs[n].to = Len(log)
      /\ n > 1 => gs[n - 1].at = fs[n].to
  <2>1. Popped(n, fs, ss, gs, ts)
    BY <1>0, StackPop
  <2> QED BY <2>1 DEF Popped
<1>2. ts = <<>> => f.to = Len(log)
  BY <1>1
<1>3. ts # <<>> => gs[Len(ts)].at = f.to
  BY <1>1
<1>4. Stack(Append(gs, f), Append(ts, s))
  BY <1>1, <1>2, <1>3, StackPush
<1>5. gs \in Seq(Frames) /\ ts \in Seq(Streams) /\ Len(gs) = n - 1 /\ f \in Frames /\ s \in Streams
  BY <1>1 DEF Stack, IsFrame
<1>6. Len(Append(ts, s)) = n /\ Append(gs, f)[n] = f /\ Append(ts, s)[n] = s /\ Append(ts, s) # <<>>
  BY <1>1, <1>5
<1> QED BY <1>0, <1>4, <1>6

-----------------------------------------------------------------------------
(* A stream at the next call *)

\* What the frames of a stream have in common.
LEMMA FrameFacts ==
    ASSUME LayoutInv, Closed, NEW N, N = Len(log), NEW s, NEW f, IsFrame(s, f), NEW c, c = f.at
    PROVE  /\ c \in 1..N /\ c + 1 \in 1..N /\ f.to \in 1..N /\ f.from \in 1..N
           /\ f.from <= c /\ c + 1 <= f.to /\ (c + 1 # f.to => c + 1 < f.to)
           /\ s.at = Predicted[c] /\ s.end = Predicted[f.to] /\ s.at \in Nat /\ s.end \in Nat
           /\ Predicted[c + 1] \in Nat /\ Predicted[c + 1] <= s.end
<1>1. N \in Nat /\ log \in Seq(Calls)
  BY ClosedFacts
<1>2. /\ f \in Frames /\ 1 <= f.from /\ f.from <= f.at /\ f.at < f.to /\ f.to <= N
      /\ s.at = Predicted[f.at] /\ s.end = Predicted[f.to]
  BY DEF IsFrame
<1>3. f.from \in Nat /\ f.at \in Nat /\ f.to \in Nat
  BY <1>2 DEF Frames
<1>4. /\ c \in 1..N /\ c + 1 \in 1..N /\ f.to \in 1..N /\ f.from \in 1..N
      /\ f.from <= c /\ c + 1 <= f.to /\ (c + 1 # f.to => c + 1 < f.to)
  BY <1>1, <1>2, <1>3
<1>5. c \in 0..N /\ c + 1 \in 0..N /\ f.to \in 0..N
  BY <1>1, <1>4
<1>6. Predicted[c] \in Nat /\ Predicted[c + 1] \in Nat /\ Predicted[f.to] \in Nat
  BY <1>1, <1>5, Places
<1>7. Predicted[c + 1] <= Predicted[f.to]
  BY <1>1, <1>4, <1>5, Places
<1> QED BY <1>2, <1>4, <1>6, <1>7

\* A bundle has another packet before it ends.
LEMMA BundleGoesOn ==
    ASSUME LayoutInv, Closed, NEW N, N = Len(log), NEW s, NEW f, IsFrame(s, f),
           s.kind = "bundle", NEW c, c = f.at
    PROVE  /\ s.at < s.end => c + 1 < f.to /\ Opens(log[c + 1])
           /\ s.at = s.end => c + 1 = f.to
           /\ log[f.to] = <<"end">>
<1>1. /\ c \in 1..N /\ c + 1 \in 1..N /\ f.to \in 1..N /\ f.from \in 1..N
      /\ f.from <= c /\ c + 1 <= f.to /\ (c + 1 # f.to => c + 1 < f.to)
      /\ s.at = Predicted[c] /\ s.end = Predicted[f.to] /\ s.at \in Nat /\ s.end \in Nat
      /\ Predicted[c + 1] \in Nat /\ Predicted[c + 1] <= s.end
  BY FrameFacts
<1>2. BundleFrame(s, f)
  BY DEF IsFrame, ArgumentFrame
<1>3. /\ log[f.from][1] = "bundle" /\ log[f.to] = <<"end">> /\ Encloses(f.from, f.to)
      /\ Depth[c] = Depth[f.from] /\ ~Inside(log[c])
  BY <1>2 DEF BundleFrame
<1>4. /\ N \in Nat /\ log \in Seq(Calls) /\ log[c + 1] \in Calls
      /\ \A i \in 0..N : Depth[i] \in Nat
  BY <1>1, ClosedFacts
<1>5. ~IsArgument(log[c + 1]) /\ log[c + 1][1] # "close"
  <2>1. PICK i \in 1..N : i = c + 1
    BY <1>1
  <2>2. (IsArgument(log[i]) \/ log[i][1] = "close") <=> (i > 1 /\ Inside(log[i - 1]))
    BY ClosedFacts
  <2>3. i - 1 = c
    BY <1>1, <2>1
  <2> QED BY <1>3, <2>1, <2>2, <2>3
<1>6. Opens(log[c + 1]) \/ log[c + 1] = <<"end">>
  <2>1. Opens(log[c + 1]) \/ Closes(log[c + 1]) \/ IsArgument(log[c + 1])
    BY <1>4, CallProperties
  <2>2. log[c + 1][1] = "end" => log[c + 1] = <<"end">>
    BY <1>4, CallProperties
  <2> QED BY <1>5, <2>1, <2>2 DEF Closes
<1>7. CASE Opens(log[c + 1])
  <2>1. Predicted[c + 1] > Predicted[c]
    <3>1. /\ Start(c + 1) = Predicted[c + 1 - 1] + Prefix(c + 1)
          /\ Predicted[c + 1] = Start(c + 1) + SizeOf(log[c + 1])
      BY <1>1, <1>4, Places
    <3>2. c + 1 - 1 = c /\ Prefix(c + 1) = 1
      BY <1>1, <1>7 DEF Prefix
    <3>3. SizeOf(log[c + 1]) \in Nat
      BY <1>4, CallProperties
    <3>4. Start(c + 1) = Predicted[c] + 1
      BY <3>1, <3>2
    <3> QED BY <1>1, <3>1, <3>3, <3>4
  <2>2. s.at # s.end
    BY <1>1, <2>1
  <2>3. c + 1 # f.to
    BY <1>3, <1>7 DEF Opens
  <2> QED BY <1>1, <1>3, <1>7, <2>2, <2>3
<1>8. CASE log[c + 1] = <<"end">>
  <2>1. Depth[c + 1] = Depth[c] - 1
    <3>1. PICK i \in 1..N : i = c + 1
      BY <1>1
    <3>2. Depth[i] = Depth[i - 1] + (IF Opens(log[i]) THEN 1 ELSE IF Closes(log[i]) THEN -1 ELSE 0)
      BY <1>4, Places
    <3>3. ~Opens(log[i]) /\ Closes(log[i])
      BY <1>8, <3>1 DEF Opens, Closes
    <3>4. i - 1 = c /\ Depth[c] \in Nat
      BY <1>1, <1>4, <3>1
    <3> QED BY <3>1, <3>2, <3>3, <3>4
  <2>2. Depth[f.from] = Depth[f.from - 1] + 1
    <3>1. Depth[f.from] = Depth[f.from - 1]
              + (IF Opens(log[f.from]) THEN 1 ELSE IF Closes(log[f.from]) THEN -1 ELSE 0)
      BY <1>1, <1>4, Places
    <3>2. Opens(log[f.from])
      BY <1>3 DEF Opens
    <3> QED BY <3>1, <3>2
  <2>3. Depth[f.from - 1] \in Nat
    <3>1. f.from - 1 \in 0..N
      BY <1>1
    <3> QED BY <1>4, <3>1
  <2>4. Depth[c + 1] = Depth[f.from - 1]
    BY <1>3, <2>1, <2>2, <2>3
  <2>5. c + 1 = f.to
    <3>1. \A k \in f.from..(f.to - 1) : Depth[k] > Depth[f.from - 1]
      BY <1>3 DEF Encloses
    <3>2. CASE c + 1 # f.to
      <4>1. c + 1 \in f.from..(f.to - 1)
        BY <1>1, <3>2
      <4>2. Depth[c + 1] > Depth[f.from - 1]
        BY <3>1, <4>1
      <4> QED BY <2>3, <2>4, <4>2
    <3> QED BY <3>2
  <2>6. Predicted[c + 1] = Predicted[c]
    <3>1. /\ Start(c + 1) = Predicted[c + 1 - 1] + Prefix(c + 1)
          /\ Predicted[c + 1] = Start(c + 1) + SizeOf(log[c + 1])
      BY <1>1, <1>4, Places
    <3>2. c + 1 - 1 = c /\ Prefix(c + 1) = 0 /\ SizeOf(log[c + 1]) = 0
      BY <1>1, <1>8 DEF Prefix, Opens, SizeOf
    <3> QED BY <1>1, <3>1, <3>2
  <2> QED BY <1>1, <1>3, <2>5, <2>6
<1> QED BY <1>6, <1>7, <1>8

\* A message or an array has another argument, which has a tag, before it ends.
LEMMA ArgumentsGoOn ==
    ASSUME LayoutInv, Closed, ~miscounted, NEW N, N = Len(log), NEW s, NEW f, IsFrame(s, f),
           s.kind # "bundle", NEW c, c = f.at
    PROVE  /\ (s.tag < s.stop) = (c + 1 < f.to)
           /\ (s.tag = s.stop) = (c + 1 = f.to)
           /\ c + 1 < f.to => IsArgument(log[c + 1]) /\ Tag(s.tag) = log[c + 1][1]
           /\ s.kind = "message" => log[f.to] = <<"close">>
           /\ s.kind = "array" => ArrayFrame(f)
           /\ f.of \in 1..N /\ TagsAt(f.of) \in Nat /\ f.of <= f.from
<1>1. /\ c \in 1..N /\ c + 1 \in 1..N /\ f.to \in 1..N /\ f.from \in 1..N
      /\ f.from <= c /\ c + 1 <= f.to /\ (c + 1 # f.to => c + 1 < f.to)
  BY FrameFacts
<1>2. N \in Nat
  BY ClosedFacts
<1>3. ArgumentFrame(s, f)
  BY DEF IsFrame, BundleFrame
<1>4. PICK e \in f.to..N : MessageSpan(f.of, e) /\ (s.kind = "message" => e = f.to)
  BY <1>3 DEF ArgumentFrame
<1>5. /\ s.tag = TagsAt(f.of) + (c + 1 - f.of) /\ s.stop = TagsAt(f.of) + (f.to - f.of)
      /\ 1 <= f.of /\ f.of <= f.from /\ (s.kind = "array" => ArrayFrame(f))
  BY <1>3 DEF ArgumentFrame
<1>6. f.of \in Nat
  BY DEF IsFrame, Frames
<1>7. f.of \in 1..N /\ e \in 1..N
  BY <1>1, <1>2, <1>4, <1>5, <1>6
<1>8. /\ \A b \in 0..(e - f.of) : Tag(TagsAt(f.of) + b) = TagByte(f.of, b)
      /\ Address(f.of) \in Nat /\ TagsAt(f.of) = 4 * Address(f.of)
  <2>1. Predicted[f.of] \in Nat /\ Predicted[f.of] <= Predicted[f.of]
    <3>1. Predicted[f.of] \in Nat
      BY <1>2, <1>7, ClosedFacts
    <3> QED BY <3>1
  <2>2. MessageSpan(f.of, e)
    BY <1>4
  <2> QED BY <1>7, <2>1, <2>2, MessageIsRead DEF TagsAt
<1>9. TagsAt(f.of) \in Nat
  BY <1>8
<1>10. (s.tag < s.stop) = (c + 1 < f.to) /\ (s.tag = s.stop) = (c + 1 = f.to)
  <2>1. PICK o \in Nat, t \in Nat, x \in Nat : o = f.of /\ t = f.to /\ x = TagsAt(f.of)
    BY <1>1, <1>6, <1>9
  <2>2. c \in Nat /\ o <= c /\ c + 1 <= t
    <3>1. PICK m \in Nat : m = f.from
      BY <1>1
    <3>2. o <= m /\ m <= c /\ c + 1 <= t
      BY <1>1, <1>5, <2>1, <3>1
    <3>3. c \in Nat
      BY <1>1
    <3> QED BY <3>2, <3>3
  <2>3. PICK y \in Nat, z \in Nat : y = s.tag /\ z = s.stop
    BY DEF IsFrame, Streams
  <2>4. y = x + (c + 1 - o) /\ z = x + (t - o)
    BY <1>5, <2>1, <2>3
  <2>5. CASE c + 1 < t
    <3>1. y < z /\ y # z /\ c + 1 # t
      BY <2>2, <2>4, <2>5, SMTT(30)
    <3> QED BY <2>1, <2>3, <2>5, <3>1
  <2>6. CASE c + 1 = t
    <3>1. ~(y < z) /\ y = z /\ ~(c + 1 < t)
      BY <2>2, <2>4, <2>6
    <3> QED BY <2>1, <2>3, <2>6, <3>1
  <2> QED BY <2>2, <2>5, <2>6
<1>11. ASSUME c + 1 < f.to PROVE IsArgument(log[c + 1]) /\ Tag(s.tag) = log[c + 1][1]
  <2>1. c + 1 \in (f.of + 1)..(e - 1)
    BY <1>1, <1>4, <1>5, <1>6, <1>7, <1>11
  <2>2. IsArgument(log[c + 1])
    BY <1>4, <2>1 DEF MessageSpan
  <2>3. PICK b : b = c + 1 - f.of
    OBVIOUS
  <2>4. b \in Nat /\ b # 0 /\ f.of + b = c + 1 /\ f.of + b < e /\ b \in 0..(e - f.of)
    <3>1. PICK o \in Nat : o = f.of
      BY <1>6
    <3>2. e \in Nat /\ c + 1 \in (o + 1)..(e - 1) /\ c \in Nat /\ b = c + 1 - o
      BY <1>1, <1>2, <1>7, <2>1, <2>3, <3>1
    <3>3. b \in Nat /\ b # 0 /\ o + b = c + 1 /\ o + b < e /\ b \in 0..(e - o)
      BY <3>2, SMTT(30)
    <3> QED BY <3>1, <3>3
  <2>5. TagByte(f.of, b) = IF b = 0 THEN "," ELSE IF f.of + b < e THEN log[f.of + b][1] ELSE ""
    BY <1>4, <1>7, <2>4, TagsOfMessage
  <2>6. Tag(s.tag) = TagByte(f.of, b)
    BY <1>5, <1>8, <2>3, <2>4
  <2> QED BY <2>2, <2>4, <2>5, <2>6
<1>12. s.kind = "message" => log[f.to] = <<"close">>
  BY <1>4 DEF MessageSpan
<1> QED BY <1>5, <1>7, <1>9, <1>10, <1>11, <1>12

\* The stream behind an argument that ends at q, and the frame behind call i.
Onwards(s, q) == [s EXCEPT !.at = q, !.tag = @ + 1]
UpTo(f, i)    == [f EXCEPT !.at = i]

\* The stream goes on to the next argument.
LEMMA ArgumentFrameMoves ==
    ASSUME LayoutInv, Closed, ~miscounted, NEW N, N = Len(log), NEW s, NEW f, IsFrame(s, f),
           s.kind # "bundle", NEW c, c = f.at, NEW i, i = c + 1, i < f.to,
           NEW q, q = Predicted[i], NEW g, g = UpTo(f, i), NEW r, r = Onwards(s, q)
    PROVE  /\ IsFrame(r, g) /\ g.to = f.to /\ g.at = i /\ g.from = f.from /\ g.of = f.of
           /\ r.kind = s.kind
<1>1. /\ c \in 1..N /\ c + 1 \in 1..N /\ f.to \in 1..N /\ f.from \in 1..N
      /\ f.from <= c /\ s.end = Predicted[f.to] /\ Predicted[c + 1] \in Nat
  BY FrameFacts
<1>2. f \in Frames /\ s \in Streams /\ f.of \in Nat /\ s.tag \in Nat
  BY DEF IsFrame, Frames, Streams
<1>3. /\ g \in Frames /\ g.to = f.to /\ g.at = c + 1 /\ g.from = f.from /\ g.of = f.of
  BY <1>1, <1>2 DEF Frames, UpTo
<1>4. /\ r \in Streams /\ r.kind = s.kind /\ r.at = q /\ r.end = s.end
      /\ r.tag = s.tag + 1 /\ r.stop = s.stop
  <2>1. PICK y : y = s.tag + 1
    OBVIOUS
  <2>2. y \in Nat /\ q \in Nat
    BY <1>1, <1>2, <2>1
  <2>3. r = [s EXCEPT !.at = q, !.tag = y]
    BY <2>1 DEF Onwards
  <2> QED BY <1>2, <2>1, <2>2, <2>3 DEF Streams
<1>5. ArgumentFrame(s, f)
  BY DEF IsFrame, BundleFrame
<1>6. ArrayFrame(f) => ArrayFrame(g)
  BY <1>3 DEF ArrayFrame
<1>7. r.tag = TagsAt(g.of) + (g.at + 1 - g.of)
  <2>1. PICK x \in Nat, o \in Nat : x = TagsAt(f.of) /\ o = f.of
    <3>1. TagsAt(f.of) \in Nat
      BY ArgumentsGoOn
    <3> QED BY <1>2, <3>1
  <2>2. s.tag = x + (c + 1 - o)
    BY <1>5, <2>1 DEF ArgumentFrame
  <2>3. c \in Nat
    BY <1>1
  <2>4. PICK y \in Nat : y = s.tag
    BY <1>2
  <2>5. y + 1 = x + (c + 1 + 1 - o)
    BY <2>2, <2>3, <2>4
  <2> QED BY <1>3, <1>4, <2>1, <2>4, <2>5
<1>8. ArgumentFrame(r, g)
  <2>1. /\ \E e \in g.to..Len(log) : MessageSpan(g.of, e) /\ (r.kind = "message" => e = g.to)
        /\ 1 <= g.of /\ g.of <= g.from
        /\ r.stop = TagsAt(g.of) + (g.to - g.of)
        /\ \/ r.kind = "message" /\ g.of = g.from
           \/ r.kind = "array" /\ ArrayFrame(g)
    BY <1>3, <1>4, <1>5, <1>6 DEF ArgumentFrame
  <2> QED BY <1>7, <2>1 DEF ArgumentFrame
<1>9. /\ 1 <= g.from /\ g.from <= g.at /\ g.at < g.to /\ g.to <= Len(log)
      /\ r.at = Predicted[g.at] /\ r.end = Predicted[g.to]
  <2>1. N \in Nat
    BY ClosedFacts
  <2> QED BY <1>1, <1>3, <1>4, <2>1
<1> QED BY <1>3, <1>4, <1>8, <1>9 DEF IsFrame

\* The stream goes on behind the packet that ends with call e.
LEMMA BundleFrameMoves ==
    ASSUME LayoutInv, Closed, NEW N, N = Len(log), NEW s, NEW f, IsFrame(s, f),
           s.kind = "bundle", NEW e \in 1..N, f.at <= e, e < f.to,
           Depth[e] = Depth[f.from], ~Inside(log[e]), NEW q, q = Predicted[e],
           NEW g, g = UpTo(f, e), NEW r, r = [s EXCEPT !.at = q]
    PROVE  IsFrame(r, g) /\ g.to = f.to /\ g.at = e
<1>1. /\ f.to \in 1..N /\ f.from \in 1..N /\ f.at \in 1..N
      /\ f.from <= f.at /\ s.end = Predicted[f.to]
  BY FrameFacts
<1>2. f \in Frames /\ s \in Streams /\ N \in Nat /\ q \in Nat
  <2>1. N \in Nat /\ \A i \in 0..N : Predicted[i] \in Nat
    BY ClosedFacts
  <2> QED BY <2>1 DEF IsFrame
<1>3. /\ g \in Frames /\ g.to = f.to /\ g.at = e /\ g.from = f.from /\ g.of = f.of
  BY <1>1, <1>2 DEF Frames, UpTo
<1>4. r \in Streams /\ r.kind = s.kind /\ r.at = q /\ r.end = s.end
  BY <1>1, <1>2 DEF Streams
<1>5. BundleFrame(s, f)
  BY DEF IsFrame, ArgumentFrame
<1>6. BundleFrame(r, g)
  BY <1>3, <1>4, <1>5 DEF BundleFrame
<1>7. /\ 1 <= g.from /\ g.from <= g.at /\ g.at < g.to /\ g.to <= Len(log)
      /\ r.at = Predicted[g.at] /\ r.end = Predicted[g.to]
  BY <1>1, <1>2, <1>3, <1>4
<1> QED BY <1>3, <1>4, <1>6, <1>7 DEF IsFrame

-----------------------------------------------------------------------------
(* The invariant of the reader *)

\* dropArray is in the array that call L + 1 opens.
IsDropping(s, f, dr, L) ==
    /\ dr \in [level : Nat, at : Nat, tag : Nat]
    /\ s.kind # "bundle"
    /\ f.from <= L /\ L < f.at
    /\ log[L + 1] = <<"[", <<>>>>
    /\ dr.at = Predicted[L + 1]
    /\ dr.tag = TagsAt(f.of) + (L + 2 - f.of)
    /\ dr.level = Brackets[f.at] - Brackets[L + 1]
    /\ \A k \in (L + 1)..f.at : Brackets[k] >= Brackets[L + 1]

\* The first L calls have been read, and the streams are those of the calls that are
\* open behind them.
WalkIs(fs, L, ss, dr, sn) ==
    /\ L \in 0..Len(log)
    /\ sn = [i \in 1..L |-> Written(log[i])]
    /\ Stack(fs, ss)
    /\ ss = <<>> => L = Len(log) /\ dr = None
    /\ ss # <<>> /\ dr = None => fs[Len(ss)].at = L
    /\ ss # <<>> /\ dr # None => IsDropping(ss[Len(ss)], fs[Len(ss)], dr, L)

Walk(ss, dr, sn) == \E fs, L : WalkIs(fs, L, ss, dr, sn)

\* The reader of a packet as promised is where its streams say, and has not failed.
ReadInv ==
    /\ LayoutInv
    /\ reader \in {"idle", "reading", "failed"}
    /\ reader = "idle" => dropping = None /\ seen = <<>>
    /\ reader # "idle" => Closed
    /\ reader # "idle" /\ ~miscounted /\ ArraysNested =>
           reader = "reading" /\ Walk(streams, dropping, seen)

\* One more call is seen.
LEMMA SeenGrows ==
    ASSUME NEW L \in Nat, NEW K, K = L + 1, NEW sn, sn = [i \in 1..L |-> Written(log[i])]
    PROVE  Append(sn, Written(log[K])) = [i \in 1..K |-> Written(log[i])]
<1> DEFINE S == {Written(log[i]) : i \in 1..K}
           w == [i \in 1..K |-> Written(log[i])]
<1>1. sn \in Seq(S) /\ Len(sn) = L /\ Written(log[K]) \in S
  <2>1. \A i \in 1..L : Written(log[i]) \in S
    OBVIOUS
  <2>2. K \in 1..K
    OBVIOUS
  <2> QED BY <2>1, <2>2, SMTT(30)
<1>2. /\ w = [i \in 1..K |-> w[i]] /\ \A i \in 1..K : w[i] = Written(log[i])
      /\ \A i \in 1..K : w[i] \in S
  OBVIOUS
<1>4. \A i \in 1..L : sn[i] = Written(log[i])
  OBVIOUS
<1> HIDE DEF S, w
<1>5. PICK x : x = Append(sn, Written(log[K]))
  OBVIOUS
<1>6. x \in Seq(S) /\ Len(x) = K /\ x[K] = Written(log[K]) /\ \A i \in 1..L : x[i] = sn[i]
  BY <1>1, <1>5
<1>7. \A i \in 1..K : x[i] = w[i]
  <2> SUFFICES ASSUME NEW i \in 1..K PROVE x[i] = w[i]
    OBVIOUS
  <2>1. CASE i = K
    BY <1>2, <1>6, <2>1
  <2>2. CASE i # K
    <3>1. i \in 1..L
      BY <2>2
    <3> QED BY <1>2, <1>4, <1>6, <3>1
  <2> QED BY <2>1, <2>2
<1>8. x = w
  <2>1. w \in Seq(S) /\ Len(w) = K
    BY <1>2, FunctionIsSequence
  <2>2. x = [i \in 1..K |-> x[i]]
    BY <1>6
  <2> QED BY <1>2, <1>7, <2>2
<1> QED BY <1>5, <1>8 DEF w

-----------------------------------------------------------------------------
(* The steps of the reader *)

\* The stream on top, and the call it has been read up to.
LEMMA WalkTop ==
    ASSUME NEW fs, NEW L, NEW ss, NEW dr, NEW sn, WalkIs(fs, L, ss, dr, sn), ss # <<>>,
           NEW n, n = Len(ss)
    PROVE  /\ Stack(fs, ss) /\ IsFrame(ss[n], fs[n])
           /\ dr = None => fs[n].at = L
           /\ dr # None => IsDropping(ss[n], fs[n], dr, L)
           /\ sn = [i \in 1..L |-> Written(log[i])]
<1>1. Stack(fs, ss)
  BY DEF WalkIs
<1>2. PICK m, gs, ts : m = n - 1 /\ gs = SubSeq(fs, 1, m) /\ ts = SubSeq(ss, 1, m)
  OBVIOUS
<1>3. Popped(n, fs, ss, gs, ts)
  BY <1>1, <1>2, StackPop
<1> QED BY <1>1, <1>3 DEF WalkIs, Popped

\* Another frame takes its place.
WithTop(fs, g) == Append(SubSeq(fs, 1, Len(fs) - 1), g)

LEMMA TopMoves ==
    ASSUME NEW fs, Stack(fs, streams), streams # <<>>, NEW n, n = Len(streams),
           NEW g, NEW r, IsFrame(r, g), g.to = fs[n].to,
           NEW ts, ts = Replace(r), NEW gs, gs = WithTop(fs, g)
    PROVE  Stack(gs, ts) /\ ts # <<>> /\ Len(ts) = n /\ ts[n] = r /\ gs[n] = g
<1>1. Len(fs) = n
  BY DEF Stack
<1>2. ts = Append(SubSeq(streams, 1, n - 1), r) /\ gs = Append(SubSeq(fs, 1, n - 1), g)
  BY <1>1 DEF Replace, Below, WithTop
<1>3. /\ Stack(Append(SubSeq(fs, 1, n - 1), g), Append(SubSeq(streams, 1, n - 1), r))
      /\ Len(Append(SubSeq(streams, 1, n - 1), r)) = n
      /\ Append(SubSeq(fs, 1, n - 1), g)[n] = g
      /\ Append(SubSeq(streams, 1, n - 1), r)[n] = r
      /\ Append(SubSeq(streams, 1, n - 1), r) # <<>>
  BY StackReplace
<1> QED BY <1>2, <1>3

\* Only messages are read with less than was written.
LEMMA WrittenArgument ==
    ASSUME NEW call, call[1] # "message"
    PROVE  Written(call) = call
BY DEF Written

\* What an array opens and closes with is an argument, which the stream goes on to.
LEMMA ReadArgumentWalks ==
    ASSUME LayoutInv, Closed, ~miscounted, Walk(streams, dropping, seen), ReadArgument
    PROVE  reader' = "reading" /\ Walk(streams', dropping', seen')
<1>0. PICK N : N = Len(log)
  OBVIOUS
<1>1. PICK fs, L : WalkIs(fs, L, streams, dropping, seen)
  BY DEF Walk
<1>2. PICK n, s, f : n = Len(streams) /\ s = streams[n] /\ f = fs[n]
  OBVIOUS
<1>3. /\ streams # <<>> /\ dropping = None /\ s.kind # "bundle" /\ s.tag < s.stop
      /\ reader = "reading" /\ Top = s
  BY <1>2 DEF ReadArgument, AtArgument, Top
<1>4. Stack(fs, streams) /\ IsFrame(s, f) /\ f.at = L /\ seen = [i \in 1..L |-> Written(log[i])]
  BY <1>1, <1>2, <1>3, WalkTop
<1>5. PICK i : i = L + 1
  OBVIOUS
<1>6. /\ L \in 1..N /\ i \in 1..N /\ i - 1 = L
      /\ s.at = Predicted[L] /\ s.end \in Nat /\ Predicted[i] \in Nat /\ Predicted[i] <= s.end
  BY <1>0, <1>4, <1>5, FrameFacts
<1>7. i < f.to /\ IsArgument(log[i]) /\ Tag(s.tag) = log[i][1]
  BY <1>0, <1>3, <1>4, <1>5, ArgumentsGoOn
<1>8. PICK q, p : q = Predicted[i] /\ p = Predicted[i - 1]
  OBVIOUS
<1>9. /\ ArgEnd(log[i][1], p, s.end) = q
      /\ WordsRead(log[i][1], p, q) = log[i]
  BY <1>0, <1>6, <1>7, <1>8, ArgumentIsRead
<1>10. p = s.at /\ q # None
  BY <1>6, <1>8, NoneAssumption
<1>11. PICK r : r = Onwards(s, q)
  OBVIOUS
<1>12. /\ reader' = "reading" /\ dropping' = None /\ streams' = Replace(r)
       /\ seen' = Append(seen, log[i])
  BY <1>3, <1>7, <1>9, <1>10, <1>11 DEF ReadArgument, WordsRead, Onwards
<1>13. PICK g, gs : g = UpTo(f, i) /\ gs = WithTop(fs, g)
  OBVIOUS
<1>14. IsFrame(r, g) /\ g.to = f.to /\ g.at = i
  BY <1>0, <1>3, <1>4, <1>5, <1>7, <1>8, <1>11, <1>13, ArgumentFrameMoves
<1>15. Stack(gs, streams') /\ streams' # <<>> /\ Len(streams') = n /\ gs[n] = g
  BY <1>2, <1>3, <1>4, <1>12, <1>13, <1>14, TopMoves
<1>16. seen' = [j \in 1..i |-> Written(log[j])]
  <2>1. Written(log[i]) = log[i]
    BY <1>7, WrittenArgument DEF IsArgument
  <2>2. L \in Nat
    BY <1>6
  <2>3. Append(seen, Written(log[i])) = [j \in 1..i |-> Written(log[j])]
    BY <1>4, <1>5, <2>2, SeenGrows
  <2> QED BY <1>12, <2>1, <2>3
<1>17. i \in 0..Len(log)
  BY <1>0, <1>6
<1>18. WalkIs(gs, i, streams', dropping', seen')
  BY <1>12, <1>14, <1>15, <1>16, <1>17 DEF WalkIs
<1> QED BY <1>12, <1>18 DEF Walk

\* dropArray is called behind the bracket that opens the array.
LEMMA ReadArrayWalks ==
    ASSUME LayoutInv, Closed, ~miscounted, Walk(streams, dropping, seen), ReadArray
    PROVE  reader' = "reading" /\ Walk(streams', dropping', seen')
<1>0. PICK N : N = Len(log)
  OBVIOUS
<1>1. PICK fs, L : WalkIs(fs, L, streams, dropping, seen)
  BY DEF Walk
<1>2. PICK n, s, f : n = Len(streams) /\ s = streams[n] /\ f = fs[n]
  OBVIOUS
<1>3. /\ streams # <<>> /\ dropping = None /\ s.kind # "bundle" /\ s.tag < s.stop
      /\ reader = "reading" /\ Top = s /\ Tag(s.tag) = "["
  BY <1>2 DEF ReadArray, AtArgument, Top
<1>4. Stack(fs, streams) /\ IsFrame(s, f) /\ f.at = L /\ seen = [i \in 1..L |-> Written(log[i])]
  BY <1>1, <1>2, <1>3, WalkTop
<1>5. PICK i : i = L + 1
  OBVIOUS
<1>6. /\ L \in 1..N /\ i \in 1..N /\ i - 1 = L /\ f.from <= L /\ N \in Nat
      /\ s.at = Predicted[L] /\ s.end \in Nat /\ Predicted[i] \in Nat /\ Predicted[i] <= s.end
  BY <1>0, <1>4, <1>5, FrameFacts, ClosedFacts
<1>7. i < f.to /\ IsArgument(log[i]) /\ log[i][1] = "["
      /\ f.of \in 1..N /\ TagsAt(f.of) \in Nat /\ f.of <= f.from
  BY <1>0, <1>3, <1>4, <1>5, ArgumentsGoOn
<1>8. PICK q, p : q = Predicted[i] /\ p = Predicted[i - 1]
  OBVIOUS
<1>9. q = p /\ log[i] = <<"[", <<>>>>
  <2>1. log[i][1] \in {"[", "]"} => q = p /\ log[i] = <<log[i][1], <<>>>>
    BY <1>0, <1>6, <1>7, <1>8, ArgumentIsRead
  <2> QED BY <1>7, <2>1
<1>10. s.at = q
  BY <1>6, <1>8, <1>9
<1>11. PICK r, dr : /\ r = Onwards(s, q)
                    /\ dr = [level |-> 0, at |-> q, tag |-> s.tag + 1]
  OBVIOUS
<1>12. /\ reader' = "reading" /\ dropping' = dr /\ streams' = Replace(r) /\ seen' = seen
  <2>1. r = [s EXCEPT !.tag = @ + 1]
    <3>1. s \in Streams
      BY <1>4 DEF IsFrame
    <3> QED BY <1>10, <1>11, <3>1 DEF Streams, Onwards
  <2> QED BY <1>3, <1>10, <1>11, <2>1 DEF ReadArray
<1>13. PICK g, gs : g = UpTo(f, i) /\ gs = WithTop(fs, g)
  OBVIOUS
<1>14. IsFrame(r, g) /\ g.to = f.to /\ g.at = i /\ g.from = f.from /\ g.of = f.of
       /\ r.kind = s.kind
  BY <1>0, <1>3, <1>4, <1>5, <1>7, <1>8, <1>11, <1>13, ArgumentFrameMoves
<1>15. /\ Stack(gs, streams') /\ streams' # <<>> /\ Len(streams') = n
       /\ gs[n] = g /\ streams'[n] = r
  BY <1>2, <1>3, <1>4, <1>12, <1>13, <1>14, TopMoves
<1>16. IsDropping(r, g, dr, L)
  <2>1. s.tag + 1 = TagsAt(f.of) + (L + 2 - f.of) /\ s.tag + 1 \in Nat
    <3>1. PICK x \in Nat, o \in Nat : x = TagsAt(f.of) /\ o = f.of
      BY <1>7
    <3>2. s.tag = TagsAt(f.of) + (f.at + 1 - f.of)
      BY <1>3, <1>4 DEF IsFrame, BundleFrame, ArgumentFrame
    <3>3. PICK y : y = s.tag
      OBVIOUS
    <3>4. y = x + (L + 1 - o)
      BY <1>4, <3>1, <3>2, <3>3
    <3>5. L \in Nat /\ o <= L
      <4>1. f.from \in Nat
        BY <1>4 DEF IsFrame, Frames
      <4>2. PICK z \in Nat : z = f.from
        BY <4>1
      <4>3. o <= z /\ z <= L /\ L \in Nat
        BY <1>6, <1>7, <3>1, <4>2
      <4> QED BY <4>3
    <3>6. y + 1 = x + (L + 2 - o) /\ y + 1 \in Nat
      BY <3>4, <3>5
    <3> QED BY <3>1, <3>3, <3>6
  <2>2. dr \in [level : Nat, at : Nat, tag : Nat] /\ dr.level = 0 /\ dr.at = q /\ dr.tag = s.tag + 1
    BY <1>6, <1>8, <1>11, <2>1
  <2>3. Brackets[i] \in Int
    <3>1. i \in 0..N
      BY <1>6
    <3> QED BY <1>0, <3>1, BracketSteps
  <2>4. 0 = Brackets[g.at] - Brackets[L + 1]
    BY <1>5, <1>14, <2>3
  <2>5. \A k \in (L + 1)..g.at : Brackets[k] >= Brackets[L + 1]
    <3>1. \A k \in i..i : Brackets[k] >= Brackets[i]
      BY <1>6, <2>3
    <3> QED BY <1>5, <1>14, <3>1
  <2>6. g.from <= L /\ L < g.at
    BY <1>5, <1>6, <1>14
  <2> QED BY <1>3, <1>5, <1>8, <1>9, <1>14, <2>1, <2>2, <2>4, <2>5, <2>6 DEF IsDropping
<1>17. dr # None
  BY <1>16, DroppingAssumption DEF IsDropping
<1>18. L \in 0..Len(log)
  BY <1>0, <1>6
<1>19. WalkIs(gs, L, streams', dropping', seen')
  BY <1>4, <1>12, <1>15, <1>16, <1>17, <1>18 DEF WalkIs
<1> QED BY <1>12, <1>19 DEF Walk

\* While dropArray is in an array the stream has tags left.
LEMMA ArrayGoesOn ==
    ASSUME LayoutInv, Closed, ~miscounted, ArraysNested, NEW N, N = Len(log), NEW s, NEW f,
           IsFrame(s, f), NEW dr, NEW L, L \in 0..N, IsDropping(s, f, dr, L), NEW c, c = f.at
    PROVE  c + 1 < f.to
<1>1. /\ c \in 1..N /\ c + 1 \in 1..N /\ f.to \in 1..N /\ f.from \in 1..N
      /\ f.from <= c /\ c + 1 <= f.to /\ (c + 1 # f.to => c + 1 < f.to)
  BY FrameFacts
<1>2. PICK i : i = L + 1
  OBVIOUS
<1>3. /\ s.kind # "bundle" /\ f.from <= L /\ L < c /\ log[i] = <<"[", <<>>>>
      /\ \A k \in i..c : Brackets[k] >= Brackets[i]
  BY <1>2 DEF IsDropping
<1>4. N \in Nat /\ DOMAIN log = 1..N
  BY ClosedFacts
<1>5. PICK b, z, l, x : b = Brackets[c] /\ z = Brackets[f.to] /\ l = Brackets[L] /\ x = Brackets[i]
  OBVIOUS
<1>6. i \in 1..N /\ i - 1 = L /\ L \in 1..N /\ c \in i..c /\ L \in 0..N /\ c \in 0..N
  BY <1>1, <1>2, <1>3, <1>4
<1>7. /\ \A k \in 0..N : Brackets[k] \in Int
      /\ \A k \in 1..N : Brackets[k] = Brackets[k - 1] +
            (IF log[k][1] = "[" THEN 1 ELSE IF log[k][1] = "]" THEN -1 ELSE 0)
  BY BracketSteps
<1>8. b \in Int /\ l \in Int
  BY <1>5, <1>6, <1>7
<1>9. x = l + 1
  <2>1. Brackets[i] = Brackets[i - 1]
            + (IF log[i][1] = "[" THEN 1 ELSE IF log[i][1] = "]" THEN -1 ELSE 0)
    BY <1>6, <1>7
  <2> QED BY <1>3, <1>5, <1>6, <2>1
<1>10. b >= x
  BY <1>3, <1>5, <1>6
<1>11. SUFFICES ASSUME c + 1 = f.to PROVE FALSE
  BY <1>1
<1>12. f.to - 1 = c
  BY <1>1, <1>11
<1>13. z = b + (IF log[f.to][1] = "[" THEN 1 ELSE IF log[f.to][1] = "]" THEN -1 ELSE 0)
  BY <1>1, <1>5, <1>7, <1>12
<1>14. CASE s.kind = "message"
  <2>1. log[f.to] = <<"close">>
    BY <1>14, ArgumentsGoOn
  <2>2. z = b
    BY <1>8, <1>13, <2>1
  <2>3. z = 0
    BY <1>1, <1>4, <1>5, <2>1 DEF ArraysNested, IsArgument
  <2>4. l >= 0
    BY <1>4, <1>5, <1>6 DEF ArraysNested
  <2> QED BY <1>8, <1>9, <1>10, <2>2, <2>3, <2>4
<1>15. CASE s.kind = "array"
  <2>1. ArrayFrame(f)
    BY <1>15, ArgumentsGoOn
  <2>2. log[f.to] = <<"]", <<>>>> /\ z < Brackets[f.from]
        /\ \A k \in f.from..(f.to - 1) : Brackets[k] >= Brackets[f.from]
    BY <1>5, <2>1 DEF ArrayFrame
  <2>3. z = b - 1
    BY <1>8, <1>13, <2>2
  <2>4. L \in f.from..(f.to - 1)
    BY <1>1, <1>3, <1>6, <1>12
  <2>5. PICK y : y = Brackets[f.from]
    OBVIOUS
  <2>6. y \in Int
    <3>1. f.from \in 0..N
      BY <1>1
    <3> QED BY <1>7, <2>5, <3>1
  <2>7. l >= y /\ z < y
    BY <1>5, <2>2, <2>4, <2>5
  <2> QED BY <1>8, <1>9, <1>10, <2>3, <2>6, <2>7
<1> QED BY <1>3, <1>14, <1>15 DEF IsFrame, Streams

\* dropArray takes a tag, and the last one makes a stream of what was dropped.
LEMMA DropTagWalks ==
    ASSUME LayoutInv, Closed, ~miscounted, ArraysNested, Walk(streams, dropping, seen), DropTag
    PROVE  reader' = "reading" /\ Walk(streams', dropping', seen')
<1>0. PICK N : N = Len(log)
  OBVIOUS
<1>1. PICK fs, L : WalkIs(fs, L, streams, dropping, seen)
  BY DEF Walk
<1>2. PICK n, s, f, dr : n = Len(streams) /\ s = streams[n] /\ f = fs[n] /\ dr = dropping
  OBVIOUS
<1>3. dr # None /\ reader = "reading" /\ Top = s /\ streams # <<>> /\ L \in 0..N
  BY <1>0, <1>1, <1>2 DEF DropTag, Top, WalkIs
<1>4. /\ Stack(fs, streams) /\ IsFrame(s, f) /\ IsDropping(s, f, dr, L)
      /\ seen = [i \in 1..L |-> Written(log[i])]
  BY <1>1, <1>2, <1>3, WalkTop
<1>5. PICK c, i, j : c = f.at /\ i = c + 1 /\ j = L + 1
  OBVIOUS
<1>6. /\ c \in 1..N /\ i \in 1..N /\ i - 1 = c /\ f.from <= c /\ N \in Nat
      /\ s.at = Predicted[c] /\ s.end \in Nat /\ Predicted[i] \in Nat /\ Predicted[i] <= s.end
  <2>1. N \in Nat
    BY <1>0, ClosedFacts
  <2>2. /\ c \in 1..N /\ c + 1 \in 1..N /\ f.from <= c
        /\ s.at = Predicted[c] /\ s.end \in Nat /\ Predicted[c + 1] \in Nat
        /\ Predicted[c + 1] <= s.end
    BY <1>0, <1>4, <1>5, FrameFacts
  <2>3. i - 1 = c
    BY <1>5, <2>2
  <2> QED BY <1>5, <2>1, <2>2, <2>3
<1>7. /\ dr \in [level : Nat, at : Nat, tag : Nat] /\ s.kind # "bundle"
      /\ f.from <= L /\ L < c /\ log[j] = <<"[", <<>>>> /\ dr.at = Predicted[j]
      /\ dr.tag = TagsAt(f.of) + (L + 2 - f.of)
      /\ dr.level = Brackets[c] - Brackets[j]
      /\ \A k \in j..c : Brackets[k] >= Brackets[j]
  BY <1>4, <1>5 DEF IsDropping
<1>8. i < f.to
  BY <1>0, <1>3, <1>4, <1>5, ArrayGoesOn
<1>9. /\ s.tag # s.stop /\ IsArgument(log[i]) /\ Tag(s.tag) = log[i][1]
      /\ f.of \in 1..N /\ TagsAt(f.of) \in Nat /\ f.of <= f.from
  BY <1>0, <1>4, <1>5, <1>7, <1>8, ArgumentsGoOn, SMTT(30)
<1>10. PICK q, p : q = Predicted[i] /\ p = Predicted[i - 1]
  OBVIOUS
<1>11. /\ ArgEnd(log[i][1], p, s.end) = q /\ p = s.at /\ q # None
       /\ log[i][1] \in {"[", "]"} => log[i] = <<log[i][1], <<>>>>
  <2>1. i \in 1..N /\ IsArgument(log[i]) /\ s.end \in Nat /\ q <= s.end
    BY <1>6, <1>9, <1>10
  <2>2. /\ ArgEnd(log[i][1], p, s.end) = q
        /\ log[i][1] \in {"[", "]"} => q = p /\ log[i] = <<log[i][1], <<>>>>
    BY <1>0, <1>10, <2>1, ArgumentIsRead
  <2>3. p = s.at /\ q # None
    BY <1>6, <1>10, NoneAssumption
  <2> QED BY <2>2, <2>3
<1>12. PICK r, g, gs : r = Onwards(s, q) /\ g = UpTo(f, i) /\ gs = WithTop(fs, g)
  OBVIOUS
<1>13. PICK next : next = Replace(r)
  OBVIOUS
<1>14. IsFrame(r, g) /\ g.to = f.to /\ g.at = i /\ g.from = f.from /\ g.of = f.of
       /\ r.kind = s.kind
  BY <1>0, <1>4, <1>5, <1>7, <1>8, <1>10, <1>12, ArgumentFrameMoves
<1>15. Stack(gs, next) /\ next # <<>> /\ Len(next) = n /\ gs[n] = g /\ next[n] = r
  BY <1>2, <1>3, <1>4, <1>12, <1>13, <1>14, TopMoves
<1>16. PICK new, level :
          /\ new = [kind |-> "array", at |-> dr.at, end |-> q, tag |-> dr.tag, stop |-> s.tag]
          /\ level = CASE log[i][1] = "[" -> dr.level + 1
                       [] log[i][1] = "]" -> dr.level - 1 [] OTHER -> dr.level
  OBVIOUS
<1>17. /\ reader' = "reading"
       /\ IF log[i][1] = "]" /\ dr.level = 0
          THEN /\ streams' = Append(next, new) /\ dropping' = None
               /\ seen' = Append(seen, <<"[", <<>>>>)
          ELSE /\ streams' = next /\ dropping' = [dr EXCEPT !.level = level] /\ seen' = seen
  BY <1>2, <1>3, <1>9, <1>11, <1>12, <1>13, <1>16 DEF DropTag, Onwards
<1>18. PICK x, y, z, l : x = Brackets[j] /\ y = Brackets[c] /\ z = Brackets[i] /\ l = dr.level
  OBVIOUS
<1>19. /\ x \in Int /\ y \in Int /\ z \in Int /\ l \in Nat /\ l = y - x /\ y >= x
       /\ z = y + (IF log[i][1] = "[" THEN 1 ELSE IF log[i][1] = "]" THEN -1 ELSE 0)
  <2>1. j \in 0..N /\ c \in 0..N /\ i \in 0..N /\ c \in j..c
    BY <1>3, <1>5, <1>6, <1>7
  <2>2. x \in Int /\ y \in Int /\ z \in Int
    BY <1>0, <1>18, <2>1, BracketSteps
  <2>3. Brackets[i] = Brackets[i - 1]
            + (IF log[i][1] = "[" THEN 1 ELSE IF log[i][1] = "]" THEN -1 ELSE 0)
    BY <1>0, <1>6, BracketSteps
  <2>4. l \in Nat /\ l = y - x /\ y >= x
    BY <1>7, <1>18, <2>1
  <2> QED BY <1>6, <1>18, <2>2, <2>3, <2>4
<1>20. j \in 1..N /\ L \in Nat /\ j <= c /\ j # i
  BY <1>3, <1>5, <1>6, <1>7
<1>21. CASE log[i][1] = "]" /\ dr.level = 0
  <2>1. PICK a : a = [of |-> f.of, from |-> j, at |-> j, to |-> i]
    OBVIOUS
  <2>2. /\ a \in Frames /\ 1 <= a.from /\ a.from <= a.at /\ a.at < a.to /\ a.to <= Len(log)
        /\ a.of = f.of /\ a.from = j /\ a.at = j /\ a.to = i
    BY <1>0, <1>5, <1>6, <1>9, <1>20, <2>1 DEF Frames
  <2>3. ArrayFrame(a)
    <3>1. log[i] = <<"]", <<>>>> /\ z < x /\ i - 1 = c
      <4>1. log[i] = <<"]", <<>>>>
        BY <1>11, <1>21
      <4>2. l = 0 /\ z = y - 1
        BY <1>18, <1>19, <1>21
      <4>3. z < x
        BY <1>19, <4>2
      <4> QED BY <1>6, <4>1, <4>3
    <3> QED BY <1>7, <1>18, <2>2, <3>1 DEF ArrayFrame
  <2>4. /\ new \in Streams /\ new.kind = "array" /\ new.at = dr.at /\ new.end = q
        /\ new.tag = dr.tag /\ new.stop = s.tag
    BY <1>4, <1>6, <1>7, <1>10, <1>16 DEF IsFrame, Streams
  <2>5. ArgumentFrame(s, f)
    BY <1>4, <1>7 DEF IsFrame, BundleFrame
  <2>6. PICK e \in f.to..Len(log) : MessageSpan(f.of, e)
    BY <2>5 DEF ArgumentFrame
  <2>7. e \in a.to..Len(log)
    <3>1. f.to \in 1..N
      BY <1>0, <1>4, FrameFacts
    <3>2. e \in Nat /\ i <= e /\ e <= N
      BY <1>0, <1>6, <1>8, <2>6, <3>1
    <3> QED BY <1>0, <1>6, <2>2, <3>2
  <2>8. /\ new.tag = TagsAt(a.of) + (a.at + 1 - a.of)
        /\ new.stop = TagsAt(a.of) + (a.to - a.of)
    <3>1. s.tag = TagsAt(f.of) + (c + 1 - f.of)
      BY <1>5, <2>5 DEF ArgumentFrame
    <3>2. PICK o, t : o = a.of /\ t = TagsAt(o)
      OBVIOUS
    <3>3. f.of = o /\ s.tag = t + (i - o) /\ dr.tag = t + (L + 2 - o)
      <4>1. f.of = o /\ t = TagsAt(f.of) /\ c + 1 = i
        BY <1>5, <2>2, <3>2
      <4>2. s.tag = t + (i - o)
        <5>1. s.tag = t + (c + 1 - o)
          BY <3>1, <4>1, Zenon
        <5>2. t \in Nat /\ o \in Nat /\ c \in Nat /\ i \in Nat
          BY <1>6, <1>9, <2>2, <3>2, <4>1 DEF Frames
        <5> QED BY <4>1, <5>1, <5>2
      <4>3. dr.tag = t + (L + 2 - o)
        <5>1. dr.tag = TagsAt(f.of) + (L + 2 - f.of)
          BY <1>7
        <5> QED BY <4>1, <5>1, Zenon
      <4> QED BY <4>1, <4>2, <4>3
    <3>4. L + 2 - o = j + 1 - o
      <4>1. o \in Nat
        BY <2>2, <3>2 DEF Frames
      <4> QED BY <1>5, <1>20, <4>1
    <3>5. dr.tag = t + (j + 1 - o)
      BY <3>3, <3>4
    <3> QED BY <2>2, <2>4, <3>2, <3>3, <3>5
  <2>9. 1 <= a.of /\ a.of <= a.from
    <3>1. PICK o \in Nat, m \in Nat : o = f.of /\ m = f.from
      BY <1>4 DEF IsFrame, Frames
    <3>2. 1 <= o /\ o <= j
      BY <1>5, <1>7, <1>9, <1>20, <3>1
    <3> QED BY <2>2, <3>1, <3>2
  <2>10. ArgumentFrame(new, a)
    BY <2>2, <2>3, <2>4, <2>6, <2>7, <2>8, <2>9 DEF ArgumentFrame
  <2>11. IsFrame(new, a)
    <3>1. new.at = Predicted[a.at] /\ new.end = Predicted[a.to]
      BY <1>7, <1>10, <2>2, <2>4
    <3> QED BY <2>2, <2>4, <2>10, <3>1 DEF IsFrame
  <2>12. Stack(Append(gs, a), Append(next, new))
    <3>1. gs[Len(next)].at = a.to
      BY <1>14, <1>15, <2>2
    <3> QED BY <1>15, <2>11, <3>1, StackPush
  <2>13. PICK as, ts, m : as = Append(gs, a) /\ ts = Append(next, new) /\ m = Len(ts)
    OBVIOUS
  <2>14. ts # <<>> /\ as[m] = a
    <3>1. gs \in Seq(Frames) /\ next \in Seq(Streams) /\ Len(gs) = Len(next)
      BY <1>15 DEF Stack
    <3>2. Len(ts) = Len(next) + 1 /\ ts # <<>> /\ as[Len(gs) + 1] = a
      BY <2>2, <2>4, <2>13, <3>1
    <3> QED BY <2>13, <3>1, <3>2
  <2>15. seen' = [k \in 1..j |-> Written(log[k])]
    <3>1. Written(log[j]) = <<"[", <<>>>>
      BY <1>7 DEF Written
    <3>2. Append(seen, Written(log[j])) = [k \in 1..j |-> Written(log[k])]
      BY <1>4, <1>5, <1>20, SeenGrows
    <3> QED BY <1>17, <1>21, <3>1, <3>2
  <2>16. j \in 0..Len(log)
    BY <1>0, <1>20
  <2>17. streams' = ts /\ dropping' = None /\ reader' = "reading"
    BY <1>17, <1>21, <2>13
  <2>18. Stack(as, ts)
    BY <2>12, <2>13
  <2>19. WalkIs(as, j, ts, None, seen')
    BY <2>2, <2>13, <2>14, <2>15, <2>16, <2>18 DEF WalkIs
  <2> QED BY <2>17, <2>19 DEF Walk
<1>22. CASE ~(log[i][1] = "]" /\ dr.level = 0)
  <2>1. PICK d : d = [dr EXCEPT !.level = level]
    OBVIOUS
  <2>2. level \in Nat /\ level = z - x /\ z >= x
    <3>1. CASE log[i][1] = "["
      BY <1>16, <1>18, <1>19, <3>1
    <3>2. CASE log[i][1] = "]"
      <4>1. l # 0
        BY <1>18, <1>22, <3>2
      <4> QED BY <1>16, <1>18, <1>19, <3>2, <4>1
    <3>3. CASE log[i][1] \notin {"[", "]"}
      <4>1. level = l
        BY <1>16, <1>18, <3>3
      <4> QED BY <1>19, <3>3, <4>1
    <3> QED BY <3>1, <3>2, <3>3
  <2>3. /\ d \in [level : Nat, at : Nat, tag : Nat]
        /\ d.level = level /\ d.at = dr.at /\ d.tag = dr.tag
    BY <1>7, <2>1, <2>2
  <2>4. \A k \in j..i : Brackets[k] >= Brackets[j]
    <3> SUFFICES ASSUME NEW k \in j..i PROVE Brackets[k] >= Brackets[j]
      OBVIOUS
    <3>1. CASE k = i
      BY <1>18, <2>2, <3>1
    <3>2. CASE k # i
      <4>1. k \in j..c
        BY <1>5, <1>6, <1>20, <3>2
      <4> QED BY <1>7, <4>1
    <3> QED BY <3>1, <3>2
  <2>5. IsDropping(r, g, d, L)
    <3>1. g.from <= L /\ L < g.at
      BY <1>5, <1>6, <1>7, <1>14, <1>20
    <3> QED BY <1>5, <1>7, <1>14, <1>18, <2>2, <2>3, <2>4, <3>1 DEF IsDropping
  <2>6. d # None
    BY <2>3, DroppingAssumption
  <2>7. streams' = next /\ dropping' = d /\ seen' = seen /\ reader' = "reading"
    BY <1>17, <1>22, <2>1
  <2>8. L \in 0..Len(log)
    BY <1>0, <1>3
  <2>9. WalkIs(gs, L, next, d, seen)
    BY <1>4, <1>15, <2>5, <2>6, <2>8 DEF WalkIs
  <2> QED BY <2>7, <2>9 DEF Walk
<1> QED BY <1>21, <1>22

\* A stream is left behind the call that closes it.
LEMMA LeaveStreamWalks ==
    ASSUME LayoutInv, Closed, ~miscounted, Walk(streams, dropping, seen), LeaveStream
    PROVE  reader' = "reading" /\ Walk(streams', dropping', seen')
<1>0. PICK N : N = Len(log)
  OBVIOUS
<1>1. PICK fs, L : WalkIs(fs, L, streams, dropping, seen)
  BY DEF Walk
<1>2. PICK n, s, f : n = Len(streams) /\ s = streams[n] /\ f = fs[n]
  OBVIOUS
<1>3. streams # <<>> /\ dropping = None /\ reader = "reading" /\ Top = s
  BY <1>2 DEF LeaveStream, Top
<1>4. Stack(fs, streams) /\ IsFrame(s, f) /\ f.at = L /\ seen = [i \in 1..L |-> Written(log[i])]
  BY <1>1, <1>2, <1>3, WalkTop
<1>5. PICK i : i = L + 1
  OBVIOUS
<1>6. L \in 1..N /\ i \in 1..N /\ N \in Nat
  <2>1. N \in Nat
    BY <1>0, ClosedFacts
  <2>2. L \in 1..N /\ L + 1 \in 1..N
    BY <1>0, <1>4, FrameFacts
  <2> QED BY <1>5, <2>1, <2>2
<1>7. s.kind \in {"bundle", "message", "array"}
  BY <1>4 DEF IsFrame, Streams
<1>8. PICK last : last = CASE s.kind = "bundle"  -> <<"end">>
                           [] s.kind = "message" -> <<"close">>
                           [] s.kind = "array"   -> <<"]", <<>>>>
  OBVIOUS
<1>9. i = f.to /\ log[i] = last
  <2>1. CASE s.kind = "bundle"
    <3>1. s.at = s.end
      BY <1>3, <2>1 DEF LeaveStream
    <3>2. L + 1 = f.to /\ log[f.to] = <<"end">>
      BY <1>0, <1>4, <2>1, <3>1, BundleGoesOn
    <3> QED BY <1>5, <1>8, <2>1, <3>2
  <2>2. CASE s.kind # "bundle"
    <3>1. s.tag = s.stop
      BY <1>3, <2>2 DEF LeaveStream
    <3>2. /\ (s.tag = s.stop) = (L + 1 = f.to)
          /\ s.kind = "message" => log[f.to] = <<"close">>
          /\ s.kind = "array" => ArrayFrame(f)
      BY <1>0, <1>4, <2>2, ArgumentsGoOn
    <3>3. i = f.to
      BY <1>5, <3>1, <3>2
    <3> QED BY <1>7, <1>8, <2>2, <3>2, <3>3 DEF ArrayFrame
  <2> QED BY <2>1, <2>2
<1>10. Written(log[i]) = last
  BY <1>7, <1>8, <1>9 DEF Written
<1>11. PICK m, gs, ts : m = n - 1 /\ gs = SubSeq(fs, 1, m) /\ ts = SubSeq(streams, 1, m)
  OBVIOUS
<1>12. reader' = "reading" /\ dropping' = None /\ streams' = ts /\ seen' = Append(seen, last)
  <2>1. ts = Below
    BY <1>2, <1>11 DEF Below
  <2> QED BY <1>3, <1>8, <2>1 DEF LeaveStream
<1>13. Popped(n, fs, streams, gs, ts)
  BY <1>2, <1>3, <1>4, <1>11, StackPop
<1>14. /\ Stack(gs, ts) /\ n \in Nat /\ Len(ts) = n - 1
       /\ (ts = <<>> => n = 1) /\ (ts # <<>> => n > 1)
       /\ n = 1 => f.to = Len(log)
       /\ n > 1 => gs[n - 1].at = f.to
  BY <1>2, <1>13 DEF Popped
<1>15. seen' = [k \in 1..i |-> Written(log[k])]
  <2>1. L \in Nat
    BY <1>6
  <2>2. Append(seen, Written(log[i])) = [k \in 1..i |-> Written(log[k])]
    BY <1>4, <1>5, <2>1, SeenGrows
  <2> QED BY <1>10, <1>12, <2>2
<1>16. i \in 0..Len(log)
  BY <1>0, <1>6
<1>17. ts = <<>> => i = Len(log)
  BY <1>9, <1>14
<1>18. ts # <<>> => gs[Len(ts)].at = i
  BY <1>9, <1>14
<1>19. WalkIs(gs, i, ts, None, seen')
  BY <1>14, <1>15, <1>16, <1>17, <1>18 DEF WalkIs
<1> QED BY <1>12, <1>19 DEF Walk

\* A packet is entered, in streams that are left with the call it ends with.
LEMMA EnterWalks ==
    ASSUME LayoutInv, Closed, ~miscounted, NEW N, N = Len(log),
           NEW i \in 1..N, NEW e \in 1..N, PacketSpan(i, e),
           NEW fs, NEW ss, Stack(fs, ss), ss = <<>> => e = N, ss # <<>> => fs[Len(ss)].at = e,
           NEW p, p = Start(i), NEW end, end = Predicted[e], Enter(ss, p, end),
           dropping = None, NEW L \in Nat, i = L + 1, seen = [k \in 1..L |-> Written(log[k])]
    PROVE  reader' = "reading" /\ Walk(streams', dropping', seen')
<1>1. PICK f : f = [of |-> i, from |-> i, at |-> i, to |-> e]
  OBVIOUS
<1>2. /\ reader' = "reading" /\ dropping' = None
      /\ seen' = Append(seen, Written(log[i]))
      /\ \E s : streams' = Append(ss, s) /\ IsFrame(s, f)
  BY <1>1, PacketIsEntered
<1>3. PICK s : streams' = Append(ss, s) /\ IsFrame(s, f)
  BY <1>2
<1>4. f.to = e /\ f.at = i /\ f \in Frames /\ s \in Streams
  BY <1>1, <1>3 DEF IsFrame
<1>5. Stack(Append(fs, f), Append(ss, s))
  BY <1>3, <1>4, StackPush
<1>6. PICK gs, ts, n : gs = Append(fs, f) /\ ts = Append(ss, s) /\ n = Len(ts)
  OBVIOUS
<1>7. ts # <<>> /\ gs[n] = f
  <2>1. fs \in Seq(Frames) /\ ss \in Seq(Streams) /\ Len(fs) = Len(ss)
    BY DEF Stack
  <2>2. Len(ts) = Len(ss) + 1 /\ ts # <<>> /\ gs[Len(fs) + 1] = f
    BY <1>4, <1>6, <2>1, SMTT(30)
  <2> QED BY <1>6, <2>1, <2>2
<1>8. seen' = [k \in 1..i |-> Written(log[k])]
  <2>1. Append(seen, Written(log[i])) = [k \in 1..i |-> Written(log[k])]
    BY SeenGrows
  <2> QED BY <1>2, <2>1
<1>9. i \in 0..Len(log)
  OBVIOUS
<1>10. Stack(gs, ts)
  BY <1>5, <1>6
<1>11. WalkIs(gs, i, ts, None, seen')
  BY <1>4, <1>6, <1>7, <1>8, <1>9, <1>10 DEF WalkIs
<1> QED BY <1>2, <1>3, <1>6, <1>11 DEF Walk

\* The outermost packet is all of the log.
LEMMA PrintPacketWalks ==
    ASSUME LayoutInv, ~miscounted, reader = "idle" => dropping = None /\ seen = <<>>, PrintPacket
    PROVE  Closed /\ reader' = "reading" /\ Walk(streams', dropping', seen')
<1>1. /\ Closed /\ dropping = None /\ seen = <<>> /\ Enter(<<>>, 0, pos)
  BY DEF PrintPacket, Closed
<1>2. PICK N : N = Len(log)
  OBVIOUS
<1>3. /\ N \in Nat /\ N >= 1 /\ Opens(log[1]) /\ pos = Predicted[N] /\ Predicted[0] = 0
      /\ log \in Seq(Calls)
  BY <1>1, <1>2, ClosedFacts
<1>4. PICK e \in 2..N : PacketSpan(1, e)
  <2>1. 1 \in 1..N /\ 1 + 1 = 2
    BY <1>3
  <2> QED BY <1>1, <1>2, <1>3, <2>1, PacketEnds
<1>5. e = N
  <2>1. Encloses(1, e)
    BY <1>4 DEF PacketSpan
  <2>2. Depth[e] = 0
    <3>1. Depth[0] = 0
      BY <1>1, <1>2, ClosedFacts
    <3> QED BY <2>1, <3>1 DEF Encloses
  <2>3. \A j \in 1..(N - 1) : Depth[j] >= 1
    BY <1>2 DEF LayoutInv, DepthInv
  <2>4. CASE e # N
    <3>1. e \in 1..(N - 1)
      BY <1>3, <2>4
    <3> QED BY <2>2, <2>3, <3>1
  <2> QED BY <2>4
<1>6. Start(1) = 0
  BY <1>3 DEF Start, Prefix
<1>7. Stack(<<>>, <<>>)
  BY EmptySeq DEF Stack
<1>8. seen = [k \in 1..0 |-> Written(log[k])]
  BY <1>1
<1>9. 1 \in 1..N /\ e \in 1..N /\ 1 = 0 + 1 /\ 0 \in Nat
  BY <1>3, <1>4
<1>10. PICK none : none = <<>>
  OBVIOUS
<1>11. /\ Stack(none, none) /\ Enter(none, 0, pos)
       /\ (none = <<>> => e = N) /\ (none # <<>> => none[Len(none)].at = e)
  BY <1>1, <1>5, <1>7, <1>10
<1>12. pos = Predicted[e] /\ PacketSpan(1, e)
  BY <1>3, <1>4, <1>5
<1>13. reader' = "reading" /\ Walk(streams', dropping', seen')
  BY <1>1, <1>2, <1>6, <1>8, <1>9, <1>11, <1>12, EnterWalks
<1> QED BY <1>1, <1>13

\* The next packet of a bundle is from call i to call e.
NextSpan(s, f, i, e) ==
    /\ PacketSpan(i, e) /\ f.at <= e /\ e < f.to
    /\ Depth[e] = Depth[f.from] /\ ~Inside(log[e])
    /\ Start(i) = Predicted[f.at] + 1 /\ Start(i) \in Nat
    /\ Predicted[e] \in Nat /\ Start(i) <= Predicted[e] /\ Predicted[e] <= s.end
    /\ mem[s.at] = <<"int32", 4 * (Predicted[e] - Start(i))>>

\* A packet inside a bundle ends before the bundle does, and has its size before it.
LEMMA NextPacketFits ==
    ASSUME LayoutInv, Closed, NEW N, N = Len(log), NEW s, NEW f, IsFrame(s, f),
           s.kind = "bundle", NEW c, c = f.at, NEW i, i = c + 1, i < f.to, Opens(log[i])
    PROVE  \E e \in 1..N : NextSpan(s, f, i, e)
<1>1. /\ N \in Nat /\ log \in Seq(Calls) /\ DOMAIN log = 1..N /\ ~threw
  BY ClosedFacts DEF Closed
<1>2. /\ c \in 1..N /\ i \in 1..N /\ f.to \in 1..N /\ f.from \in 1..N /\ i - 1 = c /\ i > 1
      /\ f.from <= c /\ s.at = Predicted[c] /\ s.end = Predicted[f.to]
  <2>1. /\ c \in 1..N /\ c + 1 \in 1..N /\ f.to \in 1..N /\ f.from \in 1..N
        /\ f.from <= c /\ s.at = Predicted[c] /\ s.end = Predicted[f.to]
    BY FrameFacts
  <2>2. i - 1 = c /\ i > 1
    BY <2>1
  <2> QED BY <2>1, <2>2
<1>3. PICK e \in (i + 1)..N : PacketSpan(i, e)
  BY <1>2, PacketEnds
<1>4. e \in 1..N /\ e \in Nat /\ i < e /\ i \in Nat
  BY <1>1, <1>2, <1>3
<1>5. Encloses(i, e) /\ Closes(log[e]) /\ ~Inside(log[e])
  <2>1. CASE log[e] = <<"end">>
    BY <1>3, <2>1 DEF PacketSpan, MessageSpan, Closes, Inside, IsArgument
  <2>2. CASE MessageSpan(i, e)
    BY <1>3, <2>2 DEF PacketSpan, MessageSpan, Closes, Inside, IsArgument
  <2> QED BY <1>3, <2>1, <2>2 DEF PacketSpan
<1>6. BundleFrame(s, f)
  BY DEF IsFrame, ArgumentFrame
<1>7. /\ log[f.from][1] = "bundle" /\ Encloses(f.from, f.to) /\ Depth[c] = Depth[f.from]
  BY <1>6 DEF BundleFrame
<1>8. PICK d, b : d = Depth[f.from] /\ b = Depth[f.from - 1]
  OBVIOUS
<1>9. d \in Nat /\ b \in Nat /\ d = b + 1
  <2>1. f.from \in 0..N /\ f.from - 1 \in 0..N
    BY <1>1, <1>2
  <2>2. d \in Nat /\ b \in Nat
    BY <1>8, <2>1, ClosedFacts
  <2>3. Depth[f.from] = Depth[f.from - 1]
             + (IF Opens(log[f.from]) THEN 1 ELSE IF Closes(log[f.from]) THEN -1 ELSE 0)
    BY <1>1, <1>2, Places
  <2>4. Opens(log[f.from])
    BY <1>7 DEF Opens
  <2> QED BY <1>8, <2>2, <2>3, <2>4
<1>10. Depth[e] = d /\ \A k \in i..(e - 1) : Depth[k] > d
  BY <1>2, <1>5, <1>7, <1>8 DEF Encloses
<1>11. Depth[f.to] = b
  BY <1>7, <1>8 DEF Encloses
<1>12. e < f.to
  <2>1. PICK t \in Nat : t = f.to
    BY <1>1, <1>2
  <2>2. CASE e = t
    BY <1>9, <1>10, <1>11, <2>1, <2>2
  <2>3. CASE t < e
    <3>1. t \in i..(e - 1)
      BY <1>4, <2>1, <2>3
    <3>2. Depth[t] > d
      BY <1>10, <3>1
    <3> QED BY <1>9, <1>11, <2>1, <3>2
  <2> QED BY <1>4, <2>1, <2>2, <2>3
<1>13. Start(i) = Predicted[c] + 1 /\ Start(i) \in Nat
  <2>1. Start(i) = Predicted[i - 1] + Prefix(i) /\ Start(i) \in Nat
    BY <1>1, <1>2, Places
  <2>2. Prefix(i) = 1
    BY <1>2 DEF Prefix
  <2> QED BY <1>2, <2>1, <2>2
<1>14. Predicted[e] \in Nat /\ Start(i) <= Predicted[e] /\ Predicted[e] <= s.end
  <2>1. PICK S, P, E : S = Start(i) /\ P = Predicted[i] /\ E = Predicted[e]
    OBVIOUS
  <2>2. i \in 0..N /\ e \in 0..N /\ f.to \in 0..N /\ i <= e /\ e <= f.to
    BY <1>2, <1>4, <1>12
  <2>3. E \in Nat /\ P \in Nat /\ P <= E /\ E <= s.end
    BY <1>1, <1>2, <2>1, <2>2, Places
  <2>4. P = S + SizeOf(log[i])
    BY <1>1, <1>2, <2>1, Places
  <2>5. SizeOf(log[i]) \in Nat
    <3>1. log[i] \in Calls
      BY <1>1, <1>2
    <3> QED BY <3>1, CallProperties
  <2>6. S <= P
    BY <1>13, <2>1, <2>4, <2>5
  <2> QED BY <1>13, <2>1, <2>3, <2>6
<1>15. mem[s.at] = <<"int32", 4 * (Predicted[e] - Start(i))>>
  <2>1. i \in DOMAIN log \ {1} /\ e \in DOMAIN log
    BY <1>1, <1>2, <1>4
  <2>2. mem[Start(i) - 1] = <<"int32", 4 * (Predicted[e] - Start(i))>>
    BY <1>1, <1>5, <2>1 DEF LayoutInv, LaidOut
  <2>3. Start(i) - 1 = s.at
    <3>1. Predicted[c] \in Nat
      <4>1. c \in 0..N
        BY <1>2
      <4> QED BY <4>1, ClosedFacts
    <3> QED BY <1>2, <1>13, <3>1, SMTT(30)
  <2> QED BY <2>2, <2>3
<1>16. c <= e
  BY <1>1, <1>2, <1>4
<1> QED BY <1>3, <1>4, <1>5, <1>7, <1>8, <1>10, <1>12, <1>13, <1>14, <1>15, <1>16 DEF NextSpan

\* The size in bytes is as many words.
LEMMA SizeIsRead ==
    ASSUME NEW S \in Nat, NEW E \in Nat, S <= E
    PROVE  4 * (E - S) >= 0 /\ S + (4 * (E - S)) \div 4 = E
<1>1. PICK d \in Nat : d = E - S
  BY SMT
<1>2. (4 * d) \div 4 = d
  BY SMT
<1>3. 4 * d >= 0
  BY SMT
<1> QED BY <1>1, <1>2, <1>3

\* A bundle goes on to the packet behind the size field.
LEMMA NextPacketWalks ==
    ASSUME LayoutInv, Closed, ~miscounted, Walk(streams, dropping, seen), dropping = None, NextPacket
    PROVE  reader' = "reading" /\ Walk(streams', dropping', seen')
<1>0. PICK N : N = Len(log)
  OBVIOUS
<1>1. PICK fs, L : WalkIs(fs, L, streams, dropping, seen)
  BY DEF Walk
<1>2. PICK n, s, f : n = Len(streams) /\ s = streams[n] /\ f = fs[n]
  OBVIOUS
<1>3. streams # <<>> /\ Top = s /\ s.kind = "bundle" /\ s.at < s.end
  BY <1>2 DEF NextPacket, Top
<1>4. Stack(fs, streams) /\ IsFrame(s, f) /\ f.at = L /\ seen = [i \in 1..L |-> Written(log[i])]
  BY <1>1, <1>2, <1>3, WalkTop
<1>5. PICK i : i = L + 1
  OBVIOUS
<1>6. /\ L \in 1..N /\ L \in Nat /\ i \in 1..N /\ s.at = Predicted[L] /\ s.at \in Nat /\ s.end \in Nat
  <2>1. N \in Nat
    BY <1>0, ClosedFacts
  <2>2. L \in 1..N /\ L + 1 \in 1..N /\ s.at = Predicted[L] /\ s.at \in Nat /\ s.end \in Nat
    BY <1>0, <1>4, FrameFacts
  <2> QED BY <1>5, <2>1, <2>2
<1>7. i < f.to /\ Opens(log[i])
  BY <1>0, <1>3, <1>4, <1>5, BundleGoesOn
<1>8. PICK e \in 1..N : NextSpan(s, f, i, e)
  BY <1>0, <1>3, <1>4, <1>5, <1>7, NextPacketFits
<1>9. /\ PacketSpan(i, e) /\ L <= e /\ e < f.to
      /\ Depth[e] = Depth[f.from] /\ ~Inside(log[e])
      /\ Start(i) = Predicted[L] + 1 /\ Start(i) \in Nat
      /\ Predicted[e] \in Nat /\ Start(i) <= Predicted[e] /\ Predicted[e] <= s.end
      /\ mem[s.at] = <<"int32", 4 * (Predicted[e] - Start(i))>>
  BY <1>4, <1>8 DEF NextSpan
<1>10. PICK p, q : p = Start(i) /\ q = Predicted[e]
  OBVIOUS
<1>11. s.at + 1 = p /\ mem[s.at][1] = "int32" /\ ~(mem[s.at][2] < 0)
       /\ p + mem[s.at][2] \div 4 = q /\ ~(q > s.end)
  <2>1. p \in Nat /\ q \in Nat /\ p <= q /\ q <= s.end /\ s.at + 1 = p
    BY <1>6, <1>9, <1>10
  <2>2. mem[s.at][1] = "int32" /\ mem[s.at][2] = 4 * (q - p)
    BY <1>9, <1>10
  <2>3. 4 * (q - p) >= 0 /\ p + (4 * (q - p)) \div 4 = q
    BY <2>1, SizeIsRead
  <2>4. ~(4 * (q - p) < 0) /\ ~(q > s.end)
    BY <1>6, <2>1
  <2> QED BY <2>1, <2>2, <2>3, <2>4
<1>12. PICK r, ts : r = [s EXCEPT !.at = q] /\ ts = Replace(r)
  OBVIOUS
<1>13. Enter(ts, p, q)
  BY <1>3, <1>11, <1>12 DEF NextPacket
<1>14. PICK g, gs : g = UpTo(f, e) /\ gs = WithTop(fs, g)
  OBVIOUS
<1>15. IsFrame(r, g) /\ g.to = f.to /\ g.at = e
  <2>1. IsFrame(s, f) /\ s.kind = "bundle" /\ f.at <= e /\ e < f.to
        /\ Depth[e] = Depth[f.from] /\ ~Inside(log[e])
    BY <1>3, <1>4, <1>9
  <2> QED BY <1>0, <1>10, <1>12, <1>14, <2>1, BundleFrameMoves
<1>16. Stack(gs, ts) /\ ts # <<>> /\ Len(ts) = n /\ gs[n] = g
  BY <1>2, <1>3, <1>4, <1>12, <1>14, <1>15, TopMoves
<1>17. gs[Len(ts)].at = e
  BY <1>15, <1>16
<1> QED BY <1>0, <1>4, <1>5, <1>6, <1>9, <1>10, <1>13, <1>16, <1>17, EnterWalks

\* Reading leaves the packet and the calls alone, and so what the frames say of them.
LEMMA FramesStay ==
    ASSUME UNCHANGED vars
    PROVE  /\ \A s, f : IsFrame(s, f)' = IsFrame(s, f)
           /\ \A s, f, dr, L : IsDropping(s, f, dr, L)' = IsDropping(s, f, dr, L)
<1>1. log' = log /\ mem' = mem
  BY DEF vars, packet, program
<1>2. Predicted' = Predicted /\ Depth' = Depth /\ Brackets' = Brackets
  BY <1>1 DEF Predicted, Depth, Brackets, Prefix, Opens, Closes
<1>3. \A i : TagsAt(i)' = TagsAt(i)
  BY <1>1, <1>2 DEF TagsAt, Address, Start, Prefix, Opens
<1>4. \A i, j : Encloses(i, j)' = Encloses(i, j)
  BY <1>2 DEF Encloses
<1>5. \A i, j : MessageSpan(i, j)' = MessageSpan(i, j)
  BY <1>1 DEF MessageSpan, IsArgument
<1>6. \A f : ArrayFrame(f)' = ArrayFrame(f)
  BY <1>1, <1>2 DEF ArrayFrame
<1>7. \A s, f : BundleFrame(s, f)' = BundleFrame(s, f)
  BY <1>1, <1>2, <1>4 DEF BundleFrame, Inside, IsArgument
<1>8. \A s, f : ArgumentFrame(s, f)' = ArgumentFrame(s, f)
  BY <1>1, <1>3, <1>5, <1>6 DEF ArgumentFrame
<1>9. \A s, f : IsFrame(s, f)' = IsFrame(s, f)
  BY <1>1, <1>2, <1>7, <1>8 DEF IsFrame, Frames, Streams
<1>10. \A s, f, dr, L : IsDropping(s, f, dr, L)' = IsDropping(s, f, dr, L)
  BY <1>1, <1>2, <1>3 DEF IsDropping
<1> QED BY <1>9, <1>10

\* So what a step of the reader establishes holds behind it.
LEMMA WalkStays ==
    ASSUME UNCHANGED vars, Walk(streams', dropping', seen')
    PROVE  Walk(streams, dropping, seen)'
<1>1. PICK fs, L : WalkIs(fs, L, streams', dropping', seen')
  BY DEF Walk
<1>2. log' = log
  BY DEF vars, program
<1>3. /\ \A s, f : IsFrame(s, f)' = IsFrame(s, f)
      /\ \A s, f, dr, l : IsDropping(s, f, dr, l)' = IsDropping(s, f, dr, l)
  BY FramesStay
<1>4. Stack(fs, streams') => Stack(fs, streams)'
  BY <1>2, <1>3 DEF Stack, Frames, Streams
<1>5. \A i : Written(log[i])' = Written(log[i])
  BY <1>2 DEF Written
<1>6. WalkIs(fs, L, streams, dropping, seen)'
  BY <1>1, <1>2, <1>3, <1>4, <1>5 DEF WalkIs
<1> QED BY <1>6 DEF Walk

\* A packet as promised is read on.
LEMMA ReadWalks ==
    ASSUME LayoutInv, Closed, ~miscounted, ArraysNested, reader = "reading",
           Walk(streams, dropping, seen), Read, reader' # "idle"
    PROVE  reader' = "reading" /\ Walk(streams', dropping', seen')
<1>1. CASE PrintPacket
  BY <1>1 DEF PrintPacket
<1>2. CASE NextPacket
  <2>1. PICK fs, L : WalkIs(fs, L, streams, dropping, seen)
    BY DEF Walk
  <2>2. dropping = None
    BY <1>2, <2>1 DEF NextPacket, Top, WalkIs, IsDropping
  <2> QED BY <1>2, <2>2, NextPacketWalks
<1>3. CASE ReadArgument
  BY <1>3, ReadArgumentWalks
<1>4. CASE ReadArray
  BY <1>4, ReadArrayWalks
<1>5. CASE DropTag
  BY <1>5, DropTagWalks
<1>6. CASE LeaveStream
  BY <1>6, LeaveStreamWalks
<1>7. CASE PrintEnds
  BY <1>7 DEF PrintEnds
<1> QED BY <1>1, <1>2, <1>3, <1>4, <1>5, <1>6, <1>7 DEF Read

\* The steps of the reader preserve its invariant.
LEMMA ReadStep ==
    ASSUME ReadInv, Read, UNCHANGED vars
    PROVE  ReadInv'
<1>1. LayoutInv'
  BY NextLayout DEF ReadInv
<1>2. LayoutInv
  BY DEF ReadInv
<1>3. reader' \in {"idle", "reading", "failed"}
  BY DEF ReadInv, Read, PrintPacket, NextPacket, ReadArgument, ReadArray, DropTag, LeaveStream,
         PrintEnds, Enter, Fail
<1>4. reader' = "idle" => dropping' = None /\ seen' = <<>>
  BY DEF ReadInv, Read, PrintPacket, NextPacket, ReadArgument, ReadArray, DropTag, LeaveStream,
         PrintEnds, Enter, Fail, AtArgument
<1>5. Closed
  <2>1. CASE PrintPacket
    BY <2>1 DEF PrintPacket, Closed
  <2>2. CASE reader # "idle"
    BY <2>2 DEF ReadInv
  <2>3. PrintPacket \/ reader # "idle"
    BY DEF Read, NextPacket, ReadArgument, ReadArray, DropTag, LeaveStream, PrintEnds, AtArgument
  <2> QED BY <2>1, <2>2, <2>3
<1>6. Closed'
  BY <1>5 DEF Closed, vars, packet, program
<1>7. (~miscounted /\ ArraysNested)' => ~miscounted /\ ArraysNested
  <2>1. log' = log /\ miscounted' = miscounted
    BY DEF vars, program
  <2>2. Brackets' = Brackets
    BY <2>1 DEF Brackets
  <2> QED BY <2>1, <2>2 DEF ArraysNested, IsArgument
<1>8. ASSUME reader' # "idle", (~miscounted /\ ArraysNested)'
      PROVE  reader' = "reading" /\ Walk(streams', dropping', seen')
  <2>1. ~miscounted /\ ArraysNested
    BY <1>7, <1>8
  <2>2. CASE PrintPacket
    BY <1>2, <2>1, <2>2, PrintPacketWalks DEF ReadInv
  <2>3. CASE ~PrintPacket
    <3>1. reader # "idle"
      BY <2>3 DEF Read, NextPacket, ReadArgument, ReadArray, DropTag, LeaveStream, PrintEnds,
                  AtArgument
    <3>2. reader = "reading" /\ Walk(streams, dropping, seen)
      BY <2>1, <3>1 DEF ReadInv
    <3> QED BY <1>2, <1>5, <1>8, <2>1, <3>2, ReadWalks
  <2> QED BY <2>2, <2>3
<1>9. reader' # "idle" /\ (~miscounted /\ ArraysNested)' => Walk(streams, dropping, seen)'
  BY <1>8, WalkStays
<1> QED BY <1>1, <1>3, <1>4, <1>6, <1>8, <1>9 DEF ReadInv

\* The program writes while nothing is read.
LEMMA WriteStep ==
    ASSUME ReadInv, reader = "idle", Next, UNCHANGED readerVars
    PROVE  ReadInv'
<1>1. LayoutInv'
  BY NextLayout DEF ReadInv
<1>2. reader' = "idle" /\ dropping' = None /\ seen' = <<>>
  BY DEF ReadInv, readerVars
<1> QED BY <1>1, <1>2 DEF ReadInv

\* So does a step that changes nothing.
LEMMA IdleStep ==
    ASSUME ReadInv, UNCHANGED <<vars, readerVars>>
    PROVE  ReadInv'
<1>1. LayoutInv' /\ reader' = reader /\ dropping' = dropping /\ seen' = seen /\ streams' = streams
  BY NextLayout DEF ReadInv, readerVars
<1>2. Closed => Closed'
  BY DEF Closed, vars, packet, program
<1>3. (~miscounted /\ ArraysNested)' => ~miscounted /\ ArraysNested
  <2>1. log' = log /\ miscounted' = miscounted
    BY DEF vars, program
  <2>2. Brackets' = Brackets
    BY <2>1 DEF Brackets
  <2> QED BY <2>1, <2>2 DEF ArraysNested, IsArgument
<1>4. Walk(streams, dropping, seen) => Walk(streams, dropping, seen)'
  <2>1. Walk(streams, dropping, seen) => Walk(streams', dropping', seen')
    BY <1>1
  <2> QED BY <2>1, WalkStays
<1> QED BY <1>1, <1>2, <1>3, <1>4 DEF ReadInv

\* The invariant is enough for RoundTrip.
LEMMA ReadInvSuffices == ReadInv => RoundTrip
<1> SUFFICES ASSUME ReadInv, ~miscounted, ArraysNested
             PROVE  /\ reader # "failed"
                    /\ Len(seen) <= Len(log)
                    /\ \A i \in DOMAIN seen : seen[i] = Written(log[i])
                    /\ reader = "reading" /\ streams = <<>> => Len(seen) = Len(log)
  BY DEF RoundTrip
<1>1. Len(log) \in Nat
  BY DEF ReadInv, LayoutInv, GrammarInv
<1>2. CASE reader = "idle"
  <2>1. seen = <<>> /\ Len(seen) = 0 /\ DOMAIN seen = {}
    BY <1>2, EmptySeq DEF ReadInv
  <2> QED BY <1>1, <1>2, <2>1
<1>3. CASE reader # "idle"
  <2>1. reader = "reading" /\ Walk(streams, dropping, seen)
    BY <1>3 DEF ReadInv
  <2>2. PICK fs, L : WalkIs(fs, L, streams, dropping, seen)
    BY <2>1 DEF Walk
  <2>3. /\ L \in 0..Len(log) /\ seen = [i \in 1..L |-> Written(log[i])]
        /\ streams = <<>> => L = Len(log)
    BY <2>2 DEF WalkIs
  <2>4. Len(seen) = L /\ DOMAIN seen = 1..L /\ \A i \in 1..L : seen[i] = Written(log[i])
    <3>1. L \in Nat
      BY <1>1, <2>3
    <3> QED BY <2>3, <3>1
  <2> QED BY <1>1, <2>1, <2>3, <2>4
<1> QED BY <1>2, <1>3

\* Every packet whose arrays are closed and whose messages have as many arguments as
\* announced is read back as the calls that wrote it, whatever its bundles, messages and
\* arrays contain, and nothing throws.
THEOREM WrittenIsRead == ReaderSpec => []RoundTrip
<1>1. ReaderInit => ReadInv
  BY InitLayout DEF ReaderInit, ReadInv
<1>2. ReadInv /\ [ReaderNext]_<<vars, readerVars>> => ReadInv'
  BY ReadStep, WriteStep, IdleStep DEF ReaderNext
<1> QED BY <1>1, <1>2, ReadInvSuffices, PTL DEF ReaderSpec

\* Printing changes nothing in the packet (Server::Packet only reads): what is true of the
\* packets that programs write stays true while they are printed.
THEOREM PrintingChangesNothing == ReaderSpec => Spec
<1>1. ReaderInit => Init
  BY DEF ReaderInit
<1>2. [ReaderNext]_<<vars, readerVars>> => [Next]_vars
  BY DEF ReaderNext
<1> QED BY <1>1, <1>2, PTL DEF ReaderSpec, Spec
=============================================================================
