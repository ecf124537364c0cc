--------------------------- MODULE ChatStreamProofs ---------------------------
(***************************************************************************)
(* Safety of the token store and of the history store, and of what each    *)
(* client receives, for every number of users and streams, however they    *)
(* overlap and whoever goes away; and no stream goes on for ever.          *)
(***************************************************************************)
EXTENDS ChatStream, SequenceTheorems, WellFoundedInduction, TLAPS

-----------------------------------------------------------------------------
\* Lists of turns.  A turn is known by its place in `saved', the order in which the
\* streams of a user saved their turns.

Places == Nat \ {0}

\* The turn with number k in the list l is the i-th that was saved.
HoldsAt(l, k, turns, i) ==
  /\ i \in DOMAIN turns
  /\ l[2 * k - 1] = <<turns[i], "user">>
  /\ l[2 * k] = <<turns[i], "assistant">>

Holds(l, turns, i) == \E k \in Places : 2 * k <= Len(l) /\ HoldsAt(l, k, turns, i)

IsWhole(l, turns) ==
  /\ \E m \in Nat : Len(l) = 2 * m
  /\ \A k \in Places : 2 * k <= Len(l) => \E i \in DOMAIN turns : HoldsAt(l, k, turns, i)

\* Turns are in the order of their saves: the list leaves turns out, and swaps none.
InOrder(l, turns) ==
  \A j, k \in Places : j <= k /\ 2 * k <= Len(l) =>
    \A a, b \in DOMAIN turns : HoldsAt(l, j, turns, a) /\ HoldsAt(l, k, turns, b) => k - j <= b - a

Distinct(turns) == \A i, j \in DOMAIN turns : turns[i] = turns[j] => i = j

-----------------------------------------------------------------------------
\* The invariants

\* A stream that was let in has the token of its user.
TokensInv == \A s \in Streams : phase[s] \notin {"new", "rejected"} => bindings[UserOf[s]] = TokenOf[s]

HasSaved(s) == \E i \in DOMAIN saved[UserOf[s]] : saved[UserOf[s]][i] = s

\* A stream saves its turn once, and has nothing left to send but the end.
SavedInv ==
  /\ \A u \in Users : Distinct(saved[u]) /\ \A i \in DOMAIN saved[u] : UserOf[saved[u][i]] = u
  /\ \A s \in Streams : HasSaved(s) =>
       /\ phase[s] \in {"sending", "closed"}
       /\ out[s] = <<>>
       /\ phase[s] = "sending" => LastFrame(s) \in {DoneFrame, EndMark}

\* The list x is one that user u may have been given: the first, or of a saved turn.
Owns(u, x) == x = u \/ (x \in Streams /\ UserOf[x] = u /\ HasSaved(x))

\* Lists are handed from stream to stream of one user, and all of them are whole.
ListsInv ==
  /\ \A u \in Users : Owns(u, stored[u])
  /\ \A s \in Streams : Open(s) => Owns(UserOf[s], captured[s])
  /\ \A u \in Users : \A x \in Users \cup Streams :
       Owns(u, x) => IsWhole(lists[x], saved[u]) /\ InOrder(lists[x], saved[u])

\* The turn is one of the last of its user that the window has room for.
InWindow(u, i) == 2 * (Len(saved[u]) - i + 1) <= Window

Later(u, i) == {saved[u][j] : j \in (i + 1)..Len(saved[u])}

Overwritten(u, i) == elsewhere[saved[u][i]] \cap Later(u, i) # {}

\* A turn is in the history, and in the list of each open stream that was not given
\* another one when the turn was saved: that stream will not write over it.
KeptInv ==
  /\ \A u \in Users : \A i \in DOMAIN saved[u] : InWindow(u, i) =>
       Overwritten(u, i) \/ Holds(lists[stored[u]], saved[u], i)
  /\ \A s \in Streams : Open(s) => LET u == UserOf[s] IN
       \A i \in DOMAIN saved[u] : InWindow(u, i) =>
         Overwritten(u, i) \/ s \in elsewhere[saved[u][i]] \/ Holds(lists[captured[s]], saved[u], i)

\* What is checked for a client is about to be sent.
CheckInv == \A s \in Streams : phase[s] = "checking" => out[s] # <<>>

IInv == TypeOK /\ TokensInv /\ SavedInv /\ ListsInv /\ KeptInv /\ CheckInv
-----------------------------------------------------------------------------
\* What the lists become

\* The window is a number of turns.
LEMMA WindowOfTurns == Window \in Nat /\ \E w \in Nat \ {0} : Window = 2 * w
BY ChatAssumption

\* What Append adds to a sequence.
LEMMA AppendOf ==
  ASSUME NEW S, NEW t \in Seq(S), NEW e \in S
  PROVE  /\ Append(t, e) \in Seq(S)
         /\ Len(t) \in Nat
         /\ Len(Append(t, e)) = Len(t) + 1
         /\ DOMAIN t = 1..Len(t)
         /\ DOMAIN Append(t, e) = 1..(Len(t) + 1)
         /\ Append(t, e)[Len(t) + 1] = e
         /\ \A i \in 1..Len(t) : Append(t, e)[i] = t[i]
  OBVIOUS

\* What two elements add to a sequence.
LEMMA ConcatOf ==
  ASSUME NEW S, NEW l \in Seq(S), NEW t \in Seq(S), Len(t) = 2
  PROVE  /\ l \o t \in Seq(S)
         /\ Len(l) \in Nat
         /\ Len(l \o t) = Len(l) + 2
         /\ \A i \in 1..Len(l) : (l \o t)[i] = l[i]
         /\ (l \o t)[Len(l) + 1] = t[1]
         /\ (l \o t)[Len(l) + 2] = t[2]
<1>1. /\ l \o t \in Seq(S)
      /\ Len(l \o t) = Len(l) + Len(t)
      /\ \A i \in 1..Len(l) + Len(t) : (l \o t)[i] = IF i <= Len(l) THEN l[i] ELSE t[i - Len(l)]
  BY ConcatProperties, Zenon
<1>2. Len(l) \in Nat
  OBVIOUS
<1>3. \A i \in 1..Len(l) : (l \o t)[i] = l[i]
  BY <1>1, <1>2
<1>4. (l \o t)[Len(l) + 1] = t[1] /\ (l \o t)[Len(l) + 2] = t[2]
  <2>1. Len(l) + 1 \in 1..Len(l) + Len(t) /\ Len(l) + 2 \in 1..Len(l) + Len(t)
    BY <1>2
  <2>2. /\ (l \o t)[Len(l) + 1] = t[Len(l) + 1 - Len(l)]
        /\ (l \o t)[Len(l) + 2] = t[Len(l) + 2 - Len(l)]
    BY <1>1, <1>2, <2>1
  <2>3. Len(l) + 1 - Len(l) = 1 /\ Len(l) + 2 - Len(l) = 2
    BY <1>2
  <2>. QED  BY <2>2, <2>3
<1>. QED  BY <1>1, <1>2, <1>3, <1>4

\* What a turn adds to a list.
LEMMA TurnAdds ==
  ASSUME NEW l \in Seq(Messages), NEW s \in Streams
  PROVE  /\ l \o Turn(s) \in Seq(Messages)
         /\ Len(l) \in Nat
         /\ Len(l \o Turn(s)) = Len(l) + 2
         /\ \A i \in 1..Len(l) : (l \o Turn(s))[i] = l[i]
         /\ (l \o Turn(s))[Len(l) + 1] = <<s, "user">>
         /\ (l \o Turn(s))[Len(l) + 2] = <<s, "assistant">>
<1>1. Turn(s) \in Seq(Messages)
  BY DEF Turn, Messages
<1>2. Len(Turn(s)) = 2 /\ Turn(s)[1] = <<s, "user">> /\ Turn(s)[2] = <<s, "assistant">>
  BY DEF Turn
<1>. QED  BY <1>1, <1>2, ConcatOf

\* What is left of a sequence without its first elements.
LEMMA SuffixOf ==
  ASSUME NEW S, NEW l \in Seq(S), NEW d \in Nat, d <= Len(l)
  PROVE  /\ SubSeq(l, d + 1, Len(l)) \in Seq(S)
         /\ Len(SubSeq(l, d + 1, Len(l))) = Len(l) - d
         /\ \A i \in 1..(Len(l) - d) : SubSeq(l, d + 1, Len(l))[i] = l[i + d]
  OBVIOUS

\* The messages that the window keeps.
LEMMA WindowKeeps ==
  ASSUME NEW l \in Seq(Messages)
  PROVE  /\ LastMessages(Window, l) \in Seq(Messages)
         /\ Len(LastMessages(Window, l)) <= Window
         /\ \E d \in Nat : /\ d = IF Len(l) > Window THEN Len(l) - Window ELSE 0
                           /\ Len(LastMessages(Window, l)) = Len(l) - d
                           /\ \A i \in 1..(Len(l) - d) : LastMessages(Window, l)[i] = l[i + d]
<1>. DEFINE d == IF Len(l) > Window THEN Len(l) - Window ELSE 0
<1>1. Len(l) \in Nat /\ Window \in Nat
  BY WindowOfTurns
<1>2. d \in Nat /\ d <= Len(l) /\ Len(l) - d <= Window
  BY <1>1
<1>3. LastMessages(Window, l) = SubSeq(l, d + 1, Len(l))
  BY <1>1 DEF LastMessages
<1>. HIDE DEF d
<1>4. /\ SubSeq(l, d + 1, Len(l)) \in Seq(Messages)
      /\ Len(SubSeq(l, d + 1, Len(l))) = Len(l) - d
      /\ \A i \in 1..(Len(l) - d) : SubSeq(l, d + 1, Len(l))[i] = l[i + d]
  BY <1>2, SuffixOf
<1>. QED  BY <1>2, <1>3, <1>4 DEF d

-----------------------------------------------------------------------------
\* How lists of turns grow and shrink

\* A stream that has not saved its turn.
IsNew(s, turns) == \A i \in DOMAIN turns : turns[i] # s

\* Places of a list.
LEMMA PlacesOf ==
  ASSUME NEW l \in Seq(Messages), NEW k \in Places, 2 * k <= Len(l)
  PROVE  2 * k \in 1..Len(l) /\ 2 * k - 1 \in 1..Len(l) /\ k \in Nat /\ Len(l) \in Nat
BY DEF Places

\* A list that does not change has the turns that it had, in the longer order of saves.
LEMMA OtherList ==
  ASSUME NEW l \in Seq(Messages), NEW turns \in Seq(Streams), NEW s \in Streams,
         IsNew(s, turns), IsWhole(l, turns), InOrder(l, turns)
  PROVE  /\ IsWhole(l, Append(turns, s)) /\ InOrder(l, Append(turns, s))
         /\ \A i \in DOMAIN turns : Holds(l, turns, i) => Holds(l, Append(turns, s), i)
<1>. DEFINE more == Append(turns, s)
<1>1. /\ DOMAIN turns = 1..Len(turns) /\ DOMAIN more = 1..(Len(turns) + 1) /\ Len(turns) \in Nat
      /\ more[Len(turns) + 1] = s /\ \A i \in 1..Len(turns) : more[i] = turns[i]
  BY AppendOf
<1>. HIDE DEF more
<1>2. \A k \in Places, i \in DOMAIN turns : HoldsAt(l, k, more, i) <=> HoldsAt(l, k, turns, i)
  BY <1>1 DEF HoldsAt
<1>3. ASSUME NEW k \in Places, 2 * k <= Len(l), NEW i \in DOMAIN more, HoldsAt(l, k, more, i)
      PROVE  i \in DOMAIN turns
  <2>1. PICK a \in DOMAIN turns : HoldsAt(l, k, turns, a)
    BY <1>3 DEF IsWhole
  <2>2. turns[a] = more[i]
    BY <1>3, <2>1 DEF HoldsAt
  <2>. QED  BY <1>1, <2>2 DEF IsNew
<1>4. IsWhole(l, more)
  BY <1>1, <1>2 DEF IsWhole
<1>5. InOrder(l, more)
  <2>. SUFFICES ASSUME NEW j \in Places, NEW k \in Places, j <= k, 2 * k <= Len(l),
                       NEW a \in DOMAIN more, NEW b \in DOMAIN more,
                       HoldsAt(l, j, more, a), HoldsAt(l, k, more, b)
                PROVE  k - j <= b - a
    BY DEF InOrder
  <2>1. 2 * j <= Len(l)
    BY DEF Places
  <2>. QED  BY <1>2, <1>3, <2>1 DEF InOrder
<1>6. \A i \in DOMAIN turns : Holds(l, turns, i) => Holds(l, more, i)
  BY <1>2 DEF Holds
<1>. QED  BY <1>4, <1>5, <1>6 DEF more

\* A list that is extended by a turn has it as the last.
LEMMA ExtendedList ==
  ASSUME NEW l \in Seq(Messages), NEW turns \in Seq(Streams), NEW s \in Streams,
         IsNew(s, turns), IsWhole(l, turns), InOrder(l, turns)
  PROVE  LET more == Append(turns, s)
             longer == l \o Turn(s)
         IN  /\ longer \in Seq(Messages)
             /\ IsWhole(longer, more) /\ InOrder(longer, more)
             /\ Holds(longer, more, Len(more))
             /\ \A i \in DOMAIN turns : Holds(l, turns, i) => Holds(longer, more, i)
<1>. DEFINE more == Append(turns, s)
            longer == l \o Turn(s)
            n == Len(turns)
<1>1. /\ DOMAIN turns = 1..n /\ DOMAIN more = 1..(n + 1) /\ n \in Nat /\ Len(more) = n + 1
      /\ more[n + 1] = s /\ \A i \in 1..n : more[i] = turns[i]
  BY AppendOf
<1>2. /\ longer \in Seq(Messages) /\ Len(l) \in Nat /\ Len(longer) = Len(l) + 2
      /\ \A i \in 1..Len(l) : longer[i] = l[i]
      /\ longer[Len(l) + 1] = <<s, "user">> /\ longer[Len(l) + 2] = <<s, "assistant">>
  BY TurnAdds
<1>3. PICK m \in Nat : Len(l) = 2 * m
  BY DEF IsWhole
<1>4. /\ IsWhole(l, more) /\ InOrder(l, more)
      /\ \A i \in DOMAIN turns : Holds(l, turns, i) => Holds(l, more, i)
  BY OtherList
<1>. HIDE DEF more, longer, n
<1>5. ASSUME NEW k \in Places, 2 * k <= Len(longer)
      PROVE  k = m + 1 \/ (k <= m /\ 2 * k <= Len(l))
  BY <1>2, <1>3, <1>5 DEF Places
<1>6. ASSUME NEW k \in Places, 2 * k <= Len(l), NEW i
      PROVE  HoldsAt(longer, k, more, i) <=> HoldsAt(l, k, more, i)
  BY <1>2, <1>6, PlacesOf DEF HoldsAt
<1>7. m + 1 \in Places /\ 2 * (m + 1) - 1 = Len(l) + 1 /\ 2 * (m + 1) = Len(l) + 2
  BY <1>3 DEF Places
<1>8. HoldsAt(longer, m + 1, more, n + 1)
  BY <1>1, <1>2, <1>7 DEF HoldsAt
<1>9. ASSUME NEW i \in DOMAIN more, HoldsAt(longer, m + 1, more, i)
      PROVE  i = n + 1
  <2>1. more[i] = s
    BY <1>2, <1>7, <1>9 DEF HoldsAt
  <2>. QED  BY <1>1, <2>1 DEF IsNew
<1>10. IsWhole(longer, more)
  <2>1. Len(longer) = 2 * (m + 1) /\ m + 1 \in Nat
    BY <1>2, <1>3
  <2>2. ASSUME NEW k \in Places, 2 * k <= Len(longer)
        PROVE  \E i \in DOMAIN more : HoldsAt(longer, k, more, i)
    <3>1. CASE k = m + 1
      BY <1>1, <1>8, <3>1
    <3>2. CASE k <= m /\ 2 * k <= Len(l)
      BY <1>4, <1>6, <3>2 DEF IsWhole
    <3>. QED  BY <1>5, <2>2, <3>1, <3>2
  <2>. QED  BY <2>1, <2>2 DEF IsWhole
<1>11. InOrder(longer, more)
  <2>. SUFFICES ASSUME NEW j \in Places, NEW k \in Places, j <= k, 2 * k <= Len(longer),
                       NEW a \in DOMAIN more, NEW b \in DOMAIN more,
                       HoldsAt(longer, j, more, a), HoldsAt(longer, k, more, b)
                PROVE  k - j <= b - a
    BY DEF InOrder
  <2>1. j \in Nat /\ k \in Nat /\ 2 * j <= Len(longer) /\ a \in 1..(n + 1) /\ b \in 1..(n + 1)
    BY <1>1, <1>2 DEF Places
  <2>2. CASE k <= m /\ 2 * k <= Len(l)
    <3>1. 2 * j <= Len(l)
      BY <2>1, <2>2, <1>2
    <3>. QED  BY <1>4, <1>6, <2>2, <3>1 DEF InOrder
  <2>3. CASE k = m + 1 /\ j = m + 1
    BY <1>1, <1>3, <1>9, <2>1, <2>3
  <2>4. CASE k = m + 1 /\ j <= m /\ 2 * j <= Len(l)
    <3>1. b = n + 1
      BY <1>9, <2>4
    <3>2. m \in Places /\ 2 * m <= Len(l) /\ j <= m
      BY <1>3, <2>1, <2>4 DEF Places
    <3>3. PICK c \in DOMAIN turns : HoldsAt(l, m, turns, c)
      BY <3>2 DEF IsWhole
    <3>4. HoldsAt(l, m, more, c) /\ c \in DOMAIN more /\ c \in 1..n
      BY <1>1, <3>3 DEF HoldsAt
    <3>5. m - j <= c - a
      BY <1>4, <1>6, <2>4, <3>2, <3>4 DEF InOrder
    <3>6. /\ c \in Nat /\ a \in Nat /\ n \in Nat /\ m \in Nat /\ c <= n
          /\ j \in Nat /\ k = m + 1
      BY <1>1, <1>3, <2>1, <2>4, <3>4
    <3>7. (m + 1) - j <= (n + 1) - a
      BY ONLY <3>5, <3>6
    <3>. QED  BY <3>1, <3>6, <3>7, Zenon
  <2>. QED  BY <1>5, <2>1, <2>2, <2>3, <2>4
<1>12. Holds(longer, more, Len(more))
  BY <1>1, <1>2, <1>7, <1>8 DEF Holds
<1>13. \A i \in DOMAIN turns : Holds(l, turns, i) => Holds(longer, more, i)
  <2>. SUFFICES ASSUME NEW i \in DOMAIN turns, Holds(l, more, i)
                PROVE  Holds(longer, more, i)
    BY <1>4
  <2>1. PICK k \in Places : 2 * k <= Len(l) /\ HoldsAt(l, k, more, i)
    BY DEF Holds
  <2>2. 2 * k <= Len(longer)
    BY <1>2, <2>1 DEF Places
  <2>. QED  BY <1>6, <2>1, <2>2 DEF Holds
<1>. QED  BY <1>2, <1>10, <1>11, <1>12, <1>13 DEF more, longer

\* The window drops whole turns, the oldest ones, and keeps the turns it has room for.
LEMMA WindowedList ==
  ASSUME NEW l \in Seq(Messages), NEW turns \in Seq(Streams), IsWhole(l, turns), InOrder(l, turns)
  PROVE  LET w == LastMessages(Window, l)
         IN  /\ w \in Seq(Messages) /\ Len(w) <= Window
             /\ IsWhole(w, turns) /\ InOrder(w, turns)
             /\ \A i \in DOMAIN turns :
                  2 * (Len(turns) - i + 1) <= Window /\ Holds(l, turns, i) => Holds(w, turns, i)
<1>. DEFINE w == LastMessages(Window, l)
<1>1. w \in Seq(Messages) /\ Len(w) <= Window
  BY WindowKeeps
<1>2. PICK d \in Nat : /\ d = IF Len(l) > Window THEN Len(l) - Window ELSE 0
                       /\ Len(w) = Len(l) - d
                       /\ \A i \in 1..(Len(l) - d) : w[i] = l[i + d]
  BY WindowKeeps
<1>3. PICK m \in Nat : Len(l) = 2 * m
  BY DEF IsWhole
<1>4. PICK v \in Nat : Window = 2 * v
  BY WindowOfTurns
<1>5. PICK e \in Nat : d = 2 * e /\ e <= m /\ (m > v => e = m - v) /\ (m <= v => e = 0)
  <2>1. CASE m > v
    <3>1. m - v \in Nat /\ d = 2 * (m - v) /\ m - v <= m
      BY <1>2, <1>3, <1>4, <2>1
    <3>. QED  BY <2>1, <3>1
  <2>2. CASE m <= v
    <3>1. d = 2 * 0
      BY <1>2, <1>3, <1>4, <2>2
    <3>. QED  BY <2>2, <3>1
  <2>. QED  BY <2>1, <2>2
<1>6. Len(w) = 2 * (m - e) /\ m - e \in Nat /\ Len(w) \in Nat /\ DOMAIN turns = 1..Len(turns)
      /\ Len(turns) \in Nat
  BY <1>2, <1>3, <1>5
<1>. HIDE DEF w
<1>7. ASSUME NEW k \in Places, 2 * k <= Len(w)
      PROVE  /\ k + e \in Places /\ 2 * (k + e) <= Len(l)
             /\ \A i : HoldsAt(w, k, turns, i) <=> HoldsAt(l, k + e, turns, i)
  <2>1. k \in Nat /\ k > 0 /\ k <= m - e
    BY <1>6, <1>7 DEF Places
  <2>2. k + e \in Places /\ 2 * (k + e) <= Len(l)
    BY <1>3, <1>5, <2>1 DEF Places
  <2>3. /\ 2 * k - 1 \in 1..(Len(l) - d) /\ 2 * k \in 1..(Len(l) - d)
        /\ 2 * k - 1 + d = 2 * (k + e) - 1 /\ 2 * k + d = 2 * (k + e)
    BY <1>3, <1>5, <2>1
  <2>4. w[2 * k - 1] = l[2 * (k + e) - 1] /\ w[2 * k] = l[2 * (k + e)]
    BY <1>2, <2>3
  <2>. QED  BY <2>2, <2>4 DEF HoldsAt
<1>8. IsWhole(w, turns)
  BY <1>6, <1>7 DEF IsWhole
<1>9. InOrder(w, turns)
  <2>. SUFFICES ASSUME NEW j \in Places, NEW k \in Places, j <= k, 2 * k <= Len(w),
                       NEW a \in DOMAIN turns, NEW b \in DOMAIN turns,
                       HoldsAt(w, j, turns, a), HoldsAt(w, k, turns, b)
                PROVE  k - j <= b - a
    BY DEF InOrder
  <2>1. j \in Nat /\ k \in Nat /\ 2 * j <= Len(w)
    BY <1>6 DEF Places
  <2>2. /\ j + e \in Places /\ k + e \in Places /\ 2 * (k + e) <= Len(l) /\ j + e <= k + e
        /\ HoldsAt(l, j + e, turns, a) /\ HoldsAt(l, k + e, turns, b)
    BY <1>7, <2>1
  <2>3. (k + e) - (j + e) <= b - a
    BY <2>2 DEF InOrder
  <2>. QED  BY <2>1, <2>3
<1>10. ASSUME NEW i \in DOMAIN turns, 2 * (Len(turns) - i + 1) <= Window, Holds(l, turns, i)
       PROVE  Holds(w, turns, i)
  <2>1. PICK k \in Places : 2 * k <= Len(l) /\ HoldsAt(l, k, turns, i)
    BY <1>10 DEF Holds
  <2>2. k \in Nat /\ k > 0 /\ k <= m
    BY <1>3, <2>1 DEF Places
  <2>3. m \in Places /\ 2 * m <= Len(l)
    BY <1>3, <2>2 DEF Places
  <2>4. PICK c \in DOMAIN turns : HoldsAt(l, m, turns, c)
    BY <2>3 DEF IsWhole
  <2>5. m - k <= c - i
    BY <2>1, <2>2, <2>3, <2>4 DEF InOrder
  <2>6. k > e
    BY <1>4, <1>5, <1>6, <1>10, <2>2, <2>4, <2>5
  <2>7. k - e \in Places /\ 2 * (k - e) <= Len(w) /\ (k - e) + e = k
    BY <1>5, <1>6, <2>2, <2>6 DEF Places
  <2>8. HoldsAt(w, k - e, turns, i)
    BY <1>7, <2>1, <2>7
  <2>. QED  BY <2>7, <2>8 DEF Holds
<1>. QED  BY <1>1, <1>8, <1>9, <1>10 DEF w

-----------------------------------------------------------------------------
\* Steps that leave the stores alone

\* It holds before the first request.
LEMMA InitInv == Init => IInv
<1>. SUFFICES ASSUME Init PROVE IInv
  OBVIOUS
<1>a. Window \in Nat /\ <<>> \in Seq(Messages) /\ Len(<<>>) = 0 /\ DOMAIN <<>> = {}
  BY WindowOfTurns
<1>1. TypeOK
  BY <1>a, ChatAssumption DEF Init, TypeOK, Phases, RunStates
<1>2. TokensInv /\ CheckInv
  BY DEF Init, TokensInv, CheckInv
<1>3. \A s \in Streams : ~HasSaved(s)
  BY <1>a, ChatAssumption DEF Init, HasSaved
<1>4. SavedInv
  BY <1>a, <1>3 DEF Init, SavedInv, Distinct
<1>5. ListsInv
  <2>1. ASSUME NEW u \in Users PROVE IsWhole(<<>>, saved[u]) /\ InOrder(<<>>, saved[u])
    <3>1. \A k \in Places : ~(2 * k <= 0)
      BY DEF Places
    <3>2. 0 = 2 * 0 /\ 0 \in Nat
      OBVIOUS
    <3>. QED  BY <1>a, <3>1, <3>2 DEF IsWhole, InOrder
  <2>. QED  BY <2>1 DEF Init, ListsInv, Owns, Open
<1>6. KeptInv
  BY <1>a, ChatAssumption DEF Init, KeptInv, Open
<1>. QED  BY <1>1, <1>2, <1>4, <1>5, <1>6 DEF IInv

\* The stores stay as they are, no stream opens or is let in, and one that has
\* saved its turn only ends.
LEMMA StoresKept ==
  ASSUME IInv, UNCHANGED <<auth, history>>,
         \A s \in Streams : phase'[s] \notin {"new", "rejected"} => phase[s] \notin {"new", "rejected"},
         \A s \in Streams : Open(s)' => Open(s),
         \A s \in Streams : HasSaved(s) =>
           /\ phase'[s] \in {"sending", "closed"}
           /\ out'[s] = <<>>
           /\ phase'[s] = "sending" => LastFrame(s)' \in {DoneFrame, EndMark}
  PROVE  TokensInv' /\ SavedInv' /\ ListsInv' /\ KeptInv'
<1>t. TokensInv /\ SavedInv /\ ListsInv /\ KeptInv
  BY DEF IInv
<1>1. /\ bindings' = bindings /\ lists' = lists /\ stored' = stored /\ captured' = captured
      /\ saved' = saved /\ elsewhere' = elsewhere
  BY DEF auth, history
<1>2. \A s \in Streams : HasSaved(s)' <=> HasSaved(s)
  BY <1>1 DEF HasSaved
<1>3. TokensInv'
  BY <1>t, <1>1 DEF TokensInv
<1>4. SavedInv'
  BY <1>t, <1>1, <1>2 DEF SavedInv
<1>5. ListsInv'
  <2>1. \A u \in Users : \A x : Owns(u, x)' <=> Owns(u, x)
    BY <1>2 DEF Owns
  <2>. QED  BY <1>t, <1>1, <2>1, ChatAssumption DEF ListsInv
<1>6. KeptInv'
  <2>1. \A u, i : (InWindow(u, i)' <=> InWindow(u, i)) /\ (Overwritten(u, i)' <=> Overwritten(u, i))
    BY <1>1 DEF InWindow, Overwritten, Later
  <2>2. \A u, i : /\ Holds(lists[stored[u]], saved[u], i)' <=> Holds(lists[stored[u]], saved[u], i)
                 /\ \A s : Holds(lists[captured[s]], saved[u], i)' <=> Holds(lists[captured[s]], saved[u], i)
    BY <1>1
  <2>. QED  BY <1>t, <1>1, <2>1, <2>2, Zenon DEF KeptInv
<1>. QED  BY <1>3, <1>4, <1>5, <1>6

\* The first element of a sequence, and what is left of it.
LEMMA HeadOf ==
  ASSUME NEW S, NEW q \in Seq(S), q # <<>>
  PROVE  Head(q) \in S /\ Tail(q) \in Seq(S)
  OBVIOUS

\* Work in the background, and a client that goes away.
LEMMA BackgroundInv ==
  ASSUME IInv, NEW s \in Streams, EventSink(s) \/ Background(s) \/ Disconnect(s)
  PROVE  IInv'
<1>t. TypeOK /\ SavedInv /\ CheckInv
  BY DEF IInv
<1>1. UNCHANGED <<auth, history, phase, out, frames>>
  BY DEF EventSink, Background, StartBoard, BoardEnds, EventLoop, EndRun, Disconnect, auth, history,
         stream
<1>2. TokensInv' /\ SavedInv' /\ ListsInv' /\ KeptInv'
  BY <1>t, <1>1, StoresKept DEF SavedInv, Open, LastFrame, history
<1>3. CheckInv'
  BY <1>t, <1>1 DEF CheckInv
<1>4. Sentinel \in Milestones \cup {Sentinel}
  OBVIOUS
<1>5. /\ client' \in [Streams -> BOOLEAN] /\ run' \in [Streams -> RunStates]
      /\ emitted' \in [Streams -> Nat] /\ \A q \in Streams : emitted'[q] <= MaxMilestones[q]
      /\ callbacks' \in [Streams -> Seq(Milestones \cup {Sentinel})]
      /\ queue' \in [Streams -> Seq(Milestones \cup {Sentinel})]
  <2>1. /\ client \in [Streams -> BOOLEAN] /\ run \in [Streams -> RunStates]
        /\ emitted \in [Streams -> Nat] /\ \A q \in Streams : emitted[q] <= MaxMilestones[q]
        /\ callbacks \in [Streams -> Seq(Milestones \cup {Sentinel})]
        /\ queue \in [Streams -> Seq(Milestones \cup {Sentinel})]
        /\ MaxMilestones \in [Streams -> Nat]
    BY <1>t, ChatAssumption DEF TypeOK
  <2>2. CASE StartBoard(s)
    BY <2>1, <2>2 DEF StartBoard, RunStates, stream
  <2>3. CASE EventSink(s)
    <3>1. <<"milestone", emitted[s] + 1>> \in Milestones
      BY <2>1 DEF Milestones
    <3>2. /\ emitted' = [emitted EXCEPT ![s] = @ + 1] /\ emitted[s] < MaxMilestones[s]
          /\ callbacks' = [callbacks EXCEPT ![s] = Append(@, <<"milestone", emitted[s] + 1>>)]
          /\ UNCHANGED <<client, run, queue>>
      BY <2>3 DEF EventSink, stream
    <3>3. Append(callbacks[s], <<"milestone", emitted[s] + 1>>) \in Seq(Milestones \cup {Sentinel})
      BY <2>1, <3>1
    <3>4. emitted' \in [Streams -> Nat] /\ \A q \in Streams : emitted'[q] <= MaxMilestones[q]
      BY <2>1, <3>2
    <3>. QED  BY <2>1, <3>2, <3>3, <3>4
  <2>4. CASE BoardEnds(s)
    <3>1. Append(callbacks[s], Sentinel) \in Seq(Milestones \cup {Sentinel})
      BY <2>1
    <3>. QED  BY <2>1, <2>4, <3>1 DEF BoardEnds, BehindEvents, stream
  <2>5. CASE EventLoop(s)
    <3>1. /\ callbacks[s] # <<>> /\ callbacks[s] \in Seq(Milestones \cup {Sentinel})
          /\ callbacks' = [callbacks EXCEPT ![s] = Tail(callbacks[s])]
          /\ UNCHANGED <<client, emitted>>
      BY <2>1, <2>5 DEF EventLoop, stream
    <3>2. Head(callbacks[s]) \in Milestones \cup {Sentinel}
          /\ Tail(callbacks[s]) \in Seq(Milestones \cup {Sentinel})
      BY <3>1, HeadOf
    <3>3. \/ run' = [run EXCEPT ![s] = IF @ = "board" THEN "finalizing" ELSE @] /\ queue' = queue
          \/ queue' = [queue EXCEPT ![s] = Append(queue[s], Head(callbacks[s]))] /\ run' = run
      BY <2>5 DEF EventLoop
    <3>4. Append(queue[s], Head(callbacks[s])) \in Seq(Milestones \cup {Sentinel})
      BY <2>1, <3>2
    <3>5. run' \in [Streams -> RunStates]
      BY <2>1, <3>3 DEF RunStates
    <3>6. queue' \in [Streams -> Seq(Milestones \cup {Sentinel})]
      BY <2>1, <3>3, <3>4
    <3>. QED  BY <2>1, <3>1, <3>2, <3>5, <3>6
  <2>6. CASE EndRun(s)
    <3>1. Append(queue[s], Sentinel) \in Seq(Milestones \cup {Sentinel})
      BY <2>1
    <3>2. PICK result \in {"answered", "failed"} :
            /\ run' = [run EXCEPT ![s] = result]
            /\ queue' = [queue EXCEPT ![s] = Append(queue[s], Sentinel)]
            /\ UNCHANGED <<client, emitted, callbacks>>
      BY <2>6 DEF EndRun, WakeReader, stream
    <3>. QED  BY <2>1, <3>1, <3>2 DEF RunStates
  <2>7. CASE Disconnect(s)
    BY <2>1, <2>7 DEF Disconnect, background
  <2>. QED  BY <2>2, <2>3, <2>4, <2>5, <2>6, <2>7 DEF Background
<1>6. TypeOK'
  BY <1>t, <1>1, <1>5 DEF TypeOK, auth, history
<1>. QED  BY <1>2, <1>3, <1>6 DEF IInv

\* A request is let in with the token of its user, or it is rejected.
LEMMA StreamAIInv == ASSUME IInv, NEW s \in Streams, StreamAI(s) PROVE IInv'
<1>. DEFINE u == UserOf[s]
            t == TokenOf[s]
<1>t. TypeOK /\ TokensInv /\ SavedInv /\ ListsInv /\ KeptInv /\ CheckInv
  BY DEF IInv
<1>a. u \in Users /\ t \in Tokens /\ NoToken \notin Tokens /\ UserOf \in [Streams -> Users]
      /\ phase \in [Streams -> Phases] /\ bindings \in [Users -> Tokens \cup {NoToken}]
  BY <1>t, ChatAssumption DEF TypeOK
<1>1. /\ phase[s] = "new"
      /\ UNCHANGED <<history, client, out, frames, background>>
      /\ \/ /\ bindings[u] = NoToken /\ bindings' = [bindings EXCEPT ![u] = t]
            /\ phase' = [phase EXCEPT ![s] = "starting"]
         \/ /\ bindings[u] = t /\ bindings' = bindings
            /\ phase' = [phase EXCEPT ![s] = "starting"]
         \/ /\ bindings' = bindings
            /\ phase' = [phase EXCEPT ![s] = "rejected"]
  BY DEF StreamAI, BindsFirst
<1>2. /\ phase' \in [Streams -> Phases] /\ bindings' \in [Users -> Tokens \cup {NoToken}]
      /\ phase'[s] \in {"starting", "rejected"} /\ \A q \in Streams \ {s} : phase'[q] = phase[q]
  BY <1>a, <1>1 DEF Phases
<1>3. TypeOK'
  BY <1>t, <1>1, <1>2 DEF TypeOK, history, background
<1>4. TokensInv'
  <2>1. \A v \in Users : bindings[v] # NoToken => bindings'[v] = bindings[v]
    BY <1>a, <1>1
  <2>2. \A q \in Streams : phase[q] \notin {"new", "rejected"} =>
          bindings[UserOf[q]] = TokenOf[q] /\ bindings[UserOf[q]] # NoToken
    BY <1>t, <1>a, ChatAssumption DEF TokensInv
  <2>3. phase'[s] = "starting" => bindings'[u] = t
    BY <1>a, <1>1
  <2>. QED  BY <1>1, <1>2, <1>a, <2>1, <2>2, <2>3 DEF TokensInv
<1>5. \A q \in Streams : HasSaved(q)' <=> HasSaved(q)
  BY <1>1 DEF HasSaved, history
<1>6. ~HasSaved(s)
  BY <1>t, <1>1 DEF SavedInv
<1>7. SavedInv'
  <2>1. \A q \in Streams : HasSaved(q) => q # s
    BY <1>6
  <2>. QED  BY <1>t, <1>1, <1>2, <1>5, <2>1 DEF SavedInv, history, LastFrame
<1>8. \A q \in Streams : Open(q)' => Open(q)
  BY <1>2 DEF Open
<1>9. ListsInv'
  <2>1. \A v \in Users : \A x : Owns(v, x)' <=> Owns(v, x)
    BY <1>5 DEF Owns
  <2>. QED  BY <1>t, <1>1, <1>8, <2>1, <1>a DEF ListsInv, history
<1>10. KeptInv'
  <2>1. /\ lists' = lists /\ stored' = stored /\ captured' = captured /\ saved' = saved
        /\ elsewhere' = elsewhere
    BY <1>1 DEF history
  <2>2. \A v, i : (InWindow(v, i)' <=> InWindow(v, i)) /\ (Overwritten(v, i)' <=> Overwritten(v, i))
    BY <2>1 DEF InWindow, Overwritten, Later
  <2>3. \A v, i : /\ Holds(lists[stored[v]], saved[v], i)' <=> Holds(lists[stored[v]], saved[v], i)
                 /\ \A q : Holds(lists[captured[q]], saved[v], i)' <=> Holds(lists[captured[q]], saved[v], i)
    BY <2>1
  <2>. QED  BY <1>t, <1>8, <2>1, <2>2, <2>3, Zenon DEF KeptInv
<1>11. CheckInv'
  BY <1>t, <1>1, <1>2 DEF CheckInv
<1>. QED  BY <1>3, <1>4, <1>7, <1>9, <1>10, <1>11 DEF IInv

\* A stream is given the list of its user.
LEMMA BuildChatStreamInv == ASSUME IInv, NEW s \in Streams, BuildChatStream(s) PROVE IInv'
<1>. DEFINE u == UserOf[s]
<1>t. TypeOK /\ TokensInv /\ SavedInv /\ ListsInv /\ KeptInv /\ CheckInv
  BY DEF IInv
<1>a. u \in Users /\ UserOf \in [Streams -> Users] /\ stored[u] \in Users \cup Streams
  BY <1>t, ChatAssumption DEF TypeOK
<1>1. /\ phase[s] = "starting" /\ phase' = [phase EXCEPT ![s] = "waiting"]
      /\ captured' = [captured EXCEPT ![s] = stored[u]]
      /\ run' = [run EXCEPT ![s] = "preparing"]
      /\ bindings' = bindings /\ lists' = lists /\ stored' = stored /\ saved' = saved
      /\ elsewhere' = elsewhere
      /\ UNCHANGED <<client, out, frames, emitted, callbacks, queue>>
  BY DEF BuildChatStream, Go, auth
<1>2. /\ phase' \in [Streams -> Phases] /\ phase'[s] = "waiting"
      /\ \A q \in Streams \ {s} : phase'[q] = phase[q]
      /\ captured' \in [Streams -> Users \cup Streams \cup {"none"}] /\ captured'[s] = stored[u]
      /\ \A q \in Streams \ {s} : captured'[q] = captured[q]
      /\ run' \in [Streams -> RunStates]
  BY <1>t, <1>a, <1>1 DEF TypeOK, Phases, RunStates
<1>3. TypeOK'
  BY <1>t, <1>1, <1>2 DEF TypeOK
<1>4. TokensInv' /\ CheckInv'
  BY <1>t, <1>1, <1>2 DEF TokensInv, CheckInv
<1>5. \A q \in Streams : HasSaved(q)' <=> HasSaved(q)
  BY <1>1 DEF HasSaved
<1>6. ~HasSaved(s)
  BY <1>t, <1>1 DEF SavedInv
<1>7. SavedInv'
  <2>1. \A q \in Streams : HasSaved(q) => q # s
    BY <1>6
  <2>. QED  BY <1>t, <1>1, <1>2, <1>5, <2>1 DEF SavedInv, LastFrame
<1>8. \A q \in Streams \ {s} : Open(q)' => Open(q)
  BY <1>2 DEF Open
<1>9. ListsInv'
  <2>1. \A v \in Users : \A x : Owns(v, x)' <=> Owns(v, x)
    BY <1>5 DEF Owns
  <2>2. Owns(u, stored[u])
    BY <1>t, <1>a DEF ListsInv
  <2>3. ASSUME NEW q \in Streams, Open(q)' PROVE Owns(UserOf[q], captured'[q])
    BY <1>t, <1>2, <1>8, <2>2, <2>3 DEF ListsInv
  <2>. QED  BY <1>t, <1>1, <2>1, <2>3, <1>a DEF ListsInv
<1>10. KeptInv'
  <2>1. \A v, i : (InWindow(v, i)' <=> InWindow(v, i)) /\ (Overwritten(v, i)' <=> Overwritten(v, i))
    BY <1>1 DEF InWindow, Overwritten, Later
  <2>2. \A v, i : Holds(lists[stored[v]], saved[v], i)' <=> Holds(lists[stored[v]], saved[v], i)
    BY <1>1
  <2>3. \A v \in Users : \A i \in DOMAIN saved[v] : InWindow(v, i) =>
          Overwritten(v, i) \/ Holds(lists[stored[v]], saved[v], i)
    BY <1>t DEF KeptInv
  <2>4. ASSUME NEW q \in Streams, Open(q)', NEW i \in DOMAIN saved[UserOf[q]], InWindow(UserOf[q], i)
        PROVE  \/ Overwritten(UserOf[q], i) \/ q \in elsewhere[saved[UserOf[q]][i]]
               \/ Holds(lists[captured'[q]], saved[UserOf[q]], i)
    <3>1. CASE q = s
      BY <1>2, <1>a, <2>3, <2>4, <3>1
    <3>2. CASE q # s
      BY <1>t, <1>2, <1>8, <2>4, <3>2 DEF KeptInv
    <3>. QED  BY <3>1, <3>2
  <2>. QED  BY <1>1, <2>1, <2>2, <2>3, <2>4, Zenon DEF KeptInv
<1>. QED  BY <1>3, <1>4, <1>7, <1>9, <1>10 DEF IInv

-----------------------------------------------------------------------------
\* Steps of a stream

\* The stream s moves on, among the phases of an open one, or closes.
Moves(s) ==
  /\ UNCHANGED <<auth, history, client, emitted, callbacks>>
  /\ phase[s] \in {"waiting", "checking", "sending"} \/ (phase[s] = "starting" /\ phase'[s] = "closed")
  /\ phase' \in [Streams -> Phases] /\ phase'[s] \in {"waiting", "checking", "sending", "closed"}
  /\ out' \in [Streams -> Seq(Frames)]
  /\ frames' \in [Streams -> Seq(Frames)]
  /\ \A q \in Streams \ {s} : phase'[q] = phase[q] /\ out'[q] = out[q] /\ frames'[q] = frames[q]
  /\ run' \in [Streams -> RunStates]
  /\ queue' \in [Streams -> Seq(Milestones \cup {Sentinel})]
  /\ phase'[s] = "checking" => out'[s] # <<>>
  /\ HasSaved(s) =>
       /\ phase'[s] \in {"sending", "closed"}
       /\ out'[s] = <<>>
       /\ phase'[s] = "sending" => LastFrame(s)' \in {DoneFrame, EndMark}

LEMMA StreamMoves == ASSUME IInv, NEW s \in Streams, Moves(s) PROVE IInv'
<1>t. TypeOK /\ SavedInv /\ CheckInv
  BY DEF IInv
<1>1. \A q \in Streams : Open(q)' => Open(q)
  BY DEF Moves, Open
<1>2. \A q \in Streams : phase'[q] \notin {"new", "rejected"} => phase[q] \notin {"new", "rejected"}
  BY DEF Moves
<1>3. ASSUME NEW q \in Streams, HasSaved(q)
      PROVE  /\ phase'[q] \in {"sending", "closed"}
             /\ out'[q] = <<>>
             /\ phase'[q] = "sending" => LastFrame(q)' \in {DoneFrame, EndMark}
  <2>1. CASE q = s
    BY <1>3, <2>1 DEF Moves
  <2>2. CASE q # s
    BY <1>t, <1>3, <2>2 DEF Moves, SavedInv, LastFrame
  <2>. QED  BY <2>1, <2>2
<1>4. TokensInv' /\ SavedInv' /\ ListsInv' /\ KeptInv'
  <2>1. UNCHANGED <<auth, history>>
    BY DEF Moves
  <2>. QED  BY <2>1, <1>1, <1>2, <1>3, StoresKept
<1>5. TypeOK'
  BY <1>t DEF Moves, TypeOK, auth, history
<1>6. CheckInv'
  BY <1>t DEF Moves, CheckInv
<1>. QED  BY <1>4, <1>5, <1>6 DEF IInv

\* A frame is added to those that were sent.
LEMMA SendAdds ==
  ASSUME TypeOK, NEW s \in Streams, NEW f \in Frames, Send(s, f)
  PROVE  /\ frames' \in [Streams -> Seq(Frames)]
         /\ \A q \in Streams \ {s} : frames'[q] = frames[q]
         /\ LastFrame(s)' = f
<1>1. frames \in [Streams -> Seq(Frames)] /\ frames' = [frames EXCEPT ![s] = Append(frames[s], f)]
  BY DEF TypeOK, Send
<1>2. frames[s] \in Seq(Frames)
  BY <1>1
<1>3. /\ Append(frames[s], f) \in Seq(Frames) /\ Len(frames[s]) \in Nat
      /\ Len(Append(frames[s], f)) = Len(frames[s]) + 1
      /\ Append(frames[s], f)[Len(frames[s]) + 1] = f
  BY <1>2, AppendOf
<1>4. frames'[s] = Append(frames[s], f)
  BY <1>1
<1>5. LastFrame(s)' = f
  BY <1>3, <1>4 DEF LastFrame
<1>. QED  BY <1>1, <1>3, <1>5

\* The answer has a frame, and all of it are frames.
LEMMA AnswerOf == Answer \in Seq(Frames) /\ Answer # <<>>
<1>1. Chunks \in Nat /\ Chunks > 0
  BY ChatAssumption
<1>2. \A i \in 1..Chunks : <<"chunk", i>> \in Frames
  BY DEF Frames, Pieces
<1>. DEFINE a == [i \in 1..Chunks |-> <<"chunk", i>>]
<1>3. a \in [1..Chunks -> Frames]
  BY <1>2
<1>4. a \in Seq(Frames)
  BY <1>1, <1>3
<1>5. DOMAIN a = 1..Chunks /\ 1 \in 1..Chunks
  BY <1>1
<1>6. a # <<>>
  BY <1>5
<1>. QED  BY <1>4, <1>6 DEF Answer

\* The types of what a stream has.
LEMMA StreamTypes ==
  ASSUME TypeOK, NEW s \in Streams
  PROVE  /\ phase \in [Streams -> Phases] /\ out \in [Streams -> Seq(Frames)]
         /\ frames \in [Streams -> Seq(Frames)] /\ run \in [Streams -> RunStates]
         /\ queue \in [Streams -> Seq(Milestones \cup {Sentinel})]
         /\ out[s] \in Seq(Frames) /\ queue[s] \in Seq(Milestones \cup {Sentinel})
         /\ RunStarted \in Frames /\ ErrorFrame \in Frames /\ DoneFrame \in Frames /\ EndMark \in Frames
         /\ Milestones \subseteq Frames
BY DEF TypeOK, Frames

\* The next event.
LEMMA TakeEventInv == ASSUME IInv, NEW s \in Streams, TakeEvent(s) PROVE IInv'
<1>. DEFINE item == Head(queue[s])
            first == IF frames[s] = <<>> THEN <<RunStarted>> ELSE <<>>
<1>t. TypeOK /\ SavedInv
  BY DEF IInv
<1>1. /\ phase[s] = "waiting" /\ queue[s] # <<>>
      /\ queue' = [queue EXCEPT ![s] = Tail(queue[s])]
      /\ UNCHANGED <<auth, history, client, run, emitted, callbacks>>
      /\ \/ /\ item # Sentinel
            /\ out' = [out EXCEPT ![s] = Append(first, item)]
            /\ phase' = [phase EXCEPT ![s] = "checking"] /\ frames' = frames
         \/ /\ out' = [out EXCEPT ![s] = first \o Answer]
            /\ phase' = [phase EXCEPT ![s] = "checking"] /\ frames' = frames
         \/ /\ Send(s, ErrorFrame)
            /\ phase' = [phase EXCEPT ![s] = "sending"] /\ out' = out
  BY DEF TakeEvent
<1>2. item \in Milestones \cup {Sentinel} /\ Tail(queue[s]) \in Seq(Milestones \cup {Sentinel})
  BY <1>t, <1>1, StreamTypes, HeadOf
<1>3. first \in Seq(Frames)
  BY <1>t, StreamTypes
<1>4. queue' \in [Streams -> Seq(Milestones \cup {Sentinel})] /\ run' \in [Streams -> RunStates]
  BY <1>t, <1>1, <1>2, StreamTypes
<1>5. ~HasSaved(s)
  BY <1>t, <1>1 DEF SavedInv
<1>. HIDE DEF first
<1>6. CASE /\ item # Sentinel
           /\ out' = [out EXCEPT ![s] = Append(first, item)]
           /\ phase' = [phase EXCEPT ![s] = "checking"] /\ frames' = frames
  <2>1. item \in Frames
    BY <1>t, <1>2, <1>6, StreamTypes
  <2>2. Append(first, item) \in Seq(Frames) /\ Append(first, item) # <<>>
    <3>1. /\ Append(first, item) \in Seq(Frames) /\ Len(first) \in Nat
          /\ Len(Append(first, item)) = Len(first) + 1
      BY <1>3, <2>1, AppendOf
    <3>. QED  BY <3>1
  <2>. HIDE DEF item
  <2>3. /\ out' \in [Streams -> Seq(Frames)] /\ out'[s] # <<>>
        /\ \A q \in Streams \ {s} : out'[q] = out[q]
    BY <1>t, <1>6, <2>2, StreamTypes
  <2>4. /\ phase' \in [Streams -> Phases] /\ phase'[s] = "checking"
        /\ \A q \in Streams \ {s} : phase'[q] = phase[q]
    BY <1>t, <1>6, StreamTypes DEF Phases
  <2>9. Moves(s)
    BY <1>t, <1>1, <1>4, <1>5, <1>6, <2>3, <2>4, StreamTypes DEF Moves
  <2>. QED  BY <2>9, StreamMoves
<1>7. CASE /\ out' = [out EXCEPT ![s] = first \o Answer]
           /\ phase' = [phase EXCEPT ![s] = "checking"] /\ frames' = frames
  <2>1. first \o Answer \in Seq(Frames) /\ first \o Answer # <<>>
    <3>1. /\ first \o Answer \in Seq(Frames)
          /\ Len(first \o Answer) = Len(first) + Len(Answer)
      BY <1>3, AnswerOf, ConcatProperties
    <3>2. Len(first) \in Nat /\ Len(Answer) \in Nat /\ Len(Answer) # 0
      BY <1>3, AnswerOf, EmptySeq
    <3>. QED  BY <3>1, <3>2
  <2>2. /\ out' \in [Streams -> Seq(Frames)] /\ out'[s] # <<>>
        /\ \A q \in Streams \ {s} : out'[q] = out[q]
    BY <1>t, <1>7, <2>1, StreamTypes
  <2>3. /\ phase' \in [Streams -> Phases] /\ phase'[s] = "checking"
        /\ \A q \in Streams \ {s} : phase'[q] = phase[q]
    BY <1>t, <1>7, StreamTypes DEF Phases
  <2>9. Moves(s)
    BY <1>t, <1>1, <1>4, <1>5, <1>7, <2>2, <2>3, StreamTypes DEF Moves
  <2>. QED  BY <2>9, StreamMoves
<1>8. CASE /\ Send(s, ErrorFrame)
           /\ phase' = [phase EXCEPT ![s] = "sending"] /\ out' = out
  <2>1. /\ phase' \in [Streams -> Phases] /\ phase'[s] = "sending"
        /\ \A q \in Streams \ {s} : phase'[q] = phase[q]
    BY <1>t, <1>8, StreamTypes DEF Phases
  <2>9. Moves(s)
    BY <1>t, <1>1, <1>4, <1>5, <1>8, <2>1, StreamTypes, SendAdds DEF Moves
  <2>. QED  BY <2>9, StreamMoves
<1>. QED  BY <1>1, <1>6, <1>7, <1>8

\* An event becomes a frame, or the client is gone.
LEMMA CheckingInv == ASSUME IInv, NEW s \in Streams, Connected(s) \/ Disconnected(s) PROVE IInv'
<1>t. TypeOK /\ SavedInv /\ CheckInv
  BY DEF IInv
<1>1. /\ phase[s] = "checking" /\ phase' = [phase EXCEPT ![s] = "sending"]
      /\ UNCHANGED <<auth, history, client, run, emitted, callbacks, queue>>
      /\ \/ Send(s, Head(out[s])) /\ out' = [out EXCEPT ![s] = Tail(out[s])]
         \/ Send(s, EndMark) /\ out' = [out EXCEPT ![s] = <<>>]
  BY DEF Connected, Disconnected, Go, background
<1>2. Head(out[s]) \in Frames /\ Tail(out[s]) \in Seq(Frames) /\ <<>> \in Seq(Frames)
  BY <1>t, <1>1, StreamTypes, HeadOf DEF CheckInv
<1>3. /\ out' \in [Streams -> Seq(Frames)] /\ \A q \in Streams \ {s} : out'[q] = out[q]
  BY <1>t, <1>1, <1>2, StreamTypes
<1>4. /\ phase' \in [Streams -> Phases] /\ phase'[s] = "sending"
      /\ \A q \in Streams \ {s} : phase'[q] = phase[q]
  BY <1>t, <1>1, StreamTypes DEF Phases
<1>5. ~HasSaved(s)
  BY <1>t, <1>1 DEF SavedInv
<1>6. frames' \in [Streams -> Seq(Frames)] /\ \A q \in Streams \ {s} : frames'[q] = frames[q]
  BY <1>t, <1>1, <1>2, StreamTypes, SendAdds
<1>9. Moves(s)
  BY <1>t, <1>1, <1>3, <1>4, <1>5, <1>6, StreamTypes DEF Moves
<1>. QED  BY <1>9, StreamMoves

\* The server cancels what it waits for.
LEMMA ServerCancelsInv == ASSUME IInv, NEW s \in Streams, ServerCancels(s) PROVE IInv'
<1>t. TypeOK /\ SavedInv
  BY DEF IInv
<1>1. /\ out' = [out EXCEPT ![s] = <<>>]
      /\ UNCHANGED <<auth, history, client, emitted, callbacks>>
      /\ \/ /\ phase[s] \in {"starting", "sending"} /\ phase' = [phase EXCEPT ![s] = "closed"]
            /\ frames' = frames /\ run' = run /\ queue' = queue
         \/ /\ phase[s] \in {"waiting", "checking"} /\ phase' = [phase EXCEPT ![s] = "sending"]
            /\ Send(s, EndMark)
            /\ \/ /\ run' = [run EXCEPT ![s] = "cancelled"]
                  /\ queue' = [queue EXCEPT ![s] = Append(queue[s], Sentinel)]
               \/ run' = run /\ queue' = queue
  BY DEF ServerCancels
<1>2. /\ out' \in [Streams -> Seq(Frames)] /\ out'[s] = <<>>
      /\ \A q \in Streams \ {s} : out'[q] = out[q]
  BY <1>t, <1>1, StreamTypes
<1>3. Append(queue[s], Sentinel) \in Seq(Milestones \cup {Sentinel})
  <2>1. Sentinel \in Milestones \cup {Sentinel}
    OBVIOUS
  <2>. QED  BY <1>t, <2>1, StreamTypes, AppendOf
<1>4. run' \in [Streams -> RunStates]
  BY <1>t, <1>1, StreamTypes DEF RunStates
<1>5. queue' \in [Streams -> Seq(Milestones \cup {Sentinel})]
  BY <1>t, <1>1, <1>3, StreamTypes
<1>6. CASE phase[s] \in {"starting", "sending"}
  <2>1. /\ phase' \in [Streams -> Phases] /\ phase'[s] = "closed" /\ frames' = frames
        /\ \A q \in Streams \ {s} : phase'[q] = phase[q]
    BY <1>t, <1>1, <1>6, StreamTypes DEF Phases
  <2>9. Moves(s)
    BY <1>t, <1>1, <1>2, <1>4, <1>5, <1>6, <2>1, StreamTypes DEF Moves
  <2>. QED  BY <2>9, StreamMoves
<1>7. CASE phase[s] \in {"waiting", "checking"}
  <2>1. /\ phase' \in [Streams -> Phases] /\ phase'[s] = "sending" /\ Send(s, EndMark)
        /\ \A q \in Streams \ {s} : phase'[q] = phase[q]
    BY <1>t, <1>1, <1>7, StreamTypes DEF Phases
  <2>2. ~HasSaved(s)
    BY <1>t, <1>7 DEF SavedInv
  <2>9. Moves(s)
    BY <1>t, <1>1, <1>2, <1>4, <1>5, <1>7, <2>1, <2>2, StreamTypes, SendAdds DEF Moves
  <2>. QED  BY <2>9, StreamMoves
<1>. QED  BY <1>1, <1>6, <1>7


\* The turn of a stream is saved: lists grow, and one is made for the next stream.
LEMMA SaveTurnInv ==
  ASSUME IInv, NEW s \in Streams,
         phase[s] = "sending", out[s] = <<>>, LastFrame(s) = <<"chunk", Chunks>>,
         SaveTurn(s), Send(s, DoneFrame), UNCHANGED <<phase, auth, client, out, background>>
  PROVE  IInv'
<1>. DEFINE u == UserOf[s]
            c == captured[s]
            turns == saved[u]
            n == Len(turns)
            more == Append(turns, s)
            longer == lists[c] \o Turn(s)
            w == LastMessages(Window, longer)
<1>t. TypeOK /\ TokensInv /\ SavedInv /\ ListsInv /\ KeptInv /\ CheckInv
  BY DEF IInv
<1>a. /\ u \in Users /\ UserOf \in [Streams -> Users] /\ Streams \cap Users = {}
      /\ lists \in [Users \cup Streams -> Seq(Messages)] /\ saved \in [Users -> Seq(Streams)]
      /\ stored \in [Users -> Users \cup Streams] /\ elsewhere \in [Streams -> SUBSET Streams]
      /\ turns \in Seq(Streams)
  BY <1>t, ChatAssumption DEF TypeOK
<1>b. Open(s)
  BY DEF Open
<1>c. ~HasSaved(s)
  <2>1. <<"chunk", Chunks>> \notin {DoneFrame, EndMark}
    BY DEF DoneFrame, EndMark
  <2>. QED  BY <1>t, <2>1 DEF SavedInv
<1>d. \A v \in Users : \A x : Owns(v, x) => x # s /\ x \in Users \cup Streams
  BY <1>a, <1>c DEF Owns
<1>e. \A v \in Users : \A x : Owns(v, x) /\ Owns(u, x) => v = u
  BY <1>a DEF Owns
<1>f. Owns(u, c) /\ c # s /\ c \in Users \cup Streams
  BY <1>t, <1>a, <1>b, <1>d DEF ListsInv
<1>1. /\ n \in Nat /\ DOMAIN turns = 1..n /\ DOMAIN more = 1..(n + 1) /\ Len(more) = n + 1
      /\ more \in Seq(Streams) /\ more[n + 1] = s /\ \A i \in 1..n : more[i] = turns[i]
  BY <1>a, AppendOf
<1>2. IsNew(s, turns)
  BY <1>c DEF IsNew, HasSaved
<1>3. /\ longer \in Seq(Messages)
      /\ IsWhole(longer, more) /\ InOrder(longer, more)
      /\ Holds(longer, more, n + 1)
      /\ \A i \in DOMAIN turns : Holds(lists[c], turns, i) => Holds(longer, more, i)
  <2>1. lists[c] \in Seq(Messages) /\ IsWhole(lists[c], turns) /\ InOrder(lists[c], turns)
    BY <1>t, <1>a, <1>f DEF ListsInv
  <2>. QED  BY <1>a, <1>1, <1>2, <2>1, ExtendedList
<1>4. /\ w \in Seq(Messages) /\ Len(w) <= Window
      /\ IsWhole(w, more) /\ InOrder(w, more)
      /\ \A i \in DOMAIN more : 2 * (Len(more) - i + 1) <= Window /\ Holds(longer, more, i) => Holds(w, more, i)
  BY <1>1, <1>3, WindowedList
<1>5. ASSUME NEW x, Owns(u, x)
      PROVE  /\ IsWhole(lists[x], more) /\ InOrder(lists[x], more)
             /\ \A i \in DOMAIN turns : Holds(lists[x], turns, i) => Holds(lists[x], more, i)
  <2>1. lists[x] \in Seq(Messages) /\ IsWhole(lists[x], turns) /\ InOrder(lists[x], turns)
    BY <1>t, <1>a, <1>d, <1>5 DEF ListsInv
  <2>. QED  BY <1>a, <1>2, <2>1, OtherList
<1>6. /\ lists' = [lists EXCEPT ![c] = longer, ![s] = w]
      /\ stored' = [stored EXCEPT ![u] = s] /\ saved' = [saved EXCEPT ![u] = more]
      /\ elsewhere' = [elsewhere EXCEPT ![s] = ElsewhereNow(s)] /\ captured' = captured
  BY DEF SaveTurn
<1>. HIDE DEF more, longer, w, n, c
<1>7. /\ lists' \in [Users \cup Streams -> Seq(Messages)] /\ lists'[c] = longer /\ lists'[s] = w
      /\ \A x \in (Users \cup Streams) \ {c, s} : lists'[x] = lists[x]
  BY <1>a, <1>f, <1>3, <1>4, <1>6
<1>8. /\ stored' \in [Users -> Users \cup Streams] /\ stored'[u] = s
      /\ \A v \in Users \ {u} : stored'[v] = stored[v]
      /\ saved' \in [Users -> Seq(Streams)] /\ saved'[u] = more
      /\ \A v \in Users \ {u} : saved'[v] = saved[v]
  BY <1>a, <1>1, <1>6
<1>9. /\ elsewhere' \in [Streams -> SUBSET Streams] /\ elsewhere'[s] = ElsewhereNow(s)
      /\ \A q \in Streams \ {s} : elsewhere'[q] = elsewhere[q]
  <2>1. ElsewhereNow(s) \in SUBSET Streams
    BY DEF ElsewhereNow
  <2>. QED  BY <1>a, <1>6, <2>1
<1>10. /\ frames' \in [Streams -> Seq(Frames)] /\ LastFrame(s)' = DoneFrame
       /\ \A q \in Streams \ {s} : frames'[q] = frames[q]
  BY <1>t, StreamTypes, SendAdds
<1>11. ASSUME NEW q \in Streams PROVE HasSaved(q)' <=> HasSaved(q) \/ q = s
  <2>1. CASE UserOf[q] = u
    <3>1. HasSaved(q)' <=> \E i \in 1..(n + 1) : more[i] = q
      <4>1. saved'[UserOf[q]] = more /\ DOMAIN more = 1..(n + 1)
        BY <1>1, <1>8, <2>1
      <4>. QED  BY <4>1 DEF HasSaved
    <3>2. HasSaved(q) <=> \E i \in 1..n : turns[i] = q
      BY <1>1, <2>1 DEF HasSaved
    <3>3. \A i : i \in 1..(n + 1) <=> i \in 1..n \/ i = n + 1
      BY <1>1
    <3>. QED  BY <1>1, <3>1, <3>2, <3>3
  <2>2. CASE UserOf[q] # u
    BY <1>a, <1>8, <2>2 DEF HasSaved
  <2>. QED  BY <2>1, <2>2
<1>12. \A v \in Users : \A x : Owns(v, x)' <=> Owns(v, x) \/ (v = u /\ x = s)
  BY <1>a, <1>11 DEF Owns
<1>13. \A v \in Users : \A x : v # u /\ Owns(v, x) => lists'[x] = lists[x]
  BY <1>d, <1>e, <1>f, <1>7
<1>14. TypeOK'
  <2>1. ASSUME NEW v \in Users PROVE Len(lists'[stored'[v]]) <= Window
    <3>1. CASE v = u
      BY <1>4, <1>7, <1>8, <3>1
    <3>2. CASE v # u
      <4>1. Owns(v, stored[v]) /\ Len(lists[stored[v]]) <= Window
        BY <1>t DEF ListsInv, TypeOK
      <4>. QED  BY <1>8, <1>13, <3>2, <4>1
    <3>. QED  BY <3>1, <3>2
  <2>. QED  BY <1>t, <1>6, <1>7, <1>8, <1>9, <1>10, <2>1 DEF TypeOK, auth, background
<1>15. TokensInv' /\ CheckInv'
  BY <1>t DEF TokensInv, CheckInv, auth
<1>16. SavedInv'
  <2>1. ASSUME NEW v \in Users
        PROVE  Distinct(saved'[v]) /\ \A i \in DOMAIN saved'[v] : UserOf[saved'[v][i]] = v
    <3>1. Distinct(saved[v]) /\ \A i \in DOMAIN saved[v] : UserOf[saved[v][i]] = v
      BY <1>t DEF SavedInv
    <3>2. CASE v # u
      BY <1>8, <3>1, <3>2
    <3>3. CASE v = u
      <4>1. \A i : i \in 1..(n + 1) <=> i \in 1..n \/ i = n + 1
        BY <1>1
      <4>2. Distinct(more)
        BY <1>1, <1>2, <3>1, <3>3, <4>1 DEF Distinct, IsNew
      <4>3. \A i \in DOMAIN more : UserOf[more[i]] = u
        BY <1>1, <3>1, <3>3, <4>1
      <4>. QED  BY <1>8, <3>3, <4>2, <4>3
    <3>. QED  BY <3>2, <3>3
  <2>2. ASSUME NEW q \in Streams, HasSaved(q)'
        PROVE  /\ phase'[q] \in {"sending", "closed"} /\ out'[q] = <<>>
               /\ phase'[q] = "sending" => LastFrame(q)' \in {DoneFrame, EndMark}
    <3>1. CASE q = s
      BY <1>10, <3>1
    <3>2. CASE q # s
      <4>1. HasSaved(q)
        BY <1>11, <2>2, <3>2
      <4>. QED  BY <1>t, <1>10, <3>2, <4>1 DEF SavedInv, LastFrame
    <3>. QED  BY <3>1, <3>2
  <2>. QED  BY <2>1, <2>2 DEF SavedInv
<1>17. ListsInv'
  <2>1. ASSUME NEW v \in Users PROVE Owns(v, stored[v])'
    <3>1. Owns(v, stored[v])
      BY <1>t DEF ListsInv
    <3>2. PICK x : x = stored'[v]
      OBVIOUS
    <3>3. Owns(v, x)'
      BY <1>8, <1>12, <3>1, <3>2
    <3>. QED  BY <3>2, <3>3 DEF Owns, HasSaved
  <2>2. ASSUME NEW q \in Streams, Open(q)' PROVE Owns(UserOf[q], captured[q])'
    <3>1. Open(q) /\ UserOf[q] \in Users
      BY <1>a, <2>2 DEF Open
    <3>2. PICK x : x = captured'[q]
      OBVIOUS
    <3>3. Owns(UserOf[q], x)'
      BY <1>t, <1>6, <1>12, <3>1, <3>2 DEF ListsInv
    <3>. QED  BY <3>2, <3>3 DEF Owns, HasSaved
  <2>3. ASSUME NEW v \in Users, NEW x \in Users \cup Streams, Owns(v, x)'
        PROVE  IsWhole(lists'[x], saved'[v]) /\ InOrder(lists'[x], saved'[v])
    <3>1. CASE v # u
      BY <1>t, <1>8, <1>12, <1>13, <2>3, <3>1 DEF ListsInv
    <3>2. CASE v = u /\ x = s
      BY <1>4, <1>7, <1>8, <3>2
    <3>3. CASE v = u /\ x = c
      BY <1>3, <1>7, <1>8, <3>3
    <3>4. CASE v = u /\ x \notin {c, s}
      BY <1>5, <1>7, <1>8, <1>12, <2>3, <3>4
    <3>. QED  BY <3>1, <3>2, <3>3, <3>4
  <2>. QED  BY <2>1, <2>2, <2>3 DEF ListsInv
<1>18. ASSUME NEW i \in DOMAIN more, 2 * (n + 1 - i + 1) <= Window, i # n + 1
       PROVE  /\ i \in DOMAIN turns /\ i \in 1..n /\ InWindow(u, i)
              /\ Overwritten(u, i) => Overwritten(u, i)'
              /\ s \in elsewhere[turns[i]] => Overwritten(u, i)'
              /\ elsewhere'[more[i]] = elsewhere[turns[i]]
  <2>1. i \in 1..n /\ i \in Nat /\ n \in Nat
    BY <1>1, <1>18
  <2>2. InWindow(u, i)
    BY <1>18, <1>1, <2>1, WindowOfTurns, SMTT(20) DEF InWindow, n
  <2>3. more[i] = turns[i] /\ turns[i] \in Streams \ {s}
    BY <1>a, <1>1, <1>2, <2>1 DEF IsNew
  <2>4. elsewhere'[more[i]] = elsewhere[turns[i]]
    BY <1>9, <2>3
  <2>5. Later(u, i)' = {more[j] : j \in (i + 1)..(n + 1)}
    BY <1>1, <1>8 DEF Later
  <2>6. Later(u, i) = {turns[j] : j \in (i + 1)..n}
    BY DEF Later, n
  <2>7. \A j \in (i + 1)..n : j \in (i + 1)..(n + 1) /\ more[j] = turns[j]
    BY <1>1, <2>1
  <2>8. s \in Later(u, i)'
    <3>1. n + 1 \in (i + 1)..(n + 1)
      BY <2>1
    <3>. QED  BY <1>1, <2>5, <3>1
  <2>9. Later(u, i) \subseteq Later(u, i)'
    BY <2>5, <2>6, <2>7
  <2>10. Overwritten(u, i)' <=> elsewhere[turns[i]] \cap Later(u, i)' # {}
    BY <1>8, <2>4 DEF Overwritten
  <2>11. Overwritten(u, i) <=> elsewhere[turns[i]] \cap Later(u, i) # {}
    BY DEF Overwritten
  <2>. QED  BY <1>1, <2>1, <2>2, <2>4, <2>8, <2>9, <2>10, <2>11
\* What the list that the stream was given has of the turns, and the history after it.
<1>19. ASSUME NEW i \in DOMAIN more, 2 * (n + 1 - i + 1) <= Window
       PROVE  \/ Overwritten(u, i)'
              \/ Holds(longer, more, i) /\ Holds(w, more, i)
  <2>1. CASE i = n + 1
    BY <1>1, <1>3, <1>4, <1>19, <2>1
  <2>2. CASE i # n + 1
    <3>1. Overwritten(u, i) \/ s \in elsewhere[turns[i]] \/ Holds(lists[c], turns, i)
      BY <1>t, <1>b, <1>18, <1>19, <2>2 DEF KeptInv, c
    <3>. QED  BY <1>1, <1>3, <1>4, <1>18, <1>19, <2>2, <3>1
  <2>. QED  BY <2>1, <2>2
<1>20. \A i \in DOMAIN more : InWindow(u, i)' <=> 2 * (n + 1 - i + 1) <= Window
  BY <1>1, <1>8, WindowOfTurns DEF InWindow
<1>21. ASSUME NEW v \in Users \ {u}, NEW i \in DOMAIN saved[v]
       PROVE  /\ InWindow(v, i)' <=> InWindow(v, i)
              /\ Overwritten(v, i)' <=> Overwritten(v, i)
              /\ elsewhere'[saved[v][i]] = elsewhere[saved[v][i]]
  <2>1. saved'[v] = saved[v] /\ saved[v][i] \in Streams \ {s}
    <3>1. UserOf[saved[v][i]] = v
      BY <1>t DEF SavedInv
    <3>. QED  BY <1>a, <1>8, <3>1
  <2>. QED  BY <1>9, <2>1 DEF InWindow, Overwritten, Later
<1>22. KeptInv'
  <2>1. ASSUME NEW v \in Users, NEW i \in DOMAIN saved'[v], InWindow(v, i)'
        PROVE  Overwritten(v, i)' \/ Holds(lists'[stored'[v]], saved'[v], i)
    <3>1. CASE v = u
      BY <1>7, <1>8, <1>19, <1>20, <2>1, <3>1
    <3>2. CASE v # u
      <4>1. i \in DOMAIN saved[v] /\ saved'[v] = saved[v] /\ stored'[v] = stored[v]
        BY <1>8, <2>1, <3>2
      <4>2. lists'[stored[v]] = lists[stored[v]]
        BY <1>t, <1>13, <3>2 DEF ListsInv
      <4>. QED  BY <1>t, <1>21, <2>1, <3>2, <4>1, <4>2 DEF KeptInv
    <3>. QED  BY <3>1, <3>2
  <2>2. ASSUME NEW q \in Streams, Open(q)', NEW i \in DOMAIN saved'[UserOf[q]], InWindow(UserOf[q], i)'
        PROVE  \/ Overwritten(UserOf[q], i)' \/ q \in elsewhere'[saved'[UserOf[q]][i]]
               \/ Holds(lists'[captured'[q]], saved'[UserOf[q]], i)
    <3>. DEFINE v == UserOf[q]
                d == captured[q]
    <3>1. Open(q) /\ v \in Users /\ captured'[q] = d
      BY <1>a, <1>6, <2>2 DEF Open
    <3>2. Owns(v, d)
      BY <1>t, <3>1 DEF ListsInv
    <3>3. CASE v # u
      <4>1. i \in DOMAIN saved[v] /\ saved'[v] = saved[v] /\ lists'[d] = lists[d]
        BY <1>8, <1>13, <2>2, <3>1, <3>2, <3>3
      <4>. QED  BY <1>t, <1>21, <2>2, <3>1, <3>3, <4>1 DEF KeptInv
    <3>4. CASE v = u /\ d = c
      BY <1>7, <1>8, <1>19, <1>20, <2>2, <3>1, <3>4
    <3>5. CASE v = u /\ d # c /\ i = n + 1
      <4>1. q \in ElsewhereNow(s)
        BY <3>1, <3>5 DEF ElsewhereNow, c
      <4>. QED  BY <1>1, <1>8, <1>9, <3>5, <4>1
    <3>6. CASE v = u /\ d # c /\ i # n + 1
      <4>1. i \in DOMAIN more /\ 2 * (n + 1 - i + 1) <= Window
        BY <1>8, <1>20, <2>2, <3>6
      <4>2. i \in DOMAIN turns /\ InWindow(u, i)
        BY <1>18, <3>6, <4>1
      <4>3. Overwritten(u, i) \/ q \in elsewhere[turns[i]] \/ Holds(lists[d], turns, i)
        BY <1>t, <3>1, <3>6, <4>2 DEF KeptInv
      <4>4. lists'[d] = lists[d]
        BY <1>d, <1>7, <3>1, <3>2, <3>6
      <4>5. Holds(lists[d], turns, i) => Holds(lists'[d], more, i)
        BY <1>5, <3>2, <3>6, <4>2, <4>4
      <4>. QED  BY <1>8, <1>18, <3>1, <3>6, <4>1, <4>3, <4>5
    <3>. QED  BY <3>3, <3>4, <3>5, <3>6
  <2>. QED  BY <2>1, <2>2 DEF KeptInv
<1>. QED  BY <1>14, <1>15, <1>16, <1>17, <1>22 DEF IInv

\* The server asks for the next frame.
LEMMA ResumeInv == ASSUME IInv, NEW s \in Streams, Resume(s) PROVE IInv'
<1>t. TypeOK /\ SavedInv
  BY DEF IInv
<1>1. phase[s] = "sending" /\ UNCHANGED <<auth, client, out, background>>
  BY DEF Resume
<1>2. /\ UNCHANGED <<emitted, callbacks, run, queue>>
      /\ phase \in [Streams -> Phases] /\ out \in [Streams -> Seq(Frames)]
      /\ frames \in [Streams -> Seq(Frames)] /\ run \in [Streams -> RunStates]
      /\ queue \in [Streams -> Seq(Milestones \cup {Sentinel})]
      /\ EndMark \in Frames
  BY <1>t, <1>1, StreamTypes DEF background
<1>3. HasSaved(s) => out[s] = <<>> /\ LastFrame(s) \in {DoneFrame, EndMark}
  BY <1>t, <1>1 DEF SavedInv
<1>4. CASE LastFrame(s) = EndMark /\ phase' = [phase EXCEPT ![s] = "closed"] /\ UNCHANGED <<history, frames>>
  <2>1. Moves(s)
    BY <1>1, <1>2, <1>3, <1>4 DEF Moves, Phases
  <2>. QED  BY <2>1, StreamMoves
<1>5. CASE LastFrame(s) \in {DoneFrame, ErrorFrame} /\ Send(s, EndMark) /\ UNCHANGED <<history, phase>>
  <2>1. /\ frames' \in [Streams -> Seq(Frames)] /\ LastFrame(s)' = EndMark
        /\ \A q \in Streams \ {s} : frames'[q] = frames[q]
    BY <1>t, <1>2, <1>5, SendAdds
  <2>2. Moves(s)
    BY <1>1, <1>2, <1>3, <1>5, <2>1 DEF Moves
  <2>. QED  BY <2>2, StreamMoves
<1>6. CASE out[s] # <<>> /\ phase' = [phase EXCEPT ![s] = "checking"] /\ UNCHANGED <<history, frames>>
  <2>1. Moves(s)
    BY <1>1, <1>2, <1>3, <1>6 DEF Moves, Phases
  <2>. QED  BY <2>1, StreamMoves
<1>7. CASE LastFrame(s) \in Milestones /\ phase' = [phase EXCEPT ![s] = "waiting"] /\ UNCHANGED <<history, frames>>
  <2>1. ~HasSaved(s)
    BY <1>3, <1>7 DEF Milestones, DoneFrame, EndMark
  <2>2. Moves(s)
    BY <1>1, <1>2, <1>7, <2>1 DEF Moves, Phases
  <2>. QED  BY <2>2, StreamMoves
<1>8. CASE /\ out[s] = <<>> /\ LastFrame(s) = <<"chunk", Chunks>>
           /\ SaveTurn(s) /\ Send(s, DoneFrame) /\ UNCHANGED phase
  BY <1>1, <1>8, SaveTurnInv
<1>. QED  BY <1>4, <1>5, <1>6, <1>7, <1>8 DEF Resume

-----------------------------------------------------------------------------
\* The theorems

\* Each step keeps it, whichever stream it is of.
LEMMA NextInv == ASSUME IInv, [Next]_vars PROVE IInv'
<1>1. CASE UNCHANGED vars
  <2>1. UNCHANGED <<auth, history>> /\ UNCHANGED <<client, phase, out, frames>>
        /\ UNCHANGED <<run, emitted, callbacks, queue>>
    BY <1>1 DEF vars, stream, background
  <2>2. TypeOK /\ SavedInv /\ CheckInv
    BY DEF IInv
  <2>3. TokensInv' /\ SavedInv' /\ ListsInv' /\ KeptInv'
    BY <2>1, <2>2, StoresKept DEF SavedInv, Open, LastFrame
  <2>4. TypeOK' /\ CheckInv'
    BY <2>1, <2>2 DEF TypeOK, CheckInv, auth, history
  <2>. QED  BY <2>3, <2>4 DEF IInv
<1>2. CASE Next
  <2>1. PICK s \in Streams :
          \/ StreamAI(s) \/ Generators(s) \/ EventSink(s) \/ Background(s) \/ Disconnect(s)
          \/ ServerCancels(s)
    BY <1>2 DEF Next
  <2>. QED  BY <2>1, StreamAIInv, BuildChatStreamInv, BackgroundInv, TakeEventInv, CheckingInv,
               ServerCancelsInv, ResumeInv DEF Generators
<1>. QED  BY <1>1, <1>2

LEMMA Invariance == Spec => []IInv
<1>1. Init => IInv
  BY InitInv
<1>2. IInv /\ [Next]_vars => IInv'
  BY NextInv
<1>. QED  BY <1>1, <1>2, PTL DEF Spec

\* The stores, the queues and the frames keep their types, a run has no more
\* milestones than it may have, and the history of a user fits in the window.
THEOREM TypeCorrect == Spec => []TypeOK
<1>1. IInv => TypeOK
  BY DEF IInv
<1>. QED  BY <1>1, Invariance, PTL

\* The streams of a user all have one token.
LEMMA TokensAgree == IInv => OneTokenPerUser
BY ChatAssumption DEF IInv, TokensInv, OneTokenPerUser

\* A history is made of whole turns, each of another stream.
LEMMA WholeHistory == IInv => HistoryIsWhole
<1>. SUFFICES ASSUME IInv, NEW u \in Users
              PROVE  LET h == lists[stored[u]]
                         turns == 1..((Len(h) + 1) \div 2)
                     IN  /\ \A i \in turns : \E s \in Streams : SubSeq(h, 2 * i - 1, 2 * i) = Turn(s)
                         /\ \A i, j \in turns : i # j => h[2 * i] # h[2 * j]
  BY DEF HistoryIsWhole
<1>. DEFINE h == lists[stored[u]]
            t == saved[u]
<1>1. TypeOK /\ SavedInv /\ ListsInv
  BY DEF IInv
<1>2. /\ h \in Seq(Messages) /\ t \in Seq(Streams) /\ Distinct(t)
      /\ IsWhole(h, t) /\ InOrder(h, t)
  BY <1>1 DEF TypeOK, SavedInv, ListsInv
<1>. HIDE DEF h, t
<1>3. PICK m \in Nat : Len(h) = 2 * m
  BY <1>2 DEF IsWhole
<1>4. (Len(h) + 1) \div 2 = m
  BY <1>3
<1>5. ASSUME NEW i \in 1..m
      PROVE  i \in Places /\ 2 * i <= Len(h) /\ 2 * i - 1 \in 1..Len(h) /\ 2 * i \in 1..Len(h)
  BY <1>3 DEF Places
<1>6. ASSUME NEW i \in 1..m PROVE \E s \in Streams : SubSeq(h, 2 * i - 1, 2 * i) = Turn(s)
  <2>1. PICK a \in DOMAIN t : HoldsAt(h, i, t, a)
    BY <1>2, <1>5 DEF IsWhole
  <2>2. t[a] \in Streams
    BY <1>2
  <2>. DEFINE x == SubSeq(h, 2 * i - 1, 2 * i)
  <2>3. /\ x \in Seq(Messages) /\ Len(x) = 2
        /\ x[1] = h[2 * i - 1] /\ x[2] = h[2 * i]
    BY <1>2, <1>5
  <2>4. Turn(t[a]) \in Seq(Messages) /\ Len(Turn(t[a])) = 2
        /\ Turn(t[a])[1] = <<t[a], "user">> /\ Turn(t[a])[2] = <<t[a], "assistant">>
    BY <2>2 DEF Turn, Messages
  <2>. HIDE DEF x
  <2>5. x[1] = Turn(t[a])[1] /\ x[2] = Turn(t[a])[2]
    BY <2>1, <2>3, <2>4 DEF HoldsAt
  <2>6. x = Turn(t[a])
    <3>1. \A k \in 1..Len(x) : k = 1 \/ k = 2
      BY <2>3
    <3>2. \A k \in 1..Len(x) : x[k] = Turn(t[a])[k]
      BY <2>5, <3>1, Zenon
    <3>. QED  BY <2>3, <2>4, <3>2, SeqEqual
  <2>. QED  BY <2>2, <2>6 DEF x
<1>7. ASSUME NEW i \in 1..m, NEW j \in 1..m, i < j PROVE h[2 * i] # h[2 * j]
  <2>. SUFFICES ASSUME h[2 * i] = h[2 * j] PROVE FALSE
    OBVIOUS
  <2>1. PICK a \in DOMAIN t : HoldsAt(h, i, t, a)
    BY <1>2, <1>5 DEF IsWhole
  <2>2. PICK b \in DOMAIN t : HoldsAt(h, j, t, b)
    BY <1>2, <1>5 DEF IsWhole
  <2>3. a = b
    <3>1. h[2 * i] = <<t[a], "assistant">> /\ h[2 * j] = <<t[b], "assistant">>
      BY <2>1, <2>2 DEF HoldsAt
    <3>2. <<t[a], "assistant">> = <<t[b], "assistant">>
      BY <3>1
    <3>3. t[a] = t[b]
      BY <3>2
    <3>. QED  BY <1>2, <3>3 DEF Distinct
  <2>4. j - i <= b - a
    <3>1. i <= j /\ i \in Places /\ j \in Places /\ 2 * j <= Len(h)
      BY <1>5, <1>7
    <3>2. InOrder(h, t)
      BY <1>2
    <3>. QED  BY <2>1, <2>2, <3>1, <3>2 DEF InOrder
  <2>. QED  BY <1>2, <1>7, <2>3, <2>4
<1>8. ASSUME NEW i \in 1..m, NEW j \in 1..m, i # j PROVE h[2 * i] # h[2 * j]
  <2>1. CASE i < j
    BY <1>7, <2>1
  <2>2. CASE j < i
    BY <1>7, <2>2
  <2>. QED  BY <1>8, <2>1, <2>2
<1>. QED  BY <1>4, <1>6, <1>8 DEF h

\* A history keeps the turns that nobody wrote over.
LEMMA KeptHistory == IInv => HistoryIsKept
<1>. SUFFICES ASSUME IInv, NEW u \in Users, NEW i \in DOMAIN saved[u], InWindow(u, i)
              PROVE  \/ Overwritten(u, i)
                     \/ \E j \in DOMAIN lists[stored[u]] : lists[stored[u]][j] = <<saved[u][i], "user">>
  BY DEF HistoryIsKept, InWindow, Overwritten, Later
<1>1. Overwritten(u, i) \/ Holds(lists[stored[u]], saved[u], i)
  BY DEF IInv, KeptInv
<1>2. lists[stored[u]] \in Seq(Messages)
  BY DEF IInv, TypeOK
<1>3. ASSUME Holds(lists[stored[u]], saved[u], i)
      PROVE  \E j \in DOMAIN lists[stored[u]] : lists[stored[u]][j] = <<saved[u][i], "user">>
  <2>1. PICK k \in Places : 2 * k <= Len(lists[stored[u]]) /\ HoldsAt(lists[stored[u]], k, saved[u], i)
    BY <1>3 DEF Holds
  <2>2. 2 * k - 1 \in DOMAIN lists[stored[u]]
    BY <1>2, <2>1, PlacesOf
  <2>. QED  BY <2>1, <2>2 DEF HoldsAt
<1>. QED  BY <1>1, <1>3

\* What a user has in the stores is the user's own and whole, and stays: however
\* many streams of a user overlap, and in whatever order they end.
THEOREM HistoriesStaySound == Spec => []HistoriesAreSound
<1>1. IInv => HistoriesAreSound
  BY TokensAgree, WholeHistory, KeptHistory DEF HistoriesAreSound
<1>. QED  BY <1>1, Invariance, PTL

-----------------------------------------------------------------------------
\* Transcripts.  A stream is seen by itself: its frames f, the events o that wait to
\* be sent, its phase p and its client c; and of its run the state r, the number e of
\* milestones, the queue q and the callbacks cb.

\* The milestones after the a-th, up to the b-th.
Span(a, b) == [i \in 1..(b - a) |-> <<"milestone", a + i>>]

\* What the run has on its way to the reader, who has seen k milestones.
Feed(k, r, e, q, cb) ==
  \/ r \in {"none", "preparing"} /\ k = 0 /\ e = 0 /\ q = <<>> /\ cb = <<>>
  \/ /\ r = "board"
     /\ \E m \in k..e : q = Span(k, m) /\ (cb = Span(m, e) \/ cb = Append(Span(m, e), Sentinel))
  \/ r = "finalizing" /\ k <= e /\ q = Span(k, e) /\ cb = <<>>
  \/ r \in {"answered", "failed"} /\ k <= e /\ q = Append(Span(k, e), Sentinel) /\ cb = <<>>

Begun(k) == <<RunStarted>> \o Progress(k)
Seen(k) == IF k = 0 THEN <<>> ELSE Begun(k)
Full(e) == Begun(e) \o Answer

\* The transcript before its end mark.
Told(r, e) == IF r = "answered" THEN Append(Full(e), DoneFrame) ELSE Append(Seen(e), ErrorFrame)

Over(r) == r \in {"answered", "failed"}

\* The reader follows the milestones.
Following(f, o, p, r, e, q, cb) ==
  /\ \E k \in Nat : f \o o = Seen(k) /\ Feed(k, r, e, q, cb)
  /\ p \in {"new", "rejected", "starting"} => r = "none"
  /\ p \in {"new", "rejected", "starting", "waiting"} => o = <<>>
  /\ p = "sending" => f # <<>>
  /\ p # "closed"

\* It cuts the answer into chunks.
Answering(f, o, p, r, e) ==
  /\ r = "answered" /\ p \in {"checking", "sending"} /\ f \o o = Full(e)
  /\ p = "sending" => f # <<>>

\* It is at the end.
Ending(f, o, p, r, e) ==
  /\ o = <<>> /\ Over(r)
  /\ \/ f = Told(r, e) /\ p = "sending"
     \/ f = Append(Told(r, e), EndMark) /\ p \in {"sending", "closed"}

Starts(g, t) == Len(g) <= Len(t) /\ \A i \in 1..Len(g) : g[i] = t[i]

Shown(f, c) ==
  IF Len(f) > 0 /\ ~c /\ f[Len(f)] = EndMark THEN SubSeq(f, 1, Len(f) - 1) ELSE f

Beginning(g, r, e) ==
  Starts(g, Begun(e)) \/ (Over(r) /\ Starts(g, Append(Told(r, e), EndMark)))

\* The client is gone, and what it was sent is the beginning of a transcript.
CutOff(f, o, p, c, r, e) ==
  /\ ~c /\ o = <<>>
  /\ p = "closed" \/ (p = "sending" /\ f # <<>> /\ f[Len(f)] = EndMark)
  /\ Beginning(Shown(f, c), r, e)

ViewOK(f, o, p, c, r, e, q, cb) ==
  \/ Following(f, o, p, r, e, q, cb)
  \/ Answering(f, o, p, r, e)
  \/ Ending(f, o, p, r, e)
  \/ CutOff(f, o, p, c, r, e)

View(s) ==
  ViewOK(frames[s], out[s], phase[s], client[s], run[s], emitted[s], queue[s], callbacks[s])

TranscriptInv == \A s \in Streams : View(s)

-----------------------------------------------------------------------------
\* Milestones on their way

Items == Milestones \cup {Sentinel}

LEMMA SpanOf ==
  ASSUME NEW a \in Nat, NEW b \in Nat, a <= b
  PROVE  /\ Span(a, b) \in Seq(Milestones) /\ Span(a, b) \in Seq(Items) /\ Len(Span(a, b)) = b - a
         /\ \A i \in 1..(b - a) : Span(a, b)[i] = <<"milestone", a + i>>
<1>1. b - a \in Nat
  OBVIOUS
<1>2. \A i \in 1..(b - a) : <<"milestone", a + i>> \in Milestones
  BY DEF Milestones
<1>. QED  BY <1>1, <1>2 DEF Span, Items

LEMMA NoSpan == ASSUME NEW a \in Nat PROVE Span(a, a) = <<>>
<1>1. Span(a, a) \in Seq(Milestones) /\ Len(Span(a, a)) = 0
  BY SpanOf
<1>. QED  BY <1>1

\* One more milestone at its end ...
LEMMA SpanGrows ==
  ASSUME NEW a \in Nat, NEW b \in Nat, a <= b
  PROVE  Append(Span(a, b), <<"milestone", b + 1>>) = Span(a, b + 1)
<1>. DEFINE x == Append(Span(a, b), <<"milestone", b + 1>>)
            y == Span(a, b + 1)
<1>1. /\ Span(a, b) \in Seq(Milestones) /\ Len(Span(a, b)) = b - a
      /\ \A i \in 1..(b - a) : Span(a, b)[i] = <<"milestone", a + i>>
  BY SpanOf
<1>2. /\ y \in Seq(Milestones) /\ Len(y) = b + 1 - a
      /\ \A i \in 1..(b + 1 - a) : y[i] = <<"milestone", a + i>>
  <2>1. PICK c : c = b + 1
    OBVIOUS
  <2>2. c \in Nat /\ a <= c
    BY <2>1
  <2>3. /\ Span(a, c) \in Seq(Milestones) /\ Len(Span(a, c)) = c - a
        /\ \A i \in 1..(c - a) : Span(a, c)[i] = <<"milestone", a + i>>
    BY <2>2, SpanOf
  <2>. QED  BY <2>1, <2>3
<1>3. <<"milestone", b + 1>> \in Milestones
  BY DEF Milestones
<1>4. /\ x \in Seq(Milestones) /\ Len(x) = b + 1 - a /\ x[b + 1 - a] = <<"milestone", b + 1>>
      /\ \A i \in 1..(b - a) : x[i] = <<"milestone", a + i>>
  BY <1>1, <1>3
<1>. HIDE DEF x, y
<1>5. \A i \in 1..Len(x) : x[i] = y[i]
  <2>. SUFFICES ASSUME NEW i \in 1..(b + 1 - a) PROVE x[i] = y[i]
    BY <1>4
  <2>1. CASE i \in 1..(b - a)
    BY <1>2, <1>4, <2>1
  <2>2. CASE i = b + 1 - a
    <3>1. a + i = b + 1
      BY <2>2
    <3>. QED  BY <1>2, <1>4, <2>2, <3>1
  <2>. QED  BY <2>1, <2>2
<1>. QED  BY <1>2, <1>4, <1>5, SeqEqual DEF x, y

\* ... and one less at its beginning.
LEMMA SpanShrinks ==
  ASSUME NEW a \in Nat, NEW b \in Nat, a < b
  PROVE  Span(a, b) = <<<<"milestone", a + 1>>>> \o Span(a + 1, b)
<1>. DEFINE x == Span(a, b)
            y == Span(a + 1, b)
            z == <<<<"milestone", a + 1>>>> \o y
<1>1. /\ x \in Seq(Milestones) /\ Len(x) = b - a
      /\ \A i \in 1..(b - a) : x[i] = <<"milestone", a + i>>
  <2>1. a <= b
    OBVIOUS
  <2>. QED  BY <2>1, SpanOf
<1>2. /\ y \in Seq(Milestones) /\ Len(y) = b - (a + 1)
      /\ \A i \in 1..(b - (a + 1)) : y[i] = <<"milestone", (a + 1) + i>>
  <2>1. a + 1 \in Nat /\ a + 1 <= b
    OBVIOUS
  <2>. QED  BY <2>1, SpanOf
<1>3. <<"milestone", a + 1>> \in Milestones
  BY DEF Milestones
<1>. HIDE DEF x, y
<1>4. /\ z \in Seq(Milestones) /\ Len(z) = b - a /\ z[1] = <<"milestone", a + 1>>
      /\ \A i \in 2..(b - a) : z[i] = y[i - 1]
  BY <1>2, <1>3
<1>5. \A i \in 1..Len(x) : x[i] = z[i]
  <2>. SUFFICES ASSUME NEW i \in 1..(b - a) PROVE x[i] = z[i]
    BY <1>1
  <2>1. CASE i = 1
    BY <1>1, <1>4, <2>1
  <2>2. CASE i \in 2..(b - a)
    <3>1. PICK j, n : j = i - 1 /\ n = a + i
      OBVIOUS
    <3>2. j \in 1..(b - (a + 1)) /\ (a + 1) + j = n
      BY <2>2, <3>1
    <3>3. y[j] = <<"milestone", n>>
      BY <1>2, <3>2
    <3>4. z[i] = y[j]
      BY <1>4, <2>2, <3>1
    <3>5. x[i] = <<"milestone", n>>
      BY <1>1, <3>1
    <3>. QED  BY <3>3, <3>4, <3>5, Zenon
  <2>3. i = 1 \/ i \in 2..(b - a)
    OBVIOUS
  <2>. QED  BY <2>1, <2>2, <2>3
<1>6. x = z
  BY <1>1, <1>4, <1>5, SeqEqual
<1>. QED  BY <1>6 DEF x, y

\* A sequence that has a head.
LEMMA HeadAndTail ==
  ASSUME NEW S, NEW x \in S, NEW y \in Seq(S)
  PROVE  <<x>> \o y # <<>> /\ Head(<<x>> \o y) = x /\ Tail(<<x>> \o y) = y
OBVIOUS

LEMMA AppendBehind ==
  ASSUME NEW S, NEW x \in S, NEW y \in Seq(S), NEW z \in S
  PROVE  Append(<<x>> \o y, z) = <<x>> \o Append(y, z)
OBVIOUS

\* What follows a first element.
LEMMA BehindFirst ==
  ASSUME NEW S, NEW x \in S, NEW y \in Seq(S)
  PROVE  /\ Len(<<x>> \o y) = Len(y) + 1 /\ (<<x>> \o y)[1] = x
         /\ \A i \in 2..(Len(y) + 1) : (<<x>> \o y)[i] = y[i - 1]
OBVIOUS

LEMMA MilestonesAreNoSentinel ==
  /\ Sentinel \in Items
  /\ \A n \in Nat : n # 0 => <<"milestone", n>> \in Milestones /\ <<"milestone", n>> \in Items
  /\ \A x \in Milestones : x # Sentinel
BY DEF Milestones, Items, Sentinel

\* The first of a queue of milestones that a sentinel may end.
LEMMA FirstOfQueue ==
  ASSUME NEW a \in Nat, NEW b \in Nat, a <= b, NEW q, q # <<>>,
         q = Span(a, b) \/ q = Append(Span(a, b), Sentinel)
  PROVE  \/ /\ a < b /\ Head(q) = <<"milestone", a + 1>> /\ Head(q) # Sentinel
            /\ q = Span(a, b) => Tail(q) = Span(a + 1, b)
            /\ q = Append(Span(a, b), Sentinel) => Tail(q) = Append(Span(a + 1, b), Sentinel)
         \/ a = b /\ q = <<Sentinel>> /\ Head(q) = Sentinel /\ Tail(q) = <<>>
<1>1. CASE a = b
  <2>1. q = <<Sentinel>>
    <3>1. Span(a, b) = <<>>
      BY <1>1, NoSpan
    <3>2. Append(<<>>, Sentinel) = <<Sentinel>>
      OBVIOUS
    <3>. QED  BY <3>1, <3>2
  <2>. QED  BY <1>1, <2>1
<1>2. CASE a < b
  <2>0. Append(Span(a, b), Sentinel) # Span(a, b)
    <3>1. Span(a, b) \in Seq(Items) /\ Sentinel \in Items
      BY SpanOf, MilestonesAreNoSentinel
    <3>2. Len(Append(Span(a, b), Sentinel)) = Len(Span(a, b)) + 1 /\ Len(Span(a, b)) \in Nat
      BY <3>1
    <3>. QED  BY <3>2
  <2>1. /\ Span(a, b) = <<<<"milestone", a + 1>>>> \o Span(a + 1, b) /\ Span(a + 1, b) \in Seq(Items)
        /\ <<"milestone", a + 1>> \in Items /\ <<"milestone", a + 1>> # Sentinel
    <3>1. a + 1 \in Nat /\ a + 1 <= b /\ a + 1 # 0
      BY <1>2
    <3>. QED  BY <1>2, <3>1, SpanShrinks, SpanOf, MilestonesAreNoSentinel
  <2>2. PICK x, y : x = <<"milestone", a + 1>> /\ y = Span(a + 1, b)
    OBVIOUS
  <2>3. Head(<<x>> \o y) = x /\ Tail(<<x>> \o y) = y
    BY <2>1, <2>2, HeadAndTail
  <2>4. /\ Append(<<x>> \o y, Sentinel) = <<x>> \o Append(y, Sentinel)
        /\ Append(y, Sentinel) \in Seq(Items)
    <3>1. x \in Items /\ y \in Seq(Items) /\ Sentinel \in Items
      BY <2>1, <2>2, MilestonesAreNoSentinel
    <3>2. Append(y, Sentinel) \in Seq(Items)
      BY <3>1, AppendOf
    <3>. QED  BY <3>1, <3>2, AppendBehind
  <2>5. Head(<<x>> \o Append(y, Sentinel)) = x /\ Tail(<<x>> \o Append(y, Sentinel)) = Append(y, Sentinel)
    BY <2>1, <2>2, <2>4, HeadAndTail
  <2>6. CASE q = Span(a, b)
    <3>1. q # Append(Span(a, b), Sentinel)
      BY <2>0, <2>6
    <3>. QED  BY <1>2, <2>1, <2>2, <2>3, <2>6, <3>1
  <2>7. CASE q = Append(Span(a, b), Sentinel)
    <3>1. q # Span(a, b)
      BY <2>0, <2>7
    <3>. QED  BY <1>2, <2>1, <2>2, <2>4, <2>5, <2>7, <3>1
  <2>. QED  BY <2>6, <2>7
<1>. QED  BY <1>1, <1>2

-----------------------------------------------------------------------------
\* Each step of a run keeps what is on its way.

LEMMA FeedBounds ==
  ASSUME NEW k \in Nat, NEW r, NEW e \in Nat, NEW q, NEW cb, Feed(k, r, e, q, cb)
  PROVE  k <= e
BY DEF Feed

LEMMA FeedStarts ==
  ASSUME NEW k \in Nat, NEW e \in Nat, NEW q, NEW cb, Feed(k, "preparing", e, q, cb)
  PROVE  Feed(k, "board", e, q, cb)
<1>1. k = 0 /\ e = 0 /\ q = <<>> /\ cb = <<>> /\ Span(0, 0) = <<>>
  BY NoSpan DEF Feed
<1>2. 0 \in 0..0
  OBVIOUS
<1>. QED  BY <1>1, <1>2 DEF Feed

LEMMA FeedEmits ==
  ASSUME NEW k \in Nat, NEW e \in Nat, NEW q, NEW cb, Feed(k, "board", e, q, cb),
         \A i \in DOMAIN cb : cb[i] # Sentinel
  PROVE  Feed(k, "board", e + 1, q, Append(cb, <<"milestone", e + 1>>))
<1>1. PICK m \in k..e : q = Span(k, m) /\ (cb = Span(m, e) \/ cb = Append(Span(m, e), Sentinel))
  BY DEF Feed
<1>2. m \in Nat /\ m <= e /\ m \in k..(e + 1)
  BY <1>1
<1>3. cb = Span(m, e)
  <2>. SUFFICES ASSUME cb = Append(Span(m, e), Sentinel) PROVE FALSE
    BY <1>1
  <2>1. Span(m, e) \in Seq(Items) /\ Sentinel \in Items
    BY <1>2, SpanOf, MilestonesAreNoSentinel
  <2>2. Len(Span(m, e)) + 1 \in DOMAIN cb /\ cb[Len(Span(m, e)) + 1] = Sentinel
    BY <2>1
  <2>. QED  BY <2>2
<1>4. Append(cb, <<"milestone", e + 1>>) = Span(m, e + 1)
  BY <1>2, <1>3, SpanGrows
<1>. QED  BY <1>1, <1>2, <1>4 DEF Feed

LEMMA FeedStops ==
  ASSUME NEW k \in Nat, NEW e \in Nat, NEW q, NEW cb, Feed(k, "board", e, q, cb),
         \A i \in DOMAIN cb : cb[i] # Sentinel
  PROVE  Feed(k, "board", e, q, Append(cb, Sentinel))
<1>1. PICK m \in k..e : q = Span(k, m) /\ (cb = Span(m, e) \/ cb = Append(Span(m, e), Sentinel))
  BY DEF Feed
<1>2. m \in Nat /\ m <= e
  BY <1>1
<1>3. cb = Span(m, e)
  <2>. SUFFICES ASSUME cb = Append(Span(m, e), Sentinel) PROVE FALSE
    BY <1>1
  <2>1. Span(m, e) \in Seq(Items) /\ Sentinel \in Items
    BY <1>2, SpanOf, MilestonesAreNoSentinel
  <2>2. Len(Span(m, e)) + 1 \in DOMAIN cb /\ cb[Len(Span(m, e)) + 1] = Sentinel
    BY <2>1
  <2>. QED  BY <2>2
<1>. QED  BY <1>1, <1>3 DEF Feed

\* The event loop makes a call: there is one only while the board works.
LEMMA FeedCalls ==
  ASSUME NEW k \in Nat, NEW r, NEW e \in Nat, NEW q, NEW cb, Feed(k, r, e, q, cb), cb # <<>>
  PROVE  /\ r = "board"
         /\ Head(cb) = Sentinel => Feed(k, "finalizing", e, q, Tail(cb))
         /\ Head(cb) # Sentinel => Feed(k, r, e, Append(q, Head(cb)), Tail(cb))
<1>1. r = "board"
  BY DEF Feed
<1>2. PICK m \in k..e : q = Span(k, m) /\ (cb = Span(m, e) \/ cb = Append(Span(m, e), Sentinel))
  BY <1>1 DEF Feed
<1>3. m \in Nat /\ m <= e /\ k <= m
  BY <1>2
<1>4. CASE Head(cb) = Sentinel
  <2>1. m = e /\ Tail(cb) = <<>>
    BY <1>2, <1>3, <1>4, FirstOfQueue
  <2>. QED  BY <1>1, <1>2, <1>3, <1>4, <2>1 DEF Feed
<1>5. CASE Head(cb) # Sentinel
  <2>1. /\ m < e /\ Head(cb) = <<"milestone", m + 1>>
        /\ Tail(cb) = Span(m + 1, e) \/ Tail(cb) = Append(Span(m + 1, e), Sentinel)
    <3>1. m < e /\ Head(cb) = <<"milestone", m + 1>>
      BY <1>2, <1>3, <1>5, FirstOfQueue
    <3>2. CASE cb = Span(m, e)
      BY <1>3, <1>5, <3>1, <3>2, FirstOfQueue
    <3>3. CASE cb = Append(Span(m, e), Sentinel)
      BY <1>3, <1>5, <3>1, <3>3, FirstOfQueue
    <3>. QED  BY <1>2, <3>1, <3>2, <3>3
  <2>2. Append(q, Head(cb)) = Span(k, m + 1)
    BY <1>2, <1>3, <2>1, SpanGrows
  <2>3. m + 1 \in k..e
    BY <1>2, <1>3, <2>1
  <2>. QED  BY <1>1, <1>5, <2>1, <2>2, <2>3 DEF Feed
<1>. QED  BY <1>1, <1>4, <1>5

LEMMA FeedEnds ==
  ASSUME NEW k \in Nat, NEW r, NEW e \in Nat, NEW q, NEW cb, Feed(k, r, e, q, cb),
         NEW result \in {"answered", "failed"}, r = "finalizing" \/ r = "preparing"
  PROVE  Feed(k, result, e, Append(q, Sentinel), cb)
<1>1. CASE r = "finalizing"
  BY <1>1 DEF Feed
<1>2. CASE r = "preparing"
  <2>1. k = 0 /\ e = 0 /\ q = Span(0, 0) /\ cb = <<>>
    BY <1>2, NoSpan DEF Feed
  <2>. QED  BY <2>1 DEF Feed
<1>. QED  BY <1>1, <1>2

\* The reader takes the first of the queue: the next milestone, or the sentinel once
\* it has them all.
LEMMA FeedReader ==
  ASSUME NEW k \in Nat, NEW r, NEW e \in Nat, NEW q, NEW cb, Feed(k, r, e, q, cb), q # <<>>
  PROVE  /\ Head(q) # Sentinel => Head(q) = <<"milestone", k + 1>> /\ Feed(k + 1, r, e, Tail(q), cb)
         /\ Head(q) = Sentinel => Over(r) /\ k = e
<1>1. CASE r = "board"
  <2>1. PICK m \in k..e : q = Span(k, m) /\ (cb = Span(m, e) \/ cb = Append(Span(m, e), Sentinel))
    BY <1>1 DEF Feed
  <2>2. m \in Nat /\ k <= m /\ m <= e
    BY <2>1
  <2>3. q # Append(Span(k, m), Sentinel) /\ q # <<Sentinel>>
    <3>1. q \in Seq(Milestones)
      BY <2>1, <2>2, SpanOf
    <3>2. q # <<Sentinel>>
      <4>. SUFFICES ASSUME q = <<Sentinel>> PROVE FALSE
        OBVIOUS
      <4>1. q[1] \in Milestones /\ q[1] = Sentinel
        BY <3>1
      <4>. QED  BY <4>1, MilestonesAreNoSentinel
    <3>3. Len(Append(q, Sentinel)) = Len(q) + 1 /\ Len(q) \in Nat
      BY <3>1
    <3>. QED  BY <2>1, <3>2, <3>3
  <2>4. k < m /\ Head(q) = <<"milestone", k + 1>> /\ Head(q) # Sentinel /\ Tail(q) = Span(k + 1, m)
    BY <2>1, <2>2, <2>3, FirstOfQueue
  <2>5. m \in (k + 1)..e
    BY <2>1, <2>2, <2>4
  <2>. QED  BY <1>1, <2>1, <2>4, <2>5 DEF Feed
<1>2. CASE r = "finalizing"
  <2>1. k <= e /\ q = Span(k, e) /\ cb = <<>>
    BY <1>2 DEF Feed
  <2>2. q \in Seq(Milestones)
    BY <2>1, SpanOf
  <2>3. q # <<Sentinel>>
    <3>. SUFFICES ASSUME q = <<Sentinel>> PROVE FALSE
      OBVIOUS
    <3>1. q[1] \in Milestones /\ q[1] = Sentinel
      BY <2>2
    <3>. QED  BY <3>1, MilestonesAreNoSentinel
  <2>4. k < e /\ Head(q) = <<"milestone", k + 1>> /\ Head(q) # Sentinel /\ Tail(q) = Span(k + 1, e)
    BY <2>1, <2>3, FirstOfQueue
  <2>5. k + 1 <= e
    BY <2>1, <2>4
  <2>. QED  BY <1>2, <2>1, <2>4, <2>5 DEF Feed
<1>3. CASE Over(r)
  <2>1. k <= e /\ q = Append(Span(k, e), Sentinel) /\ cb = <<>>
    BY <1>3 DEF Feed, Over
  <2>2. CASE Head(q) = Sentinel
    BY <1>3, <2>1, <2>2, FirstOfQueue
  <2>3. CASE Head(q) # Sentinel
    <3>1. k < e /\ Head(q) = <<"milestone", k + 1>> /\ Tail(q) = Append(Span(k + 1, e), Sentinel)
      BY <2>1, <2>3, FirstOfQueue
    <3>2. k + 1 <= e
      BY <2>1, <3>1
    <3>. QED  BY <1>3, <2>1, <2>3, <3>1, <3>2 DEF Feed, Over
  <2>. QED  BY <2>2, <2>3
<1>. QED  BY <1>1, <1>2, <1>3 DEF Feed, Over

-----------------------------------------------------------------------------
\* The pieces of a transcript

\* What comes before the last two frames.
Prelude == {RunStarted} \cup Milestones
Ahead == Prelude \cup Pieces

LEMMA Marks ==
  /\ {RunStarted, DoneFrame, ErrorFrame, EndMark} \subseteq Frames /\ Ahead \subseteq Frames
  /\ Prelude \subseteq Ahead /\ RunStarted \in Prelude /\ Milestones \subseteq Prelude
  /\ \A x \in Ahead : x \notin {DoneFrame, ErrorFrame, EndMark}
  /\ \A x \in Prelude : x # <<"chunk", Chunks>>
  /\ EndMark \notin {DoneFrame, ErrorFrame}
  /\ {DoneFrame, ErrorFrame, EndMark} \cap Milestones = {}
  /\ <<"chunk", Chunks>> \notin {DoneFrame, ErrorFrame, EndMark} \cup Milestones
<1>1. /\ \A x \in Milestones : x[1] = "milestone"
      /\ \A x \in Pieces : x[1] = "chunk"
      /\ RunStarted[1] = "run_started" /\ DoneFrame[1] = "done" /\ ErrorFrame[1] = "error"
      /\ EndMark[1] = "[DONE]" /\ <<"chunk", Chunks>>[1] = "chunk"
  BY DEF Milestones, Pieces, RunStarted, DoneFrame, ErrorFrame, EndMark
<1>2. \A x \in Prelude : x[1] \in {"run_started", "milestone"}
  BY <1>1 DEF Prelude
<1>3. \A x \in Ahead : x[1] \in {"run_started", "milestone", "chunk"}
  BY <1>1, <1>2 DEF Ahead
<1>4. /\ {RunStarted, DoneFrame, ErrorFrame, EndMark} \subseteq Frames /\ Ahead \subseteq Frames
      /\ Prelude \subseteq Ahead /\ RunStarted \in Prelude /\ Milestones \subseteq Prelude
  BY DEF Frames, Ahead, Prelude
<1>5. \A x \in Ahead : x # DoneFrame /\ x # ErrorFrame /\ x # EndMark
  BY <1>1, <1>3
<1>6. \A x \in Prelude : x # <<"chunk", Chunks>>
  BY <1>1, <1>2
<1>7. EndMark # DoneFrame /\ EndMark # ErrorFrame
  BY <1>1
<1>8. \A x \in Milestones : x # DoneFrame /\ x # ErrorFrame /\ x # EndMark /\ x # <<"chunk", Chunks>>
  BY <1>1
<1>9. /\ <<"chunk", Chunks>> # DoneFrame /\ <<"chunk", Chunks>> # ErrorFrame
      /\ <<"chunk", Chunks>> # EndMark
  BY <1>1
<1>. QED  BY <1>4, <1>5, <1>6, <1>7, <1>8, <1>9

LEMMA ProgressOf ==
  ASSUME NEW k \in Nat
  PROVE  Progress(k) = Span(0, k) /\ Progress(k) \in Seq(Milestones) /\ Len(Progress(k)) = k
<1>1. Progress(k) = Span(0, k)
  BY DEF Progress, Span
<1>2. 0 \in Nat /\ 0 <= k /\ k - 0 = k
  OBVIOUS
<1>. QED  BY <1>1, <1>2, SpanOf

LEMMA BegunOf ==
  ASSUME NEW k \in Nat
  PROVE  /\ Begun(k) \in Seq(Prelude) /\ Begun(k) \in Seq(Ahead) /\ Len(Begun(k)) = k + 1
         /\ Begun(k) # <<>>
         /\ Append(Begun(k), <<"milestone", k + 1>>) = Begun(k + 1)
         /\ k > 0 => Begun(k)[k + 1] \in Milestones
<1>1. Progress(k) \in Seq(Milestones) /\ Len(Progress(k)) = k /\ Progress(k) \in Seq(Prelude)
  BY ProgressOf, Marks
<1>2. Begun(k) \in Seq(Prelude) /\ Len(Begun(k)) = k + 1 /\ (k > 0 => Begun(k)[k + 1] = Progress(k)[k])
  BY <1>1, Marks DEF Begun
<1>3. Begun(k) \in Seq(Ahead)
  BY <1>2, Marks
<1>4. Append(Begun(k), <<"milestone", k + 1>>) = Begun(k + 1)
  <2>1. Append(Progress(k), <<"milestone", k + 1>>) = Progress(k + 1)
    <3>1. 0 \in Nat /\ 0 <= k /\ k + 1 \in Nat
      OBVIOUS
    <3>2. Progress(k) = Span(0, k) /\ Progress(k + 1) = Span(0, k + 1)
      BY <3>1, ProgressOf
    <3>. QED  BY <3>1, <3>2, SpanGrows
  <2>2. <<"milestone", k + 1>> \in Prelude
    BY Marks DEF Milestones
  <2>3. Append(<<RunStarted>> \o Progress(k), <<"milestone", k + 1>>) =
          <<RunStarted>> \o Append(Progress(k), <<"milestone", k + 1>>)
    <3>1. RunStarted \in Prelude /\ Progress(k) \in Seq(Prelude)
      BY <1>1, Marks
    <3>. QED  BY <2>2, <3>1, AppendBehind
  <2>4. Begun(k) = <<RunStarted>> \o Progress(k) /\ Begun(k + 1) = <<RunStarted>> \o Progress(k + 1)
    BY DEF Begun
  <2>. QED  BY <2>1, <2>3, <2>4
<1>5. k > 0 => Begun(k)[k + 1] \in Milestones
  BY <1>1, <1>2
<1>6. Begun(k) # <<>>
  BY <1>2
<1>. QED  BY <1>2, <1>3, <1>4, <1>5, <1>6

LEMMA FullOf ==
  ASSUME NEW e \in Nat
  PROVE  /\ Answer \in Seq(Ahead) /\ Full(e) \in Seq(Ahead) /\ Full(e) # <<>>
         /\ Full(e)[Len(Full(e))] = <<"chunk", Chunks>>
<1>1. Chunks \in Nat /\ Chunks > 0
  BY ChatAssumption
<1>2. Answer \in Seq(Pieces) /\ Len(Answer) = Chunks /\ Answer[Chunks] = <<"chunk", Chunks>>
  BY <1>1 DEF Answer, Pieces
<1>3. Answer \in Seq(Ahead)
  BY <1>2 DEF Ahead
<1>4. Begun(e) \in Seq(Ahead) /\ Len(Begun(e)) \in Nat
  BY BegunOf
<1>5. /\ Full(e) \in Seq(Ahead) /\ Len(Full(e)) = Len(Begun(e)) + Chunks
      /\ Full(e)[Len(Begun(e)) + Chunks] = Answer[Chunks]
  BY <1>1, <1>2, <1>3, <1>4, SMTT(30) DEF Full
<1>. QED  BY <1>1, <1>2, <1>3, <1>4, <1>5

LEMMA SeenOf ==
  ASSUME NEW k \in Nat
  PROVE  Seen(k) \in Seq(Prelude) /\ Seen(k) \in Seq(Ahead) /\ Seen(k) \in Seq(Frames)
<1>1. Seen(k) \in Seq(Prelude)
  BY BegunOf DEF Seen
<1>. QED  BY <1>1, Marks

LEMMA ToldOf ==
  ASSUME NEW r, NEW e \in Nat
  PROVE  /\ Told(r, e) \in Seq(Frames) /\ Told(r, e) # <<>>
         /\ Told(r, e)[Len(Told(r, e))] \in {DoneFrame, ErrorFrame}
         /\ Append(Told(r, e), EndMark) \in Seq(Frames)
<1>1. Full(e) \in Seq(Frames) /\ Seen(e) \in Seq(Frames)
  <2>1. Full(e) \in Seq(Ahead)
    BY FullOf
  <2>2. Ahead \subseteq Frames
    BY Marks
  <2>. QED  BY <2>1, <2>2, SeenOf
<1>0. DoneFrame \in Frames /\ ErrorFrame \in Frames /\ EndMark \in Frames
  BY Marks
<1>2. ASSUME NEW t \in Seq(Frames), NEW x \in Frames
      PROVE  Append(t, x) \in Seq(Frames) /\ Append(t, x) # <<>> /\ Append(t, x)[Len(Append(t, x))] = x
  OBVIOUS
<1>3. CASE r = "answered"
  <2>1. Told(r, e) = Append(Full(e), DoneFrame)
    BY <1>3 DEF Told
  <2>2. /\ Told(r, e) \in Seq(Frames) /\ Told(r, e) # <<>>
        /\ Told(r, e)[Len(Told(r, e))] = DoneFrame
    BY <1>0, <1>1, <1>2, <2>1
  <2>. QED  BY <1>0, <1>2, <2>2
<1>4. CASE r # "answered"
  <2>1. Told(r, e) = Append(Seen(e), ErrorFrame)
    BY <1>4 DEF Told
  <2>2. /\ Told(r, e) \in Seq(Frames) /\ Told(r, e) # <<>>
        /\ Told(r, e)[Len(Told(r, e))] = ErrorFrame
    BY <1>0, <1>1, <1>2, <2>1
  <2>. QED  BY <1>0, <1>2, <2>2
<1>. QED  BY <1>3, <1>4

\* Beginnings of sequences.
LEMMA StartsSelf == ASSUME NEW t \in Seq(Frames) PROVE Starts(t, t)
BY DEF Starts

LEMMA StartsTrans ==
  ASSUME NEW x \in Seq(Frames), NEW y \in Seq(Frames), NEW z \in Seq(Frames), Starts(x, y), Starts(y, z)
  PROVE  Starts(x, z)
BY DEF Starts

LEMMA StartsJoined ==
  ASSUME NEW x \in Seq(Frames), NEW y \in Seq(Frames)
  PROVE  Starts(x, x \o y)
BY DEF Starts

LEMMA StartsAppended ==
  ASSUME NEW x \in Seq(Frames), NEW y \in Frames
  PROVE  Starts(x, Append(x, y))
BY DEF Starts

LEMMA AllButTheLast ==
  ASSUME NEW f \in Seq(Frames), Len(f) > 0
  PROVE  /\ SubSeq(f, 1, Len(f) - 1) \in Seq(Frames) /\ Len(SubSeq(f, 1, Len(f) - 1)) = Len(f) - 1
         /\ \A i \in 1..(Len(f) - 1) : SubSeq(f, 1, Len(f) - 1)[i] = f[i]
<1>1. PICK n : n = Len(f) - 1
  OBVIOUS
<1>2. n \in Nat /\ n <= Len(f) /\ n < Len(f)
  BY <1>1
<1>3. \A i \in 1..n : f[i] \in Frames
  BY <1>2
<1>4. SubSeq(f, 1, n) = [i \in 1..n |-> f[i]]
  <2>1. SubSeq(f, 1, n) = [i \in 1..(1 + n - 1) |-> f[i + 1 - 1]]
    BY <1>2
  <2>. QED  BY <1>2, <2>1
<1>5. [i \in 1..n |-> f[i]] \in Seq(Frames) /\ Len([i \in 1..n |-> f[i]]) = n
  BY <1>2, <1>3
<1>6. SubSeq(f, 1, n) \in Seq(Frames) /\ Len(SubSeq(f, 1, n)) = n /\ \A i \in 1..n : SubSeq(f, 1, n)[i] = f[i]
  BY <1>2, <1>4, <1>5
<1>. QED  BY <1>1, <1>6

LEMMA StartsShown ==
  ASSUME NEW f \in Seq(Frames), NEW c
  PROVE  Shown(f, c) \in Seq(Frames) /\ Starts(Shown(f, c), f)
<1>1. CASE Len(f) > 0 /\ ~c /\ f[Len(f)] = EndMark
  <2>1. Shown(f, c) = SubSeq(f, 1, Len(f) - 1)
    BY <1>1 DEF Shown
  <2>2. SubSeq(f, 1, Len(f) - 1) \in Seq(Frames) /\ Len(SubSeq(f, 1, Len(f) - 1)) = Len(f) - 1
        /\ \A i \in 1..(Len(f) - 1) : SubSeq(f, 1, Len(f) - 1)[i] = f[i]
    BY <1>1, AllButTheLast
  <2>. QED  BY <2>1, <2>2 DEF Starts
<1>2. CASE ~(Len(f) > 0 /\ ~c /\ f[Len(f)] = EndMark)
  BY <1>2, StartsSelf DEF Shown
<1>. QED  BY <1>1, <1>2

\* A shorter beginning begins a longer one.
LEMMA BegunStarts ==
  ASSUME NEW k \in Nat, NEW e \in Nat, k <= e
  PROVE  Starts(Begun(k), Begun(e))
<1>1. Progress(k) \in Seq(Milestones) /\ Len(Progress(k)) = k /\ Progress(e) \in Seq(Milestones) /\ Len(Progress(e)) = e
  BY ProgressOf
<1>2. \A i \in 1..k : Progress(k)[i] = Progress(e)[i]
  BY DEF Progress
<1>3. /\ Len(Begun(k)) = k + 1 /\ Len(Begun(e)) = e + 1 /\ Begun(k)[1] = RunStarted /\ Begun(e)[1] = RunStarted
      /\ \A i \in 2..(k + 1) : Begun(k)[i] = Progress(k)[i - 1]
      /\ \A i \in 2..(e + 1) : Begun(e)[i] = Progress(e)[i - 1]
  <2>1. RunStarted \in Prelude /\ Progress(k) \in Seq(Prelude) /\ Progress(e) \in Seq(Prelude)
    BY <1>1, Marks
  <2>2. /\ Len(Begun(k)) = k + 1 /\ Begun(k)[1] = RunStarted
        /\ \A i \in 2..(k + 1) : Begun(k)[i] = Progress(k)[i - 1]
    BY <1>1, <2>1, BehindFirst DEF Begun
  <2>3. /\ Len(Begun(e)) = e + 1 /\ Begun(e)[1] = RunStarted
        /\ \A i \in 2..(e + 1) : Begun(e)[i] = Progress(e)[i - 1]
    BY <1>1, <2>1, BehindFirst DEF Begun
  <2>. QED  BY <2>2, <2>3
<1>4. ASSUME NEW i \in 1..(k + 1) PROVE Begun(k)[i] = Begun(e)[i]
  <2>1. CASE i = 1
    BY <1>3, <2>1
  <2>2. CASE i # 1
    <3>1. i \in 2..(k + 1) /\ i \in 2..(e + 1) /\ i - 1 \in 1..k
      BY <2>2
    <3>. QED  BY <1>2, <1>3, <3>1
  <2>. QED  BY <2>1, <2>2
<1>. QED  BY <1>3, <1>4 DEF Starts

-----------------------------------------------------------------------------
\* Beginnings of a transcript

LEMMA SeenStarts ==
  ASSUME NEW k \in Nat, NEW e \in Nat, k <= e
  PROVE  Starts(Seen(k), Begun(e))
<1>1. CASE k = 0
  <2>1. Seen(k) = <<>> /\ Begun(e) \in Seq(Prelude)
    BY <1>1, BegunOf DEF Seen
  <2>. QED  BY <2>1 DEF Starts
<1>2. CASE k # 0
  BY <1>2, BegunStarts DEF Seen
<1>. QED  BY <1>1, <1>2

\* Each view but that of a client that was cut off.
LEMMA PartsBegin ==
  ASSUME NEW f \in Seq(Frames), NEW o \in Seq(Frames), NEW p, NEW r, NEW e \in Nat, NEW q, NEW cb,
         Following(f, o, p, r, e, q, cb) \/ Answering(f, o, p, r, e) \/ Ending(f, o, p, r, e)
  PROVE  Beginning(f, r, e)
<1>1. Starts(f, f \o o) /\ f \o o \in Seq(Frames)
  BY StartsJoined
<1>2. /\ Begun(e) \in Seq(Frames) /\ Full(e) \in Seq(Frames)
      /\ Told(r, e) \in Seq(Frames) /\ Append(Told(r, e), EndMark) \in Seq(Frames)
  <2>1. Begun(e) \in Seq(Ahead) /\ Full(e) \in Seq(Ahead) /\ Ahead \subseteq Frames
    BY BegunOf, FullOf, Marks
  <2>2. Begun(e) \in Seq(Frames) /\ Full(e) \in Seq(Frames)
    BY <2>1
  <2>. QED  BY <2>2, ToldOf
<1>3. EndMark \in Frames /\ DoneFrame \in Frames
  BY Marks
<1>4. Starts(Told(r, e), Append(Told(r, e), EndMark))
  BY <1>2, <1>3, StartsAppended
<1>5. CASE Following(f, o, p, r, e, q, cb)
  <2>1. PICK k \in Nat : f \o o = Seen(k) /\ Feed(k, r, e, q, cb)
    BY <1>5 DEF Following
  <2>2. Starts(Seen(k), Begun(e))
    BY <2>1, FeedBounds, SeenStarts
  <2>3. Starts(f, Begun(e))
    BY <1>1, <1>2, <2>1, <2>2, StartsTrans
  <2>. QED  BY <2>3 DEF Beginning
<1>6. CASE Answering(f, o, p, r, e)
  <2>1. r = "answered" /\ f \o o = Full(e)
    BY <1>6 DEF Answering
  <2>2. Told(r, e) = Append(Full(e), DoneFrame) /\ Over(r)
    BY <2>1 DEF Told, Over
  <2>3. Starts(Full(e), Told(r, e))
    BY <1>2, <1>3, <2>2, StartsAppended
  <2>4. Starts(Full(e), Append(Told(r, e), EndMark))
    BY <1>2, <1>4, <2>3, StartsTrans
  <2>5. Starts(f, Append(Told(r, e), EndMark))
    BY <1>1, <1>2, <2>1, <2>4, StartsTrans
  <2>. QED  BY <2>2, <2>5 DEF Beginning
<1>7. CASE Ending(f, o, p, r, e)
  <2>1. Over(r) /\ (f = Told(r, e) \/ f = Append(Told(r, e), EndMark))
    BY <1>7 DEF Ending
  <2>2. Starts(f, Append(Told(r, e), EndMark))
    BY <1>2, <1>4, <2>1, StartsSelf
  <2>. QED  BY <2>1, <2>2 DEF Beginning
<1>. QED  BY <1>5, <1>6, <1>7

LEMMA BeginsSooner ==
  ASSUME NEW g \in Seq(Frames), NEW f \in Seq(Frames), Starts(g, f), NEW r, NEW e \in Nat, Beginning(f, r, e)
  PROVE  Beginning(g, r, e)
<1>1. Begun(e) \in Seq(Frames) /\ Append(Told(r, e), EndMark) \in Seq(Frames)
  <2>1. Begun(e) \in Seq(Ahead) /\ Ahead \subseteq Frames
    BY BegunOf, Marks
  <2>. QED  BY <2>1, ToldOf
<1>. QED  BY <1>1, StartsTrans DEF Beginning

\* The run goes on: what was a beginning stays one.
LEMMA BeginningStays ==
  ASSUME NEW f \in Seq(Frames), NEW r, NEW e \in Nat, NEW r2, NEW e2 \in Nat, e <= e2,
         Over(r) => r2 = r /\ e2 = e, Beginning(f, r, e)
  PROVE  Beginning(f, r2, e2)
<1>1. CASE Starts(f, Begun(e))
  <2>1. Begun(e) \in Seq(Frames) /\ Begun(e2) \in Seq(Frames)
    <3>1. Begun(e) \in Seq(Ahead) /\ Begun(e2) \in Seq(Ahead) /\ Ahead \subseteq Frames
      BY BegunOf, Marks
    <3>. QED  BY <3>1
  <2>2. Starts(f, Begun(e2))
    BY <1>1, <2>1, BegunStarts, StartsTrans
  <2>. QED  BY <2>2 DEF Beginning
<1>2. CASE Over(r)
  BY <1>2
<1>. QED  BY <1>1, <1>2 DEF Beginning

\* The end mark of a client that is gone is not shown.
LEMMA EndMarkIsCut ==
  ASSUME NEW f \in Seq(Frames)
  PROVE  /\ Append(f, EndMark) \in Seq(Frames) /\ Append(f, EndMark) # <<>>
         /\ Append(f, EndMark)[Len(Append(f, EndMark))] = EndMark
         /\ Shown(Append(f, EndMark), FALSE) = f
<1>. DEFINE g == Append(f, EndMark)
<1>1. EndMark \in Frames
  BY Marks
<1>2. /\ g \in Seq(Frames) /\ Len(g) = Len(f) + 1 /\ g[Len(f) + 1] = EndMark /\ Len(f) \in Nat
      /\ \A i \in 1..Len(f) : g[i] = f[i]
  BY <1>1, AppendOf
<1>. HIDE DEF g
<1>3. Len(g) > 0 /\ g[Len(g)] = EndMark /\ Len(g) - 1 = Len(f) /\ g # <<>>
  BY <1>2
<1>4. Shown(g, FALSE) = SubSeq(g, 1, Len(g) - 1)
  BY <1>3 DEF Shown
<1>5. /\ SubSeq(g, 1, Len(g) - 1) \in Seq(Frames) /\ Len(SubSeq(g, 1, Len(g) - 1)) = Len(g) - 1
      /\ \A i \in 1..(Len(g) - 1) : SubSeq(g, 1, Len(g) - 1)[i] = g[i]
  BY <1>2, <1>3, AllButTheLast
<1>6. SubSeq(g, 1, Len(g) - 1) = f
  <2>1. \A i \in 1..Len(f) : SubSeq(g, 1, Len(g) - 1)[i] = f[i]
    BY <1>2, <1>3, <1>5
  <2>. QED  BY <1>3, <1>5, <2>1, SeqEqual
<1>. QED  BY <1>2, <1>3, <1>4, <1>6 DEF g

\* Every view shows a beginning.
LEMMA ViewBegins ==
  ASSUME NEW f \in Seq(Frames), NEW o \in Seq(Frames), NEW p, NEW c, NEW r, NEW e \in Nat, NEW q, NEW cb,
         ViewOK(f, o, p, c, r, e, q, cb)
  PROVE  Beginning(Shown(f, c), r, e)
<1>1. CASE CutOff(f, o, p, c, r, e)
  BY <1>1 DEF CutOff
<1>2. CASE Following(f, o, p, r, e, q, cb) \/ Answering(f, o, p, r, e) \/ Ending(f, o, p, r, e)
  <2>1. Beginning(f, r, e)
    BY <1>2, PartsBegin
  <2>. QED  BY <2>1, StartsShown, BeginsSooner
<1>. QED  BY <1>1, <1>2 DEF ViewOK

-----------------------------------------------------------------------------
\* Each step of the stream, or of its run, keeps the view.

\* The run goes on in the background.
LEMMA RunMoves ==
  ASSUME NEW f \in Seq(Frames), NEW o \in Seq(Frames), NEW p, NEW c,
         NEW r, NEW e \in Nat, NEW q, NEW cb, NEW r2, NEW e2 \in Nat, NEW q2, NEW cb2,
         ViewOK(f, o, p, c, r, e, q, cb), e <= e2,
         \A k \in Nat : Feed(k, r, e, q, cb) => Feed(k, r2, e2, q2, cb2),
         Over(r) => r2 = r /\ e2 = e,
         r # "none"
  PROVE  ViewOK(f, o, p, c, r2, e2, q2, cb2)
<1>1. CASE Following(f, o, p, r, e, q, cb)
  <2>1. Following(f, o, p, r2, e2, q2, cb2)
    BY <1>1 DEF Following
  <2>. QED  BY <2>1 DEF ViewOK
<1>2. CASE Answering(f, o, p, r, e)
  BY <1>2 DEF Answering, Over, ViewOK
<1>3. CASE Ending(f, o, p, r, e)
  BY <1>3 DEF Ending, ViewOK
<1>4. CASE CutOff(f, o, p, c, r, e)
  <2>1. Shown(f, c) \in Seq(Frames)
    BY StartsShown
  <2>2. Beginning(Shown(f, c), r2, e2)
    BY <1>4, <2>1, BeginningStays DEF CutOff
  <2>. QED  BY <1>4, <2>2 DEF CutOff, ViewOK
<1>. QED  BY <1>1, <1>2, <1>3, <1>4 DEF ViewOK

\* What a phase tells of the view.
LEMMA ViewByPhase ==
  ASSUME NEW f, NEW o, NEW p, NEW c, NEW r, NEW e, NEW q, NEW cb, ViewOK(f, o, p, c, r, e, q, cb)
  PROVE  /\ p \in {"new", "rejected", "starting", "waiting"} => Following(f, o, p, r, e, q, cb)
         /\ p = "checking" => Following(f, o, p, r, e, q, cb) \/ Answering(f, o, p, r, e)
         /\ c => ~ CutOff(f, o, p, c, r, e)
BY DEF ViewOK, Answering, Ending, CutOff

\* The last frame tells which view it is.
LEMMA ViewByFrame ==
  ASSUME NEW f \in Seq(Frames), NEW o \in Seq(Frames), NEW c, NEW r, NEW e \in Nat, NEW q, NEW cb,
         ViewOK(f, o, "sending", c, r, e, q, cb)
  PROVE  LET x == f[Len(f)]
         IN  /\ x = EndMark => \/ f = Append(Told(r, e), EndMark) /\ Ending(f, o, "sending", r, e)
                               \/ CutOff(f, o, "sending", c, r, e)
             /\ x \in {DoneFrame, ErrorFrame} => f = Told(r, e) /\ Ending(f, o, "sending", r, e)
             /\ o # <<>> => Following(f, o, "sending", r, e, q, cb) \/ Answering(f, o, "sending", r, e)
             /\ o = <<>> /\ x \in Milestones => Following(f, o, "sending", r, e, q, cb)
             /\ o = <<>> /\ x = <<"chunk", Chunks>> => Answering(f, o, "sending", r, e)
<1>. DEFINE x == f[Len(f)]
<1>0. /\ \A y \in Ahead : y \notin {DoneFrame, ErrorFrame, EndMark}
      /\ \A y \in Prelude : y # <<"chunk", Chunks>>
      /\ EndMark \notin {DoneFrame, ErrorFrame}
      /\ {DoneFrame, ErrorFrame, EndMark} \cap Milestones = {}
      /\ <<"chunk", Chunks>> \notin {DoneFrame, ErrorFrame, EndMark} \cup Milestones
  BY Marks
<1>1. ASSUME NEW S, f # <<>>, f \o o \in Seq(S)
      PROVE  x \in S
  <2>1. Len(f) \in 1..Len(f \o o) /\ (f \o o)[Len(f)] = f[Len(f)]
    BY <1>1
  <2>. QED  BY <1>1, <2>1
<1>2. CASE Following(f, o, "sending", r, e, q, cb)
  <2>1. PICK k \in Nat : f \o o = Seen(k)
    BY <1>2 DEF Following
  <2>2. x \in Prelude /\ x \in Ahead
    <3>1. f # <<>> /\ f \o o \in Seq(Prelude) /\ f \o o \in Seq(Ahead)
      BY <1>2, <2>1, SeenOf DEF Following
    <3>2. x \in Prelude
      BY <1>1, <3>1
    <3>3. x \in Ahead
      BY <1>1, <3>1
    <3>. QED  BY <3>2, <3>3
  <2>. HIDE DEF x
  <2>3. x \notin {DoneFrame, ErrorFrame, EndMark} /\ x # <<"chunk", Chunks>>
    BY <1>0, <2>2
  <2>. QED  BY <1>2, <2>3 DEF x
<1>3. CASE Answering(f, o, "sending", r, e)
  <2>1. f \o o = Full(e) /\ f # <<>>
    BY <1>3 DEF Answering
  <2>2. x \in Ahead
    <3>1. f \o o \in Seq(Ahead)
      BY <2>1, FullOf
    <3>. QED  BY <1>1, <2>1, <3>1
  <2>3. o = <<>> => x = <<"chunk", Chunks>>
    <3>1. o = <<>> => f = Full(e)
      BY <2>1, ConcatEmptySeq
    <3>. QED  BY <3>1, FullOf
  <2>. HIDE DEF x
  <2>4. x \notin {DoneFrame, ErrorFrame, EndMark}
    BY <1>0, <2>2
  <2>5. o = <<>> => x \notin Milestones
    BY <1>0, <2>3
  <2>. QED  BY <1>3, <2>4, <2>5 DEF x
<1>4. CASE Ending(f, o, "sending", r, e)
  <2>1. o = <<>> /\ (f = Told(r, e) \/ f = Append(Told(r, e), EndMark))
    BY <1>4 DEF Ending
  <2>2. CASE f = Told(r, e)
    <3>1. x \in {DoneFrame, ErrorFrame}
      BY <2>2, ToldOf
    <3>. HIDE DEF x
    <3>2. x # EndMark /\ x \notin Milestones /\ x # <<"chunk", Chunks>>
      BY <1>0, <3>1
    <3>. QED  BY <1>4, <2>1, <2>2, <3>1, <3>2 DEF x
  <2>3. CASE f = Append(Told(r, e), EndMark)
    <3>1. x = EndMark
      BY <2>3, ToldOf, EndMarkIsCut
    <3>. HIDE DEF x
    <3>2. x \notin {DoneFrame, ErrorFrame} /\ x \notin Milestones /\ x # <<"chunk", Chunks>>
      BY <1>0, <3>1
    <3>. QED  BY <1>4, <2>1, <2>3, <3>1, <3>2 DEF x
  <2>. QED  BY <2>1, <2>2, <2>3
<1>5. CASE CutOff(f, o, "sending", c, r, e)
  <2>1. x = EndMark /\ o = <<>>
    BY <1>5 DEF CutOff
  <2>. HIDE DEF x
  <2>2. x \notin {DoneFrame, ErrorFrame} /\ x \notin Milestones /\ x # <<"chunk", Chunks>>
    BY <1>0, <2>1
  <2>. QED  BY <1>5, <2>1, <2>2 DEF x
<1>. QED  BY <1>2, <1>3, <1>4, <1>5 DEF ViewOK

\* The generators start.
LEMMA StreamStarts ==
  ASSUME NEW f \in Seq(Frames), NEW o \in Seq(Frames), NEW c, NEW e \in Nat, NEW q, NEW cb, NEW r,
         ViewOK(f, o, "starting", c, r, e, q, cb)
  PROVE  ViewOK(f, o, "waiting", c, "preparing", e, q, cb)
<1>1. Following(f, o, "starting", r, e, q, cb)
  BY ViewByPhase
<1>2. r = "none" /\ o = <<>>
  BY <1>1 DEF Following
<1>3. PICK k \in Nat : f \o o = Seen(k) /\ Feed(k, r, e, q, cb)
  BY <1>1 DEF Following
<1>4. Feed(k, "preparing", e, q, cb)
  BY <1>2, <1>3 DEF Feed
<1>5. Following(f, o, "waiting", "preparing", e, q, cb)
  BY <1>2, <1>3, <1>4 DEF Following
<1>. QED  BY <1>5 DEF ViewOK

LEMMA JoinAppend ==
  ASSUME NEW S, NEW f \in Seq(S), NEW g \in Seq(S), NEW x \in S
  PROVE  f \o Append(g, x) = Append(f \o g, x)
<1>1. /\ <<x>> \in Seq(S) /\ Append(g, x) = g \o <<x>>
      /\ f \o g \in Seq(S) /\ Append(f \o g, x) = (f \o g) \o <<x>>
  BY AppendIsConcat, ConcatProperties
<1>. QED  BY <1>1, ConcatAssociative

LEMMA JoinThrice ==
  \A S : \A f, g, h \in Seq(S) : f \o (g \o h) = (f \o g) \o h
<1>. TAKE S
<1>. TAKE f, g, h \in Seq(S)
<1>. QED  BY ConcatAssociative, SMTT(30)

\* What opens the first frames.
Opening(f) == IF f = <<>> THEN <<RunStarted>> ELSE <<>>

LEMMA OpeningOf ==
  ASSUME NEW k \in Nat, NEW f, f = Seen(k)
  PROVE  f \in Seq(Ahead) /\ Opening(f) \in Seq(Ahead) /\ f \o Opening(f) = Begun(k)
<1>0. RunStarted \in Ahead /\ Begun(k) \in Seq(Ahead) /\ Begun(k) # <<>>
  BY Marks, BegunOf
<1>1. CASE k = 0
  <2>1. f = <<>> /\ Opening(f) = <<RunStarted>>
    BY <1>1 DEF Seen, Opening
  <2>2. Progress(0) = <<>>
    BY ProgressOf
  <2>3. <<RunStarted>> \in Seq(Ahead) /\ <<>> \in Seq(Ahead)
    BY <1>0
  <2>4. <<RunStarted>> \o <<>> = <<RunStarted>> /\ <<>> \o <<RunStarted>> = <<RunStarted>>
    BY <2>3, ConcatEmptySeq
  <2>5. Begun(k) = <<RunStarted>>
    BY <1>1, <2>2, <2>4 DEF Begun
  <2>. QED  BY <2>1, <2>3, <2>4, <2>5
<1>2. CASE k # 0
  <2>1. f = Begun(k) /\ Opening(f) = <<>>
    BY <1>0, <1>2 DEF Seen, Opening
  <2>. QED  BY <1>0, <2>1
<1>. QED  BY <1>1, <1>2

\* The reader has the next milestone, or the end.
LEMMA ReaderTakes ==
  ASSUME NEW f \in Seq(Frames), NEW o \in Seq(Frames), NEW c, NEW r, NEW e \in Nat, NEW q, NEW cb,
         ViewOK(f, o, "waiting", c, r, e, q, cb), q # <<>>
  PROVE  /\ Head(q) # Sentinel =>
              ViewOK(f, Append(Opening(f), Head(q)), "checking", c, r, e, Tail(q), cb)
         /\ Head(q) = Sentinel /\ r = "answered" =>
              ViewOK(f, Opening(f) \o Answer, "checking", c, r, e, Tail(q), cb)
         /\ Head(q) = Sentinel /\ r # "answered" =>
              ViewOK(Append(f, ErrorFrame), o, "sending", c, r, e, Tail(q), cb)
<1>1. Following(f, o, "waiting", r, e, q, cb) /\ o = <<>>
  BY ViewByPhase DEF Following
<1>2. PICK k \in Nat : f \o o = Seen(k) /\ Feed(k, r, e, q, cb)
  BY <1>1 DEF Following
<1>3. f = Seen(k)
  BY <1>1, <1>2
<1>4. f \in Seq(Ahead) /\ Opening(f) \in Seq(Ahead) /\ f \o Opening(f) = Begun(k)
  BY <1>3, OpeningOf
<1>5. ASSUME Head(q) # Sentinel
      PROVE  ViewOK(f, Append(Opening(f), Head(q)), "checking", c, r, e, Tail(q), cb)
  <2>1. PICK j, x : j = k + 1 /\ x = <<"milestone", j>>
    OBVIOUS
  <2>2. Head(q) = x /\ Feed(j, r, e, Tail(q), cb)
    BY <1>2, <1>5, <2>1, FeedReader
  <2>3. j \in Nat /\ j # 0 /\ x \in Ahead
    <3>1. j \in Nat /\ j # 0
      BY <2>1
    <3>2. x \in Milestones
      BY <2>1, <3>1 DEF Milestones
    <3>. QED  BY <3>1, <3>2, Marks
  <2>4. f \o Append(Opening(f), x) = Append(f \o Opening(f), x)
    BY <1>4, <2>3, JoinAppend, SMTT(20)
  <2>5. Append(Begun(k), x) = Seen(j)
    BY <2>1, <2>3, BegunOf DEF Seen
  <2>6. Following(f, Append(Opening(f), x), "checking", r, e, Tail(q), cb)
    BY <1>4, <2>2, <2>3, <2>4, <2>5 DEF Following
  <2>. QED  BY <2>2, <2>6 DEF ViewOK
<1>6. ASSUME Head(q) = Sentinel
      PROVE  Over(r) /\ k = e
  BY <1>2, <1>6, FeedReader
<1>7. ASSUME Head(q) = Sentinel, r = "answered"
      PROVE  ViewOK(f, Opening(f) \o Answer, "checking", c, r, e, Tail(q), cb)
  <2>1. f \o (Opening(f) \o Answer) = (f \o Opening(f)) \o Answer
    <3>1. f \in Seq(Ahead) /\ Opening(f) \in Seq(Ahead) /\ Answer \in Seq(Ahead)
      BY <1>4, FullOf
    <3>. QED  BY ONLY <3>1, JoinThrice, SMTT(30)
  <2>2. f \o (Opening(f) \o Answer) = Full(e)
    BY <1>4, <1>6, <1>7, <2>1 DEF Full
  <2>3. Answering(f, Opening(f) \o Answer, "checking", r, e)
    BY <1>7, <2>2 DEF Answering
  <2>. QED  BY <2>3 DEF ViewOK
<1>8. ASSUME Head(q) = Sentinel, r # "answered"
      PROVE  ViewOK(Append(f, ErrorFrame), o, "sending", c, r, e, Tail(q), cb)
  <2>1. Append(f, ErrorFrame) = Told(r, e) /\ Over(r)
    BY <1>3, <1>6, <1>8 DEF Told
  <2>2. Ending(Append(f, ErrorFrame), o, "sending", r, e)
    BY <1>1, <2>1 DEF Ending
  <2>. QED  BY <2>2 DEF ViewOK
<1>. QED  BY <1>5, <1>7, <1>8

\* An event becomes a frame.
LEMMA EventIsSent ==
  ASSUME NEW f \in Seq(Frames), NEW o \in Seq(Frames), NEW c, NEW r, NEW e \in Nat, NEW q, NEW cb,
         ViewOK(f, o, "checking", c, r, e, q, cb), o # <<>>
  PROVE  ViewOK(Append(f, Head(o)), Tail(o), "sending", c, r, e, q, cb)
<1>1. Append(f, Head(o)) \o Tail(o) = f \o o /\ Append(f, Head(o)) # <<>>
  <2>1. Head(o) \in Frames /\ Tail(o) \in Seq(Frames) /\ Append(f, Head(o)) # <<>>
    BY HeadTailProperties, AppendProperties
  <2>2. <<Head(o)>> \in Seq(Frames) /\ Append(f, Head(o)) = f \o <<Head(o)>>
    BY <2>1, AppendIsConcat
  <2>3. o = <<Head(o)>> \o Tail(o)
    <3>1. Len(o) \in Nat \ {0} /\ 1 \in 1..Len(o) /\ Len(o) \in 1..Len(o) /\ Head(o) = o[1]
      OBVIOUS
    <3>2. SubSeq(o, 1, Len(o)) = <<o[1]>> \o SubSeq(o, 1 + 1, Len(o))
      BY <3>1, SubSeqRecursiveFirst
    <3>3. SubSeq(o, 1, Len(o)) = o /\ Tail(o) = SubSeq(o, 2, Len(o)) /\ 1 + 1 = 2
      BY SubSeqFull, TailIsSubSeq
    <3>. QED  BY <3>1, <3>2, <3>3
  <2>4. (f \o <<Head(o)>>) \o Tail(o) = f \o (<<Head(o)>> \o Tail(o))
    BY <2>1, <2>2, ConcatAssociative
  <2>. QED  BY <2>1, <2>2, <2>3, <2>4
<1>2. CASE Following(f, o, "checking", r, e, q, cb)
  <2>1. Following(Append(f, Head(o)), Tail(o), "sending", r, e, q, cb)
    BY <1>1, <1>2 DEF Following
  <2>. QED  BY <2>1 DEF ViewOK
<1>3. CASE Answering(f, o, "checking", r, e)
  <2>1. Answering(Append(f, Head(o)), Tail(o), "sending", r, e)
    BY <1>1, <1>3 DEF Answering
  <2>. QED  BY <2>1 DEF ViewOK
<1>. QED  BY <1>2, <1>3, ViewByPhase

\* The client is gone: the end mark follows, or nothing.
LEMMA StreamIsCut ==
  ASSUME NEW f \in Seq(Frames), NEW o \in Seq(Frames), NEW p \in {"waiting", "checking"},
         NEW r, NEW e \in Nat, NEW q, NEW cb, ViewOK(f, o, p, FALSE, r, e, q, cb),
         NEW r2, Over(r) => r2 = r, NEW q2
  PROVE  ViewOK(Append(f, EndMark), <<>>, "sending", FALSE, r2, e, q2, cb)
<1>1. Following(f, o, p, r, e, q, cb) \/ Answering(f, o, p, r, e)
  <2>1. p = "waiting" \/ p = "checking"
    OBVIOUS
  <2>. QED  BY <2>1, ViewByPhase
<1>0. Beginning(f, r, e)
  BY <1>1, PartsBegin
<1>2. Beginning(f, r2, e)
  BY <1>0, BeginningStays
<1>3. CutOff(Append(f, EndMark), <<>>, "sending", FALSE, r2, e)
  BY <1>2, EndMarkIsCut DEF CutOff
<1>. QED  BY <1>3 DEF ViewOK

LEMMA StreamIsClosed ==
  ASSUME NEW f \in Seq(Frames), NEW o \in Seq(Frames), NEW p,
         NEW r, NEW e \in Nat, NEW q, NEW cb, ViewOK(f, o, p, FALSE, r, e, q, cb)
  PROVE  ViewOK(f, <<>>, "closed", FALSE, r, e, q, cb)
<1>1. Beginning(Shown(f, FALSE), r, e)
  BY ViewBegins
<1>2. CutOff(f, <<>>, "closed", FALSE, r, e)
  BY <1>1 DEF CutOff
<1>. QED  BY <1>2 DEF ViewOK

\* The server asks for the next frame.
LEMMA StreamResumes ==
  ASSUME NEW f \in Seq(Frames), NEW o \in Seq(Frames), NEW c, NEW r, NEW e \in Nat, NEW q, NEW cb,
         ViewOK(f, o, "sending", c, r, e, q, cb)
  PROVE  LET x == f[Len(f)]
         IN  /\ x = EndMark => ViewOK(f, o, "closed", c, r, e, q, cb)
             /\ x \in {DoneFrame, ErrorFrame} => ViewOK(Append(f, EndMark), o, "sending", c, r, e, q, cb)
             /\ o # <<>> => ViewOK(f, o, "checking", c, r, e, q, cb)
             /\ o = <<>> /\ x \in Milestones => ViewOK(f, o, "waiting", c, r, e, q, cb)
             /\ o = <<>> /\ x = <<"chunk", Chunks>> =>
                  ViewOK(Append(f, DoneFrame), o, "sending", c, r, e, q, cb)
<1>. DEFINE x == f[Len(f)]
<1>0. /\ x = EndMark => \/ f = Append(Told(r, e), EndMark) /\ Ending(f, o, "sending", r, e)
                        \/ CutOff(f, o, "sending", c, r, e)
      /\ x \in {DoneFrame, ErrorFrame} => f = Told(r, e) /\ Ending(f, o, "sending", r, e)
      /\ o # <<>> => Following(f, o, "sending", r, e, q, cb) \/ Answering(f, o, "sending", r, e)
      /\ o = <<>> /\ x \in Milestones => Following(f, o, "sending", r, e, q, cb)
      /\ o = <<>> /\ x = <<"chunk", Chunks>> => Answering(f, o, "sending", r, e)
  BY ViewByFrame
<1>. HIDE DEF x
<1>1. x = EndMark => ViewOK(f, o, "closed", c, r, e, q, cb)
  BY <1>0 DEF Ending, CutOff, ViewOK
<1>2. x \in {DoneFrame, ErrorFrame} => ViewOK(Append(f, EndMark), o, "sending", c, r, e, q, cb)
  BY <1>0 DEF Ending, ViewOK
<1>3. o # <<>> => ViewOK(f, o, "checking", c, r, e, q, cb)
  BY <1>0 DEF Following, Answering, ViewOK
<1>4. o = <<>> /\ x \in Milestones => ViewOK(f, o, "waiting", c, r, e, q, cb)
  BY <1>0 DEF Following, ViewOK
<1>5. ASSUME o = <<>>, x = <<"chunk", Chunks>>
      PROVE  ViewOK(Append(f, DoneFrame), o, "sending", c, r, e, q, cb)
  <2>1. r = "answered" /\ f = Full(e)
    BY <1>0, <1>5 DEF Answering
  <2>2. Append(f, DoneFrame) = Told(r, e) /\ Over(r)
    BY <2>1 DEF Told, Over
  <2>. QED  BY <1>5, <2>2 DEF Ending, ViewOK
<1>. QED  BY <1>1, <1>2, <1>3, <1>4, <1>5 DEF x

-----------------------------------------------------------------------------
\* The steps of the streams

\* What a view of stream q is about stays as it is.
Unseen(q) ==
  /\ frames'[q] = frames[q] /\ out'[q] = out[q] /\ phase'[q] = phase[q] /\ client'[q] = client[q]
  /\ run'[q] = run[q] /\ emitted'[q] = emitted[q] /\ queue'[q] = queue[q] /\ callbacks'[q] = callbacks[q]

LEMMA OneViewMoves ==
  ASSUME TranscriptInv, NEW s \in Streams, \A q \in Streams \ {s} : Unseen(q),
         ViewOK(frames'[s], out'[s], phase'[s], client'[s], run'[s], emitted'[s], queue'[s], callbacks'[s])
  PROVE  TranscriptInv'
<1>. SUFFICES ASSUME NEW q \in Streams PROVE View(q)'
  BY DEF TranscriptInv
<1>1. CASE q = s
  BY <1>1 DEF View
<1>2. CASE q # s
  BY <1>2 DEF View, Unseen, TranscriptInv
<1>. QED  BY <1>1, <1>2

\* The types of what a view is about.
LEMMA ViewTypes ==
  ASSUME TypeOK, NEW s \in Streams
  PROVE  /\ frames[s] \in Seq(Frames) /\ out[s] \in Seq(Frames) /\ emitted[s] \in Nat
         /\ client[s] \in BOOLEAN /\ phase[s] \in Phases /\ run[s] \in RunStates
         /\ DOMAIN frames = Streams /\ DOMAIN out = Streams /\ DOMAIN emitted = Streams
         /\ DOMAIN client = Streams /\ DOMAIN phase = Streams /\ DOMAIN run = Streams
         /\ DOMAIN queue = Streams /\ DOMAIN callbacks = Streams
         /\ queue[s] \in Seq(Milestones \cup {Sentinel})
BY DEF TypeOK

LEMMA InitTranscript == Init => TranscriptInv
<1>. SUFFICES ASSUME Init, NEW s \in Streams PROVE View(s)
  BY DEF TranscriptInv
<1>1. /\ frames[s] = <<>> /\ out[s] = <<>> /\ phase[s] = "new" /\ run[s] = "none" /\ emitted[s] = 0
      /\ queue[s] = <<>> /\ callbacks[s] = <<>>
  BY DEF Init
<1>2. <<>> \o <<>> = Seen(0) /\ 0 \in Nat
  <2>1. <<>> \o <<>> = <<>>
    BY EmptySeq, ConcatEmptySeq
  <2>. QED  BY <2>1 DEF Seen
<1>3. Feed(0, "none", 0, <<>>, <<>>)
  BY DEF Feed
<1>4. Following(<<>>, <<>>, "new", "none", 0, <<>>, <<>>)
  BY <1>2, <1>3 DEF Following
<1>. QED  BY <1>1, <1>4 DEF View, ViewOK

\* The request comes, and its client may leave.
LEMMA ArrivalView ==
  ASSUME TypeOK, TranscriptInv, NEW s \in Streams, StreamAI(s) \/ Disconnect(s)
  PROVE  TranscriptInv'
<1>1. View(s)
  BY DEF TranscriptInv
<1>2. CASE StreamAI(s)
  <2>1. /\ phase[s] = "new" /\ phase'[s] \in {"starting", "rejected"}
        /\ \A q \in Streams \ {s} : Unseen(q)
        /\ frames'[s] = frames[s] /\ out'[s] = out[s] /\ client'[s] = client[s] /\ run'[s] = run[s]
        /\ emitted'[s] = emitted[s] /\ queue'[s] = queue[s] /\ callbacks'[s] = callbacks[s]
    BY <1>2, ViewTypes DEF StreamAI, Unseen, background
  <2>2. Following(frames[s], out[s], "new", run[s], emitted[s], queue[s], callbacks[s])
    BY <1>1, <2>1, ViewByPhase DEF View
  <2>3. Following(frames[s], out[s], phase'[s], run[s], emitted[s], queue[s], callbacks[s])
    BY <2>1, <2>2 DEF Following
  <2>4. ViewOK(frames[s], out[s], phase'[s], client[s], run[s], emitted[s], queue[s], callbacks[s])
    BY <2>3 DEF ViewOK
  <2>. QED  BY <2>1, <2>4, OneViewMoves
<1>3. CASE Disconnect(s)
  <2>1. /\ client[s] /\ \A q \in Streams \ {s} : Unseen(q)
        /\ frames'[s] = frames[s] /\ out'[s] = out[s] /\ phase'[s] = phase[s] /\ run'[s] = run[s]
        /\ emitted'[s] = emitted[s] /\ queue'[s] = queue[s] /\ callbacks'[s] = callbacks[s]
    BY <1>3, ViewTypes DEF Disconnect, Unseen, background
  <2>2. ~ CutOff(frames[s], out[s], phase[s], client[s], run[s], emitted[s])
    BY <2>1 DEF CutOff
  <2>3. ViewOK(frames[s], out[s], phase[s], client'[s], run[s], emitted[s], queue[s], callbacks[s])
    BY <1>1, <2>2 DEF View, ViewOK
  <2>. QED  BY <2>1, <2>3, OneViewMoves
<1>. QED  BY <1>2, <1>3

LEMMA BuildChatStreamView ==
  ASSUME TypeOK, TranscriptInv, NEW s \in Streams, BuildChatStream(s)
  PROVE  TranscriptInv'
<1>1. View(s)
  BY DEF TranscriptInv
<1>2. /\ phase[s] = "starting" /\ phase'[s] = "waiting" /\ run'[s] = "preparing"
      /\ \A q \in Streams \ {s} : Unseen(q)
      /\ frames'[s] = frames[s] /\ out'[s] = out[s] /\ client'[s] = client[s]
      /\ emitted'[s] = emitted[s] /\ queue'[s] = queue[s] /\ callbacks'[s] = callbacks[s]
  BY ViewTypes DEF BuildChatStream, Go, Unseen
<1>3. ViewOK(frames[s], out[s], "waiting", client[s], "preparing", emitted[s], queue[s], callbacks[s])
  BY <1>1, <1>2, ViewTypes, StreamStarts DEF View
<1>. QED  BY <1>2, <1>3, OneViewMoves

\* The run goes on.
LEMMA RunView ==
  ASSUME TypeOK, TranscriptInv, NEW s \in Streams, EventSink(s) \/ Background(s)
  PROVE  TranscriptInv'
<1>. DEFINE r == run[s]
            e == emitted[s]
            q == queue[s]
            cb == callbacks[s]
<1>1. View(s)
  BY DEF TranscriptInv
<1>2. /\ frames[s] \in Seq(Frames) /\ out[s] \in Seq(Frames) /\ e \in Nat
  BY ViewTypes
<1>3. /\ \A x \in Streams \ {s} : Unseen(x)
      /\ frames'[s] = frames[s] /\ out'[s] = out[s] /\ phase'[s] = phase[s] /\ client'[s] = client[s]
      /\ e <= emitted'[s] /\ emitted'[s] \in Nat
  <2>1. \A x \in Streams \ {s} : Unseen(x)
    BY ViewTypes DEF EventSink, Background, StartBoard, BoardEnds, EventLoop, EndRun, Unseen, stream
  <2>2. frames'[s] = frames[s] /\ out'[s] = out[s] /\ phase'[s] = phase[s] /\ client'[s] = client[s]
    BY DEF EventSink, Background, StartBoard, BoardEnds, EventLoop, EndRun, stream
  <2>3. emitted'[s] = e \/ emitted'[s] = e + 1
    BY ViewTypes DEF EventSink, Background, StartBoard, BoardEnds, EventLoop, EndRun
  <2>. QED  BY <1>2, <2>1, <2>2, <2>3
<1>4. /\ \A k \in Nat : Feed(k, r, e, q, cb) => Feed(k, run'[s], emitted'[s], queue'[s], callbacks'[s])
      /\ Over(r) => run'[s] = r /\ emitted'[s] = e
      /\ r # "none" \/ View(s)'
  <2>1. CASE EventSink(s)
    <3>1. /\ r = "board" /\ \A i \in DOMAIN cb : cb[i] # Sentinel
          /\ run'[s] = r /\ emitted'[s] = e + 1 /\ queue'[s] = q
          /\ callbacks'[s] = Append(cb, <<"milestone", e + 1>>)
      BY <2>1, ViewTypes DEF EventSink, ThreadWorks
    <3>. HIDE DEF r, e, q, cb
    <3>2. \A k \in Nat : Feed(k, r, e, q, cb) => Feed(k, "board", e + 1, q, Append(cb, <<"milestone", e + 1>>))
      BY <1>2, <3>1, FeedEmits
    <3>. QED  BY <3>1, <3>2 DEF Over
  <2>2. CASE StartBoard(s)
    <3>1. /\ r = "preparing" /\ run'[s] = "board" /\ emitted'[s] = e /\ queue'[s] = q /\ callbacks'[s] = cb
      BY <2>2, ViewTypes DEF StartBoard
    <3>. HIDE DEF r, e, q, cb
    <3>2. \A k \in Nat : Feed(k, r, e, q, cb) => Feed(k, "board", e, q, cb)
      BY <1>2, <3>1, FeedStarts
    <3>. QED  BY <3>1, <3>2 DEF Over
  <2>3. CASE BoardEnds(s)
    <3>1. /\ r = "board" /\ \A i \in DOMAIN cb : cb[i] # Sentinel
          /\ run'[s] = r /\ emitted'[s] = e /\ queue'[s] = q /\ callbacks'[s] = Append(cb, Sentinel)
      BY <2>3, ViewTypes DEF BoardEnds, BehindEvents, ThreadWorks
    <3>. HIDE DEF r, e, q, cb
    <3>2. \A k \in Nat : Feed(k, r, e, q, cb) => Feed(k, "board", e, q, Append(cb, Sentinel))
      BY <1>2, <3>1, FeedStops
    <3>. QED  BY <3>1, <3>2 DEF Over
  <2>4. CASE EventLoop(s)
    <3>1. /\ cb # <<>> /\ callbacks'[s] = Tail(cb) /\ emitted'[s] = e
          /\ Head(cb) = Sentinel => run'[s] = (IF r = "board" THEN "finalizing" ELSE r) /\ queue'[s] = q
          /\ Head(cb) # Sentinel => run'[s] = r /\ queue'[s] = Append(q, Head(cb))
      BY <2>4, ViewTypes DEF EventLoop
    <3>. HIDE DEF r, e, q, cb
    <3>2. ASSUME NEW k \in Nat, Feed(k, r, e, q, cb)
          PROVE  Feed(k, run'[s], emitted'[s], queue'[s], callbacks'[s])
      <4>1. /\ r = "board"
            /\ Head(cb) = Sentinel => Feed(k, "finalizing", e, q, Tail(cb))
            /\ Head(cb) # Sentinel => Feed(k, r, e, Append(q, Head(cb)), Tail(cb))
        BY <1>2, <3>1, <3>2, FeedCalls
      <4>2. CASE Head(cb) = Sentinel
        <5>1. run'[s] = "finalizing" /\ queue'[s] = q
          BY <3>1, <4>1, <4>2
        <5>. QED  BY <3>1, <4>1, <4>2, <5>1
      <4>3. CASE Head(cb) # Sentinel
        BY <3>1, <4>1, <4>3
      <4>. QED  BY <4>2, <4>3
    <3>3. Over(r) => run'[s] = r /\ emitted'[s] = e
      BY <3>1 DEF Over
    <3>4. r # "none" \/ View(s)'
      <4>. SUFFICES ASSUME r = "none" PROVE View(s)'
        OBVIOUS
      <4>1. ~ Following(frames[s], out[s], phase[s], r, e, q, cb)
        <5>1. \A k \in Nat : ~ Feed(k, r, e, q, cb)
          BY <1>2, <3>1, FeedCalls
        <5>. QED  BY <5>1 DEF Following
      <4>2. CutOff(frames[s], out[s], phase[s], client[s], r, e)
        BY <1>1, <4>1 DEF View, ViewOK, Answering, Ending, Over, r, e, q, cb
      <4>3. run'[s] = r
        BY <3>1
      <4>. QED  BY <1>3, <3>1, <4>2, <4>3 DEF View, ViewOK
    <3>. QED  BY <3>2, <3>3, <3>4
  <2>5. CASE EndRun(s)
    <3>1. PICK result \in {"answered", "failed"} :
            /\ r = "finalizing" \/ r = "preparing"
            /\ run'[s] = result /\ emitted'[s] = e /\ queue'[s] = Append(q, Sentinel) /\ callbacks'[s] = cb
      BY <2>5, ViewTypes DEF EndRun, WakeReader
    <3>. HIDE DEF r, e, q, cb
    <3>2. \A k \in Nat : Feed(k, r, e, q, cb) => Feed(k, result, e, Append(q, Sentinel), cb)
      BY <1>2, <3>1, FeedEnds
    <3>. QED  BY <3>1, <3>2 DEF Over
  <2>. QED  BY <2>1, <2>2, <2>3, <2>4, <2>5 DEF Background
<1>5. CASE r # "none"
  <2>1. ViewOK(frames[s], out[s], phase[s], client[s], r, e, q, cb)
    BY <1>1 DEF View
  <2>. HIDE DEF r, e, q, cb
  <2>2. ViewOK(frames[s], out[s], phase[s], client[s], run'[s], emitted'[s], queue'[s], callbacks'[s])
    BY <1>2, <1>3, <1>4, <1>5, <2>1, RunMoves
  <2>. QED  BY <1>3, <2>2, OneViewMoves
<1>6. CASE View(s)'
  BY <1>3, <1>6, OneViewMoves DEF View
<1>. QED  BY <1>4, <1>5, <1>6

LEMMA TakeEventView ==
  ASSUME TypeOK, TranscriptInv, NEW s \in Streams, TakeEvent(s)
  PROVE  TranscriptInv'
<1>. DEFINE f == frames[s]
            o == out[s]
            r == run[s]
            e == emitted[s]
            q == queue[s]
            cb == callbacks[s]
            c == client[s]
<1>1. f \in Seq(Frames) /\ o \in Seq(Frames) /\ e \in Nat
  BY ViewTypes
<1>2. /\ phase[s] = "waiting" /\ q # <<>>
      /\ client'[s] = c /\ run'[s] = r /\ emitted'[s] = e /\ queue'[s] = Tail(q) /\ callbacks'[s] = cb
      /\ \A x \in Streams \ {s} : Unseen(x)
  BY ViewTypes DEF TakeEvent, Send, Unseen
<1>3. \/ /\ Head(q) # Sentinel
         /\ out'[s] = Append(Opening(f), Head(q)) /\ phase'[s] = "checking" /\ frames'[s] = f
      \/ /\ Head(q) = Sentinel /\ r = "answered"
         /\ out'[s] = Opening(f) \o Answer /\ phase'[s] = "checking" /\ frames'[s] = f
      \/ /\ Head(q) = Sentinel /\ r # "answered"
         /\ out'[s] = o /\ phase'[s] = "sending" /\ frames'[s] = Append(f, ErrorFrame)
  BY ViewTypes DEF TakeEvent, Send, Opening
<1>4. ViewOK(f, o, "waiting", c, r, e, q, cb)
  BY <1>2 DEF TranscriptInv, View
<1>. HIDE DEF f, o, r, e, q, cb, c
<1>5. ViewOK(frames'[s], out'[s], phase'[s], client'[s], run'[s], emitted'[s], queue'[s], callbacks'[s])
  BY <1>1, <1>2, <1>3, <1>4, ReaderTakes
<1>. QED  BY <1>2, <1>5, OneViewMoves

LEMMA CheckingView ==
  ASSUME TypeOK, CheckInv, TranscriptInv, NEW s \in Streams, Connected(s) \/ Disconnected(s)
  PROVE  TranscriptInv'
<1>. DEFINE f == frames[s]
            o == out[s]
            r == run[s]
            e == emitted[s]
            q == queue[s]
            cb == callbacks[s]
            c == client[s]
<1>1. f \in Seq(Frames) /\ o \in Seq(Frames) /\ e \in Nat /\ c \in BOOLEAN
  BY ViewTypes
<1>2. /\ phase[s] = "checking" /\ phase'[s] = "sending"
      /\ client'[s] = c /\ run'[s] = r /\ emitted'[s] = e /\ queue'[s] = q /\ callbacks'[s] = cb
      /\ \A x \in Streams \ {s} : Unseen(x)
  BY ViewTypes DEF Connected, Disconnected, Go, Send, Unseen, background
<1>3. o # <<>>
  BY <1>2 DEF CheckInv
<1>4. \/ c /\ frames'[s] = Append(f, Head(o)) /\ out'[s] = Tail(o)
      \/ ~c /\ frames'[s] = Append(f, EndMark) /\ out'[s] = <<>>
  BY ViewTypes DEF Connected, Disconnected, Send
<1>5. ViewOK(f, o, "checking", c, r, e, q, cb)
  BY <1>2 DEF TranscriptInv, View
<1>. HIDE DEF f, o, r, e, q, cb, c
<1>6. CASE c /\ frames'[s] = Append(f, Head(o)) /\ out'[s] = Tail(o)
  <2>1. ViewOK(Append(f, Head(o)), Tail(o), "sending", c, r, e, q, cb)
    BY <1>1, <1>3, <1>5, EventIsSent
  <2>. QED  BY <1>2, <1>6, <2>1, OneViewMoves
<1>7. CASE ~c /\ frames'[s] = Append(f, EndMark) /\ out'[s] = <<>>
  <2>1. c = FALSE
    BY <1>1, <1>7
  <2>2. ViewOK(Append(f, EndMark), <<>>, "sending", FALSE, r, e, q, cb)
    BY <1>1, <1>5, <2>1, StreamIsCut
  <2>. QED  BY <1>2, <1>7, <2>1, <2>2, OneViewMoves
<1>. QED  BY <1>4, <1>6, <1>7

LEMMA ResumeView ==
  ASSUME TypeOK, TranscriptInv, NEW s \in Streams, Resume(s)
  PROVE  TranscriptInv'
<1>. DEFINE f == frames[s]
            o == out[s]
            r == run[s]
            e == emitted[s]
            q == queue[s]
            cb == callbacks[s]
            c == client[s]
            x == f[Len(f)]
<1>1. f \in Seq(Frames) /\ o \in Seq(Frames) /\ e \in Nat
  BY ViewTypes
<1>2. /\ phase[s] = "sending"
      /\ out'[s] = o /\ client'[s] = c /\ run'[s] = r /\ emitted'[s] = e /\ queue'[s] = q /\ callbacks'[s] = cb
      /\ \A y \in Streams \ {s} : Unseen(y)
  BY ViewTypes DEF Resume, Send, Unseen, background
<1>3. \/ x = EndMark /\ phase'[s] = "closed" /\ frames'[s] = f
      \/ x \in {DoneFrame, ErrorFrame} /\ frames'[s] = Append(f, EndMark) /\ phase'[s] = phase[s]
      \/ o # <<>> /\ phase'[s] = "checking" /\ frames'[s] = f
      \/ o = <<>> /\ x \in Milestones /\ phase'[s] = "waiting" /\ frames'[s] = f
      \/ /\ o = <<>> /\ x = <<"chunk", Chunks>>
         /\ frames'[s] = Append(f, DoneFrame) /\ phase'[s] = phase[s]
  BY ViewTypes DEF Resume, Send, LastFrame
<1>4. ViewOK(f, o, "sending", c, r, e, q, cb)
  BY <1>2 DEF TranscriptInv, View
<1>. HIDE DEF f, o, r, e, q, cb, c
<1>5. /\ x = EndMark => ViewOK(f, o, "closed", c, r, e, q, cb)
      /\ x \in {DoneFrame, ErrorFrame} => ViewOK(Append(f, EndMark), o, "sending", c, r, e, q, cb)
      /\ o # <<>> => ViewOK(f, o, "checking", c, r, e, q, cb)
      /\ o = <<>> /\ x \in Milestones => ViewOK(f, o, "waiting", c, r, e, q, cb)
      /\ o = <<>> /\ x = <<"chunk", Chunks>> =>
           ViewOK(Append(f, DoneFrame), o, "sending", c, r, e, q, cb)
  BY <1>1, <1>4, StreamResumes
<1>. HIDE DEF x
<1>6. ViewOK(frames'[s], out'[s], phase'[s], client'[s], run'[s], emitted'[s], queue'[s], callbacks'[s])
  BY <1>2, <1>3, <1>5
<1>. QED  BY <1>2, <1>6, OneViewMoves

LEMMA ServerCancelsView ==
  ASSUME TypeOK, TranscriptInv, NEW s \in Streams, ServerCancels(s)
  PROVE  TranscriptInv'
<1>. DEFINE f == frames[s]
            o == out[s]
            p == phase[s]
            r == run[s]
            e == emitted[s]
            q == queue[s]
            cb == callbacks[s]
<1>1. f \in Seq(Frames) /\ o \in Seq(Frames) /\ e \in Nat /\ client[s] = FALSE
  BY ViewTypes DEF ServerCancels
<1>2. /\ out'[s] = <<>> /\ client'[s] = FALSE /\ emitted'[s] = e /\ callbacks'[s] = cb
      /\ \A x \in Streams \ {s} : Unseen(x)
  <2>1. out'[s] = <<>> /\ client'[s] = FALSE /\ emitted'[s] = e /\ callbacks'[s] = cb
    BY <1>1, ViewTypes DEF ServerCancels
  <2>2. \A x \in Streams \ {s} : Unseen(x)
    BY ViewTypes DEF ServerCancels, Send, Unseen
  <2>. QED  BY <2>1, <2>2
<1>3. \/ phase'[s] = "closed" /\ frames'[s] = f /\ run'[s] = r /\ queue'[s] = q
      \/ /\ p \in {"waiting", "checking"} /\ phase'[s] = "sending" /\ frames'[s] = Append(f, EndMark)
         /\ Over(r) => run'[s] = r
  BY ViewTypes DEF ServerCancels, Send, RunIsLive, Over
<1>4. ViewOK(f, o, p, FALSE, r, e, q, cb)
  BY <1>1 DEF TranscriptInv, View
<1>. HIDE DEF f, o, p, r, e, q, cb
<1>5. CASE phase'[s] = "closed" /\ frames'[s] = f /\ run'[s] = r /\ queue'[s] = q
  <2>1. ViewOK(f, <<>>, "closed", FALSE, r, e, q, cb)
    BY <1>1, <1>4, StreamIsClosed
  <2>. QED  BY <1>2, <1>5, <2>1, OneViewMoves
<1>6. CASE /\ p \in {"waiting", "checking"} /\ phase'[s] = "sending" /\ frames'[s] = Append(f, EndMark)
           /\ Over(r) => run'[s] = r
  <2>1. ViewOK(Append(f, EndMark), <<>>, "sending", FALSE, run'[s], e, queue'[s], cb)
    BY <1>1, <1>4, <1>6, StreamIsCut
  <2>. QED  BY <1>2, <1>6, <2>1, OneViewMoves
<1>. QED  BY <1>3, <1>5, <1>6

LEMMA NextTranscript == ASSUME TypeOK, CheckInv, TranscriptInv, [Next]_vars PROVE TranscriptInv'
<1>1. CASE UNCHANGED vars
  BY <1>1 DEF vars, stream, background, TranscriptInv, View
<1>2. CASE Next
  <2>1. PICK s \in Streams :
          \/ StreamAI(s) \/ Generators(s) \/ EventSink(s) \/ Background(s) \/ Disconnect(s)
          \/ ServerCancels(s)
    BY <1>2 DEF Next
  <2>. QED  BY <2>1, ArrivalView, BuildChatStreamView, RunView, TakeEventView, CheckingView, ResumeView,
               ServerCancelsView DEF Generators
<1>. QED  BY <1>1, <1>2

\* What the view shows is what the client is promised.
LEMMA ViewTells == ASSUME TypeOK, TranscriptInv PROVE Transcript
<1>. SUFFICES ASSUME NEW s \in Streams
              PROVE  /\ \/ IsPrefix(Shown(frames[s], client[s]), Answered(s))
                        \/ IsPrefix(Shown(frames[s], client[s]), Refused(s))
                     /\ client[s] /\ phase[s] = "closed" => frames[s] \in {Answered(s), Refused(s)}
  BY DEF Transcript, Shown
<1>. DEFINE f == frames[s]
            g == Shown(frames[s], client[s])
            e == emitted[s]
            r == run[s]
<1>1. f \in Seq(Frames) /\ out[s] \in Seq(Frames) /\ e \in Nat
  BY ViewTypes
<1>2. View(s)
  BY DEF TranscriptInv
<1>3. g \in Seq(Frames) /\ Beginning(g, r, e)
  BY <1>1, <1>2, StartsShown, ViewBegins DEF View
<1>4. /\ {RunStarted, DoneFrame, ErrorFrame, EndMark} \subseteq Frames
      /\ Begun(e) \in Seq(Frames) /\ Seen(e) \in Seq(Frames) /\ Answer \in Seq(Frames)
      /\ Full(e) \in Seq(Frames)
  <2>1. /\ Begun(e) \in Seq(Ahead) /\ Answer \in Seq(Ahead) /\ Full(e) \in Seq(Ahead)
        /\ Ahead \subseteq Frames
    BY <1>1, BegunOf, FullOf, Marks
  <2>2. {RunStarted, DoneFrame, ErrorFrame, EndMark} \subseteq Frames
    BY Marks
  <2>3. Begun(e) \in Seq(Frames) /\ Answer \in Seq(Frames) /\ Full(e) \in Seq(Frames)
    BY <2>1
  <2>. QED  BY <1>1, <2>2, <2>3, SeenOf
<1>5. ASSUME NEW t \in Seq(Frames), NEW x \in Frames, NEW y \in Frames
      PROVE  t \o <<x, y>> = Append(Append(t, x), y)
  BY <1>5
<1>6. Answered(s) = Append(Told("answered", e), EndMark)
  <2>1. Answered(s) = Full(e) \o <<DoneFrame, EndMark>>
    BY DEF Answered, Full, Begun
  <2>. QED  BY <1>4, <1>5, <2>1 DEF Told
<1>7. Refused(s) = Append(Told("failed", e), EndMark)
  <2>1. Started(s) = Seen(e)
    BY DEF Started, Seen, Begun
  <2>. QED  BY <1>4, <1>5, <2>1 DEF Refused, Told
<1>8. Answered(s) \in Seq(Frames) /\ Refused(s) \in Seq(Frames)
  BY <1>1, <1>6, <1>7, ToldOf
<1>9. ASSUME NEW t \in Seq(Frames), Starts(g, t) PROVE IsPrefix(g, t)
  <2>1. Len(g) \in 0..Len(t) /\ \A i \in 1..Len(g) : g[i] = t[i]
    BY <1>3, <1>9 DEF Starts
  <2>2. /\ SubSeq(t, 1, Len(g)) \in Seq(Frames) /\ Len(SubSeq(t, 1, Len(g))) = Len(g)
        /\ \A i \in 1..Len(g) : SubSeq(t, 1, Len(g))[i] = t[i]
    BY <1>3, <2>1
  <2>3. SubSeq(t, 1, Len(g)) = g
    BY <1>3, <2>1, <2>2, SeqEqual
  <2>4. SubSeq(g, 1, Len(g)) = g
    BY <1>3, SubSeqFull
  <2>. QED  BY <2>1, <2>3, <2>4 DEF IsPrefix
<1>10. IsPrefix(g, Answered(s)) \/ IsPrefix(g, Refused(s))
  <2>1. CASE Starts(g, Begun(e))
    <3>1. Starts(Begun(e), Full(e)) /\ Answered(s) = Full(e) \o <<DoneFrame, EndMark>>
      BY <1>4, StartsJoined DEF Answered, Full, Begun
    <3>2. <<DoneFrame, EndMark>> \in Seq(Frames)
      BY <1>4
    <3>3. Starts(Full(e), Answered(s))
      BY <1>4, <3>1, <3>2, StartsJoined
    <3>4. Starts(g, Answered(s))
      BY <1>3, <1>4, <1>8, <2>1, <3>1, <3>3, StartsTrans
    <3>. QED  BY <1>8, <1>9, <3>4
  <2>2. CASE Over(r) /\ Starts(g, Append(Told(r, e), EndMark))
    <3>1. Starts(g, Answered(s)) \/ Starts(g, Refused(s))
      BY <1>6, <1>7, <2>2 DEF Over
    <3>. QED  BY <1>8, <1>9, <3>1
  <2>. QED  BY <1>3, <2>1, <2>2 DEF Beginning
<1>11. client[s] /\ phase[s] = "closed" => f \in {Answered(s), Refused(s)}
  BY <1>2, <1>6, <1>7 DEF View, ViewOK, Following, Answering, Ending, CutOff, Over
<1>. QED  BY <1>10, <1>11

\* What a client receives is the beginning of a whole transcript: every milestone of
\* the run in the order of its thread, then the whole answer or the error, and the end
\* mark.  Only a client that is gone sees it cut short.
THEOREM TranscriptsStayWhole == Spec => []Transcript
<1>1. Init => TranscriptInv
  BY InitTranscript
<1>2. IInv /\ TranscriptInv /\ [Next]_vars => TranscriptInv'
  BY NextTranscript DEF IInv
<1>3. IInv /\ TranscriptInv => Transcript
  BY ViewTells DEF IInv
<1>. QED  BY <1>1, <1>2, <1>3, Invariance, PTL DEF Spec

-----------------------------------------------------------------------------
\* No stream goes on for ever.

\* What a run has before it.
RunAhead == [r \in RunStates |->
               CASE r = "none" -> 4 [] r = "preparing" -> 3 [] r = "board" -> 2
                 [] r = "finalizing" -> 1 [] OTHER -> 0]

\* What the generators have before them at phase p, when x is the last frame.
PhaseAhead(p, x) ==
  CASE p = "new" -> 5
    [] p = "starting" -> 4
    [] p = "sending" /\ x \in {DoneFrame, ErrorFrame} -> 2
    [] p = "sending" /\ x = EndMark -> 1
    [] p \in {"rejected", "closed"} -> 0
    [] OTHER -> 3

\* What a stream has still before it, what weighs most first: its run, milestones, the
\* end of the thread, calls of the event loop, items in the queue, the client, the end of
\* the transcript, events to send, the frame that the server sends.
Remaining(s) ==
  << RunAhead[run[s]],
     MaxMilestones[s] - emitted[s],
     IF ThreadWorks(s) THEN 1 ELSE 0,
     Len(callbacks[s]),
     Len(queue[s]),
     IF client[s] THEN 1 ELSE 0,
     PhaseAhead(phase[s], LastFrame(s)),
     Len(out[s]),
     IF phase[s] = "sending" THEN 1 ELSE 0 >>

Shorter == LexProductOrdering(OpToRel(<, Nat), Nat, 9)

RemainingOK == \A s \in Streams : Remaining(s) \in [1..9 -> Nat]

LEMMA NineNumbers ==
  ASSUME NEW a \in Nat, NEW b \in Nat, NEW c \in Nat, NEW d \in Nat, NEW e \in Nat,
         NEW f \in Nat, NEW g \in Nat, NEW h \in Nat, NEW i \in Nat
  PROVE  <<a, b, c, d, e, f, g, h, i>> \in [1..9 -> Nat]
OBVIOUS

\* Each place is a number.
LEMMA RemainingType == ASSUME TypeOK PROVE RemainingOK
<1>. SUFFICES ASSUME NEW s \in Streams PROVE Remaining(s) \in [1..9 -> Nat]
  BY DEF RemainingOK
<1>1. RunAhead[run[s]] \in Nat
  BY DEF TypeOK, RunStates, RunAhead
<1>2. MaxMilestones[s] - emitted[s] \in Nat
  <2>1. MaxMilestones[s] \in Nat /\ emitted[s] \in Nat /\ emitted[s] <= MaxMilestones[s]
    BY ChatAssumption DEF TypeOK
  <2>. QED  BY <2>1
<1>3. Len(callbacks[s]) \in Nat /\ Len(queue[s]) \in Nat /\ Len(out[s]) \in Nat
  BY DEF TypeOK
<1>4. PhaseAhead(phase[s], LastFrame(s)) \in Nat
  BY DEF PhaseAhead
<1>5. /\ (IF ThreadWorks(s) THEN 1 ELSE 0) \in Nat
      /\ (IF client[s] THEN 1 ELSE 0) \in Nat
      /\ (IF phase[s] = "sending" THEN 1 ELSE 0) \in Nat
  OBVIOUS
<1>. QED  BY <1>1, <1>2, <1>3, <1>4, <1>5, NineNumbers DEF Remaining

\* Less at one place, the same before it.
Falls(s, k) ==
  Remaining(s)'[k] < Remaining(s)[k] /\ \A j \in 1..(k - 1) : Remaining(s)'[j] = Remaining(s)[j]

LEMMA FallsShorten ==
  ASSUME RemainingOK, RemainingOK', NEW s \in Streams, NEW k \in 1..9, Falls(s, k)
  PROVE  <<Remaining(s)', Remaining(s)>> \in Shorter
<1>1. Remaining(s) \in [1..9 -> Nat] /\ Remaining(s)' \in [1..9 -> Nat]
  BY DEF RemainingOK
<1>2. <<Remaining(s)'[k], Remaining(s)[k]>> \in OpToRel(<, Nat)
  BY <1>1 DEF OpToRel, Falls
<1>. QED  BY <1>1, <1>2 DEF Shorter, LexProductOrdering, Falls

\* As long as nothing changes but the stream, it decides.
LEMMA StreamDecides ==
  ASSUME NEW s \in Streams, UNCHANGED background, client'[s] = client[s]
  PROVE  \A j \in 1..6 : Remaining(s)'[j] = Remaining(s)[j]
<1>1. ThreadWorks(s)' <=> ThreadWorks(s)
  BY DEF background, ThreadWorks
<1>2. run' = run /\ emitted' = emitted /\ callbacks' = callbacks /\ queue' = queue
  BY DEF background
<1>3. /\ Remaining(s)'[1] = Remaining(s)[1] /\ Remaining(s)'[2] = Remaining(s)[2]
      /\ Remaining(s)'[3] = Remaining(s)[3] /\ Remaining(s)'[4] = Remaining(s)[4]
      /\ Remaining(s)'[5] = Remaining(s)[5] /\ Remaining(s)'[6] = Remaining(s)[6]
  BY <1>1, <1>2 DEF Remaining
<1>. QED  BY <1>3

\* The request, and the generators up to their first wait.
LEMMA ArrivalFalls ==
  ASSUME IInv, TranscriptInv, NEW s \in Streams, StreamAI(s) \/ BuildChatStream(s)
  PROVE  \E k \in 1..9 : Falls(s, k)
<1>1. CASE StreamAI(s)
  <2>1. /\ phase[s] = "new" /\ phase'[s] \in {"starting", "rejected"}
        /\ UNCHANGED <<run, emitted, callbacks, queue, client, frames>>
    BY <1>1, ViewTypes DEF StreamAI, background, IInv
  <2>2. PhaseAhead(phase'[s], LastFrame(s)') < PhaseAhead(phase[s], LastFrame(s))
    BY <2>1 DEF PhaseAhead
  <2>3. Remaining(s)'[7] < Remaining(s)[7]
    BY <2>2 DEF Remaining
  <2>4. \A j \in 1..(7 - 1) : Remaining(s)'[j] = Remaining(s)[j]
    BY <2>1, StreamDecides DEF background
  <2>. QED  BY <2>3, <2>4 DEF Falls
<1>2. CASE BuildChatStream(s)
  <2>1. phase[s] = "starting" /\ run'[s] = "preparing"
    BY <1>2, ViewTypes DEF BuildChatStream, Go, IInv
  <2>2. run[s] = "none"
    BY <2>1, ViewByPhase DEF TranscriptInv, View, Following
  <2>3. Remaining(s)'[1] < Remaining(s)[1]
    BY <2>1, <2>2 DEF Remaining, RunAhead, RunStates
  <2>. QED  BY <2>3 DEF Falls
<1>. QED  BY <1>1, <1>2

\* The run in the background.
LEMMA RunFalls ==
  ASSUME IInv, NEW s \in Streams, EventSink(s) \/ Background(s)
  PROVE  \E k \in 1..9 : Falls(s, k)
<1>0. /\ run[s] \in RunStates /\ emitted[s] \in Nat /\ MaxMilestones[s] \in Nat
      /\ DOMAIN run = Streams /\ DOMAIN emitted = Streams /\ DOMAIN callbacks = Streams
      /\ callbacks[s] \in Seq(Items)
  BY ViewTypes, ChatAssumption DEF IInv, TypeOK, Items
<1>1. ASSUME RunAhead[run'[s]] < RunAhead[run[s]] PROVE Falls(s, 1)
  BY <1>1 DEF Falls, Remaining
<1>2. CASE StartBoard(s)
  BY <1>0, <1>1, <1>2 DEF StartBoard, RunAhead, RunStates
<1>3. CASE EventSink(s)
  <2>1. run' = run /\ emitted'[s] = emitted[s] + 1
    BY <1>0, <1>3 DEF EventSink
  <2>2. Remaining(s)'[1] = Remaining(s)[1] /\ Remaining(s)'[2] < Remaining(s)[2]
    BY <1>0, <2>1 DEF Remaining
  <2>3. \A j \in 1..(2 - 1) : Remaining(s)'[j] = Remaining(s)[j]
    BY <2>2
  <2>. QED  BY <2>2, <2>3 DEF Falls
<1>4. CASE BoardEnds(s)
  <2>1. /\ ThreadWorks(s) /\ run' = run /\ emitted' = emitted
        /\ callbacks'[s] = Append(callbacks[s], Sentinel)
    BY <1>0, <1>4 DEF BoardEnds, BehindEvents
  <2>2. ~ThreadWorks(s)'
    <3>1. /\ Len(callbacks[s]) + 1 \in DOMAIN callbacks'[s]
          /\ callbacks'[s][Len(callbacks[s]) + 1] = Sentinel
      BY <1>0, <2>1, AppendBehind
    <3>. QED  BY <3>1 DEF ThreadWorks
  <2>3. /\ Remaining(s)'[1] = Remaining(s)[1] /\ Remaining(s)'[2] = Remaining(s)[2]
        /\ Remaining(s)'[3] < Remaining(s)[3]
    BY <2>1, <2>2 DEF Remaining
  <2>4. \A j \in 1..(3 - 1) : Remaining(s)'[j] = Remaining(s)[j]
    BY <2>3
  <2>. QED  BY <2>3, <2>4 DEF Falls
<1>5. CASE EventLoop(s)
  <2>1. callbacks[s] # <<>> /\ callbacks'[s] = Tail(callbacks[s]) /\ emitted' = emitted
    BY <1>0, <1>5 DEF EventLoop
  <2>2. CASE Head(callbacks[s]) = Sentinel /\ run[s] = "board"
    <3>1. run'[s] = "finalizing"
      BY <1>0, <1>5, <2>2 DEF EventLoop
    <3>. QED  BY <1>1, <2>2, <3>1 DEF RunAhead, RunStates
  <2>3. CASE ~(Head(callbacks[s]) = Sentinel /\ run[s] = "board")
    <3>1. run'[s] = run[s]
      BY <1>0, <1>5, <2>3 DEF EventLoop
    <3>2. /\ Len(Tail(callbacks[s])) < Len(callbacks[s])
          /\ callbacks[s][1] = Head(callbacks[s])
          /\ DOMAIN callbacks[s] = 1..Len(callbacks[s])
          /\ DOMAIN Tail(callbacks[s]) = 1..(Len(callbacks[s]) - 1)
          /\ \A i \in 1..(Len(callbacks[s]) - 1) : Tail(callbacks[s])[i] = callbacks[s][i + 1]
          /\ Len(callbacks[s]) \in Nat
      BY <1>0, <2>1
    <3>3. ASSUME run[s] = "board"
          PROVE  (\A i \in DOMAIN callbacks[s] : callbacks[s][i] # Sentinel)
                   <=> (\A i \in DOMAIN callbacks'[s] : callbacks'[s][i] # Sentinel)
      <4>1. callbacks[s][1] # Sentinel
        BY <2>3, <3>2, <3>3
      <4>2. ASSUME NEW i \in DOMAIN callbacks[s], callbacks[s][i] = Sentinel
            PROVE  \E j \in DOMAIN callbacks'[s] : callbacks'[s][j] = Sentinel
        <5>1. i - 1 \in 1..(Len(callbacks[s]) - 1) /\ (i - 1) + 1 = i
          BY <3>2, <4>1, <4>2
        <5>. QED  BY <2>1, <3>2, <4>2, <5>1
      <4>3. ASSUME NEW i \in DOMAIN callbacks'[s], callbacks'[s][i] = Sentinel
            PROVE  \E j \in DOMAIN callbacks[s] : callbacks[s][j] = Sentinel
        <5>1. i + 1 \in DOMAIN callbacks[s]
          BY <2>1, <3>2
        <5>. QED  BY <2>1, <3>2, <4>3, <5>1
      <4>. QED  BY <4>2, <4>3
    <3>4. ThreadWorks(s)' <=> ThreadWorks(s)
      BY <3>1, <3>3 DEF ThreadWorks
    <3>5. /\ Remaining(s)'[1] = Remaining(s)[1] /\ Remaining(s)'[2] = Remaining(s)[2]
          /\ Remaining(s)'[3] = Remaining(s)[3] /\ Remaining(s)'[4] < Remaining(s)[4]
      BY <2>1, <3>1, <3>2, <3>4 DEF Remaining
    <3>6. \A j \in 1..(4 - 1) : Remaining(s)'[j] = Remaining(s)[j]
      BY <3>5
    <3>. QED  BY <3>5, <3>6 DEF Falls
  <2>. QED  BY <2>2, <2>3
<1>6. CASE EndRun(s)
  <2>1. run[s] \in {"preparing", "finalizing"} /\ run'[s] \in {"answered", "failed"}
    BY <1>0, <1>6 DEF EndRun
  <2>. QED  BY <1>1, <2>1 DEF RunAhead, RunStates
<1>. QED  BY <1>2, <1>3, <1>4, <1>5, <1>6 DEF Background

\* The end mark is another frame than the ones before it.
LEMMA EndMarkIsLast == EndMark \notin {DoneFrame, ErrorFrame}
BY Marks

\* The generators.
LEMMA GeneratorsFall ==
  ASSUME IInv, TranscriptInv, NEW s \in Streams,
         TakeEvent(s) \/ Connected(s) \/ Disconnected(s) \/ Resume(s)
  PROVE  \E k \in 1..9 : Falls(s, k)
<1>0. /\ frames[s] \in Seq(Frames) /\ out[s] \in Seq(Frames)
      /\ DOMAIN frames = Streams /\ DOMAIN out = Streams /\ DOMAIN queue = Streams
      /\ DOMAIN phase = Streams /\ queue[s] \in Seq(Items)
      /\ phase[s] \in Phases
  BY ViewTypes DEF IInv, Items
<1>. DEFINE before == PhaseAhead(phase[s], LastFrame(s))
            after == PhaseAhead(phase'[s], LastFrame(s)')
<1>1. ASSUME UNCHANGED background, client'[s] = client[s], after < before
      PROVE  Falls(s, 7)
  <2>1. Remaining(s)'[7] < Remaining(s)[7]
    BY <1>1 DEF Remaining
  <2>2. \A j \in 1..(7 - 1) : Remaining(s)'[j] = Remaining(s)[j]
    BY <1>1, StreamDecides
  <2>. QED  BY <2>1, <2>2 DEF Falls
<1>3. CASE TakeEvent(s)
  <2>1. /\ queue[s] # <<>> /\ queue'[s] = Tail(queue[s])
        /\ UNCHANGED <<run, emitted, callbacks>>
    BY <1>0, <1>3 DEF TakeEvent
  <2>2. Len(queue'[s]) < Len(queue[s])
    BY <1>0, <2>1
  <2>3. Remaining(s)'[5] < Remaining(s)[5]
    BY <2>2 DEF Remaining
  <2>4. \A j \in 1..(5 - 1) : Remaining(s)'[j] = Remaining(s)[j]
    BY <2>1 DEF Remaining, ThreadWorks
  <2>. QED  BY <2>3, <2>4 DEF Falls
<1>4. CASE Connected(s)
  <2>1. /\ UNCHANGED background /\ client' = client
        /\ phase[s] = "checking" /\ phase'[s] = "sending"
        /\ out[s] # <<>> /\ out'[s] = Tail(out[s])
    BY <1>0, <1>4 DEF Connected, Go, IInv, CheckInv
  <2>2. after \in {1, 2, 3} /\ before = 3
    BY <2>1 DEF PhaseAhead
  <2>3. CASE after = 3
    <3>1. Len(out'[s]) < Len(out[s])
      BY <1>0, <2>1
    <3>2. Remaining(s)'[7] = Remaining(s)[7] /\ Remaining(s)'[8] < Remaining(s)[8]
      BY <2>2, <2>3, <3>1 DEF Remaining
    <3>3. \A j \in 1..(8 - 1) : Remaining(s)'[j] = Remaining(s)[j]
      BY <2>1, <3>2, StreamDecides
    <3>. QED  BY <3>2, <3>3 DEF Falls
  <2>. QED  BY <1>1, <2>1, <2>2, <2>3
<1>5. CASE Disconnected(s)
  <2>1. /\ UNCHANGED background /\ client' = client
        /\ phase[s] = "checking" /\ phase'[s] = "sending"
    BY <1>0, <1>5 DEF Disconnected, Go
  <2>2. LastFrame(s)' = EndMark
    BY <1>5, StreamTypes, SendAdds DEF Disconnected, IInv
  <2>3. after = 1 /\ before = 3
    BY <2>1, <2>2, EndMarkIsLast DEF PhaseAhead
  <2>. QED  BY <1>1, <2>1, <2>3
<1>6. CASE Resume(s)
  <2>1. UNCHANGED background /\ client' = client /\ out' = out /\ phase[s] = "sending"
    BY <1>6 DEF Resume
  <2>2. CASE LastFrame(s) = EndMark /\ phase'[s] = "closed"
    <3>1. after = 0 /\ before = 1
      BY <2>1, <2>2, EndMarkIsLast DEF PhaseAhead
    <3>. QED  BY <1>1, <2>1, <3>1
  <2>3. CASE LastFrame(s) \in {DoneFrame, ErrorFrame} /\ Send(s, EndMark) /\ phase' = phase
    <3>1. LastFrame(s)' = EndMark
      BY <2>3, StreamTypes, SendAdds DEF IInv
    <3>2. after = 1 /\ before = 2
      BY <2>1, <2>3, <3>1, EndMarkIsLast DEF PhaseAhead
    <3>. QED  BY <1>1, <2>1, <3>2
  <2>4. CASE LastFrame(s) = <<"chunk", Chunks>> /\ Send(s, DoneFrame) /\ phase' = phase
    <3>1. LastFrame(s)' = DoneFrame
      BY <2>4, StreamTypes, SendAdds DEF IInv
    <3>2. LastFrame(s) \notin {DoneFrame, ErrorFrame, EndMark}
      BY <2>4, Marks
    <3>3. after = 2 /\ before = 3
      BY <2>1, <2>4, <3>1, <3>2, EndMarkIsLast DEF PhaseAhead
    <3>. QED  BY <1>1, <2>1, <3>3
  <2>5. CASE /\ frames' = frames /\ phase'[s] \in {"checking", "waiting"}
             /\ LastFrame(s) \notin {DoneFrame, ErrorFrame, EndMark}
    <3>1. after = 3 /\ before = 3
      BY <2>1, <2>5 DEF PhaseAhead
    <3>2. /\ Remaining(s)'[7] = Remaining(s)[7] /\ Remaining(s)'[8] = Remaining(s)[8]
          /\ Remaining(s)'[9] < Remaining(s)[9]
      BY <2>1, <2>5, <3>1 DEF Remaining
    <3>3. \A j \in 1..(9 - 1) : Remaining(s)'[j] = Remaining(s)[j]
      BY <2>1, <3>2, StreamDecides
    <3>. QED  BY <3>2, <3>3 DEF Falls
  <2>6. out[s] # <<>> => LastFrame(s) \notin {DoneFrame, ErrorFrame, EndMark}
    <3>1. ViewOK(frames[s], out[s], "sending", client[s], run[s], emitted[s], queue[s], callbacks[s])
      BY <2>1 DEF TranscriptInv, View
    <3>2. emitted[s] \in Nat
      BY ViewTypes DEF IInv
    <3>. QED  BY <1>0, <3>1, <3>2, ViewByFrame DEF LastFrame, Ending, CutOff
  <2>7. LastFrame(s) \in Milestones => LastFrame(s) \notin {DoneFrame, ErrorFrame, EndMark}
    BY Marks
  <2>8. \/ LastFrame(s) = EndMark /\ phase'[s] = "closed"
        \/ LastFrame(s) \in {DoneFrame, ErrorFrame} /\ Send(s, EndMark) /\ phase' = phase
        \/ out[s] # <<>> /\ phase'[s] = "checking" /\ frames' = frames
        \/ LastFrame(s) \in Milestones /\ phase'[s] = "waiting" /\ frames' = frames
        \/ LastFrame(s) = <<"chunk", Chunks>> /\ Send(s, DoneFrame) /\ phase' = phase
    BY <1>0, <1>6 DEF Resume
  <2>. QED  BY <2>2, <2>3, <2>4, <2>5, <2>6, <2>7, <2>8
<1>. QED  BY <1>3, <1>4, <1>5, <1>6

\* The client leaves, and the server cancels what it waits for.
LEMMA LeavingFalls ==
  ASSUME IInv, NEW s \in Streams, Disconnect(s) \/ ServerCancels(s)
  PROVE  \E k \in 1..9 : Falls(s, k)
<1>0. /\ DOMAIN client = Streams /\ DOMAIN phase = Streams /\ DOMAIN run = Streams
      /\ run[s] \in RunStates
  BY ViewTypes DEF IInv
<1>1. CASE Disconnect(s)
  <2>1. /\ UNCHANGED background /\ client[s] /\ ~client'[s]
    BY <1>0, <1>1 DEF Disconnect
  <2>2. ThreadWorks(s)' <=> ThreadWorks(s)
    BY <2>1 DEF background, ThreadWorks
  <2>3. Remaining(s)'[6] < Remaining(s)[6]
    BY <2>1 DEF Remaining
  <2>4. /\ Remaining(s)'[1] = Remaining(s)[1] /\ Remaining(s)'[2] = Remaining(s)[2]
        /\ Remaining(s)'[3] = Remaining(s)[3] /\ Remaining(s)'[4] = Remaining(s)[4]
        /\ Remaining(s)'[5] = Remaining(s)[5]
    BY <2>1, <2>2 DEF background, Remaining
  <2>5. \A j \in 1..(6 - 1) : Remaining(s)'[j] = Remaining(s)[j]
    BY <2>4
  <2>. QED  BY <2>3, <2>5 DEF Falls
<1>2. CASE ServerCancels(s)
  <2>1. client' = client /\ emitted' = emitted /\ callbacks' = callbacks
    BY <1>2 DEF ServerCancels
  <2>2. CASE RunIsLive(s) /\ run'[s] = "cancelled"
    <3>1. Remaining(s)'[1] < Remaining(s)[1]
      BY <2>2 DEF Remaining, RunAhead, RunStates, RunIsLive
    <3>. QED  BY <3>1 DEF Falls
  <2>3. CASE UNCHANGED <<run, queue>>
    <3>1. UNCHANGED background
      BY <2>1, <2>3 DEF background
    <3>2. PhaseAhead(phase'[s], LastFrame(s)') < PhaseAhead(phase[s], LastFrame(s))
      <4>1. CASE phase[s] \in {"starting", "sending"} /\ phase'[s] = "closed"
        BY <4>1, EndMarkIsLast DEF PhaseAhead
      <4>2. CASE /\ phase[s] \in {"waiting", "checking"} /\ phase'[s] = "sending"
                 /\ Send(s, EndMark)
        <5>1. LastFrame(s)' = EndMark
          BY <4>2, StreamTypes, SendAdds DEF IInv
        <5>. QED  BY <4>2, <5>1, EndMarkIsLast DEF PhaseAhead
      <4>. QED  BY <1>0, <1>2, <4>1, <4>2 DEF ServerCancels
    <3>3. Remaining(s)'[7] < Remaining(s)[7]
      BY <3>2 DEF Remaining
    <3>4. \A j \in 1..(7 - 1) : Remaining(s)'[j] = Remaining(s)[j]
      BY <2>1, <3>1, StreamDecides
    <3>. QED  BY <3>3, <3>4 DEF Falls
  <2>. QED  BY <1>0, <1>2, <2>2, <2>3 DEF ServerCancels
<1>. QED  BY <1>1, <1>2

\* What is done for the stream s, by whomever.
Serves(s) ==
  StreamAI(s) \/ Generators(s) \/ EventSink(s) \/ Background(s) \/ Disconnect(s) \/ ServerCancels(s)

LEMMA ServedFalls ==
  ASSUME IInv, TranscriptInv, RemainingOK, RemainingOK', NEW s \in Streams, Serves(s)
  PROVE  <<Remaining(s)', Remaining(s)>> \in Shorter
<1>1. \E k \in 1..9 : Falls(s, k)
  BY ArrivalFalls, RunFalls, GeneratorsFall, LeavingFalls DEF Serves, Generators
<1>. QED  BY <1>1, FallsShorten

\* What is done for one stream leaves the others where they are.
LEMMA OthersStay ==
  ASSUME IInv, NEW q \in Streams, Serves(q), NEW s \in Streams, s # q
  PROVE  Remaining(s)' = Remaining(s)
<1>1. Unseen(s)
  <2>0. /\ DOMAIN frames = Streams /\ DOMAIN out = Streams /\ DOMAIN phase = Streams
        /\ DOMAIN client = Streams /\ DOMAIN run = Streams /\ DOMAIN emitted = Streams
        /\ DOMAIN queue = Streams /\ DOMAIN callbacks = Streams
    BY ViewTypes DEF IInv
  <2>1. CASE StreamAI(q) \/ BuildChatStream(q) \/ Disconnect(q)
    BY <2>0, <2>1 DEF StreamAI, BuildChatStream, Disconnect, Go, Unseen, background
  <2>2. CASE EventSink(q) \/ StartBoard(q) \/ BoardEnds(q) \/ EventLoop(q) \/ EndRun(q)
    BY <2>0, <2>2 DEF EventSink, StartBoard, BoardEnds, EventLoop, EndRun, Unseen, stream
  <2>3. CASE TakeEvent(q)
    BY <2>0, <2>3 DEF TakeEvent, Send, Unseen
  <2>4. CASE Connected(q) \/ Disconnected(q)
    BY <2>0, <2>4 DEF Connected, Disconnected, Go, Send, Unseen, background
  <2>5. CASE Resume(q)
    BY <2>0, <2>5 DEF Resume, Send, Unseen, background
  <2>6. CASE ServerCancels(q)
    BY <2>0, <2>6 DEF ServerCancels, Send, Unseen
  <2>. QED  BY <2>1, <2>2, <2>3, <2>4, <2>5, <2>6 DEF Serves, Generators, Background
<1>2. ThreadWorks(s)' <=> ThreadWorks(s)
  BY <1>1 DEF Unseen, ThreadWorks
<1>3. LastFrame(s)' = LastFrame(s)
  BY <1>1 DEF Unseen, LastFrame
<1>. QED  BY <1>1, <1>2, <1>3 DEF Unseen, Remaining

\* Every step that is made for a stream, by the event loop, a thread, the server or the
\* client, brings it nearer to its end, in an order in which nothing falls for ever,
\* wherever the run fails and whenever the client goes away; no other stream sets it
\* back.
THEOREM StreamsRunDown ==
  /\ IsWellFoundedOn(Shorter, [1..9 -> Nat])
  /\ Spec => [][\A s \in Streams :
                  /\ Remaining(s) \in [1..9 -> Nat]
                  /\ IF Serves(s) THEN <<Remaining(s)', Remaining(s)>> \in Shorter
                                  ELSE Remaining(s)' = Remaining(s)]_vars
<1>1. IsWellFoundedOn(Shorter, [1..9 -> Nat])
  BY NatLessThanWellFounded, WFLexProductOrdering DEF Shorter
<1>2. Init => TranscriptInv
  BY InitTranscript
<1>3. IInv /\ TranscriptInv /\ [Next]_vars => TranscriptInv'
  BY NextTranscript DEF IInv
<1>4. IInv => RemainingOK
  BY RemainingType DEF IInv
<1>5. ASSUME IInv, TranscriptInv, RemainingOK, RemainingOK', [Next]_vars
      PROVE  [\A s \in Streams :
                  /\ Remaining(s) \in [1..9 -> Nat]
                  /\ IF Serves(s) THEN <<Remaining(s)', Remaining(s)>> \in Shorter
                                  ELSE Remaining(s)' = Remaining(s)]_vars
  <2>1. Next => \E q \in Streams : Serves(q)
    BY DEF Next, Serves
  <2>. QED  BY <1>5, <2>1, ServedFalls, OthersStay DEF RemainingOK
<1>6. Spec => [][\A s \in Streams :
                  /\ Remaining(s) \in [1..9 -> Nat]
                  /\ IF Serves(s) THEN <<Remaining(s)', Remaining(s)>> \in Shorter
                                  ELSE Remaining(s)' = Remaining(s)]_vars
  BY <1>2, <1>3, <1>4, <1>5, Invariance, PTL DEF Spec
<1>. QED  BY <1>1, <1>6
=============================================================================
