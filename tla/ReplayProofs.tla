---------------------------- MODULE ReplayProofs -----------------------------
(***************************************************************************)
(* A lemma about the operators of the model: the closed form of the view   *)
(* is what the client computes by replaying the mutations one by one, for  *)
(* any documents and any queue.  It says nothing of the actions; it is why *)
(* the rest of the project may speak of View alone.  The fold is a         *)
(* recursive function on the sets of indices, so there is one function     *)
(* that satisfies its equation (the closed form, RecursionHolds), and any  *)
(* other agrees with it on the prefixes of the queue (the least prefix     *)
(* where it does not would contradict the equation).                       *)
(***************************************************************************)
EXTENDS FirestoreSyncProofs

\* The documents of base after the mutations of q, applied one by one, as
\* LocalDocumentsView::GetDocument does.
Replay(base, q) == FoldLeft(LAMBDA documents, m : ApplyTo(m, documents), base, q)

\* The view with only the mutations whose indices are in s.
Those(q, s, c) == {i \in s : q[i].cell = c}

ViewOf(base, q, s) ==
    [c \in Cells |->
        IF /\ Those(q, s, c) # {}
           /\ base[c] \in Vals \/ \E i \in Those(q, s, c) : q[i].op = "set"
        THEN q[Max(Those(q, s, c))].val
        ELSE base[c]]

\* The equation of the fold: the last of the mutations is applied after the others.
FoldStep(f, base, q, s) == IF s = {} THEN base ELSE ApplyTo(q[Max(s)], f[s \ {Max(s)}])

IsReplay(f, base, q) == f = [s \in SUBSET (DOMAIN q) |-> FoldStep(f, base, q, s)]

LEMMA ReplayIsChosen ==
    ASSUME NEW base, NEW q
    PROVE  Replay(base, q) = (CHOOSE f : IsReplay(f, base, q))[DOMAIN q]
BY DEF Replay, FoldLeft, MapThenFoldSet, IsReplay, FoldStep

LEMMA MaxIsGreatest ==
    ASSUME NEW n \in Nat, NEW S \in SUBSET (1 .. n), NEW i \in S, \A j \in S : j <= i
    PROVE  Max(S) = i
<1>1. Max(S) \in S /\ \A j \in S : j <= Max(S)
  <2>1. S # {}
    OBVIOUS
  <2> QED
    BY <2>1, MaxOfIndices
<1>2. i \in Nat /\ Max(S) \in Nat /\ i <= Max(S) /\ Max(S) <= i
  <2>1. i \in 1 .. n /\ Max(S) \in 1 .. n
    BY <1>1
  <2> QED
    BY <1>1, <2>1
<1> QED
  BY <1>2

\* One mutation changes the view of its own cell, if it applies.
LEMMA ViewOfStep ==
    ASSUME NEW q \in Seq(Mutations), NEW base \in [Cells -> Results],
           NEW s \in SUBSET (DOMAIN q), s # {}
    PROVE  ViewOf(base, q, s) = ApplyTo(q[Max(s)], ViewOf(base, q, s \ {Max(s)}))
<1> DEFINE k == Max(s)
           t == s \ {k}
           m == q[k]
           old == ViewOf(base, q, t)
<1>1. PICK n \in Nat : DOMAIN q = 1 .. n /\ \A i \in 1 .. n : q[i] \in Mutations
  BY LenProperties, ElementOfSeq
<1>2. k \in s /\ (\A j \in s : j <= k) /\ k \in 1 .. n
  BY <1>1, MaxOfIndices
<1>3. /\ m \in Mutations /\ m.cell \in Cells /\ m.val \in Vals /\ m.op \in {"set", "update"}
  BY <1>1, <1>2 DEF Mutations
<1> HIDE DEF k
<1>4. ASSUME NEW c \in Cells, c # m.cell
      PROVE  ViewOf(base, q, s)[c] = old[c]
  <2>1. Those(q, s, c) = Those(q, t, c)
    BY <1>4 DEF Those
  <2> QED
    BY <2>1 DEF ViewOf
<1>5. ASSUME NEW c \in Cells, c = m.cell
      PROVE  /\ ViewOf(base, q, s)[c] = IF Applies(m, old) THEN m.val ELSE base[c]
             /\ ~Applies(m, old) => old[c] = base[c]
  <2>1. Those(q, s, c) = Those(q, t, c) \cup {k} /\ Those(q, s, c) \in SUBSET (1 .. n)
    BY <1>1, <1>2, <1>5 DEF Those
  <2>2. Max(Those(q, s, c)) = k
    <3>1. \A j \in Those(q, s, c) : j <= k
      BY <1>2 DEF Those
    <3> QED
      BY <2>1, <3>1, MaxIsGreatest
  <2>3. ViewOf(base, q, s)[c] =
            IF base[c] \in Vals \/ \E i \in Those(q, t, c) \cup {k} : q[i].op = "set"
            THEN m.val ELSE base[c]
    BY <2>1, <2>2 DEF ViewOf
  <2>4. old[c] \in Vals <=> base[c] \in Vals \/ \E i \in Those(q, t, c) : q[i].op = "set"
    <3>1. CASE Those(q, t, c) = {}
      BY <3>1 DEF ViewOf
    <3>2. CASE Those(q, t, c) # {}
      <4>1. Those(q, t, c) \in SUBSET (1 .. n)
        BY <1>1 DEF Those
      <4>2. Max(Those(q, t, c)) \in 1 .. n
        BY <3>2, <4>1, MaxOfIndices
      <4>3. q[Max(Those(q, t, c))].val \in Vals
        BY <4>2, <1>1 DEF Mutations
      <4> QED
        BY <3>2, <4>3 DEF ViewOf
    <3> QED
      BY <3>1, <3>2
  <2>5. ~(base[c] \in Vals \/ \E i \in Those(q, t, c) : q[i].op = "set") => old[c] = base[c]
    BY DEF ViewOf
  <2> QED
    BY <2>3, <2>4, <2>5, <1>5 DEF Applies
<1> DEFINE new == ViewOf(base, q, s)
<1>6. new = [c \in Cells |-> new[c]] /\ old = [c \in Cells |-> old[c]]
  BY DEF ViewOf
<1> HIDE DEF m, old, new
<1>7. new = ApplyTo(m, old)
  <2>1. CASE Applies(m, old)
    <3>1. ApplyTo(m, old) = [c \in Cells |-> IF c = m.cell THEN m.val ELSE old[c]]
      BY <1>6, <2>1 DEF ApplyTo
    <3>2. \A c \in Cells : new[c] = IF c = m.cell THEN m.val ELSE old[c]
      BY <1>4, <1>5, <2>1 DEF new
    <3> QED
      BY <1>6, <3>1, <3>2
  <2>2. CASE ~Applies(m, old)
    <3>1. ApplyTo(m, old) = old
      BY <2>2 DEF ApplyTo
    <3>2. \A c \in Cells : new[c] = old[c]
      BY <1>4, <1>5, <2>2 DEF new
    <3> QED
      BY <1>6, <3>1, <3>2
  <2> QED
    BY <2>1, <2>2
<1> QED
  BY <1>7 DEF k, m, old, new

\* The closed form satisfies the equation of the fold.
LEMMA RecursionHolds ==
    ASSUME NEW q \in Seq(Mutations), NEW base \in [Cells -> Results]
    PROVE  \E f : IsReplay(f, base, q)
<1> DEFINE f == [s \in SUBSET (DOMAIN q) |-> ViewOf(base, q, s)]
<1>1. ASSUME NEW s \in SUBSET (DOMAIN q)
      PROVE  f[s] = FoldStep(f, base, q, s)
  <2>1. CASE s = {}
    <3>1. ViewOf(base, q, s) = base
      BY <2>1 DEF ViewOf, Those
    <3> QED
      BY <2>1, <3>1 DEF FoldStep
  <2>2. CASE s # {}
    <3>1. s \ {Max(s)} \in SUBSET (DOMAIN q)
      OBVIOUS
    <3>2. ViewOf(base, q, s) = ApplyTo(q[Max(s)], ViewOf(base, q, s \ {Max(s)}))
      BY <2>2, ViewOfStep
    <3> QED
      BY <2>2, <3>1, <3>2 DEF FoldStep
  <2> QED
    BY <2>1, <2>2
<1>2. f = [s \in SUBSET (DOMAIN q) |-> FoldStep(f, base, q, s)]
  <2>1. f = [s \in SUBSET (DOMAIN q) |-> f[s]]
    OBVIOUS
  <2> HIDE DEF f
  <2> QED
    BY <1>1, <2>1
<1> HIDE DEF f
<1> QED
  BY <1>2 DEF IsReplay

\* Whatever satisfies the equation is the closed form on every prefix of the queue.
LEMMA ReplayOfPrefix ==
    ASSUME NEW q \in Seq(Mutations), NEW base \in [Cells -> Results],
           NEW f, IsReplay(f, base, q)
    PROVE  \A n \in 0 .. Len(q) : f[1 .. n] = ViewOf(base, q, 1 .. n)
<1> DEFINE Wrong == {n \in 0 .. Len(q) : f[1 .. n] # ViewOf(base, q, 1 .. n)}
<1>1. Len(q) \in Nat /\ DOMAIN q = 1 .. Len(q)
  BY LenProperties
<1>2. SUFFICES ASSUME Wrong # {} PROVE FALSE
  OBVIOUS
<1>3. PICK n \in Wrong : \A k \in Wrong : <<k, n>> \notin Less
  <2>1. Wrong \in SUBSET Nat
    BY <1>1
  <2> HIDE DEF Wrong
  <2> QED
    BY <1>2, <2>1, WFMin, LessIsWellFounded
<1>4. n \in Nat /\ n <= Len(q) /\ 1 .. n \in SUBSET (DOMAIN q)
  BY <1>1
<1>5. f[1 .. n] = FoldStep(f, base, q, 1 .. n)
  BY <1>4 DEF IsReplay
<1>6. CASE n = 0
  <2>1. 1 .. n = {}
    BY <1>6
  <2>2. ViewOf(base, q, 1 .. n) = base
    BY <2>1 DEF ViewOf, Those
  <2>3. f[1 .. n] = base
    BY <1>5, <2>1 DEF FoldStep
  <2> QED
    BY <2>2, <2>3
<1>7. CASE n # 0
  <2>1. n \in 1 .. n /\ \A j \in 1 .. n : j <= n
    BY <1>4, <1>7
  <2>2. Max(1 .. n) = n
    BY <1>4, <2>1, MaxIsGreatest
  <2>3. (1 .. n) \ {n} = 1 .. n - 1 /\ n - 1 \in 0 .. Len(q) /\ 1 .. n # {}
    BY <1>1, <1>4, <1>7
  <2>4. n - 1 \notin Wrong
    <3>1. <<n - 1, n>> \in Less
      BY <1>4, <1>7 DEF Less
    <3> QED
      BY <1>3, <3>1
  <2>5. f[1 .. n - 1] = ViewOf(base, q, 1 .. n - 1)
    BY <2>3, <2>4
  <2>6. f[1 .. n] = ApplyTo(q[n], f[1 .. n - 1])
    BY <1>5, <2>2, <2>3 DEF FoldStep
  <2>7. ViewOf(base, q, 1 .. n) = ApplyTo(q[n], ViewOf(base, q, 1 .. n - 1))
    <3>1. ViewOf(base, q, 1 .. n) =
             ApplyTo(q[Max(1 .. n)], ViewOf(base, q, (1 .. n) \ {Max(1 .. n)}))
      BY ZenonT(30), <1>4, <2>3, ViewOfStep
    <3> QED
      BY ZenonT(30), <2>2, <2>3, <3>1
  <2> QED
    BY <2>5, <2>6, <2>7
<1> QED
  BY <1>6, <1>7

\* The closed form is the replay, for any documents and mutations.
LEMMA ReplayIsView ==
    ASSUME NEW q \in Seq(Mutations), NEW base \in [Cells -> Results], NEW c \in Cells
    PROVE  Replay(base, q)[c] = View(base, q, c)
<1> DEFINE f == CHOOSE f : IsReplay(f, base, q)
<1>1. IsReplay(f, base, q)
  BY RecursionHolds
<1>2. Len(q) \in 0 .. Len(q) /\ DOMAIN q = 1 .. Len(q)
  BY LenProperties
<1>3. Replay(base, q) = f[DOMAIN q]
  BY ReplayIsChosen
<1> HIDE DEF f
<1>4. Replay(base, q) = ViewOf(base, q, DOMAIN q)
  BY <1>1, <1>2, <1>3, ReplayOfPrefix
<1>5. Those(q, DOMAIN q, c) = Pending(q, c)
  BY DEF Those, Pending
<1> QED
  BY <1>4, <1>5 DEF ViewOf, View, Effective
=============================================================================
