-------------------------- MODULE ClueViewsProofs ---------------------------
(***************************************************************************)
(* The menu, the map and the riddles follow the documents of the clues, in *)
(* whatever order callbacks are served, for any number of clues, of calls  *)
(* and of riddles that are opened.                                         *)
(*                                                                         *)
(* The argument has a part for each view.  The lists of the menu only grow *)
(* from the table over the list to the snapshots on their way, the last of *)
(* which is what there is.  A clue has one snapshot with its point for its *)
(* unlocking and one for its solution, queued or taken.  The last callback *)
(* of a riddle tells what its document says.                               *)
(***************************************************************************)
EXTENDS ClueViews, FiniteSetTheorems, SequenceTheorems, WellFoundedInduction, TLAPS

-----------------------------------------------------------------------------
(* Ranks: the r-th clue of a set exists *)

Less == {ss \in Nat \X Nat : ss[1] < ss[2]}

LEMMA LessIsWellFounded == IsWellFoundedOn(Less, Nat)
BY NatLessThanWellFounded, Zenon DEF OpToRel, Less

Below(set, bound) == {d \in set : d <= bound}

LEMMA BelowFacts ==
    ASSUME NEW n \in Nat, NEW S \in SUBSET (1 .. n), NEW k \in Nat
    PROVE  /\ IsFiniteSet(Below(S, k)) /\ Cardinality(Below(S, k)) \in Nat
           /\ k + 1 \in S => Cardinality(Below(S, k + 1)) = Cardinality(Below(S, k)) + 1
           /\ k + 1 \notin S => Cardinality(Below(S, k + 1)) = Cardinality(Below(S, k))
           /\ Cardinality(Below(S, 0)) = 0
           /\ IsFiniteSet(S) /\ Below(S, n) = S
<1>1. IsFiniteSet(S)
  <2>1. IsFiniteSet(1 .. n)
    BY FS_Interval
  <2> QED
    BY <2>1, FS_Subset
<1>2. IsFiniteSet(Below(S, k)) /\ Cardinality(Below(S, k)) \in Nat
  <2>1. Below(S, k) \in SUBSET S
    BY Zenon DEF Below
  <2> QED
    BY <1>1, <2>1, FS_Subset, FS_CardinalityType
<1>3. \A d \in S : d \in Nat /\ ~(d <= 0) /\ d <= n
  OBVIOUS
<1>4. Below(S, 0) = {} /\ Below(S, n) = S
  BY <1>3, Zenon DEF Below
<1>5. /\ k + 1 \in S => Cardinality(Below(S, k + 1)) = Cardinality(Below(S, k)) + 1
      /\ k + 1 \notin S => Cardinality(Below(S, k + 1)) = Cardinality(Below(S, k))
  <2>1. \A d \in S : d <= k + 1 <=> d <= k \/ d = k + 1
    BY <1>3
  <2>2. k + 1 <= k + 1 /\ ~(k + 1 <= k)
    OBVIOUS
  <2>3. CASE k + 1 \in S
    <3>1. Below(S, k + 1) = Below(S, k) \cup {k + 1}
      BY <2>1, <2>2, <2>3, Zenon DEF Below
    <3>2. k + 1 \notin Below(S, k)
      BY <2>2, Zenon DEF Below
    <3> QED
      BY <3>1, <3>2, <1>2, <2>3, FS_AddElement
  <2>4. CASE k + 1 \notin S
    <3>1. Below(S, k + 1) = Below(S, k)
      BY <2>1, <2>4, Zenon DEF Below
    <3> QED
      BY <3>1, <2>4
  <2> QED
    BY <2>3, <2>4
<1> QED
  BY <1>1, <1>2, <1>4, <1>5, FS_EmptySet

LEMMA NthFacts ==
    ASSUME NEW S \in SUBSET Clues, NEW r \in 1 .. Cardinality(S)
    PROVE  Nth(S, r) \in S
<1> DEFINE T == {k \in Nat : r <= Cardinality(Below(S, k))}
<1>1. NumClues \in Nat /\ S \in SUBSET (1 .. NumClues) /\ r \in Nat /\ r > 0
  BY ViewsAssumption, FS_Interval, FS_Subset, FS_CardinalityType DEF Clues
<1>2. /\ Cardinality(Below(S, 0)) = 0
      /\ r <= Cardinality(Below(S, NumClues))
      /\ \A m \in Nat :
                       /\ Cardinality(Below(S, m)) \in Nat
                       /\ m + 1 \in S => Cardinality(Below(S, m + 1)) = Cardinality(Below(S, m)) + 1
                       /\ m + 1 \notin S => Cardinality(Below(S, m + 1)) = Cardinality(Below(S, m))
  <2>1. \A m \in Nat : /\ Cardinality(Below(S, m)) \in Nat
                       /\ m + 1 \in S => Cardinality(Below(S, m + 1)) = Cardinality(Below(S, m)) + 1
                       /\ m + 1 \notin S => Cardinality(Below(S, m + 1)) = Cardinality(Below(S, m))
    <3> TAKE m \in Nat
    <3>1. NumClues \in Nat /\ S \in SUBSET (1 .. NumClues)
      BY <1>1
    <3>2. Cardinality(Below(S, m)) \in Nat
      BY <3>1, BelowFacts
    <3>3. /\ m + 1 \in S => Cardinality(Below(S, m + 1)) = Cardinality(Below(S, m)) + 1
          /\ m + 1 \notin S => Cardinality(Below(S, m + 1)) = Cardinality(Below(S, m))
      BY <3>1, BelowFacts, ZenonT(30)
    <3> QED
      BY <3>2, <3>3
  <2>2. Cardinality(Below(S, 0)) = 0 /\ Below(S, NumClues) = S
    BY <1>1, BelowFacts
  <2> QED
    BY <1>1, <2>1, <2>2
<1>3. PICK k \in T : \A l \in T : <<l, k>> \notin Less
  <2>1. NumClues \in T /\ T \subseteq Nat
    BY <1>1, <1>2
  <2> HIDE DEF T
  <2> QED
    BY <2>1, WFMin, LessIsWellFounded
<1>4. k \in Nat /\ r <= Cardinality(Below(S, k)) /\ k # 0
  BY <1>1, <1>2
<1>5. PICK m \in Nat : k = m + 1
  <2>1. k - 1 \in Nat /\ k = (k - 1) + 1
    BY <1>4
  <2> QED
    BY <2>1
<1>6. Cardinality(Below(S, m)) \in Nat /\ ~(r <= Cardinality(Below(S, m)))
  <2>1. <<m, k>> \in Less
    BY <1>4, <1>5 DEF Less
  <2>2. m \notin T
    BY <2>1, <1>3
  <2>3. Cardinality(Below(S, m)) \in Nat
    BY <1>2, <1>5, Zenon
  <2> QED
    BY <2>2, <2>3, <1>5, Zenon
<1>7. r <= Cardinality(Below(S, m + 1))
  BY <1>4, <1>5
<1>8. k \in S /\ Cardinality(Below(S, k)) = r
  <2>1. /\ m + 1 \in S => Cardinality(Below(S, m + 1)) = Cardinality(Below(S, m)) + 1
        /\ m + 1 \notin S => Cardinality(Below(S, m + 1)) = Cardinality(Below(S, m))
    BY <1>2, <1>5, Zenon
  <2>2. m + 1 \in S
    BY <2>1, <1>6, <1>7
  <2>3. Cardinality(Below(S, m + 1)) = r
    BY <2>1, <2>2, <1>1, <1>6, <1>7
  <2> QED
    BY <2>2, <2>3, <1>5
<1> QED
  BY <1>8 DEF Nth, Below

Docs == [Cells -> BOOLEAN \cup {Absent}]

LEMMA CellsFacts == \A c \in Clues : <<c, "Locked">> \in Cells /\ <<c, "solved">> \in Cells
BY DEF Cells, Fields

LEMMA PresentFacts ==
    ASSUME NEW docs
    PROVE  /\ Present(docs) \subseteq Clues /\ IsFiniteSet(Present(docs))
           /\ Cardinality(Present(docs)) \in Nat
           /\ \A S \in SUBSET Present(docs) : Cardinality(S) <= Cardinality(Present(docs))
           /\ Present(docs) # {} => Cardinality(Present(docs)) > 0
           /\ Present(docs) = {} => Cardinality(Present(docs)) = 0
<1>1. IsFiniteSet(Clues)
  BY FS_Interval, ViewsAssumption DEF Clues
<1>2. Present(docs) \subseteq Clues
  BY DEF Present
<1>3. IsFiniteSet(Present(docs)) /\ Cardinality(Present(docs)) \in Nat
  BY <1>1, <1>2, FS_Subset, FS_CardinalityType
<1> QED
  BY <1>2, <1>3, FS_Subset, FS_EmptySet

LEMMA ListingFacts ==
    ASSUME NEW docs
    PROVE  /\ Listing(docs) \in Seq(Entries)
           /\ Len(Listing(docs)) = Cardinality(Present(docs))
           /\ \A r \in DOMAIN Listing(docs) : Listing(docs)[r].name \in Present(docs)
<1> DEFINE n == Cardinality(Present(docs))
           e(r) == [name |-> Nth(Present(docs), r), islocked |-> docs[<<Nth(Present(docs), r), "Locked">>]]
<1>1. n \in Nat /\ Present(docs) \subseteq Clues
  BY PresentFacts
<1>2. \A r \in 1 .. n : Nth(Present(docs), r) \in Present(docs)
  BY <1>1, NthFacts
<1>3. \A r \in 1 .. n : e(r) \in Entries
  BY <1>1, <1>2 DEF Entries, Present
<1>4. Listing(docs) = [r \in 1 .. n |-> e(r)]
  BY DEF Listing
<1> HIDE DEF n
<1>5. Listing(docs) \in Seq(Entries) /\ Len(Listing(docs)) = n /\ DOMAIN Listing(docs) = 1 .. n
  BY <1>1, <1>3, <1>4, IsASeq, LenProperties
<1>6. \A r \in 1 .. n : Listing(docs)[r].name \in Present(docs)
  BY <1>2, <1>4
<1> QED
  BY <1>5, <1>6 DEF n

-----------------------------------------------------------------------------
(* How many points are queued *)

Falses(s) == {i \in DOMAIN s : s[i] = FALSE}

LEMMA FalsesFinite ==
    ASSUME NEW q \in Seq(BOOLEAN)
    PROVE  /\ IsFiniteSet(Falses(q)) /\ Cardinality(Falses(q)) \in Nat
           /\ Falses(<<>>) = {} /\ Cardinality(Falses(<<>>)) = 0
<1>1. IsFiniteSet(DOMAIN q)
  BY LenProperties, FS_Interval
<1>2. Falses(q) \subseteq DOMAIN q /\ Falses(<<>>) = {}
  BY EmptySeq DEF Falses
<1> QED
  BY <1>1, <1>2, FS_Subset, FS_CardinalityType, FS_EmptySet

LEMMA FalsesAppend ==
    ASSUME NEW q \in Seq(BOOLEAN), NEW x \in BOOLEAN
    PROVE  Cardinality(Falses(Append(q, x))) = Cardinality(Falses(q)) + IF x THEN 0 ELSE 1
<1> DEFINE r == Append(q, x)
<1>1. /\ Len(q) \in Nat /\ DOMAIN q = 1 .. Len(q) /\ DOMAIN r = 1 .. Len(q) + 1
      /\ r[Len(q) + 1] = x /\ \A i \in 1 .. Len(q) : r[i] = q[i]
  BY AppendProperties, LenProperties
<1> HIDE DEF r
<1>2. IsFiniteSet(Falses(q)) /\ Cardinality(Falses(q)) \in Nat
  BY FalsesFinite
<1>3. CASE x = TRUE
  <2>1. r[Len(q) + 1] # FALSE
    BY <1>1, <1>3, Zenon
  <2>2. \A i \in DOMAIN r : r[i] = FALSE <=> i \in DOMAIN q /\ q[i] = FALSE
    <3>1. \A i \in DOMAIN r : i \in DOMAIN q \/ i = Len(q) + 1
      BY <1>1
    <3>2. Len(q) + 1 \notin DOMAIN q /\ \A i \in DOMAIN q : r[i] = q[i]
      BY <1>1
    <3> QED
      BY <2>1, <3>1, <3>2, Zenon
  <2>3. \A i \in DOMAIN q : i \in DOMAIN r
    BY <1>1
  <2>4. Falses(r) = Falses(q)
    BY <2>2, <2>3, Zenon DEF Falses
  <2> QED
    BY <2>4, <1>2, <1>3 DEF r
<1>4. CASE x = FALSE
  <2>1. Falses(r) = Falses(q) \cup {Len(q) + 1} /\ Len(q) + 1 \notin Falses(q)
    BY <1>1, <1>4 DEF Falses
  <2> QED
    BY <2>1, <1>2, <1>4, FS_AddElement DEF r
<1> QED
  BY <1>3, <1>4

LEMMA FalsesTail ==
    ASSUME NEW q \in Seq(BOOLEAN), q # <<>>
    PROVE  /\ Tail(q) \in Seq(BOOLEAN) /\ Head(q) \in BOOLEAN
           /\ Cardinality(Falses(q)) = Cardinality(Falses(Tail(q))) + IF Head(q) THEN 0 ELSE 1
<1> DEFINE t == Tail(q)
           F == Falses(q) \ {1}
           f == [i \in F |-> i - 1]
<1>1. /\ Len(q) \in Nat \ {0} /\ DOMAIN q = 1 .. Len(q) /\ Head(q) = q[1] /\ Head(q) \in BOOLEAN
      /\ t \in Seq(BOOLEAN) /\ DOMAIN t = 1 .. Len(q) - 1
      /\ \A i \in 1 .. Len(q) - 1 : t[i] = q[i + 1]
  BY HeadTailProperties, EmptySeq, LenProperties, ElementOfSeq
<1> HIDE DEF t
<1>2. /\ IsFiniteSet(F)
      /\ Cardinality(F) = IF 1 \in Falses(q) THEN Cardinality(Falses(q)) - 1 ELSE Cardinality(Falses(q))
      /\ Cardinality(Falses(q)) \in Nat
  BY FalsesFinite, FS_RemoveElement
<1>3. \A i \in F : i \in 2 .. Len(q) /\ i - 1 \in Falses(t)
  BY <1>1 DEF Falses
<1>4. \A j \in Falses(t) : j + 1 \in F /\ (j + 1) - 1 = j
  BY <1>1 DEF Falses
<1> HIDE DEF F
<1>5. f \in Bijection(F, Falses(t))
  <2>1. f \in [F -> Falses(t)]
    BY <1>3
  <2>2. \A a, b \in F : f[a] = f[b] => a = b
    BY <1>3
  <2>3. \A j \in Falses(t) : \E i \in F : f[i] = j
    BY <1>4
  <2>4. f \in Injection(F, Falses(t))
    BY <2>1, <2>2, Zenon DEF Injection, IsInjective
  <2>5. f \in Surjection(F, Falses(t))
    BY <2>1, <2>3, Zenon DEF Surjection
  <2> QED
    BY <2>4, <2>5, Zenon DEF Bijection
<1>6. Cardinality(Falses(t)) = Cardinality(F)
  BY <1>2, <1>5, FS_Bijection DEF ExistsBijection
<1>7. 1 \in Falses(q) <=> ~Head(q)
  <2>1. 1 \in DOMAIN q
    BY <1>1
  <2> QED
    BY <2>1, <1>1, Zenon DEF Falses
<1>8. CASE Head(q)
  <2>1. Cardinality(Falses(q)) = Cardinality(Falses(t))
    BY <1>2, <1>6, <1>7, <1>8
  <2>2. Cardinality(Falses(t)) \in Nat
    BY <1>1, FalsesFinite
  <2>3. Cardinality(Falses(q)) = Cardinality(Falses(t)) + 0
    BY <2>1, <2>2
  <2> QED
    BY <1>1, <1>8, <2>3, Zenon DEF t
<1>9. CASE ~Head(q)
  <2>1. 1 \in Falses(q)
    BY <1>7, <1>9
  <2>2. Cardinality(Falses(t)) = Cardinality(Falses(q)) - 1
    BY <1>2, <1>6, <2>1
  <2>3. Cardinality(Falses(q)) = Cardinality(Falses(t)) + 1
    BY <1>2, <2>2
  <2> QED
    BY <1>1, <1>9, <2>3, Zenon DEF t
<1> QED
  BY <1>8, <1>9

-----------------------------------------------------------------------------
(* The inductive invariant *)

\* A document is there as a whole.
Whole == \A c \in Clues : shown[<<c, "Locked">>] \in BOOLEAN <=> shown[<<c, "solved">>] \in BOOLEAN

\* Without the process nothing is under way.
DownInv ==
    ~up => calls = <<>> /\ listening = {} /\ menuQueue = <<>> /\ table = <<>> /\ view = None

Starts(i) == calls[i].op = "listen" /\ calls[i].who \in Clues

\* The listener of a clue is started once.
CallsInv ==
    \A i \in DOMAIN calls : Starts(i) =>
        /\ calls[i].who \notin listening
        /\ \A j \in DOMAIN calls : Starts(j) /\ calls[j].who = calls[i].who => j = i

\* A list of the menu, old or new: its documents are there.
Good(docs, list) ==
    /\ Len(list) <= Cardinality(Present(docs))
    /\ \A r \in DOMAIN list : list[r].name \in Present(docs)

IsList(i) == menuQueue[i].task = "clues"

\* From the table to the last snapshot the lists only grow, and none on its way is empty.
MenuGrows ==
    /\ Good(shown, clues) /\ Good(shown, table) /\ Len(table) <= Len(clues)
    /\ \A i \in DOMAIN menuQueue : IsList(i) =>
          /\ Good(shown, menuQueue[i].list) /\ menuQueue[i].list # <<>>
          /\ Len(clues) <= Len(menuQueue[i].list)
          /\ \A j \in DOMAIN menuQueue :
                IsList(j) /\ i < j => Len(menuQueue[i].list) <= Len(menuQueue[j].list)

\* The last list is what there is, and the table follows it.
MenuLast ==
    /\ menuQueue = <<>> => table = clues
    /\ Menu \notin listening => menuQueue = <<>> /\ clues = <<>>
    /\ Menu \in listening =>
          \/ /\ clues = Listing(shown)
             /\ \A i \in DOMAIN menuQueue : ~IsList(i)
          \/ \E i \in DOMAIN menuQueue :
                /\ IsList(i) /\ menuQueue[i].list = Listing(shown)
                /\ \A j \in DOMAIN menuQueue : i < j => ~IsList(j)

\* The points of a clue, on the map or on their way.
Pot(c) == points[c] + Cardinality(Falses(pointQueue[c]))

PointsOf(c) ==
    /\ Pot(c) <= 2
    /\ Pot(c) >= 1 => shown[<<c, "Locked">>] = FALSE
    /\ Pot(c) = 2 => shown[<<c, "solved">>] = TRUE
    /\ c \notin listening => Pot(c) = 0
    /\ c \in listening /\ shown[<<c, "Locked">>] = FALSE => Pot(c) >= 1

PointInv == \A c \in Clues : PointsOf(c)

RiddleInv ==
    /\ riddleQueue \in Seq(BOOLEAN)
    /\ view # None => view \in Present(shown)
    /\ Riddle \notin listening => riddleQueue = <<>>
    /\ Riddle \in listening =>
          /\ view # None
          /\ riddleQueue = <<>> =>
                riddle = IF shown[<<view, "solved">>] THEN "solved" ELSE "unsolved"
          /\ riddleQueue # <<>> =>
                riddleQueue[Len(riddleQueue)] = shown[<<view, "solved">>]

IInv ==
    /\ TypeOK /\ NeverCrashes
    /\ Whole /\ DownInv /\ CallsInv /\ MenuGrows /\ MenuLast /\ PointInv /\ RiddleInv

-----------------------------------------------------------------------------
(* The documents *)

\* What a step of the documents may do: none disappears, none is locked again, and a
\* clue that is unlocked changes by its solution alone.
Grows ==
    /\ shown' \in Docs
    /\ \A c \in Clues :
          /\ shown'[<<c, "Locked">>] \in BOOLEAN <=> shown'[<<c, "solved">>] \in BOOLEAN
          /\ c \in Present(shown) => c \in Present(shown')
          /\ shown[<<c, "Locked">>] = FALSE => shown'[<<c, "Locked">>] = FALSE
          /\ shown[<<c, "solved">>] = TRUE => shown'[<<c, "solved">>] = TRUE
          /\ c \in Changed =>
                /\ c \in Present(shown')
                /\ shown[<<c, "Locked">>] = FALSE =>
                      shown[<<c, "solved">>] # TRUE /\ shown'[<<c, "solved">>] = TRUE
          /\ c \notin Changed =>
                /\ shown'[<<c, "Locked">>] = shown[<<c, "Locked">>]
                /\ shown'[<<c, "solved">>] = shown[<<c, "solved">>]
    /\ Changed = {} => shown' = shown

LEMMA ChangedFacts ==
    ASSUME shown \in Docs, shown' \in Docs
    PROVE  /\ \A c \in Clues : c \notin Changed =>
                /\ shown'[<<c, "Locked">>] = shown[<<c, "Locked">>]
                /\ shown'[<<c, "solved">>] = shown[<<c, "solved">>]
           /\ Changed = {} => shown' = shown
<1>1. \A c \in Clues : c \notin Changed => \A f \in Fields : shown'[<<c, f>>] = shown[<<c, f>>]
  BY Zenon DEF Changed
<1>2. "Locked" \in Fields /\ "solved" \in Fields
  BY DEF Fields
<1>3. ASSUME Changed = {} PROVE shown' = shown
  <2>1. \A c \in Clues : \A f \in Fields : shown'[<<c, f>>] = shown[<<c, f>>]
    BY <1>1, <1>3
  <2>2. \A x \in Cells : shown'[x] = shown[x]
    BY <2>1 DEF Cells
  <2> QED
    BY <2>2 DEF Docs
<1> QED
  BY <1>1, <1>2, <1>3, Zenon

LEMMA ArriveGrows ==
    ASSUME shown \in Docs, Whole,
           NEW new \in SUBSET (Clues \ Present(shown)),
           NEW news \in [new \X Fields -> BOOLEAN], Documents!Arrive(news)
    PROVE  Grows /\ calls' = calls
<1>1. shown' = [x \in Cells |-> IF x \in new \X Fields THEN news[x] ELSE shown[x]] /\ calls' = calls
  BY DEF Documents!Arrive
<1>2. "Locked" \in Fields /\ "solved" \in Fields
  BY DEF Fields
<1>3. shown' \in Docs
  BY <1>1 DEF Docs
<1>4. \A c \in Clues \ new : \A f \in Fields : shown'[<<c, f>>] = shown[<<c, f>>]
  BY <1>1 DEF Cells
<1>5. \A c \in new : \A f \in Fields : shown'[<<c, f>>] \in BOOLEAN
  BY <1>1 DEF Cells
<1>6. \A c \in new : c \in Clues /\ shown[<<c, "Locked">>] \notin BOOLEAN /\ shown[<<c, "solved">>] \notin BOOLEAN
  BY DEF Present, Whole
<1>7. ASSUME NEW c \in Clues
      PROVE  /\ shown'[<<c, "Locked">>] \in BOOLEAN <=> shown'[<<c, "solved">>] \in BOOLEAN
             /\ c \in Present(shown) => c \in Present(shown')
             /\ shown[<<c, "Locked">>] = FALSE => shown'[<<c, "Locked">>] = FALSE
             /\ shown[<<c, "solved">>] = TRUE => shown'[<<c, "solved">>] = TRUE
             /\ c \in Changed =>
                   /\ c \in Present(shown')
                   /\ shown[<<c, "Locked">>] = FALSE =>
                         shown[<<c, "solved">>] # TRUE /\ shown'[<<c, "solved">>] = TRUE
  <2>1. CASE c \in new
    BY <2>1, <1>2, <1>5, <1>6, Zenon DEF Present
  <2>2. CASE c \notin new
    BY <2>2, <1>2, <1>4, Zenon DEF Present, Changed, Whole
  <2> QED
    BY <2>1, <2>2
<1> QED
  BY <1>1, <1>3, <1>7, ChangedFacts, Zenon DEF Grows

LEMMA WriteGrows ==
    ASSUME shown \in Docs, Whole, calls \in Seq(Requests),
           calls # <<>>, Head(calls).op = "update", Documents!Take
    PROVE  Grows /\ calls' = Tail(calls)
<1>1. PICK d \in Clues : Head(calls) = Unlock(d) \/ Head(calls) = Solve(d)
  <2>1. Head(calls) \in Requests
    BY HeadTailProperties, EmptySeq
  <2>2. \A who \in Listeners, n \in 0 .. MaxOpens : [op |-> "listen", who |-> who, view |-> n].op # "update"
    OBVIOUS
  <2> QED
    BY <2>1, <2>2 DEF Requests
<1>2. calls' = Tail(calls)
  BY DEF Documents!Take
<1>3. \/ shown' = shown
      \/ shown' = [shown EXCEPT ![<<d, "Locked">>] = FALSE] /\ shown[<<d, "Locked">>] \in BOOLEAN
      \/ shown' = [shown EXCEPT ![<<d, "solved">>] = TRUE] /\ shown[<<d, "solved">>] \in BOOLEAN
  <2>1. shown' = IF Documents!Writes(Head(calls))
                 THEN [shown EXCEPT ![Head(calls).cell] = Head(calls).val] ELSE shown
    BY DEF Documents!Take
  <2>2. CASE ~Documents!Writes(Head(calls))
    BY <2>1, <2>2
  <2>3. CASE Documents!Writes(Head(calls))
    <3>1. shown[Head(calls).cell] \in BOOLEAN
      BY <2>3 DEF Documents!Writes
    <3>2. \/ Head(calls).cell = <<d, "Locked">> /\ Head(calls).val = FALSE
          \/ Head(calls).cell = <<d, "solved">> /\ Head(calls).val = TRUE
      BY <1>1 DEF Unlock, Solve
    <3>3. shown' = [shown EXCEPT ![Head(calls).cell] = Head(calls).val]
      BY <2>1, <2>3
    <3> QED
      BY <3>1, <3>2, <3>3, Zenon
  <2> QED
    BY <2>2, <2>3
<1>4. shown' \in Docs
  BY <1>3, CellsFacts DEF Docs
<1>5. ASSUME NEW c \in Clues
      PROVE  /\ shown'[<<c, "Locked">>] \in BOOLEAN <=> shown'[<<c, "solved">>] \in BOOLEAN
             /\ c \in Present(shown) => c \in Present(shown')
             /\ shown[<<c, "Locked">>] = FALSE => shown'[<<c, "Locked">>] = FALSE
             /\ shown[<<c, "solved">>] = TRUE => shown'[<<c, "solved">>] = TRUE
             /\ c \in Changed =>
                   /\ c \in Present(shown')
                   /\ shown[<<c, "Locked">>] = FALSE =>
                         shown[<<c, "solved">>] # TRUE /\ shown'[<<c, "solved">>] = TRUE
  <2>1. shown[<<c, "Locked">>] \in BOOLEAN <=> shown[<<c, "solved">>] \in BOOLEAN
    BY DEF Whole
  <2>2. Fields = {"Locked", "solved"} /\ c \in Changed => \E f \in Fields : shown'[<<c, f>>] # shown[<<c, f>>]
    BY DEF Fields, Changed
  <2>3. CASE shown' = shown
    BY <2>1, <2>3, Zenon DEF Changed
  <2>4. CASE shown' = [shown EXCEPT ![<<d, "Locked">>] = FALSE] /\ shown[<<d, "Locked">>] \in BOOLEAN
    <3>1. shown'[<<c, "solved">>] = shown[<<c, "solved">>]
      BY <2>4, CellsFacts DEF Docs
    <3>2. c # d => shown'[<<c, "Locked">>] = shown[<<c, "Locked">>]
      BY <2>4, CellsFacts DEF Docs
    <3>3. c = d => shown'[<<c, "Locked">>] = FALSE /\ shown[<<c, "Locked">>] \in BOOLEAN
      BY <2>4, CellsFacts DEF Docs
    <3>4. c \in Changed => shown'[<<c, "Locked">>] # shown[<<c, "Locked">>]
      BY <3>1 DEF Changed, Fields
    <3> QED
      BY <2>1, <3>1, <3>2, <3>3, <3>4, Zenon DEF Present
  <2>5. CASE shown' = [shown EXCEPT ![<<d, "solved">>] = TRUE] /\ shown[<<d, "solved">>] \in BOOLEAN
    <3>1. shown'[<<c, "Locked">>] = shown[<<c, "Locked">>]
      BY <2>5, CellsFacts DEF Docs
    <3>2. c # d => shown'[<<c, "solved">>] = shown[<<c, "solved">>]
      BY <2>5, CellsFacts DEF Docs
    <3>3. c = d => shown'[<<c, "solved">>] = TRUE /\ shown[<<c, "solved">>] \in BOOLEAN
      BY <2>5, CellsFacts DEF Docs
    <3>4. c \in Changed => shown'[<<c, "solved">>] # shown[<<c, "solved">>]
      BY <3>1 DEF Changed, Fields
    <3> QED
      BY <2>1, <3>1, <3>2, <3>3, <3>4, Zenon DEF Present
  <2> QED
    BY <1>3, <2>3, <2>4, <2>5
<1> QED
  BY <1>2, <1>4, <1>5, ChangedFacts, Zenon DEF Grows

-----------------------------------------------------------------------------
(* The menu, when documents change *)

Tasks == [task : {"clues"}, list : Seq(Entries)] \cup {Reload}

LEMMA TaskFacts ==
    /\ \A list \in Seq(Entries) :
          Snapshot(list) \in Tasks /\ Snapshot(list).task = "clues" /\ Snapshot(list).list = list
    /\ Reload \in Tasks /\ Reload.task # "clues" /\ Reload.task = "reload"
    /\ \A t \in Tasks : t.task = "clues" => t.list \in Seq(Entries)
    /\ \A t \in Tasks : t.task # "clues" => t = Reload
BY DEF Tasks, Snapshot, Reload

LEMMA GoodGrows ==
    ASSUME NEW docs, NEW docs2, Present(docs) \subseteq Present(docs2),
           NEW list \in Seq(Entries), Good(docs, list)
    PROVE  Good(docs2, list)
<1>1. Cardinality(Present(docs)) <= Cardinality(Present(docs2))
  BY PresentFacts
<1>2. Cardinality(Present(docs)) \in Nat /\ Cardinality(Present(docs2)) \in Nat /\ Len(list) \in Nat
  BY PresentFacts, LenProperties
<1> QED
  BY <1>1, <1>2 DEF Good

LEMMA ListingGood ==
    ASSUME NEW docs
    PROVE  /\ Good(docs, Listing(docs))
           /\ Present(docs) # {} => Listing(docs) # <<>>
           /\ Present(docs) = {} => Listing(docs) = <<>>
           /\ Good(docs, <<>>)
<1>1. Cardinality(Present(docs)) \in Nat
  BY PresentFacts
<1>2. Len(Listing(docs)) = Cardinality(Present(docs)) /\ Listing(docs) \in Seq(Entries)
  BY ListingFacts
<1>3. Good(docs, Listing(docs))
  BY <1>1, <1>2, ListingFacts DEF Good
<1>4. Good(docs, <<>>)
  BY <1>1, EmptySeq DEF Good
<1> QED
  BY <1>1, <1>2, <1>3, <1>4, PresentFacts, EmptySeq

\* A snapshot of what there is, behind all others.
LEMMA AppendList ==
    ASSUME TypeOK, MenuGrows, Present(shown) \subseteq Present(shown'), Present(shown') # {},
           menuQueue' = Append(menuQueue, Snapshot(Listing(shown'))),
           clues' = clues, table' = table, Menu \in listening'
    PROVE  menuQueue' \in Seq(Tasks) /\ MenuGrows' /\ MenuLast'
<1> DEFINE l == Listing(shown')
<1>0. PICK n \in Nat : n = Len(menuQueue)
  BY LenProperties DEF TypeOK
<1>1. l \in Seq(Entries) /\ Good(shown', l) /\ l # <<>> /\ Len(l) = Cardinality(Present(shown'))
  BY ListingFacts, ListingGood
<1>2. menuQueue \in Seq(Tasks) /\ Snapshot(l) \in Tasks /\ Snapshot(l).task = "clues" /\ Snapshot(l).list = l
  BY <1>1, TaskFacts DEF TypeOK, Tasks
<1> HIDE DEF l
<1>3. /\ menuQueue' \in Seq(Tasks)
      /\ DOMAIN menuQueue = 1 .. n /\ DOMAIN menuQueue' = 1 .. n + 1
      /\ \A i \in 1 .. n : menuQueue'[i] = menuQueue[i]
      /\ menuQueue'[n + 1] = Snapshot(l)
  BY <1>0, <1>2, AppendProperties, LenProperties DEF l
<1>4. \A list \in Seq(Entries) : Good(shown, list) => Good(shown', list) /\ Len(list) <= Len(l)
  <2> TAKE list \in Seq(Entries)
  <2>1. ASSUME Good(shown, list) PROVE Good(shown', list)
    BY <2>1, GoodGrows
  <2> QED
    BY <2>1, <1>1 DEF Good
<1>5. clues \in Seq(Entries) /\ table \in Seq(Entries)
  BY DEF TypeOK
<1>6. \A i \in 1 .. n : IsList(i) => menuQueue[i].list \in Seq(Entries)
  BY <1>2, <1>3, TaskFacts, ElementOfSeq DEF IsList
<1>7. MenuGrows'
  <2>1. Good(shown', clues) /\ Good(shown', table) /\ Len(table) <= Len(clues) /\ Len(clues) <= Len(l)
    BY <1>4, <1>5 DEF MenuGrows
  <2>2. ASSUME NEW i \in 1 .. n, IsList(i)
        PROVE  /\ Good(shown', menuQueue[i].list) /\ menuQueue[i].list # <<>>
               /\ Len(clues) <= Len(menuQueue[i].list) /\ Len(menuQueue[i].list) <= Len(l)
               /\ \A j \in 1 .. n :
                     IsList(j) /\ i < j => Len(menuQueue[i].list) <= Len(menuQueue[j].list)
    BY <2>2, <1>3, <1>4, <1>6 DEF MenuGrows
  <2>3. \A i \in 1 .. n : IsList(i)' <=> IsList(i)
    BY <1>3 DEF IsList
  <2>4. \A i \in 1 .. n + 1 : i \in 1 .. n \/ i = n + 1
    BY <1>3
  <2>5. ASSUME NEW i \in 1 .. n + 1, IsList(i)'
        PROVE  /\ Good(shown', menuQueue'[i].list) /\ menuQueue'[i].list # <<>>
               /\ Len(clues) <= Len(menuQueue'[i].list)
               /\ \A j \in 1 .. n + 1 :
                     IsList(j)' /\ i < j => Len(menuQueue'[i].list) <= Len(menuQueue'[j].list)
    <3>1. CASE i \in 1 .. n
      <4>1. IsList(i) /\ menuQueue'[i] = menuQueue[i]
        BY <3>1, <2>3, <2>5, <1>3
      <4>2. ASSUME NEW j \in 1 .. n + 1, IsList(j)', i < j
            PROVE  Len(menuQueue'[i].list) <= Len(menuQueue'[j].list)
        <5>1. CASE j \in 1 .. n
          BY <5>1, <4>1, <4>2, <3>1, <2>2, <2>3, <1>3
        <5>2. CASE j = n + 1
          BY <5>2, <4>1, <3>1, <2>2, <1>2, <1>3
        <5> QED
          BY <5>1, <5>2, <2>4
      <4> QED
        BY <4>1, <4>2, <3>1, <2>2
    <3>2. CASE i = n + 1
      <4>1. menuQueue'[i].list = l
        BY <3>2, <1>2, <1>3
      <4>2. \A j \in 1 .. n + 1 : ~(i < j)
        BY <3>2, <1>3
      <4> QED
        BY <4>1, <4>2, <2>1, <1>1
    <3> QED
      BY <3>1, <3>2, <2>4
  <2> QED
    BY <2>1, <2>5, <1>3 DEF MenuGrows
<1>8. MenuLast'
  <2>1. n + 1 \in DOMAIN menuQueue' /\ menuQueue' # <<>>
    BY <1>3, EmptySeq
  <2>2. IsList(n + 1)' /\ menuQueue'[n + 1].list = Listing(shown')
    BY <1>2, <1>3 DEF IsList, l
  <2>3. \A j \in DOMAIN menuQueue' : ~(n + 1 < j)
    BY <1>3
  <2> QED
    BY <2>1, <2>2, <2>3, Zenon DEF MenuLast
<1> QED
  BY <1>3, <1>7, <1>8

LEMMA AnnounceMenu ==
    ASSUME TypeOK, MenuGrows, MenuLast, Grows, Announce
    PROVE  menuQueue' \in Seq(Tasks) /\ MenuGrows' /\ MenuLast'
<1>1. clues' = clues /\ table' = table /\ listening' = listening
  BY DEF Announce
<1>2. Present(shown) \subseteq Present(shown')
  BY DEF Grows, Present
<1>3. menuQueue \in Seq(Tasks)
  BY DEF TypeOK, Tasks
<1>4. CASE Menu \in listening /\ Changed # {}
  <2>1. menuQueue' = Append(menuQueue, Snapshot(Listing(shown')))
    BY <1>4 DEF Announce
  <2>2. Present(shown') # {}
    BY <1>4 DEF Grows, Changed
  <2> QED
    BY <1>1, <1>2, <1>4, <2>1, <2>2, AppendList
<1>5. CASE Changed = {}
  <2>1. shown' = shown /\ menuQueue' = menuQueue
    BY <1>5 DEF Grows, Announce
  <2> QED
    BY <2>1, <1>1, <1>3 DEF MenuGrows, MenuLast, IsList
<1>6. CASE Menu \notin listening
  <2>1. menuQueue' = <<>> /\ clues' = <<>>
    BY <1>1, <1>6 DEF Announce, MenuLast
  <2>2. table' = <<>>
    <3>1. table \in Seq(Entries) /\ Len(table) <= Len(<<>>)
      BY <2>1, <1>1 DEF TypeOK, MenuGrows
    <3> QED
      BY <3>1, <1>1, EmptySeq, LenProperties
  <2>3. Good(shown', <<>>)
    BY ListingGood
  <2>4. MenuGrows'
    BY <2>1, <2>2, <2>3, EmptySeq DEF MenuGrows
  <2>5. MenuLast'
    BY <2>1, <2>2, <1>1, <1>6 DEF MenuLast
  <2> QED
    BY <2>1, <2>4, <2>5, EmptySeq
<1> QED
  BY <1>4, <1>5, <1>6

-----------------------------------------------------------------------------
(* The points and the open riddle, when documents change *)

LEMMA PotFacts ==
    ASSUME TypeOK, NEW c \in Clues
    PROVE  /\ pointQueue[c] \in Seq(BOOLEAN) /\ points[c] \in Nat
           /\ Cardinality(Falses(pointQueue[c])) \in Nat /\ Pot(c) \in Nat
<1>1. pointQueue[c] \in Seq(BOOLEAN) /\ points[c] \in Nat
  BY DEF TypeOK
<1>2. Cardinality(Falses(pointQueue[c])) \in Nat
  BY <1>1, FalsesFinite
<1> QED
  BY <1>1, <1>2 DEF Pot

LEMMA AnnouncePoints ==
    ASSUME TypeOK, PointInv, Grows, Announce
    PROVE  pointQueue' \in [Clues -> Seq(BOOLEAN)] /\ PointInv'
<1>1. points' = points /\ listening' = listening
  BY DEF Announce
<1>2. pointQueue' = [c \in Clues |->
           IF c \in listening \cap Changed
           THEN Append(pointQueue[c], shown'[<<c, "Locked">>]) ELSE pointQueue[c]]
  BY DEF Announce
<1>3. ASSUME NEW c \in Clues
      PROVE  pointQueue'[c] \in Seq(BOOLEAN) /\ PointsOf(c)'
  <2>1. PointsOf(c) /\ Pot(c) \in Nat /\ pointQueue[c] \in Seq(BOOLEAN) /\ points[c] \in Nat
    BY PotFacts DEF PointInv
  <2>2. CASE c \notin Changed
    <3>1. pointQueue'[c] = pointQueue[c]
      BY <1>2, <2>2
    <3>2. Pot(c)' = Pot(c)
      BY <3>1, <1>1 DEF Pot
    <3>3. shown'[<<c, "Locked">>] = shown[<<c, "Locked">>] /\ shown'[<<c, "solved">>] = shown[<<c, "solved">>]
      BY <2>2 DEF Grows
    <3> QED
      BY <2>1, <3>1, <3>2, <3>3, <1>1, Zenon DEF PointsOf
  <2>3. CASE c \notin listening
    <3>1. pointQueue'[c] = pointQueue[c]
      BY <1>2, <2>3
    <3>2. Pot(c)' = 0
      BY <2>1, <2>3, <3>1, <1>1 DEF Pot, PointsOf
    <3>3. ~(Pot(c)' >= 1) /\ Pot(c)' <= 2 /\ Pot(c)' # 2
      BY <3>2
    <3> QED
      BY <2>1, <2>3, <3>1, <3>2, <3>3, <1>1, Zenon DEF PointsOf
  <2>4. CASE c \in Changed /\ c \in listening
    <3> DEFINE x == shown'[<<c, "Locked">>]
    <3>1. x \in BOOLEAN /\ pointQueue'[c] = Append(pointQueue[c], x)
      BY <1>2, <2>4 DEF Grows, Present
    <3>2. pointQueue'[c] \in Seq(BOOLEAN)
      BY <3>1, <2>1, AppendProperties
    <3>3. CASE x = TRUE
      <4>1. Cardinality(Falses(Append(pointQueue[c], x))) = Cardinality(Falses(pointQueue[c])) + 0
        BY <3>1, <3>3, <2>1, FalsesAppend, Zenon
      <4>2. Pot(c)' = Pot(c)
        BY <4>1, <3>1, <2>1, <1>1, FalsesFinite DEF Pot
      <4>3. shown[<<c, "Locked">>] # FALSE /\ x # FALSE
        BY <3>3, Zenon DEF Grows
      <4>4. Pot(c) = 0
        <5>1. ~(Pot(c) >= 1)
          BY <4>3, <2>1, Zenon DEF PointsOf
        <5> QED
          BY <5>1, <2>1
      <4>5. ~(Pot(c)' >= 1) /\ Pot(c)' <= 2 /\ Pot(c)' # 2
        BY <4>2, <4>4
      <4> QED
        BY <4>3, <4>5, <3>2, <2>4, <1>1, Zenon DEF PointsOf
    <3>4. CASE x = FALSE
      <4>1. Cardinality(Falses(Append(pointQueue[c], x))) = Cardinality(Falses(pointQueue[c])) + 1
        BY <3>1, <3>4, <2>1, FalsesAppend, Zenon
      <4>2. Pot(c)' = Pot(c) + 1
        BY <4>1, <3>1, <2>1, <1>1, FalsesFinite DEF Pot
      <4>3. CASE shown[<<c, "Locked">>] = FALSE
        <5>1. shown[<<c, "solved">>] # TRUE /\ shown'[<<c, "solved">>] = TRUE
          BY <4>3, <2>4 DEF Grows
        <5>2. Pot(c) # 2
          BY <5>1, <2>1, Zenon DEF PointsOf
        <5>3. Pot(c)' <= 2 /\ Pot(c)' >= 1
          BY <5>2, <4>2, <2>1 DEF PointsOf
        <5> QED
          BY <5>1, <5>3, <3>2, <3>4, <2>4, <1>1, Zenon DEF PointsOf
      <4>4. CASE shown[<<c, "Locked">>] # FALSE
        <5>1. Pot(c) = 0
          <6>1. ~(Pot(c) >= 1)
            BY <4>4, <2>1, Zenon DEF PointsOf
          <6> QED
            BY <6>1, <2>1
        <5>2. Pot(c)' <= 2 /\ Pot(c)' >= 1 /\ Pot(c)' # 2
          BY <5>1, <4>2
        <5> QED
          BY <5>2, <3>2, <3>4, <2>4, <1>1, Zenon DEF PointsOf
      <4> QED
        BY <4>3, <4>4
    <3> QED
      BY <3>1, <3>3, <3>4, Zenon
  <2> QED
    BY <2>2, <2>3, <2>4
<1>4. pointQueue' \in [Clues -> Seq(BOOLEAN)]
  <2>1. \A c \in Clues : pointQueue'[c] \in Seq(BOOLEAN)
    BY <1>3
  <2> QED
    BY <1>2, <2>1
<1> QED
  BY <1>3, <1>4, Zenon DEF PointInv

LEMMA LastOfAppend ==
    ASSUME NEW q \in Seq(BOOLEAN), NEW x \in BOOLEAN
    PROVE  /\ Append(q, x) \in Seq(BOOLEAN) /\ Append(q, x) # <<>>
           /\ Append(q, x)[Len(Append(q, x))] = x
<1>1. /\ Append(q, x) \in Seq(BOOLEAN) /\ Len(q) \in Nat
      /\ Len(Append(q, x)) = Len(q) + 1 /\ Append(q, x)[Len(q) + 1] = x
  BY AppendProperties, LenProperties
<1> QED
  BY <1>1, EmptySeq

\* What is open shows, or will show, that its clue is solved.
LEMMA AnnounceRiddle ==
    ASSUME TypeOK, RiddleInv, Grows, Announce
    PROVE  RiddleInv'
<1>1. view' = view /\ riddle' = riddle /\ listening' = listening
  BY DEF Announce
<1>2. view # None => view \in Present(shown) /\ view \in Clues
  BY DEF RiddleInv, Present
<1>3. view' # None => view' \in Present(shown')
  BY <1>1, <1>2 DEF Grows
<1>4. CASE Riddle \in listening /\ view \in Changed
  <2>1. riddleQueue' = Append(riddleQueue, shown'[<<view, "solved">>])
    BY <1>4 DEF Announce
  <2>2. view \in Clues /\ view # None
    BY <1>2, <1>4 DEF RiddleInv
  <2>3. shown'[<<view, "solved">>] \in BOOLEAN
    BY <1>4, <2>2 DEF Grows, Present
  <2>4. /\ riddleQueue' \in Seq(BOOLEAN) /\ riddleQueue' # <<>>
        /\ riddleQueue'[Len(riddleQueue')] = shown'[<<view, "solved">>]
    BY <2>1, <2>3, LastOfAppend DEF RiddleInv
  <2> QED
    BY <1>1, <1>3, <1>4, <2>2, <2>4, Zenon DEF RiddleInv
<1>5. CASE Riddle \in listening /\ view \notin Changed
  <2>1. riddleQueue' = riddleQueue
    BY <1>5 DEF Announce
  <2>2. view \in Clues /\ view # None
    BY <1>2, <1>5 DEF RiddleInv
  <2>3. shown'[<<view, "solved">>] = shown[<<view, "solved">>]
    BY <1>5, <2>2 DEF Grows
  <2> QED
    BY <1>1, <1>3, <1>5, <2>1, <2>3, Zenon DEF RiddleInv
<1>6. CASE Riddle \notin listening
  <2>1. riddleQueue' = riddleQueue
    BY <1>6 DEF Announce
  <2> QED
    BY <1>1, <1>3, <1>6, <2>1, Zenon DEF RiddleInv
<1> QED
  BY <1>4, <1>5, <1>6

-----------------------------------------------------------------------------
(* What a step leaves alone *)

LEMMA MenuFrame ==
    ASSUME MenuGrows, MenuLast, shown' = shown, UNCHANGED menu,
           Menu \in listening' <=> Menu \in listening
    PROVE  MenuGrows' /\ MenuLast'
BY DEF MenuGrows, MenuLast, IsList, menu

LEMMA PointFrame ==
    ASSUME PointInv, shown' = shown, UNCHANGED map,
           \A c \in Clues : c \in listening' <=> c \in listening
    PROVE  PointInv'
<1> SUFFICES ASSUME NEW c \in Clues PROVE PointsOf(c)'
  BY DEF PointInv
<1>1. Pot(c)' = Pot(c)
  BY DEF map, Pot
<1> QED
  BY <1>1, Zenon DEF PointInv, PointsOf

LEMMA RiddleFrame ==
    ASSUME RiddleInv, shown' = shown,
           riddleQueue' = riddleQueue, view' = view, riddle' = riddle,
           Riddle \in listening' <=> Riddle \in listening
    PROVE  RiddleInv'
BY Zenon DEF RiddleInv

LEMMA BooleanQueue ==
    ASSUME NEW q \in Seq(BOOLEAN)
    PROVE  q \in Seq(BOOLEAN \cup {Absent})
BY SeqMonotonic

LEMMA TakeCall ==
    ASSUME calls \in Seq(Requests), CallsInv, calls # <<>>, calls' = Tail(calls),
           \A who \in listening' :
               who \in listening \/ (Head(calls).op = "listen" /\ who = Head(calls).who)
    PROVE  calls' \in Seq(Requests) /\ CallsInv'
<1>1. PICK n \in Nat : n = Len(calls) - 1
  BY LenProperties, EmptySeq
<1>2. /\ calls' \in Seq(Requests) /\ DOMAIN calls' = 1 .. n /\ DOMAIN calls = 1 .. n + 1
      /\ \A i \in 1 .. n : calls'[i] = calls[i + 1]
      /\ calls[1] = Head(calls)
  BY <1>1, HeadTailProperties, LenProperties
<1>3. ASSUME NEW i \in 1 .. n, Starts(i)'
      PROVE  /\ calls'[i].who \notin listening'
             /\ \A j \in 1 .. n : Starts(j)' /\ calls'[j].who = calls'[i].who => j = i
  <2>1. /\ i + 1 \in DOMAIN calls /\ 1 \in DOMAIN calls /\ i + 1 # 1
        /\ \A j \in 1 .. n : j + 1 \in DOMAIN calls /\ (j + 1 = i + 1 => j = i)
    BY <1>2
  <2>2. \A j \in 1 .. n : Starts(j)' <=> Starts(j + 1)
    BY <1>2 DEF Starts
  <2>3. /\ Starts(i + 1) /\ calls[i + 1].who \notin listening
        /\ \A j \in DOMAIN calls : Starts(j) /\ calls[j].who = calls[i + 1].who => j = i + 1
    BY <1>3, <2>1, <2>2 DEF CallsInv
  <2>4. ~(Head(calls).op = "listen" /\ calls[i + 1].who = Head(calls).who)
    BY <1>2, <2>1, <2>3 DEF Starts
  <2> QED
    BY <1>2, <2>1, <2>2, <2>3, <2>4
<1> QED
  BY <1>2, <1>3 DEF CallsInv

LEMMA AddCall ==
    ASSUME calls \in Seq(Requests), CallsInv,
           NEW req \in Requests, ~(req.op = "listen" /\ req.who \in Clues),
           calls' = Append(calls, req), listening' = listening
    PROVE  calls' \in Seq(Requests) /\ CallsInv'
<1>1. PICK n \in Nat : n = Len(calls)
  BY LenProperties
<1>2. /\ calls' \in Seq(Requests) /\ DOMAIN calls' = 1 .. n + 1 /\ DOMAIN calls = 1 .. n
      /\ \A i \in 1 .. n : calls'[i] = calls[i]
      /\ calls'[n + 1] = req
  BY <1>1, AppendProperties, LenProperties
<1>3. ~Starts(n + 1)'
  BY <1>2 DEF Starts
<1>4. \A i \in 1 .. n + 1 : i \in 1 .. n \/ i = n + 1
  OBVIOUS
<1>5. \A i \in 1 .. n : Starts(i)' <=> Starts(i)
  BY <1>2 DEF Starts
<1> QED
  BY <1>2, <1>3, <1>4, <1>5 DEF CallsInv

LEMMA RequestFacts ==
    ASSUME NEW c \in Clues
    PROVE  /\ Unlock(c) \in Requests /\ Unlock(c).op # "listen"
           /\ Solve(c) \in Requests /\ Solve(c).op # "listen"
BY DEF Requests, Unlock, Solve

LEMMA ListenFacts ==
    ASSUME NEW who \in Listeners, NEW n \in 0 .. MaxOpens
    PROVE  /\ Listen(who, n) \in Requests
           /\ Listen(who, n).op = "listen" /\ Listen(who, n).who = who
BY DEF Requests, Listen

\* Nothing but the documents.
Empty ==
    /\ shown \in Docs /\ Whole /\ crash = "none"
    /\ up = FALSE /\ listening = {} /\ calls = <<>>
    /\ menuQueue = <<>> /\ clues = <<>> /\ table = <<>>
    /\ pointQueue = [c \in Clues |-> <<>>] /\ points = [c \in Clues |-> 0]
    /\ riddleQueue = <<>> /\ view = None /\ riddle = "none" /\ opened = 0

LEMMA EmptyInv == Empty => IInv
<1> SUFFICES ASSUME Empty PROVE IInv
  OBVIOUS
<1>1. TypeOK
  <2>1. <<>> \in Seq(Requests) /\ <<>> \in Seq(Tasks) /\ <<>> \in Seq(Entries) /\ <<>> \in Seq(BOOLEAN)
        /\ <<>> \in Seq(BOOLEAN \cup {Absent})
    BY EmptySeq
  <2>2. pointQueue \in [Clues -> Seq(BOOLEAN)] /\ points \in [Clues -> Nat]
    BY <2>1 DEF Empty
  <2>3. opened \in 0 .. MaxOpens
    BY ViewsAssumption DEF Empty
  <2> QED
    BY <2>1, <2>2, <2>3, Zenon DEF Empty, TypeOK, Docs, Tasks
<1>2. MenuGrows /\ MenuLast
  BY ListingGood DEF Empty, MenuGrows, MenuLast
<1>3. PointInv
  <2> SUFFICES ASSUME NEW c \in Clues PROVE PointsOf(c)
    BY DEF PointInv
  <2>1. points[c] = 0 /\ Cardinality(Falses(pointQueue[c])) = 0
    <3>1. points[c] = 0 /\ pointQueue[c] = <<>>
      BY DEF Empty
    <3>2. <<>> \in Seq(BOOLEAN)
      BY EmptySeq
    <3>3. Cardinality(Falses(<<>>)) = 0
      BY <3>2, FalsesFinite
    <3> QED
      BY <3>1, <3>3
  <2>2. Pot(c) = 0 /\ Pot(c) <= 2 /\ ~(Pot(c) >= 1) /\ Pot(c) # 2
    BY <2>1 DEF Pot
  <2>3. c \notin listening
    BY DEF Empty
  <2> QED
    BY <2>2, <2>3, Zenon DEF PointsOf
<1>4. RiddleInv /\ CallsInv /\ DownInv /\ NeverCrashes /\ Whole
  BY DEF Empty, RiddleInv, CallsInv, DownInv, NeverCrashes
<1> QED
  BY <1>1, <1>2, <1>3, <1>4 DEF IInv

LEMMA InitInv == Init => IInv
<1> SUFFICES ASSUME Init PROVE Empty
  BY EmptyInv
<1>1. shown = [x \in Cells |-> Absent] /\ calls = <<>>
  BY DEF Init, Documents!Init
<1>2. Whole
  BY <1>1, CellsFacts, ViewsAssumption DEF Whole
<1> QED
  BY <1>1, <1>2 DEF Init, Empty, Docs

LEMMA ExitInv ==
    ASSUME IInv, Exit("none")
    PROVE  IInv'
<1>1. shown' = shown /\ calls' = <<>>
  BY DEF Exit, Documents!Forget
<1>2. shown' \in Docs /\ Whole'
  BY <1>1 DEF IInv, TypeOK, Docs, Whole
<1>3. Empty'
  BY <1>1, <1>2 DEF Exit, Empty
<1> QED
  BY <1>3, EmptyInv, PTL

-----------------------------------------------------------------------------
(* The steps of the process and of the worker *)

LEMMA DocumentsInv ==
    ASSUME IInv, Grows, Announce, calls' \in Seq(Requests), CallsInv', up
    PROVE  IInv'
<1>1. /\ TypeOK /\ NeverCrashes /\ Whole /\ DownInv /\ MenuGrows /\ MenuLast /\ PointInv /\ RiddleInv
  BY DEF IInv
<1>2. menuQueue' \in Seq(Tasks) /\ MenuGrows' /\ MenuLast'
  BY <1>1, AnnounceMenu
<1>3. pointQueue' \in [Clues -> Seq(BOOLEAN)] /\ PointInv'
  BY <1>1, AnnouncePoints
<1>4. RiddleInv'
  BY <1>1, AnnounceRiddle
<1>5. riddleQueue' \in Seq(BOOLEAN \cup {Absent})
  BY <1>4, BooleanQueue DEF RiddleInv
<1>6. TypeOK'
  BY <1>1, <1>2, <1>3, <1>5, Zenon DEF TypeOK, Announce, Grows, Docs, Tasks
<1>7. Whole'
  BY DEF Whole, Grows
<1>8. NeverCrashes' /\ DownInv'
  BY <1>1 DEF NeverCrashes, DownInv, Announce
<1> QED
  BY <1>2, <1>3, <1>4, <1>6, <1>7, <1>8 DEF IInv

LEMMA ArriveInv ==
    ASSUME IInv, ArriveDocuments
    PROVE  IInv'
<1>1. shown \in Docs /\ Whole /\ calls \in Seq(Requests) /\ CallsInv
  BY DEF IInv, TypeOK, Docs
<1>2. PICK new \in SUBSET (Clues \ Present(shown)) :
         \E news \in [new \X Fields -> BOOLEAN] : Documents!Arrive(news)
  BY DEF ArriveDocuments
<1>3. PICK news \in [new \X Fields -> BOOLEAN] : Documents!Arrive(news)
  BY <1>2
<1>4. Grows /\ calls' = calls
  BY <1>1, <1>3, ArriveGrows
<1>5. Announce /\ up
  BY DEF ArriveDocuments
<1>6. CallsInv'
  BY <1>1, <1>4, <1>5 DEF CallsInv, Starts, Announce
<1> QED
  BY <1>1, <1>4, <1>5, <1>6, DocumentsInv

LEMMA WorkerUp ==
    ASSUME IInv, calls # <<>>
    PROVE  up
BY DEF IInv, DownInv

LEMMA WriteInv ==
    ASSUME IInv, WorkerWrite
    PROVE  IInv'
<1>1. shown \in Docs /\ Whole /\ calls \in Seq(Requests) /\ CallsInv
  BY DEF IInv, TypeOK, Docs
<1>2. calls # <<>> /\ Head(calls).op = "update" /\ Documents!Take /\ Announce
  BY DEF WorkerWrite
<1>3. Grows /\ calls' = Tail(calls)
  BY <1>1, <1>2, WriteGrows
<1>4. listening' = listening
  BY <1>2 DEF Announce
<1>5. calls' \in Seq(Requests) /\ CallsInv'
  BY <1>1, <1>2, <1>3, <1>4, TakeCall
<1> QED
  BY <1>2, <1>3, <1>5, WorkerUp, DocumentsInv

LEMMA TakeListen ==
    ASSUME IInv, WorkerListen,
           \A who \in listening' : who \in listening \/ who = Head(calls).who
    PROVE  calls' \in Seq(Requests) /\ CallsInv' /\ shown' = shown /\ up /\ UNCHANGED <<up, crash>>
<1>1. calls \in Seq(Requests) /\ CallsInv
  BY DEF IInv, TypeOK
<1>2. calls # <<>> /\ Head(calls).op = "listen" /\ Documents!Take /\ UNCHANGED <<up, crash>>
  BY DEF WorkerListen
<1>3. calls' = Tail(calls) /\ shown' = shown
  BY <1>2 DEF Documents!Take, Documents!Writes
<1>4. up
  BY <1>2, WorkerUp
<1> QED
  BY <1>1, <1>2, <1>3, <1>4, TakeCall

LEMMA StartMenuInv ==
    ASSUME IInv, WorkerListen, Head(calls).who = Menu, StartMenu
    PROVE  IInv'
<1>1. /\ TypeOK /\ NeverCrashes /\ Whole /\ DownInv /\ MenuGrows /\ MenuLast /\ PointInv /\ RiddleInv
  BY DEF IInv
<1>2. listening' = listening \cup {Menu} /\ UNCHANGED <<clues, table, map, reading>>
  BY DEF StartMenu
<1>3. calls' \in Seq(Requests) /\ CallsInv' /\ shown' = shown /\ up /\ UNCHANGED <<up, crash>>
  BY <1>2, TakeListen
<1>4. menuQueue' \in Seq(Tasks) /\ MenuGrows' /\ MenuLast'
  <2>1. CASE Present(shown) # {}
    <3>1. menuQueue' = Append(menuQueue, Snapshot(Listing(shown')))
      BY <2>1, <1>3 DEF StartMenu
    <3> QED
      BY <2>1, <3>1, <1>1, <1>2, <1>3, AppendList
  <2>2. CASE Present(shown) = {}
    <3>1. menuQueue' = menuQueue
      BY <2>2 DEF StartMenu
    <3>2. MenuGrows'
      BY <1>1, <1>2, <1>3, <3>1 DEF MenuGrows, IsList
    <3>3. Listing(shown) = <<>>
      BY <2>2, ListingGood
    <3>4. CASE Menu \in listening
      BY <3>1, <3>2, <3>4, <1>1, <1>2, <1>3 DEF TypeOK, Tasks, MenuLast, IsList
    <3>5. CASE Menu \notin listening
      <4>1. menuQueue = <<>> /\ clues = <<>> /\ table = <<>>
        BY <1>1, <3>5 DEF MenuLast
      <4>2. \A i \in DOMAIN menuQueue' : ~IsList(i)'
        BY <3>1, <4>1, EmptySeq
      <4>3. menuQueue' \in Seq(Tasks) /\ clues' = Listing(shown')
        BY <3>1, <3>3, <4>1, <1>2, <1>3, EmptySeq
      <4>4. MenuLast'
        BY <3>1, <4>1, <4>2, <4>3, <1>2, Zenon DEF MenuLast
      <4> QED
        BY <3>2, <4>3, <4>4
    <3> QED
      BY <3>4, <3>5
  <2> QED
    BY <2>1, <2>2
<1>5. \A who \in Clues \cup {Riddle} : who \in listening' <=> who \in listening
  BY <1>2, ViewsAssumption
<1>6. PointInv'
  BY <1>1, <1>2, <1>3, <1>5, PointFrame
<1>7. RiddleInv'
  BY <1>1, <1>2, <1>3, <1>5, RiddleFrame DEF reading
<1>8. TypeOK'
  <2>1. listening' \subseteq Listeners
    BY <1>1, <1>2 DEF TypeOK, Listeners
  <2> QED
    BY <2>1, <1>1, <1>2, <1>3, <1>4, Zenon DEF TypeOK, Tasks, map, reading
<1>9. NeverCrashes' /\ DownInv' /\ Whole'
  BY <1>1, <1>3 DEF NeverCrashes, DownInv, Whole
<1> QED
  BY <1>3, <1>4, <1>6, <1>7, <1>8, <1>9 DEF IInv

LEMMA StartPointInv ==
    ASSUME IInv, WorkerListen, NEW c \in Clues, Head(calls).who = c, StartPoint(c)
    PROVE  IInv'
<1>1. /\ TypeOK /\ NeverCrashes /\ Whole /\ DownInv /\ CallsInv
      /\ MenuGrows /\ MenuLast /\ PointInv /\ RiddleInv
  BY DEF IInv
<1>2. listening' = listening \cup {c} /\ UNCHANGED <<menu, points, reading>>
  BY DEF StartPoint
<1>3. calls' \in Seq(Requests) /\ CallsInv' /\ shown' = shown /\ up /\ UNCHANGED <<up, crash>>
  BY <1>2, TakeListen
<1>4. c \notin listening
  <2>1. calls # <<>> /\ Head(calls).op = "listen" /\ calls \in Seq(Requests)
    BY <1>1 DEF WorkerListen, TypeOK
  <2>2. 1 \in DOMAIN calls /\ Head(calls) = calls[1]
    BY <2>1, EmptySeq, LenProperties, HeadTailProperties
  <2> QED
    BY <2>1, <2>2, <1>1 DEF CallsInv, Starts
<1>5. pointQueue \in [Clues -> Seq(BOOLEAN)]
  BY <1>1 DEF TypeOK
<1>6. PointsOf(c) /\ Pot(c) = 0 /\ pointQueue[c] \in Seq(BOOLEAN) /\ points[c] \in Nat
  BY <1>1, <1>4, PotFacts DEF PointInv, PointsOf
<1>7. pointQueue'[c] \in Seq(BOOLEAN) /\ PointsOf(c)'
  <2>1. CASE c \notin Present(shown)
    <3>1. pointQueue' = pointQueue
      BY <2>1 DEF StartPoint
    <3>2. Pot(c)' = 0
      BY <3>1, <1>2, <1>6 DEF Pot
    <3>3. shown'[<<c, "Locked">>] # FALSE
      BY <2>1, <1>3 DEF Present
    <3>4. Pot(c)' <= 2 /\ ~(Pot(c)' >= 1) /\ Pot(c)' # 2
      BY <3>2
    <3> QED
      BY <3>1, <3>3, <3>4, <1>2, <1>6, Zenon DEF PointsOf
  <2>2. CASE c \in Present(shown)
    <3> DEFINE x == shown[<<c, "Locked">>]
    <3>1. x \in BOOLEAN /\ pointQueue'[c] = Append(pointQueue[c], x)
      BY <2>2, <1>5 DEF StartPoint, Present
    <3>2. pointQueue'[c] \in Seq(BOOLEAN)
      BY <3>1, <1>6, AppendProperties
    <3>3. c \in listening'
      BY <1>2
    <3>4. CASE x = TRUE
      <4>1. Cardinality(Falses(Append(pointQueue[c], x))) = Cardinality(Falses(pointQueue[c])) + 0
        BY <3>1, <3>4, <1>6, FalsesAppend, Zenon
      <4>2. Pot(c)' = 0
        BY <4>1, <3>1, <1>2, <1>6, FalsesFinite DEF Pot
      <4>3. Pot(c)' <= 2 /\ ~(Pot(c)' >= 1) /\ Pot(c)' # 2
        BY <4>2
      <4>4. shown'[<<c, "Locked">>] # FALSE
        BY <3>4, <1>3, Zenon
      <4> QED
        BY <4>3, <4>4, <3>2, <3>3, Zenon DEF PointsOf
    <3>5. CASE x = FALSE
      <4>1. Cardinality(Falses(Append(pointQueue[c], x))) = Cardinality(Falses(pointQueue[c])) + 1
        BY <3>1, <3>5, <1>6, FalsesAppend, Zenon
      <4>2. Pot(c)' = 1
        BY <4>1, <3>1, <1>2, <1>6, FalsesFinite DEF Pot
      <4>3. Pot(c)' <= 2 /\ Pot(c)' >= 1 /\ Pot(c)' # 2
        BY <4>2
      <4>4. shown'[<<c, "Locked">>] = FALSE
        BY <3>5, <1>3, Zenon
      <4> QED
        BY <4>3, <4>4, <3>2, <3>3, Zenon DEF PointsOf
    <3> QED
      BY <3>1, <3>4, <3>5, Zenon
  <2> QED
    BY <2>1, <2>2
<1>8. \A d \in Clues \ {c} : pointQueue'[d] = pointQueue[d] /\ (d \in listening' <=> d \in listening)
  BY <1>2, <1>5 DEF StartPoint
<1>9. PointInv'
  <2> SUFFICES ASSUME NEW d \in Clues, d # c PROVE PointsOf(d)'
    BY <1>7 DEF PointInv
  <2>1. Pot(d)' = Pot(d)
    BY <1>2, <1>8 DEF Pot
  <2> QED
    BY <2>1, <1>1, <1>3, <1>8, Zenon DEF PointInv, PointsOf
<1>10. pointQueue' \in [Clues -> Seq(BOOLEAN)]
  <2>1. \A d \in Clues : pointQueue'[d] \in Seq(BOOLEAN)
    BY <1>5, <1>7, <1>8
  <2>2. pointQueue' = [pointQueue EXCEPT ![c] = pointQueue'[c]]
    BY <1>5 DEF StartPoint
  <2> QED
    BY <2>1, <2>2, <1>5
<1>11. (Menu \in listening' <=> Menu \in listening) /\ (Riddle \in listening' <=> Riddle \in listening)
  BY <1>2, ViewsAssumption
<1>12. MenuGrows' /\ MenuLast'
  BY <1>1, <1>2, <1>3, <1>11, MenuFrame
<1>13. RiddleInv'
  BY <1>1, <1>2, <1>3, <1>11, RiddleFrame DEF reading
<1>14. TypeOK'
  <2>1. listening' \subseteq Listeners
    BY <1>1, <1>2 DEF TypeOK, Listeners
  <2> QED
    BY <2>1, <1>1, <1>2, <1>3, <1>10, Zenon DEF TypeOK, menu, reading
<1>15. NeverCrashes' /\ DownInv' /\ Whole'
  BY <1>1, <1>3 DEF NeverCrashes, DownInv, Whole
<1> QED
  BY <1>3, <1>9, <1>12, <1>13, <1>14, <1>15 DEF IInv

LEMMA StartRiddleInv ==
    ASSUME IInv, WorkerListen, Head(calls).who = Riddle, StartRiddle(Head(calls).view)
    PROVE  IInv'
<1>1. /\ TypeOK /\ NeverCrashes /\ Whole /\ DownInv /\ MenuGrows /\ MenuLast /\ PointInv /\ RiddleInv
  BY DEF IInv
<1>2. /\ \A who \in listening' : who \in listening \/ who = Riddle
      /\ listening \subseteq listening'
      /\ UNCHANGED <<menu, map, view, riddle, opened>>
  BY DEF StartRiddle
<1>3. calls' \in Seq(Requests) /\ CallsInv' /\ shown' = shown /\ up /\ UNCHANGED <<up, crash>>
  BY <1>2, TakeListen
<1>4. RiddleInv'
  <2>1. CASE view # None /\ Head(calls).view = opened
    <3>1. listening' = listening \cup {Riddle} /\ riddleQueue' = Append(riddleQueue, shown[<<view, "solved">>])
      BY <2>1 DEF StartRiddle
    <3>2. shown[<<view, "solved">>] \in BOOLEAN /\ view \in Present(shown) /\ riddleQueue \in Seq(BOOLEAN)
      BY <2>1, <1>1 DEF RiddleInv, Whole, Present
    <3>3. /\ riddleQueue' \in Seq(BOOLEAN) /\ riddleQueue' # <<>>
          /\ riddleQueue'[Len(riddleQueue')] = shown[<<view, "solved">>]
      BY <3>1, <3>2, LastOfAppend
    <3>4. Riddle \in listening'
      BY <3>1
    <3> QED
      BY <2>1, <3>2, <3>3, <3>4, <1>2, <1>3, Zenon DEF RiddleInv
  <2>2. CASE ~(view # None /\ Head(calls).view = opened)
    <3>1. listening' = listening /\ riddleQueue' = riddleQueue
      BY <2>2 DEF StartRiddle
    <3> QED
      BY <3>1, <1>1, <1>2, <1>3, RiddleFrame
  <2> QED
    BY <2>1, <2>2
<1>5. \A who \in Clues \cup {Menu} : who \in listening' <=> who \in listening
  BY <1>2, ViewsAssumption
<1>6. PointInv'
  BY <1>1, <1>2, <1>3, <1>5, PointFrame
<1>7. MenuGrows' /\ MenuLast'
  BY <1>1, <1>2, <1>3, <1>5, MenuFrame
<1>8. TypeOK'
  <2>1. listening' \subseteq Listeners
    BY <1>1, <1>2 DEF TypeOK, Listeners
  <2>2. riddleQueue' \in Seq(BOOLEAN \cup {Absent})
    BY <1>4, BooleanQueue DEF RiddleInv
  <2> QED
    BY <2>1, <2>2, <1>1, <1>2, <1>3, Zenon DEF TypeOK, menu, map
<1>9. NeverCrashes' /\ DownInv' /\ Whole'
  BY <1>1, <1>3 DEF NeverCrashes, DownInv, Whole
<1> QED
  BY <1>3, <1>4, <1>6, <1>7, <1>8, <1>9 DEF IInv

LEMMA ListenInv ==
    ASSUME IInv, WorkerListen
    PROVE  IInv'
<1>1. CASE Head(calls).who = Menu /\ StartMenu
  BY <1>1, StartMenuInv
<1>2. CASE Head(calls).who \in Clues /\ StartPoint(Head(calls).who)
  BY <1>2, StartPointInv
<1>3. CASE Head(calls).who = Riddle /\ StartRiddle(Head(calls).view)
  BY <1>3, StartRiddleInv
<1> QED
  BY <1>1, <1>2, <1>3 DEF WorkerListen

LEMMA LaunchInv ==
    ASSUME IInv, Launch
    PROVE  IInv'
<1>1. /\ TypeOK /\ NeverCrashes /\ Whole /\ DownInv /\ MenuGrows /\ MenuLast /\ PointInv /\ RiddleInv
  BY DEF IInv
<1>2. up' = TRUE /\ listening = {} /\ UNCHANGED <<shown, listening, menu, map, reading, crash>>
  BY <1>1 DEF Launch, DownInv
<1> DEFINE e(i) == IF i \in Clues THEN Listen(i, 0) ELSE Listen(Menu, 0)
<1>3. NumClues + 1 \in Nat /\ calls' = [i \in 1 .. NumClues + 1 |-> e(i)]
  BY ViewsAssumption DEF Launch
<1>4. 0 \in 0 .. MaxOpens /\ Menu \notin Clues
  BY ViewsAssumption
<1>5. \A i \in 1 .. NumClues + 1 :
         /\ e(i) \in Requests
         /\ e(i).who = IF i \in Clues THEN i ELSE Menu
  BY <1>4, ListenFacts DEF Listeners
<1> HIDE DEF e
<1>6. calls' \in Seq(Requests) /\ DOMAIN calls' = 1 .. NumClues + 1
  BY <1>3, <1>5, IsASeq
<1>7. \A i \in 1 .. NumClues + 1 : calls'[i].who \in Clues => calls'[i].who = i
  BY <1>3, <1>4, <1>5
<1>8. CallsInv'
  BY <1>2, <1>6, <1>7 DEF CallsInv, Starts
<1>9. MenuGrows' /\ MenuLast' /\ PointInv' /\ RiddleInv'
  BY <1>1, <1>2, MenuFrame, PointFrame, RiddleFrame DEF reading
<1>10. TypeOK'
  BY <1>1, <1>2, <1>6, Zenon DEF TypeOK, menu, map, reading
<1>11. NeverCrashes' /\ DownInv' /\ Whole'
  BY <1>1, <1>2 DEF NeverCrashes, DownInv, Whole
<1> QED
  BY <1>8, <1>9, <1>10, <1>11 DEF IInv

-----------------------------------------------------------------------------
(* The steps of the main queue *)

LEMMA MenuUp == IInv /\ (menuQueue # <<>> \/ table # <<>> \/ view # None) => up
BY DEF IInv, DownInv

LEMMA TakeCluesInv ==
    ASSUME IInv, TakeClues
    PROVE  IInv'
<1>1. /\ TypeOK /\ NeverCrashes /\ Whole /\ CallsInv /\ MenuGrows /\ MenuLast /\ PointInv /\ RiddleInv
  BY DEF IInv
<1>2. /\ UNCHANGED <<documents, up, listening, table, map, reading, crash>>
      /\ menuQueue # <<>> /\ Head(menuQueue).task = "clues"
      /\ clues' = Head(menuQueue).list
  BY DEF TakeClues
<1>3. shown' = shown /\ calls' = calls
  BY <1>2 DEF documents
<1>4. PICK n \in Nat : n = Len(menuQueue) - 1
  <2>1. menuQueue \in Seq(Tasks)
    BY <1>1 DEF TypeOK, Tasks
  <2> QED
    BY <2>1, <1>2, EmptySeq, LenProperties
<1>5. /\ menuQueue \in Seq(Tasks) /\ DOMAIN menuQueue = 1 .. n + 1
      /\ 1 \in DOMAIN menuQueue /\ Head(menuQueue) = menuQueue[1]
      /\ Tail(menuQueue) \in Seq(Tasks) /\ Len(Tail(menuQueue)) = n
      /\ \A i \in 1 .. n : Tail(menuQueue)[i] = menuQueue[i + 1]
  BY <1>1, <1>2, <1>4, EmptySeq, LenProperties, HeadTailProperties DEF TypeOK, Tasks
<1>6. IsList(1) /\ clues' = menuQueue[1].list /\ clues' \in Seq(Entries)
  BY <1>2, <1>5, TaskFacts, ElementOfSeq DEF IsList
<1>7. clues' # <<>> /\ Good(shown, clues') /\ Len(clues) <= Len(clues')
  BY <1>1, <1>5, <1>6 DEF MenuGrows
<1>8. PICK k \in Nat \ {0} : k = Len(clues')
  BY <1>6, <1>7, EmptySeq, LenProperties
<1> DEFINE reloads == [i \in DOMAIN clues' |-> Reload]
<1>9. reloads \in Seq(Tasks) /\ Len(reloads) = k /\ \A i \in 1 .. k : reloads[i] = Reload
  <2>1. DOMAIN clues' = 1 .. k /\ Reload \in Tasks
    BY <1>6, <1>8, LenProperties, TaskFacts
  <2>2. reloads = [i \in 1 .. k |-> Reload]
    BY <2>1
  <2> HIDE DEF reloads
  <2> QED
    BY <2>1, <2>2, IsASeq, LenProperties
<1>10. menuQueue' = Tail(menuQueue) \o reloads
  BY DEF TakeClues
<1> HIDE DEF reloads
<1>11. /\ menuQueue' \in Seq(Tasks) /\ Len(menuQueue') = n + k /\ DOMAIN menuQueue' = 1 .. n + k
       /\ \A i \in 1 .. n : menuQueue'[i] = menuQueue[i + 1]
       /\ \A i \in 1 .. n + k : i > n => menuQueue'[i] = Reload
  <2>1. /\ menuQueue' \in Seq(Tasks) /\ Len(menuQueue') = n + k
        /\ \A i \in 1 .. n + k :
              menuQueue'[i] = IF i <= n THEN Tail(menuQueue)[i] ELSE reloads[i - n]
    <3> DEFINE t == Tail(menuQueue)
    <3>1. t \in Seq(Tasks) /\ Len(t) = n /\ reloads \in Seq(Tasks) /\ Len(reloads) = k
      BY <1>5, <1>9
    <3>2. menuQueue' = t \o reloads
      BY <1>10
    <3> HIDE DEF t
    <3>3. /\ t \o reloads \in Seq(Tasks)
          /\ Len(t \o reloads) = Len(t) + Len(reloads)
          /\ \A i \in 1 .. Len(t) + Len(reloads) :
                (t \o reloads)[i] = IF i <= Len(t) THEN t[i] ELSE reloads[i - Len(t)]
      BY <3>1, ConcatProperties, Zenon
    <3>4. \A i \in 1 .. n + k : menuQueue'[i] = IF i <= n THEN t[i] ELSE reloads[i - n]
      BY <3>1, <3>2, <3>3
    <3> QED
      BY <3>1, <3>2, <3>3, <3>4 DEF t
  <2>2. DOMAIN menuQueue' = 1 .. n + k
    BY <2>1, LenProperties
  <2>3. ASSUME NEW i \in 1 .. n
        PROVE  menuQueue'[i] = menuQueue[i + 1]
    BY <2>1, <1>5, <1>8
  <2>4. ASSUME NEW i \in 1 .. n + k, i > n
        PROVE  menuQueue'[i] = Reload
    <3>1. i - n \in 1 .. k /\ ~ i <= n
      BY <2>4, <1>8
    <3> QED
      BY <3>1, <2>1, <1>9
  <2> QED
    BY <2>1, <2>2, <2>3, <2>4
<1>12. \A i \in 1 .. n + k : IsList(i)' <=> i \in 1 .. n /\ IsList(i + 1)
  <2>1. \A i \in 1 .. n + k : i \in 1 .. n \/ i > n
    BY <1>8
  <2> QED
    BY <2>1, <1>5, <1>11, TaskFacts DEF IsList
<1>13. MenuGrows'
  <2>1. Good(shown', table') /\ Len(table') <= Len(clues')
    <3>1. Good(shown, table) /\ Len(table) <= Len(clues)
      BY <1>1 DEF MenuGrows
    <3>2. Len(table) \in Nat /\ Len(clues) \in Nat
      BY <1>1, LenProperties DEF TypeOK
    <3> QED
      BY <3>1, <3>2, <1>2, <1>3, <1>7, <1>8
  <2>2. ASSUME NEW i \in 1 .. n + k, IsList(i)'
        PROVE  /\ Good(shown, menuQueue'[i].list) /\ menuQueue'[i].list # <<>>
               /\ Len(clues') <= Len(menuQueue'[i].list)
               /\ \A j \in 1 .. n + k :
                     IsList(j)' /\ i < j => Len(menuQueue'[i].list) <= Len(menuQueue'[j].list)
    <3>1. i \in 1 .. n /\ IsList(i + 1) /\ i + 1 \in DOMAIN menuQueue /\ menuQueue'[i] = menuQueue[i + 1]
      BY <2>2, <1>5, <1>11, <1>12
    <3>2. /\ Good(shown, menuQueue'[i].list) /\ menuQueue'[i].list # <<>>
          /\ Len(clues') <= Len(menuQueue'[i].list)
      <4>1. 1 < i + 1
        BY <3>1
      <4> QED
        BY <4>1, <3>1, <1>1, <1>5, <1>6 DEF MenuGrows
    <3>3. ASSUME NEW j \in 1 .. n + k, IsList(j)', i < j
          PROVE  Len(menuQueue'[i].list) <= Len(menuQueue'[j].list)
      <4>1. j \in 1 .. n /\ IsList(j + 1) /\ j + 1 \in DOMAIN menuQueue /\ menuQueue'[j] = menuQueue[j + 1]
        BY <3>3, <1>5, <1>11, <1>12
      <4>2. i + 1 < j + 1
        BY <3>3, <3>1, <4>1
      <4> QED
        BY <4>1, <4>2, <3>1, <1>1 DEF MenuGrows
    <3> QED
      BY <3>2, <3>3
  <2> QED
    BY <2>1, <2>2, <1>3, <1>7, <1>11 DEF MenuGrows
<1>14. MenuLast'
  <2>1. menuQueue' # <<>>
    BY <1>8, <1>11, EmptySeq
  <2>2. Menu \in listening
    BY <1>1, <1>2 DEF MenuLast
  <2>3. CASE /\ clues = Listing(shown)
             /\ \A i \in DOMAIN menuQueue : ~IsList(i)
    BY <2>3, <1>5, <1>6
  <2>4. ASSUME NEW i \in DOMAIN menuQueue,
               IsList(i), menuQueue[i].list = Listing(shown),
               \A j \in DOMAIN menuQueue : i < j => ~IsList(j)
        PROVE  MenuLast'
    <3>1. CASE i = 1
      <4>1. \A j \in 1 .. n : 1 < j + 1 /\ j + 1 \in DOMAIN menuQueue
        BY <1>5
      <4>2. \A j \in DOMAIN menuQueue' : ~IsList(j)'
        BY <4>1, <3>1, <2>4, <1>11, <1>12
      <4>3. clues' = Listing(shown')
        BY <3>1, <2>4, <1>3, <1>6
      <4> QED
        BY <4>2, <4>3, <2>1, <2>2, <1>2, Zenon DEF MenuLast
    <3>2. CASE i # 1
      <4>1. PICK m \in 1 .. n : i = m + 1
        <5>1. i - 1 \in 1 .. n /\ i = (i - 1) + 1
          BY <3>2, <1>5
        <5> QED
          BY <5>1
      <4>2. m \in DOMAIN menuQueue' /\ IsList(m)' /\ menuQueue'[m].list = Listing(shown')
        BY <4>1, <2>4, <1>3, <1>8, <1>11, <1>12
      <4>3. ASSUME NEW j \in DOMAIN menuQueue', m < j PROVE ~IsList(j)'
        <5>1. j \in 1 .. n => i < j + 1 /\ j + 1 \in DOMAIN menuQueue
          BY <4>1, <4>3, <1>5
        <5> QED
          BY <5>1, <2>4, <1>11, <1>12
      <4> QED
        BY <4>2, <4>3, <2>1, <2>2, <1>2, Zenon DEF MenuLast
    <3> QED
      BY <3>1, <3>2
  <2> QED
    BY <2>2, <2>3, <2>4, <1>1 DEF MenuLast
<1>15. PointInv' /\ RiddleInv' /\ CallsInv'
  BY <1>1, <1>2, <1>3, PointFrame, RiddleFrame DEF reading, CallsInv, Starts
<1>16. TypeOK'
  BY <1>1, <1>2, <1>3, <1>6, <1>11, Zenon DEF TypeOK, Tasks, map, reading
<1>17. NeverCrashes' /\ DownInv' /\ Whole'
  BY <1>1, <1>2, <1>3, MenuUp DEF NeverCrashes, DownInv, Whole
<1> QED
  BY <1>13, <1>14, <1>15, <1>16, <1>17 DEF IInv

LEMMA TakeReloadInv ==
    ASSUME IInv, TakeReload
    PROVE  IInv'
<1>1. /\ TypeOK /\ NeverCrashes /\ Whole /\ CallsInv /\ MenuGrows /\ MenuLast /\ PointInv /\ RiddleInv
  BY DEF IInv
<1>2. /\ UNCHANGED <<documents, up, listening, clues, map, reading, crash>>
      /\ menuQueue # <<>> /\ Head(menuQueue).task = "reload"
      /\ table' = clues /\ menuQueue' = Tail(menuQueue)
  BY DEF TakeReload
<1>3. shown' = shown /\ calls' = calls
  BY <1>2 DEF documents
<1>4. PICK n \in Nat : n = Len(menuQueue) - 1
  <2>1. menuQueue \in Seq(Tasks)
    BY <1>1 DEF TypeOK, Tasks
  <2> QED
    BY <2>1, <1>2, EmptySeq, LenProperties
<1>5. /\ menuQueue' \in Seq(Tasks) /\ DOMAIN menuQueue = 1 .. n + 1 /\ DOMAIN menuQueue' = 1 .. n
      /\ \A i \in 1 .. n : menuQueue'[i] = menuQueue[i + 1] /\ i + 1 \in DOMAIN menuQueue
      /\ Head(menuQueue) = menuQueue[1]
  BY <1>1, <1>2, <1>4, EmptySeq, LenProperties, HeadTailProperties DEF TypeOK, Tasks
<1>6. ~IsList(1)
  BY <1>2, <1>5 DEF IsList
<1>7. \A i \in 1 .. n : IsList(i)' <=> IsList(i + 1)
  BY <1>5 DEF IsList
<1>8. Len(clues) \in Nat
  BY <1>1, LenProperties DEF TypeOK
<1>9. MenuGrows'
  <2>1. Good(shown', clues') /\ Good(shown', table') /\ Len(table') <= Len(clues')
    BY <1>1, <1>2, <1>3, <1>8 DEF MenuGrows
  <2>2. ASSUME NEW i \in 1 .. n, IsList(i)'
        PROVE  /\ Good(shown, menuQueue'[i].list) /\ menuQueue'[i].list # <<>>
               /\ Len(clues) <= Len(menuQueue'[i].list)
               /\ \A j \in 1 .. n :
                     IsList(j)' /\ i < j => Len(menuQueue'[i].list) <= Len(menuQueue'[j].list)
    <3>1. IsList(i + 1) /\ i + 1 \in DOMAIN menuQueue /\ menuQueue'[i] = menuQueue[i + 1]
      BY <2>2, <1>5, <1>7
    <3>2. ASSUME NEW j \in 1 .. n, IsList(j)', i < j
          PROVE  Len(menuQueue'[i].list) <= Len(menuQueue'[j].list)
      <4>1. IsList(j + 1) /\ j + 1 \in DOMAIN menuQueue /\ menuQueue'[j] = menuQueue[j + 1] /\ i + 1 < j + 1
        BY <3>2, <1>5, <1>7
      <4> QED
        BY <4>1, <3>1, <1>1 DEF MenuGrows
    <3> QED
      BY <3>1, <3>2, <1>1 DEF MenuGrows
  <2> QED
    BY <2>1, <2>2, <1>2, <1>3, <1>5 DEF MenuGrows
<1>10. MenuLast'
  <2>1. Menu \in listening
    BY <1>1, <1>2 DEF MenuLast
  <2>2. CASE /\ clues = Listing(shown)
             /\ \A i \in DOMAIN menuQueue : ~IsList(i)
    <3>1. \A i \in DOMAIN menuQueue' : ~IsList(i)'
      BY <2>2, <1>5, <1>7
    <3> QED
      BY <2>1, <2>2, <3>1, <1>2, <1>3, Zenon DEF MenuLast
  <2>3. ASSUME NEW i \in DOMAIN menuQueue,
               IsList(i), menuQueue[i].list = Listing(shown),
               \A j \in DOMAIN menuQueue : i < j => ~IsList(j)
        PROVE  MenuLast'
    <3>1. PICK m \in 1 .. n : i = m + 1
      <4>1. i # 1
        BY <2>3, <1>6
      <4>2. i - 1 \in 1 .. n /\ i = (i - 1) + 1
        BY <4>1, <1>5
      <4> QED
        BY <4>2
    <3>2. m \in DOMAIN menuQueue' /\ IsList(m)' /\ menuQueue'[m].list = Listing(shown')
      BY <3>1, <2>3, <1>3, <1>5, <1>7
    <3>3. ASSUME NEW j \in DOMAIN menuQueue', m < j PROVE ~IsList(j)'
      <4>1. j \in 1 .. n /\ i < j + 1 /\ j + 1 \in DOMAIN menuQueue
        BY <3>1, <3>3, <1>5
      <4> QED
        BY <4>1, <2>3, <1>7
    <3> QED
      BY <2>1, <3>2, <3>3, <1>2, Zenon DEF MenuLast
  <2> QED
    BY <2>1, <2>2, <2>3, <1>1 DEF MenuLast
<1>11. PointInv' /\ RiddleInv' /\ CallsInv'
  BY <1>1, <1>2, <1>3, PointFrame, RiddleFrame DEF reading, CallsInv, Starts
<1>12. TypeOK'
  BY <1>1, <1>2, <1>3, <1>5, Zenon DEF TypeOK, Tasks, map, reading
<1>13. NeverCrashes' /\ DownInv' /\ Whole'
  BY <1>1, <1>2, <1>3, MenuUp DEF NeverCrashes, DownInv, Whole
<1> QED
  BY <1>9, <1>10, <1>11, <1>12, <1>13 DEF IInv

\* The list is never shorter than the table.
LEMMA RowFacts ==
    ASSUME IInv, NEW r \in DOMAIN table
    PROVE  /\ r \in DOMAIN clues /\ clues[r] \in Entries
           /\ table \in Seq(Entries) /\ table # <<>>
           /\ table[r].name \in Present(shown) /\ clues[r].name \in Present(shown)
<1>1. table \in Seq(Entries) /\ clues \in Seq(Entries) /\ Len(table) <= Len(clues)
  BY DEF IInv, TypeOK, MenuGrows
<1>2. r \in DOMAIN clues
  BY <1>1, LenProperties
<1>3. Good(shown, clues) /\ Good(shown, table)
  BY DEF IInv, MenuGrows
<1>4. clues[r] \in Entries
  BY <1>1, <1>2, LenProperties, ElementOfSeq
<1> QED
  BY <1>1, <1>2, <1>3, <1>4, EmptySeq DEF Good

LEMMA ScrollInv ==
    ASSUME IInv, NEW r \in Clues, Scroll(r)
    PROVE  IInv'
<1>1. /\ TypeOK /\ NeverCrashes /\ Whole /\ CallsInv /\ MenuGrows /\ MenuLast /\ PointInv /\ RiddleInv
  BY DEF IInv
<1>2. r \in DOMAIN table /\ r \in DOMAIN clues /\ clues[r] \in Entries /\ table # <<>>
      /\ clues[r].name \in Present(shown) /\ table \in Seq(Entries)
  BY RowFacts DEF Scroll
<1>3. /\ table' = [table EXCEPT ![r] = clues[r]]
      /\ UNCHANGED <<documents, up, listening, menuQueue, clues, map, reading, crash>>
  BY <1>2 DEF Scroll
<1>4. shown' = shown /\ calls' = calls
  BY <1>3 DEF documents
<1>5. table' \in Seq(Entries) /\ Len(table') = Len(table) /\ DOMAIN table' = DOMAIN table
  BY <1>2, <1>3, ExceptSeq, LenProperties
<1>6. \A q \in DOMAIN table : table'[q].name \in Present(shown)
  <2>1. Good(shown, table)
    BY <1>1 DEF MenuGrows
  <2> QED
    BY <2>1, <1>2, <1>3 DEF Good
<1>7. MenuGrows'
  <2>1. Good(shown', table')
    BY <1>1, <1>4, <1>5, <1>6 DEF MenuGrows, Good
  <2> QED
    BY <2>1, <1>1, <1>3, <1>4, <1>5 DEF MenuGrows, IsList
<1>8. MenuLast'
  <2>1. ASSUME menuQueue = <<>> PROVE table' = clues
    <3>1. table = clues
      BY <2>1, <1>1 DEF MenuLast
    <3> QED
      BY <3>1, <1>2, <1>3
  <2> QED
    BY <2>1, <1>1, <1>3, <1>4 DEF MenuLast, IsList
<1>9. PointInv' /\ RiddleInv' /\ CallsInv'
  BY <1>1, <1>3, <1>4, PointFrame, RiddleFrame DEF reading, CallsInv, Starts
<1>10. TypeOK'
  BY <1>1, <1>3, <1>4, <1>5, Zenon DEF TypeOK, map, reading
<1>11. NeverCrashes' /\ DownInv' /\ Whole'
  BY <1>1, <1>2, <1>3, <1>4, MenuUp DEF NeverCrashes, DownInv, Whole
<1> QED
  BY <1>7, <1>8, <1>9, <1>10, <1>11 DEF IInv

LEMMA SelectInv ==
    ASSUME IInv, NEW r \in Clues, Select(r)
    PROVE  IInv'
<1>1. /\ TypeOK /\ NeverCrashes /\ Whole /\ CallsInv /\ MenuGrows /\ MenuLast /\ PointInv /\ RiddleInv
  BY DEF IInv
<1>2. r \in DOMAIN table /\ r \in DOMAIN clues /\ table[r].name \in Present(shown) /\ table # <<>> /\ view = None
  BY RowFacts DEF Select
<1>3. /\ view' = table[r].name /\ riddle' = "blank" /\ opened < MaxOpens /\ opened' = opened + 1
      /\ Documents!Call(Listen(Riddle, opened'))
      /\ UNCHANGED <<up, listening, menu, map, riddleQueue, crash>>
  BY <1>2 DEF Select
<1>4. shown' = shown /\ calls' = Append(calls, Listen(Riddle, opened'))
  BY <1>3 DEF Documents!Call
<1>5. opened' \in 0 .. MaxOpens
  BY <1>1, <1>3, ViewsAssumption DEF TypeOK
<1>6. calls' \in Seq(Requests) /\ CallsInv'
  <2>1. Riddle \in Listeners /\ Riddle \notin Clues
    BY ViewsAssumption DEF Listeners
  <2>2. Listen(Riddle, opened') \in Requests /\ Listen(Riddle, opened').who = Riddle
    BY <2>1, <1>5, ListenFacts
  <2> QED
    BY <2>1, <2>2, <1>1, <1>3, <1>4, AddCall DEF TypeOK
<1>7. Riddle \notin listening /\ riddleQueue = <<>>
  BY <1>1, <1>2 DEF RiddleInv
<1>8. RiddleInv'
  BY <1>1, <1>2, <1>3, <1>4, <1>7, Zenon DEF RiddleInv
<1>9. MenuGrows' /\ MenuLast' /\ PointInv'
  BY <1>1, <1>3, <1>4, MenuFrame, PointFrame
<1>10. TypeOK'
  <2>1. view' \in Clues \cup {None}
    BY <1>2, <1>3 DEF Present
  <2> QED
    BY <2>1, <1>1, <1>3, <1>4, <1>5, <1>6, Zenon DEF TypeOK, menu, map
<1>11. NeverCrashes' /\ DownInv' /\ Whole'
  BY <1>1, <1>2, <1>3, <1>4, MenuUp DEF NeverCrashes, DownInv, Whole
<1> QED
  BY <1>6, <1>8, <1>9, <1>10, <1>11 DEF IInv

LEMMA TakePointInv ==
    ASSUME IInv, NEW c \in Clues, TakePoint(c)
    PROVE  IInv'
<1>1. /\ TypeOK /\ NeverCrashes /\ Whole /\ DownInv /\ CallsInv
      /\ MenuGrows /\ MenuLast /\ PointInv /\ RiddleInv
  BY DEF IInv
<1>2. /\ UNCHANGED <<documents, up, listening, menu, reading, crash>>
      /\ pointQueue[c] # <<>>
      /\ points' = IF Head(pointQueue[c]) THEN points ELSE [points EXCEPT ![c] = @ + 1]
      /\ pointQueue' = [pointQueue EXCEPT ![c] = Tail(@)]
  BY DEF TakePoint
<1>3. shown' = shown /\ calls' = calls
  BY <1>2 DEF documents
<1>4. pointQueue[c] \in Seq(BOOLEAN) /\ points[c] \in Nat /\ Pot(c) \in Nat
  BY <1>1, PotFacts
<1>5. pointQueue \in [Clues -> Seq(BOOLEAN)] /\ points \in [Clues -> Nat]
  BY <1>1 DEF TypeOK
<1>6. Tail(pointQueue[c]) \in Seq(BOOLEAN) /\ Head(pointQueue[c]) \in BOOLEAN
  BY <1>2, <1>4, FalsesTail
<1>7. pointQueue' \in [Clues -> Seq(BOOLEAN)] /\ pointQueue'[c] = Tail(pointQueue[c])
      /\ \A d \in Clues \ {c} : pointQueue'[d] = pointQueue[d]
  BY <1>2, <1>5, <1>6
<1>8. points' \in [Clues -> Nat] /\ \A d \in Clues \ {c} : points'[d] = points[d]
  <2>1. points' = points \/ points' = [points EXCEPT ![c] = points[c] + 1]
    BY <1>2, Zenon
  <2> QED
    BY <2>1, <1>4, <1>5
<1>9. Pot(c)' = Pot(c)
  <2>1. Cardinality(Falses(Tail(pointQueue[c]))) \in Nat
    BY <1>6, FalsesFinite
  <2>2. CASE Head(pointQueue[c])
    <3>1. points' = points
      BY <1>2, <2>2
    <3>2. Cardinality(Falses(pointQueue[c])) = Cardinality(Falses(Tail(pointQueue[c]))) + 0
      BY <1>2, <1>4, <2>2, FalsesTail, Zenon
    <3>3. points'[c] = points[c] /\ Cardinality(Falses(pointQueue'[c])) = Cardinality(Falses(pointQueue[c]))
      BY <3>1, <3>2, <2>1, <1>7
    <3> QED
      BY <3>3, Zenon DEF Pot
  <2>3. CASE ~Head(pointQueue[c])
    <3>1. points'[c] = points[c] + 1
      <4>1. points' = [points EXCEPT ![c] = points[c] + 1]
        BY <1>2, <2>3, Zenon
      <4> QED
        BY <4>1, <1>5
    <3>2. Cardinality(Falses(pointQueue[c])) = Cardinality(Falses(Tail(pointQueue[c]))) + 1
      BY <1>2, <1>4, <2>3, FalsesTail, Zenon
    <3>3. Cardinality(Falses(pointQueue'[c])) = Cardinality(Falses(Tail(pointQueue[c])))
      BY <1>7, Zenon
    <3>4. /\ Pot(c)' = points'[c] + Cardinality(Falses(pointQueue'[c]))
          /\ Pot(c) = points[c] + Cardinality(Falses(pointQueue[c]))
      BY Zenon DEF Pot
    <3>5. \A a, b \in Nat : (a + 1) + b = a + (b + 1)
      OBVIOUS
    <3>6. (points[c] + 1) + Cardinality(Falses(Tail(pointQueue[c])))
             = points[c] + (Cardinality(Falses(Tail(pointQueue[c]))) + 1)
      BY <3>5, <2>1, <1>4, Zenon
    <3> QED
      BY <3>1, <3>2, <3>3, <3>4, <3>6, Zenon
  <2> QED
    BY <2>2, <2>3
<1>10. PointInv'
  <2> SUFFICES ASSUME NEW d \in Clues PROVE PointsOf(d)'
    BY DEF PointInv
  <2>1. Pot(d)' = Pot(d)
    BY <1>7, <1>8, <1>9 DEF Pot
  <2> QED
    BY <2>1, <1>1, <1>2, <1>3, Zenon DEF PointInv, PointsOf
<1>11. MenuGrows' /\ MenuLast' /\ RiddleInv' /\ CallsInv'
  BY <1>1, <1>2, <1>3, MenuFrame, RiddleFrame DEF reading, CallsInv, Starts
<1>12. TypeOK'
  BY <1>1, <1>2, <1>3, <1>7, <1>8, Zenon DEF TypeOK, menu, reading
<1>13. NeverCrashes' /\ DownInv' /\ Whole'
  BY <1>1, <1>2, <1>3 DEF NeverCrashes, DownInv, Whole, menu, reading
<1> QED
  BY <1>10, <1>11, <1>12, <1>13 DEF IInv

LEMMA TakeRiddleInv ==
    ASSUME IInv, TakeRiddle
    PROVE  IInv'
<1>1. /\ TypeOK /\ NeverCrashes /\ Whole /\ DownInv /\ CallsInv
      /\ MenuGrows /\ MenuLast /\ PointInv /\ RiddleInv
  BY DEF IInv
<1>2. riddleQueue \in Seq(BOOLEAN) /\ riddleQueue # <<>>
  BY <1>1 DEF RiddleInv, TakeRiddle
<1>3. PICK n \in Nat : n = Len(riddleQueue) - 1
  BY <1>2, EmptySeq, LenProperties
<1>4. /\ Head(riddleQueue) \in BOOLEAN /\ Head(riddleQueue) = riddleQueue[1]
      /\ Tail(riddleQueue) \in Seq(BOOLEAN) /\ Len(Tail(riddleQueue)) = n /\ Len(riddleQueue) = n + 1
      /\ \A i \in 1 .. n : Tail(riddleQueue)[i] = riddleQueue[i + 1]
  BY <1>2, <1>3, HeadTailProperties, LenProperties
<1>5. Head(riddleQueue) # Absent
  BY <1>4, ViewsAssumption
<1>6. /\ riddle' = IF Head(riddleQueue) THEN "solved" ELSE "unsolved"
      /\ riddleQueue' = Tail(riddleQueue)
      /\ UNCHANGED <<documents, up, listening, menu, map, view, opened, crash>>
  BY <1>5, Zenon DEF TakeRiddle
<1>7. shown' = shown /\ calls' = calls
  BY <1>6 DEF documents
<1>8. RiddleInv'
  <2>1. Riddle \in listening /\ riddleQueue[Len(riddleQueue)] = shown[<<view, "solved">>]
    BY <1>1, <1>2 DEF RiddleInv
  <2>2. CASE n = 0
    <3>1. Head(riddleQueue) = shown[<<view, "solved">>] /\ riddleQueue' = <<>>
      <4>1. Len(riddleQueue) = 1
        BY <2>2, <1>4
      <4>2. riddleQueue' \in Seq(BOOLEAN) /\ Len(riddleQueue') = 0
        BY <2>2, <1>4, <1>6
      <4>3. riddleQueue' = <<>>
        BY <4>2, EmptySeq
      <4> QED
        BY <4>1, <4>3, <2>1, <1>4, Zenon
    <3> QED
      BY <3>1, <2>1, <1>1, <1>4, <1>6, <1>7, Zenon DEF RiddleInv
  <2>3. CASE n # 0
    <3>1. Len(riddleQueue') = n /\ n \in 1 .. n /\ riddleQueue' # <<>>
      <4>1. Len(riddleQueue') = n /\ n \in 1 .. n
        <5>1. \A m \in Nat : m # 0 => m \in 1 .. m
          OBVIOUS
        <5> QED
          BY <5>1, <1>3, <1>4, <1>6, <2>3
      <4>2. Len(<<>>) = 0
        BY EmptySeq
      <4> QED
        BY <4>1, <4>2, <2>3, Zenon
    <3>2. riddleQueue'[Len(riddleQueue')] = riddleQueue[Len(riddleQueue)]
      BY <3>1, <1>4, <1>6
    <3> QED
      BY <3>1, <3>2, <2>1, <1>1, <1>4, <1>6, <1>7, Zenon DEF RiddleInv
  <2> QED
    BY <2>2, <2>3
<1>9. MenuGrows' /\ MenuLast' /\ PointInv' /\ CallsInv'
  BY <1>1, <1>6, <1>7, MenuFrame, PointFrame DEF CallsInv, Starts
<1>10. TypeOK'
  <2>1. riddleQueue' \in Seq(BOOLEAN \cup {Absent})
    BY <1>4, <1>6, BooleanQueue
  <2>2. riddle' \in {"none", "blank", "unsolved", "solved"}
    BY <1>6
  <2> QED
    BY <2>1, <2>2, <1>1, <1>6, <1>7, Zenon DEF TypeOK, menu, map
<1>11. NeverCrashes' /\ DownInv' /\ Whole'
  BY <1>1, <1>6, <1>7 DEF NeverCrashes, DownInv, Whole, menu
<1> QED
  BY <1>8, <1>9, <1>10, <1>11 DEF IInv

\* A call of the application that starts no listener of a clue.
LEMMA UpdateInv ==
    ASSUME IInv, up, NEW req \in Requests, req.op # "listen", Documents!Call(req),
           UNCHANGED <<up, listening, menu, map, reading, crash>>
    PROVE  IInv'
<1>1. /\ TypeOK /\ NeverCrashes /\ Whole /\ CallsInv /\ MenuGrows /\ MenuLast /\ PointInv /\ RiddleInv
  BY DEF IInv
<1>2. shown' = shown /\ calls' = Append(calls, req)
  BY DEF Documents!Call
<1>3. calls' \in Seq(Requests) /\ CallsInv'
  BY <1>1, <1>2, AddCall DEF TypeOK
<1>4. MenuGrows' /\ MenuLast' /\ PointInv' /\ RiddleInv'
  BY <1>1, <1>2, MenuFrame, PointFrame, RiddleFrame DEF reading
<1>5. TypeOK'
  BY <1>1, <1>2, <1>3, Zenon DEF TypeOK, menu, map, reading
<1>6. NeverCrashes' /\ DownInv' /\ Whole'
  BY <1>1, <1>2 DEF NeverCrashes, DownInv, Whole
<1> QED
  BY <1>3, <1>4, <1>5, <1>6 DEF IInv

LEMMA CheckAnswerInv ==
    ASSUME IInv, CheckAnswer
    PROVE  IInv'
<1>1. view \in Clues /\ up
  BY MenuUp DEF IInv, TypeOK, CheckAnswer
<1>2. Documents!Call(Solve(view)) /\ UNCHANGED <<up, listening, menu, map, reading, crash>>
  BY DEF CheckAnswer
<1> QED
  BY <1>1, <1>2, RequestFacts, UpdateInv

LEMMA ScanInv ==
    ASSUME IInv, NEW c \in Clues, Scan(c)
    PROVE  IInv'
<1>1. up /\ Documents!Call(Unlock(c)) /\ UNCHANGED <<up, listening, menu, map, reading, crash>>
  BY DEF Scan
<1> QED
  BY <1>1, RequestFacts, UpdateInv

LEMMA CloseInv ==
    ASSUME IInv, Close
    PROVE  IInv'
<1>1. /\ TypeOK /\ NeverCrashes /\ Whole /\ CallsInv /\ MenuGrows /\ MenuLast /\ PointInv /\ RiddleInv
  BY DEF IInv
<1>2. /\ view # None /\ view' = None /\ riddle' = "none" /\ riddleQueue' = <<>>
      /\ listening' = listening \ {Riddle}
      /\ UNCHANGED <<documents, up, menu, map, opened, crash>>
  BY DEF Close
<1>3. shown' = shown /\ calls' = calls
  BY <1>2 DEF documents
<1>4. \A who \in Clues \cup {Menu} : who \in listening' <=> who \in listening
  BY <1>2, ViewsAssumption
<1>5. RiddleInv'
  BY <1>2, EmptySeq DEF RiddleInv
<1>6. MenuGrows' /\ MenuLast' /\ PointInv'
  BY <1>1, <1>2, <1>3, <1>4, MenuFrame, PointFrame
<1>7. CallsInv'
  BY <1>1, <1>2, <1>3 DEF CallsInv, Starts
<1>8. TypeOK'
  <2>1. listening' \subseteq Listeners /\ riddleQueue' \in Seq(BOOLEAN \cup {Absent})
    BY <1>1, <1>2, EmptySeq DEF TypeOK
  <2> QED
    BY <2>1, <1>1, <1>2, <1>3, Zenon DEF TypeOK, menu, map
<1>9. NeverCrashes' /\ DownInv' /\ Whole'
  BY <1>1, <1>2, <1>3, MenuUp DEF NeverCrashes, DownInv, Whole
<1> QED
  BY <1>5, <1>6, <1>7, <1>8, <1>9 DEF IInv

-----------------------------------------------------------------------------
LEMMA StepInv == IInv /\ [Next]_vars => IInv'
<1> SUFFICES ASSUME IInv, [Next]_vars PROVE IInv'
  OBVIOUS
<1>1. CASE Launch
  BY <1>1, LaunchInv
<1>2. CASE Kill
  BY <1>2, ExitInv DEF Kill
<1>3. CASE ArriveDocuments
  BY <1>3, ArriveInv
<1>4. CASE WorkerStep
  BY <1>4, WriteInv, ListenInv DEF WorkerStep
<1>5. CASE MenuStep
  BY <1>5, TakeCluesInv, TakeReloadInv DEF MenuStep
<1>6. CASE TakeRiddle
  BY <1>6, TakeRiddleInv
<1>7. CASE \E c \in Clues : TakePoint(c) \/ Scan(c)
  BY <1>7, TakePointInv, ScanInv
<1>8. CASE \E r \in Clues : Scroll(r) \/ Select(r)
  BY <1>8, ScrollInv, SelectInv
<1>9. CASE CheckAnswer
  BY <1>9, CheckAnswerInv
<1>10. CASE Close
  BY <1>10, CloseInv
<1>11. CASE UNCHANGED vars
  <2>1. /\ shown' = shown /\ calls' = calls /\ up' = up /\ listening' = listening /\ crash' = crash
        /\ UNCHANGED menu /\ UNCHANGED map /\ UNCHANGED reading
    BY <1>11 DEF vars, documents
  <2>2. /\ TypeOK /\ NeverCrashes /\ Whole /\ DownInv /\ CallsInv
        /\ MenuGrows /\ MenuLast /\ PointInv /\ RiddleInv
    BY DEF IInv
  <2>3. MenuGrows' /\ MenuLast' /\ PointInv' /\ RiddleInv'
    BY <2>1, <2>2, MenuFrame, PointFrame, RiddleFrame DEF reading
  <2>4. TypeOK'
    BY <2>1, <2>2, Zenon DEF TypeOK, menu, map, reading
  <2>5. NeverCrashes' /\ DownInv' /\ Whole' /\ CallsInv'
    BY <2>1, <2>2 DEF NeverCrashes, DownInv, Whole, CallsInv, Starts, menu, reading
  <2> QED
    BY <2>3, <2>4, <2>5 DEF IInv
<1> QED
  BY <1>1, <1>2, <1>3, <1>4, <1>5, <1>6, <1>7, <1>8, <1>9, <1>10, <1>11 DEF Next

LEMMA AlwaysIInv == Spec => []IInv
BY InitInv, StepInv, PTL DEF Spec

(* Every queue, list and counter keeps its type; in particular no callback of a clue
   comes without its document. *)
THEOREM ViewsTypeCorrect == Spec => []TypeOK
<1>1. IInv => TypeOK
  BY DEF IInv
<1> QED
  BY <1>1, AlwaysIInv, PTL

(* getClues replaces the list before the table is reloaded, and the table is never
   asked for a row beyond it; getRiddle always has the document it takes apart. *)
THEOREM ViewsNeverCrash == Spec => []NeverCrashes
<1>1. IInv => NeverCrashes
  BY DEF IInv
<1> QED
  BY <1>1, AlwaysIInv, PTL

(* showpoints puts the points of unlocked clues on the map, and no others. *)
THEOREM MapStaysTrue == Spec => []MapIsTrue
<1>1. IInv => MapIsTrue
  <2> SUFFICES ASSUME IInv, NEW c \in Clues, points[c] > 0
               PROVE  shown[<<c, "Locked">>] = FALSE
    BY DEF MapIsTrue, onMap
  <2>1. points[c] \in Nat /\ Cardinality(Falses(pointQueue[c])) \in Nat
    BY PotFacts DEF IInv
  <2>2. Pot(c) >= 1
    BY <2>1 DEF Pot
  <2> QED
    BY <2>2 DEF IInv, PointInv, PointsOf
<1> QED
  BY <1>1, AlwaysIInv, PTL

(* pointAnnotations, which only grows, has a clue twice at most. *)
THEOREM PointsStayBounded == Spec => []PointsBounded
<1>1. IInv => PointsBounded
  <2> SUFFICES ASSUME IInv, NEW c \in Clues
               PROVE  points[c] <= 2
    BY DEF PointsBounded
  <2>1. points[c] \in Nat /\ Cardinality(Falses(pointQueue[c])) \in Nat
    BY PotFacts DEF IInv
  <2>2. Pot(c) <= 2
    BY DEF IInv, PointInv, PointsOf
  <2> QED
    BY <2>1, <2>2 DEF Pot
<1> QED
  BY <1>1, AlwaysIInv, PTL

(* When its callbacks are served, the menu, the map and the riddle show the documents
   of their clues. *)
THEOREM ViewsFollow == Spec => []ViewsSettle
<1>1. IInv => ViewsSettle
  <2> SUFFICES ASSUME IInv PROVE ViewsSettle
    OBVIOUS
  <2>1. Menu \in listening /\ menuQueue = <<>> => table = Listing(shown)
    <3> SUFFICES ASSUME Menu \in listening, menuQueue = <<>> PROVE table = Listing(shown)
      OBVIOUS
    <3>1. ~\E i \in DOMAIN menuQueue : TRUE
      BY EmptySeq
    <3> QED
      BY <3>1, Zenon DEF IInv, MenuLast
  <2>2. \A c \in listening \cap Clues :
           pointQueue[c] = <<>> /\ shown[<<c, "Locked">>] = FALSE => c \in onMap
    <3> SUFFICES ASSUME NEW c \in Clues, c \in listening, pointQueue[c] = <<>>,
                        shown[<<c, "Locked">>] = FALSE
                 PROVE  points[c] > 0
      BY DEF onMap
    <3>1. Pot(c) >= 1
      BY DEF IInv, PointInv, PointsOf
    <3>2. points[c] \in Nat /\ <<>> \in Seq(BOOLEAN)
      BY PotFacts, EmptySeq DEF IInv
    <3>3. Cardinality(Falses(<<>>)) = 0
      BY <3>2, FalsesFinite
    <3> QED
      BY <3>1, <3>2, <3>3 DEF Pot
  <2>3. Riddle \in listening /\ riddleQueue = <<>> =>
           riddle = IF shown[<<view, "solved">>] THEN "solved" ELSE "unsolved"
    BY Zenon DEF IInv, RiddleInv
  <2> QED
    BY <2>1, <2>2, <2>3, Zenon DEF ViewsSettle
<1> QED
  BY <1>1, AlwaysIInv, PTL

-----------------------------------------------------------------------------
(* Listeners on their way *)

LEMMA CalledTail ==
    ASSUME calls \in Seq(Requests), calls # <<>>, calls' = Tail(calls),
           NEW req, Called(req), Head(calls) # req
    PROVE  Called(req)'
<1>1. Len(calls) \in Nat /\ DOMAIN calls = 1 .. Len(calls) /\ Head(calls) = calls[1]
  BY LenProperties, HeadTailProperties
<1>2. /\ DOMAIN calls' = 1 .. Len(calls) - 1
      /\ \A i \in 1 .. Len(calls) - 1 : calls'[i] = calls[i + 1]
  BY LenProperties, HeadTailProperties
<1>3. PICK i \in 1 .. Len(calls) : calls[i] = req
  BY <1>1 DEF Called
<1>4. i # 1
  BY <1>1, <1>3
<1>5. i - 1 \in 1 .. Len(calls) - 1 /\ (i - 1) + 1 = i
  BY <1>1, <1>3, <1>4
<1>6. calls'[i - 1] = req
  BY <1>2, <1>3, <1>5
<1> QED
  BY <1>2, <1>5, <1>6 DEF Called

LEMMA CalledAppend ==
    ASSUME calls \in Seq(Requests), NEW new \in Requests, calls' = Append(calls, new)
    PROVE  Called(new)' /\ \A req : Called(req) => Called(req)'
<1>1. Len(calls) \in Nat /\ DOMAIN calls = 1 .. Len(calls)
  BY LenProperties
<1>2. /\ DOMAIN calls' = 1 .. Len(calls) + 1 /\ calls'[Len(calls) + 1] = new
      /\ \A i \in 1 .. Len(calls) : calls'[i] = calls[i]
  BY <1>1, AppendProperties, LenProperties
<1>3. Called(new)'
  BY <1>1, <1>2 DEF Called
<1>4. ASSUME NEW req, Called(req) PROVE Called(req)'
  BY <1>1, <1>2, <1>4 DEF Called
<1> QED
  BY <1>3, <1>4

LEMMA ListenFields ==
    \A who, n : Listen(who, n).op = "listen" /\ Listen(who, n).who = who /\ Listen(who, n).view = n
BY DEF Listen

\* Calls that are added, or a write taken up, leave the listeners on their way.
LEMMA AwaitedKept ==
    ASSUME Awaited, UNCHANGED <<listening, view, opened>>,
           \A who, n : Called(Listen(who, n)) => Called(Listen(who, n))'
    PROVE  Awaited'
BY Zenon DEF Awaited

\* A call of a listener that is taken up starts it, unless its riddle is closed by now.
LEMMA AwaitedListen ==
    ASSUME IInv, Awaited, WorkerListen
    PROVE  Awaited'
<1>1. calls \in Seq(Requests) /\ calls # <<>> /\ calls' = Tail(calls)
  BY DEF IInv, TypeOK, WorkerListen, Documents!Take
<1>2. \A req : Called(req) /\ Head(calls) # req => Called(req)'
  BY <1>1, CalledTail
<1>3. /\ listening \subseteq listening'
      /\ view' = view /\ opened' = opened
  BY DEF WorkerListen, StartMenu, StartPoint, StartRiddle, reading
<1>4. Menu \notin Clues \cup {Riddle} /\ Riddle \notin Clues
  BY ViewsAssumption
<1>5. ASSUME NEW who \in Clues \cup {Menu}
      PROVE  who \in listening' \/ Called(Listen(who, 0))'
  <2>1. CASE Head(calls) = Listen(who, 0)
    <3>1. Head(calls).who = who
      BY <2>1, ListenFields
    <3> QED
      BY <1>4, <3>1 DEF WorkerListen, StartMenu, StartPoint
  <2>2. CASE Head(calls) # Listen(who, 0)
    BY <1>2, <1>3, <2>2 DEF Awaited
  <2> QED
    BY <2>1, <2>2
<1>6. ASSUME view # None
      PROVE  Riddle \in listening' \/ Called(Listen(Riddle, opened))'
  <2>1. CASE Head(calls) = Listen(Riddle, opened)
    <3>1. Head(calls).who = Riddle /\ Head(calls).view = opened
      BY <2>1, ListenFields
    <3> QED
      BY <1>4, <1>6, <3>1 DEF WorkerListen, StartRiddle
  <2>2. CASE Head(calls) # Listen(Riddle, opened)
    <3>1. Riddle \in listening \/ Called(Listen(Riddle, opened))
      BY <1>6 DEF Awaited
    <3>2. Called(Listen(Riddle, opened)) => Called(Listen(Riddle, opened))'
      BY <1>2, <1>3, <2>2
    <3> QED
      BY <1>3, <3>1, <3>2
  <2> QED
    BY <2>1, <2>2
<1> QED
  BY <1>3, <1>5, <1>6 DEF Awaited

LEMMA AwaitedNext ==
    ASSUME IInv, up => Awaited, [Next]_vars
    PROVE  up' => Awaited'
<1>1. calls \in Seq(Requests) /\ up \in BOOLEAN
  BY DEF IInv, TypeOK
<1>2. ASSUME up, UNCHANGED <<calls, listening, view, opened>> PROVE Awaited'
  BY <1>2 DEF Awaited, Called
<1>3. ASSUME up, NEW new \in Requests, calls' = Append(calls, new),
             UNCHANGED <<listening, view, opened>>
      PROVE  Awaited'
  BY <1>1, <1>3, CalledAppend, AwaitedKept
<1>4. CASE Launch
  <2>1. view' = None
    BY <1>4 DEF IInv, DownInv, Launch, reading
  <2>2. /\ DOMAIN calls' = 1 .. NumClues + 1
        /\ \A i \in Clues : calls'[i] = Listen(i, 0)
        /\ calls'[NumClues + 1] = Listen(Menu, 0)
    <3>1. NumClues \in Nat /\ NumClues + 1 \in 1 .. NumClues + 1 /\ NumClues + 1 \notin Clues
          /\ Clues \subseteq 1 .. NumClues + 1
      BY ViewsAssumption DEF Clues
    <3>2. calls' = [i \in 1 .. NumClues + 1 |->
                       IF i \in Clues THEN Listen(i, 0) ELSE Listen(Menu, 0)]
      BY <1>4 DEF Launch
    <3> QED
      BY <3>1, <3>2
  <2>3. Clues \subseteq DOMAIN calls' /\ NumClues + 1 \in DOMAIN calls'
    BY <2>2, ViewsAssumption DEF Clues
  <2> QED
    BY <2>1, <2>2, <2>3 DEF Awaited, Called
<1>5. ASSUME NEW reason, Exit(reason)
      PROVE  ~up'
  BY <1>5 DEF Exit
<1>6. CASE Kill
  BY <1>5, <1>6 DEF Kill
<1>7. CASE ArriveDocuments
  BY <1>2, <1>7 DEF ArriveDocuments, Documents!Arrive, Announce
<1>8. calls # <<>> \/ menuQueue # <<>> \/ table # <<>> \/ listening # {} \/ view # None => up
  BY <1>1 DEF IInv, DownInv
<1>9. CASE WorkerWrite
  <2>1. /\ calls # <<>> /\ calls' = Tail(calls) /\ Head(calls).op = "update"
        /\ UNCHANGED <<listening, view, opened>>
    BY <1>9 DEF WorkerWrite, Documents!Take, Announce
  <2>2. \A who, n : Head(calls) # Listen(who, n)
    BY <2>1, ListenFields
  <2>3. \A who, n : Called(Listen(who, n)) => Called(Listen(who, n))'
    BY <1>1, <2>1, <2>2, CalledTail
  <2> QED
    BY <1>8, <2>1, <2>3, AwaitedKept
<1>10. CASE WorkerListen
  BY <1>8, <1>10, AwaitedListen DEF WorkerListen
<1>11. CASE MenuStep
  BY <1>2, <1>8, <1>11 DEF MenuStep, TakeClues, TakeReload, documents, reading
<1>12. CASE TakeRiddle
  BY <1>2, <1>5, <1>12 DEF TakeRiddle, documents
<1>13. ASSUME NEW c \in Clues, TakePoint(c) PROVE up' => Awaited'
  BY <1>2, <1>13 DEF TakePoint, documents, reading
<1>14. ASSUME NEW c \in Clues, Scan(c) PROVE Awaited'
  <2>1. Unlock(c) \in Requests
    BY DEF Requests
  <2> QED
    BY <1>3, <1>14, <2>1 DEF Scan, Documents!Call, reading
<1>15. CASE CheckAnswer
  <2>1. Solve(view) \in Requests
    BY <1>15 DEF IInv, TypeOK, CheckAnswer, Requests
  <2> QED
    BY <1>3, <1>8, <1>15, <2>1 DEF CheckAnswer, Documents!Call, reading
<1>16. ASSUME NEW r \in Clues, Scroll(r) PROVE up' => Awaited'
  BY <1>2, <1>5, <1>16 DEF Scroll, documents, reading
<1>17. ASSUME NEW r \in Clues, Select(r) PROVE up' => Awaited'
  <2>1. CASE r \notin DOMAIN clues
    BY <1>5, <1>17, <2>1 DEF Select
  <2>2. CASE r \in DOMAIN clues
    <3>1. /\ calls' = Append(calls, Listen(Riddle, opened')) /\ listening' = listening
          /\ opened < MaxOpens /\ opened' = opened + 1 /\ up' = up
      BY <1>17, <2>2 DEF Select, Documents!Call
    <3>2. PICK n : n = opened'
      OBVIOUS
    <3>3. Listen(Riddle, n) \in Requests
      BY <3>1, <3>2, ViewsAssumption DEF IInv, TypeOK, Requests, Listen, Listeners
    <3>4. Called(Listen(Riddle, n))' /\ \A req : Called(req) => Called(req)'
      BY <1>1, <3>1, <3>2, <3>3, CalledAppend
    <3> QED
      BY <3>1, <3>2, <3>4 DEF Awaited
  <2> QED
    BY <2>1, <2>2
<1>18. CASE Close
  <2>1. view' = None /\ calls' = calls /\ listening' = listening \ {Riddle}
    BY <1>18 DEF Close, documents
  <2>2. up /\ Riddle \notin Clues \cup {Menu}
    BY <1>8, <1>18, ViewsAssumption DEF Close
  <2> QED
    BY <2>1, <2>2 DEF Awaited, Called
<1>19. CASE UNCHANGED vars
  BY <1>2, <1>19 DEF vars, documents, reading
<1> QED
  BY <1>4, <1>6, <1>7, <1>9, <1>10, <1>11, <1>12, <1>13, <1>14, <1>15, <1>16, <1>17, <1>18, <1>19
  DEF Next, WorkerStep

(* Between the documents and a view that does not show them yet there is always a call
   or a callback that will: no listener is forgotten (showpoints, getClues, getRiddle). *)
THEOREM NothingIsLost == Spec => []ViewsWillFollow
<1>1. Init => (up => Awaited)
  BY DEF Init
<1>2. IInv /\ (up => Awaited) /\ [Next]_vars => (up' => Awaited')
  BY AwaitedNext
<1>3. IInv /\ (up => Awaited) => ViewsWillFollow
  <2> SUFFICES ASSUME IInv, up, Awaited PROVE ViewsWillFollow
    BY DEF ViewsWillFollow
  <2>1. ASSUME NEW c \in Clues, c \in listening, shown[<<c, "Locked">>] = FALSE, c \notin onMap
        PROVE  \E i \in DOMAIN pointQueue[c] : ~pointQueue[c][i]
    <3>1. Pot(c) >= 1
      BY <2>1 DEF IInv, PointInv, PointsOf
    <3>2. points[c] \in Nat /\ ~(points[c] > 0)
      BY <2>1, PotFacts DEF IInv, onMap
    <3>3. Cardinality(Falses(pointQueue[c])) # 0
      BY <3>1, <3>2, PotFacts DEF IInv, Pot
    <3>4. Falses(pointQueue[c]) # {}
      BY <3>3, FS_EmptySet
    <3> QED
      BY <3>4 DEF Falses
  <2>2. riddleQueue # <<>> => riddleQueue[Len(riddleQueue)] = shown[<<view, "solved">>]
    BY Zenon DEF IInv, RiddleInv
  <2> QED
    BY <2>1, <2>2 DEF ViewsWillFollow
<1> QED
  BY <1>1, <1>2, <1>3, AlwaysIInv, PTL DEF Spec

-----------------------------------------------------------------------------
(* The documents under the views *)

\* The calls of the views, eleven of them at the launch, and the documents that arrive
\* are those that ShownDocuments allows, so that what the client promises is all that
\* the views were given.
LEMMA DocumentsNext == IInv /\ [Next]_vars => [Documents!Next]_<<shown, calls>>
<1> SUFFICES ASSUME IInv, [Next]_vars PROVE [Documents!Next]_<<shown, calls>>
  OBVIOUS
<1>1. calls \in Seq(Requests) /\ shown \in Docs
  BY DEF IInv, TypeOK, Docs
<1>2. CASE Launch
  <2>1. calls = <<>> /\ shown' = shown
    BY <1>2 DEF IInv, DownInv, Launch
  <2>2. calls' \in Seq(Requests)
    BY <1>2, StepInv DEF IInv, TypeOK, Next
  <2>3. Documents!IsPrefix(calls, calls')
    <3>1. Len(calls) = 0 /\ Len(calls') \in Nat
      BY <2>1, <2>2, LenProperties
    <3>2. SubSeq(calls, 1, 0) = <<>> /\ SubSeq(calls', 1, 0) = <<>>
      BY SubSeqEmpty
    <3> QED
      BY <3>1, <3>2 DEF Documents!IsPrefix
  <2> QED
    BY <2>1, <2>2, <2>3 DEF Documents!Next, Documents!Issue
<1>3. ASSUME NEW req \in Requests, Documents!Call(req) PROVE Documents!Next
  <2>1. calls' = Append(calls, req) /\ shown' = shown
    BY <1>3 DEF Documents!Call
  <2>2. /\ calls' \in Seq(Requests) /\ Len(calls) \in Nat /\ Len(calls') = Len(calls) + 1
        /\ \A i \in 1 .. Len(calls) : calls'[i] = calls[i]
    BY <1>1, <2>1, AppendProperties, LenProperties
  <2>3. SubSeq(calls, 1, Len(calls)) = SubSeq(calls', 1, Len(calls))
    BY <1>1, <2>2, LenProperties, SubSeqRestrict DEF Restrict
  <2> QED
    BY <2>1, <2>2, <2>3 DEF Documents!Next, Documents!Issue, Documents!IsPrefix
<1>4. ASSUME NEW reason, Exit(reason) PROVE Documents!Next
  BY <1>4 DEF Exit, Documents!Next
<1>5. CASE ArriveDocuments
  <2>1. PICK new \in (SUBSET (Clues \ Present(shown))) \ {{}} :
            \E news \in [new \X Fields -> BOOLEAN] : Documents!Arrive(news)
    BY <1>5 DEF ArriveDocuments
  <2>2. PICK news \in [new \X Fields -> BOOLEAN] : Documents!Arrive(news)
    BY <2>1
  <2> DEFINE arrived == {c \in Cells : shown[c] \notin BOOLEAN /\ shown'[c] \in BOOLEAN}
  <2>3. new \X Fields \subseteq Cells /\ \A c \in new \X Fields : shown[c] \notin BOOLEAN
    <3>1. new \subseteq Clues /\ \A c \in new : shown[<<c, "Locked">>] \notin BOOLEAN
      BY <2>1 DEF Present
    <3>2. \A c \in new : shown[<<c, "solved">>] \notin BOOLEAN
      BY <3>1 DEF IInv, Whole
    <3> QED
      BY <3>1, <3>2 DEF Cells, Fields
  <2>4. shown' = [c \in Cells |-> IF c \in new \X Fields THEN news[c] ELSE shown[c]]
        /\ calls' = calls
    BY <2>2 DEF Documents!Arrive
  <2>5. \A c \in Cells : c \in arrived <=> c \in new \X Fields
    BY <2>3, <2>4
  <2>6. arrived = new \X Fields
    BY <2>3, <2>5
  <2>7. news = [c \in arrived |-> shown'[c]]
    BY <2>3, <2>4, <2>6
  <2> QED
    BY <2>2, <2>7 DEF Documents!Next, Documents!ArriveSome
<1>6. CASE WorkerStep
  BY <1>6 DEF WorkerStep, WorkerWrite, WorkerListen, Documents!Next
<1>7. CASE Kill
  BY <1>4, <1>7 DEF Kill
<1>8. CASE MenuStep \/ Close \/ UNCHANGED vars
  BY <1>8 DEF MenuStep, TakeClues, TakeReload, Close, vars, documents
<1>9. CASE TakeRiddle
  BY <1>4, <1>9 DEF TakeRiddle, documents
<1>10. ASSUME NEW c \in Clues, TakePoint(c) \/ Scan(c) PROVE [Documents!Next]_<<shown, calls>>
  <2>1. Unlock(c) \in Requests
    BY DEF Requests
  <2> QED
    BY <1>3, <1>10, <2>1 DEF TakePoint, Scan, documents
<1>11. CASE CheckAnswer
  <2>1. Solve(view) \in Requests
    BY <1>11 DEF IInv, TypeOK, CheckAnswer, Requests
  <2> QED
    BY <1>3, <1>11, <2>1 DEF CheckAnswer
<1>12. ASSUME NEW r \in Clues, Scroll(r) \/ Select(r) PROVE [Documents!Next]_<<shown, calls>>
  <2>1. CASE Scroll(r)
    BY <1>4, <2>1 DEF Scroll, documents
  <2>2. CASE Select(r) /\ r \notin DOMAIN clues
    BY <1>4, <2>2 DEF Select
  <2>3. CASE Select(r) /\ r \in DOMAIN clues
    <3>1. /\ Documents!Call(Listen(Riddle, opened'))
          /\ opened < MaxOpens /\ opened' = opened + 1
      BY <2>3 DEF Select
    <3>2. Listen(Riddle, opened') \in Requests
      BY <3>1, ViewsAssumption DEF IInv, TypeOK, Requests, Listen, Listeners
    <3> QED
      BY <1>3, <3>1, <3>2
  <2> QED
    BY <1>12, <2>1, <2>2, <2>3
<1> QED
  BY <1>2, <1>5, <1>6, <1>7, <1>8, <1>9, <1>10, <1>11, <1>12 DEF Next

(* The views ask nothing of the documents that the client does not promise. *)
THEOREM ViewsUseDocuments == Spec => Documents!Spec
<1>1. Init => Documents!Init
  BY DEF Init
<1> QED
  BY <1>1, DocumentsNext, AlwaysIInv, PTL DEF Spec, Documents!Spec
=============================================================================
