----------------------------- MODULE ScreensProofs -----------------------------
(* What holds of the keys (module Screens) for any processes and whatever a        *)
(* search finds.                                                                   *)
EXTENDS Screens, FiniteSetTheorems, SequenceTheorems, TLAPS

LEMMA MenuLength == Len(Menu) = 14
  BY DEF Menu

\* The number that is being typed: at most two digits, and of two the first is a
\* 0 and the second is not.
DigitsTyped ==
    \/ digits = <<>>
    \/ \E d \in 0 .. 9 : digits = <<d>>
    \/ \E d \in 1 .. 9 : digits = <<0, d>>

DigitsInv == DigitsTyped /\ homeCursor \in 0 .. 13 /\ NumberIsSelected

LEMMA ValueOfOne == \A d \in 0 .. 9 : Value(<<d>>) = d
  BY DEF Value

LEMMA ValueOfTwo == \A c, d \in 0 .. 9 : Value(<<c, d>>) = 10 * c + d
  BY DEF Value

LEMMA ValueAfterZero == \A c, d \in 0 .. 9 : Value(<<0, c, d>>) = 10 * c + d
  BY DEF Value

LEMMA AppendedToNone == \A d \in 0 .. 9 : Append(<<>>, d) = <<d>>
  OBVIOUS

LEMMA AppendedToOne ==
    ASSUME NEW c \in 0 .. 9, NEW d \in 0 .. 9
    PROVE  Append(<<c>>, d) = <<c, d>>
<1> DEFINE s == Append(<<c>>, d)
           t == <<c, d>>
<1>1. <<c>> \in Seq(0 .. 9)
  OBVIOUS
<1>2. s \in Seq(0 .. 9) /\ t \in Seq(0 .. 9)
  BY <1>1
<1>3. Len(s) = 2 /\ Len(t) = 2
  BY <1>1
<1>4. s[1] = c /\ s[2] = d
  BY <1>1
<1>5. t[1] = c /\ t[2] = d
  OBVIOUS
<1> HIDE DEF s, t
<1>6. \A i \in 1 .. 2 : s[i] = t[i]
  BY <1>4, <1>5
<1>7. s = t
  BY <1>2, <1>3, <1>6
<1> QED
  BY <1>7 DEF s, t

LEMMA AppendedToTwo ==
    ASSUME NEW b \in 0 .. 9, NEW c \in 0 .. 9, NEW d \in 0 .. 9
    PROVE  Append(<<b, c>>, d) = <<b, c, d>>
<1> DEFINE s == Append(<<b, c>>, d)
           t == <<b, c, d>>
<1>1. <<b, c>> \in Seq(0 .. 9)
  OBVIOUS
<1>2. s \in Seq(0 .. 9) /\ t \in Seq(0 .. 9)
  BY <1>1
<1>3. Len(s) = 3 /\ Len(t) = 3
  BY <1>1
<1>4. s[1] = b /\ s[2] = c /\ s[3] = d
  BY <1>1
<1>5. t[1] = b /\ t[2] = c /\ t[3] = d
  OBVIOUS
<1> HIDE DEF s, t
<1>6. \A i \in 1 .. 3 : s[i] = t[i]
  BY <1>4, <1>5
<1>7. s = t
  BY <1>2, <1>3, <1>6
<1> QED
  BY <1>7 DEF s, t

\* What is typed so far, one digit longer.
LEMMA ValueOfLonger ==
    ASSUME DigitsTyped, NEW d \in 0 .. 9
    PROVE  /\ Value(Append(digits, d)) \in 0 .. 999
           /\ Value(Append(digits, d)) % 10 = d
           /\ Value(Append(digits, d)) = 1 => Append(digits, d) \in {<<1>>, <<0, 1>>}
<1>1. CASE digits = <<>>
  <2>1. Append(digits, d) = <<d>> /\ Value(Append(digits, d)) = d
    BY <1>1, AppendedToNone, ValueOfOne
  <2> QED
    BY <2>1
<1>2. ASSUME NEW c \in 0 .. 9, digits = <<c>>
      PROVE  /\ Append(digits, d) = <<c, d>>
             /\ Value(Append(digits, d)) = 10 * c + d
  <2>1. Append(<<c>>, d) = <<c, d>>
    BY AppendedToOne, Zenon
  <2>2. Value(<<c, d>>) = 10 * c + d
    BY ValueOfTwo, Zenon
  <2>3. Append(digits, d) = <<c, d>>
    BY <1>2, <2>1, Zenon
  <2> QED
    BY <2>2, <2>3, Zenon
<1>3. ASSUME NEW c \in 1 .. 9, digits = <<0, c>>
      PROVE  Value(Append(digits, d)) = 10 * c + d
  <2>1. 0 \in 0 .. 9 /\ c \in 0 .. 9
    OBVIOUS
  <2>2. Append(<<0, c>>, d) = <<0, c, d>>
    BY <2>1, AppendedToTwo, Zenon
  <2>3. Value(<<0, c, d>>) = 10 * c + d
    BY <2>1, ValueAfterZero, Zenon
  <2>4. Append(digits, d) = <<0, c, d>>
    BY <1>3, <2>2, Zenon
  <2> QED
    BY <2>3, <2>4, Zenon
<1>4. ASSUME NEW c \in 0 .. 9, digits = <<c>>, 10 * c + d = 1
      PROVE  c = 0 /\ d = 1
  BY <1>4, SMTT(30)
<1>5. CASE \E c \in 0 .. 9 : digits = <<c>>
  <2> PICK c \in 0 .. 9 : digits = <<c>>
    BY <1>5
  <2>1. Append(digits, d) = <<c, d>> /\ Value(Append(digits, d)) = 10 * c + d
    BY <1>2
  <2>2. 10 * c + d \in 0 .. 999 /\ (10 * c + d) % 10 = d
    BY SMTT(30)
  <2>3. 10 * c + d = 1 => <<c, d>> = <<0, 1>>
    BY <1>4
  <2> QED
    BY <2>1, <2>2, <2>3
<1>6. CASE \E c \in 1 .. 9 : digits = <<0, c>>
  <2> PICK c \in 1 .. 9 : digits = <<0, c>>
    BY <1>6
  <2>1. Value(Append(digits, d)) = 10 * c + d
    BY <1>3
  <2>2. 10 * c + d \in 10 .. 999 /\ (10 * c + d) % 10 = d
    BY SMTT(30)
  <2> QED
    BY <2>1, <2>2
<1> QED
  BY <1>1, <1>5, <1>6 DEF DigitsTyped

LEMMA PlaceInList ==
    ASSUME NEW n \in Nat, n >= 5, NEW c \in 0 .. n - 1,
           NEW key \in {"Up", "Down", "PageUp", "PageDown", "Home", "End"}
    PROVE  Place(key, c, n) \in 0 .. n - 1
  BY DEF Place

---------------------------------------------------------------------------------
(* Numbers                                                                         *)

\* What a digit does: it is the last digit of the number that is selected, and what
\* is kept of the number is what is selected.
LEMMA DigitTyped ==
    ASSUME DigitsInv, NEW d \in 0 .. 9
    PROVE  /\ Selected(digits, d) \in 0 .. 13
           /\ d # 0 => (Selected(digits, d) + 1) % 10 = d
           /\ \/ Typed(digits, d) = <<>>
              \/ Typed(digits, d) = <<d>> /\ (d # 0 => Selected(digits, d) = d - 1)
              \/ Typed(digits, d) = <<0, 1>> /\ Selected(digits, d) = 0
<1> DEFINE longer == Append(digits, d)
           v == Value(longer)
<1> HIDE DEF longer, v
<1>1. v \in 0 .. 999 /\ v % 10 = d /\ (v = 1 => longer \in {<<1>>, <<0, 1>>})
  <2>1. DigitsTyped
    BY DEF DigitsInv
  <2>2. /\ Value(Append(digits, d)) \in 0 .. 999
        /\ Value(Append(digits, d)) % 10 = d
        /\ Value(Append(digits, d)) = 1 => Append(digits, d) \in {<<1>>, <<0, 1>>}
    BY <2>1, ValueOfLonger, Zenon
  <2> QED
    BY <2>2, Zenon DEF longer, v
<1> USE DEF longer, v
<1>2. homeCursor \in 0 .. 13
  BY DEF DigitsInv
<1>3. \A n : InMenu(n) <=> n \in 1 .. 14
  BY MenuLength DEF InMenu
<1>4. /\ InMenu(v) => Selected(digits, d) = v - 1
      /\ ~InMenu(v) /\ InMenu(d) => Selected(digits, d) = d - 1
      /\ ~InMenu(v) /\ ~InMenu(d) => Selected(digits, d) = homeCursor
  BY DEF Selected
<1>5. /\ ~InMenu(v) => Typed(digits, d) = <<d>>
      /\ InMenu(v) /\ v * 10 > 14 => Typed(digits, d) = <<>>
      /\ InMenu(v) /\ ~(v * 10 > 14) => Typed(digits, d) = longer
  BY MenuLength DEF Typed
<1> HIDE DEF longer, v
<1>6. CASE v \notin 1 .. 14
  <2>1. Typed(digits, d) = <<d>>
    BY <1>3, <1>5, <1>6
  <2>2. CASE d = 0
    <3>1. Selected(digits, d) = homeCursor
      BY <1>3, <1>4, <1>6, <2>2
    <3> QED
      BY <1>2, <2>1, <2>2, <3>1
  <2>3. CASE d # 0
    <3>1. Selected(digits, d) = d - 1
      BY <1>3, <1>4, <1>6, <2>3
    <3>2. d - 1 \in 0 .. 13 /\ (d - 1 + 1) % 10 = d
      BY <2>3
    <3> QED
      BY <2>1, <3>1, <3>2
  <2> QED
    BY <2>2, <2>3
<1>7. CASE v \in 1 .. 14
  <2>1. Selected(digits, d) = v - 1
    BY <1>3, <1>4, <1>7
  <2>2. v - 1 \in 0 .. 13 /\ (v - 1 + 1) % 10 = d
    BY <1>1, <1>7
  <2>3. CASE v * 10 > 14
    <3>1. Typed(digits, d) = <<>>
      BY <1>3, <1>5, <1>7, <2>3
    <3> QED
      BY <2>1, <2>2, <3>1
  <2>4. CASE ~(v * 10 > 14)
    <3>1. v = 1
      BY <1>7, <2>4
    <3>2. d = 1
      BY <1>1, <3>1
    <3>3. Typed(digits, d) \in {<<1>>, <<0, 1>>}
      BY <1>1, <1>3, <1>5, <1>7, <2>4, <3>1
    <3>4. Selected(digits, d) = 0 /\ d - 1 = 0
      BY <2>1, <3>1, <3>2
    <3> QED
      BY <2>1, <2>2, <3>2, <3>3, <3>4
  <2> QED
    BY <2>3, <2>4
<1> QED
  BY <1>6, <1>7

LEMMA DigitKept == DigitsInv /\ (\E d \in 0 .. 9 : Digit(d)) => DigitsInv'
<1> SUFFICES ASSUME DigitsInv, NEW d \in 0 .. 9, Digit(d) PROVE DigitsInv'
  OBVIOUS
<1>1. digits' = Typed(digits, d) /\ homeCursor' = Selected(digits, d)
  BY DEF Digit
<1>2. homeCursor' \in 0 .. 13
  BY <1>1, DigitTyped
<1>3. CASE digits' = <<>>
  BY <1>2, <1>3 DEF DigitsInv, DigitsTyped, NumberIsSelected
<1>4. CASE digits' = <<d>> /\ (d # 0 => homeCursor' = d - 1)
  <2>1. Value(digits') = d
    BY <1>4, ValueOfOne
  <2>2. DigitsTyped'
    BY <1>4 DEF DigitsTyped
  <2> QED
    BY <1>2, <1>4, <2>1, <2>2 DEF DigitsInv, NumberIsSelected
<1>5. CASE digits' = <<0, 1>> /\ homeCursor' = 0
  <2>1. Value(<<0, 1>>) = 10 * 0 + 1
    BY ValueOfTwo
  <2>2. Value(digits') - 1 = 0
    BY <1>5, <2>1
  <2>3. DigitsTyped'
    BY <1>5 DEF DigitsTyped
  <2> QED
    BY <1>2, <1>5, <2>2, <2>3 DEF DigitsInv, NumberIsSelected
<1> QED
  BY <1>1, <1>3, <1>4, <1>5, DigitTyped

\* The other keys leave the number and the selection alone, or end the number.
LEMMA NumberEnds ==
    ASSUME DigitsInv, homeCursor' \in 0 .. 13,
           \/ digits' = <<>>
           \/ digits' = digits /\ homeCursor' = homeCursor
    PROVE  DigitsInv'
  BY DEF DigitsInv, DigitsTyped, NumberIsSelected

LEMMA HomeMoves ==
    ASSUME DigitsInv, NEW key \in {"Up", "Down", "PageUp", "PageDown", "Home", "End"},
           MoveCursor(key)
    PROVE  homeCursor' \in 0 .. 13
<1>1. 14 \in Nat /\ 14 >= 5 /\ homeCursor \in 0 .. 14 - 1
  BY DEF DigitsInv
<1>2. Place(key, homeCursor, 14) \in 0 .. 14 - 1
  BY <1>1, PlaceInList
<1>3. Place(key, homeCursor, 14) \in 0 .. 13
  BY <1>2
<1> QED
  BY <1>3, MenuLength DEF MoveCursor, DigitsInv

LEMMA DigitsInit == Init => DigitsInv
  BY DEF Init, DigitsInv, DigitsTyped, NumberIsSelected

LEMMA DigitsNext == DigitsInv /\ [Next]_vars => DigitsInv'
<1> SUFFICES ASSUME DigitsInv, [Next]_vars PROVE DigitsInv'
  OBVIOUS
<1> USE NumberEnds
<1>0. homeCursor \in 0 .. 13 /\ 0 \in 0 .. 13
  BY DEF DigitsInv
<1>1. CASE UNCHANGED vars
  BY <1>0, <1>1 DEF vars
<1>2. CASE Sample
  BY <1>0, <1>2 DEF Sample
<1>3. CASE Back \/ CtrlC
  BY <1>0, <1>3 DEF Back, CtrlC, Quit
<1>4. CASE OpenOverlay \/ NextOrder \/ Freeze \/ Pin \/ MoveRow
  BY <1>0, <1>4 DEF OpenOverlay, NextOrder, Freeze, Pin, MoveRow
<1>5. CASE StorageKey \/ Tools \/ EnterElsewhere \/ Backspace
  BY <1>0, <1>5 DEF StorageKey, Tools, EnterElsewhere, Backspace
<1>6. CASE Step
  <2> PICK key \in {"Up", "Down"} : MoveCursor(key)
    BY <1>6 DEF Step
  <2> QED
    BY <1>6, HomeMoves DEF Step
<1>7. CASE Leap
  <2> PICK key \in Leaps : MoveCursor(key)
    BY <1>7 DEF Leap
  <2> QED
    BY <1>7, HomeMoves DEF Leap, Leaps
<1>8. CASE Open
  BY <1>0, <1>8 DEF Open
<1>9. CASE \E d \in 0 .. 9 : Digit(d)
  BY <1>9, DigitKept
<1>10. CASE CloseHelp \/ EditQuery \/ MoveHit \/ Goto \/ CloseSearch
  BY <1>0, <1>10 DEF CloseHelp, EditQuery, MoveHit, Goto, CloseSearch
<1> QED
  BY <1>1, <1>2, <1>3, <1>4, <1>5, <1>6, <1>7, <1>8, <1>9, <1>10 DEF Next, Key

\* The number being typed is that of the selected entry, whatever comes between its
\* digits (state.rs, on_digit).
THEOREM TypedIsSelected == Spec => []NumberIsSelected
<1>1. DigitsInv => NumberIsSelected
  BY DEF DigitsInv
<1> QED
  BY <1>1, DigitsInit, DigitsNext, PTL DEF Spec

\* A digit other than 0 always selects an entry whose number ends with it (state.rs,
\* on_digit).
THEOREM EveryDigitCounts == Spec => DigitCounts
<1>1. ASSUME DigitsInv, NoOverlay /\ screen = "Home", NEW d \in 1 .. 9, Digit(d)
      PROVE  (homeCursor' + 1) % 10 = d
  <2>1. d \in 0 .. 9 /\ d # 0
    OBVIOUS
  <2> QED
    BY <1>1, <2>1, DigitTyped DEF Digit
<1>2. DigitsInv => (NoOverlay /\ screen = "Home" =>
                        \A d \in 1 .. 9 : Digit(d) => (homeCursor' + 1) % 10 = d)
  BY <1>1
<1> QED
  BY <1>2, DigitsInit, DigitsNext, PTL DEF Spec, DigitCounts

---------------------------------------------------------------------------------
(* Searches                                                                        *)

HitsInv ==
    /\ hits \in Seq(ToSet(Menu) \X Nat)
    /\ hitCursor \in Nat
    /\ HitIsMarked

LEMMA HitMoved ==
    ASSUME NEW n \in Nat, n > 0, NEW c \in Nat
    PROVE  (c + 1) % n \in 0 .. n - 1 /\ (c + n - 1) % n \in 0 .. n - 1
  OBVIOUS

LEMMA HitsNext == HitsInv /\ [Next]_vars => HitsInv'
<1> SUFFICES ASSUME HitsInv, [Next]_vars PROVE HitsInv'
  OBVIOUS
<1>1. CASE UNCHANGED search /\ (overlay' = "search" => overlay = "search")
  BY <1>1 DEF HitsInv, HitIsMarked, search
<1>2. CASE hits' = <<>> /\ hitCursor' = 0
  BY <1>2 DEF HitsInv, HitIsMarked
<1>3. CASE UNCHANGED vars
  BY <1>1, <1>3 DEF vars
<1>4. CASE Sample \/ NextOrder \/ Freeze \/ Pin \/ MoveRow \/ StorageKey \/ Tools
  BY <1>1, <1>4 DEF Sample, NextOrder, Freeze, Pin, MoveRow, StorageKey, Tools
<1>5. CASE Back \/ OpenOverlay \/ CtrlC
  BY <1>1, <1>2, <1>5 DEF Back, OpenOverlay, CtrlC, Quit
<1>6. CASE Step \/ Leap \/ Open \/ EnterElsewhere \/ Backspace
  BY <1>1, <1>6 DEF Step, Leap, Open, EnterElsewhere, Backspace, MoveCursor
<1>7. CASE CloseHelp \/ \E d \in 0 .. 9 : Digit(d)
  BY <1>1, <1>7 DEF CloseHelp, Digit
<1>8. CASE EditQuery
  <2>1. hits' \in {<<>>} \cup HitLists /\ hitCursor' = 0
    BY <1>8 DEF EditQuery, HitAfterEdit
  <2>2. hits' \in Seq(ToSet(Menu) \X Nat)
    <3> DEFINE S == Seq(ToSet(Menu) \X Nat)
    <3>1. <<>> \in S
      OBVIOUS
    <3>2. HitLists \subseteq S
      BY HitsAssumption, Zenon
    <3> HIDE DEF S
    <3>3. hits' \in S
      BY <2>1, <3>1, <3>2, Zenon
    <3> QED
      BY <3>3, Zenon DEF S
  <2>3. hits' # <<>> => 0 < Len(hits')
    BY <2>2
  <2> QED
    BY <2>1, <2>2, <2>3 DEF HitsInv, HitIsMarked
<1>9. CASE MoveHit
  <2>1. CASE hits = <<>>
    BY <1>2, <1>9, <2>1 DEF MoveHit
  <2>2. CASE hits # <<>>
    <3>1. Len(hits) \in Nat /\ Len(hits) > 0
      BY <2>2 DEF HitsInv
    <3>2. hitCursor' \in {(hitCursor + 1) % Len(hits), (hitCursor + Len(hits) - 1) % Len(hits)}
      BY <1>9, <2>2 DEF MoveHit
    <3>3. hitCursor' \in 0 .. Len(hits) - 1
      BY <3>1, <3>2, HitMoved DEF HitsInv
    <3>4. hitCursor' \in Nat /\ hitCursor' < Len(hits)
      BY <3>1, <3>3
    <3> QED
      BY <1>9, <3>4 DEF MoveHit, HitsInv, HitIsMarked
  <2> QED
    BY <2>1, <2>2
<1>10. CASE Goto \/ CloseSearch
  BY <1>2, <1>10 DEF Goto, CloseSearch, SearchEnds
<1> QED
  BY <1>3, <1>4, <1>5, <1>6, <1>7, <1>8, <1>9, <1>10 DEF Next, Key

\* The cursor of a search is at one of its hits whenever there are any (state.rs,
\* on_key_overlay).
THEOREM MarkedIsThere == Spec => []HitIsMarked
<1>1. Init => HitsInv
  BY DEF Init, HitsInv, HitIsMarked
<1>2. HitsInv => HitIsMarked
  BY DEF HitsInv
<1> QED
  BY <1>1, <1>2, HitsNext, PTL DEF Spec

---------------------------------------------------------------------------------
(* The table                                                                       *)

LEMMA InOrder ==
    ASSUME NEW procs \in SUBSET Process, NEW by, NEW s \in Orders(procs, by)
    PROVE  /\ s \in Seq(Process)
           /\ ToSet(s) = procs
           /\ s \in Orders(ToSet(s), by)
<1>1. IsFiniteSet(procs)
  BY ProcessAssumption, FS_Subset
<1>2. Cardinality(procs) \in Nat
  BY <1>1, FS_CardinalityType
<1>3. s \in Bijection(1 .. Cardinality(procs), procs)
  BY Zenon DEF Orders, AnyOrder
<1>4. /\ s \in [1 .. Cardinality(procs) -> procs]
      /\ \A p \in procs : \E i \in 1 .. Cardinality(procs) : s[i] = p
  BY <1>3, Zenon DEF Bijection, Surjection
<1>5. s \in [1 .. Cardinality(procs) -> Process]
  BY <1>4
<1>6. s \in Seq(Process)
  BY <1>2, <1>5, SeqDef
<1>7. ToSet(s) = procs
  BY <1>4 DEF ToSet
<1> QED
  BY <1>6, <1>7

\* sorted_procs keeps the processes, and the pinned one is at the top.
LEMMA PinnedFirst ==
    ASSUME NEW order \in Seq(Process), NEW pin
    PROVE  /\ \A i \in 1 .. Len(order) : Rows(order, pin)[i] \in ToSet(order)
           /\ pin \in ToSet(order) => Rows(order, pin)[1] = pin
<1>1. DOMAIN order = 1 .. Len(order) /\ Len(order) \in Nat
  OBVIOUS
<1>2. \A i \in DOMAIN order : order[i] \in ToSet(order)
  BY DEF ToSet
<1>3. CASE pin \notin ToSet(order)
  BY <1>1, <1>2, <1>3 DEF Rows
<1>4. CASE pin \in ToSet(order)
  <2> DEFINE at == CHOOSE i \in DOMAIN order : order[i] = pin
             r == [i \in DOMAIN order |->
                    IF i = 1 THEN pin ELSE IF i <= at THEN order[i - 1] ELSE order[i]]
  <2>1. Rows(order, pin) = r
    BY <1>4, Zenon DEF Rows
  <2>2. PICK k \in DOMAIN order : order[k] = pin
    BY <1>4 DEF ToSet
  <2>3. 1 \in DOMAIN order
    BY <1>1, <2>2
  <2> HIDE DEF at
  <2>4. \A i \in DOMAIN order : i = 1 \/ i - 1 \in DOMAIN order
    BY <1>1
  <2>5. \A i \in DOMAIN order : r[i] \in ToSet(order)
    BY <1>2, <1>4, <2>4
  <2>6. r[1] = pin
    BY <2>3
  <2> QED
    BY <1>1, <2>1, <2>5, <2>6, Zenon
<1> QED
  BY <1>3, <1>4

TableInv ==
    /\ sort \in ToSet(Sorts)
    /\ pinned \in Process \cup {NoProcess}
    /\ row \in Nat
    /\ ToSet(table) \subseteq Process /\ table \in Orders(ToSet(table), sort)

LEMMA TableIsList == TableInv => table \in Seq(Process)
  BY InOrder, Zenon DEF TableInv

LEMMA NextSort ==
    ASSUME NEW s \in ToSet(Sorts)
    PROVE  SortAfter(s) \in ToSet(Sorts)
<1>1. DOMAIN Sorts = 1 .. 4
  BY DEF Sorts
<1>2. \A i \in 1 .. 4 : Sorts[i] \in ToSet(Sorts)
  BY <1>1, Zenon DEF ToSet
<1>3. \E i \in 1 .. 4 : Sorts[i] = s
  BY <1>1, Zenon DEF ToSet
<1>4. PICK i \in 1 .. 4 : SortAfter(s) = Sorts[(i % 4) + 1]
  BY <1>3, Zenon DEF SortAfter
<1>5. (i % 4) + 1 \in 1 .. 4
  OBVIOUS
<1> QED
  BY <1>2, <1>4, <1>5, Zenon

LEMMA NoRows == Orders({}, "Cpu") = {<<>>} /\ ToSet(<<>>) = {}
<1>1. Cardinality({}) = 0
  BY FS_EmptySet
<1>2. AnyOrder[{}] = Bijection(1 .. Cardinality({}), {})
  BY Zenon DEF AnyOrder
<1>3. Bijection(1 .. 0, {}) = {<<>>}
  <2>1. [1 .. 0 -> {}] = {<<>>}
    <3>1. \A f \in [1 .. 0 -> {}] : f \in Seq({}) /\ Len(f) = 0
      BY SeqDef
    <3>2. \A f \in [1 .. 0 -> {}] : f = <<>>
      BY <3>1, EmptySeq
    <3>3. [i \in 1 .. 0 |-> i] \in [1 .. 0 -> {}]
      OBVIOUS
    <3>4. <<>> \in [1 .. 0 -> {}]
      BY <3>2, <3>3, Zenon
    <3> QED
      BY <3>2, <3>4, Zenon
  <2>2. DOMAIN <<>> = {}
    OBVIOUS
  <2>3. IsInjective(<<>>)
    BY <2>2, Zenon DEF IsInjective
  <2>4. Injection(1 .. 0, {}) = {<<>>}
    BY <2>1, <2>3, Zenon DEF Injection
  <2>5. Surjection(1 .. 0, {}) = {<<>>}
    BY <2>1, Zenon DEF Surjection
  <2> QED
    BY <2>4, <2>5, Zenon DEF Bijection
<1>4. AnyOrder[{}] = {<<>>}
  BY <1>1, <1>2, <1>3, Zenon
<1>5. "Cpu" # "Pid"
  OBVIOUS
<1>6. Orders({}, "Cpu") = {<<>>}
  BY <1>4, <1>5, Zenon DEF Orders
<1> QED
  BY <1>6 DEF ToSet

LEMMA NoTable == sort = "Cpu" /\ pinned = NoProcess /\ row = 0 /\ table = <<>> => TableInv
<1>1. "Cpu" \in ToSet(Sorts)
  BY DEF Sorts, ToSet
<1>2. 0 \in Nat /\ {} \subseteq Process
  OBVIOUS
<1> QED
  BY <1>1, <1>2, NoRows, Zenon DEF TableInv

LEMMA ResortKeeps ==
    ASSUME TableInv, NEW by \in ToSet(Sorts), Resort(by)
    PROVE  /\ sort' \in ToSet(Sorts)
           /\ ToSet(table') \subseteq Process /\ table' \in Orders(ToSet(table'), sort')
<1>1. CASE by = sort
  BY <1>1, Zenon DEF Resort, TableInv
<1>2. CASE by # sort
  <2>1. ToSet(table) \in SUBSET Process
    BY Zenon DEF TableInv
  <2>2. table' \in Orders(ToSet(table), by) /\ sort' = by
    BY <1>2, Zenon DEF Resort
  <2>3. ToSet(table') = ToSet(table) /\ table' \in Orders(ToSet(table'), by)
    BY <2>1, <2>2, InOrder, Zenon
  <2> QED
    BY <2>1, <2>2, <2>3, Zenon
<1> QED
  BY <1>1, <1>2, Zenon

LEMMA SyncSortKeeps ==
    ASSUME TableInv, SyncSort
    PROVE  /\ sort' \in ToSet(Sorts)
           /\ ToSet(table') \subseteq Process /\ table' \in Orders(ToSet(table'), sort')
<1>1. \A t \in DOMAIN DefaultSort : DefaultSort[t] \in ToSet(Sorts)
  BY DEF DefaultSort, Sorts, ToSet
<1>2. CASE UNCHANGED <<sort, table>>
  <2>1. sort' = sort /\ table' = table
    BY <1>2
  <2> QED
    BY <2>1, Zenon DEF TableInv
<1>3. CASE /\ LiveTask(liveCursor') \in DOMAIN DefaultSort
           /\ Resort(DefaultSort[LiveTask(liveCursor')])
  BY <1>1, <1>3, ResortKeeps, Zenon
<1> QED
  BY <1>2, <1>3, Zenon DEF SyncSort

\* p, where there is a row.
LEMMA PinKept ==
    ASSUME TableInv, Pin
    PROVE  /\ TableInv'
           /\ LET under == Rows(table, pinned)[row + 1]
              IN  \/ pinned' = under /\ Rows(table', pinned')[row' + 1] = under
                  \/ pinned' = NoProcess /\ pinned = under
<1> DEFINE under == Rows(table, pinned)[row + 1]
<1>1. table \in Seq(Process) /\ Len(table) \in Nat
  BY TableIsList
<1>2. row + 1 \in 1 .. Len(table)
  BY <1>1 DEF Pin, TableInv
<1>3. under \in ToSet(table)
  BY <1>1, <1>2, PinnedFirst
<1>4. under \in Process
  BY <1>3 DEF TableInv
<1>5. /\ table' = table /\ sort' = sort
      /\ \/ under = pinned /\ pinned' = NoProcess /\ row' = row
         \/ pinned' = under /\ row' = 0
  BY DEF Pin, RowOfPinned
<1>6. Rows(table, under)[1] = under
  BY <1>1, <1>3, PinnedFirst
<1> HIDE DEF under
<1>7. pinned' \in Process \cup {NoProcess} /\ row' \in Nat
  BY <1>4, <1>5 DEF TableInv
<1>8. TableInv'
  BY <1>5, <1>7, Zenon DEF TableInv
<1>9. \/ pinned' = under /\ Rows(table', pinned')[row' + 1] = under
      \/ pinned' = NoProcess /\ pinned = under
  <2>1. CASE pinned' = under /\ row' = 0
    <3>1. row' + 1 = 1
      BY <2>1
    <3> QED
      BY <1>5, <1>6, <2>1, <3>1, Zenon
  <2> QED
    BY <1>5, <2>1, Zenon
<1> QED
  BY <1>8, <1>9, Zenon DEF under

LEMMA TableNext == TableInv /\ [Next]_vars => TableInv'
<1> SUFFICES ASSUME TableInv, [Next]_vars PROVE TableInv'
  OBVIOUS
<1>1. CASE /\ UNCHANGED <<sort, pinned, table>>
           /\ row' \in Nat
  BY <1>1 DEF TableInv
<1>2. row \in Nat /\ 0 \in Nat
  BY DEF TableInv
<1>3. CASE UNCHANGED vars
  BY <1>1, <1>2, <1>3 DEF vars, tableVars
<1>4. CASE Sample
  <2>1. PICK procs \in SUBSET Process : table' \in Orders(procs, sort)
    BY <1>4, Zenon DEF Sample
  <2>2. ToSet(table') = procs /\ table' \in Orders(ToSet(table'), sort)
    BY <2>1, InOrder, Zenon
  <2>3. sort' = sort /\ pinned' = pinned /\ row' = row
    BY <1>4 DEF Sample
  <2> QED
    BY <2>1, <2>2, <2>3, Zenon DEF TableInv
<1>5. CASE Quit
  <2>1. (sort = "Cpu" /\ pinned = NoProcess /\ row = 0 /\ table = <<>> => TableInv)'
    BY NoTable, PTL
  <2> QED
    BY <1>5, <2>1, Zenon DEF Quit
<1>6. CASE Back \/ CtrlC
  BY <1>1, <1>2, <1>5, <1>6 DEF Back, CtrlC, tableVars
<1>7. CASE OpenOverlay \/ Freeze \/ Tools \/ EnterElsewhere
  BY <1>1, <1>2, <1>7 DEF OpenOverlay, Freeze, Tools, EnterElsewhere, tableVars
<1>8. CASE NextOrder
  <2>1. SortAfter(sort) \in ToSet(Sorts)
    BY NextSort, Zenon DEF TableInv
  <2>2. /\ sort' \in ToSet(Sorts)
        /\ ToSet(table') \subseteq Process /\ table' \in Orders(ToSet(table'), sort')
    BY <1>8, <2>1, ResortKeeps, Zenon DEF NextOrder
  <2>3. row' = 0 /\ pinned' = pinned
    BY <1>8 DEF NextOrder
  <2> QED
    BY <1>2, <2>2, <2>3, Zenon DEF TableInv
<1>9. CASE Pin
  BY <1>9, PinKept
<1>10. CASE MoveRow
  <2>1. PICK n \in {Len(table)} \cup (0 .. MaxRow) :
            IF n = 0 THEN row' = 0 ELSE row' \in {(row + 1) % n, (row + n - 1) % n}
    BY <1>10 DEF MoveRow
  <2>2. Len(table) \in Nat
    BY TableIsList
  <2>3. n \in Nat
    BY <2>1, <2>2, RowAssumption
  <2>4. row' \in Nat
    BY <1>2, <2>1, <2>3, HitMoved
  <2>5. UNCHANGED <<sort, pinned, table>>
    BY <1>10 DEF MoveRow
  <2> QED
    BY <1>1, <2>4, <2>5
<1>11. CASE StorageKey \/ Backspace
  BY <1>1, <1>2, <1>11 DEF StorageKey, Backspace
<1>12. CASE Step \/ Open
  <2>1. /\ sort' \in ToSet(Sorts)
        /\ ToSet(table') \subseteq Process /\ table' \in Orders(ToSet(table'), sort')
    BY <1>12, SyncSortKeeps, Zenon DEF Step, Open
  <2>2. pinned' = pinned /\ (row' = row \/ row' = 0)
    BY <1>12 DEF Step, Open, MoveCursor
  <2> QED
    BY <1>2, <2>1, <2>2, Zenon DEF TableInv
<1>13. CASE Leap
  BY <1>1, <1>2, <1>13 DEF Leap, MoveCursor
<1>14. CASE \E d \in 0 .. 9 : Digit(d)
  BY <1>1, <1>2, <1>14 DEF Digit, tableVars
<1>15. CASE CloseHelp \/ EditQuery \/ MoveHit \/ Goto \/ CloseSearch
  BY <1>1, <1>2, <1>15 DEF CloseHelp, EditQuery, MoveHit, Goto, CloseSearch, tableVars
<1> QED
  BY <1>3, <1>4, <1>6, <1>7, <1>8, <1>9, <1>10, <1>11, <1>12, <1>13, <1>14, <1>15
  DEF Next, Key

LEMMA TableInit == Init => TableInv
  BY NoTable, Zenon DEF Init

\* p pins the process the cursor is at and the cursor goes with it to the top; it
\* unpins only the process the cursor is at (state.rs, on_key).
THEOREM CursorStaysWithPinned == Spec => PinFollowsCursor
<1>1. ASSUME TableInv, [Next]_vars, pinned' # pinned, ~quit'
      PROVE  LET under == Rows(table, pinned)[row + 1]
             IN  \/ pinned' = under /\ Rows(table', pinned')[row' + 1] = under
                 \/ pinned' = NoProcess /\ pinned = under
  <2>1. Pin
    <3>1. CASE UNCHANGED vars
      BY <1>1, <3>1 DEF vars, tableVars
    <3>2. CASE Sample \/ NextOrder \/ Freeze \/ MoveRow \/ StorageKey \/ Tools
      BY <1>1, <3>2 DEF Sample, NextOrder, Freeze, MoveRow, StorageKey, Tools, tableVars
    <3>3. CASE Back \/ OpenOverlay \/ CtrlC
      BY <1>1, <3>3 DEF Back, OpenOverlay, CtrlC, Quit, tableVars
    <3>4. CASE Step \/ Leap \/ Open \/ EnterElsewhere \/ Backspace
      BY <1>1, <3>4 DEF Step, Leap, Open, EnterElsewhere, Backspace, MoveCursor, tableVars
    <3>5. CASE CloseHelp \/ (\E d \in 0 .. 9 : Digit(d)) \/ EditQuery \/ MoveHit
      BY <1>1, <3>5 DEF CloseHelp, Digit, EditQuery, MoveHit, tableVars
    <3>6. CASE Goto \/ CloseSearch
      BY <1>1, <3>6 DEF Goto, CloseSearch, tableVars
    <3> QED
      BY <1>1, <3>1, <3>2, <3>3, <3>4, <3>5, <3>6 DEF Next, Key
  <2> QED
    BY <1>1, <2>1, PinKept, Zenon
<1>2. TableInv /\ [Next]_vars =>
        (pinned' # pinned /\ ~quit' =>
            LET under == Rows(table, pinned)[row + 1]
            IN  \/ pinned' = under /\ Rows(table', pinned')[row' + 1] = under
                \/ pinned' = NoProcess /\ pinned = under)
  BY <1>1, Zenon
<1> QED
  BY <1>2, TableInit, TableNext, PTL DEF Spec, PinFollowsCursor

---------------------------------------------------------------------------------
(* Where the keys lead                                                             *)

PlacesInv ==
    /\ screen \in {"Home"} \cup ToSet(Menu)
    /\ overlay \in {"none", "help", "search"}
    /\ quit \in BOOLEAN /\ frozen \in BOOLEAN
    /\ liveCursor \in 0 .. Len(LiveTasks) - 1
    /\ query \in {"empty", "text"}
    /\ hits \in HitLists \cup {<<>>}

KeysInv == DigitsInv /\ HitsInv /\ TableInv /\ PlacesInv

LEMMA Screens14 ==
    /\ ToSet(Menu) = {"Live", "Slow", "Storage", "Other"}
    /\ \A i \in 1 .. 14 : Menu[i] \in ToSet(Menu)
  BY DEF Menu, ToSet

LEMMA SevenTasks == Len(LiveTasks) = 7
  BY DEF LiveTasks

LEMMA GotoLands ==
    ASSUME PlacesInv, HitsInv, Goto
    PROVE  /\ screen' \in ToSet(Menu)
           /\ liveCursor' \in 0 .. Len(LiveTasks) - 1
<1> DEFINE hit == hits[hitCursor + 1]
<1>1. hits \in Seq(ToSet(Menu) \X Nat) /\ hitCursor + 1 \in DOMAIN hits
  BY DEF HitsInv, Goto
<1>2. hit[1] \in ToSet(Menu) /\ hit[2] \in Nat
  BY <1>1
<1>3. hits \in HitLists
  BY <1>1 DEF PlacesInv
<1>4. hit[1] = "Live" => hit[2] < Len(LiveTasks)
  BY <1>1, <1>3, HitsAssumption
<1>5. screen' = hit[1] /\ liveCursor' = IF hit[1] = "Live" THEN hit[2] ELSE liveCursor
  BY Zenon DEF Goto
<1> HIDE DEF hit
<1>6. liveCursor \in 0 .. Len(LiveTasks) - 1
  BY DEF PlacesInv
<1> QED
  BY <1>2, <1>4, <1>5, <1>6, SevenTasks

LEMMA LiveMoves ==
    ASSUME PlacesInv, NEW key \in {"Up", "Down", "PageUp", "PageDown", "Home", "End"},
           MoveCursor(key)
    PROVE  PlacesInv'
<1>1. 7 \in Nat /\ 7 >= 5 /\ liveCursor \in 0 .. 7 - 1
  BY SevenTasks DEF PlacesInv
<1>2. Place(key, liveCursor, 7) \in 0 .. 7 - 1
  BY <1>1, PlaceInList
<1>3. liveCursor' \in 0 .. Len(LiveTasks) - 1
  BY <1>1, <1>2, SevenTasks DEF MoveCursor
<1>4. UNCHANGED <<screen, overlay, quit, query, hits, frozen>>
  BY DEF MoveCursor, search
<1> QED
  BY <1>3, <1>4, Zenon DEF PlacesInv

LEMMA PlacesNext == KeysInv /\ [Next]_vars => PlacesInv'
<1> SUFFICES ASSUME KeysInv, [Next]_vars PROVE PlacesInv'
  OBVIOUS
<1> USE DEF PlacesInv
<1>0. PlacesInv /\ HitsInv
  BY DEF KeysInv
<1>1. CASE UNCHANGED vars
  BY <1>0, <1>1 DEF vars, search
<1>2. CASE Sample \/ NextOrder \/ Freeze \/ Pin \/ MoveRow \/ StorageKey
  BY <1>0, <1>2 DEF Sample, NextOrder, Freeze, Pin, MoveRow, StorageKey, search
<1>3. CASE Back \/ CtrlC
  <2>1. 0 \in 0 .. Len(LiveTasks) - 1
    BY SevenTasks
  <2>2. CASE Quit
    BY <2>1, <2>2, Zenon DEF Quit
  <2>3. CASE screen' = "Home" /\ UNCHANGED <<overlay, quit, liveCursor, search, frozen>>
    BY <1>0, <2>3 DEF search
  <2> QED
    BY <1>3, <2>2, <2>3 DEF Back, CtrlC
<1>4. CASE OpenOverlay \/ CloseHelp \/ CloseSearch
  BY <1>0, <1>4 DEF OpenOverlay, CloseHelp, CloseSearch, SearchEnds, search
<1>5. CASE Tools \/ EnterElsewhere \/ Backspace
  BY <1>0, <1>5, Screens14 DEF Tools, EnterElsewhere, Backspace, search
<1>6. CASE Step
  BY <1>0, <1>6, LiveMoves DEF Step
<1>7. CASE Leap
  BY <1>0, <1>7, LiveMoves DEF Leap, Leaps
<1>8. CASE Open
  <2>1. screen' \in ToSet(Menu)
    <3>1. homeCursor + 1 \in 1 .. 14
      BY DEF KeysInv, DigitsInv
    <3> QED
      BY <1>8, <3>1, Screens14 DEF Open
  <2>2. UNCHANGED <<overlay, quit, liveCursor, query, hits, frozen>>
    BY <1>8 DEF Open, search
  <2> QED
    BY <1>0, <2>1, <2>2, Zenon
<1>9. CASE \E d \in 0 .. 9 : Digit(d)
  BY <1>0, <1>9 DEF Digit, search
<1>10. CASE EditQuery
  <2>1. query' \in {"empty", "text"} /\ hits' \in HitLists \cup {<<>>}
    BY <1>10 DEF EditQuery
  <2>2. UNCHANGED <<screen, overlay, quit, liveCursor, frozen>>
    BY <1>10 DEF EditQuery
  <2> QED
    BY <1>0, <2>1, <2>2, Zenon
<1>11. CASE MoveHit
  BY <1>0, <1>11 DEF MoveHit
<1>12. CASE Goto
  <2>1. /\ screen' \in ToSet(Menu)
        /\ liveCursor' \in 0 .. Len(LiveTasks) - 1
    BY <1>0, <1>12, GotoLands
  <2>2. overlay' = "none" /\ query' = "empty" /\ hits' = <<>>
    BY <1>12 DEF Goto, SearchEnds
  <2>3. quit' = quit /\ frozen' = frozen
    BY <1>12 DEF Goto
  <2> QED
    BY <1>0, <2>1, <2>2, <2>3, Zenon
<1> QED
  BY <1>1, <1>2, <1>3, <1>4, <1>5, <1>6, <1>7, <1>8, <1>9, <1>10, <1>11, <1>12 DEF Next, Key

LEMMA DigitsAreTyped == DigitsTyped => Len(digits) <= 2 /\ ToSet(digits) \subseteq 0 .. 9
<1> SUFFICES ASSUME DigitsTyped PROVE Len(digits) <= 2 /\ ToSet(digits) \subseteq 0 .. 9
  OBVIOUS
<1>1. digits \in Seq(0 .. 9) /\ Len(digits) <= 2
  <2>1. <<>> \in Seq(0 .. 9) /\ Len(<<>>) <= 2
    OBVIOUS
  <2>2. \A d \in 0 .. 9 : <<d>> \in Seq(0 .. 9) /\ Len(<<d>>) <= 2
    OBVIOUS
  <2>3. \A d \in 1 .. 9 : <<0, d>> \in Seq(0 .. 9) /\ Len(<<0, d>>) <= 2
    OBVIOUS
  <2> QED
    BY <2>1, <2>2, <2>3, Zenon DEF DigitsTyped
<1> QED
  BY <1>1 DEF ToSet

\* Whatever is pressed, the state stays one the program can draw: the screen is in the
\* menu, the cursors are at entries of their lists, and the table is in the order that is
\* shown (state.rs, on_key).
THEOREM KeysKeepTypes == Spec => []TypeOK
<1>1. Init => KeysInv
  <2> SUFFICES ASSUME Init PROVE KeysInv
    OBVIOUS
  <2>1. DigitsInv /\ TableInv
    BY DigitsInit, TableInit
  <2>2. HitsInv
    BY DEF Init, HitsInv, HitIsMarked
  <2>3. PlacesInv
    <3>1. 0 \in 0 .. Len(LiveTasks) - 1
      BY SevenTasks
    <3> QED
      BY <3>1, Zenon DEF Init, PlacesInv
  <2> QED
    BY <2>1, <2>2, <2>3 DEF KeysInv
<1>2. KeysInv /\ [Next]_vars => KeysInv'
  BY DigitsNext, HitsNext, TableNext, PlacesNext, Zenon DEF KeysInv
<1>3. KeysInv => TypeOK
  <2> SUFFICES ASSUME KeysInv PROVE TypeOK
    OBVIOUS
  <2>1. Len(digits) <= 2 /\ ToSet(digits) \subseteq 0 .. 9
    BY DigitsAreTyped DEF KeysInv, DigitsInv
  <2>2. homeCursor \in 0 .. Len(Menu) - 1
    BY MenuLength DEF KeysInv, DigitsInv
  <2> QED
    BY <2>1, <2>2, Zenon DEF KeysInv, HitsInv, TableInv, PlacesInv, TypeOK
<1> QED
  BY <1>1, <1>2, <1>3, PTL DEF Spec

=================================================================================
