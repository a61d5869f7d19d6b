------------------------------ MODULE DirScanProofs ------------------------------
(* The directory measurement is correct for every tree.  A scan goes through a tree *)
(* once: the directories of the open calls are the way from the root to the         *)
(* innermost one (WayInv), and nothing under a name still to visit has been counted *)
(* (SumInv).  So no file is added twice; what is in no sum is ahead (TellInv), and  *)
(* at the end nothing is.                                                           *)
EXTENDS DirScan, TLAPS

---------------------------------------------------------------------------------
(* Trees: what is under a node, whatever the file system                          *)

HoldsChildren(S) == \A n \in Node \ {Root} : Parent[n] \in S => n \in S

Under(x) == {n \in Node : \A S \in SUBSET Node : x \in S /\ HoldsChildren(S) => n \in S}

LEMMA UnderSelf == ASSUME NEW x \in Node PROVE x \in Under(x)
  BY DEF Under

LEMMA UnderChild ==
    ASSUME NEW x, NEW n \in Node \ {Root}, Parent[n] \in Under(x)
    PROVE  n \in Under(x)
  BY DEF Under, HoldsChildren

LEMMA UnderParent ==
    ASSUME NEW x \in Node, NEW n \in Under(x), n # x
    PROVE  n \in Node \ {Root} /\ Parent[n] \in Under(x)
<1> DEFINE S == {x} \cup {k \in Node \ {Root} : Parent[k] \in Under(x)}
<1>1. S \in SUBSET Node /\ x \in S
  OBVIOUS
<1>2. HoldsChildren(S)
  <2> SUFFICES ASSUME NEW k \in Node \ {Root}, Parent[k] \in S PROVE Parent[k] \in Under(x)
    BY DEF HoldsChildren
  <2>1. CASE Parent[k] = x
    BY <2>1, UnderSelf
  <2>2. CASE Parent[k] # x
    BY <2>2, UnderChild
  <2> QED
    BY <2>1, <2>2
<1>3. n \in S
  BY <1>1, <1>2 DEF Under
<1> QED
  BY <1>3

LEMMA UnderTrans ==
    ASSUME NEW x \in Node, NEW y \in Under(x)
    PROVE  Under(y) \subseteq Under(x)
<1>1. HoldsChildren(Under(x)) /\ Under(x) \in SUBSET Node
  BY UnderChild DEF HoldsChildren, Under
<1> QED
  BY <1>1 DEF Under

LEMMA UnderRoot == ASSUME NEW x \in Node, Root \in Under(x) PROVE x = Root
  BY UnderParent

LEMMA NoCycle == ASSUME NEW n \in Node \ {Root} PROVE Parent[n] \notin Under(n)
<1> DEFINE S == {k \in Node : k = Root \/ Parent[k] \notin Under(k)}
<1>1. Root \in S
  BY TreeAssumption DEF Dirs
<1>2. ASSUME NEW k \in Node \ {Root}, Parent[k] \in S, Parent[k] \in Under(k)
      PROVE  FALSE
  <2>1. Parent[k] # Root
    BY <1>2, UnderRoot
  <2>2. Parent[k] # k
    BY <1>2, <2>1
  <2>3. Parent[k] \in Node \ {Root} /\ Parent[Parent[k]] \in Under(k)
    BY <1>2, <2>2, UnderParent
  <2>4. k \in Under(Parent[k])
    BY <2>3, UnderSelf, UnderChild
  <2>5. Under(k) \subseteq Under(Parent[k])
    BY <2>3, <2>4, UnderTrans
  <2> QED
    BY <1>2, <2>1, <2>3, <2>5
<1>3. \A k \in Node \ {Root} : Parent[k] \in S => k \in S
  BY <1>2
<1>4. S = Node
  BY <1>1, <1>3, ReachedAssumption
<1> QED
  BY <1>4

LEMMA UnderAntisym ==
    ASSUME NEW x \in Node, NEW y \in Under(x), x \in Under(y)
    PROVE  x = y
<1> SUFFICES ASSUME x # y PROVE FALSE
  OBVIOUS
<1>1. y \in Node \ {Root} /\ Parent[y] \in Under(x)
  BY UnderParent
<1>2. Under(x) \subseteq Under(y)
  BY <1>1, UnderTrans
<1> QED
  BY <1>1, <1>2, NoCycle

---------------------------------------------------------------------------------
(* What the steps do                                                               *)

\* The names still to visit are those of the directory.
Ahead == \A d \in Node : todo[d] \subseteq Children(d)

TypeInv == TypeOK /\ Ahead

\* A name is taken from the innermost directory and, at the deadline, the others too.
Takes(n) ==
    /\ pc = "walk" /\ pc' = "walk" /\ cur' = cur
    /\ n \in todo[cur] /\ n \in Node \ {Root} /\ Parent[n] = cur
    /\ todo' = [todo EXCEPT ![cur] = todo'[cur]]
    /\ todo'[cur] \subseteq todo[cur] \ {n}
    /\ ~truncated' => ~truncated /\ todo'[cur] = todo[cur] \ {n}
    /\ gone' = gone

LEMMA EndTakes ==
    ASSUME TypeInv, NEW n \in Node, Visit(n), EndOfBody(n), UNCHANGED <<pc, cur, gone>>
    PROVE  Takes(n)
<1>1. n \in Children(cur) /\ cur \in Node
  BY DEF TypeInv, TypeOK, Ahead, Visit, Dirs
<1>2. todo \in [Node -> SUBSET Node] /\ truncated \in BOOLEAN /\ late' \in BOOLEAN
  BY DEF TypeInv, TypeOK, Visit, TimePasses
<1>3. todo' = [todo EXCEPT ![cur] = IF late' THEN {} ELSE todo[cur] \ {n}]
  BY DEF EndOfBody
<1>4. todo'[cur] = IF late' THEN {} ELSE todo[cur] \ {n}
  BY <1>1, <1>2, <1>3
<1>5. todo' = [todo EXCEPT ![cur] = todo'[cur]]
  BY <1>3, <1>4
<1>6. ~truncated' => ~truncated /\ ~late'
  BY <1>2 DEF EndOfBody
<1> QED
  BY <1>1, <1>4, <1>5, <1>6 DEF Takes, Visit, Children

LEMMA OneTaken ==
    ASSUME TypeInv, NEW n \in Node, Visit(n), UNCHANGED <<pc, cur, gone, truncated>>,
           todo' = [todo EXCEPT ![cur] = @ \ {n}]
    PROVE  Takes(n)
<1>1. n \in Children(cur) /\ cur \in Node
  BY DEF TypeInv, TypeOK, Ahead, Visit, Dirs
<1>2. todo \in [Node -> SUBSET Node]
  BY DEF TypeInv, TypeOK
<1>3. todo'[cur] = todo[cur] \ {n}
  BY <1>1, <1>2
<1> QED
  BY <1>1, <1>2, <1>3 DEF Takes, Visit, Children

\* Every visit but a descent takes its name and stays where it is.
LEMMA VisitTakes ==
    ASSUME TypeInv, NEW n \in Node,
           Skip(n) \/ Cross(n) \/ Count(n) \/ Ignore(n) \/ GiveUp(n)
    PROVE  Takes(n)
<1>1. CASE Skip(n)
  BY <1>1, OneTaken DEF Skip, walk
<1>2. CASE Cross(n)
  BY <1>2, OneTaken DEF Cross
<1>3. CASE Count(n)
  BY <1>3, EndTakes DEF Count
<1>4. CASE Ignore(n)
  BY <1>4, EndTakes DEF Ignore
<1>5. CASE GiveUp(n)
  BY <1>5, EndTakes DEF GiveUp, Subdirectory
<1> QED
  BY <1>1, <1>2, <1>3, <1>4, <1>5

LEMMA TypeInit == Init => TypeInv
  BY TreeAssumption DEF Init, TypeInv, TypeOK, Ahead, Dirs

LEMMA TakesAhead ==
    ASSUME TypeInv, NEW n \in Node, Takes(n)
    PROVE  todo' \in [Node -> SUBSET Node] /\ Ahead'
  BY DEF TypeInv, TypeOK, Ahead, Takes, Dirs

LEMMA CountSeen ==
    ASSUME TypeInv, NEW n \in Node, Count(n)
    PROVE  /\ seen' \subseteq seen \cup {Inode[n]}
           /\ n \in Files
  BY DEF Count

LEMMA CountBytes ==
    ASSUME TypeInv, NEW n \in Node, Count(n)
    PROVE  /\ bytes' \in [Node -> SUBSET Files]
           /\ cur = Root => entries' = entries \cup {n} /\ bytes' = [bytes EXCEPT ![n] = bytes'[n]]
                            /\ bytes'[n] \subseteq {n}
           /\ cur # Root => entries' = entries /\ bytes' = [bytes EXCEPT ![cur] = bytes'[cur]]
                            /\ bytes'[cur] \subseteq bytes[cur] \cup {n}
<1> DEFINE added == IF AddsBlocks(n) THEN {n} ELSE {}
<1>1. n \in Files /\ cur \in Node /\ bytes \in [Node -> SUBSET Files] /\ added \subseteq {n}
  BY DEF Count, TypeInv, TypeOK, Dirs
<1>2. CASE cur = Root
  <2>1. entries' = entries \cup {n} /\ bytes' = [bytes EXCEPT ![n] = added]
    BY <1>2 DEF Count
  <2>2. bytes'[n] = added
    BY <1>1, <2>1
  <2> QED
    BY <1>1, <1>2, <2>1, <2>2
<1>3. CASE cur # Root
  <2>1. entries' = entries /\ bytes' = [bytes EXCEPT ![cur] = bytes[cur] \cup added]
    BY <1>3 DEF Count
  <2>2. bytes'[cur] = bytes[cur] \cup added
    BY <1>1, <2>1
  <2> QED
    BY <1>1, <1>3, <2>1, <2>2
<1> QED
  BY <1>2, <1>3

LEMMA ItemsType ==
    ASSUME items \in [Node -> SUBSET Node], cur \in Node, NEW new \in SUBSET Node
    PROVE  ItemsWith(new) \in [Node -> SUBSET Node]
  BY DEF ItemsWith

LEMMA TypeNext == TypeInv /\ [Next]_vars => TypeInv'
<1> SUFFICES ASSUME TypeInv, [Next]_vars PROVE TypeInv'
  OBVIOUS
<1> USE TreeAssumption DEF TypeInv, Dirs
<1>1. CASE Start
  <2>1. todo' \in [Node -> SUBSET Node] /\ Ahead'
    BY <1>1 DEF Start, TypeOK, Ahead, Children
  <2>2. pc' \in {"start", "walk", "done"} /\ denied' \in SUBSET Dirs
    BY <1>1 DEF Start, TypeOK
  <2>3. late' \in BOOLEAN
    BY <1>1 DEF Start, TimePasses, TypeOK
  <2> QED
    BY <1>1, <2>1, <2>2, <2>3 DEF Start, TypeOK
<1>2. ASSUME NEW n \in Node, Skip(n) PROVE TypeInv'
  BY <1>2, VisitTakes, TakesAhead DEF Skip, Visit, TimePasses, TypeOK, walk
<1>3. ASSUME NEW n \in Node, Cross(n) PROVE TypeInv'
  <2>1. items' \in [Node -> SUBSET Node]
    BY <1>3, ItemsType DEF Cross, TypeOK
  <2>2. late' \in BOOLEAN /\ crossed' \in SUBSET Dirs
    BY <1>3 DEF Cross, Visit, TimePasses, TypeOK
  <2> QED
    BY <1>3, <2>1, <2>2, VisitTakes, TakesAhead DEF Cross, TypeOK
<1>4. ASSUME NEW n \in Node, Count(n) PROVE TypeInv'
  <2>1. n \in Children(cur)
    BY <1>4 DEF Count, Visit, Ahead, TypeOK
  <2>2. entries' \subseteq Children(Root)
    BY <1>4, <2>1, CountBytes DEF TypeOK
  <2>3. late' \in BOOLEAN /\ truncated' \in BOOLEAN
    BY <1>4 DEF Count, Visit, TimePasses, EndOfBody, TypeOK
  <2>4. items' \in [Node -> SUBSET Node]
    BY <1>4, ItemsType DEF Count, TypeOK
  <2>5. files' \in SUBSET Files /\ seen' \in SUBSET {Inode[f] : f \in Files}
    BY <1>4, CountSeen DEF Count, TypeOK
  <2> QED
    BY <1>4, <2>2, <2>3, <2>4, <2>5, CountBytes, VisitTakes, TakesAhead DEF Count, TypeOK
<1>5. ASSUME NEW n \in Node, Ignore(n) PROVE TypeInv'
  <2>1. items' \in [Node -> SUBSET Node]
    BY <1>5, ItemsType DEF Ignore, TypeOK
  <2>2. late' \in BOOLEAN /\ truncated' \in BOOLEAN
    BY <1>5 DEF Ignore, Visit, TimePasses, EndOfBody, TypeOK
  <2> QED
    BY <1>5, <2>1, <2>2, VisitTakes, TakesAhead DEF Ignore, TypeOK
<1>6. ASSUME NEW n \in Node, GiveUp(n) PROVE TypeInv'
  <2>1. n \in Children(cur) /\ n \in Dirs
    BY <1>6 DEF GiveUp, Subdirectory, Visit, Ahead, TypeOK
  <2>2. entries' \subseteq Children(Root)
    BY <1>6, <2>1 DEF GiveUp, Reported, TypeOK
  <2>3. late' \in BOOLEAN /\ truncated' \in BOOLEAN /\ denied' \in SUBSET Dirs
    BY <1>6, <2>1 DEF GiveUp, Subdirectory, Visit, TimePasses, EndOfBody, TypeOK
  <2>4. items' \in [Node -> SUBSET Node]
    BY <1>6, ItemsType DEF GiveUp, Subdirectory, TypeOK
  <2> QED
    BY <1>6, <2>2, <2>3, <2>4, VisitTakes, TakesAhead DEF GiveUp, Subdirectory, TypeOK
<1>7. ASSUME NEW n \in Node, Descend(n) PROVE TypeInv'
  <2>1. items' \in [Node -> SUBSET Node]
    BY <1>7, ItemsType DEF Descend, Subdirectory, TypeOK
  <2>2. todo' \in [Node -> SUBSET Node] /\ Ahead'
    BY <1>7 DEF Descend, TypeOK, Ahead, Children
  <2> QED
    BY <1>7, <2>1, <2>2 DEF Descend, Subdirectory, Visit, TimePasses, TypeOK
<1>8. CASE Return
  <2>1. cur \in Node \ {Root} /\ Parent[cur] \in Dirs
    BY <1>8 DEF Return, TypeOK
  <2>2. entries' \subseteq Children(Root)
    BY <1>8, <2>1 DEF Return, TypeOK, Children
  <2>3. bytes' \in [Node -> SUBSET Files] /\ items' \in [Node -> SUBSET Node]
    BY <1>8, <2>1 DEF Return, TypeOK
  <2>4. todo' \in [Node -> SUBSET Node] /\ Ahead'
    BY <1>8, <2>1 DEF Return, TypeOK, Ahead
  <2>5. late' \in BOOLEAN /\ truncated' \in BOOLEAN
    BY <1>8 DEF Return, TimePasses, TypeOK
  <2> QED
    BY <1>8, <2>1, <2>2, <2>3, <2>4, <2>5 DEF Return, TypeOK
<1>9. CASE Finish
  BY <1>9 DEF Finish, TypeOK, Ahead, walk
<1>10. ASSUME NEW n \in Node, Remove(n) PROVE TypeInv'
  BY <1>10 DEF Remove, TypeOK, Ahead, walk
<1>11. CASE UNCHANGED vars
  BY <1>11 DEF vars, TypeOK, Ahead, walk
<1> QED
  BY <1>1, <1>2, <1>3, <1>4, <1>5, <1>6, <1>7, <1>8, <1>9, <1>10, <1>11 DEF Next, Step

LEMMA DescendFacts ==
    ASSUME TypeInv, NEW n \in Node, Descend(n)
    PROVE  /\ n \in Node \ {Root} /\ Parent[n] = cur /\ n \in todo[cur] /\ n # cur
           /\ n \in Dirs /\ Device[n] = Device[Root] /\ n \notin gone
           /\ cur' = n /\ pc = "walk"
           /\ todo'[n] = Children(n) \ gone
           /\ todo'[cur] = todo[cur] \ {n}
           /\ \A d \in Node \ {n, cur} : todo'[d] = todo[d]
<1>1. cur \in Node /\ todo \in [Node -> SUBSET Node]
  BY DEF TypeInv, TypeOK, Dirs
<1>2. n \in todo[cur] /\ pc = "walk" /\ n \in Dirs /\ Device[n] = Device[Root] /\ n \notin gone
  BY DEF Descend, Subdirectory, Visit, Stat
<1>3. n \in Node \ {Root} /\ Parent[n] = cur
  BY <1>1, <1>2 DEF TypeInv, Ahead, Children
<1>4. n # cur
  BY <1>3, NoCycle, UnderSelf
<1> QED
  BY <1>1, <1>2, <1>3, <1>4 DEF Descend

LEMMA ReturnFacts ==
    ASSUME TypeInv, Return
    PROVE  /\ cur \in Node \ {Root} /\ Parent[cur] \in Dirs /\ cur' = Parent[cur]
           /\ pc = "walk" /\ todo[cur] = {}
           /\ \A d \in Node : todo'[d] \subseteq todo[d]
           /\ ~truncated' => ~truncated /\ todo' = todo
<1>1. cur \in Node \ {Root}
  BY DEF Return, TypeInv, TypeOK, Dirs
<1>2. Parent[cur] \in Dirs
  BY <1>1, TreeAssumption
<1>3. late' \in BOOLEAN /\ truncated \in BOOLEAN
  BY DEF Return, TimePasses, TypeInv, TypeOK
<1>4. \A d \in Node : todo'[d] \subseteq todo[d]
  BY <1>2 DEF Return, TypeInv, TypeOK, Dirs
<1>5. ~truncated' => ~truncated /\ todo' = todo
  BY <1>3 DEF Return
<1> QED
  BY <1>1, <1>2, <1>4, <1>5 DEF Return

---------------------------------------------------------------------------------
(* The way from the root to the innermost directory                                *)

OnTheWay(x) == cur \in Under(x)

\* Every directory on the way is of the file system that is measured, has been taken
\* from its parent, and no other directory has names left to visit.
WayInv ==
    /\ \A x \in Node : OnTheWay(x) =>
          Device[x] = Device[Root] /\ (x # Root => x \notin todo[Parent[x]])
    /\ \A d \in Node : todo[d] # {} => OnTheWay(d)
    /\ pc # "walk" => cur = Root
    /\ pc = "done" => todo[Root] = {}
    /\ pc = "start" =>
          /\ \A d \in Node : todo[d] = {} /\ bytes[d] = {} /\ items[d] = {}
          /\ entries = {} /\ seen = {}

LEMMA WayInit == Init => WayInv
<1> SUFFICES ASSUME Init PROVE WayInv
  OBVIOUS
<1>1. \A x \in Node : Root \in Under(x) => x = Root
  BY UnderRoot
<1> QED
  BY <1>1 DEF Init, WayInv, OnTheWay

\* Nothing that is on the way is under a name still to visit.
LEMMA AheadIsOff ==
    ASSUME TypeInv, WayInv, NEW d \in Node, NEW x \in todo[d]
    PROVE  /\ x \in Node \ {Root} /\ Parent[x] = d /\ d \in Dirs
           /\ \A y \in Node : OnTheWay(y) => y \notin Under(x)
<1>1. x \in Node \ {Root} /\ Parent[x] = d
  BY DEF TypeInv, Ahead, Children
<1>2. d \in Dirs
  BY <1>1, TreeAssumption
<1>3. ASSUME NEW y \in Node, OnTheWay(y), y \in Under(x) PROVE FALSE
  <2>1. cur \in Under(x)
    BY <1>1, <1>3, UnderTrans DEF OnTheWay
  <2> QED
    BY <1>1, <2>1 DEF WayInv, OnTheWay
<1> QED
  BY <1>1, <1>2, <1>3

LEMMA WayTakes ==
    ASSUME TypeInv, WayInv, NEW n \in Node, Takes(n)
    PROVE  WayInv'
<1>1. \A d \in Node : todo'[d] \subseteq todo[d]
  BY DEF Takes, TypeInv, TypeOK, Dirs
<1>2. cur' = cur /\ pc' = "walk"
  BY DEF Takes
<1> QED
  BY <1>1, <1>2, TreeAssumption DEF WayInv, OnTheWay, Dirs

LEMMA WayNext == TypeInv /\ WayInv /\ [Next]_vars => WayInv'
<1> SUFFICES ASSUME TypeInv, WayInv, [Next]_vars PROVE WayInv'
  OBVIOUS
<1>0. cur \in Node /\ Root \in Node /\ todo \in [Node -> SUBSET Node]
  BY TreeAssumption DEF TypeInv, TypeOK, Dirs
<1>1. CASE Start
  <2>1. cur = Root /\ cur' = Root /\ (\A d \in Node : todo[d] = {})
    BY <1>1 DEF Start, WayInv
  <2>2. \A x \in Node : Root \in Under(x) => x = Root
    BY UnderRoot
  <2>3. \A d \in Node : todo'[d] # {} => d = Root
    BY <1>0, <1>1, <2>1 DEF Start
  <2>4. pc' # "start" /\ (pc' = "done" => todo' = todo)
    BY <1>1 DEF Start
  <2> QED
    BY <1>0, <2>1, <2>2, <2>3, <2>4, UnderSelf DEF WayInv, OnTheWay
<1>2. ASSUME NEW n \in Node, Skip(n) \/ Cross(n) \/ Count(n) \/ Ignore(n) \/ GiveUp(n)
      PROVE  WayInv'
  BY <1>2, VisitTakes, WayTakes
<1>3. ASSUME NEW n \in Node, Descend(n) PROVE WayInv'
  <2>1. n \in Under(cur)
    BY <1>0, <1>3, DescendFacts, UnderSelf, UnderChild
  <2>2. pc' = "walk" /\ cur' = n
    BY <1>3 DEF Descend, Subdirectory, Visit
  <2>3. ASSUME NEW x \in Node, n \in Under(x) PROVE x = n \/ cur \in Under(x)
    BY <1>3, <2>3, DescendFacts, UnderParent
  <2>4. ASSUME NEW x \in Node, n \in Under(x)
        PROVE  Device[x] = Device[Root] /\ (x # Root => x \notin todo'[Parent[x]])
    <3>1. CASE x = n
      BY <1>3, <3>1, DescendFacts
    <3>2. CASE x # n
      <4>1. OnTheWay(x)
        BY <2>3, <2>4, <3>2 DEF OnTheWay
      <4>2. Device[x] = Device[Root]
        BY <4>1 DEF WayInv
      <4>3. ASSUME x # Root PROVE x \notin todo'[Parent[x]]
        <5>1. Parent[x] \in Node /\ x \notin todo[Parent[x]]
          BY <4>1, <4>3, TreeAssumption DEF WayInv, Dirs
        <5>2. Parent[x] # n
          BY <2>4, <4>3, NoCycle
        <5>3. todo'[Parent[x]] \subseteq todo[Parent[x]]
          BY <1>3, <5>1, <5>2, DescendFacts
        <5> QED
          BY <5>1, <5>3
      <4> QED
        BY <4>2, <4>3
    <3> QED
      BY <3>1, <3>2
  <2>5. ASSUME NEW d \in Node, todo'[d] # {} PROVE n \in Under(d)
    <3>1. CASE d = n
      BY <3>1, UnderSelf
    <3>2. CASE d # n
      <4>1. todo[d] # {}
        BY <1>3, <2>5, <3>2, DescendFacts
      <4>2. cur \in Under(d)
        BY <4>1 DEF WayInv, OnTheWay
      <4> QED
        BY <1>3, <4>2, DescendFacts, UnderChild
    <3> QED
      BY <3>1, <3>2
  <2> QED
    BY <2>2, <2>4, <2>5 DEF WayInv, OnTheWay
<1>4. CASE Return
  <2>1. /\ cur \in Node \ {Root} /\ cur' = Parent[cur] /\ Parent[cur] \in Node /\ todo[cur] = {}
        /\ \A d \in Node : todo'[d] \subseteq todo[d]
    BY <1>4, ReturnFacts DEF Dirs
  <2>2. pc' = "walk"
    BY <1>4 DEF Return
  <2>3. ASSUME NEW x \in Node, Parent[cur] \in Under(x)
        PROVE  Device[x] = Device[Root] /\ (x # Root => x \notin todo'[Parent[x]])
    <3>1. OnTheWay(x)
      BY <2>1, <2>3, UnderChild DEF OnTheWay
    <3> QED
      BY <2>1, <3>1, TreeAssumption DEF WayInv, Dirs
  <2>4. ASSUME NEW d \in Node, todo'[d] # {} PROVE Parent[cur] \in Under(d)
    <3>1. todo[d] # {} /\ d # cur
      BY <2>1, <2>4
    <3>2. cur \in Under(d)
      BY <3>1 DEF WayInv, OnTheWay
    <3> QED
      BY <3>1, <3>2, UnderParent
  <2> QED
    BY <2>1, <2>2, <2>3, <2>4 DEF WayInv, OnTheWay
<1>5. CASE Finish
  BY <1>5 DEF Finish, WayInv, OnTheWay, walk
<1>6. ASSUME NEW n \in Node, Remove(n) PROVE WayInv'
  BY <1>6 DEF Remove, WayInv, OnTheWay, walk
<1>7. CASE UNCHANGED vars
  BY <1>7 DEF vars, WayInv, OnTheWay, walk
<1> QED
  BY <1>1, <1>2, <1>3, <1>4, <1>5, <1>6, <1>7 DEF Next, Step

---------------------------------------------------------------------------------
(* The sums                                                                        *)

\* What is still to visit has not been counted.
Fresh ==
    \A d \in Node : \A x \in todo[d] : \A k \in Under(x) :
        bytes[k] = {} /\ \A m \in Node : k \notin bytes[m]

\* The directories whose sums are reported, or will be added to a sum that is.
Open == entries \cup {d \in Node \ {Root} : OnTheWay(d)}

Disjoint == \A d, e \in Open : d # e => bytes[d] \cap bytes[e] = {}

\* A file removed during the scan has no other name.
OneName ==
    \A f \in Files \cap Volatile : \A g \in Files : Inode[g] = Inode[f] => g = f

\* The inode of what was counted is known, when the file has another name.
Known ==
    \A m \in Node : \A f \in bytes[m] : \A g \in Files \ {f} :
        Inode[g] = Inode[f] => Inode[f] \in seen

Single ==
    \A m, n \in Node : \A f \in bytes[m], g \in bytes[n] : Inode[f] = Inode[g] => f = g

SumInv == Fresh /\ Disjoint

OnceInv == Known /\ Single

LEMMA SumInit == Init => SumInv /\ OnceInv
  BY DEF Init, SumInv, Fresh, Open, Disjoint, OnceInv, Known, Single, Children

\* The sum that a file met here goes into.
SumOf(n) == IF cur = Root THEN n ELSE cur

LEMMA CountSum ==
    ASSUME TypeInv, NEW n \in Node, Count(n)
    PROVE  /\ SumOf(n) \in Node
           /\ \A m \in Node \ {SumOf(n)} : bytes'[m] = bytes[m]
           /\ bytes'[SumOf(n)] \subseteq bytes[SumOf(n)] \cup {n}
           /\ n \in bytes'[SumOf(n)] \ bytes[SumOf(n)] => AddsBlocks(n)
           /\ entries' = IF cur = Root THEN entries \cup {n} ELSE entries
<1> DEFINE added == IF AddsBlocks(n) THEN {n} ELSE {}
<1>1. n \in Files /\ cur \in Node /\ bytes \in [Node -> SUBSET Files] /\ added \subseteq {n}
  BY DEF Count, TypeInv, TypeOK, Dirs
<1>2. n \in added => AddsBlocks(n)
  OBVIOUS
<1>3. CASE cur = Root
  <2>1. entries' = entries \cup {n} /\ bytes' = [bytes EXCEPT ![n] = added]
    BY <1>3 DEF Count
  <2> HIDE DEF added
  <2>2. bytes'[n] = added /\ (\A m \in Node \ {n} : bytes'[m] = bytes[m])
    BY <1>1, <2>1
  <2> QED
    BY <1>1, <1>2, <1>3, <2>1, <2>2 DEF SumOf
<1>4. CASE cur # Root
  <2>1. entries' = entries /\ bytes' = [bytes EXCEPT ![cur] = bytes[cur] \cup added]
    BY <1>4 DEF Count
  <2> HIDE DEF added
  <2>2. bytes'[cur] = bytes[cur] \cup added /\ (\A m \in Node \ {cur} : bytes'[m] = bytes[m])
    BY <1>1, <2>1
  <2> QED
    BY <1>1, <1>2, <1>4, <2>1, <2>2 DEF SumOf
<1> QED
  BY <1>3, <1>4

LEMMA ReturnSum ==
    ASSUME TypeInv, Return
    PROVE  /\ Parent[cur] = Root => bytes' = bytes /\ entries' = entries \cup {cur}
           /\ Parent[cur] # Root =>
                /\ entries' = entries
                /\ bytes'[Parent[cur]] = bytes[Parent[cur]] \cup bytes[cur]
                /\ \A m \in Node \ {Parent[cur]} : bytes'[m] = bytes[m]
  BY ReturnFacts DEF Return, TypeInv, TypeOK, Dirs

\* What is visited now is under no name that remains.
LEMMA TakenIsOff ==
    ASSUME TypeInv, WayInv, NEW n \in Node, Takes(n),
           NEW d \in Node, NEW x \in todo'[d]
    PROVE  x \in todo[d] /\ n \notin Under(x) /\ cur \notin Under(x)
<1>1. cur \in Node /\ todo \in [Node -> SUBSET Node]
  BY DEF TypeInv, TypeOK, Dirs
<1>2. x \in todo[d] /\ (d = cur => x # n)
  BY <1>1 DEF Takes
<1>3. x \in Node \ {Root} /\ Parent[x] = d
  BY <1>2, AheadIsOff
<1>4. cur \notin Under(x)
  BY <1>1, <1>2, AheadIsOff, UnderSelf DEF OnTheWay
<1>5. n \notin Under(x)
  <2> SUFFICES ASSUME n \in Under(x) PROVE FALSE
    OBVIOUS
  <2>1. n # x
    BY <1>2, <1>3 DEF Takes
  <2>2. Parent[n] \in Under(x)
    BY <1>3, <2>1, UnderParent
  <2> QED
    BY <1>4, <2>2 DEF Takes
<1> QED
  BY <1>2, <1>4, <1>5

\* A visit that adds nothing to a sum.
LEMMA SumTakes ==
    ASSUME TypeInv, WayInv, SumInv, NEW n \in Node, Takes(n),
           bytes' = bytes,
           entries' = entries \/ entries' = entries \cup {n}
    PROVE  SumInv'
<1>1. Fresh'
  BY TakenIsOff DEF SumInv, Fresh
<1>2. bytes[n] = {}
  BY UnderSelf DEF SumInv, Fresh, Takes, TypeInv, TypeOK, Dirs
<1>3. Open' \subseteq Open \cup {n}
  BY DEF Takes, Open, OnTheWay
<1>4. Disjoint'
  BY <1>2, <1>3 DEF SumInv, Disjoint
<1> QED
  BY <1>1, <1>4 DEF SumInv

LEMMA SumCount ==
    ASSUME TypeInv, WayInv, SumInv, NEW n \in Node, Count(n)
    PROVE  SumInv'
<1>1. Takes(n)
  BY VisitTakes
<1>2. n \in Under(n) /\ n \in Files /\ n \notin gone /\ cur \in Node /\ n \in todo[cur]
  BY <1>1, UnderSelf DEF Count, Stat, Takes, TypeInv, TypeOK, Dirs
<1>3. bytes[n] = {} /\ (\A m \in Node : n \notin bytes[m])
  BY <1>2 DEF SumInv, Fresh
<1>4. Fresh'
  <2> SUFFICES ASSUME NEW d \in Node, NEW x \in todo'[d], NEW k \in Under(x)
               PROVE  bytes'[k] = {} /\ \A m \in Node : k \notin bytes'[m]
    BY DEF Fresh
  <2>1. x \in todo[d] /\ k # n /\ k # cur
    BY <1>1, TakenIsOff
  <2>2. bytes[k] = {} /\ (\A m \in Node : k \notin bytes[m]) /\ k \in Node
    BY <2>1 DEF SumInv, Fresh, Under
  <2> QED
    BY <2>1, <2>2, CountSum DEF SumOf
<1>5. Disjoint'
  <2>1. Open' \subseteq Open \cup (IF cur = Root THEN {n} ELSE {})
    BY <1>1, CountSum DEF Takes, Open, OnTheWay
  <2>2. Open \cup {n} \subseteq Node
    BY DEF Open, TypeInv, TypeOK, Children
  <2> SUFFICES ASSUME NEW d \in Open', NEW e \in Open', d # e
               PROVE  bytes'[d] \cap bytes'[e] = {}
    BY DEF Disjoint
  <2>3. bytes[d] \cap bytes[e] = {}
    BY <1>3, <2>1 DEF SumInv, Disjoint
  <2>4. d \in Node /\ e \in Node
    BY <2>1, <2>2
  <2>5. \A m \in Node : m # SumOf(n) => bytes'[m] = bytes[m]
    BY CountSum
  <2>6. CASE d = SumOf(n)
    BY <1>3, <2>3, <2>4, <2>5, <2>6, CountSum
  <2>7. CASE e = SumOf(n)
    BY <1>3, <2>3, <2>4, <2>5, <2>7, CountSum
  <2>8. CASE d # SumOf(n) /\ e # SumOf(n)
    BY <2>3, <2>4, <2>5, <2>8
  <2> QED
    BY <2>6, <2>7, <2>8
<1> QED
  BY <1>4, <1>5 DEF SumInv

LEMMA OnceCount ==
    ASSUME OneName, TypeInv, WayInv, SumInv, OnceInv, NEW n \in Node, Count(n)
    PROVE  OnceInv'
<1>1. Takes(n)
  BY VisitTakes
<1>2. n \in Under(n) /\ n \in Files /\ n \notin gone /\ cur \in Node /\ n \in todo[cur]
  BY <1>1, UnderSelf DEF Count, Stat, Takes, TypeInv, TypeOK, Dirs
<1>3. \A m \in Node : n \notin bytes[m]
  BY <1>2 DEF SumInv, Fresh
<1>6. seen' = IF HasLinks(n) THEN seen \cup {Inode[n]} ELSE seen
  BY DEF Count
<1>7. \A m \in Node : bytes'[m] \subseteq bytes[m] \cup {n}
  BY CountSum
<1>8. \A m \in Node : n \in bytes'[m] => AddsBlocks(n)
  BY <1>3, CountSum
<1>9. ASSUME NEW g \in Files \ {n}, Inode[g] = Inode[n]
      PROVE  HasLinks(n)
  <2>1. g \notin Volatile
    BY <1>2, <1>9 DEF OneName
  <2>2. g \notin gone
    BY <2>1 DEF TypeInv, TypeOK
  <2> QED
    BY <1>9, <2>2 DEF HasLinks
<1>10. Known'
  <2> SUFFICES ASSUME NEW m \in Node, NEW f \in bytes'[m], NEW g \in Files \ {f}, Inode[g] = Inode[f]
               PROVE  Inode[f] \in seen'
    BY DEF Known
  <2>1. CASE f = n
    BY <1>6, <1>9, <2>1
  <2>2. CASE f # n
    BY <1>6, <1>7, <2>2 DEF OnceInv, Known
  <2> QED
    BY <2>1, <2>2
<1>11. ASSUME NEW m \in Node, NEW f \in bytes[m], NEW k \in Node, n \in bytes'[k], Inode[f] = Inode[n]
       PROVE  FALSE
  <2>1. f \in Files /\ f # n
    BY <1>3, <1>11 DEF TypeInv, TypeOK
  <2>2. HasLinks(n)
    BY <1>9, <1>11, <2>1
  <2>3. Inode[n] \in seen
    BY <1>2, <1>11, <2>1 DEF OnceInv, Known
  <2> QED
    BY <1>8, <1>11, <2>2, <2>3 DEF AddsBlocks
<1>12. Single'
  <2> SUFFICES ASSUME NEW m \in Node, NEW k \in Node, NEW f \in bytes'[m], NEW g \in bytes'[k],
                      Inode[f] = Inode[g]
               PROVE  f = g
    BY DEF Single
  <2>1. CASE f = n /\ g # n
    BY <1>7, <1>11, <2>1
  <2>2. CASE f # n /\ g = n
    BY <1>7, <1>11, <2>2
  <2>3. CASE f # n /\ g # n
    BY <1>7, <2>3 DEF OnceInv, Single
  <2> QED
    BY <2>1, <2>2, <2>3
<1> QED
  BY <1>10, <1>12 DEF OnceInv

LEMMA SumDescend ==
    ASSUME TypeInv, WayInv, SumInv, NEW n \in Node, Descend(n)
    PROVE  SumInv'
<1>1. bytes' = bytes /\ entries' = entries /\ seen' = seen /\ cur' = n
  BY DEF Descend, Subdirectory
<1>2. /\ n \in Node \ {Root} /\ Parent[n] = cur /\ n \in todo[cur] /\ cur \in Node
      /\ \A d \in Node \ {n} : todo'[d] \subseteq todo[d]
      /\ todo'[n] \subseteq Children(n)
  BY DescendFacts DEF TypeInv, TypeOK, Dirs
<1>3. \A k \in Under(n) : bytes[k] = {} /\ \A m \in Node : k \notin bytes[m]
  BY <1>2 DEF SumInv, Fresh
<1>4. Fresh'
  <2> SUFFICES ASSUME NEW d \in Node, NEW x \in todo'[d], NEW k \in Under(x)
               PROVE  bytes[k] = {} /\ \A m \in Node : k \notin bytes[m]
    BY <1>1 DEF Fresh
  <2>1. CASE d = n
    <3>1. x \in Under(n)
      BY <1>2, <2>1, UnderSelf, UnderChild DEF Children
    <3> QED
      BY <1>2, <1>3, <3>1, UnderTrans
  <2>2. CASE d # n
    BY <1>2, <2>2 DEF SumInv, Fresh
  <2> QED
    BY <2>1, <2>2
<1>5. Open' \subseteq Open \cup {n}
  BY <1>1, <1>2, UnderParent DEF Open, OnTheWay
<1>6. bytes[n] = {}
  BY <1>2, <1>3, UnderSelf
<1>7. Disjoint'
  BY <1>1, <1>5, <1>6 DEF SumInv, Disjoint
<1> QED
  BY <1>4, <1>7 DEF SumInv

LEMMA SumReturn ==
    ASSUME TypeInv, WayInv, SumInv, Return
    PROVE  SumInv'
<1>1. /\ cur \in Node \ {Root} /\ Parent[cur] \in Node /\ cur' = Parent[cur]
      /\ \A d \in Node : todo'[d] \subseteq todo[d]
  BY ReturnFacts DEF Dirs
<1>3. cur \in Open /\ cur # Parent[cur]
  BY <1>1, UnderSelf, NoCycle DEF Open, OnTheWay
<1>4. ASSUME NEW d \in Node, Parent[cur] \in Under(d)
      PROVE  OnTheWay(d) /\ d # cur
  BY <1>1, <1>4, UnderChild, NoCycle DEF OnTheWay
<1>5. \A m \in Node : bytes'[m] \subseteq bytes[m] \cup bytes[cur]
  BY <1>1, ReturnSum
<1>6. Fresh'
  <2> SUFFICES ASSUME NEW d \in Node, NEW x \in todo'[d], NEW k \in Under(x)
               PROVE  bytes'[k] = {} /\ \A m \in Node : k \notin bytes'[m]
    BY DEF Fresh
  <2>1. x \in todo[d]
    BY <1>1
  <2>2. bytes[k] = {} /\ (\A m \in Node : k \notin bytes[m]) /\ k \in Node
    BY <2>1 DEF SumInv, Fresh, Under
  <2>3. k # Parent[cur]
    BY <1>1, <1>4, <2>1, AheadIsOff, UnderSelf
  <2> QED
    BY <1>1, <1>5, <2>2, <2>3, ReturnSum
<1>8. CASE Parent[cur] = Root
  <2>1. Open' \subseteq Open
    BY <1>1, <1>3, <1>4, <1>8, ReturnSum DEF Open, OnTheWay
  <2>2. Disjoint'
    BY <1>8, <2>1, ReturnSum DEF SumInv, Disjoint
  <2> QED
    BY <1>6, <2>2 DEF SumInv
<1>9. CASE Parent[cur] # Root
  <2>1. cur \notin entries
    BY <1>9 DEF TypeInv, TypeOK, Children
  <2>2. Open' \subseteq Open \ {cur} /\ Open \subseteq Node
    BY <1>1, <1>4, <1>9, <2>1, ReturnSum DEF Open, OnTheWay, TypeInv, TypeOK, Children
  <2>3. Parent[cur] \in Open
    BY <1>1, <1>9, UnderSelf, UnderChild DEF Open, OnTheWay
  <2>4. ASSUME NEW d \in Open', NEW e \in Open', d # e
        PROVE  bytes'[d] \cap bytes'[e] = {}
    <3>1. d \in Open /\ e \in Open /\ d # cur /\ e # cur /\ d \in Node /\ e \in Node
      BY <2>2
    <3>2. /\ bytes[d] \cap bytes[e] = {}
          /\ bytes[d] \cap bytes[cur] = {}
          /\ bytes[e] \cap bytes[cur] = {}
      BY <1>3, <2>4, <3>1 DEF SumInv, Disjoint
    <3> QED
      BY <1>9, <2>4, <3>1, <3>2, ReturnSum
  <2>5. Disjoint'
    BY <2>4 DEF Disjoint
  <2> QED
    BY <1>6, <2>5 DEF SumInv
<1> QED
  BY <1>8, <1>9

LEMMA SumNext ==
    ASSUME TypeInv, WayInv, SumInv, [Next]_vars
    PROVE  SumInv'
<1>1. CASE Start
  <2>1. /\ \A d \in Node : bytes[d] = {}
        /\ bytes' = bytes /\ entries' = entries
    BY <1>1 DEF Start, WayInv
  <2>2. entries' = {} /\ cur' = Root
    BY <1>1 DEF Start, WayInv
  <2>3. Open' \subseteq Node
    BY <2>2 DEF Open
  <2>4. Fresh'
    BY <2>1 DEF Fresh, Under
  <2> QED
    BY <2>1, <2>3, <2>4 DEF SumInv, Disjoint
<1>2. ASSUME NEW n \in Node, Skip(n) \/ Cross(n) \/ Ignore(n) \/ GiveUp(n)
      PROVE  SumInv'
  <2>1. Takes(n)
    BY <1>2, VisitTakes
  <2>2. /\ bytes' = bytes
        /\ entries' = entries \/ entries' = entries \cup {n}
    BY <1>2 DEF Skip, Cross, Ignore, GiveUp, Subdirectory, Reported, walk
  <2> QED
    BY <2>1, <2>2, SumTakes
<1>3. ASSUME NEW n \in Node, Count(n) PROVE SumInv'
  BY <1>3, SumCount
<1>4. ASSUME NEW n \in Node, Descend(n) PROVE SumInv'
  BY <1>4, SumDescend
<1>5. CASE Return
  BY <1>5, SumReturn
<1>6. ASSUME bytes' = bytes, entries' = entries, todo' = todo, cur' = cur
      PROVE  SumInv'
  BY <1>6 DEF SumInv, Fresh, Disjoint, Open, OnTheWay
<1>7. CASE Finish
  BY <1>6, <1>7 DEF Finish, walk
<1>8. ASSUME NEW n \in Node, Remove(n) PROVE SumInv'
  BY <1>6, <1>8 DEF Remove, walk
<1>9. CASE UNCHANGED vars
  BY <1>6, <1>9 DEF vars, walk
<1> QED
  BY <1>1, <1>2, <1>3, <1>4, <1>5, <1>7, <1>8, <1>9 DEF Next, Step

LEMMA OnceNext ==
    ASSUME OneName, TypeInv, WayInv, SumInv, OnceInv, [Next]_vars
    PROVE  OnceInv'
<1>1. CASE \E n \in Node : Count(n)
  BY <1>1, OnceCount
<1>2. CASE Return
  <2>1. seen' = seen /\ cur \in Node
    BY <1>2, ReturnFacts DEF Return
  <2>2. \A m \in Node : bytes'[m] \subseteq bytes[m] \cup bytes[cur]
    BY <1>2, ReturnSum, ReturnFacts
  <2> QED
    BY <2>1, <2>2 DEF OnceInv, Known, Single
<1>3. CASE bytes' = bytes /\ seen' = seen
  BY <1>3 DEF OnceInv, Known, Single
<1>4. CASE Start \/ Finish \/ UNCHANGED vars \/ \E n \in Node : Remove(n)
  BY <1>3, <1>4 DEF Start, Finish, Remove, vars, walk
<1>5. CASE \E n \in Node : Skip(n) \/ Cross(n) \/ Ignore(n) \/ GiveUp(n) \/ Descend(n)
  BY <1>3, <1>5 DEF Skip, Cross, Ignore, GiveUp, Descend, Subdirectory, walk
<1> QED
  BY <1>1, <1>2, <1>4, <1>5 DEF Next, Step

LEMMA SumSays == TypeInv /\ WayInv /\ SumInv /\ OnceInv => CountedOnce
<1> SUFFICES ASSUME TypeInv, WayInv, SumInv, OnceInv PROVE CountedOnce
  OBVIOUS
<1>1. ASSUME cur # Root, Parent[cur] # Root
      PROVE  bytes[cur] \cap bytes[Parent[cur]] = {}
  <2>1. cur \in Node \ {Root} /\ Parent[cur] \in Node \ {Root}
    BY <1>1, TreeAssumption DEF TypeInv, TypeOK, Dirs
  <2>2. cur \in Open /\ Parent[cur] \in Open /\ cur # Parent[cur]
    BY <2>1, UnderSelf, UnderChild, NoCycle DEF Open, OnTheWay
  <2> QED
    BY <2>2 DEF SumInv, Disjoint
<1>2. \A d, e \in entries : d # e => bytes[d] \cap bytes[e] = {}
  BY DEF SumInv, Disjoint, Open
<1> QED
  BY <1>1, <1>2 DEF CountedOnce, OnceInv, Single

\* For every tree the variables are of their types.
THEOREM TypesHold == Spec => []TypeOK
<1>1. Spec => []TypeInv
  BY TypeInit, TypeNext, PTL DEF Spec
<1> QED
  BY <1>1, PTL DEF TypeInv

\* For every tree, when files that are removed during the scan have no other name:
\* the blocks of a file are in the sums once, whichever of its names are met.
THEOREM EveryFileOnce ==
    ASSUME OneName
    PROVE  Spec => []CountedOnce
<1> DEFINE IInv == TypeInv /\ WayInv /\ SumInv /\ OnceInv
<1>1. Init => IInv
  BY TypeInit, WayInit, SumInit
<1>2. IInv /\ [Next]_vars => IInv'
  BY TypeNext, WayNext, SumNext, OnceNext
<1>3. IInv => CountedOnce
  BY SumSays
<1> QED
  BY <1>1, <1>2, <1>3, PTL DEF Spec

---------------------------------------------------------------------------------
(* What lies below a directory, on its file system                                 *)

OwnDevice(n) == Device[n] = Device[Root]

HoldsOwn(S) ==
    \A n \in Node \ {Root} : Parent[n] \in S /\ Device[Parent[n]] = Device[Root] => n \in S

LEMMA BelowDef ==
    ASSUME NEW d
    PROVE  Below(d) = {n \in Node : \A S \in SUBSET Node : d \in S /\ HoldsOwn(S) => n \in S}
  BY DEF Below, HoldsOwn

LEMMA BelowSelf == ASSUME NEW d \in Node PROVE d \in Below(d)
  BY BelowDef

LEMMA BelowNode == ASSUME NEW d PROVE Below(d) \subseteq Node /\ HoldsOwn(Below(d))
  BY BelowDef DEF HoldsOwn

LEMMA BelowTrans ==
    ASSUME NEW x \in Node, NEW y \in Below(x)
    PROVE  Below(y) \subseteq Below(x)
  BY BelowDef, BelowNode

LEMMA BelowChild ==
    ASSUME NEW d \in Node, NEW n \in Children(d), OwnDevice(d)
    PROVE  n \in Below(d) /\ Below(n) \subseteq Below(d)
<1>1. n \in Below(d)
  BY BelowSelf, BelowNode DEF HoldsOwn, Children, OwnDevice
<1> QED
  BY <1>1, BelowTrans

LEMMA BelowUnder == ASSUME NEW d \in Node PROVE Below(d) \subseteq Under(d)
<1>1. ASSUME NEW S, HoldsChildren(S) PROVE HoldsOwn(S)
  BY <1>1 DEF HoldsChildren, HoldsOwn
<1> QED
  BY <1>1, BelowDef DEF Under

\* What is below a directory is below one of its children.
LEMMA BelowSplit ==
    ASSUME NEW d \in Node, NEW n \in Below(d), n # d
    PROVE  OwnDevice(d) /\ \E x \in Children(d) : n \in Below(x)
<1> DEFINE S == {d} \cup {k \in Node : OwnDevice(d) /\ \E x \in Children(d) : k \in Below(x)}
<1>1. S \in SUBSET Node /\ d \in S
  OBVIOUS
<1>2. ASSUME NEW k \in Node \ {Root}, Parent[k] \in S, Device[Parent[k]] = Device[Root]
      PROVE  k \in S
  <2>1. CASE Parent[k] = d
    <3>1. k \in Children(d) /\ OwnDevice(d)
      BY <1>2, <2>1 DEF Children, OwnDevice
    <3> QED
      BY <3>1, BelowSelf
  <2>2. CASE Parent[k] # d
    <3>1. OwnDevice(d)
      BY <1>2, <2>2
    <3>2. PICK x \in Children(d) : Parent[k] \in Below(x)
      BY <1>2, <2>2
    <3>3. k \in Below(x)
      BY <1>2, <3>2, BelowNode DEF HoldsOwn
    <3> QED
      BY <3>1, <3>2, <3>3
  <2> QED
    BY <2>1, <2>2
<1>3. HoldsOwn(S)
  BY <1>2 DEF HoldsOwn
<1>4. n \in S
  BY <1>1, <1>3, BelowDef
<1> QED
  BY <1>4

LEMMA BelowFile ==
    ASSUME NEW n \in Node, n \notin Dirs \/ ~OwnDevice(n)
    PROVE  Below(n) = {n}
<1>1. ASSUME NEW k \in Below(n), k # n PROVE FALSE
  <2>1. OwnDevice(n) /\ \E x \in Children(n) : k \in Below(x)
    BY <1>1, BelowSplit
  <2>2. n \in Dirs
    BY <2>1, TreeAssumption DEF Children
  <2> QED
    BY <2>1, <2>2
<1> QED
  BY <1>1, BelowSelf

---------------------------------------------------------------------------------
(* What has been removed is gone with all that was in it                           *)

GoneInv == \A n \in gone : Children(n) \subseteq gone

LEMMA GoneUnder ==
    ASSUME TypeInv, GoneInv, NEW n \in gone
    PROVE  Under(n) \subseteq gone
<1>1. gone \in SUBSET Node
  BY ConditionsAssumption DEF TypeInv, TypeOK
<1>2. HoldsChildren(gone)
  BY DEF GoneInv, HoldsChildren, Children
<1> QED
  BY <1>1, <1>2 DEF Under

LEMMA GoneInit == Init => GoneInv
  BY DEF Init, GoneInv

LEMMA GoneNext == GoneInv /\ [Next]_vars => GoneInv'
<1> SUFFICES ASSUME GoneInv, [Next]_vars PROVE GoneInv'
  OBVIOUS
<1>1. ASSUME NEW n \in Node, Remove(n) PROVE GoneInv'
  BY <1>1 DEF Remove, GoneInv
<1>2. CASE gone' = gone
  BY <1>2 DEF GoneInv
<1>3. CASE Step \/ UNCHANGED vars
  <2>1. gone' = gone
    BY <1>3 DEF Step, Start, Skip, Cross, Count, Ignore, GiveUp, Descend, Subdirectory,
                Return, Finish, vars
  <2> QED
    BY <1>2, <2>1
<1> QED
  BY <1>1, <1>3 DEF Next

---------------------------------------------------------------------------------
(* Nothing is missing unless the report says so                                    *)

\* Every sum is of files below its directory.
Place == \A d \in Node : bytes[d] \subseteq IF d \in Dirs THEN Below(d) \ {d} ELSE {d}

Covered(i) == \E d \in Open : \E g \in bytes[d] : Inode[g] = i
SeenIn == \A i \in seen : Covered(i)

Pending(k) == \E d \in Node : \E x \in todo[d] : k \in Below(x)

\* Every file that is still there is in a sum, or ahead.
Told ==
    \/ pc = "start" \/ truncated \/ denied # {}
    \/ \A f \in (Tree[Root] \cap Files) \ gone : Covered(Inode[f]) \/ Pending(f)

TellInv == Place /\ SeenIn /\ Told

LEMMA TellInit == Init => TellInv
  BY DEF Init, TellInv, Place, SeenIn, Told

LEMMA TreeBelow == ASSUME NEW d \in Dirs PROVE Tree[d] = Below(d) \ {d}
  BY DEF Tree

\* What a file that is met changes.
LEMMA CountGrows ==
    ASSUME TypeInv, WayInv, SumInv, NEW n \in Node, Count(n)
    PROVE  /\ \A m \in Node : bytes[m] \subseteq bytes'[m]
           /\ AddsBlocks(n) => n \in bytes'[SumOf(n)]
           /\ SumOf(n) \in Open'
<1>1. Takes(n)
  BY VisitTakes
<1>2. cur \in Node /\ bytes \in [Node -> SUBSET Files] /\ cur' = cur
  BY <1>1 DEF TypeInv, TypeOK, Dirs, Takes
<1>3. bytes[n] = {}
  BY <1>1, <1>2, UnderSelf DEF SumInv, Fresh, Takes
<1>4. CASE cur = Root
  <2>1. AddsBlocks(n) => bytes'[n] = {n}
    BY <1>2, <1>4 DEF Count
  <2>2. n \in Open'
    BY <1>4, CountSum DEF Open
  <2> QED
    BY <1>3, <1>4, <2>1, <2>2, CountSum DEF SumOf
<1>5. CASE cur # Root
  <2>1. bytes'[cur] = bytes[cur] \cup (IF AddsBlocks(n) THEN {n} ELSE {})
    BY <1>2, <1>5 DEF Count
  <2>2. cur \in Open'
    BY <1>2, <1>5, UnderSelf DEF Open, OnTheWay
  <2> QED
    BY <1>5, <2>1, <2>2, CountSum DEF SumOf
<1> QED
  BY <1>4, <1>5

\* What is covered once is covered for good.
LEMMA StaysCovered ==
    ASSUME TypeInv, WayInv, SumInv, [Next]_vars, NEW i, Covered(i)
    PROVE  Covered(i)'
<1> PICK d \in Open : \E g \in bytes[d] : Inode[g] = i
  BY DEF Covered
<1> PICK g \in bytes[d] : Inode[g] = i
  OBVIOUS
<1>0. d \in Node /\ cur \in Node
  BY DEF Open, TypeInv, TypeOK, Children, Dirs
<1> SUFFICES \E e \in Open' : g \in bytes'[e]
  BY DEF Covered
<1>1. CASE bytes' = bytes /\ entries' = entries /\ cur' = cur
  BY <1>1 DEF Open, OnTheWay
<1>2. CASE Start \/ Finish \/ UNCHANGED vars \/ \E n \in Node : Remove(n)
  BY <1>1, <1>2 DEF Start, Finish, Remove, vars, walk
<1>3. CASE \E n \in Node : Skip(n) \/ Cross(n) \/ Ignore(n) \/ GiveUp(n)
  <2>1. bytes' = bytes /\ cur' = cur /\ entries \subseteq entries'
    BY <1>3 DEF Skip, Cross, Ignore, GiveUp, Subdirectory, Reported, walk
  <2> QED
    BY <2>1 DEF Open, OnTheWay
<1>4. CASE \E n \in Node : Count(n)
  <2> PICK n \in Node : Count(n)
    BY <1>4
  <2>1. cur' = cur /\ entries \subseteq entries'
    BY CountSum DEF Count
  <2> QED
    BY <1>0, <2>1, CountGrows DEF Open, OnTheWay
<1>5. CASE \E n \in Node : Descend(n)
  <2> PICK n \in Node : Descend(n)
    BY <1>5
  <2>1. bytes' = bytes /\ entries' = entries /\ cur' = n
    BY DEF Descend
  <2>2. n \in Node \ {Root} /\ Parent[n] = cur
    BY DescendFacts
  <2>3. d \in Open'
    BY <2>1, <2>2, UnderChild DEF Open, OnTheWay
  <2> QED
    BY <2>1, <2>3
<1>6. CASE Return
  <2>1. cur \in Node \ {Root} /\ Parent[cur] \in Node /\ cur' = Parent[cur]
    BY <1>6, ReturnFacts DEF Dirs
  <2>2. entries \subseteq entries'
    BY <1>6, ReturnSum
  <2>3. CASE d \in entries
    <3>1. d \in Open'
      BY <2>2, <2>3 DEF Open
    <3> QED
      BY <1>0, <1>6, <2>1, <3>1, ReturnSum
  <2>4. CASE d \notin entries /\ d # cur
    <3>1. d \in Open'
      BY <2>1, <2>4, UnderParent DEF Open, OnTheWay
    <3> QED
      BY <1>0, <1>6, <2>1, <3>1, ReturnSum
  <2>5. CASE d = cur
    <3>1. CASE Parent[cur] = Root
      BY <1>6, <2>5, <3>1, ReturnSum DEF Open
    <3>2. CASE Parent[cur] # Root
      <4>1. Parent[cur] \in Open'
        BY <2>1, <3>2, UnderSelf DEF Open, OnTheWay
      <4> QED
        BY <1>6, <2>5, <3>2, <4>1, ReturnSum
    <3> QED
      BY <3>1, <3>2
  <2> QED
    BY <2>3, <2>4, <2>5
<1> QED
  BY <1>2, <1>3, <1>4, <1>5, <1>6 DEF Next, Step

LEMMA PlaceNext ==
    ASSUME TypeInv, WayInv, Place, [Next]_vars
    PROVE  Place'
<1>1. CASE bytes' = bytes
  BY <1>1 DEF Place
<1>2. CASE Start \/ Finish \/ UNCHANGED vars \/ \E n \in Node : Remove(n)
  BY <1>1, <1>2 DEF Start, Finish, Remove, vars, walk
<1>3. CASE \E n \in Node : Skip(n) \/ Cross(n) \/ Ignore(n) \/ GiveUp(n) \/ Descend(n)
  BY <1>1, <1>3 DEF Skip, Cross, Ignore, GiveUp, Descend, Subdirectory, walk
<1>4. CASE \E n \in Node : Count(n)
  <2> PICK n \in Node : Count(n)
    BY <1>4
  <2>1. n \in Files /\ n \notin Dirs /\ cur \in Dirs /\ cur \in Node /\ n \in Children(cur)
    BY DEF Count, Visit, TypeInv, TypeOK, Ahead, Files, Dirs
  <2>2. OwnDevice(cur)
    BY <2>1, UnderSelf DEF WayInv, OnTheWay, OwnDevice
  <2>3. n \in Below(cur) \ {cur}
    BY <2>1, <2>2, BelowChild
  <2>4. CASE cur = Root
    BY <2>1, <2>4, CountBytes, CountSum DEF Place, SumOf
  <2>5. CASE cur # Root
    BY <2>1, <2>3, <2>5, CountSum DEF Place, SumOf
  <2> QED
    BY <2>4, <2>5
<1>5. CASE Return
  <2>1. /\ cur \in Node \ {Root} /\ Parent[cur] \in Dirs /\ Parent[cur] \in Node /\ cur \in Dirs
        /\ cur \in Children(Parent[cur])
    BY <1>5, ReturnFacts DEF Dirs, Children, TypeInv, TypeOK
  <2>2. OwnDevice(Parent[cur])
    BY <2>1, UnderSelf, UnderChild DEF WayInv, OnTheWay, OwnDevice
  <2>3. Below(cur) \subseteq Below(Parent[cur])
    BY <2>1, <2>2, BelowChild
  <2>4. bytes[cur] \subseteq Below(Parent[cur]) \ {Parent[cur]}
    BY <2>1, <2>3 DEF Place, TypeInv, TypeOK, Files, Dirs
  <2> QED
    BY <1>5, <2>1, <2>4, ReturnSum DEF Place
<1> QED
  BY <1>2, <1>3, <1>4, <1>5 DEF Next, Step

LEMMA SeenNext ==
    ASSUME TypeInv, WayInv, SumInv, SeenIn, [Next]_vars
    PROVE  SeenIn'
<1>1. CASE seen' = seen
  BY <1>1, StaysCovered DEF SeenIn
<1>2. CASE Start \/ Finish \/ Return \/ UNCHANGED vars \/ \E n \in Node : Remove(n)
  BY <1>1, <1>2 DEF Start, Finish, Return, Remove, vars, walk
<1>3. CASE \E n \in Node : Skip(n) \/ Cross(n) \/ Ignore(n) \/ GiveUp(n) \/ Descend(n)
  BY <1>1, <1>3 DEF Skip, Cross, Ignore, GiveUp, Descend, Subdirectory, walk
<1>4. CASE \E n \in Node : Count(n)
  <2> PICK n \in Node : Count(n)
    BY <1>4
  <2>1. seen' \subseteq seen \cup {Inode[n]}
    BY CountSeen
  <2>2. Inode[n] \in seen \/ Covered(Inode[n])'
    <3>1. CASE AddsBlocks(n)
      BY <3>1, CountGrows DEF Covered
    <3>2. CASE ~AddsBlocks(n)
      BY <3>2 DEF AddsBlocks
    <3> QED
      BY <3>1, <3>2
  <2> QED
    BY <2>1, <2>2, StaysCovered DEF SeenIn
<1> QED
  BY <1>2, <1>3, <1>4 DEF Next, Step

\* A name that is not taken now stays ahead.
LEMMA StaysPending ==
    ASSUME TypeInv, NEW n \in Node, Takes(n), ~truncated', NEW k, Pending(k)
    PROVE  Pending(k)' \/ k \in Below(n)
<1>1. todo \in [Node -> SUBSET Node] /\ cur \in Node
  BY DEF TypeInv, TypeOK, Dirs
<1>2. todo'[cur] = todo[cur] \ {n} /\ (\A d \in Node \ {cur} : todo'[d] = todo[d])
  BY <1>1 DEF Takes
<1> QED
  BY <1>1, <1>2 DEF Pending

LEMMA ToldNext ==
    ASSUME Hidden = {}, TypeInv, WayInv, SumInv, GoneInv, SeenIn, Told, [Next]_vars
    PROVE  Told'
<1> SUFFICES ASSUME pc' # "start", ~truncated', denied' = {},
                    NEW f \in Tree[Root] \cap Files, f \notin gone'
             PROVE  Covered(Inode[f])' \/ Pending(f)'
  BY DEF Told
<1>0. /\ cur \in Node /\ Root \in Node /\ Root \in Dirs
      /\ f \in Below(Root) /\ f # Root /\ f \in Files /\ f \notin Dirs
  BY TreeAssumption, TreeBelow DEF TypeInv, TypeOK, Dirs, Files
<1>1. CASE Start
  <2>1. cur = Root /\ gone' = gone /\ (\A d \in Node : todo[d] = {})
    BY <1>1 DEF Start, WayInv
  <2>2. Root \notin gone
    BY <1>0, <2>1, GoneUnder, BelowUnder
  <2>3. todo' = [todo EXCEPT ![Root] = Children(Root) \ gone]
    BY <1>1, <2>2 DEF Start
  <2>4. PICK x \in Children(Root) : f \in Below(x)
    BY <1>0, BelowSplit
  <2>5. x \notin gone
    BY <2>1, <2>4, GoneUnder, BelowUnder DEF Children
  <2>6. x \in todo'[Root]
    BY <1>0, <2>3, <2>4, <2>5 DEF TypeInv, TypeOK
  <2> QED
    BY <1>0, <2>4, <2>6 DEF Pending
<1>2. ASSUME ~truncated, denied = {}, pc # "start", gone \subseteq gone'
      PROVE  Covered(Inode[f])' \/ Pending(f)
  BY <1>2, StaysCovered DEF Told
<1>3. ASSUME NEW n \in Node, Skip(n) \/ Cross(n) \/ Count(n) \/ Ignore(n) \/ GiveUp(n)
      PROVE  Covered(Inode[f])' \/ Pending(f)'
  <2>1. Takes(n)
    BY <1>3, VisitTakes
  <2>2. /\ ~truncated /\ pc # "start" /\ gone' = gone
    BY <2>1 DEF Takes
  <2>3. denied = {}
    BY <1>3 DEF Skip, Cross, Count, Ignore, GiveUp, walk
  <2>4. Covered(Inode[f])' \/ Pending(f)' \/ f \in Below(n)
    BY <1>2, <2>1, <2>2, <2>3, StaysPending
  <2> SUFFICES ASSUME f \in Below(n) PROVE Covered(Inode[f])'
    BY <2>4
  <2>5. CASE Skip(n)
    <3>1. n \in gone
      BY <2>5 DEF Skip, Stat
    <3> QED
      BY <2>2, <3>1, GoneUnder, BelowUnder
  <2>6. CASE Cross(n)
    BY <1>0, <2>6, BelowFile DEF Cross, OwnDevice
  <2>7. CASE Count(n)
    <3>1. f = n
      BY <2>7, BelowFile DEF Count, Files, Dirs
    <3>2. CASE AddsBlocks(n)
      BY <2>7, <3>1, <3>2, CountGrows DEF Covered
    <3>3. CASE ~AddsBlocks(n)
      BY <3>1, <3>3, StaysCovered DEF AddsBlocks, SeenIn
    <3> QED
      BY <3>2, <3>3
  <2>8. CASE Ignore(n)
    BY <1>0, <2>8, BelowFile DEF Ignore
  <2>9. CASE GiveUp(n)
    BY <2>9 DEF GiveUp, EndOfBody
  <2> QED
    BY <1>3, <2>5, <2>6, <2>7, <2>8, <2>9
<1>4. ASSUME NEW n \in Node, Descend(n) PROVE Covered(Inode[f])' \/ Pending(f)'
  <2>1. /\ ~truncated /\ denied = {} /\ pc # "start" /\ gone' = gone
    BY <1>4, DescendFacts DEF Descend, Subdirectory
  <2>2. Covered(Inode[f])' \/ Pending(f)
    BY <1>2, <2>1
  <2> SUFFICES ASSUME NEW d \in Node, NEW x \in todo[d], f \in Below(x) PROVE Pending(f)'
    BY <2>2 DEF Pending
  <2>3. ASSUME NEW y \in Children(n), f \in Below(y) PROVE Pending(f)'
    <3>1. y \notin gone
      BY <2>1, <2>3, GoneUnder, BelowUnder DEF Children
    <3>2. y \in todo'[n]
      BY <1>4, <2>3, <3>1, DescendFacts
    <3> QED
      BY <2>3, <3>2 DEF Pending
  <2>4. CASE x = n
    <3>1. f # n
      BY <1>0, <1>4, DescendFacts
    <3> QED
      BY <2>3, <2>4, <3>1, BelowSplit
  <2>5. CASE x # n /\ d = n
    BY <2>3, <2>5, AheadIsOff DEF Children
  <2>6. CASE x # n /\ d # n
    <3>1. x \in todo'[d]
      BY <1>4, <2>6, DescendFacts
    <3> QED
      BY <3>1 DEF Pending
  <2> QED
    BY <2>4, <2>5, <2>6
<1>5. CASE Return
  <2>1. ~truncated /\ todo' = todo /\ denied = {} /\ pc # "start" /\ gone' = gone
    BY <1>5, ReturnFacts DEF Return
  <2> QED
    BY <1>2, <2>1 DEF Pending
<1>6. CASE Finish \/ UNCHANGED vars \/ \E n \in Node : Remove(n)
  <2>1. ~truncated /\ todo' = todo /\ denied = {} /\ pc # "start" /\ gone \subseteq gone'
    BY <1>6 DEF Finish, Remove, vars, walk
  <2> QED
    BY <1>2, <2>1 DEF Pending
<1> QED
  BY <1>1, <1>3, <1>4, <1>5, <1>6 DEF Next, Step

LEMMA TellSays ==
    ASSUME TypeInv, WayInv, TellInv
    PROVE  SaysWhatIsMissing
<1> SUFFICES ASSUME pc = "done", ~truncated, denied = {}
             PROVE  /\ \A f \in (Tree[Root] \cap Files) \ gone : \E g \in Total : Inode[g] = Inode[f]
                    /\ \A e \in entries : bytes[e] \subseteq IF e \in Dirs THEN Tree[e] ELSE {e}
  BY DEF SaysWhatIsMissing
<1>1. cur = Root /\ todo[Root] = {}
  BY DEF WayInv
<1>2. \A d \in Node : OnTheWay(d) => d = Root
  BY <1>1, UnderRoot DEF OnTheWay
<1>3. Open = entries
  BY <1>2 DEF Open
<1>4. \A d \in Node : todo[d] = {}
  BY <1>1, <1>2 DEF WayInv
<1>5. ASSUME NEW f \in (Tree[Root] \cap Files) \ gone PROVE \E g \in Total : Inode[g] = Inode[f]
  <2>1. Covered(Inode[f])
    BY <1>4 DEF TellInv, Told, Pending
  <2> QED
    BY <1>3, <2>1 DEF Covered, Total
<1>6. ASSUME NEW e \in entries PROVE bytes[e] \subseteq IF e \in Dirs THEN Tree[e] ELSE {e}
  <2>1. e \in Node
    BY DEF TypeInv, TypeOK, Children
  <2> QED
    BY <2>1, TreeBelow DEF TellInv, Place
<1> QED
  BY <1>5, <1>6

\* For every tree in which whatever is listed can be looked up: a report that names
\* neither the deadline nor a denied directory has every file that is still there.
THEOREM NothingIsMissing ==
    ASSUME Hidden = {}
    PROVE  Spec => []SaysWhatIsMissing
<1> DEFINE IInv == TypeInv /\ WayInv /\ SumInv /\ GoneInv /\ TellInv
<1>1. Init => IInv
  BY TypeInit, WayInit, SumInit, GoneInit, TellInit
<1>2. IInv /\ [Next]_vars => IInv'
  <2>1. IInv /\ [Next]_vars => TellInv'
    BY PlaceNext, SeenNext, ToldNext DEF TellInv
  <2> QED
    BY <2>1, TypeNext, WayNext, SumNext, GoneNext
<1>3. IInv => SaysWhatIsMissing
  BY TellSays
<1> QED
  BY <1>1, <1>2, <1>3, PTL DEF Spec

---------------------------------------------------------------------------------
(* The numbers of items                                                            *)

\* An item of d is counted, or will be: in the sum of a directory on the way below d,
\* or ahead of one.
CountedUnder(y, k) == k \in items[y] \/ \E x \in todo[y] : k \in Below(x)

Accounted(d, k) ==
    \/ k \in items[d]
    \/ \E y \in Node \ {Root} : OnTheWay(y) /\ y \in Under(d) /\ CountedUnder(y, k)

ItemsBelow == \A d \in Dirs : items[d] \subseteq Tree[d]

ItemsKnown ==
    \/ truncated \/ denied # {} \/ gone # {}
    \/ \A d \in Open \cap Dirs : \A k \in Tree[d] : Accounted(d, k)

ItemInv == ItemsBelow /\ ItemsKnown

LEMMA ItemInit == Init => ItemInv
  BY UnderRoot DEF Init, ItemInv, ItemsBelow, ItemsKnown, Open, OnTheWay, Dirs

\* The steps that leave the items alone.
LEMMA ItemsStay ==
    ASSUME TypeInv, NEW n \in Node,
           items' = ItemsWith({n})
    PROVE  /\ \A d \in Node : items[d] \subseteq items'[d]
           /\ \A d \in Node \ {cur} : items'[d] = items[d]
           /\ items'[cur] \subseteq items[cur] \cup {n}
           /\ cur # Root => n \in items'[cur]
  BY DEF ItemsWith, TypeInv, TypeOK, Dirs

LEMMA ReturnItems ==
    ASSUME TypeInv, Return
    PROVE  /\ Parent[cur] = Root => items' = items
           /\ Parent[cur] # Root =>
                /\ items'[Parent[cur]] = items[Parent[cur]] \cup items[cur]
                /\ \A d \in Node \ {Parent[cur]} : items'[d] = items[d]
  BY ReturnFacts DEF Return, TypeInv, TypeOK, Dirs

LEMMA ItemsBelowNext ==
    ASSUME TypeInv, WayInv, ItemsBelow, [Next]_vars
    PROVE  ItemsBelow'
<1>1. CASE items' = items
  BY <1>1 DEF ItemsBelow
<1>2. CASE Start \/ Finish \/ UNCHANGED vars \/ \E n \in Node : Remove(n) \/ Skip(n)
  BY <1>1, <1>2 DEF Start, Finish, Remove, Skip, vars, walk
<1>3. CASE \E n \in Node : Cross(n) \/ Count(n) \/ Ignore(n) \/ GiveUp(n) \/ Descend(n)
  <2> PICK n \in Node : Cross(n) \/ Count(n) \/ Ignore(n) \/ GiveUp(n) \/ Descend(n)
    BY <1>3
  <2>1. items' = ItemsWith({n}) /\ Visit(n)
    BY DEF Cross, Count, Ignore, GiveUp, Descend, Subdirectory
  <2>2. cur \in Dirs /\ cur \in Node /\ n \in Children(cur)
    BY <2>1 DEF Visit, TypeInv, TypeOK, Ahead, Dirs
  <2>3. OwnDevice(cur)
    BY <2>2, UnderSelf DEF WayInv, OnTheWay, OwnDevice
  <2>4. n # cur
    BY <2>2, NoCycle, UnderSelf DEF Children
  <2>5. n \in Tree[cur]
    BY <2>2, <2>3, <2>4, BelowChild, TreeBelow
  <2> QED
    BY <2>1, <2>2, <2>5, ItemsStay DEF ItemsBelow, Dirs
<1>4. CASE Return
  <2>1. /\ cur \in Node \ {Root} /\ Parent[cur] \in Dirs /\ Parent[cur] \in Node /\ cur \in Dirs
        /\ cur \in Children(Parent[cur])
    BY <1>4, ReturnFacts DEF Dirs, Children, TypeInv, TypeOK
  <2>2. OwnDevice(Parent[cur])
    BY <2>1, UnderSelf, UnderChild DEF WayInv, OnTheWay, OwnDevice
  <2>3. Below(cur) \subseteq Below(Parent[cur])
    BY <2>1, <2>2, BelowChild
  <2>4. Parent[cur] \notin Below(cur)
    BY <2>1, NoCycle, BelowUnder
  <2>5. items[cur] \subseteq Tree[Parent[cur]]
    BY <2>1, <2>3, <2>4, TreeBelow DEF ItemsBelow
  <2> QED
    BY <1>4, <2>1, <2>5, ReturnItems DEF ItemsBelow, Dirs
<1> QED
  BY <1>2, <1>3, <1>4 DEF Next, Step

\* A name is taken without a descent, and nothing is cut off or refused.
LEMMA ItemsTakes ==
    ASSUME TypeInv, WayInv, NEW n \in Node, Takes(n), ~truncated', items' = ItemsWith({n}),
           Below(n) = {n}, NEW d \in Node, NEW k, Accounted(d, k)
    PROVE  Accounted(d, k)'
<1>1. cur' = cur /\ cur \in Node
  BY DEF Takes, TypeInv, TypeOK, Dirs
<1>2. todo'[cur] = todo[cur] \ {n} /\ (\A y \in Node \ {cur} : todo'[y] = todo[y])
  BY <1>1 DEF Takes, TypeInv, TypeOK
<1>3. ASSUME NEW y \in Node \ {Root}, CountedUnder(y, k)
      PROVE  CountedUnder(y, k)'
  <2>1. CASE k \in items[y]
    BY <2>1, ItemsStay DEF CountedUnder
  <2>2. CASE \E x \in todo[y] : k \in Below(x)
    <3> PICK x \in todo[y] : k \in Below(x)
      BY <2>2
    <3>1. CASE x = n
      <4>1. y = cur /\ k = n
        BY <3>1, AheadIsOff DEF Takes
      <4> QED
        BY <4>1, ItemsStay DEF CountedUnder
    <3>2. CASE x # n
      BY <1>2, <3>2 DEF CountedUnder
    <3> QED
      BY <3>1, <3>2
  <2> QED
    BY <1>3, <2>1, <2>2 DEF CountedUnder
<1>4. items[d] \subseteq items'[d]
  BY ItemsStay
<1> QED
  BY <1>1, <1>3, <1>4 DEF Accounted, OnTheWay

LEMMA ItemsDescend ==
    ASSUME TypeInv, WayInv, NEW n \in Node, Descend(n), gone = {},
           \A d \in Open \cap Dirs : \A k \in Tree[d] : Accounted(d, k),
           NEW d \in Open' \cap Dirs, NEW k \in Tree[d]
    PROVE  Accounted(d, k)'
<1>1. /\ n \in Node \ {Root} /\ Parent[n] = cur /\ n \in todo[cur] /\ n # cur /\ n \in Dirs
      /\ cur' = n /\ cur \in Node /\ n \in Under(n)
      /\ todo'[n] = Children(n)
      /\ todo'[cur] = todo[cur] \ {n}
      /\ \A y \in Node \ {n, cur} : todo'[y] = todo[y]
  BY DescendFacts, UnderSelf DEF TypeInv, TypeOK, Dirs
<1>2. items' = ItemsWith({n}) /\ entries' = entries
  BY DEF Descend, Subdirectory
<1>3. ASSUME NEW j \in Below(n), j # n PROVE CountedUnder(n, j)'
  BY <1>1, <1>3, BelowSplit DEF CountedUnder
<1>4. CASE d = n
  <2>1. k \in Below(n) /\ k # n
    BY <1>4, TreeBelow
  <2> QED
    BY <1>1, <1>3, <1>4, <2>1 DEF Accounted, OnTheWay
<1>5. CASE d # n
  <2>1. d \in Open /\ d \in Node
    BY <1>1, <1>2, <1>5, UnderParent DEF Open, OnTheWay, Dirs
  <2>2. Accounted(d, k)
    BY <2>1
  <2>3. CASE k \in items[d]
    BY <1>2, <2>1, <2>3, ItemsStay DEF Accounted
  <2>4. CASE \E y \in Node \ {Root} : OnTheWay(y) /\ y \in Under(d) /\ CountedUnder(y, k)
    <3> PICK y \in Node \ {Root} : OnTheWay(y) /\ y \in Under(d) /\ CountedUnder(y, k)
      BY <2>4
    <3>1. OnTheWay(y)'
      BY <1>1, UnderChild DEF OnTheWay
    <3>2. ASSUME CountedUnder(y, k)' PROVE Accounted(d, k)'
      BY <3>1, <3>2 DEF Accounted
    <3>3. CASE k \in items[y]
      BY <1>2, <3>2, <3>3, ItemsStay DEF CountedUnder
    <3>4. CASE \E x \in todo[y] : k \in Below(x)
      <4> PICK x \in todo[y] : k \in Below(x)
        BY <3>4
      <4>1. CASE x = n
        <5>1. y = cur
          BY <1>1, <4>1, AheadIsOff
        <5>2. CASE k = n
          <6>1. k \in items'[cur]
            BY <1>2, <5>1, <5>2, ItemsStay
          <6> QED
            BY <3>2, <5>1, <6>1 DEF CountedUnder
        <5>3. CASE k # n
          <6>1. n \in Under(d)
            BY <1>1, <2>1, <5>1, UnderChild
          <6>2. CountedUnder(n, k)'
            BY <1>3, <4>1, <5>3
          <6> QED
            BY <1>1, <6>1, <6>2 DEF Accounted, OnTheWay
        <5> QED
          BY <5>2, <5>3
      <4>2. CASE x # n
        <5>1. x \in todo'[y]
          BY <1>1, <4>2, AheadIsOff DEF Children
        <5> QED
          BY <3>2, <5>1 DEF CountedUnder
      <4> QED
        BY <4>1, <4>2
    <3> QED
      BY <3>3, <3>4 DEF CountedUnder
  <2> QED
    BY <2>2, <2>3, <2>4 DEF Accounted
<1> QED
  BY <1>4, <1>5

LEMMA ItemsReturn ==
    ASSUME TypeInv, WayInv, Return, todo' = todo,
           \A d \in Open \cap Dirs : \A k \in Tree[d] : Accounted(d, k),
           NEW d \in Open' \cap Dirs, NEW k \in Tree[d]
    PROVE  Accounted(d, k)'
<1>1. /\ cur \in Node \ {Root} /\ Parent[cur] \in Node /\ cur' = Parent[cur] /\ todo[cur] = {}
  BY ReturnFacts DEF Dirs
<1>2. cur \in Open
  BY <1>1, UnderSelf DEF Open, OnTheWay
<1>3. d \in Open /\ d \in Node /\ d # Root
  BY <1>1, <1>2, ReturnSum, UnderChild DEF Open, OnTheWay, Dirs, TypeInv, TypeOK, Children
<1>4. \A y \in Node : items[y] \subseteq items'[y]
  BY <1>1, ReturnItems
<1>5. Accounted(d, k)
  BY <1>3
<1>6. CASE k \in items[d]
  BY <1>3, <1>4, <1>6 DEF Accounted
<1>7. CASE \E y \in Node \ {Root} : OnTheWay(y) /\ y \in Under(d) /\ CountedUnder(y, k)
  <2> PICK y \in Node \ {Root} : OnTheWay(y) /\ y \in Under(d) /\ CountedUnder(y, k)
    BY <1>7
  <2>1. CASE y # cur
    <3>1. OnTheWay(y)'
      BY <1>1, <2>1, UnderParent DEF OnTheWay
    <3>2. CountedUnder(y, k)'
      BY <1>4 DEF CountedUnder
    <3> QED
      BY <3>1, <3>2 DEF Accounted
  <2>2. CASE y = cur
    <3>1. k \in items[cur]
      BY <1>1, <2>2 DEF CountedUnder
    <3>2. CASE d = cur
      BY <1>3, <1>4, <3>1, <3>2 DEF Accounted
    <3>3. CASE d # cur
      <4>1. Parent[cur] \in Under(d)
        BY <1>3, <2>2, <3>3, UnderParent
      <4>2. Parent[cur] # Root
        BY <1>3, <4>1, UnderRoot
      <4>3. k \in items'[Parent[cur]]
        BY <3>1, <4>2, ReturnItems
      <4> PICK p \in Node \ {Root} : p = Parent[cur]
        BY <1>1, <4>2
      <4>4. OnTheWay(p)'
        BY <1>1, UnderSelf DEF OnTheWay
      <4>5. CountedUnder(p, k)'
        BY <4>3 DEF CountedUnder
      <4> QED
        BY <4>1, <4>4, <4>5 DEF Accounted
    <3> QED
      BY <3>2, <3>3
  <2> QED
    BY <2>1, <2>2
<1> QED
  BY <1>5, <1>6, <1>7 DEF Accounted

LEMMA ItemsKnownNext ==
    ASSUME Hidden = {}, TypeInv, WayInv, ItemsKnown, [Next]_vars
    PROVE  ItemsKnown'
<1> SUFFICES ASSUME ~truncated', denied' = {}, gone' = {},
                    NEW d \in Open' \cap Dirs, NEW k \in Tree[d]
             PROVE  Accounted(d, k)'
  BY DEF ItemsKnown
<1>0. d \in Node /\ cur \in Node /\ TypeInv'
  BY TypeNext DEF Dirs, TypeInv, TypeOK
<1>1. ASSUME ~truncated, denied = {}, gone = {}
      PROVE  \A e \in Open \cap Dirs : \A j \in Tree[e] : Accounted(e, j)
  BY <1>1 DEF ItemsKnown
<1>2. CASE Start
  <2>1. cur' = Root /\ entries' = {}
    BY <1>2 DEF Start, WayInv
  <2>2. Open' = {}
    BY <2>1, UnderRoot DEF Open, OnTheWay
  <2> QED
    BY <2>2
<1>3. ASSUME NEW n \in Node, Cross(n) \/ Count(n) \/ Ignore(n)
      PROVE  Accounted(d, k)'
  <2>1. Takes(n)
    BY <1>3, VisitTakes
  <2>2. ~truncated /\ gone = {} /\ denied = {} /\ cur' = cur
    BY <1>3, <2>1 DEF Takes, Cross, Count, Ignore
  <2>3. Below(n) = {n}
    BY <1>3, BelowFile DEF Cross, Count, Ignore, Files, Dirs, OwnDevice
  <2>4. items' = ItemsWith({n})
    BY <1>3 DEF Cross, Count, Ignore
  <2>5. d \in Open
    <3>1. CASE Count(n)
      BY <2>2, <3>1, CountSum DEF Count, Open, OnTheWay, Files, Dirs
    <3>2. CASE Cross(n) \/ Ignore(n)
      BY <2>2, <3>2 DEF Cross, Ignore, Open, OnTheWay
    <3> QED
      BY <1>3, <3>1, <3>2
  <2>6. Accounted(d, k)
    BY <1>1, <2>2, <2>5
  <2> QED
    BY <1>0, <2>1, <2>3, <2>4, <2>6, ItemsTakes
<1>4. ASSUME NEW n \in Node, Skip(n) PROVE Accounted(d, k)'
  <2>1. gone = {} /\ n \in gone
    BY <1>4 DEF Skip, Stat
  <2> QED
    BY <2>1
<1>5. ASSUME NEW n \in Node, GiveUp(n) PROVE Accounted(d, k)'
  BY <1>5 DEF GiveUp, EndOfBody
<1>6. ASSUME NEW n \in Node, Descend(n) PROVE Accounted(d, k)'
  <2>1. ~truncated /\ gone = {} /\ denied = {}
    BY <1>6 DEF Descend, Subdirectory
  <2> QED
    BY <1>1, <1>6, <2>1, ItemsDescend
<1>7. CASE Return
  <2>1. ~truncated /\ gone = {} /\ denied = {} /\ todo' = todo
    BY <1>7, ReturnFacts DEF Return
  <2> QED
    BY <1>1, <1>7, <2>1, ItemsReturn
<1>8. ASSUME NEW n \in Node, Remove(n) PROVE Accounted(d, k)'
  BY <1>8 DEF Remove
<1>9. CASE Finish \/ UNCHANGED vars
  <2>1. /\ ~truncated /\ gone = {} /\ denied = {} /\ todo' = todo
        /\ items' = items /\ entries' = entries /\ cur' = cur
    BY <1>9 DEF Finish, vars, walk
  <2>2. Accounted(d, k)
    BY <1>1, <2>1 DEF Open, OnTheWay
  <2> QED
    BY <2>1, <2>2 DEF Accounted, CountedUnder, OnTheWay
<1> QED
  BY <1>2, <1>3, <1>4, <1>5, <1>6, <1>7, <1>8, <1>9 DEF Next, Step

LEMMA ItemSays ==
    ASSUME TypeInv, WayInv, ItemInv
    PROVE  ItemsAreAll
<1> SUFFICES ASSUME pc = "done", ~truncated, denied = {}, gone = {}, NEW e \in entries \cap Dirs
             PROVE  items[e] = Tree[e]
  BY DEF ItemsAreAll
<1>1. \A d \in Node : OnTheWay(d) => d = Root
  BY UnderRoot DEF WayInv, OnTheWay
<1>2. \A k \in Tree[e] : Accounted(e, k)
  BY DEF ItemInv, ItemsKnown, Open
<1> QED
  BY <1>1, <1>2 DEF Accounted, ItemInv, ItemsBelow

\* For every tree in which whatever is listed can be looked up: unless the report
\* says why not, the number of items of a directory is that of all below it.
THEOREM ItemsAreComplete ==
    ASSUME Hidden = {}
    PROVE  Spec => []ItemsAreAll
<1> DEFINE IInv == TypeInv /\ WayInv /\ ItemInv
<1>1. Init => IInv
  BY TypeInit, WayInit, ItemInit
<1>2. IInv /\ [Next]_vars => IInv'
  <2>1. IInv /\ [Next]_vars => ItemInv'
    BY ItemsBelowNext, ItemsKnownNext DEF ItemInv
  <2> QED
    BY <2>1, TypeNext, WayNext
<1>3. IInv => ItemsAreAll
  BY ItemSays
<1> QED
  BY <1>1, <1>2, <1>3, PTL DEF Spec

=================================================================================
