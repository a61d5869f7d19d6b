------------------------------ MODULE StorageProofs ------------------------------
(* The Storage screen is correct for every directory tree and set of tasks.       *)
EXTENDS StorageScreen, SequenceTheorems, WellFoundedInduction, TLAPS

\* A loaded screen has a path, and what is on display is the scan of that path.
IInv ==
    /\ TypeOK
    /\ ShownIsWhereWeAre
    /\ loaded => dirPath \in Dir

\* A non-empty set of positions of a sequence has a last one.
LEMMA LastPosition ==
    ASSUME NEW n \in Nat, NEW T, T \subseteq 1 .. n, T # {}
    PROVE  \E m \in T : \A j \in T : j <= m
<1> DEFINE D == {n - i : i \in T}
<1>1. D \subseteq Nat /\ D # {}
  <2>1. \A i \in T : n - i \in Nat
    OBVIOUS
  <2>2. PICK i \in T : TRUE
    OBVIOUS
  <2>3. QED
    BY <2>1, <2>2
<1>2. IsWellFoundedOn(OpToRel(<, Nat), Nat)
  BY NatLessThanWellFounded
<1>3. PICK x \in D : \A y \in D : ~(<<y, x>> \in OpToRel(<, Nat))
  BY <1>1, <1>2, WFMin
<1>4. \A y \in D : ~(y < x)
  BY <1>1, <1>3 DEF OpToRel
<1>5. PICK m \in T : x = n - m
  OBVIOUS
<1>6. \A j \in T : j <= m
  <2>1. SUFFICES ASSUME NEW j \in T PROVE j <= m
    OBVIOUS
  <2>2. n - j \in D
    OBVIOUS
  <2>3. ~(n - j < n - m)
    BY <1>4, <1>5, <2>2
  <2>4. n \in Int /\ j \in Int /\ m \in Int
    OBVIOUS
  <2>5. QED
    BY <2>3, <2>4
<1>7. QED
  BY <1>6

\* The last scan among the drained answers is a directory, and so what is applied
\* has the types of what it replaces.
LEMMA AppliedTypes ==
    ASSUME IInv
    PROVE  /\ ScanAnswers # {} => LastScan \in Dir
           /\ AppliedDir \in Dir \cup {NoDir}
           /\ AppliedPath \in Dir \cup {NoDir}
           /\ AppliedDir # NoDir => AppliedDir = AppliedPath
           /\ loaded => AppliedPath \in Dir
           /\ AppliedHeld \in SUBSET Reports
           /\ dir # NoDir => AppliedDir # NoDir
<1>1. returned \in Seq(Key)
  BY DEF IInv, TypeOK, J!JobsTypeOK
<1>2. ScanAnswers # {} => LastScan \in Dir
  <2>1. SUFFICES ASSUME ScanAnswers # {} PROVE LastScan \in Dir
    OBVIOUS
  <2>2. ScanAnswers \subseteq 1 .. Len(returned) /\ Len(returned) \in Nat
    BY <1>1, LenProperties DEF ScanAnswers
  <2>3. \E i \in ScanAnswers : \A j \in ScanAnswers : j <= i
    BY <2>1, <2>2, LastPosition
  <2>4. (CHOOSE i \in ScanAnswers : \A j \in ScanAnswers : j <= i) \in ScanAnswers
    BY <2>3
  <2>5. QED
    BY <2>4 DEF LastScan, ScanAnswers
<1>3. AppliedHeld \in SUBSET Reports
  <2>1. \A i \in DOMAIN returned : returned[i] \in Dir \cup Reports
    BY <1>1, LenProperties, ElementOfSeq DEF Key
  <2>2. QED
    BY <2>1 DEF AppliedHeld, Range, IInv, TypeOK
<1>4. NoDir \notin Dir
  BY DirAssumption DEF Key
<1>5. QED
  BY <1>2, <1>3, <1>4 DEF AppliedDir, AppliedPath, IInv, TypeOK, ShownIsWhereWeAre

\* Tasks need jobs of Key only, once there is a path.
LEMMA NeededAreKeys ==
    ASSUME NEW t \in Task, NEW h, NEW d, NEW p \in Dir
    PROVE  JobsNeeded(t, h, d, p) \subseteq Key
<1>1. ReportsFor(t) \subseteq Reports
  BY DEF Reports
<1>2. QED
  BY <1>1 DEF JobsNeeded, Key

---------------------------------------------------------------------------------
(* Steps of the job manager keep its types. *)

LEMMA RequestTypes ==
    ASSUME J!JobsTypeOK, NEW wanted \in SUBSET Key, NEW started, J!Request(wanted, started)
    PROVE  J!JobsTypeOK'
BY DEF J!JobsTypeOK, J!Request

LEMMA FinishTypes ==
    ASSUME J!JobsTypeOK, NEW k \in Key, J!Finish(k)
    PROVE  J!JobsTypeOK'
BY AppendProperties DEF J!JobsTypeOK, J!Finish

LEMMA DrainTypes ==
    ASSUME J!JobsTypeOK, J!Drain
    PROVE  J!JobsTypeOK'
BY EmptySeq DEF J!JobsTypeOK, J!Drain

LEMMA CloseTypes ==
    ASSUME J!JobsTypeOK, J!Close
    PROVE  J!JobsTypeOK'
BY EmptySeq DEF J!JobsTypeOK, J!Close

LEMMA SameJobsTypes ==
    ASSUME J!JobsTypeOK, UNCHANGED jobs
    PROVE  J!JobsTypeOK'
BY DEF J!JobsTypeOK, jobs

---------------------------------------------------------------------------------
(* The inductive invariant *)

LEMMA InitIInv == Init => IInv
<1> SUFFICES ASSUME Init PROVE IInv
  OBVIOUS
<1>1. J!JobsTypeOK
  BY EmptySeq DEF Init, J!JobsInit, J!JobsTypeOK
<1>2. QED
  BY <1>1 DEF Init, IInv, TypeOK, ShownIsWhereWeAre

LEMMA PollStep ==
    ASSUME IInv, Poll
    PROVE  IInv'
<1>1. /\ dir' \in Dir \cup {NoDir}
      /\ held' \in SUBSET Reports
  BY AppliedTypes DEF Poll
<1>2. J!JobsTypeOK /\ task \in Task
  BY DEF IInv, TypeOK
<1>3. CASE /\ screen # "Storage"
           /\ dirPath' = AppliedPath
           /\ UNCHANGED <<jobs, loaded, fullest>>
  <2>1. J!JobsTypeOK'
    BY <1>2, <1>3, SameJobsTypes
  <2>2. dirPath' \in Dir \cup {NoDir} /\ (dir' # NoDir => dir' = dirPath') /\ (loaded' => dirPath' \in Dir)
    BY <1>3, AppliedTypes DEF Poll
  <2>3. QED
    BY <1>1, <1>3, <2>1, <2>2 DEF IInv, TypeOK, ShownIsWhereWeAre, Poll
<1>4. CASE /\ screen = "Storage"
           /\ IF loaded
              THEN dirPath' = AppliedPath /\ UNCHANGED <<loaded, fullest>>
              ELSE /\ loaded' = TRUE
                   /\ \E m \in MountPoints \cup {NoDir} :
                         fullest' = m /\ dirPath' = StartPath(AppliedPath, m)
           /\ LET wanted == JobsNeeded(task, held', dir', dirPath')
              IN  \E started \in SUBSET wanted : J!Request(wanted, started)
  <2>1. /\ dirPath' \in Dir
        /\ dir' # NoDir => dir' = dirPath'
        /\ fullest' \in MountPoints \cup {NoDir}
        /\ loaded' \in BOOLEAN
    <3>1. CASE loaded
      BY <1>4, <3>1, AppliedTypes DEF Poll, IInv, TypeOK
    <3>2. CASE ~loaded
      <4>1. PICK m \in MountPoints \cup {NoDir} :
              fullest' = m /\ dirPath' = StartPath(AppliedPath, m) /\ loaded' = TRUE
        BY <1>4, <3>2
      <4>2. NoDir \notin Dir /\ Root \in Dir /\ MountPoints \subseteq Dir
        BY DirAssumption DEF Key, MountPoints
      <4>3. CASE AppliedPath # NoDir
        <5>1. dirPath' = AppliedPath
          BY <4>1, <4>3 DEF StartPath
        <5>2. QED
          BY <4>1, <4>3, <5>1, AppliedTypes DEF Poll
      <4>4. CASE AppliedPath = NoDir
        <5>1. AppliedDir = NoDir
          BY <4>4, AppliedTypes
        <5>2. dirPath' \in Dir
          <6>1. CASE m # NoDir
            BY <4>1, <4>2, <4>4, <6>1 DEF StartPath
          <6>2. CASE m = NoDir
            BY <4>1, <4>2, <4>4, <6>2 DEF StartPath
          <6>3. QED
            BY <6>1, <6>2
        <5>3. QED
          BY <4>1, <5>1, <5>2 DEF Poll
      <4>5. QED
        BY <4>3, <4>4
    <3>3. QED
      BY <3>1, <3>2
  <2>2. JobsNeeded(task, held', dir', dirPath') \in SUBSET Key
    BY <1>2, <2>1, NeededAreKeys
  <2>3. PICK started : J!Request(JobsNeeded(task, held', dir', dirPath'), started)
    BY <1>4
  <2>4. J!JobsTypeOK'
    BY <1>2, <2>2, <2>3, RequestTypes
  <2>5. QED
    BY <1>1, <2>1, <2>4 DEF IInv, TypeOK, ShownIsWhereWeAre, Poll
<1>5. QED
  BY <1>3, <1>4 DEF Poll

LEMMA DescendStep ==
    ASSUME IInv, KeyRead, NEW p \in Dir, Descend(p)
    PROVE  IInv'
<1>1. PICK started : J!Request({p}, started)
  BY DEF Descend
<1>2. {p} \in SUBSET Key /\ J!JobsTypeOK
  BY DEF Key, IInv, TypeOK
<1>3. J!JobsTypeOK'
  BY <1>1, <1>2, RequestTypes
<1>4. QED
  BY <1>3 DEF IInv, TypeOK, ShownIsWhereWeAre, KeyRead, Descend

\* What each key does to the screen and to the job manager.
LEMMA KeyStep ==
    ASSUME IInv, UserKey
    PROVE  IInv'
<1>1. CASE Idle \/ Leave \/ Refresh \/ \E t \in Task : Goto(t)
  <2>1. UNCHANGED jobs
    BY <1>1 DEF Idle, Leave, Refresh, Goto
  <2>2. J!JobsTypeOK'
    BY <2>1, SameJobsTypes DEF IInv, TypeOK
  <2>3. CASE Idle \/ Leave
    BY <2>2, <2>3 DEF Idle, Leave, KeyRead, store, IInv, TypeOK, ShownIsWhereWeAre
  <2>4. CASE Refresh
    BY <2>2, <2>4 DEF Refresh, KeyRead, IInv, TypeOK, ShownIsWhereWeAre
  <2>5. ASSUME NEW t \in Task, Goto(t)
        PROVE  IInv'
    BY <2>2, <2>5 DEF Goto, KeyRead, store, IInv, TypeOK, ShownIsWhereWeAre
  <2>6. QED
    BY <1>1, <2>1, <2>3, <2>4, <2>5
<1>2. CASE Enter
  BY <1>2, DescendStep DEF Enter
<1>3. CASE Backspace
  <2>1. CASE Browsing /\ CanAscend /\ Descend(ParentOf[dirPath])
    <3>1. ParentOf[dirPath] \in Dir
      BY <2>1, DirAssumption DEF CanAscend
    <3>2. QED
      BY <1>3, <2>1, <3>1, DescendStep DEF Backspace
  <2>2. CASE screen' = "Elsewhere" /\ UNCHANGED <<jobs, task, store>>
    <3>1. J!JobsTypeOK'
      BY <2>2, SameJobsTypes DEF IInv, TypeOK
    <3>2. QED
      BY <1>3, <2>2, <3>1 DEF Backspace, KeyRead, store, IInv, TypeOK, ShownIsWhereWeAre
  <2>3. QED
    BY <1>3, <2>1, <2>2 DEF Backspace
<1>4. QED
  BY <1>1, <1>2, <1>3 DEF UserKey

\* Every step keeps the invariant.
LEMMA NextStep ==
    ASSUME IInv, [Next]_vars
    PROVE  IInv'
<1>1. CASE UNCHANGED vars
  <2>1. UNCHANGED jobs
    BY <1>1 DEF vars, jobs
  <2>2. J!JobsTypeOK'
    BY <2>1, SameJobsTypes DEF IInv, TypeOK
  <2>3. QED
    BY <1>1, <2>1, <2>2 DEF vars, store, IInv, TypeOK, ShownIsWhereWeAre
<1>2. ASSUME NEW k \in Key, Finish(k)
      PROVE  IInv'
  <2>1. J!JobsTypeOK'
    BY <1>2, FinishTypes DEF Finish, IInv, TypeOK
  <2>2. QED
    BY <1>2, <2>1 DEF Finish, store, IInv, TypeOK, ShownIsWhereWeAre
<1>3. CASE Drain
  <2>1. J!JobsTypeOK'
    BY <1>3, DrainTypes DEF Drain, IInv, TypeOK
  <2>2. QED
    BY <1>3, <2>1 DEF Drain, store, IInv, TypeOK, ShownIsWhereWeAre
<1>4. CASE Quit
  <2>1. J!JobsTypeOK'
    BY <1>4, CloseTypes DEF Quit, IInv, TypeOK
  <2>2. QED
    BY <1>4, <2>1 DEF Quit, store, IInv, TypeOK, ShownIsWhereWeAre
<1>5. QED
  BY <1>1, <1>2, <1>3, <1>4, PollStep, KeyStep DEF Next

LEMMA Inductive == Spec => []IInv
<1>1. IInv /\ [Next]_vars => IInv'
  BY NextStep
<1>2. QED
  BY <1>1, InitIInv, PTL DEF Spec

---------------------------------------------------------------------------------
(* Theorems *)

\* Every variable keeps its type; in particular only jobs that exist are run.
THEOREM TypeCorrect == Spec => []TypeOK
BY Inductive, PTL DEF IInv

\* What is on display is the scan of the path the user navigates from
\* (src/app/storage.rs:87-108).
THEOREM DisplayConsistent == Spec => []ShownIsWhereWeAre
BY Inductive, PTL DEF IInv

\* No job is started for another screen or for an answer that is on hand
\* (src/app/storage.rs:59-84, src/app/state.rs:238-255).
THEOREM NoNeedlessStart == Spec => StartsOnlyWhatIsNeeded
<1> DEFINE Needed(k) == \/ k \in ReportsFor(task) /\ k \notin held'
                        \/ k = dirPath' /\ ScansDir(task) /\ dir' = NoDir
<1>1. ASSUME [Next]_vars, NEW k \in running' \ running
      PROVE  screen = "Storage" /\ Needed(k)
  <2>1. CASE UNCHANGED jobs
    BY <1>1, <2>1 DEF jobs
  <2>2. CASE J!Drain \/ J!Close \/ \E j \in Key : J!Finish(j)
    BY <1>1, <2>2 DEF J!Drain, J!Close, J!Finish
  <2>3. CASE Poll
    <3>1. CASE screen # "Storage"
      BY <1>1, <2>3, <3>1 DEF Poll, jobs
    <3>2. CASE screen = "Storage"
      <4>1. PICK started : J!Request(JobsNeeded(task, held', dir', dirPath'), started)
        BY <2>3, <3>2 DEF Poll
      <4>2. k \in JobsNeeded(task, held', dir', dirPath')
        BY <1>1, <4>1 DEF J!Request
      <4>3. QED
        BY <3>2, <4>2 DEF JobsNeeded
    <3>3. QED
      BY <3>1, <3>2
  <2>4. ASSUME NEW p, Browsing, Descend(p)
        PROVE  screen = "Storage" /\ Needed(k)
    <3>1. k = p
      BY <1>1, <2>4 DEF Descend, J!Request
    <3>2. task = "what-fills" /\ dir' = NoDir /\ dirPath' = p /\ screen = "Storage"
      BY <2>4 DEF Browsing, Descend
    <3>3. QED
      BY <3>1, <3>2 DEF ScansDir
  <2>5. CASE UserKey
    <3>1. CASE Enter
      BY <2>4, <3>1 DEF Enter
    <3>2. CASE Backspace
      BY <2>1, <2>4, <3>2 DEF Backspace
    <3>3. CASE Idle \/ Leave \/ Refresh \/ \E t \in Task : Goto(t)
      BY <2>1, <3>3 DEF Idle, Leave, Refresh, Goto
    <3>4. QED
      BY <2>5, <3>1, <3>2, <3>3 DEF UserKey
  <2>6. CASE UNCHANGED vars
    BY <2>1, <2>6 DEF vars, jobs
  <2>7. CASE Drain \/ Quit \/ \E j \in Key : Finish(j)
    BY <2>2, <2>7 DEF Drain, Quit, Finish
  <2>8. QED
    BY <1>1, <2>3, <2>5, <2>6, <2>7 DEF Next
<1> HIDE DEF Needed
<1>2. [Next]_vars => [\A k \in running' \ running :
                        /\ screen = "Storage"
                        /\ \/ k \in ReportsFor(task) /\ k \notin held'
                           \/ k = dirPath' /\ ScansDir(task) /\ dir' = NoDir]_vars
  BY <1>1 DEF Needed
<1>3. QED
  BY <1>2, PTL DEF Spec, StartsOnlyWhatIsNeeded

\* Only a key takes a measured result off the display.
THEOREM ResultsKept == Spec => ResultsStay
<1>1. ASSUME IInv, [Next]_vars, (dir # NoDir /\ dir' = NoDir) \/ ~(held \subseteq held')
      PROVE  pc = "key"
  <2>1. CASE UserKey \/ Quit
    BY <2>1 DEF UserKey, Quit, Idle, Leave, Refresh, Goto, Enter, Backspace, KeyRead
  <2>2. CASE Poll
    <3>1. held \subseteq held' /\ (dir # NoDir => dir' # NoDir)
      BY <1>1, <2>2, AppliedTypes DEF Poll, AppliedHeld
    <3>2. QED
      BY <1>1, <3>1
  <2>3. CASE UNCHANGED vars \/ Drain \/ \E k \in Key : Finish(k)
    BY <1>1, <2>3 DEF vars, store, Drain, Finish
  <2>4. QED
    BY <1>1, <2>1, <2>2, <2>3 DEF Next
<1>2. IInv /\ [Next]_vars
        => [(dir # NoDir /\ dir' = NoDir) \/ ~(held \subseteq held') => pc = "key"]_vars
  BY <1>1
<1>3. QED
  BY <1>2, Inductive, PTL DEF Spec, ResultsStay

=================================================================================
