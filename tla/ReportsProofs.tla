----------------------------- MODULE ReportsProofs -----------------------------
(* What holds of the storage screen with its reports (module Reports) for any      *)
(* mount tables, any open files and any outcomes of the external commands.         *)
EXTENDS Reports, WellFoundedInduction, TLAPS

Field == {"mounts", "arrays", "filesystems", "deleted", "logs", "dirs", "drives", "errors"}

ShownTyped == shown = [field \in Field |-> shown[field]]

---------------------------------------------------------------------------------
(* The search for deleted files                                                    *)

Handles == UNION {s.handles : s \in Scenes}

Line ==
    [pid : {h.pid : h \in Handles}, name : {h.name : h \in Handles},
     looks : {h.looks : h \in Handles}, bytes : {h.bytes : h \in Handles} \cup {NoAnswer}]

Search ==
    [todo : SUBSET {h.pid : h \in Handles}, fds : SUBSET Handles, at : Handles \cup {Idle},
     files : Seq(Line), denied : Nat, listed : BOOLEAN, missed : SUBSET Handles]

In(files, h) == \E i \in DOMAIN files : files[i] = LineOf(h, h.bytes)

\* A name that has been deleted, or looks it.
Marked(x) == x.name \in gone \/ x.looks = "(deleted)"

\* A handle that was there before is still to be looked at, or is looked at, or is
\* in the report, unless it could not be read or is of no interest, or some process
\* has been counted as denied, or no process was seen at all.
NotLost ==
    held.denied = 0 /\ held.listed => \A h \in since \ held.missed :
        \/ h.looks = "/dev/"
        \/ h.pid \in held.todo
        \/ h \in held.fds
        \/ held.at = h
        \/ In(held.files, h)

SearchInv ==
    Searching =>
        /\ held \in Search
        /\ shown["deleted"] = NoAnswer
        /\ held.at # Idle => Marked(held.at)
        /\ \A i \in DOMAIN held.files : Marked(held.files[i])
        /\ NotLost

HeldInv ==
    /\ scene \in Scenes
    /\ open \subseteq scene.handles
    /\ since \subseteq open
    /\ \A h \in since : h.name \in gone
    /\ ShownTyped
    /\ SearchInv
    /\ HeldNeverHidden

LEMMA HeldInit == Init => HeldInv
<1> SUFFICES ASSUME Init PROVE HeldInv
  OBVIOUS
<1>1. scene \in Scenes /\ open \subseteq scene.handles /\ since \subseteq open
  BY DEF Init
<1>2. \A h \in since : h.name \in gone
  BY DEF Init
<1>3. ShownTyped
  BY DEF Init, ShownTyped, Unread, Field
<1>4. SearchInv
  BY DEF Init, SearchInv, Searching
<1>5. HeldNeverHidden
  BY DEF Init, HeldNeverHidden, Unread
<1> QED
  BY <1>1, <1>2, <1>3, <1>4, <1>5 DEF HeldInv

\* A report that is set is the only one that changes.
LEMMA SetOne ==
    ASSUME ShownTyped, NEW report \in Field, NEW value, Set(report, value)
    PROVE  /\ ShownTyped'
           /\ shown'[report] = value
           /\ \A other \in Field \ {report} : shown'[other] = shown[other]
BY DEF ShownTyped, Set

\* The fields by which the screen reads the reports.
LEMMA ByField ==
    ASSUME ShownTyped
    PROVE  /\ shown.mounts = shown["mounts"] /\ shown.deleted = shown["deleted"]
           /\ shown.logs = shown["logs"] /\ shown.dirs = shown["dirs"]
           /\ shown.arrays = shown["arrays"] /\ shown.filesystems = shown["filesystems"]
           /\ shown.drives = shown["drives"] /\ shown.errors = shown["errors"]
OBVIOUS

LEMMA LoadOthers ==
    ASSUME ShownTyped, NEW mdstat, NEW recorded, LoadFast(mdstat, recorded)
    PROVE  /\ ShownTyped'
           /\ \A field \in Field \ {"mounts", "arrays", "filesystems"} :
                shown'[field] = shown[field]
BY DEF ShownTyped, LoadFast, Field

LEMMA RefreshClears ==
    ASSUME Refresh PROVE ShownTyped' /\ shown'["deleted"] = NoAnswer
BY DEF Refresh, ShownTyped, Unread, Field

\* What keeps the reports on deleted files and the search as they are keeps the rest.
LEMMA Elsewhere ==
    ASSUME HeldInv, UNCHANGED <<scene, held>>, ShownTyped',
           shown'["deleted"] = shown["deleted"],
           open' \subseteq open, gone \subseteq gone', since' \subseteq since \cap open'
    PROVE  HeldInv'
<1>1. SearchInv'
  BY DEF HeldInv, SearchInv, Searching, NotLost, Marked
<1>2. HeldNeverHidden'
  <2>1. shown.deleted = shown["deleted"] /\ shown.deleted' = shown'["deleted"]
    OBVIOUS
  <2> QED
    BY <2>1 DEF HeldInv, HeldNeverHidden, LowerBound
<1>3. scene' \in Scenes /\ open' \subseteq scene'.handles /\ since' \subseteq open'
  BY DEF HeldInv
<1>4. \A h \in since' : h.name \in gone'
  BY DEF HeldInv
<1> QED
  BY <1>1, <1>2, <1>3, <1>4 DEF HeldInv

LEMMA HeldBegins == HeldInv /\ BeginHeld => HeldInv'
<1> SUFFICES ASSUME HeldInv, BeginHeld PROVE HeldInv'
  OBVIOUS
<1> USE DEF HeldInv, BeginHeld
<1>1. shown["deleted"] = NoAnswer
  BY DEF Asks
<1>2. open \subseteq Handles
  BY DEF Handles
<1> PICK listed \in BOOLEAN :
        held' = [todo |-> IF listed THEN AliveNow ELSE {}, fds |-> {}, at |-> Idle,
                 files |-> <<>>, denied |-> 0, listed |-> listed, missed |-> {}]
  OBVIOUS
<1>3. /\ held'.listed => held'.todo = AliveNow
      /\ held'.at = Idle /\ held'.files = <<>>
  OBVIOUS
<1>4. held' \in Search
  BY <1>2 DEF Search, AliveNow
<1>5. \A h \in since' : h \in open /\ h.name \in gone /\ h.pid \in AliveNow
  BY DEF AliveNow
<1>6. SearchInv'
  BY <1>1, <1>3, <1>4, <1>5 DEF SearchInv, Searching, NotLost
<1>7. HeldNeverHidden'
  BY <1>1 DEF HeldNeverHidden
<1>8. ShownTyped'
  BY DEF ShownTyped
<1> QED
  BY <1>5, <1>6, <1>7, <1>8

\* A step of the search that ends nothing: the report is still missing.
LEMMA StillSearching ==
    ASSUME HeldInv, Searching, UNCHANGED <<scene, open, gone, shown, since>>,
           held' \in Search,
           held'.at # Idle => Marked(held'.at),
           \A i \in DOMAIN held'.files : Marked(held'.files[i]),
           NotLost'
    PROVE  HeldInv'
<1>1. shown["deleted"] = NoAnswer
  BY DEF HeldInv, SearchInv
<1>2. SearchInv'
  BY <1>1 DEF SearchInv, Marked
<1>3. HeldNeverHidden'
  BY <1>1 DEF HeldNeverHidden
<1> QED
  BY <1>2, <1>3 DEF HeldInv, ShownTyped

LEMMA ProcessOpened ==
    ASSUME HeldInv, Between, NEW pid \in held.todo, OpenFds(pid)
    PROVE  HeldInv'
<1>1. held \in Search /\ Searching /\ held.at = Idle /\ held.fds = {}
  BY DEF Between, HeldInv, SearchInv
<1>2. open \subseteq Handles
  BY DEF HeldInv, Handles
<1>3. CASE held' = [held EXCEPT !.todo = @ \ {pid}, !.fds = {h \in open : h.pid = pid}]
  <2>1. /\ held' \in Search
        /\ held'.at = Idle /\ held'.files = held.files /\ held'.denied = held.denied
        /\ held'.todo = held.todo \ {pid} /\ held'.fds = {h \in open : h.pid = pid}
        /\ held'.listed = held.listed /\ held'.missed = held.missed
    BY <1>1, <1>2, <1>3 DEF Search
  <2>2. \A h \in since : h \in open
    BY DEF HeldInv
  <2>3. NotLost'
    BY <1>1, <2>1, <2>2, AbsenceAssumption DEF HeldInv, SearchInv, NotLost, OpenFds, In
  <2>4. \A i \in DOMAIN held'.files : Marked(held'.files[i])
    BY <1>1, <2>1 DEF HeldInv, SearchInv
  <2> QED
    BY <1>1, <2>1, <2>3, <2>4, StillSearching DEF OpenFds
<1>4. CASE held' = [held EXCEPT !.todo = @ \ {pid}, !.denied = @ + 1]
  <2>1. held.denied \in Nat /\ held.denied + 1 \in Nat
    BY <1>1 DEF Search
  <2> DEFINE refused == held.denied + 1
  <2>2. refused \in Nat
    BY <2>1 DEF refused
  <2> HIDE DEF refused
  <2>3. held' = [held EXCEPT !.todo = held.todo \ {pid}, !.denied = refused]
    BY <1>4 DEF refused
  <2>4. held' \in Search /\ held'.at = Idle /\ held'.files = held.files /\ held'.denied = refused
    BY <1>1, <2>2, <2>3 DEF Search
  <2>5. NotLost'
    BY <2>1, <2>4 DEF NotLost, refused
  <2>6. \A i \in DOMAIN held'.files : Marked(held'.files[i])
    BY <1>1, <2>4 DEF HeldInv, SearchInv
  <2> QED
    BY <1>1, <2>4, <2>5, <2>6, StillSearching DEF OpenFds
<1> QED
  BY <1>3, <1>4 DEF OpenFds

LEMMA LinkRead ==
    ASSUME HeldInv, Searching, held.at = Idle, NEW h \in held.fds, ReadLink(h)
    PROVE  HeldInv'
<1>1. held \in Search /\ h \in Handles
  BY DEF HeldInv, SearchInv, Search
<1>2. \A g \in since : g \in open /\ g.name \in gone /\ g # Idle
  BY AbsenceAssumption DEF HeldInv
<1>3. CASE /\ h \in open
           /\ held' = [held EXCEPT !.fds = @ \ {h}, !.at = IF LooksDeleted(h) THEN h ELSE Idle]
  <2> DEFINE next == IF LooksDeleted(h) THEN h ELSE Idle
  <2>1. /\ held' \in Search
        /\ held'.at = next /\ held'.files = held.files /\ held'.denied = held.denied
        /\ held'.todo = held.todo /\ held'.fds = held.fds \ {h}
        /\ held'.listed = held.listed /\ held'.missed = held.missed
    BY <1>1, <1>3 DEF Search
  <2>2. held'.at # Idle => Marked(held'.at)
    BY <2>1 DEF LooksDeleted, Marked
  <2>3. NotLost'
    BY <1>2, <2>1 DEF HeldInv, SearchInv, NotLost, ReadLink, In, LooksDeleted
  <2>4. \A i \in DOMAIN held'.files : Marked(held'.files[i])
    BY <2>1 DEF HeldInv, SearchInv
  <2> QED
    BY <2>1, <2>2, <2>3, <2>4, StillSearching DEF ReadLink
<1>4. CASE held' = [held EXCEPT !.fds = @ \ {h}, !.missed = @ \cup {h}]
  <2>1. /\ held' \in Search
        /\ held'.at = Idle /\ held'.files = held.files /\ held'.denied = held.denied
        /\ held'.todo = held.todo /\ held'.fds = held.fds \ {h}
        /\ held'.listed = held.listed /\ held'.missed = held.missed \cup {h}
    BY <1>1, <1>4 DEF Search
  <2>2. NotLost'
    BY <1>2, <2>1 DEF HeldInv, SearchInv, NotLost, ReadLink, In
  <2>3. \A i \in DOMAIN held'.files : Marked(held'.files[i])
    BY <2>1 DEF HeldInv, SearchInv
  <2> QED
    BY <2>1, <2>2, <2>3, StillSearching DEF ReadLink
<1> QED
  BY <1>3, <1>4 DEF ReadLink

\* One more line, for the handle that is looked at.
LEMMA LineAdded ==
    ASSUME HeldInv, Searching, held.at # Idle, NEW bytes, NEW missed,
           bytes \in {h.bytes : h \in Handles} \cup {NoAnswer},
           missed \in SUBSET Handles, held.missed \subseteq missed,
           bytes = held.at.bytes \/ held.at \in missed,
           held' = [held EXCEPT !.at = Idle, !.files = Append(@, LineOf(held.at, bytes)),
                               !.missed = missed],
           UNCHANGED <<scene, open, gone, shown, since>>
    PROVE  HeldInv'
<1>1. held \in Search /\ held.at \in Handles /\ Marked(held.at)
  BY DEF HeldInv, SearchInv, Search
<1> DEFINE line == LineOf(held.at, bytes)
<1>2. line \in Line
  BY <1>1 DEF Line, LineOf
<1>3. held.files \in Seq(Line)
  BY <1>1 DEF Search
<1>4. Marked(line)
  BY <1>1 DEF LineOf, Marked
<1>5. held.at \notin missed => line = LineOf(held.at, held.at.bytes)
  OBVIOUS
<1> HIDE DEF line
<1>6. held' = [held EXCEPT !.at = Idle, !.files = Append(@, line), !.missed = missed]
  BY DEF line
<1>7. Append(held.files, line) \in Seq(Line)
  BY <1>2, <1>3
<1>8. /\ held' \in Search
      /\ held'.at = Idle /\ held'.files = Append(held.files, line)
      /\ held'.denied = held.denied /\ held'.todo = held.todo /\ held'.fds = held.fds
      /\ held'.listed = held.listed /\ held'.missed = missed
  BY <1>1, <1>6, <1>7 DEF Search
<1>9. /\ \A i \in DOMAIN held.files : i \in DOMAIN held'.files /\ held'.files[i] = held.files[i]
      /\ \E i \in DOMAIN held'.files : held'.files[i] = line
      /\ \A i \in DOMAIN held'.files : i \in DOMAIN held.files \/ held'.files[i] = line
  BY <1>2, <1>3, <1>8
<1>10. \A i \in DOMAIN held'.files : Marked(held'.files[i])
  BY <1>4, <1>9 DEF HeldInv, SearchInv
<1>11. NotLost'
  BY <1>5, <1>8, <1>9 DEF HeldInv, SearchInv, NotLost, In
<1> QED
  BY <1>8, <1>10, <1>11, StillSearching

LEMMA SizeRead ==
    ASSUME HeldInv, Searching, held.at # Idle, ReadSize
    PROVE  HeldInv'
<1>1. held \in Search /\ held.at \in Handles
  BY DEF HeldInv, SearchInv, Search
<1>2. CASE /\ held.at \in open
           /\ held' = [held EXCEPT !.at = Idle,
                                   !.files = Append(@, LineOf(held.at, held.at.bytes))]
  <2>1. held' = [held EXCEPT !.at = Idle, !.files = Append(@, LineOf(held.at, held.at.bytes)),
                             !.missed = held.missed]
    BY <1>1, <1>2 DEF Search
  <2>2. held.missed \in SUBSET Handles /\ held.at.bytes \in {h.bytes : h \in Handles}
    BY <1>1 DEF Search
  <2> QED
    BY <2>1, <2>2, LineAdded DEF ReadSize
<1>3. CASE held' = [held EXCEPT !.at = Idle, !.files = Append(@, LineOf(held.at, NoAnswer)),
                                !.missed = @ \cup {held.at}]
  <2>1. held' = [held EXCEPT !.at = Idle, !.files = Append(@, LineOf(held.at, NoAnswer)),
                             !.missed = held.missed \cup {held.at}]
    BY <1>3
  <2>2. held.missed \cup {held.at} \in SUBSET Handles
    BY <1>1 DEF Search
  <2> QED
    BY <2>1, <2>2, LineAdded DEF ReadSize
<1> QED
  BY <1>2, <1>3 DEF ReadSize

LEMMA SearchEnds ==
    ASSUME HeldInv, Between, held.todo = {}, EndHeld
    PROVE  HeldInv'
<1>1. held \in Search /\ SearchInv /\ Searching /\ held.at = Idle /\ held.fds = {}
  BY DEF Between, HeldInv, SearchInv
<1>2. /\ ShownTyped'
      /\ shown'["deleted"] = [files |-> held.files, denied |-> held.denied,
                              listed |-> held.listed, missed |-> held.missed]
  BY SetOne DEF EndHeld, HeldInv, Field
<1>3. held.denied \in Nat
  BY <1>1 DEF Search
<1>4. ~(held.denied > 0) /\ held.listed => \A h \in since \ held.missed :
        h.looks = "/dev/" \/ In(held.files, h)
  BY <1>1, <1>3, AbsenceAssumption DEF SearchInv, NotLost, HeldInv
<1>5. /\ shown.deleted' = shown'["deleted"]
      /\ shown'["deleted"].files = held.files /\ shown'["deleted"].denied = held.denied
      /\ shown'["deleted"].listed = held.listed /\ shown'["deleted"].missed = held.missed
  BY <1>2
<1>6. \A line : line \in Range(held.files) <=> \E i \in DOMAIN held.files : held.files[i] = line
  BY DEF Range
<1>7. HeldNeverHidden'
  BY <1>1, <1>4, <1>5, <1>6 DEF HeldNeverHidden, LowerBound, EndHeld, In, SearchInv, Marked
<1>8. SearchInv'
  BY DEF SearchInv, Searching, EndHeld
<1> QED
  BY <1>2, <1>7, <1>8 DEF HeldInv, EndHeld

LEMMA HeldNext == HeldInv /\ [Next]_vars => HeldInv'
<1> SUFFICES ASSUME HeldInv, [Next]_vars PROVE HeldInv'
  OBVIOUS
<1>1. CASE UNCHANGED vars
  BY <1>1, Elsewhere DEF vars, HeldInv, ShownTyped
<1>2. ASSUME NEW t, Write(t) PROVE HeldInv'
  BY <1>2, Elsewhere DEF Write, HeldInv, ShownTyped
<1>3. ASSUME NEW h \in open, Unlink(h.name) PROVE HeldInv'
  BY <1>3, Elsewhere DEF Unlink, HeldInv, ShownTyped
<1>4. ASSUME NEW h \in open, Close(h) PROVE HeldInv'
  BY <1>4, Elsewhere DEF Close, HeldInv, ShownTyped
<1>5. ASSUME NEW mdstat, NEW recorded, LoadFast(mdstat, recorded) PROVE HeldInv'
  <2>1. ShownTyped' /\ shown'["deleted"] = shown["deleted"]
    BY <1>5, LoadOthers DEF HeldInv, Field
  <2> QED
    BY <1>5, <2>1, Elsewhere DEF LoadFast, HeldInv
<1>6. CASE Refresh
  <2>1. ShownTyped' /\ shown'["deleted"] = NoAnswer
    BY <1>6, RefreshClears
  <2>2. SearchInv'
    BY <1>6, <2>1 DEF HeldInv, SearchInv, Searching, NotLost, Marked, Refresh
  <2>3. HeldNeverHidden'
    BY <2>1 DEF HeldNeverHidden
  <2> QED
    BY <1>6, <2>1, <2>2, <2>3 DEF HeldInv, Refresh
<1>7. CASE HeldStep
  BY <1>7, HeldBegins, ProcessOpened, LinkRead, SizeRead, SearchEnds DEF HeldStep
<1>8. ASSUME NEW report \in Field \ {"deleted"}, NEW value, Set(report, value),
             UNCHANGED <<scene, table, open, gone, held, since>>
      PROVE  HeldInv'
  <2>1. ShownTyped' /\ shown'["deleted"] = shown["deleted"]
    BY <1>8, SetOne DEF HeldInv, Field
  <2> QED
    BY <1>8, <2>1, Elsewhere DEF HeldInv
<1>9. ASSUME NEW footprint, MeasureLogs(footprint) PROVE HeldInv'
  BY <1>8, <1>9 DEF MeasureLogs, Field
<1>10. CASE StartScan
  BY <1>10, Elsewhere DEF StartScan, HeldInv, ShownTyped
<1>13. ASSUME NEW d, Navigate(d) PROVE HeldInv'
  BY <1>8, <1>13 DEF Navigate, Field
<1>14. ASSUME NEW d, NEW entries, EndScan(d, entries) PROVE HeldInv'
  BY <1>8, <1>14 DEF EndScan, Field
<1>11. ASSUME NEW present, NEW outputs, AskDrives(present, outputs) PROVE HeldInv'
  BY <1>8, <1>11 DEF AskDrives, Field
<1>12. ASSUME NEW present, NEW outcomes, SearchKernelLog(present, outcomes) PROVE HeldInv'
  BY <1>8, <1>12 DEF SearchKernelLog, Field
<1> QED
  BY <1>1, <1>2, <1>3, <1>4, <1>5, <1>6, <1>7, <1>9, <1>10, <1>11, <1>12, <1>13, <1>14 DEF Next

\* Whatever has been held since before the search began and still is, is in a report
\* that does not call itself a lower bound, but for what could not be read or is left
\* out; and what is in it has lost its name, or looks it (deleted.rs, scan).
THEOREM NothingHeldIsHidden == Spec => []HeldNeverHidden
<1>1. HeldInv => HeldNeverHidden
  BY DEF HeldInv
<1> QED
  BY <1>1, HeldInit, HeldNext, PTL DEF Spec

---------------------------------------------------------------------------------
(* The cause that is named                                                         *)

\* What a job answers takes the place of no other answer.
Answers(report) == shown'[report] = shown[report] \/ shown[report] = NoAnswer

LEMMA OnlyAnswers ==
    ASSUME HeldInv, [Next]_vars, Loaded, shown'.mounts = shown.mounts
    PROVE  Answers("deleted") /\ Answers("logs")
<1>1. CASE UNCHANGED shown
  BY <1>1 DEF Answers
<1>2. ASSUME NEW report \in Field, NEW value, Set(report, value),
             shown[report] = NoAnswer \/ report \notin {"deleted", "logs"}
      PROVE  Answers("deleted") /\ Answers("logs")
  BY <1>2, SetOne DEF Answers, HeldInv, Field
<1>3. CASE HeldStep
  <2>1. CASE Between /\ EndHeld
    BY <1>2, <2>1 DEF Between, EndHeld, HeldInv, SearchInv, Field
  <2>2. CASE UNCHANGED shown
    BY <1>1, <2>2
  <2> QED
    BY <1>3, <2>1, <2>2 DEF HeldStep, BeginHeld, OpenFds, ReadLink, ReadSize
<1>4. ASSUME NEW footprint, MeasureLogs(footprint)
      PROVE  Answers("deleted") /\ Answers("logs")
  BY <1>2, <1>4 DEF MeasureLogs, Asks, Field
<1>5. ASSUME NEW d, Navigate(d) \/ \E entries : EndScan(d, entries)
      PROVE  Answers("deleted") /\ Answers("logs")
  BY <1>2, <1>5 DEF Navigate, EndScan, Field
<1>6. ASSUME NEW present, NEW outputs, AskDrives(present, outputs)
      PROVE  Answers("deleted") /\ Answers("logs")
  BY <1>2, <1>6 DEF AskDrives, Asks, Field
<1>7. ASSUME NEW present, NEW outcomes, SearchKernelLog(present, outcomes)
      PROVE  Answers("deleted") /\ Answers("logs")
  BY <1>2, <1>7 DEF SearchKernelLog, Asks, Field
<1>8. ~Refresh
  BY DEF Refresh, Unread, Loaded
<1>9. ASSUME NEW mdstat, NEW recorded PROVE ~LoadFast(mdstat, recorded)
  BY DEF LoadFast, Loaded
<1> QED
  BY <1>1, <1>3, <1>4, <1>5, <1>6, <1>7, <1>8, <1>9 DEF Next, Write, Unlink, Close, StartScan, vars

\* The evidence for a cause stays when more answers are there; that of the large
\* directories, the fourth, only as long as the scan does.
LEMMA EvidenceStays ==
    ASSUME NEW u, NEW deleted, NEW logs, NEW dirs, NEW deleted2, NEW logs2, NEW dirs2,
           deleted2 = deleted \/ deleted = NoAnswer,
           logs2 = logs \/ logs = NoAnswer
    PROVE  \A i \in CausesFound(u, deleted, logs, dirs) :
                dirs2 = dirs \/ CauseOrder[i] # "large directories" =>
                    i \in CausesFound(u, deleted2, logs2, dirs2)
<1> SUFFICES ASSUME NEW i \in CausesFound(u, deleted, logs, dirs),
                    dirs2 = dirs \/ CauseOrder[i] # "large directories"
             PROVE  i \in CausesFound(u, deleted2, logs2, dirs2)
  OBVIOUS
<1> DEFINE cause == CauseOrder[i]
<1>1. i \in DOMAIN CauseOrder /\ Supports(u, deleted, logs, dirs, cause)
  BY DEF CausesFound
<1>2. dirs2 = dirs \/ cause # "large directories"
  OBVIOUS
<1> HIDE DEF cause
<1>3. Supports(u, deleted2, logs2, dirs2, cause)
  <2>1. CASE cause = "inodes exhausted"
    BY <1>1, <2>1 DEF Supports
  <2>2. CASE cause = "deleted files"
    BY <1>1, <2>2 DEF Supports
  <2>3. CASE cause = "logs"
    BY <1>1, <2>3 DEF Supports
  <2>4. CASE cause = "large directories"
    BY <1>1, <1>2, <2>4 DEF Supports
  <2>5. CASE cause \notin {"inodes exhausted", "deleted files", "logs", "large directories"}
    BY <1>1, <2>5 DEF Supports
  <2> QED
    BY <2>1, <2>2, <2>3, <2>4, <2>5
<1> QED
  BY <1>1, <1>3 DEF CausesFound, cause

LEMMA Places == DOMAIN CauseOrder = 1..5 /\ Len(CauseOrder) + 1 = 6
  BY DEF CauseOrder

\* Every place has a cause of its own, and none of them says that nothing was found.
LEMMA PlacesDiffer ==
    /\ \A i, j \in 1..5 : CauseOrder[i] = CauseOrder[j] => i = j
    /\ \A i \in 1..5 : CauseOrder[i] \notin {"undetermined", "not full", "none"}
  BY DEF CauseOrder

\* A set of places has a first one.
LEMMA FirstPlace ==
    ASSUME NEW S, S \subseteq 1..5, S # {}
    PROVE  \E i \in S : \A j \in S : i <= j
<1>1. CASE 1 \in S
  BY <1>1
<1>2. CASE 1 \notin S /\ 2 \in S
  BY <1>2
<1>3. CASE 1 \notin S /\ 2 \notin S /\ 3 \in S
  BY <1>3
<1>4. CASE 1 \notin S /\ 2 \notin S /\ 3 \notin S /\ 4 \in S
  BY <1>4
<1>5. CASE 1 \notin S /\ 2 \notin S /\ 3 \notin S /\ 4 \notin S
  <2>1. \A j \in S : j = 5
    BY <1>5
  <2>2. 5 \in S
    BY <2>1
  <2> QED
    BY <2>1, <2>2
<1> QED
  BY <1>1, <1>2, <1>3, <1>4, <1>5

LEMMA RankOfPlace ==
    /\ \A i \in 1..5 : Rank[CauseOrder[i]] = i
    /\ Rank["undetermined"] = 6 /\ Rank["not full"] = 6 /\ Rank["none"] = 6
<1>1. \A cause : cause \in Range(CauseOrder) <=> \E i \in 1..5 : cause = CauseOrder[i]
  BY Places DEF Range
<1>2. ASSUME NEW i \in 1..5 PROVE Rank[CauseOrder[i]] = i
  <2>1. CauseOrder[i] \in Range(CauseOrder)
    BY <1>1
  <2>2. Rank[CauseOrder[i]] = CHOOSE j \in 1..5 : CauseOrder[j] = CauseOrder[i]
    BY <2>1, Places DEF Rank
  <2> QED
    BY <2>2, PlacesDiffer
<1>3. ASSUME NEW cause \in {"undetermined", "not full", "none"} PROVE Rank[cause] = 6
  <2>1. cause \notin Range(CauseOrder)
    BY <1>1, PlacesDiffer
  <2>2. Rank[cause] = Len(CauseOrder) + 1
    BY <2>1 DEF Rank
  <2> QED
    BY <2>2, Places
<1> QED
  BY <1>2, <1>3

\* What diagnose_full names: the first place there is evidence for.
Names(cause, u, found) ==
    /\ u = NoAnswer => cause = "undetermined"
    /\ u # NoAnswer /\ ~IsFull(u) => cause = "not full"
    /\ u # NoAnswer /\ IsFull(u) =>
        /\ found = {} => cause = "undetermined"
        /\ found # {} => \E i \in found : cause = CauseOrder[i] /\ \A j \in found : i <= j

LEMMA Diagnosed ==
    ASSUME NEW mount, NEW deleted, NEW logs, NEW dirs
    PROVE  /\ CausesFound(mount.usage, deleted, logs, dirs) \subseteq 1..5
           /\ Names(DiagnoseFull(mount, deleted, logs, dirs), mount.usage,
                    CausesFound(mount.usage, deleted, logs, dirs))
<1> DEFINE found == CausesFound(mount.usage, deleted, logs, dirs)
           first == CHOOSE i \in found : \A j \in found : i <= j
<1>1. found \subseteq 1..5
  BY Places DEF CausesFound
<1>2. found # {} => first \in found /\ \A j \in found : first <= j
  BY <1>1, FirstPlace
<1> QED
  BY <1>1, <1>2 DEF DiagnoseFull, Names

\* The evidence for the cause that was named is still there.
Kept(before, found, found2) == \A i \in found : before = CauseOrder[i] => i \in found2

AsCertain(before, after) ==
    Rank[after] <= Rank[before] /\ (before = "not full" <=> after = "not full")

\* Of two causes named for the same filesystem the second is no less certain when the
\* evidence for the first is still there.
LEMMA RankSharpens ==
    ASSUME NEW u, NEW found, NEW found2, found2 \subseteq 1..5,
           NEW before, NEW after, Names(before, u, found), Names(after, u, found2),
           Kept(before, found, found2)
    PROVE  AsCertain(before, after)
<1> SUFFICES Rank[after] <= Rank[before] /\ (before = "not full" <=> after = "not full")
  BY DEF AsCertain
<1>1. CASE u = NoAnswer \/ ~IsFull(u)
  <2>1. before = after /\ before \in {"undetermined", "not full"}
    BY <1>1 DEF Names
  <2>2. Rank[before] = 6 /\ Rank[after] = 6
    BY <2>1, RankOfPlace
  <2>3. Rank[after] <= Rank[before]
    BY <2>2
  <2> QED
    BY <2>1, <2>3
<1>2. CASE u # NoAnswer /\ IsFull(u) /\ found2 = {}
  <2>1. before = "undetermined" /\ after = "undetermined"
    BY <1>2 DEF Names, Kept
  <2>2. Rank[before] = 6 /\ Rank[after] = 6
    BY <2>1, RankOfPlace
  <2>3. Rank[after] <= Rank[before]
    BY <2>2
  <2> QED
    BY <2>1, <2>3
<1>3. CASE u # NoAnswer /\ IsFull(u) /\ found2 # {}
  <2> PICK k \in found2 : after = CauseOrder[k] /\ \A j \in found2 : k <= j
    BY <1>3 DEF Names
  <2>1. Rank[after] = k /\ k \in 1..5 /\ after # "not full"
    BY RankOfPlace, PlacesDiffer
  <2>2. CASE found = {}
    <3>1. before = "undetermined"
      BY <1>3, <2>2 DEF Names
    <3>2. Rank[before] = 6
      BY <3>1, RankOfPlace
    <3>3. k <= 6
      <4>1. k \in 1..5
        OBVIOUS
      <4> QED
        BY <4>1
    <3>4. Rank[after] <= Rank[before]
      BY <2>1, <3>2, <3>3
    <3> QED
      BY <2>1, <3>1, <3>4
  <2>3. CASE found # {}
    <3> PICK i \in found : before = CauseOrder[i]
      BY <1>3, <2>3 DEF Names
    <3>0. i \in found2 /\ i \in 1..5
      BY DEF Kept
    <3>1. Rank[before] = i /\ i \in 1..5 /\ before # "not full"
      BY <3>0, RankOfPlace, PlacesDiffer
    <3>2. k <= i
      BY <3>0
    <3>3. Rank[after] <= Rank[before]
      BY <2>1, <3>1, <3>2
    <3> QED
      BY <2>1, <3>1, <3>3
  <2> QED
    BY <2>2, <2>3
<1> QED
  BY <1>1, <1>2, <1>3

\* One cause is no less certain than another one, or was the large directories of a scan
\* that is there no longer.
Sharpens(before, after, dirs, dirs2) ==
    /\ \/ Rank[after] <= Rank[before]
       \/ before = "large directories" /\ dirs2 # dirs
    /\ before = "not full" <=> after = "not full"

LEMMA MoreReports ==
    ASSUME NEW mount, NEW deleted, NEW logs, NEW dirs, NEW deleted2, NEW logs2, NEW dirs2,
           deleted2 = deleted \/ deleted = NoAnswer,
           logs2 = logs \/ logs = NoAnswer
    PROVE  Sharpens(DiagnoseFull(mount, deleted, logs, dirs),
                    DiagnoseFull(mount, deleted2, logs2, dirs2), dirs, dirs2)
<1> DEFINE u == mount.usage
           found == CausesFound(u, deleted, logs, dirs)
           found2 == CausesFound(u, deleted2, logs2, dirs2)
           before == DiagnoseFull(mount, deleted, logs, dirs)
           after == DiagnoseFull(mount, deleted2, logs2, dirs2)
<1>1. found2 \subseteq 1..5 /\ Names(before, u, found) /\ Names(after, u, found2)
  BY Diagnosed
<1>2. ASSUME NEW i \in found, dirs2 = dirs \/ CauseOrder[i] # "large directories"
      PROVE  i \in found2
  BY <1>2, EvidenceStays
<1> SUFFICES Sharpens(before, after, dirs, dirs2)
  OBVIOUS
<1> HIDE DEF u, found, found2, before, after
<1>3. CASE dirs2 = dirs \/ before # "large directories"
  <2>1. Kept(before, found, found2)
    BY <1>2, <1>3 DEF Kept
  <2>2. AsCertain(before, after)
    BY <1>1, <2>1, RankSharpens
  <2> QED
    BY <2>2 DEF Sharpens, AsCertain
<1>4. CASE dirs2 # dirs /\ before = "large directories"
  <2>1. u # NoAnswer /\ IsFull(u)
    BY <1>1, <1>4 DEF Names
  <2>2. after # "not full"
    BY <1>1, <2>1, PlacesDiffer DEF Names
  <2> QED
    BY <1>4, <2>2 DEF Sharpens
<1> QED
  BY <1>3, <1>4

LEMMA CauseStep ==
    ASSUME HeldInv, [Next]_vars
    PROVE  Loaded /\ shown' # shown /\ shown'.mounts = shown.mounts =>
                Sharpens(Cause, Cause', shown.dirs, shown'.dirs)
<1> SUFFICES ASSUME Loaded, shown'.mounts = shown.mounts
             PROVE  Sharpens(Cause, Cause', shown.dirs, shown'.dirs)
  OBVIOUS
<1>1. Answers("deleted") /\ Answers("logs")
  BY OnlyAnswers
<1>2. Loaded'
  BY DEF Loaded
<1>3. CASE DOMAIN shown.mounts = {}
  <2>1. Cause = "none" /\ Cause' = "none"
    BY <1>3 DEF Cause
  <2>2. Rank["none"] = 6
    BY RankOfPlace
  <2>3. Rank["none"] <= Rank["none"]
    BY <2>2
  <2> QED
    BY <2>1, <2>3 DEF Sharpens
<1>4. CASE DOMAIN shown.mounts # {}
  <2>1. /\ Fullest' = Fullest
        /\ Cause = DiagnoseFull(Fullest, shown.deleted, shown.logs, shown.dirs)
        /\ Cause' = DiagnoseFull(Fullest, shown'.deleted, shown'.logs, shown'.dirs)
    BY <1>2, <1>4 DEF Cause, Fullest
  <2>2. /\ shown'.deleted = shown.deleted \/ shown.deleted = NoAnswer
        /\ shown'.logs = shown.logs \/ shown.logs = NoAnswer
    BY <1>1 DEF Answers
  <2> QED
    BY <2>1, <2>2, MoreReports
<1> QED
  BY <1>3, <1>4

\* Whatever order the reports arrive in, the cause that is named is never replaced by
\* a less certain one until the user refreshes, or takes away the scan that large
\* directories are blamed for (storage.rs, diagnose_full and descend).
THEOREM CauseSharpens == Spec => CauseOnlySharpens
<1>1. HeldInv /\ [Next]_vars =>
        [Loaded /\ shown' # shown /\ shown'.mounts = shown.mounts =>
            /\ \/ Rank[Cause'] <= Rank[Cause]
               \/ Cause = "large directories" /\ shown'.dirs # shown.dirs
            /\ Cause = "not full" <=> Cause' = "not full"]_vars
  BY CauseStep DEF Sharpens
<1> QED
  BY <1>1, HeldInit, HeldNext, PTL DEF Spec, CauseOnlySharpens

---------------------------------------------------------------------------------
(* Numbers, ratios and orders                                                      *)

\* Every set of natural numbers has a least one.
LEMMA NatHasLeast ==
    ASSUME NEW T, T \subseteq Nat, T # {}
    PROVE  \E x \in T : \A y \in T : x <= y
<1> DEFINE R == OpToRel(<, Nat)
<1>1. IsWellFoundedOn(R, Nat)
  BY NatLessThanWellFounded
<1>2. \A x, y \in Nat : x < y => <<x, y>> \in R
  BY DEF OpToRel
<1> HIDE DEF R
<1>3. PICK x \in T : \A y \in T : ~ (<<y, x>> \in R)
  BY <1>1, WFMin
<1>4. \A y \in T : ~(y < x)
  BY <1>2, <1>3
<1> QED
  BY <1>4

\* Induction, for a set of numbers.
LEMMA Induct ==
    ASSUME NEW S, S \subseteq Nat, 0 \in S, \A n \in S : n + 1 \in S
    PROVE  S = Nat
<1> SUFFICES ASSUME S # Nat PROVE FALSE
  OBVIOUS
<1>1. PICK m \in Nat \ S : \A y \in Nat \ S : m <= y
  <2>1. Nat \ S \subseteq Nat /\ Nat \ S # {}
    OBVIOUS
  <2> QED
    BY <2>1, NatHasLeast
<1>2. m - 1 \in S
  BY <1>1
<1> QED
  BY <1>1, <1>2

\* R orders S.
Orders(R, S) ==
    /\ \A i, j \in S : i # j => <<i, j>> \in R \/ <<j, i>> \in R
    /\ \A i, j, k \in S : <<i, j>> \in R /\ <<j, k>> \in R => <<i, k>> \in R

\* A finite set that is ordered has a first element.
LEMMA HasFirst ==
    ASSUME NEW R, NEW n \in Nat, NEW S \in SUBSET (1..n), S # {}, Orders(R, S)
    PROVE  \E i \in S : \A j \in S \ {i} : <<i, j>> \in R
<1> DEFINE First(U) == \E i \in U : \A j \in U \ {i} : <<i, j>> \in R
           T == {k \in Nat : \A U \in SUBSET S : U # {} /\ U \subseteq 1..k => First(U)}
<1>1. 0 \in T
  <2>1. 1..0 = {}
    OBVIOUS
  <2>2. \A U \in SUBSET S : ~(U # {} /\ U \subseteq 1..0)
    BY <2>1
  <2> QED
    BY <2>2
<1>2. ASSUME NEW k \in T PROVE k + 1 \in T
  <2> SUFFICES ASSUME NEW U \in SUBSET S, U # {}, U \subseteq 1..(k + 1) PROVE First(U)
    BY DEF T
  <2>1. CASE k + 1 \notin U
    <3>1. U \subseteq 1..k
      BY <2>1
    <3> QED
      BY <3>1
  <2>2. CASE U = {k + 1}
    BY <2>2
  <2>3. CASE k + 1 \in U /\ U # {k + 1}
    <3> DEFINE V == U \ {k + 1}
    <3>1. V \subseteq 1..k /\ V # {} /\ V \in SUBSET S
      BY <2>3
    <3>2. PICK f \in V : \A j \in V \ {f} : <<f, j>> \in R
      BY <3>1
    <3>3. CASE <<f, k + 1>> \in R
      BY <3>2, <3>3
    <3>4. CASE <<f, k + 1>> \notin R
      <4>1. f \in S /\ k + 1 \in S /\ f # k + 1
        BY <2>3, <3>1, <3>2
      <4>2. <<k + 1, f>> \in R
        BY <3>4, <4>1 DEF Orders
      <4>3. \A j \in V : <<k + 1, j>> \in R
        BY <3>1, <3>2, <4>1, <4>2 DEF Orders
      <4> QED
        BY <2>3, <4>3
    <3> QED
      BY <3>3, <3>4
  <2> QED
    BY <2>1, <2>2, <2>3
<1> HIDE DEF T
<1>3. T = Nat
  <2>1. T \subseteq Nat
    BY DEF T
  <2> QED
    BY <1>1, <1>2, <2>1, Induct
<1> QED
  BY <1>3 DEF T

\* Both sides of a comparison may be multiplied, and divided by what is not 0.
LEMMA Scale ==
    ASSUME NEW x \in Int, NEW y \in Int, NEW d \in Nat
    PROVE  /\ x <= y => x * d <= y * d
           /\ d > 0 /\ x < y => x * d < y * d
           /\ d > 0 /\ x * d <= y * d => x <= y
BY SMT

\* A ratio that is at most another one, which is at most a third: a / b, c / d, e / f.
LEMMA RatioOrder ==
    ASSUME NEW a \in Nat, NEW b \in Nat \ {0}, NEW c \in Nat, NEW d \in Nat \ {0},
           NEW e \in Nat, NEW f \in Nat \ {0},
           a * d <= c * b, c * f <= e * d
    PROVE  /\ a * f <= e * b
           /\ a * d < c * b \/ c * f < e * d => a * f < e * b
<1>1. (a * d) * f <= (c * b) * f /\ (c * f) * b <= (e * d) * b
  BY Scale
<1>2. /\ a * d < c * b => (a * d) * f < (c * b) * f
      /\ c * f < e * d => (c * f) * b < (e * d) * b
  BY Scale
<1>3. /\ (a * d) * f = (a * f) * d /\ (c * b) * f = (c * f) * b
      /\ (e * d) * b = (e * b) * d
  BY SMT
<1>4. a * f \in Int /\ e * b \in Int
  BY SMT
<1>5. (a * f) * d <= (e * b) * d
  BY <1>1, <1>3, SMT
<1>6. a * d < c * b \/ c * f < e * d => (a * f) * d < (e * b) * d
  BY <1>1, <1>2, <1>3, SMT
<1>7. a * f <= e * b
  BY <1>4, <1>5, Scale
<1>8. a * f = e * b => ~((a * f) * d < (e * b) * d)
  BY <1>4
<1> QED
  BY <1>4, <1>6, <1>7, <1>8

---------------------------------------------------------------------------------
(* The fullest filesystem                                                          *)

LEMMA ShareTyped ==
    ASSUME NEW mount, mount.usage \in Usages \cup {NoAnswer}
    PROVE  Share(mount)[1] \in Nat /\ Share(mount)[2] \in Nat \ {0}
<1>1. CASE mount.usage = NoAnswer \/ Used(mount.usage) + mount.usage.available = 0
  <2>1. Share(mount) = <<0, 1>>
    BY <1>1 DEF Share
  <2> QED
    BY <2>1
<1>2. CASE ~(mount.usage = NoAnswer \/ Used(mount.usage) + mount.usage.available = 0)
  <2>1. Share(mount) = <<Used(mount.usage), Used(mount.usage) + mount.usage.available>>
    BY <1>2 DEF Share
  <2>2. mount.usage.available \in Nat /\ Used(mount.usage) \in Nat
    BY <1>2 DEF Usages, Used
  <2> QED
    BY <1>2, <2>1, <2>2
<1> QED
  BY <1>1, <1>2

\* Fuller compares shares, so what is not fuller than the other way round is an order
\* with ties.
LEMMA FullerOrder ==
    ASSUME NEW a, a.usage \in Usages \cup {NoAnswer},
           NEW b, b.usage \in Usages \cup {NoAnswer},
           NEW c, c.usage \in Usages \cup {NoAnswer}
    PROVE  /\ Fuller(a, b) => ~Fuller(b, a)
           /\ ~Fuller(b, a) /\ ~Fuller(c, b) => ~Fuller(c, a)
           /\ ~Fuller(b, a) /\ Fuller(b, c) => Fuller(a, c)
           /\ Fuller(a, b) /\ ~Fuller(c, b) => Fuller(a, c)
<1> DEFINE p(x) == Share(x)[1]
           q(x) == Share(x)[2]
<1>1. /\ p(a) \in Nat /\ q(a) \in Nat \ {0}
      /\ p(b) \in Nat /\ q(b) \in Nat \ {0}
      /\ p(c) \in Nat /\ q(c) \in Nat \ {0}
  BY ShareTyped
<1>2. /\ Fuller(a, b) <=> p(a) * q(b) > p(b) * q(a)
      /\ Fuller(b, a) <=> p(b) * q(a) > p(a) * q(b)
      /\ Fuller(b, c) <=> p(b) * q(c) > p(c) * q(b)
      /\ Fuller(c, b) <=> p(c) * q(b) > p(b) * q(c)
      /\ Fuller(a, c) <=> p(a) * q(c) > p(c) * q(a)
      /\ Fuller(c, a) <=> p(c) * q(a) > p(a) * q(c)
  BY DEF Fuller
<1> HIDE DEF p, q
<1>3. /\ p(a) * q(b) \in Int /\ p(b) * q(a) \in Int /\ p(b) * q(c) \in Int
      /\ p(c) * q(b) \in Int /\ p(a) * q(c) \in Int /\ p(c) * q(a) \in Int
  BY <1>1, SMT
<1>4. p(c) * q(b) <= p(b) * q(c) /\ p(b) * q(a) <= p(a) * q(b) =>
        /\ p(c) * q(a) <= p(a) * q(c)
        /\ p(c) * q(b) < p(b) * q(c) \/ p(b) * q(a) < p(a) * q(b) => p(c) * q(a) < p(a) * q(c)
  BY <1>1, RatioOrder
<1> DEFINE ab == p(a) * q(b)
           ba == p(b) * q(a)
           bc == p(b) * q(c)
           cb == p(c) * q(b)
           ac == p(a) * q(c)
           ca == p(c) * q(a)
<1> HIDE DEF ab, ba, bc, cb, ac, ca
<1> QED
  BY <1>2, <1>3, <1>4 DEF ab, ba, bc, cb, ac, ca

\* The list of usage can be sorted: some mount comes before all others, and no other
\* one is fuller.
LEMMA FirstIsFullest ==
    ASSUME NEW t, IsTable(t), NEW S, S \subseteq DOMAIN UsageOf(t), S # {}
    PROVE  LET first == FirstOf(UsageOf(t), S)
           IN  first \in S /\ \A j \in S : ~Fuller(UsageOf(t)[j], UsageOf(t)[first])
<1> DEFINE mounts == UsageOf(t)
           R == {pair \in S \X S : Precedes(mounts, pair[1], pair[2])}
<1>1. DOMAIN mounts \subseteq 1..Len(t) /\ Len(t) \in Nat
  BY DEF UsageOf, OncePerDevice, IsTable
<1>2. \A i \in DOMAIN mounts : mounts[i].usage \in Usages \cup {NoAnswer}
  BY <1>1 DEF UsageOf, IsTable
<1> HIDE DEF mounts
<1>3. S \subseteq 1..Len(t) /\ \A i \in S : i \in Nat /\ mounts[i].usage \in Usages \cup {NoAnswer}
  BY <1>1, <1>2 DEF mounts
<1>4. \A i, j \in S : <<i, j>> \in R <=> Precedes(mounts, i, j)
  OBVIOUS
<1> HIDE DEF R
<1>5. ASSUME NEW i \in S, NEW j \in S, i # j PROVE <<i, j>> \in R \/ <<j, i>> \in R
  <2>1. i < j \/ j < i
    BY <1>3, <1>5
  <2> QED
    BY <1>4, <2>1 DEF Precedes
<1>6. ASSUME NEW i \in S, NEW j \in S, NEW k \in S, <<i, j>> \in R, <<j, k>> \in R
      PROVE  <<i, k>> \in R
  <2>1. Precedes(mounts, i, j) /\ Precedes(mounts, j, k)
    BY <1>4, <1>6
  <2>2. /\ ~Fuller(mounts[j], mounts[i]) /\ ~Fuller(mounts[k], mounts[j]) => ~Fuller(mounts[k], mounts[i])
        /\ ~Fuller(mounts[j], mounts[i]) /\ Fuller(mounts[j], mounts[k]) => Fuller(mounts[i], mounts[k])
        /\ Fuller(mounts[i], mounts[j]) /\ ~Fuller(mounts[k], mounts[j]) => Fuller(mounts[i], mounts[k])
        /\ Fuller(mounts[i], mounts[j]) => ~Fuller(mounts[j], mounts[i])
        /\ Fuller(mounts[j], mounts[k]) => ~Fuller(mounts[k], mounts[j])
    BY <1>3, FullerOrder
  <2>3. i < j /\ j < k => i < k
    BY <1>3
  <2>4. Precedes(mounts, i, k)
    BY <2>1, <2>2, <2>3 DEF Precedes
  <2> QED
    BY <1>4, <2>4
<1>7. \E i \in S : \A j \in S \ {i} : <<i, j>> \in R
  <2>1. \A i, j \in S : i # j => <<i, j>> \in R \/ <<j, i>> \in R
    BY <1>5, Zenon
  <2>2. \A i, j, k \in S : <<i, j>> \in R /\ <<j, k>> \in R => <<i, k>> \in R
    BY <1>6, Zenon
  <2>3. Orders(R, S)
    BY <2>1, <2>2, Zenon DEF Orders
  <2>4. S \in SUBSET (1..Len(t)) /\ Len(t) \in Nat
    BY <1>1, <1>3, Zenon
  <2> QED
    BY <2>3, <2>4, HasFirst, Zenon
<1> DEFINE first == FirstOf(mounts, S)
<1>8. first \in S /\ \A j \in S \ {first} : Precedes(mounts, first, j)
  BY <1>4, <1>7 DEF FirstOf
<1> HIDE DEF first
<1>9. ASSUME NEW j \in S PROVE ~Fuller(mounts[j], mounts[first])
  <2>1. CASE j = first
    BY <1>3, <1>8, <2>1, FullerOrder
  <2>2. CASE j # first
    BY <1>3, <1>8, <2>2, FullerOrder DEF Precedes
  <2> QED
    BY <2>1, <2>2
<1> QED
  BY <1>8, <1>9 DEF first, mounts

\* A mount is above a limit when one that is not fuller is.
LEMMA AboveLimit ==
    ASSUME NEW a, a.usage \in Usages, a.usage # NoAnswer,
           NEW b, b.usage \in Usages, b.usage # NoAnswer, ~Fuller(b, a),
           NEW pct \in Nat \ {0}, UsedAtLeast(b.usage, pct)
    PROVE  UsedAtLeast(a.usage, pct)
<1> DEFINE p(x) == Used(x.usage)
           q(x) == Used(x.usage) + x.usage.available
<1>1. p(a) \in Nat /\ q(a) \in Nat /\ p(b) \in Nat /\ q(b) \in Nat
  BY DEF Usages, Used
<1>2. q(b) # 0 /\ 100 * p(b) >= pct * q(b)
  BY DEF UsedAtLeast
<1>3. Share(b)[1] = p(b) /\ Share(b)[2] = q(b)
  BY <1>2 DEF Share
<1>4. q(a) = 0 => Share(a)[1] = 0 /\ Share(a)[2] = 1
  BY DEF Share
<1>5. q(a) # 0 => Share(a)[1] = p(a) /\ Share(a)[2] = q(a)
  BY DEF Share
<1>6. ~(Share(b)[1] * Share(a)[2] > Share(a)[1] * Share(b)[2])
  BY DEF Fuller
<1>7. UsedAtLeast(a.usage, pct) <=> q(a) # 0 /\ 100 * p(a) >= pct * q(a)
  BY DEF UsedAtLeast
<1> HIDE DEF p, q
<1>8. pct * q(b) <= p(b) * 100 /\ p(b) # 0
  <2>1. pct * q(b) >= q(b)
    BY <1>1, SMT
  <2> QED
    BY <1>1, <1>2, <2>1, SMT
<1>9. q(a) # 0
  <2> SUFFICES ASSUME q(a) = 0 PROVE FALSE
    OBVIOUS
  <2>1. ~(p(b) * 1 > 0 * q(b))
    BY <1>3, <1>4, <1>6
  <2>2. p(b) * 1 = p(b) /\ 0 * q(b) = 0
    BY <1>1, SMT
  <2> QED
    BY <1>1, <1>8, <2>1, <2>2
<1>10. p(b) * q(a) <= p(a) * q(b)
  <2>1. ~(p(b) * q(a) > p(a) * q(b))
    BY <1>3, <1>5, <1>6, <1>9
  <2>2. p(b) * q(a) \in Int /\ p(a) * q(b) \in Int
    BY <1>1, SMT
  <2> QED
    BY <2>1, <2>2
<1>11. pct * q(a) <= p(a) * 100
  BY <1>1, <1>2, <1>8, <1>9, <1>10, RatioOrder, 100 \in Nat \ {0}
<1> QED
  BY <1>1, <1>7, <1>9, <1>11

\* The mounts on display are those of some mount table.
TableInv ==
    /\ HeldInv
    /\ table \in scene.tables
    /\ shown["mounts"] # NoAnswer => \E t \in scene.tables : shown["mounts"] = UsageOf(t)

LEMMA TableInit == Init => TableInv
<1> SUFFICES ASSUME Init PROVE TableInv
  OBVIOUS
<1>1. shown["mounts"] = NoAnswer /\ table \in scene.tables
  BY DEF Init, Unread
<1> QED
  BY <1>1, HeldInit DEF TableInv

LEMMA TableNext == TableInv /\ [Next]_vars => TableInv'
<1> SUFFICES ASSUME TableInv, [Next]_vars PROVE TableInv'
  OBVIOUS
<1>1. HeldInv /\ HeldInv' /\ ShownTyped
  BY HeldNext DEF TableInv, HeldInv
<1>2. CASE UNCHANGED <<scene, table>> /\ shown'["mounts"] = shown["mounts"]
  BY <1>1, <1>2 DEF TableInv
<1>3. CASE UNCHANGED <<scene, table, shown>>
  BY <1>2, <1>3
<1>4. ASSUME NEW report \in Field \ {"mounts"}, NEW value, Set(report, value),
             UNCHANGED <<scene, table>>
      PROVE  TableInv'
  <2>1. "mounts" \in Field \ {report}
    BY DEF Field
  <2>2. shown'["mounts"] = shown["mounts"]
    BY <1>1, <1>4, <2>1, SetOne
  <2> QED
    BY <1>2, <1>4, <2>2
<1>5. ASSUME NEW t \in scene.tables, Write(t) PROVE TableInv'
  BY <1>1, <1>5 DEF Write, TableInv
<1>6. ASSUME NEW h, Unlink(h.name) \/ Close(h) PROVE TableInv'
  BY <1>3, <1>6 DEF Unlink, Close
<1>7. ASSUME NEW mdstat, NEW recorded, LoadFast(mdstat, recorded) PROVE TableInv'
  <2>1. shown'["mounts"] = UsageOf(table) /\ UNCHANGED <<scene, table>>
    BY <1>1, <1>7 DEF LoadFast, ShownTyped, Field
  <2> QED
    BY <1>1, <2>1 DEF TableInv
<1>8. CASE Refresh
  <2>1. shown'["mounts"] = NoAnswer /\ UNCHANGED <<scene, table>>
    BY <1>8 DEF Refresh, Unread
  <2> QED
    BY <1>1, <2>1 DEF TableInv
<1>9. CASE HeldStep
  BY <1>3, <1>4, <1>9 DEF HeldStep, BeginHeld, OpenFds, ReadLink, ReadSize, EndHeld, Field
<1>10. ASSUME NEW footprint, MeasureLogs(footprint) PROVE TableInv'
  BY <1>4, <1>10 DEF MeasureLogs, Field
<1>11. ASSUME NEW d, Navigate(d) \/ \E entries : EndScan(d, entries) PROVE TableInv'
  BY <1>4, <1>11 DEF Navigate, EndScan, Field
<1>12. ASSUME NEW present, NEW outputs, AskDrives(present, outputs) PROVE TableInv'
  BY <1>4, <1>12 DEF AskDrives, Field
<1>13. ASSUME NEW present, NEW outcomes, SearchKernelLog(present, outcomes) PROVE TableInv'
  BY <1>4, <1>13 DEF SearchKernelLog, Field
<1> QED
  BY <1>3, <1>5, <1>6, <1>7, <1>8, <1>9, <1>10, <1>11, <1>12, <1>13 DEF Next, StartScan, vars

\* Some verdict is the worst of a few.
LEMMA WorstExists ==
    ASSUME NEW S, S \subseteq Verdict, S # {}
    PROVE  Largest(S) \in S /\ \A v \in S : v <= Largest(S)
<1>1. \E v \in S : \A w \in S : w <= v
  <2>1. CASE Critical \in S
    BY <2>1 DEF Verdict, Unknown, Ok, Warn, Critical
  <2>2. CASE Critical \notin S /\ Warn \in S
    BY <2>2 DEF Verdict, Unknown, Ok, Warn, Critical
  <2>3. CASE Critical \notin S /\ Warn \notin S /\ Ok \in S
    BY <2>3 DEF Verdict, Unknown, Ok, Warn, Critical
  <2>4. CASE Critical \notin S /\ Warn \notin S /\ Ok \notin S
    <3>1. \A v \in S : v = Unknown
      BY <2>4 DEF Verdict
    <3> QED
      BY <3>1 DEF Unknown
  <2> QED
    BY <2>1, <2>2, <2>3, <2>4
<1> QED
  BY <1>1 DEF Largest

\* What is said of a mount table that has anything to show.
LEMMA DisplayedMounts ==
    ASSUME TableInv, Loaded, DOMAIN shown.mounts # {}
    PROVE  /\ \A i \in DOMAIN shown.mounts :
                /\ shown.mounts[i] # NoAnswer
                /\ shown.mounts[i].usage \in Usages \cup {NoAnswer}
                /\ ~Fuller(shown.mounts[i], Fullest)
           /\ \E i \in DOMAIN shown.mounts : Fullest = shown.mounts[i]
           /\ \E i \in DOMAIN shown.mounts : Headline = shown.mounts[i]
<1>1. PICK t \in scene.tables : shown.mounts = UsageOf(t)
  BY DEF TableInv, HeldInv, ShownTyped, Field, Loaded
<1>2. IsTable(t)
  BY TablesAssumption DEF TableInv, HeldInv
<1>3. \A i \in DOMAIN UsageOf(t) : i \in DOMAIN t /\ UsageOf(t)[i] = t[i]
  BY DEF UsageOf, OncePerDevice
<1>4. \A i \in DOMAIN UsageOf(t) :
        UsageOf(t)[i] # NoAnswer /\ UsageOf(t)[i].usage \in Usages \cup {NoAnswer}
  BY <1>2, <1>3 DEF IsTable
<1>5. /\ FirstOf(UsageOf(t), DOMAIN UsageOf(t)) \in DOMAIN UsageOf(t)
      /\ \A i \in DOMAIN UsageOf(t) : ~Fuller(UsageOf(t)[i], Fullest)
  BY <1>1, <1>2, FirstIsFullest DEF Fullest
<1> DEFINE verdicts == SpaceFindings(shown.mounts)
           worst == {i \in DOMAIN verdicts : verdicts[i] = Largest(Range(verdicts))}
<1>6. DOMAIN verdicts = DOMAIN shown.mounts /\ Range(verdicts) \subseteq Verdict
  BY DEF SpaceFindings, SpaceVerdict, Verdict, Range
<1> HIDE DEF verdicts
<1>7. Range(verdicts) # {}
  BY <1>6 DEF Range
<1>8. Largest(Range(verdicts)) \in Range(verdicts)
  BY <1>6, <1>7, WorstExists
<1>9. worst # {} /\ worst \subseteq DOMAIN UsageOf(t)
  BY <1>1, <1>6, <1>8 DEF Range
<1>10. FirstOf(shown.mounts, worst) \in DOMAIN shown.mounts
  BY <1>1, <1>2, <1>9, FirstIsFullest
<1>11. Headline = shown.mounts[FirstOf(shown.mounts, worst)]
  BY DEF Headline, verdicts
<1>12. \E i \in DOMAIN shown.mounts : Fullest = shown.mounts[i]
  BY <1>1, <1>5 DEF Fullest
<1>13. \E i \in DOMAIN shown.mounts : Headline = shown.mounts[i]
  BY <1>10, <1>11
<1> QED
  BY <1>1, <1>4, <1>5, <1>12, <1>13

LEMMA TablesAgree == TableInv => TasksAgree
<1> SUFFICES ASSUME TableInv PROVE TasksAgree
  OBVIOUS
<1> DEFINE found == CausesFound(Fullest.usage, shown.deleted, shown.logs, shown.dirs)
<1>1. ASSUME Cause # "none"
      PROVE  /\ Loaded /\ DOMAIN shown.mounts # {}
             /\ found \subseteq 1..5 /\ Names(Cause, Fullest.usage, found)
  <2>1. /\ Loaded /\ DOMAIN shown.mounts # {}
        /\ Cause = DiagnoseFull(Fullest, shown.deleted, shown.logs, shown.dirs)
    BY <1>1 DEF Cause
  <2> QED
    BY <2>1, Diagnosed
<1>2. ASSUME NEW i \in 1..5, Cause = CauseOrder[i]
      PROVE  Fullest.usage # NoAnswer /\ i \in found /\ \A j \in found : i <= j
  <2>1. Cause \notin {"undetermined", "not full", "none"}
    BY <1>2, PlacesDiffer
  <2>2. found \subseteq 1..5 /\ Names(Cause, Fullest.usage, found)
    BY <1>1, <2>1
  <2> HIDE DEF found
  <2>3. PICK k \in found : Cause = CauseOrder[k] /\ \A j \in found : k <= j
    BY <2>1, <2>2 DEF Names
  <2>4. k = i
    BY <1>2, <2>2, <2>3, PlacesDiffer
  <2> QED
    BY <2>1, <2>2, <2>3, <2>4 DEF Names
<1>3. \A i \in 1..5 : i \in found <=>
        Supports(Fullest.usage, shown.deleted, shown.logs, shown.dirs, CauseOrder[i])
  BY Places DEF CausesFound
<1> HIDE DEF found
<1>4. ASSUME Cause = "not full"
      PROVE  /\ \A i \in DOMAIN shown.mounts : shown.mounts[i].usage # NoAnswer =>
                    ~UsedAtLeast(shown.mounts[i].usage, SPACE_WARN_PCT)
             /\ SpaceVerdict(Headline) \in {Ok, Warn, Unknown}
             /\ SpaceVerdict(Headline) = Warn => Tight(Headline.usage)
  <2>1. /\ Loaded /\ DOMAIN shown.mounts # {}
        /\ found \subseteq 1..5 /\ Names(Cause, Fullest.usage, found)
    BY <1>1, <1>4
  <2>2. Fullest.usage # NoAnswer /\ ~IsFull(Fullest.usage)
    <3>1. \A i \in found : Cause # CauseOrder[i]
      BY <1>4, <2>1, PlacesDiffer
    <3> QED
      BY <1>4, <2>1, <3>1 DEF Names
  <2>3. ~UsedAtLeast(Fullest.usage, SPACE_WARN_PCT)
    BY <2>2 DEF IsFull
  <2>4. ASSUME NEW i \in DOMAIN shown.mounts, shown.mounts[i].usage # NoAnswer
        PROVE  ~UsedAtLeast(shown.mounts[i].usage, SPACE_WARN_PCT)
    <3>1. /\ shown.mounts[i].usage \in Usages /\ Fullest.usage \in Usages
          /\ ~Fuller(shown.mounts[i], Fullest)
      BY <2>1, <2>2, <2>4, DisplayedMounts
    <3>2. SPACE_WARN_PCT \in Nat \ {0}
      BY DEF SPACE_WARN_PCT
    <3> QED
      BY <2>2, <2>3, <2>4, <3>1, <3>2, AboveLimit
  <2>5. PICK i \in DOMAIN shown.mounts : Headline = shown.mounts[i]
    BY <2>1, DisplayedMounts
  <2>6. CASE Headline.usage = NoAnswer
    BY <2>4, <2>6 DEF SpaceVerdict, Unknown, Warn
  <2>7. CASE Headline.usage # NoAnswer
    <3>1. ~UsedAtLeast(Headline.usage, SPACE_WARN_PCT) /\ Headline.usage \in Usages
      BY <2>1, <2>4, <2>5, <2>7, DisplayedMounts
    <3>2. ~UsedAtLeast(Headline.usage, SPACE_CRITICAL_PCT)
      <4> DEFINE u == Headline.usage
                 all == Used(u) + u.available
      <4>1. Used(u) \in Nat /\ all \in Nat
        BY <3>1 DEF Usages, Used
      <4>2. all = 0 \/ ~(100 * Used(u) >= 90 * all)
        BY <3>1 DEF UsedAtLeast, SPACE_WARN_PCT
      <4>3. UsedAtLeast(u, SPACE_CRITICAL_PCT) => all # 0 /\ 100 * Used(u) >= 95 * all
        BY DEF UsedAtLeast, SPACE_CRITICAL_PCT
      <4> HIDE DEF u, all
      <4> QED
        BY <4>1, <4>2, <4>3 DEF u
    <3> QED
      BY <2>4, <2>7, <3>1, <3>2 DEF SpaceVerdict, Unknown, Ok, Warn, Critical
  <2> QED
    BY <2>4, <2>6, <2>7
<1>5. ASSUME Cause \in {"logs", "large directories", "reserved for root"}, shown.deleted # NoAnswer
      PROVE  DeletedVerdict(shown.deleted) = Ok
  <2>1. PICK i \in {3, 4, 5} : Cause = CauseOrder[i]
    <3>1. /\ CauseOrder[3] = "logs" /\ CauseOrder[4] = "large directories"
          /\ CauseOrder[5] = "reserved for root"
      BY DEF CauseOrder
    <3> QED
      BY <1>5, <3>1
  <2>2. 2 \notin found
    BY <1>2, <2>1
  <2>3. ~Supports(Fullest.usage, shown.deleted, shown.logs, shown.dirs, "deleted files")
    <3>1. CauseOrder[2] = "deleted files"
      BY DEF CauseOrder
    <3>2. 2 \in found <=>
            Supports(Fullest.usage, shown.deleted, shown.logs, shown.dirs, CauseOrder[2])
      BY <1>3
    <3> QED
      BY <2>2, <3>1, <3>2
  <2>4. ~(HeldBytes(shown.deleted) >= DELETED_HELD_WARN_BYTES)
    BY <1>5, <2>3 DEF Supports
  <2> QED
    BY <2>4 DEF DeletedVerdict
<1>6. ASSUME Cause = "logs", LogMount = Fullest PROVE LogVerdict(shown.logs, LogMount) = Warn
  <2>1. 3 \in 1..5 /\ Cause = CauseOrder[3]
    BY <1>6 DEF CauseOrder
  <2>2. 3 \in found /\ Fullest.usage # NoAnswer
    BY <1>2, <2>1
  <2>3. Supports(Fullest.usage, shown.deleted, shown.logs, shown.dirs, "logs")
    BY <1>3, <1>6, <2>1, <2>2
  <2>4. ShareAtLeast(LogBytes(shown.logs), Fullest.usage, LOG_SHARE_WARN_PCT)
    BY <2>3 DEF Supports
  <2>5. Fullest # NoAnswer
    <3>1. Cause # "none"
      BY <1>6
    <3> QED
      BY <1>1, <3>1, DisplayedMounts
  <2> QED
    BY <1>6, <2>2, <2>4, <2>5 DEF LogVerdict
<1> QED
  BY <1>4, <1>5, <1>6 DEF TasksAgree

\* Two tasks that look at the same reports never contradict each other, whatever is
\* mounted and whatever order the reports arrive in (ui/screens/storage.rs).
THEOREM TasksDoNotContradict == Spec => []TasksAgree
  BY TableInit, TableNext, TablesAgree, PTL DEF Spec

---------------------------------------------------------------------------------
(* What looks healthy                                                              *)

\* A drive that says it is failing says something.
LEMMA FailingIsSomething ==
    ASSUME NEW drive, drive.kind \in {"sata", "nvme"}, NEW said,
           Failing(Parsed(drive, said))
    PROVE  ~Nothing(drive, Parsed(drive, said))
<1>1. CASE drive.kind = "sata"
  <2>1. NoAnswer # FALSE
    BY AbsenceAssumption
  <2> QED
    BY <1>1, <2>1 DEF Nothing, Failing
<1>2. CASE drive.kind = "nvme"
  <2>1. said["critical_warning"] # NoAnswer
    BY <1>2, AbsenceAssumption DEF Parsed, Failing
  <2>2. Parsed(drive, said).attributes = NvmeAttributes(said)
    BY <1>2 DEF Parsed
  <2>3. NvmeAttributes(said) # {}
    BY <2>1 DEF NvmeAttributes, NVME_FIELDS
  <2> QED
    BY <2>2, <2>3 DEF Nothing
<1> QED
  BY <1>1, <1>2

\* A drive of which nothing is known.
Unheard(drive, why, raw) ==
    [drive |-> drive, availability |-> why, healthy |-> NoAnswer, attributes |-> {}, raw |-> raw]

SaysFailing(drive, raw) ==
    raw # NoAnswer /\ raw.spawned /\ ~raw.denied /\ Failing(Parsed(drive, raw.said))

LEMMA VerdictsDiffer ==
    /\ Unknown \notin {Ok, Warn, Critical}
    /\ Ok \notin {Warn, Critical}
    /\ Warn # Critical
  BY DEF Unknown, Ok, Warn, Critical

LEMMA UnheardIsUnknown ==
    ASSUME NEW drive, NEW raw, NEW why \in {"not installed", "unsupported", "needs privilege",
                                            "parse failed"},
           ~SaysFailing(drive, raw)
    PROVE  DriveIsHeard(Unheard(drive, why, raw))
<1> DEFINE d == Unheard(drive, why, raw)
<1>1. d.raw = raw /\ d.drive = drive /\ d.availability = why
  BY DEF Unheard
<1> HIDE DEF d
<1>2. DriveVerdict(d) = Unknown
  BY <1>1 DEF DriveVerdict
<1> QED
  BY <1>1, <1>2, VerdictsDiffer DEF DriveIsHeard, SaysFailing, d

\* What read_sata and read_nvme return of a drive whose tool gave an output.
LEMMA DriveHeard ==
    ASSUME NEW drive, drive.kind \in {"sata", "nvme"}, NEW present, NEW output,
           output # NoAnswer
    PROVE  DriveIsHeard(ReadDrive(drive, present, output))
<1> DEFINE d == ReadDrive(drive, present, output)
           parsed == Parsed(drive, output.said)
           heard == [drive |-> drive, availability |-> "ok", healthy |-> parsed.healthy,
                     attributes |-> parsed.attributes, raw |-> output]
<1>1. \/ d \in {Unheard(drive, "not installed", NoAnswer), Unheard(drive, "unsupported", NoAnswer)}
      \/ output.denied /\ d = Unheard(drive, "needs privilege", output)
      \/ /\ ~output.spawned \/ Nothing(drive, parsed)
         /\ d = Unheard(drive, "parse failed", output)
      \/ ~output.denied /\ output.spawned /\ ~Nothing(drive, parsed) /\ d = heard
  BY DEF ReadDrive, Unheard
<1> SUFFICES DriveIsHeard(d)
  OBVIOUS
<1> HIDE DEF d
<1>2. CASE d \in {Unheard(drive, "not installed", NoAnswer), Unheard(drive, "unsupported", NoAnswer)}
  BY <1>2, UnheardIsUnknown DEF SaysFailing
<1>3. CASE output.denied /\ d = Unheard(drive, "needs privilege", output)
  BY <1>3, UnheardIsUnknown DEF SaysFailing
<1>4. CASE /\ ~output.spawned \/ Nothing(drive, parsed)
           /\ d = Unheard(drive, "parse failed", output)
  <2>1. Nothing(drive, parsed) => ~Failing(parsed)
    BY FailingIsSomething
  <2> QED
    BY <1>4, <2>1, UnheardIsUnknown DEF SaysFailing
<1>5. CASE ~output.denied /\ output.spawned /\ ~Nothing(drive, parsed) /\ d = heard
  <2> HIDE DEF parsed
  <2>1. /\ d.raw = output /\ d.drive = drive /\ d.availability = "ok"
        /\ d.healthy = parsed.healthy /\ d.attributes = parsed.attributes
    BY <1>5
  <2>2. DriveVerdict(d) = Critical <=> Failing(parsed)
    BY <2>1, VerdictsDiffer DEF DriveVerdict, Failing
  <2>3. DriveVerdict(d) = Ok => \A a \in parsed.attributes : ~a.concern
    BY <2>1, VerdictsDiffer DEF DriveVerdict, Failing
  <2>4. parsed = Parsed(d.drive, d.raw.said)
    BY <2>1 DEF parsed
  <2> QED
    BY <1>5, <2>1, <2>2, <2>3, <2>4 DEF DriveIsHeard
<1> QED
  BY <1>1, <1>2, <1>3, <1>4, <1>5

LEMMA WorstIsThere ==
    ASSUME NEW S, S \subseteq {Warn, Critical}, S # {}
    PROVE  Largest(S) \in {Warn, Critical}
<1>1. CASE Critical \in S
  <2>1. \A y \in S : y <= Critical
    BY DEF Warn, Critical
  <2> QED
    BY <1>1, <2>1 DEF Largest
<1>2. CASE S = {Warn}
  <2>1. \A y \in S : y <= Warn
    BY <1>2 DEF Warn
  <2> QED
    BY <1>2, <2>1 DEF Largest
<1> QED
  BY <1>1, <1>2

\* A badge that says all is well has no warning under it.
LEMMA BadgeHidesNothing ==
    ASSUME NEW filesystems, NEW errors, NEW arrays,
           FsHealthBadge(filesystems, errors, arrays) = Ok,
           NEW v \in FilesystemVerdicts(filesystems, errors, arrays)
    PROVE  v \notin {Warn, Critical}
<1> DEFINE verdicts == FilesystemVerdicts(filesystems, errors, arrays)
           problems == {w \in verdicts : w >= Warn}
<1>1. verdicts \subseteq {Unknown, Ok, Warn, Critical}
  BY DEF FilesystemVerdicts, KernelVerdict
<1>2. problems \subseteq {Warn, Critical}
  BY <1>1 DEF Unknown, Ok, Warn, Critical
<1>3. problems = {}
  <2>1. Largest(problems) # Ok \/ problems = {}
    BY <1>2, WorstIsThere DEF Ok, Warn, Critical
  <2> QED
    BY <2>1 DEF FsHealthBadge, Ok
<1> QED
  BY <1>3 DEF Warn, Critical

ComfortInv ==
    /\ ShownTyped
    /\ shown["drives"] # NoAnswer => \A drive \in DOMAIN shown["drives"] :
            DriveIsHeard(shown["drives"][drive])
    /\ shown["mounts"] # NoAnswer =>
        /\ DOMAIN shown["filesystems"] = DOMAIN shown["mounts"]
        /\ \A i \in DOMAIN shown["mounts"] :
                shown["filesystems"][i].read_only = shown["mounts"][i].ro

LEMMA ComfortInit == Init => ComfortInv
<1> SUFFICES ASSUME Init PROVE ComfortInv
  OBVIOUS
<1>1. ShownTyped
  BY DEF Init, ShownTyped, Unread, Field
<1>2. shown["drives"] = NoAnswer /\ shown["mounts"] = NoAnswer
  BY DEF Init, Unread
<1> QED
  BY <1>1, <1>2 DEF ComfortInv

LEMMA ComfortNext == ComfortInv /\ [Next]_vars => ComfortInv'
<1> SUFFICES ASSUME ComfortInv, [Next]_vars PROVE ComfortInv'
  OBVIOUS
<1>1. CASE UNCHANGED shown
  BY <1>1 DEF ComfortInv, ShownTyped
<1>2. ASSUME NEW mdstat, NEW recorded, LoadFast(mdstat, recorded) PROVE ComfortInv'
  <2>1. ShownTyped' /\ shown'["drives"] = shown["drives"]
    BY <1>2, LoadOthers DEF ComfortInv, Field
  <2>2. shown'["filesystems"] = Health(UsageOf(table), recorded)
        /\ shown'["mounts"] = UsageOf(table)
    BY <1>2 DEF LoadFast, ComfortInv, ShownTyped, Field
  <2>3. /\ DOMAIN shown'["filesystems"] = DOMAIN shown'["mounts"]
        /\ \A i \in DOMAIN shown'["mounts"] :
                shown'["filesystems"][i].read_only = shown'["mounts"][i].ro
    BY <2>2 DEF Health
  <2> QED
    BY <2>1, <2>3 DEF ComfortInv
<1>3. CASE Refresh
  <2>1. /\ ShownTyped'
        /\ shown'["drives"] = NoAnswer /\ shown'["mounts"] = NoAnswer
    BY <1>3, RefreshClears DEF Refresh, Unread
  <2> QED
    BY <2>1 DEF ComfortInv
<1>4. ASSUME NEW report \in {"deleted", "logs", "dirs", "errors"}, NEW value, Set(report, value)
      PROVE  ComfortInv'
  BY <1>4, SetOne DEF ComfortInv, Field
<1>5. ASSUME NEW present, NEW outputs \in Outputs, AskDrives(present, outputs)
      PROVE  ComfortInv'
  <2> DEFINE value == [d \in Drives(Found) |-> ReadDrive(d, present, outputs[d.kind])]
  <2>1. \A d \in Drives(Found) : d.kind \in {"sata", "nvme"}
    BY DEF Drives
  <2>2. \A d \in DOMAIN value : DriveIsHeard(value[d])
    BY <2>1, DriveHeard, AbsenceAssumption
  <2>3. Set("drives", value)
    BY <1>5 DEF AskDrives
  <2> HIDE DEF value
  <2>4. /\ ShownTyped' /\ shown'["drives"] = value
        /\ shown'["mounts"] = shown["mounts"] /\ shown'["filesystems"] = shown["filesystems"]
    BY <2>3, SetOne DEF ComfortInv, Field
  <2> QED
    BY <2>2, <2>4 DEF ComfortInv
<1>6. CASE HeldStep
  BY <1>1, <1>4, <1>6 DEF HeldStep, BeginHeld, OpenFds, ReadLink, ReadSize, EndHeld
<1>7. ASSUME NEW footprint, MeasureLogs(footprint) PROVE ComfortInv'
  BY <1>4, <1>7 DEF MeasureLogs
<1>8. ASSUME NEW d, Navigate(d) \/ \E entries : EndScan(d, entries) PROVE ComfortInv'
  BY <1>4, <1>8 DEF Navigate, EndScan
<1>9. ASSUME NEW present, NEW outcomes, SearchKernelLog(present, outcomes) PROVE ComfortInv'
  BY <1>4, <1>9 DEF SearchKernelLog
<1> QED
  BY <1>1, <1>2, <1>3, <1>5, <1>6, <1>7, <1>8, <1>9 DEF Next, Write, Unlink, Close, StartScan, vars

LEMMA ComfortHolds == ComfortInv => NoFalseComfort
<1> SUFFICES ASSUME ComfortInv PROVE NoFalseComfort
  OBVIOUS
<1>1. shown.drives # NoAnswer =>
        \A drive \in DOMAIN shown.drives : DriveIsHeard(shown.drives[drive])
  BY DEF ComfortInv
<1>2. ASSUME FsHealthBadge(shown.filesystems, shown.errors, shown.arrays) = Ok
      PROVE  /\ \A i \in DOMAIN shown.arrays : "_" \notin ToSet(shown.arrays[i].state)
             /\ Loaded => \A i \in DOMAIN shown.mounts : ~shown.mounts[i].ro
             /\ shown.errors = NoAnswer \/ SearchBrokenOff \/ shown.errors.hits = <<>>
  <2> DEFINE verdicts == FilesystemVerdicts(shown.filesystems, shown.errors, shown.arrays)
  <2>1. Warn \notin verdicts /\ Critical \notin verdicts
    BY <1>2, BadgeHidesNothing
  <2>2. ASSUME NEW i \in DOMAIN shown.arrays PROVE "_" \notin ToSet(shown.arrays[i].state)
    <3>1. shown.arrays[i] \in ToSet(shown.arrays)
      BY DEF ToSet
    <3>2. Degraded(shown.arrays[i]) => Critical \in verdicts
      BY <3>1 DEF FilesystemVerdicts
    <3> QED
      BY <2>1, <3>2 DEF Degraded
  <2>3. ASSUME Loaded, NEW i \in DOMAIN shown.mounts PROVE ~shown.mounts[i].ro
    <3>1. shown.filesystems[i] \in Range(shown.filesystems)
          /\ shown.filesystems[i].read_only = shown.mounts[i].ro
      BY <2>3 DEF ComfortInv, Range, Loaded
    <3>2. shown.filesystems[i].read_only => Critical \in verdicts
      BY <3>1 DEF FilesystemVerdicts
    <3> QED
      BY <2>1, <3>1, <3>2
  <2>4. ASSUME shown.errors # NoAnswer, ~SearchBrokenOff, shown.errors.hits # <<>>
        PROVE  FALSE
    <3>1. KernelVerdict(shown.errors) = Warn
      BY <2>4 DEF KernelVerdict, Clean, SearchBrokenOff
    <3>2. Warn \in verdicts
      BY <2>4, <3>1 DEF FilesystemVerdicts
    <3> QED
      BY <2>1, <3>2
  <2> QED
    BY <2>2, <2>3, <2>4
<1> QED
  BY <1>1, <1>2 DEF NoFalseComfort, BadgeIsEarned

\* A drive that was not heard, a missing member of an array, a read-only filesystem
\* and a line in the kernel log never look healthy, but for a line that was found
\* before the search was broken off (analyze/storage.rs).
THEOREM NothingIllLooksHealthy == Spec => []NoFalseComfort
  BY ComfortInit, ComfortNext, ComfortHolds, PTL DEF Spec

=================================================================================
