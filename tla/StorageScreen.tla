------------------------------ MODULE StorageScreen ------------------------------
(* The Storage screen: StorageState (src/app/storage.rs), the part of the event  *)
(* loop that feeds it (App::poll_collectors, src/app/runtime.rs) and the keys    *)
(* that navigate it (src/app/state.rs), on top of the job manager's contract     *)
(* AtomicJobs.  One turn of the event loop is Drain, Poll, then a key or a       *)
(* timeout; collector threads answer at any moment in between.                   *)
(* Paths are abstract: a set of directories, the parent of each and the mount    *)
(* point of the filesystem it lies on.  A report's contents do not matter here,  *)
(* only whether it is there and when it was measured.                            *)
EXTENDS Naturals, Sequences, FiniteSets, Functions

CONSTANTS
    Dir,            \* absolute paths of directories
    Root,           \* "/"
    NoDir,          \* no path, no scan, no filesystem
    ParentOf,       \* ParentOf[d], for every directory but Root
    MountOf,        \* MountOf[d]: mount point of the filesystem d lies on
    Task,           \* the tasks of the screen that are considered
    Bounded         \* jobs that always end: no external command without timeout

(* StorageState::jobs_for: the reports a task needs, and the tasks that scan *)
ReportsFor(t) ==
    CASE t = "deleted-held" -> {"deleted"}
      [] t = "logs" -> {"logs"}
      [] t = "drive-failing" -> {"drives"}
      [] t = "errors" -> {"errors"}
      [] t = "which-full" -> {"deleted", "logs"}
      [] OTHER -> {}

ScansDir(t) == t \in {"what-fills", "which-full"}

Reports == UNION {ReportsFor(t) : t \in Task}

\* Job::key(): a directory scan is identified by its path.
Key == Dir \cup Reports

ASSUME DirAssumption ==
    /\ Root \in Dir /\ NoDir \notin Key /\ Dir \cap Reports = {}
    /\ ParentOf \in [Dir \ {Root} -> Dir]
    /\ MountOf \in [Dir -> Dir]

ASSUME BoundedAssumption == Bounded \subseteq Key

VARIABLES
    running, measuring, answers, returned, open,    \* the job manager (AtomicJobs)
    pc,         \* the event loop is about to "drain", "poll" or read a "key", or is
                \* "done"
    screen,     \* "Storage" or "Elsewhere"
    task,       \* the selected task of the Storage screen
    loaded,     \* StorageState.loaded
    fullest,    \* StorageState.fullest(): target of the first mount, or NoDir
    dirPath,    \* StorageState.dir_path (NoDir: empty)
    dir,        \* path of StorageState.dir (NoDir: None)
    held        \* reports on hand: deleted, logs, errors are Some, drives_loaded

jobs == <<running, measuring, answers, returned, open>>
store == <<loaded, fullest, dirPath, dir, held>>
vars == <<jobs, pc, screen, task, store>>

J == INSTANCE AtomicJobs

MountPoints == {d \in Dir : MountOf[d] = d}

---------------------------------------------------------------------------------
\* Mutant: the task asks for a scan although one is on display.
JobsNeededAlways(t, h, d, p) ==
    (ReportsFor(t) \ h) \cup {s \in {p} : ScansDir(t)}

\* Jobs of task t given what is on hand (h), the scan (d) and the path (p).
JobsNeeded(t, h, d, p) ==
    (ReportsFor(t) \ h) \cup {s \in {p} : ScansDir(t) /\ d = NoDir}

JobsFor(t) == JobsNeeded(t, held, dir, dirPath)

---------------------------------------------------------------------------------

TypeOK ==
    /\ J!JobsTypeOK
    /\ pc \in {"drain", "poll", "key", "done"}
    /\ screen \in {"Storage", "Elsewhere"}
    /\ task \in Task
    /\ loaded \in BOOLEAN
    /\ fullest \in MountPoints \cup {NoDir}
    /\ dirPath \in Dir \cup {NoDir}
    /\ dir \in Dir \cup {NoDir}
    /\ held \in SUBSET Reports

Init ==
    /\ J!JobsInit
    /\ pc = "drain"
    /\ screen = "Elsewhere"
    /\ task \in Task
    /\ loaded = FALSE /\ fullest = NoDir
    /\ dirPath = NoDir /\ dir = NoDir /\ held = {}

\* A collector thread answers.
Finish(k) ==
    /\ J!Finish(k)
    /\ UNCHANGED <<pc, screen, task, store>>

\* poll_collectors: self.jobs.drain().
Drain ==
    /\ pc = "drain"
    /\ J!Drain
    /\ pc' = "poll"
    /\ UNCHANGED <<screen, task, store>>

\* StorageState::apply for every answer in order: a scan replaces the path being
\* viewed as well as the scan on display, so the last one wins.
ScanAnswers == {i \in DOMAIN returned : returned[i] \in Dir}
LastScan == returned[CHOOSE i \in ScanAnswers : \A j \in ScanAnswers : j <= i]
\* Mutant: an answer that is no scan wipes the scan.
AppliedDirWiped == IF ScanAnswers # {} THEN LastScan ELSE IF returned = <<>> THEN dir ELSE NoDir
AppliedDir == IF ScanAnswers = {} THEN dir ELSE LastScan
\* Mutant: a scan does not bring its path along.
AppliedPathKept == dirPath
AppliedPath == IF ScanAnswers = {} THEN dirPath ELSE LastScan
AppliedHeld == held \cup (Range(returned) \ Dir)

\* Mutant: no default when no filesystem could be read.
StartPathUnset(path, mount) == IF path # NoDir THEN path ELSE mount

\* StorageState::load_fast: the fullest mount is read anew, and is where the
\* directories are first looked at.
StartPath(path, mount) ==
    IF path # NoDir THEN path ELSE IF mount # NoDir THEN mount ELSE Root

\* Mutant: jobs are requested only when the screen is first loaded.
PollOnce ==
    /\ pc = "poll"
    /\ dir' = AppliedDir
    /\ held' = AppliedHeld
    /\ \/ /\ screen # "Storage" \/ loaded
          /\ dirPath' = AppliedPath
          /\ UNCHANGED <<jobs, loaded, fullest>>
       \/ /\ screen = "Storage" /\ ~loaded
          /\ loaded' = TRUE
          /\ \E m \in MountPoints \cup {NoDir} :
                fullest' = m /\ dirPath' = StartPath(AppliedPath, m)
          /\ LET wanted == JobsNeeded(task, held', dir', dirPath')
             IN  \E started \in SUBSET wanted : J!Request(wanted, started)
    /\ pc' = "key"
    /\ UNCHANGED <<screen, task>>

\* The rest of poll_collectors: apply what was drained; on the Storage screen,
\* read the fast data once and request what the selected task lacks.  A thread may
\* fail to be created; the next turn asks again.
Poll ==
    /\ pc = "poll"
    /\ dir' = AppliedDir
    /\ held' = AppliedHeld
    /\ \/ /\ screen # "Storage"
          /\ dirPath' = AppliedPath
          /\ UNCHANGED <<jobs, loaded, fullest>>
       \/ /\ screen = "Storage"
          /\ IF loaded
             THEN dirPath' = AppliedPath /\ UNCHANGED <<loaded, fullest>>
             ELSE /\ loaded' = TRUE
                  /\ \E m \in MountPoints \cup {NoDir} :
                        fullest' = m /\ dirPath' = StartPath(AppliedPath, m)
          /\ LET wanted == JobsNeeded(task, held', dir', dirPath')
             IN  \E started \in SUBSET wanted : J!Request(wanted, started)
    /\ pc' = "key"
    /\ UNCHANGED <<screen, task>>

\* Every thread that is asked for can be created.
PollSucceeds ==
    /\ Poll
    /\ screen = "Storage" => JobsFor(task)' \subseteq running'

---------------------------------------------------------------------------------
(* Keys.  Each is followed by the next turn of the loop. *)

KeyRead == pc = "key" /\ pc' = "drain"

\* No key before the timeout, or one that does not concern this screen's state.
Idle ==
    /\ KeyRead
    /\ UNCHANGED <<jobs, screen, task, store>>

\* Cursor keys, the Home menu and search: to task t of the Storage screen.
Goto(t) ==
    /\ KeyRead
    /\ screen' = "Storage" /\ task' = t
    /\ UNCHANGED <<jobs, store>>

\* q, Esc, t, or a search hit of another screen.
Leave ==
    /\ KeyRead
    /\ screen = "Storage" /\ screen' = "Elsewhere"
    /\ UNCHANGED <<jobs, task, store>>

\* StorageState::descend: also the way up.
Descend(p) ==
    /\ dirPath' = p
    /\ dir' = NoDir
    /\ \E started \in SUBSET {p} : J!Request({p}, started)
    /\ UNCHANGED <<screen, task, loaded, fullest, held>>

Browsing == screen = "Storage" /\ task = "what-fills"

\* Enter on a directory of the scan; a scan lists no other filesystem's entries.
Enter ==
    /\ KeyRead
    /\ Browsing /\ dir # NoDir
    /\ \E d \in Dir \ {Root} :
          /\ ParentOf[d] = dir /\ MountOf[d] = MountOf[dir]
          /\ Descend(d)

\* StorageState::ascend: dir_path.parent(), which "/" (and no path) does not have.
CanAscend == dirPath \in Dir \ {Root}

\* Backspace: one level up; where there is none, or on another task, back Home.
Backspace ==
    /\ KeyRead
    /\ screen = "Storage"
    /\ \/ Browsing /\ CanAscend /\ Descend(ParentOf[dirPath])
       \/ /\ ~(Browsing /\ CanAscend)
          /\ screen' = "Elsewhere"
          /\ UNCHANGED <<jobs, task, store>>

\* r: StorageState::reset keeps the path only.  Jobs in flight are not told.
Refresh ==
    /\ KeyRead
    /\ screen = "Storage"
    /\ loaded' = FALSE /\ fullest' = NoDir
    /\ dir' = NoDir /\ held' = {}
    /\ UNCHANGED <<jobs, screen, task, dirPath>>

UserKey == Idle \/ (\E t \in Task : Goto(t)) \/ Leave \/ Enter \/ Backspace \/ Refresh

\* Ctrl-C anywhere, q on Home: the loop returns and the manager is dropped.
Quit ==
    /\ pc = "key" /\ pc' = "done"
    /\ J!Close
    /\ UNCHANGED <<screen, task, store>>

Next ==
    \/ \E k \in Key : Finish(k)
    \/ Drain
    \/ Poll
    \/ UserKey
    \/ Quit

\* The loop never stops turning (event::poll has a timeout), thread creation does
\* not fail for ever, and jobs of Bounded end.
Fairness ==
    /\ WF_vars(Drain)
    /\ WF_vars(Poll)
    /\ SF_vars(PollSucceeds)
    /\ WF_vars(UserKey)
    /\ \A k \in Bounded : WF_vars(Finish(k))

Spec == Init /\ [][Next]_vars

FairSpec == Spec /\ Fairness

---------------------------------------------------------------------------------
(* Correctness *)

\* The sizes on display are those of the directory the user navigates from: Enter
\* and Backspace start at dir_path, the screen shows the scan.
ShownIsWhereWeAre == dir # NoDir => dir = dirPath

\* A job is started only for the task on the Storage screen, and only when its
\* answer is not on hand: other screens read nothing, nothing is measured twice
\* without a refresh, whatever answers arrive while the user moves about.
StartsOnlyWhatIsNeeded ==
    [][\A k \in running' \ running :
            /\ screen = "Storage"
            /\ \/ k \in ReportsFor(task) /\ k \notin held'
               \/ k = dirPath' /\ ScansDir(task) /\ dir' = NoDir]_vars

\* What was measured stays on display until the user moves or refreshes: no
\* answer, late or of another task, takes it away.
ResultsStay ==
    [][(dir # NoDir /\ dir' = NoDir) \/ ~(held \subseteq held') => pc = "key"]_vars

\* A user who stays with a task sees its answers, provided its jobs end, even when
\* thread creation fails at first and jobs of other tasks never end; pressing r
\* over and over does not prevent it.
TaskGetsAnswered ==
    \A t \in Task : ReportsFor(t) \subseteq Bounded =>
        (<>[](open /\ screen = "Storage" /\ task = t)
            => []<>(screen = "Storage" /\ task = t /\ JobsFor(t) = {}))

\* The path being viewed (storage.rs:27) is moved by the user's keys only.
ViewStaysPut ==
    [][dirPath' # dirPath /\ dirPath # NoDir => pc = "key"]_vars

=================================================================================
