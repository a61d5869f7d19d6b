-------------------------------- MODULE ProcScan --------------------------------
(* The process list: ProcSnapshot::read_cached, read_one and the cache they keep  *)
(* between samples (src/collect/process.rs).  The kernel side is external: while  *)
(* the files of one process are read one after the other, processes start, change *)
(* their program or owner, exit and have their pids used again.                   *)
(* A process is identified by its start time, as in /proc/<pid>/stat.  A command  *)
(* line, a name or an owner is represented by the image it was read from: the     *)
(* process, and how often it had changed its program or owner by then; an I/O     *)
(* counter, which goes on through such a change, by the process alone.            *)
EXTENDS Naturals

CONSTANTS
    Pid,
    MaxStart,       \* bound: number of processes ever started
    MaxExec         \* bound: number of changes of one process

ASSUME BoundAssumption == MaxStart \in Nat /\ MaxExec \in Nat

VARIABLES
    occupant,   \* kernel: start time of the process that has the pid, 0 if none
    started,    \* kernel: number of processes started so far
    changes,    \* kernel: how often the process of a pid has changed since its start
    readable,   \* kernel: running processes whose io file the user may read
    pc,         \* "idle" between samples; "next" entry, or "cmd", "owner" or "io" of pid
    todo,       \* listed pids not yet looked at
    pid, stat, cmd, owner,  \* read_one: its pid, stat, command line and owner
    procs,      \* the snapshot under construction
    snap,       \* the last result of read_cached (empty: None)
    identity,   \* ProcCache.identity
    denied,     \* ProcCache.io_denied
    refused,    \* history: running processes whose io file was opened in vain
    stayed,     \* history: processes that have run since /proc was listed
    before,     \* history: pids in the result of the last scan
    outdated    \* history: running processes that changed after they were first looked at

kernel == <<occupant, started, changes, readable>>
reading == <<pid, stat, cmd, owner>>
cache == <<identity, denied>>
history == <<refused, stayed, before, outdated>>
vars == <<kernel, pc, todo, reading, procs, snap, cache, history>>

Start == 1 .. MaxStart
Image == [of : 0 .. MaxStart, nth : 0 .. MaxExec]
Nobody == [of |-> 0, nth |-> 0]
Absent == [start |-> 0, cmd |-> Nobody, owner |-> Nobody, io |-> 0]
Empty == [p \in Pid |-> Absent]
Uncached == [start |-> 0, cmd |-> Nobody, owner |-> Nobody]
Identity == [start : 0 .. MaxStart, cmd : Image, owner : Image]
Info == [start : 0 .. MaxStart, cmd : Image, owner : Image, io : 0 .. MaxStart]

TypeOK ==
    /\ occupant \in [Pid -> 0 .. MaxStart]
    /\ started \in 0 .. MaxStart
    /\ changes \in [Pid -> 0 .. MaxExec]
    /\ readable \in SUBSET Start
    /\ pc \in {"idle", "next", "cmd", "owner", "io"}
    /\ todo \in SUBSET Pid
    /\ stat \in Image /\ cmd \in Image /\ owner \in Image
    /\ pc \in {"cmd", "owner", "io"} => pid \in Pid /\ stat.of \in Start
    /\ pc \in {"owner", "io"} => cmd.of \in Start
    /\ procs \in [Pid -> Info]
    /\ snap \in [Pid -> Info]
    /\ identity \in [Pid -> Identity]
    /\ denied \in SUBSET Pid
    /\ refused \in SUBSET Start
    /\ stayed \in SUBSET Start
    /\ before \in SUBSET Pid
    /\ outdated \in SUBSET Start

Init ==
    /\ occupant = [p \in Pid |-> 0]
    /\ started = 0 /\ readable = {}
    /\ changes = [p \in Pid |-> 0]
    /\ pc = "idle" /\ todo = {}
    /\ pid = 0 /\ stat = Nobody /\ cmd = Nobody /\ owner = Nobody
    /\ procs = Empty /\ snap = Empty
    /\ identity = [p \in Pid |-> Uncached]
    /\ denied = {}
    /\ refused = {} /\ stayed = {} /\ before = {} /\ outdated = {}

---------------------------------------------------------------------------------
(* The kernel *)

\* Another user's process does not show its io file.
Fork(p) ==
    /\ occupant[p] = 0
    /\ started < MaxStart
    /\ started' = started + 1
    /\ occupant' = [occupant EXCEPT ![p] = started']
    /\ readable' \in {readable, readable \cup {started'}}
    /\ UNCHANGED <<changes, pc, todo, reading, procs, snap, cache, history>>

\* What read_one would find in the files of a pid.
Current(p) == [of |-> occupant[p], nth |-> changes[p]]

\* read_one knows the process of p from this scan or an earlier one.
LookedAt(p) ==
    \/ identity[p].start = occupant[p]
    \/ pc \in {"cmd", "owner"} /\ pid = p /\ stat.of = occupant[p]

\* A process runs another program, or goes on as another user: its command line,
\* its name and its owner are others, and its io file may open or close to the user.
Exec(p) ==
    /\ occupant[p] # 0
    /\ changes[p] < MaxExec
    /\ changes' = [changes EXCEPT ![p] = @ + 1]
    /\ readable' \in {readable \ {occupant[p]}, readable \cup {occupant[p]}}
    /\ outdated' = IF LookedAt(p) THEN outdated \cup {occupant[p]} ELSE outdated
    /\ UNCHANGED <<occupant, started, pc, todo, reading, procs, snap, cache, refused, stayed, before>>

Exit(p) ==
    /\ occupant[p] # 0
    /\ occupant' = [occupant EXCEPT ![p] = 0]
    /\ changes' = [changes EXCEPT ![p] = 0]
    /\ readable' = readable \ {occupant[p]}
    /\ refused' = refused \ {occupant[p]}
    /\ stayed' = stayed \ {occupant[p]}
    /\ outdated' = outdated \ {occupant[p]}
    /\ UNCHANGED <<started, pc, todo, reading, procs, snap, cache, before>>

---------------------------------------------------------------------------------
(* read_cached *)

Live == {p \in Pid : occupant[p] # 0}

\* read_dir("/proc"): without it there is no snapshot, and the cache is kept.
ListFails ==
    /\ pc = "idle"
    /\ snap' = Empty
    /\ UNCHANGED <<kernel, pc, todo, reading, procs, cache, history>>

List ==
    /\ pc = "idle"
    /\ pc' = "next"
    /\ todo' = Live
    /\ stayed' = {occupant[p] : p \in Live}
    /\ UNCHANGED <<kernel, reading, procs, snap, cache, refused, before, outdated>>

\* Mutant: a process that is gone ends the listing, as in "read_one(..)?".
ReadStatGivesUp(p) ==
    /\ pc = "next" /\ p \in todo
    /\ IF occupant[p] = 0
       THEN todo' = {} /\ UNCHANGED <<pc, reading>>
       ELSE /\ todo' = todo \ {p}
            /\ pc' = "cmd"
            /\ pid' = p /\ stat' = Current(p) /\ cmd' = Nobody /\ owner' = Nobody
    /\ UNCHANGED <<kernel, procs, snap, cache, history>>

\* read_one, first half of it: stat.  A process that is gone by now is left out.
ReadStat(p) ==
    /\ pc = "next" /\ p \in todo
    /\ todo' = todo \ {p}
    /\ \/ /\ occupant[p] = 0
          /\ UNCHANGED <<pc, reading>>
       \/ /\ occupant[p] # 0
          /\ pc' = "cmd"
          /\ pid' = p /\ stat' = Current(p) /\ cmd' = Nobody /\ owner' = Nobody
    /\ UNCHANGED <<kernel, procs, snap, cache, history>>

\* Mutant: the cache is looked up by pid alone.
KnownByPid == identity[pid].start # 0

\* The cache knows this pid with this start time.
Known == identity[pid].start = stat.of

\* Mutant: a process that is gone or has no command line is called nothing.
NoFallback == {Current(pid)}

\* What the command line is taken from: the name in stat for want of a better.
CommandSources == {stat} \cup {c \in {Current(pid)} : c.of # 0}

\* The command line: remembered with the owner, or read from whatever process has
\* the pid now.
ReadCmd ==
    /\ pc = "cmd"
    /\ \/ /\ Known
          /\ cmd' = identity[pid].cmd
          /\ owner' = identity[pid].owner
          /\ pc' = "io"
       \/ /\ ~Known
          /\ cmd' \in CommandSources
          /\ pc' = "owner"
          /\ UNCHANGED owner
    /\ UNCHANGED <<kernel, todo, pid, stat, procs, snap, cache, history>>

\* uid_of: the owner of the directory of whatever process has the pid by now, or
\* root's number for want of one.
OwnerNow == IF occupant[pid] = 0 THEN Nobody ELSE Current(pid)

\* The owner, and both go into the cache under the start time of stat.
ReadOwner ==
    /\ pc = "owner"
    /\ owner' = OwnerNow
    /\ identity' = [identity EXCEPT ![pid] = [start |-> stat.of, cmd |-> cmd, owner |-> owner']]
    /\ pc' = "io"
    /\ UNCHANGED <<kernel, todo, pid, stat, cmd, procs, snap, denied, history>>

MayRead == occupant[pid] \in readable

\* Mutant: a refused file is opened again in the next sample.
DeniedForgotten == denied

\* io_denied after the io file was tried, and what it said.
DeniedNow == IF MayRead THEN denied ELSE denied \cup {pid}
IoOf == IF pid \notin denied /\ MayRead THEN occupant[pid] ELSE 0

\* The io file, unless the pid was refused before; the process is listed with or
\* without it.
ReadIo ==
    /\ pc = "io"
    /\ denied' = DeniedNow
    /\ refused' = IF pid \in denied \/ MayRead THEN refused
                  ELSE refused \cup ({occupant[pid]} \ {0})
    /\ procs' = [procs EXCEPT ![pid] = [start |-> stat.of, cmd |-> cmd, owner |-> owner, io |-> IoOf]]
    /\ pc' = "next"
    /\ pid' = 0 /\ stat' = Nobody /\ cmd' = Nobody /\ owner' = Nobody
    /\ UNCHANGED <<kernel, todo, snap, identity, stayed, before, outdated>>

Listed(shot) == {p \in Pid : shot[p].start # 0}

\* Mutant: entries are never removed from the cache.
RetainAll(live) ==
    UNCHANGED <<identity, denied>>

\* ProcCache::retain
Retain(live) ==
    /\ identity' = [p \in Pid |-> IF p \in live THEN identity[p] ELSE Uncached]
    /\ denied' = denied \cap live

\* Every entry has been looked at.
EndScan ==
    /\ pc = "next" /\ todo = {}
    /\ Retain(Listed(procs))
    /\ snap' = procs
    /\ procs' = Empty
    /\ before' = Listed(procs)
    /\ stayed' = {}
    /\ pc' = "idle"
    /\ UNCHANGED <<kernel, todo, reading, refused, outdated>>

Next ==
    \/ \E p \in Pid : Fork(p) \/ Exec(p) \/ Exit(p) \/ ReadStat(p)
    \/ ListFails \/ List \/ ReadCmd \/ ReadOwner \/ ReadIo \/ EndScan

Spec == Init /\ [][Next]_vars

---------------------------------------------------------------------------------
(* Correctness *)

\* What is kept under the start time of a process that is still there comes from
\* that process, and shows it as it is unless it changed after it was looked at.
OwnAt(p, kept) ==
    /\ kept.cmd.of = occupant[p] /\ kept.owner.of = occupant[p]
    /\ occupant[p] \notin outdated => kept.cmd = Current(p) /\ kept.owner = Current(p)

\* A listed process that is still there is never given the command line, the owner
\* or the I/O counter of another process, whatever happened to its pid before and
\* while the files were read.  Command line and owner are its present ones, except
\* for a process that ran another program or changed its owner after it was looked
\* at first: the cache goes on showing the old ones for as long as it lives
\* (process.rs:119-136, against "a command line does not change", process.rs:50).
OwnCommand ==
    \A p \in Pid : snap[p].start # 0 /\ snap[p].start = occupant[p] =>
        /\ OwnAt(p, snap[p])
        /\ snap[p].io \in {0, occupant[p]}

\* "Once refused, never tried again" (process.rs:147): no process has its io file
\* opened a second time after it was refused.
AskedOnce ==
    pc = "io" /\ pid \notin denied => occupant[pid] \notin refused

\* A process that runs from the listing of /proc to the end of the scan is in the
\* snapshot, whichever others come and go meanwhile.
Complete ==
    [][EndScan => \A p \in Pid : occupant[p] \in stayed => snap'[p].start = occupant[p]]_vars

\* The refusal met under a pid outlives its process by one scan at most: a process
\* is left unasked only when its pid was in the result of the scan before.
NewcomersAreAsked ==
    pc = "io" /\ pid \in denied => pid \in before

=================================================================================
