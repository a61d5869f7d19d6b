---------------------------------- MODULE Jobs ----------------------------------
(* The background job manager (src/app/jobs.rs) at the granularity of the code: *)
(* request() starts a thread and only THEN records its key, drain() takes the   *)
(* answers one try_recv at a time, and between any two of these steps collector *)
(* threads may send.  One UI thread calls request and drain.                    *)
(* The branches of request() that change nothing -- the key is already running, *)
(* or the thread cannot be created -- are stuttering steps.                     *)
EXTENDS Naturals, Sequences, Functions

CONSTANTS
    Key,            \* Job::key()
    Bounded         \* keys whose job always ends (no external command without timeout)

ASSUME BoundedAssumption == Bounded \subseteq Key

VARIABLES
    running,        \* running[k]: how often key k stands in Jobs.running
    workers,        \* workers[k]: how many threads are executing a job of key k
    channel,        \* the mpsc channel: keys of the answers sent, oldest first
    pc,             \* where the UI thread is: "idle", "spawned" or "draining"
    pending,        \* the key of the thread just spawned, before it is recorded
    out,            \* drain's local result vector
    returned,       \* what the last drain handed to its caller
    open            \* Jobs has not been dropped

vars == <<running, workers, channel, pc, pending, out, returned, open>>

TypeOK ==
    /\ running \in [Key -> {0, 1}]
    /\ workers \in [Key -> {0, 1}]
    /\ channel \in Seq(Key)
    /\ pc \in {"idle", "spawned", "draining"}
    /\ pending \in SUBSET Key
    /\ out \in Seq(Key)
    /\ returned \in Seq(Key)
    /\ open \in BOOLEAN

Init ==
    /\ running = [k \in Key |-> 0]
    /\ workers = [k \in Key |-> 0]
    /\ channel = <<>>
    /\ pc = "idle"
    /\ pending = {}
    /\ out = <<>>
    /\ returned = <<>>
    /\ open = TRUE

InChannel(k) == \E i \in DOMAIN channel : channel[i] = k

---------------------------------------------------------------------------------
\* Mutant: the early return for a key already running is forgotten.
SpawnTwice(k) ==
    /\ open /\ pc = "idle"
    /\ workers' = [workers EXCEPT ![k] = @ + 1]
    /\ pending' = {k}
    /\ pc' = "spawned"
    /\ UNCHANGED <<running, channel, out, returned, open>>

\* Mutant: the key is recorded even when the thread could not be created.
SpawnFailureRecorded(k) ==
    /\ open /\ pc = "idle"
    /\ running[k] = 0
    /\ workers' \in {workers, [workers EXCEPT ![k] = @ + 1]}
    /\ pending' = {k}
    /\ pc' = "spawned"
    /\ UNCHANGED <<running, channel, out, returned, open>>

\* Jobs::request up to a successful spawn: the thread runs from here on.
Spawn(k) ==
    /\ open /\ pc = "idle"
    /\ running[k] = 0
    /\ workers' = [workers EXCEPT ![k] = @ + 1]
    /\ pending' = {k}
    /\ pc' = "spawned"
    /\ UNCHANGED <<running, channel, out, returned, open>>

\* self.running.push((key, job)): the thread may already have answered.
Push ==
    /\ pc = "spawned"
    /\ running' = [k \in Key |-> IF k \in pending THEN running[k] + 1 ELSE running[k]]
    /\ pending' = {}
    /\ pc' = "idle"
    /\ UNCHANGED <<workers, channel, out, returned, open>>

\* A collector thread: run(), then send; a failed send is ignored.
Finish(k) ==
    /\ workers[k] > 0
    /\ workers' = [workers EXCEPT ![k] = @ - 1]
    /\ channel' = IF open THEN Append(channel, k) ELSE channel
    /\ UNCHANGED <<running, pc, pending, out, returned, open>>

\* Jobs::drain: let mut out = Vec::new().
BeginDrain ==
    /\ open /\ pc = "idle"
    /\ pc' = "draining"
    /\ out' = <<>>
    /\ UNCHANGED <<running, workers, channel, pending, returned, open>>

\* Mutant: retain() is forgotten, the key stays in running for ever.
ReceiveKeepsKey ==
    /\ pc = "draining"
    /\ channel # <<>>
    /\ out' = Append(out, Head(channel))
    /\ channel' = Tail(channel)
    /\ UNCHANGED <<running, workers, pc, pending, returned, open>>

\* Mutant: running is cleared as a whole when an answer arrives.
ReceiveClears ==
    /\ pc = "draining"
    /\ channel # <<>>
    /\ running' = [k \in Key |-> 0]
    /\ out' = Append(out, Head(channel))
    /\ channel' = Tail(channel)
    /\ UNCHANGED <<workers, pc, pending, returned, open>>

\* Mutant: only the newest answer of a drain survives.
ReceiveOverwrites ==
    /\ pc = "draining"
    /\ channel # <<>>
    /\ running' = [running EXCEPT ![Head(channel)] = 0]
    /\ out' = <<Head(channel)>>
    /\ channel' = Tail(channel)
    /\ UNCHANGED <<workers, pc, pending, returned, open>>

\* One turn of the loop: try_recv succeeds, retain() drops every entry of the key.
Receive ==
    /\ pc = "draining"
    /\ channel # <<>>
    /\ running' = [running EXCEPT ![Head(channel)] = 0]
    /\ out' = Append(out, Head(channel))
    /\ channel' = Tail(channel)
    /\ UNCHANGED <<workers, pc, pending, returned, open>>

\* try_recv finds the channel empty: drain returns what it has collected.
EndDrain ==
    /\ pc = "draining"
    /\ channel = <<>>
    /\ returned' = out
    /\ out' = <<>>
    /\ pc' = "idle"
    /\ UNCHANGED <<running, workers, channel, pending, open>>

\* The event loop returns and the App is dropped, with threads still running.
Drop ==
    /\ open /\ pc = "idle"
    /\ open' = FALSE
    /\ running' = [k \in Key |-> 0]
    /\ channel' = <<>>
    /\ UNCHANGED <<workers, pc, pending, out, returned>>

Next ==
    \/ \E k \in Key : Spawn(k) \/ Finish(k)
    \/ Push
    \/ BeginDrain
    \/ Receive
    \/ EndDrain
    \/ Drop

\* The event loop calls drain in every turn and makes only finitely many requests
\* in between (strong fairness of BeginDrain); the rest of request and drain is
\* straight-line code; only jobs of Bounded keys are sure to end.
Fairness ==
    /\ SF_vars(BeginDrain)
    /\ WF_vars(Push)
    /\ WF_vars(Receive)
    /\ WF_vars(EndDrain)
    /\ \A k \in Bounded : WF_vars(Finish(k))

Spec == Init /\ [][Next]_vars

FairSpec == Spec /\ Fairness

---------------------------------------------------------------------------------
(* Correctness *)

\* A job is never in the air twice: for every key there is at most one thread or
\* one untaken answer, however requests, threads and drains interleave ("if the
\* same job is already running, do nothing", jobs.rs:92).
SingleFlight ==
    /\ IsInjective(channel)
    /\ \A k \in Key : workers[k] <= 1 /\ (workers[k] = 1 => ~InChannel(k))

\* What the UI thinks is running is exactly what is in the air: a key is neither
\* released while its thread works, although the thread may answer before the key
\* is recorded, nor kept once nothing of it is left to arrive.  busy() and
\* in_progress() read this list.
RunningIsInFlight ==
    open => \A k \in Key :
        (running[k] > 0 \/ k \in pending) <=> (workers[k] > 0 \/ InChannel(k))

\* request and drain appear atomic to the event loop, and every answer is handed
\* over exactly once and in the order it was sent.
Atomic == INSTANCE AtomicJobs WITH
    running <- {k \in Key : running[k] > 0} \cup pending \cup Range(out),
    measuring <- {k \in Key : workers[k] > 0},
    answers <- out \o channel

ImplementsAtomicJobs == Atomic!JobsSpec

\* A job that ends is eventually taken off the running list, also while jobs that
\* never end (a hung smartctl or journalctl) occupy the manager.
Answered ==
    \A k \in Bounded : (running[k] > 0) ~> (running[k] = 0)

=================================================================================
