------------------------------- MODULE AtomicJobs -------------------------------
(* What the job manager of src/app/jobs.rs promises to the event loop: asking   *)
(* for jobs and taking their answers each look like ONE step, whatever the      *)
(* collector threads do meanwhile.  Jobs.tla is the code's own interleaving and *)
(* implements this module; StorageScreen.tla is built on top of this one.       *)
EXTENDS Sequences, Functions

CONSTANT Key        \* Job::key(): what makes two requests "the same job"

VARIABLES
    running,        \* keys the UI believes to be in progress
    measuring,      \* keys whose collector thread has not answered yet
    answers,        \* answers sent and not yet taken, in the order they were sent
    returned,       \* what the last drain() handed to its caller
    open            \* FALSE once the application, and with it the receiver, is gone

jobVars == <<running, measuring, answers, returned, open>>

JobsTypeOK ==
    /\ running \in SUBSET Key
    /\ measuring \in SUBSET Key
    /\ answers \in Seq(Key)
    /\ returned \in Seq(Key)
    /\ open \in BOOLEAN

JobsInit ==
    /\ running = {}
    /\ measuring = {}
    /\ answers = <<>>
    /\ returned = <<>>
    /\ open = TRUE

\* Jobs::request for every job of wanted: the ones already running are ignored,
\* and of the others those whose thread could be created (started) are in flight.
Request(wanted, started) ==
    /\ open
    /\ started \subseteq wanted \ running
    /\ running' = running \cup started
    /\ measuring' = measuring \cup started
    /\ UNCHANGED <<answers, returned, open>>

\* A collector thread ends and sends its answer; with the receiver gone the
\* answer is silently dropped.
Finish(k) ==
    /\ k \in measuring
    /\ measuring' = measuring \ {k}
    /\ answers' = IF open THEN Append(answers, k) ELSE answers
    /\ UNCHANGED <<running, returned, open>>

\* Jobs::drain: takes every answer sent so far and frees exactly their keys.
Drain ==
    /\ open
    /\ running' = running \ Range(answers)
    /\ returned' = answers
    /\ answers' = <<>>
    /\ UNCHANGED <<measuring, open>>

\* The application ends: Jobs is dropped, collector threads may outlive it.
Close ==
    /\ open
    /\ open' = FALSE
    /\ running' = {}
    /\ answers' = <<>>
    /\ UNCHANGED <<measuring, returned>>

JobsNext ==
    \/ \E started \in SUBSET Key : Request(started, started)
    \/ \E k \in Key : Finish(k)
    \/ Drain
    \/ Close

JobsSpec == JobsInit /\ [][JobsNext]_jobVars

=================================================================================
