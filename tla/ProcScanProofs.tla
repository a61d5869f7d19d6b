----------------------------- MODULE ProcScanProofs -----------------------------
(* The process list is correct for every set of pids, any number of processes and *)
(* any number of changes of their programs and owners.                            *)
EXTENDS ProcScan, TLAPS

\* A process has been picked and is being read.
Busy == pc \in {"cmd", "owner", "io"}

\* A process has one pid.
OnePid ==
    \A p, q \in Pid : occupant[p] # 0 /\ occupant[p] = occupant[q] => p = q

\* Nothing is known of a process that has not started yet.
OnlyThePast ==
    /\ \A p \in Pid : /\ occupant[p] <= started
                      /\ identity[p].start <= started
                      /\ procs[p].start <= started
                      /\ snap[p].start <= started
    /\ Busy => stat.of <= started
    /\ \A s \in refused \cup stayed \cup outdated : s <= started

\* A pid goes from older processes to newer ones.
Ordered ==
    /\ \A p \in Pid : occupant[p] # 0 => /\ snap[p].start <= occupant[p]
                                         /\ procs[p].start <= occupant[p]
    /\ Busy => /\ snap[pid].start <= stat.of
               /\ occupant[pid] # 0 => stat.of <= occupant[pid]

\* The cache knows what is listed, so a change of it is noticed as one.
Remembered ==
    /\ \A p \in Pid : procs[p].start # 0 => identity[p].start = procs[p].start
    /\ \A p \in Pid : snap[p].start # 0 /\ snap[p].start = occupant[p]
                        => identity[p].start = snap[p].start
    /\ pc = "io" => identity[pid].start = stat.of

\* What is kept of a process that is still there is its own.
Own(kept) ==
    \A p \in Pid : kept[p].start # 0 /\ kept[p].start = occupant[p] => OwnAt(p, kept[p])

OwnIo(shot) ==
    \A p \in Pid : shot[p].start # 0 /\ shot[p].start = occupant[p]
        => shot[p].io \in {0, occupant[p]}

\* What is remembered is the name of some process.
Named ==
    \A p \in Pid : identity[p].start # 0 => identity[p].cmd.of # 0

\* What has been read so far of the process at hand is its own.
OwnSoFar ==
    Busy /\ stat.of = occupant[pid] =>
        /\ pc = "cmd" => (occupant[pid] \notin outdated => stat = Current(pid))
        /\ pc = "owner" => /\ cmd.of = stat.of
                           /\ occupant[pid] \notin outdated => cmd = Current(pid)
        /\ pc = "io" => OwnAt(pid, [cmd |-> cmd, owner |-> owner])

OwnEverywhere ==
    /\ Named
    /\ Own(identity) /\ Own(procs) /\ Own(snap)
    /\ OwnIo(procs) /\ OwnIo(snap)
    /\ OwnSoFar

\* The pid of a refused process stays in the cache: while it is being looked for
\* in a scan it will be found there.
RefusedIsKept ==
    \A p \in Pid : occupant[p] \in refused =>
        /\ p \in denied
        /\ pc # "idle" => \/ p \in todo
                          \/ Busy /\ pid = p
                          \/ procs[p].start # 0

\* A process that has stayed since the listing is ahead, being read or listed.
StayedIsFound ==
    pc # "idle" => \A p \in Pid : occupant[p] \in stayed =>
        \/ p \in todo
        \/ Busy /\ pid = p /\ stat.of = occupant[p]
        \/ procs[p].start = occupant[p]

\* Every pid is read once in a scan.
NotYetListed ==
    /\ \A p \in todo : procs[p].start = 0
    /\ Busy => procs[pid].start = 0 /\ pid \notin todo
    /\ pc = "idle" => \A p \in Pid : procs[p].start = 0

\* A pid that is denied was listed by the scan before, or has been dealt with in
\* this one.
DeniedWithReason ==
    \A p \in denied : \/ p \in before
                      \/ /\ pc # "idle" /\ p \notin todo
                         /\ Busy => pid # p

IInv ==
    /\ TypeOK /\ OnePid /\ OnlyThePast /\ NotYetListed /\ Ordered /\ Remembered
    /\ OwnEverywhere /\ RefusedIsKept /\ StayedIsFound /\ DeniedWithReason

---------------------------------------------------------------------------------
LEMMA InitIInv == Init => IInv
<1> SUFFICES ASSUME Init PROVE IInv
  OBVIOUS
<1> USE BoundAssumption DEF Init
<1>1. Nobody \in Image /\ Absent \in Info /\ Uncached \in Identity
  BY DEF Nobody, Absent, Uncached, Image, Info, Identity
<1>2. TypeOK
  BY <1>1 DEF TypeOK, Empty, Start
<1>3. ~Busy /\ \A p \in Pid : /\ occupant[p] = 0 /\ identity[p].start = 0
                              /\ procs[p].start = 0 /\ snap[p].start = 0
  BY DEF Busy, Empty, Absent, Uncached
<1>4. QED
  BY <1>2, <1>3 DEF IInv, OnePid, OnlyThePast, NotYetListed, Ordered, Remembered, OwnEverywhere, OwnSoFar,
        Own, OwnIo, Named, RefusedIsKept, StayedIsFound, DeniedWithReason

\* A new process is none of those that were seen.
LEMMA ForkIInv ==
    ASSUME IInv, NEW p \in Pid, Fork(p) PROVE IInv'
<1> USE BoundAssumption
<1>1. started' = started + 1 /\ started' \in Start /\ occupant' \in [Pid -> 0 .. MaxStart]
  BY DEF IInv, TypeOK, Fork, Start
<1>2. /\ UNCHANGED <<changes, pc, todo, reading, procs, snap, cache, history>>
      /\ Busy' <=> Busy
  BY DEF Fork, Busy
<1>3. TypeOK'
  BY <1>1, <1>2 DEF IInv, TypeOK, Fork, reading, cache, history, Start
<1>4. \A q \in Pid : occupant'[q] = IF q = p THEN started' ELSE occupant[q]
  BY DEF IInv, TypeOK, Fork
<1>5. OnePid'
  BY <1>1, <1>4 DEF IInv, TypeOK, OnePid, OnlyThePast
<1>6. /\ \A q \in Pid : /\ identity[q].start \in Nat /\ procs[q].start \in Nat
                        /\ snap[q].start \in Nat /\ occupant[q] \in Nat
      /\ stat.of \in Nat /\ started \in Nat
  BY DEF IInv, TypeOK, Identity, Info, Image
<1>7. OnlyThePast' /\ NotYetListed' /\ DeniedWithReason'
  BY <1>1, <1>2, <1>4, <1>6 DEF IInv, TypeOK, OnlyThePast, NotYetListed, DeniedWithReason, reading,
        cache, history, Start, Busy
<1>8. \A q \in Pid : /\ q # p => occupant'[q] = occupant[q] /\ Current(q)' = Current(q)
                     /\ q = p => /\ identity[q].start # occupant'[q]
                                 /\ procs[q].start # occupant'[q]
                                 /\ snap[q].start # occupant'[q]
                                 /\ Busy => stat.of # occupant'[q]
                                 /\ occupant'[q] \notin refused \cup stayed
  BY <1>1, <1>2, <1>4, <1>6 DEF IInv, OnlyThePast, Current
<1>9. Ordered' /\ Remembered'
  BY <1>1, <1>2, <1>4, <1>6, <1>8 DEF IInv, TypeOK, OnlyThePast, Ordered, Remembered, reading, cache, Busy
<1>10. OwnEverywhere'
  <2>1. Named' /\ Own(identity)' /\ Own(procs)' /\ Own(snap)' /\ OwnIo(procs)' /\ OwnIo(snap)'
    BY <1>2, <1>8 DEF IInv, OwnEverywhere, Own, OwnIo, OwnAt, Named, cache, history
  <2>2. OwnSoFar'
    BY <1>2, <1>8 DEF IInv, TypeOK, OwnEverywhere, OwnSoFar, OwnAt, reading, history, Busy
  <2>3. QED
    BY <2>1, <2>2 DEF OwnEverywhere
<1>11. RefusedIsKept' /\ StayedIsFound'
  BY <1>2, <1>8 DEF IInv, TypeOK, RefusedIsKept, StayedIsFound, reading, cache, history, Busy
<1>12. QED
  BY <1>3, <1>5, <1>7, <1>9, <1>10, <1>11 DEF IInv

\* A process that changes after it was looked at is outdated; one that was not is
\* nowhere yet.
LEMMA ExecIInv ==
    ASSUME IInv, NEW p \in Pid, Exec(p) PROVE IInv'
<1> USE BoundAssumption
<1>1. /\ UNCHANGED <<occupant, started, pc, todo, reading, procs, snap, cache, refused, stayed, before>>
      /\ Busy' <=> Busy
      /\ occupant[p] \in Start
  BY DEF IInv, TypeOK, Exec, Busy, Start
<1>2. /\ changes' \in [Pid -> 0 .. MaxExec]
      /\ \A q \in Pid : q # p => changes'[q] = changes[q]
  BY DEF IInv, TypeOK, Exec
<1>3. /\ outdated \subseteq outdated'
      /\ outdated' \subseteq outdated \cup {occupant[p]}
      /\ LookedAt(p) => occupant[p] \in outdated'
  BY DEF Exec
<1>4. TypeOK'
  BY <1>1, <1>2, <1>3 DEF IInv, TypeOK, Exec, reading, cache, Start
<1>5. OnePid' /\ NotYetListed' /\ Ordered' /\ Remembered' /\ DeniedWithReason'
  BY <1>1 DEF IInv, OnePid, NotYetListed, Ordered, Remembered, DeniedWithReason, reading, cache
<1>6. OnlyThePast'
  BY <1>1, <1>3 DEF IInv, OnlyThePast, reading, cache
<1>7. OwnEverywhere'
  <2>1. \A q \in Pid : q # p => Current(q)' = Current(q)
    BY <1>1, <1>2 DEF Current
  <2>2. /\ identity[p].start = occupant[p] => occupant[p] \in outdated'
        /\ procs[p].start = occupant[p] => occupant[p] \in outdated'
        /\ snap[p].start = occupant[p] => occupant[p] \in outdated'
        /\ Busy /\ pid = p /\ stat.of = occupant[p] => occupant[p] \in outdated'
    BY <1>1, <1>3 DEF IInv, Remembered, LookedAt, Busy, Start
  <2>3. Named' /\ Own(identity)' /\ Own(procs)' /\ Own(snap)' /\ OwnIo(procs)' /\ OwnIo(snap)'
    BY <1>1, <1>3, <2>1, <2>2 DEF IInv, OwnEverywhere, Own, OwnIo, OwnAt, Named, cache
  <2>4. OwnSoFar'
    BY <1>1, <1>3, <2>1, <2>2 DEF IInv, TypeOK, OwnEverywhere, OwnSoFar, OwnAt, reading, Busy
  <2>5. QED
    BY <2>3, <2>4 DEF OwnEverywhere
<1>8. RefusedIsKept' /\ StayedIsFound'
  BY <1>1 DEF IInv, RefusedIsKept, StayedIsFound, reading, cache
<1>9. QED
  BY <1>4, <1>5, <1>6, <1>7, <1>8 DEF IInv

\* Of a process that exits nothing is claimed any more.
LEMMA ExitIInv ==
    ASSUME IInv, NEW p \in Pid, Exit(p) PROVE IInv'
<1> USE BoundAssumption
<1>1. /\ \A q \in Pid : occupant'[q] = IF q = p THEN 0 ELSE occupant[q]
      /\ \A q \in Pid : q # p => changes'[q] = changes[q]
      /\ changes' \in [Pid -> 0 .. MaxExec]
  BY DEF IInv, TypeOK, Exit
<1>2. /\ UNCHANGED <<started, pc, todo, reading, procs, snap, cache, before>>
      /\ Busy' <=> Busy
  BY DEF Exit, Busy
<1>3. TypeOK'
  BY <1>1, <1>2 DEF IInv, TypeOK, Exit, reading, cache
<1>4. OnePid' /\ NotYetListed' /\ Ordered' /\ DeniedWithReason'
  BY <1>1, <1>2 DEF IInv, TypeOK, OnePid, NotYetListed, Ordered, DeniedWithReason, reading, cache, Busy
<1>5. Remembered'
  BY <1>1, <1>2 DEF IInv, TypeOK, Remembered, reading, cache, Busy
<1>6. OnlyThePast'
  BY <1>1, <1>2 DEF IInv, TypeOK, OnlyThePast, Exit, reading, cache, Start
<1>7. \A q \in Pid : q # p /\ occupant[q] # 0 =>
          /\ Current(q)' = Current(q)
          /\ occupant[q] \in outdated' <=> occupant[q] \in outdated
          /\ occupant[q] \in refused' => occupant[q] \in refused
          /\ occupant[q] \in stayed' => occupant[q] \in stayed
  BY <1>1 DEF IInv, OnePid, Exit, Current
<1>8. OwnEverywhere'
  <2>1. Named' /\ Own(identity)' /\ Own(procs)' /\ Own(snap)' /\ OwnIo(procs)' /\ OwnIo(snap)'
    BY <1>1, <1>2, <1>7 DEF IInv, OwnEverywhere, Own, OwnIo, OwnAt, Named, cache
  <2>2. OwnSoFar'
    BY <1>1, <1>2, <1>7 DEF IInv, TypeOK, OwnEverywhere, OwnSoFar, OwnAt, reading, Busy, Start
  <2>3. QED
    BY <2>1, <2>2 DEF OwnEverywhere
<1>9. RefusedIsKept' /\ StayedIsFound'
  <2>1. 0 \notin refused' /\ 0 \notin stayed'
    BY <1>3 DEF TypeOK, Start
  <2>2. QED
    BY <1>1, <1>2, <1>7, <2>1 DEF IInv, RefusedIsKept, StayedIsFound, reading, cache
<1>10. QED
  BY <1>3, <1>4, <1>5, <1>6, <1>8, <1>9 DEF IInv

LEMMA ListIInv ==
    ASSUME IInv, ListFails \/ List PROVE IInv'
<1> USE BoundAssumption
<1>1. CASE ListFails
  <2>1. /\ UNCHANGED <<kernel, pc, todo, reading, procs, cache, history>> /\ ~Busy /\ ~Busy'
        /\ snap' \in [Pid -> Info] /\ \A p \in Pid : snap'[p].start = 0
    BY <1>1 DEF ListFails, Busy, Empty, Absent, Info, Nobody, Image
  <2>2. TypeOK' /\ OnePid' /\ OnlyThePast' /\ NotYetListed' /\ DeniedWithReason'
    BY <2>1 DEF IInv, TypeOK, OnePid, OnlyThePast, NotYetListed, DeniedWithReason, kernel, reading,
        cache, history
  <2>3. Ordered' /\ Remembered'
    BY <2>1 DEF IInv, TypeOK, Ordered, Remembered, kernel, reading, cache, Busy
  <2>4. OwnEverywhere'
    BY <2>1 DEF IInv, OwnEverywhere, Own, OwnIo, OwnAt, OwnSoFar, Named, Current, kernel, cache, history
  <2>5. RefusedIsKept' /\ StayedIsFound'
    BY <2>1 DEF IInv, RefusedIsKept, StayedIsFound, kernel, reading, cache, history
  <2>6. QED
    BY <2>2, <2>3, <2>4, <2>5 DEF IInv
<1>2. CASE List
  <2>1. /\ UNCHANGED <<kernel, reading, procs, snap, cache, refused, before, outdated>>
        /\ ~Busy /\ ~Busy' /\ pc = "idle" /\ pc' = "next" /\ todo' = Live
        /\ stayed' = {occupant[p] : p \in Live}
    BY <1>2 DEF List, Busy
  <2>2. TypeOK' /\ OnePid' /\ NotYetListed'
    BY <2>1 DEF IInv, TypeOK, OnePid, NotYetListed, Live, kernel, reading, cache, Start
  <2>3. OnlyThePast' /\ Ordered' /\ Remembered'
    BY <2>1 DEF IInv, TypeOK, OnlyThePast, Ordered, Remembered, Live, kernel, reading, cache
  <2>4. OwnEverywhere'
    BY <2>1 DEF IInv, OwnEverywhere, Own, OwnIo, OwnAt, OwnSoFar, Named, Current, kernel, cache
  <2>5. RefusedIsKept' /\ StayedIsFound' /\ DeniedWithReason'
    BY <2>1 DEF IInv, TypeOK, RefusedIsKept, StayedIsFound, DeniedWithReason, Live, kernel, reading,
        cache, Start
  <2>6. QED
    BY <2>2, <2>3, <2>4, <2>5 DEF IInv
<1>3. QED
  BY <1>1, <1>2

LEMMA ReadStatIInv ==
    ASSUME IInv, NEW p \in Pid, ReadStat(p) PROVE IInv'
<1> USE BoundAssumption
<1>1. /\ UNCHANGED <<kernel, procs, snap, cache, history>> /\ todo' = todo \ {p} /\ p \in todo
      /\ pc = "next" /\ ~Busy
      /\ procs[p].start = 0
  BY DEF IInv, NotYetListed, ReadStat, Busy
<1>2. CASE occupant[p] = 0
  <2>1. pc' = pc /\ UNCHANGED reading /\ ~Busy'
    BY <1>1, <1>2 DEF ReadStat, Busy
  <2>2. TypeOK' /\ OnePid' /\ OnlyThePast' /\ NotYetListed' /\ Ordered' /\ Remembered'
    BY <1>1, <2>1 DEF IInv, TypeOK, OnePid, OnlyThePast, NotYetListed, Ordered, Remembered, kernel, reading,
        cache, history
  <2>3. OwnEverywhere'
    BY <1>1, <2>1 DEF IInv, OwnEverywhere, Own, OwnIo, OwnAt, OwnSoFar, Named, Current, kernel, cache, history
  <2>4. RefusedIsKept' /\ StayedIsFound' /\ DeniedWithReason'
    <3>1. occupant[p] \notin refused /\ occupant[p] \notin stayed
      BY <1>2 DEF IInv, TypeOK, Start
    <3>2. QED
      BY <1>1, <2>1, <3>1 DEF IInv, RefusedIsKept, StayedIsFound, DeniedWithReason, kernel, cache, history
  <2>5. QED
    BY <2>2, <2>3, <2>4 DEF IInv
<1>3. CASE occupant[p] # 0
  <2>1. /\ pc' = "cmd" /\ pid' = p /\ stat' = Current(p) /\ cmd' = Nobody /\ owner' = Nobody
        /\ Busy'
    BY <1>1, <1>3 DEF ReadStat, Busy
  <2>2. /\ stat' \in Image /\ stat'.of = occupant[p] /\ occupant[p] \in Start /\ Nobody \in Image
        /\ Current(p)' = Current(p)
    BY <1>1, <1>3, <2>1 DEF IInv, TypeOK, Current, Image, Start, Nobody, kernel
  <2>3. TypeOK'
    BY <1>1, <2>1, <2>2 DEF IInv, TypeOK, kernel, cache, history
  <2>4. OnePid' /\ OnlyThePast' /\ NotYetListed' /\ Ordered' /\ Remembered'
    BY <1>1, <1>3, <2>1, <2>2 DEF IInv, TypeOK, OnePid, OnlyThePast, NotYetListed, Ordered, Remembered,
        kernel, cache, history, Start
  <2>5. Named' /\ Own(identity)' /\ Own(procs)' /\ Own(snap)' /\ OwnIo(procs)' /\ OwnIo(snap)'
    BY <1>1 DEF IInv, OwnEverywhere, Own, OwnIo, OwnAt, Named, Current, kernel, cache, history
  <2>6. OwnSoFar'
    BY <2>1, <2>2 DEF OwnSoFar
  <2>7. RefusedIsKept' /\ StayedIsFound' /\ DeniedWithReason'
    BY <1>1, <2>1, <2>2 DEF IInv, RefusedIsKept, StayedIsFound, DeniedWithReason, kernel, cache, history
  <2>8. QED
    BY <2>3, <2>4, <2>5, <2>6, <2>7 DEF IInv, OwnEverywhere
<1>4. QED
  BY <1>2, <1>3

\* Whatever process has the pid by now, one that has had it since stat was read is
\* the process of stat.
LEMMA ReadCmdIInv ==
    ASSUME IInv, ReadCmd PROVE IInv'
<1> USE BoundAssumption
<1>1. /\ UNCHANGED <<kernel, todo, pid, stat, procs, snap, cache, history>>
      /\ pc = "cmd" /\ pid \in Pid /\ stat.of \in Start /\ stat \in Image
      /\ pc' \in {"owner", "io"} /\ Busy /\ Busy'
  BY DEF IInv, TypeOK, ReadCmd, Busy
<1>2. \/ /\ identity[pid].start = stat.of /\ pc' = "io"
         /\ cmd' = identity[pid].cmd /\ owner' = identity[pid].owner
      \/ /\ pc' = "owner" /\ cmd' \in CommandSources /\ owner' = owner
  BY <1>1 DEF ReadCmd, Known
<1>3. cmd' \in Image /\ owner' \in Image /\ cmd'.of \in Start
  <2>1. \A c \in CommandSources : c \in Image /\ c.of \in Start
    BY <1>1 DEF IInv, TypeOK, CommandSources, Current, Image, Start
  <2>2. identity[pid] \in Identity
    BY <1>1 DEF IInv, TypeOK
  <2>3. CASE pc' = "owner"
    BY <1>2, <2>1, <2>3 DEF IInv, TypeOK
  <2>4. CASE pc' = "io"
    BY <1>1, <1>2, <2>2, <2>4 DEF IInv, OwnEverywhere, Named, Identity, Image, Start
  <2>5. QED
    BY <1>1, <2>3, <2>4
<1>4. TypeOK'
  BY <1>1, <1>3 DEF IInv, TypeOK, kernel, cache, history
<1>5. OnePid' /\ OnlyThePast' /\ NotYetListed' /\ Ordered'
  BY <1>1 DEF IInv, OnePid, OnlyThePast, NotYetListed, Ordered, kernel, cache, history
<1>6. Remembered'
  BY <1>1, <1>2 DEF IInv, Remembered, kernel, cache
<1>7. Named' /\ Own(identity)' /\ Own(procs)' /\ Own(snap)' /\ OwnIo(procs)' /\ OwnIo(snap)'
  BY <1>1 DEF IInv, OwnEverywhere, Own, OwnIo, OwnAt, Named, Current, kernel, cache, history
<1>8. OwnSoFar'
  <2> SUFFICES ASSUME stat.of = occupant[pid]
               PROVE  /\ pc' = "owner" => /\ cmd'.of = stat.of
                                          /\ occupant[pid] \notin outdated => cmd' = Current(pid)
                      /\ pc' = "io" => OwnAt(pid, [cmd |-> cmd', owner |-> owner'])
    BY <1>1 DEF OwnSoFar, OwnAt, Current, kernel, history
  <2>1. CASE pc' = "owner"
    <3>1. cmd' = stat \/ cmd' = Current(pid)
      BY <1>2, <2>1 DEF CommandSources
    <3>2. QED
      BY <1>1, <2>1, <3>1 DEF IInv, OwnEverywhere, OwnSoFar, Current
  <2>2. CASE pc' = "io"
    <3>1. OwnAt(pid, identity[pid])
      BY <1>1, <1>2, <2>2 DEF IInv, OwnEverywhere, Own, Start
    <3>2. QED
      BY <1>2, <2>2, <3>1 DEF OwnAt
  <2>3. QED
    BY <2>1, <2>2
<1>9. RefusedIsKept' /\ StayedIsFound' /\ DeniedWithReason'
  BY <1>1 DEF IInv, RefusedIsKept, StayedIsFound, DeniedWithReason, kernel, cache, history
<1>10. QED
  BY <1>4, <1>5, <1>6, <1>7, <1>8, <1>9 DEF IInv, OwnEverywhere

\* What goes into the cache under the start time of stat comes from its process,
\* unless that process is gone.
LEMMA ReadOwnerIInv ==
    ASSUME IInv, ReadOwner PROVE IInv'
<1> USE BoundAssumption
<1> DEFINE known == [start |-> stat.of, cmd |-> cmd, owner |-> owner']
<1>1. /\ UNCHANGED <<kernel, todo, pid, stat, cmd, procs, snap, denied, history>>
      /\ pc = "owner" /\ pid \in Pid /\ stat.of \in Start /\ stat \in Image /\ cmd \in Image
      /\ cmd.of \in Start /\ pc' = "io" /\ Busy /\ Busy' /\ procs[pid].start = 0
  BY DEF IInv, TypeOK, ReadOwner, NotYetListed, Busy
<1>2. owner' = OwnerNow /\ owner' \in Image
  BY <1>1 DEF IInv, TypeOK, ReadOwner, OwnerNow, Nobody, Current, Image
<1>3. /\ identity' = [identity EXCEPT ![pid] = known]
      /\ \A q \in Pid : identity'[q] = IF q = pid THEN known ELSE identity[q]
  BY DEF IInv, TypeOK, ReadOwner
<1>4. known \in Identity /\ known.start = stat.of /\ known.cmd = cmd /\ known.owner = owner'
  BY <1>1, <1>2 DEF Identity, Image
<1> HIDE DEF known
<1>5. TypeOK'
  BY <1>1, <1>2, <1>3, <1>4 DEF IInv, TypeOK, kernel, history
<1>6. OnePid' /\ OnlyThePast' /\ NotYetListed' /\ Ordered'
  BY <1>1, <1>3, <1>4 DEF IInv, OnePid, OnlyThePast, NotYetListed, Ordered, kernel, history
<1>7. Remembered'
  <2>1. snap[pid].start # 0 /\ snap[pid].start = occupant[pid] => stat.of = occupant[pid]
    <3>1. snap[pid].start \in Nat /\ stat.of \in Nat /\ occupant[pid] \in Nat
      BY <1>1 DEF IInv, TypeOK, Image, Info
    <3>2. /\ occupant[pid] # 0 => stat.of <= occupant[pid]
          /\ snap[pid].start <= stat.of
      BY <1>1 DEF IInv, Ordered
    <3>3. QED
      BY <3>1, <3>2
  <2>2. QED
    BY <1>1, <1>3, <1>4, <2>1 DEF IInv, Remembered, kernel
<1>8. stat.of = occupant[pid] => OwnAt(pid, known)
  BY <1>1, <1>2, <1>4 DEF IInv, OwnEverywhere, OwnSoFar, OwnAt, OwnerNow, Current, Start
<1>9. Named' /\ Own(identity)' /\ Own(procs)' /\ Own(snap)' /\ OwnIo(procs)' /\ OwnIo(snap)'
  <2>1. Named'
    BY <1>1, <1>3, <1>4 DEF IInv, OwnEverywhere, Named, Start
  <2>2. Own(identity)'
    BY <1>1, <1>3, <1>4, <1>8 DEF IInv, OwnEverywhere, Own, OwnAt, Current, kernel, history
  <2>3. Own(procs)' /\ Own(snap)' /\ OwnIo(procs)' /\ OwnIo(snap)'
    BY <1>1 DEF IInv, OwnEverywhere, Own, OwnIo, OwnAt, Current, kernel, history
  <2>4. QED
    BY <2>1, <2>2, <2>3
<1>10. OwnSoFar'
  BY <1>1, <1>4, <1>8 DEF OwnSoFar, OwnAt, Current, kernel, history
<1>11. RefusedIsKept' /\ StayedIsFound' /\ DeniedWithReason'
  BY <1>1 DEF IInv, RefusedIsKept, StayedIsFound, DeniedWithReason, kernel, history
<1>12. QED
  BY <1>5, <1>6, <1>7, <1>9, <1>10, <1>11 DEF IInv, OwnEverywhere

LEMMA ReadIoIInv ==
    ASSUME IInv, ReadIo PROVE IInv'
<1> USE BoundAssumption
<1> DEFINE line == [start |-> stat.of, cmd |-> cmd, owner |-> owner, io |-> IoOf]
<1>1. /\ pid \in Pid /\ stat.of \in Start /\ stat \in Image /\ cmd \in Image /\ owner \in Image
      /\ pc = "io" /\ pc' = "next" /\ Busy /\ ~Busy'
      /\ UNCHANGED <<kernel, todo, snap, identity, stayed, before, outdated>>
      /\ occupant[pid] \in 0 .. MaxStart
      /\ stat.of <= started /\ pid \notin todo /\ identity[pid].start = stat.of
  BY DEF IInv, TypeOK, OnlyThePast, NotYetListed, Remembered, ReadIo, Busy
<1>2. line \in Info /\ line.start = stat.of /\ line.cmd = cmd /\ line.owner = owner /\ line.io = IoOf
      /\ IoOf \in {0, occupant[pid]}
  BY <1>1 DEF IoOf, Info, Image, Start
<1>3. /\ procs' = [procs EXCEPT ![pid] = line]
      /\ \A q \in Pid : procs'[q] = IF q = pid THEN line ELSE procs[q]
  BY DEF IInv, TypeOK, ReadIo
<1> HIDE DEF line
<1>4. denied' = denied \/ denied' = denied \cup {pid}
  BY DEF ReadIo, DeniedNow
<1>5. TypeOK'
  <2>1. procs' \in [Pid -> Info]
    BY <1>2, <1>3 DEF IInv, TypeOK
  <2>2. refused' \in SUBSET Start
    <3>1. {occupant[pid]} \ {0} \subseteq Start
      BY <1>1 DEF Start
    <3>2. QED
      BY <3>1 DEF IInv, TypeOK, ReadIo
  <2>3. stat' \in Image /\ cmd' \in Image /\ owner' \in Image
    BY DEF ReadIo, Nobody, Image
  <2>4. QED
    BY <1>1, <1>4, <2>1, <2>2, <2>3 DEF IInv, TypeOK, kernel
<1>6. \A s \in refused' : s \in refused \/ s = occupant[pid]
  BY DEF ReadIo
<1>7. OnePid' /\ NotYetListed' /\ Ordered' /\ Remembered'
  BY <1>1, <1>2, <1>3 DEF IInv, TypeOK, OnePid, NotYetListed, Ordered, Remembered, kernel, Start
<1>8. OnlyThePast'
  BY <1>1, <1>2, <1>3, <1>6 DEF IInv, TypeOK, OnlyThePast, kernel
<1>9. OwnEverywhere'
  <2>1. stat.of = occupant[pid] => OwnAt(pid, line) /\ line.io \in {0, occupant[pid]}
    BY <1>1, <1>2 DEF IInv, OwnEverywhere, OwnSoFar, OwnAt
  <2>2. Named' /\ Own(identity)' /\ Own(snap)' /\ OwnIo(snap)'
    BY <1>1 DEF IInv, OwnEverywhere, Own, OwnIo, OwnAt, Named, Current, kernel
  <2>3. Own(procs)' /\ OwnIo(procs)'
    BY <1>1, <1>2, <1>3, <2>1 DEF IInv, OwnEverywhere, Own, OwnIo, OwnAt, Current, kernel
  <2>4. OwnSoFar'
    BY <1>1 DEF OwnSoFar
  <2>5. QED
    BY <2>2, <2>3, <2>4 DEF OwnEverywhere
<1>10. RefusedIsKept'
  <2>1. \A p \in Pid : occupant[p] \in refused' =>
            \/ occupant[p] \in refused
            \/ p = pid /\ pid \in denied'
    BY <1>1 DEF IInv, TypeOK, OnePid, ReadIo, DeniedNow
  <2>2. QED
    BY <1>1, <1>2, <1>3, <1>4, <2>1 DEF IInv, RefusedIsKept, kernel, Start
<1>11. StayedIsFound'
  <2>1. \A p \in Pid : occupant[p] \in stayed =>
            \/ p \in todo
            \/ pid = p /\ stat.of = occupant[p]
            \/ p # pid /\ procs[p].start = occupant[p]
    BY <1>1 DEF IInv, TypeOK, NotYetListed, StayedIsFound, Start
  <2>2. \A p \in Pid : occupant[p] \in stayed => p \in todo \/ procs'[p].start = occupant[p]
    BY <1>2, <1>3, <2>1
  <2>3. QED
    BY <1>1, <2>2 DEF StayedIsFound, kernel
<1>12. DeniedWithReason'
  BY <1>1, <1>4 DEF IInv, DeniedWithReason
<1>13. QED
  BY <1>5, <1>7, <1>8, <1>9, <1>10, <1>11, <1>12 DEF IInv

\* The cache keeps what is in the snapshot.
LEMMA EndScanIInv ==
    ASSUME IInv, EndScan PROVE IInv'
<1> USE BoundAssumption
<1>1. /\ \A p \in Pid : identity'[p] = IF p \in Listed(procs) THEN identity[p] ELSE Uncached
      /\ denied' = denied \cap Listed(procs) /\ before' = Listed(procs)
      /\ snap' = procs /\ stayed' = {} /\ pc' = "idle" /\ pc = "next" /\ todo = {}
      /\ procs' = Empty
      /\ UNCHANGED <<kernel, todo, reading, refused, outdated>>
      /\ ~Busy /\ ~Busy'
  BY DEF EndScan, Retain, Busy
<1>2. \A p \in Pid : procs'[p].start = 0 /\ (p \in Listed(procs) <=> procs[p].start # 0)
  BY <1>1 DEF Empty, Absent, Listed
<1>3. TypeOK'
  <2>1. Empty \in [Pid -> Info] /\ Uncached \in Identity /\ Listed(procs) \subseteq Pid
    BY DEF Empty, Absent, Uncached, Info, Identity, Nobody, Image, Listed
  <2>2. identity' \in [Pid -> Identity]
    BY <2>1 DEF IInv, TypeOK, EndScan, Retain
  <2>3. QED
    BY <1>1, <2>1, <2>2 DEF IInv, TypeOK, kernel, reading
<1>4. OnePid' /\ OnlyThePast' /\ NotYetListed'
  BY <1>1, <1>2 DEF IInv, TypeOK, OnePid, OnlyThePast, NotYetListed, Uncached, kernel, reading
<1>5. Ordered' /\ Remembered'
  <2>1. \A p \in Pid : occupant[p] \in Nat
    BY DEF IInv, TypeOK
  <2>2. QED
    BY <1>1, <1>2, <2>1 DEF IInv, Ordered, Remembered, kernel
<1>6. OwnEverywhere'
  BY <1>1, <1>2 DEF IInv, OwnEverywhere, OwnSoFar, Own, OwnIo, OwnAt, Named, Current, Uncached, kernel
<1>7. RefusedIsKept' /\ StayedIsFound' /\ DeniedWithReason'
  BY <1>1, <1>2 DEF IInv, RefusedIsKept, StayedIsFound, DeniedWithReason, kernel
<1>8. QED
  BY <1>3, <1>4, <1>5, <1>6, <1>7 DEF IInv

LEMMA NextIInv ==
    ASSUME IInv, [Next]_vars PROVE IInv'
<1>1. CASE Next
  BY <1>1, ForkIInv, ExecIInv, ExitIInv, ListIInv, ReadStatIInv, ReadCmdIInv, ReadOwnerIInv, ReadIoIInv,
     EndScanIInv DEF Next
<1>2. CASE UNCHANGED vars
  <2>1. Busy' <=> Busy
    BY <1>2 DEF vars, Busy
  <2>2. TypeOK' /\ OnePid' /\ OnlyThePast' /\ NotYetListed' /\ Ordered' /\ Remembered'
    BY <1>2, <2>1 DEF IInv, TypeOK, OnePid, OnlyThePast, NotYetListed, Ordered, Remembered, vars, kernel,
        reading, cache, history
  <2>3. OwnEverywhere'
    BY <1>2, <2>1 DEF IInv, OwnEverywhere, OwnSoFar, Own, OwnIo, OwnAt, Named, Current, vars, kernel,
        reading, cache, history
  <2>4. RefusedIsKept' /\ StayedIsFound' /\ DeniedWithReason'
    BY <1>2, <2>1 DEF IInv, RefusedIsKept, StayedIsFound, DeniedWithReason, vars, kernel, reading, cache,
        history
  <2>5. QED
    BY <2>2, <2>3, <2>4 DEF IInv
<1>3. QED
  BY <1>1, <1>2

LEMMA Invariance == Spec => []IInv
BY InitIInv, NextIInv, PTL DEF Spec

---------------------------------------------------------------------------------
(* Theorems *)

\* The state of the process list and its cache has its types
\* (src/app/sampler.rs:162, src/collect/process.rs:56-61).
THEOREM ScanTypeCorrect == Spec => []TypeOK
BY Invariance, PTL DEF IInv

\* A listed process that is still there is never given the command line, owner or
\* counter of another process, even when its pid belonged to one before or while it
\* was read; what it is given is up to date unless it ran another program or changed
\* its owner after it was looked at first (src/collect/process.rs:119-158).
THEOREM CommandsAreRight == Spec => []OwnCommand
<1>1. IInv => OwnCommand
  BY DEF IInv, OwnEverywhere, Own, OwnIo, OwnCommand
<1>2. QED
  BY <1>1, Invariance, PTL

\* No io file is opened again after it was refused (src/collect/process.rs:147-166).
THEOREM RefusedOnce == Spec => []AskedOnce
<1>1. IInv => AskedOnce
  BY DEF IInv, TypeOK, RefusedIsKept, AskedOnce
<1>2. QED
  BY <1>1, Invariance, PTL

\* A process is left unasked for its counters only when its pid was in the result of
\* the scan before (src/collect/process.rs:62-66, 141-158).
THEOREM RefusalsAreForgotten == Spec => []NewcomersAreAsked
<1>1. IInv => NewcomersAreAsked
  BY DEF IInv, DeniedWithReason, NewcomersAreAsked, Busy
<1>2. QED
  BY <1>1, Invariance, PTL

\* Processes that run throughout a scan are in its result, whatever others do
\* (src/collect/process.rs:80-97).
THEOREM ScansAreComplete == Spec => Complete
<1>1. IInv /\ [Next]_vars
        => [EndScan => \A p \in Pid : occupant[p] \in stayed => snap'[p].start = occupant[p]]_vars
  BY DEF IInv, StayedIsFound, EndScan, Busy
<1>2. QED
  BY <1>1, Invariance, PTL DEF Spec, Complete

=================================================================================
