---------------------------------- MODULE Rates ----------------------------------
(* From counters to rates: what cpu.rs, memory.rs, blockio.rs, network.rs and      *)
(* process.rs under src/collect make of two snapshots taken secs apart.  Counters  *)
(* only grow while a device or a process lives and start again at 0 with the next  *)
(* one of that name or pid.                                                        *)
EXTENDS Integers

\* Mutant: a counter that went back has wrapped around.
SubWrapped(now, before) == IF now >= before THEN now - before ELSE before - now

\* saturating_sub: a counter that went back counts as not moved.
Sub(now, before) == IF now >= before THEN now - before ELSE 0

\* Mutant: no limit, although two clocks never agree.
AtMostNone(x, limit) == x

AtMost(x, limit) == IF x > limit THEN limit ELSE x

---------------------------------------------------------------------------------
(* cpu.rs: shares of the time between two snapshots, in percent                    *)

CpuTimes == {"user", "system", "idle", "iowait", "irq", "steal"}

Total(times) ==
    times.user + times.system + times.idle + times.iowait + times.irq + times.steal

Ratio(delta, total) == IF total = 0 THEN 0 ELSE (100 * delta) \div total

UsageBetween(prev, now) ==
    [t \in CpuTimes |-> Ratio(Sub(now[t], prev[t]), Sub(Total(now), Total(prev)))]

\* The shares that matter to a verdict; busy leaves out idle and iowait.
Usage(prev, now) ==
    LET share == UsageBetween(prev, now)
    IN  [busy   |-> AtMost(share.user + share.system + share.irq + share.steal, 100),
         steal  |-> share.steal,
         iowait |-> share.iowait]

---------------------------------------------------------------------------------
(* memory.rs: pages swapped out per second                                         *)

SwapRate(prev, now, secs) == IF secs <= 0 THEN 0 ELSE Sub(now, prev) \div secs

---------------------------------------------------------------------------------
(* blockio.rs: the rates of the devices that are in both snapshots, by their places *)
(* in the later one                                                                *)

Places(snapshot, name) == {i \in DOMAIN snapshot : snapshot[i].name = name}

\* The device of that name in the earlier snapshot.
DiskBefore(prev, name) == prev[CHOOSE i \in Places(prev, name) : TRUE]

DiskRate(old, cur, secs) ==
    [name  |-> cur.name,
     bytes |-> Sub(cur.bytes, old.bytes) \div secs,
     wait  |-> IF Sub(cur.ios, old.ios) = 0 THEN 0
               ELSE Sub(cur.ms, old.ms) \div Sub(cur.ios, old.ios),
     util  |-> AtMost(Sub(cur.busy, old.busy) \div (10 * secs), 100)]

InBoth(prev, now) == {i \in DOMAIN now : Places(prev, now[i].name) # {}}

DiskRates(prev, now, secs) ==
    [i \in IF secs <= 0 THEN {} ELSE InBoth(prev, now) |->
        DiskRate(DiskBefore(prev, now[i].name), now[i], secs)]

\* The order of the list: the highest throughput first, by a stable sort.
Ahead(rates, i, j) ==
    \/ rates[i].bytes > rates[j].bytes
    \/ rates[i].bytes = rates[j].bytes /\ i < j

---------------------------------------------------------------------------------
(* network.rs: the same for interfaces, both directions added; the errors per      *)
(* second are rounded up, for any is more than none                                *)

NetBefore(prev, name) == prev[CHOOSE i \in Places(prev, name) : TRUE]

NetRate(old, cur, secs) ==
    [name   |-> cur.name,
     bytes  |-> Sub(cur.bytes, old.bytes) \div secs,
     total  |-> cur.errors,
     errors |-> (Sub(cur.errors, old.errors) + secs - 1) \div secs]

NetRates(prev, now, secs) ==
    [i \in IF secs <= 0 THEN {} ELSE InBoth(prev, now) |->
        NetRate(NetBefore(prev, now[i].name), now[i], secs)]

---------------------------------------------------------------------------------
(* process.rs: one row per process of the later snapshot.  A snapshot is a         *)
(* function from pids to [ticks, io, rss, state]; io is NoIo when it may not be    *)
(* read                                                                            *)

NoIo == -1

\* The share of one cpu, in percent, ticks being hundredths of a second.
CpuOf(prev, now, secs, pid) ==
    IF pid \notin DOMAIN prev THEN 0
    ELSE Sub(now[pid].ticks, prev[pid].ticks) \div secs

IoOf(prev, now, secs, pid) ==
    IF now[pid].io = NoIo THEN NoIo
    ELSE IF pid \notin DOMAIN prev THEN 0
    ELSE IF prev[pid].io = NoIo THEN 0
    ELSE Sub(now[pid].io, prev[pid].io) \div secs

\* rows: without any time between the snapshots there is no list.
Rows(prev, now, secs) ==
    [pid \in IF secs <= 0 THEN {} ELSE DOMAIN now |->
        [cpu   |-> CpuOf(prev, now, secs, pid),
         io    |-> IoOf(prev, now, secs, pid),
         rss   |-> now[pid].rss,
         state |-> now[pid].state]]
=================================================================================
