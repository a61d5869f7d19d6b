----------------------------- MODULE CommandsProofs -----------------------------
(* What holds of the metrics and what is claimed of them (modules Rates, Assess    *)
(* and Monitor), of the exit codes (module Commands) and of the gate (module       *)
(* Gate), whatever is read, mounted, looked for and put into the catalogues.       *)
EXTENDS Commands, WellFoundedInduction, TLAPS

---------------------------------------------------------------------------------
(* Numbers and orders                                                              *)

\* Every set of natural numbers has a least one.
LEMMA NatHasLeast ==
    ASSUME NEW T, T \subseteq Nat, T # {}
    PROVE  \E x \in T : \A y \in T : x <= y
<1> DEFINE R == OpToRel(<, Nat)
<1>1. IsWellFoundedOn(R, Nat)
  BY NatLessThanWellFounded
<1>2. \A x, y \in Nat : x < y => <<x, y>> \in R
  BY DEF OpToRel
<1> HIDE DEF R
<1>3. PICK x \in T : \A y \in T : ~ (<<y, x>> \in R)
  BY <1>1, WFMin
<1>4. \A y \in T : ~(y < x)
  BY <1>2, <1>3
<1> QED
  BY <1>4

\* Induction, for a set of numbers.
LEMMA Induct ==
    ASSUME NEW S, S \subseteq Nat, 0 \in S, \A n \in S : n + 1 \in S
    PROVE  S = Nat
<1> SUFFICES ASSUME S # Nat PROVE FALSE
  OBVIOUS
<1>1. PICK least \in Nat \ S : \A y \in Nat \ S : least <= y
  <2>1. Nat \ S \subseteq Nat /\ Nat \ S # {}
    OBVIOUS
  <2> QED
    BY <2>1, NatHasLeast
<1>2. least - 1 \in S
  BY <1>1
<1> QED
  BY <1>1, <1>2

\* A set of numbers up to n has a largest one.
LEMMA LargestOK ==
    ASSUME NEW n \in Nat, NEW S, S \subseteq 0..n, S # {}
    PROVE  Largest(S) \in S /\ \A y \in S : y <= Largest(S)
<1> DEFINE T == {n - x : x \in S}
<1>1. T \subseteq Nat /\ T # {}
  OBVIOUS
<1>2. PICK k \in T : \A y \in T : k <= y
  BY <1>1, NatHasLeast
<1>3. PICK x \in S : k = n - x
  OBVIOUS
<1>4. \A y \in S : y <= x
  BY <1>2, <1>3
<1>5. \E z \in S : \A y \in S : y <= z
  BY <1>4
<1> QED
  BY <1>5 DEF Largest

\* R orders S.
Orders(R, S) ==
    /\ \A i, j \in S : i # j => <<i, j>> \in R \/ <<j, i>> \in R
    /\ \A i, j, k \in S : <<i, j>> \in R /\ <<j, k>> \in R => <<i, k>> \in R

\* A finite set that is ordered has a first element.
LEMMA HasFirst ==
    ASSUME NEW R, NEW n \in Nat, NEW S \in SUBSET (1..n), S # {}, Orders(R, S)
    PROVE  \E i \in S : \A j \in S \ {i} : <<i, j>> \in R
<1> DEFINE First(U) == \E i \in U : \A j \in U \ {i} : <<i, j>> \in R
           T == {k \in Nat : \A U \in SUBSET S : U # {} /\ U \subseteq 1..k => First(U)}
<1>1. 0 \in T
  <2>1. 1..0 = {}
    OBVIOUS
  <2>2. \A U \in SUBSET S : ~(U # {} /\ U \subseteq 1..0)
    BY <2>1
  <2> QED
    BY <2>2
<1>2. ASSUME NEW k \in T PROVE k + 1 \in T
  <2> SUFFICES ASSUME NEW U \in SUBSET S, U # {}, U \subseteq 1..(k + 1) PROVE First(U)
    BY DEF T
  <2>1. CASE k + 1 \notin U
    <3>1. U \subseteq 1..k
      BY <2>1
    <3> QED
      BY <3>1
  <2>2. CASE U = {k + 1}
    BY <2>2
  <2>3. CASE k + 1 \in U /\ U # {k + 1}
    <3> DEFINE V == U \ {k + 1}
    <3>1. V \subseteq 1..k /\ V # {} /\ V \in SUBSET S
      BY <2>3
    <3>2. PICK f \in V : \A j \in V \ {f} : <<f, j>> \in R
      BY <3>1
    <3>3. CASE <<f, k + 1>> \in R
      BY <3>2, <3>3
    <3>4. CASE <<f, k + 1>> \notin R
      <4>1. f \in S /\ k + 1 \in S /\ f # k + 1
        BY <2>3, <3>1, <3>2
      <4>2. <<k + 1, f>> \in R
        BY <3>4, <4>1 DEF Orders
      <4>3. \A j \in V : <<k + 1, j>> \in R
        BY <3>1, <3>2, <4>1, <4>2 DEF Orders
      <4> QED
        BY <2>3, <4>3
    <3> QED
      BY <3>3, <3>4
  <2> QED
    BY <2>1, <2>2, <2>3
<1> HIDE DEF T
<1>3. T = Nat
  <2>1. T \subseteq Nat
    BY DEF T
  <2> QED
    BY <1>1, <1>2, <2>1, Induct
<1> QED
  BY <1>3 DEF T

\* Both sides of a comparison may be multiplied, and divided by what is not 0.
LEMMA Scale ==
    ASSUME NEW x \in Int, NEW y \in Int, NEW d \in Nat
    PROVE  /\ x <= y => x * d <= y * d
           /\ d > 0 /\ x < y => x * d < y * d
           /\ d > 0 /\ x * d <= y * d => x <= y
BY SMT

\* A quotient is at most its dividend, also when it is rounded up.
LEMMA Quotient ==
    ASSUME NEW a \in Nat, NEW s \in Nat \ {0}
    PROVE  /\ a \div s \in Nat /\ a \div s <= a
           /\ (a + s - 1) \div s \in Nat /\ (a + s - 1) \div s <= a
BY SMT

LEMMA SubBounds ==
    ASSUME NEW now \in Nat, NEW before \in Nat
    PROVE  Sub(now, before) \in Nat /\ Sub(now, before) <= now
BY DEF Sub

---------------------------------------------------------------------------------
(* The metrics                                                                     *)

\* Rates of disks: no more than a certain number, no two of the same name.
DisksOK(disks) ==
    /\ \E n \in Nat : DOMAIN disks \subseteq 1..n
    /\ \A i \in DOMAIN disks :
        disks[i].bytes \in Nat /\ disks[i].wait \in Nat /\ disks[i].util \in 0..100
    /\ \A i, j \in DOMAIN disks : disks[i].name = disks[j].name => i = j

NetsOK(nets) == \A i \in DOMAIN nets : nets[i].errors \in Nat

MetricsOK(x) ==
    /\ MaySay("pressure", x.pressure) /\ MaySay("memory", x.memory) /\ MaySay("load", x.load)
    /\ x.stat \in [cores : Nat, blocked : Nat]
    /\ x.cpu \in [busy : 0..100, steal : Nat, iowait : Nat]
    /\ x.swap \in Nat
    /\ DisksOK(x.disks)
    /\ NetsOK(x.nets)

MonitorInv ==
    /\ MetricsOK(m)
    /\ prev \in Sample \cup {NoSample}
    /\ io_visible \in BOOLEAN
    /\ samples \in 0..2

LEMMA DiskRatesOK ==
    ASSUME NEW old, NEW now, MaySay("disk", old), MaySay("disk", now), NEW gap \in Nat
    PROVE  /\ DisksOK(DiskRates(old, now, gap))
           /\ \A i \in DOMAIN DiskRates(old, now, gap) :
                /\ i \in DOMAIN now /\ Places(old, now[i].name) # {}
                /\ DiskRates(old, now, gap)[i].name = now[i].name
                /\ DiskRates(old, now, gap)[i].bytes <= now[i].bytes
<1> DEFINE rates == DiskRates(old, now, gap)
<1>1. IsList(now) /\ \A i \in DOMAIN now : {now[i].ios, now[i].bytes, now[i].ms, now[i].busy} \subseteq Nat
  BY DEF MaySay
<1>2. \A i \in DOMAIN old : {old[i].ios, old[i].bytes, old[i].ms, old[i].busy} \subseteq Nat
  BY DEF MaySay
<1>3. \A i \in DOMAIN rates :
        /\ gap \in Nat \ {0} /\ i \in DOMAIN now /\ Places(old, now[i].name) # {}
        /\ rates[i] = DiskRate(DiskBefore(old, now[i].name), now[i], gap)
  BY DEF DiskRates, InBoth
<1>4. ASSUME NEW i \in DOMAIN rates
      PROVE  /\ rates[i].name = now[i].name
             /\ rates[i].bytes \in Nat /\ rates[i].wait \in Nat /\ rates[i].util \in 0..100
             /\ rates[i].bytes <= now[i].bytes
  <2> DEFINE before == DiskBefore(old, now[i].name)
             cur == now[i]
  <2>1. /\ gap \in Nat \ {0} /\ i \in DOMAIN now /\ Places(old, now[i].name) # {}
        /\ rates[i] = DiskRate(before, cur, gap)
    BY <1>3
  <2>2. \E j \in DOMAIN old : before = old[j]
    BY <2>1 DEF Places, DiskBefore
  <2>3. /\ before.ios \in Nat /\ before.bytes \in Nat /\ before.ms \in Nat /\ before.busy \in Nat
        /\ cur.ios \in Nat /\ cur.bytes \in Nat /\ cur.ms \in Nat /\ cur.busy \in Nat
    BY <1>1, <1>2, <2>1, <2>2
  <2> HIDE DEF before, cur
  <2>4. /\ rates[i].name = cur.name
        /\ rates[i].bytes = Sub(cur.bytes, before.bytes) \div gap
        /\ rates[i].wait = IF Sub(cur.ios, before.ios) = 0 THEN 0
                           ELSE Sub(cur.ms, before.ms) \div Sub(cur.ios, before.ios)
        /\ rates[i].util = AtMost(Sub(cur.busy, before.busy) \div (10 * gap), 100)
    BY <2>1 DEF DiskRate
  <2>5. /\ Sub(cur.bytes, before.bytes) \in Nat /\ Sub(cur.bytes, before.bytes) <= cur.bytes
        /\ Sub(cur.ios, before.ios) \in Nat /\ Sub(cur.ms, before.ms) \in Nat
        /\ Sub(cur.busy, before.busy) \in Nat
    BY <2>3, SubBounds
  <2>6. 10 * gap \in Nat \ {0}
    BY <2>1, SMT
  <2>7. rates[i].bytes \in Nat /\ rates[i].bytes <= cur.bytes
    <3>1. /\ rates[i].bytes \in Nat
          /\ rates[i].bytes <= Sub(cur.bytes, before.bytes)
      BY <2>1, <2>4, <2>5, Quotient
    <3> QED
      BY <2>3, <2>5, <3>1
  <2>8. rates[i].wait \in Nat
    BY <2>4, <2>5, Quotient
  <2>9. Sub(cur.busy, before.busy) \div (10 * gap) \in Nat
    BY <2>5, <2>6, Quotient
  <2>10. rates[i].util \in 0..100
    BY <2>4, <2>9 DEF AtMost
  <2> QED
    BY <2>4, <2>7, <2>8, <2>10 DEF cur
<1> HIDE DEF rates
<1>5. DOMAIN rates \subseteq DOMAIN now
  BY <1>3
<1>6. DisksOK(rates)
  <2>1. \E n \in Nat : DOMAIN rates \subseteq 1..n
    BY <1>1, <1>5 DEF IsList
  <2>2. ASSUME NEW i \in DOMAIN rates, NEW j \in DOMAIN rates, rates[i].name = rates[j].name
        PROVE  i = j
    BY <1>1, <1>4, <1>5, <2>2 DEF IsList
  <2> QED
    BY <1>4, <2>1, <2>2 DEF DisksOK
<1> QED
  BY <1>3, <1>4, <1>6 DEF rates

LEMMA NetRatesOK ==
    ASSUME NEW old, NEW now, MaySay("net", old), MaySay("net", now), NEW gap \in Nat
    PROVE  /\ NetsOK(NetRates(old, now, gap))
           /\ \A i \in DOMAIN NetRates(old, now, gap) :
                /\ i \in DOMAIN now /\ Places(old, now[i].name) # {}
                /\ NetRates(old, now, gap)[i].name = now[i].name
                /\ NetRates(old, now, gap)[i].errors <= now[i].errors
<1> DEFINE rates == NetRates(old, now, gap)
<1>1. \A i \in DOMAIN now : now[i].errors \in Nat
  BY DEF MaySay
<1>2. \A i \in DOMAIN old : old[i].errors \in Nat
  BY DEF MaySay
<1>3. \A i \in DOMAIN rates :
        /\ gap \in Nat \ {0} /\ i \in DOMAIN now /\ Places(old, now[i].name) # {}
        /\ rates[i] = NetRate(NetBefore(old, now[i].name), now[i], gap)
  BY DEF NetRates, InBoth
<1>4. ASSUME NEW i \in DOMAIN rates
      PROVE  /\ rates[i].name = now[i].name
             /\ rates[i].errors \in Nat /\ rates[i].errors <= now[i].errors
  <2> DEFINE before == NetBefore(old, now[i].name)
             cur == now[i]
             moved == Sub(cur.errors, before.errors)
  <2>1. /\ gap \in Nat \ {0} /\ i \in DOMAIN now /\ Places(old, now[i].name) # {}
        /\ rates[i] = NetRate(before, cur, gap)
    BY <1>3
  <2>2. \E j \in DOMAIN old : before = old[j]
    BY <2>1 DEF Places, NetBefore
  <2>3. before.errors \in Nat /\ cur.errors \in Nat
    BY <1>1, <1>2, <2>1, <2>2
  <2> HIDE DEF before, cur
  <2>4. rates[i].name = cur.name /\ rates[i].errors = (moved + gap - 1) \div gap
    BY <2>1 DEF NetRate
  <2>5. moved \in Nat /\ moved <= cur.errors
    BY <2>3, SubBounds
  <2> HIDE DEF moved
  <2>6. rates[i].errors \in Nat /\ rates[i].errors <= moved
    BY <2>1, <2>4, <2>5, Quotient
  <2> QED
    BY <2>3, <2>4, <2>5, <2>6 DEF cur
<1> HIDE DEF rates
<1> QED
  BY <1>3, <1>4 DEF rates, NetsOK

\* The shares of the time are shares.
LEMMA UsageOK ==
    ASSUME NEW old, NEW now, old \in [CpuTimes -> Nat], now \in [CpuTimes -> Nat]
    PROVE  Usage(old, now) \in [busy : 0..100, steal : Nat, iowait : Nat]
<1> DEFINE share == UsageBetween(old, now)
           whole == Sub(Total(now), Total(old))
<1>1. Total(now) \in Nat /\ Total(old) \in Nat
  BY DEF Total, CpuTimes
<1>2. whole \in Nat
  BY <1>1, SubBounds
<1> HIDE DEF whole
<1>3. ASSUME NEW t \in CpuTimes PROVE share[t] \in Nat
  <2>1. share[t] = Ratio(Sub(now[t], old[t]), whole)
    BY DEF UsageBetween, whole
  <2>2. Sub(now[t], old[t]) \in Nat
    BY SubBounds
  <2>3. whole # 0 => (100 * Sub(now[t], old[t])) \div whole \in Nat
    BY <1>2, <2>2, Quotient
  <2> QED
    BY <2>1, <2>3 DEF Ratio
<1>4. /\ share.user \in Nat /\ share.system \in Nat /\ share.irq \in Nat
      /\ share.steal \in Nat /\ share.iowait \in Nat
  BY <1>3 DEF CpuTimes
<1> HIDE DEF share
<1>5. AtMost(share.user + share.system + share.irq + share.steal, 100) \in 0..100
  BY <1>4 DEF AtMost
<1> QED
  BY <1>4, <1>5 DEF Usage, share

LEMMA NothingReadOK == MetricsOK(NothingRead)
<1>1. NothingRead.pressure \in [{"cpu", "memory", "io"} -> Nat \cup {NoPsi}]
  BY DEF NothingRead
<1>2. /\ NothingRead.memory \in [total : Nat, available : Nat, swap_total : Nat, swap_free : Nat]
      /\ NothingRead.memory.available <= NothingRead.memory.total
  BY DEF NothingRead
<1>3. NothingRead.load \in Nat /\ NothingRead.stat \in [cores : Nat, blocked : Nat]
  BY DEF NothingRead
<1>4. /\ NothingRead.cpu \in [busy : 0..100, steal : Nat, iowait : Nat]
      /\ NothingRead.swap \in Nat
  BY DEF NothingRead
<1>5. DOMAIN NothingRead.disks = {} /\ DOMAIN NothingRead.nets = {}
  BY DEF NothingRead
<1>6. DisksOK(NothingRead.disks) /\ NetsOK(NothingRead.nets)
  BY <1>5 DEF DisksOK, NetsOK
<1> QED
  BY <1>1, <1>2, <1>3, <1>4, <1>6 DEF MetricsOK, MaySay

\* What was read, or once could be read, is what the file may say.
LEMMA ReadMaySay ==
    ASSUME NEW now \in Sample \cup {NoSample}, NEW file \in File, now[file] # Missing
    PROVE  MaySay(file, now[file])
  BY SampleAssumption DEF NoSample

LEMMA MetricsAfterOK ==
    ASSUME MonitorInv, NEW now \in Sample, NEW gap \in Nat
    PROVE  MetricsOK(MetricsAfter(now, gap))
<1> DEFINE x == MetricsAfter(now, gap)
<1>1. \A file \in File : now[file] # Missing => MaySay(file, now[file])
  BY ReadMaySay
<1>2. \A file \in File : prev[file] # Missing => MaySay(file, prev[file])
  BY ReadMaySay DEF MonitorInv
<1>3. MetricsOK(m)
  BY DEF MonitorInv
<1>4. MaySay("pressure", x.pressure)
  <2>1. x.pressure = NothingRead.pressure \/ (now["pressure"] # Missing /\ x.pressure = now["pressure"])
    BY DEF MetricsAfter
  <2>2. MaySay("pressure", NothingRead.pressure)
    BY NothingReadOK DEF MetricsOK
  <2> QED
    BY <1>1, <2>1, <2>2 DEF File
<1>5. MaySay("memory", x.memory)
  <2>1. x.memory = Point(now, "memory", m.memory)
    BY DEF MetricsAfter
  <2> QED
    BY <1>1, <1>3, <2>1 DEF Point, MetricsOK, File
<1>6. MaySay("load", x.load)
  <2>1. x.load = Point(now, "load", m.load)
    BY DEF MetricsAfter
  <2> QED
    BY <1>1, <1>3, <2>1 DEF Point, MetricsOK, File
<1>7. x.stat \in [cores : Nat, blocked : Nat]
  <2>1. x.stat = IF now["stat"] = Missing THEN m.stat
                 ELSE [cores |-> now["stat"].cores, blocked |-> now["stat"].blocked]
    BY DEF MetricsAfter
  <2>2. now["stat"] # Missing => now["stat"].cores \in Nat /\ now["stat"].blocked \in Nat
    BY <1>1 DEF MaySay, File
  <2> QED
    BY <1>3, <2>1, <2>2 DEF MetricsOK
<1>8. x.cpu \in [busy : 0..100, steal : Nat, iowait : Nat]
  <2>1. x.cpu = IF Two(now, "stat") /\ gap > 0
                THEN Usage(prev["stat"].times, now["stat"].times) ELSE m.cpu
    BY DEF MetricsAfter
  <2>2. Two(now, "stat") => prev["stat"].times \in [CpuTimes -> Nat] /\ now["stat"].times \in [CpuTimes -> Nat]
    BY <1>1, <1>2 DEF MaySay, File, Two
  <2> QED
    BY <1>3, <2>1, <2>2, UsageOK DEF MetricsOK
<1>9. x.swap \in Nat
  <2>1. x.swap = IF Two(now, "vm") /\ gap > 0 THEN SwapRate(prev["vm"], now["vm"], gap) ELSE m.swap
    BY DEF MetricsAfter
  <2>2. Two(now, "vm") => prev["vm"] \in Nat /\ now["vm"] \in Nat
    BY <1>1, <1>2 DEF MaySay, File, Two
  <2>3. Two(now, "vm") /\ gap > 0 => SwapRate(prev["vm"], now["vm"], gap) \in Nat
    <3> SUFFICES ASSUME Two(now, "vm"), gap > 0
                 PROVE  Sub(now["vm"], prev["vm"]) \div gap \in Nat
      BY DEF SwapRate
    <3>1. Sub(now["vm"], prev["vm"]) \in Nat
      BY <2>2, SubBounds
    <3>2. gap \in Nat \ {0}
      OBVIOUS
    <3> QED
      BY <3>1, <3>2, Quotient
  <2> QED
    BY <1>3, <2>1, <2>3 DEF MetricsOK
<1>10. DisksOK(x.disks)
  <2>1. x.disks = IF Two(now, "disk") THEN DiskRates(prev["disk"], now["disk"], gap) ELSE m.disks
    BY DEF MetricsAfter
  <2>2. Two(now, "disk") => MaySay("disk", prev["disk"]) /\ MaySay("disk", now["disk"])
    BY <1>1, <1>2 DEF File, Two
  <2> QED
    BY <1>3, <2>1, <2>2, DiskRatesOK DEF MetricsOK
<1>11. NetsOK(x.nets)
  <2>1. x.nets = IF Two(now, "net") THEN NetRates(prev["net"], now["net"], gap) ELSE m.nets
    BY DEF MetricsAfter
  <2>2. Two(now, "net") => MaySay("net", prev["net"]) /\ MaySay("net", now["net"])
    BY <1>1, <1>2 DEF File, Two
  <2> QED
    BY <1>3, <2>1, <2>2, NetRatesOK DEF MetricsOK
<1> HIDE DEF x
<1>12. MetricsOK(x)
  BY <1>4, <1>5, <1>6, <1>7, <1>8, <1>9, <1>10, <1>11 DEF MetricsOK
<1> QED
  BY <1>12 DEF x

\* Whatever command runs, the metrics change by ticks only.
LEMMA MonitorSteps ==
    [Next]_vars => \/ \E now \in Sample, gap \in Nat : Tick(now, gap)
                   \/ UNCHANGED monitorVars
<1> SUFFICES ASSUME [Next]_vars PROVE \/ \E now \in Sample, gap \in Nat : Tick(now, gap)
                                      \/ UNCHANGED monitorVars
  OBVIOUS
<1>1. ASSUME NEW now \in Sample, NEW gap \in Gaps, TuiTick(now, gap)
      PROVE  \E g \in Nat : Tick(now, g)
  BY <1>1, SampleAssumption DEF TuiTick
<1>2. ASSUME NEW now \in Sample, CheckTick(now) PROVE \E g \in Nat : Tick(now, g)
  <2>1. Tick(now, 0) \/ Tick(now, 1)
    BY <1>2 DEF CheckTick
  <2> QED
    BY <2>1
<1>3. ASSUME \/ Quit \/ Markdown \/ \E t \in Tables : Report(t)
             \/ \E bundle \in Bundles \cup {"unknown", None}, present \in Systems :
                    Doctor(bundle, present)
             \/ \E query \in Queries \cup {None}, screen \in Screens \cup {None} :
                    TasksCommand(query, screen)
             \/ \E lines \in Lines : Policy(lines)
      PROVE  UNCHANGED monitorVars
  BY <1>3 DEF Quit, Markdown, Report, Doctor, TasksCommand, Policy, Ends
<1>4. CASE UNCHANGED vars
  BY <1>4 DEF vars
<1> QED
  BY <1>1, <1>2, <1>3, <1>4 DEF Next

LEMMA MonitorStarts == Init => MonitorInv
<1> SUFFICES ASSUME Init PROVE MonitorInv
  OBVIOUS
<1>1. m = NothingRead /\ prev = NoSample /\ io_visible = FALSE /\ samples = 0
  BY DEF Init, MonitorInit
<1>2. MetricsOK(m)
  BY <1>1, NothingReadOK
<1>3. io_visible \in BOOLEAN
  BY <1>1, Zenon
<1>4. samples \in 0..2 /\ prev \in Sample \cup {NoSample}
  BY <1>1
<1> QED
  BY <1>2, <1>3, <1>4 DEF MonitorInv

LEMMA MonitorStays == MonitorInv /\ [Next]_vars => MonitorInv'
<1> SUFFICES ASSUME MonitorInv, [Next]_vars PROVE MonitorInv'
  OBVIOUS
<1>1. ASSUME NEW now \in Sample, NEW gap \in Nat, Tick(now, gap) PROVE MonitorInv'
  <2>1. m' = MetricsAfter(now, gap)
    BY <1>1 DEF Tick
  <2>2. MetricsOK(MetricsAfter(now, gap))
    BY MetricsAfterOK
  <2>3. MetricsOK(m')
    BY <2>1, <2>2
  <2>4. prev' \in Sample \cup {NoSample}
    BY <1>1 DEF Tick
  <2>5. io_visible' \in BOOLEAN
    BY <1>1 DEF Tick, IoVisibleAfter, MonitorInv
  <2>6. samples' \in 0..2
    BY <1>1 DEF Tick, MonitorInv
  <2> QED
    BY <2>3, <2>4, <2>5, <2>6 DEF MonitorInv
<1>2. CASE UNCHANGED monitorVars
  BY <1>2 DEF MonitorInv, monitorVars
<1> QED
  BY <1>1, <1>2, MonitorSteps

LEMMA MonitorHolds == Spec => []MonitorInv
  BY MonitorStarts, MonitorStays, PTL DEF Spec

---------------------------------------------------------------------------------
(* The assessment                                                                  *)

\* A set of verdicts has a worst one.
LEMMA WorstExists ==
    ASSUME NEW S \in SUBSET Verdict, S # {}
    PROVE  Largest(S) \in S /\ \A y \in S : y <= Largest(S)
<1>1. PICK n \in Nat : S \subseteq 0..n
  BY DEF Verdict, Unknown, Ok, Warn, Critical
<1> QED
  BY <1>1, LargestOK

\* The larger of two numbers.
LEMMA LargerOfTwo ==
    ASSUME NEW a \in Int, NEW b \in Int
    PROVE  Largest({a, b}) = IF a >= b THEN a ELSE b
<1>1. \E x \in {a, b} : \A y \in {a, b} : y <= x
  OBVIOUS
<1>2. Largest({a, b}) \in {a, b} /\ \A y \in {a, b} : y <= Largest({a, b})
  BY <1>1 DEF Largest
<1> QED
  BY <1>2

LEMMA PsiOK ==
    ASSUME NEW x, MetricsOK(x), NEW axis \in {"cpu", "memory", "io"}
    PROVE  Psi(x, axis) \in Nat
  BY DEF MetricsOK, MaySay, Psi

LEMMA AvailableOK ==
    ASSUME NEW x, MetricsOK(x)
    PROVE  AvailablePct(x) \in Nat
<1>1. x.memory.total \in Nat /\ x.memory.available \in Nat
  BY DEF MetricsOK, MaySay
<1>2. 100 * x.memory.available \in Nat
  BY <1>1
<1> QED
  BY <1>1, <1>2, Quotient DEF AvailablePct

LEMMA FindingOK ==
    ASSUME NEW x, MetricsOK(x), NEW n \in Nat, NEW axis
    PROVE  /\ Finding(x, n, axis) \in Verdict
           /\ Finding(x, n, axis) = Unknown <=> n < 2
<1>1. /\ Psi(x, "cpu") \in Nat /\ x.cpu.steal \in Nat
  BY PsiOK DEF MetricsOK
<1>2. Cpu(x) \in {Ok, Warn, Critical}
  BY <1>1 DEF Cpu
<1>3. Memory(x) \in {Ok, Warn, Critical}
  BY DEF Memory
<1>4. Disk(x) \in {Ok, Warn, Critical}
  BY DEF Disk
<1>5. Network(x) \in {Ok, Warn, Critical}
  BY DEF Network
<1>6. n < 2 => Finding(x, n, axis) = Unknown
  BY DEF Finding
<1>7. ~(n < 2) => Finding(x, n, axis) \in {Ok, Warn, Critical}
  BY <1>2, <1>3, <1>4, <1>5 DEF Finding
<1> QED
  BY <1>6, <1>7 DEF Verdict, Unknown, Ok, Warn, Critical

LEMMA FindingsOK ==
    ASSUME NEW x, MetricsOK(x), NEW n \in Nat
    PROVE  /\ Findings(x, n) \in [Axis -> Verdict]
           /\ \A a \in Axis : Findings(x, n)[a] = Unknown <=> n < 2
  BY FindingOK DEF Findings

LEMMA WorstOK ==
    ASSUME NEW f \in [Axis -> Verdict]
    PROVE  /\ Worst(f) \in Verdict
           /\ \E a \in Axis : f[a] = Worst(f)
           /\ \A a \in Axis : f[a] <= Worst(f)
<1> DEFINE S == {f[axis] : axis \in Axis}
<1>1. S \in SUBSET Verdict
  OBVIOUS
<1>2. f["cpu"] \in S
  BY DEF Axis
<1>3. Largest(S) \in S /\ \A y \in S : y <= Largest(S)
  BY <1>1, <1>2, WorstExists
<1> QED
  BY <1>1, <1>3 DEF Worst

\* The disk that is first by throughput is one of the disks.
LEMMA FirstUtilOK ==
    ASSUME NEW x, DisksOK(x.disks)
    PROVE  FirstUtil(x) \in Nat
<1> DEFINE S == DOMAIN x.disks
           R == {pair \in S \X S : Ahead(x.disks, pair[1], pair[2])}
<1>1. PICK n \in Nat : S \subseteq 1..n
  BY DEF DisksOK
<1>2. \A i \in S : i \in Nat /\ x.disks[i].bytes \in Nat /\ x.disks[i].util \in Nat
  BY <1>1 DEF DisksOK
<1>3. \A i, j \in S : <<i, j>> \in R <=> Ahead(x.disks, i, j)
  OBVIOUS
<1> HIDE DEF R
<1>4. Orders(R, S)
  <2>1. ASSUME NEW i \in S, NEW j \in S, i # j PROVE <<i, j>> \in R \/ <<j, i>> \in R
    BY <1>2, <1>3, <2>1 DEF Ahead
  <2>2. ASSUME NEW i \in S, NEW j \in S, NEW k \in S, <<i, j>> \in R, <<j, k>> \in R
        PROVE  <<i, k>> \in R
    BY <1>2, <1>3, <2>2 DEF Ahead
  <2> QED
    BY <2>1, <2>2 DEF Orders
<1>5. CASE S = {}
  BY <1>5 DEF FirstUtil
<1>6. CASE S # {}
  <2>1. \E i \in S : \A j \in S \ {i} : <<i, j>> \in R
    <3> HIDE DEF S
    <3> QED
      BY <1>1, <1>4, <1>6, HasFirst, Zenon
  <2>2. \E i \in S : \A j \in S \ {i} : Ahead(x.disks, i, j)
    BY <1>3, <2>1
  <2> DEFINE first == CHOOSE i \in S : \A j \in S \ {i} : Ahead(x.disks, i, j)
  <2>3. first \in S
    BY <2>2
  <2>4. FirstUtil(x) = x.disks[first].util
    BY <1>6 DEF FirstUtil
  <2> QED
    BY <1>2, <2>3, <2>4
<1> QED
  BY <1>5, <1>6

LEMMA ScoreOK ==
    ASSUME NEW x, MetricsOK(x), NEW axis
    PROVE  Score(x, axis) \in Int
<1>1. Psi(x, "cpu") \in Int /\ Psi(x, "memory") \in Int /\ Psi(x, "io") \in Int
  BY PsiOK
<1>2. x.cpu.busy \in Int /\ 100 - AvailablePct(x) \in Int /\ FirstUtil(x) \in Int
  BY AvailableOK, FirstUtilOK DEF MetricsOK
<1>3. /\ Largest({Psi(x, "cpu"), x.cpu.busy}) \in Int
      /\ Largest({Psi(x, "memory"), 100 - AvailablePct(x)}) \in Int
      /\ Largest({Psi(x, "io"), FirstUtil(x)}) \in Int
  BY <1>1, <1>2, LargerOfTwo
<1> QED
  BY <1>3 DEF Score

\* One of the candidates comes first.
LEMMA ChosenOK ==
    ASSUME NEW x, MetricsOK(x), NEW f, Candidates(f) # {}, ~(Worst(f) <= Ok)
    PROVE  \E c \in Candidates(f) :
            /\ Bottleneck(x, f) = AxisOrder[c]
            /\ \A j \in Candidates(f) : Score(x, AxisOrder[j]) <= Score(x, AxisOrder[c])
<1> DEFINE C == Candidates(f)
           score(i) == Score(x, AxisOrder[i])
           ahead(i, j) == \/ score(j) < score(i)
                          \/ score(j) = score(i) /\ i <= j
           R == {pair \in C \X C : ahead(pair[1], pair[2])}
           chosen == CHOOSE i \in C : \A j \in C : ahead(i, j)
<1>1. C \subseteq 1..4
  BY DEF Candidates, AxisOrder
<1>2. \A i \in C : score(i) \in Int
  BY ScoreOK
<1>3. Bottleneck(x, f) = AxisOrder[chosen]
  BY DEF Bottleneck
<1> HIDE DEF score, C, ahead
<1>4. \A i, j \in C : <<i, j>> \in R <=> ahead(i, j)
  OBVIOUS
<1> HIDE DEF R
<1>5. Orders(R, C)
  <2>1. ASSUME NEW i \in C, NEW j \in C, i # j PROVE <<i, j>> \in R \/ <<j, i>> \in R
    BY <1>1, <1>2, <1>4, <2>1 DEF ahead
  <2>2. ASSUME NEW i \in C, NEW j \in C, NEW k \in C, <<i, j>> \in R, <<j, k>> \in R
        PROVE  <<i, k>> \in R
    BY <1>1, <1>2, <1>4, <2>2 DEF ahead
  <2> QED
    BY <2>1, <2>2 DEF Orders
<1>6. \E i \in C : \A j \in C \ {i} : <<i, j>> \in R
  <2>1. PICK n \in Nat : C \subseteq 1..n
    BY <1>1
  <2>2. C # {}
    BY DEF C
  <2> QED
    BY <1>5, <2>1, <2>2, HasFirst, Zenon
<1>7. \A i \in C : ahead(i, i)
  BY <1>1, <1>2 DEF ahead
<1>8. \E i \in C : \A j \in C : ahead(i, j)
  BY <1>4, <1>6, <1>7
<1>9. chosen \in C /\ \A j \in C : ahead(chosen, j)
  BY <1>8
<1> HIDE DEF chosen
<1>10. \A j \in C : score(j) <= score(chosen)
  BY <1>2, <1>9 DEF ahead
<1> QED
  BY <1>3, <1>9, <1>10 DEF score, C

\* One of the axes that are worst is named, and of these none is harder pressed.
LEMMA BottleneckOK ==
    ASSUME NEW x, MetricsOK(x), NEW f \in [Axis -> Verdict], ~(Worst(f) <= Ok)
    PROVE  /\ Bottleneck(x, f) \in Axis
           /\ f[Bottleneck(x, f)] = Worst(f)
           /\ \A a \in Axis : f[a] = Worst(f) => Score(x, a) <= Score(x, Bottleneck(x, f))
<1>1. DOMAIN AxisOrder = 1..4 /\ \A a \in Axis : \E i \in 1..4 : AxisOrder[i] = a
  BY DEF AxisOrder, Axis
<1>2. \A i \in 1..4 : AxisOrder[i] \in Axis
  BY DEF AxisOrder, Axis
<1>3. \A i \in Candidates(f) : AxisOrder[i] \in Axis /\ f[AxisOrder[i]] = Worst(f)
  BY <1>1, <1>2 DEF Candidates
<1>4. \A a \in Axis : f[a] = Worst(f) => \E i \in Candidates(f) : AxisOrder[i] = a
  BY <1>1 DEF Candidates
<1>5. Candidates(f) # {}
  BY <1>4, WorstOK
<1>6. PICK c \in Candidates(f) :
        /\ Bottleneck(x, f) = AxisOrder[c]
        /\ \A j \in Candidates(f) : Score(x, AxisOrder[j]) <= Score(x, AxisOrder[c])
  BY <1>5, ChosenOK
<1> QED
  BY <1>3, <1>4, <1>6

LEMMA ClaimFollows == MonitorInv => ClaimIsBacked
<1> SUFFICES ASSUME MonitorInv PROVE ClaimIsBacked
  OBVIOUS
<1> DEFINE f == Findings(m, samples)
           axis == Bottleneck(m, f)
<1>1. MetricsOK(m) /\ samples \in Nat
  BY DEF MonitorInv
<1>2. f \in [Axis -> Verdict] /\ \A a \in Axis : f[a] = Unknown <=> samples < 2
  BY <1>1, FindingsOK
<1>3. Banner.axes = f /\ Shown.axis = axis /\ Banner.badge = Worst(f)
      /\ Banner.claim = Headline(axis, Worst(f))
  BY DEF Banner, Shown, Assessment
<1> HIDE DEF f
<1>4. /\ Worst(f) \in Verdict
      /\ \E a \in Axis : f[a] = Worst(f)
      /\ \A a \in Axis : f[a] <= Worst(f)
  BY <1>2, WorstOK
<1>5. Worst(f) <= Ok => axis = NoAxis
  BY DEF Bottleneck
<1>6. ~(Worst(f) <= Ok) =>
        /\ axis \in Axis /\ f[axis] = Worst(f)
        /\ \A a \in Axis : f[a] = Worst(f) => Score(m, a) <= Score(m, axis)
  BY <1>1, <1>2, BottleneckOK
<1> HIDE DEF axis
<1>7. NoAxis \notin Axis
  BY DEF NoAxis, Axis
<1>8. axis = NoAxis <=> Worst(f) <= Ok
  BY <1>5, <1>6, <1>7
<1>9. Worst(f) <= Ok <=> \A a \in Axis : f[a] <= Ok
  BY <1>2, <1>4 DEF Verdict, Unknown, Ok, Warn, Critical
<1>10. Worst(f) = Unknown <=> samples < 2
  BY <1>2, <1>4 DEF Verdict, Unknown, Ok, Warn, Critical
<1>11. Worst(f) = Critical <=> \E a \in Axis : f[a] = Critical
  BY <1>2, <1>4 DEF Verdict, Unknown, Ok, Warn, Critical
<1>12. Headline(axis, Worst(f)) =
        IF axis = NoAxis THEN IF Worst(f) = Unknown THEN "measuring" ELSE "nothing saturated"
        ELSE IF Worst(f) = Critical THEN "severe" ELSE "likely"
  BY DEF Headline
<1>13. /\ Banner.claim = "measuring" <=> samples < 2
       /\ Banner.claim = "severe" <=> \E a \in Axis : f[a] = Critical
       /\ Banner.badge <= Ok <=> Banner.claim \in {"measuring", "nothing saturated"}
  <2>1. /\ Worst(f) \in {0, 1, 2, 3}
        /\ Worst(f) = 0 <=> samples < 2
        /\ Worst(f) = 3 <=> \E a \in Axis : f[a] = Critical
        /\ axis = NoAxis <=> Worst(f) <= 1
    BY <1>4, <1>8, <1>10, <1>11 DEF Verdict, Unknown, Ok, Warn, Critical
  <2>2. CASE Worst(f) = 0
    BY <1>3, <1>12, <2>1, <2>2 DEF Unknown, Ok
  <2>3. CASE Worst(f) = 1
    <3>1. axis = NoAxis /\ Worst(f) # Unknown /\ Worst(f) # Critical /\ Worst(f) <= Ok
      BY <2>1, <2>3 DEF Unknown, Ok, Critical
    <3>2. Banner.claim = "nothing saturated"
      BY <1>3, <1>12, <3>1, Zenon
    <3> QED
      BY <1>3, <1>10, <1>11, <3>1, <3>2, Zenon
  <2>4. CASE Worst(f) = 2
    BY <1>3, <1>12, <2>1, <2>4 DEF Unknown, Ok, Critical
  <2>5. CASE Worst(f) = 3
    BY <1>3, <1>12, <2>1, <2>5 DEF Unknown, Ok, Critical
  <2> QED
    BY <2>1, <2>2, <2>3, <2>4, <2>5
<1>14. axis # NoAxis =>
        /\ \A a \in Axis : f[a] <= f[axis]
        /\ \A a \in Axis : f[a] = f[axis] => Score(m, a) <= Score(m, axis)
  BY <1>4, <1>6, <1>8
<1> QED
  BY <1>3, <1>8, <1>9, <1>13, <1>14 DEF ClaimIsBacked

\* Whatever is read, or cannot be read, and however long the ticks are apart, the
\* sentence on top is backed by the verdicts below it.
THEOREM ClaimsAreBacked == Spec => []ClaimIsBacked
  BY MonitorHolds, ClaimFollows, PTL

---------------------------------------------------------------------------------
(* The rates                                                                       *)

\* The rows of a list of processes.
LEMMA RowsOK ==
    ASSUME NEW old, NEW now, MaySay("proc", old), MaySay("proc", now), NEW gap \in Nat,
           NEW pid \in DOMAIN Rows(old, now, gap)
    PROVE  /\ gap # 0 /\ pid \in DOMAIN now
           /\ Rows(old, now, gap)[pid].cpu <= now[pid].ticks
           /\ Rows(old, now, gap)[pid].io <= now[pid].io
           /\ Rows(old, now, gap)[pid].io = NoIo <=> now[pid].io = NoIo
           /\ pid \notin DOMAIN old =>
                Rows(old, now, gap)[pid].cpu = 0 /\ Rows(old, now, gap)[pid].io <= 0
<1> DEFINE row == Rows(old, now, gap)[pid]
<1>1. gap \in Nat \ {0} /\ pid \in DOMAIN now
  BY DEF Rows
<1>2. row.cpu = CpuOf(old, now, gap, pid) /\ row.io = IoOf(old, now, gap, pid)
  BY DEF Rows
<1> HIDE DEF row
<1>3. now[pid].ticks \in Nat /\ now[pid].io \in Nat \cup {-1}
  BY <1>1 DEF MaySay, NoIo
<1>4. pid \in DOMAIN old => old[pid].ticks \in Nat /\ old[pid].io \in Nat \cup {-1}
  BY DEF MaySay, NoIo
<1>5. pid \in DOMAIN old =>
        /\ Sub(now[pid].ticks, old[pid].ticks) \div gap <= now[pid].ticks
  <2> SUFFICES ASSUME pid \in DOMAIN old
               PROVE  Sub(now[pid].ticks, old[pid].ticks) \div gap <= now[pid].ticks
    OBVIOUS
  <2> DEFINE moved == Sub(now[pid].ticks, old[pid].ticks)
  <2>1. moved \in Nat /\ moved <= now[pid].ticks
    BY <1>3, <1>4, SubBounds
  <2> HIDE DEF moved
  <2>2. moved \div gap \in Nat /\ moved \div gap <= moved
    BY <1>1, <2>1, Quotient
  <2>3. moved \div gap <= now[pid].ticks
    BY <1>3, <2>1, <2>2
  <2> QED
    BY <2>3 DEF moved
<1>6. row.cpu <= now[pid].ticks /\ (pid \notin DOMAIN old => row.cpu = 0)
  BY <1>2, <1>3, <1>5 DEF CpuOf
<1>7. now[pid].io # -1 /\ pid \in DOMAIN old /\ old[pid].io # -1 =>
        /\ Sub(now[pid].io, old[pid].io) \div gap \in Nat
        /\ Sub(now[pid].io, old[pid].io) \div gap <= now[pid].io
  <2> SUFFICES ASSUME now[pid].io # -1, pid \in DOMAIN old, old[pid].io # -1
               PROVE  /\ Sub(now[pid].io, old[pid].io) \div gap \in Nat
                      /\ Sub(now[pid].io, old[pid].io) \div gap <= now[pid].io
    OBVIOUS
  <2> DEFINE moved == Sub(now[pid].io, old[pid].io)
  <2>1. now[pid].io \in Nat /\ old[pid].io \in Nat
    BY <1>3, <1>4
  <2>2. moved \in Nat /\ moved <= now[pid].io
    BY <2>1, SubBounds
  <2> HIDE DEF moved
  <2>3. moved \div gap \in Nat /\ moved \div gap <= moved
    BY <1>1, <2>2, Quotient
  <2>4. moved \div gap \in Nat /\ moved \div gap <= now[pid].io
    BY <2>1, <2>2, <2>3
  <2> QED
    BY <2>4 DEF moved
<1>8. /\ row.io <= now[pid].io
      /\ row.io = -1 <=> now[pid].io = -1
      /\ pid \notin DOMAIN old => row.io <= 0
  BY <1>2, <1>3, <1>7 DEF IoOf, NoIo
<1> QED
  BY <1>1, <1>6, <1>8 DEF row, NoIo

LEMMA ProcsTick ==
    ASSUME MonitorInv, NEW now \in Sample, NEW gap \in Nat, Tick(now, gap)
    PROVE  ProcsOfThePresent
<1> SUFFICES ASSUME prev["proc"] # Missing, now["proc"] # Missing
             PROVE  ProcsOfThePresent
  BY DEF Tick, ProcsOfThePresent
<1> DEFINE old == prev["proc"]
           new == now["proc"]
<1>1. rows' = Rows(old, new, gap) /\ prev' = now
  BY DEF Tick, RowsAfter, Two
<1>2. io_visible' <=> \E pid \in DOMAIN new : new[pid].io # NoIo
  BY DEF Tick, IoVisibleAfter
<1>3. MaySay("proc", old) /\ MaySay("proc", new)
  BY ReadMaySay DEF MonitorInv, File
<1> HIDE DEF old, new
<1>4. ASSUME NEW pid \in DOMAIN rows'
      PROVE  /\ gap # 0 /\ pid \in DOMAIN new
             /\ rows'[pid].cpu <= new[pid].ticks
             /\ rows'[pid].io <= new[pid].io
             /\ rows'[pid].io = NoIo <=> new[pid].io = NoIo
             /\ pid \notin DOMAIN old => rows'[pid].cpu = 0 /\ rows'[pid].io <= 0
  BY <1>1, <1>3, RowsOK
<1>5. Culprits'.io # {} => \E pid \in DOMAIN rows' : rows'[pid].io # NoIo
  <2> SUFFICES ASSUME Culprits'.io # {}
               PROVE  \E pid \in DOMAIN rows' : rows'[pid].io # NoIo
    OBVIOUS
  <2>1. io_visible' /\ DOMAIN rows' # {}
    BY DEF Culprits, Heaviest
  <2>2. gap # 0
    BY <1>4, <2>1
  <2>3. DOMAIN rows' = DOMAIN new
    BY <1>1, <2>2 DEF Rows
  <2>4. PICK pid \in DOMAIN new : new[pid].io # NoIo
    BY <1>2, <2>1
  <2> QED
    BY <1>4, <2>3, <2>4
<1> QED
  BY <1>1, <1>4, <1>5 DEF ProcsOfThePresent, old, new

LEMMA DisksTick ==
    ASSUME MonitorInv, NEW now \in Sample, NEW gap \in Nat, Tick(now, gap)
    PROVE  DisksOfThePresent
<1> SUFFICES ASSUME prev["disk"] # Missing, now["disk"] # Missing
             PROVE  DisksOfThePresent
  BY DEF Tick, DisksOfThePresent
<1> DEFINE old == prev["disk"]
           new == now["disk"]
<1>1. m'.disks = DiskRates(old, new, gap) /\ prev' = now
  BY DEF Tick, MetricsAfter, Two
<1>2. MaySay("disk", old) /\ MaySay("disk", new)
  BY ReadMaySay DEF MonitorInv, File
<1> HIDE DEF old, new
<1>3. ASSUME NEW i \in DOMAIN m'.disks
      PROVE  /\ i \in DOMAIN new /\ Places(old, new[i].name) # {}
             /\ m'.disks[i].name = new[i].name
             /\ m'.disks[i].bytes <= new[i].bytes
  BY <1>1, <1>2, DiskRatesOK
<1>4. ASSUME NEW i \in DOMAIN m'.disks
      PROVE  /\ Places(old, m'.disks[i].name) # {}
             /\ i \in Places(new, m'.disks[i].name)
             /\ m'.disks[i].bytes <= new[i].bytes
  BY <1>3 DEF Places
<1> QED
  BY <1>1, <1>4 DEF DisksOfThePresent, old, new

LEMMA NetsTick ==
    ASSUME MonitorInv, NEW now \in Sample, NEW gap \in Nat, Tick(now, gap)
    PROVE  NetsOfThePresent
<1> SUFFICES ASSUME prev["net"] # Missing, now["net"] # Missing
             PROVE  NetsOfThePresent
  BY DEF Tick, NetsOfThePresent
<1> DEFINE old == prev["net"]
           new == now["net"]
<1>1. m'.nets = NetRates(old, new, gap) /\ prev' = now
  BY DEF Tick, MetricsAfter, Two
<1>2. MaySay("net", old) /\ MaySay("net", new)
  BY ReadMaySay DEF MonitorInv, File
<1> HIDE DEF old, new
<1>3. ASSUME NEW i \in DOMAIN m'.nets
      PROVE  /\ i \in DOMAIN new /\ Places(old, new[i].name) # {}
             /\ m'.nets[i].name = new[i].name
             /\ m'.nets[i].errors <= new[i].errors
  BY <1>1, <1>2, NetRatesOK
<1>4. ASSUME NEW i \in DOMAIN m'.nets
      PROVE  /\ Places(old, m'.nets[i].name) # {}
             /\ i \in Places(new, m'.nets[i].name)
             /\ m'.nets[i].errors <= new[i].errors
  BY <1>3 DEF Places
<1> QED
  BY <1>1, <1>4 DEF NetsOfThePresent, old, new

\* Whatever two ticks read, a rate of the second is never more than what the
\* process, the disk or the interface that is there then has counted, and without
\* any i/o that may be read there is no ranking by it.
THEOREM RatesAreOfThePresent == Spec => RateIsOfThePresent
<1>1. ASSUME MonitorInv, [Next]_vars
      PROVE  (ProcsOfThePresent /\ DisksOfThePresent /\ NetsOfThePresent) \/ UNCHANGED monitorVars
  BY <1>1, MonitorSteps, ProcsTick, DisksTick, NetsTick
<1> QED
  BY <1>1, MonitorHolds, PTL DEF Spec, RateIsOfThePresent

---------------------------------------------------------------------------------
(* Worse readings                                                                  *)

\* A smaller share is a smaller percentage.
LEMMA PercentOrder ==
    ASSUME NEW a \in Nat, NEW b \in Nat, NEW s \in Nat \ {0}, NEW t \in Nat \ {0},
           b * s <= a * t
    PROVE  (100 * b) \div t <= (100 * a) \div s
<1> DEFINE p == (100 * b) \div t
           q == (100 * a) \div s
<1>1. p \in Nat /\ p * t <= 100 * b
  BY SMT
<1>2. q \in Nat /\ 100 * a < (q + 1) * s
  BY SMT
<1> HIDE DEF p, q
<1>3. (p * t) * s <= (100 * b) * s
  BY <1>1, SMT
<1>4. (100 * b) * s <= (100 * a) * t
  BY SMT
<1>5. (100 * a) * t < ((q + 1) * s) * t
  BY <1>2, SMT
<1>6. (p * t) * s < ((q + 1) * s) * t
  <2> DEFINE u == (p * t) * s
             v == (100 * b) * s
             w == (100 * a) * t
             z == ((q + 1) * s) * t
  <2>1. u \in Int /\ v \in Int /\ w \in Int /\ z \in Int
    BY <1>1, <1>2, SMT
  <2>2. u <= v /\ v <= w /\ w < z
    BY <1>3, <1>4, <1>5
  <2> HIDE DEF u, v, w, z
  <2>3. u < z
    BY <2>1, <2>2
  <2> QED
    BY <2>3 DEF u, z
<1>7. p * (t * s) < (q + 1) * (t * s)
  BY <1>1, <1>2, <1>6, SMT
<1>8. t * s \in Nat \ {0}
  BY SMT
<1>9. p < q + 1
  BY <1>1, <1>2, <1>7, <1>8, SMT
<1>10. p <= q
  BY <1>1, <1>2, <1>9
<1> QED
  BY <1>10 DEF p, q

LEMMA PsiWorse ==
    ASSUME NEW x, NEW y, MetricsOK(x), MetricsOK(y), NoBetter(x, y),
           NEW axis \in {"cpu", "memory", "io"}
    PROVE  Psi(x, axis) \in Nat /\ Psi(y, axis) \in Nat /\ Psi(x, axis) <= Psi(y, axis)
<1>1. x.pressure[axis] \in Nat \cup {-1} /\ y.pressure[axis] \in Nat \cup {-1}
  BY DEF MetricsOK, MaySay, NoPsi
<1>2. x.pressure[axis] <= y.pressure[axis]
  BY DEF NoBetter
<1> QED
  BY <1>1, <1>2 DEF Psi, NoPsi

LEMMA CpuWorse ==
    ASSUME NEW x, NEW y, MetricsOK(x), MetricsOK(y), NoBetter(x, y), ~Masked(x, y, "cpu")
    PROVE  Cpu(x) <= Cpu(y)
<1>1. /\ Psi(x, "cpu") \in Nat /\ Psi(y, "cpu") \in Nat
      /\ Psi(x, "cpu") <= Psi(y, "cpu")
  BY PsiWorse
<1>2. /\ x.cpu.steal \in Nat /\ y.cpu.steal \in Nat /\ x.cpu.steal <= y.cpu.steal
      /\ x.cpu.busy \in Nat /\ y.cpu.busy \in Nat /\ x.cpu.busy <= y.cpu.busy
  BY DEF MetricsOK, NoBetter
<1>3. y.cpu.steal > 5 => x.cpu.steal > 5
  BY <1>2 DEF Masked, CPU_STEAL_WARN
<1>4. x.load \in Nat /\ y.load \in Nat /\ x.load <= y.load /\ x.stat.cores \in Nat
      /\ y.stat.cores = x.stat.cores
  BY DEF MetricsOK, MaySay, NoBetter
<1>5. /\ LoadAbove(x, 20) => LoadAbove(y, 20)
      /\ LoadAbove(x, 8) => LoadAbove(y, 8)
  BY <1>4 DEF LoadAbove
<1> USE DEF CPU_STEAL_WARN, PSI_CRITICAL, PSI_WARN, LOAD_PER_CORE_CRITICAL, LOAD_PER_CORE_WARN,
            CPU_BUSY_WARN, Ok, Warn, Critical
<1>6. CASE x.cpu.steal > 5
  <2>1. Cpu(x) = 2 /\ Cpu(y) = 2
    BY <1>2, <1>6 DEF Cpu
  <2> QED
    BY <2>1
<1>7. CASE ~(x.cpu.steal > 5)
  <2>1. ~(y.cpu.steal > 5)
    BY <1>3, <1>7
  <2>2. Cpu(x) = IF Psi(x, "cpu") > 50 \/ LoadAbove(x, 20) THEN 3
                 ELSE IF \/ Psi(x, "cpu") > 20 \/ LoadAbove(x, 8) \/ x.cpu.busy > 85
                 THEN 2 ELSE 1
    BY <1>1, <1>2, <1>7 DEF Cpu
  <2>3. Cpu(y) = IF Psi(y, "cpu") > 50 \/ LoadAbove(y, 20) THEN 3
                 ELSE IF \/ Psi(y, "cpu") > 20 \/ LoadAbove(y, 8) \/ y.cpu.busy > 85
                 THEN 2 ELSE 1
    BY <1>1, <1>2, <2>1 DEF Cpu
  <2> QED
    BY <1>1, <1>2, <1>5, <2>2, <2>3
<1> QED
  BY <1>6, <1>7

LEMMA MemoryWorse ==
    ASSUME NEW x, NEW y, MetricsOK(x), MetricsOK(y), NoBetter(x, y)
    PROVE  Memory(x) <= Memory(y)
<1>1. /\ x.memory.total \in Nat \ {0} /\ x.memory.available \in Nat
      /\ y.memory.total \in Nat /\ y.memory.available \in Nat
      /\ y.memory.available * x.memory.total <= x.memory.available * y.memory.total
  BY DEF MetricsOK, MaySay, NoBetter
<1>2. AvailablePct(x) \in Nat /\ AvailablePct(y) \in Nat
  BY AvailableOK
<1>3. AvailablePct(y) <= AvailablePct(x)
  <2>1. CASE y.memory.total = 0
    <3>1. AvailablePct(y) = 0
      BY <2>1 DEF AvailablePct
    <3> QED
      BY <1>2, <3>1
  <2>2. CASE y.memory.total # 0
    <3> DEFINE p == (100 * y.memory.available) \div y.memory.total
               q == (100 * x.memory.available) \div x.memory.total
    <3>1. p <= q
      BY <1>1, <2>2, PercentOrder
    <3>2. AvailablePct(x) = q /\ AvailablePct(y) = p
      BY <1>1, <2>2 DEF AvailablePct
    <3> QED
      BY <3>1, <3>2
  <2> QED
    BY <2>1, <2>2
<1>4. /\ Psi(x, "memory") \in Nat /\ Psi(y, "memory") \in Nat
      /\ Psi(x, "memory") <= Psi(y, "memory")
  BY PsiWorse
<1>5. SwappingOut(x) => SwappingOut(y)
  <2>1. x.swap \in Nat /\ y.swap \in Nat /\ x.swap <= y.swap
    BY DEF MetricsOK, NoBetter
  <2>2. SwapUsed(x) \in Nat /\ SwapUsed(y) \in Nat
    BY DEF MetricsOK, MaySay, SwapUsed
  <2>3. SwapUsed(x) <= SwapUsed(y)
    BY DEF NoBetter
  <2> QED
    BY <2>1, <2>2, <2>3 DEF SwappingOut, SWAP_OUT_WARN
<1> QED
  BY <1>2, <1>3, <1>4, <1>5
  DEF Memory, MEM_AVAILABLE_CRITICAL, MEM_AVAILABLE_WARN, PSI_MEMORY_WARN, Ok, Warn, Critical

\* The busiest disk is one of the disks.
LEMMA BusiestOK ==
    ASSUME NEW x, DisksOK(x.disks), DOMAIN x.disks # {}
    PROVE  Busiest(x) \in DOMAIN x.disks
<1> DEFINE S == DOMAIN x.disks
           above(i, j) == \/ x.disks[j].util < x.disks[i].util
                          \/ x.disks[j].util = x.disks[i].util /\ Ahead(x.disks, j, i)
           R == {pair \in S \X S : above(pair[1], pair[2])}
<1>1. PICK n \in Nat : S \subseteq 1..n
  BY DEF DisksOK
<1>2. \A i \in S : i \in Nat /\ x.disks[i].bytes \in Nat /\ x.disks[i].util \in Nat
  BY <1>1 DEF DisksOK
<1>3. ASSUME NEW i \in S, NEW j \in S, i # j PROVE above(i, j) \/ above(j, i)
  BY <1>2, <1>3 DEF Ahead
<1>4. ASSUME NEW i \in S, NEW j \in S, NEW k \in S, above(i, j), above(j, k) PROVE above(i, k)
  BY <1>2, <1>4 DEF Ahead
<1> HIDE DEF above
<1>5. \A i, j \in S : <<i, j>> \in R <=> above(i, j)
  OBVIOUS
<1> HIDE DEF R
<1>6. Orders(R, S)
  BY <1>3, <1>4, <1>5 DEF Orders
<1>7. \E i \in S : \A j \in S \ {i} : <<i, j>> \in R
  <2>1. S # {}
    OBVIOUS
  <2> HIDE DEF S
  <2> QED
    BY <1>1, <1>6, <2>1, HasFirst, Zenon
<1>8. \E i \in S : \A j \in S \ {i} : above(i, j)
  BY <1>5, <1>7
<1> DEFINE first == CHOOSE i \in S : \A j \in S \ {i} : above(i, j)
<1>9. first \in S
  BY <1>8
<1>10. Busiest(x) = first
  BY DEF Busiest, above
<1> QED
  BY <1>9, <1>10

LEMMA DiskWorse ==
    ASSUME NEW x, NEW y, MetricsOK(x), MetricsOK(y), NoBetter(x, y), ~Masked(x, y, "disk")
    PROVE  Disk(x) <= Disk(y)
<1>1. Psi(x, "io") \in Nat /\ Psi(y, "io") \in Nat /\ Psi(x, "io") <= Psi(y, "io")
  BY PsiWorse
<1>2. /\ x.cpu.iowait \in Nat /\ y.cpu.iowait \in Nat /\ x.cpu.iowait <= y.cpu.iowait
      /\ x.stat.blocked \in Nat /\ y.stat.blocked \in Nat /\ x.stat.blocked <= y.stat.blocked
  BY DEF MetricsOK, NoBetter
<1>3. Saturated(x) => Saturated(y)
  <2> SUFFICES ASSUME Saturated(x), ~Saturated(y) PROVE FALSE
    OBVIOUS
  <2>1. DisksOK(x.disks) /\ DisksOK(y.disks)
    BY DEF MetricsOK
  <2>2. /\ DOMAIN x.disks # {} /\ x.disks[Busiest(x)].util > 80 /\ x.disks[Busiest(x)].wait > 20
    BY DEF Saturated, DISK_UTIL_WARN, DISK_AWAIT_WARN_MS
  <2>3. Busiest(x) \in DOMAIN x.disks
    BY <2>1, <2>2, BusiestOK
  <2>4. PICK j \in DOMAIN y.disks :
            /\ x.disks[Busiest(x)].name = y.disks[j].name
            /\ x.disks[Busiest(x)].util <= y.disks[j].util
            /\ x.disks[Busiest(x)].wait <= y.disks[j].wait
    BY <2>3 DEF NoBetter
  <2>5. Busiest(y) \in DOMAIN y.disks
    BY <2>1, <2>4, BusiestOK
  <2>6. x.disks[Busiest(x)].name = y.disks[Busiest(y)].name
    BY DEF Masked
  <2>7. j = Busiest(y)
    BY <2>1, <2>4, <2>5, <2>6 DEF DisksOK
  <2>8. /\ x.disks[Busiest(x)].util \in Nat /\ x.disks[Busiest(x)].wait \in Nat
        /\ y.disks[j].util \in Nat /\ y.disks[j].wait \in Nat
    <3>1. \A i \in DOMAIN x.disks : x.disks[i].util \in Nat /\ x.disks[i].wait \in Nat
      BY <2>1 DEF DisksOK
    <3>2. \A i \in DOMAIN y.disks : y.disks[i].util \in Nat /\ y.disks[i].wait \in Nat
      BY <2>1 DEF DisksOK
    <3> QED
      BY <2>3, <3>1, <3>2
  <2>9. y.disks[j].util > 80 /\ y.disks[j].wait > 20
    BY <2>2, <2>4, <2>8
  <2> QED
    BY <2>5, <2>7, <2>9 DEF Saturated, DISK_UTIL_WARN, DISK_AWAIT_WARN_MS
<1> QED
  BY <1>1, <1>2, <1>3 DEF Disk, PSI_CRITICAL, PSI_WARN, IOWAIT_WARN, Ok, Warn, Critical

LEMMA NetworkWorse ==
    ASSUME NEW x, NEW y, MetricsOK(x), MetricsOK(y), NoBetter(x, y)
    PROVE  Network(x) <= Network(y)
<1>1. /\ \A i \in DOMAIN x.nets : x.nets[i].errors \in Nat
      /\ \A i \in DOMAIN y.nets : y.nets[i].errors \in Nat
  BY DEF MetricsOK, NetsOK
<1>2. \A i \in DOMAIN x.nets : \E j \in DOMAIN y.nets : x.nets[i].errors <= y.nets[j].errors
  BY DEF NoBetter
<1>3. (\E i \in DOMAIN x.nets : x.nets[i].errors > 0)
        => \E j \in DOMAIN y.nets : y.nets[j].errors > 0
  BY <1>1, <1>2
<1> QED
  BY <1>3 DEF Network, Ok, Warn

LEMMA FindingsWorse ==
    ASSUME NEW x, NEW y, MetricsOK(x), MetricsOK(y), NoBetter(x, y), NEW axis \in Axis
    PROVE  Masked(x, y, axis) \/ Findings(x, 2)[axis] <= Findings(y, 2)[axis]
<1>1. /\ Findings(x, 2)[axis] = Finding(x, 2, axis)
      /\ Findings(y, 2)[axis] = Finding(y, 2, axis)
  BY DEF Findings
<1>2. CASE axis = "cpu"
  BY <1>1, <1>2, CpuWorse DEF Finding
<1>3. CASE axis = "memory"
  BY <1>1, <1>3, MemoryWorse DEF Finding
<1>4. CASE axis = "disk"
  BY <1>1, <1>4, DiskWorse DEF Finding
<1>5. CASE axis = "network"
  BY <1>1, <1>5, NetworkWorse DEF Finding
<1> QED
  BY <1>2, <1>3, <1>4, <1>5 DEF Axis

\* Whatever is read, no verdict is better after a tick that read nothing better; the
\* exceptions are the two in which the code looks away.
THEOREM WorseLooksNoBetter == Spec => WorseNeverLooksBetter
<1>1. MonitorInv /\ MonitorInv' =>
        (samples = 2 /\ NoBetter(m, m') => \A axis \in Axis :
            \/ Masked(m, m', axis)
            \/ Findings(m, 2)[axis] <= Findings(m', 2)[axis])
  <2> SUFFICES ASSUME MonitorInv, MonitorInv', NoBetter(m, m'), NEW axis \in Axis
               PROVE  Masked(m, m', axis) \/ Findings(m, 2)[axis] <= Findings(m', 2)[axis]
    OBVIOUS
  <2>1. MetricsOK(m) /\ MetricsOK(m')
    BY DEF MonitorInv
  <2> QED
    BY <2>1, FindingsWorse
<1> QED
  BY <1>1, MonitorHolds, PTL DEF Spec, WorseNeverLooksBetter

---------------------------------------------------------------------------------
(* The exit codes                                                                  *)

\* What is said of a mount table.
LEMMA StorageOK ==
    ASSUME NEW t
    PROVE  /\ StorageFindings(t) \in SUBSET Verdict
           /\ StorageWorst(t) \in Verdict
           /\ StorageWorst(t) = Critical <=> Critical \in Notable(t)
           /\ StorageWorst(t) = Warn <=> Warn \in Notable(t) /\ Critical \notin Notable(t)
<1> DEFINE S == StorageFindings(t)
<1>1. \A mount : SpaceVerdict(mount) \in Verdict
  BY DEF SpaceVerdict, Verdict
<1>2. \A u : InodeVerdict(u) \in Verdict
  BY DEF InodeVerdict, Verdict
<1>3. Range(SpaceFindings(UsageOf(t))) \subseteq Verdict
  BY <1>1 DEF Range, SpaceFindings
<1>4. Range(InodeFindings(UsageOf(t))) \subseteq Verdict
  BY <1>2 DEF Range, InodeFindings
<1>5. S \in SUBSET Verdict
  BY <1>3, <1>4 DEF StorageFindings
<1>6. Notable(t) = {v \in S : v >= Warn}
  BY DEF Notable
<1>7. StorageWorst(t) = IF S = {} THEN Ok ELSE Largest(S)
  BY DEF StorageWorst
<1> HIDE DEF S
<1>8. S # {} => Largest(S) \in S /\ \A y \in S : y <= Largest(S)
  BY <1>5, WorstExists
<1> USE DEF Verdict, Unknown, Ok, Warn, Critical
<1>9. StorageWorst(t) \in Verdict
  BY <1>5, <1>7, <1>8
<1>10. /\ StorageWorst(t) = Critical <=> Critical \in S
       /\ StorageWorst(t) = Warn <=> Warn \in S /\ Critical \notin S
  <2>1. CASE S = {}
    <3>1. StorageWorst(t) = 1 /\ 2 \notin S /\ 3 \notin S
      BY <1>7, <2>1
    <3> QED
      BY <3>1
  <2>2. CASE S # {}
    <3> DEFINE w == StorageWorst(t)
    <3>1. w \in S /\ (\A y \in S : y <= w) /\ w \in {0, 1, 2, 3}
      BY <1>5, <1>7, <1>8, <2>2
    <3> HIDE DEF w
    <3>2. 3 \in S => 3 <= w
      BY <3>1
    <3>3. 2 \in S => 2 <= w
      BY <3>1
    <3>4. /\ w = 3 <=> 3 \in S
          /\ w = 2 <=> 2 \in S /\ 3 \notin S
      BY <3>1, <3>2, <3>3
    <3> QED
      BY <3>4 DEF w
  <2> QED
    BY <2>1, <2>2
<1>11. /\ Critical \in S <=> Critical \in Notable(t)
       /\ Warn \in S <=> Warn \in Notable(t)
  BY <1>6
<1> QED
  BY <1>5, <1>9, <1>10, <1>11 DEF S

\* A filesystem of which nothing is printed has room.
LEMMA NothingPrinted ==
    ASSUME NEW t, IsTable(t), Notable(t) = {}, NEW i \in DOMAIN t,
           IsUserFilesystem(t[i]), t[i].usage # NoAnswer, t[i].usage.total # 0
    PROVE  \/ \E j \in 1..(i - 1) : t[j].dev = t[i].dev
           \/ /\ ~UsedAtLeast(t[i].usage, SPACE_WARN_PCT)
              /\ ~InodesAtLeast(t[i].usage, INODE_WARN_PCT)
<1> SUFFICES ASSUME ~\E j \in 1..(i - 1) : t[j].dev = t[i].dev
             PROVE  /\ ~UsedAtLeast(t[i].usage, SPACE_WARN_PCT)
                    /\ ~InodesAtLeast(t[i].usage, INODE_WARN_PCT)
  OBVIOUS
<1>1. DOMAIN t = 1..Len(t) /\ Len(t) \in Nat
  BY DEF IsTable
<1>2. i \in OncePerDevice(t)
  BY <1>1 DEF OncePerDevice
<1>3. i \in DOMAIN UsageOf(t) /\ UsageOf(t)[i] = t[i]
  BY <1>2 DEF UsageOf
<1>4. SpaceVerdict(t[i]) \in StorageFindings(t)
  BY <1>3 DEF StorageFindings, SpaceFindings, Range
<1>5. InodeVerdict(t[i].usage) \in StorageFindings(t)
  BY <1>3 DEF StorageFindings, InodeFindings, Range
<1>6. ~(SpaceVerdict(t[i]) >= Warn) /\ ~(InodeVerdict(t[i].usage) >= Warn)
  BY <1>4, <1>5 DEF Notable
<1>7. ~UsedAtLeast(t[i].usage, SPACE_WARN_PCT)
  BY <1>6 DEF SpaceVerdict, Warn, Critical
<1>8. ~InodesAtLeast(t[i].usage, INODE_WARN_PCT)
  BY <1>6 DEF InodeVerdict, Warn, Critical
<1> QED
  BY <1>7, <1>8

\* A sum that is added up from the front exists, and is more than nothing when each
\* of its parts is.
LEMMA TotalExists ==
    ASSUME NEW L \in Nat, NEW B
    PROVE  \E f : f = [n \in 0..L |-> IF n = 0 THEN 0 ELSE f[n - 1] + B[n]]
<1> DEFINE Adds(f, k) == f = [n \in 0..k |-> IF n = 0 THEN 0 ELSE f[n - 1] + B[n]]
           T == {k \in Nat : \E f : Adds(f, k)}
<1>1. 0 \in T
  <2> DEFINE f == [n \in 0..0 |-> 0]
  <2>1. f = [n \in 0..0 |-> IF n = 0 THEN 0 ELSE f[n - 1] + B[n]]
    OBVIOUS
  <2> HIDE DEF f
  <2> QED
    BY <2>1
<1>2. ASSUME NEW k \in T PROVE k + 1 \in T
  <2>1. PICK f : Adds(f, k)
    OBVIOUS
  <2>2. k \in Nat
    OBVIOUS
  <2> DEFINE g == [n \in 0..(k + 1) |-> IF n = k + 1 THEN f[k] + B[k + 1] ELSE f[n]]
  <2>3. \A n \in 0..k : f[n] = IF n = 0 THEN 0 ELSE f[n - 1] + B[n]
    <3> HIDE DEF T
    <3> QED
      BY <2>1
  <2>4. ASSUME NEW n \in 0..(k + 1)
        PROVE  g[n] = IF n = 0 THEN 0 ELSE g[n - 1] + B[n]
    <3>1. CASE n = k + 1
      BY <2>2, <3>1
    <3>2. CASE n # k + 1
      <4>1. n \in 0..k /\ g[n] = f[n]
        BY <2>2, <3>2
      <4>2. n # 0 => n - 1 \in 0..(k + 1) /\ n - 1 # k + 1 /\ g[n - 1] = f[n - 1]
        BY <2>2, <4>1
      <4> HIDE DEF g
      <4> QED
        BY <2>3, <4>1, <4>2
    <3> QED
      BY <3>1, <3>2
  <2>5. DOMAIN g = 0..(k + 1) /\ g = [n \in 0..(k + 1) |-> g[n]]
    OBVIOUS
  <2> HIDE DEF g
  <2>6. Adds(g, k + 1)
    BY <2>4, <2>5
  <2> QED
    BY <2>2, <2>6
<1> HIDE DEF T
<1>3. T = Nat
  <2>1. T \subseteq Nat
    BY DEF T
  <2> QED
    BY <1>1, <1>2, <2>1, Induct
<1> QED
  BY <1>3 DEF T

LEMMA TotalPositive ==
    ASSUME NEW L \in Nat, NEW B, \A n \in 1..L : B[n] \in Nat \ {0},
           NEW f, \A n \in 0..L : f[n] = IF n = 0 THEN 0 ELSE f[n - 1] + B[n], L # 0
    PROVE  f[L] \in Nat /\ f[L] > 0
<1> DEFINE T == {n \in Nat : n \in 0..L => f[n] \in Nat /\ (n # 0 => f[n] > 0)}
<1>1. 0 \in T
  OBVIOUS
<1>2. ASSUME NEW n \in T PROVE n + 1 \in T
  <2> SUFFICES ASSUME n + 1 \in 0..L PROVE f[n + 1] \in Nat /\ f[n + 1] > 0
    OBVIOUS
  <2>1. f[n] \in Nat /\ B[n + 1] \in Nat \ {0}
    OBVIOUS
  <2>2. f[n + 1] = f[n] + B[n + 1]
    OBVIOUS
  <2> QED
    BY <2>1, <2>2
<1> HIDE DEF T
<1>3. T = Nat
  <2>1. T \subseteq Nat
    BY DEF T
  <2> QED
    BY <1>1, <1>2, <2>1, Induct
<1> QED
  BY <1>3 DEF T

\* A word counts exactly when it occurs.
LEMMA BestOK ==
    ASSUME NEW i \in DOMAIN Tasks, NEW term \in DOMAIN Tasks[i].found
    PROVE  /\ Best(Tasks[i], term) \in Nat
           /\ Best(Tasks[i], term) = 0 <=> Tasks[i].found[term] = {}
<1> DEFINE places == Tasks[i].found[term]
           S == {0} \cup {Weight[place] : place \in places}
<1>1. places \subseteq DOMAIN Weight
  BY FoundAssumption
<1> HIDE DEF places
<1>2. \A place \in places : Weight[place] \in 1..100
  BY <1>1 DEF Weight
<1>3. S \subseteq 0..100 /\ S # {}
  BY <1>2
<1>4. Largest(S) \in S /\ \A y \in S : y <= Largest(S)
  <2> HIDE DEF S
  <2>1. PICK n \in Nat : S \subseteq 0..n
    BY <1>3
  <2> QED
    BY <1>3, <2>1, LargestOK
<1>5. Best(Tasks[i], term) = Largest(S)
  BY DEF Best, places
<1>6. Largest(S) = 0 <=> places = {}
  BY <1>2, <1>4
<1> QED
  BY <1>3, <1>4, <1>5, <1>6 DEF places

\* A task is found exactly when every word occurs in it.
LEMMA FoundOK ==
    ASSUME NEW i \in DOMAIN Tasks, NEW terms \in Seq(DOMAIN Tasks[i].found), terms # <<>>
    PROVE  ScoreOf(Tasks[i], terms) > 0 <=> \A j \in DOMAIN terms : Tasks[i].found[terms[j]] # {}
<1> DEFINE B == [n \in 1..Len(terms) |-> Best(Tasks[i], terms[n])]
<1>1. Len(terms) \in Nat /\ Len(terms) # 0 /\ DOMAIN terms = 1..Len(terms)
  OBVIOUS
<1>2. \A j \in 1..Len(terms) : terms[j] \in DOMAIN Tasks[i].found
  OBVIOUS
<1>3. \A j \in 1..Len(terms) :
        /\ B[j] \in Nat
        /\ B[j] = 0 <=> Tasks[i].found[terms[j]] = {}
  BY <1>2, BestOK
<1>4. CASE \E j \in DOMAIN terms : Best(Tasks[i], terms[j]) = 0
  <2>1. ScoreOf(Tasks[i], terms) = 0
    BY <1>4 DEF ScoreOf
  <2>2. ~\A j \in DOMAIN terms : Tasks[i].found[terms[j]] # {}
    BY <1>1, <1>3, <1>4
  <2> QED
    BY <2>1, <2>2
<1>5. CASE ~\E j \in DOMAIN terms : Best(Tasks[i], terms[j]) = 0
  <2>1. \A j \in 1..Len(terms) : B[j] \in Nat \ {0}
    BY <1>1, <1>3, <1>5
  <2> DEFINE sums(f) == [n \in 0..Len(terms) |->
                            IF n = 0 THEN 0 ELSE f[n - 1] + Best(Tasks[i], terms[n])]
             adds(f) == [n \in 0..Len(terms) |-> IF n = 0 THEN 0 ELSE f[n - 1] + B[n]]
             total == CHOOSE f : f = sums(f)
  <2>2. ScoreOf(Tasks[i], terms) = total[Len(terms)]
    BY <1>5 DEF ScoreOf
  <2>3. \A f : adds(f) = sums(f)
    <3> TAKE f
    <3>1. \A n \in 0..Len(terms) : n = 0 \/ B[n] = Best(Tasks[i], terms[n])
      BY <1>1
    <3> QED
      BY <3>1
  <2> HIDE DEF B
  <2>4. \E f : f = adds(f)
    BY <1>1, TotalExists
  <2> HIDE DEF sums, adds
  <2>5. \E f : f = sums(f)
    BY <2>3, <2>4
  <2>6. total = adds(total)
    BY <2>3, <2>5
  <2> HIDE DEF total
  <2>7. \A n \in 0..Len(terms) : total[n] = IF n = 0 THEN 0 ELSE total[n - 1] + B[n]
    <3>1. \A n \in 0..Len(terms) :
            adds(total)[n] = IF n = 0 THEN 0 ELSE total[n - 1] + B[n]
      BY DEF adds
    <3> QED
      BY <2>6, <3>1, Zenon
  <2>8. total[Len(terms)] > 0
    BY <1>1, <2>1, <2>7, TotalPositive
  <2>9. \A j \in DOMAIN terms : Tasks[i].found[terms[j]] # {}
    BY <1>1, <1>3, <2>1
  <2> QED
    BY <2>2, <2>8, <2>9
<1> QED
  BY <1>4, <1>5

\* What the command has read, and the code it has ended with.
ExitInv ==
    /\ command \in {"tui", "check", "doctor", "tasks", "policy"}
    /\ exit \in {NoExit, 0, 1, 2}
    /\ Ended("check") =>
        /\ input \in Tables
        /\ exit = ExitCode(Largest({Worst(Shown.findings), StorageWorst(input)}))
    /\ Ended("doctor") =>
        exit = IF input.bundle \notin Bundles \cup {None} THEN 2
               ELSE IF Listed(input.bundle, input.present) # {} THEN 1 ELSE 0
    /\ Ended("tasks") /\ input.query # None =>
        /\ input.query \in Queries
        /\ exit = IF DOMAIN Find(input.query) = {} THEN 1 ELSE 0

LEMMA ExitStarts == Init => ExitInv
<1> SUFFICES ASSUME Init PROVE ExitInv
  OBVIOUS
<1>1. command \in {"tui", "check", "doctor", "tasks", "policy"} /\ exit = NoExit
  BY DEF Init
<1> QED
  BY <1>1 DEF ExitInv, Ended

LEMMA ExitStays == ExitInv /\ [Next]_vars => ExitInv'
<1> SUFFICES ASSUME ExitInv, [Next]_vars PROVE ExitInv'
  OBVIOUS
<1>1. ASSUME command' = command, exit' = NoExit PROVE ExitInv'
  BY <1>1 DEF ExitInv, Ended
<1>2. \A worst : ExitCode(worst) \in {0, 1, 2}
  BY DEF ExitCode
<1>3. ASSUME NEW now, NEW gap, TuiTick(now, gap) PROVE ExitInv'
  BY <1>1, <1>3 DEF TuiTick, Running
<1>4. CASE Quit
  BY <1>4 DEF Quit, Running, Ends, ExitInv, Ended
<1>5. ASSUME NEW now, CheckTick(now) PROVE ExitInv'
  BY <1>1, <1>5 DEF CheckTick, Running
<1>6. ASSUME NEW t \in Tables, Report(t) PROVE ExitInv'
  <2>1. /\ command = "check" /\ command' = command /\ input' = t /\ UNCHANGED monitorVars
        /\ exit' = ExitCode(Largest({Worst(Shown.findings), StorageWorst(t)}))
    BY <1>6 DEF Report, Running, Ends
  <2>2. Shown' = Shown
    BY <2>1 DEF Shown, monitorVars
  <2>3. exit' = ExitCode(Largest({Worst(Shown'.findings), StorageWorst(input')}))
    BY <2>1, <2>2
  <2>4. exit' \in {0, 1, 2}
    BY <1>2, <2>3
  <2> QED
    BY <2>1, <2>3, <2>4 DEF ExitInv, Ended
<1>7. ASSUME NEW bundle, NEW present, Doctor(bundle, present) PROVE ExitInv'
  <2>1. /\ command = "doctor" /\ command' = command
        /\ input'.bundle = bundle /\ input'.present = present
        /\ exit' = IF bundle \notin Bundles \cup {None} THEN 2
                   ELSE IF Listed(bundle, present) # {} THEN 1 ELSE 0
    BY <1>7 DEF Doctor, Running, Ends
  <2>2. exit' = IF input'.bundle \notin Bundles \cup {None} THEN 2
                ELSE IF Listed(input'.bundle, input'.present) # {} THEN 1 ELSE 0
    BY <2>1
  <2>3. exit' \in {0, 1, 2}
    BY <2>1
  <2> QED
    BY <2>1, <2>2, <2>3 DEF ExitInv, Ended
<1>8. ASSUME NEW query \in Queries \cup {None}, NEW screen, TasksCommand(query, screen)
      PROVE  ExitInv'
  <2>1. /\ command = "tasks" /\ command' = command /\ input'.query = query
        /\ exit' = IF query # None THEN IF DOMAIN Find(query) = {} THEN 1 ELSE 0
                   ELSE IF screen # None /\ screen \notin 1..14 THEN 2 ELSE 0
    BY <1>8 DEF TasksCommand, Running, Ends
  <2>2. exit' \in {0, 1, 2}
    BY <2>1
  <2>3. input'.query # None =>
            /\ input'.query \in Queries
            /\ exit' = IF DOMAIN Find(input'.query) = {} THEN 1 ELSE 0
    BY <2>1
  <2> QED
    BY <2>1, <2>2, <2>3 DEF ExitInv, Ended
<1>9. CASE Markdown
  <2>1. /\ command = "tasks" /\ command' = command /\ input'.query = None /\ exit' = 0
    BY <1>9 DEF Markdown, Running, Ends
  <2> QED
    BY <2>1 DEF ExitInv, Ended
<1>10. ASSUME NEW lines, Policy(lines) PROVE ExitInv'
  <2>1. /\ command = "policy" /\ command' = command /\ exit' \in {0, 1}
    BY <1>10 DEF Policy, Running, Ends
  <2> QED
    BY <2>1 DEF ExitInv, Ended
<1>11. CASE UNCHANGED vars
  <2>1. command' = command /\ input' = input /\ exit' = exit /\ UNCHANGED monitorVars
    BY <1>11 DEF vars
  <2>2. Shown' = Shown
    BY <2>1 DEF Shown, monitorVars
  <2> QED
    BY <2>1, <2>2 DEF ExitInv, Ended
<1> QED
  BY <1>3, <1>4, <1>5, <1>6, <1>7, <1>8, <1>9, <1>10, <1>11 DEF Next

\* check ends with the worst of what it has printed.
LEMMA CheckExit ==
    ASSUME MonitorInv, ExitInv, Ended("check")
    PROVE  LET printed == {Shown.findings[a] : a \in Axis} \cup Notable(input)
           IN  /\ exit = 2 <=> Critical \in printed
               /\ exit = 1 <=> Warn \in printed /\ Critical \notin printed
<1> DEFINE f == Shown.findings
           w == Worst(f)
           s == StorageWorst(input)
<1>1. f \in [Axis -> Verdict]
  BY FindingsOK DEF MonitorInv, Shown, Assessment
<1>2. exit = ExitCode(Largest({w, s}))
  BY DEF ExitInv
<1> HIDE DEF f
<1>3. w \in Verdict /\ (\E a \in Axis : f[a] = w) /\ \A a \in Axis : f[a] <= w
  BY <1>1, WorstOK
<1>4. /\ s \in Verdict
      /\ s = Critical <=> Critical \in Notable(input)
      /\ s = Warn <=> Warn \in Notable(input) /\ Critical \notin Notable(input)
  BY StorageOK
<1> HIDE DEF w, s
<1> USE DEF Verdict, Unknown, Ok, Warn, Critical
<1>5. Largest({w, s}) = IF w >= s THEN w ELSE s
  BY <1>3, <1>4, LargerOfTwo
<1>6. /\ w = 3 <=> \E a \in Axis : f[a] = 3
      /\ w = 2 => \E a \in Axis : f[a] = 2
      /\ (\E a \in Axis : f[a] = 2) => w = 2 \/ w = 3
  BY <1>1, <1>3
<1>7. /\ exit = 2 <=> w = 3 \/ s = 3
      /\ exit = 1 <=> (w = 2 \/ s = 2) /\ w # 3 /\ s # 3
  BY <1>2, <1>3, <1>4, <1>5 DEF ExitCode
<1>8. /\ exit = 2 <=> (\E a \in Axis : f[a] = 3) \/ 3 \in Notable(input)
      /\ exit = 1 <=> /\ (\E a \in Axis : f[a] = 2) \/ 2 \in Notable(input)
                      /\ ~(\E a \in Axis : f[a] = 3) /\ 3 \notin Notable(input)
  BY <1>4, <1>6, <1>7
<1> QED
  BY <1>8 DEF f

\* doctor ends with 1 exactly when a tool that applies has none of its programs.
LEMMA DoctorExit ==
    ASSUME ExitInv, Ended("doctor"), exit # 2
    PROVE  exit = 1 <=> \E i \in DOMAIN Tools :
            /\ input.bundle \in {None, Tools[i].bundle}
            /\ Tools[i].only_if \in input.present \cup {NoPath}
            /\ Tools[i].binaries \cap input.present = {}
<1> DEFINE L == Listed(input.bundle, input.present)
<1>1. exit = 1 <=> L # {}
  BY DEF ExitInv
<1>2. \A i \in DOMAIN Tools :
        StatusOf(Tools[i], input.present) = "missing" <=>
            /\ Tools[i].only_if \in input.present \cup {NoPath}
            /\ Tools[i].binaries \cap input.present = {}
  BY DEF StatusOf
<1>3. \A i : i \in L <=> /\ i \in DOMAIN Tools
                         /\ input.bundle \in {None, Tools[i].bundle}
                         /\ StatusOf(Tools[i], input.present) = "missing"
  BY DEF Listed, InBundle
<1> HIDE DEF L
<1> QED
  BY <1>1, <1>2, <1>3

\* tasks ends with 1 exactly when there is no task in which every word occurs.
LEMMA TasksExit ==
    ASSUME ExitInv, Ended("tasks"), input.query \notin {None, <<>>}
    PROVE  exit = 1 <=> \A i \in DOMAIN Tasks : \E j \in DOMAIN input.query :
            Tasks[i].found[input.query[j]] = {}
<1>1. input.query \in Queries /\ (exit = 1 <=> DOMAIN Find(input.query) = {})
  BY DEF ExitInv
<1>2. \A i : i \in DOMAIN Find(input.query) <=>
            i \in DOMAIN Tasks /\ ScoreOf(Tasks[i], input.query) > 0
  BY DEF Find
<1>3. ASSUME NEW i \in DOMAIN Tasks
      PROVE  ScoreOf(Tasks[i], input.query) > 0 <=>
                \A j \in DOMAIN input.query : Tasks[i].found[input.query[j]] # {}
  <2>1. input.query \in Seq(DOMAIN Tasks[i].found)
    BY <1>1, QueriesAssumption
  <2> QED
    BY <2>1, FoundOK
<1> QED
  BY <1>1, <1>2, <1>3

LEMMA ExitFollows == MonitorInv /\ ExitInv => ExitCodeIsWhatIsPrinted
<1> SUFFICES ASSUME MonitorInv, ExitInv PROVE ExitCodeIsWhatIsPrinted
  OBVIOUS
<1>1. ASSUME Ended("check"), Notable(input) = {}, NEW i \in DOMAIN input,
             IsUserFilesystem(input[i]),
             input[i].usage # NoAnswer, input[i].usage.total # 0
      PROVE  \/ \E j \in 1..(i - 1) : input[j].dev = input[i].dev
             \/ /\ ~UsedAtLeast(input[i].usage, SPACE_WARN_PCT)
                /\ ~InodesAtLeast(input[i].usage, INODE_WARN_PCT)
  <2>1. IsTable(input)
    BY <1>1, TablesAssumption DEF ExitInv
  <2> QED
    BY <1>1, <2>1, NothingPrinted
<1> QED
  BY <1>1, CheckExit, DoctorExit, TasksExit DEF ExitCodeIsWhatIsPrinted

LEMMA ExitHolds == Spec => []ExitInv
  BY ExitStarts, ExitStays, PTL DEF Spec

\* Whatever is read, mounted, installed and looked for, the exit code tells what was
\* printed, and nothing is left out of it that has no room left.
THEOREM ExitCodesTellWhatIsPrinted == Spec => []ExitCodeIsWhatIsPrinted
  BY MonitorHolds, ExitHolds, ExitFollows, PTL

\* The metrics, the verdicts and the exit code are always of their types.
THEOREM TypesAreKept == Spec => []TypeOK
<1>1. MonitorInv /\ ExitInv => TypeOK
  <2> SUFFICES ASSUME MonitorInv, ExitInv PROVE TypeOK
    OBVIOUS
  <2>1. m.memory.total \in Nat /\ m.swap \in Nat /\ m.cpu.busy \in 0..100
    BY DEF MonitorInv, MetricsOK, MaySay
  <2>2. \A i \in DOMAIN m.disks : m.disks[i].util \in 0..100
    BY DEF MonitorInv, MetricsOK, DisksOK
  <2>3. Shown.findings \in [Axis -> Verdict]
    BY FindingsOK DEF MonitorInv, Shown, Assessment
  <2>4. io_visible \in BOOLEAN /\ samples \in 0..2
    BY DEF MonitorInv
  <2> QED
    BY <2>1, <2>2, <2>3, <2>4 DEF TypeOK, MonitorTypeOK, ExitInv
<1> QED
  BY <1>1, MonitorHolds, ExitHolds, PTL

---------------------------------------------------------------------------------
(* The gate                                                                        *)

\* A policy that can be compared with arguments: its tokens are those that Gate can
\* build, and none of them is the text that flags of one letter do not have.
IsToken(token) ==
    \/ \E l : token = Letter(l)
    \/ \E text : text # NoText /\ token = Whole(text)
    \/ token = Assignment

Refused(policy, args) == \E i \in DOMAIN args : Modifies(policy, args[i])

\* An argument says what it matches, and matches what it says and does not join.
LEMMA MatchIsSaid ==
    ASSUME NEW arg, NEW token, IsToken(token), arg.sets \in BOOLEAN
    PROVE  /\ ArgMatches(arg, token) => token \in ArgSays(arg)
           /\ token \in ArgSays(arg) => ArgMatches(arg, token) \/ token \in SaidJoined(arg)
<1>0. \A t \in SaidJoined(arg) : t.kind = "whole"
  BY DEF SaidJoined, Wholes, Whole
<1>1. CASE \E l : token = Letter(l)
  <2> PICK l : token = Letter(l)
    BY <1>1
  <2>1. token.kind = "letter" /\ token.text = l
    BY DEF Letter
  <2>2. ArgMatches(arg, token) <=> arg.dashes = 1 /\ l \in arg.letters
    BY <2>1 DEF ArgMatches
  <2>3. token \in ArgSays(arg) <=> arg.dashes = 1 /\ token \in Letters(arg.letters)
    <3>1. token \notin SaidJoined(arg)
      BY <1>0, <2>1
    <3>2. QED
      BY <3>1 DEF ArgSays, Letter, Wholes, Whole, Assignment
  <2>4. token \in Letters(arg.letters) <=> l \in arg.letters
    BY DEF Letters, Letter
  <2> QED
    BY <2>2, <2>3, <2>4
<1>2. CASE \E text : text # NoText /\ token = Whole(text)
  <2> PICK text : text # NoText /\ token = Whole(text)
    BY <1>2
  <2>1. token.kind = "whole" /\ token.text = text
    BY DEF Whole
  <2>2. ArgMatches(arg, token) <=> arg.text = text
    BY <2>1 DEF ArgMatches
  <2>3. token \in ArgSays(arg) <=> arg.text = text \/ token \in SaidJoined(arg)
    BY DEF ArgSays, Letters, Letter, Wholes, Whole, Assignment
  <2> QED
    BY <2>2, <2>3
<1>3. CASE token = Assignment
  <2>1. ArgMatches(arg, token) <=> arg.sets
    BY <1>3 DEF ArgMatches, Assignment
  <2>2. token \in ArgSays(arg) <=> arg.sets
    <3>1. token \notin SaidJoined(arg)
      BY <1>0, <1>3 DEF Assignment
    <3>2. QED
      BY <1>3, <3>1 DEF ArgSays, Letters, Letter, Wholes, Whole, Assignment
  <2> QED
    BY <2>1, <2>2
<1> QED
  BY <1>1, <1>2, <1>3 DEF IsToken

\* An argument begins with a forbidden prefix exactly when it says so.
LEMMA PrefixIsSaid ==
    ASSUME NEW arg, NEW p, p \in GLOBAL_FORBIDDEN_PREFIXES
    PROVE  arg.prefix = p <=> [kind |-> "prefix", text |-> p] \in ArgSays(arg)
<1>1. p # NoPrefix
  BY DEF GLOBAL_FORBIDDEN_PREFIXES, NoPrefix
<1> QED
  BY <1>1 DEF ArgSays, SaidJoined, Letters, Letter, Wholes, Whole, Assignment

\* For every policy: a line that is refused because of an argument is not let through
\* when its single-letter flags are joined or taken apart, when its arguments are
\* moved to another place, or when whatever else is added; unless something that is
\* forbidden stands in it joined as --flag=value, which the gate compares as a whole
\* only (check and arg_matches of src/util/exec.rs:831-866).
THEOREM NoDisguise ==
    ASSUME NEW policy, \A token \in policy.forbidden : IsToken(token),
           NEW x, NEW y,
           \A i \in DOMAIN x : x[i].sets \in BOOLEAN,
           \A j \in DOMAIN y : y[j].sets \in BOOLEAN,
           Says(x) \subseteq Says(y),
           Check(policy, x) = "forbidden argument"
    PROVE  Check(policy, y) = "forbidden argument" \/ HidesJoined(policy, y)
<1>1. Refused(policy, x)
  BY DEF Check, Refused, Accepted
<1>2. PICK i \in DOMAIN x : Modifies(policy, x[i])
  BY <1>1 DEF Refused
<1>3. ArgSays(x[i]) \subseteq Says(y)
  BY DEF Says
<1>4. CASE x[i].prefix \in GLOBAL_FORBIDDEN_PREFIXES
  <2> DEFINE said == [kind |-> "prefix", text |-> x[i].prefix]
  <2>1. said \in Says(y)
    BY <1>3, <1>4, PrefixIsSaid
  <2>2. PICK j \in DOMAIN y : said \in ArgSays(y[j])
    BY <2>1 DEF Says
  <2>3. y[j].prefix = x[i].prefix
    BY <1>4, <2>2, PrefixIsSaid
  <2> QED
    BY <1>4, <2>3 DEF Check, Modifies
<1>5. CASE \E bad \in policy.forbidden : ArgMatches(x[i], bad)
  <2>1. PICK bad \in policy.forbidden : ArgMatches(x[i], bad)
    BY <1>5
  <2>2. bad \in Says(y)
    BY <1>3, <2>1, MatchIsSaid
  <2>3. PICK j \in DOMAIN y : bad \in ArgSays(y[j])
    BY <2>2 DEF Says
  <2>4. ArgMatches(y[j], bad) \/ bad \in SaidJoined(y[j])
    BY <2>3, MatchIsSaid
  <2> QED
    BY <2>4 DEF Check, Modifies, HidesJoined
<1> QED
  BY <1>2, <1>4, <1>5 DEF Modifies

\* What is said twice in different ways has a token that matches in both.
LEMMA SameTokens ==
    ASSUME NEW x, NEW y, Says(x) \subseteq Says(y), NEW token, IsToken(token),
           \A i \in DOMAIN x : x[i].sets \in BOOLEAN,
           \A j \in DOMAIN y : y[j].sets \in BOOLEAN,
           \A j \in DOMAIN y : SaidJoined(y[j]) = {},
           NEW i \in DOMAIN x, ArgMatches(x[i], token)
    PROVE  \E j \in DOMAIN y : ArgMatches(y[j], token)
<1>1. token \in Says(y)
  BY MatchIsSaid DEF Says
<1>2. PICK j \in DOMAIN y : token \in ArgSays(y[j])
  BY <1>1 DEF Says
<1> QED
  BY <1>2, MatchIsSaid

\* For every policy without subcommands, and lines without --flag=value, only what a
\* line says counts: the answer is the same however its single-letter flags are joined
\* and its arguments ordered or repeated, required ones included.
THEOREM OnlyWhatIsSaidCounts ==
    ASSUME NEW policy, policy.subs = {}, policy.cond = {},
           \A token \in policy.forbidden \cup policy.require : IsToken(token),
           NEW x, NEW y,
           \A i \in DOMAIN x : x[i].sets \in BOOLEAN,
           \A j \in DOMAIN y : y[j].sets \in BOOLEAN,
           \A i \in DOMAIN x : SaidJoined(x[i]) = {},
           \A j \in DOMAIN y : SaidJoined(y[j]) = {},
           Says(x) = Says(y)
    PROVE  Check(policy, x) = Check(policy, y)
<1>1. Check(policy, x) = "forbidden argument" <=> Check(policy, y) = "forbidden argument"
  BY NoDisguise DEF HidesJoined
<1>2. Refused(policy, x) <=> Refused(policy, y)
  BY <1>1 DEF Check, Refused, Accepted
<1> DEFINE asked(args) == \E i \in DOMAIN args, r \in policy.require : ArgMatches(args[i], r)
<1>3. asked(x) => asked(y)
  BY SameTokens
<1>4. asked(y) => asked(x)
  BY SameTokens
<1> QED
  BY <1>2, <1>3, <1>4 DEF Check, Refused

---------------------------------------------------------------------------------
(* The table and the command                                                       *)

LEMMA WholesAreTokens ==
    ASSUME NEW S, NoText \notin S, NEW token \in Wholes(S)
    PROVE  IsToken(token)
  BY DEF Wholes, IsToken

LEMMA LettersAreTokens ==
    ASSUME NEW S, NEW token \in Letters(S)
    PROVE  IsToken(token)
  BY DEF Letters, IsToken

LEMMA MutateTokens == \A token \in MUTATE : IsToken(token)
  BY WholesAreTokens DEF MUTATE, NoText

\* Whatever the table forbids is built as a token.
LEMMA TableTokens ==
    ASSUME NEW program \in DOMAIN Allowlist, NEW token \in Allowlist[program].forbidden
    PROVE  IsToken(token)
<1>1. CASE program = "cat"
  <2>1. Allowlist[program] = RO
    BY <1>1 DEF Allowlist
  <2> QED
    BY <2>1 DEF RO
<1>2. CASE program = "journalctl"
  <2>1. Allowlist[program] = Journalctl
    BY <1>2 DEF Allowlist
  <2> QED
    BY <2>1, WholesAreTokens DEF Journalctl, Forbid, RO, NoText
<1>3. CASE program = "lxc"
  <2>1. Allowlist[program] = Lxc
    BY <1>3 DEF Allowlist
  <2>2. Lxc.forbidden = MUTATE
    BY DEF Lxc, Cond, Subs, Forbid, RO
  <2> QED
    BY <2>1, <2>2, MutateTokens
<1>4. CASE program = "nc"
  <2>1. Allowlist[program] = Netcat
    BY <1>4 DEF Allowlist
  <2>2. Netcat.forbidden = Letters({"l", "e", "c", "k"})
    BY DEF Netcat, Require, Forbid, RO
  <2> QED
    BY <2>1, <2>2, LettersAreTokens
<1>5. CASE program = "nvme"
  <2>1. Allowlist[program] = Nvme
    BY <1>5 DEF Allowlist
  <2>2. Nvme.forbidden = MUTATE
    BY DEF Nvme, Subs, Forbid, RO
  <2> QED
    BY <2>1, <2>2, MutateTokens
<1>6. CASE program = "prlimit"
  <2>1. Allowlist[program] = Prlimit
    BY <1>6 DEF Allowlist
  <2>2. Prlimit.forbidden = {Assignment}
    BY DEF Prlimit, Require, Forbid, RO
  <2> QED
    BY <2>1, <2>2 DEF IsToken
<1>7. CASE program = "smartctl"
  <2>1. Allowlist[program] = Smartctl
    BY <1>7 DEF Allowlist
  <2>2. Smartctl.forbidden = Letters({"t", "X", "s", "o", "S", "F"})
                             \cup Wholes({"--test", "--abort", "--smart"})
    BY DEF Smartctl, Forbid, RO
  <2>3. NoText \notin {"--test", "--abort", "--smart"}
    BY DEF NoText
  <2> QED
    BY <2>1, <2>2, <2>3, LettersAreTokens, WholesAreTokens
<1> QED
  BY <1>1, <1>2, <1>3, <1>4, <1>5, <1>6, <1>7 DEF Allowlist

\* The command `policy` has read the commands of the catalogue and nothing else.
PolicyInv == Ended("policy") => input \in Lines

LEMMA PolicyInit == Init => PolicyInv
  BY DEF Init, PolicyInv, Ended

LEMMA PolicyNext == PolicyInv /\ [Next]_vars => PolicyInv'
<1> SUFFICES ASSUME PolicyInv, [Next]_vars
             PROVE  PolicyInv'
  OBVIOUS
<1>1. CASE command = "policy" /\ \E lines \in Lines : Policy(lines)
  BY <1>1 DEF Policy, Running, Ends, PolicyInv, Ended
<1>2. CASE command # "policy" /\ command' = command
  BY <1>2 DEF PolicyInv, Ended
<1>3. CASE UNCHANGED vars
  BY <1>3 DEF PolicyInv, Ended, vars
<1>4. CASE Next
  <2>1. CASE \E now \in Sample, gap \in Gaps : TuiTick(now, gap)
    BY <1>2, <2>1 DEF TuiTick, Running
  <2>2. CASE Quit
    BY <1>2, <2>2 DEF Quit, Running, Ends
  <2>3. CASE \E now \in Sample : CheckTick(now)
    BY <1>2, <2>3 DEF CheckTick, Running
  <2>4. CASE \E t \in Tables : Report(t)
    BY <1>2, <2>4 DEF Report, Running, Ends
  <2>5. CASE \E bundle \in Bundles \cup {"unknown", None}, present \in Systems :
                Doctor(bundle, present)
    BY <1>2, <2>5 DEF Doctor, Running, Ends
  <2>6. CASE \E query \in Queries \cup {None}, screen \in Screens \cup {None} :
                TasksCommand(query, screen)
    BY <1>2, <2>6 DEF TasksCommand, Running, Ends
  <2>7. CASE Markdown
    BY <1>2, <2>7 DEF Markdown, Running, Ends
  <2>8. CASE \E lines \in Lines : Policy(lines)
    BY <1>1, <2>8 DEF Policy, Running
  <2> QED
    BY <1>4, <2>1, <2>2, <2>3, <2>4, <2>5, <2>6, <2>7, <2>8 DEF Next
<1> QED
  BY <1>3, <1>4

LEMMA PolicyReads == PolicyInv => NothingIsDisguised
<1> SUFFICES ASSUME PolicyInv, Ended("policy"), NEW x \in input, NEW y \in input,
                    x.program = y.program, Says(x.args) \subseteq Says(y.args),
                    Parse(x) = "forbidden argument"
             PROVE  \/ Parse(y) = "forbidden argument"
                    \/ HidesJoined(Allowlist[y.program], y.args)
  BY DEF NothingIsDisguised
<1>1. /\ \A i \in DOMAIN x.args : x.args[i].sets \in BOOLEAN
      /\ \A j \in DOMAIN y.args : y.args[j].sets \in BOOLEAN
  BY LinesAssumption DEF PolicyInv
<1>2. /\ x.program \in DOMAIN Allowlist
      /\ Check(Allowlist[x.program], x.args) = "forbidden argument"
  BY DEF Parse
<1>3. \A token \in Allowlist[x.program].forbidden : IsToken(token)
  BY <1>2, TableTokens
<1>4. \/ Check(Allowlist[x.program], y.args) = "forbidden argument"
      \/ HidesJoined(Allowlist[x.program], y.args)
  BY <1>1, <1>2, <1>3, NoDisguise
<1> QED
  BY <1>2, <1>4 DEF Parse

\* Whatever lines the catalogue has, the command `policy` lets none of them through
\* that only joins, splits or moves the arguments another line is refused for; what
\* is forbidden and joined as --flag=value is excepted.
THEOREM NoLineIsDisguised == Spec => []NothingIsDisguised
<1>1. Spec => []PolicyInv
  BY PolicyInit, PolicyNext, PTL DEF Spec
<1> QED
  BY <1>1, PolicyReads, PTL

=================================================================================
