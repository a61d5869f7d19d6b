----------------------------- MODULE SamplerProofs -----------------------------
(* The rates are right for every set of sources and every interval.              *)
EXTENDS Sampler, TLAPS

\* A snapshot that is kept was taken by the last tick.
PrevIsLast ==
    \A s \in Source : prev[s] = since \/ prev[s] = Never

\* Ticks are counted from the first one.
Counted == samples = 0 <=> since = Never

\* A source that never failed has a snapshot after the first tick.
HasSnapshot ==
    samples > 0 => \A s \in Source \ failed : prev[s] = since

IInv ==
    /\ TypeOK /\ PrevIsLast /\ Counted /\ HasSnapshot
    /\ DividedByItsSpan /\ WarmIsMeasured

LEMMA InitIInv == Init => IInv
<1> SUFFICES ASSUME Init PROVE IInv
  OBVIOUS
<1>1. samples = 0 /\ since = Never /\ \A s \in Source : prev[s] = Never /\ shown[s] = NoRate
  BY DEF Init
<1>2. NoRate \in [span : Age, secs : Age, fresh : BOOLEAN] /\ NoRate.span = NoRate.secs
  BY TimeAssumption DEF NoRate, Age
<1>3. TypeOK
  <2>1. /\ broken \in SUBSET Source /\ failed \in SUBSET Source
        /\ live \in BOOLEAN /\ frozen \in BOOLEAN /\ pc \in {"sample", "wait"}
    BY ZenonT(20) DEF Init
  <2>2. since \in Age \cup {Never} /\ samples \in 0 .. 2
    BY <1>1
  <2>3. prev \in [Source -> Age \cup {Never}]
    BY DEF Init
  <2>4. shown \in [Source -> [span : Age, secs : Age, fresh : BOOLEAN]]
    BY <1>2 DEF Init
  <2>5. QED
    BY <2>1, <2>2, <2>3, <2>4 DEF TypeOK
<1>4. PrevIsLast /\ Counted /\ HasSnapshot
  BY <1>1 DEF PrevIsLast, Counted, HasSnapshot
<1>5. DividedByItsSpan /\ WarmIsMeasured
  BY <1>1, <1>2 DEF DividedByItsSpan, WarmIsMeasured
<1>6. QED
  BY <1>3, <1>4, <1>5 DEF IInv

\* A rate is computed from the snapshot of the last tick and the time since.
LEMMA RateIsRight ==
    ASSUME IInv, NEW s \in Source
    PROVE  /\ Rate(s) \in [span : Age, secs : Age, fresh : BOOLEAN]
           /\ Rate(s).span = Rate(s).secs
<1> USE TimeAssumption
<1>1. shown[s] \in [span : Age, secs : Age, fresh : BOOLEAN] /\ shown[s].span = shown[s].secs
  BY DEF IInv, TypeOK, DividedByItsSpan
<1>2. /\ Stale(shown[s]) \in [span : Age, secs : Age, fresh : BOOLEAN]
      /\ Stale(shown[s]).span = Stale(shown[s]).secs
  BY <1>1 DEF Stale
<1>3. CASE s \in broken \/ prev[s] = Never
  BY <1>2, <1>3 DEF Rate
<1>4. CASE s \notin broken /\ prev[s] # Never /\ Elapsed > 0
  <2>1. prev[s] = since /\ Elapsed = since /\ since \in Age
    BY <1>4 DEF IInv, TypeOK, PrevIsLast, Elapsed
  <2>2. Rate(s) = [span |-> prev[s], secs |-> Elapsed, fresh |-> TRUE]
    BY <1>4 DEF Rate
  <2>3. QED
    BY <2>1, <2>2
<1>5. CASE s \notin broken /\ prev[s] # Never /\ ~(Elapsed > 0)
  <2>1. Rate(s) = IF s \in List THEN NoRate ELSE Stale(shown[s])
    BY <1>5 DEF Rate
  <2>2. NoRate \in [span : Age, secs : Age, fresh : BOOLEAN] /\ NoRate.span = NoRate.secs
    BY DEF NoRate, Age
  <2>3. QED
    BY <1>2, <2>1, <2>2
<1>6. QED
  BY <1>3, <1>4, <1>5

LEMMA TickIInv ==
    ASSUME IInv, Due, Tick, UNCHANGED <<broken, live, frozen>>, pc' \in {"sample", "wait"}
    PROVE  IInv'
<1> USE TimeAssumption
<1>1. \A s \in Source : shown'[s] = Rate(s) /\ prev'[s] = Snapshot(s)
  BY DEF Tick
<1>2. since' = 0 /\ samples' \in {1, 2} /\ failed' = failed \cup broken
  BY DEF IInv, TypeOK, Tick, SamplesAfter
<1>3. TypeOK'
  <2>1. shown' \in [Source -> [span : Age, secs : Age, fresh : BOOLEAN]]
    BY RateIsRight DEF Tick
  <2>2. prev' \in [Source -> Age \cup {Never}]
    BY DEF Tick, Snapshot, Age
  <2>3. failed' \in SUBSET Source
    BY <1>2 DEF IInv, TypeOK
  <2>4. QED
    BY <1>2, <2>1, <2>2, <2>3 DEF IInv, TypeOK, Age
<1>4. PrevIsLast' /\ Counted' /\ HasSnapshot'
  BY <1>1, <1>2 DEF PrevIsLast, Counted, HasSnapshot, Snapshot, Never
<1>5. DividedByItsSpan'
  BY <1>1, RateIsRight DEF DividedByItsSpan
<1>6. WarmIsMeasured'
  <2>1. SUFFICES ASSUME samples' = 2, NEW s \in Source \ failed' PROVE shown'[s].fresh
    BY DEF WarmIsMeasured
  <2>2. samples > 0 /\ since # Never /\ s \notin failed /\ s \notin broken
    BY <1>2, <2>1 DEF IInv, TypeOK, Counted, Tick, SamplesAfter
  <2>3. prev[s] = since /\ since \in Age /\ since >= Interval
    BY <2>2 DEF IInv, TypeOK, HasSnapshot, Due
  <2>4. prev[s] # Never /\ Elapsed > 0
    BY <2>2, <2>3 DEF Elapsed, Age
  <2>5. Rate(s) = [span |-> prev[s], secs |-> Elapsed, fresh |-> TRUE]
    BY <2>2, <2>4 DEF Rate
  <2>6. QED
    BY <1>1, <2>5
<1>7. QED
  BY <1>3, <1>4, <1>5, <1>6 DEF IInv

\* Ages grow together.
LEMMA TimeIInv ==
    ASSUME IInv, TimePasses, UNCHANGED broken, live' \in BOOLEAN, frozen' \in BOOLEAN,
           pc' \in {"sample", "wait"}
    PROVE  IInv'
<1> USE TimeAssumption
<1>1. \A age \in Age \cup {Never} : /\ Older(age) \in Age \cup {Never}
                                    /\ Older(age) = Never <=> age = Never
  BY DEF Age, Never, Older
<1>2. since' = Older(since) /\ \A s \in Source : prev'[s] = Older(prev[s])
  BY DEF TimePasses
<1>3. TypeOK'
  <2>1. prev' \in [Source -> Age \cup {Never}]
    BY <1>1 DEF IInv, TypeOK, TimePasses
  <2>2. QED
    BY <1>1, <1>2, <2>1 DEF IInv, TypeOK, TimePasses
<1>4. PrevIsLast' /\ Counted' /\ HasSnapshot'
  BY <1>1, <1>2 DEF IInv, TypeOK, PrevIsLast, Counted, HasSnapshot, TimePasses
<1>5. DividedByItsSpan' /\ WarmIsMeasured'
  BY DEF IInv, DividedByItsSpan, WarmIsMeasured, TimePasses
<1>6. QED
  BY <1>3, <1>4, <1>5 DEF IInv

\* Steps that leave the sampler alone.
LEMMA OtherIInv ==
    ASSUME IInv, UNCHANGED samplerVars, broken' \in SUBSET Source, live' \in BOOLEAN,
           frozen' \in BOOLEAN, pc' \in {"sample", "wait"}
    PROVE  IInv'
BY DEF IInv, TypeOK, PrevIsLast, Counted, HasSnapshot, DividedByItsSpan, WarmIsMeasured,
    samplerVars

LEMMA NextIInv ==
    ASSUME IInv, [Next]_vars PROVE IInv'
<1>1. live \in BOOLEAN /\ frozen \in BOOLEAN /\ broken \in SUBSET Source
      /\ pc \in {"sample", "wait"}
  BY DEF IInv, TypeOK
<1>2. CASE MaybeSample
  <2>1. UNCHANGED <<broken, live, frozen>> /\ pc' \in {"sample", "wait"}
    BY <1>2 DEF MaybeSample, screenVars
  <2>2. CASE Due /\ Tick
    BY <2>1, <2>2, TickIInv
  <2>3. CASE UNCHANGED samplerVars
    BY <1>1, <2>1, <2>3, OtherIInv
  <2>4. QED
    BY <1>2, <2>2, <2>3 DEF MaybeSample
<1>3. CASE Timeout
  BY <1>1, <1>3, TimeIInv DEF Timeout, screenVars
<1>4. CASE Key
  <2>1. live' \in BOOLEAN /\ frozen' \in BOOLEAN /\ pc' \in {"sample", "wait"}
        /\ UNCHANGED broken
    BY <1>1, <1>4 DEF Key, Freeze, Move, OtherKey, screenVars
  <2>2. QED
    BY <1>1, <1>4, <2>1, TimeIInv, OtherIInv DEF Key
<1>5. ASSUME NEW s \in Source, Break(s) \/ Repair(s) PROVE IInv'
  BY <1>1, <1>5, OtherIInv DEF Break, Repair, screenVars
<1>6. CASE UNCHANGED vars
  BY <1>1, <1>6, OtherIInv DEF vars, screenVars
<1>7. QED
  BY <1>2, <1>3, <1>4, <1>5, <1>6 DEF Next

LEMMA Invariance == Spec => []IInv
BY InitIInv, NextIInv, PTL DEF Spec

---------------------------------------------------------------------------------
(* Theorems *)

\* The state of the sampler has its types (src/app/sampler.rs:47-80).
THEOREM SamplerTypeCorrect == Spec => []TypeOK
BY Invariance, PTL DEF IInv

\* Rates are divided by the time between the snapshots they are computed from, for
\* every interval and any pattern of failures (src/app/sampler.rs:118-168).
THEOREM RatesAreRight == Spec => []DividedByItsSpan
BY Invariance, PTL DEF IInv

\* After two samples the sources that never failed have rates of the last one
\* (src/app/sampler.rs:188-190).
THEOREM WarmUpIsOver == Spec => []WarmIsMeasured
BY Invariance, PTL DEF IInv

=================================================================================
