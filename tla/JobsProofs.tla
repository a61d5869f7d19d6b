------------------------------- MODULE JobsProofs -------------------------------
(* The job manager is correct for every set of keys: single flight, an honest   *)
(* running list, and the implementation of AtomicJobs, proved from one          *)
(* inductive invariant.                                                         *)
EXTENDS Jobs, SequenceTheorems, TLAPS

\* A thread and an answer of the same key exclude each other and answers are
\* pairwise different (SingleFlight); what is in the air is what is recorded or
\* about to be recorded; a key drained but not yet handed over is in neither.
IInv ==
    /\ TypeOK
    /\ SingleFlight
    /\ RunningIsInFlight
    /\ pc = "spawned" => \E k \in Key : pending = {k} /\ running[k] = 0
    /\ pc # "spawned" => pending = {}
    /\ pc # "draining" => out = <<>>
    /\ pc # "idle" => open
    /\ \A i \in DOMAIN out : running[out[i]] = 0
    /\ ~open => channel = <<>> /\ \A k \in Key : running[k] = 0

LEMMA InitIInv == Init => IInv
BY DEF Init, IInv, TypeOK, SingleFlight, RunningIsInFlight, InChannel, IsInjective

\* The key appended to a sequence is the only new element.
LEMMA AppendChannel ==
    ASSUME NEW s \in Seq(Key), NEW k \in Key
    PROVE  /\ Append(s, k) \in Seq(Key)
           /\ DOMAIN Append(s, k) = 1 .. Len(s) + 1
           /\ DOMAIN s = 1 .. Len(s) /\ Len(s) \in Nat
           /\ \A i \in 1 .. Len(s) : Append(s, k)[i] = s[i]
           /\ Append(s, k)[Len(s) + 1] = k
BY AppendProperties, LenProperties

LEMMA TailChannel ==
    ASSUME NEW s \in Seq(Key), s # <<>>
    PROVE  /\ Tail(s) \in Seq(Key) /\ Head(s) \in Key /\ Head(s) = s[1]
           /\ Len(s) \in Nat \ {0}
           /\ DOMAIN s = 1 .. Len(s)
           /\ DOMAIN Tail(s) = 1 .. Len(s) - 1
           /\ \A i \in 1 .. Len(s) - 1 : Tail(s)[i] = s[i + 1]
<1>1. Len(s) \in Nat \ {0}
  BY EmptySeq, LenProperties
<1>2. QED
  BY <1>1, HeadTailProperties, LenProperties

LEMMA SpawnIInv == ASSUME IInv, NEW k \in Key, Spawn(k) PROVE IInv'
<1>1. TypeOK'
  <2>1. workers[k] = 0
    BY DEF IInv, TypeOK, SingleFlight, RunningIsInFlight, Spawn
  <2>2. QED
    BY <2>1 DEF IInv, TypeOK, Spawn
<1>2. ~InChannel(k) /\ workers[k] = 0
  BY DEF IInv, TypeOK, RunningIsInFlight, Spawn
<1>3. \A j \in Key : InChannel(j)' <=> InChannel(j)
  BY DEF Spawn, InChannel
<1>4. SingleFlight'
  BY <1>1, <1>2, <1>3 DEF IInv, TypeOK, SingleFlight, Spawn, IsInjective
<1>5. RunningIsInFlight'
  BY <1>1, <1>2, <1>3 DEF IInv, TypeOK, RunningIsInFlight, Spawn
<1>6. QED
  BY <1>1, <1>4, <1>5 DEF IInv, Spawn

LEMMA PushIInv == ASSUME IInv, Push PROVE IInv'
<1>1. PICK k \in Key : pending = {k} /\ running[k] = 0
  BY DEF IInv, Push
<1>2. TypeOK'
  BY <1>1 DEF IInv, TypeOK, Push
<1>3. \A j \in Key : InChannel(j)' <=> InChannel(j)
  BY DEF Push, InChannel
<1>4. SingleFlight'
  BY <1>3 DEF IInv, SingleFlight, Push, IsInjective
<1>5. RunningIsInFlight'
  BY <1>1, <1>2, <1>3 DEF IInv, TypeOK, RunningIsInFlight, Push
<1>6. out' = <<>> /\ open
  BY DEF IInv, Push
<1>7. QED
  BY <1>2, <1>4, <1>5, <1>6 DEF IInv, Push

LEMMA FinishIInv == ASSUME IInv, NEW k \in Key, Finish(k) PROVE IInv'
<1>0. workers[k] = 1 /\ ~InChannel(k)
  BY DEF IInv, TypeOK, SingleFlight, Finish
<1>1. CASE open
  <2>1. TypeOK'
    BY <1>0, <1>1, AppendChannel DEF IInv, TypeOK, Finish
  <2>2. \A j \in Key : InChannel(j)' <=> InChannel(j) \/ j = k
    <3>1. channel' = Append(channel, k) /\ channel \in Seq(Key)
      BY <1>1 DEF IInv, TypeOK, Finish
    <3>2. \A j \in Key : (\E i \in 1 .. Len(channel) + 1 : Append(channel, k)[i] = j)
                           <=> (\E i \in 1 .. Len(channel) : channel[i] = j) \/ j = k
      BY <3>1, AppendChannel
    <3>3. QED
      BY <3>1, <3>2, AppendChannel DEF InChannel
  <2>3. IsInjective(channel')
    BY <1>0, <1>1, AppendChannel DEF IInv, TypeOK, SingleFlight, Finish, InChannel, IsInjective
  <2>4. SingleFlight'
    BY <1>0, <2>1, <2>2, <2>3 DEF IInv, TypeOK, SingleFlight, Finish
  <2>5. RunningIsInFlight'
    BY <1>0, <1>1, <2>1, <2>2 DEF IInv, TypeOK, RunningIsInFlight, Finish
  <2>6. QED
    BY <1>1, <2>1, <2>4, <2>5 DEF IInv, Finish
<1>2. CASE ~open
  <2>1. TypeOK'
    BY <1>0, <1>2 DEF IInv, TypeOK, Finish
  <2>2. SingleFlight' /\ RunningIsInFlight'
    BY <1>0, <1>2, <2>1 DEF IInv, TypeOK, SingleFlight, RunningIsInFlight, InChannel, Finish, IsInjective
  <2>3. QED
    BY <1>2, <2>1, <2>2 DEF IInv, Finish
<1>3. QED
  BY <1>1, <1>2

LEMMA BeginDrainIInv == ASSUME IInv, BeginDrain PROVE IInv'
BY DEF IInv, TypeOK, SingleFlight, RunningIsInFlight, InChannel, BeginDrain, IsInjective

LEMMA ReceiveIInv == ASSUME IInv, Receive PROVE IInv'
<1> DEFINE h == Head(channel)
<1>1. /\ h \in Key /\ h = channel[1] /\ InChannel(h) /\ pending = {} /\ open /\ workers[h] = 0
  BY TailChannel DEF IInv, TypeOK, SingleFlight, InChannel, Receive
<1>2. TypeOK'
  BY <1>1, TailChannel, AppendChannel DEF IInv, TypeOK, Receive
<1>3. \A j \in Key : InChannel(j)' <=> InChannel(j) /\ j # h
  <2>1. SUFFICES ASSUME NEW j \in Key
                 PROVE  InChannel(j)' <=> InChannel(j) /\ j # h
    OBVIOUS
  <2>2. ASSUME InChannel(j)' PROVE InChannel(j) /\ j # h
    BY <2>2, TailChannel DEF IInv, TypeOK, SingleFlight, InChannel, IsInjective, Receive
  <2>3. ASSUME InChannel(j), j # h PROVE InChannel(j)'
    <3>1. PICK i \in 1 .. Len(channel) : channel[i] = j
      BY <2>3, TailChannel DEF IInv, TypeOK, InChannel, Receive
    <3>2. i # 1 /\ Len(channel) \in Nat \ {0}
      BY <1>1, <2>3, <3>1, TailChannel DEF IInv, TypeOK, Receive
    <3>3. i - 1 \in 1 .. Len(channel) - 1 /\ (i - 1) + 1 = i
      BY <3>2
    <3>4. Tail(channel)[i - 1] = j /\ DOMAIN Tail(channel) = 1 .. Len(channel) - 1
      BY <3>1, <3>3, TailChannel DEF IInv, TypeOK, Receive
    <3>5. QED
      BY <3>3, <3>4 DEF InChannel, Receive
  <2>4. QED
    BY <2>2, <2>3
<1>4. IsInjective(channel')
  BY TailChannel DEF IInv, TypeOK, SingleFlight, IsInjective, Receive
<1>5. SingleFlight'
  BY <1>2, <1>3, <1>4 DEF IInv, TypeOK, SingleFlight, Receive
<1>6. RunningIsInFlight'
  BY <1>1, <1>2, <1>3 DEF IInv, TypeOK, RunningIsInFlight, Receive
<1>7. \A i \in DOMAIN out' : running'[out'[i]] = 0
  <2>1. \A i \in 1 .. Len(out) : out[i] \in Key /\ running[out[i]] = 0
    BY LenProperties, ElementOfSeq DEF IInv, TypeOK
  <2>2. QED
    BY <1>1, <2>1, AppendChannel DEF IInv, TypeOK, Receive
<1>8. QED
  BY <1>1, <1>2, <1>5, <1>6, <1>7 DEF IInv, Receive

LEMMA EndDrainIInv == ASSUME IInv, EndDrain PROVE IInv'
BY DEF IInv, TypeOK, SingleFlight, RunningIsInFlight, InChannel, EndDrain, IsInjective

LEMMA DropIInv == ASSUME IInv, Drop PROVE IInv'
<1>1. TypeOK'
  BY DEF IInv, TypeOK, Drop
<1>2. SingleFlight' /\ RunningIsInFlight'
  BY DEF IInv, TypeOK, SingleFlight, RunningIsInFlight, InChannel, Drop, IsInjective
<1>3. QED
  BY <1>1, <1>2 DEF IInv, Drop

LEMMA NextIInv == IInv /\ [Next]_vars => IInv'
<1> SUFFICES ASSUME IInv, [Next]_vars PROVE IInv'
  OBVIOUS
<1>1. CASE UNCHANGED vars
  BY <1>1 DEF IInv, TypeOK, SingleFlight, RunningIsInFlight, InChannel, IsInjective, vars
<1>2. CASE Next
  BY <1>2, SpawnIInv, PushIInv, FinishIInv, BeginDrainIInv, ReceiveIInv, EndDrainIInv, DropIInv
  DEF Next
<1>3. QED
  BY <1>1, <1>2

LEMMA Inductive == Spec => []IInv
BY InitIInv, NextIInv, PTL DEF Spec

---------------------------------------------------------------------------------
\* Every variable keeps its type, and no key is ever recorded or executed twice.
THEOREM TypeCorrect == Spec => []TypeOK
BY Inductive, PTL DEF IInv

\* No job is ever in the air twice (src/app/jobs.rs:92-97).
THEOREM NeverTwice == Spec => []SingleFlight
BY Inductive, PTL DEF IInv

\* The running list names exactly the jobs in the air (src/app/jobs.rs:110-121).
THEOREM RunningHonest == Spec => []RunningIsInFlight
BY Inductive, PTL DEF IInv

---------------------------------------------------------------------------------
(* Refinement: request and drain appear atomic. *)

\* What AtomicJobs sees of a state of Jobs.
ARunning == {k \in Key : running[k] > 0} \cup pending \cup Range(out)
AMeasuring == {k \in Key : workers[k] > 0}
AAnswers == out \o channel

LEMMA RangeAppend ==
    ASSUME NEW s \in Seq(Key), NEW k \in Key
    PROVE  Range(Append(s, k)) = Range(s) \cup {k}
BY AppendChannel DEF Range

LEMMA SpawnRefines ==
    ASSUME IInv, NEW k \in Key, Spawn(k) PROVE Atomic!Request({k}, {k})
<1>1. running[k] = 0 /\ pending = {} /\ out = <<>>
  BY DEF IInv, Spawn
<1>2. k \notin ARunning
  BY <1>1 DEF ARunning, Range
<1>3. ARunning' = ARunning \cup {k}
  BY <1>1 DEF ARunning, Spawn
<1>4. AMeasuring' = AMeasuring \cup {k}
  BY DEF AMeasuring, IInv, TypeOK, Spawn
<1>5. AAnswers' = AAnswers /\ returned' = returned /\ open' = open /\ open
  BY DEF AAnswers, Spawn
<1>6. QED
  BY <1>2, <1>3, <1>4, <1>5 DEF Atomic!Request, ARunning, AMeasuring, AAnswers

LEMMA PushRefines == ASSUME IInv, Push PROVE UNCHANGED Atomic!jobVars
<1>1. PICK k \in Key : pending = {k} /\ running[k] = 0
  BY DEF IInv, Push
<1>2. ARunning' = ARunning
  BY <1>1 DEF ARunning, IInv, TypeOK, Push
<1>3. QED
  BY <1>2 DEF Atomic!jobVars, ARunning, Push

LEMMA FinishRefines ==
    ASSUME IInv, NEW k \in Key, Finish(k) PROVE Atomic!Finish(k)
<1>1. k \in AMeasuring /\ AMeasuring' = AMeasuring \ {k}
  BY DEF AMeasuring, IInv, TypeOK, Finish
<1>2. AAnswers' = IF open THEN Append(AAnswers, k) ELSE AAnswers
  <2>1. CASE open
    <3>1. channel \in Seq(Key) /\ out \in Seq(Key) /\ out \o channel \in Seq(Key) /\ <<k>> \in Seq(Key)
      BY ConcatProperties DEF IInv, TypeOK
    <3>2. out \o Append(channel, k) = out \o (channel \o <<k>>)
      BY <3>1, AppendIsConcat
    <3>3. out \o (channel \o <<k>>) = (out \o channel) \o <<k>>
      BY <3>1, ConcatAssociative
    <3>4. QED
      BY <2>1, <3>1, <3>2, <3>3, AppendIsConcat DEF AAnswers, Finish
  <2>2. CASE ~open
    BY <2>2 DEF AAnswers, Finish
  <2>3. QED
    BY <2>1, <2>2
<1>3. ARunning' = ARunning /\ returned' = returned /\ open' = open
  BY DEF ARunning, Finish
<1>4. QED
  BY <1>1, <1>2, <1>3 DEF Atomic!Finish, ARunning, AMeasuring, AAnswers

LEMMA BeginDrainRefines == ASSUME IInv, BeginDrain PROVE UNCHANGED Atomic!jobVars
<1>1. out = <<>> /\ out' = out
  BY DEF IInv, BeginDrain
<1>2. QED
  BY <1>1 DEF Atomic!jobVars, BeginDrain

LEMMA ReceiveRefines == ASSUME IInv, Receive PROVE UNCHANGED Atomic!jobVars
<1> DEFINE h == Head(channel)
<1>1. h \in Key /\ out \in Seq(Key) /\ channel \in Seq(Key) /\ channel # <<>>
  BY TailChannel DEF IInv, TypeOK, Receive
<1>2. running[h] > 0
  <2>1. InChannel(h) /\ pending = {} /\ open
    BY <1>1, TailChannel DEF IInv, InChannel, Receive
  <2>2. QED
    BY <1>1, <2>1 DEF IInv, RunningIsInFlight
<1>3. ARunning' = ARunning
  <2>1. Range(out') = Range(out) \cup {h}
    BY <1>1, RangeAppend DEF Receive
  <2>2. {k \in Key : running'[k] > 0} = {k \in Key : running[k] > 0} \ {h}
    BY <1>1 DEF IInv, TypeOK, Receive
  <2>3. QED
    BY <1>1, <1>2, <2>1, <2>2 DEF ARunning, Receive
<1>4. AAnswers' = AAnswers
  <2>1. <<h>> \in Seq(Key) /\ Tail(channel) \in Seq(Key)
    BY <1>1, TailChannel
  <2>2. Append(out, h) = out \o <<h>>
    BY <1>1, AppendIsConcat
  <2>3. (out \o <<h>>) \o Tail(channel) = out \o (<<h>> \o Tail(channel))
    BY <1>1, <2>1, ConcatAssociative
  <2>4. <<h>> \o Tail(channel) = channel
    BY <1>1, <2>1, ConcatSimplifications, HeadTailProperties
  <2>5. QED
    BY <2>2, <2>3, <2>4 DEF AAnswers, Receive
<1>5. QED
  BY <1>3, <1>4 DEF Atomic!jobVars, ARunning, AAnswers, Receive

LEMMA EndDrainRefines == ASSUME IInv, EndDrain PROVE Atomic!Drain
<1>1. pending = {} /\ open /\ channel = <<>> /\ out \in Seq(Key)
  BY DEF IInv, TypeOK, EndDrain
<1>2. AAnswers = out /\ AAnswers' = <<>>
  BY <1>1, ConcatEmptySeq, EmptySeq DEF AAnswers, EndDrain
<1>3. ARunning' = ARunning \ Range(out)
  BY <1>1 DEF ARunning, IInv, Range, EndDrain
<1>4. AMeasuring' = AMeasuring
  BY DEF AMeasuring, EndDrain
<1>5. ARunning' = ARunning \ Range(AAnswers) /\ returned' = AAnswers
  BY <1>2, <1>3 DEF EndDrain
<1>6. open' = open /\ Atomic!Range(AAnswers) = Range(AAnswers)
  BY DEF EndDrain, Range, Atomic!Range
<1>7. QED
  BY <1>1, <1>2, <1>4, <1>5, <1>6 DEF Atomic!Drain, ARunning, AMeasuring, AAnswers

LEMMA DropRefines == ASSUME IInv, Drop PROVE Atomic!Close
<1>1. pending = {} /\ out = <<>>
  BY DEF IInv, Drop
<1>2. ARunning' = {}
  BY <1>1 DEF ARunning, Range, Drop
<1>3. AAnswers' = <<>>
  BY <1>1, ConcatEmptySeq, EmptySeq DEF AAnswers, Drop
<1>4. AMeasuring' = AMeasuring
  BY DEF AMeasuring, Drop
<1>5. QED
  BY <1>2, <1>3, <1>4 DEF Atomic!Close, ARunning, AMeasuring, AAnswers, Drop

LEMMA InitRefines == Init => Atomic!JobsInit
<1> SUFFICES ASSUME Init PROVE Atomic!JobsInit
  OBVIOUS
<1>1. ARunning = {} /\ AMeasuring = {}
  BY DEF Init, ARunning, AMeasuring, Range
<1>2. AAnswers = <<>>
  BY ConcatEmptySeq, EmptySeq DEF Init, AAnswers
<1>3. QED
  BY <1>1, <1>2 DEF Init, Atomic!JobsInit, ARunning, AMeasuring, AAnswers

LEMMA NextRefines == IInv /\ [Next]_vars => [Atomic!JobsNext]_(Atomic!jobVars)
<1> SUFFICES ASSUME IInv, [Next]_vars PROVE [Atomic!JobsNext]_(Atomic!jobVars)
  OBVIOUS
<1>1. CASE UNCHANGED vars
  BY <1>1 DEF vars, Atomic!jobVars
<1>2. ASSUME NEW k \in Key, Spawn(k) PROVE Atomic!JobsNext
  BY <1>2, SpawnRefines DEF Atomic!JobsNext
<1>3. ASSUME NEW k \in Key, Finish(k) PROVE Atomic!JobsNext
  BY <1>3, FinishRefines DEF Atomic!JobsNext
<1>4. CASE Push \/ BeginDrain \/ Receive
  BY <1>4, PushRefines, BeginDrainRefines, ReceiveRefines
<1>5. CASE EndDrain \/ Drop
  BY <1>5, EndDrainRefines, DropRefines DEF Atomic!JobsNext
<1>6. QED
  BY <1>1, <1>2, <1>3, <1>4, <1>5 DEF Next

\* The interleaved job manager implements the atomic one, for every set of keys.
THEOREM Refinement == Spec => ImplementsAtomicJobs
<1>1. Spec => []IInv
  BY Inductive
<1>2. QED
  BY <1>1, InitRefines, NextRefines, PTL DEF Spec, ImplementsAtomicJobs, Atomic!JobsSpec

=================================================================================
