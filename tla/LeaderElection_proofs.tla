------------------------ MODULE LeaderElection_proofs -------------------------
(***************************************************************************)
(* Proofs about LeaderElection, for any set of replicas, any durations and *)
(* latency, and any number of partitions, crashes and disturbances: the    *)
(* strengthened invariant LeaseInv holds, and with it every step of the    *)
(* election is a step that LeaseContract allows; and from OverlapInv, that *)
(* a leader that lost its Lease stops within the bound.                    *)
(***************************************************************************)
EXTENDS LeaderElection, TLAPS

LEMMA LeaseInit == Init => LeaseInv
<1> SUFFICES ASSUME Init PROVE LeaseInv
  OBVIOUS
<1> USE LeaderAssumption
<1>0. disturbed \in BOOLEAN /\ troubles \in Nat
  BY DEF Init
<1>1. TypeOK
  <2>1. LostLimit \in Nat
    BY DEF LostLimit
  <2>2. NoView \in [holder : Holders, changed : BOOLEAN]
    BY DEF NoView, Holders
  <2> QED
    BY <1>0, <2>1, <2>2 DEF Init, TypeOK, Holders, Calls, Answers
<1>2. \A r \in Replicas : TrackerSound(r) /\ ViewSound(r) /\ ReplaceSound(r)
  BY DEF Init, TrackerSound, ViewSound, ReplaceSound
<1> QED
  BY <1>1, <1>2 DEF LeaseInv

-------------------------------------------------------------------------------
\* How the shared endings of a step keep the types.

LEMMA AdvanceType ==
  ASSUME NEW limit \in Nat, NEW n \in 0..limit
  PROVE  /\ Advance(n, limit) \in 0..limit
         /\ Advance(n, limit) >= n
         /\ \A m \in 0..limit : m <= n => Advance(m, limit) <= Advance(n, limit)
  BY DEF Advance

LEMMA SleepType ==
  ASSUME TypeOK, NEW r \in Replicas, Sleep(r)
  PROVE  /\ pc' \in [Replicas -> {"sleep"} \cup Calls \cup Answers]
         /\ timer' \in [Replicas -> Nat]
         /\ view' \in [Replicas -> [holder : Holders, changed : BOOLEAN]]
         /\ raced' \in [Replicas -> BOOLEAN]
         /\ decision' \in [Replicas -> {"Wait", "Renew", "Acquire"}]
  BY LeaderAssumption DEF TypeOK, Sleep, NoView, Holders

LEMMA DownType ==
  ASSUME TypeOK, NEW r \in Replicas, Down(r)
  PROVE  /\ mode' \in [Replicas -> {"down", "campaign", "leading"}]
         /\ pc' \in [Replicas -> {"sleep"} \cup Calls \cup Answers]
         /\ timer' \in [Replicas -> Nat]
         /\ view' \in [Replicas -> [holder : Holders, changed : BOOLEAN]]
         /\ raced' \in [Replicas -> BOOLEAN]
         /\ decision' \in [Replicas -> {"Wait", "Renew", "Acquire"}]
         /\ unrenewed' \in [Replicas -> 0..LeaseDuration]
         /\ lostFor' \in [Replicas -> 0..LostLimit]
  BY LeaderAssumption DEF TypeOK, Down, NoView, Holders, LostLimit

LEMMA CutUpdate ==
  ASSUME NEW f \in [Replicas -> BOOLEAN], NEW r \in Replicas, NEW b \in BOOLEAN
  PROVE  [f EXCEPT ![r] = b] \in [Replicas -> BOOLEAN]
  BY Zenon

\* Every ending of a step goes to sleep, gives up the step's copy of the Lease,
\* and touches no other replica.
Ending(r) ==
  /\ pc' = [pc EXCEPT ![r] = "sleep"]
  /\ view' = [view EXCEPT ![r] = NoView]
  /\ raced' = [raced EXCEPT ![r] = TRUE]

LEMMA ReturnsType ==
  ASSUME TypeOK, NEW r \in Replicas,
         ReturnsWait(r) \/ ReturnsHeld(r) \/ ReturnsErr(r)
  PROVE  /\ mode' \in [Replicas -> {"down", "campaign", "leading"}]
         /\ pc' \in [Replicas -> {"sleep"} \cup Calls \cup Answers]
         /\ timer' \in [Replicas -> Nat]
         /\ view' \in [Replicas -> [holder : Holders, changed : BOOLEAN]]
         /\ raced' \in [Replicas -> BOOLEAN]
         /\ decision' \in [Replicas -> {"Wait", "Renew", "Acquire"}]
         /\ unrenewed' \in [Replicas -> 0..LeaseDuration]
         /\ lostFor' \in [Replicas -> 0..LostLimit]
         /\ Ending(r)
<1>1. CASE Down(r)
  BY <1>1, DownType DEF Down, Ending
<1>2. CASE Sleep(r) /\ UNCHANGED <<mode, unrenewed, lostFor>>
  BY <1>2, SleepType DEF Sleep, Ending, TypeOK
<1>3. CASE ReturnsHeld(r)
  <2>1. Sleep(r)
    BY <1>3 DEF ReturnsHeld
  <2>2. Ending(r)
    BY <2>1 DEF Sleep, Ending
  <2>3. /\ mode' \in [Replicas -> {"down", "campaign", "leading"}]
        /\ unrenewed' \in [Replicas -> 0..LeaseDuration]
        /\ lostFor' \in [Replicas -> 0..LostLimit]
    BY <1>3, LeaderAssumption DEF ReturnsHeld, TypeOK
  <2> QED
    BY <2>1, <2>2, <2>3, SleepType
<1> QED
  BY <1>1, <1>2, <1>3 DEF ReturnsWait, ReturnsErr

-------------------------------------------------------------------------------
\* A step that ends by returning, with the server, the trackers and the other
\* replicas as they were.
LEMMA EndingKeeps ==
  ASSUME LeaseInv, NEW r \in Replicas, Ending(r),
         UNCHANGED <<lease, leaseAge, news, frozen>>
  PROVE  \A q \in Replicas :
           TrackerSound(q)' /\ ViewSound(q)' /\ ReplaceSound(q)'
  BY DEF LeaseInv, TypeOK, Ending, TrackerSound, ViewSound, ReplaceSound

\* A write or a disturbance makes every tracker and every copy out of date.
LEMMA ChangeKeeps ==
  ASSUME news' = [q \in Replicas |-> TRUE], raced' = [q \in Replicas |-> TRUE]
  PROVE  \A q \in Replicas :
           TrackerSound(q)' /\ ViewSound(q)' /\ ReplaceSound(q)'
  BY DEF TrackerSound, ViewSound, ReplaceSound

LEMMA WrittenType ==
  ASSUME TypeOK, NEW r \in Replicas, Written(r)
  PROVE  /\ lease' \in Holders /\ leaseAge' \in 0..LeaseDuration
         /\ pc' \in [Replicas -> {"sleep"} \cup Calls \cup Answers]
         /\ news' \in [Replicas -> BOOLEAN] /\ raced' \in [Replicas -> BOOLEAN]
         /\ lostFor' \in [Replicas -> 0..LostLimit]
  BY LeaderAssumption DEF TypeOK, Written, Holders, Answers, LostLimit

LEMMA ObserveStep ==
  ASSUME LeaseInv, NEW r \in Replicas, Observe(r)
  PROVE  LeaseInv'
<1> USE LeaderAssumption
<1> DEFINE d == decide(view[r].holder, r, ~view[r].changed, frozen[r])
<1>0. TypeOK /\ TrackerSound(r) /\ ViewSound(r)
  BY DEF LeaseInv
<1>1. d \in {"Wait", "Renew", "Acquire"}
  BY DEF decide
<1>2. /\ news' \in [Replicas -> BOOLEAN] /\ frozen' \in [Replicas -> 0..LeaseDuration]
      /\ \A q \in Replicas : q # r => news'[q] = news[q] /\ frozen'[q] = frozen[q]
      /\ news'[r] = raced[r]
      /\ frozen'[r] = IF view[r].changed THEN 0 ELSE frozen[r]
      /\ UNCHANGED <<lease, leaseAge, cut, disturbed, troubles>>
  BY <1>0 DEF Observe, TypeOK, server, budget
<1>3. TrackerSound(r)'
  <2> SUFFICES ASSUME ~raced[r] PROVE frozen'[r] <= leaseAge
    BY <1>2 DEF TrackerSound
  <2>1. CASE view[r].changed
    BY <2>1, <1>0, <1>2 DEF TypeOK
  <2>2. CASE ~view[r].changed
    BY <2>2, <1>0, <1>2 DEF TypeOK, TrackerSound, ViewSound, Observe
  <2> QED
    BY <2>1, <2>2
<1>4. CASE d = "Wait" /\ ReturnsWait(r)
  <2>1. Ending(r)
    BY <1>4, <1>0, ReturnsType
  <2>2. TypeOK'
    BY <1>4, <1>0, <1>2, ReturnsType DEF TypeOK
  <2>3. \A q \in Replicas : TrackerSound(q)' /\ ViewSound(q)' /\ ReplaceSound(q)'
    BY <1>2, <1>3, <2>1 DEF LeaseInv, TypeOK, Ending, TrackerSound, ViewSound, ReplaceSound
  <2> QED
    BY <2>2, <2>3 DEF LeaseInv
<1>5. CASE /\ d # "Wait"
           /\ Send(r, "replace")
           /\ decision' = [decision EXCEPT ![r] = d]
           /\ view' = [view EXCEPT ![r] = NoView]
           /\ UNCHANGED <<mode, raced, unrenewed, lostFor>>
  <2>2. TypeOK'
    BY <1>5, <1>0, <1>1, <1>2 DEF TypeOK, Send, Calls, NoView, Holders
  <2>3. ReplaceSound(r)'
    <3> SUFFICES ASSUME ~raced[r]
                 PROVE  lease \in {r, Unheld} \/ leaseAge = LeaseDuration
      BY <1>2, <1>5 DEF ReplaceSound
    <3>1. lease = view[r].holder /\ (~view[r].changed => ~news[r])
      BY <1>0 DEF ViewSound, Observe
    <3>2. lease \in {r, Unheld} \/ (~view[r].changed /\ frozen[r] >= LeaseDuration)
      BY <1>5, <3>1 DEF decide
    <3> QED
      BY <3>1, <3>2, <1>0 DEF TrackerSound, TypeOK
  <2>4. \A q \in Replicas : TrackerSound(q)' /\ ViewSound(q)' /\ ReplaceSound(q)'
    BY <1>2, <1>3, <1>5, <2>3
       DEF LeaseInv, TypeOK, Send, TrackerSound, ViewSound, ReplaceSound
  <2> QED
    BY <2>2, <2>4 DEF LeaseInv
<1> QED
  BY <1>4, <1>5 DEF Observe

LEMMA ReadStep ==
  ASSUME LeaseInv, NEW r \in Replicas, Read(r)
  PROVE  LeaseInv'
<1>1. TypeOK'
  BY LeaderAssumption DEF LeaseInv, TypeOK, Read, server, budget, Answers, Holders
<1>2. \A q \in Replicas : TrackerSound(q)' /\ ViewSound(q)' /\ ReplaceSound(q)'
  BY DEF LeaseInv, TypeOK, Read, server, TrackerSound, ViewSound, ReplaceSound
<1> QED
  BY <1>1, <1>2 DEF LeaseInv

LEMMA TickStep ==
  ASSUME LeaseInv, Tick
  PROVE  LeaseInv'
<1> USE LeaderAssumption
<1>0. TypeOK
  BY DEF LeaseInv
<1>1. LostLimit \in Nat
  BY DEF LostLimit
<1>2. leaseAge' \in 0..LeaseDuration
  BY <1>0, AdvanceType DEF Tick, TypeOK
<1>3. frozen' \in [Replicas -> 0..LeaseDuration]
  BY <1>0, AdvanceType DEF Tick, TypeOK
<1>4. unrenewed' \in [Replicas -> 0..LeaseDuration]
  BY <1>0, AdvanceType DEF Tick, TypeOK
<1>5. lostFor' \in [Replicas -> 0..LostLimit]
  BY <1>0, <1>1, AdvanceType DEF Tick, TypeOK
<1>6. timer' \in [Replicas -> Nat]
  BY <1>0 DEF Tick, TypeOK
<1>7. TypeOK'
  BY <1>0, <1>2, <1>3, <1>4, <1>5, <1>6 DEF Tick, TypeOK, budget
<1>8. ASSUME NEW q \in Replicas
      PROVE  TrackerSound(q)' /\ ViewSound(q)' /\ ReplaceSound(q)'
  <2>1. TrackerSound(q) /\ ViewSound(q) /\ ReplaceSound(q)
    BY DEF LeaseInv
  <2>2. TrackerSound(q)'
    BY <1>0, <2>1 DEF Tick, TypeOK, TrackerSound, Advance
  <2>3. ViewSound(q)'
    BY <2>1 DEF Tick, ViewSound
  <2>4. ReplaceSound(q)'
    BY <1>0, <2>1 DEF Tick, TypeOK, ReplaceSound, Advance
  <2> QED
    BY <2>2, <2>3, <2>4
<1> QED
  BY <1>7, <1>8 DEF LeaseInv

LEMMA LeaseStep == LeaseInv /\ [Next]_vars => LeaseInv'
<1> SUFFICES ASSUME LeaseInv, [Next]_vars PROVE LeaseInv'
  OBVIOUS
<1> USE LeaderAssumption
<1>0. TypeOK
  BY DEF LeaseInv
<1>1. ASSUME NEW r \in Replicas, Wake(r) PROVE LeaseInv'
  <2>1. TypeOK'
    BY <1>0, <1>1 DEF TypeOK, Wake, Send, server, budget, Calls
  <2> QED
    BY <1>1, <2>1 DEF LeaseInv, TypeOK, Wake, Send, server, TrackerSound, ViewSound, ReplaceSound
<1>2. ASSUME NEW r \in Replicas, ObserveAbsent(r) PROVE LeaseInv'
  <2>1. TypeOK'
    BY <1>0, <1>2 DEF TypeOK, ObserveAbsent, Send, server, budget, Calls, NoView, Holders
  <2> QED
    BY <1>2, <2>1 DEF LeaseInv, TypeOK, ObserveAbsent, Send, server, TrackerSound, ViewSound, ReplaceSound
<1>3. ASSUME NEW r \in Replicas, Create(r) PROVE LeaseInv'
  <2>1. TypeOK'
    BY <1>0, <1>3, WrittenType DEF TypeOK, Create, budget
  <2> QED
    BY <1>3, <2>1, ChangeKeeps DEF LeaseInv, Create, Written
<1>4. ASSUME NEW r \in Replicas, Replace(r) PROVE LeaseInv'
  <2>1. TypeOK'
    BY <1>0, <1>4, WrittenType DEF TypeOK, Replace, budget
  <2> QED
    BY <1>4, <2>1, ChangeKeeps DEF LeaseInv, Replace, Written
<1>5. ASSUME NEW r \in Replicas, Refused(r) PROVE LeaseInv'
  <2>1. TypeOK'
    BY <1>0, <1>5 DEF TypeOK, Refused, server, budget, Answers
  <2> QED
    BY <1>5, <2>1 DEF LeaseInv, TypeOK, Refused, server, TrackerSound, ViewSound, ReplaceSound
<1>6. ASSUME NEW r \in Replicas, Answered(r) \/ Failed(r) PROVE LeaseInv'
  <2>1. ReturnsWait(r) \/ ReturnsHeld(r) \/ ReturnsErr(r)
    BY <1>6 DEF Answered, Failed
  <2>2. UNCHANGED <<lease, leaseAge, news, frozen, cut, disturbed, troubles>>
    BY <1>6 DEF Answered, Failed, server, budget
  <2>3. TypeOK' /\ Ending(r)
    BY <1>0, <2>1, <2>2, ReturnsType DEF TypeOK
  <2> QED
    BY <2>2, <2>3, EndingKeeps DEF LeaseInv
<1>7. ASSUME NEW r \in Replicas, Restart(r) PROVE LeaseInv'
  <2>1. TypeOK'
    BY <1>0, <1>7 DEF TypeOK, Restart, Send, server, budget, Calls
  <2> QED
    BY <1>7, <2>1 DEF LeaseInv, TypeOK, Restart, Send, server, TrackerSound, ViewSound, ReplaceSound
<1>8. ASSUME NEW r \in Replicas, Crash(r) PROVE LeaseInv'
  <2>1. Ending(r) /\ UNCHANGED <<lease, leaseAge, news, frozen>>
    BY <1>8 DEF Crash, Down, Ending, server
  <2>2. TypeOK'
    BY <1>0, <1>8, DownType DEF TypeOK, Crash, Trouble, server
  <2> QED
    BY <2>1, <2>2, EndingKeeps DEF LeaseInv
<1>9. ASSUME NEW r \in Replicas, Cut(r) \/ Heal(r) PROVE LeaseInv'
  <2>1. cut' \in [Replicas -> BOOLEAN]
    BY <1>0, <1>9, CutUpdate DEF TypeOK, Cut, Heal
  <2>2. disturbed' \in BOOLEAN /\ troubles' \in Nat
    BY <1>0, <1>9 DEF TypeOK, Cut, Heal, Trouble, budget
  <2>3. TypeOK'
    BY <1>0, <1>9, <2>1, <2>2 DEF TypeOK, Cut, Heal, server
  <2> QED
    BY <1>9, <2>3 DEF LeaseInv, Cut, Heal, server, TrackerSound, ViewSound, ReplaceSound
<1>10. CASE Disturb
  <2>1. TypeOK'
    BY <1>0, <1>10 DEF TypeOK, Disturb, Trouble, Holders
  <2> QED
    BY <1>10, <2>1, ChangeKeeps DEF LeaseInv, Disturb
<1>11. CASE UNCHANGED vars
  BY <1>11 DEF LeaseInv, TypeOK, vars, TrackerSound, ViewSound, ReplaceSound
<1> QED
  BY <1>1, <1>2, <1>3, <1>4, <1>5, <1>6, <1>7, <1>8, <1>9, <1>10, <1>11,
     ReadStep, ObserveStep, TickStep DEF Next, Step

\* The strengthened invariant of the election: types, and the soundness of
\* every tracker, copy and pending replace (Tracker::observe, decide, step).
THEOREM LeaseInvariant == Spec => []LeaseInv
<1> QED
  BY LeaseInit, LeaseStep, PTL DEF Spec

-------------------------------------------------------------------------------
LEMMA ContractStep ==
  LeaseInv /\ [Next]_vars => [Promise!Next]_<<lease, leaseAge>>
<1> SUFFICES ASSUME LeaseInv, [Next]_vars
             PROVE  Promise!Next \/ UNCHANGED <<lease, leaseAge>>
  OBVIOUS
<1> USE LeaderAssumption
<1>0. TypeOK
  BY DEF LeaseInv
<1>1. ASSUME NEW r \in Replicas, Create(r) PROVE Promise!Write(r)
  BY <1>1 DEF Create, Written, Promise!Write
<1>2. ASSUME NEW r \in Replicas, Replace(r) PROVE Promise!Write(r)
  BY <1>2 DEF Replace, Written, Promise!Write, LeaseInv, ReplaceSound
<1>3. CASE Disturb
  BY <1>3 DEF Disturb, Promise!Disturb, Promise!Next
<1>4. CASE Tick
  BY <1>4, <1>0 DEF Tick, Advance, TypeOK, Promise!Tick, Promise!Next
<1>5. ASSUME NEW r \in Replicas, Step(r), ~Create(r), ~Replace(r)
      PROVE  UNCHANGED <<lease, leaseAge>>
  BY <1>5 DEF Step, Wake, Read, ObserveAbsent, Observe, Refused, Answered, Failed, server
<1>6. ASSUME NEW r \in Replicas, Restart(r) \/ Crash(r) \/ Cut(r) \/ Heal(r)
      PROVE  UNCHANGED <<lease, leaseAge>>
  BY <1>6 DEF Restart, Crash, Cut, Heal, server
<1>7. CASE UNCHANGED vars
  BY <1>7 DEF vars
<1> QED
  BY <1>1, <1>2, <1>3, <1>4, <1>5, <1>6, <1>7 DEF Next, Step, Promise!Next

\* The election implements the lease contract, for every number of replicas
\* and all durations: no standby takes the Lease from a holder that renewed it
\* within the last LeaseDuration (decide, Tracker::observe, Elector::step).
THEOREM ElectionHonoursLease == Spec => LeaseIsHonoured
<1>1. Init => Promise!Init
  BY DEF Init, Promise!Init
<1> QED
  BY <1>1, LeaseInvariant, ContractStep, PTL DEF Spec, LeaseIsHonoured, Promise!Spec

-------------------------------------------------------------------------------
(***************************************************************************)
(* How long a deposed leader runs on.                                      *)
(***************************************************************************)

\* What OverlapInv says of one replica in an undisturbed election.
Quiet(r) == AnswerTimely(r) /\ LostCounts(r) /\ LeaderSound(r) /\ Deposed(r)

\* The part of the state of q that OverlapInv reads, but for the Lease.
OwnState(q) == <<mode[q], pc[q], timer[q], view[q], news[q], raced[q],
                 unrenewed[q], lostFor[q]>>

LEMMA OverlapInit == Init => OverlapInv
<1> SUFFICES ASSUME Init PROVE OverlapInv
  OBVIOUS
<1> USE LeaderAssumption
<1>1. ASSUME NEW r \in Replicas
      PROVE  Due(r) /\ AnswerTimely(r) /\ LostCounts(r) /\ LeaderSound(r) /\ Deposed(r)
  BY DEF Init, Due, AnswerTimely, LostCounts, LeaderSound, Deposed
<1> QED
  BY <1>1 DEF Init, OverlapInv

\* A replica that a step leaves alone, while the Lease stays as it is.
LEMMA FrameKeeps ==
  ASSUME NEW q \in Replicas, UNCHANGED OwnState(q), UNCHANGED <<lease, leaseAge>>
  PROVE  /\ Due(q) => Due(q)'
         /\ Quiet(q) => Quiet(q)'
<1>1. /\ mode'[q] = mode[q] /\ pc'[q] = pc[q] /\ timer'[q] = timer[q]
      /\ view'[q] = view[q] /\ news'[q] = news[q] /\ raced'[q] = raced[q]
      /\ unrenewed'[q] = unrenewed[q] /\ lostFor'[q] = lostFor[q]
      /\ lease' = lease /\ leaseAge' = leaseAge
  BY DEF OwnState
<1>2. Due(q)' = Due(q)
  BY <1>1 DEF Due
<1>3. AnswerTimely(q)' = AnswerTimely(q) /\ LostCounts(q)' = LostCounts(q)
  BY <1>1 DEF AnswerTimely, LostCounts
<1>4. LeaderSound(q)' = LeaderSound(q)
  BY <1>1 DEF LeaderSound
<1>5. Deposed(q)' = Deposed(q)
  BY <1>1 DEF Deposed
<1> QED
  BY <1>2, <1>3, <1>4, <1>5 DEF Quiet

\* A step of r that leaves the Lease and the other replicas alone.
LEMMA OwnStepKeeps ==
  ASSUME OverlapInv, NEW r \in Replicas,
         UNCHANGED <<lease, leaseAge, disturbed>>,
         \A q \in Replicas : q # r => UNCHANGED OwnState(q),
         Due(r)', (~disturbed /\ lease # Unheld /\ Quiet(r)) => Quiet(r)'
  PROVE  OverlapInv'
<1>1. ASSUME NEW q \in Replicas PROVE Due(q)'
  BY FrameKeeps DEF OverlapInv
<1>2. ASSUME ~disturbed, NEW q \in Replicas PROVE Quiet(q)'
  <2>1. Quiet(q) /\ lease # Unheld
    BY <1>2 DEF OverlapInv, Quiet
  <2> QED
    BY <1>2, <2>1, FrameKeeps
<1> QED
  BY <1>1, <1>2 DEF OverlapInv, Quiet

\* Every ending of a step, from an answer or a failure that r may meet there.
LEMMA ReturnsKeep ==
  ASSUME LeaseInv, OverlapInv, NEW r \in Replicas,
         \/ ReturnsWait(r)
         \/ pc[r] = "ok" /\ ReturnsHeld(r)
         \/ ReturnsErr(r),
         mode[r] # "down", UNCHANGED <<lease, leaseAge, disturbed>>,
         \A q \in Replicas : q # r => news'[q] = news[q],
         news'[r] = news[r] \/ mode'[r] # "leading"
  PROVE  OverlapInv'
<1> USE LeaderAssumption
<1>0. TypeOK
  BY DEF LeaseInv
<1>1. \A q \in Replicas : q # r => UNCHANGED OwnState(q)
  BY <1>0 DEF ReturnsWait, ReturnsHeld, ReturnsErr, Down, Sleep, OwnState, TypeOK
<1>2. CASE Down(r)
  <2>1. /\ mode'[r] = "down" /\ pc'[r] = "sleep" /\ timer'[r] = 0
        /\ lostFor'[r] = 0
    BY <1>0, <1>2 DEF Down, TypeOK
  <2>2. Due(r)' /\ Quiet(r)'
    BY <2>1 DEF Due, Quiet, AnswerTimely, LostCounts, LeaderSound, Deposed
  <2> QED
    BY <1>1, <2>2, OwnStepKeeps
<1>3. CASE Sleep(r) /\ UNCHANGED <<mode, unrenewed, lostFor>> /\ ~GivesUp(r)
  <2>1. /\ pc'[r] = "sleep" /\ timer'[r] = RetryPeriod
        /\ UNCHANGED <<mode, unrenewed, lostFor>>
    BY <1>0, <1>3 DEF Sleep, TypeOK
  <2>2. Due(r)'
    BY <2>1 DEF Due
  <2>3. ASSUME ~disturbed, lease # Unheld, Quiet(r) PROVE Quiet(r)'
    <3>1. AnswerTimely(r)' /\ LostCounts(r)' /\ LeaderSound(r)'
      BY <2>1, <2>3 DEF Quiet, AnswerTimely, LostCounts, LeaderSound
    <3>2. Deposed(r)'
      <4> SUFFICES ASSUME mode[r] = "leading", lease # r
                   PROVE  /\ news'[r]
                          /\ unrenewed[r] < LeaseDuration =>
                               lostFor[r] + LeaseDuration <= unrenewed[r] + MaxLatency
                          /\ lostFor[r] + RetryPeriod <= RetryPeriod + MaxLatency
        BY <2>1 DEF Deposed
      <4>1. unrenewed[r] < LeaseDuration
        BY <1>0, <1>3 DEF GivesUp, TypeOK
      <4>2. lostFor[r] + LeaseDuration <= unrenewed[r] + MaxLatency
        BY <2>3, <4>1 DEF Quiet, Deposed
      <4>3. lostFor[r] \in Nat /\ unrenewed[r] \in Nat
        BY <1>0 DEF TypeOK
      <4>4. news'[r]
        BY <2>1, <2>3 DEF Quiet, Deposed
      <4> QED
        BY <4>1, <4>2, <4>3, <4>4
    <3> QED
      BY <3>1, <3>2 DEF Quiet
  <2> QED
    BY <1>1, <2>2, <2>3, OwnStepKeeps
<1>4. CASE pc[r] = "ok" /\ ReturnsHeld(r)
  <2>1. /\ pc'[r] = "sleep" /\ timer'[r] = RetryPeriod /\ mode'[r] = "leading"
        /\ unrenewed'[r] = 0 /\ lostFor' = lostFor
    BY <1>0, <1>4 DEF ReturnsHeld, Sleep, TypeOK
  <2>2. Due(r)'
    BY <2>1 DEF Due
  <2>3. ASSUME ~disturbed, lease # Unheld, Quiet(r) PROVE Quiet(r)'
    <3>0. /\ leaseAge \in Nat /\ timer[r] \in Nat /\ lostFor[r] \in Nat
          /\ news'[r] = news[r]
      BY <1>0, <2>1 DEF TypeOK
    <3>1. /\ news[r] /\ lease \in Replicas
          /\ lease = r => leaseAge <= MaxLatency /\ lostFor[r] = 0
          /\ lease # r => lostFor[r] + LeaseDuration <= MaxLatency
      BY <1>4, <2>3, <3>0 DEF Quiet, AnswerTimely, LostCounts
    <3> QED
      BY <2>1, <3>0, <3>1 DEF Quiet, AnswerTimely, LostCounts, LeaderSound, Deposed
  <2> QED
    BY <1>1, <2>2, <2>3, OwnStepKeeps
<1>5. ASSUME mode[r] = "campaign" PROVE ~GivesUp(r)
  BY <1>5 DEF GivesUp
<1> QED
  BY <1>2, <1>3, <1>4, <1>5 DEF ReturnsWait, ReturnsErr

\* A leader reads the Lease of a peer as changed, so it does not decide to
\* replace it; a copy of its own it replaces within one more call.
LEMMA ObserveKeeps ==
  ASSUME LeaseInv, OverlapInv, NEW r \in Replicas, Observe(r)
  PROVE  OverlapInv'
<1> USE LeaderAssumption
<1>0. TypeOK /\ ViewSound(r)
  BY DEF LeaseInv
<1> DEFINE d == decide(view[r].holder, r, ~view[r].changed, frozen[r])
<1>1. /\ UNCHANGED <<lease, leaseAge, disturbed>> /\ pc[r] = "got"
      /\ \A q \in Replicas : q # r => news'[q] = news[q]
      /\ news'[r] = raced[r]
  BY <1>0 DEF Observe, TypeOK, server, budget
<1>2. CASE d = "Wait" /\ ReturnsWait(r)
  <2>1. mode[r] # "down" /\ mode'[r] # "leading"
    BY <1>0, <1>2 DEF ReturnsWait, Down, TypeOK
  <2> QED
    BY <1>1, <1>2, <2>1, ReturnsKeep
<1>3. CASE /\ d # "Wait"
           /\ Send(r, "replace")
           /\ decision' = [decision EXCEPT ![r] = d]
           /\ view' = [view EXCEPT ![r] = NoView]
           /\ UNCHANGED <<mode, raced, unrenewed, lostFor>>
  <2>1. /\ pc'[r] = "replace" /\ timer'[r] = MaxLatency
        /\ UNCHANGED <<mode, raced, unrenewed, lostFor>>
    BY <1>0, <1>3 DEF Send, TypeOK
  <2>2. \A q \in Replicas : q # r => UNCHANGED OwnState(q)
    BY <1>0, <1>1, <1>3 DEF Send, OwnState, TypeOK
  <2>3. Due(r)'
    BY <1>1, <2>1 DEF OverlapInv, Due
  <2>4. ASSUME ~disturbed, lease # Unheld, Quiet(r) PROVE Quiet(r)'
    <3>1. AnswerTimely(r)' /\ LostCounts(r)'
      BY <1>1, <2>1, <2>4 DEF Quiet, AnswerTimely, LostCounts
    <3>2. ASSUME mode[r] = "leading" PROVE view[r].holder = r
      <4>1. /\ view[r].holder \in Replicas
            /\ view[r].holder # r => view[r].changed
        BY <1>1, <2>4, <3>2 DEF Quiet, LeaderSound
      <4> QED
        BY <1>3, <4>1 DEF decide
    <3>3. LeaderSound(r)'
      BY <1>0, <1>1, <2>1, <2>4, <3>2 DEF Quiet, LeaderSound, ViewSound
    <3>4. Deposed(r)'
      <4> SUFFICES ASSUME mode[r] = "leading", lease # r
                   PROVE  /\ raced[r]
                          /\ unrenewed[r] < LeaseDuration =>
                               lostFor[r] + LeaseDuration <= unrenewed[r] + MaxLatency
                          /\ lostFor[r] + MaxLatency <= RetryPeriod + 2 * MaxLatency
        BY <1>1, <2>1 DEF Deposed
      <4>1. raced[r]
        BY <1>0, <1>1, <3>2 DEF ViewSound
      <4>2. lostFor[r] + timer[r] <= MaxLatency
        BY <1>1, <2>4, <3>2 DEF Quiet, Deposed
      <4>3. lostFor[r] \in Nat /\ timer[r] \in Nat
        BY <1>0 DEF TypeOK
      <4>4. unrenewed[r] < LeaseDuration =>
              lostFor[r] + LeaseDuration <= unrenewed[r] + MaxLatency
        BY <2>4 DEF Quiet, Deposed
      <4> QED
        BY <4>1, <4>2, <4>3, <4>4
    <3> QED
      BY <3>1, <3>3, <3>4 DEF Quiet
  <2> QED
    BY <1>1, <2>2, <2>3, <2>4, OwnStepKeeps
<1> QED
  BY <1>2, <1>3 DEF Observe

LEMMA ReadKeeps ==
  ASSUME LeaseInv, OverlapInv, NEW r \in Replicas, Read(r)
  PROVE  OverlapInv'
<1> USE LeaderAssumption
<1>0. TypeOK
  BY DEF LeaseInv
<1>1. /\ UNCHANGED <<lease, leaseAge, disturbed, mode, timer, news, unrenewed, lostFor>>
      /\ pc[r] = "get" /\ pc'[r] = "got" /\ raced'[r] = FALSE
      /\ view'[r] = [holder |-> lease, changed |-> news[r]]
  BY <1>0 DEF Read, TypeOK, server, budget
<1>2. view'[r].holder = lease /\ view'[r].changed = news[r]
  BY <1>1
<1>3. \A q \in Replicas : q # r => UNCHANGED OwnState(q)
  BY <1>0 DEF Read, OwnState, TypeOK
<1>4. Due(r)'
  BY <1>1 DEF OverlapInv, Due
<1>5. ASSUME ~disturbed, lease # Unheld, Quiet(r) PROVE Quiet(r)'
  <2>1. AnswerTimely(r)' /\ LostCounts(r)'
    BY <1>1, <1>5 DEF Quiet, AnswerTimely, LostCounts
  <2>2. LeaderSound(r)'
    BY <1>1, <1>2, <1>5 DEF Quiet, LeaderSound, Deposed
  <2>3. Deposed(r)'
    BY <1>1, <1>2, <1>5 DEF Quiet, Deposed
  <2> QED
    BY <2>1, <2>2, <2>3 DEF Quiet
<1> QED
  BY <1>1, <1>3, <1>4, <1>5, OwnStepKeeps

LEMMA WakeKeeps ==
  ASSUME LeaseInv, OverlapInv, NEW r \in Replicas,
         Wake(r) \/ ObserveAbsent(r) \/ Restart(r)
  PROVE  OverlapInv'
<1> USE LeaderAssumption
<1>0. TypeOK
  BY DEF LeaseInv
<1>1. /\ UNCHANGED <<lease, leaseAge, disturbed, unrenewed, lostFor, raced>>
      /\ timer'[r] = MaxLatency
      /\ \/ /\ mode[r] # "down" /\ pc[r] = "sleep" /\ timer[r] = 0
            /\ pc'[r] = "get" /\ mode'[r] = mode[r]
            /\ news'[r] = news[r]
         \/ /\ pc[r] = "got" /\ view[r].holder = Absent /\ pc'[r] = "create"
            /\ mode'[r] = mode[r]
         \/ mode[r] = "down" /\ mode'[r] = "campaign" /\ pc'[r] = "get"
  BY <1>0 DEF Wake, ObserveAbsent, Restart, Send, TypeOK, server, budget
<1>2. \A q \in Replicas : q # r => UNCHANGED OwnState(q)
  BY <1>0 DEF Wake, ObserveAbsent, Restart, Send, OwnState, TypeOK
<1>3. Due(r)'
  BY <1>1 DEF OverlapInv, Due
<1>4. ASSUME ~disturbed, lease # Unheld, Quiet(r) PROVE Quiet(r)'
  <2>1. AnswerTimely(r)' /\ LostCounts(r)'
    BY <1>1, <1>4 DEF Quiet, AnswerTimely, LostCounts
  <2>2. mode'[r] = "leading" => pc[r] = "sleep" /\ pc'[r] = "get"
    BY <1>1, <1>4 DEF Quiet, LeaderSound
  <2>3. LeaderSound(r)'
    BY <1>1, <1>4, <2>2 DEF Quiet, LeaderSound
  <2>4. Deposed(r)'
    <3> SUFFICES ASSUME mode'[r] = "leading", lease # r
                 PROVE  /\ news'[r]
                        /\ unrenewed[r] < LeaseDuration =>
                             lostFor[r] + LeaseDuration <= unrenewed[r] + MaxLatency
                        /\ lostFor[r] + MaxLatency <= RetryPeriod + 2 * MaxLatency
      BY <1>1, <2>2 DEF Deposed
    <3>1. mode[r] = "leading" /\ timer[r] = 0 /\ news'[r] = news[r]
      BY <1>1, <2>2
    <3>2. lostFor[r] + 0 <= RetryPeriod + MaxLatency
      BY <1>4, <2>2, <3>1 DEF Quiet, Deposed
    <3>3. lostFor[r] \in Nat
      BY <1>0 DEF TypeOK
    <3>4. news[r] /\ (unrenewed[r] < LeaseDuration =>
            lostFor[r] + LeaseDuration <= unrenewed[r] + MaxLatency)
      BY <1>4, <3>1 DEF Quiet, Deposed
    <3> QED
      BY <3>1, <3>2, <3>3, <3>4
  <2> QED
    BY <2>1, <2>3, <2>4 DEF Quiet
<1> QED
  BY <1>1, <1>2, <1>3, <1>4, OwnStepKeeps

LEMMA RefusedKeeps ==
  ASSUME LeaseInv, OverlapInv, NEW r \in Replicas, Refused(r)
  PROVE  OverlapInv'
<1> USE LeaderAssumption
<1>0. TypeOK
  BY DEF LeaseInv
<1>1. /\ UNCHANGED <<lease, leaseAge, disturbed, mode, timer, view, news, raced,
                     unrenewed, lostFor>>
      /\ pc[r] \in {"create", "replace"}
      /\ pc'[r] = "conflict" \/ (pc'[r] = "error" /\ lease = Absent)
  BY <1>0 DEF Refused, TypeOK, server, budget
<1>2. \A q \in Replicas : q # r => UNCHANGED OwnState(q)
  BY <1>0 DEF Refused, OwnState, TypeOK
<1>3. Due(r)'
  BY <1>1 DEF OverlapInv, Due
<1>4. ASSUME ~disturbed, lease # Unheld, Quiet(r) PROVE Quiet(r)'
  <2>1. AnswerTimely(r)' /\ LostCounts(r)'
    BY <1>1, <1>4 DEF Quiet, AnswerTimely, LostCounts
  <2>2. mode[r] = "leading" => pc'[r] = "conflict"
    BY <1>1, <1>4 DEF Quiet, LeaderSound
  <2>3. LeaderSound(r)'
    BY <1>1, <1>4, <2>2 DEF Quiet, LeaderSound
  <2>4. Deposed(r)'
    BY <1>1, <1>4, <2>2 DEF Quiet, Deposed
  <2> QED
    BY <2>1, <2>3, <2>4 DEF Quiet
<1> QED
  BY <1>1, <1>2, <1>3, <1>4, OwnStepKeeps

\* A write. Whoever led and held the Lease until now has not renewed it for a
\* LeaseDuration, less the latency of its last answer.
LEMMA WrittenKeeps ==
  ASSUME LeaseInv, OverlapInv,
         NEW r \in Replicas, Create(r) \/ Replace(r)
  PROVE  OverlapInv'
<1> USE LeaderAssumption
<1>0. TypeOK /\ ReplaceSound(r)
  BY DEF LeaseInv
<1>1. /\ lease' = r /\ leaseAge' = 0 /\ pc' = [pc EXCEPT ![r] = "ok"]
      /\ news' = [q \in Replicas |-> TRUE] /\ raced' = [q \in Replicas |-> TRUE]
      /\ lostFor' = [lostFor EXCEPT ![r] = 0]
      /\ UNCHANGED <<mode, timer, view, unrenewed, disturbed>>
      /\ pc[r] \in {"create", "replace"}
      /\ lease = Absent \/ (pc[r] = "replace" /\ ~raced[r])
  BY DEF Create, Replace, Written, budget
<1>2. ASSUME NEW q \in Replicas PROVE Due(q)'
  BY <1>0, <1>1, <1>2 DEF OverlapInv, Due, TypeOK
<1>3. ASSUME ~disturbed, NEW q \in Replicas PROVE Quiet(q)'
  <2>1. Quiet(q) /\ Quiet(r) /\ lease # Unheld /\ Due(q) /\ Due(r)
    BY <1>3 DEF OverlapInv, Quiet
  <2>2. /\ leaseAge \in 0..LeaseDuration /\ timer[q] \in Nat /\ timer[r] \in Nat
        /\ unrenewed[q] \in 0..LeaseDuration /\ lostFor[q] \in Nat
    BY <1>0 DEF TypeOK
  <2>3. CASE q = r
    <3>1. pc'[q] = "ok" /\ lostFor'[q] = 0 /\ timer[q] <= MaxLatency
      BY <1>0, <1>1, <2>1, <2>3 DEF TypeOK, Due
    <3> QED
      BY <1>1, <2>1, <2>2, <2>3, <3>1
         DEF Quiet, AnswerTimely, LostCounts, LeaderSound, Deposed
  <2>4. CASE q # r
    <3>1. pc'[q] = pc[q] /\ lostFor'[q] = lostFor[q] /\ raced'[q] /\ news'[q]
      BY <1>0, <1>1, <2>4 DEF TypeOK
    <3>2. ASSUME lease = q PROVE leaseAge = LeaseDuration
      BY <1>0, <1>1, <2>1, <2>4, <3>2 DEF ReplaceSound
    <3>3. AnswerTimely(q)'
      <4> SUFFICES ASSUME pc[q] = "ok"
                   PROVE  lostFor[q] + LeaseDuration + timer[q] <= MaxLatency
        BY <1>1, <2>4, <3>1 DEF AnswerTimely
      <4>1. lease = q => lostFor[q] = 0
        BY <2>1 DEF Quiet, LostCounts
      <4> QED
        BY <2>1, <2>2, <3>2, <4>1 DEF Quiet, AnswerTimely
    <3>4. LostCounts(q)'
      BY <1>1, <2>1, <2>4, <3>1 DEF Quiet, LostCounts
    <3>5. LeaderSound(q)'
      BY <1>1, <2>1, <2>4, <3>1 DEF Quiet, LeaderSound
    <3>6. ASSUME mode[q] = "leading" PROVE Deposed(q)'
      <4>1. CASE lease = q
        <5>1. leaseAge = LeaseDuration /\ LeaseDuration <= unrenewed[q] + MaxLatency
          BY <2>1, <3>2, <3>6, <4>1 DEF Quiet, LeaderSound
        <5>2. lostFor[q] = 0
          BY <2>1, <4>1 DEF Quiet, LostCounts
        <5> QED
          BY <1>1, <2>1, <2>2, <3>1, <5>1, <5>2 DEF Deposed, Due
      <4>2. CASE lease # q
        BY <1>1, <2>1, <3>1, <3>6, <4>2 DEF Quiet, Deposed
      <4> QED
        BY <4>1, <4>2
    <3> QED
      BY <1>1, <3>3, <3>4, <3>5, <3>6 DEF Quiet, Deposed
  <2> QED
    BY <2>3, <2>4
<1>4. lease' # Unheld
  BY <1>1
<1> QED
  BY <1>1, <1>2, <1>3, <1>4 DEF OverlapInv, Quiet

LEMMA TickKeeps ==
  ASSUME LeaseInv, OverlapInv, Tick
  PROVE  OverlapInv'
<1> USE LeaderAssumption
<1>0. TypeOK
  BY DEF LeaseInv
<1>1. /\ UNCHANGED <<lease, mode, pc, view, news, raced, disturbed>>
      /\ leaseAge' = Advance(leaseAge, LeaseDuration)
  BY DEF Tick, budget
<1>2. ASSUME NEW q \in Replicas PROVE Due(q)' /\ (~disturbed => Quiet(q)')
  <2>1. /\ timer'[q] = IF timer[q] > 0 THEN timer[q] - 1 ELSE 0
        /\ unrenewed'[q] = IF mode[q] = "leading"
             THEN Advance(unrenewed[q], LeaseDuration) ELSE 0
        /\ lostFor'[q] = IF mode[q] = "leading" /\ lease # q
             THEN Advance(lostFor[q], LostLimit) ELSE 0
        /\ mode[q] # "down" => timer[q] > 0
    BY DEF Tick
  <2>2. /\ leaseAge \in 0..LeaseDuration /\ timer[q] \in Nat
        /\ unrenewed[q] \in 0..LeaseDuration /\ lostFor[q] \in 0..LostLimit
        /\ LostLimit \in Nat
    BY <1>0 DEF TypeOK, LostLimit
  <2>3. Due(q)'
    BY <1>1, <2>1, <2>2 DEF OverlapInv, Due
  <2>4. ASSUME ~disturbed PROVE Quiet(q)'
    <3>1. Quiet(q)
      BY <2>4 DEF OverlapInv, Quiet
    <3>2. AnswerTimely(q)'
      <4> SUFFICES ASSUME pc[q] = "ok"
                   PROVE  /\ news[q] /\ lease \in Replicas
                          /\ lease = q => leaseAge' + timer'[q] <= MaxLatency
                          /\ lease # q => lostFor'[q] + LeaseDuration + timer'[q]
                                            <= MaxLatency
        BY <1>1 DEF AnswerTimely
      <4>1. /\ news[q] /\ lease \in Replicas
            /\ lease = q => leaseAge + timer[q] <= MaxLatency
            /\ lease # q => lostFor[q] + LeaseDuration + timer[q] <= MaxLatency
        BY <3>1 DEF Quiet, AnswerTimely
      <4>2. timer[q] > 0
        BY <2>1 DEF OverlapInv, Due
      <4> QED
        BY <1>1, <2>1, <2>2, <4>1, <4>2 DEF Advance
    <3>3. LostCounts(q)'
      BY <1>1, <2>1 DEF LostCounts
    <3>4. LeaderSound(q)'
      <4> SUFFICES ASSUME mode[q] = "leading", lease = q
                   PROVE  leaseAge' <= unrenewed'[q] + MaxLatency
        BY <1>1, <3>1 DEF Quiet, LeaderSound
      <4>1. leaseAge <= unrenewed[q] + MaxLatency
        BY <3>1 DEF Quiet, LeaderSound
      <4> QED
        BY <1>1, <2>1, <2>2, <4>1 DEF Advance
    <3>5. ASSUME mode[q] = "leading", lease # q PROVE Deposed(q)'
      <4>1. /\ lostFor'[q] <= lostFor[q] + 1 /\ timer'[q] = timer[q] - 1
            /\ lostFor'[q] \in Nat
        BY <2>1, <2>2, <3>5 DEF Advance
      <4>2. lostFor'[q] + timer'[q] <= lostFor[q] + timer[q]
        BY <2>2, <4>1
      <4>3. unrenewed'[q] < LeaseDuration =>
              unrenewed[q] < LeaseDuration /\ unrenewed'[q] = unrenewed[q] + 1
        BY <2>1, <2>2, <3>5 DEF Advance
      <4>4. /\ news[q]
            /\ unrenewed[q] < LeaseDuration =>
                 lostFor[q] + LeaseDuration <= unrenewed[q] + MaxLatency
            /\ lostFor[q] + timer[q] <=
                 CASE pc[q] = "sleep" -> RetryPeriod + MaxLatency
                   [] pc[q] = "got" /\ view[q].holder = q -> MaxLatency
                   [] OTHER -> RetryPeriod + 2 * MaxLatency
        BY <3>1, <3>5 DEF Quiet, Deposed
      <4>5. unrenewed'[q] < LeaseDuration =>
              lostFor'[q] + LeaseDuration <= unrenewed'[q] + MaxLatency
        BY <2>2, <4>1, <4>3, <4>4
      <4>6. lostFor'[q] + timer'[q] <=
                 CASE pc[q] = "sleep" -> RetryPeriod + MaxLatency
                   [] pc[q] = "got" /\ view[q].holder = q -> MaxLatency
                   [] OTHER -> RetryPeriod + 2 * MaxLatency
        BY <2>2, <4>1, <4>2, <4>4
      <4> QED
        BY <1>1, <4>4, <4>5, <4>6 DEF Deposed
    <3>6. Deposed(q)'
      BY <1>1, <3>5 DEF Deposed
    <3> QED
      BY <3>2, <3>3, <3>4, <3>6 DEF Quiet
  <2> QED
    BY <2>3, <2>4
<1> QED
  BY <1>1, <1>2 DEF OverlapInv, Quiet

LEMMA OverlapStep ==
  LeaseInv /\ OverlapInv /\ [Next]_vars => OverlapInv'
<1> SUFFICES ASSUME LeaseInv, OverlapInv, [Next]_vars PROVE OverlapInv'
  OBVIOUS
<1> USE LeaderAssumption
<1>0. TypeOK
  BY DEF LeaseInv
<1>1. ASSUME NEW r \in Replicas, Step(r) PROVE OverlapInv'
  <2>1. ASSUME Answered(r) \/ Failed(r) PROVE OverlapInv'
    <3>1. /\ \/ ReturnsWait(r)
             \/ pc[r] = "ok" /\ ReturnsHeld(r)
             \/ ReturnsErr(r)
          /\ pc[r] # "sleep"
          /\ UNCHANGED <<lease, leaseAge, news, disturbed>>
      BY <2>1 DEF Answered, Failed, server, budget
    <3>2. mode[r] # "down"
      BY <3>1 DEF OverlapInv, Due
    <3> QED
      BY <3>1, <3>2, ReturnsKeep
  <2> QED
    BY <1>1, <2>1, WakeKeeps, ReadKeeps, ObserveKeeps, WrittenKeeps, RefusedKeeps
       DEF Step
<1>2. ASSUME NEW r \in Replicas, Restart(r) PROVE OverlapInv'
  BY <1>2, WakeKeeps
<1>3. ASSUME NEW r \in Replicas, Crash(r) PROVE OverlapInv'
  <2>1. /\ UNCHANGED <<lease, leaseAge, disturbed>>
        /\ \A q \in Replicas : q # r => UNCHANGED OwnState(q)
        /\ mode'[r] = "down" /\ pc'[r] = "sleep" /\ timer'[r] = 0 /\ lostFor'[r] = 0
    BY <1>0, <1>3 DEF Crash, Down, OwnState, TypeOK, server
  <2>2. Due(r)' /\ Quiet(r)'
    BY <2>1 DEF Due, Quiet, AnswerTimely, LostCounts, LeaderSound, Deposed
  <2> QED
    BY <2>1, <2>2, OwnStepKeeps
<1>4. ASSUME \/ \E r \in Replicas : Cut(r) \/ Heal(r)
             \/ UNCHANGED vars
      PROVE  OverlapInv'
  <2>1. /\ \A q \in Replicas : UNCHANGED OwnState(q)
        /\ UNCHANGED <<lease, leaseAge, disturbed>>
    BY <1>4 DEF Cut, Heal, OwnState, server, budget, vars
  <2> QED
    BY <2>1, FrameKeeps DEF OverlapInv, Quiet
<1>5. CASE Disturb
  BY <1>5 DEF Disturb, OverlapInv, Due
<1>6. CASE Tick
  BY <1>6, TickKeeps
<1> QED
  BY <1>1, <1>2, <1>3, <1>4, <1>5, <1>6 DEF Next

\* In an election nobody disturbs from outside, a deposed leader stops its
\* controllers within one retry and two calls, for any number of replicas,
\* partitions, crashes and restarts and for all durations, calls that take longer
\* than the lease included (keep_leadership).
THEOREM DeposedLeaderStops == Spec => []OverlapBounded
<1> USE LeaderAssumption
<1>1. LeaseInv /\ OverlapInv => OverlapBounded
  <2> SUFFICES ASSUME LeaseInv, OverlapInv, ~disturbed, NEW r \in Replicas
               PROVE  lostFor[r] <= RetryPeriod + 2 * MaxLatency
    BY DEF OverlapBounded
  <2>1. LostCounts(r) /\ Deposed(r)
    BY DEF OverlapInv
  <2>2. lostFor[r] \in Nat /\ timer[r] \in Nat
    BY DEF LeaseInv, TypeOK
  <2>3. CASE mode[r] = "leading" /\ lease # r
    BY <2>1, <2>2, <2>3 DEF Deposed
  <2>4. CASE ~(mode[r] = "leading" /\ lease # r)
    BY <2>1, <2>4 DEF LostCounts
  <2> QED
    BY <2>3, <2>4
<1>2. LeaseInv /\ OverlapInv /\ [Next]_vars => OverlapInv'
  BY OverlapStep
<1> QED
  BY LeaseInit, LeaseStep, OverlapInit, <1>1, <1>2, PTL DEF Spec
===============================================================================
