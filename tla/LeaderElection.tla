----------------------------- MODULE LeaderElection ---------------------------
(***************************************************************************)
(* Lease-based leader election (leader.rs): replicas contend for one Lease *)
(* in the API server; the winner runs the controllers while keep_leadership*)
(* renews; a replica that loses the lease exits and is restarted.          *)
(*                                                                         *)
(* Time is discrete: Tick advances every clock by one unit. A call is sent *)
(* (pc), served by the API server (Read, Create, Replace) and answered, at *)
(* most MaxLatency after it was sent; Tick waits for whoever is due. Only  *)
(* elapsed times matter to the code, so they are kept as counters that     *)
(* stop at the largest value it tells apart; every write carries a new     *)
(* renewTime, so whether the Lease changed since a replica looked is one   *)
(* bit (news, raced).                                                      *)
(***************************************************************************)
EXTENDS Integers, FiniteSets

CONSTANTS
  Replicas,       \* identities: pod names, kept across container restarts
  LeaseDuration,  \* LEASE_DURATION, in ticks
  RetryPeriod,    \* RETRY_PERIOD, in ticks
  MaxLatency,     \* the longest an API call takes to be answered or to fail
  MaxTroubles,    \* bound on partitions, crashes and outside interventions
  Absent,         \* no Lease object
  Unheld          \* a Lease without holderIdentity

ASSUME LeaderAssumption ==
  /\ LeaseDuration \in Nat \ {0} /\ RetryPeriod \in Nat \ {0} /\ MaxLatency \in Nat
  /\ MaxTroubles \in Nat
  /\ Absent \notin Replicas /\ Unheld \notin Replicas /\ Absent # Unheld

VARIABLES
  lease,      \* the holder in the API server, Unheld or Absent
  leaseAge,   \* time since the Lease was last written by a replica
  mode,       \* per replica: "down", "campaign" or "leading"
  pc,         \* per replica: "sleep", the call of step it sent, or the answer
  timer,      \* per replica: time left to sleep, or until the call's answer
  view,       \* per replica: what its get read, until it is folded in
  news,       \* per replica: renewTime is not the one the tracker holds
  frozen,     \* per replica: time since the tracker first saw its renewTime
  raced,      \* per replica: its step has no copy of the Lease as it is now
  decision,   \* per replica: what this step decided
  unrenewed,  \* per replica: time since last_renewed
  lostFor,    \* per replica: how long it leads without holding the Lease
  cut,        \* per replica: its calls and their answers do not get through
  disturbed,  \* somebody outside the election has changed the Lease
  troubles    \* the bound's counter

budget == <<disturbed, troubles>>
server == <<lease, leaseAge>>
vars == <<lease, leaseAge, mode, pc, timer, view, news, frozen, raced,
          decision, unrenewed, lostFor, cut, disturbed, troubles>>

Holders == Replicas \cup {Absent, Unheld}
Calls == {"get", "create", "replace"}
Answers == {"got", "ok", "conflict", "error"}

NoView == [holder |-> Absent, changed |-> TRUE]

\* The counters stop at their limit.
Advance(n, limit) == IF n < limit THEN n + 1 ELSE limit
LostLimit == LeaseDuration + RetryPeriod + 3 * MaxLatency

Init ==
  /\ lease = Absent /\ leaseAge = 0
  /\ mode = [r \in Replicas |-> "campaign"]
  /\ pc = [r \in Replicas |-> "get"]
  /\ timer = [r \in Replicas |-> MaxLatency]
  /\ view = [r \in Replicas |-> NoView]
  /\ news = [r \in Replicas |-> TRUE]
  /\ frozen = [r \in Replicas |-> 0]
  /\ raced = [r \in Replicas |-> TRUE]
  /\ decision = [r \in Replicas |-> "Wait"]
  /\ unrenewed = [r \in Replicas |-> 0]
  /\ lostFor = [r \in Replicas |-> 0]
  /\ cut = [r \in Replicas |-> FALSE]
  /\ disturbed = FALSE /\ troubles = 0

-------------------------------------------------------------------------------
\* How a step ends.

\* The process of r ends, and its controllers with it.
Down(r) ==
  /\ mode' = [mode EXCEPT ![r] = "down"]
  /\ pc' = [pc EXCEPT ![r] = "sleep"]
  /\ timer' = [timer EXCEPT ![r] = 0]
  /\ decision' = [decision EXCEPT ![r] = "Wait"]
  /\ view' = [view EXCEPT ![r] = NoView]
  /\ raced' = [raced EXCEPT ![r] = TRUE]
  /\ unrenewed' = [unrenewed EXCEPT ![r] = 0]
  /\ lostFor' = [lostFor EXCEPT ![r] = 0]

\* The loop of campaign or keep_leadership goes on to its sleep.
Sleep(r) ==
  /\ pc' = [pc EXCEPT ![r] = "sleep"]
  /\ timer' = [timer EXCEPT ![r] = RetryPeriod]
  /\ decision' = [decision EXCEPT ![r] = "Wait"]
  /\ view' = [view EXCEPT ![r] = NoView]
  /\ raced' = [raced EXCEPT ![r] = TRUE]

\* step returned Ok(Wait): a leader steps down, a standby tries again later.
ReturnsWait(r) ==
  \/ mode[r] = "leading" /\ Down(r)
  \/ mode[r] = "campaign" /\ Sleep(r) /\ UNCHANGED <<mode, unrenewed, lostFor>>

OnlyAcquireLeadsVariant(r) ==
  /\ Sleep(r)
  /\ mode' = [mode EXCEPT ![r] = IF decision[r] = "Acquire" THEN "leading" ELSE @]
  /\ unrenewed' = [unrenewed EXCEPT ![r] = 0]
  /\ UNCHANGED lostFor
\* step returned Ok(Renew) or Ok(Acquire): r leads from now on.
ReturnsHeld(r) ==
  /\ Sleep(r)
  /\ mode' = [mode EXCEPT ![r] = "leading"]
  /\ unrenewed' = [unrenewed EXCEPT ![r] = 0]
  /\ UNCHANGED lostFor

\* step returned Err: a leader gives up after a whole lease duration.
NeverGivesUpVariant(r) == FALSE
GivesUp(r) == mode[r] = "leading" /\ unrenewed[r] >= LeaseDuration
ReturnsErr(r) ==
  \/ GivesUp(r) /\ Down(r)
  \/ ~GivesUp(r) /\ Sleep(r) /\ UNCHANGED <<mode, unrenewed, lostFor>>

-------------------------------------------------------------------------------
\* One step: get, then nothing, create or replace.

Send(r, call) ==
  /\ pc' = [pc EXCEPT ![r] = call]
  /\ timer' = [timer EXCEPT ![r] = MaxLatency]

Wake(r) ==
  /\ mode[r] # "down" /\ pc[r] = "sleep" /\ timer[r] = 0
  /\ Send(r, "get")
  /\ UNCHANGED <<server, mode, view, news, frozen, raced, decision,
                 unrenewed, lostFor, cut, budget>>

\* The API server serves the get of r.
Read(r) ==
  /\ pc[r] = "get" /\ ~cut[r]
  /\ pc' = [pc EXCEPT ![r] = "got"]
  /\ view' = [view EXCEPT ![r] = [holder |-> lease, changed |-> news[r]]]
  /\ raced' = [raced EXCEPT ![r] = FALSE]
  /\ UNCHANGED <<server, mode, timer, news, frozen, decision, unrenewed,
                 lostFor, cut, budget>>

EagerDecideVariant(holder, identity, unchanged, elapsed) ==
  IF holder = identity THEN "Renew"
  ELSE IF holder = Unheld THEN "Acquire"
  ELSE IF elapsed >= LeaseDuration THEN "Acquire"
  ELSE "Wait"
decide(holder, identity, unchanged, elapsed) ==
  IF holder = identity THEN "Renew"
  ELSE IF holder = Unheld THEN "Acquire"
  ELSE IF unchanged /\ elapsed >= LeaseDuration THEN "Acquire"
  ELSE "Wait"

\* The answer without a Lease: create one.
ObserveAbsent(r) ==
  /\ pc[r] = "got" /\ ~cut[r] /\ view[r].holder = Absent
  /\ Send(r, "create")
  /\ view' = [view EXCEPT ![r] = NoView]
  /\ UNCHANGED <<server, mode, news, frozen, raced, decision, unrenewed,
                 lostFor, cut, budget>>

\* The answer with one: fold it into the tracker and decide. What the tracker
\* now holds is out of date at once if the Lease was written in between.
Observe(r) ==
  /\ pc[r] = "got" /\ ~cut[r] /\ view[r].holder # Absent
  /\ news' = [news EXCEPT ![r] = raced[r]]
  /\ frozen' = [frozen EXCEPT ![r] = IF view[r].changed THEN 0 ELSE @]
  /\ LET d == decide(view[r].holder, r, ~view[r].changed, frozen[r])
     IN  \/ d = "Wait" /\ ReturnsWait(r)
         \/ /\ d # "Wait"
            /\ Send(r, "replace")
            /\ decision' = [decision EXCEPT ![r] = d]
            /\ view' = [view EXCEPT ![r] = NoView]
            /\ UNCHANGED <<mode, raced, unrenewed, lostFor>>
  /\ UNCHANGED <<server, cut, budget>>

\* The API server stores the Lease with r as holder and a new renewTime
\* (new_lease, renewed_spec).
Written(r) ==
  /\ lease' = r /\ leaseAge' = 0
  /\ news' = [q \in Replicas |-> TRUE]
  /\ raced' = [q \in Replicas |-> TRUE]
  /\ lostFor' = [lostFor EXCEPT ![r] = 0]
  /\ pc' = [pc EXCEPT ![r] = "ok"]

Create(r) ==
  /\ pc[r] = "create" /\ ~cut[r] /\ lease = Absent
  /\ Written(r)
  /\ decision' = [decision EXCEPT ![r] = "Acquire"]
  /\ UNCHANGED <<mode, timer, view, frozen, unrenewed, cut, budget>>

ForcedReplaceVariant(r) ==
  /\ pc[r] = "replace" /\ ~cut[r]
  /\ Written(r)
  /\ UNCHANGED <<mode, timer, view, frozen, decision, unrenewed, cut, budget>>
Replace(r) ==
  /\ pc[r] = "replace" /\ ~cut[r] /\ ~raced[r]
  /\ Written(r)
  /\ UNCHANGED <<mode, timer, view, frozen, decision, unrenewed, cut, budget>>

\* 409: a peer created the Lease or changed it first. 404: it is gone.
Refused(r) ==
  /\ ~cut[r]
  /\ \/ pc[r] = "create" /\ lease # Absent /\ pc' = [pc EXCEPT ![r] = "conflict"]
     \/ pc[r] = "replace" /\ raced[r] /\ lease # Absent
        /\ pc' = [pc EXCEPT ![r] = "conflict"]
     \/ pc[r] = "replace" /\ lease = Absent /\ pc' = [pc EXCEPT ![r] = "error"]
  /\ UNCHANGED <<server, mode, timer, view, news, frozen, raced, decision,
                 unrenewed, lostFor, cut, budget>>

\* The answer of a create or replace reaches r.
Answered(r) ==
  /\ ~cut[r]
  /\ \/ pc[r] = "ok" /\ ReturnsHeld(r)
     \/ pc[r] = "conflict" /\ ReturnsWait(r)
     \/ pc[r] = "error" /\ ReturnsErr(r)
  /\ UNCHANGED <<server, news, frozen, cut, budget>>

\* A call of a partitioned replica fails, whether or not it was served.
Failed(r) ==
  /\ mode[r] # "down" /\ pc[r] # "sleep" /\ cut[r]
  /\ ReturnsErr(r)
  /\ UNCHANGED <<server, news, frozen, cut, budget>>

Step(r) ==
  \/ Wake(r) \/ Read(r) \/ ObserveAbsent(r) \/ Observe(r) \/ Create(r)
  \/ Replace(r) \/ Refused(r) \/ Answered(r) \/ Failed(r)

-------------------------------------------------------------------------------
Trouble == troubles < MaxTroubles /\ troubles' = troubles + 1

\* The container restarts with the same identity and an empty tracker.
Restart(r) ==
  /\ mode[r] = "down"
  /\ mode' = [mode EXCEPT ![r] = "campaign"]
  /\ Send(r, "get")
  /\ news' = [news EXCEPT ![r] = TRUE]
  /\ frozen' = [frozen EXCEPT ![r] = 0]
  /\ UNCHANGED <<server, view, raced, decision, unrenewed, lostFor, cut, budget>>

Crash(r) ==
  /\ mode[r] # "down" /\ Trouble
  /\ Down(r)
  /\ UNCHANGED <<server, news, frozen, cut, disturbed>>

Cut(r) ==
  /\ ~cut[r] /\ Trouble
  /\ cut' = [cut EXCEPT ![r] = TRUE]
  /\ UNCHANGED <<server, mode, pc, timer, view, news, frozen, raced, decision,
                 unrenewed, lostFor, disturbed>>

Heal(r) ==
  /\ cut[r]
  /\ cut' = [cut EXCEPT ![r] = FALSE]
  /\ UNCHANGED <<server, mode, pc, timer, view, news, frozen, raced, decision,
                 unrenewed, lostFor, budget>>

\* Somebody outside the election deletes the Lease or releases it.
Disturb ==
  /\ lease # Absent /\ Trouble
  /\ disturbed' = TRUE
  /\ lease' \in {Absent, Unheld}
  /\ news' = [q \in Replicas |-> TRUE]
  /\ raced' = [q \in Replicas |-> TRUE]
  /\ UNCHANGED <<leaseAge, mode, pc, timer, view, frozen, decision, unrenewed,
                 lostFor, cut>>

\* Time passes, unless a sleep has ended or an answer is due.
Tick ==
  /\ \A r \in Replicas : mode[r] # "down" => timer[r] > 0
  /\ leaseAge' = Advance(leaseAge, LeaseDuration)
  /\ timer' = [r \in Replicas |-> IF timer[r] > 0 THEN timer[r] - 1 ELSE 0]
  /\ frozen' = [r \in Replicas |-> Advance(frozen[r], LeaseDuration)]
  /\ unrenewed' = [r \in Replicas |->
       IF mode[r] = "leading" THEN Advance(unrenewed[r], LeaseDuration) ELSE 0]
  /\ lostFor' = [r \in Replicas |->
       IF mode[r] = "leading" /\ lease # r
         THEN Advance(lostFor[r], LostLimit) ELSE 0]
  /\ UNCHANGED <<lease, mode, pc, view, news, raced, decision, cut, budget>>

Next ==
  \/ \E r \in Replicas : Step(r) \/ Restart(r) \/ Crash(r) \/ Cut(r) \/ Heal(r)
  \/ Disturb
  \/ Tick

Spec == Init /\ [][Next]_vars

\* A process runs, a container is restarted, a partition ends, time passes.
Fairness ==
  /\ \A r \in Replicas :
       WF_vars(Step(r)) /\ WF_vars(Restart(r)) /\ WF_vars(Heal(r))
  /\ WF_vars(Tick)

FairSpec == Spec /\ Fairness

-------------------------------------------------------------------------------
TypeOK ==
  /\ lease \in Holders /\ leaseAge \in 0..LeaseDuration
  /\ mode \in [Replicas -> {"down", "campaign", "leading"}]
  /\ pc \in [Replicas -> {"sleep"} \cup Calls \cup Answers]
  /\ timer \in [Replicas -> Nat]
  /\ view \in [Replicas -> [holder : Holders, changed : BOOLEAN]]
  /\ news \in [Replicas -> BOOLEAN] /\ raced \in [Replicas -> BOOLEAN]
  /\ frozen \in [Replicas -> 0..LeaseDuration]
  /\ decision \in [Replicas -> {"Wait", "Renew", "Acquire"}]
  /\ unrenewed \in [Replicas -> 0..LeaseDuration]
  /\ lostFor \in [Replicas -> 0..LostLimit]
  /\ cut \in [Replicas -> BOOLEAN]
  /\ disturbed \in BOOLEAN /\ troubles \in Nat

\* The Lease as LeaseContract sees it: a replica that replaces another as its
\* holder does so only once the Lease has gone a whole LeaseDuration without
\* a renewal, whatever the observation, the race or the partition
\* (decide and Tracker::observe, with the 409 of the replace).
Promise == INSTANCE LeaseContract WITH holder <- lease, age <- leaseAge
LeaseIsHonoured == Promise!Spec

\* A leader that lost the Lease to a peer's election, and not to an intervention
\* from outside, stops its controllers within one retry and two calls: the overlap
\* of two active operators that the handover allows is short (keep_leadership).
OverlapBounded ==
  ~disturbed => \A r \in Replicas : lostFor[r] <= RetryPeriod + 2 * MaxLatency

\* Once the troubles end, one replica leads, holds the Lease and goes on leading:
\* renewals come before the expiry the standbys wait for. It is the same one
\* for ever, as no step moves two replicas (campaign, keep_leadership).
OneLeaderSettles ==
  <>[](\E r \in Replicas :
         /\ lease = r
         /\ \A q \in Replicas : mode[q] = "leading" <=> q = r)

\* What the contract rests on: while a replica's tracker holds the current
\* renewTime, the Lease is at least as old as the tracker thinks; what a step
\* read is still so unless the Lease changed; and a replace that can still
\* succeed takes a Lease that is r's own, unheld, or lapsed.
TrackerSound(r) == ~news[r] => frozen[r] <= leaseAge
ViewSound(r) ==
  pc[r] = "got" /\ ~raced[r] =>
    lease = view[r].holder /\ (news[r] => view[r].changed)
ReplaceSound(r) ==
  pc[r] = "replace" /\ ~raced[r] =>
    lease \in {r, Unheld} \/ leaseAge = LeaseDuration
LeaseInv ==
  TypeOK /\ \A r \in Replicas : TrackerSound(r) /\ ViewSound(r) /\ ReplaceSound(r)

\* Why the overlap is bounded. No sleep or call outlasts its period, and nothing
\* is under way in a process that ended. The answer of a write comes while the
\* Lease is young, or so late that a peer has taken it already. A leader has
\* renewed, within one latency, as recently as the Lease was written, and only
\* renews what it read as its own.
Due(r) ==
  /\ mode[r] = "down" => pc[r] = "sleep"
  /\ timer[r] <= IF pc[r] = "sleep" THEN RetryPeriod ELSE MaxLatency
AnswerTimely(r) ==
  pc[r] = "ok" =>
    /\ news[r] /\ lease \in Replicas
    /\ lease = r => leaseAge + timer[r] <= MaxLatency
    /\ lease # r => lostFor[r] + LeaseDuration + timer[r] <= MaxLatency
LostCounts(r) == (mode[r] # "leading" \/ lease = r) => lostFor[r] = 0
LeaderSound(r) ==
  mode[r] = "leading" =>
    /\ lease \in Replicas /\ pc[r] \notin {"create", "error"}
    /\ lease = r => leaseAge <= unrenewed[r] + MaxLatency
    /\ pc[r] = "got" => /\ view[r].holder \in Replicas
                        /\ view[r].holder # r => view[r].changed
    /\ pc[r] = "replace" /\ ~raced[r] => lease = r

\* A deposed leader hears of it from its next answer, and until then gives up
\* at the first failure that comes a LeaseDuration after its last renewal: it
\* goes back to sleep only within MaxLatency of the loss.
Deposed(r) ==
  mode[r] = "leading" /\ lease # r =>
    /\ news[r]
    /\ unrenewed[r] < LeaseDuration =>
         lostFor[r] + LeaseDuration <= unrenewed[r] + MaxLatency
    /\ lostFor[r] + timer[r] <=
         CASE pc[r] = "sleep" -> RetryPeriod + MaxLatency
           [] pc[r] = "got" /\ view[r].holder = r -> MaxLatency
           [] OTHER -> RetryPeriod + 2 * MaxLatency
OverlapInv ==
  /\ \A r \in Replicas : Due(r)
  /\ ~disturbed =>
       /\ lease # Unheld
       /\ \A r \in Replicas : /\ AnswerTimely(r) /\ LostCounts(r)
                              /\ LeaderSound(r) /\ Deposed(r)
===============================================================================
