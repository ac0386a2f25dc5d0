----------------------- MODULE SandboxReconcile_proofs ------------------------
(***************************************************************************)
(* Proofs about the sandbox control loop, for every set of operators,      *)
(* specs, policies, volumes and providers and every bound: types; the      *)
(* finalizer and what it guards, without overlapping operators; the claims *)
(* of retained volumes, with them too; and what the status says, for an    *)
(* operator that is left Undisturbed.                                      *)
(***************************************************************************)
EXTENDS SandboxReconcile, TLAPS

USE SandboxAssumption
USE DEF attach_provider, detach_provider, validate, Provisioned

TypeInv == TypeOK /\ LocalOK

(***************************************************************************)
(* What the helpers and the updates of the records return.                 *)
(***************************************************************************)

LEMMA ResourceSpecUpdate ==
  ASSUME NEW c \in Resource, NEW s \in Specs
  PROVE  [c EXCEPT !.spec = s, !.gen = c.gen + 1] \in Resource
<1>1. c.gen + 1 \in Nat
  BY DEF Resource
<1> QED
  BY <1>1 DEF Resource

LEMMA ResourceFlagUpdate ==
  ASSUME NEW c \in Resource
  PROVE  /\ [c EXCEPT !.deleting = TRUE, !.gen = c.gen + 1] \in Resource
         /\ [c EXCEPT !.fin = TRUE] \in Resource
         /\ [c EXCEPT !.fin = FALSE] \in Resource
<1>1. c.gen + 1 \in Nat
  BY DEF Resource
<1> QED
  BY <1>1 DEF Resource

LEMMA ResolutionType ==
  ASSUME NEW spec \in SandboxSpec, NEW referenced \in PolicyDocs \cup {None}
  PROVE  Resolution(spec, referenced) \in PolicyDoc \cup {NoPolicy, None}
<1>1. spec.inline \in PolicyDoc \cup {None}
  BY DEF SandboxSpec
<1>2. referenced \in PolicyDoc \cup {None}
  OBVIOUS
<1>3. CASE spec.source = "none"
  BY <1>3 DEF Resolution
<1>4. CASE spec.source = "inline"
  BY <1>1, <1>4, Zenon DEF Resolution
<1>5. CASE spec.source = "ref"
  BY <1>2, <1>5, Zenon DEF Resolution
<1>6. CASE spec.source = "conflict"
  BY <1>6 DEF Resolution
<1> QED
  BY <1>3, <1>4, <1>5, <1>6 DEF SandboxSpec, Sources

LEMMA DeleteType ==
  ASSUME gw \in Sandbox \cup {None}
  PROVE  delete_sandbox \in Sandbox \cup {None}
  BY DEF delete_sandbox, Sandbox, GatewayPhases, Phases

LEMMA SuccessType ==
  ASSUME TypeInv, NEW o \in Operators, pc[o] = "succeeded", cr # None
  PROVE  SuccessPatched(o) \in Resource
<1>1. cr \in Resource /\ obj[o] \in Resource /\ existing[o] \in Sandbox
  BY DEF TypeInv, TypeOK, LocalOK
<1>2. obj[o].gen \in Nat /\ obj[o].spec \in SandboxSpec
  BY <1>1 DEF Resource
<1>3. map_phase(existing[o].phase) \in Phases
  BY DEF map_phase, Phases
<1>4. resolved[o] \in PolicyDoc \cup {NoPolicy}
  BY DEF TypeInv, TypeOK, LocalOK
<1>5. resolved[o].sec \in Secs \cup {None} /\ resolved[o].net \in Nets \cup {None}
  BY <1>4 DEF PolicyDoc, NoPolicy
<1>6. immutable_fingerprint(obj[o].spec, resolved[o]) \in SpecHash
  BY <1>2, <1>5 DEF immutable_fingerprint, SpecHash, SandboxSpec
<1>7. mutable_policy_fingerprint(resolved[o]) \in PolicyHash
  BY <1>5 DEF mutable_policy_fingerprint, PolicyHash
<1> QED
  BY <1>1, <1>2, <1>3, <1>6, <1>7 DEF Resource, SuccessPatched

LEMMA FailureType ==
  ASSUME TypeInv, NEW o \in Operators, pc[o] = "failed", cr # None
  PROVE  FailurePatched(o) \in Resource
<1>1. cr \in Resource /\ obj[o] \in Resource
  BY DEF TypeInv, TypeOK, LocalOK
<1>2. /\ Merged(obj[o].phase, cr.phase) \in Phases \cup {None}
      /\ Merged(obj[o].specHash, cr.specHash) \in SpecHash \cup {None}
      /\ Merged(obj[o].policyHash, cr.policyHash) \in PolicyHash \cup {None}
  BY <1>1 DEF Merged, Resource
<1> QED
  BY <1>1, <1>2 DEF Resource, FailurePatched

LEMMA TypeInit == Init => TypeInv
  BY DEF Init, TypeInv, TypeOK, LocalOK, ConvergeCalls

LEMMA TypeStep == TypeInv /\ [Next]_vars => TypeInv'
<1> SUFFICES ASSUME TypeInv, [Next]_vars PROVE TypeInv'
  OBVIOUS
<1> USE DEF TypeInv, TypeOK, LocalOK, ConvergeCalls, kube, local, budget
<1>1. ASSUME NEW s \in Specs, CreateResource(s) PROVE TypeInv'
  BY <1>1 DEF CreateResource, Edit, Resource
<1>2. ASSUME NEW s \in Specs, EditResource(s) PROVE TypeInv'
  <2>1. cr' \in Resource
    <3>1. cr \in Resource
      BY <1>2 DEF EditResource
    <3> QED
      BY <1>2, <3>1, ResourceSpecUpdate DEF EditResource
  <2> QED
    BY <1>2, <2>1 DEF EditResource, Edit
<1>3. CASE DeleteResource
  <2>1. cr' \in Resource \cup {None}
    BY <1>3, ResourceFlagUpdate DEF DeleteResource
  <2> QED
    BY <1>3, <2>1 DEF DeleteResource, Edit
<1>4. ASSUME NEW d \in PolicyDocs \cup {None}, EditPolicy(d) PROVE TypeInv'
  BY <1>4 DEF EditPolicy, Edit
<1>5. ASSUME NEW p \in Providers, DetachOutOfBand(p) PROVE TypeInv'
  BY <1>5 DEF DetachOutOfBand, Edit, Sandbox
<1>6. ASSUME NEW phase \in Settled, GatewaySettles(phase) PROVE TypeInv'
  BY <1>6 DEF GatewaySettles, Sandbox
<1>7. CASE GatewayFinishesDelete
  BY <1>7 DEF GatewayFinishesDelete
<1>8. ASSUME NEW v \in Volumes, ClaimGone(v) PROVE TypeInv'
  BY <1>8 DEF ClaimGone
<1>9. ASSUME NEW o \in Operators, StartOperator(o) PROVE TypeInv'
  BY <1>9 DEF StartOperator
<1>10. ASSUME NEW o \in Operators, StopOperator(o) PROVE TypeInv'
  BY <1>10 DEF StopOperator, Done
<1>11. ASSUME NEW o \in Operators, WatchDelivers(o) PROVE TypeInv'
  BY <1>11 DEF WatchDelivers
<1>12. ASSUME NEW o \in Operators, AddFinalizer(o) PROVE TypeInv'
  BY <1>12 DEF AddFinalizer, Triggered, Resource
<1>13. ASSUME NEW o \in Operators, StartApply(o) PROVE TypeInv'
  BY <1>13 DEF StartApply, Triggered, Resource, SandboxSpec
<1>14. ASSUME NEW o \in Operators, StartCleanup(o) PROVE TypeInv'
  BY <1>14 DEF StartCleanup, Triggered, Resource
<1>15. ASSUME NEW o \in Operators, CallFails(o) PROVE TypeInv'
  BY <1>15 DEF CallFails, Fault
<1>16. ASSUME NEW o \in Operators, EnsureVolume(o) PROVE TypeInv'
  <2>1. PICK v \in todo[o] :
          /\ pvc' = [pvc EXCEPT ![v] =
                       IF @ = "terminating" THEN @ ELSE "labelled"]
          /\ todo' = [todo EXCEPT ![o] = @ \ {v}]
    BY <1>16 DEF EnsureVolume
  <2>2. pvc' \in [Volumes -> {"absent", "bare", "labelled", "terminating"}]
    BY <2>1
  <2>3. todo' \in [Operators -> SUBSET (Volumes \cup Providers)]
    BY <2>1
  <2> QED
    BY <1>16, <2>2, <2>3 DEF EnsureVolume, Answered, Fault, NoFault
<1>17. ASSUME NEW o \in Operators, GetSandbox(o) PROVE TypeInv'
  BY <1>17 DEF GetSandbox, NoFault
<1>18. ASSUME NEW o \in Operators, ResolvePolicy(o) PROVE TypeInv'
  <2> DEFINE R == Resolution(obj[o].spec, policy)
  <2>1. PICK doc \in {R, None} :
          /\ NoFault \/ Fault
          /\ resolved' = [resolved EXCEPT ![o] = doc]
          /\ pc' = [pc EXCEPT ![o] = ConvergeStep(o, doc)]
          /\ todo' = [todo EXCEPT ![o] =
               IF ConvergeStep(o, doc) # "providers" THEN {}
               ELSE LET d == provider_delta(obj[o].spec.providers,
                                            existing[o].providers)
                    IN  d.attach \cup d.detach]
    BY <1>18 DEF ResolvePolicy
  <2>2. obj[o] \in Resource /\ obj[o].spec \in SandboxSpec
    BY <1>18 DEF ResolvePolicy, Resource
  <2>3. R \in PolicyDoc \cup {NoPolicy, None}
    BY <2>2, ResolutionType
  <2>4. doc \in PolicyDoc \cup {NoPolicy, None}
    BY <2>1, <2>3
  <2>5. /\ ConvergeStep(o, doc) \in {"failed", "create", "delete", "providers"}
        /\ ConvergeStep(o, doc) \in {"create", "delete"} => doc # None
        /\ ConvergeStep(o, doc) = "providers" => existing[o] # None
    BY DEF ConvergeStep
  <2>6. todo' \in [Operators -> SUBSET (Volumes \cup Providers)]
    <3>1. CASE ConvergeStep(o, doc) = "providers"
      <4>1. /\ existing[o].providers \subseteq Providers
            /\ obj[o].spec.providers \subseteq Providers
        BY <2>2, <2>5, <3>1 DEF Sandbox, SandboxSpec
      <4> QED
        BY <2>1, <3>1, <4>1 DEF provider_delta
    <3>2. CASE ConvergeStep(o, doc) # "providers"
      BY <2>1, <3>2
    <3> QED
      BY <3>1, <3>2
  <2> HIDE DEF R
  <2> QED
    BY <1>18, <2>1, <2>4, <2>5, <2>6 DEF ResolvePolicy, Fault, NoFault
<1>19. ASSUME NEW o \in Operators, ConvergeProvider(o) PROVE TypeInv'
  <2>1. PICK p \in todo[o] :
          /\ todo' = [todo EXCEPT ![o] = @ \ {p}]
          /\ p \in obj[o].spec.providers
               \/ todo[o] \cap obj[o].spec.providers = {}
          /\ IF gw = None
               THEN /\ pc' = [pc EXCEPT ![o] = "failed"]
                    /\ NoFault /\ UNCHANGED gw
               ELSE /\ gw' = [gw EXCEPT !.providers =
                                IF p \in obj[o].spec.providers
                                  THEN @ \cup {p} ELSE @ \ {p}]
                    /\ Answered(o, "providers")
    BY <1>19 DEF ConvergeProvider
  <2>2. todo' \in [Operators -> SUBSET (Volumes \cup Providers)]
    BY <2>1
  <2>3. obj[o] \in Resource /\ obj[o].spec.providers \subseteq Providers
    BY <1>19 DEF ConvergeProvider, Resource, SandboxSpec
  <2>4. gw' \in Sandbox \cup {None}
    BY <2>1, <2>3 DEF Sandbox
  <2> QED
    BY <1>19, <2>1, <2>2, <2>4 DEF ConvergeProvider, Answered, Fault, NoFault
<1>20. ASSUME NEW o \in Operators, ProvidersConverged(o) PROVE TypeInv'
  BY <1>20 DEF ProvidersConverged
<1>21. ASSUME NEW o \in Operators, UpdatePolicy(o) PROVE TypeInv'
  <2>1. resolved[o].net \in Nets \cup {None}
    BY <1>21 DEF UpdatePolicy, PolicyDoc, NoPolicy
  <2>2. gw' \in Sandbox \cup {None}
    BY <1>21, <2>1 DEF UpdatePolicy, Sandbox
  <2> QED
    BY <1>21, <2>2 DEF UpdatePolicy, Answered, Fault, NoFault
<1>22. ASSUME NEW o \in Operators, RecreateDelete(o) PROVE TypeInv'
  <2>1. gw' \in Sandbox \cup {None}
    BY <1>22, DeleteType DEF RecreateDelete
  <2> QED
    BY <1>22, <2>1 DEF RecreateDelete, Answered, Fault, NoFault
<1>23. ASSUME NEW o \in Operators, RecreatePoll(o) PROVE TypeInv'
  BY <1>23 DEF RecreatePoll, NoFault
<1>24. ASSUME NEW o \in Operators, CreateSandbox(o) PROVE TypeInv'
  <2>1. obj[o] \in Resource /\ obj[o].spec \in SandboxSpec
    BY <1>24 DEF CreateSandbox, Resource
  <2>2. resolved[o].sec \in Secs \cup {None} /\ resolved[o].net \in Nets \cup {None}
    BY <1>24 DEF CreateSandbox, PolicyDoc, NoPolicy
  <2>3. CASE gw = None
    <3>1. gw' \in Sandbox
      BY <1>24, <2>1, <2>2, <2>3
         DEF CreateSandbox, build_sandbox_create, Sandbox, SandboxSpec,
             GatewayPhases, Phases
    <3> QED
      BY <1>24, <2>3, <3>1 DEF CreateSandbox, Answered, Fault, NoFault
  <2>4. CASE gw # None
    BY <1>24, <2>4 DEF CreateSandbox, NoFault
  <2> QED
    BY <2>3, <2>4
<1>25. ASSUME NEW o \in Operators, RecordSuccess(o) PROVE TypeInv'
  <2>1. cr' \in Resource \cup {None}
    BY <1>25, SuccessType DEF RecordSuccess
  <2> QED
    BY <1>25, <2>1 DEF RecordSuccess, Done, Fault, NoFault
<1>26. ASSUME NEW o \in Operators, RecordFailure(o) PROVE TypeInv'
  <2>1. cr' \in Resource \cup {None}
    BY <1>26, FailureType DEF RecordFailure
  <2> QED
    BY <1>26, <2>1 DEF RecordFailure, Done, Fault, NoFault
<1>27. ASSUME NEW o \in Operators, CleanupDelete(o) PROVE TypeInv'
  <2>1. gw' \in Sandbox \cup {None}
    BY <1>27, DeleteType DEF CleanupDelete
  <2> QED
    BY <1>27, <2>1 DEF CleanupDelete, Done, Fault, NoFault
<1>28. ASSUME NEW o \in Operators, DropVolumes(o) PROVE TypeInv'
  BY <1>28 DEF DropVolumes, Done, Fault, NoFault
<1>29. ASSUME NEW o \in Operators, CleanupFails(o) PROVE TypeInv'
  BY <1>29 DEF CleanupFails, Done, Fault
<1>30. ASSUME NEW o \in Operators, ReleaseFinalizer(o) PROVE TypeInv'
  <2>1. cr' \in Resource \cup {None}
    <3>1. cr' \in {cr, None, [cr EXCEPT !.fin = FALSE]}
      BY <1>30 DEF ReleaseFinalizer
    <3>2. cr # None => [cr EXCEPT !.fin = FALSE] \in Resource
      BY ResourceFlagUpdate
    <3>3. cr = None => cr' = cr
      BY <1>30 DEF ReleaseFinalizer
    <3> QED
      BY <3>1, <3>2, <3>3
  <2> QED
    BY <1>30, <2>1 DEF ReleaseFinalizer, Done, Fault, NoFault
<1>31. CASE UNCHANGED vars
  BY <1>31 DEF vars
<1> QED
  BY <1>1, <1>2, <1>3, <1>4, <1>5, <1>6, <1>7, <1>8, <1>9, <1>10, <1>11, <1>12, <1>13, <1>14, <1>15, <1>16, <1>17, <1>18, <1>19, <1>20, <1>21, <1>22, <1>23, <1>24, <1>25, <1>26, <1>27, <1>28, <1>29, <1>30, <1>31
     DEF Next, Environment, Reconcile, Process, Failure

\* Type correctness of the control loop.
THEOREM TypeCorrect == Spec => []TypeOK
<1>1. TypeInv => TypeOK
  BY DEF TypeInv
<1> QED
  BY TypeInit, TypeStep, <1>1, PTL DEF Spec

-------------------------------------------------------------------------------
(***************************************************************************)
(* The finalizer guards the sandbox.                                       *)
(***************************************************************************)

\* What the status patches and a deletion leave alone.
LEMMA PatchFields ==
  ASSUME TypeInv, NEW o \in Operators, cr # None
  PROVE  /\ SuccessPatched(o).fin = cr.fin
         /\ SuccessPatched(o).deleting = cr.deleting
         /\ FailurePatched(o).fin = cr.fin
         /\ FailurePatched(o).deleting = cr.deleting
  BY DEF TypeInv, TypeOK, Resource, SuccessPatched, FailurePatched

LEMMA DeleteLive ==
  ASSUME gw \in Sandbox \cup {None}
  PROVE  delete_sandbox = None \/ delete_sandbox.phase = "Deleting"
  BY DEF delete_sandbox, Sandbox

LEMMA ProvidersUpdate ==
  ASSUME NEW b \in Sandbox, NEW ps \in SUBSET Providers
  PROVE  /\ [b EXCEPT !.providers = ps] \in Sandbox
         /\ [b EXCEPT !.providers = ps].phase = b.phase
  BY DEF Sandbox

LEMMA NetUpdate ==
  ASSUME NEW b \in Sandbox, NEW n \in Nets \cup {None}
  PROVE  [b EXCEPT !.net = n] \in Sandbox /\ [b EXCEPT !.net = n].phase = b.phase
  BY DEF Sandbox

LEMMA FinalizerInit == Init => FinalizerInv
  BY DEF Init, FinalizerInv, Held, Releasable, ApplyCalls, CleanupCalls,
         ConvergeCalls, Live

LEMMA FinalizerStep ==
  ASSUME ~Overlap
  PROVE  TypeInv /\ FinalizerInv /\ [Next]_vars => FinalizerInv'
<1> SUFFICES ASSUME TypeInv, FinalizerInv, [Next]_vars PROVE FinalizerInv'
  OBVIOUS
<1>t. /\ cr \in Resource \cup {None} /\ gw \in Sandbox \cup {None}
      /\ active \subseteq Operators
      /\ cache \in [Operators -> Resource \cup {None}]
      /\ pc \in [Operators -> ApplyCalls \cup CleanupCalls \cup {"idle"}]
      /\ obj \in [Operators -> Resource \cup {None}]
      /\ \A o \in Operators : /\ cache[o] # None => o \in active
                              /\ pc[o] # "idle" => o \in active
  BY DEF TypeInv, TypeOK, LocalOK, ApplyCalls, CleanupCalls
<1>u. cr' \in Resource \cup {None}
  BY TypeStep DEF TypeInv, TypeOK
<1>v. \A o, p \in Operators : pc[o] # "idle" /\ p # o =>
        pc[p] = "idle" /\ cache[p] = None
  BY <1>t DEF FinalizerInv
<1> USE DEF FinalizerInv, Held, Releasable, Live, ApplyCalls, CleanupCalls,
            ConvergeCalls, kube, local, budget
<1>1. ASSUME NEW s \in Specs, CreateResource(s) PROVE FinalizerInv'
  BY <1>t, <1>1 DEF CreateResource, Resource
<1>2. ASSUME NEW s \in Specs, EditResource(s) PROVE FinalizerInv'
  <2>1. cr # None /\ cr' # None /\ cr'.fin = cr.fin /\ cr'.deleting = cr.deleting
    <3>1. /\ cr \in Resource
          /\ cr' = [cr EXCEPT !.spec = s, !.gen = cr.gen + 1]
      BY <1>t, <1>2 DEF EditResource
    <3>2. cr'.fin = cr.fin /\ cr'.deleting = cr.deleting
      BY <3>1 DEF Resource
    <3>3. cr' \in Resource
      BY <1>2, <3>1, ResourceSpecUpdate DEF EditResource
    <3> QED
      BY <1>2, <3>2, <3>3 DEF EditResource
  <2> QED
    BY <1>t, <1>2, <2>1 DEF EditResource
<1>3. CASE DeleteResource
  <2>1. CASE cr.fin
    <3>1. cr # None /\ cr' # None /\ cr'.fin = cr.fin /\ cr'.deleting
      <4>1. cr \in Resource /\ cr' = [cr EXCEPT !.deleting = TRUE, !.gen = cr.gen + 1]
        BY <1>t, <1>3, <2>1 DEF DeleteResource
      <4>2. cr'.fin = cr.fin /\ cr'.deleting
        BY <4>1 DEF Resource
      <4>3. cr' # None
        BY <4>1, ResourceFlagUpdate
      <4> QED
        BY <1>3, <4>2, <4>3 DEF DeleteResource
    <3> QED
      BY <1>t, <1>3, <3>1 DEF DeleteResource
  <2>2. CASE ~cr.fin
    BY <1>t, <1>3, <2>2 DEF DeleteResource
  <2> QED
    BY <2>1, <2>2
<1>4. ASSUME NEW d \in PolicyDocs \cup {None}, EditPolicy(d) PROVE FinalizerInv'
  BY <1>t, <1>4 DEF EditPolicy
<1>5. ASSUME NEW p \in Providers, DetachOutOfBand(p) PROVE FinalizerInv'
  BY <1>t, <1>5 DEF DetachOutOfBand, Sandbox
<1>6. ASSUME NEW phase \in Settled, GatewaySettles(phase) PROVE FinalizerInv'
  BY <1>t, <1>6 DEF GatewaySettles, Sandbox
<1>7. CASE GatewayFinishesDelete
  BY <1>t, <1>7 DEF GatewayFinishesDelete
<1>8. ASSUME NEW v \in Volumes, ClaimGone(v) PROVE FinalizerInv'
  BY <1>t, <1>8 DEF ClaimGone
<1>9. ASSUME NEW o \in Operators, StartOperator(o) PROVE FinalizerInv'
  BY <1>t, <1>9, <1>v DEF StartOperator
<1>10. ASSUME NEW o \in Operators, StopOperator(o) PROVE FinalizerInv'
  BY <1>t, <1>10, <1>v DEF StopOperator, Done
<1>11. ASSUME NEW o \in Operators, WatchDelivers(o) PROVE FinalizerInv'
  BY <1>t, <1>11, <1>v DEF WatchDelivers
<1>12. ASSUME NEW o \in Operators, AddFinalizer(o) PROVE FinalizerInv'
  BY <1>t, <1>12, <1>v DEF AddFinalizer, Triggered
<1>13. ASSUME NEW o \in Operators, StartApply(o) PROVE FinalizerInv'
  BY <1>t, <1>13, <1>v DEF StartApply, Triggered
<1>14. ASSUME NEW o \in Operators, StartCleanup(o) PROVE FinalizerInv'
  BY <1>t, <1>14, <1>v DEF StartCleanup, Triggered
<1>15. ASSUME NEW o \in Operators, CallFails(o) PROVE FinalizerInv'
  BY <1>t, <1>15, <1>v DEF CallFails
<1>16. ASSUME NEW o \in Operators, EnsureVolume(o) PROVE FinalizerInv'
  BY <1>t, <1>16, <1>v DEF EnsureVolume, Answered
<1>17. ASSUME NEW o \in Operators, GetSandbox(o) PROVE FinalizerInv'
  BY <1>t, <1>17, <1>v DEF GetSandbox
<1>18. ASSUME NEW o \in Operators, ResolvePolicy(o) PROVE FinalizerInv'
  BY <1>t, <1>18, <1>v DEF ResolvePolicy, ConvergeStep
<1>19. ASSUME NEW o \in Operators, ConvergeProvider(o) PROVE FinalizerInv'
  BY <1>t, <1>19, <1>v DEF ConvergeProvider, Answered, Sandbox
<1>20. ASSUME NEW o \in Operators, ProvidersConverged(o) PROVE FinalizerInv'
  BY <1>t, <1>20, <1>v DEF ProvidersConverged
<1>21. ASSUME NEW o \in Operators, UpdatePolicy(o) PROVE FinalizerInv'
  BY <1>t, <1>21, <1>v DEF UpdatePolicy, Answered, Sandbox
<1>22. ASSUME NEW o \in Operators, RecreateDelete(o) PROVE FinalizerInv'
  BY <1>t, <1>22, <1>v, DeleteLive DEF RecreateDelete, Answered
<1>23. ASSUME NEW o \in Operators, RecreatePoll(o) PROVE FinalizerInv'
  BY <1>t, <1>23, <1>v DEF RecreatePoll
<1>24. ASSUME NEW o \in Operators, CreateSandbox(o) PROVE FinalizerInv'
  BY <1>t, <1>24, <1>v DEF CreateSandbox, Answered
<1>25. ASSUME NEW o \in Operators, RecordSuccess(o) PROVE FinalizerInv'
  BY <1>t, <1>25, <1>v, PatchFields, <1>u, SuccessType, FailureType DEF RecordSuccess, Done
<1>26. ASSUME NEW o \in Operators, RecordFailure(o) PROVE FinalizerInv'
  BY <1>t, <1>26, <1>v, PatchFields, <1>u, SuccessType, FailureType DEF RecordFailure, Done
<1>27. ASSUME NEW o \in Operators, CleanupDelete(o) PROVE FinalizerInv'
  BY <1>t, <1>27, <1>v, DeleteLive DEF CleanupDelete, Done
<1>28. ASSUME NEW o \in Operators, DropVolumes(o) PROVE FinalizerInv'
  BY <1>t, <1>28, <1>v DEF DropVolumes, Done
<1>29. ASSUME NEW o \in Operators, CleanupFails(o) PROVE FinalizerInv'
  BY <1>t, <1>29, <1>v DEF CleanupFails, Done
<1>30. ASSUME NEW o \in Operators, ReleaseFinalizer(o) PROVE FinalizerInv'
  BY <1>t, <1>30, <1>v DEF ReleaseFinalizer, Done
<1>31. CASE UNCHANGED vars
  BY <1>t, <1>31 DEF vars
<1> QED
  BY <1>1, <1>2, <1>3, <1>4, <1>5, <1>6, <1>7, <1>8, <1>9, <1>10, <1>11, <1>12, <1>13, <1>14, <1>15, <1>16, <1>17, <1>18, <1>19, <1>20, <1>21, <1>22, <1>23, <1>24, <1>25, <1>26, <1>27, <1>28, <1>29, <1>30, <1>31
     DEF Next, Environment, Reconcile, Process, Failure

\* Operators that never overlap never let a resource go while its sandbox is
\* live, whatever calls are lost, whenever processes stop, and however far the
\* watch cache lags.
THEOREM FinalizerGuards ==
  ASSUME ~Overlap
  PROVE  Spec => []SandboxHasFinalizedResource
<1>1. FinalizerInv => SandboxHasFinalizedResource
  BY DEF FinalizerInv, Held, SandboxHasFinalizedResource
<1>2. TypeInv /\ FinalizerInv /\ [Next]_vars => FinalizerInv'
  BY FinalizerStep
<1> QED
  BY TypeInit, TypeStep, FinalizerInit, <1>1, <1>2, PTL DEF Spec

\* A live sandbox is deleted by a recreate with a resolved policy, or by the
\* cleanup of a resource that the API server has as being deleted.
LEMMA TearDownStep ==
  ASSUME TypeInv, FinalizerInv, [Next]_vars, Live, ~Live'
  PROVE  /\ cr # None
         /\ cr.deleting \/ \E o \in Operators :
                              pc[o] = "delete" /\ resolved[o] # None
<1>1. cr # None /\ cr.fin /\ gw \in Sandbox /\ gw.phase # "Deleting"
  BY DEF FinalizerInv, Held, Live, TypeInv, TypeOK
<1>2. gw' # gw
  BY DEF Live
<1> USE DEF kube, local, budget
<1>3. ASSUME NEW o \in Operators, RecreateDelete(o)
      PROVE  pc[o] = "delete" /\ resolved[o] # None
  BY <1>3 DEF RecreateDelete, TypeInv, LocalOK
<1>4. ASSUME NEW o \in Operators, CleanupDelete(o) PROVE cr.deleting
  BY <1>1, <1>4 DEF CleanupDelete, FinalizerInv, Releasable, CleanupCalls
<1>5. ASSUME NEW p \in Providers, DetachOutOfBand(p) PROVE FALSE
  BY <1>1, <1>5 DEF DetachOutOfBand, Live, Sandbox
<1>6. ASSUME NEW phase \in Settled, GatewaySettles(phase) PROVE FALSE
  BY <1>1, <1>6 DEF GatewaySettles, Live, Sandbox
<1>7. ASSUME NEW o \in Operators, ConvergeProvider(o) PROVE FALSE
  <2>1. gw # None
    BY <1>1
  <2>2. PICK p \in todo[o] :
          gw' = [gw EXCEPT !.providers =
                   IF p \in obj[o].spec.providers
                     THEN gw.providers \cup {p} ELSE gw.providers \ {p}]
    BY <1>7, <2>1 DEF ConvergeProvider
  <2> DEFINE ps == IF p \in obj[o].spec.providers
                     THEN gw.providers \cup {p} ELSE gw.providers \ {p}
  <2>3. ps \in SUBSET Providers
    <3>1. obj[o].spec.providers \subseteq Providers
      BY <1>7 DEF ConvergeProvider, TypeInv, TypeOK, LocalOK, Resource,
                  SandboxSpec
    <3>2. gw.providers \subseteq Providers
      BY <1>1 DEF Sandbox
    <3> QED
      BY <3>1, <3>2
  <2>4. gw' = [gw EXCEPT !.providers = ps]
    BY <2>2
  <2> HIDE DEF ps
  <2>5. gw' \in Sandbox /\ gw'.phase = gw.phase
    BY <1>1, <2>3, <2>4, ProvidersUpdate
  <2> QED
    BY <1>1, <2>5 DEF Live
<1>8. ASSUME NEW o \in Operators, UpdatePolicy(o) PROVE FALSE
  <2>1. resolved[o].net \in Nets \cup {None}
    BY <1>8 DEF UpdatePolicy, TypeInv, TypeOK, LocalOK, PolicyDoc, NoPolicy
  <2>2. gw' = [gw EXCEPT !.net = resolved[o].net]
    BY <1>1, <1>2, <1>8 DEF UpdatePolicy
  <2>3. gw' \in Sandbox /\ gw'.phase = gw.phase
    BY <1>1, <2>1, <2>2, NetUpdate
  <2> QED
    BY <1>1, <2>3 DEF Live
<1>9. ASSUME NEW o \in Operators, CreateSandbox(o) PROVE FALSE
  BY <1>1, <1>2, <1>9 DEF CreateSandbox
<1>10. ASSUME NEW o \in Operators, Process(o) \/ Failure(o) PROVE FALSE
  BY <1>2, <1>10 DEF Process, StartOperator, StopOperator, WatchDelivers,
                     Failure, CallFails, CleanupFails
<1>11. ASSUME NEW o \in Operators,
              \/ AddFinalizer(o) \/ StartApply(o) \/ StartCleanup(o)
              \/ EnsureVolume(o) \/ GetSandbox(o) \/ ResolvePolicy(o)
              \/ ProvidersConverged(o) \/ RecreatePoll(o)
              \/ RecordSuccess(o) \/ RecordFailure(o)
              \/ DropVolumes(o) \/ ReleaseFinalizer(o)
       PROVE  FALSE
  BY <1>2, <1>11 DEF AddFinalizer, StartApply, StartCleanup, EnsureVolume,
       GetSandbox, ResolvePolicy, ProvidersConverged, RecreatePoll,
       RecordSuccess, RecordFailure, DropVolumes, ReleaseFinalizer
<1>12. ASSUME \/ \E s \in Specs : CreateResource(s) \/ EditResource(s)
              \/ DeleteResource
              \/ \E d \in PolicyDocs \cup {None} : EditPolicy(d)
              \/ GatewayFinishesDelete
              \/ \E v \in Volumes : ClaimGone(v)
       PROVE  FALSE
  BY <1>1, <1>2, <1>12 DEF CreateResource, EditResource, DeleteResource,
       EditPolicy, GatewayFinishesDelete, ClaimGone
<1>13. CASE UNCHANGED vars
  BY <1>2, <1>13 DEF vars
<1> QED
  BY <1>1, <1>3, <1>4, <1>5, <1>6, <1>7, <1>8, <1>9, <1>10, <1>11, <1>12, <1>13
     DEF Next, Environment, Reconcile

\* Operators that never overlap take a live sandbox down only for a deleted
\* resource or for a recreate whose policy resolved.
THEOREM TearDownJustified ==
  ASSUME ~Overlap
  PROVE  Spec => TearDownIsJustified
<1>1. TypeInv /\ FinalizerInv /\ [Next]_vars => FinalizerInv'
  BY FinalizerStep
<1>2. TypeInv /\ FinalizerInv /\ [Next]_vars
        => [(Live /\ ~Live') =>
              /\ cr # None
              /\ cr.deleting \/ \E o \in Operators :
                                   pc[o] = "delete" /\ resolved[o] # None]_vars
  BY TearDownStep
<1> QED
  BY TypeInit, TypeStep, FinalizerInit, <1>1, <1>2, PTL
     DEF Spec, TearDownIsJustified

\* Claims are deleted by DropVolumes alone, which runs after cleanup's delete.
LEMMA VolumeDropStep ==
  ASSUME TypeInv, FinalizerInv, [Next]_vars,
         NEW v \in Volumes, pvc[v] # "terminating", pvc'[v] = "terminating"
  PROVE  ~Live
<1>0. pvc' # pvc
  OBVIOUS
<1>1. ASSUME NEW o \in Operators, DropVolumes(o) PROVE ~Live
  BY <1>1 DEF DropVolumes, FinalizerInv
<1>2. ASSUME NEW o \in Operators, EnsureVolume(o) PROVE FALSE
  BY <1>2 DEF EnsureVolume, TypeInv, TypeOK
<1>3. ASSUME NEW w \in Volumes, ClaimGone(w) PROVE FALSE
  BY <1>3 DEF ClaimGone, TypeInv, TypeOK
<1>4. ASSUME NEW o \in Operators, Process(o) \/ Failure(o) PROVE FALSE
  BY <1>0, <1>4 DEF Process, StartOperator, StopOperator, WatchDelivers,
                    Failure, CallFails, CleanupFails, kube
<1>5. ASSUME NEW o \in Operators, Reconcile(o), ~DropVolumes(o), ~EnsureVolume(o)
      PROVE  FALSE
  BY <1>0, <1>5 DEF Reconcile, AddFinalizer, StartApply, StartCleanup,
       GetSandbox, ResolvePolicy, ConvergeProvider, ProvidersConverged,
       UpdatePolicy, RecreateDelete, RecreatePoll, CreateSandbox,
       RecordSuccess, RecordFailure, CleanupDelete, ReleaseFinalizer, kube
<1>6. ASSUME Environment, \A w \in Volumes : ~ClaimGone(w) PROVE FALSE
  BY <1>0, <1>6 DEF Environment, CreateResource, EditResource, DeleteResource,
       EditPolicy, DetachOutOfBand, GatewaySettles, GatewayFinishesDelete, kube
<1>7. CASE UNCHANGED vars
  BY <1>0, <1>7 DEF vars
<1> QED
  BY <1>1, <1>2, <1>3, <1>4, <1>5, <1>6, <1>7 DEF Next

\* Operators that never overlap mark a claim for deletion only once the sandbox
\* that mounts it is given up by the gateway (cleanup,
\* delete_provisioned_volumes), whatever calls fail and processes stop.
THEOREM VolumesOutliveSandbox ==
  ASSUME ~Overlap
  PROVE  Spec => VolumesDropAfterSandbox
<1>1. TypeInv /\ FinalizerInv /\ [Next]_vars => FinalizerInv'
  BY FinalizerStep
<1>2. TypeInv /\ FinalizerInv /\ [Next]_vars
        => [(\E v \in Volumes :
               pvc[v] # "terminating" /\ pvc'[v] = "terminating") => ~Live]_vars
  BY VolumeDropStep
<1> QED
  BY TypeInit, TypeStep, FinalizerInit, <1>1, <1>2, PTL
     DEF Spec, VolumesDropAfterSandbox
-------------------------------------------------------------------------------
(***************************************************************************)
(* Every mount has its claim.                                              *)
(***************************************************************************)

LEMMA ClaimsInit == Init => ClaimsInv
  BY DEF Init, ClaimsInv, ClaimsLabelled

LEMMA ClaimsStep ==
  ASSUME \A s \in Specs : s.retention = "Retain"
  PROVE  TypeInv /\ ClaimsInv /\ [Next]_vars => ClaimsInv'
<1> SUFFICES ASSUME TypeInv, ClaimsInv, [Next]_vars PROVE ClaimsInv'
  OBVIOUS
<1>t. /\ gw \in Sandbox \cup {None}
      /\ pvc \in [Volumes -> {"absent", "bare", "labelled", "terminating"}]
      /\ pc \in [Operators -> ApplyCalls \cup CleanupCalls \cup {"idle"}]
      /\ cache \in [Operators -> Resource \cup {None}]
      /\ obj \in [Operators -> Resource \cup {None}]
      /\ todo \in [Operators -> SUBSET (Volumes \cup Providers)]
  BY DEF TypeInv, TypeOK, ApplyCalls, CleanupCalls
<1>w. gw # None => gw.volumes \subseteq Volumes
  BY <1>t DEF Sandbox
<1> USE DEF ClaimsInv, ClaimsLabelled, kube, local, budget
<1>1. ASSUME \/ \E s \in Specs : CreateResource(s) \/ EditResource(s)
             \/ DeleteResource
             \/ \E d \in PolicyDocs \cup {None} : EditPolicy(d)
             \/ GatewayFinishesDelete
      PROVE  ClaimsInv'
  BY <1>1 DEF CreateResource, EditResource, DeleteResource, EditPolicy,
              GatewayFinishesDelete
<1>2. ASSUME NEW p \in Providers, DetachOutOfBand(p) PROVE ClaimsInv'
  BY <1>t, <1>2 DEF DetachOutOfBand, Sandbox
<1>3. ASSUME NEW phase \in Settled, GatewaySettles(phase) PROVE ClaimsInv'
  BY <1>t, <1>3 DEF GatewaySettles, Sandbox
<1>4. ASSUME NEW v \in Volumes, ClaimGone(v) PROVE ClaimsInv'
  BY <1>4 DEF ClaimGone
<1>5. ASSUME NEW o \in Operators, Process(o) PROVE ClaimsInv'
  BY <1>t, <1>5 DEF Process, StartOperator, StopOperator, WatchDelivers, Done
<1>6. ASSUME NEW o \in Operators, Failure(o) PROVE ClaimsInv'
  BY <1>t, <1>6 DEF Failure, CallFails, CleanupFails, Done
<1>7. ASSUME NEW o \in Operators, AddFinalizer(o) PROVE ClaimsInv'
  BY <1>t, <1>7 DEF AddFinalizer
<1>8. ASSUME NEW o \in Operators, StartApply(o) PROVE ClaimsInv'
  BY <1>t, <1>8 DEF StartApply
<1>9. ASSUME NEW o \in Operators, StartCleanup(o) PROVE ClaimsInv'
  BY <1>t, <1>9 DEF StartCleanup
<1>10. ASSUME NEW o \in Operators, EnsureVolume(o) PROVE ClaimsInv'
  <2>1. PICK v \in todo[o] :
          /\ pvc' = [pvc EXCEPT ![v] =
                       IF @ = "terminating" THEN @ ELSE "labelled"]
          /\ todo' = [todo EXCEPT ![o] = @ \ {v}]
    BY <1>10 DEF EnsureVolume
  <2>2. \A w \in Volumes : /\ pvc[w] = "labelled" => pvc'[w] = "labelled"
                           /\ pvc'[w] # "terminating"
    BY <1>t, <2>1
  <2>3. v \in Volumes => pvc'[v] = "labelled"
    BY <1>t, <2>1
  <2>4. /\ obj' = obj /\ gw' = gw
        /\ \A p \in Operators : p # o => pc'[p] = pc[p] /\ todo'[p] = todo[p]
        /\ pc'[o] \in {"volumes", "failed"} /\ todo'[o] = todo[o] \ {v}
    BY <1>t, <1>10, <2>1 DEF EnsureVolume, Answered
  <2>5. \A p \in Operators : pc[p] # "idle" => obj[p].spec.volumes \subseteq Volumes
    BY <1>t DEF TypeInv, LocalOK, Resource, SandboxSpec
  <2>6. pc[o] = "volumes"
    BY <1>10 DEF EnsureVolume
  <2> QED
    BY <1>w, <2>2, <2>3, <2>4, <2>5, <2>6
<1>11. ASSUME NEW o \in Operators, GetSandbox(o) PROVE ClaimsInv'
  BY <1>t, <1>11 DEF GetSandbox
<1>12. ASSUME NEW o \in Operators, ResolvePolicy(o) PROVE ClaimsInv'
  BY <1>t, <1>12 DEF ResolvePolicy, ConvergeStep
<1>13. ASSUME NEW o \in Operators, ConvergeProvider(o) PROVE ClaimsInv'
  BY <1>t, <1>13 DEF ConvergeProvider, Answered, Sandbox
<1>14. ASSUME NEW o \in Operators, ProvidersConverged(o) PROVE ClaimsInv'
  BY <1>t, <1>14 DEF ProvidersConverged
<1>15. ASSUME NEW o \in Operators, UpdatePolicy(o) PROVE ClaimsInv'
  BY <1>t, <1>15 DEF UpdatePolicy, Answered, Sandbox
<1>16. ASSUME NEW o \in Operators, RecreateDelete(o) PROVE ClaimsInv'
  BY <1>t, <1>16 DEF RecreateDelete, Answered, delete_sandbox, Sandbox
<1>17. ASSUME NEW o \in Operators, RecreatePoll(o) PROVE ClaimsInv'
  BY <1>t, <1>17 DEF RecreatePoll
<1>18. ASSUME NEW o \in Operators, CreateSandbox(o) PROVE ClaimsInv'
  BY <1>t, <1>18 DEF CreateSandbox, Answered, build_sandbox_create
<1>19. ASSUME NEW o \in Operators, RecordSuccess(o) \/ RecordFailure(o)
       PROVE  ClaimsInv'
  BY <1>t, <1>19 DEF RecordSuccess, RecordFailure, Done
<1>20. ASSUME NEW o \in Operators, CleanupDelete(o) PROVE ClaimsInv'
  <2>1. obj[o].spec.retention = "Retain"
    BY <1>t, <1>20 DEF CleanupDelete, TypeInv, LocalOK, Resource
  <2> QED
    BY <1>t, <1>20, <2>1 DEF CleanupDelete, Done, delete_sandbox, Sandbox
<1>21. ASSUME NEW o \in Operators, DropVolumes(o) PROVE ClaimsInv'
  BY <1>21 DEF DropVolumes
<1>22. ASSUME NEW o \in Operators, ReleaseFinalizer(o) PROVE ClaimsInv'
  BY <1>t, <1>22 DEF ReleaseFinalizer, Done
<1>23. CASE UNCHANGED vars
  BY <1>23 DEF vars
<1> QED
  BY <1>1, <1>2, <1>3, <1>4, <1>5, <1>6, <1>7, <1>8, <1>9, <1>10, <1>11, <1>12,
     <1>13, <1>14, <1>15, <1>16, <1>17, <1>18, <1>19, <1>20, <1>21, <1>22, <1>23
     DEF Next, Environment, Reconcile

\* Where volumes are retained, the default, every volume that a sandbox mounts
\* has its labelled claim, with any number of operators at once, lagging
\* caches, lost answers and restarts (ensure_pvcs before every create).
THEOREM MountsAreProvisioned ==
  ASSUME \A s \in Specs : s.retention = "Retain"
  PROVE  Spec => []MountsProvisioned
<1>1. ClaimsInv => MountsProvisioned
  BY DEF ClaimsInv, ClaimsLabelled, MountsProvisioned, Live
<1>2. TypeInv /\ ClaimsInv /\ [Next]_vars => ClaimsInv'
  BY ClaimsStep
<1> QED
  BY TypeInit, TypeStep, ClaimsInit, <1>1, <1>2, PTL DEF Spec
-------------------------------------------------------------------------------
(***************************************************************************)
(* The recorded hashes stand for the gateway, as long as one operator runs *)
(* without stopping, reads current copies and loses no call.               *)
(***************************************************************************)

\* The conditions of SandboxConverges: each is needed, as TLC shows.
Undisturbed == ~Overlap /\ ~StaleReads /\ MaxFaults = 0 /\ MaxStops = 0

LEMMA NothingFails ==
  ASSUME TypeInv, Undisturbed
  PROVE  ~Fault /\ \A o \in Operators : ~StopOperator(o)
<1>1. faults \in 0..0 /\ stops \in 0..0
  BY DEF TypeInv, TypeOK, Undisturbed
<1> QED
  BY <1>1 DEF Fault, StopOperator, Undisturbed

\* What the writes to the resource make of the fields the copies agree on.
LEMMA EditFields ==
  ASSUME NEW c \in Resource, NEW s \in Specs
  PROVE  LET d == [c EXCEPT !.spec = s, !.gen = c.gen + 1]
         IN  /\ d.specHash = c.specHash /\ d.policyHash = c.policyHash
             /\ d.gen = c.gen + 1 /\ d.observed = c.observed
  BY DEF Resource

LEMMA FlagFields ==
  ASSUME NEW c \in Resource, NEW b \in BOOLEAN
  PROVE  /\ LET d == [c EXCEPT !.deleting = TRUE, !.gen = c.gen + 1]
            IN  /\ d.specHash = c.specHash /\ d.policyHash = c.policyHash
                /\ d.gen = c.gen + 1 /\ d.observed = c.observed
                /\ d.spec = c.spec
         /\ LET d == [c EXCEPT !.fin = b]
            IN  /\ d.specHash = c.specHash /\ d.policyHash = c.policyHash
                /\ d.gen = c.gen /\ d.observed = c.observed /\ d.spec = c.spec
                /\ d.ready = c.ready
  BY DEF Resource

LEMMA StatusFields ==
  ASSUME TypeInv, NEW o \in Operators, cr # None
  PROVE  /\ LET d == SuccessPatched(o)
            IN  /\ d.spec = cr.spec /\ d.gen = cr.gen /\ d.observed = obj[o].gen
                /\ d.specHash = immutable_fingerprint(obj[o].spec, resolved[o])
                /\ d.policyHash = mutable_policy_fingerprint(resolved[o])
         /\ LET d == FailurePatched(o)
            IN  /\ d.spec = cr.spec /\ d.gen = cr.gen /\ d.observed = obj[o].gen
                /\ ~d.ready
                /\ d.specHash = Merged(obj[o].specHash, cr.specHash)
                /\ d.policyHash = Merged(obj[o].policyHash, cr.policyHash)
<1>1. cr \in Resource
  BY DEF TypeInv, TypeOK
<1> QED
  BY <1>1 DEF Resource, SuccessPatched, FailurePatched

LEMMA CopyInit == Init => CopyInv
  BY DEF Init, CopyInv, ApplyCalls, ConvergeCalls

LEMMA CopyStep ==
  ASSUME Undisturbed
  PROVE  TypeInv /\ FinalizerInv /\ CopyInv /\ [Next]_vars => CopyInv'
<1> SUFFICES ASSUME TypeInv, FinalizerInv, CopyInv, [Next]_vars PROVE CopyInv'
  OBVIOUS
<1>t. /\ cr \in Resource \cup {None}
      /\ cache \in [Operators -> Resource \cup {None}]
      /\ pc \in [Operators -> ApplyCalls \cup CleanupCalls \cup {"idle"}]
      /\ obj \in [Operators -> Resource \cup {None}]
      /\ \A o \in Operators : /\ cache[o] # None => o \in active
                              /\ pc[o] # "idle" => o \in active
                              /\ pc[o] # "idle" => obj[o] \in Resource
  BY DEF TypeInv, TypeOK, LocalOK, ApplyCalls, CleanupCalls
<1>u. cr' \in Resource \cup {None} /\ obj' \in [Operators -> Resource \cup {None}]
  BY TypeStep DEF TypeInv, TypeOK
<1>v. \A o, p \in Operators : o \in active /\ p # o => pc[p] = "idle"
  BY <1>t DEF FinalizerInv
<1>x. \A c \in Resource : c.gen \in Nat /\ c.observed \in Nat
  BY DEF Resource
<1>y. ~Fault /\ \A o \in Operators : ~StopOperator(o)
  BY NothingFails
<1>z. \A o \in Operators : pc[o] \in ApplyCalls => cr # None /\ cr.fin
  BY DEF FinalizerInv, Held
<1>i. "idle" \notin ApplyCalls /\ \A c \in CleanupCalls : c \notin ApplyCalls
  BY DEF ApplyCalls, CleanupCalls, ConvergeCalls
<1> USE DEF CopyInv, kube, local, budget
\* Steps that leave the resource and the copies alone.
<1>1. ASSUME UNCHANGED <<cr, obj>>,
             \A o \in Operators : pc'[o] \in ApplyCalls => pc[o] \in ApplyCalls
      PROVE  CopyInv'
  BY <1>1
<1>2. ASSUME NEW s \in Specs, CreateResource(s) PROVE CopyInv'
  BY <1>t, <1>z, <1>2 DEF CreateResource
<1>3. ASSUME NEW s \in Specs, EditResource(s) PROVE CopyInv'
  <2>1. /\ cr \in Resource /\ cr' = [cr EXCEPT !.spec = s, !.gen = cr.gen + 1]
        /\ UNCHANGED <<pc, obj>>
    BY <1>t, <1>3 DEF EditResource
  <2>2. /\ cr'.specHash = cr.specHash /\ cr'.policyHash = cr.policyHash
        /\ cr'.gen = cr.gen + 1 /\ cr'.observed = cr.observed
    BY <2>1, EditFields
  <2> QED
    BY <1>t, <1>x, <1>i, <2>1, <2>2
<1>4. CASE DeleteResource
  <2>1. CASE cr.fin
    <3>1. /\ cr \in Resource
          /\ cr' = [cr EXCEPT !.deleting = TRUE, !.gen = cr.gen + 1]
          /\ UNCHANGED <<pc, obj>>
      BY <1>t, <1>4, <2>1 DEF DeleteResource
    <3>2. /\ cr'.specHash = cr.specHash /\ cr'.policyHash = cr.policyHash
          /\ cr'.gen = cr.gen + 1 /\ cr'.observed = cr.observed
      BY <3>1, FlagFields
    <3> QED
      BY <1>t, <1>x, <1>i, <3>1, <3>2
  <2>2. CASE ~cr.fin
    BY <1>t, <1>z, <1>4, <2>2 DEF DeleteResource
  <2> QED
    BY <2>1, <2>2
<1>5. ASSUME \/ \E d \in PolicyDocs \cup {None} : EditPolicy(d)
             \/ \E p \in Providers : DetachOutOfBand(p)
             \/ \E phase \in Settled : GatewaySettles(phase)
             \/ GatewayFinishesDelete
             \/ \E v \in Volumes : ClaimGone(v)
      PROVE  CopyInv'
  BY <1>5 DEF EditPolicy, DetachOutOfBand, GatewaySettles,
              GatewayFinishesDelete, ClaimGone
<1>6. ASSUME NEW o \in Operators, Process(o) \/ Failure(o) PROVE CopyInv'
  BY <1>y, <1>6 DEF Process, StartOperator, WatchDelivers, Failure, CallFails,
                    CleanupFails
<1>7. ASSUME NEW o \in Operators, AddFinalizer(o) PROVE CopyInv'
  <2>1. /\ cr \in Resource /\ cr' = [cr EXCEPT !.fin = TRUE]
        /\ UNCHANGED <<pc, obj>>
    BY <1>t, <1>7 DEF AddFinalizer
  <2>2. /\ cr'.specHash = cr.specHash /\ cr'.policyHash = cr.policyHash
        /\ cr'.gen = cr.gen /\ cr'.observed = cr.observed /\ cr'.spec = cr.spec
    BY <2>1, FlagFields
  <2> QED
    BY <1>t, <2>1, <2>2
<1>8. ASSUME NEW o \in Operators, StartApply(o) PROVE CopyInv'
  <2>1. /\ cr' = cr /\ cr # None /\ obj' = [obj EXCEPT ![o] = cr]
        /\ \A p \in Operators : p # o => pc'[p] = pc[p]
    BY <1>t, <1>8 DEF StartApply, Triggered, Undisturbed
  <2> QED
    BY <1>t, <1>x, <2>1
<1>9. ASSUME NEW o \in Operators, StartCleanup(o) PROVE CopyInv'
  <2>1. /\ cr' = cr /\ pc'[o] = "cleanup"
        /\ \A p \in Operators : p # o => pc'[p] = pc[p] /\ obj'[p] = obj[p]
    BY <1>t, <1>9 DEF StartCleanup
  <2> QED
    BY <1>i, <2>1 DEF CleanupCalls
<1>10. ASSUME NEW o \in Operators,
              \/ EnsureVolume(o) \/ GetSandbox(o) \/ ResolvePolicy(o)
              \/ ConvergeProvider(o) \/ ProvidersConverged(o)
              \/ UpdatePolicy(o) \/ RecreateDelete(o) \/ RecreatePoll(o)
              \/ CreateSandbox(o)
       PROVE  CopyInv'
  <2>1. UNCHANGED <<cr, obj>>
    BY <1>10 DEF EnsureVolume, GetSandbox, ResolvePolicy, ConvergeProvider,
         ProvidersConverged, UpdatePolicy, RecreateDelete, RecreatePoll,
         CreateSandbox
  <2>2. pc[o] \in ApplyCalls
    BY <1>10 DEF EnsureVolume, GetSandbox, ResolvePolicy, ConvergeProvider,
         ProvidersConverged, UpdatePolicy, RecreateDelete, RecreatePoll,
         CreateSandbox, ApplyCalls, ConvergeCalls
  <2>3. \A p \in Operators : p # o => pc'[p] = pc[p]
    BY <1>t, <1>10 DEF EnsureVolume, GetSandbox, ResolvePolicy,
         ConvergeProvider, ProvidersConverged, UpdatePolicy, RecreateDelete,
         RecreatePoll, CreateSandbox, Answered
  <2> QED
    BY <1>1, <2>1, <2>2, <2>3
<1>11. ASSUME NEW o \in Operators, RecordSuccess(o) \/ RecordFailure(o)
       PROVE  CopyInv'
  <2>1. pc[o] \in ApplyCalls /\ obj[o] \in Resource /\ cr \in Resource
    BY <1>t, <1>z, <1>11 DEF RecordSuccess, RecordFailure, ApplyCalls
  <2>2. cr' \in {SuccessPatched(o), FailurePatched(o), cr}
    BY <1>11 DEF RecordSuccess, RecordFailure
  <2>3. cr' # None /\ cr'.observed <= cr'.gen
    <3>1. obj[o].gen <= cr.gen /\ cr # None /\ cr.observed <= cr.gen
      BY <2>1, <1>t
    <3>2. cr'.gen = cr.gen /\ cr'.observed \in {obj[o].gen, cr.observed}
      BY <2>2, <3>1, StatusFields
    <3>3. cr' # None
      BY <1>11, <2>1, SuccessType, FailureType DEF RecordSuccess, RecordFailure
    <3> QED
      BY <3>1, <3>2, <3>3
  <2>4. \A p \in Operators : pc'[p] = "idle"
    BY <1>t, <1>v, <1>i, <1>11, <2>1 DEF RecordSuccess, RecordFailure, Done
  <2> QED
    BY <1>i, <2>3, <2>4
<1>12. ASSUME NEW o \in Operators, CleanupDelete(o) \/ DropVolumes(o)
       PROVE  CopyInv'
  <2>1. UNCHANGED <<cr, obj>>
    BY <1>y, <1>12 DEF CleanupDelete, DropVolumes
  <2>2. /\ pc'[o] \in CleanupCalls
        /\ \A p \in Operators : p # o => pc'[p] = pc[p]
    BY <1>t, <1>y, <1>12 DEF CleanupDelete, DropVolumes, CleanupCalls
  <2> QED
    BY <1>1, <1>i, <2>1, <2>2
<1>13. ASSUME NEW o \in Operators, ReleaseFinalizer(o) PROVE CopyInv'
  <2>1. pc[o] \in CleanupCalls /\ pc[o] # "idle"
    BY <1>13 DEF ReleaseFinalizer, CleanupCalls
  <2>2. \A p \in Operators : pc'[p] = "idle"
    BY <1>t, <1>v, <1>13, <2>1 DEF ReleaseFinalizer, Done
  <2>3. cr' # None => cr'.observed <= cr'.gen
    <3>1. CASE cr' = cr
      BY <3>1
    <3>2. CASE cr' = None
      BY <3>2
    <3>3. CASE cr' = [cr EXCEPT !.fin = FALSE] /\ cr # None
      BY <1>t, <3>3, FlagFields
    <3> QED
      BY <1>13, <3>1, <3>2, <3>3 DEF ReleaseFinalizer
  <2> QED
    BY <1>i, <2>2, <2>3
<1>14. CASE UNCHANGED vars
  BY <1>14 DEF vars
<1> QED
  BY <1>2, <1>3, <1>4, <1>5, <1>6, <1>7, <1>8, <1>9, <1>10, <1>11, <1>12, <1>13,
     <1>14
     DEF Next, Environment, Reconcile
\* The gateway keeps the live sandbox as it is, or less of it.
Shrinks ==
  /\ gw = None => gw' = None
  /\ Live' => /\ Live
              /\ gw'.image = gw.image /\ gw'.volumes = gw.volumes
              /\ gw'.sec = gw.sec /\ gw'.net = gw.net
              /\ gw'.providers \subseteq gw.providers

\* The calls at which a reconcile has nothing established to keep.
Blank == {"idle", "volumes", "failed"} \cup CleanupCalls

LEMMA BlankEstablished ==
  ASSUME NEW o \in Operators, pc'[o] \in Blank
  PROVE  Established(o)'
  BY DEF Blank, CleanupCalls, Established

LEMMA ShrinkKeeps ==
  ASSUME Shrinks, NEW o \in Operators, Established(o),
         pc'[o] = pc[o], obj'[o] = obj[o], existing'[o] = existing[o],
         resolved'[o] = resolved[o], todo'[o] = todo[o]
  PROVE  Established(o)'
<1>1. CASE ~Live'
  BY <1>1 DEF Shrinks, Established, immutable_fingerprint, hash_drifted
<1>2. CASE Live'
  <2>1. /\ Live /\ gw'.image = gw.image /\ gw'.volumes = gw.volumes
        /\ gw'.sec = gw.sec /\ gw'.net = gw.net
        /\ gw'.providers \subseteq gw.providers
    BY <1>2 DEF Shrinks
  <2> QED
    BY <1>2, <2>1 DEF Shrinks, Established, SameImmutables,
         immutable_fingerprint, hash_drifted
<1> QED
  BY <1>1, <1>2

\* The gateway and the resource keep what the status says of the sandbox.
LEMMA ShrinkRecorded ==
  ASSUME Shrinks, Live', Recorded, cr'.specHash = cr.specHash,
         cr'.policyHash = cr.policyHash
  PROVE  Recorded'
  BY DEF Shrinks, Recorded, LiveFingerprint

LEMMA ShrinkReady ==
  ASSUME Shrinks, cr # None, ReadyMeansApplied, cr'.spec = cr.spec,
         cr'.gen = cr.gen, cr'.observed = cr.observed, cr'.ready = cr.ready
  PROVE  ReadyMeansApplied'
  BY DEF Shrinks, ReadyMeansApplied

LEMMA AppliedFrame ==
  ASSUME FinalizerInv, AppliedInv, Shrinks,
         UNCHANGED <<cr, pc, obj, existing, resolved, todo>>
  PROVE  AppliedInv'
<1>1. \A o \in Operators : Established(o)'
  BY ShrinkKeeps DEF AppliedInv
<1>2. (Live' /\ \A o \in Operators : pc'[o] # "succeeded") => Recorded'
  BY ShrinkRecorded DEF AppliedInv, Shrinks
<1>3. ReadyMeansApplied'
  BY ShrinkReady DEF AppliedInv, ReadyMeansApplied, Shrinks
<1> QED
  BY <1>1, <1>2, <1>3 DEF AppliedInv

LEMMA SameGateway ==
  ASSUME UNCHANGED gw
  PROVE  Shrinks
  BY DEF Shrinks, Live

LEMMA AppliedInit == Init => AppliedInv
  BY DEF Init, AppliedInv, Established, Live, ReadyMeansApplied

\* A step of the environment or of a process other than a reconcile.
LEMMA EnvironmentKeepsApplied ==
  ASSUME TypeInv, FinalizerInv, CopyInv, AppliedInv, Environment
  PROVE  AppliedInv'
<1>t. gw \in Sandbox \cup {None} /\ cr \in Resource \cup {None}
  BY DEF TypeInv, TypeOK
<1>h. Live => cr # None /\ cr.fin
  BY DEF FinalizerInv, Held
<1>x. cr # None => cr.observed <= cr.gen /\ cr.gen \in Nat /\ cr.observed \in Nat
  BY <1>t DEF CopyInv, Resource
<1> USE DEF kube, local
<1>0. ASSUME UNCHANGED <<gw, pc, obj, existing, resolved, todo>>
      PROVE  /\ \A o \in Operators : Established(o)'
             /\ (cr'.specHash = cr.specHash /\ cr'.policyHash = cr.policyHash)
                  => (Live' /\ (\A o \in Operators : pc'[o] # "succeeded")
                        => Recorded')
             /\ Live' = Live
  <2>1. Shrinks
    BY <1>0, SameGateway
  <2>2. \A o \in Operators : Established(o)'
    BY <1>0, <2>1, ShrinkKeeps DEF AppliedInv
  <2>3. Live' => Live
    BY <2>1 DEF Shrinks
  <2>4. Live' = Live
    BY <1>0 DEF Live
  <2> QED
    BY <1>0, <2>1, <2>2, <2>3, <2>4, ShrinkRecorded DEF AppliedInv
<1>1. ASSUME NEW s \in Specs, CreateResource(s) PROVE AppliedInv'
  <2>1. ~Live /\ UNCHANGED <<gw, pc, obj, existing, resolved, todo>>
    BY <1>h, <1>1 DEF CreateResource
  <2> QED
    BY <1>0, <2>1 DEF AppliedInv, ReadyMeansApplied
<1>2. ASSUME NEW s \in Specs, EditResource(s) PROVE AppliedInv'
  <2>1. /\ cr \in Resource /\ cr' = [cr EXCEPT !.spec = s, !.gen = cr.gen + 1]
        /\ UNCHANGED <<gw, pc, obj, existing, resolved, todo>>
    BY <1>t, <1>2 DEF EditResource
  <2>2. /\ cr'.specHash = cr.specHash /\ cr'.policyHash = cr.policyHash
        /\ cr'.gen = cr.gen + 1 /\ cr'.observed = cr.observed
    BY <2>1, EditFields
  <2>3. cr'.observed # cr'.gen
    BY <1>t, <1>2, <1>x, <2>2 DEF EditResource
  <2> QED
    BY <1>0, <2>1, <2>2, <2>3 DEF AppliedInv, ReadyMeansApplied
<1>3. CASE DeleteResource
  <2>0. UNCHANGED <<gw, pc, obj, existing, resolved, todo>>
    BY <1>3 DEF DeleteResource
  <2>1. CASE cr.fin
    <3>1. /\ cr \in Resource
          /\ cr' = [cr EXCEPT !.deleting = TRUE, !.gen = cr.gen + 1]
      BY <1>t, <1>3, <2>1 DEF DeleteResource
    <3>2. /\ cr'.specHash = cr.specHash /\ cr'.policyHash = cr.policyHash
          /\ cr'.gen = cr.gen + 1 /\ cr'.observed = cr.observed
      BY <3>1, FlagFields
    <3>3. cr'.observed # cr'.gen
      BY <1>3, <1>x, <3>2 DEF DeleteResource
    <3> QED
      BY <1>0, <2>0, <3>2, <3>3 DEF AppliedInv, ReadyMeansApplied
  <2>2. CASE ~cr.fin
    <3>1. ~Live
      BY <1>h, <2>2
    <3> QED
      BY <1>0, <2>0, <3>1 DEF AppliedInv, ReadyMeansApplied
  <2> QED
    BY <2>1, <2>2
<1>4. ASSUME \/ \E d \in PolicyDocs \cup {None} : EditPolicy(d)
             \/ \E v \in Volumes : ClaimGone(v)
      PROVE  AppliedInv'
  <2>1. UNCHANGED <<cr, gw, pc, obj, existing, resolved, todo>>
    BY <1>4 DEF EditPolicy, ClaimGone
  <2> QED
    BY <2>1, SameGateway, AppliedFrame
<1>5. ASSUME NEW p \in Providers, DetachOutOfBand(p) PROVE AppliedInv'
  <2>1. /\ gw \in Sandbox /\ gw' = [gw EXCEPT !.providers = gw.providers \ {p}]
        /\ UNCHANGED <<cr, pc, obj, existing, resolved, todo>>
    BY <1>t, <1>5 DEF DetachOutOfBand
  <2>2. Shrinks
    BY <2>1 DEF Shrinks, Live, Sandbox
  <2> QED
    BY <2>1, <2>2, AppliedFrame
<1>6. ASSUME NEW phase \in Settled, GatewaySettles(phase) PROVE AppliedInv'
  <2>1. /\ gw \in Sandbox /\ gw' = [gw EXCEPT !.phase = phase] /\ Live
        /\ UNCHANGED <<cr, pc, obj, existing, resolved, todo>>
    BY <1>t, <1>6 DEF GatewaySettles, Live
  <2>2. Shrinks
    BY <2>1 DEF Shrinks, Live, Sandbox
  <2> QED
    BY <2>1, <2>2, AppliedFrame
<1>7. CASE GatewayFinishesDelete
  <2>1. gw' = None /\ UNCHANGED <<cr, pc, obj, existing, resolved, todo>>
    BY <1>7 DEF GatewayFinishesDelete
  <2>2. Shrinks
    BY <2>1 DEF Shrinks, Live
  <2> QED
    BY <2>1, <2>2, AppliedFrame
<1> QED
  BY <1>1, <1>2, <1>3, <1>4, <1>5, <1>6, <1>7 DEF Environment
\* A call of the reconcile of o that leaves the resource alone: what is left to
\* show is what o has established, and what its change of the gateway means.
LEMMA OwnCallKeeps ==
  ASSUME TypeInv, FinalizerInv, AppliedInv, NEW o \in Operators, o \in active,
         cr' = cr,
         \A p \in Operators : p # o => pc'[p] = pc[p],
         Established(o)',
         (Live' /\ pc'[o] # "succeeded") => Recorded',
         ReadyMeansApplied'
  PROVE  AppliedInv'
<1>1. \A p \in Operators : p # o => pc[p] = "idle"
  BY DEF TypeInv, LocalOK, FinalizerInv
<1>2. \A p \in Operators : Established(p)'
  BY <1>1, BlankEstablished DEF Blank
<1> QED
  BY <1>2 DEF AppliedInv

\* The same, when the gateway does not change either.
LEMMA QuietCallKeeps ==
  ASSUME TypeInv, FinalizerInv, AppliedInv, NEW o \in Operators, o \in active,
         UNCHANGED <<cr, gw>>, pc[o] # "succeeded",
         \A p \in Operators : p # o => pc'[p] = pc[p],
         Established(o)'
  PROVE  AppliedInv'
<1>1. \A p \in Operators : p # o => pc[p] = "idle"
  BY DEF TypeInv, LocalOK, FinalizerInv
<1>2. Shrinks
  BY SameGateway
<1>3. Live' => Live
  BY <1>2 DEF Shrinks
<1>4. Live => Recorded
  BY <1>1 DEF AppliedInv
<1>5. Live' => Recorded'
  BY <1>2, <1>3, <1>4, ShrinkRecorded
<1>6. ReadyMeansApplied'
  BY DEF AppliedInv, ReadyMeansApplied, Live
<1> QED
  BY <1>5, <1>6, OwnCallKeeps

LEMMA StartKeepsApplied ==
  ASSUME TypeInv, FinalizerInv, AppliedInv, NEW o \in Operators,
         \/ StartApply(o) \/ StartCleanup(o) \/ EnsureVolume(o) \/ GetSandbox(o)
  PROVE  AppliedInv'
<1>t. /\ pc \in [Operators -> ApplyCalls \cup CleanupCalls \cup {"idle"}]
      /\ existing \in [Operators -> Sandbox \cup {None}]
      /\ \A p \in Operators : pc[p] # "idle" => p \in active
  BY DEF TypeInv, TypeOK, LocalOK, ApplyCalls, CleanupCalls
<1> USE DEF kube, local
<1>1. UNCHANGED <<cr, gw>>
  BY DEF StartApply, StartCleanup, EnsureVolume, GetSandbox
<1>2. o \in active /\ pc[o] # "succeeded"
  BY <1>t DEF StartApply, StartCleanup, EnsureVolume, GetSandbox, Triggered
<1>3. \A p \in Operators : p # o => pc'[p] = pc[p]
  BY <1>t DEF StartApply, StartCleanup, EnsureVolume, GetSandbox, Answered
<1>4. Established(o)'
  <2>1. CASE GetSandbox(o)
    <3>1. pc'[o] = "resolve" /\ existing'[o] = gw /\ gw' = gw
      BY <1>t, <2>1 DEF GetSandbox
    <3> QED
      BY <3>1 DEF Established
  <2>2. CASE ~GetSandbox(o)
    <3>1. pc'[o] \in Blank
      BY <1>t, <2>2 DEF StartApply, StartCleanup, EnsureVolume, Answered, Blank,
                        CleanupCalls
    <3> QED
      BY <3>1, BlankEstablished
  <2> QED
    BY <2>1, <2>2
<1> QED
  BY <1>1, <1>2, <1>3, <1>4, QuietCallKeeps

LEMMA ResolveKeepsApplied ==
  ASSUME TypeInv, FinalizerInv, AppliedInv, NEW o \in Operators,
         ResolvePolicy(o)
  PROVE  AppliedInv'
<1>t. /\ pc \in [Operators -> ApplyCalls \cup CleanupCalls \cup {"idle"}]
      /\ resolved \in [Operators -> PolicyDoc \cup {NoPolicy, None}]
      /\ todo \in [Operators -> SUBSET (Volumes \cup Providers)]
  BY DEF TypeInv, TypeOK, ApplyCalls, CleanupCalls
<1> USE DEF kube, local
<1>1. /\ UNCHANGED <<cr, gw, obj, existing>> /\ pc[o] = "resolve" /\ o \in active
      /\ \A p \in Operators : p # o => pc'[p] = pc[p]
  BY <1>t DEF ResolvePolicy, TypeInv, LocalOK
<1>2. PICK doc :
        /\ resolved'[o] = doc
        /\ pc'[o] = ConvergeStep(o, doc)
        /\ ConvergeStep(o, doc) = "providers" =>
             todo'[o] = (obj[o].spec.providers \ existing[o].providers) \cup
                        (existing[o].providers \ obj[o].spec.providers)
  BY <1>t DEF ResolvePolicy, provider_delta
<1>3. Established(o)'
  <2> DEFINE drifted == hash_drifted(obj[o].specHash,
                                     immutable_fingerprint(obj[o].spec, doc))
  <2>1. /\ existing[o] = None => gw = None
        /\ Live => gw.providers \subseteq existing[o].providers
    BY <1>1 DEF AppliedInv, Established
  <2>2. drifted' = drifted /\ Live' = Live
    BY <1>1 DEF Live
  <2>3. CASE ConvergeStep(o, doc) = "failed"
    BY <1>2, <2>3, BlankEstablished DEF Blank
  <2>4. CASE ConvergeStep(o, doc) = "create"
    <3>1. gw' = None
      BY <1>1, <2>1, <2>4 DEF ConvergeStep
    <3> QED
      BY <1>2, <2>4, <3>1 DEF Established
  <2>5. CASE ConvergeStep(o, doc) = "delete"
    <3>1. drifted
      BY <2>5 DEF ConvergeStep
    <3> QED
      BY <1>1, <1>2, <2>5, <3>1 DEF Established
  <2>6. CASE ConvergeStep(o, doc) = "providers"
    <3>1. doc = None \/ ~drifted
      BY <2>6 DEF ConvergeStep
    <3>2. Live => gw.providers \subseteq obj[o].spec.providers \cup todo'[o]
      BY <1>2, <2>1, <2>6
    <3> QED
      BY <1>1, <1>2, <2>2, <2>6, <3>1, <3>2 DEF Established
  <2> QED
    BY <2>3, <2>4, <2>5, <2>6 DEF ConvergeStep
<1> QED
  BY <1>1, <1>3, QuietCallKeeps

\* Where a reconcile leaves the live sandbox in place, its spec and its
\* resolved policy ask for the immutable fields that sandbox has.
LEMMA KeptSandboxIsWanted ==
  ASSUME TypeInv, FinalizerInv, CopyInv, AppliedInv, NEW o \in Operators,
         pc[o] \in {"providers", "update"}, resolved[o] # None, Live
  PROVE  /\ SameImmutables(obj[o].spec, resolved[o])
         /\ obj[o].policyHash \in {<<gw.net>>, <<None>>}
<1>1. cr.specHash = LiveFingerprint /\ cr.policyHash \in {<<gw.net>>, <<None>>}
  <2>1. \A p \in Operators : pc[p] # "succeeded"
    BY DEF TypeInv, LocalOK, FinalizerInv
  <2> QED
    BY <2>1 DEF AppliedInv, Recorded, mutable_policy_fingerprint, NoPolicy
<1>2. obj[o].specHash = cr.specHash /\ obj[o].policyHash = cr.policyHash
  BY DEF CopyInv, ApplyCalls, ConvergeCalls
<1>3. LiveFingerprint \in SpecHash
  BY DEF TypeInv, TypeOK, Live, LiveFingerprint, SpecHash, Sandbox
<1>4. LiveFingerprint = immutable_fingerprint(obj[o].spec, resolved[o])
  BY <1>1, <1>2, <1>3 DEF AppliedInv, Established, hash_drifted
<1> QED
  BY <1>1, <1>2, <1>4 DEF LiveFingerprint, immutable_fingerprint, SameImmutables
LEMMA ProviderKeepsApplied ==
  ASSUME TypeInv, FinalizerInv, CopyInv, AppliedInv, ~Fault,
         NEW o \in Operators, ConvergeProvider(o)
  PROVE  AppliedInv'
<1>t. /\ pc \in [Operators -> ApplyCalls \cup CleanupCalls \cup {"idle"}]
      /\ todo \in [Operators -> SUBSET (Volumes \cup Providers)]
      /\ gw \in Sandbox \cup {None} /\ cr \in Resource \cup {None}
      /\ obj[o] \in Resource /\ o \in active
  BY DEF TypeInv, TypeOK, LocalOK, ApplyCalls, CleanupCalls, ConvergeProvider
<1> USE DEF kube, local
<1> DEFINE wanted == obj[o].spec.providers
<1>0. pc[o] = "providers" /\ UNCHANGED <<cr, obj, existing, resolved>>
  BY DEF ConvergeProvider
<1>1. PICK p \in todo[o] :
        /\ todo'[o] = todo[o] \ {p}
        /\ IF gw = None
             THEN /\ pc' = [pc EXCEPT ![o] = "failed"] /\ gw' = gw
             ELSE /\ gw' = [gw EXCEPT !.providers =
                              IF p \in wanted THEN gw.providers \cup {p}
                                              ELSE gw.providers \ {p}]
                  /\ pc' = [pc EXCEPT ![o] = "providers"]
  BY <1>t DEF ConvergeProvider, Answered
<1>2. \A q \in Operators : q # o => pc'[q] = pc[q]
  BY <1>t, <1>1
<1>3. CASE gw = None
  <2>1. pc'[o] = "failed" /\ gw' = gw
    BY <1>t, <1>1, <1>3
  <2>2. Established(o)'
    BY <2>1, BlankEstablished DEF Blank
  <2> QED
    BY <1>t, <1>0, <1>2, <2>1, <2>2, QuietCallKeeps
<1>4. CASE gw # None
  <2> DEFINE ps == IF p \in wanted THEN gw.providers \cup {p}
                                   ELSE gw.providers \ {p}
  <2>1. gw \in Sandbox /\ wanted \subseteq Providers
    BY <1>t, <1>4 DEF Resource, SandboxSpec
  <2>2. ps \in SUBSET Providers
    BY <2>1 DEF Sandbox
  <2>3. gw' = [gw EXCEPT !.providers = ps] /\ pc'[o] = "providers"
    BY <1>t, <1>1, <1>4
  <2>p. /\ ps \subseteq gw.providers \cup wanted
        /\ gw.providers \subseteq wanted \cup todo[o]
             => ps \subseteq wanted \cup todo'[o]
    BY <1>1
  <2> HIDE DEF ps
  <2>4. /\ gw' \in Sandbox /\ gw'.image = gw.image /\ gw'.volumes = gw.volumes
        /\ gw'.sec = gw.sec /\ gw'.net = gw.net /\ gw'.phase = gw.phase
        /\ gw'.providers = ps
    BY <2>1, <2>2, <2>3 DEF Sandbox
  <2>5. Live' = Live
    BY <1>4, <2>4 DEF Live
  <2>6. Established(o)'
    <3>1. Live => gw.providers \subseteq wanted \cup todo[o]
      BY <1>0 DEF AppliedInv, Established
    <3>2. resolved[o] # None =>
            ~hash_drifted(obj[o].specHash,
                          immutable_fingerprint(obj[o].spec, resolved[o]))
      BY <1>0 DEF AppliedInv, Established
    <3> QED
      BY <1>0, <2>p, <2>3, <2>4, <2>5, <3>1, <3>2 DEF Established
  <2>7. Live => Recorded
    BY <1>0, <1>t DEF AppliedInv, TypeInv, LocalOK, FinalizerInv
  <2>8. Live' => Recorded'
    BY <1>0, <2>4, <2>5, <2>7 DEF Recorded, LiveFingerprint
  <2>9. ReadyMeansApplied'
    <3>1. /\ cr # None /\ cr.observed <= obj[o].gen /\ obj[o].gen <= cr.gen
          /\ obj[o].gen = cr.gen => obj[o].spec = cr.spec
      BY <1>0 DEF CopyInv, ApplyCalls, ConvergeCalls, FinalizerInv, Held
    <3>2. cr.observed = cr.gen => cr.spec = obj[o].spec
      BY <1>t, <3>1 DEF Resource
    <3> QED
      BY <1>0, <2>p, <2>4, <2>5, <3>1, <3>2 DEF AppliedInv, ReadyMeansApplied
  <2> QED
    BY <1>t, <1>0, <1>2, <2>6, <2>8, <2>9, OwnCallKeeps
<1> QED
  BY <1>3, <1>4

LEMMA ConvergedKeepsApplied ==
  ASSUME TypeInv, FinalizerInv, CopyInv, AppliedInv, NEW o \in Operators,
         ProvidersConverged(o)
  PROVE  AppliedInv'
<1>t. /\ pc \in [Operators -> ApplyCalls \cup CleanupCalls \cup {"idle"}]
      /\ resolved[o] \in PolicyDoc \cup {NoPolicy, None}
      /\ o \in active
  BY DEF TypeInv, TypeOK, LocalOK, ApplyCalls, CleanupCalls, ProvidersConverged
<1> USE DEF kube, local
<1>1. /\ pc[o] = "providers" /\ todo[o] = {}
      /\ UNCHANGED <<cr, gw, obj, existing, resolved, todo>>
      /\ \A p \in Operators : p # o => pc'[p] = pc[p]
      /\ pc'[o] \in {"failed", "update", "succeeded"}
      /\ pc'[o] \in {"update", "succeeded"} => resolved[o] # None
      /\ pc'[o] = "succeeded" =>
           \/ resolved[o] = NoPolicy
           \/ ~hash_drifted(obj[o].policyHash, <<resolved[o].net>>)
  BY <1>t DEF ProvidersConverged, mutable_policy_fingerprint
<1>2. Live' = Live
  BY <1>1 DEF Live
<1>3. CASE pc'[o] = "failed"
  BY <1>t, <1>1, <1>3, BlankEstablished, QuietCallKeeps DEF Blank
<1>4. CASE pc'[o] # "failed"
  <2>1. resolved[o] # None
    BY <1>1, <1>4
  <2>2. Live => gw.providers \subseteq obj[o].spec.providers
    BY <1>1 DEF AppliedInv, Established
  <2>3. ~hash_drifted(obj[o].specHash,
                      immutable_fingerprint(obj[o].spec, resolved[o]))
    BY <1>1, <2>1 DEF AppliedInv, Established
  <2>4. Live => /\ SameImmutables(obj[o].spec, resolved[o])
                /\ obj[o].policyHash \in {<<gw.net>>, <<None>>}
    BY <1>1, <2>1, KeptSandboxIsWanted
  <2>5. (Live /\ pc'[o] = "succeeded")
          => resolved[o] = NoPolicy \/ gw.net = resolved[o].net
    <3> SUFFICES ASSUME Live, pc'[o] = "succeeded", resolved[o] # NoPolicy
                 PROVE  gw.net = resolved[o].net
      OBVIOUS
    <3>1. resolved[o].net \in Nets
      BY <1>t, <2>1 DEF PolicyDoc
    <3>2. obj[o].policyHash \in PolicyHash
      <4>1. gw.net \in Nets \cup {None}
        BY DEF Live, TypeInv, TypeOK, Sandbox
      <4> QED
        BY <2>4, <4>1 DEF PolicyHash
    <3>3. obj[o].policyHash = <<resolved[o].net>>
      BY <1>1, <3>2 DEF hash_drifted
    <3> QED
      BY <2>4, <3>1, <3>3
  <2>6. SameImmutables(obj[o].spec, resolved[o])'
          = SameImmutables(obj[o].spec, resolved[o])
    BY <1>1 DEF SameImmutables
  <2>7. Established(o)'
    <3>1. CASE pc'[o] = "update"
      BY <1>1, <1>2, <2>2, <2>3, <3>1 DEF Established
    <3>2. CASE pc'[o] = "succeeded"
      BY <1>1, <1>2, <2>2, <2>4, <2>5, <2>6, <3>2 DEF Established
    <3> QED
      BY <1>1, <1>4, <3>1, <3>2
  <2> QED
    BY <1>t, <1>1, <2>7, QuietCallKeeps
<1> QED
  BY <1>3, <1>4

LEMMA UpdateKeepsApplied ==
  ASSUME TypeInv, FinalizerInv, CopyInv, AppliedInv, ~Fault,
         NEW o \in Operators, UpdatePolicy(o)
  PROVE  AppliedInv'
<1>t. /\ pc \in [Operators -> ApplyCalls \cup CleanupCalls \cup {"idle"}]
      /\ gw \in Sandbox \cup {None} /\ o \in active
      /\ resolved[o] \in PolicyDoc \cup {NoPolicy}
  BY DEF TypeInv, TypeOK, LocalOK, ApplyCalls, CleanupCalls, UpdatePolicy
<1> USE DEF kube, local
<1>1. /\ pc[o] = "update" /\ UNCHANGED <<cr, obj, existing, resolved, todo>>
      /\ \A p \in Operators : p # o => pc'[p] = pc[p]
  BY <1>t DEF UpdatePolicy, Answered
<1>2. \/ pc'[o] = "failed" /\ gw' = gw
      \/ /\ pc'[o] = "succeeded" /\ gw # None
         /\ gw' = [gw EXCEPT !.net = resolved[o].net]
  BY <1>t DEF UpdatePolicy, Answered
<1>3. CASE pc'[o] = "failed" /\ gw' = gw
  BY <1>t, <1>1, <1>3, BlankEstablished, QuietCallKeeps DEF Blank
<1>4. CASE /\ pc'[o] = "succeeded" /\ gw # None
           /\ gw' = [gw EXCEPT !.net = resolved[o].net]
  <2>1. resolved[o].net \in Nets \cup {None} /\ resolved[o] # None
    BY <1>t DEF PolicyDoc, NoPolicy
  <2>2. /\ gw' \in Sandbox /\ gw'.image = gw.image /\ gw'.volumes = gw.volumes
        /\ gw'.sec = gw.sec /\ gw'.providers = gw.providers
        /\ gw'.phase = gw.phase /\ gw'.net = resolved[o].net
    BY <1>t, <1>4, <2>1 DEF Sandbox
  <2>3. Live' = Live
    BY <1>4, <2>2 DEF Live
  <2>4. Live => /\ SameImmutables(obj[o].spec, resolved[o])
                /\ gw.providers \subseteq obj[o].spec.providers
    BY <1>1, <2>1, KeptSandboxIsWanted DEF AppliedInv, Established
  <2>5. Established(o)'
    BY <1>1, <1>4, <2>2, <2>3, <2>4 DEF Established, SameImmutables
  <2>6. ReadyMeansApplied'
    BY <1>1, <2>2, <2>3 DEF AppliedInv, ReadyMeansApplied
  <2> QED
    BY <1>t, <1>1, <1>4, <2>5, <2>6, OwnCallKeeps
<1> QED
  BY <1>2, <1>3, <1>4
LEMMA RecreateKeepsApplied ==
  ASSUME TypeInv, FinalizerInv, AppliedInv, ~Fault, NEW o \in Operators,
         RecreateDelete(o) \/ RecreatePoll(o)
  PROVE  AppliedInv'
<1>t. /\ pc \in [Operators -> ApplyCalls \cup CleanupCalls \cup {"idle"}]
      /\ gw \in Sandbox \cup {None} /\ o \in active
  BY DEF TypeInv, TypeOK, LocalOK, ApplyCalls, CleanupCalls, RecreateDelete,
         RecreatePoll
<1> USE DEF kube, local
<1>1. /\ UNCHANGED <<cr, obj, existing, resolved, todo>> /\ pc[o] # "succeeded"
      /\ \A p \in Operators : p # o => pc'[p] = pc[p]
  BY <1>t DEF RecreateDelete, RecreatePoll, Answered
<1>2. ~Live'
  <2>1. CASE RecreateDelete(o)
    BY <1>t, <2>1, DeleteLive DEF RecreateDelete, Live
  <2>2. CASE RecreatePoll(o)
    BY <2>2 DEF RecreatePoll, AppliedInv, Established, Live
  <2> QED
    BY <2>1, <2>2
<1>3. \/ pc'[o] \in {"poll", "failed"}
      \/ pc'[o] = "create" /\ gw' = None
  BY <1>t DEF RecreateDelete, RecreatePoll, Answered
<1>4. Established(o)'
  BY <1>2, <1>3 DEF Established
<1>5. ReadyMeansApplied'
  BY <1>2 DEF ReadyMeansApplied
<1> QED
  BY <1>t, <1>1, <1>2, <1>4, <1>5, OwnCallKeeps

LEMMA CreateKeepsApplied ==
  ASSUME TypeInv, FinalizerInv, CopyInv, AppliedInv, ~Fault,
         NEW o \in Operators, CreateSandbox(o)
  PROVE  AppliedInv'
<1>t. /\ pc \in [Operators -> ApplyCalls \cup CleanupCalls \cup {"idle"}]
      /\ cr \in Resource \cup {None} /\ obj[o] \in Resource /\ o \in active
  BY DEF TypeInv, TypeOK, LocalOK, ApplyCalls, CleanupCalls, CreateSandbox
<1> USE DEF kube, local
<1>1. pc[o] = "create" /\ gw = None
  BY DEF CreateSandbox, AppliedInv, Established
<1>2. /\ UNCHANGED <<cr, obj, resolved>> /\ pc'[o] = "succeeded"
      /\ \A p \in Operators : p # o => pc'[p] = pc[p]
      /\ gw' = build_sandbox_create(obj[o].spec, resolved[o])
  BY <1>t, <1>1 DEF CreateSandbox, Answered
<1>3. /\ gw'.image = obj[o].spec.image /\ gw'.volumes = obj[o].spec.volumes
      /\ gw'.sec = resolved[o].sec /\ gw'.net = resolved[o].net
      /\ gw'.providers = obj[o].spec.providers
  BY <1>2 DEF build_sandbox_create
<1>4. Established(o)'
  BY <1>2, <1>3 DEF Established, SameImmutables
<1>5. ReadyMeansApplied'
  <2>1. /\ cr # None /\ cr.observed <= obj[o].gen /\ obj[o].gen <= cr.gen
        /\ obj[o].gen = cr.gen => obj[o].spec = cr.spec
    BY <1>1 DEF CopyInv, ApplyCalls, ConvergeCalls, FinalizerInv, Held
  <2>2. cr.observed = cr.gen => cr.spec = obj[o].spec
    BY <1>t, <2>1 DEF Resource
  <2> QED
    BY <1>2, <1>3, <2>2 DEF ReadyMeansApplied
<1> QED
  BY <1>t, <1>2, <1>4, <1>5, OwnCallKeeps

LEMMA RecordKeepsApplied ==
  ASSUME TypeInv, FinalizerInv, CopyInv, AppliedInv, ~Fault,
         NEW o \in Operators, RecordSuccess(o) \/ RecordFailure(o)
  PROVE  AppliedInv'
<1>t. /\ pc \in [Operators -> ApplyCalls \cup CleanupCalls \cup {"idle"}]
      /\ cr \in Resource /\ obj[o] \in Resource /\ o \in active
      /\ pc[o] \in {"succeeded", "failed"}
  BY DEF TypeInv, TypeOK, LocalOK, ApplyCalls, CleanupCalls, RecordSuccess,
         RecordFailure, FinalizerInv, Held
<1> USE DEF kube, local
<1>0. \A p \in Operators : p # o => pc[p] = "idle"
  BY <1>t DEF TypeInv, LocalOK, FinalizerInv
<1>1. gw' = gw /\ \A p \in Operators : pc'[p] = "idle"
  BY <1>t, <1>0 DEF RecordSuccess, RecordFailure, Done
<1>2. Live' = Live
  BY <1>1 DEF Live
<1>3. \A p \in Operators : Established(p)'
  BY <1>1, BlankEstablished DEF Blank
<1>c. /\ obj[o].specHash = cr.specHash /\ obj[o].policyHash = cr.policyHash
      /\ obj[o].gen = cr.gen => obj[o].spec = cr.spec
  BY <1>t DEF CopyInv, ApplyCalls
<1>4. CASE RecordSuccess(o)
  <2>1. pc[o] = "succeeded" /\ cr' = SuccessPatched(o)
    BY <1>t, <1>4 DEF RecordSuccess
  <2>2. /\ cr'.spec = cr.spec /\ cr'.gen = cr.gen /\ cr'.observed = obj[o].gen
        /\ cr'.specHash = immutable_fingerprint(obj[o].spec, resolved[o])
        /\ cr'.policyHash = mutable_policy_fingerprint(resolved[o])
    BY <1>t, <2>1, StatusFields
  <2>3. Live => /\ SameImmutables(obj[o].spec, resolved[o])
                /\ resolved[o] = NoPolicy \/ gw.net = resolved[o].net
                /\ gw.providers \subseteq obj[o].spec.providers
    BY <2>1 DEF AppliedInv, Established
  <2>4. Live' => Recorded'
    BY <1>1, <1>2, <2>2, <2>3 DEF Recorded, LiveFingerprint, SameImmutables,
         immutable_fingerprint, mutable_policy_fingerprint
  <2>5. ReadyMeansApplied'
    BY <1>1, <1>2, <1>c, <2>2, <2>3 DEF ReadyMeansApplied, SameImmutables
  <2> QED
    BY <1>3, <2>4, <2>5 DEF AppliedInv
<1>5. CASE RecordFailure(o)
  <2>1. pc[o] = "failed" /\ cr' = FailurePatched(o)
    BY <1>t, <1>5 DEF RecordFailure
  <2>2. /\ cr'.specHash = Merged(obj[o].specHash, cr.specHash)
        /\ cr'.policyHash = Merged(obj[o].policyHash, cr.policyHash)
        /\ ~cr'.ready
    BY <1>t, <2>1, StatusFields
  <2>3. cr'.specHash = cr.specHash /\ cr'.policyHash = cr.policyHash
    BY <1>c, <2>2 DEF Merged
  <2>4. Live => Recorded
    BY <1>0, <2>1 DEF AppliedInv
  <2>5. Live' => Recorded'
    BY <1>1, <1>2, <2>3, <2>4 DEF Recorded, LiveFingerprint
  <2>6. ReadyMeansApplied'
    BY <2>2 DEF ReadyMeansApplied
  <2> QED
    BY <1>3, <2>5, <2>6 DEF AppliedInv
<1> QED
  BY <1>4, <1>5

LEMMA FinalizerKeepsApplied ==
  ASSUME TypeInv, FinalizerInv, AppliedInv, ~Fault, FinalizerInv',
         NEW o \in Operators,
         \/ AddFinalizer(o) \/ CleanupDelete(o) \/ DropVolumes(o)
         \/ ReleaseFinalizer(o)
  PROVE  AppliedInv'
<1>t. /\ pc \in [Operators -> ApplyCalls \cup CleanupCalls \cup {"idle"}]
      /\ gw \in Sandbox \cup {None} /\ o \in active
  BY DEF TypeInv, TypeOK, LocalOK, ApplyCalls, CleanupCalls, AddFinalizer,
         Triggered, CleanupDelete, DropVolumes, ReleaseFinalizer
<1> USE DEF kube, local
<1>0. \A p \in Operators : p # o => pc[p] = "idle"
  BY <1>t DEF TypeInv, LocalOK, FinalizerInv
<1>1. pc[o] \in CleanupCalls \cup {"idle"}
  BY DEF AddFinalizer, Triggered, CleanupDelete, DropVolumes, ReleaseFinalizer,
         CleanupCalls
<1>2. \A p \in Operators : pc'[p] \in CleanupCalls \cup {"idle"}
  BY <1>t, <1>0, <1>1 DEF AddFinalizer, CleanupDelete, DropVolumes,
       ReleaseFinalizer, Done, CleanupCalls
<1>3. \A p \in Operators : Established(p)'
  BY <1>2, BlankEstablished DEF Blank
<1>4. ~Live'
  <2>1. CASE AddFinalizer(o)
    BY <2>1 DEF AddFinalizer, FinalizerInv, Held, Live
  <2>2. CASE CleanupDelete(o)
    BY <1>t, <2>2, DeleteLive DEF CleanupDelete, Live
  <2>3. CASE DropVolumes(o) \/ ReleaseFinalizer(o)
    BY <2>3 DEF DropVolumes, ReleaseFinalizer, FinalizerInv, Live
  <2> QED
    BY <2>1, <2>2, <2>3
<1> QED
  BY <1>3, <1>4 DEF AppliedInv, ReadyMeansApplied

LEMMA AppliedStep ==
  ASSUME Undisturbed
  PROVE  TypeInv /\ FinalizerInv /\ CopyInv /\ AppliedInv /\ [Next]_vars
           => AppliedInv'
<1> SUFFICES ASSUME TypeInv, FinalizerInv, CopyInv, AppliedInv, [Next]_vars
             PROVE  AppliedInv'
  OBVIOUS
<1>y. ~Fault /\ \A o \in Operators : ~StopOperator(o)
  BY NothingFails
<1>f. FinalizerInv'
  BY FinalizerStep DEF Undisturbed
<1>1. CASE Environment
  BY <1>1, EnvironmentKeepsApplied
<1>2. ASSUME NEW o \in Operators, Reconcile(o) PROVE AppliedInv'
  BY <1>y, <1>f, <1>2, StartKeepsApplied, ResolveKeepsApplied,
     ProviderKeepsApplied, ConvergedKeepsApplied, UpdateKeepsApplied,
     RecreateKeepsApplied, CreateKeepsApplied, RecordKeepsApplied,
     FinalizerKeepsApplied DEF Reconcile
<1>3. ASSUME NEW o \in Operators, Process(o) PROVE AppliedInv'
  <2>1. UNCHANGED <<cr, gw, pc, obj, existing, resolved, todo>>
    BY <1>y, <1>3 DEF Process, StartOperator, WatchDelivers, kube
  <2> QED
    BY <2>1, SameGateway, AppliedFrame
<1>4. ASSUME NEW o \in Operators, Failure(o) PROVE AppliedInv'
  BY <1>y, <1>4 DEF Failure, CallFails, CleanupFails
<1>5. CASE UNCHANGED vars
  <2>1. UNCHANGED <<cr, gw, pc, obj, existing, resolved, todo>>
    BY <1>5 DEF vars
  <2> QED
    BY <2>1, SameGateway, AppliedFrame
<1> QED
  BY <1>1, <1>2, <1>3, <1>4, <1>5 DEF Next

\* From current copies and without a lost call, the recorded hashes are those
\* of the live sandbox whenever no reconcile is running.
THEOREM HashesStandForSandbox ==
  ASSUME Undisturbed
  PROVE  Spec => []AppliedHashesAreLive
<1>1. AppliedInv => AppliedHashesAreLive
  BY DEF AppliedInv, Recorded, AppliedHashesAreLive
<1>2. TypeInv /\ FinalizerInv /\ [Next]_vars => FinalizerInv'
  BY FinalizerStep DEF Undisturbed
<1>3. TypeInv /\ FinalizerInv /\ CopyInv /\ [Next]_vars => CopyInv'
  BY CopyStep
<1>4. TypeInv /\ FinalizerInv /\ CopyInv /\ AppliedInv /\ [Next]_vars
        => AppliedInv'
  BY AppliedStep
<1> QED
  BY TypeInit, TypeStep, FinalizerInit, CopyInit, AppliedInit, <1>1, <1>2, <1>3,
     <1>4, PTL DEF Spec

\* From current copies and without a lost call, a resource that reports Ready
\* for its latest generation has its image, its volumes and only its providers
\* on the live sandbox, whatever is edited during a reconcile.
THEOREM ReadyIsApplied ==
  ASSUME Undisturbed
  PROVE  Spec => []ReadyMeansApplied
<1>1. AppliedInv => ReadyMeansApplied
  BY DEF AppliedInv
<1>2. TypeInv /\ FinalizerInv /\ [Next]_vars => FinalizerInv'
  BY FinalizerStep DEF Undisturbed
<1>3. TypeInv /\ FinalizerInv /\ CopyInv /\ [Next]_vars => CopyInv'
  BY CopyStep
<1>4. TypeInv /\ FinalizerInv /\ CopyInv /\ AppliedInv /\ [Next]_vars
        => AppliedInv'
  BY AppliedStep
<1> QED
  BY TypeInit, TypeStep, FinalizerInit, CopyInit, AppliedInit, <1>1, <1>2, <1>3,
     <1>4, PTL DEF Spec

\* The hash that a recreate found drifted is the live sandbox's.
LEMMA RecreateStep ==
  ASSUME TypeInv, FinalizerInv, CopyInv, AppliedInv,
         NEW o \in Operators, pc[o] = "delete", Live
  PROVE  ~SameImmutables(obj[o].spec, resolved[o])
<1>1. \A p \in Operators : pc[p] # "succeeded"
  BY DEF TypeInv, LocalOK, FinalizerInv
<1>2. cr.specHash = LiveFingerprint
  BY <1>1 DEF AppliedInv, Recorded
<1>3. obj[o].specHash = cr.specHash
  BY DEF CopyInv, ApplyCalls, ConvergeCalls
<1>4. obj[o].specHash # immutable_fingerprint(obj[o].spec, resolved[o])
  BY DEF AppliedInv, Established, hash_drifted
<1> QED
  BY <1>2, <1>3, <1>4 DEF LiveFingerprint, immutable_fingerprint, SameImmutables

\* From current copies and without a lost call, recreate takes a live sandbox
\* down only if it differs from the spec and policy in an immutable field.
THEOREM RecreateIsWarranted ==
  ASSUME Undisturbed
  PROVE  Spec => RecreateOnlyOnRealChange
<1>1. TypeInv /\ FinalizerInv /\ CopyInv /\ AppliedInv /\ [Next]_vars
        => [\A o \in Operators :
              (pc[o] = "delete" /\ Live /\ ~Live') =>
                ~SameImmutables(obj[o].spec, resolved[o])]_vars
  BY RecreateStep
<1>2. TypeInv /\ FinalizerInv /\ [Next]_vars => FinalizerInv'
  BY FinalizerStep DEF Undisturbed
<1>3. TypeInv /\ FinalizerInv /\ CopyInv /\ [Next]_vars => CopyInv'
  BY CopyStep
<1>4. TypeInv /\ FinalizerInv /\ CopyInv /\ AppliedInv /\ [Next]_vars
        => AppliedInv'
  BY AppliedStep
<1> QED
  BY TypeInit, TypeStep, FinalizerInit, CopyInit, AppliedInit, <1>1, <1>2, <1>3,
     <1>4, PTL DEF Spec, RecreateOnlyOnRealChange
===============================================================================
