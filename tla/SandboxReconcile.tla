--------------------------- MODULE SandboxReconcile ---------------------------
(***************************************************************************)
(* The OpenShellSandbox control loop (controllers/sandbox.rs) for one      *)
(* custom resource: the resource in the Kubernetes API (cr), the policy it *)
(* may reference, the PVCs provisioned for it, the sandbox of the same     *)
(* name on the OpenShell gateway (gw), and the operator processes that     *)
(* reconcile it, each from its own watch cache.                            *)
(*                                                                         *)
(* A reconcile is a sequence of API calls; every call is one step here, so *)
(* user edits, gateway progress, other operators, lost calls and process   *)
(* stops fall between any two of them.                                     *)
(***************************************************************************)
EXTENDS Naturals, FiniteSets

CONSTANTS
  Operators,    \* operator processes (replicas and their restarts)
  Images,       \* values of the immutable spec fields: image, env, gpu, ...
  Secs,         \* values of a policy's immutable sections: landlock, process
  Nets,         \* values of a policy's mutable sections: network, filesystem
  Providers,    \* provider names a sandbox may list
  Volumes,      \* volume names a sandbox may list
  Specs,        \* the specs a user may write
  PolicyDocs,   \* the OpenShellPolicy documents a user may write
  NonAdditive,  \* pairs <<live, wanted>> of Nets the gateway refuses in place
  Settled,      \* the phases a provisioned sandbox moves among
  MaxPolls,     \* RECREATE_POLL_ATTEMPTS
  MaxEdits,     \* bound on user actions and out-of-band changes
  MaxFaults,    \* bound on failed API calls and lost answers
  MaxStops,     \* bound on process stops
  StaleReads,   \* whether a reconcile may start from a cache that lags
  OutOfBand,    \* whether someone else detaches providers on the gateway
  Overlap,      \* whether an operator may start while another still runs
  None          \* an absent object or an unset Option

Sources == {"none", "inline", "ref", "conflict"}
Retentions == {"Retain", "Delete"}
PolicyDoc == [sec : Secs \cup {None}, net : Nets, valid : BOOLEAN]
SandboxSpec ==
  [image : Images, source : Sources, inline : PolicyDoc \cup {None},
   providers : SUBSET Providers, volumes : SUBSET Volumes,
   validVolumes : BOOLEAN, retention : Retentions]

\* A resolved policy: a document, or the absence of any policy.
NoPolicy == [sec |-> None, net |-> None, valid |-> TRUE]

\* Phases of the resource, and those the gateway reports.
Phases == {"Provisioning", "Ready", "Error", "Stopped", "Deleting"}
GatewayPhases == Phases \cup {"Starting", "Stopping", "Unknown"}
Sandbox == [image : Images, volumes : SUBSET Volumes, sec : Secs \cup {None},
            net : Nets \cup {None}, providers : SUBSET Providers,
            phase : GatewayPhases]

SpecHash == Images \X (SUBSET Volumes) \X (Secs \cup {None})
PolicyHash == {<<n>> : n \in Nets \cup {None}}

\* The custom resource: metadata, spec, and the fields of .status.
Resource == [spec : Specs, gen : Nat, deleting : BOOLEAN, fin : BOOLEAN,
             ready : BOOLEAN, specHash : SpecHash \cup {None},
             policyHash : PolicyHash \cup {None},
             phase : Phases \cup {None}, observed : Nat]

ASSUME SandboxAssumption ==
  /\ Specs \subseteq SandboxSpec
  /\ PolicyDocs \subseteq PolicyDoc
  /\ Settled \subseteq GatewayPhases \ {"Deleting"}
  /\ MaxPolls \in Nat \ {0}
  /\ MaxEdits \in Nat /\ MaxFaults \in Nat /\ MaxStops \in Nat
  /\ {StaleReads, OutOfBand, Overlap} \subseteq BOOLEAN
  /\ None \notin Resource /\ None \notin Sandbox /\ None \notin SpecHash
  /\ None \notin PolicyHash /\ None \notin PolicyDoc /\ None # NoPolicy
  /\ None \notin Nets

VARIABLES
  cr,        \* the OpenShellSandbox in the API server, or None
  policy,    \* the OpenShellPolicy a "ref" spec names, or None
  pvc,       \* per volume: the state of its PersistentVolumeClaim
  gw,        \* the sandbox on the gateway, or None
  active,    \* the operators running their controllers
  cache,     \* per operator: the watch cache's copy of cr, or None
  pc,        \* per operator: the next call of the running reconcile
  obj,       \* per operator: the copy of cr the reconcile works from
  existing,  \* per operator: the gateway state the reconcile has read
  resolved,  \* per operator: the resolved policy, None when it failed
  todo,      \* per operator: volumes or providers still to converge
  polls,     \* per operator: get_sandbox calls made waiting for a deletion
  edits, faults, stops   \* the bounds' counters

kube == <<cr, policy, pvc>>
local == <<active, cache, pc, obj, existing, resolved, todo, polls>>
budget == <<edits, faults, stops>>
vars == <<cr, policy, pvc, gw, active, cache, pc, obj, existing, resolved,
          todo, polls, edits, faults, stops>>

Init ==
  /\ cr = None /\ gw = None
  /\ policy \in PolicyDocs \cup {None}
  \* "bare": provisioned before the gateway required its admission labels
  /\ pvc \in [Volumes -> {"absent", "bare"}]
  /\ active = {}
  /\ cache = [o \in Operators |-> None]
  /\ pc = [o \in Operators |-> "idle"]
  /\ obj = [o \in Operators |-> None]
  /\ existing = [o \in Operators |-> None]
  /\ resolved = [o \in Operators |-> None]
  /\ todo = [o \in Operators |-> {}]
  /\ polls = [o \in Operators |-> 0]
  /\ edits = 0 /\ faults = 0 /\ stops = 0

-------------------------------------------------------------------------------
(***************************************************************************)
(* Pure helpers of the reconciler.                                         *)
(***************************************************************************)

\* Variants named ...Variant are plausible mistakes in the definition they
\* precede; no action uses them, the mutation runs of PROJECT.json do.
FingerprintWithoutVolumesVariant(spec, doc) == <<spec.image, {}, doc.sec>>
FingerprintOfWholePolicyVariant(spec, doc) ==
  <<spec.image, spec.volumes, <<doc.sec, doc.net>> >>

\* The hashes are assumed free of collisions: equal exactly when the hashed
\* material is.
immutable_fingerprint(spec, doc) == <<spec.image, spec.volumes, doc.sec>>
mutable_policy_fingerprint(doc) == <<doc.net>>

hash_drifted(applied, desired) == applied # None /\ applied # desired

\* resolve and select_policy_source: None stands for any resolution error.
Resolution(spec, referenced) ==
  CASE spec.source = "none" -> NoPolicy
    [] spec.source = "inline" /\ spec.inline # None /\ spec.inline.valid
         -> spec.inline
    [] spec.source = "ref" /\ referenced # None /\ referenced.valid
         -> referenced
    [] OTHER -> None

build_sandbox_create(spec, doc) ==
  [image |-> spec.image, volumes |-> spec.volumes, sec |-> doc.sec,
   net |-> doc.net, providers |-> spec.providers, phase |-> "Provisioning"]

AttachOnlyVariant(desired, current) ==
  [attach |-> desired \ current, detach |-> {}]

\* provider_delta: what must be attached and what must be detached.
provider_delta(desired, current) ==
  [attach |-> desired \ current, detach |-> current \ desired]

\* The gateway's attach and detach of a provider; both are idempotent.
attach_provider(providers, p) == providers \cup {p}
detach_provider(providers, p) == providers \ {p}

\* volumes::validate: names, mount paths and modes that the sandbox can honour.
validate(spec) == spec.validVolumes

\* What ensure_pvcs makes of a claim: it creates an absent one with the
\* admission labels (build_pvc, admission_labels) and labels an existing one,
\* which does not rescue a claim that is being deleted.
Provisioned(claim) == IF claim = "terminating" THEN claim ELSE "labelled"

\* A phase that settles, or one not known to the operator, is Provisioning.
map_phase(phase) ==
  IF phase \in {"Ready", "Error", "Stopped", "Deleting"}
    THEN phase ELSE "Provisioning"

\* What a merge patch leaves in a field the patch omits when it is unset.
Merged(patched, stored) == IF patched = None THEN stored ELSE patched

-------------------------------------------------------------------------------
(***************************************************************************)
(* The users of the cluster, the gateway and Kubernetes.                   *)
(***************************************************************************)

Edit == edits < MaxEdits /\ edits' = edits + 1 /\ UNCHANGED <<faults, stops>>

CreateResource(s) ==
  /\ Edit /\ cr = None
  /\ cr' = [spec |-> s, gen |-> 1, deleting |-> FALSE, fin |-> FALSE,
            ready |-> FALSE, specHash |-> None, policyHash |-> None,
            phase |-> None, observed |-> 0]
  /\ UNCHANGED <<policy, pvc, gw, local>>

EditResource(s) ==
  /\ Edit /\ cr # None /\ s # cr.spec
  /\ cr' = [cr EXCEPT !.spec = s, !.gen = cr.gen + 1]
  /\ UNCHANGED <<policy, pvc, gw, local>>

\* Without a finalizer the API server removes the object at once.
DeleteResource ==
  /\ Edit /\ cr # None /\ ~cr.deleting
  /\ cr' = IF cr.fin THEN [cr EXCEPT !.deleting = TRUE, !.gen = cr.gen + 1] ELSE None
  /\ UNCHANGED <<policy, pvc, gw, local>>

EditPolicy(d) ==
  /\ Edit /\ d # policy
  /\ policy' = d
  /\ UNCHANGED <<cr, pvc, gw, local>>

\* Somebody detaches a provider through the gateway, behind the operator.
DetachOutOfBand(p) ==
  /\ OutOfBand /\ Edit /\ gw # None /\ p \in gw.providers
  /\ gw' = [gw EXCEPT !.providers = @ \ {p}]
  /\ UNCHANGED <<kube, local>>

\* The gateway recomputes the phase of a sandbox that is not being deleted.
GatewaySettles(phase) ==
  /\ gw # None /\ gw.phase # "Deleting" /\ phase # gw.phase
  /\ gw' = [gw EXCEPT !.phase = phase]
  /\ UNCHANGED <<kube, local, budget>>

GatewayFinishesDelete ==
  /\ gw # None /\ gw.phase = "Deleting"
  /\ gw' = None
  /\ UNCHANGED <<kube, local, budget>>

\* A deleted PVC lingers until nothing protects it.
ClaimGone(v) ==
  /\ pvc[v] = "terminating"
  /\ pvc' = [pvc EXCEPT ![v] = "absent"]
  /\ UNCHANGED <<cr, policy, gw, local, budget>>

-------------------------------------------------------------------------------
(***************************************************************************)
(* Operator processes and their watch caches.                              *)
(***************************************************************************)

\* The reconcile of o ends, whatever its result; the next one is a new call.
Done(o) ==
  /\ pc' = [pc EXCEPT ![o] = "idle"]
  /\ obj' = [obj EXCEPT ![o] = None]
  /\ existing' = [existing EXCEPT ![o] = None]
  /\ resolved' = [resolved EXCEPT ![o] = None]
  /\ todo' = [todo EXCEPT ![o] = {}]
  /\ polls' = [polls EXCEPT ![o] = 0]

\* The controllers of o start and list the resource afresh.
StartOperator(o) ==
  /\ o \notin active
  /\ Overlap \/ active = {}
  /\ active' = active \cup {o}
  /\ cache' = [cache EXCEPT ![o] = cr]
  /\ UNCHANGED <<kube, gw, pc, obj, existing, resolved, todo, polls, budget>>

\* A crash, an eviction, or the select! of leader::run dropping the
\* controllers: the running reconcile is abandoned between two calls.
StopOperator(o) ==
  /\ o \in active /\ stops < MaxStops
  /\ stops' = stops + 1
  /\ active' = active \ {o}
  /\ cache' = [cache EXCEPT ![o] = None]
  /\ Done(o)
  /\ UNCHANGED <<kube, gw, edits, faults>>

WatchDelivers(o) ==
  /\ o \in active /\ cache[o] # cr
  /\ cache' = [cache EXCEPT ![o] = cr]
  /\ UNCHANGED <<kube, gw, active, pc, obj, existing, resolved, todo, polls,
                 budget>>

-------------------------------------------------------------------------------
(***************************************************************************)
(* One reconcile. NoFault and Fault say whether the call was answered: a   *)
(* call may fail before it takes effect (CallFails) or take effect and     *)
(* lose its answer (the second disjunct of Answered).                      *)
(***************************************************************************)

Fault == faults < MaxFaults /\ faults' = faults + 1 /\ UNCHANGED <<edits, stops>>
NoFault == UNCHANGED budget

\* A call of apply was answered, or its answer was lost and converge fails.
Answered(o, next) ==
  \/ pc' = [pc EXCEPT ![o] = next] /\ NoFault
  \/ pc' = [pc EXCEPT ![o] = "failed"] /\ Fault

\* The calls of apply whose failure is reported in the status.
ConvergeCalls ==
  {"volumes", "providers", "update", "delete", "poll", "create"}

\* A watch event, a requeue or a policy event starts a reconcile of the
\* cached object.
Triggered(o) ==
  /\ o \in active /\ pc[o] = "idle"
  /\ cache[o] # None
  /\ StaleReads \/ cache[o] = cr

\* finalizer: an object without it gets it, and the patch triggers the next
\* reconcile.
AddFinalizer(o) ==
  /\ Triggered(o) /\ ~cache[o].fin /\ ~cache[o].deleting
  /\ cr # None /\ ~cr.fin
  /\ cr' = [cr EXCEPT !.fin = TRUE]
  /\ UNCHANGED <<policy, pvc, gw, local, budget>>

StartApplyVariant(o) ==
  /\ Triggered(o) /\ ~cache[o].deleting
  /\ obj' = [obj EXCEPT ![o] = cache[o]]
  /\ pc' = [pc EXCEPT ![o] = "volumes"]
  /\ todo' = [todo EXCEPT ![o] = cache[o].spec.volumes]
  /\ UNCHANGED <<kube, gw, active, cache, existing, resolved, polls, budget>>

StartApply(o) ==
  /\ Triggered(o) /\ cache[o].fin /\ ~cache[o].deleting
  /\ obj' = [obj EXCEPT ![o] = cache[o]]
  /\ LET spec == cache[o].spec
     IN  IF validate(spec)
           THEN /\ pc' = [pc EXCEPT ![o] = "volumes"]
                /\ todo' = [todo EXCEPT ![o] = spec.volumes]
           ELSE /\ pc' = [pc EXCEPT ![o] = "failed"]
                /\ UNCHANGED todo
  /\ UNCHANGED <<kube, gw, active, cache, existing, resolved, polls, budget>>

StartCleanupVariant(o) ==
  /\ Triggered(o) /\ cache[o].fin /\ cache[o].deleting
  /\ obj' = [obj EXCEPT ![o] = cache[o]]
  /\ pc' = [pc EXCEPT ![o] = IF cache[o].spec.retention = "Delete"
                               THEN "dropVolumes" ELSE "cleanup"]
  /\ UNCHANGED <<kube, gw, active, cache, existing, resolved, todo, polls,
                 budget>>

StartCleanup(o) ==
  /\ Triggered(o) /\ cache[o].fin /\ cache[o].deleting
  /\ obj' = [obj EXCEPT ![o] = cache[o]]
  /\ pc' = [pc EXCEPT ![o] = "cleanup"]
  /\ UNCHANGED <<kube, gw, active, cache, existing, resolved, todo, polls,
                 budget>>

\* A call of converge fails without effect.
CallFails(o) ==
  /\ pc[o] \in ConvergeCalls
  /\ Fault
  /\ pc' = [pc EXCEPT ![o] = "failed"]
  /\ UNCHANGED <<kube, gw, active, cache, obj, existing, resolved, todo, polls>>

EnsureVolumeVariant(o) ==
  /\ pc[o] = "volumes"
  /\ \E v \in todo[o] :
       /\ pvc' = [pvc EXCEPT ![v] = IF @ = "absent" THEN "labelled" ELSE @]
       /\ todo' = [todo EXCEPT ![o] = @ \ {v}]
  /\ Answered(o, "volumes")
  /\ UNCHANGED <<cr, policy, gw, active, cache, obj, existing, resolved, polls>>

\* ensure_pvcs, one volume.
EnsureVolume(o) ==
  /\ pc[o] = "volumes"
  /\ \E v \in todo[o] :
       /\ pvc' = [pvc EXCEPT ![v] = Provisioned(@)]
       /\ todo' = [todo EXCEPT ![o] = @ \ {v}]
  /\ Answered(o, "volumes")
  /\ UNCHANGED <<cr, policy, gw, active, cache, obj, existing, resolved, polls>>

GetSandbox(o) ==
  /\ pc[o] = "volumes" /\ todo[o] = {}
  /\ existing' = [existing EXCEPT ![o] = gw]
  /\ pc' = [pc EXCEPT ![o] = "resolve"]
  /\ NoFault
  /\ UNCHANGED <<kube, gw, active, cache, obj, resolved, todo, polls>>

ConvergeStepVariant(o, doc) ==
  IF existing[o] = None
    THEN IF doc = None THEN "failed" ELSE "create"
    ELSE IF hash_drifted(obj[o].specHash,
                         immutable_fingerprint(obj[o].spec,
                           IF doc = None THEN NoPolicy ELSE doc))
           THEN "delete"
           ELSE "providers"

\* What converge does next, once the policy is resolved to doc (None: not).
ConvergeStep(o, doc) ==
  IF existing[o] = None
    THEN IF doc = None THEN "failed" ELSE "create"
    ELSE IF /\ doc # None
            /\ hash_drifted(obj[o].specHash,
                            immutable_fingerprint(obj[o].spec, doc))
           THEN "delete"
           ELSE "providers"

\* resolve; a failed read of the policy is a resolution error like the others.
ResolvePolicy(o) ==
  /\ pc[o] = "resolve"
  /\ \E doc \in {Resolution(obj[o].spec, policy), None} :
       /\ IF doc = Resolution(obj[o].spec, policy)
            THEN NoFault
            ELSE obj[o].spec.source = "ref" /\ Fault
       /\ resolved' = [resolved EXCEPT ![o] = doc]
       /\ pc' = [pc EXCEPT ![o] = ConvergeStep(o, doc)]
       /\ todo' = [todo EXCEPT ![o] =
            IF ConvergeStep(o, doc) # "providers" THEN {}
            ELSE LET d == provider_delta(obj[o].spec.providers,
                                         existing[o].providers)
                 IN  d.attach \cup d.detach]
  /\ UNCHANGED <<kube, gw, active, cache, obj, existing, polls>>

\* converge_providers: every attach comes before the first detach. The
\* gateway refuses both for a sandbox that is gone.
ConvergeProvider(o) ==
  /\ pc[o] = "providers"
  /\ LET wanted == obj[o].spec.providers
     IN  \E p \in todo[o] :
           /\ p \in wanted \/ todo[o] \cap wanted = {}
           /\ todo' = [todo EXCEPT ![o] = @ \ {p}]
           /\ IF gw = None
                THEN /\ pc' = [pc EXCEPT ![o] = "failed"]
                     /\ NoFault /\ UNCHANGED gw
                ELSE /\ gw' = [gw EXCEPT !.providers =
                                 IF p \in wanted THEN attach_provider(@, p)
                                 ELSE detach_provider(@, p)]
                     /\ Answered(o, "providers")
  /\ UNCHANGED <<kube, active, cache, obj, existing, resolved, polls>>

\* The rest of converge after the providers: fail on an unresolved policy,
\* update the policy in place if it drifted, or succeed.
ProvidersConverged(o) ==
  /\ pc[o] = "providers" /\ todo[o] = {}
  /\ pc' = [pc EXCEPT ![o] =
       IF resolved[o] = None THEN "failed"
       ELSE IF /\ resolved[o] # NoPolicy
               /\ hash_drifted(obj[o].policyHash,
                               mutable_policy_fingerprint(resolved[o]))
              THEN "update" ELSE "succeeded"]
  /\ UNCHANGED <<kube, gw, active, cache, obj, existing, resolved, todo, polls,
                 budget>>

UpdatePolicyVariant(o) ==
  /\ pc[o] = "update"
  /\ gw' = IF gw = None \/ <<gw.net, resolved[o].net>> \in NonAdditive
             THEN gw ELSE [gw EXCEPT !.net = resolved[o].net]
  /\ Answered(o, "succeeded")
  /\ UNCHANGED <<kube, active, cache, obj, existing, resolved, todo, polls>>

\* update_policy_if_drifted: the gateway refuses a non-additive change.
UpdatePolicy(o) ==
  /\ pc[o] = "update"
  /\ IF gw = None \/ <<gw.net, resolved[o].net>> \in NonAdditive
       THEN /\ pc' = [pc EXCEPT ![o] = "failed"]
            /\ NoFault /\ UNCHANGED gw
       ELSE /\ gw' = [gw EXCEPT !.net = resolved[o].net]
            /\ Answered(o, "succeeded")
  /\ UNCHANGED <<kube, active, cache, obj, existing, resolved, todo, polls>>

\* What delete_sandbox does to the gateway: nothing if the sandbox is absent.
delete_sandbox == IF gw = None THEN None ELSE [gw EXCEPT !.phase = "Deleting"]

\* recreate, its delete.
RecreateDelete(o) ==
  /\ pc[o] = "delete"
  /\ gw' = delete_sandbox
  /\ Answered(o, "poll")
  /\ UNCHANGED <<kube, active, cache, obj, existing, resolved, todo, polls>>

RecreatePollVariant(o) ==
  /\ pc[o] = "poll"
  /\ pc' = [pc EXCEPT ![o] = IF gw = None THEN "create" ELSE "poll"]
  /\ polls' = [polls EXCEPT ![o] = IF gw = None THEN @ ELSE @ + 1]
  /\ NoFault
  /\ UNCHANGED <<kube, gw, active, cache, obj, existing, resolved, todo>>

\* recreate, one turn of its loop; RecreateTimeout after MaxPolls turns.
RecreatePoll(o) ==
  /\ pc[o] = "poll"
  /\ IF gw = None
       THEN /\ pc' = [pc EXCEPT ![o] = "create"]
            /\ UNCHANGED polls
       ELSE /\ polls' = [polls EXCEPT ![o] = @ + 1]
            /\ pc' = [pc EXCEPT ![o] =
                        IF polls[o] + 1 = MaxPolls THEN "failed" ELSE "poll"]
  /\ NoFault
  /\ UNCHANGED <<kube, gw, active, cache, obj, existing, resolved, todo>>

\* create: refused when the name is taken.
CreateSandbox(o) ==
  /\ pc[o] = "create"
  /\ IF gw = None
       THEN /\ gw' = build_sandbox_create(obj[o].spec, resolved[o])
            /\ existing' = [existing EXCEPT ![o] = gw']
            /\ Answered(o, "succeeded")
       ELSE /\ pc' = [pc EXCEPT ![o] = "failed"]
            /\ NoFault /\ UNCHANGED <<gw, existing>>
  /\ UNCHANGED <<kube, active, cache, obj, resolved, todo, polls>>

\* The resource after the status patch of a successful reconcile of o.
SuccessPatched(o) ==
  [cr EXCEPT
     !.ready = TRUE, !.observed = obj[o].gen,
     !.phase = map_phase(existing[o].phase),
     !.specHash = immutable_fingerprint(obj[o].spec, resolved[o]),
     !.policyHash = mutable_policy_fingerprint(resolved[o])]

\* The resource after the status patch of a failed one: the phase and the
\* hashes are those of the copy the reconcile started from.
FailurePatched(o) ==
  [cr EXCEPT
     !.ready = FALSE, !.observed = obj[o].gen,
     !.phase = Merged(obj[o].phase, cr.phase),
     !.specHash = Merged(obj[o].specHash, cr.specHash),
     !.policyHash = Merged(obj[o].policyHash, cr.policyHash)]

\* apply on success: one merge patch of the whole status. Its failure is the
\* reconcile's error, and nothing is written.
RecordSuccess(o) ==
  /\ pc[o] = "succeeded"
  /\ \/ /\ cr # None
        /\ cr' = SuccessPatched(o)
        /\ NoFault \/ Fault
     \/ cr = None /\ UNCHANGED cr /\ NoFault
     \/ UNCHANGED cr /\ Fault
  /\ Done(o)
  /\ UNCHANGED <<policy, pvc, gw, active, cache>>

\* apply on failure; an error of this patch is ignored.
RecordFailure(o) ==
  /\ pc[o] = "failed"
  /\ \/ /\ cr # None
        /\ cr' = FailurePatched(o)
        /\ NoFault
     \/ cr = None /\ UNCHANGED cr /\ NoFault
     \/ UNCHANGED cr /\ Fault
  /\ Done(o)
  /\ UNCHANGED <<policy, pvc, gw, active, cache>>

CleanupMissingVariant(o) ==
  /\ pc[o] = "cleanup"
  /\ gw' = delete_sandbox
  /\ \/ /\ gw # None
        /\ pc' = [pc EXCEPT ![o] = "release"]
        /\ UNCHANGED <<obj, existing, resolved, todo, polls>>
     \/ gw = None /\ Done(o)
  /\ NoFault
  /\ UNCHANGED <<kube, active, cache>>

CleanupSkipVariant(o) ==
  /\ pc[o] = "cleanup"
  /\ pc' = [pc EXCEPT ![o] = "release"]
  /\ UNCHANGED <<kube, gw, active, cache, obj, existing, resolved, todo, polls,
                 budget>>

\* cleanup, its delete; then the volumes, if they are not retained.
CleanupDelete(o) ==
  /\ pc[o] = "cleanup"
  /\ gw' = delete_sandbox
  /\ \/ /\ pc' = [pc EXCEPT ![o] = IF obj[o].spec.retention = "Delete"
                                     THEN "dropVolumes" ELSE "release"]
        /\ NoFault
        /\ UNCHANGED <<obj, existing, resolved, todo, polls>>
     \/ Done(o) /\ Fault
  /\ UNCHANGED <<kube, active, cache>>

\* delete_provisioned_volumes: every claim labelled with the sandbox's name.
DropVolumes(o) ==
  /\ pc[o] = "dropVolumes"
  /\ pvc' = [v \in Volumes |->
               IF pvc[v] = "absent" THEN "absent" ELSE "terminating"]
  /\ \/ /\ pc' = [pc EXCEPT ![o] = "release"]
        /\ NoFault
        /\ UNCHANGED <<obj, existing, resolved, todo, polls>>
     \/ Done(o) /\ Fault
  /\ UNCHANGED <<cr, policy, gw, active, cache>>

\* A call of cleanup, or the removal of the finalizer, fails without effect.
CleanupFails(o) ==
  /\ pc[o] \in {"cleanup", "dropVolumes", "release"}
  /\ Fault
  /\ Done(o)
  /\ UNCHANGED <<kube, gw, active, cache>>

\* finalizer: its JSON patch first tests that the finalizer is there. With it
\* the API server removes an object being deleted.
ReleaseFinalizer(o) ==
  /\ pc[o] = "release"
  /\ IF cr # None /\ cr.fin
       THEN /\ cr' = IF cr.deleting THEN None ELSE [cr EXCEPT !.fin = FALSE]
            /\ NoFault \/ Fault
       ELSE UNCHANGED cr /\ NoFault
  /\ Done(o)
  /\ UNCHANGED <<policy, pvc, gw, active, cache>>

-------------------------------------------------------------------------------
Reconcile(o) ==
  \/ AddFinalizer(o) \/ StartApply(o) \/ StartCleanup(o)
  \/ EnsureVolume(o) \/ GetSandbox(o) \/ ResolvePolicy(o)
  \/ ConvergeProvider(o) \/ ProvidersConverged(o) \/ UpdatePolicy(o)
  \/ RecreateDelete(o) \/ RecreatePoll(o) \/ CreateSandbox(o)
  \/ RecordSuccess(o) \/ RecordFailure(o)
  \/ CleanupDelete(o) \/ DropVolumes(o) \/ ReleaseFinalizer(o)

Process(o) ==
  StartOperator(o) \/ StopOperator(o) \/ WatchDelivers(o)

Failure(o) == CallFails(o) \/ CleanupFails(o)

Environment ==
  \/ \E s \in Specs : CreateResource(s) \/ EditResource(s)
  \/ DeleteResource
  \/ \E d \in PolicyDocs \cup {None} : EditPolicy(d)
  \/ \E p \in Providers : DetachOutOfBand(p)
  \/ \E phase \in Settled : GatewaySettles(phase)
  \/ GatewayFinishesDelete
  \/ \E v \in Volumes : ClaimGone(v)

Next ==
  \/ Environment
  \/ \E o \in Operators : Reconcile(o) \/ Process(o) \/ Failure(o)

Spec == Init /\ [][Next]_vars

\* Controllers requeue every object, watches deliver, a stopped process is
\* restarted, and the gateway finishes what it accepted. Nothing obliges a
\* user, a fault or a stop to happen.
Fairness ==
  /\ \A o \in Operators :
       /\ WF_vars(Reconcile(o))
       /\ WF_vars(WatchDelivers(o))
       /\ WF_vars(StartOperator(o))
  /\ WF_vars(GatewayFinishesDelete)

FairSpec == Spec /\ Fairness
-------------------------------------------------------------------------------
(***************************************************************************)
(* Properties.                                                             *)
(***************************************************************************)

TypeOK ==
  /\ cr \in Resource \cup {None}
  /\ policy \in PolicyDocs \cup {None}
  /\ pvc \in [Volumes -> {"absent", "bare", "labelled", "terminating"}]
  /\ gw \in Sandbox \cup {None}
  /\ active \subseteq Operators
  /\ cache \in [Operators -> Resource \cup {None}]
  /\ pc \in [Operators -> ConvergeCalls \cup
       {"idle", "resolve", "succeeded", "failed",
        "cleanup", "dropVolumes", "release"}]
  /\ obj \in [Operators -> Resource \cup {None}]
  /\ existing \in [Operators -> Sandbox \cup {None}]
  /\ resolved \in [Operators -> PolicyDoc \cup {NoPolicy, None}]
  /\ todo \in [Operators -> SUBSET (Volumes \cup Providers)]
  /\ polls \in [Operators -> 0..MaxPolls]
  /\ edits \in 0..MaxEdits /\ faults \in 0..MaxFaults /\ stops \in 0..MaxStops

\* What the local state of a reconcile holds at each of its calls: the object
\* it works from, a resolved policy before it is sent, a gateway state before
\* it is diffed or reported, and a poll count below the limit. It is what makes
\* the type invariant inductive.
LocalOK ==
  \A o \in Operators :
    /\ cache[o] # None => o \in active
    /\ pc[o] # "idle" => o \in active /\ obj[o] # None
    /\ pc[o] \in {"delete", "poll", "create", "update", "succeeded"}
         => resolved[o] # None
    /\ pc[o] \in {"providers", "update", "succeeded"} => existing[o] # None
    /\ pc[o] = "poll" => polls[o] < MaxPolls
    /\ pc[o] \notin {"poll", "create", "succeeded", "failed"} => polls[o] = 0

\* A sandbox that runs or will run: the gateway has not accepted its deletion.
Live == gw # None /\ gw.phase # "Deleting"

LiveFingerprint == <<gw.image, gw.volumes, gw.sec>>

\* The gateway's sandbox has the immutable fields of this spec and policy.
SameImmutables(spec, doc) ==
  gw.image = spec.image /\ gw.volumes = spec.volumes /\ gw.sec = doc.sec

\* The finalizer guards the sandbox: as long as one is live on the gateway, its
\* resource exists and holds the finalizer, so the resource cannot disappear
\* before cleanup deleted the sandbox (docs/architecture.md:108-110).
SandboxHasFinalizedResource == Live => cr # None /\ cr.fin

\* The resource holds the finalizer; or nothing about it forbids a cleanup.
Held == cr # None /\ cr.fin
Releasable == cr = None \/ cr.deleting \/ ~cr.fin

ApplyCalls == ConvergeCalls \cup {"resolve", "succeeded", "failed"}
CleanupCalls == {"cleanup", "dropVolumes", "release"}

\* Why the finalizer guards the sandbox when operators do not overlap: at most
\* one is running, and what its cache and its running reconcile believe of the
\* finalizer, however old, still binds the API server. A cached finalizer on an
\* object not being deleted is still there, because only the cleanup of this
\* very operator removes it, after having seen the deletion.
FinalizerInv ==
  /\ \A o, p \in active : o = p
  /\ \A o \in Operators :
       /\ (cache[o] # None /\ cache[o].fin /\ ~cache[o].deleting) => Held
       /\ (cache[o] # None /\ cache[o].deleting) => Releasable
       /\ pc[o] \in ApplyCalls => Held
       /\ pc[o] \in CleanupCalls =>
            /\ Releasable
            /\ cache[o] = None \/ cache[o].deleting \/ ~cache[o].fin
       /\ pc[o] \in {"dropVolumes", "release"} => ~Live
  /\ Live => Held

\* A resource that reports Ready=True for its latest generation is backed by a
\* sandbox with the image and volumes of that very spec, and no provider that
\* the spec does not list (what a GitOps health check reads from apply's
\* status).
ReadyMeansApplied ==
  (cr # None /\ cr.ready /\ cr.observed = cr.gen /\ Live) =>
    /\ gw.image = cr.spec.image
    /\ gw.volumes = cr.spec.volumes
    /\ gw.providers \subseteq cr.spec.providers

\* Between reconciles the recorded hashes are those of what the live sandbox
\* was last given ("last applied to the gateway sandbox", crd.rs:232-240), so
\* that comparing against them instead of the gateway finds every drift. A
\* removed policy is recorded without a call, as converge documents.
AppliedHashesAreLive ==
  (cr # None /\ Live /\ \A o \in Operators : pc[o] = "idle") =>
    /\ cr.specHash # None => cr.specHash = LiveFingerprint
    /\ cr.policyHash \notin {None, mutable_policy_fingerprint(NoPolicy)}
         => cr.policyHash = <<gw.net>>

\* recreate deletes a live sandbox only when it differs, in an immutable field,
\* from what the reconciled spec and policy ask for.
RecreateOnlyOnRealChange ==
  [][\A o \in Operators :
       (pc[o] = "delete" /\ Live /\ ~Live') =>
         ~SameImmutables(obj[o].spec, resolved[o])]_vars

\* A live sandbox is torn down for one of two reasons only: its resource, as
\* the API server has it now, is being deleted, or a reconcile recreates it
\* with a policy that resolved. An unresolved policy, a lost answer, a restart
\* or a lagging cache never takes a running sandbox down.
TearDownIsJustified ==
  [][(Live /\ ~Live') =>
       /\ cr # None
       /\ cr.deleting \/ \E o \in Operators :
                            pc[o] = "delete" /\ resolved[o] # None]_vars

\* Every volume a live sandbox mounts has its claim, admitted by the gateway:
\* ensure_pvcs runs before every create and nothing undoes it meanwhile.
MountsProvisioned == Live => \A v \in gw.volumes : pvc[v] = "labelled"

\* Claims are deleted only once the gateway gave up the sandbox that mounts
\* them: cleanup deletes the sandbox first, and no other reconcile brings one
\* back in between.
VolumesDropAfterSandbox ==
  [][(\E v \in Volumes : pvc[v] # "terminating" /\ pvc'[v] = "terminating")
       => ~Live]_vars

\* The resource and the gateway agree, and the status says so: both gone; or a
\* live sandbox of this spec and policy, reported ready; or a spec or policy
\* that cannot be applied, reported not ready.
Agreed ==
  \/ cr = None /\ gw = None
  \/ /\ cr # None /\ ~cr.deleting /\ cr.observed = cr.gen
     /\ LET doc == Resolution(cr.spec, policy)
        IN  IF ~validate(cr.spec) \/ doc = None
              THEN ~cr.ready
              ELSE \/ /\ cr.ready /\ Live
                      /\ SameImmutables(cr.spec, doc)
                      /\ gw.providers = cr.spec.providers
                      /\ doc = NoPolicy \/ gw.net = doc.net
                   \/ /\ ~cr.ready /\ Live
                      /\ <<gw.net, doc.net>> \in NonAdditive

\* Once the users stop editing, the operator brings resource and gateway to
\* agreement and keeps them there (converge).
EditsConverge == <>[]Agreed

\* A deleted resource eventually disappears: cleanup is retried to its end
\* through faults, restarts and a sandbox that is already gone.
DeletionCompletes == (cr # None /\ cr.deleting) ~> (cr = None)

\* What the gateway holds for a resource that is gone goes away too.
NoLeak == (cr = None /\ gw # None) ~> (gw = None \/ cr # None)

-------------------------------------------------------------------------------
(***************************************************************************)
(* Inductive invariants of the proofs.                                     *)
(***************************************************************************)

\* Why the mounts are provisioned when no sandbox asks for its claims to be
\* deleted: a claim, once labelled, stays so, and a reconcile that may create
\* the sandbox has labelled every claim of the spec it will create it from.
ClaimsLabelled(vs) == \A v \in vs : pvc[v] = "labelled"
ClaimsInv ==
  /\ \A v \in Volumes : pvc[v] # "terminating"
  /\ \A o \in Operators :
       /\ pc[o] # "dropVolumes"
       /\ pc[o] = "volumes" => ClaimsLabelled(obj[o].spec.volumes \ todo[o])
       /\ pc[o] \in {"resolve", "delete", "poll", "create"}
            => ClaimsLabelled(obj[o].spec.volumes)
  /\ gw # None => ClaimsLabelled(gw.volumes)

\* The status records what the live sandbox was given; a removed policy is
\* recorded although the sandbox keeps the one it has.
Recorded ==
  /\ cr.specHash = LiveFingerprint
  /\ cr.policyHash \in {<<gw.net>>, mutable_policy_fingerprint(NoPolicy)}

\* The copy a reconcile works from has the hashes of the resource, and its spec
\* unless the resource was edited since; the status never speaks of a
\* generation later than the copy's.
CopyInv ==
  /\ cr # None => cr.observed <= cr.gen
  /\ \A o \in Operators : pc[o] \in ApplyCalls =>
       /\ obj[o].specHash = cr.specHash /\ obj[o].policyHash = cr.policyHash
       /\ cr.observed <= obj[o].gen /\ obj[o].gen <= cr.gen
       /\ obj[o].gen = cr.gen => obj[o].spec = cr.spec

\* What the reconcile of o has established at each of its calls: whether the
\* spec drifted from the recorded hash, that nothing is live where it is about
\* to create, and which providers of the live sandbox are still to detach.
Established(o) ==
  LET wanted == immutable_fingerprint(obj[o].spec, resolved[o])
  IN  /\ (pc[o] \in {"providers", "update"} /\ resolved[o] # None)
           => ~hash_drifted(obj[o].specHash, wanted)
      /\ pc[o] = "delete" => hash_drifted(obj[o].specHash, wanted)
      /\ pc[o] = "poll" => ~Live
      /\ pc[o] = "create" => gw = None
      /\ (pc[o] = "resolve" /\ existing[o] = None) => gw = None
      /\ (pc[o] = "resolve" /\ Live)
           => gw.providers \subseteq existing[o].providers
      /\ (pc[o] = "providers" /\ Live)
           => gw.providers \subseteq obj[o].spec.providers \cup todo[o]
      /\ (pc[o] = "update" /\ Live)
           => gw.providers \subseteq obj[o].spec.providers
      /\ (pc[o] = "succeeded" /\ Live) =>
           /\ SameImmutables(obj[o].spec, resolved[o])
           /\ resolved[o] = NoPolicy \/ gw.net = resolved[o].net
           /\ gw.providers \subseteq obj[o].spec.providers

\* Why the recorded hashes can stand for the gateway when reconciles read
\* current copies, one operator runs and no call is lost: between the calls of
\* a reconcile the status still records the live sandbox, until the reconcile
\* has succeeded and is about to record what it has just given it.
AppliedInv ==
  /\ \A o \in Operators : Established(o)
  /\ (Live /\ \A o \in Operators : pc[o] # "succeeded") => Recorded
  /\ ReadyMeansApplied
===============================================================================
