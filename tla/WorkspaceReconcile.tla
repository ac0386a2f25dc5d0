-------------------------- MODULE WorkspaceReconcile --------------------------
(***************************************************************************)
(* The OpenShellWorkspace control loop (controllers/workspace.rs) for one  *)
(* cluster-scoped resource: the resource (ws), the workspace of the same   *)
(* name on the gateway (gws) with its members, and the sandbox and         *)
(* provider resources that reference it (refs), whose own controllers put  *)
(* an object into the gateway workspace (objects).                         *)
(*                                                                         *)
(* One operator process reconciles from a watch cache that may lag; every  *)
(* API call is one step, so edits, new references, lost calls and a stop   *)
(* fall between any two of them.                                           *)
(***************************************************************************)
EXTENDS Naturals, FiniteSets

CONSTANTS
  Subjects,     \* OIDC subjects that may be members
  Sandboxes,    \* OpenShellSandbox resources that may name the workspace
  Providers,    \* OpenShellProvider resources that may name it
  IsDefault,    \* whether this is the gateway's built-in workspace
  MaxEdits,     \* bound on user actions and out-of-band changes
  MaxFaults,    \* bound on failed API calls and lost answers
  MaxStops,     \* bound on process stops
  OutOfBand,    \* whether members also change behind the operator
  None          \* an absent object or an unset Option

Roles == {"User", "Admin"}
Refs == Sandboxes \cup Providers
Members == [Subjects -> Roles \cup {None}]
\* spec.members: None leaves membership to others.
MemberSpecs == Members \cup {None}
WorkspacePhases == {"Active", "Terminating"}
GatewayPhases == WorkspacePhases \cup {"Unknown"}
Resource == [members : MemberSpecs, gen : Nat, deleting : BOOLEAN,
             fin : BOOLEAN, ready : BOOLEAN, observed : Nat,
             phase : WorkspacePhases \cup {None}]
\* closing: the gateway accepted the deletion; Terminating without it is a
\* workspace whose deletion was refused, which stays so.
Workspace == [members : Members, phase : GatewayPhases, closing : BOOLEAN]

ASSUME WorkspaceAssumption ==
  /\ MaxEdits \in Nat /\ MaxFaults \in Nat /\ MaxStops \in Nat
  /\ {IsDefault, OutOfBand} \subseteq BOOLEAN
  /\ None \notin Resource /\ None \notin Workspace
  /\ None \notin Members /\ None \notin Roles /\ None \notin GatewayPhases
  /\ Sandboxes \cap Providers = {}

VARIABLES
  ws,        \* the OpenShellWorkspace in the API server, or None
  gws,       \* the workspace on the gateway, or None
  refs,      \* per reference: "none", "declared" or "deleting"
  objects,   \* per reference: its object on the gateway
  cache,     \* the watch cache's copy of ws, or None
  pc,        \* the next call of the running reconcile
  obj,       \* the copy of ws it works from
  state,     \* the phase of the gateway workspace it has read, or None
  removes,   \* members still to remove
  adds,      \* members still to add
  counted,   \* whether count_referencing found a reference so far
  standing,  \* references declared ever since this cleanup started
  edits, faults, stops   \* the bounds' counters

user == <<ws, refs>>
gateway == <<gws, objects>>
local == <<cache, pc, obj, state, removes, adds, counted, standing>>
budget == <<edits, faults, stops>>
vars == <<ws, gws, refs, objects, cache, pc, obj, state, removes, adds,
          counted, standing, edits, faults, stops>>

FreshWorkspace ==
  [members |-> [s \in Subjects |-> None], phase |-> "Active", closing |-> FALSE]

Init ==
  /\ ws = None
  \* a workspace may already exist, made by hand or built in
  /\ gws \in {None, FreshWorkspace, [FreshWorkspace EXCEPT !.phase = "Unknown"]}
  /\ IsDefault => gws # None
  /\ refs = [r \in Refs |-> "none"]
  /\ objects = [r \in Refs |-> "absent"]
  /\ cache = None /\ pc = "idle" /\ obj = None /\ state = None
  /\ removes = {} /\ adds = {} /\ counted = FALSE /\ standing = {}
  /\ edits = 0 /\ faults = 0 /\ stops = 0

-------------------------------------------------------------------------------
\* Pure helpers. A ...Variant is a plausible mistake in the definition after
\* it, used only by the mutation runs of PROJECT.json.

KeepsRolesVariant(desired, current) ==
  [removes |-> {s \in Subjects : current[s] # None /\ desired[s] = None},
   adds |-> {s \in Subjects : desired[s] # None /\ current[s] # desired[s]}]
AddsMissingVariant(desired, current) ==
  [removes |-> {s \in Subjects : current[s] # None /\ desired[s] # current[s]},
   adds |-> {s \in Subjects : desired[s] # None /\ current[s] = None}]
\* A changed role is both removed and added: the gateway's add is create-only.
member_delta(desired, current) ==
  [removes |-> {s \in Subjects : current[s] # None /\ desired[s] # current[s]},
   adds |-> {s \in Subjects : desired[s] # None /\ current[s] # desired[s]}]

MirrorsPhaseVariant(phase) == phase
\* A phase the operator does not know is left unset.
map_phase(phase) == IF phase \in WorkspacePhases THEN phase ELSE None

\* The gateway takes new objects and members into the workspace.
Usable == gws # None /\ gws.phase # "Terminating"

\* The references that a list of these resources finds; one being deleted is
\* still listed.
Referencing(kind) == {r \in kind : refs[r] # "none"}

-------------------------------------------------------------------------------
\* The users, the controllers of the references, and the gateway.

Edit == edits < MaxEdits /\ edits' = edits + 1 /\ UNCHANGED <<faults, stops>>

CreateWorkspace(m) ==
  /\ Edit /\ ws = None
  /\ ws' = [members |-> m, gen |-> 1, deleting |-> FALSE, fin |-> FALSE,
            ready |-> FALSE, observed |-> 0, phase |-> None]
  /\ UNCHANGED <<refs, gateway, local>>

EditMembers(m) ==
  /\ Edit /\ ws # None /\ m # ws.members
  /\ ws' = [ws EXCEPT !.members = m, !.gen = ws.gen + 1]
  /\ UNCHANGED <<refs, gateway, local>>

DeleteWorkspace ==
  /\ Edit /\ ws # None /\ ~ws.deleting
  /\ ws' = IF ws.fin THEN [ws EXCEPT !.deleting = TRUE, !.gen = ws.gen + 1] ELSE None
  /\ UNCHANGED <<refs, gateway, local>>

DeclareRef(r) ==
  /\ Edit /\ refs[r] = "none"
  /\ refs' = [refs EXCEPT ![r] = "declared"]
  /\ UNCHANGED <<ws, gateway, local>>

DeleteRef(r) ==
  /\ refs[r] = "declared"
  /\ refs' = [refs EXCEPT ![r] = "deleting"]
  /\ UNCHANGED <<ws, gateway, local, budget>>

\* The reference's controller creates its object in a usable workspace.
RefApplied(r) ==
  /\ refs[r] = "declared" /\ objects[r] = "absent"
  /\ Usable
  /\ objects' = [objects EXCEPT ![r] = "live"]
  /\ UNCHANGED <<user, gws, local, budget>>

\* It deletes the object and releases the resource: a sandbox lingers on the
\* gateway after its delete was accepted, a provider does not.
RefCleanedUp(r) ==
  /\ refs[r] = "deleting"
  /\ refs' = [refs EXCEPT ![r] = "none"]
  /\ objects' = [objects EXCEPT ![r] =
       IF @ = "live" /\ r \in Sandboxes THEN "leaving" ELSE "absent"]
  /\ standing' = standing \ {r}
  /\ UNCHANGED <<ws, gws, cache, pc, obj, state, removes, adds, counted, budget>>

ObjectGone(r) ==
  /\ objects[r] = "leaving"
  /\ objects' = [objects EXCEPT ![r] = "absent"]
  /\ UNCHANGED <<user, gws, local, budget>>

PhaseSettles ==
  /\ gws # None /\ gws.phase = "Unknown"
  /\ gws' = [gws EXCEPT !.phase = "Active"]
  /\ UNCHANGED <<user, objects, local, budget>>

WorkspaceGone ==
  /\ gws # None /\ gws.closing
  /\ gws' = None
  /\ UNCHANGED <<user, objects, local, budget>>

\* Somebody grants or revokes a role through the gateway.
MemberChanges(s, role) ==
  /\ OutOfBand /\ Edit /\ gws # None /\ gws.members[s] # role
  /\ gws' = [gws EXCEPT !.members[s] = role]
  /\ UNCHANGED <<user, objects, local>>

\* Somebody makes the workspace before the operator does.
MadeOutOfBand ==
  /\ OutOfBand /\ Edit /\ gws = None
  /\ gws' = FreshWorkspace
  /\ UNCHANGED <<user, objects, local>>

-------------------------------------------------------------------------------
\* The operator process.

Fault == faults < MaxFaults /\ faults' = faults + 1 /\ UNCHANGED <<edits, stops>>
NoFault == UNCHANGED budget

\* The reconcile ends, whatever its result.
Done ==
  /\ pc' = "idle" /\ obj' = None /\ state' = None
  /\ removes' = {} /\ adds' = {} /\ counted' = FALSE /\ standing' = {}

WatchDelivers ==
  /\ cache # ws
  /\ cache' = ws
  /\ UNCHANGED <<user, gateway, pc, obj, state, removes, adds, counted,
                 standing, budget>>

\* The process stops between two calls, and its successor lists afresh.
Restart ==
  /\ stops < MaxStops /\ stops' = stops + 1
  /\ cache' = ws
  /\ Done
  /\ UNCHANGED <<user, gateway, edits, faults>>

\* A call was answered, or its answer was lost and converge fails.
Answered(next) == \/ pc' = next /\ NoFault
                  \/ pc' = "failed" /\ Fault

AddFinalizer ==
  /\ pc = "idle" /\ cache # None /\ ~cache.fin /\ ~cache.deleting
  /\ ws # None /\ ~ws.fin
  /\ ws' = [ws EXCEPT !.fin = TRUE]
  /\ UNCHANGED <<refs, gateway, local, budget>>

StartApply ==
  /\ pc = "idle" /\ cache # None /\ cache.fin /\ ~cache.deleting
  /\ obj' = cache /\ pc' = "get"
  /\ UNCHANGED <<user, gateway, cache, state, removes, adds, counted, standing,
                 budget>>

\* Members are converged only when the spec lists them.
AfterGet == IF obj.members = None THEN "succeeded" ELSE "list"

\* converge, its get.
GetWorkspace ==
  /\ pc = "get"
  /\ \/ /\ gws = None /\ pc' = "create" /\ UNCHANGED state
     \/ /\ gws # None /\ state' = gws.phase
        /\ pc' = AfterGet
  /\ NoFault
  /\ UNCHANGED <<user, gateway, cache, obj, removes, adds, counted, standing>>

CreateOnGateway ==
  /\ pc = "create"
  /\ \/ /\ gws = None
        /\ gws' = FreshWorkspace /\ state' = "Active"
        /\ Answered(AfterGet)
     \/ gws # None /\ pc' = "adopt" /\ NoFault /\ UNCHANGED <<gws, state>>
  /\ UNCHANGED <<user, objects, cache, obj, removes, adds, counted, standing>>

\* create_workspace, on AlreadyExists: a workspace made in between is adopted.
AdoptWorkspace ==
  /\ pc = "adopt"
  /\ \/ gws # None /\ state' = gws.phase /\ pc' = AfterGet
     \/ gws = None /\ pc' = "failed" /\ UNCHANGED state
  /\ NoFault
  /\ UNCHANGED <<user, gateway, cache, obj, removes, adds, counted, standing>>

\* converge_members, its list and the delta.
ListMembers ==
  /\ pc = "list"
  /\ \/ gws = None /\ pc' = "failed" /\ UNCHANGED <<removes, adds>>
     \/ /\ gws # None
        /\ LET d == member_delta(obj.members, gws.members)
           IN  removes' = d.removes /\ adds' = d.adds
        /\ pc' = "members"
  /\ NoFault
  /\ UNCHANGED <<user, gateway, cache, obj, state, counted, standing>>

\* One remove: the gateway refuses to remove a member it does not have.
RemoveMember ==
  /\ pc = "members"
  /\ \E s \in removes :
       /\ removes' = removes \ {s}
       /\ \/ /\ gws # None /\ gws.members[s] # None
             /\ gws' = [gws EXCEPT !.members[s] = None]
             /\ Answered("members")
          \/ /\ ~(gws # None /\ gws.members[s] # None)
             /\ pc' = "failed" /\ NoFault /\ UNCHANGED gws
  /\ UNCHANGED <<user, objects, cache, obj, state, adds, counted, standing>>

\* One add, once nothing is left to remove: it is create-only.
AddMember ==
  /\ pc = "members" /\ removes = {}
  /\ \E s \in adds :
       /\ adds' = adds \ {s}
       /\ \/ /\ gws # None /\ gws.members[s] = None
             /\ gws' = [gws EXCEPT !.members[s] = obj.members[s]]
             /\ Answered("members")
          \/ /\ ~(gws # None /\ gws.members[s] = None)
             /\ pc' = "failed" /\ NoFault /\ UNCHANGED gws
  /\ UNCHANGED <<user, objects, cache, obj, state, removes, counted, standing>>

MembersConverged ==
  /\ pc = "members" /\ removes = {} /\ adds = {}
  /\ pc' = "succeeded"
  /\ UNCHANGED <<user, gateway, cache, obj, state, removes, adds, counted,
                 standing, budget>>

\* A call of converge fails without effect.
CallFails ==
  /\ pc \in {"get", "create", "adopt", "list", "members"}
  /\ Fault
  /\ pc' = "failed"
  /\ UNCHANGED <<user, gateway, cache, obj, state, removes, adds, counted, standing>>

\* A merge patch leaves a field it omits as it was.
Merged(patched, stored) == IF patched = None THEN stored ELSE patched

\* apply on success and on failure: one status patch. Without a ws there is
\* nothing to patch.
RecordOutcome ==
  /\ pc \in {"succeeded", "failed"}
  /\ \/ /\ ws # None
        /\ ws' = [ws EXCEPT
             !.ready = pc = "succeeded", !.observed = obj.gen,
             !.phase = Merged(IF pc = "succeeded" THEN map_phase(state)
                              ELSE obj.phase, @)]
        /\ NoFault
     \/ ws = None /\ UNCHANGED ws /\ NoFault
     \/ UNCHANGED ws /\ Fault
  /\ Done
  /\ UNCHANGED <<refs, gateway, cache>>

-------------------------------------------------------------------------------
\* cleanup: the default workspace is let go; any other waits for its last
\* reference.
StartCleanup ==
  /\ pc = "idle" /\ cache # None /\ cache.fin /\ cache.deleting
  /\ obj' = cache
  /\ pc' = IF IsDefault THEN "release" ELSE "countSandboxes"
  /\ standing' = Referencing(Refs)
  /\ UNCHANGED <<user, gateway, cache, state, removes, adds, counted, budget>>

\* count_referencing: two lists, one after the other.
CountSandboxes ==
  /\ pc = "countSandboxes"
  /\ counted' = (Referencing(Sandboxes) # {})
  /\ pc' = "countProviders"
  /\ UNCHANGED <<user, gateway, cache, obj, state, removes, adds, standing, budget>>

LastCountVariant ==
  /\ pc = "countProviders"
  /\ counted' = (Referencing(Providers) # {})
  /\ pc' = IF counted' THEN "refuse" ELSE "delete"
  /\ UNCHANGED <<user, gateway, cache, obj, state, removes, adds, standing, budget>>
CountProviders ==
  /\ pc = "countProviders"
  /\ counted' = (counted \/ Referencing(Providers) # {})
  /\ pc' = IF counted' THEN "refuse" ELSE "delete"
  /\ UNCHANGED <<user, gateway, cache, obj, state, removes, adds, standing, budget>>

\* refuse_non_empty: Ready=False in the status, and the finalizer stays. The
\* observedGeneration and the phase are patched back to what the copy had.
RefuseNonEmpty ==
  /\ pc = "refuse"
  /\ \/ /\ ws # None
        /\ ws' = [ws EXCEPT !.ready = FALSE,
                    !.observed = IF obj.observed = 0 THEN @ ELSE obj.observed,
                    !.phase = Merged(obj.phase, @)]
        /\ NoFault
     \/ ws = None /\ UNCHANGED ws /\ NoFault
     \/ UNCHANGED ws /\ Fault
  /\ Done
  /\ UNCHANGED <<refs, gateway, cache>>

Blocked == \E r \in Refs : objects[r] # "absent"

GivesUpWhenRefusedVariant ==
  /\ pc = "delete"
  /\ gws' = IF gws = None THEN None
            ELSE [gws EXCEPT !.phase = "Terminating", !.closing = @ \/ ~Blocked]
  /\ pc' = "release"
  /\ NoFault /\ UNCHANGED <<obj, state, removes, adds, counted, standing>>
  /\ UNCHANGED <<user, objects, cache>>
AbsentIsErrorVariant ==
  /\ pc = "delete"
  /\ gws' = IF gws = None THEN None
            ELSE [gws EXCEPT !.phase = "Terminating", !.closing = @ \/ ~Blocked]
  /\ \/ /\ gws # None /\ gws'.closing
        /\ \/ /\ pc' = "release" /\ NoFault
              /\ UNCHANGED <<obj, state, removes, adds, counted, standing>>
           \/ Done /\ Fault
     \/ (gws # None => ~gws'.closing) /\ Done /\ NoFault
  /\ UNCHANGED <<user, objects, cache>>
\* delete_gateway_workspace. The gateway marks the workspace terminating
\* before it looks for blockers, and then refuses; an absent one is done.
DeleteOnGateway ==
  /\ pc = "delete"
  /\ gws' = IF gws = None THEN None
            ELSE [gws EXCEPT !.phase = "Terminating", !.closing = @ \/ ~Blocked]
  /\ \/ /\ gws # None => gws'.closing
        /\ \/ /\ pc' = "release" /\ NoFault
              /\ UNCHANGED <<obj, state, removes, adds, counted, standing>>
           \/ Done /\ Fault
     \/ gws # None /\ ~gws'.closing /\ Done /\ NoFault
  /\ UNCHANGED <<user, objects, cache>>

CleanupFails ==
  /\ pc \in {"countSandboxes", "countProviders", "delete", "release"}
  /\ Fault
  /\ Done
  /\ UNCHANGED <<user, gateway, cache>>

\* The API server removes an object being deleted with its last finalizer.
ReleaseFinalizer ==
  /\ pc = "release"
  /\ \/ /\ ws # None /\ ws.fin
        /\ ws' = IF ws.deleting THEN None ELSE [ws EXCEPT !.fin = FALSE]
        /\ NoFault \/ Fault
     \/ ~(ws # None /\ ws.fin) /\ UNCHANGED ws /\ NoFault
  /\ Done
  /\ UNCHANGED <<refs, gateway, cache>>

-------------------------------------------------------------------------------
Reconcile ==
  \/ AddFinalizer \/ StartApply \/ GetWorkspace \/ CreateOnGateway \/ AdoptWorkspace
  \/ ListMembers \/ RemoveMember \/ AddMember \/ MembersConverged
  \/ RecordOutcome \/ StartCleanup \/ CountSandboxes \/ CountProviders
  \/ RefuseNonEmpty \/ DeleteOnGateway \/ ReleaseFinalizer

Environment ==
  \/ \E m \in MemberSpecs : CreateWorkspace(m) \/ EditMembers(m)
  \/ DeleteWorkspace
  \/ \E r \in Refs : DeclareRef(r) \/ DeleteRef(r) \/ RefApplied(r)
                       \/ RefCleanedUp(r) \/ ObjectGone(r)
  \/ PhaseSettles \/ WorkspaceGone \/ MadeOutOfBand
  \/ \E s \in Subjects, role \in Roles \cup {None} : MemberChanges(s, role)

Next ==
  \/ Reconcile \/ Environment
  \/ WatchDelivers \/ Restart \/ CallFails \/ CleanupFails

Spec == Init /\ [][Next]_vars

\* The controller requeues, the watch delivers, the other controllers clean up
\* what users delete, and the gateway finishes what it accepted.
Fairness ==
  /\ WF_vars(Reconcile) /\ WF_vars(WatchDelivers) /\ WF_vars(WorkspaceGone)
  /\ \A r \in Refs : WF_vars(RefCleanedUp(r)) /\ WF_vars(ObjectGone(r))

FairSpec == Spec /\ Fairness

-------------------------------------------------------------------------------
TypeOK ==
  /\ ws \in Resource \cup {None}
  /\ gws \in Workspace \cup {None}
  /\ refs \in [Refs -> {"none", "declared", "deleting"}]
  /\ objects \in [Refs -> {"absent", "live", "leaving"}]
  /\ cache \in Resource \cup {None}
  /\ obj \in Resource \cup {None}
  /\ pc \in {"idle", "get", "create", "adopt", "list", "members",
             "succeeded", "failed", "countSandboxes", "countProviders",
             "refuse", "delete", "release"}
  /\ state \in GatewayPhases \cup {None}
  /\ removes \subseteq Subjects /\ adds \subseteq Subjects
  /\ counted \in BOOLEAN /\ standing \subseteq Refs
  /\ edits \in 0..MaxEdits /\ faults \in 0..MaxFaults /\ stops \in 0..MaxStops

\* A running reconcile has the object it works from, and its members before it
\* diffs them. It makes the type invariant inductive.
LocalOK ==
  /\ pc # "idle" => obj # None
  /\ pc \in {"list", "members"} => obj.members # None

\* The operator asks the gateway for the deletion, which cannot be taken back,
\* only when no sandbox or provider has referenced the workspace all through
\* the cleanup: both counts weigh in (cleanup, count_referencing).
StandingReferencesBlock ==
  [][(Usable /\ gws' # None /\ gws'.phase = "Terminating") => standing = {}]_vars

\* A sandbox or provider never references a workspace at the moment the
\* operator deletes it (README.md:239: "the operator refuses to delete a
\* workspace while any OpenShellSandbox or OpenShellProvider still references
\* it").
RefusesWhileReferenced ==
  [][(Usable /\ gws' # None /\ gws'.phase = "Terminating")
       => Referencing(Refs) = {}]_vars

\* The finalizer goes only when the gateway has let go of the workspace, so
\* that none is left behind without its resource, unless others make workspaces
\* of that name too (cleanup).
ReleaseLeavesNothing ==
  [][(ws # None /\ ws.fin /\ ws' = None /\ ~IsDefault /\ ~OutOfBand)
       => gws = None \/ gws.closing]_vars

\* A resource that reports Ready for its latest generation and an Active
\* workspace has exactly its members there (converge_members, apply's status).
ReadyMeansMembers ==
  (/\ ws # None /\ ws.ready /\ ws.observed = ws.gen /\ ws.phase = "Active"
   /\ ws.members # None /\ Usable)
    => gws.members = ws.members

\* The built-in workspace is never marked terminating (cleanup).
DefaultStays == IsDefault => Usable

\* Once edits end, a managed workspace has exactly the listed members: a role
\* change whose second half failed, a member removed behind the operator or a
\* restart half way only delays it (converge, member_delta).
MembersConverge ==
  <>[](ws # None /\ ~ws.deleting /\ ws.members # None
         => Usable /\ gws.members = ws.members)

\* A deleted workspace disappears once its references are gone for good, even
\* if the gateway first refused (cleanup).
DeletionCompletes ==
  <>[](\A r \in Refs : refs[r] = "none")
    => ((ws # None /\ ws.deleting) ~> (ws = None))

\* What the two safety theorems rest on: the counts that found nothing hold
\* against the standing references, and a release follows an accepted delete.
CleanupInv ==
  /\ \A r \in standing : refs[r] # "none"
  /\ pc = "countProviders" /\ ~counted => standing \cap Sandboxes = {}
  /\ pc = "delete" => standing = {}
  /\ pc = "release" /\ ~IsDefault /\ ~OutOfBand => gws = None \/ gws.closing
  /\ gws # None /\ gws.closing => gws.phase = "Terminating"

\* What a status of Ready for the latest generation rests on. A copy of the
\* resource that lags is an earlier version of the object the API server has:
\* the finalizer keeps another object from taking its name meanwhile.
Held == ws # None /\ ws.fin
Releasable == ws = None \/ ws.deleting \/ ~ws.fin
VersionOf(c) ==
  /\ c.gen <= ws.gen
  /\ c.gen = ws.gen => c.members = ws.members /\ c.deleting = ws.deleting
ApplyCalls == {"get", "create", "adopt", "list", "members", "succeeded", "failed"}
CleanupCalls == {"countSandboxes", "countProviders", "refuse", "delete", "release"}
CopiesInv ==
  /\ (cache # None /\ cache.fin /\ ~cache.deleting) => Held /\ VersionOf(cache)
  /\ (cache # None /\ cache.deleting) => Releasable
  /\ pc \in ApplyCalls =>
       /\ Held /\ cache # None /\ VersionOf(cache)
       /\ ~obj.deleting /\ VersionOf(obj) /\ obj.gen <= cache.gen
  /\ pc \in CleanupCalls =>
       /\ Releasable
       /\ cache = None \/ cache.deleting \/ ~cache.fin

\* Ready for the latest generation: then no copy in use is older, and so no
\* reconcile under way would bring back the members of an earlier version.
Current == ws # None /\ ws.ready /\ ws.observed = ws.gen
CurrentInv ==
  /\ ws # None /\ ws.ready => ws.observed <= ws.gen
  /\ Current =>
       /\ ws.fin /\ ~ws.deleting /\ cache # None
       /\ cache.gen = ws.gen /\ cache.members = ws.members /\ ~cache.deleting
       /\ pc \in ApplyCalls => obj.gen = ws.gen

\* How far converge has come, on a workspace that it did not find terminating,
\* and what it leaves alone of one that is as the status says.
Listed == ws.members # None
ConvergeInv ==
  /\ pc \in {"list", "members", "succeeded"} /\ state # "Terminating" => Usable
  /\ pc = "members" /\ state # "Terminating" =>
       \A s \in Subjects :
         /\ s \in adds \cup removes \/ gws.members[s] = obj.members[s]
         /\ s \in removes \ adds => obj.members[s] = None
  /\ pc = "succeeded" /\ state # "Terminating" /\ obj.members # None
       => gws.members = obj.members
  /\ Current /\ ws.phase = "Active" =>
       /\ Usable
       /\ Listed => gws.members = ws.members
       /\ Listed /\ pc = "members" => removes = {} /\ adds = {}
===============================================================================
