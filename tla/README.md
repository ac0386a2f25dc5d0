# Formal model of the OpenShell Kubernetes operator

TLA+ specifications of the operator in this repository, the TLC configurations
that check them on small instances, and TLAPS proofs of the most important
invariants for every value of the parameters. Paths are relative to the
repository root; `operator/` stands for `crates/operator/src/`.

## The system

The operator maps custom resources of a Kubernetes cluster onto objects of an
OpenShell gateway. Replicas elect a leader through a Lease; the leader runs five
controllers, each a loop of reconciles started by watch events and timers.

| Component | Source | State | Operations | Correct when |
|---|---|---|---|---|
| Sandbox controller | `operator/controllers/sandbox.rs` | `.status` with two applied hashes; the gateway's sandbox; PVCs; a watch cache | apply (create, recreate, update in place, attach/detach), cleanup | status tells the truth; a sandbox outlives no resource; nothing but a deletion or a real change takes one down; edits converge |
| Leader election | `operator/leader.rs` | the Lease; per replica a tracker, a decision, the time of the last renewal | step, campaign, keep_leadership | nobody takes a lease that is being renewed; a deposed leader stops soon; one leader in the end |
| Workspace controller | `operator/controllers/workspace.rs` | `.status`; the gateway's workspace and its members | apply (create, adopt, converge members), cleanup (count references, delete) | declared members are the members; never deletes one that is in use, nor `default` |
| Gateway adapter | `operator/gateway.rs` | the bearer token in use | RPCs and the meaning of their errors; re-read of the token | NotFound, AlreadyExists, InvalidArgument and version conflicts become the right outcomes; a re-minted token is picked up |
| Volumes | `operator/volumes.rs` | PVCs and labels | validate, build, label | mounted claims exist and are admitted |
| Provider controller | `operator/controllers/provider.rs` | `.status` with a hash and a mode; the gateway's provider and its refreshes; the Secret | resolve, plan, upsert, configure refreshes one by one; cleanup | the hash in a Ready status stands for what the gateway holds; rotations arrive; nothing is orphaned |
| Provider profile controller | `operator/controllers/provider_profile.rs`, `profile.rs` | `.status` with a version; the gateway's profile | upsert under a version check, guarded delete | no profile in use is deleted; other writers are overruled |
| Credentials | `operator/credentials.rs`, `secret.rs` | none | resolve, split copied values from refresh seeds | every value is copied or a seed, and nothing else is copied |
| Policy controller | `operator/controllers/policy.rs`, `policy.rs` | a condition | validate | the condition is the parser's verdict |
| Admission webhook | `operator/webhook.rs` | certificate Secret, two CA bundles, a certificate per replica | bootstrap, inject the CA, decide exec, guard attach and debug | ready replicas are trusted; rotations heal; sandboxes are entered only behind the wrapper |
| Issuer | `crates/issuer/src/` | TLS Secret, CA ConfigMap, key set, token; the serving pod's files | mint Job, serve | a stored token verifies with the published keys, wherever a run stopped |
| Start-up, health | `operator/main.rs`, `health.rs` | a readiness flag | start webhook, mark ready, campaign | ready means that the webhook can be called |
| CRD generator, chart | `bin/crdgen.rs`, `deploy/` | | | |

The components share state only through two services: the Kubernetes API
(resources, Secrets, PVCs, the Lease) and the gateway. What is hard is what happens
between two calls to them: edits by users, progress of the gateway, a lost call
or answer, a stop of the process, a second active operator, and a watch cache
that lags. The status is the only memory a controller has across reconciles, and
it is written last.

`PROJECT.json` lists the hazards at their source lines with the properties that
would catch them, and maps every definition to the lines it models.

## Modules

| Module | Models |
|---|---|
| `SandboxReconcile` | the sandbox control loop, for one resource, any number of operators |
| `LeaseContract` | abstract: what the Lease promises its holder |
| `LeaderElection` | the replicas, their calls and clocks; implements `LeaseContract` |
| `WorkspaceReconcile` | the workspace control loop and the resources that reference it |
| `Credentials` | operators: resolving a Secret, splitting its values by the profile |
| `ProviderSync` | the provider and the profile control loops together |
| `WebhookCert` | start-up of the replicas: certificate Secret, CA injection, readiness |
| `WebhookAdmission` | extends it with requests, the two handlers and the pod they are about |
| `IssuerMint` | the mint Job, the serving pod and the operator's bearer |
| `MC...` | the small instances TLC checks |
| `..._proofs` | theorems and their proofs |

Definitions named `...Variant` are plausible mistakes in the definition they
precede. No specification uses them. Each property of a passing run has one
(`mutants` in `PROJECT.json`) under which TLC finds the property violated, so
that a property that says nothing about the code would show.

### SandboxReconcile

One resource `cr`, the policy it may reference, its claims `pvc`, the gateway's
sandbox `gw`, and per operator the cached copy and the local state of the running
reconcile: `pc` is the call it makes next, `obj` the copy of the resource it works
from, `existing` and `resolved` what it has read. Each gateway or Kubernetes call
of `reconcile`, `apply`, `converge`, `recreate` and `cleanup` is one action; a call
may fail without effect (`CallFails`, `CleanupFails`) or take effect and lose its
answer (the faulty disjuncts). `StopOperator` drops a reconcile between two calls,
as a crash does and as the `select!` of `leader::run` does.

Data is abstracted to what the code tells apart. `image` stands for all immutable
fields of the spec, `sec` for the policy's `landlock` and `process`, `net` for
`networkPolicies` and `filesystem`. A fingerprint is the tuple of what it hashes,
which assumes the hash has no collisions. `valid` stands for the verdict of the
gateway's policy parser, `validVolumes` for `volumes::validate`. The get and the
create or patch of one claim in `ensure_pvcs` are one step. The cache jumps to the
latest version when the watch delivers. A status patch is a merge patch: a field
that is unset in it keeps its stored value (`Merged`).

### LeaderElection

Time is discrete; `Tick` advances all clocks and waits while some replica is due.
A call is sent, served and answered within `MaxLatency`; the code sets no timeout of
its own, so this bound is an assumption on the client. A partition (`Cut`) makes
calls fail whether or not they were served. Elapsed times are counters that stop
at the largest value the code distinguishes. Every write carries a new renewTime,
so one bit per replica (`news`, `raced`) tells whether the Lease changed since it
looked. A restarted replica keeps its identity, the pod name, and starts with an
empty tracker. `Disturb` is somebody deleting or clearing the Lease by hand.

`LeaseContract` is what this is meant to achieve: a lease once written changes
hands only after a whole lease duration without a renewal, or after a disturbance.
`LeaseIsHonoured` is the refinement, with `lease` and `leaseAge` for its variables.

### WorkspaceReconcile

One cluster-scoped resource `ws`, the gateway workspace `gws` with its members, and
the sandbox and provider resources that may reference it (`refs`) with their objects
on the gateway (`objects`). The gateway marks a workspace terminating before it
looks for blockers and has no undelete (the comment at `workspace.rs:230-237`); the
model keeps this: a refused delete leaves `Terminating` without `closing`. `standing`
is a history variable: the references present ever since the running cleanup began.

### Credentials and ProviderSync

`Credentials` holds the pure part: `resolve_credentials` (entitlement annotation, key
selection, text check), `provider_profile_view` (which strategies count),
`build_refresh_material`, `plan_credentials` and `mode`. Values are model values, one of
which is not text. `ProviderSync` runs both loops for one provider of the type that one
profile defines, each with its watch cache (`pcache`, `fcache`), its next call (`ppc`,
`fpc`) and what it has read (`pobj`, `creds`, `plan`, `found`, `pending`; `fobj`,
`fversion`). An update keeps the refreshes configured earlier, as the gateway's record
does: the operator never removes one. A profile is stored with a version, and a write
with another version is refused. `listed` is a history variable: the provider has stood
since the profile's cleanup listed the providers. A rotated Secret arrives with the watch
or the periodic requeue, which is what weak fairness of `SyncLoop` stands for.

### WebhookCert and WebhookAdmission

A replica at start-up reads the certificate Secret or creates it, adopts a rival's on
conflict, patches the CA into the mutating and then the validating configuration, spawns
the listener and reports ready; every failure ends the process, so `Stop` between two
calls covers them. `WebhookAdmission` adds one request at a time: the API server calls a
ready replica, verifies its certificate with the CA of the configuration that matches
(`CaBundle`), and denies whenever it gets no answer (`failurePolicy: Fail`). `decide_exec`
and `from_pod` are operators; commands are sequences of words and `Wrapper` a sequence
too. A request may be sent through the mutating webhook twice (`Reinvoke`), the pod may be
replaced or annotated at any point, and replicas may stop under a request.

### IssuerMint

Each call of the Job is an action; `fresh` is what it holds between two of them. Keys and
certificates are numbers in the order they were made. `Deploy` is helm applying the rest
of the chart after the hook; an issuer pod is replaced when its URL changed. Mounts lag
(`SyncKeyfile`, `SyncTokenfile`), the serving pod loads its certificate once and reads the
key set at every request, and the operator reads its token at start and again once the
recheck interval has passed.

## Runs

Every passing run explores its whole state space. Bounds are the number of user
actions (`MaxEdits`), of failed calls (`MaxFaults`) and of stops (`MaxStops`), the sets
of the instance, and `MaxPolls`, which stands for the 30 polls of a recreate: only
reaching the limit matters. Two values of a field are enough for an edit and its
revert; three edits are enough for create, edit and revert or delete; one fault and
one stop can fall at every call. In the election `MaxTroubles` bounds partitions,
crashes and interventions together, so that two of any kind combine. A healthy
renewal takes up to `RetryPeriod + 3 * MaxLatency` from one to the next, which is why
the instance has a lease duration of 5 with a period and a latency of 1: a shorter one
would lapse without any trouble, which 15 s against 2 s does not.

| Run | Shows |
|---|---|
| `SandboxConverges` | from an up-to-date cache and with answered calls: Ready for the latest generation means that spec runs, recorded hashes are those of the live sandbox, only a real change recreates; edits, policy changes and out-of-band detaches converge |
| `SandboxFaulty` | with faults, stops and a lagging cache: the finalizer guards the sandbox, a live sandbox has its labelled claims, every teardown is justified |
| `SandboxDeletion` | deletion completes and leaks nothing, through faults and stops; claims are deleted only after the sandbox |
| `LeaderHandover` | refinement of `LeaseContract`; a deposed leader runs on for at most `RetryPeriod + 2 * MaxLatency`; one leader in the end |
| `WorkspaceCleanup` | a standing reference blocks the delete; the resource goes only after its workspace, and does go once the references have; Ready means exactly the declared members and roles |
| `WorkspaceMembers` | members converge, through interrupted role changes and changes behind the operator |
| `ProviderConverges` | a Ready provider's hash and mode stand for what the gateway holds; nothing there is without its resource; a profile is not deleted under a listed provider; providers, profiles and deletions converge |
| `WebhookRotation` | ready replicas are trusted, a rotation heals once every replica has restarted, every start-up completes; sandboxes are entered only in an agent container and behind the wrapper, once |
| `IssuerUpgrades` | a token and a key set for one URL belong together; once the Job is run again the published CA is that of the certificate and the operator's token verifies |

In the last three `MaxTroubles` (and `MaxMishaps`, for the pod) bounds everything users,
faults and stops do, so that any two (provider), three (webhook) or four (issuer) of them
combine at any point: enough for a rotation during a sync that fails, for two rotations
and a late replica, and for an upgrade, a failed run, its revert and a lost object. The
provider instance has a profile whose two credentials share a seed, one with a strategy
that is minted beside one the operator does not select yet and one that is no refresh, a
malformed one, and Secrets that are complete, partial, not text or not entitled. Two replicas and two URLs are enough for every
race and revert; the proofs cover any number.

Deadlock is checked in `LeaderHandover`, `WebhookRotation` and `IssuerUpgrades`. The other
instances may stop: when the resource is gone and the bounds are used up, nothing has to
happen.

### Disagreements with documentation

Three runs check what a comment or a document says and find a counterexample in
what the code does. `PROJECT.json` (`findings`) quotes both sides.

| Run | What happens |
|---|---|
| `SandboxLostPatch` | create, lost status patch, edit: the retry adopts the old sandbox under the new hash; the edit is never applied |
| `SandboxOverlap` | two active operators: a recreate races a cleanup and leaves an orphan |
| `WorkspaceLateReference` | a reference declared between the count and the delete |

The constants of the passing runs draw the same kind of line. Changing one makes
TLC show a behaviour that a document does not mention:

- `SandboxConverges` with `StaleReads = TRUE`: a reconcile from a lagging cache sees the
  hash from before a recreate and recreates a sandbox that already matches
  (`RecreateOnlyOnRealChange`, and before it `AppliedHashesAreLive`; README.md:279, "it
  recreates only on a real change").
- `SandboxConverges` with one fault: a lost status patch leaves recorded hashes that are
  not those of the live sandbox (`AppliedHashesAreLive`; `crd.rs:232`). The reconcile
  after it repairs this, except in the trace of `SandboxLostPatch`.
- `SandboxFaulty` with the specs of `SandboxDeletion`: a resource re-created while the
  claims of its predecessor are terminating reuses them (`MountsProvisioned`;
  `sandbox.rs:219`).
- A recreate that timed out, followed by a revert of the edit, takes the in-place path
  on a sandbox under deletion and reports success in phase Deleting (`sandbox.rs:787`
  says that this phase never gets there). `SandboxConverges` contains this behaviour:
  the controller recovers from it.
- In `LeaderHandover` two replicas run the controllers for a moment after a partition
  (docs/architecture.md:241, "Only the leader runs the reconcilers"); `OverlapBounded`
  is the bound on it.

The newer modules state their properties up to the following, which TLC shows when the
condition is dropped:

- An upgrade to another issuer URL that published its key set, stopped before storing its
  token and was taken back leaves a token that is current and a key set that is not its
  own. `ensure_token` looks at the token only (`mint.rs:178`), so no later run mints and the
  operator is refused until somebody deletes the token; the comment at `mint.rs:172` takes a
  current token to mean "a matching key + JWKS". The same holds for a key set ConfigMap that was deleted. `BearerVerifies`
  excludes these two cases by its condition on `jwks`, and `KeysMatch` compares keys of one
  URL only.
- A certificate Secret without one of its three keys is neither used nor replaced: create
  conflicts, the read for adoption fails, and every replica that starts exits
  (`webhook.rs:529`). Hence the condition of `StartUpCompletes`.
- A replica that read the Secret before a rotation may inject its CA after the new one: the
  API server then refuses the new replicas although they report ready, until the late one
  restarts (`health.rs:39` knows no "ready but broken" state). `TrustAgrees` is
  for one certificate; `RotationHeals` says when the rotation is over.
- The pod a handler read need not be the pod the API server enters under that name a moment
  later. `EnteredConfined` is stated for a pod every handler saw.
- A provider declared after the profile's cleanup listed the providers does not keep the
  profile. `UsersKeepProfile` is for those listed; the late one then copies its values.
- The serving pod keeps its certificate when the Job re-makes one for the same URL, and is
  not trusted under the new CA until it restarts.

### Fairness

Liveness assumes weak fairness of the steps the system takes by itself. A
reconcile goes on: every result is requeued, at 10 s, 15 s or 300 s, terminal errors
too (`success_requeue`, `error_policy`). Watches deliver, a stopped process is
restarted by Kubernetes, a partition ends, time passes, the gateway finishes a
deletion it accepted, and the other controllers clean up resources that were
deleted. For the issuer it also assumes that users run an upgrade again that failed (helm
reports it), that the kubelet syncs mounts, and that the operator goes on calling the
gateway. No user action, fault or stop is ever assumed to happen or, beyond the
bounds, not to happen. `SandboxConverges` has no faults: with one, convergence fails,
which is `SandboxLostPatch`.

## Proofs

All theorems hold for any values of the constants that meet the named assumptions
of the modules (`SandboxAssumption`, `LeaderAssumption`, `WorkspaceAssumption`,
`CredentialsAssumption`, `ProviderAssumption`, `CertAssumption`, `AdmissionAssumption`,
`IssuerAssumption`), which say that bounds are naturals, sets have their types and `None` is none of the
values; TLC evaluates them in every run.

- `SandboxReconcile_proofs!TypeCorrect`. The type invariant alone is not inductive: a
  reconcile dereferences what it read. `LocalOK` says which local fields are set at
  which call and that the poll count is below its limit.
- `FinalizerGuards` and `TearDownJustified`, assuming `~Overlap`. The inductive
  invariant is `FinalizerInv`. The difficulty is that an operator acts on an old copy
  of the resource. It holds because only cleanup removes the finalizer, and only
  after it saw the deletion: a cached finalizer on an object not being deleted is
  therefore still there, and a reconcile in its apply phase still holds it. With
  overlap this is false, as `SandboxOverlap` shows. `VolumesOutliveSandbox` follows from
  the same invariant: only cleanup drops claims, after its delete was accepted, and no
  other reconcile can have brought the sandbox back.
- `MountsAreProvisioned`, assuming that every spec retains its volumes (the default; a
  counterexample without it is among those above), but with any number
  of operators at once. `ClaimsInv`: no claim is ever dropped, a label stays, and at every
  call from which a create can follow, the claims of the copy's spec are labelled, in
  `ensure_pvcs` all but those still to do.
- `HashesStandForSandbox`, `ReadyIsApplied` and `RecreateIsWarranted`, assuming `Undisturbed`:
  no overlap, current copies, no lost call, no stop. Each of the four is needed: without
  any one of them TLC finds each of the three properties violated. Users, the gateway and somebody detaching providers still act between any two calls. `CopyInv`:
  the hashes of the copy are those of the resource for as long as apply runs, and its spec
  too if the generation is the same. `AppliedInv`: the status records the live sandbox at
  every call except between the last call of a successful converge and its status patch;
  there (`Established`) the sandbox is what the copy and the resolved policy ask for. Along
  the way `Established` carries the outcome of the drift test, that nothing is live where
  apply creates, and that what the sandbox has beyond the spec is still on the list of
  providers to detach.
- `LeaderElection_proofs!LeaseInvariant`. `TrackerSound`: if the renewTime is the one a
  tracker holds, the tracker has watched it no longer than the Lease is old.
  `ViewSound` and `ReplaceSound` carry this through a get in flight to the replace: as
  long as the Lease has not changed (`raced`), the decision to take it is still
  justified. `ElectionHonoursLease` follows: each step is a step of `LeaseContract` or
  leaves its variables alone.
- `LeaderElection_proofs!DeposedLeaderStops` (`OverlapBounded`), for all durations, also where
  a call takes longer than the lease. The inductive invariant is `OverlapInv`. A leader has
  renewed, within one latency, as recently as the Lease was written (`LeaderSound`), and an
  answer to a write comes while the Lease is young or after a peer took it
  (`AnswerTimely`). A deposed leader hears of it from its next answer; until then it gives
  up at the first failure that comes a lease duration after its last renewal, so it goes
  to sleep only within `MaxLatency` of the loss (`Deposed`) and the last sleep and call add
  `RetryPeriod + MaxLatency`.
- `WorkspaceReconcile_proofs`: `TypeCorrect`, as above; `ReferencesBlock` and
  `ReleaseIsClean` from `CleanupInv`, which says what each call of cleanup has
  established: once past a count no standing reference of that kind is left, and at
  the release the workspace is gone or closing. `DefaultIsKept`: the built-in workspace
  stays, because a cleanup of it never reaches the counts and so never the delete.
  `ReadyIsTrue` (`ReadyMeansMembers`), assuming that nobody changes members behind the
  operator (`~OutOfBand`), but with faults, stops and a lagging cache: `CopiesInv` says that
  the copies in use are versions of the resource as it is, the finalizer keeping another
  object from its name; `CurrentInv` that while the status is Ready for the latest
  generation no copy in use is older, so that no reconcile under way brings back earlier
  members; `ConvergeInv` what a pass over the members has still to do, and that one over a
  workspace that is as the status says has nothing to do.
- `ProviderSync_proofs`: `PlanCovers` about the pure operators: every resolved value is
  copied or a seed, and nothing else is copied. `ReadyVouches` from it and `Synced`: between
  the put and the status patch the gateway holds the plan but for the refreshes still
  pending, unless the provider vanished. `NothingOrphaned` from `ProviderOwned` and
  `ProfileOwned`, which have the argument of `FinalizerInv` for one operator: a lagging cache
  that shows a live object with the finalizer is right about the finalizer, and one that
  shows a deletion never meets a live object that has it. `ListedKeepProfile` from
  `Unlisted`.
- `WebhookCert_proofs` and `WebhookAdmission_proofs`: `ReadyIsTrusted` and `RotationsHeal` are
  proved of the start-up alone (`StartUpTrusted`, `StartUpHeals`) and carried over by
  `RequestsKeepCert`, that the webhook with its requests implements the start-up
  specification. The invariant is `CertInv`. `RotationHeals` needs `Pending`: while a
  configuration does not trust the latest certificate some replica has yet to inject it,
  either the one that stored it or the one that injected an older CA over it.
  `SandboxesConfined` from `Admitted`: a request whose handlers all saw one pod is what they
  decide for that pod; a second call keeps it because the wrapper is a prefix of what the
  first made.
- `IssuerMint_proofs`: `TokenVerifies` (`KeysMatch`) is not inductive, since a new key set
  stands beside an old token for one step of the Job. `Minting` says that a run gets there
  only while no token for its URL is stored and that the key set is the one it signs with.
  `MintIsIdempotent` follows: while a token for the Job's URL is stored, no run changes the
  key set.

Every invariant and action property that a run checks is thus proved. Only model-checked
are the properties under fairness, which are out of the prover's reach: `EditsConverge`,
`DeletionCompletes` (sandbox and workspace), `NoLeak`, `OneLeaderSettles`, `MembersConverge`,
`SyncConverges`, `ProfileConverges`, `DeletionsComplete`, `StartUpCompletes` and
`BearerVerifies`. Hashes are compared as the tuples they stand for, so nothing is said
about collisions.

## Not modelled

Kubernetes events and logs (best-effort, nothing reads them), names, labels, sizes
and the layout of requests. A call of a stopped process that is still in flight and
takes effect later is covered only by runs with `Overlap`. The gateway and the
Kubernetes API are modelled from how the code uses them and marked external in the
map. Key material, certificates, claims and the parsing of malformed requests are
abstract. Tokens and certificates do not expire: their lifetimes are years and no code
renews them. The policy controller only mirrors the verdict of a parser, which the
models have as the `valid` of a document; the CRD generator and the chart have no behaviour
to check.

## Plan

Done: all control loops, the election, the webhook and the issuer, with proofs of all
their safety properties. Left, in this order:

1. Composition of `LeaderElection` with `SandboxReconcile`, where `Overlap` is no longer
   a constant but what the election allows.
2. Several providers of one profile, and a provider whose type changes profile.
