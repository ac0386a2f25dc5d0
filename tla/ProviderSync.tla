----------------------------- MODULE ProviderSync -----------------------------
(***************************************************************************)
(* The OpenShellProvider and OpenShellProviderProfile control loops        *)
(* (controllers/provider.rs, controllers/provider_profile.rs) for one      *)
(* provider (prov) of the type one profile (prof) defines. The provider's  *)
(* loop reads its Secret and the profile the other loop put on the gateway *)
(* (gprof), and syncs the provider there (gprov); the profile's loop lists *)
(* providers before it deletes the profile.                                *)
(*                                                                         *)
(* Both loops run in one operator process, each from a watch cache that    *)
(* may lag. An API call is a step; a reconcile's first call is taken in    *)
(* one step with its start, which a lagging cache makes no difference to.  *)
(***************************************************************************)
EXTENDS Credentials

CONSTANTS
  Configs,      \* spec.config values
  KeySets,      \* spec.credentialsSecretRef.keys values
  Secrets,      \* contents the Secret may be given
  Documents,    \* profile documents users may declare
  MaxTroubles,  \* bound on what users and others do, failed API calls, lost
                \* answers, process stops and stale reads, all together
  OutOfBand     \* whether others also change gateway objects

Hashes == [credentials : Maps, config : Configs]
Document == [valid : BOOLEAN, credentials : ProfileCredentials]
\* OpenShellProvider; type and workspace are immutable.
ProviderResource ==
  [keys : KeySets, config : Configs, gen : Nat, deleting : BOOLEAN,
   fin : BOOLEAN, ready : BOOLEAN, observed : Nat,
   hash : Hashes \cup {None}, mode : CredentialMode \cup {None}]
ProfileResource ==
  [document : Documents, deleting : BOOLEAN, fin : BOOLEAN, ready : BOOLEAN,
   version : Nat \cup {None}]
GatewayProvider == [static : Maps, config : Configs, refreshes : Refreshes]
GatewayProfile == [document : Documents, version : Nat]

ASSUME ProviderAssumption ==
  /\ MaxTroubles \in Nat /\ OutOfBand \in BOOLEAN
  /\ KeySets \subseteq SUBSET Keys /\ Secrets \subseteq Secret
  /\ Documents \subseteq Document
  /\ None \notin ProviderResource /\ None \notin ProfileResource
  /\ None \notin GatewayProvider /\ None \notin GatewayProfile
  /\ None \notin Plan /\ None \notin Hashes
  /\ None \notin CredentialMode /\ None \notin Nat

VARIABLES
  prov, secret, prof,   \* the resources in the API server, or None
  gprov, gprof,         \* the provider and the profile on the gateway, or None
  pcache, fcache,       \* the watch caches' copies of prov and prof
  ppc, pobj,            \* the provider's reconcile: next call, its copy
  creds, plan,          \* the values it resolved and what it makes of them
  found,                \* whether upsert_provider found the provider
  pending,              \* refreshes still to configure
  fpc, fobj,            \* the profile's reconcile: next call, its copy
  fversion,             \* the stored version it has read or written, or None
  listed,               \* whether the provider has stood since its last list
  troubles              \* how many there have been

resources == <<prov, secret, prof>>
gateway == <<gprov, gprof>>
sync == <<ppc, pobj, creds, plan, found, pending>>
import == <<fpc, fobj, fversion, listed>>
caches == <<pcache, fcache>>
vars == <<prov, secret, prof, gprov, gprof, pcache, fcache, ppc, pobj, creds,
          plan, found, pending, fpc, fobj, fversion, listed, troubles>>

FreshProvider(k, c) ==
  [keys |-> k, config |-> c, gen |-> 1, deleting |-> FALSE, fin |-> FALSE,
   ready |-> FALSE, observed |-> 0, hash |-> None, mode |-> None]
FreshProfile(d) ==
  [document |-> d, deleting |-> FALSE, fin |-> FALSE, ready |-> FALSE,
   version |-> None]

\* The operator starts on a cluster where users may have applied everything.
Init ==
  /\ prov \in {None} \cup {FreshProvider(k, c) : k \in KeySets, c \in Configs}
  /\ prof \in {None} \cup {FreshProfile(d) : d \in Documents}
  /\ secret \in Secrets \cup {None}
  /\ gprov = None /\ gprof = None
  /\ pcache = prov /\ fcache = prof
  /\ ppc = "idle" /\ pobj = None /\ creds = None /\ plan = None
  /\ found = FALSE /\ pending = {}
  /\ fpc = "idle" /\ fobj = None /\ fversion = None /\ listed = FALSE
  /\ troubles = 0

Live(resource) == resource # None /\ ~resource.deleting

-------------------------------------------------------------------------------
\* Users, and tools that talk to the gateway on their own.

Trouble == troubles < MaxTroubles /\ troubles' = troubles + 1

\* The API server drops an object without a finalizer at once.
Deleted(resource) ==
  IF resource.fin THEN [resource EXCEPT !.deleting = TRUE] ELSE None

CreateProvider(k, c) ==
  /\ Trouble /\ prov = None
  /\ prov' = FreshProvider(k, c)
  /\ UNCHANGED <<secret, prof, gateway, caches, sync, import>>

EditProvider(k, c) ==
  /\ Trouble /\ Live(prov) /\ <<k, c>> # <<prov.keys, prov.config>>
  /\ prov' = [prov EXCEPT !.keys = k, !.config = c, !.gen = @ + 1]
  /\ UNCHANGED <<secret, prof, gateway, caches, sync, import>>

DeleteProvider ==
  /\ Trouble /\ Live(prov)
  /\ prov' = Deleted(prov)
  /\ listed' = (listed /\ prov' # None)
  /\ UNCHANGED <<secret, prof, gateway, caches, sync, fpc, fobj, fversion>>

\* The Secret is made, rotated, annotated or deleted.
ChangeSecret(s) ==
  /\ Trouble /\ s # secret
  /\ secret' = s
  /\ UNCHANGED <<prov, prof, gateway, caches, sync, import>>

CreateProfile(d) ==
  /\ Trouble /\ prof = None
  /\ prof' = FreshProfile(d)
  /\ UNCHANGED <<prov, secret, gateway, caches, sync, import>>

EditProfile(d) ==
  /\ Trouble /\ Live(prof) /\ d # prof.document
  /\ prof' = [prof EXCEPT !.document = d]
  /\ UNCHANGED <<prov, secret, gateway, caches, sync, import>>

DeleteProfile ==
  /\ Trouble /\ Live(prof)
  /\ prof' = Deleted(prof)
  /\ UNCHANGED <<prov, secret, gateway, caches, sync, import>>

\* Somebody deletes the provider, or rewrites the profile, on the gateway.
ProviderVanishes ==
  /\ OutOfBand /\ Trouble /\ gprov # None
  /\ gprov' = None
  /\ UNCHANGED <<resources, gprof, caches, sync, import>>

ProfileRewritten(d) ==
  /\ OutOfBand /\ Trouble /\ gprof # None /\ d.valid /\ d # gprof.document
  /\ gprof' = [document |-> d, version |-> gprof.version + 1]
  /\ UNCHANGED <<resources, gprov, caches, sync, import>>

-------------------------------------------------------------------------------
\* The operator process.

ProviderWatchDelivers ==
  /\ pcache # prov /\ pcache' = prov
  /\ UNCHANGED <<resources, gateway, fcache, sync, import, troubles>>

ProfileWatchDelivers ==
  /\ fcache # prof /\ fcache' = prof
  /\ UNCHANGED <<resources, gateway, pcache, sync, import, troubles>>

SyncDone == /\ ppc' = "idle" /\ pobj' = None /\ creds' = None /\ plan' = None
            /\ found' = FALSE /\ pending' = {}
ImportDone == fpc' = "idle" /\ fobj' = None /\ fversion' = None /\ listed' = FALSE

\* The process stops between two calls, and its successor lists afresh.
Restart ==
  /\ Trouble
  /\ pcache' = prov /\ fcache' = prof
  /\ SyncDone /\ ImportDone
  /\ UNCHANGED <<resources, gateway>>

\* A reconcile starts from the cache, which may lag behind the API server.
Reads(cache, resource) ==
  \/ cache = resource /\ UNCHANGED troubles
  \/ cache # resource /\ Trouble

\* A merge patch leaves a field it omits as it was.
Merged(patched, stored) == IF patched = None THEN stored ELSE patched

-------------------------------------------------------------------------------
\* The provider's loop.

\* A call of the sync was answered, or its answer was lost and the sync fails.
SyncAnswered(next) == \/ ppc' = next /\ UNCHANGED troubles
                      \/ ppc' = "failed" /\ Trouble

AddProviderFinalizer ==
  /\ ppc = "idle" /\ Reads(pcache, prov) /\ Live(pcache) /\ ~pcache.fin
  /\ Live(prov) /\ ~prov.fin
  /\ prov' = [prov EXCEPT !.fin = TRUE]
  /\ UNCHANGED <<secret, prof, gateway, caches, sync, import>>

NoFinalizerVariant ==
  /\ ppc = "idle" /\ Reads(pcache, prov) /\ Live(pcache)
  /\ pobj' = pcache
  /\ creds' = resolve_credentials(secret, pcache.keys)
  /\ ppc' = IF creds' = None THEN "failed" ELSE "profile"
  /\ UNCHANGED <<resources, gateway, caches, plan, found, pending, import>>
SkipsObservedVariant ==
  /\ ppc = "idle" /\ Reads(pcache, prov) /\ Live(pcache) /\ pcache.fin
  /\ pcache.observed # pcache.gen
  /\ pobj' = pcache
  /\ creds' = resolve_credentials(secret, pcache.keys)
  /\ ppc' = IF creds' = None THEN "failed" ELSE "profile"
  /\ UNCHANGED <<resources, gateway, caches, plan, found, pending, import>>
\* apply up to resolve_credentials: the Secret is read now.
StartSync ==
  /\ ppc = "idle" /\ Reads(pcache, prov) /\ Live(pcache) /\ pcache.fin
  /\ pobj' = pcache
  /\ creds' = resolve_credentials(secret, pcache.keys)
  /\ ppc' = IF creds' = None THEN "failed" ELSE "profile"
  /\ UNCHANGED <<resources, gateway, caches, plan, found, pending, import>>

\* Without a profile no credential has a refresh.
NoRefreshes == [c \in Names |-> None]
find_profile ==
  IF gprof = None THEN NoRefreshes
  ELSE provider_profile_view(gprof.document.credentials)

\* The list of find_profile, and the plan. With it goes the get of
\* upsert_provider: what may change between the two calls, the provider
\* vanishing, could as well happen before both.
FindProfile ==
  /\ ppc = "profile"
  /\ plan' = plan_credentials(find_profile, creds)
  /\ pending' = Entries(plan'.refreshes)
  /\ found' = (gprov # None)
  /\ ppc' = "put"
  /\ UNCHANGED <<resources, gateway, caches, pobj, creds, import, troubles>>

\* The update or create of upsert_provider. An update of a provider that is gone
\* by now and a create of one that is there fail; the record is replaced, but
\* what was configured with configure_provider_refresh stays.
PutProvider ==
  /\ ppc = "put"
  /\ \/ /\ found = (gprov # None)
        /\ gprov' = [static |-> plan.static, config |-> pobj.config,
                     refreshes |-> IF found THEN gprov.refreshes ELSE NoRefreshes]
        /\ SyncAnswered("configure")
     \/ found # (gprov # None) /\ ppc' = "failed" /\ UNCHANGED troubles /\ UNCHANGED gprov
  /\ UNCHANGED <<resources, gprof, caches, pobj, creds, plan, found, pending, import>>

\* configure_provider_refresh, one credential after the other.
ConfigureRefresh ==
  /\ ppc = "configure"
  /\ \E c \in pending :
       /\ pending' = pending \ {c}
       /\ \/ /\ gprov # None
             /\ gprov' = [gprov EXCEPT !.refreshes[c] = plan.refreshes[c]]
             /\ SyncAnswered("configure")
          \/ gprov = None /\ ppc' = "failed" /\ UNCHANGED troubles /\ UNCHANGED gprov
  /\ UNCHANGED <<resources, gprof, caches, pobj, creds, plan, found, import>>

\* A call of the sync fails without effect.
SyncCallFails ==
  /\ ppc \in {"profile", "put", "configure"} /\ Trouble
  /\ ppc' = "failed"
  /\ UNCHANGED <<resources, gateway, caches, pobj, creds, plan, found, pending, import>>

EagerReadyVariant ==
  /\ ppc \in {"configure", "failed"}
  /\ \/ /\ prov # None
        /\ prov' = [prov EXCEPT
             !.ready = (ppc = "configure"), !.observed = pobj.gen,
             !.hash = IF ppc = "configure"
                      THEN hash_material(creds, pobj.config) ELSE Merged(pobj.hash, @),
             !.mode = IF ppc = "configure" THEN mode(plan) ELSE Merged(pobj.mode, @)]
        /\ UNCHANGED troubles
     \/ prov = None /\ UNCHANGED prov /\ UNCHANGED troubles
     \/ UNCHANGED prov /\ Trouble
  /\ SyncDone
  /\ UNCHANGED <<secret, prof, gateway, caches, import>>
\* apply's status patch. On failure the hash and mode of the copy are kept; a
\* failed patch is only logged.
RecordSync ==
  /\ ppc = "failed" \/ (ppc = "configure" /\ pending = {})
  /\ \/ /\ prov # None
        /\ prov' = [prov EXCEPT
             !.ready = (ppc = "configure"), !.observed = pobj.gen,
             !.hash = IF ppc = "configure"
                      THEN hash_material(creds, pobj.config) ELSE Merged(pobj.hash, @),
             !.mode = IF ppc = "configure" THEN mode(plan) ELSE Merged(pobj.mode, @)]
        /\ UNCHANGED troubles
     \/ prov = None /\ UNCHANGED prov /\ UNCHANGED troubles
     \/ UNCHANGED prov /\ Trouble
  /\ SyncDone
  /\ UNCHANGED <<secret, prof, gateway, caches, import>>

AbsentIsErrorVariant ==
  /\ ppc = "idle" /\ pcache # None /\ pcache.deleting /\ pcache.fin
  /\ gprov # None /\ gprov' = None
  /\ \/ ppc' = "release" /\ pobj' = pcache /\ Reads(pcache, prov)
     \/ UNCHANGED <<ppc, pobj>> /\ Trouble
  /\ UNCHANGED <<resources, gprof, caches, creds, plan, found, pending, import>>
\* cleanup, its delete_provider: an absent provider is deleted.
CleanupProvider ==
  /\ ppc = "idle" /\ pcache # None /\ pcache.deleting /\ pcache.fin
  /\ gprov' = None
  /\ \/ ppc' = "release" /\ pobj' = pcache /\ Reads(pcache, prov)
     \/ UNCHANGED <<ppc, pobj>> /\ Trouble
  /\ UNCHANGED <<resources, gprof, caches, creds, plan, found, pending, import>>

\* The API server removes an object being deleted with its last finalizer.
Released(resource) ==
  IF resource = None \/ ~resource.fin THEN resource
  ELSE IF resource.deleting THEN None ELSE [resource EXCEPT !.fin = FALSE]

ReleaseProvider ==
  /\ ppc = "release"
  /\ \/ prov' = Released(prov) /\ (UNCHANGED troubles \/ Trouble)
     \/ UNCHANGED prov /\ Trouble
  /\ listed' = (listed /\ prov' # None)
  /\ SyncDone
  /\ UNCHANGED <<secret, prof, gateway, caches, fpc, fobj, fversion>>

-------------------------------------------------------------------------------
\* The profile's loop.

ImportAnswered(next) == \/ fpc' = next /\ UNCHANGED troubles
                        \/ fpc' = "failed" /\ Trouble

AddProfileFinalizer ==
  /\ fpc = "idle" /\ Reads(fcache, prof) /\ Live(fcache) /\ ~fcache.fin
  /\ Live(prof) /\ ~prof.fin
  /\ prof' = [prof EXCEPT !.fin = TRUE]
  /\ UNCHANGED <<prov, secret, gateway, caches, sync, import>>

\* apply: to_proto validates the document, then upsert_provider_profile reads
\* the stored version.
StartImport ==
  /\ fpc = "idle" /\ Reads(fcache, prof) /\ Live(fcache) /\ fcache.fin
  /\ fobj' = fcache
  /\ \/ /\ fcache.document.valid
        /\ fpc' = "put"
        /\ fversion' = IF gprof = None THEN None ELSE gprof.version
     \/ ~fcache.document.valid /\ fpc' = "failed" /\ UNCHANGED fversion
  /\ UNCHANGED <<resources, gateway, caches, sync, listed>>

\* A new version for new contents.
Stored(d) ==
  IF gprof = None THEN [document |-> d, version |-> 1]
  ELSE IF gprof.document = d THEN gprof
  ELSE [document |-> d, version |-> gprof.version + 1]

ImportOnlyVariant ==
  /\ fpc = "put"
  /\ \/ /\ gprof = None
        /\ gprof' = Stored(fobj.document) /\ fversion' = gprof'.version
        /\ ImportAnswered("succeeded")
     \/ gprof # None /\ fpc' = "failed" /\ UNCHANGED troubles /\ UNCHANGED <<gprof, fversion>>
  /\ UNCHANGED <<resources, gprov, caches, sync, fobj, listed>>
\* Its update, if the version is still the one it read, or its import, if there
\* is still none; the gateway refuses anything else.
PutProfile ==
  /\ fpc = "put"
  /\ LET stored == IF gprof = None THEN None ELSE gprof.version
     IN  \/ /\ fversion = stored
            /\ gprof' = Stored(fobj.document) /\ fversion' = gprof'.version
            /\ ImportAnswered("succeeded")
         \/ /\ fversion # stored
            /\ fpc' = "failed" /\ UNCHANGED troubles /\ UNCHANGED <<gprof, fversion>>
  /\ UNCHANGED <<resources, gprov, caches, sync, fobj, listed>>

ImportCallFails ==
  /\ fpc = "put" /\ Trouble
  /\ fpc' = "failed"
  /\ UNCHANGED <<resources, gateway, caches, sync, fobj, fversion, listed>>

\* apply's status patch, with the stored version on success.
RecordImport ==
  /\ fpc \in {"succeeded", "failed"}
  /\ \/ /\ prof # None
        /\ prof' = [prof EXCEPT !.ready = (fpc = "succeeded"),
             !.version = Merged(IF fpc = "succeeded" THEN fversion ELSE fobj.version, @)]
        /\ UNCHANGED troubles
     \/ prof = None /\ UNCHANGED prof /\ UNCHANGED troubles
     \/ UNCHANGED prof /\ Trouble
  /\ ImportDone
  /\ UNCHANGED <<prov, secret, gateway, caches, sync>>

IgnoresDeletingVariant ==
  /\ fpc = "idle" /\ Reads(fcache, prof) /\ fcache # None /\ fcache.deleting /\ fcache.fin
  /\ fobj' = fcache
  /\ listed' = (prov # None)
  /\ fpc' = IF Live(prov) THEN "refuse" ELSE "delete"
  /\ UNCHANGED <<resources, gateway, caches, sync, fversion>>
\* cleanup, its count_referencing: a provider being deleted still counts.
CountProviders ==
  /\ fpc = "idle" /\ Reads(fcache, prof) /\ fcache # None /\ fcache.deleting /\ fcache.fin
  /\ fobj' = fcache
  /\ listed' = (prov # None)
  /\ fpc' = IF prov # None THEN "refuse" ELSE "delete"
  /\ UNCHANGED <<resources, gateway, caches, sync, fversion>>

\* refuse_in_use: Ready=False in the status, and the finalizer stays.
RefuseInUse ==
  /\ fpc = "refuse"
  /\ \/ /\ prof # None
        /\ prof' = [prof EXCEPT !.ready = FALSE,
                      !.version = Merged(fobj.version, @)]
        /\ UNCHANGED troubles
     \/ prof = None /\ UNCHANGED prof /\ UNCHANGED troubles
     \/ UNCHANGED prof /\ Trouble
  /\ ImportDone
  /\ UNCHANGED <<prov, secret, gateway, caches, sync>>

\* delete_provider_profile: an absent profile is deleted.
DeleteProfileOnGateway ==
  /\ fpc = "delete"
  /\ \/ gprof' = None /\ fpc' = "release" /\ UNCHANGED troubles /\ UNCHANGED <<fobj, fversion, listed>>
     \/ gprof' = None /\ ImportDone /\ Trouble
     \/ UNCHANGED gprof /\ ImportDone /\ Trouble
  /\ UNCHANGED <<resources, gprov, caches, sync>>

ReleaseProfile ==
  /\ fpc = "release"
  /\ \/ prof' = Released(prof) /\ (UNCHANGED troubles \/ Trouble)
     \/ UNCHANGED prof /\ Trouble
  /\ ImportDone
  /\ UNCHANGED <<prov, secret, gateway, caches, sync>>

-------------------------------------------------------------------------------
SyncLoop ==
  \/ AddProviderFinalizer \/ StartSync \/ FindProfile
  \/ PutProvider \/ ConfigureRefresh \/ RecordSync
  \/ CleanupProvider \/ ReleaseProvider

ImportLoop ==
  \/ AddProfileFinalizer \/ StartImport \/ PutProfile \/ RecordImport
  \/ CountProviders \/ RefuseInUse \/ DeleteProfileOnGateway \/ ReleaseProfile

Environment ==
  \/ \E k \in KeySets, c \in Configs : CreateProvider(k, c) \/ EditProvider(k, c)
  \/ \E d \in Documents : CreateProfile(d) \/ EditProfile(d) \/ ProfileRewritten(d)
  \/ \E s \in Secrets \cup {None} : ChangeSecret(s)
  \/ DeleteProvider \/ DeleteProfile \/ ProviderVanishes

Next ==
  \/ SyncLoop \/ ImportLoop \/ Environment
  \/ ProviderWatchDelivers \/ ProfileWatchDelivers
  \/ Restart \/ SyncCallFails \/ ImportCallFails

Spec == Init /\ [][Next]_vars

\* Both controllers requeue every object, and the watches deliver.
Fairness ==
  /\ WF_vars(SyncLoop) /\ WF_vars(ImportLoop)
  /\ WF_vars(ProviderWatchDelivers) /\ WF_vars(ProfileWatchDelivers)

FairSpec == Spec /\ Fairness

-------------------------------------------------------------------------------
TypeOK ==
  /\ prov \in ProviderResource \cup {None} /\ pcache \in ProviderResource \cup {None}
  /\ prof \in ProfileResource \cup {None} /\ fcache \in ProfileResource \cup {None}
  /\ secret \in Secrets \cup {None}
  /\ gprov \in GatewayProvider \cup {None} /\ gprof \in GatewayProfile \cup {None}
  /\ ppc \in {"idle", "profile", "put", "configure", "failed", "release"}
  /\ pobj \in ProviderResource \cup {None}
  /\ creds \in Maps \cup {None} /\ plan \in Plan \cup {None}
  /\ found \in BOOLEAN /\ pending \subseteq Names
  /\ fpc \in {"idle", "put", "succeeded", "failed", "refuse", "delete", "release"}
  /\ fobj \in ProfileResource \cup {None} /\ fversion \in Nat \cup {None}
  /\ listed \in BOOLEAN
  /\ troubles \in 0..MaxTroubles

\* The gateway holds exactly the material the hash stands for: every value is
\* stored or the seed of a refresh, and nothing else is stored.
Holds(hash) ==
  /\ gprov.config = hash.config
  /\ \A k \in Entries(hash.credentials) :
       \/ gprov.static[k] = hash.credentials[k]
       \/ \E c \in Entries(gprov.refreshes) :
            gprov.refreshes[c].material[k] = hash.credentials[k]
  /\ Entries(gprov.static) \subseteq Entries(hash.credentials)

\* When the operator reports a sync as Ready, the gateway holds the material of
\* the hash in the status, all refreshes included, whatever was rotated or
\* failed while it ran; mode Refresh says that no value is stored, and Copied
\* that all are (sync_to_gateway, CredentialMode).
HashVouches ==
  [][(/\ prov # None /\ prov' # None /\ prov'.ready /\ gprov # None
      /\ <<prov'.ready, prov'.observed, prov'.hash, prov'.mode>>
           # <<prov.ready, prov.observed, prov.hash, prov.mode>>)
       => /\ Holds(prov'.hash)
          /\ prov'.mode = "Refresh" => Entries(gprov.static) = {}
          /\ prov'.mode = "Copied" => gprov.static = prov'.hash.credentials]_vars

\* Whatever the operator has on the gateway has a resource with the finalizer,
\* through stops, faults and deletions at any point (cleanup of both loops).
GatewayObjectsOwned ==
  /\ gprov # None => prov # None /\ prov.fin
  /\ gprof # None => prof # None /\ prof.fin

\* The profile is never deleted on the gateway under a provider that was there
\* when the cleanup listed the providers and still is, deleting or not
\* (count_referencing): its last sync may still need the profile.
UsersKeepProfile ==
  [][(gprof # None /\ gprof' = None) => ~listed]_vars

\* Once changes stop, the provider on the gateway is what the Secret, the
\* resource and the profile ask for, and the status says so; a Secret that
\* cannot be used is reported (apply, sync_provider).
SyncConverges ==
  <>[](Live(prov) =>
         LET wanted == resolve_credentials(secret, prov.keys)
             made == plan_credentials(find_profile, wanted)
         IN  IF wanted = None THEN ~prov.ready
             ELSE /\ gprov # None /\ gprov.static = made.static
                  /\ gprov.config = prov.config
                  /\ \A c \in Entries(made.refreshes) :
                       gprov.refreshes[c] = made.refreshes[c]
                  /\ prov.ready /\ prov.observed = prov.gen
                  /\ prov.hash = hash_material(wanted, prov.config)
                  /\ prov.mode = mode(made))

\* Once changes stop, a valid profile is what the gateway has, whoever wrote to
\* it in between, and the status carries its version; an invalid one is
\* reported (upsert_provider_profile, apply).
ProfileConverges ==
  <>[](Live(prof) =>
         IF prof.document.valid
         THEN /\ gprof # None /\ gprof.document = prof.document
              /\ prof.ready /\ prof.version = gprof.version
         ELSE ~prof.ready)

\* A deleted provider disappears; a deleted profile does once its providers
\* are gone for good (cleanup of both loops).
DeletionsComplete ==
  <>[](/\ prov # None => ~prov.deleting
       /\ (prof # None /\ prof.deleting) => prov # None)
===============================================================================
