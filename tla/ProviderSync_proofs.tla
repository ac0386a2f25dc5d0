-------------------------- MODULE ProviderSync_proofs --------------------------
(***************************************************************************)
(* The safety properties of the provider and profile loops for any keys,   *)
(* values, credentials and bounds: what a plan covers, what a Ready status *)
(* vouches for, and that nothing on the gateway outlives its resource.     *)
(*                                                                         *)
(* Owned carries the last: a loop writes to the gateway, and its cache     *)
(* shows a live object with the finalizer, only while the stored object    *)
(* has it, and a loop that is about to release has deleted what was there. *)
(* Synced carries the second: between the put and the status patch the     *)
(* gateway holds the plan but for the refreshes still pending, and every   *)
(* plan covers the values it was made from.                                *)
(***************************************************************************)
EXTENDS ProviderSync, TLAPS

USE CredentialsAssumption, ProviderAssumption

-------------------------------------------------------------------------------
\* Plans.

\* Every resolved value is copied or a seed, and nothing else is copied.
Covers(p, resolved) ==
  /\ \A k \in Entries(resolved) :
       \/ p.static[k] = resolved[k]
       \/ \E c \in Entries(p.refreshes) : p.refreshes[c].material[k] = resolved[k]
  /\ Entries(p.static) \subseteq Entries(resolved)
  /\ Entries(p.refreshes) = {} => p.static = resolved

LEMMA OnlyMap ==
  ASSUME NEW m \in Maps, NEW S
  PROVE  /\ Only(m, S) \in Maps
         /\ \A k \in Keys : Only(m, S)[k] = IF k \in S THEN m[k] ELSE None
  BY DEF Maps, Only

LEMMA ResolvedType ==
  ASSUME NEW s \in Secret \cup {None}, NEW keys \in SUBSET Keys
  PROVE  resolve_credentials(s, keys) \in Maps \cup {None}
<1>1. CASE s = None \/ ~is_entitled(s)
  BY <1>1 DEF resolve_credentials
<1>2. CASE s # None /\ is_entitled(s)
  <2>1. s.data \in Maps
    BY <1>2 DEF Secret
  <2>2. \A S : Only(s.data, S) \in Maps
    BY <2>1, OnlyMap
  <2> QED
    BY <1>2, <2>2 DEF resolve_credentials, extract_credentials
<1> QED
  BY <1>1, <1>2

LEMMA ViewType ==
  ASSUME NEW cs \in ProfileCredentials
  PROVE  \A c \in Names :
           /\ provider_profile_view(cs)[c] \in RefreshSpec \cup {None}
           /\ provider_profile_view(cs)[c] # None
                => provider_profile_view(cs)[c].strategy \in RefreshStrategy
  BY DEF ProfileCredentials, provider_profile_view, refresh_spec

LEMMA MaterialType ==
  ASSUME NEW spec \in RefreshSpec, NEW resolved \in Maps
  PROVE  /\ build_refresh_material(spec, resolved) \in Maps \cup {None}
         /\ build_refresh_material(spec, resolved) # None
              => \A k \in Entries(build_refresh_material(spec, resolved)) :
                   k \in Keys /\ build_refresh_material(spec, resolved)[k] = resolved[k]
<1> DEFINE S == {m.name : m \in spec.material}
<1>1. Only(resolved, S) \in Maps
  BY OnlyMap
<1>2. \A k \in Entries(Only(resolved, S)) :
        k \in Keys /\ Only(resolved, S)[k] = resolved[k]
  BY <1>1, OnlyMap DEF Entries, Maps
<1>3. \/ build_refresh_material(spec, resolved) = Only(resolved, S)
      \/ build_refresh_material(spec, resolved) = None
  BY DEF build_refresh_material
<1> HIDE DEF S
<1> QED
  BY <1>1, <1>2, <1>3

\* The views plan_credentials is called with.
Views == {v \in [Names -> RefreshSpec \cup {None}] :
            \A c \in Names : v[c] # None => v[c].strategy \in RefreshStrategy}

\* Whatever the profile says, a value of the Secret is copied or is the seed of
\* a refresh, and none is copied that the Secret did not hold
\* (plan_credentials, build_refresh_material).
THEOREM PlanCovers ==
  ASSUME NEW view \in Views, NEW resolved \in Maps
  PROVE  /\ plan_credentials(view, resolved) \in Plan
         /\ Covers(plan_credentials(view, resolved), resolved)
<1> DEFINE built == [c \in Names |->
             IF view[c] = None \/ view[c].strategy = "AwsStsAssumeRole" THEN None
             ELSE build_refresh_material(view[c], resolved)]
           consumed == UNION {Entries(built[c]) : c \in Entries(built)}
           static == Only(resolved, Keys \ consumed)
           refreshes == [c \in Names |-> IF built[c] = None THEN None
             ELSE [strategy |-> view[c].strategy, material |-> built[c]]]
           p == plan_credentials(view, resolved)
<1>1. p = [static |-> static, refreshes |-> refreshes]
  BY DEF plan_credentials
<1>2. \A c \in Names : built[c] # None =>
        /\ view[c] \in RefreshSpec /\ view[c].strategy \in RefreshStrategy
        /\ built[c] = build_refresh_material(view[c], resolved)
  BY DEF Views
<1>3. \A c \in Names : built[c] # None =>
        /\ built[c] \in Maps
        /\ \A k \in Entries(built[c]) : k \in Keys /\ built[c][k] = resolved[k]
  BY <1>2, MaterialType
<1>4. Entries(built) = {c \in Names : built[c] # None}
  BY DEF Entries
<1>5. static \in Maps /\ \A k \in Keys : static[k] = IF k \in consumed THEN None ELSE resolved[k]
  <2> HIDE DEF built, consumed
  <2> QED
    BY OnlyMap
<1>6. refreshes \in Refreshes
  BY <1>2, <1>3 DEF Refreshes, RefreshPlan
<1>7. \A c \in Names : /\ built[c] = None => refreshes[c] = None
                       /\ built[c] # None => /\ refreshes[c] # None
                                             /\ refreshes[c].material = built[c]
  BY <1>6, <1>2, <1>3 DEF Refreshes, RefreshPlan
<1>8. Entries(refreshes) = Entries(built)
  BY <1>4, <1>7 DEF Entries
<1>9. \A k \in consumed : \E c \in Entries(built) : k \in Entries(built[c])
  BY DEF Entries
<1> HIDE DEF built, consumed, static, refreshes, p
<1>10. \A k \in Entries(resolved) :
         \/ static[k] = resolved[k]
         \/ \E c \in Entries(refreshes) : refreshes[c].material[k] = resolved[k]
  <2> SUFFICES ASSUME NEW k \in Entries(resolved), k \in consumed
               PROVE  \E c \in Entries(refreshes) : refreshes[c].material[k] = resolved[k]
    BY <1>5 DEF Entries, Maps
  <2>1. PICK c \in Entries(built) : k \in Entries(built[c])
    BY <1>9
  <2>2. c \in Names /\ built[c] # None
    BY <1>4, <2>1
  <2> QED
    BY <1>3, <1>7, <1>8, <2>1, <2>2
<1>11. Entries(static) \subseteq Entries(resolved)
  BY <1>5 DEF Entries, Maps
<1>12. ASSUME Entries(refreshes) = {}
       PROVE  static = resolved
  <2>1. consumed = {}
    BY <1>8, <1>9, <1>12
  <2> QED
    BY <1>5, <2>1 DEF Maps
<1>13. p \in Plan /\ Covers(p, resolved)
  BY <1>1, <1>5, <1>6, <1>10, <1>11, <1>12 DEF Plan, Covers
<1> QED
  BY <1>13 DEF p
-------------------------------------------------------------------------------
\* Types, and which copies a reconcile holds at which call.

Copies ==
  /\ ppc # "idle" => pobj # None
  /\ ppc \in {"profile", "put", "configure"} => creds # None
  /\ ppc \in {"put", "configure"} => plan # None
  /\ fpc \in {"put", "succeeded", "failed", "refuse"} => fobj # None
  /\ fpc = "succeeded" => fversion # None

Typed == TypeOK /\ Copies

\* What the writes make of a resource.
LEMMA FreshType ==
  /\ \A k \in KeySets, c \in Configs :
       /\ FreshProvider(k, c) \in ProviderResource
       /\ ~FreshProvider(k, c).fin /\ ~FreshProvider(k, c).deleting
  /\ \A d \in Documents :
       /\ FreshProfile(d) \in ProfileResource
       /\ ~FreshProfile(d).fin /\ ~FreshProfile(d).deleting
  BY DEF FreshProvider, ProviderResource, FreshProfile, ProfileResource

LEMMA ProviderEdit ==
  ASSUME NEW r \in ProviderResource, NEW k \in KeySets, NEW c \in Configs, NEW n \in Nat
  PROVE  [r EXCEPT !.keys = k, !.config = c, !.gen = n] \in ProviderResource
  BY DEF ProviderResource

LEMMA ProviderMark ==
  ASSUME NEW r \in ProviderResource
  PROVE  /\ LET v == [r EXCEPT !.fin = TRUE]
            IN  /\ v \in ProviderResource /\ v.fin /\ v.deleting = r.deleting
                /\ v.ready = r.ready /\ v.observed = r.observed
                /\ v.hash = r.hash /\ v.mode = r.mode
         /\ LET v == [r EXCEPT !.fin = FALSE]
            IN  /\ v \in ProviderResource /\ ~v.fin /\ v.deleting = r.deleting
                /\ v.ready = r.ready /\ v.observed = r.observed
                /\ v.hash = r.hash /\ v.mode = r.mode
         /\ LET v == [r EXCEPT !.deleting = TRUE]
            IN  /\ v \in ProviderResource /\ v.deleting /\ v.fin = r.fin
                /\ v.ready = r.ready /\ v.observed = r.observed
                /\ v.hash = r.hash /\ v.mode = r.mode
  BY DEF ProviderResource

LEMMA ProviderStatus ==
  ASSUME NEW r \in ProviderResource, NEW b \in BOOLEAN, NEW n \in Nat,
         NEW h \in Hashes \cup {None}, NEW m \in CredentialMode \cup {None}
  PROVE  [r EXCEPT !.ready = b, !.observed = n, !.hash = h, !.mode = m] \in ProviderResource
  BY DEF ProviderResource

LEMMA ProfileEdit ==
  ASSUME NEW r \in ProfileResource, NEW d \in Documents
  PROVE  LET v == [r EXCEPT !.document = d]
         IN  v \in ProfileResource /\ v.fin = r.fin /\ v.deleting = r.deleting
  BY DEF ProfileResource

LEMMA ProfileMark ==
  ASSUME NEW r \in ProfileResource
  PROVE  /\ LET v == [r EXCEPT !.fin = TRUE]
            IN  v \in ProfileResource /\ v.fin /\ v.deleting = r.deleting
         /\ LET v == [r EXCEPT !.fin = FALSE]
            IN  v \in ProfileResource /\ ~v.fin /\ v.deleting = r.deleting
         /\ LET v == [r EXCEPT !.deleting = TRUE]
            IN  v \in ProfileResource /\ v.deleting /\ v.fin = r.fin
  BY DEF ProfileResource

LEMMA ProfileStatus ==
  ASSUME NEW r \in ProfileResource, NEW b \in BOOLEAN, NEW n \in Nat \cup {None}
  PROVE  [r EXCEPT !.ready = b, !.version = n] \in ProfileResource
  BY DEF ProfileResource

LEMMA ReleasedType ==
  /\ prov \in ProviderResource \cup {None} => Released(prov) \in ProviderResource \cup {None}
  /\ prof \in ProfileResource \cup {None} => Released(prof) \in ProfileResource \cup {None}
  BY ProviderMark, ProfileMark DEF Released

LEMMA InitTyped == Init => Typed
<1> SUFFICES ASSUME Init PROVE Typed
  OBVIOUS
<1>1. prov \in ProviderResource \cup {None} /\ prof \in ProfileResource \cup {None}
  BY FreshType DEF Init
<1>2. found \in BOOLEAN /\ listed \in BOOLEAN
  BY Zenon DEF Init
<1> QED
  BY <1>1, <1>2 DEF Init, Typed, TypeOK, Copies

\* What FindProfile plans.
LEMMA PlanType ==
  ASSUME Typed, ppc = "profile"
  PROVE  /\ plan_credentials(find_profile, creds) \in Plan
         /\ Covers(plan_credentials(find_profile, creds), creds)
<1>1. creds \in Maps
  BY DEF Typed, TypeOK, Copies
<1>2. find_profile \in Views
  <2>1. CASE gprof = None
    BY <2>1 DEF find_profile, NoRefreshes, Views
  <2>2. CASE gprof # None
    <3>1. gprof.document.credentials \in ProfileCredentials
      BY <2>2 DEF Typed, TypeOK, GatewayProfile, Document
    <3>2. provider_profile_view(gprof.document.credentials) \in Views
      BY <3>1, ViewType DEF provider_profile_view, Views
    <3> QED
      BY <2>2, <3>2 DEF find_profile
  <2> QED
    BY <2>1, <2>2
<1> QED
  BY <1>1, <1>2, PlanCovers

LEMMA ProviderUsersTyped ==
  ASSUME Typed,
         \/ \E k \in KeySets, c \in Configs : CreateProvider(k, c) \/ EditProvider(k, c)
         \/ DeleteProvider \/ ProviderVanishes
         \/ \E s \in Secrets \cup {None} : ChangeSecret(s)
  PROVE  Typed'
<1> USE DEF Typed, TypeOK, Copies, Trouble, Live, resources, gateway, caches, sync, import
<1>1. ASSUME NEW k \in KeySets, NEW c \in Configs, CreateProvider(k, c)
      PROVE  Typed'
  BY <1>1, FreshType DEF CreateProvider
<1>2. ASSUME NEW k \in KeySets, NEW c \in Configs, EditProvider(k, c)
      PROVE  Typed'
  <2>1. prov \in ProviderResource
    BY <1>2 DEF EditProvider
  <2>2. prov.gen + 1 \in Nat
    BY <2>1 DEF ProviderResource
  <2>3. prov' \in ProviderResource
    BY <1>2, <2>1, <2>2, ProviderEdit DEF EditProvider
  <2>4. Trouble /\ UNCHANGED <<secret, prof, gateway, caches, sync, import>>
    BY <1>2, Zenon DEF EditProvider
  <2> QED
    BY <2>3, <2>4
<1>3. CASE DeleteProvider
  <2>1. prov' \in ProviderResource \cup {None}
    BY <1>3, ProviderMark DEF DeleteProvider, Deleted
  <2>2. listed' \in BOOLEAN
    BY <1>3, Zenon DEF DeleteProvider
  <2> QED
    BY <1>3, <2>1, <2>2 DEF DeleteProvider
<1>4. CASE ProviderVanishes
  BY <1>4 DEF ProviderVanishes
<1>5. ASSUME NEW s \in Secrets \cup {None}, ChangeSecret(s)
      PROVE  Typed'
  BY <1>5 DEF ChangeSecret
<1> QED
  BY <1>1, <1>2, <1>3, <1>4, <1>5

LEMMA ProfileUsersTyped ==
  ASSUME Typed,
         \/ \E d \in Documents : CreateProfile(d) \/ EditProfile(d) \/ ProfileRewritten(d)
         \/ DeleteProfile
  PROVE  Typed'
<1> USE DEF Typed, TypeOK, Copies, Trouble, Live, resources, gateway, caches, sync, import
<1>1. ASSUME NEW d \in Documents, CreateProfile(d)
      PROVE  Typed'
  BY <1>1, FreshType DEF CreateProfile
<1>2. ASSUME NEW d \in Documents, EditProfile(d)
      PROVE  Typed'
  <2>1. prof' \in ProfileResource
    BY <1>2, ProfileEdit DEF EditProfile
  <2> QED
    BY <1>2, <2>1 DEF EditProfile
<1>3. ASSUME NEW d \in Documents, ProfileRewritten(d)
      PROVE  Typed'
  BY <1>3 DEF ProfileRewritten, GatewayProfile
<1>4. CASE DeleteProfile
  <2>1. prof' \in ProfileResource \cup {None}
    BY <1>4, ProfileMark DEF DeleteProfile, Deleted
  <2> QED
    BY <1>4, <2>1 DEF DeleteProfile
<1> QED
  BY <1>1, <1>2, <1>3, <1>4

LEMMA ProcessTyped ==
  ASSUME Typed,
         \/ ProviderWatchDelivers \/ ProfileWatchDelivers \/ Restart
         \/ SyncCallFails \/ ImportCallFails
  PROVE  Typed'
<1> USE DEF Typed, TypeOK, Copies, Trouble, resources, gateway, caches, sync, import
<1>1. CASE ProviderWatchDelivers \/ ProfileWatchDelivers
  BY <1>1 DEF ProviderWatchDelivers, ProfileWatchDelivers
<1>2. CASE Restart
  <2>1. found' \in BOOLEAN /\ listed' \in BOOLEAN
    BY <1>2, Zenon DEF Restart, SyncDone, ImportDone
  <2> QED
    BY <1>2, <2>1 DEF Restart, SyncDone, ImportDone
<1>3. CASE SyncCallFails \/ ImportCallFails
  BY <1>3 DEF SyncCallFails, ImportCallFails
<1> QED
  BY <1>1, <1>2, <1>3

LEMMA OutcomeType ==
  ASSUME Typed, RecordSync, prov # None
  PROVE  /\ prov' \in ProviderResource
         /\ prov'.fin = prov.fin /\ prov'.deleting = prov.deleting
<1> DEFINE h == IF ppc = "configure" THEN hash_material(creds, pobj.config)
                ELSE Merged(pobj.hash, prov.hash)
           m == IF ppc = "configure" THEN mode(plan) ELSE Merged(pobj.mode, prov.mode)
<1>1. pobj \in ProviderResource /\ prov \in ProviderResource
  BY DEF Typed, TypeOK, Copies, RecordSync
<1>2. pobj.gen \in Nat /\ (ppc = "configure") \in BOOLEAN
  BY <1>1 DEF ProviderResource
<1>3. ppc = "configure" => /\ hash_material(creds, pobj.config) \in Hashes
                           /\ mode(plan) \in CredentialMode
  BY <1>1 DEF Typed, TypeOK, Copies, Hashes, hash_material, mode, CredentialMode,
              ProviderResource
<1>4. h \in Hashes \cup {None} /\ m \in CredentialMode \cup {None}
  BY <1>1, <1>3 DEF Merged, ProviderResource
<1>5. \/ prov' = [prov EXCEPT !.ready = (ppc = "configure"), !.observed = pobj.gen,
                              !.hash = h, !.mode = m]
      \/ prov' = prov
  BY DEF RecordSync
<1> HIDE DEF h, m
<1>6. [prov EXCEPT !.ready = (ppc = "configure"), !.observed = pobj.gen,
                   !.hash = h, !.mode = m] \in ProviderResource
  BY <1>1, <1>2, <1>4, ProviderStatus
<1>7. prov' \in ProviderResource
  BY <1>1, <1>5, <1>6
<1>8. prov'.fin = prov.fin /\ prov'.deleting = prov.deleting
  BY <1>1, <1>5 DEF ProviderResource
<1> QED
  BY <1>7, <1>8

LEMMA SyncTyped ==
  ASSUME Typed, SyncLoop
  PROVE  Typed'
<1> USE DEF Typed, TypeOK, Copies, Trouble, resources, gateway, caches, sync, import
<1>1. CASE AddProviderFinalizer
  <2>1. prov' \in ProviderResource
    BY <1>1, ProviderMark DEF AddProviderFinalizer, Live
  <2> QED
    BY <1>1, <2>1 DEF AddProviderFinalizer, Reads
<1>2. CASE StartSync
  <2>1. pcache \in ProviderResource /\ pcache.keys \in SUBSET Keys
    BY <1>2 DEF StartSync, Live, ProviderResource
  <2>2. creds' \in Maps \cup {None}
    BY <1>2, <2>1, ResolvedType DEF StartSync
  <2> QED
    BY <1>2, <2>1, <2>2 DEF StartSync, Reads
<1>3. CASE FindProfile
  <2>1. plan' \in Plan
    BY <1>3, PlanType DEF FindProfile
  <2>2. pending' \subseteq Names
    BY <1>3, <2>1 DEF FindProfile, Entries, Plan, Refreshes
  <2> QED
    BY <1>3, <2>1, <2>2 DEF FindProfile
<1>4. CASE PutProvider
  <2>1. gprov' \in GatewayProvider \cup {None}
    BY <1>4 DEF PutProvider, GatewayProvider, ProviderResource, Plan, NoRefreshes, Refreshes
  <2> QED
    BY <1>4, <2>1 DEF PutProvider, SyncAnswered
<1>5. CASE ConfigureRefresh
  <2>1. gprov' \in GatewayProvider \cup {None}
    BY <1>5 DEF ConfigureRefresh, GatewayProvider, Plan, Refreshes
  <2> QED
    BY <1>5, <2>1 DEF ConfigureRefresh, SyncAnswered
<1>6. CASE RecordSync
  <2>1. prov' \in ProviderResource \cup {None}
    BY <1>6, OutcomeType DEF RecordSync
  <2>2. found' \in BOOLEAN
    BY <1>6, Zenon DEF RecordSync, SyncDone
  <2> QED
    BY <1>6, <2>1, <2>2 DEF RecordSync, SyncDone
<1>7. CASE CleanupProvider
  BY <1>7 DEF CleanupProvider, Reads
<1>8. CASE ReleaseProvider
  <2>1. prov' \in ProviderResource \cup {None}
    BY <1>8, ReleasedType DEF ReleaseProvider
  <2>2. found' \in BOOLEAN /\ listed' \in BOOLEAN
    BY <1>8, Zenon DEF ReleaseProvider, SyncDone
  <2> QED
    BY <1>8, <2>1, <2>2 DEF ReleaseProvider, SyncDone
<1> QED
  BY <1>1, <1>2, <1>3, <1>4, <1>5, <1>6, <1>7, <1>8 DEF SyncLoop

LEMMA ImportOutcomeType ==
  ASSUME Typed, RecordImport \/ RefuseInUse, prof # None
  PROVE  /\ prof' \in ProfileResource
         /\ prof'.fin = prof.fin /\ prof'.deleting = prof.deleting
<1>1. fobj \in ProfileResource /\ prof \in ProfileResource
  BY DEF Typed, TypeOK, Copies, RecordImport, RefuseInUse
<1>2. (fpc = "succeeded") \in BOOLEAN /\ FALSE \in BOOLEAN
  OBVIOUS
<1>3. /\ Merged(fobj.version, prof.version) \in Nat \cup {None}
      /\ Merged(IF fpc = "succeeded" THEN fversion ELSE fobj.version, prof.version)
           \in Nat \cup {None}
  BY <1>1 DEF Typed, TypeOK, Merged, ProfileResource
<1>4. /\ [prof EXCEPT !.ready = FALSE, !.version = Merged(fobj.version, @)] \in ProfileResource
      /\ [prof EXCEPT !.ready = (fpc = "succeeded"),
            !.version = Merged(IF fpc = "succeeded" THEN fversion ELSE fobj.version, @)]
           \in ProfileResource
  BY <1>1, <1>2, <1>3, ProfileStatus
<1>5. prof' \in ProfileResource
  BY <1>1, <1>4 DEF RecordImport, RefuseInUse
<1>6. prof'.fin = prof.fin /\ prof'.deleting = prof.deleting
  BY <1>1 DEF RecordImport, RefuseInUse, ProfileResource
<1> QED
  BY <1>5, <1>6

LEMMA ImportTyped ==
  ASSUME Typed, ImportLoop
  PROVE  Typed'
<1> USE DEF Typed, TypeOK, Copies, Trouble, resources, gateway, caches, sync, import
<1>1. CASE AddProfileFinalizer
  <2>1. prof' \in ProfileResource
    BY <1>1, ProfileMark DEF AddProfileFinalizer, Live
  <2> QED
    BY <1>1, <2>1 DEF AddProfileFinalizer, Reads
<1>2. CASE StartImport
  BY <1>2 DEF StartImport, Reads, Live, GatewayProfile
<1>3. CASE PutProfile
  <2>1. Stored(fobj.document) \in GatewayProfile \/ fpc # "put"
    BY DEF Stored, GatewayProfile, ProfileResource
  <2>2. gprof' \in GatewayProfile \cup {None} /\ fversion' \in Nat \cup {None}
        /\ (fpc' = "succeeded" => fversion' # None)
    BY <1>3, <2>1 DEF PutProfile, ImportAnswered, GatewayProfile
  <2> QED
    BY <1>3, <2>2 DEF PutProfile, ImportAnswered
<1>4. CASE RecordImport
  <2>1. prof' \in ProfileResource \cup {None}
    BY <1>4, ImportOutcomeType DEF RecordImport
  <2>2. listed' \in BOOLEAN
    BY <1>4, Zenon DEF RecordImport, ImportDone
  <2> QED
    BY <1>4, <2>1, <2>2 DEF RecordImport, ImportDone
<1>5. CASE CountProviders
  BY <1>5 DEF CountProviders, Reads
<1>6. CASE RefuseInUse
  <2>1. prof' \in ProfileResource \cup {None}
    BY <1>6, ImportOutcomeType DEF RefuseInUse
  <2>2. listed' \in BOOLEAN
    BY <1>6, Zenon DEF RefuseInUse, ImportDone
  <2> QED
    BY <1>6, <2>1, <2>2 DEF RefuseInUse, ImportDone
<1>7. CASE DeleteProfileOnGateway
  <2>1. listed' \in BOOLEAN
    BY <1>7, Zenon DEF DeleteProfileOnGateway, ImportDone, Typed, TypeOK
  <2> QED
    BY <1>7, <2>1 DEF DeleteProfileOnGateway, ImportDone
<1>8. CASE ReleaseProfile
  <2>1. prof' \in ProfileResource \cup {None}
    BY <1>8, ReleasedType DEF ReleaseProfile
  <2>2. listed' \in BOOLEAN
    BY <1>8, Zenon DEF ReleaseProfile, ImportDone
  <2> QED
    BY <1>8, <2>1, <2>2 DEF ReleaseProfile, ImportDone
<1> QED
  BY <1>1, <1>2, <1>3, <1>4, <1>5, <1>6, <1>7, <1>8 DEF ImportLoop

LEMMA TypeStep ==
  ASSUME Typed, Next
  PROVE  Typed'
  BY ProviderUsersTyped, ProfileUsersTyped, ProcessTyped, SyncTyped, ImportTyped
     DEF Next, Environment
-------------------------------------------------------------------------------
\* Ownership.

Held(resource) == resource # None /\ resource.fin
LiveHeld(resource) == Held(resource) /\ ~resource.deleting

ProviderOwned ==
  /\ gprov # None => Held(prov)
  /\ ppc \in {"profile", "put", "configure"} => Held(prov)
  /\ LiveHeld(pcache) => Held(prov)
  /\ (pcache # None /\ pcache.deleting) => ~LiveHeld(prov)
  /\ ppc = "release" => gprov = None /\ ~LiveHeld(prov) /\ ~LiveHeld(pcache)

ProfileOwned ==
  /\ gprof # None => Held(prof)
  /\ fpc = "put" => Held(prof)
  /\ LiveHeld(fcache) => Held(prof)
  /\ (fcache # None /\ fcache.deleting) => ~LiveHeld(prof)
  /\ fpc \in {"delete", "release"} => ~LiveHeld(prof) /\ ~LiveHeld(fcache)
  /\ fpc = "release" => gprof = None

LEMMA ProviderOwnedStep ==
  ASSUME Typed, ProviderOwned, Next
  PROVE  ProviderOwned'
<1> USE DEF ProviderOwned, Held, LiveHeld
<1>0. prov \in ProviderResource \cup {None} /\ prof \in ProfileResource \cup {None}
  BY DEF Typed, TypeOK
<1>1. ASSUME NEW k \in KeySets, NEW c \in Configs, CreateProvider(k, c)
      PROVE  ProviderOwned'
  BY <1>1, FreshType DEF CreateProvider, gateway, caches, sync
<1>2. ASSUME NEW k \in KeySets, NEW c \in Configs, EditProvider(k, c)
      PROVE  ProviderOwned'
  <2>1. prov \in ProviderResource
    BY <1>0, <1>2, Zenon DEF EditProvider, Live
  <2>2. prov.gen + 1 \in Nat
    BY <2>1 DEF ProviderResource
  <2>3. prov' = [prov EXCEPT !.keys = k, !.config = c, !.gen = prov.gen + 1]
    BY <1>2, Zenon DEF EditProvider
  <2>4. /\ prov' \in ProviderResource
        /\ prov'.fin = prov.fin /\ prov'.deleting = prov.deleting
    BY <2>1, <2>2, <2>3 DEF ProviderResource
  <2>5. UNCHANGED <<pcache, gprov, ppc>>
    BY <1>2, Zenon DEF EditProvider, gateway, caches, sync
  <2> QED
    BY <2>1, <2>4, <2>5
<1>3. CASE DeleteProvider
  <2>1. CASE prov.fin
    <3>1. prov' \in ProviderResource /\ prov'.fin = prov.fin /\ prov'.deleting
      BY <1>0, <1>3, <2>1, ProviderMark DEF DeleteProvider, Deleted, Live
    <3> QED
      BY <1>3, <2>1, <3>1 DEF DeleteProvider, gateway, caches, sync
  <2>2. CASE ~prov.fin
    BY <1>3, <2>2 DEF DeleteProvider, Deleted, gateway, caches, sync
  <2> QED
    BY <2>1, <2>2
<1>4. CASE ProviderVanishes \/ ProviderWatchDelivers \/ Restart \/ SyncCallFails
  BY <1>4 DEF ProviderVanishes, ProviderWatchDelivers, Restart, SyncCallFails, SyncDone,
              resources, gateway, caches, sync
<1>5. CASE AddProviderFinalizer
  BY <1>0, <1>5, ProviderMark DEF AddProviderFinalizer, Live, gateway, caches, sync
<1>6. CASE StartSync \/ FindProfile
  BY <1>6 DEF StartSync, FindProfile, Live, resources, gateway, caches
<1>7. CASE PutProvider \/ ConfigureRefresh
  BY <1>7 DEF PutProvider, ConfigureRefresh, SyncAnswered, resources, caches
<1>8. CASE RecordSync
  <2>1. /\ prov' = None <=> prov = None
        /\ prov # None => prov'.fin = prov.fin /\ prov'.deleting = prov.deleting
    BY <1>8, OutcomeType DEF RecordSync
  <2> QED
    BY <1>8, <2>1 DEF RecordSync, SyncDone, gateway, caches
<1>9. CASE CleanupProvider
  BY <1>9 DEF CleanupProvider, resources, caches
<1>10. CASE ReleaseProvider
  <2>1. prov' = prov \/ (Held(prov) /\ prov' = None)
    BY <1>10 DEF ReleaseProvider, Released
  <2> QED
    BY <1>10, <2>1 DEF ReleaseProvider, SyncDone, gateway, caches
<1>11. CASE \/ \E s \in Secrets \cup {None} : ChangeSecret(s)
            \/ \E d \in Documents : CreateProfile(d) \/ EditProfile(d) \/ ProfileRewritten(d)
            \/ DeleteProfile \/ ProfileWatchDelivers \/ ImportCallFails \/ ImportLoop
  <2>1. UNCHANGED <<prov, pcache, gprov, ppc>>
    BY <1>11, Zenon
       DEF ChangeSecret, CreateProfile, EditProfile, ProfileRewritten, DeleteProfile,
           ProfileWatchDelivers, ImportCallFails, ImportLoop, AddProfileFinalizer, StartImport,
           PutProfile, RecordImport, CountProviders, RefuseInUse, DeleteProfileOnGateway,
           ReleaseProfile, resources, gateway, caches, sync
  <2> QED
    BY <2>1
<1> QED
  BY <1>1, <1>2, <1>3, <1>4, <1>5, <1>6, <1>7, <1>8, <1>9, <1>10, <1>11
     DEF Next, SyncLoop, Environment

LEMMA ProfileOwnedStep ==
  ASSUME Typed, ProfileOwned, Next
  PROVE  ProfileOwned'
<1> USE DEF ProfileOwned, Held, LiveHeld
<1>0. prof \in ProfileResource \cup {None}
  BY DEF Typed, TypeOK
<1>1. ASSUME NEW d \in Documents, CreateProfile(d) \/ EditProfile(d) \/ ProfileRewritten(d)
      PROVE  ProfileOwned'
  <2>1. CASE CreateProfile(d)
    BY <2>1, FreshType DEF CreateProfile, gateway, caches, import
  <2>2. CASE EditProfile(d)
    BY <1>0, <2>2, ProfileEdit DEF EditProfile, Live, gateway, caches, import
  <2>3. CASE ProfileRewritten(d)
    BY <2>3 DEF ProfileRewritten, resources, caches, import
  <2> QED
    BY <1>1, <2>1, <2>2, <2>3
<1>2. CASE DeleteProfile
  <2>1. CASE prof.fin
    <3>1. prof' \in ProfileResource /\ prof'.fin = prof.fin /\ prof'.deleting
      BY <1>0, <1>2, <2>1, ProfileMark DEF DeleteProfile, Deleted, Live
    <3> QED
      BY <1>2, <2>1, <3>1 DEF DeleteProfile, gateway, caches, import
  <2>2. CASE ~prof.fin
    BY <1>2, <2>2 DEF DeleteProfile, Deleted, gateway, caches, import
  <2> QED
    BY <2>1, <2>2
<1>3. CASE ProfileWatchDelivers \/ Restart \/ ImportCallFails
  BY <1>3 DEF ProfileWatchDelivers, Restart, ImportCallFails, ImportDone,
              resources, gateway, caches, import
<1>4. CASE AddProfileFinalizer
  BY <1>0, <1>4, ProfileMark DEF AddProfileFinalizer, Live, gateway, caches, import
<1>5. CASE StartImport
  BY <1>5 DEF StartImport, Live, resources, gateway, caches
<1>6. CASE PutProfile
  BY <1>6 DEF PutProfile, ImportAnswered, resources, caches
<1>7. CASE RecordImport \/ RefuseInUse
  <2>1. /\ prof' = None <=> prof = None
        /\ prof # None => prof'.fin = prof.fin /\ prof'.deleting = prof.deleting
    BY <1>7, ImportOutcomeType DEF RecordImport, RefuseInUse
  <2> QED
    BY <1>7, <2>1 DEF RecordImport, RefuseInUse, ImportDone, gateway, caches
<1>8. CASE CountProviders
  BY <1>8 DEF CountProviders, resources, gateway, caches
<1>9. CASE DeleteProfileOnGateway
  BY <1>9 DEF DeleteProfileOnGateway, ImportDone, resources, caches
<1>10. CASE ReleaseProfile
  <2>1. prof' = prof \/ (Held(prof) /\ prof' = None)
    BY <1>10 DEF ReleaseProfile, Released
  <2> QED
    BY <1>10, <2>1 DEF ReleaseProfile, ImportDone, gateway, caches
<1>11. CASE \/ \E k \in KeySets, c \in Configs : CreateProvider(k, c) \/ EditProvider(k, c)
            \/ \E s \in Secrets \cup {None} : ChangeSecret(s)
            \/ DeleteProvider \/ ProviderVanishes \/ ProviderWatchDelivers
            \/ SyncCallFails \/ SyncLoop
  <2>1. UNCHANGED <<prof, fcache, gprof, fpc>>
    BY <1>11, Zenon
       DEF CreateProvider, EditProvider, ChangeSecret, DeleteProvider, ProviderVanishes,
           ProviderWatchDelivers, SyncCallFails, SyncLoop, AddProviderFinalizer, StartSync,
           FindProfile, PutProvider, ConfigureRefresh, RecordSync, CleanupProvider,
           ReleaseProvider, resources, gateway, caches, import
  <2> QED
    BY <2>1
<1> QED
  BY <1>1, <1>2, <1>3, <1>4, <1>5, <1>6, <1>7, <1>8, <1>9, <1>10, <1>11
     DEF Next, ImportLoop, Environment
-------------------------------------------------------------------------------
\* What a sync has put on the gateway.

Synced ==
  /\ ppc \in {"put", "configure"} => Covers(plan, creds)
  /\ ppc = "put" => pending = Entries(plan.refreshes)
  /\ (ppc = "configure" /\ gprov # None) =>
       /\ gprov.static = plan.static /\ gprov.config = pobj.config
       /\ \A c \in Entries(plan.refreshes) \ pending :
            gprov.refreshes[c] = plan.refreshes[c]

LEMMA SyncedStep ==
  ASSUME Typed, Synced, Next
  PROVE  Synced'
<1> USE DEF Synced
<1>1. CASE FindProfile
  <2>1. Covers(plan', creds') /\ pending' = Entries(plan'.refreshes)
    BY <1>1, PlanType DEF FindProfile
  <2> QED
    BY <1>1, <2>1 DEF FindProfile
<1>2. CASE PutProvider
  <2>1. UNCHANGED <<plan, creds, pobj, pending>>
    BY <1>2 DEF PutProvider
  <2>2. ppc' = "configure" => gprov'.static = plan.static /\ gprov'.config = pobj.config
    BY <1>2 DEF PutProvider, SyncAnswered
  <2>3. pending = Entries(plan.refreshes) /\ Covers(plan, creds) /\ ppc' # "put"
    BY <1>2 DEF PutProvider, SyncAnswered
  <2> QED
    BY <2>1, <2>2, <2>3
<1>3. CASE ConfigureRefresh
  <2>1. PICK c \in pending :
          /\ pending' = pending \ {c}
          /\ \/ /\ gprov # None
                /\ gprov' = [gprov EXCEPT !.refreshes[c] = plan.refreshes[c]]
                /\ SyncAnswered("configure")
             \/ gprov = None /\ ppc' = "failed" /\ UNCHANGED gprov
    BY <1>3 DEF ConfigureRefresh
  <2>2. ppc = "configure" /\ UNCHANGED <<plan, creds, pobj>>
    BY <1>3 DEF ConfigureRefresh
  <2>3. CASE gprov = None
    BY <2>1, <2>2, <2>3 DEF SyncAnswered
  <2>4. CASE gprov # None
    <3>1. /\ gprov.refreshes \in [Names -> RefreshPlan \cup {None}]
          /\ gprov \in GatewayProvider /\ c \in Names
      BY <2>1, <2>4 DEF Typed, TypeOK, GatewayProvider, Refreshes
    <3>2. /\ gprov'.static = gprov.static /\ gprov'.config = gprov.config
          /\ gprov'.refreshes = [gprov.refreshes EXCEPT ![c] = plan.refreshes[c]]
      BY <2>1, <2>4, <3>1 DEF GatewayProvider
    <3>3. \A b \in Entries(plan.refreshes) \ pending' :
            gprov'.refreshes[b] = plan.refreshes[b]
      <4> SUFFICES ASSUME NEW b \in Entries(plan.refreshes) \ pending'
                   PROVE  gprov'.refreshes[b] = plan.refreshes[b]
        OBVIOUS
      <4>1. CASE b = c
        BY <3>1, <3>2, <4>1
      <4>2. CASE b # c
        <5>1. gprov.refreshes[b] = plan.refreshes[b]
          BY <2>1, <2>2, <2>4, <4>2
        <5> QED
          BY <3>1, <3>2, <4>2, <5>1
      <4> QED
        BY <4>1, <4>2
    <3> QED
      BY <2>1, <2>2, <2>4, <3>2, <3>3 DEF SyncAnswered
  <2> QED
    BY <2>3, <2>4
<1>4. CASE Restart \/ RecordSync \/ ReleaseProvider \/ StartSync \/ SyncCallFails
  BY <1>4 DEF Restart, RecordSync, ReleaseProvider, StartSync, SyncCallFails, SyncDone
<1>5. CASE CleanupProvider
  <2>1. ppc' \in {"idle", "release"}
    BY <1>5 DEF CleanupProvider
  <2> QED
    BY <2>1
<1>6. CASE ProviderVanishes
  BY <1>6 DEF ProviderVanishes, sync
<1>7. CASE ~(FindProfile \/ PutProvider \/ ConfigureRefresh \/ Restart \/ RecordSync
             \/ ReleaseProvider \/ StartSync \/ SyncCallFails \/ CleanupProvider
             \/ ProviderVanishes)
  <2>1. UNCHANGED <<ppc, pobj, creds, plan, pending, gprov>>
    BY <1>7, Zenon
       DEF Next, Environment, SyncLoop, ImportLoop, CreateProvider, EditProvider, DeleteProvider,
           ChangeSecret, CreateProfile, EditProfile, ProfileRewritten, DeleteProfile,
           ProviderWatchDelivers, ProfileWatchDelivers, AddProviderFinalizer, ImportCallFails,
           AddProfileFinalizer, StartImport, PutProfile, RecordImport, CountProviders,
           RefuseInUse, DeleteProfileOnGateway, ReleaseProfile, gateway, sync
  <2> QED
    BY <2>1
<1> QED
  BY <1>1, <1>2, <1>3, <1>4, <1>5, <1>6, <1>7

-------------------------------------------------------------------------------
\* A cleanup that goes on to delete the profile has listed no provider.
Unlisted == fpc = "delete" => ~listed

LEMMA UnlistedStep ==
  ASSUME Unlisted, Next
  PROVE  Unlisted'
<1> USE DEF Unlisted
<1>1. CASE DeleteProvider \/ ReleaseProvider
  BY <1>1 DEF DeleteProvider, ReleaseProvider
<1>2. CASE CountProviders
  BY <1>2 DEF CountProviders
<1>3. CASE Restart \/ StartImport \/ PutProfile \/ ImportCallFails \/ RecordImport
           \/ RefuseInUse \/ DeleteProfileOnGateway \/ ReleaseProfile
  <2>1. fpc' # "delete"
    BY <1>3 DEF Restart, StartImport, PutProfile, ImportAnswered, ImportCallFails,
                RecordImport, RefuseInUse, DeleteProfileOnGateway, ReleaseProfile, ImportDone
  <2> QED
    BY <2>1
<1>4. CASE ~(\/ DeleteProvider \/ ReleaseProvider \/ CountProviders \/ Restart
             \/ StartImport \/ PutProfile \/ ImportCallFails \/ RecordImport
             \/ RefuseInUse \/ DeleteProfileOnGateway \/ ReleaseProfile)
  <2>1. UNCHANGED <<fpc, listed>>
    BY <1>4, Zenon
       DEF Next, Environment, SyncLoop, ImportLoop, CreateProvider, EditProvider,
           ProviderVanishes, ChangeSecret, CreateProfile, EditProfile, ProfileRewritten,
           DeleteProfile, ProviderWatchDelivers, ProfileWatchDelivers, SyncCallFails,
           AddProviderFinalizer, StartSync, FindProfile, PutProvider, ConfigureRefresh,
           RecordSync, CleanupProvider, AddProfileFinalizer, import
  <2> QED
    BY <2>1
<1> QED
  BY <1>1, <1>2, <1>3, <1>4

-------------------------------------------------------------------------------
SyncInv == Typed /\ ProviderOwned /\ ProfileOwned /\ Synced /\ Unlisted

LEMMA InitInv == Init => SyncInv
<1> SUFFICES ASSUME Init PROVE SyncInv
  OBVIOUS
<1>1. ~LiveHeld(prov) /\ ~LiveHeld(prof)
  BY FreshType DEF Init, LiveHeld, Held
<1> QED
  BY <1>1, InitTyped DEF Init, SyncInv, ProviderOwned, ProfileOwned, Synced, Unlisted

LEMMA StepInv ==
  ASSUME SyncInv, [Next]_vars
  PROVE  SyncInv'
<1>1. CASE Next
  BY <1>1, TypeStep, ProviderOwnedStep, ProfileOwnedStep, SyncedStep,
     UnlistedStep DEF SyncInv
<1>2. CASE UNCHANGED vars
  BY <1>2 DEF SyncInv, Typed, TypeOK, Copies, ProviderOwned, ProfileOwned, Held, LiveHeld,
              Synced, Unlisted, vars
<1> QED
  BY <1>1, <1>2

LEMMA Invariant == Spec => []SyncInv
<1>1. Init => SyncInv
  BY InitInv
<1>2. SyncInv /\ [Next]_vars => SyncInv'
  BY StepInv
<1> QED
  BY <1>1, <1>2, PTL DEF Spec

\* The type invariant, for any Secrets, profiles and bounds.
THEOREM TypeCorrect == Spec => []TypeOK
<1>1. SyncInv => TypeOK
  BY DEF SyncInv, Typed
<1> QED
  BY <1>1, Invariant, PTL

\* Nothing either loop puts on the gateway outlives its resource
\* (the finalizers and cleanup of both loops).
THEOREM NothingOrphaned == Spec => []GatewayObjectsOwned
<1>1. SyncInv => GatewayObjectsOwned
  BY DEF SyncInv, ProviderOwned, ProfileOwned, Held, GatewayObjectsOwned
<1> QED
  BY <1>1, Invariant, PTL

\* The profile is never deleted under a provider the cleanup has listed
\* (count_referencing, cleanup).
THEOREM ListedKeepProfile == Spec => UsersKeepProfile
<1>1. SyncInv /\ [Next]_vars
        => ((gprof # None /\ gprof' = None) => ~listed) \/ UNCHANGED vars
  <2> SUFFICES ASSUME SyncInv, Next, gprof # None, gprof' = None
               PROVE  ~listed
    BY DEF vars
  <2>1. ~PutProfile
    <3>1. Stored(fobj.document) # None \/ fpc # "put"
      BY DEF SyncInv, Typed, TypeOK, Copies, Stored, GatewayProfile, ProfileResource
    <3> QED
      BY <3>1 DEF PutProfile
  <2>2. ~\E d \in Documents : ProfileRewritten(d)
    BY DEF ProfileRewritten, SyncInv, Typed, TypeOK, GatewayProfile
  <2>3. DeleteProfileOnGateway
    BY <2>1, <2>2
       DEF Next, Environment, SyncLoop, ImportLoop, CreateProvider, EditProvider, DeleteProvider,
           ProviderVanishes, ChangeSecret, CreateProfile, EditProfile, DeleteProfile, Restart,
           ProviderWatchDelivers, ProfileWatchDelivers, SyncCallFails, ImportCallFails,
           AddProviderFinalizer, StartSync, FindProfile, PutProvider, ConfigureRefresh,
           RecordSync, CleanupProvider, ReleaseProvider, AddProfileFinalizer, StartImport,
           RecordImport, CountProviders, RefuseInUse, ReleaseProfile, gateway
  <2> QED
    BY <2>3 DEF DeleteProfileOnGateway, SyncInv, Unlisted
<1> QED
  BY <1>1, Invariant, PTL DEF Spec, UsersKeepProfile

-------------------------------------------------------------------------------
\* Only RecordSync changes what the status says of a provider that stays.
Status(resource) ==
  <<resource.ready, resource.observed, resource.hash, resource.mode>>

LEMMA StatusKept ==
  ASSUME Typed, Next, ~RecordSync, prov # None, prov' # None
  PROVE  Status(prov') = Status(prov)
<1>1. prov \in ProviderResource
  BY DEF Typed, TypeOK
<1>2. ASSUME NEW k \in KeySets, NEW c \in Configs, CreateProvider(k, c) \/ EditProvider(k, c)
      PROVE  Status(prov') = Status(prov)
  BY <1>1, <1>2 DEF CreateProvider, EditProvider, ProviderResource, Status
<1>3. CASE DeleteProvider \/ AddProviderFinalizer \/ ReleaseProvider
  BY <1>1, <1>3 DEF DeleteProvider, Deleted, AddProviderFinalizer, ReleaseProvider, Released,
                    ProviderResource, Status
<1>4. CASE ~(\/ \E k \in KeySets, c \in Configs : CreateProvider(k, c) \/ EditProvider(k, c)
             \/ DeleteProvider \/ AddProviderFinalizer \/ ReleaseProvider)
  <2>1. UNCHANGED prov
    BY <1>4, Zenon
       DEF Next, Environment, SyncLoop, ImportLoop, ProviderVanishes, ChangeSecret,
           CreateProfile, EditProfile, ProfileRewritten, DeleteProfile, Restart,
           ProviderWatchDelivers, ProfileWatchDelivers, SyncCallFails, ImportCallFails,
           StartSync, FindProfile, PutProvider, ConfigureRefresh, CleanupProvider,
           AddProfileFinalizer, StartImport, PutProfile, RecordImport, CountProviders,
           RefuseInUse, DeleteProfileOnGateway, ReleaseProfile, resources
  <2> QED
    BY <2>1
<1> QED
  BY <1>2, <1>3, <1>4

\* What a Ready sync reports is on the gateway, for any interleaving of the
\* loops, users, faults and stops (sync_to_gateway, plan_credentials).
THEOREM ReadyVouches == Spec => HashVouches
<1> DEFINE Vouched ==
      (/\ prov # None /\ prov' # None /\ prov'.ready /\ gprov # None
       /\ <<prov'.ready, prov'.observed, prov'.hash, prov'.mode>>
            # <<prov.ready, prov.observed, prov.hash, prov.mode>>)
       => /\ Holds(prov'.hash)
          /\ prov'.mode = "Refresh" => Entries(gprov.static) = {}
          /\ prov'.mode = "Copied" => gprov.static = prov'.hash.credentials
<1>1. SyncInv /\ [Next]_vars => Vouched \/ UNCHANGED vars
  <2> SUFFICES ASSUME SyncInv, Next, prov # None, prov' # None, prov'.ready, gprov # None,
                      Status(prov') # Status(prov)
               PROVE  /\ Holds(prov'.hash)
                      /\ prov'.mode = "Refresh" => Entries(gprov.static) = {}
                      /\ prov'.mode = "Copied" => gprov.static = prov'.hash.credentials
    BY DEF Status
  <2>1. RecordSync /\ prov \in ProviderResource /\ prov' # prov
    BY StatusKept DEF SyncInv, Typed, TypeOK
  <2>2. ppc = "configure" /\ pending = {}
    BY <2>1 DEF RecordSync, ProviderResource
  <2>3. prov'.hash = hash_material(creds, pobj.config) /\ prov'.mode = mode(plan)
    BY <2>1, <2>2 DEF RecordSync, ProviderResource
  <2>4. /\ gprov.static = plan.static /\ gprov.config = pobj.config
        /\ \A c \in Entries(plan.refreshes) : gprov.refreshes[c] = plan.refreshes[c]
        /\ Covers(plan, creds)
    BY <2>2 DEF SyncInv, Synced
  <2>5. prov'.hash.credentials = creds /\ prov'.hash.config = pobj.config
    BY <2>3 DEF hash_material
  <2>6. \A c \in Entries(plan.refreshes) : c \in Entries(gprov.refreshes)
    BY <2>2, <2>4 DEF Entries, SyncInv, Typed, TypeOK, Copies, Plan, GatewayProvider, Refreshes
  <2>7. Holds(prov'.hash)
    BY <2>4, <2>5, <2>6 DEF Holds, Covers
  <2>8. /\ mode(plan) = "Refresh" => Entries(plan.static) = {}
        /\ mode(plan) = "Copied" => Entries(plan.refreshes) = {}
    BY DEF mode
  <2> QED
    BY <2>3, <2>4, <2>5, <2>7, <2>8 DEF Covers
<1> QED
  BY <1>1, Invariant, PTL DEF Spec, HashVouches
===============================================================================
