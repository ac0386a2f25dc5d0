----------------------------- MODULE Credentials -----------------------------
(***************************************************************************)
(* How a provider's credentials are resolved from its Secret (secret.rs)   *)
(* and split into values the gateway stores as they are and seeds it mints *)
(* short-lived tokens from (credentials.rs), given the provider's profile. *)
(* Keys and values are model values; a map holds None where it has no key. *)
(***************************************************************************)
EXTENDS Naturals

CONSTANTS
  Keys,      \* keys of a Secret, and names of seed material
  Values,    \* what a key may hold
  Garbled,   \* the one of them that is not UTF-8
  Names,     \* names of the credentials a profile may declare
  None       \* an absent object or entry, an unset Option or an error

Maps == [Keys -> Values \cup {None}]
Secret == [entitled : BOOLEAN, data : Maps]

\* The strategies the gateway mints from, and the other ones of its schema.
RefreshStrategy == {"Oauth2RefreshToken", "Oauth2ClientCredentials",
                    "GoogleServiceAccountJwt", "AwsStsAssumeRole"}
ProtoStrategy == RefreshStrategy \cup {"Unspecified", "Static", "External"}
MaterialSpec == [name : Keys, required : BOOLEAN]
RefreshSpec == [strategy : ProtoStrategy, material : SUBSET MaterialSpec]
\* The refresh blocks of a profile's credentials.
ProfileCredentials == [Names -> RefreshSpec \cup {None}]

RefreshPlan == [strategy : RefreshStrategy, material : Maps]
Refreshes == [Names -> RefreshPlan \cup {None}]
Plan == [static : Maps, refreshes : Refreshes]
CredentialMode == {"Copied", "Refresh", "Mixed"}

ASSUME CredentialsAssumption ==
  /\ Garbled \in Values /\ None \notin Values
  /\ None \notin Maps /\ None \notin Secret
  /\ None \notin RefreshSpec /\ None \notin RefreshPlan

\* The keys a map has, and the map of the given keys.
Entries(map) == {k \in DOMAIN map : map[k] # None}
Only(map, keys) == [k \in DOMAIN map |-> IF k \in keys THEN map[k] ELSE None]

-------------------------------------------------------------------------------
is_entitled(secret) == secret.entitled

\* No key asks for every key; one that is absent or not text is an error.
extract_credentials(data, keys) ==
  LET selected == IF keys = {} THEN Entries(data) ELSE keys
  IN  IF \A k \in selected : data[k] \notin {None, Garbled}
      THEN Only(data, selected) ELSE None

resolve_credentials(secret, keys) ==
  IF secret = None \/ ~is_entitled(secret) THEN None
  ELSE extract_credentials(secret.data, keys)

-------------------------------------------------------------------------------
MintsAnyVariant(refresh) == refresh
\* Only a strategy the gateway mints counts as a refresh.
refresh_spec(refresh) ==
  IF refresh = None \/ refresh.strategy \notin RefreshStrategy THEN None ELSE refresh

provider_profile_view(credentials) ==
  [c \in Names |-> refresh_spec(credentials[c])]

\* The seeds a refresh takes from the resolved values, or None when a required
\* one is missing.
build_refresh_material(spec, resolved) ==
  IF \A m \in spec.material : m.required => resolved[m.name] # None
  THEN Only(resolved, {m.name : m \in spec.material})
  ELSE None

\* A refresh with its required seeds takes them out of the copied values; AWS
\* STS is not selected yet, and what no refresh consumes is copied.
plan_credentials(view, resolved) ==
  LET built == [c \in Names |->
        IF view[c] = None \/ view[c].strategy = "AwsStsAssumeRole" THEN None
        ELSE build_refresh_material(view[c], resolved)]
      consumed == UNION {Entries(built[c]) : c \in Entries(built)}
  IN  [static |-> Only(resolved, Keys \ consumed),
       refreshes |-> [c \in Names |-> IF built[c] = None THEN None
         ELSE [strategy |-> view[c].strategy, material |-> built[c]]]]

\* ProviderCredentialPlan::mode
mode(plan) ==
  CASE Entries(plan.refreshes) = {} -> "Copied"
    [] Entries(plan.refreshes) # {} /\ Entries(plan.static) = {} -> "Refresh"
    [] Entries(plan.refreshes) # {} /\ Entries(plan.static) # {} -> "Mixed"

\* The hash tells any two materials apart.
hash_material(credentials, config) == [credentials |-> credentials, config |-> config]
===============================================================================
