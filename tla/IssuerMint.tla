------------------------------ MODULE IssuerMint ------------------------------
(***************************************************************************)
(* The bundled issuer (crates/issuer) and the operator's bearer            *)
(* (GatewayConfig, FileTokenRefresher of gateway.rs). A Job, run by every  *)
(* helm install and upgrade before anything else is applied, provisions    *)
(* the serving certificate and its CA, the key set and the operator's      *)
(* token; a pod serves the key set, and the operator reads the token from  *)
(* its mount.                                                              *)
(*                                                                         *)
(* Keys and certificates are numbers, a certificate standing for leaf and  *)
(* CA. Tokens do not expire in the model: the default lifetime is 3650     *)
(* days. Audience, role and subject are the same for every token.          *)
(***************************************************************************)
EXTENDS Naturals

CONSTANTS
  Urls,         \* issuer URLs users may configure
  None,
  MaxTroubles   \* bound on URL changes, deleted objects and failed runs

ASSUME IssuerAssumption == MaxTroubles \in Nat /\ None \notin Nat /\ None \notin Urls

Keyed == [url : Urls, key : Nat]
Tls == [url : Urls, cert : Nat, ca : BOOLEAN]

VARIABLES
  wanted,       \* the issuer URL in the chart's values
  target,       \* the one the Job was started for, or None
  deployed,     \* the one gateway, issuer pod and operator are deployed with
  pc,           \* the Job's next call
  tls, ca,      \* the TLS Secret and the CA ConfigMap, or None
  jwks, token,  \* the JWKS ConfigMap and the token Secret, or None
  fresh,        \* the certificate or key the Job has just made or read
  made,         \* how many were made
  served,       \* the certificate the issuer pod has loaded, or None
  keyfile,      \* the key set in its mount, or None
  tokenfile,    \* the token in the operator's mount, or None
  bearer,       \* the token the operator presents, or None
  troubles      \* how many there have been

objects == <<tls, ca, jwks, token>>
job == <<target, pc, fresh, made>>
pods == <<served, keyfile, tokenfile, bearer>>
vars == <<wanted, target, deployed, pc, tls, ca, jwks, token, fresh, made,
          served, keyfile, tokenfile, bearer, troubles>>

Init ==
  /\ wanted \in Urls /\ target = None /\ deployed = None /\ pc = "idle"
  /\ tls = None /\ ca = None /\ jwks = None /\ token = None
  /\ fresh = None /\ made = 0
  /\ served = None /\ keyfile = None /\ tokenfile = None /\ bearer = None
  /\ troubles = 0

Trouble == troubles < MaxTroubles /\ troubles' = troubles + 1

-------------------------------------------------------------------------------
\* The mint Job.

minted_for(secret) == secret # None /\ secret.url = target

\* What the Job applies; a Secret is annotated with the URL it was made for.
tls_secret(cert) == [url |-> target, cert |-> cert, ca |-> TRUE]
jwks_configmap(key) == [url |-> target, key |-> key]
token_secret(key) == [url |-> target, key |-> key]

\* helm install or upgrade starts the Job with the URL in the values.
StartMint ==
  /\ pc = "idle" /\ pc' = "get_tls" /\ target' = wanted
  /\ UNCHANGED <<wanted, deployed, objects, fresh, made, pods, troubles>>

EmptyCaVariant ==
  /\ pc = "get_tls"
  /\ \/ minted_for(tls) /\ fresh' = (IF tls.ca THEN tls.cert ELSE None) /\ pc' = "put_ca"
     \/ ~minted_for(tls) /\ fresh' = None /\ pc' = "put_tls"
  /\ UNCHANGED <<wanted, deployed, target, objects, made, pods, troubles>>
\* ensure_serving_cert: keep a certificate made for this URL, ...
GetTls ==
  /\ pc = "get_tls"
  /\ \/ minted_for(tls) /\ tls.ca /\ fresh' = tls.cert /\ pc' = "put_ca"
     \/ ~(minted_for(tls) /\ tls.ca) /\ fresh' = None /\ pc' = "put_tls"
  /\ UNCHANGED <<wanted, deployed, target, objects, made, pods, troubles>>

\* ... or generate and apply one, ...
PutTls ==
  /\ pc = "put_tls"
  /\ made' = made + 1 /\ fresh' = made + 1
  /\ tls' = tls_secret(made + 1) /\ pc' = "put_ca"
  /\ UNCHANGED <<wanted, deployed, target, ca, jwks, token, pods, troubles>>

\* ... and publish its CA in every run.
PutCa ==
  /\ pc = "put_ca"
  /\ ca' = fresh /\ fresh' = None /\ pc' = "get_token"
  /\ UNCHANGED <<wanted, deployed, target, tls, jwks, token, made, pods, troubles>>

AlwaysMintsVariant ==
  /\ pc = "get_token" /\ pc' = "put_jwks"
  /\ UNCHANGED <<wanted, deployed, objects, target, fresh, made, pods, troubles>>
\* ensure_token: keep a token minted for this URL, ...
GetToken ==
  /\ pc = "get_token"
  /\ pc' = IF minted_for(token) THEN "done" ELSE "put_jwks"
  /\ UNCHANGED <<wanted, deployed, objects, target, fresh, made, pods, troubles>>

\* ... or generate a key, publish it first, ...
PutJwks ==
  /\ pc = "put_jwks"
  /\ made' = made + 1 /\ fresh' = made + 1
  /\ jwks' = jwks_configmap(made + 1) /\ pc' = "put_token"
  /\ UNCHANGED <<wanted, deployed, target, tls, ca, token, pods, troubles>>

\* ... and then store the token signed with it.
PutToken ==
  /\ pc = "put_token"
  /\ token' = token_secret(fresh) /\ fresh' = None /\ pc' = "done"
  /\ UNCHANGED <<wanted, deployed, target, tls, ca, jwks, made, pods, troubles>>

\* The Job's pod stops, before or after a call took effect; the Job is tried
\* again, or it is given up and with it the upgrade.
MintFails ==
  /\ pc # "idle" /\ Trouble
  /\ fresh' = None
  /\ \/ pc' = "get_tls" /\ UNCHANGED target
     \/ pc' = "idle" /\ target' = None
  /\ UNCHANGED <<wanted, deployed, objects, made, pods>>

\* The Job succeeded and helm applies the rest. An issuer pod for another URL
\* is replaced by one that has yet to start; its mounts are filled anew.
Deploy ==
  /\ pc = "done" /\ pc' = "idle" /\ deployed' = target /\ target' = None
  /\ \/ deployed = target /\ UNCHANGED <<served, keyfile>>
     \/ deployed # target /\ served' = None /\ keyfile' = None
  /\ UNCHANGED <<wanted, objects, fresh, made, tokenfile, bearer, troubles>>

-------------------------------------------------------------------------------
\* The issuer pod and the operator.

\* serve's run, once its mounts are filled: the certificate is loaded once.
StartServing ==
  /\ deployed # None /\ served = None /\ tls # None /\ keyfile # None
  /\ served' = tls.cert
  /\ UNCHANGED <<wanted, deployed, job, objects, keyfile, tokenfile, bearer, troubles>>

\* The kubelet brings a mount up to date; a deleted object stays mounted.
\* discovery and keys read theirs at every request.
SyncKeyfile ==
  /\ deployed # None /\ jwks # None /\ keyfile # jwks
  /\ keyfile' = jwks
  /\ UNCHANGED <<wanted, deployed, job, objects, served, tokenfile, bearer, troubles>>

SyncTokenfile ==
  /\ deployed # None /\ token # None /\ tokenfile # token
  /\ tokenfile' = token
  /\ UNCHANGED <<wanted, deployed, job, objects, served, keyfile, bearer, troubles>>

\* The operator reads the token when it starts ...
StartOperator ==
  /\ tokenfile # None /\ bearer = None
  /\ bearer' = tokenfile
  /\ UNCHANGED <<wanted, deployed, job, objects, served, keyfile, tokenfile, troubles>>

StaticTokenVariant ==
  /\ bearer # None /\ bearer # tokenfile
  /\ UNCHANGED vars
\* ... and again before an RPC once TOKEN_RECHECK has passed.
RefreshToken ==
  /\ bearer # None /\ bearer # tokenfile
  /\ bearer' = tokenfile
  /\ UNCHANGED <<wanted, deployed, job, objects, served, keyfile, tokenfile, troubles>>

\* A pod restarts.
Restart ==
  /\ Trouble
  /\ \/ served # None /\ served' = None /\ UNCHANGED bearer
     \/ bearer # None /\ bearer' = None /\ UNCHANGED served
  /\ UNCHANGED <<wanted, deployed, job, objects, keyfile, tokenfile>>

-------------------------------------------------------------------------------
\* Users.

ChangeUrl(u) ==
  /\ Trouble /\ u # wanted
  /\ wanted' = u
  /\ UNCHANGED <<deployed, job, objects, pods>>

\* An object is deleted, or the TLS Secret loses its ca.crt.
LoseObject ==
  /\ Trouble
  /\ \/ tls # None /\ tls' \in {None, [tls EXCEPT !.ca = FALSE]} /\ UNCHANGED <<ca, jwks, token>>
     \/ ca # None /\ ca' = None /\ UNCHANGED <<tls, jwks, token>>
     \/ jwks # None /\ jwks' = None /\ UNCHANGED <<tls, ca, token>>
     \/ token # None /\ token' = None /\ UNCHANGED <<tls, ca, jwks>>
  /\ UNCHANGED <<wanted, deployed, job, pods>>

-------------------------------------------------------------------------------
Mint == GetTls \/ PutTls \/ PutCa \/ GetToken \/ PutJwks \/ PutToken \/ Deploy

Next ==
  \/ StartMint \/ Mint \/ MintFails
  \/ StartServing \/ SyncKeyfile \/ SyncTokenfile
  \/ StartOperator \/ RefreshToken \/ Restart
  \/ \E u \in Urls : ChangeUrl(u)
  \/ LoseObject

Spec == Init /\ [][Next]_vars

\* Users repeat an upgrade that failed, the Job's calls are answered, pods are
\* started, mounts are synced and the operator calls the gateway.
Fairness ==
  /\ WF_vars(StartMint) /\ WF_vars(Mint) /\ WF_vars(StartServing)
  /\ WF_vars(SyncKeyfile) /\ WF_vars(SyncTokenfile)
  /\ WF_vars(StartOperator) /\ WF_vars(RefreshToken)

FairSpec == Spec /\ Fairness

-------------------------------------------------------------------------------
TypeOK ==
  /\ wanted \in Urls /\ target \in Urls \cup {None} /\ deployed \in Urls \cup {None}
  /\ pc \in {"idle", "get_tls", "put_tls", "put_ca", "get_token", "put_jwks",
             "put_token", "done"}
  /\ tls \in Tls \cup {None} /\ ca \in Nat \cup {None}
  /\ jwks \in Keyed \cup {None} /\ token \in Keyed \cup {None}
  /\ fresh \in IF pc \in {"put_ca", "put_token"} THEN Nat ELSE {None}
  /\ made \in Nat
  /\ served \in Nat \cup {None} /\ keyfile \in Keyed \cup {None}
  /\ tokenfile \in Keyed \cup {None} /\ bearer \in Keyed \cup {None}
  /\ troubles \in 0..MaxTroubles

\* A stored token and a published key set for the same URL belong together,
\* wherever earlier runs stopped and whatever was deleted: running the Job again
\* rotates neither, and the token, which stops later runs from minting, is
\* stored last (ensure_token).
KeysMatch ==
  (token # None /\ jwks # None /\ token.url = jwks.url) => token.key = jwks.key

\* Once changes stop and the Job is run again, the token and the certificate
\* are for the wanted URL and the CA that is published is that of the
\* certificate; unless the key set was lost or is another URL's, which no run
\* repairs while a token stands, the operator presents a token that verifies
\* with the key set that is served (ensure_serving_cert, ensure_token, refresh).
BearerVerifies ==
  <>[](/\ deployed = wanted
       /\ token # None /\ token.url = deployed
       /\ tls # None /\ tls.url = deployed /\ tls.ca /\ ca = tls.cert
       /\ (jwks # None /\ jwks.url = deployed) =>
            /\ served # None /\ keyfile = jwks
            /\ bearer = token /\ bearer.key = keyfile.key)
===============================================================================
