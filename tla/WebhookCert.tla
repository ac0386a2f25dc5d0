----------------------------- MODULE WebhookCert ------------------------------
(***************************************************************************)
(* Start-up of the operator's replicas as far as the admission webhook     *)
(* (webhook.rs, main.rs, health.rs) is concerned: each replica reads the   *)
(* certificate from a shared Secret or makes it, injects its CA into the   *)
(* two webhook configurations, starts its listener and reports ready.      *)
(*                                                                         *)
(* A certificate is a number, which stands for key, leaf and CA alike. Any *)
(* failed call ends the process, so a call that fails, or whose answer is  *)
(* lost, is the call not made or made, followed by Stop.                   *)
(***************************************************************************)
EXTENDS Naturals, FiniteSets

CONSTANTS
  Replicas,
  None,
  Incomplete,   \* a Secret without all of tls.crt, tls.key and ca.crt
  MaxTroubles   \* bound on stops and on changes to the Secret, together

CertBundle == Nat \ {0}

ASSUME CertAssumption ==
  MaxTroubles \in Nat /\ None # Incomplete /\ {None, Incomplete} \cap Nat = {}

VARIABLES
  secret,       \* the Secret: None, Incomplete or a certificate
  made,         \* how many certificates were stored
  mutating,     \* the caBundle of the mutating configuration, or None
  validating,   \* that of the validating one
  pc,           \* what each replica does next
  bundle,       \* the certificate it has, or None
  ready,        \* whether its readiness probe answers 200
  troubles      \* how many there have been

certVars == <<secret, made, mutating, validating, pc, bundle, ready, troubles>>

\* The chart renders no caBundle.
CertInit ==
  /\ secret \in {None, Incomplete} /\ made = 0
  /\ mutating = None /\ validating = None
  /\ pc = [r \in Replicas |-> "down"]
  /\ bundle = [r \in Replicas |-> None]
  /\ ready = [r \in Replicas |-> FALSE]
  /\ troubles = 0

Trouble == troubles < MaxTroubles /\ troubles' = troubles + 1

-------------------------------------------------------------------------------
\* Kubernetes starts a replica that is down; readiness is false until the end.
Start(r) ==
  /\ pc[r] = "down" /\ pc' = [pc EXCEPT ![r] = "get"]
  /\ UNCHANGED <<secret, made, mutating, validating, bundle, ready, troubles>>

\* The process is stopped, or exits because a call or the listener failed.
Exits(r) ==
  /\ pc' = [pc EXCEPT ![r] = "down"] /\ bundle' = [bundle EXCEPT ![r] = None]
  /\ ready' = [ready EXCEPT ![r] = FALSE]

Stop(r) ==
  /\ Trouble /\ pc[r] # "down" /\ Exits(r)
  /\ UNCHANGED <<secret, made, mutating, validating>>

AcceptsIncompleteVariant == secret
\* read_bundle: the Secret as a certificate, if it has all three keys.
read_bundle == IF secret \in CertBundle THEN secret ELSE None

Uses(r, certificate) ==
  /\ bundle' = [bundle EXCEPT ![r] = certificate]
  /\ pc' = [pc EXCEPT ![r] = "inject_mutating"]

\* ensure_cert, its get_opt.
ReadSecret(r) ==
  /\ pc[r] = "get"
  /\ \/ read_bundle # None /\ Uses(r, read_bundle)
     \/ read_bundle = None /\ pc' = [pc EXCEPT ![r] = "create"] /\ UNCHANGED bundle
  /\ UNCHANGED <<secret, made, mutating, validating, ready, troubles>>

KeepsOwnVariant(r) ==
  /\ pc[r] = "create"
  /\ Uses(r, made + 1)
  /\ \/ secret = None /\ secret' = made + 1 /\ made' = made + 1
     \/ secret # None /\ UNCHANGED <<secret, made>>
  /\ UNCHANGED <<mutating, validating, ready, troubles>>
\* Its generate_cert and create: a certificate that is not stored is dropped.
CreateSecret(r) ==
  /\ pc[r] = "create"
  /\ \/ /\ secret = None
        /\ secret' = made + 1 /\ made' = made + 1 /\ Uses(r, made + 1)
     \/ /\ secret # None
        /\ pc' = [pc EXCEPT ![r] = "adopt"] /\ UNCHANGED <<secret, made, bundle>>
  /\ UNCHANGED <<mutating, validating, ready, troubles>>

WaitsForPeerVariant(r) ==
  /\ pc[r] = "adopt"
  /\ \/ read_bundle # None /\ Uses(r, read_bundle) /\ UNCHANGED ready
     \/ read_bundle = None /\ UNCHANGED <<pc, bundle, ready>>
  /\ UNCHANGED <<secret, made, mutating, validating, troubles>>
\* Its get after a conflict: gone again or incomplete, the start-up fails.
AdoptSecret(r) ==
  /\ pc[r] = "adopt"
  /\ \/ read_bundle # None /\ Uses(r, read_bundle) /\ UNCHANGED ready
     \/ read_bundle = None /\ Exits(r)
  /\ UNCHANGED <<secret, made, mutating, validating, troubles>>

OnlyIfAbsentVariant(r) ==
  /\ pc[r] = "inject_mutating"
  /\ mutating' = IF mutating = None THEN bundle[r] ELSE mutating
  /\ pc' = [pc EXCEPT ![r] = "inject_validating"]
  /\ UNCHANGED <<secret, made, validating, bundle, ready, troubles>>
\* inject_ca: one patch for each configuration.
InjectMutating(r) ==
  /\ pc[r] = "inject_mutating"
  /\ mutating' = bundle[r] /\ pc' = [pc EXCEPT ![r] = "inject_validating"]
  /\ UNCHANGED <<secret, made, validating, bundle, ready, troubles>>

InjectValidating(r) ==
  /\ pc[r] = "inject_validating"
  /\ validating' = bundle[r] /\ pc' = [pc EXCEPT ![r] = "spawned"]
  /\ UNCHANGED <<secret, made, mutating, bundle, ready, troubles>>

\* serve runs in a task of its own, ...
Listen(r) ==
  /\ pc[r] = "spawned" /\ pc' = [pc EXCEPT ![r] = "serving"]
  /\ UNCHANGED <<secret, made, mutating, validating, bundle, ready, troubles>>

\* ... and the main task goes on to mark_ready.
MarkReady(r) ==
  /\ pc[r] \in {"spawned", "serving"} /\ ~ready[r]
  /\ ready' = [ready EXCEPT ![r] = TRUE]
  /\ UNCHANGED <<secret, made, mutating, validating, pc, bundle, troubles>>

-------------------------------------------------------------------------------
\* Users rotate the certificate by deleting the Secret, or damage it.
ChangeSecret(s) ==
  /\ Trouble /\ secret # s
  /\ secret' = s
  /\ UNCHANGED <<made, mutating, validating, pc, bundle, ready>>

Boot(r) ==
  \/ Start(r) \/ ReadSecret(r) \/ CreateSecret(r) \/ AdoptSecret(r)
  \/ InjectMutating(r) \/ InjectValidating(r) \/ Listen(r) \/ MarkReady(r)

CertNext ==
  \/ \E r \in Replicas : Boot(r) \/ Stop(r)
  \/ \E s \in {None, Incomplete} : ChangeSecret(s)

CertSpec == CertInit /\ [][CertNext]_certVars

-------------------------------------------------------------------------------
CertTypeOK ==
  /\ secret \in CertBundle \cup {None, Incomplete} /\ made \in Nat
  /\ mutating \in CertBundle \cup {None} /\ validating \in CertBundle \cup {None}
  /\ pc \in [Replicas -> {"down", "get", "create", "adopt", "inject_mutating",
                          "inject_validating", "spawned", "serving"}]
  /\ bundle \in [Replicas -> CertBundle \cup {None}]
  /\ ready \in [Replicas -> BOOLEAN]
  /\ troubles \in 0..MaxTroubles

\* As long as the Secret has not been replaced, a replica that reports ready
\* serves a certificate that both webhook configurations trust, whoever raced
\* to make it and whoever stopped half way (ensure_cert, inject_ca, mark_ready).
TrustAgrees ==
  made <= 1 => \A r \in Replicas :
                 ready[r] => mutating = bundle[r] /\ validating = bundle[r]

\* A rotation is over, and both configurations trust the new certificate, when
\* every replica has restarted since, even if one that still held the old
\* certificate injected its CA last for a while (ensure_cert, inject_ca).
RotationHeals ==
  (\A r \in Replicas : pc[r] \in {"spawned", "serving"} /\ bundle[r] = secret)
    => Replicas = {} \/ (mutating = secret /\ validating = secret)
===============================================================================
