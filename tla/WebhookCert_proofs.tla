-------------------------- MODULE WebhookCert_proofs --------------------------
(***************************************************************************)
(* TrustAgrees and RotationHeals for any number of replicas, stops and     *)
(* rotations. Stored certificates are numbered in order, so the Secret,    *)
(* when it holds one, holds the latest (Numbered). A replica is past an    *)
(* injection only if something was injected (Injected), and while a        *)
(* configuration does not trust the latest certificate some replica has    *)
(* yet to inject it (Pending): the one that stored it, or the one that     *)
(* injected an older CA over it.                                           *)
(***************************************************************************)
EXTENDS WebhookCert, TLAPS

AfterMutating == {"inject_validating", "spawned", "serving"}
AfterValidating == {"spawned", "serving"}

Numbered ==
  /\ secret \in CertBundle => secret = made
  /\ mutating # None => mutating <= made
  /\ validating # None => validating <= made
  /\ \A r \in Replicas : bundle[r] # None => bundle[r] <= made

Injected == \A r \in Replicas :
  /\ pc[r] \in AfterMutating \cup {"inject_mutating"} => bundle[r] # None
  /\ pc[r] \in AfterMutating => mutating # None
  /\ pc[r] \in AfterValidating => validating # None
  /\ ready[r] => pc[r] \in AfterValidating

Current(r, pcs) == pc[r] \in pcs /\ bundle[r] = made

Pending ==
  /\ (\A r \in Replicas : Current(r, AfterMutating)) => Replicas = {} \/ mutating = made
  /\ (\A r \in Replicas : Current(r, AfterValidating)) => Replicas = {} \/ validating = made

CertInv == CertTypeOK /\ Numbered /\ Injected /\ Pending

USE CertAssumption

LEMMA InitInv == CertInit => CertInv
<1> SUFFICES ASSUME CertInit PROVE CertInv
  OBVIOUS
<1>1. CertTypeOK
  BY DEF CertInit, CertTypeOK, CertBundle
<1>2. Numbered /\ Injected /\ Pending
  BY DEF CertInit, Numbered, Injected, Pending, Current, AfterMutating, AfterValidating,
         CertBundle
<1> QED
  BY <1>1, <1>2 DEF CertInv

LEMMA TypeStep ==
  ASSUME CertTypeOK, CertNext
  PROVE  CertTypeOK'
<1>1. ASSUME NEW r \in Replicas, Start(r) \/ Listen(r) \/ MarkReady(r)
      PROVE  CertTypeOK'
  BY <1>1 DEF CertTypeOK, Start, Listen, MarkReady
<1>2. ASSUME NEW r \in Replicas, ReadSecret(r) \/ AdoptSecret(r)
      PROVE  CertTypeOK'
  BY <1>2 DEF CertTypeOK, ReadSecret, AdoptSecret, Uses, Exits, read_bundle
<1>3. ASSUME NEW r \in Replicas, CreateSecret(r)
      PROVE  CertTypeOK'
  BY <1>3 DEF CertTypeOK, CreateSecret, Uses, CertBundle
<1>4. ASSUME NEW r \in Replicas, InjectMutating(r) \/ InjectValidating(r)
      PROVE  CertTypeOK'
  BY <1>4 DEF CertTypeOK, InjectMutating, InjectValidating
<1>5. ASSUME NEW r \in Replicas, Stop(r)
      PROVE  CertTypeOK'
  BY <1>5 DEF CertTypeOK, Stop, Exits, Trouble
<1>6. ASSUME NEW s \in {None, Incomplete}, ChangeSecret(s)
      PROVE  CertTypeOK'
  BY <1>6 DEF CertTypeOK, ChangeSecret, Trouble
<1> QED
  BY <1>1, <1>2, <1>3, <1>4, <1>5, <1>6 DEF CertNext, Boot

LEMMA NumberedStep ==
  ASSUME CertTypeOK, Numbered, Injected, CertNext
  PROVE  Numbered'
<1> USE DEF CertTypeOK, Numbered, Injected, CertBundle
<1>1. ASSUME NEW r \in Replicas, Start(r) \/ Listen(r) \/ MarkReady(r)
      PROVE  Numbered'
  BY <1>1 DEF Start, Listen, MarkReady
<1>2. ASSUME NEW r \in Replicas, ReadSecret(r) \/ AdoptSecret(r)
      PROVE  Numbered'
  BY <1>2 DEF ReadSecret, AdoptSecret, Uses, Exits, read_bundle
<1>3. ASSUME NEW r \in Replicas, CreateSecret(r)
      PROVE  Numbered'
  BY <1>3 DEF CreateSecret, Uses
<1>4. ASSUME NEW r \in Replicas, InjectMutating(r) \/ InjectValidating(r)
      PROVE  Numbered'
  BY <1>4 DEF InjectMutating, InjectValidating
<1>5. ASSUME NEW r \in Replicas, Stop(r)
      PROVE  Numbered'
  BY <1>5 DEF Stop, Exits
<1>6. ASSUME NEW s \in {None, Incomplete}, ChangeSecret(s)
      PROVE  Numbered'
  BY <1>6 DEF ChangeSecret
<1> QED
  BY <1>1, <1>2, <1>3, <1>4, <1>5, <1>6 DEF CertNext, Boot

LEMMA InjectedStep ==
  ASSUME CertTypeOK, Numbered, Injected, CertNext
  PROVE  Injected'
<1> USE DEF CertTypeOK, Injected, CertBundle, AfterMutating, AfterValidating
<1>1. ASSUME NEW r \in Replicas, Start(r) \/ Listen(r) \/ MarkReady(r)
      PROVE  Injected'
  BY <1>1 DEF Start, Listen, MarkReady
<1>2. ASSUME NEW r \in Replicas, ReadSecret(r) \/ AdoptSecret(r)
      PROVE  Injected'
  BY <1>2 DEF ReadSecret, AdoptSecret, Uses, Exits, read_bundle
<1>3. ASSUME NEW r \in Replicas, CreateSecret(r)
      PROVE  Injected'
  BY <1>3 DEF CreateSecret, Uses
<1>4. ASSUME NEW r \in Replicas, InjectMutating(r) \/ InjectValidating(r)
      PROVE  Injected'
  BY <1>4 DEF InjectMutating, InjectValidating
<1>5. ASSUME NEW r \in Replicas, Stop(r)
      PROVE  Injected'
  BY <1>5 DEF Stop, Exits
<1>6. ASSUME NEW s \in {None, Incomplete}, ChangeSecret(s)
      PROVE  Injected'
  BY <1>6 DEF ChangeSecret
<1> QED
  BY <1>1, <1>2, <1>3, <1>4, <1>5, <1>6 DEF CertNext, Boot

\* A step that takes a replica back, or leaves it short of the injections, has
\* that replica pending; an injection of an old CA has its own.
LEMMA PendingStep ==
  ASSUME CertTypeOK, Numbered, Injected, Pending, CertNext
  PROVE  Pending'
<1> USE DEF CertTypeOK, Pending, Current, CertBundle, AfterMutating, AfterValidating
<1>1. ASSUME NEW r \in Replicas, Start(r) \/ Listen(r) \/ MarkReady(r)
      PROVE  Pending'
  BY <1>1 DEF Start, Listen, MarkReady
<1>2. ASSUME NEW r \in Replicas, ReadSecret(r) \/ AdoptSecret(r)
      PROVE  Pending'
  <2>1. ~Current(r, AfterMutating)' /\ ~Current(r, AfterValidating)'
    BY <1>2 DEF ReadSecret, AdoptSecret, Uses, Exits
  <2> QED
    BY <2>1
<1>3. ASSUME NEW r \in Replicas, CreateSecret(r)
      PROVE  Pending'
  <2>1. ~Current(r, AfterMutating)' /\ ~Current(r, AfterValidating)'
    BY <1>3 DEF CreateSecret, Uses
  <2> QED
    BY <2>1
<1>4. ASSUME NEW r \in Replicas, InjectMutating(r)
      PROVE  Pending'
  <2>1. ~Current(r, AfterValidating)'
    BY <1>4 DEF InjectMutating
  <2>2. Current(r, AfterMutating)' => mutating' = made'
    BY <1>4 DEF InjectMutating
  <2> QED
    BY <2>1, <2>2
<1>5. ASSUME NEW r \in Replicas, InjectValidating(r)
      PROVE  Pending'
  <2>1. Current(r, AfterValidating)' => validating' = made'
    BY <1>5 DEF InjectValidating
  <2>2. ASSUME NEW q \in Replicas, Current(q, AfterMutating)'
        PROVE  Current(q, AfterMutating)
    BY <1>5, <2>2 DEF InjectValidating
  <2>3. mutating' = mutating /\ made' = made
    BY <1>5 DEF InjectValidating
  <2> QED
    BY <2>1, <2>2, <2>3
<1>6. ASSUME NEW r \in Replicas, Stop(r)
      PROVE  Pending'
  <2>1. ~Current(r, AfterMutating)' /\ ~Current(r, AfterValidating)'
    BY <1>6 DEF Stop, Exits
  <2> QED
    BY <2>1
<1>7. ASSUME NEW s \in {None, Incomplete}, ChangeSecret(s)
      PROVE  Pending'
  BY <1>7 DEF ChangeSecret
<1> QED
  BY <1>1, <1>2, <1>3, <1>4, <1>5, <1>6, <1>7 DEF CertNext, Boot

LEMMA StepInv ==
  ASSUME CertInv, [CertNext]_certVars
  PROVE  CertInv'
<1>1. CASE CertNext
  BY <1>1, TypeStep, NumberedStep, InjectedStep, PendingStep DEF CertInv
<1>2. CASE UNCHANGED certVars
  BY <1>2 DEF CertInv, CertTypeOK, Numbered, Injected, Pending, Current, certVars
<1> QED
  BY <1>1, <1>2

LEMMA Invariant == CertSpec => []CertInv
<1>1. CertInit => CertInv
  BY InitInv
<1>2. CertInv /\ [CertNext]_certVars => CertInv'
  BY StepInv
<1> QED
  BY <1>1, <1>2, PTL DEF CertSpec

\* The type invariant of the start-up, for any replicas and bounds.
THEOREM CertTypeCorrect == CertSpec => []CertTypeOK
<1>1. CertInv => CertTypeOK
  BY DEF CertInv
<1> QED
  BY <1>1, Invariant, PTL

\* While only one certificate was ever stored, both configurations trust every
\* replica that reports ready (ensure_cert, inject_ca, mark_ready).
THEOREM StartUpTrusted == CertSpec => []TrustAgrees
<1>1. CertInv => TrustAgrees
  <2> SUFFICES ASSUME CertInv, made <= 1, NEW r \in Replicas, ready[r]
               PROVE  mutating = bundle[r] /\ validating = bundle[r]
    BY DEF TrustAgrees
  <2>1. /\ bundle[r] \in CertBundle /\ bundle[r] <= made
        /\ mutating \in CertBundle /\ mutating <= made
        /\ validating \in CertBundle /\ validating <= made
    BY DEF CertInv, CertTypeOK, Numbered, Injected, AfterMutating, AfterValidating
  <2> QED
    BY <2>1 DEF CertInv, CertTypeOK, CertBundle
<1> QED
  BY <1>1, Invariant, PTL

\* However often the certificate is rotated, once every replica has restarted
\* since, both configurations trust the one in the Secret (inject_ca).
THEOREM StartUpHeals == CertSpec => []RotationHeals
<1>1. CertInv => RotationHeals
  <2> SUFFICES ASSUME CertInv, Replicas # {},
                      \A r \in Replicas : pc[r] \in {"spawned", "serving"} /\ bundle[r] = secret
               PROVE  mutating = secret /\ validating = secret
    BY DEF RotationHeals
  <2>1. PICK q \in Replicas : TRUE
    OBVIOUS
  <2>2. secret = made
    BY <2>1 DEF CertInv, CertTypeOK, Numbered, Injected, AfterMutating, AfterValidating
  <2>3. \A r \in Replicas : Current(r, AfterMutating) /\ Current(r, AfterValidating)
    BY <2>2 DEF Current, AfterMutating, AfterValidating
  <2> QED
    BY <2>2, <2>3 DEF CertInv, Pending
<1> QED
  BY <1>1, Invariant, PTL
===============================================================================
