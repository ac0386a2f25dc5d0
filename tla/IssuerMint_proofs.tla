--------------------------- MODULE IssuerMint_proofs ---------------------------
(***************************************************************************)
(* TypeOK and KeysMatch for any set of URLs and any number of runs, stops  *)
(* and deletions. KeysMatch is not inductive: between PutJwks and PutToken *)
(* a new key set stands beside an old token. Minting says what makes that  *)
(* safe: a run gets there only while no token for its URL is stored, and   *)
(* the key set it published is the one it goes on to sign with, unless it  *)
(* was deleted since.                                                      *)
(***************************************************************************)
EXTENDS IssuerMint, TLAPS

Minting ==
  /\ pc # "idle" => target \in Urls
  /\ pc \in {"put_jwks", "put_token"} => ~minted_for(token)
  /\ (pc = "put_token" /\ jwks # None) => jwks = jwks_configmap(fresh)

MintInv == TypeOK /\ Minting /\ KeysMatch

USE IssuerAssumption

LEMMA InitInv == Init => MintInv
  BY DEF Init, MintInv, TypeOK, Minting, KeysMatch

LEMMA TypeStep ==
  ASSUME TypeOK, Minting, Next
  PROVE  TypeOK'
<1> USE DEF TypeOK, Minting, Tls, Keyed
<1>1. CASE StartMint
  BY <1>1 DEF StartMint, objects, pods
<1>2. CASE GetTls
  BY <1>2 DEF GetTls, minted_for, objects, pods
<1>3. CASE PutTls
  BY <1>3 DEF PutTls, tls_secret, pods
<1>4. CASE PutCa
  BY <1>4 DEF PutCa, pods
<1>5. CASE GetToken
  BY <1>5 DEF GetToken, objects, pods
<1>6. CASE PutJwks
  BY <1>6 DEF PutJwks, jwks_configmap, pods
<1>7. CASE PutToken
  BY <1>7 DEF PutToken, token_secret, pods
<1>8. CASE MintFails
  BY <1>8 DEF MintFails, Trouble, objects, pods
<1>9. CASE Deploy
  BY <1>9 DEF Deploy, objects
<1>10. CASE StartServing
  BY <1>10 DEF StartServing, job, objects
<1>11. CASE SyncKeyfile \/ SyncTokenfile
  BY <1>11 DEF SyncKeyfile, SyncTokenfile, job, objects
<1>12. CASE StartOperator \/ RefreshToken
  BY <1>12 DEF StartOperator, RefreshToken, job, objects
<1>13. CASE Restart
  BY <1>13 DEF Restart, Trouble, job, objects
<1>14. CASE \E u \in Urls : ChangeUrl(u)
  BY <1>14 DEF ChangeUrl, Trouble, job, objects, pods
<1>15. CASE LoseObject
  <2>1. tls' \in Tls \cup {None}
    BY <1>15 DEF LoseObject
  <2>2. /\ ca' \in Nat \cup {None} /\ jwks' \in Keyed \cup {None}
        /\ token' \in Keyed \cup {None}
    BY <1>15 DEF LoseObject
  <2> QED
    BY <1>15, <2>1, <2>2 DEF LoseObject, Trouble, job, pods
<1> QED
  BY <1>1, <1>2, <1>3, <1>4, <1>5, <1>6, <1>7, <1>8, <1>9, <1>10, <1>11, <1>12,
     <1>13, <1>14, <1>15 DEF Next, Mint

\* GetToken is what keeps a run from rotating the key under a stored token;
\* PutJwks establishes the key set the token is then signed for.
LEMMA MintingStep ==
  ASSUME TypeOK, Minting, Next
  PROVE  Minting'
<1> USE DEF TypeOK, Minting, minted_for, jwks_configmap
<1>1. CASE StartMint
  BY <1>1 DEF StartMint
<1>2. CASE GetTls \/ PutTls \/ PutCa
  BY <1>2 DEF GetTls, PutTls, PutCa
<1>3. CASE GetToken
  BY <1>3 DEF GetToken, objects
<1>4. CASE PutJwks
  BY <1>4 DEF PutJwks
<1>5. CASE PutToken
  BY <1>5 DEF PutToken
<1>6. CASE MintFails \/ Deploy
  BY <1>6 DEF MintFails, Deploy
<1>7. CASE StartServing \/ SyncKeyfile \/ SyncTokenfile
  BY <1>7 DEF StartServing, SyncKeyfile, SyncTokenfile, job, objects
<1>8. CASE StartOperator \/ RefreshToken \/ Restart
  BY <1>8 DEF StartOperator, RefreshToken, Restart, job, objects
<1>9. CASE \E u \in Urls : ChangeUrl(u)
  BY <1>9 DEF ChangeUrl, job, objects
<1>10. CASE LoseObject
  BY <1>10 DEF LoseObject, job
<1> QED
  BY <1>1, <1>2, <1>3, <1>4, <1>5, <1>6, <1>7, <1>8, <1>9, <1>10 DEF Next, Mint

\* Only PutJwks and PutToken bring a key set and a token together.
LEMMA KeysStep ==
  ASSUME MintInv, Next
  PROVE  KeysMatch'
<1> USE DEF MintInv, KeysMatch
<1>1. CASE PutJwks
  BY <1>1 DEF TypeOK, Minting, minted_for, PutJwks, jwks_configmap
<1>2. CASE PutToken
  BY <1>2 DEF TypeOK, Minting, PutToken, jwks_configmap, token_secret
<1>3. CASE LoseObject
  BY <1>3 DEF LoseObject
<1>4. CASE ~(PutJwks \/ PutToken \/ LoseObject)
  <2>1. UNCHANGED <<jwks, token>>
    BY <1>4 DEF Next, Mint, StartMint, GetTls, PutTls, PutCa, GetToken, MintFails, Deploy,
                StartServing, SyncKeyfile, SyncTokenfile, StartOperator, RefreshToken,
                Restart, ChangeUrl, objects
  <2> QED
    BY <2>1
<1> QED
  BY <1>1, <1>2, <1>3, <1>4

LEMMA StepInv ==
  ASSUME MintInv, [Next]_vars
  PROVE  MintInv'
<1>1. CASE Next
  BY <1>1, TypeStep, MintingStep, KeysStep DEF MintInv
<1>2. CASE UNCHANGED vars
  BY <1>2 DEF MintInv, TypeOK, Minting, KeysMatch, minted_for, jwks_configmap, vars
<1> QED
  BY <1>1, <1>2

LEMMA Invariant == Spec => []MintInv
<1>1. Init => MintInv
  BY InitInv
<1>2. MintInv /\ [Next]_vars => MintInv'
  BY StepInv
<1> QED
  BY <1>1, <1>2, PTL DEF Spec

\* The type invariant, for any URLs and bounds.
THEOREM TypeCorrect == Spec => []TypeOK
<1>1. MintInv => TypeOK
  BY DEF MintInv
<1> QED
  BY <1>1, Invariant, PTL

\* A stored token and a published key set for the same URL belong together
\* after any number of runs, stops and deletions (ensure_token).
THEOREM TokenVerifies == Spec => []KeysMatch
<1>1. MintInv => KeysMatch
  BY DEF MintInv
<1> QED
  BY <1>1, Invariant, PTL

\* No step of the Job changes the key set while a token for its URL is stored:
\* running it again is idempotent (ensure_token).
KeysStayPut ==
  [][(minted_for(token) /\ jwks' # jwks) => jwks' = None]_vars

THEOREM MintIsIdempotent == Spec => KeysStayPut
<1>1. MintInv /\ [Next]_vars
        => ((minted_for(token) /\ jwks' # jwks) => jwks' = None) \/ UNCHANGED vars
  <2> SUFFICES ASSUME MintInv, Next, minted_for(token), jwks' # jwks
               PROVE  jwks' = None
    BY DEF vars
  <2>1. ~PutJwks
    BY DEF MintInv, Minting, PutJwks
  <2>2. LoseObject
    BY <2>1 DEF Next, Mint, StartMint, GetTls, PutTls, PutCa, GetToken, PutToken, MintFails,
                Deploy, StartServing, SyncKeyfile, SyncTokenfile, StartOperator, RefreshToken,
                Restart, ChangeUrl, objects
  <2> QED
    BY <2>2 DEF LoseObject
<1> QED
  BY <1>1, Invariant, PTL DEF Spec, KeysStayPut
===============================================================================
