---------------------------- MODULE MCProviderSync ----------------------------
(* Small instances of ProviderSync: an identity and a token in the Secret, *)
(* which a profile may declare as seeds of its credentials.                *)
EXTENDS ProviderSync

CONSTANTS id, token, v1, v2, adc, sa, sts

Data(i, t) == [k \in Keys |-> IF k = id THEN i ELSE t]
MCKeySets == {{}, {token}}
\* complete, rotated with an id that is not text, partial, and not entitled
MCSecrets ==
  [entitled : {TRUE}, data : {Data(v1, v1), Data(Garbled, v2), Data(v1, None)}]
    \cup [entitled : {FALSE}, data : {Data(v1, v1)}]
Needs(strategy, keys) ==
  [strategy |-> strategy,
   material |-> {[name |-> k, required |-> TRUE] : k \in keys}]
\* two credentials that share a seed; one minted and two not; a malformed one
MCDocuments ==
  {[valid |-> TRUE, credentials |-> [c \in Names |->
      CASE c = adc -> Needs("Oauth2RefreshToken", {id, token})
        [] c = sa -> Needs("GoogleServiceAccountJwt", {id})
        [] c = sts -> None]],
   [valid |-> TRUE, credentials |-> [c \in Names |->
      CASE c = adc -> Needs("Oauth2RefreshToken", {token})
        [] c = sa -> Needs("External", {id})
        [] c = sts -> Needs("AwsStsAssumeRole", {id})]],
   [valid |-> FALSE, credentials |-> NoRefreshes]}
===============================================================================
