-------------------------- MODULE MCWebhookAdmission --------------------------
(* Two replicas, and sandbox pods beside pods that only look like one. *)
EXTENDS WebhookAdmission

CONSTANTS agent, sidecar, enter, dashes, sh

C(name, marked) == [name |-> name, marked |-> marked]
Owner(group) == [kind |-> SandboxKind, group |-> group]
MCPods ==
  { [owners |-> {Owner(SandboxGroup)}, annotation |-> None,
     containers |-> <<C(agent, TRUE), C(sidecar, FALSE)>>],
    [owners |-> {Owner(SandboxGroup), Owner(OtherGroup)}, annotation |-> sidecar,
     containers |-> <<C(agent, TRUE), C(sidecar, FALSE)>>],
    [owners |-> {Owner(OtherGroup)}, annotation |-> None,
     containers |-> <<C(agent, TRUE)>>] }
MCWrapper == <<enter, dashes>>
MCCommands == {<<>>, <<enter, sh>>, <<enter, dashes, sh>>}
===============================================================================
