--------------------------- MODULE WebhookAdmission ---------------------------
(***************************************************************************)
(* The admission webhook at work (webhook.rs): the API server sends a      *)
(* request for one pod to any replica that reports ready, over a           *)
(* connection it verifies with the injected CA, and with failurePolicy     *)
(* Fail denies the request if it gets no answer. The replicas start, stop  *)
(* and rotate their certificate as in WebhookCert while requests run.      *)
(*                                                                         *)
(* A command is a sequence of words. The API server always sends a         *)
(* well-formed review with namespace and name; the handlers deny others.   *)
(***************************************************************************)
EXTENDS WebhookCert, SequencesExt

CONSTANTS
  ContainerNames,
  Pods,         \* what the pod may look like
  Words,
  Commands,     \* the commands users ask for
  Wrapper,      \* the words that re-enter the confinement
  MaxMishaps,   \* bound on changes of the pod and failed reads of it
  SandboxKind,  \* SANDBOX_OWNER_KIND, SANDBOX_OWNER_GROUP and another pair
  SandboxGroup,
  OtherGroup

Container == [name : ContainerNames, marked : BOOLEAN]
Pod == [owners : SUBSET [kind : {SandboxKind}, group : {SandboxGroup, OtherGroup}],
        annotation : ContainerNames \cup {None}, containers : Seq(Container)]
Subresources == {"exec", "attach", "ephemeralcontainers"}
\* A request: what was asked for and, for an exec, the command as it is now, at
\* which replica it is, the pods the handlers saw, whether they may be called
\* again.
AdmissionRequest ==
  [sub : Subresources, container : ContainerNames \cup {None},
   command : Seq(Words), asked : Seq(Words), state : {"call", "handle", "admitted"},
   replica : Replicas \cup {None}, seen : SUBSET Pods, again : BOOLEAN]

ASSUME AdmissionAssumption ==
  /\ Pods \subseteq Pod /\ None \notin Pods /\ None \notin ContainerNames
  /\ None \notin AdmissionRequest /\ None \notin Seq(Words)
  /\ Commands \subseteq Seq(Words) /\ Wrapper \in Seq(Words)
  /\ MaxMishaps \in Nat /\ Wrapper # <<>> /\ SandboxGroup # OtherGroup

VARIABLES
  pod,          \* the pod in the API server, or None
  req,          \* the request under way, or None
  mishaps       \* how many there have been

requestVars == <<pod, req, mishaps>>
vars == <<certVars, requestVars>>

Init == CertInit /\ pod \in Pods /\ req = None /\ mishaps = 0

Mishap == mishaps < MaxMishaps /\ mishaps' = mishaps + 1

-------------------------------------------------------------------------------
\* What is decided about a pod.

ContainersOf(p) == ToSet(p.containers)

from_pod(p) ==
  [is_sandbox |-> \E o \in p.owners : o.kind = SandboxKind /\ o.group = SandboxGroup,
   default_container |-> p.annotation,
   first_container |-> IF p.containers = <<>> THEN None ELSE Head(p.containers).name,
   agent_containers |-> {c.name : c \in {d \in ContainersOf(p) : d.marked}}]

resolve_container(facts, requested) ==
  IF requested # None THEN requested
  ELSE IF facts.default_container # None THEN facts.default_container
  ELSE facts.first_container

Passthrough == [allowed |-> TRUE, patch |-> None]
Wrap(command) == [allowed |-> TRUE, patch |-> command]
Deny == [allowed |-> FALSE, patch |-> None]

WrapsAgainVariant(command, requested, facts) ==
  CASE ~facts.is_sandbox -> Passthrough
    [] facts.is_sandbox /\ (resolve_container(facts, requested) \notin facts.agent_containers
                            \/ command = <<>>) -> Deny
    [] OTHER -> Wrap(Wrapper \o command)
decide_exec(command, requested, facts) ==
  LET target == resolve_container(facts, requested)
  IN  CASE ~facts.is_sandbox -> Passthrough
        [] facts.is_sandbox /\ (target \notin facts.agent_containers \/ command = <<>>) -> Deny
        [] OTHER -> IF IsPrefix(Wrapper, command) THEN Passthrough
                    ELSE Wrap(Wrapper \o command)

-------------------------------------------------------------------------------
\* Users and the API server.

\* The pod is deleted, or another takes its name, or it is annotated.
ReplacePod(p) ==
  /\ Mishap /\ pod # p
  /\ pod' = p
  /\ UNCHANGED <<certVars, req>>

\* Only an exec has a command and, for the decision, a container.
Ask(sub, container, command) ==
  /\ req = None
  /\ req' = [sub |-> sub, container |-> container, command |-> command,
             asked |-> command, state |-> "call", replica |-> None,
             seen |-> {}, again |-> sub = "exec"]
  /\ UNCHANGED <<certVars, pod, mishaps>>

CaBundle == IF req.sub = "exec" THEN mutating ELSE validating

\* The service routes to ready replicas only; whatever goes wrong denies.
Call(r) ==
  /\ req # None /\ req.state = "call" /\ ready[r]
  /\ req' = IF pc[r] = "serving" /\ bundle[r] = CaBundle
            THEN [req EXCEPT !.state = "handle", !.replica = r] ELSE None
  /\ UNCHANGED <<certVars, pod, mishaps>>

Unreachable ==
  /\ req # None /\ req.state = "call" /\ \A r \in Replicas : ~ready[r]
  /\ req' = None
  /\ UNCHANGED <<certVars, pod, mishaps>>

\* The answer: the request goes on as it is or with the patched command.
Answer(action) ==
  IF action.allowed
  THEN [req EXCEPT !.state = "admitted", !.replica = None, !.seen = @ \cup {pod},
                   !.command = IF action.patch = None THEN @ ELSE action.patch]
  ELSE None

\* handle_exec: the pod is read now; one that cannot be read is not entered.
HandleExec ==
  /\ req # None /\ req.state = "handle" /\ req.sub = "exec"
  /\ \/ /\ pod # None /\ UNCHANGED mishaps
        /\ req' = Answer(decide_exec(req.command, req.container, from_pod(pod)))
     \/ pod = None /\ req' = None /\ UNCHANGED mishaps
     \/ req' = None /\ Mishap
  /\ UNCHANGED <<certVars, pod>>

\* handle_guard: an update of ephemeral containers carries the pod, for an
\* attach it is read now.
HandleGuard ==
  /\ req # None /\ req.state = "handle" /\ req.sub # "exec"
  /\ \/ /\ pod # None /\ UNCHANGED mishaps
        /\ req' = Answer(IF from_pod(pod).is_sandbox THEN Deny ELSE Passthrough)
     \/ pod = None /\ req' = None /\ UNCHANGED mishaps
     \/ req' = None /\ Mishap
  /\ UNCHANGED <<certVars, pod>>

\* Another webhook changes the exec and this one is called again.
Reinvoke ==
  /\ req # None /\ req.state = "admitted" /\ req.again
  /\ req' = [req EXCEPT !.state = "call", !.again = FALSE]
  /\ UNCHANGED <<certVars, pod, mishaps>>

\* The API server connects to the container of the pod of that name, or
\* updates the pod.
Target == resolve_container(from_pod(pod), req.container)
Runs ==
  /\ pod # None
  /\ req.sub # "ephemeralcontainers" => Target \in {c.name : c \in ContainersOf(pod)}

Run ==
  /\ req # None /\ req.state = "admitted" /\ Runs
  /\ req' = None
  /\ UNCHANGED <<certVars, pod, mishaps>>

Fails ==
  /\ req # None /\ req.state = "admitted" /\ ~Runs
  /\ req' = None
  /\ UNCHANGED <<certVars, pod, mishaps>>

-------------------------------------------------------------------------------
\* A request at a replica that stops is not answered.
StopsUnder(r) ==
  /\ Stop(r)
  /\ req' = IF req # None /\ req.replica = r THEN None ELSE req
  /\ UNCHANGED <<pod, mishaps>>

Request ==
  \/ \E sub \in Subresources \ {"exec"} : Ask(sub, None, <<>>)
  \/ \E c \in ContainerNames \cup {None}, command \in Commands : Ask("exec", c, command)
  \/ \E r \in Replicas : Call(r)
  \/ Unreachable \/ HandleExec \/ HandleGuard \/ Reinvoke \/ Run \/ Fails

Next ==
  \/ \E r \in Replicas : (Boot(r) /\ UNCHANGED requestVars) \/ StopsUnder(r)
  \/ \E s \in {None, Incomplete} : ChangeSecret(s) /\ UNCHANGED requestVars
  \/ \E p \in Pods \cup {None} : ReplacePod(p)
  \/ Request

Spec == Init /\ [][Next]_vars

\* Kubernetes restarts a process that ends, and a start-up goes on.
FairSpec == Spec /\ \A r \in Replicas : WF_vars(Boot(r) /\ UNCHANGED requestVars)

-------------------------------------------------------------------------------
TypeOK ==
  /\ CertTypeOK
  /\ pod \in Pods \cup {None} /\ mishaps \in 0..MaxMishaps
  /\ req \in AdmissionRequest \cup {None}

\* What runs in a sandbox pod runs in an agent container and behind the wrapper,
\* which is there once, also when the webhook is called twice; nothing else is
\* let in, however replicas, certificate and pod reads fail, and other pods are
\* entered as asked. The pod must be the one every handler saw: one that takes
\* its name between answer and connection is not looked at again (decide_exec,
\* handle_exec, handle_guard).
EnteredConfined ==
  [][(req # None /\ req.state = "admitted" /\ req' = None /\ Runs /\ req.seen = {pod}) =>
       IF from_pod(pod).is_sandbox
       THEN /\ req.sub = "exec" /\ Target \in from_pod(pod).agent_containers
            /\ IF IsPrefix(Wrapper, req.asked) THEN req.command = req.asked
               ELSE req.command = Wrapper \o req.asked
       ELSE req.command = req.asked]_vars

\* Unless the Secret is damaged, every replica comes to serve and to report
\* ready, whatever it met on the way (bootstrap, ensure_cert).
StartUpCompletes ==
  <>[](secret # Incomplete => \A r \in Replicas : pc[r] = "serving" /\ ready[r])
===============================================================================
