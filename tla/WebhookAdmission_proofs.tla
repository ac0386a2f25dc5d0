------------------------ MODULE WebhookAdmission_proofs ------------------------
(***************************************************************************)
(* Requests never disturb the start-up: the whole webhook implements       *)
(* CertSpec, so what WebhookCert_proofs shows holds while requests run.    *)
(*                                                                         *)
(* EnteredConfined rests on Admitted: a request no handler has seen is as  *)
(* it was asked, and one whose handlers all saw the same pod is what they  *)
(* decide for that pod. A second call keeps this because the wrapper is a  *)
(* prefix of what the first one made of the command.                       *)
(***************************************************************************)
EXTENDS WebhookAdmission, WebhookCert_proofs, SequenceTheorems

USE AdmissionAssumption

LEMMA CertStep ==
  ASSUME [Next]_vars
  PROVE  [CertNext]_certVars
<1>1. CASE \E r \in Replicas : (Boot(r) /\ UNCHANGED requestVars) \/ StopsUnder(r)
  BY <1>1 DEF CertNext, StopsUnder
<1>2. CASE \E s \in {None, Incomplete} : ChangeSecret(s) /\ UNCHANGED requestVars
  BY <1>2 DEF CertNext
<1>3. CASE \E p \in Pods \cup {None} : ReplacePod(p)
  BY <1>3 DEF ReplacePod
<1>4. CASE Request
  BY <1>4, Zenon DEF Request, Ask, Call, Unreachable, HandleExec, HandleGuard, Reinvoke, Run, Fails
<1>5. CASE UNCHANGED vars
  BY <1>5 DEF vars
<1> QED
  BY <1>1, <1>2, <1>3, <1>4, <1>5 DEF Next

\* The webhook, with any requests, implements the start-up of its replicas.
THEOREM RequestsKeepCert == Spec => CertSpec
<1>1. Init => CertInit
  BY DEF Init
<1>2. [Next]_vars => [CertNext]_certVars
  BY CertStep
<1> QED
  BY <1>1, <1>2, PTL DEF Spec, CertSpec

\* While requests run, too, ready replicas are trusted as long as one
\* certificate was stored (ensure_cert, inject_ca, mark_ready).
THEOREM ReadyIsTrusted == Spec => []TrustAgrees
  BY RequestsKeepCert, StartUpTrusted, PTL

\* And a rotation is over once every replica has restarted (inject_ca).
THEOREM RotationsHeal == Spec => []RotationHeals
  BY RequestsKeepCert, StartUpHeals, PTL

-------------------------------------------------------------------------------
\* Commands.

Wrapped(command) == IF IsPrefix(Wrapper, command) THEN command ELSE Wrapper \o command

LEMMA WrapperIsPrefix ==
  ASSUME NEW a \in Seq(Words)
  PROVE  Wrapped(a) \in Seq(Words) /\ Wrapper \o a \in Seq(Words) /\ IsPrefix(Wrapper, Wrapped(a))
<1>1. Wrapper \o a \in Seq(Words) /\ Len(Wrapper \o a) = Len(Wrapper) + Len(a)
  BY ConcatProperties
<1>2. SubSeq(Wrapper, 1, Len(Wrapper)) = SubSeq(Wrapper \o a, 1, Len(Wrapper))
  <2>1. \A i \in 1..Len(Wrapper) : (Wrapper \o a)[i] = Wrapper[i]
    BY ConcatProperties
  <2> QED
    BY <1>1, <2>1
<1>3. IsPrefix(Wrapper, Wrapper \o a)
  BY <1>1, <1>2, LenProperties DEF IsPrefix
<1> QED
  BY <1>1, <1>3 DEF Wrapped

-------------------------------------------------------------------------------
\* Requests.

\* What the handlers decide for a pod.
Decided(q, p) ==
  IF from_pod(p).is_sandbox
  THEN /\ q.sub = "exec"
       /\ resolve_container(from_pod(p), q.container) \in from_pod(p).agent_containers
       /\ q.command = Wrapped(q.asked)
  ELSE q.command = q.asked

Judged(q) ==
  /\ q.seen = {} => q.command = q.asked
  /\ \A p : q.seen = {p} => Decided(q, p)
  /\ q.state = "admitted" => q.seen # {}

Admitted ==
  /\ req \in AdmissionRequest \cup {None}
  /\ pod \in Pods \cup {None}
  /\ req # None => Judged(req)

\* Where a request is does not matter to what it is.
LEMMA Moved ==
  ASSUME NEW q \in AdmissionRequest, NEW v \in AdmissionRequest, Judged(q),
         v.sub = q.sub, v.container = q.container, v.command = q.command,
         v.asked = q.asked, v.seen = q.seen, v.state # "admitted"
  PROVE  Judged(v)
  BY DEF Judged, Decided

\* What an answer makes of the request.
After(command) ==
  [req EXCEPT !.state = "admitted", !.replica = None, !.seen = req.seen \cup {pod},
              !.command = command]

LEMMA Answers ==
  /\ Answer(Deny) = None
  /\ Answer(Passthrough) = After(req.command)
  /\ \A c \in Seq(Words) : Answer(Wrap(c)) = After(c)
  BY DEF Answer, Deny, Passthrough, Wrap, After

LEMMA AfterFields ==
  ASSUME NEW c \in Seq(Words), pod \in Pods, req \in AdmissionRequest
  PROVE  /\ After(c) \in AdmissionRequest
         /\ After(c).sub = req.sub /\ After(c).container = req.container
         /\ After(c).asked = req.asked /\ After(c).seen = req.seen \cup {pod}
         /\ After(c).command = c
  BY DEF After, AdmissionRequest

\* A handler that lets a request through decides for the pod it read.
LEMMA Handled ==
  ASSUME NEW c \in Seq(Words), pod \in Pods, req \in AdmissionRequest, Judged(req),
         req.seen \subseteq {pod} => Decided(After(c), pod)
  PROVE  Judged(After(c))
<1>1. After(c).seen = req.seen \cup {pod}
  BY AfterFields
<1>2. ASSUME NEW p, After(c).seen = {p}
      PROVE  Decided(After(c), p)
  <2>1. p = pod /\ req.seen \subseteq {pod}
    BY <1>1, <1>2
  <2> QED
    BY <2>1
<1>3. After(c).seen # {}
  BY <1>1
<1> QED
  BY <1>2, <1>3 DEF Judged

LEMMA ExecHandled ==
  ASSUME Admitted, HandleExec
  PROVE  Admitted'
<1>1. req \in AdmissionRequest /\ Judged(req) /\ UNCHANGED pod
  BY DEF Admitted, HandleExec
<1>2. req.command \in Seq(Words) /\ req.asked \in Seq(Words)
  BY <1>1 DEF AdmissionRequest
<1>3. CASE req' = None
  BY <1>1, <1>3 DEF Admitted
<1>4. CASE pod # None /\ req' = Answer(decide_exec(req.command, req.container, from_pod(pod)))
  <2> DEFINE facts == from_pod(pod)
             target == resolve_container(facts, req.container)
  <2>1. pod \in Pods
    BY <1>4 DEF Admitted
  <2>2. req.seen \subseteq {pod} =>
          req.command = req.asked \/ (facts.is_sandbox /\ req.command = Wrapped(req.asked))
    <3>1. CASE req.seen = {}
      BY <1>1, <3>1 DEF Judged
    <3>2. CASE req.seen = {pod}
      BY <1>1, <3>2 DEF Judged, Decided
    <3> QED
      BY <3>1, <3>2
  <2> HIDE DEF facts
  <2>3. CASE ~facts.is_sandbox
    <3>1. req' = After(req.command)
      BY <1>4, <2>3, Answers DEF decide_exec, facts
    <3>2. req.seen \subseteq {pod} => Decided(After(req.command), pod)
      BY <1>1, <1>2, <2>1, <2>2, <2>3, AfterFields DEF Decided, facts
    <3> QED
      BY <1>1, <1>2, <2>1, <3>1, <3>2, Handled, AfterFields DEF Admitted
  <2>4. CASE facts.is_sandbox /\ (target \notin facts.agent_containers \/ req.command = <<>>)
    <3>1. req' = None
      BY <1>4, <2>4, Answers DEF decide_exec, facts
    <3> QED
      BY <1>1, <3>1 DEF Admitted
  <2>5. CASE facts.is_sandbox /\ ~(target \notin facts.agent_containers \/ req.command = <<>>)
    <3>1. req' = After(Wrapped(req.command))
      BY <1>2, <1>4, <2>5, Answers, WrapperIsPrefix DEF decide_exec, facts, Wrapped
    <3>2. Wrapped(Wrapped(req.asked)) = Wrapped(req.asked)
      BY <1>2, WrapperIsPrefix DEF Wrapped
    <3>3. Wrapped(req.command) \in Seq(Words)
      BY <1>2, WrapperIsPrefix
    <3>4. req.seen \subseteq {pod} => Decided(After(Wrapped(req.command)), pod)
      BY <1>1, <2>1, <2>2, <2>5, <3>2, <3>3, AfterFields DEF Decided, facts, HandleExec
    <3> QED
      BY <1>1, <2>1, <3>1, <3>3, <3>4, Handled, AfterFields DEF Admitted
  <2> QED
    BY <2>3, <2>4, <2>5
<1> QED
  BY <1>3, <1>4 DEF HandleExec

LEMMA GuardHandled ==
  ASSUME Admitted, HandleGuard
  PROVE  Admitted'
<1>1. req \in AdmissionRequest /\ Judged(req) /\ UNCHANGED pod
  BY DEF Admitted, HandleGuard
<1>2. req.command \in Seq(Words)
  BY <1>1 DEF AdmissionRequest
<1>3. CASE req' = None
  BY <1>1, <1>3 DEF Admitted
<1>4. CASE pod # None /\ ~from_pod(pod).is_sandbox /\ req' = Answer(Passthrough)
  <2>1. pod \in Pods /\ req' = After(req.command)
    BY <1>4, Answers DEF Admitted
  <2>2. req.seen \subseteq {pod} => req.command = req.asked
    BY <1>1, <1>4 DEF Judged, Decided
  <2>3. req.seen \subseteq {pod} => Decided(After(req.command), pod)
    BY <1>1, <1>2, <1>4, <2>1, <2>2, AfterFields DEF Decided
  <2> QED
    BY <1>1, <1>2, <2>1, <2>3, Handled, AfterFields DEF Admitted
<1> QED
  BY <1>3, <1>4, Answers DEF HandleGuard

LEMMA AdmittedStep ==
  ASSUME Admitted, [Next]_vars
  PROVE  Admitted'
<1>1. ASSUME NEW sub \in Subresources, NEW c \in ContainerNames \cup {None},
             NEW command \in Commands \cup {<<>>}, Ask(sub, c, command)
      PROVE  Admitted'
  <2>1. (sub = "exec") \in BOOLEAN
    OBVIOUS
  <2>2. command \in Seq(Words)
    BY EmptySeq
  <2>3. /\ req' \in AdmissionRequest /\ req'.seen = {} /\ req'.state = "call"
        /\ req'.command = req'.asked /\ UNCHANGED pod
    BY <1>1, <2>1, <2>2 DEF Ask, AdmissionRequest
  <2> QED
    BY <2>3 DEF Admitted, Judged
<1>2. ASSUME req # None, req' # None, UNCHANGED pod,
             req' = [req EXCEPT !.state = "call", !.again = FALSE]
             \/ \E r \in Replicas : req' = [req EXCEPT !.state = "handle", !.replica = r]
      PROVE  Admitted'
  <2>1. /\ req' \in AdmissionRequest /\ req'.state # "admitted"
        /\ req'.sub = req.sub /\ req'.container = req.container
        /\ req'.command = req.command /\ req'.asked = req.asked /\ req'.seen = req.seen
    BY <1>2 DEF Admitted, AdmissionRequest
  <2>2. req \in AdmissionRequest /\ Judged(req)
    BY <1>2 DEF Admitted
  <2>3. Judged(req')
    BY <2>1, <2>2, Moved
  <2> QED
    BY <1>2, <2>1, <2>3 DEF Admitted
<1>3. ASSUME req' \in {req, None}, pod' \in Pods \cup {None}
      PROVE  Admitted'
  BY <1>3 DEF Admitted
<1>4. CASE \/ \E sub \in Subresources \ {"exec"} : Ask(sub, None, <<>>)
           \/ \E c \in ContainerNames \cup {None}, command \in Commands : Ask("exec", c, command)
  BY <1>1, <1>4 DEF Subresources
<1>5. CASE Reinvoke \/ \E r \in Replicas : Call(r)
  BY <1>2, <1>3, <1>5 DEF Reinvoke, Call, Admitted
<1>6. CASE Unreachable \/ Run \/ Fails
  BY <1>3, <1>6 DEF Unreachable, Run, Fails, Admitted
<1>7. CASE \E p \in Pods \cup {None} : ReplacePod(p)
  BY <1>3, <1>7 DEF ReplacePod
<1>8. CASE \E r \in Replicas : StopsUnder(r)
  BY <1>3, <1>8 DEF StopsUnder, Admitted
<1>9. CASE UNCHANGED requestVars
  BY <1>3, <1>9 DEF requestVars, Admitted
<1> QED
  BY <1>4, <1>5, <1>6, <1>7, <1>8, <1>9, ExecHandled, GuardHandled DEF Next, Request, vars, requestVars

LEMMA AdmittedAlways == Spec => []Admitted
<1>1. Init => Admitted
  BY DEF Init, Admitted
<1>2. Admitted /\ [Next]_vars => Admitted'
  BY AdmittedStep
<1> QED
  BY <1>1, <1>2, PTL DEF Spec

\* The type invariant of start-up and requests together, for any replicas, pods,
\* commands and bounds.
THEOREM TypeCorrect == Spec => []TypeOK
<1> DEFINE Bounded == mishaps \in 0..MaxMishaps
<1>1. Init => Bounded
  BY DEF Init
<1>2. Bounded /\ [Next]_vars => Bounded'
  <2>1. [Next]_vars => UNCHANGED mishaps \/ Mishap
    BY Zenon DEF Next, vars, requestVars, StopsUnder, ReplacePod, Request, Ask, Call, Unreachable,
                 HandleExec, HandleGuard, Reinvoke, Run, Fails
  <2> QED
    BY <2>1 DEF Mishap
<1>3. Bounded /\ Admitted /\ CertTypeOK => TypeOK
  BY DEF Admitted, TypeOK
<1> QED
  BY <1>1, <1>2, <1>3, AdmittedAlways, RequestsKeepCert, CertTypeCorrect, PTL DEF Spec

\* What runs in a sandbox pod runs in an agent container and behind the wrapper,
\* for any pods, commands and wrapper (decide_exec, handle_exec, handle_guard).
THEOREM SandboxesConfined == Spec => EnteredConfined
<1>1. Admitted /\ req # None /\ req.state = "admitted" /\ req.seen = {pod}
        => IF from_pod(pod).is_sandbox
           THEN /\ req.sub = "exec" /\ Target \in from_pod(pod).agent_containers
                /\ IF IsPrefix(Wrapper, req.asked) THEN req.command = req.asked
                   ELSE req.command = Wrapper \o req.asked
           ELSE req.command = req.asked
  BY DEF Admitted, Judged, Decided, Wrapped, Target
<1> QED
  BY <1>1, AdmittedAlways, PTL DEF Spec, EnteredConfined
===============================================================================
