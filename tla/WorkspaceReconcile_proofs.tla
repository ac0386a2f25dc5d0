----------------------- MODULE WorkspaceReconcile_proofs ----------------------
(***************************************************************************)
(* Proofs about WorkspaceReconcile, for any sets of subjects, sandboxes    *)
(* and providers and any number of edits, faults and stops: types, that    *)
(* the operator never deletes a workspace over a reference that stood all  *)
(* through the cleanup, that it never lets go of the resource before the   *)
(* gateway has let go of the workspace, and that a Ready status speaks the *)
(* truth about the members.                                                *)
(***************************************************************************)
EXTENDS WorkspaceReconcile, TLAPS

USE WorkspaceAssumption

TypeInv == TypeOK /\ LocalOK

-------------------------------------------------------------------------------
\* What the updates of the records return.

LEMMA ResourceUpdate ==
  ASSUME NEW c \in Resource, NEW m \in MemberSpecs
  PROVE  /\ [c EXCEPT !.members = m, !.gen = c.gen + 1] \in Resource
         /\ [c EXCEPT !.deleting = TRUE, !.gen = c.gen + 1] \in Resource
         /\ [c EXCEPT !.fin = TRUE] \in Resource
         /\ [c EXCEPT !.fin = FALSE] \in Resource
<1>1. c.gen + 1 \in Nat
  BY DEF Resource
<1> QED
  BY <1>1 DEF Resource

LEMMA StatusUpdate ==
  ASSUME NEW c \in Resource, NEW b \in BOOLEAN, NEW n \in Nat,
         NEW phase \in WorkspacePhases \cup {None}
  PROVE  [c EXCEPT !.ready = b, !.observed = n, !.phase = phase] \in Resource
  BY DEF Resource

LEMMA MemberUpdate ==
  ASSUME NEW w \in Workspace, NEW s \in Subjects, NEW m \in Roles \cup {None}
  PROVE  /\ [w EXCEPT !.members[s] = m] \in Workspace
         /\ [w EXCEPT !.members[s] = m].phase = w.phase
         /\ [w EXCEPT !.members[s] = m].closing = w.closing
<1>1. [w.members EXCEPT ![s] = m] \in Members
  BY DEF Workspace, Members
<1> QED
  BY <1>1 DEF Workspace

\* What delete_workspace makes of a workspace.
LEMMA ClosingUpdate ==
  ASSUME NEW w \in Workspace, NEW b \in BOOLEAN
  PROVE  LET v == [w EXCEPT !.phase = "Terminating", !.closing = w.closing \/ b]
         IN  v \in Workspace /\ v.phase = "Terminating" /\ v.closing = (w.closing \/ b)
<1>1. (w.closing \/ b) \in BOOLEAN
  BY DEF Workspace
<1> QED
  BY <1>1 DEF Workspace, GatewayPhases, WorkspacePhases

LEMMA PhaseUpdate ==
  ASSUME NEW w \in Workspace
  PROVE  /\ [w EXCEPT !.phase = "Active"] \in Workspace
         /\ [w EXCEPT !.phase = "Active"].closing = w.closing
  BY DEF Workspace, GatewayPhases, WorkspacePhases

LEMMA FreshType ==
  FreshWorkspace \in Workspace /\ FreshWorkspace.phase = "Active" /\ ~FreshWorkspace.closing
  BY DEF FreshWorkspace, Workspace, Members, GatewayPhases, WorkspacePhases

LEMMA DoneType ==
  ASSUME Done
  PROVE  /\ pc' = "idle" /\ obj' = None /\ state' = None
         /\ removes' = {} /\ adds' = {} /\ standing' = {}
         /\ counted' \in BOOLEAN
<1>1. counted' \in BOOLEAN
  BY Zenon DEF Done
<1> QED
  BY <1>1 DEF Done

LEMMA TypeInit == Init => TypeInv
<1> SUFFICES ASSUME Init PROVE TypeInv
  OBVIOUS
<1>1. [FreshWorkspace EXCEPT !.phase = "Unknown"] \in Workspace
  BY FreshType DEF Workspace, GatewayPhases
<1>2. counted \in BOOLEAN
  BY Zenon DEF Init
<1> QED
  BY <1>1, <1>2, FreshType DEF Init, TypeInv, TypeOK, LocalOK

\* The status patches of apply and of refuse_non_empty.
LEMMA OutcomeType ==
  ASSUME TypeInv, RecordOutcome, ws # None
  PROVE  ws' \in Resource
<1>1. obj \in Resource /\ ws \in Resource
  BY DEF TypeInv, TypeOK, LocalOK, RecordOutcome
<1>2. obj.gen \in Nat /\ (pc = "succeeded") \in BOOLEAN
  BY <1>1 DEF Resource
<1>3. Merged(IF pc = "succeeded" THEN map_phase(state) ELSE obj.phase, ws.phase)
        \in WorkspacePhases \cup {None}
  BY <1>1 DEF Merged, map_phase, Resource
<1>4. [ws EXCEPT
         !.ready = pc = "succeeded", !.observed = obj.gen,
         !.phase = Merged(IF pc = "succeeded" THEN map_phase(state)
                          ELSE obj.phase, @)] \in Resource
  BY <1>1, <1>2, <1>3, StatusUpdate
<1> QED
  BY <1>1, <1>4 DEF RecordOutcome

LEMMA RefusalType ==
  ASSUME TypeInv, RefuseNonEmpty, ws # None
  PROVE  ws' \in Resource
<1>1. obj \in Resource /\ ws \in Resource
  BY DEF TypeInv, TypeOK, LocalOK, RefuseNonEmpty
<1>2. (IF obj.observed = 0 THEN ws.observed ELSE obj.observed) \in Nat
  BY <1>1 DEF Resource
<1>3. Merged(obj.phase, ws.phase) \in WorkspacePhases \cup {None}
  BY <1>1 DEF Merged, Resource
<1>4. [ws EXCEPT !.ready = FALSE,
         !.observed = IF obj.observed = 0 THEN @ ELSE obj.observed,
         !.phase = Merged(obj.phase, @)] \in Resource
  BY <1>1, <1>2, <1>3, StatusUpdate
<1> QED
  BY <1>1, <1>4 DEF RefuseNonEmpty

\* DeleteOnGateway, whose answers need the deletion spelled out.
LEMMA DeleteType ==
  ASSUME TypeInv, DeleteOnGateway
  PROVE  TypeInv'
<1>1. gws' \in Workspace \cup {None}
  <2>1. CASE gws = None
    BY <2>1 DEF DeleteOnGateway
  <2>2. CASE gws # None
    <3>1. gws \in Workspace /\ (~Blocked) \in BOOLEAN
      BY <2>2 DEF TypeInv, TypeOK
    <3>2. gws' = [gws EXCEPT !.phase = "Terminating", !.closing = gws.closing \/ ~Blocked]
      BY <2>2 DEF DeleteOnGateway
    <3> QED
      BY <3>1, <3>2, ClosingUpdate
  <2> QED
    BY <2>1, <2>2
<1>2. \/ pc' = "release" /\ UNCHANGED <<obj, state, removes, adds, counted, standing>>
      \/ Done
  BY DEF DeleteOnGateway
<1>3. edits' \in 0..MaxEdits /\ faults' \in 0..MaxFaults /\ stops' \in 0..MaxStops
  BY DEF DeleteOnGateway, NoFault, Fault, budget, TypeInv, TypeOK
<1>4. UNCHANGED <<ws, refs, objects, cache>>
  BY DEF DeleteOnGateway, user
<1> QED
  BY <1>1, <1>2, <1>3, <1>4, DoneType DEF TypeInv, TypeOK, LocalOK, DeleteOnGateway

LEMMA TypeStep == TypeInv /\ [Next]_vars => TypeInv'
<1> SUFFICES ASSUME TypeInv, [Next]_vars PROVE TypeInv'
  OBVIOUS
<1> USE DEF TypeInv, TypeOK, LocalOK, user, gateway, local, budget
<1>1. ASSUME NEW m \in MemberSpecs, CreateWorkspace(m) PROVE TypeInv'
  BY <1>1 DEF CreateWorkspace, Edit, Resource
<1>2. ASSUME NEW m \in MemberSpecs, EditMembers(m) PROVE TypeInv'
  <2>1. ws \in Resource
    BY <1>2 DEF EditMembers
  <2>2. ws' \in Resource
    BY <1>2, <2>1, ResourceUpdate DEF EditMembers
  <2> QED
    BY <1>2, <2>2 DEF EditMembers, Edit
<1>3. CASE DeleteWorkspace
  <2>1. ws' \in Resource \cup {None}
    BY <1>3, ResourceUpdate DEF DeleteWorkspace, MemberSpecs
  <2> QED
    BY <1>3, <2>1 DEF DeleteWorkspace, Edit
<1>4. ASSUME NEW r \in Refs, DeclareRef(r) \/ DeleteRef(r) PROVE TypeInv'
  BY <1>4 DEF DeclareRef, DeleteRef, Edit
<1>5. ASSUME NEW r \in Refs, RefApplied(r) \/ ObjectGone(r) PROVE TypeInv'
  BY <1>5 DEF RefApplied, ObjectGone
<1>6. ASSUME NEW r \in Refs, RefCleanedUp(r) PROVE TypeInv'
  BY <1>6 DEF RefCleanedUp
<1>7. CASE PhaseSettles
  BY <1>7 DEF PhaseSettles, Workspace, GatewayPhases, WorkspacePhases
<1>8. CASE WorkspaceGone
  BY <1>8 DEF WorkspaceGone
<1>9. CASE MadeOutOfBand
  BY <1>9, FreshType DEF MadeOutOfBand, Edit
<1>10. ASSUME NEW s \in Subjects, NEW role \in Roles \cup {None},
              MemberChanges(s, role)
       PROVE  TypeInv'
  <2>1. gws \in Workspace
    BY <1>10 DEF MemberChanges
  <2>2. gws' \in Workspace
    BY <1>10, <2>1, MemberUpdate DEF MemberChanges
  <2> QED
    BY <1>10, <2>2 DEF MemberChanges, Edit
<1>11. CASE WatchDelivers
  BY <1>11 DEF WatchDelivers
<1>12. CASE Restart
  BY <1>12, DoneType DEF Restart
<1>13. CASE AddFinalizer
  <2>1. ws \in Resource
    BY <1>13 DEF AddFinalizer
  <2>2. ws' \in Resource
    BY <1>13, <2>1, ResourceUpdate DEF AddFinalizer, MemberSpecs
  <2> QED
    BY <1>13, <2>2 DEF AddFinalizer
<1>14. CASE StartApply
  BY <1>14 DEF StartApply
<1>15. CASE GetWorkspace
  BY <1>15 DEF GetWorkspace, AfterGet, NoFault, Workspace
<1>16. CASE CreateOnGateway
  BY <1>16, FreshType
     DEF CreateOnGateway, AfterGet, Answered, NoFault, Fault, GatewayPhases, WorkspacePhases
<1>17. CASE AdoptWorkspace
  BY <1>17 DEF AdoptWorkspace, AfterGet, NoFault, Workspace
<1>18. CASE ListMembers
  BY <1>18 DEF ListMembers, NoFault, member_delta
<1>19. CASE RemoveMember
  <2>1. PICK s \in removes :
          /\ removes' = removes \ {s}
          /\ \/ /\ gws # None /\ gws' = [gws EXCEPT !.members[s] = None]
                /\ Answered("members")
             \/ pc' = "failed" /\ NoFault /\ UNCHANGED gws
    BY <1>19 DEF RemoveMember
  <2>2. gws' \in Workspace \cup {None}
    BY <2>1, MemberUpdate
  <2>3. pc' \in {"members", "failed"} /\ faults' \in 0..MaxFaults
        /\ UNCHANGED <<edits, stops>>
    BY <2>1 DEF Answered, NoFault, Fault
  <2>4. UNCHANGED <<ws, refs, objects, cache, obj, state, adds, counted, standing>>
        /\ pc = "members"
    BY <1>19 DEF RemoveMember
  <2> QED
    BY <2>1, <2>2, <2>3, <2>4
<1>20. CASE AddMember
  <2>1. PICK s \in adds :
          /\ adds' = adds \ {s}
          /\ \/ /\ gws # None /\ gws' = [gws EXCEPT !.members[s] = obj.members[s]]
                /\ Answered("members")
             \/ pc' = "failed" /\ NoFault /\ UNCHANGED gws
    BY <1>20 DEF AddMember
  <2>2. obj.members[s] \in Roles \cup {None}
    BY <1>20 DEF AddMember, Resource, MemberSpecs, Members
  <2>3. gws' \in Workspace \cup {None}
    BY <2>1, <2>2, MemberUpdate
  <2>4. pc' \in {"members", "failed"} /\ faults' \in 0..MaxFaults
        /\ UNCHANGED <<edits, stops>>
    BY <2>1 DEF Answered, NoFault, Fault
  <2>5. UNCHANGED <<ws, refs, objects, cache, obj, state, removes, counted, standing>>
        /\ pc = "members"
    BY <1>20 DEF AddMember
  <2> QED
    BY <2>1, <2>3, <2>4, <2>5
<1>21. CASE MembersConverged
  BY <1>21 DEF MembersConverged
<1>22. CASE CallFails
  BY <1>22 DEF CallFails, Fault
<1>23. CASE RecordOutcome
  <2>1. ws' \in Resource \cup {None}
    BY <1>23, OutcomeType DEF RecordOutcome
  <2> QED
    BY <1>23, <2>1, DoneType DEF RecordOutcome, NoFault, Fault
<1>24. CASE StartCleanup
  BY <1>24 DEF StartCleanup, Referencing
<1>25. CASE CountSandboxes
  BY <1>25 DEF CountSandboxes
<1>26. CASE CountProviders
  BY <1>26 DEF CountProviders
<1>27. CASE RefuseNonEmpty
  <2>1. ws' \in Resource \cup {None}
    BY <1>27, RefusalType DEF RefuseNonEmpty
  <2> QED
    BY <1>27, <2>1, DoneType DEF RefuseNonEmpty, NoFault, Fault
<1>28. CASE CleanupFails
  BY <1>28, DoneType DEF CleanupFails, Fault
<1>29. CASE ReleaseFinalizer
  <2>1. ws' \in Resource \cup {None}
    BY <1>29, ResourceUpdate DEF ReleaseFinalizer, MemberSpecs
  <2> QED
    BY <1>29, <2>1, DoneType DEF ReleaseFinalizer, NoFault, Fault
<1>30. CASE UNCHANGED vars
  BY <1>30 DEF vars
<1> QED
  BY <1>1, <1>2, <1>3, <1>4, <1>5, <1>6, <1>7, <1>8, <1>9, <1>10, <1>11, <1>12,
     <1>13, <1>14, <1>15, <1>16, <1>17, <1>18, <1>19, <1>20, <1>21, <1>22,
     <1>23, <1>24, <1>25, <1>26, <1>27, <1>28, <1>29, <1>30, DeleteType
     DEF Next, Reconcile, Environment

\* Every variable of the workspace controller keeps its type: the status, the
\* finalizer and the deltas through every edit, fault and restart.
THEOREM TypeCorrect == Spec => []TypeOK
<1>1. TypeInv => TypeOK
  BY DEF TypeInv
<1> QED
  BY <1>1, TypeInit, TypeStep, PTL DEF Spec

-------------------------------------------------------------------------------
\* The cleanup's argument.

SafeInv == TypeInv /\ CleanupInv

LEMMA SafeInit == Init => SafeInv
<1> SUFFICES ASSUME Init PROVE CleanupInv
  BY TypeInit DEF SafeInv
<1>1. gws = None \/ ~gws.closing
  BY FreshType DEF Init, FreshWorkspace
<1> QED
  BY <1>1 DEF Init, CleanupInv

\* A reconcile that ends forgets its counts.
LEMMA DoneKeeps ==
  ASSUME Done, gws' # None /\ gws'.closing => gws'.phase = "Terminating"
  PROVE  CleanupInv'
  BY DEF CleanupInv, Done

\* A step that touches neither the references nor the counts, does not enter
\* the cleanup, and does not bring a workspace back while one is released.
LEMMA ElsewhereKeeps ==
  ASSUME CleanupInv, UNCHANGED <<refs, standing, counted>>,
         pc' \in {"countProviders", "delete", "release"} => pc' = pc,
         gws' # None /\ gws'.closing => gws'.phase = "Terminating",
         (gws = None \/ gws.closing) /\ pc' = "release" /\ ~OutOfBand
           => gws' = None \/ gws'.closing
  PROVE  CleanupInv'
  BY DEF CleanupInv

LEMMA SafeStep == SafeInv /\ [Next]_vars => SafeInv'
<1> SUFFICES ASSUME SafeInv, [Next]_vars PROVE CleanupInv'
  BY TypeStep DEF SafeInv
<1>0. TypeOK /\ LocalOK /\ CleanupInv
  BY DEF SafeInv, TypeInv
<1>c. gws # None /\ gws.closing => gws.phase = "Terminating"
  BY <1>0 DEF CleanupInv
<1>1. ASSUME UNCHANGED <<refs, standing, counted, gws>>,
             pc' \in {"countProviders", "delete", "release"} => pc' = pc
      PROVE  CleanupInv'
  BY <1>0, <1>c, <1>1, ElsewhereKeeps
<1>2. CASE AddFinalizer \/ StartApply \/ GetWorkspace \/ AdoptWorkspace
             \/ ListMembers \/ MembersConverged \/ CallFails \/ WatchDelivers
  BY <1>1, <1>2 DEF AddFinalizer, StartApply, GetWorkspace, AdoptWorkspace,
     AfterGet, ListMembers, MembersConverged, CallFails, WatchDelivers, user,
     gateway, local
<1>3. CASE CreateOnGateway
  <2>1. UNCHANGED gws \/ gws' = FreshWorkspace
    BY <1>3 DEF CreateOnGateway
  <2>2. gws' # None /\ gws'.closing => gws'.phase = "Terminating"
    BY <1>c, <2>1, FreshType
  <2>3. pc' \in {"adopt", "list", "succeeded", "failed"}
        /\ UNCHANGED <<refs, standing, counted>>
    BY <1>3 DEF CreateOnGateway, Answered, AfterGet, user
  <2> QED
    BY <1>0, <2>2, <2>3, ElsewhereKeeps
<1>4. CASE RemoveMember \/ AddMember
  <2>1. UNCHANGED <<refs, standing, counted>> /\ pc' \in {"members", "failed"}
    BY <1>4 DEF RemoveMember, AddMember, Answered, user
  <2>2. gws' # None /\ gws'.closing => gws'.phase = "Terminating"
    <3>1. CASE UNCHANGED gws
      BY <1>c, <3>1
    <3>2. CASE RemoveMember /\ ~UNCHANGED gws
      <4>1. PICK s \in removes : gws # None /\ gws' = [gws EXCEPT !.members[s] = None]
        BY <3>2 DEF RemoveMember
      <4> QED
        BY <1>0, <1>c, <4>1, MemberUpdate DEF TypeOK
    <3>3. CASE AddMember /\ ~UNCHANGED gws
      <4>1. PICK s \in adds :
              gws # None /\ gws' = [gws EXCEPT !.members[s] = obj.members[s]]
        BY <3>3 DEF AddMember
      <4>2. obj.members[s] \in Roles \cup {None}
        BY <1>0, <3>3 DEF AddMember, TypeOK, LocalOK, Resource, MemberSpecs, Members
      <4> QED
        BY <1>0, <1>c, <4>1, <4>2, MemberUpdate DEF TypeOK
    <3> QED
      BY <1>4, <3>1, <3>2, <3>3
  <2> QED
    BY <1>0, <2>1, <2>2, ElsewhereKeeps
<1>5. CASE RecordOutcome \/ RefuseNonEmpty \/ ReleaseFinalizer \/ CleanupFails
             \/ Restart
  BY <1>c, <1>5, DoneKeeps DEF RecordOutcome, RefuseNonEmpty, ReleaseFinalizer,
     CleanupFails, Restart, gateway
<1>6. CASE StartCleanup
  BY <1>0, <1>6 DEF StartCleanup, Referencing, CleanupInv, user, gateway
<1>7. CASE CountSandboxes
  <2>1. counted' <=> \E r \in Sandboxes : refs[r] # "none"
    BY <1>7 DEF CountSandboxes, Referencing
  <2> QED
    BY <1>0, <1>7, <2>1 DEF CountSandboxes, CleanupInv, user, gateway
<1>8. CASE CountProviders
  <2>1. counted' <=> counted \/ \E r \in Providers : refs[r] # "none"
    BY <1>8 DEF CountProviders, Referencing
  <2>2. ~counted' => standing = {}
    BY <1>0, <1>8, <2>1 DEF CountProviders, CleanupInv, TypeOK, Refs
  <2> QED
    BY <1>0, <1>8, <2>2 DEF CountProviders, CleanupInv, user, gateway
<1>9. CASE DeleteOnGateway
  <2>1. gws' # None /\ gws'.closing => gws'.phase = "Terminating"
    <3>1. CASE gws = None
      BY <1>9, <3>1 DEF DeleteOnGateway
    <3>2. CASE gws # None
      <4>1. gws \in Workspace /\ (~Blocked) \in BOOLEAN
        BY <1>0, <3>2 DEF TypeOK
      <4>2. gws' = [gws EXCEPT !.phase = "Terminating",
                               !.closing = gws.closing \/ ~Blocked]
        BY <1>9, <3>2 DEF DeleteOnGateway
      <4> QED
        BY <4>1, <4>2, ClosingUpdate
    <3> QED
      BY <3>1, <3>2
  <2>2. CASE Done
    BY <2>1, <2>2, DoneKeeps
  <2>3. CASE /\ gws # None => gws'.closing
             /\ pc' = "release"
             /\ UNCHANGED <<obj, state, removes, adds, counted, standing>>
    BY <1>0, <1>9, <2>1, <2>3 DEF DeleteOnGateway, CleanupInv, user
  <2> QED
    BY <1>9, <2>2, <2>3 DEF DeleteOnGateway
<1>10. ASSUME NEW m \in MemberSpecs, CreateWorkspace(m) \/ EditMembers(m)
       PROVE  CleanupInv'
  BY <1>1, <1>10 DEF CreateWorkspace, EditMembers, gateway, local
<1>11. CASE DeleteWorkspace
  BY <1>1, <1>11 DEF DeleteWorkspace, gateway, local
<1>12. ASSUME NEW r \in Refs, DeclareRef(r) \/ DeleteRef(r) \/ RefCleanedUp(r)
       PROVE  CleanupInv'
  BY <1>0, <1>12 DEF DeclareRef, DeleteRef, RefCleanedUp, CleanupInv, TypeOK,
     gateway, local
<1>13. ASSUME NEW r \in Refs, RefApplied(r) \/ ObjectGone(r) PROVE CleanupInv'
  BY <1>1, <1>13 DEF RefApplied, ObjectGone, user, local
<1>14. CASE PhaseSettles
  <2>1. gws' # None /\ ~gws'.closing /\ ~gws.closing
    <3>1. gws \in Workspace /\ gws.phase = "Unknown"
      BY <1>0, <1>14 DEF PhaseSettles, TypeOK
    <3>2. ~gws.closing
      BY <1>c, <1>14, <3>1 DEF PhaseSettles
    <3>3. gws' \in Workspace /\ gws'.closing = gws.closing
      BY <1>14, <3>1, PhaseUpdate DEF PhaseSettles
    <3> QED
      BY <3>2, <3>3
  <2> QED
    BY <1>0, <1>14, <2>1, ElsewhereKeeps DEF PhaseSettles, user, local
<1>15. CASE WorkspaceGone
  BY <1>0, <1>15, ElsewhereKeeps DEF WorkspaceGone, user, local
<1>16. CASE MadeOutOfBand
  BY <1>0, <1>16, ElsewhereKeeps, FreshType DEF MadeOutOfBand, user, local
<1>17. ASSUME NEW s \in Subjects, NEW role \in Roles \cup {None},
              MemberChanges(s, role)
       PROVE  CleanupInv'
  <2>1. gws' # None /\ gws'.phase = gws.phase /\ gws'.closing = gws.closing
    BY <1>0, <1>17, MemberUpdate DEF MemberChanges, TypeOK
  <2> QED
    BY <1>0, <1>c, <1>17, <2>1, ElsewhereKeeps DEF MemberChanges, user, local
<1>18. CASE UNCHANGED vars
  BY <1>1, <1>18 DEF vars
<1> QED
  BY <1>2, <1>3, <1>4, <1>5, <1>6, <1>7, <1>8, <1>9, <1>10, <1>11, <1>12,
     <1>13, <1>14, <1>15, <1>16, <1>17, <1>18 DEF Next, Reconcile, Environment

LEMMA SafeAlways == Spec => []SafeInv
<1> QED
  BY SafeInit, SafeStep, PTL DEF Spec
-------------------------------------------------------------------------------
\* Only the delete of a cleanup marks a workspace terminating.
LEMMA MarkStep ==
  ASSUME SafeInv, [Next]_vars, Usable, gws' # None, gws'.phase = "Terminating"
  PROVE  standing = {}
<1>0. TypeOK /\ LocalOK /\ CleanupInv /\ gws \in Workspace /\ gws.phase # "Terminating"
  BY DEF SafeInv, TypeInv, TypeOK, Usable
<1>1. CASE DeleteOnGateway
  BY <1>0, <1>1 DEF DeleteOnGateway, CleanupInv
<1>2. CASE RemoveMember
  <2>1. PICK s \in removes : UNCHANGED gws \/ gws' = [gws EXCEPT !.members[s] = None]
    BY <1>2 DEF RemoveMember
  <2>2. s \in Subjects
    BY <1>0 DEF TypeOK
  <2>3. CASE UNCHANGED gws
    BY <1>0, <2>3
  <2>4. ASSUME NEW m \in Roles \cup {None}, gws' = [gws EXCEPT !.members[s] = m]
        PROVE  FALSE
    <3>1. [gws EXCEPT !.members[s] = m].phase = gws.phase
      BY <1>0, <2>2, MemberUpdate
    <3> QED
      BY <1>0, <2>4, <3>1
  <2> QED
    BY <2>1, <2>2, <2>3, <2>4
<1>3. CASE AddMember
  <2>1. PICK s \in adds :
          UNCHANGED gws \/ gws' = [gws EXCEPT !.members[s] = obj.members[s]]
    BY <1>3 DEF AddMember
  <2>2. s \in Subjects /\ obj.members[s] \in Roles \cup {None}
    BY <1>0, <1>3 DEF AddMember, TypeOK, LocalOK, Resource, MemberSpecs, Members
  <2>3. CASE UNCHANGED gws
    BY <1>0, <2>3
  <2>4. ASSUME NEW m \in Roles \cup {None}, gws' = [gws EXCEPT !.members[s] = m]
        PROVE  FALSE
    <3>1. [gws EXCEPT !.members[s] = m].phase = gws.phase
      BY <1>0, <2>2, MemberUpdate
    <3> QED
      BY <1>0, <2>4, <3>1
  <2> QED
    BY <2>1, <2>2, <2>3, <2>4
<1>4. CASE CreateOnGateway
  BY <1>0, <1>4, FreshType DEF CreateOnGateway
<1>5. CASE AddFinalizer \/ StartApply \/ GetWorkspace \/ AdoptWorkspace
             \/ ListMembers \/ MembersConverged \/ CallFails \/ WatchDelivers
             \/ RecordOutcome \/ StartCleanup \/ CountSandboxes \/ CountProviders
             \/ RefuseNonEmpty \/ ReleaseFinalizer \/ CleanupFails \/ Restart
  BY <1>0, <1>5 DEF AddFinalizer, StartApply, GetWorkspace, AdoptWorkspace,
     ListMembers, MembersConverged, CallFails, WatchDelivers, RecordOutcome,
     StartCleanup, CountSandboxes, CountProviders, RefuseNonEmpty,
     ReleaseFinalizer, CleanupFails, Restart, gateway
<1>6. CASE Environment
  <2>1. ASSUME NEW m \in MemberSpecs, CreateWorkspace(m) \/ EditMembers(m) PROVE FALSE
    BY <1>0, <2>1 DEF CreateWorkspace, EditMembers, gateway
  <2>2. ASSUME NEW r \in Refs, DeclareRef(r) \/ DeleteRef(r) \/ RefApplied(r)
                 \/ RefCleanedUp(r) \/ ObjectGone(r)
        PROVE FALSE
    BY <1>0, <2>2 DEF DeclareRef, DeleteRef, RefApplied, RefCleanedUp, ObjectGone, gateway
  <2>3. CASE DeleteWorkspace
    BY <1>0, <2>3 DEF DeleteWorkspace, gateway
  <2>4. CASE PhaseSettles
    BY <1>0, <2>4 DEF PhaseSettles, Workspace
  <2>5. CASE WorkspaceGone
    BY <2>5 DEF WorkspaceGone
  <2>6. CASE MadeOutOfBand
    BY <1>0, <2>6, FreshType DEF MadeOutOfBand
  <2>7. ASSUME NEW s \in Subjects, NEW role \in Roles \cup {None}, MemberChanges(s, role)
        PROVE  FALSE
    BY <1>0, <2>7, MemberUpdate DEF MemberChanges
  <2> QED
    BY <1>6, <2>1, <2>2, <2>3, <2>4, <2>5, <2>6, <2>7 DEF Environment
<1>7. CASE UNCHANGED vars
  BY <1>0, <1>7 DEF vars
<1> QED
  BY <1>1, <1>2, <1>3, <1>4, <1>5, <1>6, <1>7 DEF Next, Reconcile

\* The operator never asks for the irrevocable deletion of a workspace while a
\* sandbox or provider has referenced it all through the cleanup, whatever
\* edits, faults or restarts fall between its calls (cleanup, count_referencing).
THEOREM ReferencesBlock == Spec => StandingReferencesBlock
<1>1. SafeInv /\ [Next]_vars =>
        [(Usable /\ gws' # None /\ gws'.phase = "Terminating") => standing = {}]_vars
  BY MarkStep
<1> QED
  BY <1>1, SafeAlways, PTL DEF Spec, StandingReferencesBlock

LEMMA ReleaseStep ==
  ASSUME SafeInv, [Next]_vars, ws # None, ws.fin, ws' = None, ~IsDefault, ~OutOfBand
  PROVE  gws = None \/ gws.closing
<1>0. ws \in Resource /\ CleanupInv
  BY DEF SafeInv, TypeInv, TypeOK
<1>1. CASE ReleaseFinalizer
  BY <1>0, <1>1 DEF ReleaseFinalizer, CleanupInv
<1>2. CASE DeleteWorkspace
  <2>1. ws' = [ws EXCEPT !.deleting = TRUE, !.gen = ws.gen + 1]
    BY <1>2 DEF DeleteWorkspace
  <2>2. ws' \in Resource
    BY <1>0, <2>1, ResourceUpdate DEF MemberSpecs
  <2> QED
    BY <2>2
<1>3. CASE UNCHANGED ws
  BY <1>3
<1>4. CASE \E m \in MemberSpecs : EditMembers(m)
  BY <1>0, <1>4, ResourceUpdate DEF EditMembers
<1>5. CASE AddFinalizer
  BY <1>5 DEF AddFinalizer
<1>6. CASE RecordOutcome \/ RefuseNonEmpty
  BY <1>6, OutcomeType, RefusalType DEF SafeInv
<1>7. CASE \E m \in MemberSpecs : CreateWorkspace(m)
  BY <1>7 DEF CreateWorkspace
<1>8. ASSUME StartApply \/ GetWorkspace \/ CreateOnGateway \/ AdoptWorkspace
               \/ ListMembers \/ RemoveMember \/ AddMember \/ MembersConverged
               \/ StartCleanup \/ CountSandboxes \/ CountProviders
               \/ DeleteOnGateway \/ WatchDelivers \/ Restart \/ CallFails
               \/ CleanupFails
      PROVE  UNCHANGED ws
  BY <1>8 DEF StartApply, GetWorkspace, CreateOnGateway, AdoptWorkspace,
     ListMembers, RemoveMember, AddMember, MembersConverged, StartCleanup,
     CountSandboxes, CountProviders, DeleteOnGateway, WatchDelivers, Restart,
     CallFails, CleanupFails, user
<1>9. ASSUME PhaseSettles \/ WorkspaceGone \/ MadeOutOfBand
               \/ (\E r \in Refs : DeclareRef(r) \/ DeleteRef(r) \/ RefApplied(r)
                                     \/ RefCleanedUp(r) \/ ObjectGone(r))
               \/ (\E s \in Subjects, role \in Roles \cup {None} :
                     MemberChanges(s, role))
      PROVE  UNCHANGED ws
  BY <1>9 DEF PhaseSettles, WorkspaceGone, MadeOutOfBand, DeclareRef, DeleteRef,
     RefApplied, RefCleanedUp, ObjectGone, MemberChanges, user
<1> QED
  BY <1>1, <1>2, <1>3, <1>4, <1>5, <1>6, <1>7, <1>8, <1>9
     DEF Next, Reconcile, Environment, vars

\* The resource of a workspace is released only once the gateway has none of
\* that name or is taking it down, if nobody else makes one (cleanup).
THEOREM ReleaseIsClean == Spec => ReleaseLeavesNothing
<1>1. SafeInv /\ [Next]_vars =>
        [(ws # None /\ ws.fin /\ ws' = None /\ ~IsDefault /\ ~OutOfBand)
           => gws = None \/ gws.closing]_vars
  BY ReleaseStep
<1> QED
  BY <1>1, SafeAlways, PTL DEF Spec, ReleaseLeavesNothing

-------------------------------------------------------------------------------
\* The built-in workspace: no cleanup of it ever gets to the counts.

DefaultInv ==
  IsDefault => /\ Usable
               /\ pc \notin {"countSandboxes", "countProviders", "refuse", "delete"}

LEMMA DefaultStep ==
  ASSUME SafeInv, DefaultInv, [Next]_vars
  PROVE  DefaultInv'
<1> SUFFICES ASSUME IsDefault
             PROVE  /\ gws' # None /\ gws'.phase # "Terminating"
                    /\ pc' \notin {"countSandboxes", "countProviders", "refuse", "delete"}
  BY DEF DefaultInv, Usable
<1>0. /\ TypeOK /\ LocalOK /\ gws \in Workspace /\ gws # None
      /\ gws.phase # "Terminating" /\ ~gws.closing
      /\ pc \notin {"countSandboxes", "countProviders", "refuse", "delete"}
  BY DEF SafeInv, CleanupInv, TypeInv, TypeOK, DefaultInv, Usable
<1>1. CASE AddFinalizer \/ StartApply \/ GetWorkspace \/ AdoptWorkspace
             \/ CreateOnGateway \/ ListMembers \/ MembersConverged \/ CallFails
             \/ WatchDelivers \/ StartCleanup
  BY <1>0, <1>1 DEF AddFinalizer, StartApply, GetWorkspace, AdoptWorkspace,
     CreateOnGateway, ListMembers, MembersConverged, CallFails, WatchDelivers,
     StartCleanup, AfterGet, gateway, local
<1>2. CASE RecordOutcome \/ ReleaseFinalizer \/ CleanupFails \/ Restart
  BY <1>0, <1>2 DEF RecordOutcome, ReleaseFinalizer, CleanupFails, Restart, Done,
     gateway
<1>3. CASE CountSandboxes \/ CountProviders \/ RefuseNonEmpty \/ DeleteOnGateway
  BY <1>0, <1>3 DEF CountSandboxes, CountProviders, RefuseNonEmpty, DeleteOnGateway
<1>4. CASE RemoveMember \/ AddMember
  <2>1. pc' \in {"members", "failed"}
    BY <1>4 DEF RemoveMember, AddMember, Answered
  <2>2. PICK s \in Subjects, m \in Roles \cup {None} :
          UNCHANGED gws \/ gws' = [gws EXCEPT !.members[s] = m]
    <3>1. CASE RemoveMember
      BY <1>0, <3>1 DEF RemoveMember, TypeOK
    <3>2. CASE AddMember
      <4>1. PICK s \in adds :
              UNCHANGED gws \/ gws' = [gws EXCEPT !.members[s] = obj.members[s]]
        BY <3>2 DEF AddMember
      <4>2. s \in Subjects /\ obj.members[s] \in Roles \cup {None}
        BY <1>0, <3>2 DEF AddMember, TypeOK, LocalOK, Resource, MemberSpecs, Members
      <4> QED
        BY <4>1, <4>2
    <3> QED
      BY <1>4, <3>1, <3>2
  <2>3. CASE UNCHANGED gws
    BY <1>0, <2>1, <2>3
  <2>4. CASE gws' = [gws EXCEPT !.members[s] = m]
    <3>1. /\ [gws EXCEPT !.members[s] = m].phase = gws.phase
          /\ [gws EXCEPT !.members[s] = m] \in Workspace
      BY <1>0, MemberUpdate
    <3> QED
      BY <1>0, <2>1, <2>4, <3>1
  <2> QED
    BY <2>2, <2>3, <2>4
<1>5. ASSUME UNCHANGED <<gws, pc>>
      PROVE  /\ gws' # None /\ gws'.phase # "Terminating"
             /\ pc' \notin {"countSandboxes", "countProviders", "refuse", "delete"}
  BY <1>0, <1>5
<1>6. CASE Environment
  <2>1. ASSUME NEW m \in MemberSpecs, CreateWorkspace(m) \/ EditMembers(m)
        PROVE  UNCHANGED <<gws, pc>>
    BY <2>1 DEF CreateWorkspace, EditMembers, gateway, local
  <2>2. ASSUME NEW r \in Refs, DeclareRef(r) \/ DeleteRef(r) \/ RefApplied(r)
                 \/ RefCleanedUp(r) \/ ObjectGone(r)
        PROVE  UNCHANGED <<gws, pc>>
    BY <2>2 DEF DeclareRef, DeleteRef, RefApplied, RefCleanedUp, ObjectGone,
       gateway, local
  <2>3. CASE DeleteWorkspace
    BY <1>5, <2>3 DEF DeleteWorkspace, gateway, local
  <2>4. CASE PhaseSettles
    BY <1>0, <2>4, PhaseUpdate DEF PhaseSettles, Workspace, local
  <2>5. CASE WorkspaceGone \/ MadeOutOfBand
    BY <1>0, <2>5 DEF WorkspaceGone, MadeOutOfBand
  <2>6. ASSUME NEW s \in Subjects, NEW role \in Roles \cup {None},
               MemberChanges(s, role)
        PROVE  gws' # None /\ gws'.phase # "Terminating" /\ pc' = pc
    BY <1>0, <2>6, MemberUpdate DEF MemberChanges, local
  <2> QED
    BY <1>0, <1>5, <1>6, <2>1, <2>2, <2>3, <2>4, <2>5, <2>6 DEF Environment
<1>7. CASE UNCHANGED vars
  BY <1>5, <1>7 DEF vars
<1> QED
  BY <1>1, <1>2, <1>3, <1>4, <1>6, <1>7 DEF Next, Reconcile

\* Whatever happens to a resource named default, the built-in workspace stays
\* on the gateway and is never marked terminating (cleanup's early return).
THEOREM DefaultIsKept == Spec => []DefaultStays
<1>1. Init => DefaultInv
  <2>1. [FreshWorkspace EXCEPT !.phase = "Unknown"].phase = "Unknown"
    BY FreshType DEF Workspace
  <2> QED
    BY <2>1, FreshType DEF Init, DefaultInv, Usable
<1>2. DefaultInv => DefaultStays
  BY DEF DefaultInv, DefaultStays
<1> QED
  BY <1>1, <1>2, DefaultStep, SafeAlways, PTL DEF Spec

-------------------------------------------------------------------------------
(***************************************************************************)
(* Ready means that the members are those of the latest version.           *)
(***************************************************************************)

\* The fields of the resource that its users and the finalizer own.
SameMeta(c, d) == /\ c.members = d.members /\ c.gen = d.gen
                  /\ c.deleting = d.deleting /\ c.fin = d.fin

\* What the writes of users and of the finalizer change.
LEMMA UserFields ==
  ASSUME NEW c \in Resource, NEW m \in MemberSpecs
  PROVE  /\ [c EXCEPT !.members = m, !.gen = c.gen + 1].gen = c.gen + 1
         /\ [c EXCEPT !.members = m, !.gen = c.gen + 1].deleting = c.deleting
         /\ [c EXCEPT !.members = m, !.gen = c.gen + 1].fin = c.fin
         /\ [c EXCEPT !.members = m, !.gen = c.gen + 1].ready = c.ready
         /\ [c EXCEPT !.members = m, !.gen = c.gen + 1].observed = c.observed
         /\ [c EXCEPT !.deleting = TRUE, !.gen = c.gen + 1].gen = c.gen + 1
         /\ [c EXCEPT !.deleting = TRUE, !.gen = c.gen + 1].deleting
         /\ [c EXCEPT !.deleting = TRUE, !.gen = c.gen + 1].fin = c.fin
         /\ [c EXCEPT !.deleting = TRUE, !.gen = c.gen + 1].ready = c.ready
         /\ [c EXCEPT !.deleting = TRUE, !.gen = c.gen + 1].observed = c.observed
  BY DEF Resource

LEMMA FinalizerFields ==
  ASSUME NEW c \in Resource
  PROVE  /\ [c EXCEPT !.fin = TRUE].gen = c.gen
         /\ [c EXCEPT !.fin = TRUE].members = c.members
         /\ [c EXCEPT !.fin = TRUE].deleting = c.deleting
         /\ [c EXCEPT !.fin = TRUE].fin
         /\ [c EXCEPT !.fin = TRUE].ready = c.ready
         /\ [c EXCEPT !.fin = TRUE].observed = c.observed
  BY DEF Resource

\* The status patches leave the rest of the resource alone; only a success
\* leaves it ready, with the generation of the copy it was made from.
LEMMA OutcomeFields ==
  ASSUME TypeInv, RecordOutcome \/ RefuseNonEmpty
  PROVE  \/ UNCHANGED ws
         \/ /\ ws # None /\ ws' # None /\ SameMeta(ws', ws)
            /\ ws'.ready => RecordOutcome /\ pc = "succeeded" /\ ws'.observed = obj.gen
                            /\ ws'.phase = Merged(map_phase(state), ws.phase)
<1>1. CASE UNCHANGED ws
  BY <1>1
<1>2. CASE RecordOutcome /\ ~UNCHANGED ws
  <2>1. ws # None /\ ws \in Resource
    BY <1>2 DEF RecordOutcome, TypeInv, TypeOK
  <2> DEFINE ok == pc = "succeeded"
             phase == Merged(IF pc = "succeeded" THEN map_phase(state)
                             ELSE obj.phase, ws.phase)
  <2>2. ws' = [ws EXCEPT !.ready = ok, !.observed = obj.gen, !.phase = phase]
    BY <1>2, <2>1 DEF RecordOutcome
  <2>3. ws' \in Resource
    BY <1>2, <2>1, OutcomeType
  <2>4. /\ SameMeta(ws', ws) /\ ws'.ready = ok
        /\ ws'.observed = obj.gen /\ ws'.phase = phase
    <3> HIDE DEF ok, phase
    <3> QED
      BY <2>1, <2>2 DEF Resource, SameMeta
  <2> QED
    BY <1>2, <2>1, <2>3, <2>4
<1>3. CASE RefuseNonEmpty /\ ~UNCHANGED ws
  <2>1. ws # None /\ ws \in Resource
    BY <1>3 DEF RefuseNonEmpty, TypeInv, TypeOK
  <2> DEFINE seen == IF obj.observed = 0 THEN ws.observed ELSE obj.observed
             phase == Merged(obj.phase, ws.phase)
  <2>2. ws' = [ws EXCEPT !.ready = FALSE, !.observed = seen, !.phase = phase]
    BY <1>3, <2>1 DEF RefuseNonEmpty
  <2>3. ws' \in Resource
    BY <1>3, <2>1, RefusalType
  <2>4. SameMeta(ws', ws) /\ ws'.ready = FALSE
    <3> HIDE DEF seen, phase
    <3> QED
      BY <2>1, <2>2 DEF Resource, SameMeta
  <2> QED
    BY <2>1, <2>3, <2>4
<1> QED
  BY <1>1, <1>2, <1>3

LEMMA CopiesStep ==
  ASSUME TypeInv, CopiesInv, [Next]_vars
  PROVE  CopiesInv'
<1>0. /\ ws \in Resource \cup {None} /\ cache \in Resource \cup {None}
      /\ obj \in Resource \cup {None} /\ ws' \in Resource \cup {None}
      /\ pc # "idle" => obj # None
      /\ pc \in ApplyCalls \cup CleanupCalls \cup {"idle"}
  BY TypeStep DEF TypeInv, TypeOK, LocalOK, ApplyCalls, CleanupCalls
<1>n. \A c \in Resource : c.gen \in Nat /\ c.deleting \in BOOLEAN /\ c.fin \in BOOLEAN
  BY DEF Resource
<1> USE DEF CopiesInv, Held, Releasable, VersionOf
<1>1. CASE UNCHANGED <<ws, cache, pc, obj>>
  BY <1>1
<1>2. ASSUME UNCHANGED <<ws, cache, obj>>, pc \in ApplyCalls, pc' \in ApplyCalls
      PROVE  CopiesInv'
  BY <1>2 DEF ApplyCalls, CleanupCalls
<1>3. ASSUME UNCHANGED <<ws, cache>>, pc \in CleanupCalls,
             pc' \in CleanupCalls \cup {"idle"}
      PROVE  CopiesInv'
  BY <1>3 DEF ApplyCalls, CleanupCalls
<1>4. CASE GetWorkspace \/ CreateOnGateway \/ AdoptWorkspace \/ ListMembers
             \/ RemoveMember \/ AddMember \/ MembersConverged \/ CallFails
  <2>1. UNCHANGED <<ws, cache, obj>> /\ pc \in ApplyCalls /\ pc' \in ApplyCalls
    BY <1>4 DEF GetWorkspace, CreateOnGateway, AdoptWorkspace, ListMembers,
       RemoveMember, AddMember, MembersConverged, CallFails, AfterGet, Answered,
       user, ApplyCalls
  <2> QED
    BY <1>2, <2>1
<1>5. CASE CountSandboxes \/ CountProviders \/ DeleteOnGateway \/ CleanupFails
  <2>1. /\ UNCHANGED <<ws, cache>> /\ pc \in CleanupCalls
        /\ pc' \in CleanupCalls \cup {"idle"}
    BY <1>5 DEF CountSandboxes, CountProviders, DeleteOnGateway, CleanupFails,
       Done, user, CleanupCalls
  <2> QED
    BY <1>3, <2>1
<1>6. CASE StartApply
  BY <1>0, <1>n, <1>6 DEF StartApply, user, ApplyCalls, CleanupCalls
<1>7. CASE StartCleanup
  BY <1>0, <1>n, <1>7 DEF StartCleanup, user, ApplyCalls, CleanupCalls
<1>8. CASE WatchDelivers
  BY <1>0, <1>n, <1>8 DEF WatchDelivers, user
<1>9. CASE Restart
  BY <1>0, <1>n, <1>9 DEF Restart, Done, user, ApplyCalls, CleanupCalls
<1>10. CASE RecordOutcome \/ RefuseNonEmpty
  <2>1. pc' = "idle" /\ UNCHANGED cache
    BY <1>10 DEF RecordOutcome, RefuseNonEmpty, Done
  <2>2. \/ UNCHANGED ws
        \/ ws # None /\ ws' # None /\ SameMeta(ws', ws)
    BY <1>10, OutcomeFields
  <2> QED
    BY <2>1, <2>2 DEF SameMeta, ApplyCalls, CleanupCalls
<1>11. CASE ReleaseFinalizer
  <2>1. pc' = "idle" /\ UNCHANGED cache /\ pc = "release"
    BY <1>11 DEF ReleaseFinalizer, Done
  <2>2. Releasable /\ (cache = None \/ cache.deleting \/ ~cache.fin)
    BY <2>1 DEF CleanupCalls
  <2>3. UNCHANGED ws \/ ws' = None
    BY <1>11, <2>2 DEF ReleaseFinalizer
  <2> QED
    BY <2>1, <2>2, <2>3 DEF ApplyCalls, CleanupCalls
<1>12. CASE AddFinalizer
  <2>1. /\ pc = "idle" /\ UNCHANGED <<pc, cache>>
        /\ cache # None /\ ~cache.fin /\ ~cache.deleting
    BY <1>12 DEF AddFinalizer, local
  <2> QED
    BY <2>1 DEF ApplyCalls, CleanupCalls
<1>13. ASSUME NEW m \in MemberSpecs, CreateWorkspace(m) PROVE CopiesInv'
  <2>1. ws' \in Resource
    BY <1>13 DEF CreateWorkspace, Resource
  <2>2. UNCHANGED <<cache, pc, obj>> /\ ws = None /\ ~ws'.fin
    BY <1>13 DEF CreateWorkspace, local
  <2> QED
    BY <2>1, <2>2
<1>14. ASSUME NEW m \in MemberSpecs, EditMembers(m) PROVE CopiesInv'
  <2>1. ws \in Resource /\ UNCHANGED <<cache, pc, obj>>
        /\ ws' = [ws EXCEPT !.members = m, !.gen = ws.gen + 1]
    BY <1>0, <1>14 DEF EditMembers, local
  <2>2. /\ ws'.gen = ws.gen + 1 /\ ws'.deleting = ws.deleting /\ ws'.fin = ws.fin
        /\ ws' \in Resource
    BY <1>14, <2>1, UserFields, ResourceUpdate
  <2> QED
    BY <1>0, <1>n, <2>1, <2>2 DEF ApplyCalls
<1>15. CASE DeleteWorkspace
  <2>1. CASE ws.fin
    <3>1. ws \in Resource /\ UNCHANGED <<cache, pc, obj>>
          /\ ws' = [ws EXCEPT !.deleting = TRUE, !.gen = ws.gen + 1]
      BY <1>0, <1>15, <2>1 DEF DeleteWorkspace, local
    <3>2. /\ ws'.gen = ws.gen + 1 /\ ws'.deleting /\ ws'.fin = ws.fin
          /\ ws' \in Resource
      BY <3>1, UserFields, ResourceUpdate DEF MemberSpecs
    <3>3. /\ ws # None /\ ws' # None
          /\ \A c \in Resource : c.gen <= ws.gen => c.gen < ws'.gen
      BY <1>n, <3>1, <3>2
    <3>4. pc \in ApplyCalls => obj \in Resource /\ cache \in Resource
      BY <1>0 DEF ApplyCalls
    <3>5. Held' /\ Releasable'
      BY <2>1, <3>2, <3>3
    <3>6. ASSUME NEW c \in Resource, VersionOf(c) PROVE VersionOf(c)'
      <4>1. c.gen < ws'.gen /\ c.gen \in Nat /\ ws'.gen \in Nat
        BY <1>n, <3>2, <3>3, <3>6
      <4> QED
        BY <4>1
    <3> HIDE DEF Held, Releasable, VersionOf
    <3> QED
      BY <1>0, <3>1, <3>4, <3>5, <3>6
  <2>2. CASE ~ws.fin
    <3>1. UNCHANGED <<cache, pc, obj>> /\ ws' = None
      BY <1>15, <2>2 DEF DeleteWorkspace, local
    <3> QED
      BY <2>2, <3>1
  <2> QED
    BY <2>1, <2>2
<1>16. ASSUME \/ \E r \in Refs : DeclareRef(r) \/ DeleteRef(r) \/ RefApplied(r)
                                  \/ RefCleanedUp(r) \/ ObjectGone(r)
              \/ PhaseSettles \/ WorkspaceGone \/ MadeOutOfBand
              \/ \E s \in Subjects, role \in Roles \cup {None} :
                   MemberChanges(s, role)
              \/ UNCHANGED vars
       PROVE  UNCHANGED <<ws, cache, pc, obj>>
  BY <1>16 DEF DeclareRef, DeleteRef, RefApplied, RefCleanedUp, ObjectGone,
     PhaseSettles, WorkspaceGone, MadeOutOfBand, MemberChanges, user, local, vars
<1> QED
  BY <1>1, <1>4, <1>5, <1>6, <1>7, <1>8, <1>9, <1>10, <1>11, <1>12, <1>13,
     <1>14, <1>15, <1>16 DEF Next, Reconcile, Environment

\* No write of a user or of the finalizer makes a status current.
LEMMA UserWrites ==
  ASSUME TypeInv, CopiesInv, CurrentInv,
         \/ \E m \in MemberSpecs : CreateWorkspace(m) \/ EditMembers(m)
         \/ DeleteWorkspace
         \/ AddFinalizer
  PROVE  ~Current' /\ (ws' # None /\ ws'.ready => ws'.observed <= ws'.gen)
<1>0. ws \in Resource \cup {None}
  BY DEF TypeInv, TypeOK
<1>1. ASSUME NEW m \in MemberSpecs, CreateWorkspace(m) PROVE ~ws'.ready
  BY <1>1 DEF CreateWorkspace
<1>2. ASSUME ws # None, ws' \in Resource, ws'.gen = ws.gen + 1,
             ws'.ready = ws.ready, ws'.observed = ws.observed
      PROVE  ~Current' /\ (ws'.ready => ws'.observed <= ws'.gen)
  <2>1. ws.gen \in Nat /\ ws.observed \in Nat
    BY <1>0, <1>2 DEF Resource
  <2> QED
    BY <1>2, <2>1 DEF CurrentInv, Current
<1>3. ASSUME NEW m \in MemberSpecs, EditMembers(m)
      PROVE  ~Current' /\ (ws'.ready => ws'.observed <= ws'.gen)
  <2>1. ws \in Resource /\ ws # None
        /\ ws' = [ws EXCEPT !.members = m, !.gen = ws.gen + 1]
    BY <1>0, <1>3 DEF EditMembers
  <2>2. /\ ws'.gen = ws.gen + 1 /\ ws'.ready = ws.ready /\ ws'.observed = ws.observed
        /\ ws' \in Resource
    BY <1>3, <2>1, UserFields, ResourceUpdate
  <2> QED
    BY <1>2, <2>1, <2>2
<1>4. CASE DeleteWorkspace
  <2>1. CASE ws.fin
    <3>1. ws \in Resource /\ ws # None
          /\ ws' = [ws EXCEPT !.deleting = TRUE, !.gen = ws.gen + 1]
      BY <1>0, <1>4, <2>1 DEF DeleteWorkspace
    <3>2. /\ ws'.gen = ws.gen + 1 /\ ws'.ready = ws.ready
          /\ ws'.observed = ws.observed /\ ws' \in Resource
      BY <3>1, UserFields, ResourceUpdate DEF MemberSpecs
    <3> QED
      BY <1>2, <3>1, <3>2
  <2>2. CASE ~ws.fin
    BY <1>4, <2>2 DEF DeleteWorkspace, Current
  <2> QED
    BY <2>1, <2>2
<1>5. CASE AddFinalizer
  <2>1. ws \in Resource /\ ws # None /\ ~ws.fin /\ ws' = [ws EXCEPT !.fin = TRUE]
    BY <1>0, <1>5 DEF AddFinalizer
  <2>2. ws'.gen = ws.gen /\ ws'.ready = ws.ready /\ ws'.observed = ws.observed
    BY <2>1, FinalizerFields
  <2> QED
    BY <2>1, <2>2 DEF CurrentInv, Current
<1> QED
  BY <1>1, <1>3, <1>4, <1>5 DEF Current

LEMMA CurrentStep ==
  ASSUME TypeInv, CopiesInv, CurrentInv, [Next]_vars
  PROVE  CurrentInv'
<1>0. /\ ws \in Resource \cup {None} /\ cache \in Resource \cup {None}
      /\ obj \in Resource \cup {None}
      /\ pc # "idle" => obj # None
  BY DEF TypeInv, TypeOK, LocalOK
<1>n. \A c \in Resource : c.gen \in Nat /\ c.observed \in Nat
  BY DEF Resource
<1>1. ASSUME UNCHANGED <<ws, cache>>,
             pc' \in ApplyCalls => pc \in ApplyCalls /\ UNCHANGED obj
      PROVE  CurrentInv'
  BY <1>1 DEF CurrentInv, Current
<1>2. CASE GetWorkspace \/ CreateOnGateway \/ AdoptWorkspace \/ ListMembers
             \/ RemoveMember \/ AddMember \/ MembersConverged \/ CallFails
  <2>1. UNCHANGED <<ws, cache, obj>> /\ pc \in ApplyCalls
    BY <1>2 DEF GetWorkspace, CreateOnGateway, AdoptWorkspace, ListMembers,
       RemoveMember, AddMember, MembersConverged, CallFails, user, ApplyCalls
  <2> QED
    BY <1>1, <2>1
<1>3. CASE StartCleanup \/ CountSandboxes \/ CountProviders \/ DeleteOnGateway
             \/ CleanupFails
  <2>1. UNCHANGED <<ws, cache>> /\ pc' \notin ApplyCalls
    BY <1>3 DEF StartCleanup, CountSandboxes, CountProviders, DeleteOnGateway,
       CleanupFails, Done, user, ApplyCalls
  <2> QED
    BY <1>1, <2>1
<1>4. CASE StartApply
  BY <1>4 DEF StartApply, user, CurrentInv, Current
<1>5. CASE WatchDelivers
  BY <1>5 DEF WatchDelivers, user, CurrentInv, Current
<1>6. CASE Restart
  BY <1>6 DEF Restart, Done, user, CurrentInv, Current, ApplyCalls
<1>7. CASE RecordOutcome \/ RefuseNonEmpty
  <2>1. pc' = "idle" /\ UNCHANGED cache
    BY <1>7 DEF RecordOutcome, RefuseNonEmpty, Done
  <2>2. CASE UNCHANGED ws
    BY <1>1, <2>1, <2>2 DEF ApplyCalls
  <2>3. CASE ~UNCHANGED ws
    <3>1. /\ ws # None /\ ws' # None /\ SameMeta(ws', ws)
          /\ ws'.ready => pc = "succeeded" /\ ws'.observed = obj.gen
      BY <1>7, <2>3, OutcomeFields
    <3>2. ASSUME ws'.ready
          PROVE  /\ Held /\ cache \in Resource /\ VersionOf(cache)
                 /\ obj \in Resource /\ ~obj.deleting /\ VersionOf(obj)
                 /\ obj.gen <= cache.gen
      BY <1>0, <3>1, <3>2 DEF CopiesInv, ApplyCalls
    <3>3. ASSUME ws'.ready PROVE ws'.observed <= ws'.gen
      BY <3>1, <3>2, <3>3 DEF SameMeta, VersionOf
    <3>4. ASSUME ws'.ready, ws'.observed = ws'.gen
          PROVE  /\ ws'.fin /\ ~ws'.deleting /\ cache # None
                 /\ cache.gen = ws'.gen /\ cache.members = ws'.members
                 /\ ~cache.deleting
      <4>1. obj.gen = ws.gen /\ ~ws.deleting
        BY <3>1, <3>2, <3>4 DEF SameMeta, VersionOf
      <4>2. cache.gen = ws.gen
        BY <1>0, <1>n, <3>1, <3>2, <3>4, <4>1 DEF VersionOf
      <4> QED
        BY <3>1, <3>2, <3>4, <4>1, <4>2 DEF SameMeta, VersionOf, Held
    <3> QED
      BY <2>1, <3>1, <3>3, <3>4 DEF CurrentInv, Current, ApplyCalls
  <2> QED
    BY <2>2, <2>3
<1>8. CASE ReleaseFinalizer
  <2>1. pc' = "idle" /\ UNCHANGED cache /\ pc = "release"
    BY <1>8 DEF ReleaseFinalizer, Done
  <2>2. UNCHANGED ws \/ ws' = None
    BY <1>8, <2>1 DEF ReleaseFinalizer, CopiesInv, CleanupCalls, Releasable
  <2> QED
    BY <1>1, <2>1, <2>2 DEF CurrentInv, Current, ApplyCalls
<1>9. CASE \/ \E m \in MemberSpecs : CreateWorkspace(m) \/ EditMembers(m)
           \/ DeleteWorkspace
           \/ AddFinalizer
  BY <1>9, UserWrites DEF CurrentInv
<1>10. ASSUME \/ \E r \in Refs : DeclareRef(r) \/ DeleteRef(r) \/ RefApplied(r)
                                  \/ RefCleanedUp(r) \/ ObjectGone(r)
              \/ PhaseSettles \/ WorkspaceGone \/ MadeOutOfBand
              \/ \E s \in Subjects, role \in Roles \cup {None} :
                   MemberChanges(s, role)
              \/ UNCHANGED vars
       PROVE  UNCHANGED <<ws, cache, pc, obj>>
  BY <1>10 DEF DeclareRef, DeleteRef, RefApplied, RefCleanedUp, ObjectGone,
     PhaseSettles, WorkspaceGone, MadeOutOfBand, MemberChanges, user, local, vars
<1> QED
  BY <1>1, <1>2, <1>3, <1>4, <1>5, <1>6, <1>7, <1>8, <1>9, <1>10
     DEF Next, Reconcile, Environment

LEMMA MemberFields ==
  ASSUME NEW w \in Workspace, NEW s \in Subjects, NEW m \in Roles \cup {None}
  PROVE  /\ [w EXCEPT !.members[s] = m].members[s] = m
         /\ \A q \in Subjects :
              q # s => [w EXCEPT !.members[s] = m].members[q] = w.members[q]
  BY DEF Workspace, Members

\* A status that is current names the version the running converge works from.
LEMMA CurrentObject ==
  ASSUME TypeInv, CopiesInv, CurrentInv, Current, pc \in ApplyCalls
  PROVE  obj.members = ws.members
  BY DEF CopiesInv, CurrentInv, VersionOf

\* One remove or one add of converge_members.
LEMMA MemberCallKeeps ==
  ASSUME SafeInv, CopiesInv, CurrentInv, ConvergeInv, RemoveMember \/ AddMember
  PROVE  ConvergeInv'
<1>0. /\ TypeInv /\ gws \in Workspace \cup {None} /\ pc = "members"
      /\ removes \subseteq Subjects /\ adds \subseteq Subjects
      /\ obj \in Resource /\ obj.members \in Members
  BY DEF SafeInv, TypeInv, TypeOK, LocalOK, RemoveMember, AddMember, Resource, MemberSpecs
<1>1. UNCHANGED <<ws, obj, state>> /\ pc' \in {"members", "failed"}
  BY DEF RemoveMember, AddMember, Answered, user
<1>2. ~(Current /\ ws.phase = "Active")
  <2> SUFFICES ASSUME Current, ws.phase = "Active" PROVE FALSE
    OBVIOUS
  <2>1. obj.members = ws.members
    BY <1>0, CurrentObject DEF ApplyCalls
  <2>2. removes = {} /\ adds = {}
    BY <1>0, <2>1 DEF ConvergeInv, Listed
  <2> QED
    BY <2>2 DEF RemoveMember, AddMember
<1>3. ASSUME pc' = "members", state # "Terminating"
      PROVE  /\ Usable'
             /\ \A q \in Subjects :
                  /\ q \in adds' \cup removes' \/ gws'.members[q] = obj.members[q]
                  /\ q \in removes' \ adds' => obj.members[q] = None
  <2>1. /\ Usable /\ gws \in Workspace
        /\ \A q \in Subjects :
             /\ q \in adds \cup removes \/ gws.members[q] = obj.members[q]
             /\ q \in removes \ adds => obj.members[q] = None
    BY <1>0, <1>3 DEF ConvergeInv, Usable
  <2>2. CASE RemoveMember
    <3>1. PICK s \in removes :
            /\ removes' = removes \ {s} /\ UNCHANGED adds
            /\ gws' = [gws EXCEPT !.members[s] = None]
      BY <1>3, <2>2 DEF RemoveMember
    <3>2. /\ gws' \in Workspace /\ gws'.phase = gws.phase /\ gws'.members[s] = None
          /\ \A q \in Subjects : q # s => gws'.members[q] = gws.members[q]
      BY <1>0, <2>1, <3>1, MemberUpdate, MemberFields
    <3> QED
      BY <1>0, <2>1, <3>1, <3>2 DEF Usable
  <2>3. CASE AddMember
    <3>1. PICK s \in adds :
            /\ adds' = adds \ {s} /\ UNCHANGED removes /\ removes = {}
            /\ gws' = [gws EXCEPT !.members[s] = obj.members[s]]
      BY <1>3, <2>3 DEF AddMember
    <3>2. obj.members[s] \in Roles \cup {None} /\ s \in Subjects
      BY <1>0, <3>1 DEF Members
    <3>3. /\ gws' \in Workspace /\ gws'.phase = gws.phase
          /\ gws'.members[s] = obj.members[s]
          /\ \A q \in Subjects : q # s => gws'.members[q] = gws.members[q]
      BY <2>1, <3>1, <3>2, MemberUpdate, MemberFields
    <3> QED
      BY <2>1, <3>1, <3>3 DEF Usable
  <2> QED
    BY <2>2, <2>3
<1> QED
  BY <1>1, <1>2, <1>3 DEF ConvergeInv, Current

\* converge_members, its list: the delta accounts for every difference.
LEMMA ListKeeps ==
  ASSUME SafeInv, CopiesInv, CurrentInv, ConvergeInv, ListMembers
  PROVE  ConvergeInv'
<1>0. /\ TypeInv /\ gws \in Workspace \cup {None} /\ pc = "list"
      /\ obj \in Resource /\ obj.members \in Members
      /\ UNCHANGED <<ws, gws, obj, state>>
  BY DEF SafeInv, TypeInv, TypeOK, LocalOK, ListMembers, Resource, MemberSpecs,
     user, gateway
<1>1. CASE pc' = "failed"
  BY <1>0, <1>1 DEF ConvergeInv, Usable, Current, Listed
<1>2. CASE /\ gws # None /\ pc' = "members"
           /\ removes' = member_delta(obj.members, gws.members).removes
           /\ adds' = member_delta(obj.members, gws.members).adds
  <2>1. /\ removes' = {s \in Subjects : /\ gws.members[s] # None
                                        /\ obj.members[s] # gws.members[s]}
        /\ adds' = {s \in Subjects : /\ obj.members[s] # None
                                     /\ gws.members[s] # obj.members[s]}
    BY <1>2 DEF member_delta
  <2>2. \A s \in Subjects :
          /\ s \in adds' \cup removes' \/ gws.members[s] = obj.members[s]
          /\ s \in removes' \ adds' => obj.members[s] = None
    BY <2>1
  <2>3. ASSUME Current, ws.phase = "Active", Listed
        PROVE  removes' = {} /\ adds' = {}
    <3>1. obj.members = gws.members
      BY <1>0, <2>3, CurrentObject DEF ConvergeInv, ApplyCalls
    <3> QED
      BY <2>1, <3>1
  <2> QED
    BY <1>0, <1>2, <2>2, <2>3 DEF ConvergeInv, Usable, Current, Listed
<1> QED
  BY <1>1, <1>2 DEF ListMembers

LEMMA ConvergeStep ==
  ASSUME SafeInv, CopiesInv, CurrentInv, ConvergeInv, [Next]_vars, ~OutOfBand
  PROVE  ConvergeInv'
<1>0. /\ TypeInv /\ TypeInv' /\ CleanupInv /\ gws \in Workspace \cup {None}
      /\ ws \in Resource \cup {None}
      /\ obj \in Resource \cup {None}
      /\ pc # "idle" => obj # None
      /\ pc \in {"list", "members"} => obj.members # None
  BY TypeStep DEF SafeInv, TypeInv, TypeOK, LocalOK
\* Nothing of converge is under way, and the status and the gateway stay.
<1>1. ASSUME UNCHANGED <<ws, gws>>, pc' \notin {"list", "members", "succeeded"}
      PROVE  ConvergeInv'
  BY <1>1 DEF ConvergeInv, Current, Listed, Usable
<1>2. ASSUME UNCHANGED <<ws, gws, pc, obj, state, removes, adds>>
      PROVE  ConvergeInv'
  BY <1>2 DEF ConvergeInv, Current, Listed, Usable
<1>3. CASE StartApply \/ CallFails \/ StartCleanup \/ CountSandboxes \/ CountProviders
             \/ CleanupFails \/ Restart
  <2>1. UNCHANGED <<ws, gws>> /\ pc' \notin {"list", "members", "succeeded"}
    BY <1>3 DEF StartApply, CallFails, StartCleanup, CountSandboxes,
       CountProviders, CleanupFails, Restart, Done, user, gateway
  <2> QED
    BY <1>1, <2>1
<1>4. CASE GetWorkspace \/ AdoptWorkspace
  <2>1. /\ UNCHANGED <<ws, gws, obj>>
        /\ \/ pc' \in {"create", "failed"}
           \/ gws # None /\ state' = gws.phase /\ pc' = AfterGet
    BY <1>4 DEF GetWorkspace, AdoptWorkspace, user, gateway
  <2> QED
    BY <2>1 DEF ConvergeInv, AfterGet, Current, Listed, Usable
<1>5. CASE CreateOnGateway
  <2>1. CASE gws # None
    BY <1>1, <1>5, <2>1 DEF CreateOnGateway, user
  <2>2. CASE gws = None
    <3>1. /\ UNCHANGED <<ws, obj>> /\ gws' = FreshWorkspace
          /\ pc' \in {AfterGet, "failed"}
      BY <1>5, <2>2 DEF CreateOnGateway, Answered, user
    <3>2. Usable'
      BY <3>1, FreshType DEF Usable
    <3>3. ~(Current /\ ws.phase = "Active")
      BY <2>2 DEF ConvergeInv, Usable
    <3> QED
      BY <3>1, <3>2, <3>3 DEF ConvergeInv, AfterGet, Current, Listed
  <2> QED
    BY <2>1, <2>2
<1>6. CASE MembersConverged
  <2>1. /\ UNCHANGED <<ws, gws, obj, state>> /\ pc = "members" /\ pc' = "succeeded"
        /\ removes = {} /\ adds = {}
    BY <1>6 DEF MembersConverged, user, gateway
  <2>2. ASSUME state # "Terminating" PROVE gws.members = obj.members
    <3>1. gws.members \in Members /\ obj.members \in Members
      BY <1>0, <2>1, <2>2 DEF ConvergeInv, Usable, Workspace, Resource, MemberSpecs
    <3>2. \A s \in Subjects : gws.members[s] = obj.members[s]
      BY <2>1, <2>2 DEF ConvergeInv
    <3> QED
      BY <3>1, <3>2 DEF Members
  <2> QED
    BY <2>1, <2>2 DEF ConvergeInv, Usable, Current, Listed
<1>7. CASE RecordOutcome \/ RefuseNonEmpty
  <2>1. pc' = "idle" /\ UNCHANGED gws
    BY <1>7 DEF RecordOutcome, RefuseNonEmpty, Done, gateway
  <2>2. CASE UNCHANGED ws
    BY <1>1, <2>1, <2>2
  <2>3. CASE ~UNCHANGED ws
    <3>1. /\ ws # None /\ ws' # None /\ SameMeta(ws', ws)
          /\ ws'.ready => pc = "succeeded" /\ ws'.observed = obj.gen
                          /\ ws'.phase = Merged(map_phase(state), ws.phase)
      BY <1>0, <1>7, <2>3, OutcomeFields
    <3>2. ASSUME Current', ws'.phase = "Active"
          PROVE  Usable /\ (ws'.members # None => gws.members = ws'.members)
      <4>1. pc = "succeeded" /\ obj.gen = ws.gen /\ ws'.members = ws.members
        BY <3>1, <3>2 DEF Current, SameMeta
      <4>2. obj.members = ws.members
        BY <4>1 DEF CopiesInv, VersionOf, ApplyCalls
      <4>3. state # "Terminating"
        BY <3>1, <3>2 DEF Current, Merged, map_phase, WorkspacePhases, GatewayPhases
      <4> QED
        BY <4>1, <4>2, <4>3 DEF ConvergeInv
    <3> QED
      BY <2>1, <3>2 DEF ConvergeInv, Listed, Usable
  <2> QED
    BY <2>2, <2>3
<1>8. CASE DeleteOnGateway
  <2>1. UNCHANGED ws /\ pc = "delete" /\ pc' \in {"release", "idle"}
    BY <1>8 DEF DeleteOnGateway, Done, user
  <2>2. ~Current
    BY <2>1 DEF CopiesInv, CurrentInv, Current, CleanupCalls, Releasable
  <2> QED
    BY <2>1, <2>2 DEF ConvergeInv, Current
<1>9. CASE ReleaseFinalizer
  <2>1. pc' = "idle" /\ UNCHANGED gws /\ pc = "release"
    BY <1>9 DEF ReleaseFinalizer, Done, gateway
  <2>2. UNCHANGED ws \/ ws' = None
    BY <1>9, <2>1 DEF ReleaseFinalizer, CopiesInv, CleanupCalls, Releasable
  <2> QED
    BY <1>1, <2>1, <2>2 DEF ConvergeInv, Current
<1>10. CASE \/ \E m \in MemberSpecs : CreateWorkspace(m) \/ EditMembers(m)
            \/ DeleteWorkspace
            \/ AddFinalizer
  <2>1. UNCHANGED <<gws, pc, obj, state, removes, adds>>
    BY <1>10 DEF CreateWorkspace, EditMembers, DeleteWorkspace, AddFinalizer,
       gateway, local
  <2>2. ~Current'
    BY <1>0, <1>10, UserWrites
  <2> QED
    BY <2>1, <2>2 DEF ConvergeInv, Usable
<1>11. CASE PhaseSettles
  <2>1. /\ UNCHANGED <<ws, pc, obj, state, removes, adds>>
        /\ gws \in Workspace /\ gws.phase = "Unknown"
        /\ gws' = [gws EXCEPT !.phase = "Active"]
    BY <1>0, <1>11 DEF PhaseSettles, user, local
  <2>2. gws' \in Workspace /\ gws'.phase = "Active" /\ gws'.members = gws.members
    BY <2>1, PhaseUpdate DEF Workspace
  <2>3. Usable /\ Usable'
    BY <2>1, <2>2 DEF Usable
  <2> QED
    BY <2>1, <2>2, <2>3 DEF ConvergeInv, Current, Listed
<1>12. CASE WorkspaceGone
  <2>1. /\ UNCHANGED <<ws, pc, obj, state, removes, adds>>
        /\ gws # None /\ gws.closing
    BY <1>12 DEF WorkspaceGone, user, local
  <2>2. ~Usable
    BY <1>0, <2>1 DEF CleanupInv, Usable
  <2> QED
    BY <2>1, <2>2 DEF ConvergeInv, Current, Listed
<1>13. ASSUME \/ \E r \in Refs : DeclareRef(r) \/ DeleteRef(r) \/ RefApplied(r)
                                  \/ RefCleanedUp(r) \/ ObjectGone(r)
              \/ MadeOutOfBand \/ WatchDelivers
              \/ \E s \in Subjects, role \in Roles \cup {None} :
                   MemberChanges(s, role)
              \/ UNCHANGED vars
       PROVE  UNCHANGED <<ws, gws, pc, obj, state, removes, adds>>
  BY <1>13 DEF DeclareRef, DeleteRef, RefApplied, RefCleanedUp, ObjectGone,
     MadeOutOfBand, MemberChanges, WatchDelivers, user, gateway, local, vars
<1> QED
  BY <1>2, <1>3, <1>4, <1>5, <1>6, <1>7, <1>8, <1>9, <1>10, <1>11, <1>12, <1>13,
     MemberCallKeeps, ListKeeps DEF Next, Reconcile, Environment

\* When nobody else changes the gateway's members, a status that says Ready for
\* the latest generation and an Active workspace means that the workspace has
\* exactly the listed members, whatever edits, lagging copies, lost calls,
\* restarts and re-creations of the resource came before (converge_members,
\* apply's status).
THEOREM ReadyIsTrue ==
  ASSUME ~OutOfBand
  PROVE  Spec => []ReadyMeansMembers
<1> DEFINE Inv == SafeInv /\ CopiesInv /\ CurrentInv /\ ConvergeInv
<1>1. Init => Inv
  <2>1. Init => CopiesInv /\ CurrentInv /\ ConvergeInv
    BY DEF Init, CopiesInv, CurrentInv, ConvergeInv, Current, ApplyCalls, CleanupCalls
  <2> QED
    BY <2>1, SafeInit
<1>2. Inv /\ [Next]_vars => Inv'
  BY SafeStep, CopiesStep, CurrentStep, ConvergeStep DEF SafeInv
<1>3. Inv => ReadyMeansMembers
  BY DEF ConvergeInv, Current, Listed, ReadyMeansMembers
<1> HIDE DEF Inv
<1> QED
  BY <1>1, <1>2, <1>3, PTL DEF Spec
===============================================================================
