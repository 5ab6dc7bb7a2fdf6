-------------------------- MODULE TaskStoreProofs ---------------------------
(***************************************************************************)
(* Theorems about TaskStore, for every number of operations, threads and   *)
(* turns.  TypeCorrect first; then Invariant is shown inductive, one lemma *)
(* per group of actions, and the safety properties follow from it.         *)
(***************************************************************************)
EXTENDS TaskStore, TLAPS

-----------------------------------------------------------------------------
(* Types                                                                   *)

(* The rows and lock holders the steps write are well formed.              *)
LEMMA RowTypes ==
    /\ NoTask \in TaskRow
    /\ NoSend \in SendRow
    /\ Free \in Holder
    /\ \A o \in Ops : [step |-> "intent", op |-> o, reply |-> None] \in Holder
<1>1. NoTask \in TaskRow
  BY DEF NoTask, TaskRow
<1>2. NoSend \in SendRow
  BY DEF NoSend, SendRow
<1>3. Free \in Holder
  BY DEF Free, Holder
<1>4. \A o \in Ops : [step |-> "intent", op |-> o, reply |-> None] \in Holder
  BY DEF Holder
<1> QED BY <1>1, <1>2, <1>3, <1>4

(* A freshly inserted send row is well formed.                             *)
LEMMA NewSendType ==
    ASSUME NEW state \in {"not_dispatched", "send_intent"},
           NEW r \in TaskOps \cup Workspace, NEW x \in Turns \cup {None}
    PROVE  [NoSend EXCEPT !.state = state, !.task = r, !.expected = x] \in SendRow
BY DEF NoSend, SendRow

(* A reply is kept by the call that waits for it and by no other.          *)
LEMMA ReplyType ==
    ASSUME TypeOK, NEW o \in Ops, NEW v \in Ops \cup Turns \cup {"refused"}, Reply(o, v)
    PROVE  broker' \in Holder
<1>1. CASE broker.step = "await"
  <2>1. broker \in [step : {"idle", "intent", "await"}, op : Ops \cup {None},
                    reply : Ops \cup Turns \cup {None, "refused"}]
    BY <1>1 DEF TypeOK, Holder
  <2> QED BY <2>1 DEF Reply, Holder, TypeOK
<1>2. CASE broker.step # "await"
  BY <1>2 DEF Reply, TypeOK
<1> QED BY <1>1, <1>2

(* Types: the start.                                                      *)
LEMMA InitType == Init => TypeOK
<1> SUFFICES ASSUME Init PROVE TypeOK
  OBVIOUS
<1>1. tasks \in [TaskOps -> TaskRow] /\ sends \in [SendOps -> SendRow]
  BY RowTypes DEF Init
<1>2. broker \in Holder
  BY RowTypes DEF Init
<1>3. inputs \in [Ops -> Nat]
  BY DEF Init
<1>4. creation_results \in [TaskOps -> PROBES \cup {"none"}]
  BY DEF Init
<1>5. jobs \in [JobOps -> LEGACY_BUSY \cup TERMINAL \cup {"none"}]
  BY DEF Init
<1>6. threads \in [TaskOps -> {"absent", "live", "missing"}]
      /\ turns \in [Turns -> {"none", "inProgress"} \cup TERMINAL]
  BY DEF Init
<1> QED BY <1>1, <1>2, <1>3, <1>4, <1>5, <1>6 DEF Init, TypeOK

(* Types: the calls that commit an intent, and the dispatching ones.       *)
LEMMA IntentType ==
    ASSUME TypeOK,
           \/ \E t \in TaskOps : CreateIntent(t)
           \/ \E s \in SendOps, t \in TaskOps : SendIntent(s, t)
           \/ \E s \in SendOps, w \in Workspace : WorkspaceIntent(s, w)
           \/ \E s \in SendOps, r \in TaskOps \cup Workspace : SendRefused(s, r)
           \/ \E j \in JobOps : LegacyIntent(j)
    PROVE  TypeOK'
<1>1. ASSUME NEW t \in TaskOps, CreateIntent(t) PROVE TypeOK'
  <2>1. tasks' \in [TaskOps -> TaskRow]
    BY <1>1 DEF CreateIntent, TypeOK, TaskRow
  <2>2. broker' \in Holder
    BY <1>1, RowTypes DEF CreateIntent, Begin, Ops
  <2> QED BY <1>1, <2>1, <2>2 DEF CreateIntent, TypeOK, admissionVars, daemon
<1>2. ASSUME NEW s \in SendOps, NEW t \in TaskOps, SendIntent(s, t) PROVE TypeOK'
  <2>1. [NoSend EXCEPT !.state = "send_intent", !.task = t] \in SendRow
    BY DEF NoSend, SendRow
  <2>2. sends' \in [SendOps -> SendRow]
    BY <1>2, <2>1 DEF SendIntent, TypeOK
  <2>3. broker' \in Holder
    BY <1>2, RowTypes DEF SendIntent, Begin, Ops
  <2> QED BY <1>2, <2>2, <2>3 DEF SendIntent, TypeOK, admissionVars, daemon
<1>3. ASSUME NEW s \in SendOps, NEW w \in Workspace, WorkspaceIntent(s, w)
      PROVE  TypeOK'
  <2>1. PICK x \in Turns \cup {None} : sends' = [sends EXCEPT ![s] =
          [NoSend EXCEPT !.state = "send_intent", !.task = w, !.expected = x]]
    BY <1>3 DEF WorkspaceIntent, ActiveTurns, Turns
  <2>2. sends' \in [SendOps -> SendRow]
    BY <2>1, NewSendType DEF TypeOK
  <2>3. broker' \in Holder
    BY <1>3, RowTypes DEF WorkspaceIntent, Begin, Ops
  <2> QED BY <1>3, <2>2, <2>3 DEF WorkspaceIntent, TypeOK, admissionVars,
     daemon
<1>4. ASSUME NEW s \in SendOps, NEW r \in TaskOps \cup Workspace, SendRefused(s, r)
      PROVE  TypeOK'
  <2>1. [NoSend EXCEPT !.state = "not_dispatched", !.task = r] \in SendRow
    BY DEF NoSend, SendRow
  <2>2. sends' \in [SendOps -> SendRow]
    BY <1>4, <2>1 DEF SendRefused, TypeOK
  <2> QED BY <1>4, <2>2 DEF SendRefused, TypeOK, admissionVars, daemon
<1>5. ASSUME NEW j \in JobOps, LegacyIntent(j) PROVE TypeOK'
  <2>1. broker' \in Holder
    BY <1>5, RowTypes DEF LegacyIntent, Begin, Ops
  <2>2. jobs' \in [JobOps -> LEGACY_BUSY \cup TERMINAL \cup {"none"}]
    BY <1>5 DEF LegacyIntent, TypeOK, LEGACY_BUSY
  <2> QED BY <1>5, <2>1, <2>2 DEF LegacyIntent, TypeOK, admissionVars, daemon
<1> QED BY <1>1, <1>2, <1>3, <1>4, <1>5

(* The commits that follow a probe.                                        *)
LEMMA ProbedType ==
    ASSUME TypeOK, NEW t \in TaskOps, ObserveCreation(t) \/ ReconcileCreation(t)
    PROVE  TypeOK'
<1>1. CASE ObserveCreation(t)
  <2>1. tasks' \in [TaskOps -> TaskRow]
    BY <1>1 DEF ObserveCreation, TypeOK, TaskRow
  <2>2. creation_results' \in [TaskOps -> PROBES \cup {"none"}]
    BY <1>1 DEF ObserveCreation, Probed, TypeOK, Holder
  <2> QED BY <1>1, <2>1, <2>2, RowTypes DEF ObserveCreation, TypeOK,
     admissionVars, daemon
<1>2. CASE ReconcileCreation(t)
  <2>1. tasks' \in [TaskOps -> TaskRow]
    BY <1>2 DEF ReconcileCreation, TypeOK, TaskRow
  <2> QED BY <1>2, <2>1, RowTypes DEF ReconcileCreation, TypeOK, admissionVars,
     daemon
<1> QED BY <1>1, <1>2

(* The intent, the child and the receipt of a dispatching call.            *)
LEMMA DispatchType ==
    ASSUME TypeOK,
           \/ \E o \in Ops : Dispatch(o) \/ ChildSends(o)
           \/ Finish \/ Crash
    PROVE  TypeOK'
<1>1. ASSUME NEW o \in Ops, Dispatch(o) PROVE TypeOK'
  <2>1. broker \in [step : {"intent"}, op : Ops \cup {None},
                    reply : Ops \cup Turns \cup {None, "refused"}]
    BY <1>1 DEF Dispatch, TypeOK, Holder
  <2>2. broker' \in Holder /\ wire' \subseteq Ops /\ sent \subseteq wire'
    BY <1>1, <2>1 DEF Dispatch, TypeOK, Holder
  <2> QED BY <1>1, <2>2 DEF Dispatch, TypeOK, registry, admissionVars, daemon
<1>0. ASSUME NEW o \in Ops, ChildSends(o) PROVE TypeOK'
  BY <1>0 DEF ChildSends, TypeOK, registry, admissionVars, daemon
<1>2. ASSUME NEW t \in TaskOps, FinishCreate(t) PROVE TypeOK'
  <2>1. PICK known \in BOOLEAN, state \in {"created", "create_unknown"} :
          tasks' = [tasks EXCEPT ![t] =
                      [@ EXCEPT !.thread = known, !.state = state]]
    BY <1>2 DEF FinishCreate, Calling, Release
  <2>2. [tasks[t] EXCEPT !.thread = known, !.state = state] \in TaskRow
    BY DEF TypeOK, TaskRow
  <2>3. tasks' \in [TaskOps -> TaskRow]
    BY <2>1, <2>2 DEF TypeOK
  <2> QED BY <1>2, <2>3, RowTypes DEF FinishCreate, Calling, Release, TypeOK,
     admissionVars, daemon
<1>3. ASSUME NEW s \in SendOps, FinishSend(s) PROVE TypeOK'
  <2>1. tasks' = [t \in TaskOps |-> IF t = sends[s].task
                    THEN [tasks[t] EXCEPT !.reconciled = TRUE] ELSE tasks[t]]
    BY <1>3 DEF FinishSend, Calling, CommitReceipt, Release
  <2>2. \A t \in TaskOps : /\ tasks[t] \in TaskRow
                           /\ [tasks[t] EXCEPT !.reconciled = TRUE] \in TaskRow
    BY DEF TypeOK, TaskRow
  <2>3. tasks' \in [TaskOps -> TaskRow]
    BY <2>1, <2>2
  <2>4. sends' \in [SendOps -> SendRow]
    <3>1. PICK state \in {"accepted", "send_unknown"}, x \in Turns \cup {None} :
            sends' = [sends EXCEPT ![s] = [@ EXCEPT !.state = state, !.turn = x]]
      BY <1>3 DEF FinishSend, Calling, CommitReceipt, Release, ConfirmedTurn
    <3>2. [sends[s] EXCEPT !.state = state, !.turn = x] \in SendRow
      BY DEF TypeOK, SendRow
    <3> QED BY <3>1, <3>2 DEF TypeOK
  <2>5. /\ broker' \in Holder
        /\ UNCHANGED <<creation_results, jobs, revoked, enabled, sent, inputs,
                       threads, turns>>
        /\ wire' \subseteq Ops /\ sent \subseteq wire'
    BY <1>3, RowTypes DEF FinishSend, Calling, CommitReceipt, Release, TypeOK,
       admissionVars, daemon
  <2> QED BY <2>3, <2>4, <2>5 DEF TypeOK
<1>4. ASSUME NEW j \in JobOps, FinishLegacy(j) PROVE TypeOK'
  <2>1. jobs' \in [JobOps -> LEGACY_BUSY \cup TERMINAL \cup {"none"}]
    BY <1>4 DEF FinishLegacy, Calling, Release, TypeOK, LEGACY_BUSY
  <2> QED BY <1>4, <2>1, RowTypes DEF FinishLegacy, Calling, Release, TypeOK,
     admissionVars, daemon
<1>5. ASSUME Crash PROVE TypeOK'
  BY <1>5, RowTypes DEF Crash, TypeOK, registry, admissionVars, daemon
<1> QED BY <1>0, <1>1, <1>2, <1>3, <1>4, <1>5, ProbedType DEF Finish

(* Types: the calls that look and record.                                  *)
LEMMA ObserveType ==
    ASSUME TypeOK,
           \/ \E s \in SendOps : Observe(s) \/ Reconcile(s)
           \/ \E j \in JobOps : LegacyObserve(j)
           \/ \E t \in TaskOps : Probe(t)
           \/ Revoke
           \/ PolicyChange
    PROVE  TypeOK'
<1>1. ASSUME NEW s \in SendOps, Observe(s) PROVE TypeOK'
  <2>1. PICK state \in Observed(sends[s].turn) :
          sends' = [sends EXCEPT ![s].state = state]
    BY <1>1 DEF Observe
  <2>2. sends[s].turn \in Turns
    BY <1>1 DEF Observe, TypeOK, SendRow
  <2>3. state \in {"outcome_unknown", "inProgress"} \cup TERMINAL
    BY <2>1, <2>2 DEF Observed, TypeOK
  <2>4. sends' \in [SendOps -> SendRow]
    BY <2>1, <2>3 DEF TypeOK, SendRow
  <2> QED BY <1>1, <2>4 DEF Observe, TypeOK, admissionVars, daemon
<1>2. ASSUME NEW s \in SendOps, Reconcile(s) PROVE TypeOK'
  <2>1. [sends[s] EXCEPT !.reconciled = TRUE] \in SendRow
    BY DEF TypeOK, SendRow
  <2>2. sends' \in [SendOps -> SendRow]
    BY <1>2, <2>1 DEF Reconcile, TypeOK
  <2>3. \A t \in TaskOps : [tasks[t] EXCEPT !.reconciled = TRUE] \in TaskRow
    BY DEF TypeOK, TaskRow
  <2>4. tasks' \in [TaskOps -> TaskRow]
    BY <1>2, <2>3 DEF Reconcile, TypeOK
  <2> QED BY <1>2, <2>2, <2>4 DEF Reconcile, TypeOK, admissionVars, daemon
<1>3. ASSUME NEW j \in JobOps, LegacyObserve(j) PROVE TypeOK'
  <2>1. PICK state \in Observed(j) : jobs' = [jobs EXCEPT ![j] = state]
    BY <1>3 DEF LegacyObserve
  <2>2. state \in {"outcome_unknown", "inProgress"} \cup TERMINAL
    BY <2>1 DEF Observed, TypeOK, Turns
  <2>3. jobs' \in [JobOps -> LEGACY_BUSY \cup TERMINAL \cup {"none"}]
    BY <2>1, <2>2 DEF TypeOK, LEGACY_BUSY
  <2> QED BY <1>3, <2>3 DEF LegacyObserve, TypeOK, admissionVars, daemon
<1>4. ASSUME NEW t \in TaskOps, Probe(t) PROVE TypeOK'
  <2>1. PICK answer \in Answers(t) :
          broker' = [step |-> "probed", op |-> t, reply |-> answer]
    BY <1>4 DEF Probe
  <2>2. answer \in PROBES
    BY <2>1 DEF Answers, PROBES, TypeOK
  <2>3. broker' \in Holder
    BY <2>1, <2>2 DEF Holder, Ops
  <2> QED BY <1>4, <2>3 DEF Probe, TypeOK, registry, admissionVars, daemon
<1>6. ASSUME Revoke \/ PolicyChange PROVE TypeOK'
  BY <1>6 DEF Revoke, PolicyChange, TypeOK, registry, daemon
<1> QED BY <1>1, <1>2, <1>3, <1>4, <1>6

(* Types: the daemon and its other clients.                                *)
LEMMA DaemonType == ASSUME TypeOK, Daemon PROVE TypeOK'
<1>1. ASSUME NEW t \in TaskOps, StartThread(t) PROVE TypeOK'
  <2>1. broker' \in Holder
    BY <1>1, ReplyType DEF StartThread, Ops
  <2> QED BY <1>1, <2>1 DEF StartThread, Carry, TypeOK, Ops, registry,
     admissionVars
<1>2. ASSUME NEW t \in TaskOps, ThreadFlip(t) PROVE TypeOK'
  BY <1>2 DEF ThreadFlip, TypeOK, registry, admissionVars
<1>3. ASSUME NEW o \in SendOps \cup JobOps, StartTurn(o) PROVE TypeOK'
  <2>1. broker' \in Holder
    BY <1>3, ReplyType DEF StartTurn, Ops
  <2> QED BY <1>3, <2>1 DEF StartTurn, Carry, TypeOK, Ops, Turns, registry,
     admissionVars
<1>4. ASSUME NEW s \in SendOps, SteerTurn(s) PROVE TypeOK'
  <2>1. sends[s].expected \in Turns
    BY <1>4 DEF SteerTurn, TypeOK, SendRow
  <2>2. broker' \in Holder
    BY <1>4, <2>1, ReplyType DEF SteerTurn, Ops
  <2> QED BY <1>4, <2>2 DEF SteerTurn, Carry, TypeOK, Ops, registry,
     admissionVars
<1>5. ASSUME NEW o \in Ops, Drop(o) PROVE TypeOK'
  <2>1. broker' \in Holder
    BY <1>5, ReplyType DEF Drop
  <2> QED BY <1>5, <2>1 DEF Drop, TypeOK, registry, admissionVars, daemon
<1>6. ASSUME NEW x \in Turns, EndTurn(x) PROVE TypeOK'
  BY <1>6, EndStatesAssumption DEF EndTurn, TypeOK, registry, admissionVars
<1>7. ASSUME NEW x \in NativeTurns, NativeStart(x) PROVE TypeOK'
  BY <1>7 DEF NativeStart, TypeOK, Turns, registry, admissionVars
<1> QED BY <1>1, <1>2, <1>3, <1>4, <1>5, <1>6, <1>7 DEF Daemon

(* Types: every step.                                                      *)
LEMMA NextType == ASSUME TypeOK, [Next]_vars PROVE TypeOK'
<1>1. CASE Tool
  BY <1>1, IntentType, ObserveType DEF Tool
<1>2. CASE (\E o \in Ops : Dispatch(o) \/ ChildSends(o)) \/ Finish \/ Crash
  BY <1>2, DispatchType
<1>3. CASE Daemon
  BY <1>3, DaemonType
<1>4. CASE PolicyChange
  BY <1>4, ObserveType
<1>5. CASE UNCHANGED vars
  BY <1>5 DEF vars, TypeOK
<1> QED BY <1>1, <1>2, <1>3, <1>4, <1>5 DEF Next

(* Every variable always holds a value the code can store: the registries  *)
(* only hold the states their code writes, and the daemon's replies that   *)
(* reach a row are turns.                                                  *)
THEOREM TypeCorrect == Spec => []TypeOK
<1>1. Init => TypeOK
  BY InitType
<1>2. TypeOK /\ [Next]_vars => TypeOK'
  BY NextType
<1> QED BY <1>1, <1>2, PTL DEF Spec

-----------------------------------------------------------------------------
(* The inductive invariant: one lemma per action, one step per conjunct.   *)

(* Empty registries and an idle daemon agree.                              *)
LEMMA InitInvariant == Init => Invariant
<1> SUFFICES ASSUME Init PROVE Invariant
  OBVIOUS
<1>1. \A t \in TaskOps : TaskSound(t)
  BY DEF Init, TaskSound, NoTask, NoSendTo, NoSend, Ops
<1>2. \A s \in SendOps : SendSound(s)
  BY DistinctNames DEF Init, SendSound, NoSend, Ops, Turns, BUSY, TERMINAL
<1>3. \A j \in JobOps : JobSound(j)
  BY DEF Init, JobSound, Ops, Turns, TERMINAL
<1>4. WireSound
  BY DEF Init, WireSound
<1>5. BrokerSound
  BY DistinctNames DEF Init, BrokerSound, Free, Ops
<1>6. OneChain
  BY DEF Init, OneChain, Reserved, Unacknowledged, Pending, NoTask, NoSend,
     LEGACY_BUSY
<1> QED BY <1>1, <1>2, <1>3, <1>4, <1>5, <1>6 DEF Invariant

(* create() commits create_intent.                                        *)
LEMMA CreateIntentInvariant ==
    ASSUME TypeOK, TypeOK', Invariant, NEW t \in TaskOps, CreateIntent(t)
    PROVE  Invariant'
<1>1. \A u \in TaskOps : TaskSound(u)'
  BY DEF CreateIntent, daemon, Invariant, TaskSound, NoSendTo
<1>2. \A p \in SendOps : SendSound(p)'
  BY DEF CreateIntent, daemon, Invariant, SendSound, TargetTurn
<1>3. \A k \in JobOps : JobSound(k)'
  BY DEF CreateIntent, daemon, Invariant, JobSound
<1>4. WireSound'
  BY DEF CreateIntent, daemon, Invariant, WireSound
<1>5. BrokerSound'
  BY DistinctNames DEF CreateIntent, Begin, daemon, Invariant, BrokerSound,
     Row, TypeOK, Ops, Turns, TaskSound
<1>6. OneChain'
  BY DEF CreateIntent, Idle, LegacyIdle, NoBusyTask, NoOpenSend, Invariant,
     OneChain, Reserved, Unacknowledged, Pending, TypeOK, TaskRow, BUSY,
     TaskSound
<1> QED BY <1>1, <1>2, <1>3, <1>4, <1>5, <1>6 DEF Invariant

(* send() commits send_intent for a task of its own.                      *)
LEMMA SendIntentInvariant ==
    ASSUME TypeOK, TypeOK', Invariant,
           NEW s \in SendOps, NEW t \in TaskOps,
           SendIntent(s, t)
    PROVE  Invariant'
<1>1. \A u \in TaskOps : TaskSound(u)'
  BY DEF SendIntent, TaskAdmitted, daemon, Invariant, TaskSound, NoSendTo
<1>2. \A p \in SendOps : SendSound(p)'
  BY DEF SendIntent, TaskAdmitted, NoSend, daemon, Invariant, SendSound,
     TargetTurn, TypeOK, TERMINAL
<1>3. \A k \in JobOps : JobSound(k)'
  BY DEF SendIntent, daemon, Invariant, JobSound
<1>4. WireSound'
  BY DEF SendIntent, Begin, Unlocked, TaskAdmitted, NoOpenSend, LegacyIdle,
     NoSend, admissionVars, daemon, Invariant, WireSound, TypeOK
<1>5. BrokerSound'
  BY DistinctNames DEF SendIntent, Begin, TaskAdmitted, daemon, Invariant,
     BrokerSound, Row, TypeOK, Ops, Turns, SendSound
<1>6. OneChain'
  BY DEF SendIntent, TaskAdmitted, NoOpenSend, LegacyIdle, OneChain, Reserved,
     Unacknowledged, Pending
<1> QED BY <1>1, <1>2, <1>3, <1>4, <1>5, <1>6 DEF Invariant

(* send() commits send_intent for an existing project thread.             *)
LEMMA WorkspaceIntentInvariant ==
    ASSUME TypeOK, TypeOK', Invariant,
           NEW s \in SendOps, NEW w \in Workspace,
           WorkspaceIntent(s, w)
    PROVE  Invariant'
<1>1. \A u \in TaskOps : TaskSound(u)'
  BY DistinctNames DEF WorkspaceIntent, daemon, Invariant, TaskSound, NoSendTo
<1>2. \A p \in SendOps : SendSound(p)'
  BY DistinctNames DEF WorkspaceIntent, WorkspaceAdmitted, NoSend, daemon,
     Invariant, SendSound, TargetTurn, TypeOK, TERMINAL
<1>3. \A k \in JobOps : JobSound(k)'
  BY DEF WorkspaceIntent, Begin, daemon, Invariant, JobSound
<1>4. WireSound'
  BY DEF WorkspaceIntent, daemon, Invariant, WireSound
<1>5. BrokerSound'
  BY DistinctNames DEF WorkspaceIntent, Begin, WorkspaceAdmitted, daemon,
     Invariant, BrokerSound, Row, TypeOK, Ops, Turns, SendSound
<1>6. OneChain'
  BY DEF WorkspaceIntent, WorkspaceAdmitted, NoOpenSend, LegacyIdle, Idle,
     NoBusyTask, ActiveTurns, admissionVars, daemon, Invariant, OneChain,
     Reserved, Unacknowledged, Pending, TypeOK, TaskRow, BUSY, TaskSound
<1> QED BY <1>1, <1>2, <1>3, <1>4, <1>5, <1>6 DEF Invariant

(* A failed preflight commits not_dispatched.                             *)
LEMMA SendRefusedInvariant ==
    ASSUME TypeOK, TypeOK', Invariant,
           NEW s \in SendOps, NEW r \in TaskOps \cup Workspace,
           SendRefused(s, r)
    PROVE  Invariant'
<1>1. \A u \in TaskOps : TaskSound(u)'
  BY DistinctNames DEF SendRefused, TaskAdmitted, daemon, Invariant,
     TaskSound, NoSendTo
<1>2. \A p \in SendOps : SendSound(p)'
  BY DistinctNames DEF SendRefused, TaskAdmitted, WorkspaceAdmitted, NoSend,
     daemon, Invariant, SendSound, TargetTurn, TypeOK, TERMINAL
<1>3. \A k \in JobOps : JobSound(k)'
  BY DEF SendRefused, daemon, Invariant, JobSound
<1>4. WireSound'
  BY DEF SendRefused, daemon, Invariant, WireSound
<1>5. BrokerSound'
  BY DistinctNames DEF SendRefused, Unlocked, Invariant, BrokerSound
<1>6. OneChain'
  BY DEF SendRefused, TaskAdmitted, WorkspaceAdmitted, NoOpenSend, LegacyIdle,
     Idle, NoBusyTask, Invariant, TaskSound, OneChain, Reserved,
     Unacknowledged, Pending, TypeOK, TaskRow, BUSY
<1> QED BY <1>1, <1>2, <1>3, <1>4, <1>5, <1>6 DEF Invariant

(* The older adapter commits dispatch_intent.                             *)
LEMMA LegacyIntentInvariant ==
    ASSUME TypeOK, TypeOK', Invariant, NEW j \in JobOps, LegacyIntent(j)
    PROVE  Invariant'
<1>1. \A u \in TaskOps : TaskSound(u)'
  BY DEF LegacyIntent, daemon, Invariant, TaskSound, NoSendTo
<1>2. \A p \in SendOps : SendSound(p)'
  BY DEF LegacyIntent, daemon, Invariant, SendSound, TargetTurn
<1>3. \A k \in JobOps : JobSound(k)'
  BY DEF LegacyIntent, daemon, Invariant, JobSound, TERMINAL
<1>4. WireSound'
  BY DEF LegacyIntent, daemon, Invariant, WireSound
<1>5. BrokerSound'
  BY DistinctNames DEF LegacyIntent, Begin, daemon, Invariant, BrokerSound,
     Row, TypeOK, Ops, Turns, JobSound
<1>6. OneChain'
  BY DEF LegacyIntent, Idle, NoOpenSend, NoBusyTask, Invariant, OneChain,
     Reserved, Unacknowledged, Pending, TypeOK, TaskRow, BUSY, TaskSound
<1> QED BY <1>1, <1>2, <1>3, <1>4, <1>5, <1>6 DEF Invariant

(* The request leaves.                                                    *)
LEMMA DispatchInvariant ==
    ASSUME TypeOK, TypeOK', Invariant, NEW o \in Ops, Dispatch(o)
    PROVE  Invariant'
<1>1. \A u \in TaskOps : TaskSound(u)'
  BY DEF Dispatch, registry, daemon, Invariant, TaskSound, NoSendTo,
     BrokerSound, Row
<1>2. \A p \in SendOps : SendSound(p)'
  BY DistinctNames DEF Dispatch, registry, daemon, Invariant, SendSound,
     TargetTurn, BrokerSound, Row
<1>3. \A k \in JobOps : JobSound(k)'
  BY DistinctNames DEF Dispatch, registry, daemon, Invariant, JobSound,
     BrokerSound, Row
<1>4. WireSound'
  BY DEF Dispatch, daemon, Invariant, WireSound, BrokerSound
<1>5. BrokerSound'
  BY DEF Dispatch, registry, Invariant, BrokerSound, Row
<1>6. OneChain'
  BY DEF Dispatch, registry, Invariant, OneChain, Reserved, Unacknowledged,
     Pending
<1> QED BY <1>1, <1>2, <1>3, <1>4, <1>5, <1>6 DEF Invariant

(* create() commits its receipt.                                          *)
LEMMA FinishCreateInvariant ==
    ASSUME TypeOK, TypeOK', Invariant, NEW t \in TaskOps, FinishCreate(t)
    PROVE  Invariant'
<1>1. \A u \in TaskOps : TaskSound(u)'
  <2>1. PICK known \in BOOLEAN, state \in {"created", "create_unknown"} :
          /\ tasks' = [tasks EXCEPT ![t] =
                         [@ EXCEPT !.thread = known, !.state = state]]
          /\ known => broker.reply = t
          /\ state = "created" => known
    BY DEF FinishCreate, Calling, Release
  <2>2. tasks[t].state = "create_intent" /\ (known => inputs[t] = 1)
    BY <2>1, DistinctNames
       DEF FinishCreate, Calling, Release, Invariant, BrokerSound, Row, Ops,
          TypeOK, TaskRow
  <2>3. ~tasks[t].reconciled
    BY <2>2 DEF Invariant, TaskSound
  <2>4. /\ tasks'[t].state = state /\ tasks'[t].thread = known
        /\ tasks'[t].reconciled = tasks[t].reconciled
    BY <2>1 DEF TypeOK, TaskRow
  <2>5. \A u \in TaskOps : u # t => tasks'[u] = tasks[u]
    BY <2>1 DEF TypeOK
  <2>6. UNCHANGED <<sends, inputs>> /\ wire' \subseteq wire
    BY DEF FinishCreate, Calling, Release, daemon
  <2> QED BY <2>1, <2>2, <2>3, <2>4, <2>5, <2>6 DEF Invariant, TaskSound,
     NoSendTo
<1>2. \A p \in SendOps : SendSound(p)'
  BY DEF FinishCreate, Calling, Release, daemon, Invariant, SendSound,
     TargetTurn, TypeOK, Ops,
     BrokerSound, Row
<1>3. \A k \in JobOps : JobSound(k)'
  BY DEF FinishCreate, Calling, Release, daemon, Invariant, JobSound
<1>4. WireSound'
  BY DEF FinishCreate, Calling, Release, daemon, Invariant, WireSound
<1>5. BrokerSound'
  BY DistinctNames DEF FinishCreate, Calling, Release, Free, BrokerSound
<1>6. OneChain'
  <2>1. tasks[t].state = "create_intent" /\ ~tasks[t].reconciled
    BY DistinctNames
       DEF FinishCreate, Calling, Release, Invariant, BrokerSound, Row, Ops,
          TaskSound, TypeOK, TaskRow
  <2>2. \A u \in TaskOps : Reserved(u)' => Reserved(u)
    <3>1. PICK known \in BOOLEAN, state \in {"created", "create_unknown"} :
            tasks' = [tasks EXCEPT ![t] =
                        [@ EXCEPT !.thread = known, !.state = state]]
      BY DEF FinishCreate, Calling, Release
    <3>2. \A u \in TaskOps : u # t => tasks'[u] = tasks[u]
      BY <3>1 DEF TypeOK
    <3> QED BY <2>1, <3>2 DEF Reserved
  <2>3. UNCHANGED <<sends, jobs>>
    BY DEF FinishCreate, Calling, Release
  <2> QED BY <2>2, <2>3 DEF Invariant, OneChain, Unacknowledged, Pending
<1> QED BY <1>1, <1>2, <1>3, <1>4, <1>5, <1>6 DEF Invariant

(* finish() commits the receipt of a send.                                *)
LEMMA FinishSendInvariant ==
    ASSUME TypeOK, TypeOK', Invariant, NEW s \in SendOps, FinishSend(s)
    PROVE  Invariant'
<1>a. PICK state \in {"accepted", "send_unknown"}, turn \in Turns \cup {None} :
        /\ sends' = [sends EXCEPT ![s] = [@ EXCEPT !.state = state, !.turn = turn]]
        /\ state = "accepted" => turn = broker.reply /\ turn \in Turns
        /\ state = "send_unknown" => turn = None
  BY DEF FinishSend, Calling, CommitReceipt, Release, ConfirmedTurn
<1>b. \A u \in TaskOps : /\ tasks'[u].state = tasks[u].state
                         /\ tasks'[u].thread = tasks[u].thread
                         /\ u # sends[s].task => tasks'[u] = tasks[u]
                         /\ tasks[u].reconciled => tasks'[u].reconciled
  BY DEF FinishSend, Calling, CommitReceipt, Release, TypeOK, TaskRow
<1>c. sends[s].state = "send_intent"
  <2>1. /\ broker.op = s /\ s \notin TaskOps /\ s \in Ops
        /\ broker.step \in {"intent", "await"}
    BY DistinctNames DEF FinishSend, Calling, Ops
  <2>2. sends[s].state \in {"create_intent", "send_intent", "dispatch_intent"}
    BY <2>1 DEF Invariant, BrokerSound, Row
  <2> QED BY <2>2 DEF TypeOK, SendRow, TERMINAL
<1>d. /\ sends[s].turn = None /\ ~sends[s].reconciled
      /\ sends[s].task \in TaskOps => tasks[sends[s].task].state = "created"
  BY <1>c DEF Invariant, SendSound, BUSY
<1>e. state = "accepted" => inputs[s] = 1 /\ turn = TargetTurn(s) /\ turns[turn] # "none"
  BY <1>a, DistinctNames DEF FinishSend, Calling, Invariant, BrokerSound, Ops
<1>f. \A r \in SendOps : r # s => sends'[r] = sends[r]
  BY <1>a DEF TypeOK
<1>g. /\ sends'[s].state = state /\ sends'[s].turn = turn
      /\ sends'[s].task = sends[s].task
      /\ sends'[s].expected = sends[s].expected
      /\ sends'[s].reconciled = sends[s].reconciled
  BY <1>a DEF TypeOK, SendRow
<1>h. UNCHANGED <<inputs, turns, jobs>> /\ wire' \subseteq wire
  BY DEF FinishSend, Calling, CommitReceipt, Release, daemon
<1>1. \A u \in TaskOps : TaskSound(u)'
  BY <1>b, <1>d, <1>f, <1>g, <1>h DEF Invariant, TaskSound, NoSendTo
<1>2. \A p \in SendOps : SendSound(p)'
  <2> SUFFICES ASSUME NEW r \in SendOps PROVE SendSound(r)'
    OBVIOUS
  <2>1. CASE r # s
    BY <2>1, <1>b, <1>f, <1>h DEF Invariant, SendSound, TargetTurn
  <2>2. CASE r = s
    <3>1. sends'[s].turn # None => /\ inputs'[s] = 1
                                   /\ sends'[s].turn = TargetTurn(s)'
                                   /\ turns'[sends'[s].turn] # "none"
      BY <1>a, <1>e, <1>g, <1>h, DistinctNames DEF TargetTurn
    <3>2. sends'[s].task \in TaskOps => tasks'[sends'[s].task].state = "created"
      BY <1>b, <1>d, <1>g
    <3>3. turns'[s] # "none" => inputs'[s] = 1 /\ sends'[s].expected = None
      BY <1>g, <1>h DEF Invariant, SendSound
    <3>4. turn = None <=> state = "send_unknown"
      BY <1>a, DistinctNames DEF Turns, Ops
    <3> QED BY <2>2, <3>1, <3>2, <3>3, <3>4, <1>a, <1>d, <1>g DEF SendSound,
       TERMINAL, BUSY
  <2> QED BY <2>1, <2>2
<1>3. \A k \in JobOps : JobSound(k)'
  BY DEF FinishSend, Calling, CommitReceipt, Release, daemon, Invariant,
     JobSound
<1>4. WireSound'
  BY DEF FinishSend, Calling, CommitReceipt, Release, daemon, Invariant,
     WireSound
<1>5. BrokerSound'
  BY DistinctNames DEF FinishSend, Calling, CommitReceipt, Release, Free,
     BrokerSound
<1>6. OneChain'
  <2>1. \A u \in TaskOps : Reserved(u)' => Reserved(u)
    BY <1>b DEF Reserved
  <2>2. \A r \in SendOps : /\ Unacknowledged(r)' <=> Unacknowledged(r)
                          /\ sends'[r].task = sends[r].task
    BY <1>a, <1>c, <1>f, <1>g DEF Unacknowledged
  <2>3. \A j \in JobOps : Pending(j)' <=> Pending(j)
    BY <1>h DEF Pending
  <2> QED BY <2>1, <2>2, <2>3 DEF Invariant, OneChain
<1> QED BY <1>1, <1>2, <1>3, <1>4, <1>5, <1>6 DEF Invariant

(* The older adapter commits its receipt.                                 *)
LEMMA FinishLegacyInvariant ==
    ASSUME TypeOK, TypeOK', Invariant, NEW j \in JobOps, FinishLegacy(j)
    PROVE  Invariant'
<1>1. \A u \in TaskOps : TaskSound(u)'
  BY DEF FinishLegacy, Calling, Release, daemon, Invariant, TaskSound, NoSendTo
<1>2. \A p \in SendOps : SendSound(p)'
  BY DEF FinishLegacy, Calling, Release, daemon, Invariant, SendSound,
     TargetTurn
<1>3. \A k \in JobOps : JobSound(k)'
  BY DEF FinishLegacy, Calling, Release, daemon, Invariant, JobSound, TypeOK,
     Ops, TERMINAL,
     BrokerSound
<1>4. WireSound'
  BY DEF FinishLegacy, Calling, Release, daemon, Invariant, WireSound
<1>5. BrokerSound'
  BY DistinctNames DEF FinishLegacy, Calling, Release, Free, Invariant,
     BrokerSound
<1>6. OneChain'
  BY DistinctNames DEF FinishLegacy, Calling, Release, Invariant, OneChain,
     Reserved,
     Unacknowledged, Pending, TypeOK, Ops, Turns, LEGACY_BUSY, TERMINAL,
     BrokerSound, Row
<1> QED BY <1>1, <1>2, <1>3, <1>4, <1>5, <1>6 DEF Invariant

(* status() records what the turn list says.                              *)
LEMMA ObserveInvariant ==
    ASSUME TypeOK, TypeOK', Invariant, NEW s \in SendOps, Observe(s)
    PROVE  Invariant'
<1>1. \A u \in TaskOps : TaskSound(u)'
  BY DEF Observe, daemon, Invariant, TaskSound, NoSendTo
<1>2. \A p \in SendOps : SendSound(p)'
  <2>1. PICK state \in Observed(sends[s].turn) :
          sends' = [sends EXCEPT ![s].state = state]
    BY DEF Observe
  <2>2. state \in {"outcome_unknown", "inProgress"} \cup TERMINAL
    BY <2>1 DEF Observed, Observe, TypeOK, SendRow
  <2>3. state \in TERMINAL => turns[sends[s].turn] = state
    BY <2>1 DEF Observed, TERMINAL
  <2>4. \A r \in SendOps : r # s => sends'[r] = sends[r]
    BY <2>1 DEF TypeOK
  <2>5. sends'[s] = [sends[s] EXCEPT !.state = state]
    BY <2>1 DEF TypeOK
  <2>6. UNCHANGED <<tasks, inputs, turns, wire>>
    BY DEF Observe, daemon
  <2>7. ~sends[s].reconciled /\ sends[s].turn # None
    BY DEF Observe, Invariant, SendSound, BUSY
  <2>8. ASSUME NEW r \in SendOps PROVE SendSound(r)'
    <3>1. CASE r # s
      BY <3>1, <2>4, <2>6 DEF Invariant, SendSound, TargetTurn
    <3>2. CASE r = s
      BY <3>2, <2>2, <2>3, <2>5, <2>6, <2>7
         DEF Invariant, SendSound, TargetTurn, TypeOK, SendRow, TERMINAL, BUSY
    <3> QED BY <3>1, <3>2
  <2> QED BY <2>8
<1>3. \A k \in JobOps : JobSound(k)'
  BY DEF Observe, daemon, Invariant, JobSound
<1>4. WireSound'
  BY DEF Observe, daemon, Invariant, WireSound
<1>5. BrokerSound'
  BY DEF Observe, Unlocked, Invariant, BrokerSound
<1>6. OneChain'
  BY DEF Observe, Invariant, OneChain, Reserved, Unacknowledged, Pending
<1> QED BY <1>1, <1>2, <1>3, <1>4, <1>5, <1>6 DEF Invariant

(* reconcile_receipt() acknowledges a send.                               *)
LEMMA ReconcileInvariant ==
    ASSUME TypeOK, TypeOK', Invariant, NEW s \in SendOps, Reconcile(s)
    PROVE  Invariant'
<1>1. \A u \in TaskOps : TaskSound(u)'
  BY DEF Reconcile, daemon, Invariant, TaskSound, NoSendTo, TypeOK, TaskRow,
     Turns
<1>2. \A p \in SendOps : SendSound(p)'
  <2>1. tasks' = tasks \/ \E t \in TaskOps : tasks' = [tasks EXCEPT ![t].reconciled = TRUE]
    BY DEF Reconcile
  <2>2. \A u \in TaskOps : tasks'[u].state = tasks[u].state
    BY <2>1 DEF TypeOK, TaskRow
  <2>3. \A r \in SendOps : r # s => sends'[r] = sends[r]
    BY DEF Reconcile, TypeOK
  <2>4. /\ sends'[s] = [sends[s] EXCEPT !.reconciled = TRUE]
        /\ sends[s].state \in TERMINAL \cup {"not_dispatched"}
    BY DEF Reconcile, Acknowledgeable, TypeOK
  <2>5. UNCHANGED <<inputs, turns, wire>>
    BY DEF Reconcile, daemon
  <2>6. ASSUME NEW r \in SendOps PROVE SendSound(r)'
    <3>1. CASE r # s
      BY <3>1, <2>2, <2>3, <2>5 DEF Invariant, SendSound, TargetTurn
    <3>2. CASE r = s
      BY <3>2, <2>2, <2>4, <2>5
         DEF Invariant, SendSound, TargetTurn, TypeOK, SendRow, TERMINAL, BUSY
    <3> QED BY <3>1, <3>2
  <2> QED BY <2>6
<1>3. \A k \in JobOps : JobSound(k)'
  BY DEF Reconcile, daemon, Invariant, JobSound
<1>4. WireSound'
  BY DEF Reconcile, daemon, Invariant, WireSound
<1>5. BrokerSound'
  BY DEF Reconcile, Unlocked, Invariant, BrokerSound
<1>6. OneChain'
  BY DEF Reconcile, Acknowledgeable, Unlocked, Invariant, OneChain, Reserved,
     Unacknowledged, Pending, TypeOK, TaskRow, SendRow, Turns, LEGACY_BUSY,
     TERMINAL, TaskSound
<1> QED BY <1>1, <1>2, <1>3, <1>4, <1>5, <1>6 DEF Invariant

(* The older adapter records what the turn list says.                     *)
LEMMA LegacyObserveInvariant ==
    ASSUME TypeOK, TypeOK', Invariant, NEW j \in JobOps, LegacyObserve(j)
    PROVE  Invariant'
<1>1. \A u \in TaskOps : TaskSound(u)'
  BY DEF LegacyObserve, daemon, Invariant, TaskSound, NoSendTo
<1>2. \A p \in SendOps : SendSound(p)'
  BY DEF LegacyObserve, daemon, Invariant, SendSound, TargetTurn
<1>3. \A k \in JobOps : JobSound(k)'
  BY DEF LegacyObserve, Observed, daemon, Invariant, JobSound, TERMINAL
<1>4. WireSound'
  BY DEF LegacyObserve, daemon, Invariant, WireSound
<1>5. BrokerSound'
  BY DEF LegacyObserve, Unlocked, Invariant, BrokerSound
<1>6. OneChain'
  BY DEF LegacyObserve, Invariant, OneChain, Reserved, Unacknowledged,
     Pending, TypeOK, TERMINAL
<1> QED BY <1>1, <1>2, <1>3, <1>4, <1>5, <1>6 DEF Invariant

(* A child asks about a thread.                                           *)
LEMMA ProbeInvariant ==
    ASSUME TypeOK, TypeOK', Invariant, NEW t \in TaskOps, Probe(t)
    PROVE  Invariant'
<1>1. UNCHANGED <<tasks, sends, jobs, wire, inputs, turns>>
  BY DEF Probe, registry, daemon
<1>2. \A u \in TaskOps : TaskSound(u)'
  BY <1>1 DEF Invariant, TaskSound, NoSendTo
<1>3. \A p \in SendOps : SendSound(p)'
  BY <1>1 DEF Invariant, SendSound, TargetTurn
<1>4. \A k \in JobOps : JobSound(k)'
  BY <1>1 DEF Invariant, JobSound
<1>5. WireSound' /\ OneChain'
  BY <1>1 DEF Invariant, WireSound, OneChain, Reserved, Unacknowledged, Pending
<1>6. BrokerSound'
  <2>1. broker'.step = "probed" /\ broker'.op = t
    BY DEF Probe
  <2>2. t # None
    BY DistinctNames DEF Ops
  <2> QED BY <1>1, <2>1, <2>2 DEF Probe, BrokerSound, NoSendTo
<1> QED BY <1>2, <1>3, <1>4, <1>5, <1>6 DEF Invariant

(* What a call that has probed a thread of task t knows about its row.     *)
LEMMA ProbedTask ==
    ASSUME Invariant, NEW t \in TaskOps, Probed(t)
    PROVE  /\ tasks[t].state \in {"created", "create_unknown"}
           /\ tasks[t].thread /\ NoSendTo(t)
BY DEF Invariant, BrokerSound, Probed

(* observe_creation() records what it was told.                           *)
LEMMA ObserveCreationInvariant ==
    ASSUME TypeOK, TypeOK', Invariant, NEW t \in TaskOps, ObserveCreation(t)
    PROVE  Invariant'
<1>0. Probed(t) /\ NoSendTo(t) /\ tasks[t].state \in {"created", "create_unknown"}
      /\ tasks[t].thread
  BY ProbedTask DEF ObserveCreation
<1>1. \A u \in TaskOps : TaskSound(u)'
  BY <1>0 DEF ObserveCreation, daemon, Invariant, TaskSound, NoSendTo,
     TypeOK, TaskRow
<1>2. \A p \in SendOps : SendSound(p)'
  BY <1>0 DEF ObserveCreation, daemon, Invariant, SendSound, TargetTurn,
     TypeOK, TaskRow
<1>3. \A k \in JobOps : JobSound(k)'
  BY DEF ObserveCreation, daemon, Invariant, JobSound
<1>4. WireSound'
  BY DEF ObserveCreation, daemon, Invariant, WireSound
<1>5. BrokerSound'
  BY DistinctNames DEF ObserveCreation, Free, BrokerSound
<1>6. OneChain'
  BY <1>0 DEF ObserveCreation, Invariant, OneChain, Reserved, Unacknowledged,
     Pending, TypeOK, TaskRow
<1> QED BY <1>1, <1>2, <1>3, <1>4, <1>5, <1>6 DEF Invariant

(* reconcile_creation() writes a reservation off.                         *)
LEMMA ReconcileCreationInvariant ==
    ASSUME TypeOK, TypeOK', Invariant, NEW t \in TaskOps, ReconcileCreation(t)
    PROVE  Invariant'
<1>0. Probed(t) /\ NoSendTo(t) /\ tasks[t].thread
  BY ProbedTask DEF ReconcileCreation
<1>1. \A u \in TaskOps : TaskSound(u)'
  BY <1>0 DEF ReconcileCreation, daemon, Invariant, TaskSound, NoSendTo,
     TypeOK, TaskRow
<1>2. \A p \in SendOps : SendSound(p)'
  BY <1>0 DEF ReconcileCreation, daemon, Invariant, SendSound, TargetTurn,
     NoSendTo, TypeOK, TaskRow
<1>3. \A k \in JobOps : JobSound(k)'
  BY DEF ReconcileCreation, daemon, Invariant, JobSound
<1>4. WireSound'
  BY DEF ReconcileCreation, daemon, Invariant, WireSound
<1>5. BrokerSound'
  BY DistinctNames DEF ReconcileCreation, Free, BrokerSound
<1>6. OneChain'
  BY DEF ReconcileCreation, Invariant, OneChain, Reserved, Unacknowledged,
     Pending, TypeOK, TaskRow
<1> QED BY <1>1, <1>2, <1>3, <1>4, <1>5, <1>6 DEF Invariant

(* The daemon starts a thread.                                            *)
LEMMA StartThreadInvariant ==
    ASSUME TypeOK, TypeOK', Invariant, NEW t \in TaskOps, StartThread(t)
    PROVE  Invariant'
<1>1. \A u \in TaskOps : TaskSound(u)'
  BY DEF StartThread, Carry, registry, Invariant, TaskSound, NoSendTo, TypeOK,
     WireSound
<1>2. \A p \in SendOps : SendSound(p)'
  BY DistinctNames DEF StartThread, Carry, registry, Invariant, SendSound,
     TargetTurn
<1>3. \A k \in JobOps : JobSound(k)'
  BY DistinctNames DEF StartThread, Carry, registry, Invariant, JobSound
<1>4. WireSound'
  BY DEF StartThread, Carry, TypeOK, Invariant, WireSound
<1>5. BrokerSound'
  BY DistinctNames DEF StartThread, Carry, Reply, registry, daemon, Invariant,
     BrokerSound, Row, TargetTurn, TypeOK, Holder, NoSendTo, WireSound
<1>6. OneChain'
  BY DEF StartThread, registry, Invariant, OneChain, Reserved, Unacknowledged,
     Pending
<1> QED BY <1>1, <1>2, <1>3, <1>4, <1>5, <1>6 DEF Invariant

(* The daemon starts a turn.                                              *)
LEMMA StartTurnInvariant ==
    ASSUME TypeOK, TypeOK', Invariant, NEW o \in SendOps \cup JobOps, StartTurn(o)
    PROVE  Invariant'
<1>1. \A u \in TaskOps : TaskSound(u)'
  BY DistinctNames DEF StartTurn, Carry, registry, Invariant, TaskSound,
     NoSendTo
<1>2. \A p \in SendOps : SendSound(p)'
  BY DistinctNames DEF StartTurn, Carry, registry, Invariant, SendSound,
     TargetTurn, JobSound, WireSound, TypeOK
<1>3. \A k \in JobOps : JobSound(k)'
  BY DEF StartTurn, Carry, registry, Invariant, JobSound, TypeOK, WireSound
<1>4. WireSound'
  BY DEF StartTurn, Carry, TypeOK, Invariant, WireSound
<1>5. BrokerSound'
  BY DEF StartTurn, Carry, Reply, registry, Invariant, BrokerSound, Row,
     TargetTurn, TypeOK, Holder, NoSendTo, WireSound
<1>6. OneChain'
  BY DEF StartTurn, registry, Invariant, OneChain, Reserved, Unacknowledged,
     Pending
<1> QED BY <1>1, <1>2, <1>3, <1>4, <1>5, <1>6 DEF Invariant

(* The daemon adds a message to the expected turn.                        *)
LEMMA SteerTurnInvariant ==
    ASSUME TypeOK, TypeOK', Invariant, NEW s \in SendOps, SteerTurn(s)
    PROVE  Invariant'
<1>1. \A u \in TaskOps : TaskSound(u)'
  BY DistinctNames DEF SteerTurn, Carry, registry, Invariant, TaskSound,
     NoSendTo
<1>2. \A p \in SendOps : SendSound(p)'
  BY DEF SteerTurn, Carry, registry, Invariant, SendSound, TargetTurn, TypeOK,
     WireSound
<1>3. \A k \in JobOps : JobSound(k)'
  BY DistinctNames DEF SteerTurn, Carry, registry, Invariant, JobSound
<1>4. WireSound'
  BY DEF SteerTurn, Carry, Reply, registry, admissionVars, daemon, TypeOK,
     Invariant, WireSound
<1>5. BrokerSound'
  BY DistinctNames DEF SteerTurn, Carry, Reply, registry, Invariant,
     BrokerSound, Row, TargetTurn, TypeOK, Holder, NoSendTo, WireSound
<1>6. OneChain'
  BY DEF SteerTurn, registry, Invariant, OneChain, Reserved, Unacknowledged,
     Pending
<1> QED BY <1>1, <1>2, <1>3, <1>4, <1>5, <1>6 DEF Invariant

(* A request is refused or lost.                                          *)
LEMMA DropInvariant ==
    ASSUME TypeOK, TypeOK', Invariant, NEW o \in Ops, Drop(o)
    PROVE  Invariant'
<1>1. \A u \in TaskOps : TaskSound(u)'
  BY DEF Drop, registry, daemon, Invariant, TaskSound, NoSendTo
<1>2. \A p \in SendOps : SendSound(p)'
  BY DEF Drop, registry, daemon, Invariant, SendSound, TargetTurn
<1>3. \A k \in JobOps : JobSound(k)'
  BY DEF Drop, registry, daemon, Invariant, JobSound
<1>4. WireSound'
  BY DEF Drop, daemon, Invariant, WireSound
<1>5. BrokerSound'
  BY DistinctNames DEF Drop, Reply, registry, daemon, Invariant, BrokerSound,
     Row, TargetTurn, Ops, Turns, TypeOK, Holder, NoSendTo
<1>6. OneChain'
  BY DEF Drop, registry, Invariant, OneChain, Reserved, Unacknowledged,
     Pending
<1> QED BY <1>1, <1>2, <1>3, <1>4, <1>5, <1>6 DEF Invariant

(* A turn ends.                                                           *)
LEMMA EndTurnInvariant ==
    ASSUME TypeOK, TypeOK', Invariant, NEW x \in Turns, EndTurn(x)
    PROVE  Invariant'
<1>a. PICK state \in TERMINAL : turns' = [turns EXCEPT ![x] = state]
  BY EndStatesAssumption DEF EndTurn
<1>b. turns[x] = "inProgress" /\ UNCHANGED <<tasks, sends, jobs, broker, wire, inputs>>
  BY DEF EndTurn, registry
<1>c. \A y \in Turns : turns'[y] # turns[y] => turns[y] = "inProgress" /\ turns'[y] \in TERMINAL
  BY <1>a, <1>b DEF TypeOK
<1>d. \A y \in Turns : /\ turns'[y] # "none" <=> turns[y] # "none"
                       /\ turns[y] \in TERMINAL => turns'[y] = turns[y]
  BY <1>c DEF TERMINAL
<1>1. \A u \in TaskOps : TaskSound(u)'
  BY DEF EndTurn, registry, Invariant, TaskSound, NoSendTo
<1>2. \A p \in SendOps : SendSound(p)'
  <2>1. \A r \in SendOps : sends[r].turn # None => sends[r].turn \in Turns
    BY DEF TypeOK, SendRow
  <2>2. \A r \in SendOps : r \in Turns
    BY DEF Turns
  <2>3. \A r \in SendOps : sends[r].state \in TERMINAL => sends[r].turn # None
    BY DEF Invariant, SendSound, TERMINAL
  <2> QED BY <1>b, <1>d, <2>1, <2>2, <2>3 DEF Invariant, SendSound, TargetTurn
<1>3. \A k \in JobOps : JobSound(k)'
  BY <1>b, <1>d DEF Invariant, JobSound, Turns
<1>4. WireSound'
  BY DEF EndTurn, Invariant, WireSound
<1>5. BrokerSound'
  BY <1>b, <1>d DEF Invariant, BrokerSound, Row, TargetTurn, Turns, TypeOK,
     Holder,
     NoSendTo
<1>6. OneChain'
  BY DEF EndTurn, registry, Invariant, OneChain, Reserved, Unacknowledged,
     Pending
<1> QED BY <1>1, <1>2, <1>3, <1>4, <1>5, <1>6 DEF Invariant

(* Another client of the daemon starts a turn.                            *)
LEMMA NativeStartInvariant ==
    ASSUME TypeOK, TypeOK', Invariant, NEW x \in NativeTurns, NativeStart(x)
    PROVE  Invariant'
<1>1. \A u \in TaskOps : TaskSound(u)'
  BY DEF NativeStart, registry, Invariant, TaskSound, NoSendTo
<1>2. \A p \in SendOps : SendSound(p)'
  BY DistinctNames DEF NativeStart, registry, Invariant, SendSound, TargetTurn
<1>3. \A k \in JobOps : JobSound(k)'
  BY DistinctNames DEF NativeStart, registry, Invariant, JobSound
<1>4. WireSound'
  BY DEF NativeStart, Invariant, WireSound
<1>5. BrokerSound'
  BY DEF NativeStart, registry, Invariant, BrokerSound, Row, TargetTurn,
     NoSendTo
<1>6. OneChain'
  BY DEF NativeStart, registry, Invariant, OneChain, Reserved, Unacknowledged,
     Pending
<1> QED BY <1>1, <1>2, <1>3, <1>4, <1>5, <1>6 DEF Invariant

(* What neither touches a row nor the daemon's answers about it: the lock  *)
(* released by a death, the revocation, the policy, a thread that flips, a *)
(* child that hands its request over.                                      *)
LEMMA QuietInvariant ==
    ASSUME TypeOK, TypeOK', Invariant,
           \/ Crash \/ Revoke \/ PolicyChange \/ UNCHANGED vars
           \/ \E t \in TaskOps : ThreadFlip(t)
           \/ \E o \in Ops : ChildSends(o)
    PROVE  Invariant'
<1>1. UNCHANGED <<tasks, sends, jobs, wire, inputs, turns>>
  BY DEF Crash, Revoke, PolicyChange, ThreadFlip, ChildSends, vars, registry,
     daemon
<1>2. broker' = broker \/ broker' = Free
  BY DEF Crash, Revoke, PolicyChange, ThreadFlip, ChildSends, vars
<1>3. \A t \in TaskOps : TaskSound(t)'
  BY <1>1 DEF Invariant, TaskSound, NoSendTo
<1>4. \A s \in SendOps : SendSound(s)'
  BY <1>1 DEF Invariant, SendSound, TargetTurn
<1>5. \A j \in JobOps : JobSound(j)'
  BY <1>1 DEF Invariant, JobSound
<1>6. WireSound' /\ OneChain'
  BY <1>1 DEF Invariant, WireSound, OneChain, Reserved, Unacknowledged, Pending
<1>7. BrokerSound'
  <2>1. CASE broker' = broker
    BY <1>1, <2>1 DEF Invariant, BrokerSound, Row, TargetTurn, NoSendTo
  <2>2. CASE broker' = Free
    BY <2>2, DistinctNames DEF BrokerSound, Free
  <2> QED BY <1>2, <2>1, <2>2
<1> QED BY <1>3, <1>4, <1>5, <1>6, <1>7 DEF Invariant

(* Every step preserves it.                                                *)
LEMMA NextInvariant == ASSUME TypeOK, Invariant, [Next]_vars PROVE Invariant'
<1>1. TypeOK'
  BY NextType
<1>2. CASE Tool
  <2>1. CASE Revoke
    BY <1>1, <2>1, QuietInvariant
  <2> QED BY <1>1, <1>2, <2>1, CreateIntentInvariant, ProbeInvariant,
       SendIntentInvariant, WorkspaceIntentInvariant,
       SendRefusedInvariant, ObserveInvariant, ReconcileInvariant,
       LegacyIntentInvariant, LegacyObserveInvariant DEF Tool
<1>3. CASE \E o \in Ops : Dispatch(o) \/ ChildSends(o)
  BY <1>1, <1>3, DispatchInvariant, QuietInvariant
<1>4. CASE Finish
  BY <1>1, <1>4, FinishCreateInvariant, FinishSendInvariant,
     FinishLegacyInvariant,
     ObserveCreationInvariant, ReconcileCreationInvariant DEF Finish
<1>5. CASE Daemon
  <2>1. CASE \E t \in TaskOps : ThreadFlip(t)
    BY <1>1, <2>1, QuietInvariant
  <2> QED BY <1>1, <1>5, <2>1, StartThreadInvariant, StartTurnInvariant,
       SteerTurnInvariant, DropInvariant, EndTurnInvariant,
       NativeStartInvariant
       DEF Daemon
<1>6. CASE Crash \/ PolicyChange \/ UNCHANGED vars
  BY <1>1, <1>6, QuietInvariant
<1> QED BY <1>2, <1>3, <1>4, <1>5, <1>6 DEF Next

(* The registries never disagree with the daemon: a row that names a turn  *)
(* or a thread tells the truth, a row that says nothing was sent does too, *)
(* and all unfinished work is one chain.                                   *)
THEOREM InvariantHolds == Spec => []Invariant
<1>1. Init => Invariant
  BY InitInvariant
<1>2. TypeOK /\ Invariant /\ [Next]_vars => Invariant'
  BY NextInvariant
<1> QED BY <1>1, <1>2, TypeCorrect, PTL DEF Spec
=============================================================================
