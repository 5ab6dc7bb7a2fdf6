------------------------- MODULE TaskStoreTheorems --------------------------
(***************************************************************************)
(* What follows from the inductive invariant of TaskStore: its safety      *)
(* properties, its action properties and that it implements SerialDispatch.*)
(***************************************************************************)
EXTENDS TaskStoreProofs

-----------------------------------------------------------------------------
(* Safety properties                                                       *)

(* No crash, timeout, late delivery or repeated call makes the daemon take *)
(* an operation twice: create() and send() return the stored receipt.      *)
THEOREM AtMostOnceHolds == Spec => []AtMostOnce
<1>1. Invariant => AtMostOnce
  BY DEF Invariant, WireSound, AtMostOnce
<1> QED BY <1>1, InvariantHolds, PTL

(* A request on the wire or carried out has a committed intent: the child  *)
(* is started only after the insert has been committed.                    *)
THEOREM IntentFirstHolds == Spec => []IntentFirst
<1>1. TypeOK /\ Invariant => IntentFirst
  <2> SUFFICES ASSUME TypeOK, Invariant, NEW o \in Ops, o \in wire \/ inputs[o] > 0
               PROVE  Row(o) \notin {"none", "not_dispatched"}
    BY DEF IntentFirst
  <2>1. CASE o \in TaskOps
    BY <2>1 DEF Invariant, TaskSound, TypeOK, TaskRow, Row
  <2>2. CASE o \in SendOps
    BY <2>2, DistinctNames DEF Invariant, SendSound, Row
  <2>3. CASE o \in JobOps
    BY <2>3, DistinctNames DEF Invariant, JobSound, TypeOK, LEGACY_BUSY,
       TERMINAL, Row
  <2> QED BY <2>1, <2>2, <2>3 DEF Ops
<1> QED BY <1>1, TypeCorrect, InvariantHolds, PTL

(* The gates read under the one lock keep all unfinished work of both      *)
(* registries in one chain: at most one task, one send, one job.           *)
THEOREM OneChainHolds == Spec => []OneChain
<1>1. Invariant => OneChain
  BY DEF Invariant
<1> QED BY <1>1, InvariantHolds, PTL

(* A create request still on the wire belongs to a reserved task.          *)
LEMMA OutstandingTask ==
    ASSUME TypeOK, Invariant, NEW t \in TaskOps, Outstanding(t)
    PROVE  Reserved(t) /\ tasks[t].state # "created"
<1>1. t \in wire
  BY DistinctNames DEF Outstanding, Turns
<1>2. inputs[t] = 0
  BY <1>1 DEF Invariant, WireSound, Ops
<1> QED BY <1>1, <1>2 DEF Invariant, TaskSound, Reserved, TypeOK, TaskRow

(* A send request on the wire, or its running turn, is unacknowledged.     *)
LEMMA OutstandingSend ==
    ASSUME TypeOK, Invariant, NEW s \in SendOps, Outstanding(s)
    PROVE  Unacknowledged(s)
<1>1. CASE s \in wire
  <2>1. inputs[s] = 0
    BY <1>1 DEF Invariant, WireSound, Ops
  <2>2. sends[s].state \in {"send_intent", "send_unknown"}
    BY <1>1, <2>1 DEF Invariant, SendSound
  <2> QED BY <2>2 DEF Invariant, SendSound, Unacknowledged, BUSY
<1>2. CASE turns[s] = "inProgress"
  <2>1. inputs[s] = 1 /\ sends[s].expected = None
    BY <1>2 DEF Invariant, SendSound
  <2>2. sends[s].state \notin TERMINAL
    BY <1>2, <2>1 DEF Invariant, SendSound, TargetTurn, TERMINAL
  <2>3. sends[s].state \notin {"none", "not_dispatched"}
    BY <2>1 DEF Invariant, SendSound
  <2>4. sends[s].state \in BUSY
    BY <2>2, <2>3 DEF TypeOK, SendRow, BUSY
  <2> QED BY <2>3, <2>4 DEF Invariant, SendSound, Unacknowledged
<1> QED BY <1>1, <1>2 DEF Outstanding

(* A request or running turn of the older adapter is a busy job.           *)
LEMMA OutstandingJob ==
    ASSUME TypeOK, Invariant, NEW j \in JobOps, Outstanding(j)
    PROVE  Pending(j)
<1>1. CASE j \in wire
  <2>1. inputs[j] = 0
    BY <1>1 DEF Invariant, WireSound, Ops
  <2> QED BY <1>1, <2>1 DEF Invariant, JobSound, TypeOK, Pending, LEGACY_BUSY
<1>2. CASE turns[j] = "inProgress"
  <2>1. inputs[j] = 1
    BY <1>2 DEF Invariant, JobSound
  <2> QED BY <1>2, <2>1 DEF Invariant, JobSound, TypeOK, Pending, TERMINAL
<1> QED BY <1>1, <1>2 DEF Outstanding

(* The two adapters never have work in the daemon at the same time, not    *)
(* even after a crash has let go of the lock.                              *)
THEOREM SerialDispatchingHolds == Spec => []SerialDispatching
<1>1. TypeOK /\ Invariant => SerialDispatching
  <2> SUFFICES ASSUME TypeOK, Invariant, NEW o \in Ops, NEW p \in Ops,
                      Outstanding(o), Outstanding(p)
               PROVE  o = p
    BY DEF SerialDispatching
  <2>1. CASE o \in TaskOps /\ p \in TaskOps
    BY <2>1, OutstandingTask DEF Invariant, OneChain
  <2>2. CASE o \in SendOps /\ p \in SendOps
    BY <2>2, OutstandingSend DEF Invariant, OneChain
  <2>3. CASE o \in JobOps /\ p \in JobOps
    BY <2>3, OutstandingJob DEF Invariant, OneChain
  <2>4. ASSUME NEW t \in TaskOps, NEW s \in SendOps, Outstanding(t), Outstanding(s)
        PROVE  FALSE
    <3>1. sends[s].task = t
      BY <2>4, OutstandingTask, OutstandingSend DEF Invariant, OneChain
    <3>2. tasks[t].state = "created"
      BY <3>1 DEF Invariant, SendSound
    <3> QED BY <2>4, <3>2, OutstandingTask
  <2>5. ASSUME NEW t \in TaskOps, NEW j \in JobOps, Outstanding(t), Outstanding(j)
        PROVE  FALSE
    BY <2>5, OutstandingTask, OutstandingJob DEF Invariant, OneChain
  <2>6. ASSUME NEW s \in SendOps, NEW j \in JobOps, Outstanding(s), Outstanding(j)
        PROVE  FALSE
    BY <2>6, OutstandingSend, OutstandingJob DEF Invariant, OneChain
  <2> QED BY <2>1, <2>2, <2>3, <2>4, <2>5, <2>6 DEF Ops
<1> QED BY <1>1, TypeCorrect, InvariantHolds, PTL

(* A receipt that names a turn names the turn that took its input.         *)
THEOREM ReceiptsTrueHolds == Spec => []ReceiptsTrue
<1>1. Invariant => ReceiptsTrue
  BY DEF Invariant, SendSound, ReceiptsTrue
<1> QED BY <1>1, InvariantHolds, PTL

(* reconcile_receipt() releases only what is really over.                  *)
THEOREM AcknowledgedIsOverHolds == Spec => []AcknowledgedIsOver
<1>1. TypeOK /\ Invariant => AcknowledgedIsOver
  <2> SUFFICES ASSUME TypeOK, Invariant, NEW s \in SendOps, sends[s].reconciled
               PROVE  /\ s \notin wire
                      /\ \/ sends[s].state = "not_dispatched" /\ inputs[s] = 0
                         \/ /\ sends[s].state \in TERMINAL
                            /\ turns[sends[s].turn] = sends[s].state
    BY DEF AcknowledgedIsOver
  <2>1. sends[s].state # "none" /\ sends[s].state \notin BUSY
    BY DEF Invariant, SendSound, NoSend
  <2>2. CASE sends[s].state = "not_dispatched"
    BY <2>2 DEF Invariant, SendSound
  <2>3. CASE sends[s].state \in TERMINAL
    <3>1. inputs[s] = 1
      BY <2>3 DEF Invariant, SendSound, TERMINAL
    <3>2. s \notin wire
      BY <3>1 DEF Invariant, WireSound, Ops
    <3> QED BY <2>3, <3>2 DEF Invariant, SendSound
  <2> QED BY <2>1, <2>2, <2>3 DEF TypeOK, SendRow, BUSY
<1> QED BY <1>1, TypeCorrect, InvariantHolds, PTL

(* Whatever can still arrive at the daemon belongs to a row that says so:  *)
(* no timeout, death or closed policy is recorded as a known outcome.      *)
THEOREM LateRequestIsUncertainHolds == Spec => []LateRequestIsUncertain
<1>1. TypeOK /\ Invariant => LateRequestIsUncertain
  <2> SUFFICES ASSUME TypeOK, Invariant, NEW o \in wire PROVE Uncertain(o)
    BY DEF LateRequestIsUncertain
  <2>1. o \in Ops /\ inputs[o] = 0
    BY DEF TypeOK, Invariant, WireSound
  <2>2. CASE o \in TaskOps
    BY <2>1, <2>2 DEF Invariant, TaskSound, TypeOK, TaskRow, Uncertain
  <2>3. CASE o \in SendOps
    BY <2>1, <2>3 DEF Invariant, SendSound, Uncertain
  <2>4. CASE o \in JobOps
    BY <2>1, <2>4 DEF Invariant, JobSound, TypeOK, LEGACY_BUSY, Uncertain
  <2> QED BY <2>1, <2>2, <2>3, <2>4 DEF Ops
<1> QED BY <1>1, TypeCorrect, InvariantHolds, PTL

(* A task written off as lost never had and never gets a message.          *)
THEOREM LostIsFinalHolds == Spec => []LostIsFinal
<1>1. Invariant => LostIsFinal
  BY DEF Invariant, TaskSound, LostIsFinal
<1> QED BY <1>1, InvariantHolds, PTL

-----------------------------------------------------------------------------
(* Refinement                                                              *)

(* Committing the intent of an idle operation opens it, once no other is.  *)
LEMMA OpenStep ==
    ASSUME NEW o \in Ops, Row(o) = "none", Row(o)' \in BUSY \cup LEGACY_BUSY,
           \A p \in Ops : Row(p) \notin BUSY \cup LEGACY_BUSY,
           \A p \in Ops \ {o} : Row(p)' = Row(p), inputs' = inputs
    PROVE  [Dispatcher!Next]_Dispatcher!vars
<1>1. "none" \notin BUSY \cup LEGACY_BUSY
  BY DEF BUSY, LEGACY_BUSY
<1>2. Status(o) = "idle" /\ Status(o)' = "open"
  BY <1>1 DEF Status
<1>3. \A p \in Ops : Status(p) # "open"
  BY DEF Status
<1>4. \A p \in Ops \ {o} : Status(p)' = Status(p)
  BY DEF Status
<1>5. Dispatcher!Open(o)
  BY <1>2, <1>3, <1>4 DEF Dispatcher!Open
<1> QED BY <1>5 DEF Dispatcher!Next

(* A receipt that nothing was sent closes an idle operation.               *)
LEMMA RefuseStep ==
    ASSUME NEW o \in Ops, Row(o) = "none",
           Row(o)' \notin BUSY \cup LEGACY_BUSY \cup {"none"},
           \A p \in Ops \ {o} : Row(p)' = Row(p), inputs' = inputs
    PROVE  [Dispatcher!Next]_Dispatcher!vars
<1>2. Status(o) = "idle" /\ Status(o)' = "closed"
  BY DEF Status
<1>4. \A p \in Ops \ {o} : Status(p)' = Status(p)
  BY DEF Status
<1>5. Dispatcher!Refuse(o)
  BY <1>2, <1>4 DEF Dispatcher!Refuse
<1> QED BY <1>5 DEF Dispatcher!Next

(* Changing the row of an open or a closed operation never reopens it.     *)
LEMMA RecordStep ==
    ASSUME NEW o \in Ops, \/ Row(o)' = Row(o)
                          \/ Row(o) \in BUSY \cup LEGACY_BUSY /\ Row(o)' # "none"
                          \/ /\ Row(o) \notin BUSY \cup LEGACY_BUSY \cup {"none"}
                             /\ Row(o)' \notin BUSY \cup LEGACY_BUSY \cup {"none"},
           \A p \in Ops \ {o} : Row(p)' = Row(p), inputs' = inputs
    PROVE  [Dispatcher!Next]_Dispatcher!vars
<1>1. \A p \in Ops \ {o} : Status(p)' = Status(p)
  BY DEF Status
<1>2. CASE Status(o)' = Status(o)
  <2>1. [p \in Ops |-> Status(p)]' = [p \in Ops |-> Status(p)]
    BY <1>1, <1>2
  <2> QED BY <2>1 DEF Dispatcher!vars
<1>3. CASE Status(o)' # Status(o)
  <2>1. Status(o) = "open" /\ Status(o)' = "closed"
    BY <1>3 DEF Status, BUSY, LEGACY_BUSY
  <2>2. Dispatcher!Close(o)
    BY <1>1, <2>1 DEF Dispatcher!Close
  <2> QED BY <2>2 DEF Dispatcher!Next
<1> QED BY <1>2, <1>3

(* The daemon carries out only the request of an open operation.           *)
LEMMA EffectStep ==
    ASSUME TypeOK, Invariant, NEW o \in Ops, Carry(o), UNCHANGED registry
    PROVE  [Dispatcher!Next]_Dispatcher!vars
<1>1. inputs[o] = 0 /\ inputs' = [inputs EXCEPT ![o] = 1]
  <2>1. inputs[o] = 0
    BY DEF Carry, TypeOK, Invariant, WireSound
  <2> QED BY <2>1 DEF Carry
<1>2. Row(o) \in BUSY \cup LEGACY_BUSY
  <2>1. CASE o \in TaskOps
    BY <1>1, <2>1 DEF Carry, Invariant, TaskSound, TypeOK, TaskRow, Row, BUSY
  <2>2. CASE o \in SendOps
    BY <1>1, <2>2, DistinctNames DEF Carry, Invariant, SendSound, TypeOK,
       SendRow, Row, BUSY
  <2>3. CASE o \in JobOps
    BY <1>1, <2>3, DistinctNames DEF Carry, Invariant, JobSound, TypeOK, Row,
       LEGACY_BUSY
  <2> QED BY <2>1, <2>2, <2>3 DEF Ops
<1>3. Status(o) = "open"
  BY <1>2 DEF Status, BUSY, LEGACY_BUSY
<1>4. \A p \in Ops : Status(p)' = Status(p)
  BY DEF Status, Row, registry
<1>5. Dispatcher!Effect(o)
  <2>1. [p \in Ops |-> Status(p)]' = [p \in Ops |-> Status(p)]
    BY <1>4
  <2> QED BY <1>1, <1>3, <2>1 DEF Dispatcher!Effect
<1> QED BY <1>5 DEF Dispatcher!Next

(* A step that leaves the rows and the daemon's inputs alone is a stutter. *)
LEMMA StillStep ==
    ASSUME UNCHANGED <<registry, inputs>>
    PROVE  [Dispatcher!Next]_Dispatcher!vars
<1>1. \A p \in Ops : Status(p)' = Status(p)
  BY DEF Status, Row, registry
<1>2. [p \in Ops |-> Status(p)]' = [p \in Ops |-> Status(p)]
  BY <1>1
<1>3. inputs' = inputs
  OBVIOUS
<1> QED BY <1>2, <1>3 DEF Dispatcher!vars

(* What the gates of both adapters establish.                              *)
LEMMA NothingOpen ==
    ASSUME TypeOK, Invariant, NoOpenSend,
           \A j \in JobOps : jobs[j] \notin LEGACY_BUSY,
           \/ NoBusyTask
           \/ \E t \in TaskOps :
                /\ tasks[t].state = "created"
                /\ \A u \in TaskOps \ {t} : tasks[u].state # "none" => tasks[u].reconciled
    PROVE  \A p \in Ops : Row(p) \notin BUSY \cup LEGACY_BUSY
<1>1. \A t \in TaskOps : tasks[t].state \notin BUSY \cup LEGACY_BUSY
  BY DEF NoBusyTask, Invariant, TaskSound, BUSY, LEGACY_BUSY, TypeOK, TaskRow
<1>2. \A s \in SendOps : sends[s].state \notin BUSY \cup LEGACY_BUSY
  BY DEF NoOpenSend, TypeOK, SendRow, BUSY, LEGACY_BUSY, TERMINAL
<1>3. \A j \in JobOps : jobs[j] \notin BUSY \cup LEGACY_BUSY
  BY DEF TypeOK, BUSY, LEGACY_BUSY, TERMINAL
<1> QED BY <1>1, <1>2, <1>3 DEF Row, Ops

(* The calls that commit an intent or a refusal.                           *)
LEMMA IntentRefines ==
    ASSUME TypeOK, Invariant,
           \/ \E t \in TaskOps : CreateIntent(t)
           \/ \E s \in SendOps, t \in TaskOps : SendIntent(s, t)
           \/ \E s \in SendOps, w \in Workspace : WorkspaceIntent(s, w)
           \/ \E s \in SendOps, r \in TaskOps \cup Workspace : SendRefused(s, r)
           \/ \E j \in JobOps : LegacyIntent(j)
    PROVE  [Dispatcher!Next]_Dispatcher!vars
<1>1. ASSUME NEW t \in TaskOps, CreateIntent(t)
      PROVE  [Dispatcher!Next]_Dispatcher!vars
  <2>1. \A p \in Ops : Row(p) \notin BUSY \cup LEGACY_BUSY
    BY <1>1, NothingOpen DEF CreateIntent, Idle, LegacyIdle
  <2>2. Row(t) = "none" /\ Row(t)' = "create_intent"
    BY <1>1 DEF CreateIntent, Row, TypeOK, TaskRow
  <2>3. \A p \in Ops \ {t} : Row(p)' = Row(p)
    BY <1>1 DEF CreateIntent, Row, TypeOK, Ops
  <2>4. t \in Ops /\ inputs' = inputs /\ "create_intent" \in BUSY
    BY <1>1 DEF CreateIntent, daemon, Ops, BUSY
  <2> QED BY <2>1, <2>2, <2>3, <2>4, OpenStep
<1>2. ASSUME NEW s \in SendOps, NEW t \in TaskOps, SendIntent(s, t)
      PROVE  [Dispatcher!Next]_Dispatcher!vars
  <2>1. \A p \in Ops : Row(p) \notin BUSY \cup LEGACY_BUSY
    BY <1>2, NothingOpen DEF SendIntent, TaskAdmitted, LegacyIdle
  <2>2. Row(s) = "none" /\ Row(s)' = "send_intent"
    BY <1>2, DistinctNames DEF SendIntent, TaskAdmitted, Row, TypeOK, NoSend
  <2>3. \A p \in Ops \ {s} : Row(p)' = Row(p)
    BY <1>2 DEF SendIntent, Row, TypeOK, Ops
  <2>4. s \in Ops /\ inputs' = inputs /\ "send_intent" \in BUSY
    BY <1>2 DEF SendIntent, daemon, Ops, BUSY
  <2> QED BY <2>1, <2>2, <2>3, <2>4, OpenStep
<1>3. ASSUME NEW s \in SendOps, NEW w \in Workspace, WorkspaceIntent(s, w)
      PROVE  [Dispatcher!Next]_Dispatcher!vars
  <2>1. \A p \in Ops : Row(p) \notin BUSY \cup LEGACY_BUSY
    BY <1>3, NothingOpen DEF WorkspaceIntent, WorkspaceAdmitted, Idle,
       LegacyIdle
  <2>2. PICK x : sends' = [sends EXCEPT ![s] =
          [NoSend EXCEPT !.state = "send_intent", !.task = w, !.expected = x]]
    BY <1>3 DEF WorkspaceIntent
  <2>3. Row(s) = "none" /\ Row(s)' = "send_intent"
    BY <1>3, <2>2, DistinctNames DEF WorkspaceIntent, WorkspaceAdmitted, Row,
       TypeOK, NoSend
  <2>4. \A p \in Ops \ {s} : Row(p)' = Row(p)
    BY <1>3, <2>2 DEF WorkspaceIntent, Row, TypeOK, Ops
  <2>5. s \in Ops /\ inputs' = inputs /\ "send_intent" \in BUSY
    BY <1>3 DEF WorkspaceIntent, daemon, Ops, BUSY
  <2> QED BY <2>1, <2>3, <2>4, <2>5, OpenStep
<1>4. ASSUME NEW s \in SendOps, NEW r \in TaskOps \cup Workspace, SendRefused(s, r)
      PROVE  [Dispatcher!Next]_Dispatcher!vars
  <2>1. sends[s].state = "none"
    BY <1>4 DEF SendRefused, TaskAdmitted, WorkspaceAdmitted
  <2>2. Row(s) = "none" /\ Row(s)' = "not_dispatched"
    BY <1>4, <2>1, DistinctNames DEF SendRefused, Row, TypeOK, NoSend
  <2>3. \A p \in Ops \ {s} : Row(p)' = Row(p)
    BY <1>4 DEF SendRefused, Row, TypeOK, Ops
  <2>4. s \in Ops /\ inputs' = inputs
        /\ "not_dispatched" \notin BUSY \cup LEGACY_BUSY \cup {"none"}
    BY <1>4 DEF SendRefused, daemon, Ops, BUSY, LEGACY_BUSY
  <2> QED BY <2>2, <2>3, <2>4, RefuseStep
<1>5. ASSUME NEW j \in JobOps, LegacyIntent(j)
      PROVE  [Dispatcher!Next]_Dispatcher!vars
  <2>1. \A p \in Ops : Row(p) \notin BUSY \cup LEGACY_BUSY
    BY <1>5, NothingOpen DEF LegacyIntent, Idle
  <2>2. Row(j) = "none" /\ Row(j)' = "dispatch_intent"
    BY <1>5, DistinctNames DEF LegacyIntent, Row, TypeOK
  <2>3. \A p \in Ops \ {j} : Row(p)' = Row(p)
    BY <1>5 DEF LegacyIntent, Row, TypeOK, Ops
  <2>4. j \in Ops /\ inputs' = inputs /\ "dispatch_intent" \in LEGACY_BUSY
    BY <1>5 DEF LegacyIntent, daemon, Ops, LEGACY_BUSY
  <2> QED BY <2>1, <2>2, <2>3, <2>4, OpenStep
<1> QED BY <1>1, <1>2, <1>3, <1>4, <1>5

(* The calls that commit a receipt.                                        *)
LEMMA FinishRefines ==
    ASSUME TypeOK, Invariant, Finish
    PROVE  [Dispatcher!Next]_Dispatcher!vars
<1>1. ASSUME NEW t \in TaskOps, FinishCreate(t)
      PROVE  [Dispatcher!Next]_Dispatcher!vars
  <2>1. PICK known \in BOOLEAN, state \in {"created", "create_unknown"} :
          tasks' = [tasks EXCEPT ![t] =
                      [@ EXCEPT !.thread = known, !.state = state]]
    BY <1>1 DEF FinishCreate, Calling, Release
  <2>2. Row(t) = "create_intent"
    BY <1>1, DistinctNames DEF FinishCreate, Calling, Release, Invariant,
       BrokerSound, TaskSound,
       Ops, Row, TypeOK, TaskRow
  <2>3. Row(t)' # "none"
    BY <2>1 DEF Row, TypeOK, TaskRow
  <2>4. \A p \in Ops \ {t} : Row(p)' = Row(p)
    BY <1>1, <2>1 DEF FinishCreate, Calling, Release, Row, TypeOK, Ops
  <2>5. t \in Ops /\ inputs' = inputs /\ "create_intent" \in BUSY
    BY <1>1 DEF FinishCreate, Calling, Release, daemon, Ops, BUSY
  <2> QED BY <2>2, <2>3, <2>4, <2>5, RecordStep
<1>2. ASSUME NEW s \in SendOps, FinishSend(s)
      PROVE  [Dispatcher!Next]_Dispatcher!vars
  <2>1. PICK state \in {"accepted", "send_unknown"}, turn \in Turns \cup {None} :
          CommitReceipt(s, state, turn)
    BY <1>2 DEF FinishSend, Calling, ConfirmedTurn
  <2>2. Row(s) = "send_intent"
    BY <1>2, DistinctNames DEF FinishSend, Calling, Invariant, BrokerSound,
       Ops, Row,
       TypeOK, SendRow, TERMINAL
  <2>3. Row(s)' # "none"
    BY <2>1, DistinctNames DEF CommitReceipt, Release, Row, TypeOK, SendRow
  <2>4. \A u \in TaskOps : tasks'[u].state = tasks[u].state
    BY <2>1 DEF CommitReceipt, Release, TypeOK, TaskRow
  <2>5. \A p \in Ops \ {s} : Row(p)' = Row(p)
    BY <2>1, <2>4 DEF CommitReceipt, Release, Row, TypeOK, Ops
  <2>6. s \in Ops /\ inputs' = inputs /\ "send_intent" \in BUSY
    BY <2>1 DEF CommitReceipt, Release, daemon, Ops, BUSY
  <2> QED BY <2>2, <2>3, <2>5, <2>6, RecordStep
<1>3. ASSUME NEW j \in JobOps, FinishLegacy(j)
      PROVE  [Dispatcher!Next]_Dispatcher!vars
  <2>1. PICK state \in {"accepted", "outcome_unknown"} : jobs' = [jobs EXCEPT ![j] = state]
    BY <1>3 DEF FinishLegacy, Calling, Release
  <2>2. Row(j) = "dispatch_intent"
    BY <1>3, DistinctNames DEF FinishLegacy, Calling, Release, Invariant,
       BrokerSound, Ops, Row,
       TypeOK, LEGACY_BUSY, TERMINAL
  <2>3. Row(j)' # "none"
    BY <2>1, DistinctNames DEF Row, TypeOK
  <2>4. \A p \in Ops \ {j} : Row(p)' = Row(p)
    BY <1>3, <2>1 DEF FinishLegacy, Calling, Release, Row, TypeOK, Ops
  <2>5. j \in Ops /\ inputs' = inputs /\ "dispatch_intent" \in LEGACY_BUSY
    BY <1>3 DEF FinishLegacy, Calling, Release, daemon, Ops, LEGACY_BUSY
  <2> QED BY <2>2, <2>3, <2>4, <2>5, RecordStep
<1>4. ASSUME NEW t \in TaskOps, ObserveCreation(t) \/ ReconcileCreation(t)
      PROVE  [Dispatcher!Next]_Dispatcher!vars
  <2>1. Row(t) \in {"created", "create_unknown"}
    BY <1>4, ProbedTask DEF ObserveCreation, ReconcileCreation, Row
  <2>2. \/ Row(t)' = Row(t)
        \/ Row(t)' \in {"created", "creation_lost_before_send"}
    <3>1. CASE ObserveCreation(t)
      BY <3>1 DEF ObserveCreation, Row, TypeOK, TaskRow
    <3>2. CASE ReconcileCreation(t)
      <4>1. tasks'[t] = [tasks[t] EXCEPT !.state = "creation_lost_before_send",
                                         !.reconciled = TRUE]
        BY <3>2 DEF ReconcileCreation, TypeOK
      <4>2. tasks'[t].state = "creation_lost_before_send"
        BY <4>1 DEF TypeOK, TaskRow
      <4> QED BY <4>2 DEF Row
    <3> QED BY <1>4, <3>1, <3>2
  <2>3. \A p \in Ops \ {t} : Row(p)' = Row(p)
    BY <1>4 DEF ObserveCreation, ReconcileCreation, Row, TypeOK, Ops
  <2>4. t \in Ops /\ inputs' = inputs
    BY <1>4 DEF ObserveCreation, ReconcileCreation, daemon, Ops
  <2>5. CASE Row(t) = "create_unknown"
    BY <2>2, <2>3, <2>4, <2>5, RecordStep DEF BUSY
  <2>6. CASE Row(t) = "created"
    BY <2>2, <2>3, <2>4, <2>6, RecordStep DEF BUSY, LEGACY_BUSY
  <2> QED BY <2>1, <2>5, <2>6
<1> QED BY <1>1, <1>2, <1>3, <1>4 DEF Finish

(* The calls that look and record.                                         *)
LEMMA ObserveRefines ==
    ASSUME TypeOK, Invariant,
           \/ \E s \in SendOps : Observe(s) \/ Reconcile(s)
           \/ \E j \in JobOps : LegacyObserve(j)
           \/ \E t \in TaskOps : Probe(t)
    PROVE  [Dispatcher!Next]_Dispatcher!vars
<1>1. ASSUME NEW s \in SendOps, Observe(s)
      PROVE  [Dispatcher!Next]_Dispatcher!vars
  <2>1. PICK state \in Observed(sends[s].turn) : sends' = [sends EXCEPT ![s].state = state]
    BY <1>1 DEF Observe
  <2>2. Row(s) \in {"accepted", "inProgress", "outcome_unknown"}
    BY <1>1, DistinctNames DEF Observe, Row
  <2>3. Row(s)' # "none"
    BY <2>1, DistinctNames DEF Observed, Row, TypeOK, SendRow
  <2>4. \A p \in Ops \ {s} : Row(p)' = Row(p)
    BY <1>1, <2>1 DEF Observe, Row, TypeOK, Ops
  <2>5. s \in Ops /\ inputs' = inputs /\ Row(s) \in BUSY
    BY <1>1, <2>2 DEF Observe, daemon, Ops, BUSY
  <2> QED BY <2>3, <2>4, <2>5, RecordStep
<1>2. ASSUME NEW s \in SendOps, Reconcile(s)
      PROVE  [Dispatcher!Next]_Dispatcher!vars
  <2>1. \A u \in TaskOps : tasks'[u].state = tasks[u].state
    BY <1>2 DEF Reconcile, TypeOK, TaskRow
  <2>2. \A u \in SendOps : sends'[u].state = sends[u].state
    BY <1>2 DEF Reconcile, TypeOK, SendRow
  <2>3. \A p \in Ops : Row(p)' = Row(p)
    BY <1>2, <2>1, <2>2 DEF Reconcile, Row, Ops
  <2>4. s \in Ops /\ inputs' = inputs
    BY <1>2 DEF Reconcile, daemon, Ops
  <2> QED BY <2>3, <2>4, RecordStep
<1>3. ASSUME NEW j \in JobOps, LegacyObserve(j)
      PROVE  [Dispatcher!Next]_Dispatcher!vars
  <2>1. PICK state \in Observed(j) : jobs' = [jobs EXCEPT ![j] = state]
    BY <1>3 DEF LegacyObserve
  <2>2. Row(j) \in LEGACY_BUSY
    BY <1>3, DistinctNames DEF LegacyObserve, Row, LEGACY_BUSY
  <2>3. Row(j)' # "none"
    BY <2>1, DistinctNames DEF Observed, Row, TypeOK
  <2>4. \A p \in Ops \ {j} : Row(p)' = Row(p)
    BY <1>3, <2>1 DEF LegacyObserve, Row, TypeOK, Ops
  <2>5. j \in Ops /\ inputs' = inputs
    BY <1>3 DEF LegacyObserve, daemon, Ops
  <2> QED BY <2>2, <2>3, <2>4, <2>5, RecordStep
<1>4. ASSUME NEW t \in TaskOps, Probe(t)
      PROVE  [Dispatcher!Next]_Dispatcher!vars
  <2>1. UNCHANGED <<registry, inputs>>
    BY <1>4 DEF Probe, daemon
  <2> QED BY <2>1, StillStep
<1> QED BY <1>1, <1>2, <1>3, <1>4

(* The daemon.                                                             *)
LEMMA DaemonRefines ==
    ASSUME TypeOK, Invariant, Daemon
    PROVE  [Dispatcher!Next]_Dispatcher!vars
<1>1. ASSUME NEW o \in Ops, Carry(o), UNCHANGED registry
      PROVE  [Dispatcher!Next]_Dispatcher!vars
  BY <1>1, EffectStep
<1>2. CASE \/ \E t \in TaskOps : StartThread(t)
           \/ \E o \in SendOps \cup JobOps : StartTurn(o)
           \/ \E s \in SendOps : SteerTurn(s)
  BY <1>1, <1>2 DEF StartThread, StartTurn, SteerTurn, Ops
<1>3. CASE \/ \E t \in TaskOps : ThreadFlip(t)
           \/ \E o \in Ops : Drop(o)
           \/ \E x \in Turns : EndTurn(x)
           \/ \E x \in NativeTurns : NativeStart(x)
  <2>1. UNCHANGED <<registry, inputs>>
    BY <1>3 DEF ThreadFlip, Drop, EndTurn, NativeStart, daemon
  <2> QED BY <2>1, StillStep
<1> QED BY <1>2, <1>3 DEF Daemon

(* Every step of the coordinator is a step of the dispatcher or a stutter. *)
LEMMA NextRefines ==
    ASSUME TypeOK, Invariant, [Next]_vars PROVE [Dispatcher!Next]_Dispatcher!vars
<1>1. CASE Tool
  <2>1. CASE Revoke
    BY <2>1, StillStep DEF Revoke, daemon
  <2> QED BY <1>1, <2>1, IntentRefines, ObserveRefines DEF Tool
<1>2. CASE \/ \E o \in Ops : Dispatch(o) \/ ChildSends(o)
           \/ Crash \/ PolicyChange \/ UNCHANGED vars
  <2>1. UNCHANGED <<registry, inputs>>
    BY <1>2 DEF Dispatch, ChildSends, Crash, PolicyChange, vars, daemon,
       registry
  <2> QED BY <2>1, StillStep
<1>3. CASE Finish
  BY <1>3, FinishRefines
<1>4. CASE Daemon
  BY <1>4, DaemonRefines
<1> QED BY <1>1, <1>2, <1>3, <1>4 DEF Next

(* The coordinator, with its crashes, timeouts and late deliveries, is a   *)
(* serial at-most-once dispatcher.                                         *)
THEOREM RefinementHolds == Spec => ImplementsSerialDispatch
<1>1. Init => Dispatcher!Init
  BY DEF Init, Dispatcher!Init, Status, Row, NoTask, NoSend, Ops
<1>2. TypeOK /\ Invariant /\ [Next]_vars => [Dispatcher!Next]_Dispatcher!vars
  BY NextRefines
<1> QED BY <1>1, <1>2, TypeCorrect, InvariantHolds, PTL
        DEF Spec, ImplementsSerialDispatch, Dispatcher!Spec

-----------------------------------------------------------------------------
(* Action properties                                                       *)

(* Only _rpc() starts a child.                                             *)
LEMMA WireGrows ==
    ASSUME [Next]_vars, NEW o \in wire', o \notin wire
    PROVE  Dispatch(o)
<1>1. CASE \E p \in Ops : Dispatch(p) \/ ChildSends(p)
  BY <1>1 DEF Dispatch, ChildSends
<1>2. CASE Daemon
  BY <1>2 DEF Daemon, StartThread, StartTurn, SteerTurn, Carry, Drop, EndTurn,
     NativeStart, ThreadFlip
<1>3. CASE Tool
  BY <1>3 DEF Tool, CreateIntent, Probe, registry,
     SendIntent, WorkspaceIntent, SendRefused, Observe, Reconcile,
     LegacyIntent, LegacyObserve, Revoke
<1>4. CASE Finish \/ Crash \/ PolicyChange \/ UNCHANGED vars
  BY <1>4 DEF Finish, FinishCreate, FinishSend, CommitReceipt, FinishLegacy,
     Release,
     ObserveCreation, ReconcileCreation, Crash, PolicyChange, vars
<1> QED BY <1>1, <1>2, <1>3, <1>4 DEF Next

(* A call that has committed its intent has seen no revocation.            *)
IntentNotRevoked == broker.step = "intent" => ~revoked

(* revoke() needs the lock, so no call is between its gates and its        *)
(* request while the revocation file exists.                               *)
LEMMA IntentNotRevokedHolds == Spec => []IntentNotRevoked
<1>1. Init => IntentNotRevoked
  BY DEF Init, Free, IntentNotRevoked
<1>2. IntentNotRevoked /\ TypeOK /\ [Next]_vars => IntentNotRevoked'
  <2> SUFFICES ASSUME IntentNotRevoked, TypeOK, [Next]_vars,
                      broker'.step = "intent"
               PROVE  ~revoked'
    BY DEF IntentNotRevoked
  <2>1. CASE Tool
    BY <2>1 DEF Tool, CreateIntent, Probe, registry,
       SendIntent, WorkspaceIntent, SendRefused, Observe, Reconcile,
       LegacyIntent, LegacyObserve, Revoke, Unlocked, Admission, TaskAdmitted,
       WorkspaceAdmitted, admissionVars
  <2>2. CASE Daemon
    <3>1. broker'.step = broker.step /\ revoked' = revoked
      BY <2>2 DEF Daemon, StartThread, StartTurn, SteerTurn, Drop, Reply,
         EndTurn, NativeStart,
         ThreadFlip, admissionVars, TypeOK, Holder
    <3> QED BY <3>1 DEF IntentNotRevoked
  <2>3. CASE Finish \/ Crash \/ \E o \in Ops : Dispatch(o) \/ ChildSends(o)
    <3>1. CASE Finish \/ Crash
      <4>1. broker' = Free
        BY <3>1 DEF Finish, FinishCreate, FinishSend, CommitReceipt,
           FinishLegacy,
           Release, ObserveCreation, ReconcileCreation, Crash
      <4> QED BY <4>1 DEF Free
    <3>2. CASE \E o \in Ops : Dispatch(o)
      <4>1. broker' = [broker EXCEPT !.step = "await"]
        BY <3>2 DEF Dispatch
      <4>2. broker'.step = "await"
        BY <4>1 DEF TypeOK, Holder
      <4> QED BY <4>2
    <3>3. CASE \E o \in Ops : ChildSends(o)
      BY <3>3 DEF ChildSends, IntentNotRevoked, admissionVars
    <3> QED BY <2>3, <3>1, <3>2, <3>3
  <2>4. CASE PolicyChange \/ UNCHANGED vars
    BY <2>4 DEF IntentNotRevoked, PolicyChange, vars
  <2> QED BY <2>1, <2>2, <2>3, <2>4 DEF Next
<1> QED BY <1>1, <1>2, TypeCorrect, PTL DEF Spec

(* Once revoke() has returned, no adapter starts a child, although the     *)
(* older one does not look at the revocation file again.                   *)
THEOREM NoRequestAfterRevocationHolds == Spec => NoRequestAfterRevocation
<1>1. IntentNotRevoked /\ [Next]_vars => [revoked => wire' \subseteq wire]_vars
  BY WireGrows DEF Dispatch, IntentNotRevoked
<1> QED BY <1>1, IntentNotRevokedHolds, PTL DEF Spec, NoRequestAfterRevocation

(* No step of another call resolves an uncertain creation.                 *)
LEMMA UncertainTask ==
    ASSUME TypeOK, Invariant, [Next]_vars, NEW t \in TaskOps, Uncertain(t), broker.op # t
    PROVE  Uncertain(t)'
<1>1. tasks[t].state \in {"create_intent", "create_unknown"} /\ ~tasks[t].thread
  BY DistinctNames DEF Uncertain
<1> SUFFICES tasks'[t].state = tasks[t].state /\ tasks'[t].thread = tasks[t].thread
  BY <1>1 DEF Uncertain
<1>2. ASSUME NEW u \in TaskOps, CreateIntent(u) PROVE tasks'[t] = tasks[t]
  BY <1>1, <1>2 DEF CreateIntent, TypeOK, TaskRow
<1>3. ASSUME NEW u \in TaskOps, ObserveCreation(u) \/ ReconcileCreation(u)
      PROVE  tasks'[t] = tasks[t]
  <2>1. tasks[u].thread
    BY <1>3, ProbedTask DEF ObserveCreation, ReconcileCreation
  <2> QED BY <1>1, <1>3, <2>1 DEF ObserveCreation, ReconcileCreation, TypeOK
<1>4. ASSUME NEW u \in TaskOps, FinishCreate(u) PROVE tasks'[t] = tasks[t]
  <2>1. u # t
    BY <1>4 DEF FinishCreate, Calling, Release
  <2> QED BY <1>4, <2>1 DEF FinishCreate, Calling, Release, TypeOK
<1>5. ASSUME NEW s \in SendOps, FinishSend(s)
      PROVE  tasks'[t].state = tasks[t].state /\ tasks'[t].thread = tasks[t].thread
  BY <1>5 DEF FinishSend, Calling, CommitReceipt, Release, TypeOK, TaskRow
<1>6. ASSUME NEW s \in SendOps, Reconcile(s)
      PROVE  tasks'[t].state = tasks[t].state /\ tasks'[t].thread = tasks[t].thread
  BY <1>6 DEF Reconcile, TypeOK, TaskRow
<1>7. CASE tasks' = tasks
  BY <1>7
<1>8. CASE Tool
  BY <1>2, <1>6, <1>7, <1>8 DEF Tool, Probe, SendIntent, WorkspaceIntent,
     SendRefused,
     Observe, LegacyIntent, LegacyObserve, Revoke, registry
<1>9. CASE Finish
  BY <1>3, <1>4, <1>5, <1>7, <1>9 DEF Finish, FinishLegacy
<1>10. CASE \/ \E o \in Ops : Dispatch(o) \/ ChildSends(o)
            \/ Crash \/ Daemon \/ PolicyChange \/ UNCHANGED vars
  <2>1. tasks' = tasks
    BY <1>10 DEF Dispatch, ChildSends, Crash, Daemon, StartThread, StartTurn,
       SteerTurn, Drop,
       EndTurn, NativeStart, ThreadFlip, PolicyChange, vars, registry
  <2> QED BY <1>7, <2>1
<1> QED BY <1>8, <1>9, <1>10 DEF Next

(* No step of another call resolves or releases an uncertain send.         *)
LEMMA UncertainSend ==
    ASSUME TypeOK, Invariant, [Next]_vars, NEW s \in SendOps, Uncertain(s), broker.op # s
    PROVE  Uncertain(s)' /\ ~sends'[s].reconciled
<1>1. sends[s].state \in {"send_intent", "send_unknown"} /\ ~sends[s].reconciled
  BY DistinctNames DEF Uncertain, Invariant, SendSound, BUSY
<1> SUFFICES sends'[s] = sends[s]
  BY <1>1 DEF Uncertain
<1>2. ASSUME NEW r \in SendOps, NEW t \in TaskOps, SendIntent(r, t)
      PROVE  sends'[s] = sends[s]
  BY <1>1, <1>2 DEF SendIntent, TaskAdmitted, TypeOK
<1>3. ASSUME NEW r \in SendOps, NEW w \in Workspace, WorkspaceIntent(r, w)
      PROVE  sends'[s] = sends[s]
  BY <1>1, <1>3 DEF WorkspaceIntent, WorkspaceAdmitted, TypeOK
<1>4. ASSUME NEW r \in SendOps, NEW x \in TaskOps \cup Workspace, SendRefused(r, x)
      PROVE  sends'[s] = sends[s]
  BY <1>1, <1>4 DEF SendRefused, TaskAdmitted, WorkspaceAdmitted, TypeOK
<1>5. ASSUME NEW r \in SendOps, Observe(r) PROVE sends'[s] = sends[s]
  BY <1>1, <1>5 DEF Observe, TypeOK
<1>6. ASSUME NEW r \in SendOps, Reconcile(r) PROVE sends'[s] = sends[s]
  BY <1>1, <1>6 DEF Reconcile, Acknowledgeable, TERMINAL, TypeOK
<1>7. ASSUME NEW r \in SendOps, FinishSend(r) PROVE sends'[s] = sends[s]
  <2>1. r # s
    BY <1>7 DEF FinishSend, Calling
  <2> QED BY <1>7, <2>1 DEF FinishSend, Calling, CommitReceipt, Release, TypeOK
<1>8. CASE sends' = sends
  BY <1>8
<1>9. CASE Tool
  BY <1>2, <1>3, <1>4, <1>5, <1>6, <1>8, <1>9 DEF Tool, CreateIntent,
     Probe, LegacyIntent, LegacyObserve, Revoke, registry
<1>10. CASE Finish
  BY <1>7, <1>8, <1>10 DEF Finish, FinishCreate, FinishLegacy,
     ObserveCreation, ReconcileCreation
<1>11. CASE \/ \E o \in Ops : Dispatch(o) \/ ChildSends(o)
            \/ Crash \/ Daemon \/ PolicyChange \/ UNCHANGED vars
  <2>1. sends' = sends
    BY <1>11 DEF Dispatch, ChildSends, Crash, Daemon, StartThread, StartTurn,
       SteerTurn, Drop,
       EndTurn, NativeStart, ThreadFlip, PolicyChange, vars, registry
  <2> QED BY <1>8, <2>1
<1> QED BY <1>9, <1>10, <1>11 DEF Next

(* No step of another call resolves an uncertain job.                      *)
LEMMA UncertainJob ==
    ASSUME TypeOK, [Next]_vars, NEW j \in JobOps, Uncertain(j), broker.op # j
    PROVE  Uncertain(j)'
<1>1. jobs[j] \in {"dispatch_intent", "outcome_unknown"}
  BY DistinctNames DEF Uncertain
<1> SUFFICES jobs'[j] = jobs[j]
  BY <1>1 DEF Uncertain
<1>2. ASSUME NEW k \in JobOps, LegacyIntent(k) \/ LegacyObserve(k) \/ FinishLegacy(k)
      PROVE  jobs'[j] = jobs[j]
  <2>1. j # k
    BY <1>1, <1>2 DEF LegacyIntent, LegacyObserve, FinishLegacy, Calling,
       Release
  <2> QED BY <1>2, <2>1 DEF LegacyIntent, LegacyObserve, FinishLegacy,
     Calling, Release, TypeOK
<1>3. CASE jobs' = jobs
  BY <1>3
<1>4. CASE Tool
  BY <1>2, <1>3, <1>4 DEF Tool, CreateIntent, Probe, SendIntent,
     WorkspaceIntent, SendRefused, Observe, Reconcile, Revoke, registry
<1>5. CASE Finish
  BY <1>2, <1>3, <1>5 DEF Finish, FinishCreate, FinishSend, CommitReceipt,
     ObserveCreation, ReconcileCreation
<1>6. CASE \/ \E o \in Ops : Dispatch(o) \/ ChildSends(o)
           \/ Crash \/ Daemon \/ PolicyChange \/ UNCHANGED vars
  <2>1. jobs' = jobs
    BY <1>6 DEF Dispatch, ChildSends, Crash, Daemon, StartThread, StartTurn,
       SteerTurn, Drop,
       EndTurn, NativeStart, ThreadFlip, PolicyChange, vars, registry
  <2> QED BY <1>3, <2>1
<1> QED BY <1>4, <1>5, <1>6 DEF Next

(* An operation whose fate is unknown stays so: nothing re-sends,          *)
(* reclassifies or releases it, as the task documentation says.            *)
THEOREM UncertainStaysUncertainHolds == Spec => UncertainStaysUncertain
<1>1. TypeOK /\ Invariant /\ [Next]_vars =>
        [\A o \in Ops : Uncertain(o) /\ broker.op # o =>
           Uncertain(o)' /\ (o \in SendOps => ~sends'[o].reconciled)]_vars
  BY UncertainTask, UncertainSend, UncertainJob, DistinctNames DEF Ops
<1> QED BY <1>1, TypeCorrect, InvariantHolds, PTL DEF Spec,
   UncertainStaysUncertain
=============================================================================
