----------------------------- MODULE TaskStore ------------------------------
(***************************************************************************)
(* The durable task coordinator of the Raspberry control plane             *)
(* (scripts/raspberry-mcp/runtime-source/task-control and                  *)
(* legacy-control): two SQLite registries, one flock, and a Codex daemon   *)
(* reached through a short-lived child process.                            *)
(*                                                                         *)
(* A tool call holds the lock from its first read to its last write, so    *)
(* everything between two points where the coordinator can die or the      *)
(* world outside the lock can act on what was read is one step.  A         *)
(* dispatching call commits its intent, looks at the policy once more and  *)
(* starts a child, and commits a receipt; the child, which connects and    *)
(* checks the daemon first, hands the request over in a step of its own.   *)
(* A call about a missing thread probes it and commits what it was told.   *)
(* The child outlives a killed broker, and what it handed over its own     *)
(* end, so a request stays on the wire until the daemon takes it or it is  *)
(* lost.                                                                   *)
(***************************************************************************)
EXTENDS Naturals, FiniteSets

CONSTANTS
    TaskOps,        \* operation ids of codex_task_create, each names its task
    SendOps,        \* operation ids of codex_task_send
    JobOps,         \* operation ids of the older codex_thread_send
    Workspace,      \* existing project threads that may receive a message
    NativeTurns,    \* turns other daemon clients may start on those threads
    Receiver,       \* [NativeTurns -> Workspace]: the thread of each of them
    EndStates,      \* how a turn may end, as far as the instance tells apart
    None            \* SQL NULL

Ops == TaskOps \cup SendOps \cup JobOps
Turns == SendOps \cup JobOps \cup NativeTurns  \* a started turn bears its op

TERMINAL == {"completed", "failed", "interrupted"}
(* Faulty variants, named Bad..., stand before what they replace; the runs  *)
(* must refute each of them.                                               *)
BadBusy == {"create_intent", "send_intent", "send_unknown", "accepted",
            "inProgress", "outcome_unknown"}  \* create_unknown forgotten
BUSY == {"create_intent", "create_unknown", "send_intent", "send_unknown",
         "accepted", "inProgress", "outcome_unknown"}
LEGACY_BUSY == {"dispatch_intent", "outcome_unknown", "accepted", "inProgress"}

ASSUME DistinctNames ==
    /\ TaskOps \cap SendOps = {} /\ TaskOps \cap JobOps = {}
    /\ SendOps \cap JobOps = {}
    /\ NativeTurns \cap (TaskOps \cup SendOps \cup JobOps) = {}
    /\ Workspace \cap TaskOps = {}
    /\ {None, "refused"} \cap (Ops \cup NativeTurns \cup Workspace) = {}
    /\ None # "refused"
ASSUME ReceiverAssumption == Receiver \in [NativeTurns -> Workspace]
ASSUME EndStatesAssumption == EndStates \subseteq TERMINAL

VARIABLES
    tasks,          \* table tasks: state, thread identity known?, reconciled
    creation_results, \* table creation_results: last probe of a thread
    sends,          \* table sends: state, receiver, expected turn, turn, reconciled
    jobs,           \* table jobs of the older registry: state
    revoked,        \* the revocation file exists
    enabled,        \* root policy is enabled and its lease has not run out
    broker,         \* the lock holder: step, operation, reply it has received
    wire,           \* operations whose child runs or whose request may arrive
    sent,           \* those of them whose child has handed the request over
    inputs,         \* daemon: how often it carried out an operation's request
    threads,        \* daemon: the thread of each task
    turns           \* daemon: state of each turn

registry == <<tasks, creation_results, sends, jobs>>
daemon == <<inputs, threads, turns>>
admissionVars == <<revoked, enabled>>
vars == <<tasks, creation_results, sends, jobs, revoked, enabled, broker, wire,
          sent, inputs, threads, turns>>

NoTask == [state |-> "none", thread |-> FALSE, reconciled |-> FALSE]
NoSend == [state |-> "none", task |-> None, expected |-> None, turn |-> None,
           reconciled |-> FALSE]
Free == [step |-> "idle", op |-> None, reply |-> None]

PROBES == {"durable_ready", "present_not_ready", "missing_before_first_send",
           "unconfirmed"}

TaskRow ==
    [state : {"none", "create_intent", "create_unknown", "created",
              "creation_lost_before_send"},
     thread : BOOLEAN, reconciled : BOOLEAN]

SendRow ==
    [state : {"none", "not_dispatched", "send_intent", "send_unknown",
              "accepted", "inProgress", "outcome_unknown"} \cup TERMINAL,
     task : TaskOps \cup Workspace \cup {None},
     expected : Turns \cup {None}, turn : Turns \cup {None},
     reconciled : BOOLEAN]

Holder ==
    [step : {"idle", "intent", "await"}, op : Ops \cup {None},
     reply : Ops \cup Turns \cup {None, "refused"}] \cup
    [step : {"probed"}, op : TaskOps, reply : PROBES]

TypeOK ==
    /\ tasks \in [TaskOps -> TaskRow]
    /\ creation_results \in [TaskOps -> PROBES \cup {"none"}]
    /\ sends \in [SendOps -> SendRow]
    /\ jobs \in [JobOps -> LEGACY_BUSY \cup TERMINAL \cup {"none"}]
    /\ revoked \in BOOLEAN /\ enabled \in BOOLEAN
    /\ broker \in Holder
    /\ wire \subseteq Ops /\ sent \subseteq wire
    /\ inputs \in [Ops -> Nat]
    /\ threads \in [TaskOps -> {"absent", "live", "missing"}]
    /\ turns \in [Turns -> {"none", "inProgress"} \cup TERMINAL]

Init ==
    /\ tasks = [t \in TaskOps |-> NoTask]
    /\ creation_results = [t \in TaskOps |-> "none"]
    /\ sends = [s \in SendOps |-> NoSend]
    /\ jobs = [j \in JobOps |-> "none"]
    /\ revoked = FALSE /\ enabled \in BOOLEAN
    /\ broker = Free
    /\ wire = {} /\ sent = {}
    /\ inputs = [o \in Ops |-> 0]
    /\ threads = [t \in TaskOps |-> "absent"]
    /\ turns = [x \in Turns |-> "none"]

-----------------------------------------------------------------------------
(* Gates: what a call reads before it commits an intent.                   *)

Unlocked == broker.step = "idle"

NoBusyTask == \A t \in TaskOps : tasks[t].state \notin BUSY
NoOpenSend == \A s \in SendOps :
    /\ sends[s].state \notin BUSY
    /\ sends[s].state # "none" => sends[s].reconciled

BadIdle == NoBusyTask /\ NoOpenSend  \* a created task is not a reservation

Idle ==
    /\ NoBusyTask
    /\ NoOpenSend
    /\ \A t \in TaskOps : tasks[t].state = "created" => tasks[t].reconciled

BadLegacyIdle == TRUE

(* The threads of the older adapter must also be idle in the daemon.       *)
LegacyIdle == \A j \in JobOps :
    jobs[j] \notin LEGACY_BUSY /\ turns[j] # "inProgress"

BadAdmission == enabled              \* the revocation file is not looked at

Admission == enabled /\ ~revoked

BadTaskAdmittedAgain(s, t) ==        \* no lookup of the operation id
    /\ tasks[t].state = "created" /\ tasks[t].thread
    /\ \A u \in TaskOps \ {t} : tasks[u].state # "none" => tasks[u].reconciled
    /\ NoOpenSend
    /\ LegacyIdle
    /\ Admission

BadTaskAdmittedLost(s, t) ==         \* a known thread is enough
    /\ sends[s].state = "none"
    /\ tasks[t].thread
    /\ \A u \in TaskOps \ {t} : tasks[u].state # "none" => tasks[u].reconciled
    /\ NoOpenSend
    /\ LegacyIdle
    /\ Admission

(* send exempts only the reservation of the task it addresses.             *)
TaskAdmitted(s, t) ==
    /\ sends[s].state = "none"
    /\ tasks[t].state = "created" /\ tasks[t].thread
    /\ \A u \in TaskOps \ {t} : tasks[u].state # "none" => tasks[u].reconciled
    /\ NoOpenSend
    /\ LegacyIdle
    /\ Admission

WorkspaceAdmitted(s, w) ==
    /\ sends[s].state = "none"
    /\ Idle
    /\ LegacyIdle
    /\ Admission

ActiveTurns(w) ==
    {x \in NativeTurns : Receiver[x] = w /\ turns[x] = "inProgress"} \cup
    {s \in SendOps : sends[s].task = w /\ turns[s] = "inProgress"}

(* The turn a workspace message starts or joins.                           *)
TargetTurn(s) == IF sends[s].expected = None THEN s ELSE sends[s].expected

-----------------------------------------------------------------------------
(* Dispatching calls.  Each intent step includes the gates and the         *)
(* preflight that precede it.                                              *)

Begin(o) == broker' = [step |-> "intent", op |-> o, reply |-> None]

CreateIntent(t) ==
    /\ Unlocked
    /\ tasks[t].state = "none"
    /\ Idle /\ LegacyIdle /\ Admission
    /\ tasks' = [tasks EXCEPT ![t].state = "create_intent"]
    /\ Begin(t)
    /\ UNCHANGED <<creation_results, sends, jobs, admissionVars, wire, sent,
                   daemon>>

SendIntent(s, t) ==
    /\ Unlocked
    /\ TaskAdmitted(s, t)
    /\ sends' = [sends EXCEPT ![s] =
                   [NoSend EXCEPT !.state = "send_intent", !.task = t]]
    /\ Begin(s)
    /\ UNCHANGED <<tasks, creation_results, jobs, admissionVars, wire, sent,
                   daemon>>

WorkspaceIntent(s, w) ==
    /\ Unlocked
    /\ WorkspaceAdmitted(s, w)
    /\ Cardinality(ActiveTurns(w)) <= 1
    /\ \E x \in IF ActiveTurns(w) = {} THEN {None} ELSE ActiveTurns(w) :
         sends' = [sends EXCEPT ![s] =
           [NoSend EXCEPT !.state = "send_intent", !.task = w, !.expected = x]]
    /\ Begin(s)
    /\ UNCHANGED <<tasks, creation_results, jobs, admissionVars, wire, sent,
                   daemon>>

(* A preflight that fails leaves a receipt that nothing was sent.          *)
SendRefused(s, r) ==
    /\ Unlocked
    /\ \/ r \in TaskOps /\ TaskAdmitted(s, r)
       \/ r \in Workspace /\ WorkspaceAdmitted(s, r)
    /\ sends' = [sends EXCEPT ![s] =
                   [NoSend EXCEPT !.state = "not_dispatched", !.task = r]]
    /\ UNCHANGED <<tasks, creation_results, jobs, admissionVars, broker, wire,
                   sent, daemon>>

LegacyIntent(j) ==
    /\ Unlocked
    /\ jobs[j] = "none"
    /\ Idle /\ Admission
    /\ \A k \in JobOps : jobs[k] \notin LEGACY_BUSY
    /\ jobs' = [jobs EXCEPT ![j] = "dispatch_intent"]
    /\ Begin(j)
    /\ UNCHANGED <<tasks, creation_results, sends, admissionVars, wire, sent,
                   daemon>>

(* rpc() looks at the policy and the revocation file once more before it   *)
(* starts the child; the older adapter does not.  Nobody looks again when  *)
(* the child, connected and past its own checks, sends.                    *)
RpcOpen(o) == o \in JobOps \/ (enabled /\ ~revoked)

Dispatch(o) ==
    /\ broker.step = "intent" /\ broker.op = o
    /\ RpcOpen(o)
    /\ wire' = wire \cup {o}
    /\ broker' = [broker EXCEPT !.step = "await"]
    /\ UNCHANGED <<registry, admissionVars, sent, daemon>>

ChildSends(o) ==
    /\ o \in wire \ sent
    /\ sent' = sent \cup {o}
    /\ UNCHANGED <<registry, admissionVars, broker, wire, daemon>>

Calling(o) == broker.op = o /\ broker.step \in {"intent", "await"}

(* A call that gives up kills its child, which then no longer sends; what  *)
(* was handed over stays in the socket.                                    *)
Release(o) ==
    /\ broker' = Free
    /\ wire' = wire \ ({o} \ sent)
    /\ UNCHANGED sent

(* The call ends with a verified reply, with one that fails verification,  *)
(* or with none: refused by rpc(), child killed at its timeout, bad output.*)
FinishCreate(t) ==
    /\ Calling(t)
    /\ \/ /\ broker.reply = t
          /\ \E state \in {"created", "create_unknown"} :
               tasks' = [tasks EXCEPT ![t] =
                           [@ EXCEPT !.thread = TRUE, !.state = state]]
       \/ tasks' = [tasks EXCEPT ![t] =
                       [@ EXCEPT !.thread = FALSE, !.state = "create_unknown"]]
    /\ Release(t)
    /\ UNCHANGED <<creation_results, sends, jobs, admissionVars, daemon>>

(* The three writes of finish(); every branch below ends with them.        *)
CommitReceipt(s, state, turn) ==
    /\ sends' = [sends EXCEPT ![s] = [@ EXCEPT !.state = state, !.turn = turn]]
    /\ tasks' = [t \in TaskOps |->
                   IF t = sends[s].task
                   THEN [tasks[t] EXCEPT !.reconciled = TRUE] ELSE tasks[t]]
    /\ Release(s)
    /\ UNCHANGED <<creation_results, jobs, admissionVars, daemon>>

ConfirmedTurn(s) ==
    /\ broker.reply \in Turns
    /\ sends[s].expected # None => broker.reply = sends[s].expected

BadFinishSendRefused(s) ==           \* any failure is taken for a refusal
    /\ Calling(s)
    /\ \/ ConfirmedTurn(s) /\ CommitReceipt(s, "accepted", broker.reply)
       \/ CommitReceipt(s, "not_dispatched", None)

BadFinishSendSteer(s) ==             \* an uncertain steer is taken for delivered
    /\ Calling(s)
    /\ \/ ConfirmedTurn(s) /\ CommitReceipt(s, "accepted", broker.reply)
       \/ CommitReceipt(s, "send_unknown", sends[s].expected)

BadFinishSendWaits(s) ==             \* no timeout of the child
    /\ Calling(s)
    /\ ConfirmedTurn(s)
    /\ CommitReceipt(s, "accepted", broker.reply)

FinishSend(s) ==
    /\ Calling(s)
    /\ \/ ConfirmedTurn(s) /\ CommitReceipt(s, "accepted", broker.reply)
       \/ CommitReceipt(s, "send_unknown", None)

BadFinishLegacy(j) ==                \* a call without a reply is called failed
    /\ Calling(j)
    /\ \/ broker.reply = j /\ jobs' = [jobs EXCEPT ![j] = "accepted"]
       \/ jobs' = [jobs EXCEPT ![j] = "failed"]
    /\ Release(j)
    /\ UNCHANGED <<tasks, creation_results, sends, admissionVars, daemon>>

FinishLegacy(j) ==
    /\ Calling(j)
    /\ \/ broker.reply = j /\ jobs' = [jobs EXCEPT ![j] = "accepted"]
       \/ jobs' = [jobs EXCEPT ![j] = "outcome_unknown"]
    /\ Release(j)
    /\ UNCHANGED <<tasks, creation_results, sends, admissionVars, daemon>>

(* The kernel drops the lock with the process, and its child goes on.      *)
(* Nothing is replayed.                                                    *)
Crash ==
    /\ ~Unlocked
    /\ broker' = Free
    /\ UNCHANGED <<registry, admissionVars, wire, sent, daemon>>

-----------------------------------------------------------------------------
(* Calls that only look and record.                                        *)

BadObserved(x) == {turns[x], "systemError"}  \* the status is not validated

(* The daemon lists the newest 32 turns; one it does not list is           *)
(* outcome_unknown, which stays observable.  A turn only moves forward, so *)
(* writing the answer down later gives the same rows as asking earlier.    *)
Observed(x) == {"outcome_unknown"} \cup ({turns[x]} \ {"none"})

Observe(s) ==
    /\ Unlocked
    /\ sends[s].state \in {"accepted", "inProgress", "outcome_unknown"}
    /\ sends[s].turn # None
    /\ \E state \in Observed(sends[s].turn) :
         sends' = [sends EXCEPT ![s].state = state]
    /\ UNCHANGED <<tasks, creation_results, jobs, admissionVars, broker, wire,
                   sent, daemon>>

(* The older adapter never looks at an outcome_unknown job again.          *)
LegacyObserve(j) ==
    /\ Unlocked /\ enabled
    /\ jobs[j] \in {"accepted", "inProgress"}
    /\ \E state \in Observed(j) : jobs' = [jobs EXCEPT ![j] = state]
    /\ UNCHANGED <<tasks, creation_results, sends, admissionVars, broker, wire,
                   sent, daemon>>

NoSendTo(t) == \A s \in SendOps : sends[s].task # t

(* What a probe may answer about a thread.                                 *)
Answers(t) == {"unconfirmed"} \cup
    (CASE threads[t] = "live"    -> {"durable_ready", "present_not_ready"}
       [] threads[t] = "missing" -> {"missing_before_first_send"}
       [] OTHER                  -> {})

(* A child asks the daemon about the thread; the lock stays with the call, *)
(* but the daemon and its threads go on before the answer is written down. *)
Probe(t) ==
    /\ Unlocked
    /\ tasks[t].state \in {"created", "create_unknown"}
    /\ tasks[t].thread
    /\ NoSendTo(t)
    /\ enabled /\ ~revoked
    /\ \E answer \in Answers(t) :
         broker' = [step |-> "probed", op |-> t, reply |-> answer]
    /\ UNCHANGED <<registry, admissionVars, wire, sent, daemon>>

Probed(t) == broker.op = t /\ broker.step = "probed"

ObserveCreation(t) ==
    /\ Probed(t)
    /\ creation_results' = [creation_results EXCEPT ![t] = broker.reply]
    /\ tasks' = IF broker.reply = "durable_ready"
                THEN [tasks EXCEPT ![t].state = "created"] ELSE tasks
    /\ broker' = Free
    /\ UNCHANGED <<sends, jobs, admissionVars, wire, sent, daemon>>

(* Absence has to be recorded by one call and found again by this one.  An *)
(* answer that differs ends the call as Crash does, with nothing written.  *)
ReconcileCreation(t) ==
    /\ Probed(t)
    /\ creation_results[t] = "missing_before_first_send"
    /\ broker.reply = creation_results[t]
    /\ tasks' = [tasks EXCEPT ![t] =
         [@ EXCEPT !.state = "creation_lost_before_send", !.reconciled = TRUE]]
    /\ broker' = Free
    /\ UNCHANGED <<creation_results, sends, jobs, admissionVars, wire, sent,
                   daemon>>

BadAcknowledgeableRunning(s) ==
    sends[s].state \in TERMINAL \cup {"not_dispatched", "outcome_unknown"}

BadAcknowledgeableUnknown(s) ==
    sends[s].state \in TERMINAL \cup {"not_dispatched", "send_unknown"}

(* The central checkpoint acknowledges the exact receipt of a send.  A     *)
(* receipt that nothing was sent also releases the task it was meant for.  *)
Acknowledgeable(s) == sends[s].state \in TERMINAL \cup {"not_dispatched"}

OtherUnresolved(s) == \E u \in SendOps \ {s} :
    sends[u].task = sends[s].task
    /\ (sends[u].state \in BUSY \/ ~sends[u].reconciled)

Reconcile(s) ==
    /\ Unlocked
    /\ Acknowledgeable(s)
    /\ sends' = [sends EXCEPT ![s].reconciled = TRUE]
    /\ IF sends[s].state = "not_dispatched" /\ sends[s].task \in TaskOps
       THEN LET t == sends[s].task IN
            /\ tasks[t].state = "created" /\ tasks[t].thread
            /\ tasks[t].reconciled \/ ~OtherUnresolved(s)
            /\ tasks' = [tasks EXCEPT ![t].reconciled = TRUE]
       ELSE tasks' = tasks
    /\ UNCHANGED <<creation_results, jobs, admissionVars, broker, wire, sent,
                   daemon>>

Revoke ==
    /\ Unlocked
    /\ revoked' = TRUE
    /\ UNCHANGED <<registry, enabled, broker, wire, sent,
                   daemon>>

-----------------------------------------------------------------------------
(* Outside the lock: the root policy, the daemon and its other clients.    *)

PolicyChange ==
    /\ enabled' = ~enabled
    /\ UNCHANGED <<registry, revoked, broker, wire, sent,
                   daemon>>

Reply(o, value) ==
    broker' = IF broker.step = "await" /\ broker.op = o
              THEN [broker EXCEPT !.reply = value] ELSE broker

Carry(o) ==
    /\ o \in sent
    /\ wire' = wire \ {o} /\ sent' = sent \ {o}
    /\ inputs' = [inputs EXCEPT ![o] = @ + 1]

StartThread(t) ==
    /\ Carry(t)
    /\ Reply(t, t)
    /\ threads' = [threads EXCEPT ![t] = "live"]
    /\ UNCHANGED <<registry, admissionVars, turns>>

StartTurn(o) ==
    /\ Carry(o)
    /\ o \in SendOps => /\ sends[o].expected = None
                        /\ sends[o].task \in TaskOps => threads[sends[o].task] = "live"
    /\ Reply(o, o)
    /\ turns' = [turns EXCEPT ![o] = "inProgress"]
    /\ UNCHANGED <<registry, admissionVars, threads>>

(* turn/steer is refused unless the expected turn is the active one.       *)
SteerTurn(s) ==
    /\ Carry(s)
    /\ sends[s].expected # None
    /\ turns[sends[s].expected] = "inProgress"
    /\ Reply(s, sends[s].expected)
    /\ UNCHANGED <<registry, admissionVars, threads, turns>>

(* The child gives up or dies before it sends, or the request is refused   *)
(* or lost.                                                                *)
Drop(o) ==
    /\ o \in wire
    /\ wire' = wire \ {o} /\ sent' = sent \ {o}
    /\ Reply(o, "refused")
    /\ UNCHANGED <<registry, admissionVars, daemon>>

EndTurn(x) ==
    /\ turns[x] = "inProgress"
    /\ \E state \in EndStates : turns' = [turns EXCEPT ![x] = state]
    /\ UNCHANGED <<registry, admissionVars, broker, wire, sent, inputs, threads>>

NativeStart(x) ==
    /\ turns[x] = "none"
    /\ turns' = [turns EXCEPT ![x] = "inProgress"]
    /\ UNCHANGED <<registry, admissionVars, broker, wire, sent, inputs, threads>>

(* A thread without a turn may not have been written out yet; one that     *)
(* could not be read may become readable again.                            *)
ThreadFlip(t) ==
    /\ \A s \in SendOps : sends[s].task = t => turns[s] = "none"
    /\ \/ threads[t] = "live" /\ threads' = [threads EXCEPT ![t] = "missing"]
       \/ threads[t] = "missing" /\ threads' = [threads EXCEPT ![t] = "live"]
    /\ UNCHANGED <<registry, admissionVars, broker, wire, sent, inputs, turns>>

-----------------------------------------------------------------------------
Finish ==
    \/ \E t \in TaskOps : FinishCreate(t) \/ ObserveCreation(t)
                          \/ ReconcileCreation(t)
    \/ \E s \in SendOps : FinishSend(s)
    \/ \E j \in JobOps : FinishLegacy(j)

Tool ==
    \/ \E t \in TaskOps : CreateIntent(t) \/ Probe(t)
    \/ \E s \in SendOps : \/ \E t \in TaskOps : SendIntent(s, t)
                          \/ \E w \in Workspace : WorkspaceIntent(s, w)
                          \/ \E r \in TaskOps \cup Workspace : SendRefused(s, r)
                          \/ Observe(s) \/ Reconcile(s)
    \/ \E j \in JobOps : LegacyIntent(j) \/ LegacyObserve(j)
    \/ Revoke

Daemon ==
    \/ \E t \in TaskOps : StartThread(t) \/ ThreadFlip(t)
    \/ \E o \in SendOps \cup JobOps : StartTurn(o)
    \/ \E s \in SendOps : SteerTurn(s)
    \/ \E o \in Ops : Drop(o)
    \/ \E x \in Turns : EndTurn(x)
    \/ \E x \in NativeTurns : NativeStart(x)

Next ==
    \/ Tool
    \/ \E o \in Ops : Dispatch(o) \/ ChildSends(o)
    \/ Finish
    \/ Crash
    \/ Daemon
    \/ PolicyChange

Spec == Init /\ [][Next]_vars

(* The child is killed after fifteen seconds at the latest (its own timer  *)
(* fires after twelve), so a call that holds the lock always ends.         *)
FairSpec == Spec /\ WF_vars(Finish)

-----------------------------------------------------------------------------
(* Properties                                                              *)

(* The request of an operation is carried out at most once, whatever       *)
(* crashes, timeouts, late deliveries and repeated calls do: create() and  *)
(* send() return the stored receipt of a known operation id.               *)
AtMostOnce == \A o \in Ops : inputs[o] <= 1

Row(o) == IF o \in TaskOps THEN tasks[o].state
          ELSE IF o \in SendOps THEN sends[o].state ELSE jobs[o]

Outstanding(o) == o \in wire \/ (o \in Turns /\ turns[o] = "inProgress")

(* Over both adapters, at most one operation has a request the daemon may  *)
(* still take or a turn of its own still running, even after a crash that  *)
(* let go of the lock (the "one shared flock across this store AND legacy  *)
(* sends" of Store, and the BUSY gates read under it).                     *)
SerialDispatching ==
    \A o, p \in Ops : Outstanding(o) /\ Outstanding(p) => o = p

(* Nothing reaches the daemon without a durable row that says it may have  *)
(* (the intent is committed before the child starts).                      *)
IntentFirst == \A o \in Ops :
    o \in wire \/ inputs[o] > 0 => Row(o) \notin {"none", "not_dispatched"}

(* A receipt that names a turn is about this operation: the daemon took    *)
(* its input, once, in exactly that turn.  The end of the turn a steer     *)
(* expected never turns an uncertain steer into a delivered one.           *)
ReceiptsTrue == \A s \in SendOps :
    sends[s].turn # None => /\ inputs[s] = 1
                            /\ sends[s].turn = TargetTurn(s)
                            /\ turns[sends[s].turn] # "none"

(* An acknowledged send is over: its turn ended the way the receipt says,  *)
(* or nothing was and nothing can be sent any more.                        *)
AcknowledgedIsOver == \A s \in SendOps : sends[s].reconciled =>
    /\ s \notin wire
    /\ \/ sends[s].state = "not_dispatched" /\ inputs[s] = 0
       \/ sends[s].state \in TERMINAL /\ turns[sends[s].turn] = sends[s].state

Reserved(t) == tasks[t].state # "none" /\ ~tasks[t].reconciled
Unacknowledged(s) == sends[s].state # "none" /\ ~sends[s].reconciled
Pending(j) == jobs[j] \in LEGACY_BUSY

(* All unfinished work of both registries is one chain: one reserved task, *)
(* or one unacknowledged send (of that task, if one is reserved), or one   *)
(* job of the older adapter.                                               *)
OneChain ==
    /\ \A t, u \in TaskOps : Reserved(t) /\ Reserved(u) => t = u
    /\ \A s, r \in SendOps : Unacknowledged(s) /\ Unacknowledged(r) => s = r
    /\ \A j, k \in JobOps : Pending(j) /\ Pending(k) => j = k
    /\ \A t \in TaskOps, s \in SendOps :
         Reserved(t) /\ Unacknowledged(s) => sends[s].task = t
    /\ \A j \in JobOps : Pending(j) =>
         /\ \A t \in TaskOps : ~Reserved(t)
         /\ \A s \in SendOps : ~Unacknowledged(s)

(* A task written off as lost had no message and never gets one, although  *)
(* its thread may turn up again.                                           *)
LostIsFinal == \A t \in TaskOps :
    tasks[t].state = "creation_lost_before_send" => NoSendTo(t)

Uncertain(o) ==
    \/ o \in TaskOps /\ ~tasks[o].thread
       /\ tasks[o].state \in {"create_intent", "create_unknown"}
    \/ o \in SendOps /\ sends[o].state \in {"send_intent", "send_unknown"}
    \/ o \in JobOps /\ jobs[o] \in {"dispatch_intent", "outcome_unknown"}

(* Once the call that owned it is gone, an operation whose fate is not     *)
(* known is never released, re-sent or reclassified, not even by a restart *)
(* ("It cannot release an uncertain or running operation").                *)
UncertainStaysUncertain == [][\A o \in Ops :
    Uncertain(o) /\ broker.op # o
        => Uncertain(o)' /\ (o \in SendOps => ~sends'[o].reconciled)]_vars

(* A request that may still reach the daemon, after its call timed out, its *)
(* broker died or the policy closed behind the last check, belongs to a    *)
(* row that says its fate is unknown: no failure that the call sees is     *)
(* taken for one of the request.                                           *)
LateRequestIsUncertain == \A o \in wire : Uncertain(o)

(* After codex_task_revoke has returned no further child is started, of    *)
(* any adapter.  The child of a broker that died may still send, and what  *)
(* was sent before may still arrive.                                       *)
NoRequestAfterRevocation == [][revoked => wire' \subseteq wire]_vars

(* A lost reply never keeps the lock.                                      *)
LockReturns == broker.step # "idle" ~> broker.step = "idle"

-----------------------------------------------------------------------------
(* The inductive invariant behind the safety properties: what a row says   *)
(* about the daemon, what the lock holder knows, and OneChain.             *)
TaskSound(t) ==
    /\ tasks[t].state = "none" => t \notin wire /\ inputs[t] = 0
    /\ tasks[t].state \in {"none", "create_intent"} => ~tasks[t].thread
    /\ tasks[t].state \in {"none", "create_intent", "create_unknown"} =>
         ~tasks[t].reconciled
    /\ tasks[t].thread => inputs[t] = 1
    /\ tasks[t].state \in {"created", "creation_lost_before_send"} => tasks[t].thread
    /\ tasks[t].state = "creation_lost_before_send" =>
         tasks[t].reconciled /\ NoSendTo(t)

SendSound(s) ==
    /\ sends[s].state = "none" => sends[s] = NoSend
    /\ sends[s].state \in {"none", "not_dispatched"} =>
         s \notin wire /\ inputs[s] = 0
    /\ sends[s].state \in BUSY => ~sends[s].reconciled
    /\ sends[s].state \in {"none", "not_dispatched", "send_intent", "send_unknown"}
         <=> sends[s].turn = None
    /\ sends[s].turn # None => /\ inputs[s] = 1
                               /\ sends[s].turn = TargetTurn(s)
                               /\ turns[sends[s].turn] # "none"
    /\ sends[s].state \in TERMINAL => turns[sends[s].turn] = sends[s].state
    /\ turns[s] # "none" => inputs[s] = 1 /\ sends[s].expected = None
    /\ sends[s].task \in TaskOps => tasks[sends[s].task].state = "created"

JobSound(j) ==
    /\ jobs[j] = "none" => j \notin wire /\ inputs[j] = 0
    /\ jobs[j] \in {"accepted", "inProgress"} \cup TERMINAL =>
         inputs[j] = 1 /\ turns[j] # "none"
    /\ jobs[j] \in TERMINAL => turns[j] = jobs[j]
    /\ turns[j] # "none" => inputs[j] = 1

WireSound == \A o \in Ops : inputs[o] <= 1 /\ (o \in wire => inputs[o] = 0)

BrokerSound ==
    /\ broker.step = "idle" <=> broker.op = None
    /\ broker.step \in {"intent", "await"} =>
         /\ Row(broker.op) \in {"create_intent", "send_intent", "dispatch_intent"}
         /\ broker.step = "intent" =>
              broker.op \notin wire /\ inputs[broker.op] = 0 /\ broker.reply = None
         /\ broker.reply \in Ops \cup Turns => inputs[broker.op] = 1
         /\ broker.reply \in Turns /\ broker.op \in SendOps =>
              broker.reply = TargetTurn(broker.op) /\ turns[broker.reply] # "none"
         /\ broker.reply \in Ops /\ broker.op \in JobOps =>
              turns[broker.op] # "none"
    /\ broker.step = "probed" =>
         /\ tasks[broker.op].state \in {"created", "create_unknown"}
         /\ tasks[broker.op].thread /\ NoSendTo(broker.op)

Invariant ==
    /\ \A t \in TaskOps : TaskSound(t)
    /\ \A s \in SendOps : SendSound(s)
    /\ \A j \in JobOps : JobSound(j)
    /\ WireSound
    /\ BrokerSound
    /\ OneChain

-----------------------------------------------------------------------------
(* The coordinator implements SerialDispatch: an operation is open while   *)
(* its row is in one of the BUSY states.                                   *)
Status(o) == IF Row(o) = "none" THEN "idle"
             ELSE IF Row(o) \in BUSY \cup LEGACY_BUSY THEN "open" ELSE "closed"

Dispatcher == INSTANCE SerialDispatch
    WITH status <- [o \in Ops |-> Status(o)], effects <- inputs

ImplementsSerialDispatch == Dispatcher!Spec
=============================================================================
