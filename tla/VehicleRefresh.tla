--------------------------- MODULE VehicleRefresh ---------------------------
(***************************************************************************)
(* The coordinator that wakes the vehicle for new telemetry                *)
(* (nodered/tools/functions/vehicle-refresh-*.js and the handlers of the   *)
(* calls it makes).                                                        *)
(*                                                                         *)
(* One persistent record paces the wakes.  A command derives its facts     *)
(* from the record, walks through a chain of switches and then writes the  *)
(* record and makes the call; answers, provider notices and telemetry      *)
(* change the record meanwhile.  The record is a JavaScript object: a      *)
(* command keeps the object it loaded, and stores it again at its end,     *)
(* also when a handler has put another one in its place.                   *)
(*                                                                         *)
(* Deadlines are kept as the ticks left to them and instants as the ticks  *)
(* since them; a tick stands for minutes, a chain of nodes takes none.     *)
(***************************************************************************)
EXTENDS Naturals, FiniteSets, Functions

CONSTANTS
    MaxCommands,    \* commands that may be under way together
    Intervals,      \* the intervals the policy chooses from, in ticks
    Lease,          \* ticks a call protects against a second one
    Settle,         \* ticks the cache gets to settle
    Backoff,        \* longest backoff of the provider
    Window,         \* ticks telemetry may take to count for an attempt
    MaxCalls,       \* bound: a command comes below this many open calls
    Budgets         \* bound, one to choose from: forced commands, failed
                    \* calls of either kind, notices of the provider, lost
                    \* answers, restarts, events that meet a chain under way,
                    \* commands that come while an answer is overdue

ASSUME RefreshBounds ==
    /\ MaxCommands \in Nat \ {0}
    /\ Intervals \subseteq Nat \ {0}
    /\ \E i \in Intervals : \A j \in Intervals : j <= i
    /\ {Lease, Settle, Backoff, Window} \subseteq Nat \ {0}
    /\ MaxCalls \in Nat \ {0}
    /\ Budgets \subseteq [{"force", "call", "trip", "provider", "loss",
                          "restart", "overlap", "late"} -> Nat]

VARIABLES
    heap,           \* the record objects that somebody refers to
    stored,         \* the one in the flow context
    command,        \* per slot: what a command under way will do, to which
    calls,          \* calls to Home Assistant that have not ended
    seen,           \* age of the telemetry in the published context
    lifecycle,      \* an evaluation of vehicle data under way
    said,           \* the last bypass command
    wakeAge,        \* ticks since the last wake, whatever the record says
    spent,          \* that telemetry has confirmed an attempt
    budget,         \* the bounds of this behaviour
    faults          \* how much of each is spent

vars == <<heap, stored, command, calls, seen, lifecycle, said, wakeAge,
          spent, budget, faults>>
-----------------------------------------------------------------------------
Later(a, b) == IF a > b THEN a ELSE b
Left(a, b) == IF a > b THEN a - b ELSE 0

MaxInterval == CHOOSE i \in Intervals : \A j \in Intervals : j <= i
Longest == Later(MaxInterval, Backoff)
Old == Later(MaxInterval, Window) + 1   \* ages from here on are alike
Never == Old + 1
Ages == 0 .. Never
Aged(a) == IF a < Old THEN a + 1 ELSE a

Slots == 1 .. MaxCommands
Objects == 0 .. MaxCommands

Record == [await : BOOLEAN, wake : BOOLEAN, probe : BOOLEAN,
           failed : BOOLEAN, pending : BOOLEAN,
           limited : BOOLEAN,      \* a provider deadline is recorded
           marked : BOOLEAN,       \* a probe is out for the current request
           probed : BOOLEAN,       \* it was answered for that request
           wakeLeft : 0 .. Lease, probeLeft : 0 .. Lease,
           settle : 0 .. Settle, next : 0 .. Longest, retry : 0 .. Backoff,
           interval : Intervals, request : Ages, anchor : Ages, base : Ages]
Blank == [await |-> FALSE, wake |-> FALSE, probe |-> FALSE, failed |-> FALSE,
          pending |-> FALSE, limited |-> FALSE, marked |-> FALSE,
          probed |-> FALSE, wakeLeft |-> 0, probeLeft |-> 0, settle |-> 0,
          next |-> 0, retry |-> 0, interval |-> MaxInterval,
          request |-> Never, anchor |-> Never, base |-> Never]

Command == [doing : {"idle", "nothing", "probe", "wake"}, forced : BOOLEAN,
            interval : Intervals, object : Objects]
Idle == [doing |-> "idle", forced |-> FALSE, interval |-> MaxInterval,
         object |-> 0]
(* Calls have a number each.  A lost one goes on in Home Assistant; nothing*)
(* hears of its end.  One is cut off when its connection broke and the     *)
(* record was told so, as if the call had ended.                           *)
Call == [kind : {"wake", "probe"}, left : 0 .. Lease, lost : BOOLEAN,
         cut : BOOLEAN]
Evaluation == [busy : BOOLEAN, failed : BOOLEAN, telemetry : Ages]
Rest == [busy |-> FALSE, failed |-> FALSE, telemetry |-> Never]

Init ==
    /\ heap = [o \in Objects |-> Blank]
    /\ stored = 0
    /\ command = [s \in Slots |-> Idle]
    /\ calls = <<>>
    /\ seen = Never
    /\ lifecycle = Rest
    /\ said = "none"
    /\ wakeAge = Never
    /\ spent = FALSE
    /\ budget \in Budgets
    /\ faults = [f \in DOMAIN budget |-> 0]

record == heap[stored]
Held(o) == {s \in Slots : command[s].doing # "idle" /\ command[s].object = o}
Quiet == ~lifecycle.busy /\ \A s \in Slots : command[s].doing = "idle"

Spend(kinds) ==
    /\ \A f \in kinds : faults[f] < budget[f]
    /\ faults' = [f \in DOMAIN faults |-> faults[f] + IF f \in kinds THEN 1 ELSE 0]
    /\ UNCHANGED budget
(* A message from outside, that may find a chain under way.                *)
Arrives(kinds) == Spend(kinds \cup IF Quiet THEN {} ELSE {"overlap"})

(* Writing to the stored object shows in every command that holds it;      *)
(* storing another object does not.                                        *)
Write(r) == heap' = [heap EXCEPT ![stored] = r] /\ UNCHANGED stored
Replace(r) ==
    IF Held(stored) = {} THEN Write(r)
    ELSE LET o == CHOOSE p \in Objects \ {stored} : Held(p) = {}
         IN heap' = [heap EXCEPT ![o] = r] /\ stored' = o
-----------------------------------------------------------------------------
(* Commands.                                                               *)

(* The facts: the deadline for the selected interval, leases run out.      *)
BadDerived(r, i) ==
    LET floor == Left(i, r.anchor)
        kept == IF r.interval = i THEN Later(r.next, floor) ELSE r.retry
        expired == r.probe /\ r.probeLeft = 0
    IN [r EXCEPT !.interval = i,
                 !.next = Later(kept, IF expired THEN i ELSE 0),
                 !.probe = @ /\ ~expired, !.marked = @ /\ ~expired,
                 !.wake = @ /\ r.wakeLeft > 0]
Derived(r, i) ==
    LET floor == Left(i, r.anchor)
        kept == IF r.interval = i THEN Later(r.next, floor) ELSE floor
        expired == r.probe /\ r.probeLeft = 0
    IN [r EXCEPT !.interval = i,
                 !.next = Later(Later(kept, r.retry), IF expired THEN i ELSE 0),
                 !.probe = @ /\ ~expired, !.marked = @ /\ ~expired,
                 !.wake = @ /\ r.wakeLeft > 0]

(* The switches, in their order.  Someone away or a pending recovery wants *)
(* the data; a departure that an earlier wake covers does not.             *)
BadOutcome(r, forced, wanted) ==
    IF \/ r.probe \/ r.settle > 0 \/ ~wanted
       \/ r.retry > 0 \/ (~forced /\ r.next > 0)
    THEN "nothing"
    ELSE IF ~forced /\ r.await /\ r.request # Never /\ ~r.probed
    THEN "probe" ELSE "wake"
Outcome(r, forced, wanted) ==
    IF \/ r.probe \/ r.settle > 0 \/ r.wake \/ ~wanted
       \/ r.retry > 0 \/ (~forced /\ r.next > 0)
    THEN "nothing"
    ELSE IF ~forced /\ r.await /\ r.request # Never /\ ~r.probed
    THEN "probe" ELSE "wake"

Overdue == {c \in DOMAIN calls : calls[c].left = 0 /\ ~calls[c].lost}

Enter(s, i, forced, wanted) ==
    /\ Cardinality(DOMAIN calls) < MaxCalls
    /\ command[s].doing = "idle"
    /\ ~forced /\ record.await => wanted
    /\ Arrives((IF forced THEN {"force"} ELSE {}) \cup
               (IF Overdue = {} THEN {} ELSE {"late"}))
    /\ LET r == Derived(record, i)
       IN /\ Write(r)
          /\ command' = [command EXCEPT ![s] =
                [doing |-> Outcome(r, forced, wanted), forced |-> forced,
                 interval |-> i, object |-> stored]]
    /\ UNCHANGED <<calls, seen, lifecycle, said, wakeAge, spent>>

BadDispatched(r, i) ==
    [r EXCEPT !.probe = FALSE, !.probeLeft = 0, !.marked = FALSE,
              !.probed = FALSE, !.settle = 0, !.base = seen, !.request = 0,
              !.anchor = 0, !.next = @ + i, !.await = TRUE, !.wake = TRUE,
              !.wakeLeft = Lease]
Dispatched(r, i) ==
    [r EXCEPT !.probe = FALSE, !.probeLeft = 0, !.marked = FALSE,
              !.probed = FALSE, !.settle = 0, !.base = seen, !.request = 0,
              !.anchor = 0, !.next = i, !.await = TRUE, !.wake = TRUE,
              !.wakeLeft = Lease]
Probing(r) ==
    [r EXCEPT !.probe = TRUE, !.probeLeft = Lease, !.marked = TRUE,
              !.settle = 0]

(* The end of a command stores the object it loaded, whatever is there now.*)
Leave(s, r) ==
    LET o == command[s].object
        others == Held(stored) \ {s}
    IN /\ heap' = [p \in Objects |->
              CASE p = o -> r
                [] p = stored /\ p # o /\ others = {} -> Blank
                [] OTHER -> heap[p]]
       /\ stored' = o
       /\ command' = [command EXCEPT ![s] = Idle]
       /\ UNCHANGED <<seen, lifecycle, said, spent, budget, faults>>
Send(kind) ==
    LET new == CHOOSE c \in 1 .. Cardinality(DOMAIN calls) + 1 : c \notin DOMAIN calls
    IN calls' = [c \in DOMAIN calls \cup {new} |->
           IF c = new THEN [kind |-> kind, left |-> Lease, lost |-> FALSE,
                            cut |-> FALSE]
           ELSE calls[c]]

Suppress(s) ==
    /\ command[s].doing = "nothing"
    /\ Leave(s, heap[command[s].object])
    /\ UNCHANGED <<calls, wakeAge>>
ProbeCache(s) ==
    /\ command[s].doing = "probe"
    /\ Leave(s, Probing(heap[command[s].object]))
    /\ Send("probe")
    /\ UNCHANGED wakeAge
Wake(s) ==
    /\ command[s].doing = "wake"
    /\ Leave(s, Dispatched(heap[command[s].object], command[s].interval))
    /\ Send("wake")
    /\ wakeAge' = 0
-----------------------------------------------------------------------------
(* Answers.  A call that ends frees the record for the next.               *)

Accepted(r) ==
    [r EXCEPT !.wake = FALSE, !.wakeLeft = 0, !.await = TRUE, !.anchor = 0,
              !.next = Later(@, Left(r.interval, r.request)),
              !.probe = FALSE, !.probeLeft = 0, !.marked = FALSE,
              !.probed = FALSE, !.settle = 0]
AcceptedAsError(r) ==
    [r EXCEPT !.wake = FALSE, !.wakeLeft = 0, !.await = TRUE, !.anchor = 0,
              !.next = Later(@, Left(r.interval, r.request))]
BadReread(r) ==
    [r EXCEPT !.probe = FALSE, !.probeLeft = 0,
              !.marked = FALSE, !.settle = Settle, !.await = TRUE]
Reread(r) ==
    [r EXCEPT !.probe = FALSE, !.probeLeft = 0, !.probed = r.marked,
              !.marked = FALSE, !.settle = Settle, !.await = TRUE]
Disconnected(r, kind) ==
    IF kind = "probe" THEN [r EXCEPT !.probe = FALSE, !.probeLeft = 0]
                      ELSE [r EXCEPT !.wake = FALSE, !.wakeLeft = 0]
(* The handler of errors, whichever call they come from.  A trip, and a    *)
(* request that was merged with another, do not count against the vehicle. *)
BadBroken(r, cache, relevant) ==
    [r EXCEPT !.wake = FALSE, !.wakeLeft = 0, !.probe = FALSE,
              !.probeLeft = 0, !.marked = FALSE, !.settle = 0,
              !.await = TRUE, !.failed = @ \/ relevant,
              !.next = IF cache THEN Later(@, r.interval) ELSE @]
Broken(r, cache, relevant) ==
    [r EXCEPT !.wake = FALSE, !.wakeLeft = 0, !.probe = FALSE,
              !.probeLeft = 0, !.marked = FALSE, !.settle = 0,
              !.await = TRUE, !.failed = @ \/ relevant,
              !.pending = @ /\ ~relevant,
              !.next = IF cache THEN Later(@, r.interval) ELSE @]
Warn(relevant) == said' = IF relevant /\ ~record.failed THEN "ON" ELSE said

Ends(c, kinds) ==
    /\ Arrives(kinds)
    /\ c \in DOMAIN calls /\ ~calls[c].lost
    /\ calls' = Restrict(calls, DOMAIN calls \ {c})
    /\ UNCHANGED <<command, seen, lifecycle, wakeAge, spent>>

Accept(c) ==
    /\ Ends(c, {})
    /\ Write(IF calls[c].kind = "wake" THEN Accepted(record) ELSE Reread(record))
    /\ UNCHANGED said
AcceptAsError(c) ==
    /\ Ends(c, {"call"})
    /\ Write(AcceptedAsError(record))
    /\ UNCHANGED said
Fail(c, relevant) ==
    /\ Ends(c, {"call"})
    /\ Write(Broken(record, calls[c].kind = "probe", relevant))
    /\ Warn(relevant)
(* Either there was no connection and the call never left, or it broke    *)
(* under the call, which Home Assistant goes on with: the handler cannot   *)
(* tell, and frees the record in both cases.                               *)
Disconnect(c) ==
    /\ Arrives({"call"})
    /\ c \in DOMAIN calls /\ ~calls[c].lost
    /\ Replace(Disconnected(record, calls[c].kind))
    /\ \/ calls' = Restrict(calls, DOMAIN calls \ {c})
       \/ calls' = [calls EXCEPT ![c].lost = TRUE, ![c].cut = TRUE]
    /\ UNCHANGED <<command, seen, lifecycle, said, wakeAge, spent>>
FailTrip ==
    /\ Arrives({"trip"})
    /\ Write(Broken(record, FALSE, FALSE))
    /\ UNCHANGED <<command, calls, seen, lifecycle, said, wakeAge, spent>>
-----------------------------------------------------------------------------
(* Notices of the provider, and telemetry.                                 *)

Excused == calls' = [c \in DOMAIN calls |-> [calls[c] EXCEPT !.left = 0]]

Limit(k) ==
    /\ Arrives({"provider"})
    /\ Write([record EXCEPT !.limited = TRUE, !.retry = k, !.next = Later(@, k),
                 !.await = TRUE, !.wake = FALSE, !.wakeLeft = 0,
                 !.probe = FALSE, !.probeLeft = 0, !.marked = FALSE,
                 !.settle = 0, !.failed = TRUE, !.pending = FALSE])
    /\ said' = "ON"
    /\ Excused
    /\ UNCHANGED <<command, seen, lifecycle, wakeAge, spent>>
Release ==
    /\ Arrives({})
    /\ record.limited
    /\ Write([record EXCEPT !.limited = FALSE, !.retry = 0, !.await = TRUE,
                 !.next = IF @ <= record.retry THEN 0 ELSE @])
    /\ UNCHANGED <<command, calls, seen, lifecycle, said, wakeAge, spent>>

(* An entity changes; the failure is read here, the record only at the end.*)
Observe(age) ==
    /\ Arrives({})
    /\ ~lifecycle.busy
    /\ age <= seen
    /\ lifecycle' = [busy |-> TRUE, failed |-> record.failed, telemetry |-> age]
    /\ UNCHANGED <<heap, stored, command, calls, seen, said, wakeAge, spent>>

Confirmed(r, age) ==
    /\ age # Never
    /\ r.request <= Window
    /\ r.base = Never \/ age < r.base
    /\ age <= r.request

Conclude ==
    /\ lifecycle.busy
    /\ lifecycle' = Rest
    /\ seen' = lifecycle.telemetry
    /\ UNCHANGED <<command, said, wakeAge, budget, faults>>
Confirm ==
    /\ Conclude
    /\ record.await /\ Confirmed(record, lifecycle.telemetry)
    /\ Replace([record EXCEPT !.await = FALSE, !.wake = FALSE, !.wakeLeft = 0,
           !.next = Later(Later(@, Left(record.interval, record.request)),
                          IF record.probed THEN record.interval ELSE 0),
           !.probe = FALSE, !.probeLeft = 0, !.marked = FALSE, !.probed = FALSE,
           !.settle = 0, !.anchor = 0, !.base = Never, !.failed = FALSE,
           !.pending = @ \/ lifecycle.failed])
    /\ spent' = TRUE
    /\ Excused
LeavePending ==
    /\ Conclude
    /\ ~(record.await /\ Confirmed(record, lifecycle.telemetry))
    /\ spent' = (spent /\ lifecycle.telemetry = seen)
    /\ UNCHANGED <<heap, stored, calls>>

(* Every five seconds.                                                     *)
Announce ==
    /\ Arrives({})
    /\ record.pending
    /\ Write([record EXCEPT !.pending = FALSE])
    /\ said' = "OFF"
    /\ UNCHANGED <<command, calls, seen, lifecycle, wakeAge, spent>>
-----------------------------------------------------------------------------
(* Time, and the processes on either side.                                 *)

Older(r) == [r EXCEPT !.wakeLeft = Left(@, 1), !.probeLeft = Left(@, 1),
                      !.settle = Left(@, 1), !.next = Left(@, 1),
                      !.retry = Left(@, 1), !.request = Aged(@),
                      !.anchor = Aged(@), !.base = Aged(@)]
Tick ==
    /\ Quiet
    /\ heap' = [heap EXCEPT ![stored] = Older(@)]
    /\ calls' = [c \in {d \in DOMAIN calls : ~calls[d].lost \/ calls[d].left > 1} |->
                    [calls[c] EXCEPT !.left = Left(@, 1)]]
    /\ seen' = Aged(seen)
    /\ wakeAge' = Aged(wakeAge)
    /\ UNCHANGED <<stored, command, lifecycle, said, spent, budget, faults>>

Lose(c) ==
    /\ Spend({"loss"})
    /\ c \in DOMAIN calls /\ ~calls[c].lost
    /\ calls' = [calls EXCEPT ![c].lost = TRUE]
    /\ UNCHANGED <<heap, stored, command, seen, lifecycle, said, wakeAge, spent>>

(* A clean stop of Node-RED writes the record first; calls go on without   *)
(* an answer.  The context of the vehicle is only in memory.               *)
Restart ==
    /\ Spend({"restart"})
    /\ heap' = [o \in Objects |-> IF o = 0 THEN record ELSE Blank]
    /\ stored' = 0
    /\ command' = [s \in Slots |-> Idle]
    /\ calls' = [c \in DOMAIN calls |-> [calls[c] EXCEPT !.lost = TRUE]]
    /\ seen' = Never
    /\ lifecycle' = Rest
    /\ UNCHANGED <<said, wakeAge, spent>>

Answer == \E c \in DOMAIN calls :
    \/ Accept(c) \/ AcceptAsError(c) \/ Disconnect(c)
    \/ \E relevant \in BOOLEAN : Fail(c, relevant)
Chain == \/ \E s \in Slots : Suppress(s) \/ ProbeCache(s) \/ Wake(s)
         \/ Confirm \/ LeavePending

Next ==
    \/ \E s \in Slots, i \in Intervals, forced, wanted \in BOOLEAN :
           Enter(s, i, forced, wanted)
    \/ Chain
    \/ Answer
    \/ FailTrip
    \/ \E k \in 1 .. Backoff : Limit(k)
    \/ Release
    \/ \E age \in Ages : Observe(age)
    \/ Announce
    \/ Tick
    \/ \E c \in DOMAIN calls : Lose(c)
    \/ Restart

Spec == Init /\ [][Next]_vars

(* The event loop ends its chains, time passes, the policy keeps sending   *)
(* commands, calls are answered in the end and a backoff is lifted.  Each  *)
(* of these waits for chains under way, which events may start again and   *)
(* again: they are not lost by that, only put off.                         *)
FairSpec ==
    /\ Spec
    /\ WF_vars(Chain) /\ SF_vars(Tick) /\ SF_vars(Release)
    /\ SF_vars(\E c \in DOMAIN calls : Accept(c))
    /\ SF_vars(\E s \in Slots, i \in Intervals : Enter(s, i, FALSE, TRUE))
-----------------------------------------------------------------------------
(* Every variable stays in its domain; no deadline grows past the longest. *)
TypeOK ==
    /\ heap \in [Objects -> Record]
    /\ stored \in Objects
    /\ command \in [Slots -> Command]
    /\ calls \in [DOMAIN calls -> Call]
    /\ seen \in Ages /\ wakeAge \in Ages
    /\ lifecycle \in Evaluation
    /\ said \in {"none", "ON", "OFF"}
    /\ spent \in BOOLEAN
    /\ budget \in Budgets
    /\ faults \in [DOMAIN budget -> Nat]

(* Until an event meets a chain under way, an answer outlives its lease or *)
(* a trip fails, a command, manual ones included, makes no call while      *)
(* another call is within its lease: the manual command "does not break an *)
(* attempt in flight".  Telemetry and notices of the provider overtake a   *)
(* call, and one whose connection broke under it may still be running: the *)
(* record was freed of it without knowing, and the next one joins it.      *)
OneCallInFlight ==
    [][faults'.overlap + faults'.late + faults'.trip = 0 =>
        \A s \in Slots : Wake(s) \/ ProbeCache(s) =>
            \A c \in DOMAIN calls : calls[c].left = 0 \/ calls[c].cut]_vars

(* The record keeps automatic wakes at least the selected interval after   *)
(* the last wake, whoever asked for that one and whatever became of it, as *)
(* long as no two commands are under way together.                         *)
WakesSpaced ==
    [][MaxCommands = 1 \/ faults'.overlap = 0 =>
        \A s \in Slots : Wake(s) /\ ~command[s].forced =>
            wakeAge >= command[s].interval]_vars

(* Until an event meets a chain under way, the commands tell the bypass of *)
(* every failure and every recovery, as the abstract specification says.   *)
reports == INSTANCE FailureReports WITH
    failed <- record.failed, pending <- record.pending
ReportsFailures ==
    reports!Init /\ [][faults'.overlap = 0 => [reports!Next]_(reports!vars)]_vars

(* Only an advance of the vehicle's own clock confirms an attempt: data    *)
(* that has confirmed one attempt does not clear a later failure.          *)
EvidenceIsNew ==
    [][Confirm /\ record.failed => ~spent \/ lifecycle.telemetry < seen]_vars

(* While evidence is awaited, a call that fails, is cut off or is never    *)
(* answered, a backoff or a failed trip puts the next wake off, but not for*)
(* ever: they are as many as the budget lets in.  A failed reading of the  *)
(* cache does not count as one, so it is made again before the wake; were  *)
(* every reading to fail, no wake would follow.                            *)
WaitingIsRetried == record.await ~> (wakeAge = 0 \/ ~record.await)
=============================================================================
