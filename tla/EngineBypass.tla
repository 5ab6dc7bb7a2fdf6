---------------------------- MODULE EngineBypass ----------------------------
(***************************************************************************)
(* Ownership of the engine bypass switch of the arrival lighting           *)
(* (nodered/tools/functions/security-light-engine-bypass-*.js).            *)
(*                                                                         *)
(* A command from the dashboard or from the vehicle coordinator travels    *)
(* through a chain of Node-RED nodes, one turn of the event loop per node. *)
(* The first node reads the switch and its owner, a later one decides with *)
(* what was read, a third writes.  All nodes of a flow share one first-in  *)
(* first-out queue of deliveries, so commands that arrive together advance *)
(* in lockstep.                                                            *)
(*                                                                         *)
(* The vehicle coordinator is represented by the two fields of its         *)
(* persistent record that produce bypass commands.                         *)
(***************************************************************************)
EXTENDS Naturals, Sequences

CONSTANTS
    Buttons,        \* what the dashboard may request: a subset of ON, OFF
    MaxQueue,       \* a new command enters only below this many deliveries
    MaxPresses,     \* bound: dashboard commands
    MaxFailures,    \* bound: failures the vehicle coordinator reports
    MaxLosses,      \* bound: commands the broker loses
    MaxRestarts     \* bound: restarts of the Node-RED process

ASSUME BypassBounds ==
    /\ Buttons \subseteq {"ON", "OFF"}
    /\ MaxQueue \in Nat \ {0}
    /\ {MaxPresses, MaxFailures, MaxLosses, MaxRestarts} \subseteq Nat

(* Faulty variants, named Bad..., stand before what they replace; the runs *)
(* must refute each of them.                                               *)

VARIABLES
    switch,         \* flow context: enabled, automatic, communication_failed
    vehicle,        \* coordinator's record: failure known, recovery to announce
    saved,          \* what the context store last wrote to disk of both
    topic,          \* commands the MQTT broker has yet to deliver, in order
    queue,          \* deliveries waiting in the event loop, in order
    published,      \* retained state the dashboard shows
    started,        \* the startup trigger of this process has fired
    used            \* how much of each bound is spent

vars == <<switch, vehicle, saved, topic, queue, published, started, used>>

State == {"undefined", "ON", "OFF"}
Switch == [enabled : State, automatic : BOOLEAN, failed : BOOLEAN]
Vehicle == [failed : BOOLEAN, pending : BOOLEAN]

FAILURE == {"provider_backoff", "api_failure"}
RECOVERY == {"provider_recovered", "api_recovered"}
Command == [requested : {"ON", "OFF", "STARTUP"},
            source : FAILURE \cup RECOVERY \cup {"dashboard"}]

Branches == {"startup", "automatic_activation", "automatic_recovery",
             "manual_enable", "manual_disable"}

(* The classification of a command; the source outranks the request.       *)
BranchOf(c) ==
    IF c.requested = "STARTUP" THEN "startup"
    ELSE IF c.source \in FAILURE THEN "automatic_activation"
    ELSE IF c.source \in RECOVERY THEN "automatic_recovery"
    ELSE IF c.requested = "ON" THEN "manual_enable" ELSE "manual_disable"

(* Deliveries: a command to the first node, its facts to a decision, the   *)
(* decided state to the publisher.                                         *)
Arrived == [node : {"facts"}, command : Command]
Facts == [node : {"branch", "owner", "recover"} \cup Branches,
          branch : Branches, previous : State, owned : BOOLEAN]
Decided == [node : {"output"}, enabled : BOOLEAN,
            communication : {"failed", "healthy", "untold"}]

Init ==
    /\ switch = [enabled |-> "undefined", automatic |-> FALSE, failed |-> FALSE]
    /\ vehicle = [failed |-> FALSE, pending |-> FALSE]
    /\ saved = [switch |-> switch, vehicle |-> vehicle]
    /\ topic = <<>>
    /\ queue = <<>>
    /\ published = "undefined"
    /\ started = FALSE
    /\ used = [presses |-> 0, failures |-> 0, losses |-> 0, restarts |-> 0]

Spend(what, bound) ==
    /\ used[what] < bound
    /\ used' = [used EXCEPT ![what] = @ + 1]
-----------------------------------------------------------------------------
(* The outside of the switch.                                              *)

Publish(requested, source) ==
    topic' = Append(topic, [requested |-> requested, source |-> source])

Press ==
    /\ Spend("presses", MaxPresses)
    /\ \E b \in Buttons : Publish(b, "dashboard")
    /\ UNCHANGED <<switch, vehicle, saved, queue, published, started>>

(* A failed call asks for the bypass only when the failure is new.         *)
CallFails ==
    /\ Spend("failures", MaxFailures)
    /\ vehicle' = [failed |-> TRUE, pending |-> FALSE]
    /\ IF vehicle.failed THEN UNCHANGED topic ELSE Publish("ON", "api_failure")
    /\ UNCHANGED <<switch, saved, queue, published, started>>

(* A published provider backoff asks for it every time.                    *)
ProviderBackoff ==
    /\ Spend("failures", MaxFailures)
    /\ vehicle' = [failed |-> TRUE, pending |-> FALSE]
    /\ Publish("ON", "provider_backoff")
    /\ UNCHANGED <<switch, saved, queue, published, started>>

(* New telemetry clears the failure; the release is left to the ticker.    *)
ConfirmEvidence ==
    /\ vehicle.failed
    /\ vehicle' = [failed |-> FALSE, pending |-> TRUE]
    /\ UNCHANGED <<switch, saved, topic, queue, published, started, used>>

BadTick ==
    /\ vehicle.pending
    /\ vehicle' = [vehicle EXCEPT !.pending = FALSE]
    /\ UNCHANGED <<switch, saved, topic, queue, published, started, used>>
Tick ==
    /\ vehicle.pending
    /\ vehicle' = [vehicle EXCEPT !.pending = FALSE]
    /\ Publish("OFF", "api_recovered")
    /\ UNCHANGED <<switch, saved, queue, published, started, used>>

Lose ==
    /\ topic # <<>>
    /\ Spend("losses", MaxLosses)
    /\ topic' = Tail(topic)
    /\ UNCHANGED <<switch, vehicle, saved, queue, published, started>>
-----------------------------------------------------------------------------
(* The chain of nodes.                                                     *)

Enter(command) ==
    /\ Len(queue) < MaxQueue
    /\ queue' = Append(queue, [node |-> "facts", command |-> command])

Startup ==
    /\ ~started
    /\ started' = TRUE
    /\ Enter([requested |-> "STARTUP", source |-> "dashboard"])
    /\ UNCHANGED <<switch, vehicle, saved, topic, published, used>>

Receive ==
    /\ topic # <<>>
    /\ topic' = Tail(topic)
    /\ Enter(Head(topic))
    /\ UNCHANGED <<switch, vehicle, saved, published, started, used>>

At(node) == queue # <<>> /\ Head(queue).node = node
Forward(msg) == queue' = Append(Tail(queue), msg)
Stop == queue' = Tail(queue)

BadFacts ==
    /\ At("facts")
    /\ LET branch == BranchOf(Head(queue).command)
       IN Forward([node |-> "branch", branch |-> branch,
                   previous |-> switch.enabled,
                   owned |-> switch.enabled = "ON"])
    /\ UNCHANGED <<switch, vehicle, saved, topic, published, started, used>>
DeriveFacts ==
    /\ At("facts")
    /\ LET branch == BranchOf(Head(queue).command)
       IN Forward([node |-> "branch", branch |-> branch,
                   previous |-> switch.enabled, owned |-> switch.automatic])
    /\ UNCHANGED <<switch, vehicle, saved, topic, published, started, used>>

BadChooseBranch ==
    /\ At("branch")
    /\ LET m == Head(queue)
           n == [m EXCEPT !.node = IF m.branch = "automatic_recovery"
                                   THEN "owner" ELSE m.branch]
       IN queue' = Tail(queue) \o <<n, n>>   \* wired to the target twice
    /\ UNCHANGED <<switch, vehicle, saved, topic, published, started, used>>
ChooseBranch ==
    /\ At("branch")
    /\ LET m == Head(queue)
       IN Forward([m EXCEPT !.node = IF m.branch = "automatic_recovery"
                                     THEN "owner" ELSE m.branch])
    /\ UNCHANGED <<switch, vehicle, saved, topic, published, started, used>>

(* Only an automatic ON is released; any other is left as it is.           *)
CheckOwner ==
    /\ At("owner")
    /\ IF Head(queue).owned
       THEN Forward([Head(queue) EXCEPT !.node = "recover"])
       ELSE Stop
    /\ UNCHANGED <<switch, vehicle, saved, topic, published, started, used>>

Decide(enabled, communication) ==
    Forward([node |-> "output", enabled |-> enabled,
             communication |-> communication])

BadRestoreAtStartup ==
    /\ At("startup")
    /\ switch' = IF Head(queue).previous = "undefined"
                 THEN [switch EXCEPT !.enabled = "OFF"] ELSE switch
    /\ Decide(FALSE, "untold")
    /\ UNCHANGED <<vehicle, saved, topic, published, started, used>>
RestoreAtStartup ==
    /\ At("startup")
    /\ switch' = IF Head(queue).previous = "undefined"
                 THEN [switch EXCEPT !.enabled = "OFF"] ELSE switch
    /\ Decide(Head(queue).previous = "ON", "untold")
    /\ UNCHANGED <<vehicle, saved, topic, published, started, used>>

BadEnableAutomatically ==
    /\ At("automatic_activation")
    /\ switch' = [switch EXCEPT !.enabled = "ON"]
    /\ Decide(TRUE, "failed")
    /\ UNCHANGED <<vehicle, saved, topic, published, started, used>>
EnableAutomatically ==
    /\ At("automatic_activation")
    /\ switch' = [switch EXCEPT !.enabled = "ON",
                      !.automatic = @ \/ Head(queue).previous # "ON"]
    /\ Decide(TRUE, "failed")
    /\ UNCHANGED <<vehicle, saved, topic, published, started, used>>

BadRecoverAutomatically ==
    /\ At("recover")
    /\ switch' = [switch EXCEPT !.enabled = "OFF", !.automatic = FALSE]
    /\ Decide(FALSE, "untold")
    /\ UNCHANGED <<vehicle, saved, topic, published, started, used>>
RecoverAutomatically ==
    /\ At("recover")
    /\ switch' = [switch EXCEPT !.enabled = "OFF", !.automatic = FALSE]
    /\ Decide(FALSE, "healthy")
    /\ UNCHANGED <<vehicle, saved, topic, published, started, used>>

EnableManually ==
    /\ At("manual_enable")
    /\ switch' = [switch EXCEPT !.enabled = "ON", !.automatic = FALSE]
    /\ Decide(TRUE, "untold")
    /\ UNCHANGED <<vehicle, saved, topic, published, started, used>>

BadDisableManually ==
    /\ At("manual_disable")
    /\ switch' = [switch EXCEPT !.enabled = "OFF"]
    /\ Decide(FALSE, "untold")
    /\ UNCHANGED <<vehicle, saved, topic, published, started, used>>
DisableManually ==
    /\ At("manual_disable")
    /\ switch' = [switch EXCEPT !.enabled = "OFF", !.automatic = FALSE]
    /\ Decide(FALSE, "untold")
    /\ UNCHANGED <<vehicle, saved, topic, published, started, used>>

(* Publishes the decided state and asks the lighting to reconsider, which  *)
(* makes it keep the failure it is told of, if it is told of any.          *)
Output ==
    /\ At("output")
    /\ LET m == Head(queue)
       IN /\ published' = IF m.enabled THEN "ON" ELSE "OFF"
          /\ switch' = IF m.communication = "untold" THEN switch
                       ELSE [switch EXCEPT !.failed = m.communication = "failed"]
    /\ Stop
    /\ UNCHANGED <<vehicle, saved, topic, started, used>>
-----------------------------------------------------------------------------
(* The process.  The context store writes every thirty seconds; a clean    *)
(* stop writes first, a crash does not.  The broker keeps no session.      *)

Flush ==
    /\ saved' = [switch |-> switch, vehicle |-> vehicle]
    /\ UNCHANGED <<switch, vehicle, topic, queue, published, started, used>>

Restart ==
    /\ Spend("restarts", MaxRestarts)
    /\ switch' = saved.switch
    /\ vehicle' = saved.vehicle
    /\ topic' = <<>>
    /\ queue' = <<>>
    /\ started' = FALSE
    /\ UNCHANGED <<saved, published>>

Node == \/ DeriveFacts \/ ChooseBranch \/ CheckOwner \/ RestoreAtStartup
        \/ EnableAutomatically \/ RecoverAutomatically
        \/ EnableManually \/ DisableManually \/ Output

Next == \/ Press \/ CallFails \/ ProviderBackoff \/ ConfirmEvidence \/ Tick
        \/ Lose \/ Startup \/ Receive \/ Node \/ Flush \/ Restart

Spec == Init /\ [][Next]_vars

(* The event loop and the broker go on delivering; the ticker repeats.     *)
FairSpec == Spec /\ WF_vars(Node) /\ WF_vars(Receive) /\ WF_vars(Tick)
-----------------------------------------------------------------------------
(* Every variable stays in its domain, and never more deliveries wait than *)
(* were let in.                                                            *)
TypeOK ==
    /\ switch \in Switch
    /\ vehicle \in Vehicle
    /\ saved \in [switch : Switch, vehicle : Vehicle]
    /\ topic \in Seq(Command)
    /\ queue \in Seq(Arrived \cup Facts \cup Decided)
    /\ Len(queue) <= MaxQueue
    /\ published \in State
    /\ started \in BOOLEAN
    /\ used \in [{"presses", "failures", "losses", "restarts"} -> Nat]

(* What follows holds as long as a command is worked off before the next   *)
(* enters (MaxQueue = 1); only the recovery's promise to a manual ON is    *)
(* made without that, and is broken by two commands under way together.    *)

(* Automation owns only a switch that is on: worked off one by one, manual *)
(* OFFs, recoveries, restarts and crashes never leave an owner behind.     *)
AutomaticIsOn == switch.automatic => switch.enabled = "ON"

(* Once the startup trigger and all commands have been worked off, one by  *)
(* one, the retained state on the dashboard is the switch that the lighting*)
(* reads.                                                                  *)
PublishedFollowsSwitch ==
    started /\ queue = <<>> => published = switch.enabled

(* A recovery turns off only an ON that automation owns at that moment: "a *)
(* manual ON, earlier or later, is preserved".                             *)
ManualOnPreserved == [][RecoverAutomatically => switch.automatic]_vars

(* Where nobody can press ON, every ON belongs to automation, so the next  *)
(* recovery will release it: failures, OFFs, losses, restarts and crashes  *)
(* in any order, but worked off one by one.                                *)
UnaskedOnIsAutomatic ==
    "ON" \notin Buttons /\ switch.enabled = "ON" => switch.automatic

Quiet == queue = <<>> /\ topic = <<>> /\ ~vehicle.pending

(* What the lighting concludes on the next context (context-cache).        *)
CommunicationFailed == vehicle.failed \/ switch.failed \/ switch.automatic
BypassAllowed ==
    switch.enabled = "ON" /\ ~switch.automatic /\ CommunicationFailed

(* Until somebody presses a button, a command is lost or the process goes  *)
(* down, the lighting takes communication for failed exactly while the     *)
(* coordinator does, and shows the switch so.                              *)
Undisturbed == used.presses = 0 /\ used.losses = 0 /\ used.restarts = 0
QuietMeansAgreed ==
    Undisturbed /\ Quiet /\ started =>
        /\ CommunicationFailed <=> vehicle.failed
        /\ published = "ON" <=> vehicle.failed

(* The switch matters only during a failure of the communication.          *)
BypassOnlyDuringFailure == Quiet /\ ~vehicle.failed => ~BypassAllowed

(* A recovery of the provider releases an automatic ON, unless the next    *)
(* failure comes first: the OFF is asked for once, so a lost command or a  *)
(* crash may leave the ON behind until then.                               *)
RecoveryReleases ==
    ~vehicle.failed ~>
        \/ vehicle.failed \/ ~switch.automatic
        \/ used.losses > 0 \/ used.restarts > 0
=============================================================================
