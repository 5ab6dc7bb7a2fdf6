------------------------- MODULE EngineBypassProofs -------------------------
(***************************************************************************)
(* Proofs about EngineBypass, for every set of buttons and every bound,    *)
(* MaxQueue included.  The types hold of every behaviour; the rest holds of*)
(* those in which a command enters only when the one before has been worked*)
(* off, as OneByOne says.  What the first node read is then still true     *)
(* where it is used.  The code does not see to it: commands that reach     *)
(* Node-RED together are worked off together, and what automation owns,    *)
(* ManualOnPreserved and the state shown may then be wrong.                *)
(***************************************************************************)
EXTENDS EngineBypass, SequenceTheorems, TLAPS

Message == Arrived \cup Facts \cup Decided

(* The nodes that act on facts read by an earlier node.                    *)
Acting == {"branch", "owner", "recover"} \cup Branches

(* A dashboard command was offered by the dashboard.                       *)
Offered(c) == c.source = "dashboard" /\ c.requested = "ON" => "ON" \in Buttons

(* The facts a node acts on are still true, a recovery is due, and a       *)
(* manual ON was asked for.                                                *)
Current(m, s) ==
    /\ m.node = "facts" => Offered(m.command)
    /\ m.node \in Acting =>
        /\ m.previous = s.enabled
        /\ m.owned = s.automatic
        /\ m.branch = "manual_enable" => "ON" \in Buttons
    /\ m.node \in Branches => m.node = m.branch
    /\ m.node = "recover" => m.owned

(* Commands enter one by one.                                              *)
OneByOne == [][Startup \/ Receive => queue = <<>>]_vars

(* What holds of the switch, in memory and on disk.                        *)
Consistent(s) ==
    /\ s.automatic => s.enabled = "ON"
    /\ "ON" \notin Buttons /\ s.enabled = "ON" => s.automatic

(* The inductive invariant.                                                *)
IInv ==
    /\ TypeOK
    /\ Len(queue) <= 1
    /\ Consistent(switch)
    /\ Consistent(saved.switch)
    /\ queue # <<>> => Current(Head(queue), switch)
    /\ \A i \in 1..Len(topic) : Offered(topic[i])

(* Nothing waits behind a single delivery.                                 *)
LEMMA TailOne ==
    ASSUME NEW S, NEW q \in Seq(S), q # <<>>, Len(q) <= 1
    PROVE  Head(q) \in S /\ Tail(q) = <<>>
  <1>1. Len(q) \in Nat \ {0}
    BY EmptySeq
  <1>2. Head(q) \in S /\ Tail(q) \in Seq(S) /\ Len(Tail(q)) = Len(q) - 1
    BY HeadTailProperties
  <1>3. Len(Tail(q)) = 0
    BY <1>1, <1>2
  <1> QED  BY <1>2, <1>3, EmptySeq

(* An element put into an empty queue is its head.                         *)
LEMMA PutOne ==
    ASSUME NEW S, NEW e \in S
    PROVE  /\ Append(<<>>, e) \in Seq(S)
           /\ Len(Append(<<>>, e)) = 1
           /\ Append(<<>>, e) # <<>>
           /\ Head(Append(<<>>, e)) = e
  <1>1. Append(<<>>, e) = <<e>>
    OBVIOUS
  <1> QED  BY <1>1

(* Adding to and taking from the commands of the broker.                   *)
LEMMA TopicSteps ==
    ASSUME topic \in Seq(Command), \A i \in 1..Len(topic) : Offered(topic[i])
    PROVE  /\ \A c \in Command : Offered(c) =>
                /\ Append(topic, c) \in Seq(Command)
                /\ \A i \in 1..Len(Append(topic, c)) :
                      Offered(Append(topic, c)[i])
           /\ topic # <<>> =>
                /\ Head(topic) \in Command /\ Offered(Head(topic))
                /\ Tail(topic) \in Seq(Command)
                /\ \A i \in 1..Len(Tail(topic)) : Offered(Tail(topic)[i])
  <1>1. ASSUME NEW c \in Command, Offered(c)
        PROVE  /\ Append(topic, c) \in Seq(Command)
               /\ \A i \in 1..Len(Append(topic, c)) :
                     Offered(Append(topic, c)[i])
    BY <1>1, AppendProperties
  <1>2. ASSUME topic # <<>>
        PROVE  /\ Head(topic) \in Command /\ Offered(Head(topic))
               /\ Tail(topic) \in Seq(Command)
               /\ \A i \in 1..Len(Tail(topic)) : Offered(Tail(topic)[i])
    BY <1>2, HeadTailProperties
  <1> QED  BY <1>1, <1>2

(* The queue after a step of the chain, after its end, and after an entry. *)
LEMMA QueueSteps ==
    ASSUME queue \in Seq(Message), Len(queue) <= 1
    PROVE  /\ queue # <<>> => Head(queue) \in Message
           /\ \A n \in Message : queue # <<>> /\ Forward(n) =>
                /\ queue' \in Seq(Message) /\ Len(queue') <= 1
                /\ queue' # <<>> /\ Head(queue') = n
           /\ queue # <<>> /\ Stop => queue' = <<>>
           /\ <<>> \in Seq(Message) /\ Len(<<>>) <= 1
           /\ \A c \in Command : queue = <<>> /\ Enter(c) =>
                /\ queue' \in Seq(Message) /\ Len(queue') <= 1
                /\ queue' # <<>>
                /\ Head(queue') = [node |-> "facts", command |-> c]
  <1>1. ASSUME queue # <<>> PROVE Head(queue) \in Message /\ Tail(queue) = <<>>
    BY <1>1, TailOne
  <1>2. ASSUME NEW n \in Message, queue # <<>>, Forward(n)
        PROVE  /\ queue' \in Seq(Message) /\ Len(queue') <= 1
               /\ queue' # <<>> /\ Head(queue') = n
    <2>1. queue' = Append(<<>>, n)
      BY <1>1, <1>2 DEF Forward
    <2> QED  BY <2>1, PutOne
  <1>3. queue # <<>> /\ Stop => queue' = <<>>
    BY <1>1 DEF Stop
  <1>4. <<>> \in Seq(Message) /\ Len(<<>>) <= 1
    BY EmptySeq
  <1>5. ASSUME NEW c \in Command, queue = <<>>, Enter(c)
        PROVE  /\ queue' \in Seq(Message) /\ Len(queue') <= 1
               /\ queue' # <<>>
               /\ Head(queue') = [node |-> "facts", command |-> c]
    <2> DEFINE n == [node |-> "facts", command |-> c]
    <2>1. n \in Message
      BY DEF Message, Arrived
    <2>2. queue' = Append(<<>>, n)
      BY <1>5 DEF Enter
    <2> QED  BY <2>1, <2>2, PutOne
  <1> QED  BY <1>1, <1>2, <1>3, <1>4, <1>5

(* Spending keeps the counters natural numbers.                            *)
LEMMA SpendType ==
    ASSUME NEW what \in DOMAIN used, NEW bound,
           used \in [{"presses", "failures", "losses", "restarts"} -> Nat],
           Spend(what, bound)
    PROVE  used' \in [{"presses", "failures", "losses", "restarts"} -> Nat]
  BY DEF Spend

(* Types, however many deliveries wait: of a queue that moves on by one    *)
(* node, and of one that ends a delivery or lets one in.                   *)
LEMMA QueueTyped ==
    ASSUME TypeOK
    PROVE  /\ queue # <<>> => Head(queue) \in Message
           /\ \A n \in Message : queue # <<>> /\ Forward(n) =>
                queue' \in Seq(Message) /\ Len(queue') <= MaxQueue
           /\ queue # <<>> /\ Stop => queue' \in Seq(Message) /\ Len(queue') <= MaxQueue
           /\ \A c \in Command : Enter(c) =>
                queue' \in Seq(Message) /\ Len(queue') <= MaxQueue
  <1>1. queue \in Seq(Message) /\ Len(queue) \in Nat /\ Len(queue) <= MaxQueue
        /\ MaxQueue \in Nat
    BY BypassBounds, LenProperties DEF TypeOK, Message
  <1>2. ASSUME queue # <<>>
        PROVE  /\ Head(queue) \in Message /\ Tail(queue) \in Seq(Message)
               /\ Len(Tail(queue)) \in Nat /\ Len(Tail(queue)) + 1 = Len(queue)
    <2>1. /\ Head(queue) \in Message /\ Tail(queue) \in Seq(Message)
          /\ Len(Tail(queue)) = Len(queue) - 1
      BY <1>1, <1>2, HeadTailProperties
    <2>2. Len(Tail(queue)) \in Nat
      BY <2>1, LenProperties
    <2> QED  BY <1>1, <2>1, <2>2
  <1>3. ASSUME NEW n \in Message, queue # <<>>, Forward(n)
        PROVE  queue' \in Seq(Message) /\ Len(queue') <= MaxQueue
    <2>1. queue' = Append(Tail(queue), n)
      BY <1>3 DEF Forward
    <2>2. queue' \in Seq(Message) /\ Len(queue') = Len(Tail(queue)) + 1
      BY <1>2, <1>3, <2>1, AppendProperties
    <2> QED  BY <1>1, <1>2, <1>3, <2>2
  <1>4. ASSUME queue # <<>>, Stop
        PROVE  queue' \in Seq(Message) /\ Len(queue') <= MaxQueue
    <2>1. queue' = Tail(queue)
      BY <1>4 DEF Stop
    <2> QED  BY <1>1, <1>2, <1>4, <2>1
  <1>5. ASSUME NEW c \in Command, Enter(c)
        PROVE  queue' \in Seq(Message) /\ Len(queue') <= MaxQueue
    <2> DEFINE n == [node |-> "facts", command |-> c]
    <2>1. n \in Message
      BY DEF Message, Arrived
    <2>2. queue' = Append(queue, n) /\ Len(queue) < MaxQueue
      BY <1>5 DEF Enter
    <2> HIDE DEF n
    <2>3. queue' \in Seq(Message) /\ Len(queue') = Len(queue) + 1
      BY <1>1, <2>1, <2>2, AppendProperties
    <2> QED  BY <1>1, <2>2, <2>3
  <1> QED  BY <1>2, <1>3, <1>4, <1>5

(* A node gets what its place in the chain promises, and passes that on.   *)
LEMMA NodeTyped == ASSUME TypeOK, Node  PROVE TypeOK'
  <1> DEFINE m == Head(queue)
             Fits == queue' \in Seq(Message) /\ Len(queue') <= MaxQueue
  <1>1. queue # <<>> /\ m \in Message
    BY QueueTyped DEF Node, At, DeriveFacts, ChooseBranch, CheckOwner,
       RestoreAtStartup, EnableAutomatically, RecoverAutomatically,
       EnableManually, DisableManually, Output
  <1>2. \A n \in Message : Forward(n) => Fits
    BY <1>1, QueueTyped
  <1>3. \A e \in BOOLEAN, f \in {"failed", "healthy", "untold"} : Decide(e, f) => Fits
    BY <1>2 DEF Decide, Message, Decided
  <1>4. Stop => Fits
    BY <1>1, QueueTyped
  <1>5. UNCHANGED <<vehicle, saved, topic, started, used>>
    BY DEF Node, DeriveFacts, ChooseBranch, CheckOwner, RestoreAtStartup,
       EnableAutomatically, RecoverAutomatically, EnableManually, DisableManually, Output
  <1>6. CASE DeriveFacts
    <2>1. m.command \in Command
      BY <1>1, <1>6 DEF DeriveFacts, At, Message, Arrived, Facts, Decided, Branches
    <2>2. BranchOf(m.command) \in Branches
      BY <2>1 DEF BranchOf, Branches
    <2>3. [node |-> "branch", branch |-> BranchOf(m.command),
           previous |-> switch.enabled, owned |-> switch.automatic] \in Message
      BY <2>2 DEF TypeOK, Switch, Message, Facts
    <2> QED  BY <1>2, <1>5, <1>6, <2>3 DEF DeriveFacts, TypeOK, Message
  <1>7. CASE ChooseBranch
    <2>1. m \in Facts
      BY <1>1, <1>7 DEF ChooseBranch, At, Message, Arrived, Decided
    <2>2. [m EXCEPT !.node = IF m.branch = "automatic_recovery"
                             THEN "owner" ELSE m.branch] \in Message
      BY <2>1 DEF Facts, Message
    <2> QED  BY <1>2, <1>5, <1>7, <2>2 DEF ChooseBranch, TypeOK, Message
  <1>8. CASE CheckOwner
    <2>1. m \in Facts
      BY <1>1, <1>8 DEF CheckOwner, At, Message, Arrived, Decided
    <2>2. [m EXCEPT !.node = "recover"] \in Message
      BY <2>1 DEF Facts, Message
    <2> QED  BY <1>2, <1>4, <1>5, <1>8, <2>2 DEF CheckOwner, TypeOK, Message
  <1>9. CASE Output
    <2>1. switch' \in Switch
      BY <1>9 DEF Output, TypeOK, Switch
    <2> QED  BY <1>4, <1>5, <1>9, <2>1 DEF Output, TypeOK, Message, State
  <1>10. CASE \/ RestoreAtStartup \/ EnableAutomatically \/ RecoverAutomatically
              \/ EnableManually \/ DisableManually
    <2>1. Fits /\ published' = published
      BY <1>3, <1>10 DEF RestoreAtStartup, EnableAutomatically, RecoverAutomatically,
         EnableManually, DisableManually
    <2>2. switch' \in Switch
      <3>1. \E on \in State, owned \in BOOLEAN :
                switch' = [switch EXCEPT !.enabled = on, !.automatic = owned]
        <4>1. switch.automatic \in BOOLEAN /\ switch.enabled \in State
              /\ switch = [switch EXCEPT !.enabled = switch.enabled,
                                         !.automatic = switch.automatic]
          BY DEF TypeOK, Switch
        <4>2. CASE RestoreAtStartup
          <5>1. switch' = switch
                \/ switch' = [switch EXCEPT !.enabled = "OFF", !.automatic = switch.automatic]
            BY <4>2 DEF RestoreAtStartup, TypeOK, Switch
          <5> QED  BY <4>1, <5>1 DEF State
        <4>3. CASE EnableAutomatically
          BY <4>1, <4>3 DEF EnableAutomatically, State
        <4>4. CASE RecoverAutomatically \/ EnableManually \/ DisableManually
          BY <4>4 DEF RecoverAutomatically, EnableManually, DisableManually, State
        <4> QED  BY <1>10, <4>2, <4>3, <4>4
      <3> QED  BY <3>1 DEF TypeOK, Switch
    <2> QED  BY <1>5, <2>1, <2>2 DEF TypeOK, Message
  <1> QED  BY <1>6, <1>7, <1>8, <1>9, <1>10 DEF Node

(* Every step keeps the types.                                             *)
LEMMA TypesNext == TypeOK /\ [Next]_vars => TypeOK'
  <1> SUFFICES ASSUME TypeOK, [Next]_vars  PROVE TypeOK'
    OBVIOUS
  <1>1. topic \in Seq(Command) /\ vehicle \in Vehicle
    BY DEF TypeOK
  <1>2. \A r \in {"ON", "OFF"}, s \in FAILURE \cup RECOVERY \cup {"dashboard"} :
            Publish(r, s) => topic' \in Seq(Command)
    <2> SUFFICES ASSUME NEW r \in {"ON", "OFF"},
                        NEW s \in FAILURE \cup RECOVERY \cup {"dashboard"}, Publish(r, s)
                 PROVE  topic' \in Seq(Command)
      OBVIOUS
    <2>1. [requested |-> r, source |-> s] \in Command
      BY DEF Command
    <2> QED  BY <1>1, <2>1, AppendProperties DEF Publish
  <1>3. topic # <<>> => Head(topic) \in Command /\ Tail(topic) \in Seq(Command)
    BY <1>1, HeadTailProperties
  <1>4. /\ [failed |-> TRUE, pending |-> FALSE] \in Vehicle
        /\ [failed |-> FALSE, pending |-> TRUE] \in Vehicle
        /\ [vehicle EXCEPT !.pending = FALSE] \in Vehicle
    BY <1>1 DEF Vehicle
  <1>5. CASE Press \/ CallFails \/ ProviderBackoff \/ ConfirmEvidence \/ Tick \/ Lose
    <2>1. topic' \in Seq(Command)
      <3>1. CASE Press
        BY <1>2, <3>1, BypassBounds DEF Press
      <3>2. CASE CallFails \/ ProviderBackoff
        BY <1>1, <1>2, <3>2 DEF CallFails, ProviderBackoff, FAILURE
      <3>3. CASE Tick
        BY <1>2, <3>3 DEF Tick, RECOVERY
      <3>4. CASE ConfirmEvidence \/ Lose
        BY <1>1, <1>3, <3>4 DEF ConfirmEvidence, Lose
      <3> QED  BY <1>5, <3>1, <3>2, <3>3, <3>4
    <2>2. vehicle' \in Vehicle
      BY <1>1, <1>4, <1>5 DEF Press, CallFails, ProviderBackoff, ConfirmEvidence, Tick, Lose
    <2>3. used' \in [{"presses", "failures", "losses", "restarts"} -> Nat]
      BY <1>5, SpendType DEF TypeOK, Press, CallFails, ProviderBackoff,
             ConfirmEvidence, Tick, Lose, Spend
    <2> QED  BY <1>5, <2>1, <2>2, <2>3 DEF TypeOK, Press, CallFails, ProviderBackoff,
                 ConfirmEvidence, Tick, Lose
  <1>6. CASE Startup
    <2>1. [requested |-> "STARTUP", source |-> "dashboard"] \in Command
      BY DEF Command
    <2> QED  BY <1>6, <2>1, QueueTyped DEF Startup, TypeOK, Message
  <1>7. CASE Receive
    BY <1>3, <1>7, QueueTyped DEF Receive, TypeOK, Message
  <1>8. CASE Flush
    BY <1>8 DEF Flush, TypeOK
  <1>9. CASE Restart
    <2>1. used' \in [{"presses", "failures", "losses", "restarts"} -> Nat]
      BY <1>9, SpendType DEF Restart, TypeOK, Spend
    <2>2. /\ topic' \in Seq(Command)
          /\ queue' \in Seq(Arrived \cup Facts \cup Decided) /\ Len(queue') <= MaxQueue
      BY <1>9, EmptySeq, BypassBounds DEF Restart
    <2> QED  BY <1>9, <2>1, <2>2 DEF Restart, TypeOK
  <1>10. CASE UNCHANGED vars
    BY <1>10 DEF vars, TypeOK
  <1> QED  BY <1>5, <1>6, <1>7, <1>8, <1>9, <1>10, NodeTyped DEF Next

(* At the start every variable is in its domain.                           *)
LEMMA TypesInit == Init => TypeOK
  <1> SUFFICES ASSUME Init PROVE TypeOK
    OBVIOUS
  <1>1. /\ topic \in Seq(Command) /\ Len(topic) = 0
        /\ queue \in Seq(Arrived \cup Facts \cup Decided) /\ Len(queue) = 0
    BY EmptySeq DEF Init
  <1>2. switch \in Switch /\ vehicle \in Vehicle /\ published \in State
    BY DEF Init, Switch, Vehicle, State
  <1>3. Len(queue) <= MaxQueue
    BY <1>1, BypassBounds
  <1>4. used \in [{"presses", "failures", "losses", "restarts"} -> Nat]
    BY DEF Init
  <1>5. saved \in [switch : Switch, vehicle : Vehicle] /\ started \in BOOLEAN
    BY <1>2 DEF Init
  <1> QED  BY <1>1, <1>2, <1>3, <1>4, <1>5 DEF TypeOK

(* Type correctness, for every set of buttons and every bound, however     *)
(* many commands are worked off at a time.                                 *)
THEOREM BypassTypes == Spec => []TypeOK
BY TypesInit, TypesNext, PTL DEF Spec
-----------------------------------------------------------------------------
(* Steps outside the chain change the commands waiting in the broker and   *)
(* the coordinator's record, and nothing the nodes look at.                *)
LEMMA OutsideStep ==
    ASSUME IInv,
           Press \/ CallFails \/ ProviderBackoff \/ ConfirmEvidence \/ Tick \/ Lose
    PROVE  IInv'
  <1> DEFINE Topic == /\ topic \in Seq(Command)
                      /\ \A i \in 1..Len(topic) : Offered(topic[i])
  <1>1. Topic
    BY DEF IInv, TypeOK
  <1>2. ASSUME NEW r \in {"ON", "OFF"}, NEW s \in FAILURE \cup RECOVERY,
               Publish(r, s)
        PROVE  Topic'
    <2> DEFINE c == [requested |-> r, source |-> s]
    <2>1. c \in Command /\ Offered(c)
      BY DEF Command, Offered, FAILURE, RECOVERY
    <2>2. topic' = Append(topic, c)
      BY <1>2 DEF Publish
    <2> QED  BY <1>1, <2>1, <2>2, TopicSteps DEF Offered
  <1>3. ASSUME NEW b \in Buttons, Publish(b, "dashboard")
        PROVE  Topic'
    <2> DEFINE c == [requested |-> b, source |-> "dashboard"]
    <2>1. c \in Command /\ Offered(c)
      BY BypassBounds DEF Command, Offered
    <2>2. topic' = Append(topic, c)
      BY <1>3 DEF Publish
    <2> QED  BY <1>1, <2>1, <2>2, TopicSteps DEF Offered
  <1>4. Topic'
    <2>1. CASE Press
      BY <2>1, <1>3 DEF Press
    <2>2. CASE CallFails
      BY <2>2, <1>1, <1>2 DEF CallFails, FAILURE, Offered
    <2>3. CASE ProviderBackoff
      BY <2>3, <1>2 DEF ProviderBackoff, FAILURE
    <2>4. CASE ConfirmEvidence
      BY <2>4, <1>1 DEF ConfirmEvidence, Offered
    <2>5. CASE Tick
      BY <2>5, <1>2 DEF Tick, RECOVERY
    <2>6. CASE Lose
      BY <2>6, <1>1, TopicSteps DEF Lose, Offered
    <2> QED  BY <2>1, <2>2, <2>3, <2>4, <2>5, <2>6
  <1>5. TypeOK'
    BY TypesNext DEF IInv, Next
  <1>6. UNCHANGED <<switch, saved, queue>>
    BY DEF Press, CallFails, ProviderBackoff, ConfirmEvidence, Tick, Lose
  <1> QED  BY <1>4, <1>5, <1>6 DEF IInv, Consistent, Current, Offered

(* A command enters an idle chain.                                         *)
LEMMA EntryStep ==
    ASSUME IInv, queue = <<>>, Startup \/ Receive
    PROVE  IInv'
  <1>0. queue \in Seq(Message) /\ Len(queue) <= 1
    BY DEF IInv, TypeOK, Message
  <1>1. ASSUME NEW c \in Command, Offered(c), Enter(c)
        PROVE  /\ queue' \in Seq(Message) /\ Len(queue') <= 1
               /\ queue' # <<>> /\ Current(Head(queue), switch)'
    <2>1. /\ queue' \in Seq(Message) /\ Len(queue') <= 1 /\ queue' # <<>>
          /\ Head(queue') = [node |-> "facts", command |-> c]
      BY <1>0, <1>1, QueueSteps
    <2> QED  BY <1>1, <2>1 DEF Current, Acting, Branches, Offered
  <1>20. TypeOK'
    BY TypesNext DEF IInv, Next
  <1>2. CASE Startup
    <2> DEFINE c == [requested |-> "STARTUP", source |-> "dashboard"]
    <2>1. c \in Command /\ Offered(c) /\ Enter(c)
      BY <1>2 DEF Command, Offered, Startup
    <2>2. /\ queue' \in Seq(Message) /\ Len(queue') <= 1
          /\ queue' # <<>> /\ Current(Head(queue), switch)'
      BY <1>1, <2>1
    <2> QED  BY <1>2, <1>20, <2>2 DEF Startup, IInv, Consistent, Offered
  <1>3. CASE Receive
    <2>1. /\ Head(topic) \in Command /\ Offered(Head(topic))
          /\ Tail(topic) \in Seq(Command)
          /\ \A i \in 1..Len(Tail(topic)) : Offered(Tail(topic)[i])
      BY <1>3, TopicSteps DEF Receive, IInv, TypeOK
    <2>2. /\ queue' \in Seq(Message) /\ Len(queue') <= 1
          /\ queue' # <<>> /\ Current(Head(queue), switch)'
      BY <1>1, <1>3, <2>1 DEF Receive
    <2> QED  BY <1>3, <1>20, <2>1, <2>2 DEF Receive, IInv, Consistent, Offered
  <1> QED  BY <1>2, <1>3

(* A delivery reaches its node.  What the node acts on is still true, so   *)
(* what it writes is consistent.                                           *)
LEMMA NodeStep ==
    ASSUME IInv, Node
    PROVE  IInv'
  <1> DEFINE m == Head(queue)
             Fits == /\ queue' \in Seq(Message) /\ Len(queue') <= 1
                     /\ queue' # <<>> => Current(Head(queue), switch)'
  <1>0. queue \in Seq(Message) /\ Len(queue) <= 1
    BY DEF IInv, TypeOK, Message
  <1>1. queue # <<>> /\ m \in Message /\ Current(m, switch)
    BY <1>0, QueueSteps DEF IInv, Node, At, DeriveFacts, ChooseBranch, CheckOwner,
       RestoreAtStartup, EnableAutomatically, RecoverAutomatically,
       EnableManually, DisableManually, Output
  <1>2. ASSUME NEW n \in Message, Forward(n), Current(n, switch')
        PROVE  Fits
    BY <1>0, <1>1, <1>2, QueueSteps DEF Current, Offered
  <1>3. ASSUME Stop
        PROVE  Fits
    BY <1>0, <1>1, <1>3, QueueSteps
  <1>4. ASSUME NEW e \in BOOLEAN, NEW f \in {"failed", "healthy", "untold"},
               Decide(e, f)
        PROVE  Fits
    <2> DEFINE n == [node |-> "output", enabled |-> e, communication |-> f]
    <2>1. n \in Message
      BY DEF Message, Decided
    <2>2. Forward(n)
      BY <1>4 DEF Decide
    <2>3. Current(n, switch')
      BY DEF Current, Acting, Branches
    <2> QED  BY <1>2, <2>1, <2>2, <2>3
  <1>20. TypeOK'
    BY TypesNext DEF IInv, Next
  <1>5. ASSUME Fits, switch' \in Switch, Consistent(switch)', published' \in State,
               UNCHANGED <<vehicle, saved, topic, started, used>>
        PROVE  IInv'
    BY <1>5, <1>20 DEF IInv, Consistent, Offered
  <1>6. m.node \in Acting => m \in Facts
    BY <1>1 DEF Message, Arrived, Facts, Decided, Acting, Branches
  <1>7. CASE DeriveFacts
    <2> DEFINE n == [node |-> "branch", branch |-> BranchOf(m.command),
                     previous |-> switch.enabled, owned |-> switch.automatic]
    <2>1. m.command \in Command /\ Offered(m.command)
      BY <1>1, <1>7 DEF DeriveFacts, At, Message, Arrived, Facts, Decided,
         Branches, Current
    <2>2. /\ BranchOf(m.command) \in Branches
          /\ BranchOf(m.command) = "manual_enable" => "ON" \in Buttons
      BY <2>1 DEF BranchOf, Branches, Command, Offered, FAILURE, RECOVERY
    <2>3. n \in Message
      BY <2>2 DEF IInv, TypeOK, Switch, Message, Facts
    <2>4. UNCHANGED <<switch, vehicle, saved, topic, published, started, used>>
          /\ Forward(n)
      BY <1>7 DEF DeriveFacts
    <2>5. Current(n, switch')
      BY <2>2, <2>4 DEF Current, Acting, Branches
    <2> QED  BY <1>2, <1>5, <2>3, <2>4, <2>5 DEF IInv, TypeOK, Consistent
  <1>8. CASE ChooseBranch
    <2> DEFINE n == [m EXCEPT !.node = IF m.branch = "automatic_recovery"
                                       THEN "owner" ELSE m.branch]
    <2>1. m \in Facts /\ m.node = "branch"
      BY <1>6, <1>8 DEF ChooseBranch, At, Acting
    <2>2. UNCHANGED <<switch, vehicle, saved, topic, published, started, used>>
          /\ Forward(n)
      BY <1>8 DEF ChooseBranch
    <2>3. n \in Message
      BY <2>1 DEF Facts, Message
    <2>4. Current(n, switch')
      BY <1>1, <2>1, <2>2 DEF Current, Acting, Branches, Facts
    <2> QED  BY <1>2, <1>5, <2>2, <2>3, <2>4 DEF IInv, TypeOK, Consistent
  <1>9. CASE CheckOwner
    <2> DEFINE n == [m EXCEPT !.node = "recover"]
    <2>1. m \in Facts /\ m.node = "owner"
      BY <1>6, <1>9 DEF CheckOwner, At, Acting
    <2>2. UNCHANGED <<switch, vehicle, saved, topic, published, started, used>>
      BY <1>9 DEF CheckOwner
    <2>3. CASE m.owned /\ Forward(n)
      <3>1. n \in Message
        BY <2>1 DEF Facts, Message
      <3>2. Current(n, switch')
        BY <1>1, <2>1, <2>2, <2>3 DEF Current, Acting, Branches, Facts
      <3> QED  BY <1>2, <1>5, <2>2, <2>3, <3>1, <3>2 DEF IInv, TypeOK, Consistent
    <2>4. CASE Stop
      BY <1>3, <1>5, <2>2, <2>4 DEF IInv, TypeOK, Consistent
    <2> QED  BY <1>9, <2>3, <2>4 DEF CheckOwner
  <1>10. CASE RestoreAtStartup
    <2>1. Fits
      BY <1>4, <1>10 DEF RestoreAtStartup
    <2>2. m.previous = switch.enabled
      BY <1>1, <1>10 DEF RestoreAtStartup, At, Current, Acting, Branches
    <2>3. switch' \in Switch /\ Consistent(switch)'
      BY <1>10, <2>2 DEF RestoreAtStartup, IInv, TypeOK, Switch, State, Consistent
    <2> QED  BY <1>5, <1>10, <2>1, <2>3 DEF RestoreAtStartup, IInv, TypeOK
  <1>11. CASE EnableAutomatically
    <2>1. Fits
      BY <1>4, <1>11 DEF EnableAutomatically
    <2>2. m.previous = switch.enabled
      BY <1>1, <1>11 DEF EnableAutomatically, At, Current, Acting, Branches
    <2>3. switch' \in Switch /\ Consistent(switch)'
      BY <1>11, <2>2 DEF EnableAutomatically, IInv, TypeOK, Switch, State, Consistent
    <2> QED  BY <1>5, <1>11, <2>1, <2>3 DEF EnableAutomatically, IInv, TypeOK
  <1>12. CASE RecoverAutomatically
    <2>1. Fits
      BY <1>4, <1>12 DEF RecoverAutomatically
    <2>2. switch' \in Switch /\ Consistent(switch)'
      BY <1>12 DEF RecoverAutomatically, IInv, TypeOK, Switch, State, Consistent
    <2> QED  BY <1>5, <1>12, <2>1, <2>2 DEF RecoverAutomatically, IInv, TypeOK
  <1>13. CASE EnableManually
    <2>1. Fits
      BY <1>4, <1>13 DEF EnableManually
    <2>2. "ON" \in Buttons
      BY <1>1, <1>13 DEF EnableManually, At, Current, Acting, Branches
    <2>3. switch' \in Switch /\ Consistent(switch)'
      BY <1>13, <2>2 DEF EnableManually, IInv, TypeOK, Switch, State, Consistent
    <2> QED  BY <1>5, <1>13, <2>1, <2>3 DEF EnableManually, IInv, TypeOK
  <1>14. CASE DisableManually
    <2>1. Fits
      BY <1>4, <1>14 DEF DisableManually
    <2>2. switch' \in Switch /\ Consistent(switch)'
      BY <1>14 DEF DisableManually, IInv, TypeOK, Switch, State, Consistent
    <2> QED  BY <1>5, <1>14, <2>1, <2>2 DEF DisableManually, IInv, TypeOK
  <1>15. CASE Output
    <2>1. Fits
      BY <1>3, <1>15 DEF Output
    <2>2. switch' \in Switch /\ Consistent(switch)'
      BY <1>15 DEF Output, IInv, TypeOK, Switch, Consistent
    <2> QED  BY <1>5, <1>15, <2>1, <2>2 DEF Output, State
  <1> QED
    BY <1>7, <1>8, <1>9, <1>10, <1>11, <1>12, <1>13, <1>14, <1>15 DEF Node

(* The copy on disk was consistent when it was written, and a restart      *)
(* forgets every fact in flight.                                           *)
LEMMA ProcessStep ==
    ASSUME IInv, Flush \/ Restart
    PROVE  IInv'
  <1>1. TypeOK'
    BY TypesNext DEF IInv, Next
  <1>2. CASE Flush
    BY <1>1, <1>2 DEF Flush, IInv, Consistent, Current, Offered
  <1>3. CASE Restart
    <2>1. queue' = <<>> /\ Len(topic') = 0
      BY <1>3, EmptySeq DEF Restart
    <2>2. Consistent(switch)' /\ Consistent(saved.switch)'
      BY <1>3 DEF Restart, IInv, Consistent
    <2> QED  BY <1>1, <2>1, <2>2 DEF IInv
  <1> QED  BY <1>2, <1>3
-----------------------------------------------------------------------------
(* The inductive invariant holds as long as commands enter one by one.     *)
THEOREM Inductive == Spec /\ OneByOne => []IInv
  <1>1. Init => IInv
    <2> SUFFICES ASSUME Init PROVE IInv
      OBVIOUS
    <2>1. Len(topic) = 0 /\ Len(queue) <= 1
      BY EmptySeq DEF Init
    <2> QED  BY <2>1, TypesInit DEF Init, IInv, Consistent
  <1>2. IInv /\ [Next]_vars /\ [Startup \/ Receive => queue = <<>>]_vars => IInv'
    <2> SUFFICES ASSUME IInv, [Next]_vars, [Startup \/ Receive => queue = <<>>]_vars
                 PROVE  IInv'
      OBVIOUS
    <2>1. CASE UNCHANGED vars
      BY <2>1 DEF vars, IInv, TypeOK, Consistent, Current, Offered
    <2> QED  BY <2>1, OutsideStep, EntryStep, NodeStep, ProcessStep DEF Next
  <1> QED  BY <1>1, <1>2, PTL DEF Spec, OneByOne

(* As long as commands enter one by one, automation owns no switch that is *)
(* off, whatever fails, recovers, is pressed, lost or restarted.           *)
THEOREM OwnershipNeedsOn == Spec /\ OneByOne => []AutomaticIsOn
  <1>1. IInv => AutomaticIsOn
    BY DEF IInv, Consistent, AutomaticIsOn
  <1> QED  BY <1>1, Inductive, PTL

(* As long as commands enter one by one, an ON nobody pressed belongs to   *)
(* automation.                                                             *)
THEOREM UnaskedOwned == Spec /\ OneByOne => []UnaskedOnIsAutomatic
  <1>1. IInv => UnaskedOnIsAutomatic
    BY DEF IInv, Consistent, UnaskedOnIsAutomatic
  <1> QED  BY <1>1, Inductive, PTL

(* As long as commands enter one by one, a recovery turns off only what    *)
(* automation owns at that moment.                                         *)
THEOREM ManualOnKept == Spec /\ OneByOne => ManualOnPreserved
  <1>1. IInv => (RecoverAutomatically => switch.automatic)
    BY DEF IInv, RecoverAutomatically, At, Current, Acting, Branches
  <1>2. IInv /\ [Next]_vars => [RecoverAutomatically => switch.automatic]_vars
    BY <1>1
  <1> QED  BY <1>2, Inductive, PTL DEF Spec, ManualOnPreserved
-----------------------------------------------------------------------------
(* What the dashboard shows.  A delivery that is not yet decided finds the *)
(* state shown that the switch has, unless it is the one that restores the *)
(* shown state after a start; a decided one carries the state to show.     *)

Restores(m) == IF m.node = "facts" THEN m.command.requested = "STARTUP"
                                   ELSE m.branch = "startup"
Shows(m, on, shown, s) ==
    /\ m.node = "output" => s.enabled = IF m.enabled THEN "ON" ELSE "OFF"
    /\ m.node = "owner" => m.branch = "automatic_recovery"
    /\ m.node # "output" /\ on /\ ~Restores(m) => shown = s.enabled
Showing ==
    /\ PublishedFollowsSwitch
    /\ queue # <<>> => Shows(Head(queue), started, published, switch)
PInv == IInv /\ Showing

(* What each node of the chain leaves to be shown.                         *)
LEMMA NodeShows ==
    ASSUME PInv, Node
    PROVE  Showing'
  <1> DEFINE m == Head(queue)
  <1>0. queue \in Seq(Message) /\ Len(queue) <= 1
    BY DEF PInv, IInv, TypeOK, Message
  <1>1. queue # <<>> /\ m \in Message /\ Current(m, switch)
        /\ Shows(m, started, published, switch) /\ switch \in Switch
    BY <1>0, QueueSteps DEF PInv, Showing, IInv, TypeOK, Node, At, DeriveFacts,
       ChooseBranch, CheckOwner, RestoreAtStartup, EnableAutomatically,
       RecoverAutomatically, EnableManually, DisableManually, Output
  <1>2. ASSUME NEW n \in Message, Forward(n), Shows(n, started', published', switch')
        PROVE  Showing'
    <2>1. queue' # <<>> /\ Head(queue') = n
      BY <1>0, <1>1, <1>2, QueueSteps
    <2> QED  BY <1>2, <2>1 DEF Showing, PublishedFollowsSwitch
  <1>3. ASSUME Stop, started' => published' = switch'.enabled
        PROVE  Showing'
    <2>1. queue' = <<>>
      BY <1>0, <1>1, <1>3, QueueSteps
    <2> QED  BY <1>3, <2>1 DEF Showing, PublishedFollowsSwitch
  <1>4. ASSUME NEW e \in BOOLEAN, NEW f \in {"failed", "healthy", "untold"},
               Decide(e, f), switch'.enabled = IF e THEN "ON" ELSE "OFF"
        PROVE  Showing'
    <2> DEFINE n == [node |-> "output", enabled |-> e, communication |-> f]
    <2>1. n \in Message /\ Shows(n, started', published', switch')
      BY <1>4 DEF Message, Decided, Shows
    <2> QED  BY <1>2, <1>4, <2>1 DEF Decide
  <1>5. m.node \in Acting => m \in Facts
    BY <1>1 DEF Message, Arrived, Facts, Decided, Acting, Branches
  <1>6. CASE DeriveFacts
    <2> DEFINE n == [node |-> "branch", branch |-> BranchOf(m.command),
                     previous |-> switch.enabled, owned |-> switch.automatic]
    <2>1. m.node = "facts" /\ m.command \in Command
      BY <1>1, <1>6 DEF DeriveFacts, At, Message, Arrived, Facts, Decided, Branches
    <2>2. /\ BranchOf(m.command) \in Branches
          /\ BranchOf(m.command) = "startup" <=> m.command.requested = "STARTUP"
      BY <2>1 DEF BranchOf, Branches, Command
    <2>3. n \in Message
      BY <1>1, <2>2 DEF Switch, Message, Facts
    <2>4. UNCHANGED <<switch, published, started>> /\ Forward(n)
      BY <1>6 DEF DeriveFacts
    <2>5. Shows(n, started', published', switch')
      BY <1>1, <2>1, <2>2, <2>4 DEF Shows, Restores
    <2> QED  BY <1>2, <2>3, <2>4, <2>5
  <1>7. CASE ChooseBranch
    <2> DEFINE node == IF m.branch = "automatic_recovery" THEN "owner" ELSE m.branch
               n == [m EXCEPT !.node = node]
    <2>1. m \in Facts /\ m.node = "branch"
      BY <1>5, <1>7 DEF ChooseBranch, At, Acting
    <2>2. UNCHANGED <<switch, published, started>> /\ Forward(n)
      BY <1>7 DEF ChooseBranch
    <2>3. /\ node \in {"owner"} \cup Branches /\ node \notin {"output", "facts"}
          /\ node = "owner" => m.branch = "automatic_recovery"
      BY <2>1 DEF Facts, Branches
    <2> HIDE DEF node
    <2>4. n \in Message /\ n.node = node /\ n.branch = m.branch
      BY <2>1, <2>3 DEF Facts, Message
    <2> HIDE DEF n
    <2>5. Shows(n, started', published', switch')
      BY <1>1, <2>1, <2>2, <2>3, <2>4 DEF Shows, Restores
    <2> QED  BY <1>2, <2>2, <2>4, <2>5
  <1>8. CASE CheckOwner
    <2> DEFINE n == [m EXCEPT !.node = "recover"]
    <2>1. m \in Facts /\ m.node = "owner" /\ m.branch = "automatic_recovery"
      BY <1>1, <1>5, <1>8 DEF CheckOwner, At, Acting, Shows
    <2>2. UNCHANGED <<switch, published, started>>
      BY <1>8 DEF CheckOwner
    <2>3. started => published = switch.enabled
      BY <1>1, <2>1 DEF Shows, Restores
    <2>4. CASE Forward(n)
      <3>1. n \in Message /\ n.node = "recover"
        BY <2>1 DEF Facts, Message
      <3>2. Shows(n, started', published', switch')
        BY <2>2, <2>3, <3>1 DEF Shows
      <3> QED  BY <1>2, <2>4, <3>1, <3>2
    <2>5. CASE Stop
      BY <1>3, <2>2, <2>3, <2>5
    <2> QED  BY <1>8, <2>4, <2>5 DEF CheckOwner
  <1>9. CASE RestoreAtStartup
    <2>1. m.previous = switch.enabled /\ switch.enabled \in {"undefined", "ON", "OFF"}
      BY <1>1, <1>9 DEF RestoreAtStartup, At, Current, Acting, Branches, Switch, State
    <2>2. switch'.enabled = IF m.previous = "ON" THEN "ON" ELSE "OFF"
      BY <1>1, <1>9, <2>1 DEF RestoreAtStartup, Switch
    <2> QED  BY <1>4, <1>9, <2>2 DEF RestoreAtStartup
  <1>10. CASE EnableAutomatically
    <2>1. switch'.enabled = "ON"
      BY <1>1, <1>10 DEF EnableAutomatically, Switch
    <2> QED  BY <1>4, <1>10, <2>1 DEF EnableAutomatically
  <1>11. CASE RecoverAutomatically
    <2>1. switch'.enabled = "OFF"
      BY <1>1, <1>11 DEF RecoverAutomatically, Switch
    <2> QED  BY <1>4, <1>11, <2>1 DEF RecoverAutomatically
  <1>12. CASE EnableManually
    <2>1. switch'.enabled = "ON"
      BY <1>1, <1>12 DEF EnableManually, Switch
    <2> QED  BY <1>4, <1>12, <2>1 DEF EnableManually
  <1>13. CASE DisableManually
    <2>1. switch'.enabled = "OFF"
      BY <1>1, <1>13 DEF DisableManually, Switch
    <2> QED  BY <1>4, <1>13, <2>1 DEF DisableManually
  <1>14. CASE Output
    <2>1. switch'.enabled = switch.enabled /\ Stop
          /\ published' = IF m.enabled THEN "ON" ELSE "OFF"
      BY <1>1, <1>14 DEF Output, Switch
    <2>2. switch.enabled = IF m.enabled THEN "ON" ELSE "OFF"
      BY <1>1, <1>14 DEF Output, At, Shows
    <2> QED  BY <1>3, <2>1, <2>2
  <1> QED  BY <1>6, <1>7, <1>8, <1>9, <1>10, <1>11, <1>12, <1>13, <1>14 DEF Node

(* A delivery that enters finds the state shown, or restores it.           *)
LEMMA EntryShows ==
    ASSUME PInv, queue = <<>>, Startup \/ Receive
    PROVE  Showing'
  <1>1. queue \in Seq(Message) /\ Len(queue) <= 1 /\ topic \in Seq(Command)
        /\ \A i \in 1..Len(topic) : Offered(topic[i])
    BY DEF PInv, IInv, TypeOK, Message
  <1>2. ASSUME NEW c \in Command, Enter(c)
        PROVE  queue' # <<>> /\ Head(queue') = [node |-> "facts", command |-> c]
    BY <1>1, <1>2, QueueSteps
  <1>3. CASE Startup
    <2> DEFINE c == [requested |-> "STARTUP", source |-> "dashboard"]
    <2>1. c \in Command /\ Enter(c)
      BY <1>3 DEF Command, Startup
    <2> HIDE DEF c
    <2>2. queue' # <<>> /\ Head(queue') = [node |-> "facts", command |-> c]
      BY <1>2, <2>1
    <2> QED  BY <2>2 DEF Showing, PublishedFollowsSwitch, Shows, Restores, c
  <1>4. CASE Receive
    <2>1. Head(topic) \in Command /\ Enter(Head(topic))
      BY <1>1, <1>4, TopicSteps DEF Receive
    <2>2. queue' # <<>>
          /\ Head(queue') = [node |-> "facts", command |-> Head(topic)]
      BY <1>2, <2>1
    <2>3. UNCHANGED <<switch, published, started>>
      BY <1>4 DEF Receive
    <2>4. started => published = switch.enabled
      BY DEF PInv, Showing, PublishedFollowsSwitch
    <2> QED  BY <2>2, <2>3, <2>4 DEF Showing, PublishedFollowsSwitch, Shows
  <1> QED  BY <1>3, <1>4
-----------------------------------------------------------------------------
(* The agreement with the coordinator.  What it has told the switch last is*)
(* the last command under way, or else what the delivery in the chain will *)
(* leave behind, or else the owner of the switch.                          *)

Told == vehicle.failed \/ vehicle.pending
Intends(m, s) ==
    IF m.node = "facts"
    THEN IF m.command.requested = "STARTUP" THEN s.automatic
         ELSE m.command.source \in FAILURE
    ELSE IF m.node = "output" \/ m.branch = "startup" THEN s.automatic
    ELSE m.branch = "automatic_activation"
(* A delivery that nobody pressed for, and what it finds of the failure.   *)
Unpressed(m, s) ==
    /\ m.node = "facts" => \/ m.command.requested = "STARTUP"
                           \/ m.command.source \in FAILURE \cup RECOVERY
    /\ m.node \in Acting =>
           m.branch \in {"startup", "automatic_activation", "automatic_recovery"}
    /\ m.node \in {"owner", "recover"} => m.branch = "automatic_recovery"
    /\ m.node = "output" =>
           /\ m.communication = "failed" => s.automatic
           /\ m.communication = "healthy" => ~s.automatic
           /\ m.communication = "untold" => (s.failed <=> s.automatic)
    /\ m.node # "output" => (s.failed <=> s.automatic)
Agreeing ==
    /\ ~(vehicle.failed /\ vehicle.pending)
    /\ \A i \in 1..Len(topic) :
           topic[i].requested # "STARTUP" /\ topic[i].source \in FAILURE \cup RECOVERY
    /\ topic # <<>> => (topic[Len(topic)].source \in FAILURE <=> Told)
    /\ switch.enabled = "ON" => switch.automatic
    /\ queue # <<>> =>
           /\ Unpressed(Head(queue), switch)
           /\ topic = <<>> => (Intends(Head(queue), switch) <=> Told)
    /\ queue = <<>> =>
           /\ switch.failed <=> switch.automatic
           /\ topic = <<>> => (switch.automatic <=> Told)

(* What was used up stays used up.                                         *)
LEMMA UndisturbedBefore ==
    ASSUME IInv, [Next]_vars, Undisturbed'
    PROVE  Undisturbed /\ ~Press /\ ~Lose /\ ~Restart
  <1>1. used \in [{"presses", "failures", "losses", "restarts"} -> Nat]
    BY DEF IInv, TypeOK
  <1>2. ASSUME NEW what \in {"presses", "losses", "restarts"}, NEW bound, Spend(what, bound)
        PROVE  FALSE
    <2>1. used'[what] = used[what] + 1 /\ used[what] \in Nat
      BY <1>1, <1>2 DEF Spend
    <2> QED  BY <2>1 DEF Undisturbed
  <1>3. ~Press /\ ~Lose /\ ~Restart
    <2>1. ~Spend("presses", MaxPresses) /\ ~Spend("losses", MaxLosses)
          /\ ~Spend("restarts", MaxRestarts)
      BY <1>2
    <2> QED  BY <2>1 DEF Press, Lose, Restart
  <1>4. UNCHANGED used => Undisturbed
    BY DEF Undisturbed
  <1>5. (\E bound : Spend("failures", bound)) => Undisturbed
    BY <1>1 DEF Spend, Undisturbed
  <1>6. UNCHANGED used \/ \E bound : Spend("failures", bound)
    BY <1>3 DEF Next, vars, CallFails, ProviderBackoff, ConfirmEvidence, Tick, Startup,
       Receive, Flush, Node, DeriveFacts, ChooseBranch, CheckOwner, RestoreAtStartup,
       EnableAutomatically, RecoverAutomatically, EnableManually, DisableManually, Output
  <1> QED  BY <1>3, <1>4, <1>5, <1>6

(* The last of the commands, after one is added and after one is taken.    *)
LEMMA LastOne ==
    ASSUME NEW S, NEW q \in Seq(S)
    PROVE  /\ \A c \in S : /\ Append(q, c)[Len(Append(q, c))] = c
                           /\ Append(q, c) # <<>>
                           /\ \A i \in 1..Len(Append(q, c)) :
                                 Append(q, c)[i] = c \/ \E j \in 1..Len(q) : Append(q, c)[i] = q[j]
           /\ q # <<>> =>
                 /\ Tail(q) = <<>> => Head(q) = q[Len(q)]
                 /\ Tail(q) # <<>> => Tail(q)[Len(Tail(q))] = q[Len(q)]
                 /\ Len(q) \in 1..Len(q) /\ 1 \in 1..Len(q) /\ Head(q) = q[1]
                 /\ \A i \in 1..Len(Tail(q)) : \E j \in 1..Len(q) : Tail(q)[i] = q[j]
  <1>1. ASSUME NEW c \in S
        PROVE  /\ Append(q, c)[Len(Append(q, c))] = c
               /\ Append(q, c) # <<>>
               /\ \A i \in 1..Len(Append(q, c)) :
                     Append(q, c)[i] = c \/ \E j \in 1..Len(q) : Append(q, c)[i] = q[j]
    BY AppendProperties
  <1>2. ASSUME q # <<>>
        PROVE  /\ Tail(q) = <<>> => Head(q) = q[Len(q)]
               /\ Tail(q) # <<>> => Tail(q)[Len(Tail(q))] = q[Len(q)]
               /\ Len(q) \in 1..Len(q) /\ 1 \in 1..Len(q) /\ Head(q) = q[1]
               /\ \A i \in 1..Len(Tail(q)) : \E j \in 1..Len(q) : Tail(q)[i] = q[j]
    <2>1. /\ Len(q) \in Nat \ {0} /\ Tail(q) \in Seq(S) /\ Len(Tail(q)) = Len(q) - 1
          /\ Head(q) = q[1] /\ \A i \in 1..Len(Tail(q)) : Tail(q)[i] = q[i+1]
      BY <1>2, EmptySeq, HeadTailProperties
    <2>2. Tail(q) = <<>> => Len(q) = 1
      BY <2>1, EmptySeq
    <2>3. Tail(q) # <<>> => Len(Tail(q)) \in Nat \ {0}
      BY <2>1, EmptySeq
    <2>4. Tail(q) # <<>> => Tail(q)[Len(Tail(q))] = q[Len(q)]
      BY <2>1, <2>3
    <2>5. \A i \in 1..Len(Tail(q)) : i + 1 \in 1..Len(q)
      BY <2>1
    <2> QED  BY <2>1, <2>2, <2>4, <2>5
  <1> QED  BY <1>1, <1>2

(* The coordinator tells the switch of what changes.                       *)
LEMMA OutsideAgrees ==
    ASSUME PInv, Agreeing, CallFails \/ ProviderBackoff \/ ConfirmEvidence \/ Tick
    PROVE  Agreeing'
  <1>0. topic \in Seq(Command) /\ vehicle \in Vehicle
    BY DEF PInv, IInv, TypeOK
  <1>1. UNCHANGED <<switch, queue>>
    BY DEF CallFails, ProviderBackoff, ConfirmEvidence, Tick
  <1>2. ASSUME UNCHANGED topic, Told' <=> Told, ~(vehicle'.failed /\ vehicle'.pending)
        PROVE  Agreeing'
    BY <1>1, <1>2 DEF Agreeing
  <1>3. ASSUME NEW r \in {"ON", "OFF"}, NEW src \in FAILURE \cup RECOVERY,
               Publish(r, src), Told' <=> src \in FAILURE,
               ~(vehicle'.failed /\ vehicle'.pending)
        PROVE  Agreeing'
    <2> DEFINE c == [requested |-> r, source |-> src]
    <2>1. c \in Command /\ topic' = Append(topic, c)
      BY <1>3 DEF Command, Publish
    <2>2. /\ topic'[Len(topic')] = c /\ topic' # <<>>
          /\ \A i \in 1..Len(topic') : topic'[i] = c \/ \E j \in 1..Len(topic) : topic'[i] = topic[j]
      BY <1>0, <2>1, LastOne
    <2>3. c.requested # "STARTUP" /\ c.source = src
      OBVIOUS
    <2> HIDE DEF c
    <2>4. \A i \in 1..Len(topic') : topic'[i].requested # "STARTUP"
              /\ topic'[i].source \in FAILURE \cup RECOVERY
      BY <1>3, <2>2, <2>3 DEF Agreeing
    <2> QED  BY <1>1, <1>3, <2>2, <2>3, <2>4 DEF Agreeing
  <1>4. CASE CallFails /\ vehicle.failed
    <2>1. UNCHANGED topic /\ vehicle' = [failed |-> TRUE, pending |-> FALSE]
      BY <1>4 DEF CallFails
    <2> QED  BY <1>2, <1>4, <2>1 DEF Told
  <1>5. CASE CallFails /\ ~vehicle.failed
    <2>1. Publish("ON", "api_failure") /\ vehicle' = [failed |-> TRUE, pending |-> FALSE]
      BY <1>5 DEF CallFails
    <2> QED  BY <1>3, <2>1 DEF Told, FAILURE
  <1>6. CASE ProviderBackoff
    <2>1. Publish("ON", "provider_backoff") /\ vehicle' = [failed |-> TRUE, pending |-> FALSE]
      BY <1>6 DEF ProviderBackoff
    <2> QED  BY <1>3, <2>1 DEF Told, FAILURE
  <1>7. CASE ConfirmEvidence
    <2>1. vehicle.failed /\ vehicle' = [failed |-> FALSE, pending |-> TRUE] /\ UNCHANGED topic
      BY <1>7 DEF ConfirmEvidence
    <2> QED  BY <1>2, <2>1 DEF Told
  <1>8. CASE Tick
    <2>1. Publish("OFF", "api_recovered") /\ vehicle.pending
          /\ vehicle'.failed = vehicle.failed /\ vehicle'.pending = FALSE
      BY <1>0, <1>8 DEF Tick, Vehicle
    <2>2. ~vehicle.failed
      BY <2>1 DEF Agreeing
    <2> QED  BY <1>3, <2>1, <2>2 DEF Told, FAILURE, RECOVERY
  <1> QED  BY <1>4, <1>5, <1>6, <1>7, <1>8

(* A command enters an idle chain.                                         *)
LEMMA EntryAgrees ==
    ASSUME PInv, Agreeing, queue = <<>>, Startup \/ Receive
    PROVE  Agreeing'
  <1>1. queue \in Seq(Message) /\ Len(queue) <= 1 /\ topic \in Seq(Command)
        /\ \A i \in 1..Len(topic) : Offered(topic[i])
    BY DEF PInv, IInv, TypeOK, Message
  <1>2. ASSUME NEW c \in Command, Enter(c)
        PROVE  queue' # <<>> /\ Head(queue') = [node |-> "facts", command |-> c]
    BY <1>1, <1>2, QueueSteps
  <1>3. CASE Startup
    <2> DEFINE c == [requested |-> "STARTUP", source |-> "dashboard"]
    <2>1. c \in Command /\ Enter(c) /\ c.requested = "STARTUP"
      BY <1>3 DEF Command, Startup
    <2> HIDE DEF c
    <2>2. queue' # <<>> /\ Head(queue') = [node |-> "facts", command |-> c]
      BY <1>2, <2>1
    <2>3. UNCHANGED <<switch, vehicle, topic>>
      BY <1>3 DEF Startup
    <2>4. Unpressed(Head(queue'), switch) /\ (Intends(Head(queue'), switch) <=> switch.automatic)
      BY <2>1, <2>2 DEF Agreeing, Unpressed, Intends, Acting, Branches
    <2> QED  BY <2>2, <2>3, <2>4 DEF Agreeing, Told
  <1>4. CASE Receive
    <2>1. topic # <<>> /\ Head(topic) \in Command /\ Enter(Head(topic))
      BY <1>1, <1>4, TopicSteps DEF Receive
    <2>2. queue' # <<>>
          /\ Head(queue') = [node |-> "facts", command |-> Head(topic)]
      BY <1>2, <2>1
    <2>3. UNCHANGED <<switch, vehicle>> /\ topic' = Tail(topic)
      BY <1>4 DEF Receive
    <2>4. /\ Head(topic).requested # "STARTUP"
          /\ Head(topic).source \in FAILURE \cup RECOVERY
          /\ \A i \in 1..Len(topic') :
                topic'[i].requested # "STARTUP" /\ topic'[i].source \in FAILURE \cup RECOVERY
      BY <1>1, <2>1, <2>3, LastOne DEF Agreeing
    <2>5. /\ topic' # <<>> => (topic'[Len(topic')].source \in FAILURE <=> Told)
          /\ topic' = <<>> => (Head(topic).source \in FAILURE <=> Told)
      BY <1>1, <2>1, <2>3, LastOne DEF Agreeing
    <2>6. Unpressed(Head(queue'), switch)
      BY <2>2, <2>4 DEF Agreeing, Unpressed, Acting, Branches
    <2>7. Intends(Head(queue'), switch) <=> Head(topic).source \in FAILURE
      BY <2>2, <2>4 DEF Intends
    <2> QED  BY <2>2, <2>3, <2>4, <2>5, <2>6, <2>7 DEF Agreeing, Told
  <1> QED  BY <1>3, <1>4

(* The nodes hand on what was told, and carry it out.                      *)
LEMMA NodeAgrees ==
    ASSUME PInv, Agreeing, Node
    PROVE  Agreeing'
  <1> DEFINE m == Head(queue)
  <1>0. queue \in Seq(Message) /\ Len(queue) <= 1
    BY DEF PInv, IInv, TypeOK, Message
  <1>1. /\ queue # <<>> /\ m \in Message /\ Current(m, switch) /\ switch \in Switch
        /\ Unpressed(m, switch) /\ Consistent(switch)
        /\ topic = <<>> => (Intends(m, switch) <=> Told)
        /\ switch.enabled = "ON" => switch.automatic
    BY <1>0, QueueSteps DEF PInv, IInv, TypeOK, Node, At, DeriveFacts,
       ChooseBranch, CheckOwner, RestoreAtStartup, EnableAutomatically,
       RecoverAutomatically, EnableManually, DisableManually, Output, Agreeing
  <1>2. UNCHANGED <<vehicle, topic>>
    BY DEF Node, DeriveFacts, ChooseBranch, CheckOwner, RestoreAtStartup,
       EnableAutomatically, RecoverAutomatically, EnableManually, DisableManually, Output
  <1>3. ASSUME NEW n \in Message, Forward(n), Unpressed(n, switch'),
               Intends(n, switch') <=> Intends(m, switch),
               switch'.enabled = "ON" => switch'.automatic
        PROVE  Agreeing'
    <2>1. queue' # <<>> /\ Head(queue') = n
      BY <1>0, <1>1, <1>3, QueueSteps
    <2> HIDE DEF m
    <2> QED  BY <1>1, <1>2, <1>3, <2>1 DEF Agreeing, Told
  <1>4. ASSUME Stop, switch'.failed <=> switch'.automatic,
               Intends(m, switch) <=> switch'.automatic,
               switch'.enabled = "ON" => switch'.automatic
        PROVE  Agreeing'
    <2>1. queue' = <<>>
      BY <1>0, <1>1, <1>4, QueueSteps
    <2> HIDE DEF m
    <2> QED  BY <1>1, <1>2, <1>4, <2>1 DEF Agreeing, Told
  <1>5. ASSUME NEW e \in BOOLEAN, NEW f \in {"failed", "healthy", "untold"}, Decide(e, f),
               /\ f = "failed" => switch'.automatic
               /\ f = "healthy" => ~switch'.automatic
               /\ f = "untold" => (switch'.failed <=> switch'.automatic),
               switch'.automatic <=> Intends(m, switch),
               switch'.enabled = "ON" => switch'.automatic
        PROVE  Agreeing'
    <2> DEFINE n == [node |-> "output", enabled |-> e, communication |-> f]
    <2>1. n \in Message
      BY DEF Message, Decided
    <2>2. Unpressed(n, switch') /\ (Intends(n, switch') <=> switch'.automatic)
      BY <1>5 DEF Unpressed, Intends, Acting, Branches
    <2> HIDE DEF m
    <2> QED  BY <1>3, <1>5, <2>1, <2>2 DEF Decide
  <1>6. m.node \in Acting => m \in Facts
    BY <1>1 DEF Message, Arrived, Facts, Decided, Acting, Branches
  <1>7. CASE DeriveFacts
    <2> DEFINE n == [node |-> "branch", branch |-> BranchOf(m.command),
                     previous |-> switch.enabled, owned |-> switch.automatic]
    <2>1. m.node = "facts" /\ m.command \in Command
      BY <1>1, <1>7 DEF DeriveFacts, At, Message, Arrived, Facts, Decided, Branches
    <2>2. \/ m.command.requested = "STARTUP" /\ BranchOf(m.command) = "startup"
          \/ /\ m.command.requested # "STARTUP" /\ m.command.source \in FAILURE
             /\ BranchOf(m.command) = "automatic_activation"
          \/ /\ m.command.requested # "STARTUP" /\ m.command.source \notin FAILURE
             /\ BranchOf(m.command) = "automatic_recovery"
      BY <1>1, <2>1 DEF Unpressed, BranchOf, FAILURE, RECOVERY
    <2>3. n \in Message
      BY <1>1, <2>2 DEF Switch, Message, Facts, Branches
    <2>4. UNCHANGED switch /\ Forward(n)
      BY <1>7 DEF DeriveFacts
    <2>5. Unpressed(n, switch)
      BY <1>1, <2>1, <2>2 DEF Unpressed
    <2>6. Intends(n, switch) <=> Intends(m, switch)
      BY <2>1, <2>2 DEF Intends
    <2> QED  BY <1>1, <1>3, <2>3, <2>4, <2>5, <2>6
  <1>8. CASE ChooseBranch
    <2> DEFINE node == IF m.branch = "automatic_recovery" THEN "owner" ELSE m.branch
               n == [m EXCEPT !.node = node]
    <2>1. m \in Facts /\ m.node = "branch"
      BY <1>6, <1>8 DEF ChooseBranch, At, Acting
    <2>2. UNCHANGED switch /\ Forward(n)
      BY <1>8 DEF ChooseBranch
    <2>3. m.branch \in {"startup", "automatic_activation", "automatic_recovery"}
      BY <1>1, <2>1 DEF Unpressed, Acting
    <2>4. /\ node \in {"owner", "startup", "automatic_activation"}
          /\ node = "owner" => m.branch = "automatic_recovery"
      BY <2>3
    <2> HIDE DEF node
    <2>5. n \in Message /\ n.node = node /\ n.branch = m.branch
      BY <2>1, <2>4 DEF Facts, Message, Branches
    <2> HIDE DEF n
    <2>6. Unpressed(n, switch)
      BY <1>1, <2>1, <2>3, <2>4, <2>5 DEF Unpressed
    <2>7. Intends(n, switch) <=> Intends(m, switch)
      BY <2>1, <2>4, <2>5 DEF Intends
    <2> QED  BY <1>1, <1>3, <2>2, <2>5, <2>6, <2>7
  <1>9. CASE CheckOwner
    <2> DEFINE n == [m EXCEPT !.node = "recover"]
    <2>1. m \in Facts /\ m.node = "owner" /\ m.branch = "automatic_recovery"
          /\ (switch.failed <=> switch.automatic) /\ m.owned = switch.automatic
      BY <1>1, <1>6, <1>9 DEF CheckOwner, At, Acting, Unpressed, Current
    <2>2. UNCHANGED switch /\ IF m.owned THEN Forward(n) ELSE Stop
      BY <1>9 DEF CheckOwner
    <2>3. ~Intends(m, switch)
      BY <2>1 DEF Intends
    <2>4. CASE m.owned
      <3>1. n \in Message /\ n.node = "recover" /\ n.branch = "automatic_recovery"
        BY <2>1 DEF Facts, Message
      <3> HIDE DEF n
      <3>2. Unpressed(n, switch) /\ ~Intends(n, switch)
        BY <1>1, <2>1, <3>1 DEF Unpressed, Intends
      <3> QED  BY <1>1, <1>3, <2>2, <2>3, <2>4, <3>1, <3>2
    <2>5. CASE ~m.owned
      <3>1. ~switch.automatic
        BY <2>1, <2>5
      <3> QED  BY <1>1, <1>4, <2>1, <2>2, <2>3, <2>5, <3>1
    <2> QED  BY <2>4, <2>5
  <1>10. CASE RestoreAtStartup
    <2>1. m.node = "startup" /\ m.branch = "startup" /\ m.node \in Acting
      BY <1>1, <1>10 DEF RestoreAtStartup, At, Current, Acting, Branches
    <2>2. (switch.failed <=> switch.automatic) /\ (Intends(m, switch) <=> switch.automatic)
      BY <1>1, <2>1 DEF Unpressed, Intends
    <2>3. /\ switch'.automatic = switch.automatic /\ switch'.failed = switch.failed
          /\ switch'.enabled = "ON" => switch.enabled = "ON"
      BY <1>1, <1>10 DEF RestoreAtStartup, Switch
    <2>4. Decide(m.previous = "ON", "untold")
      BY <1>10 DEF RestoreAtStartup
    <2> QED  BY <1>1, <1>5, <2>2, <2>3, <2>4
  <1>11. CASE EnableAutomatically
    <2>1. m.node = "automatic_activation" /\ m.branch = "automatic_activation"
          /\ m.previous = switch.enabled
      BY <1>1, <1>11 DEF EnableAutomatically, At, Current, Acting, Branches
    <2>2. Intends(m, switch)
      BY <2>1 DEF Intends
    <2>3. switch.automatic \/ m.previous # "ON"
      BY <1>1, <2>1
    <2>4. switch'.automatic = (switch.automatic \/ m.previous # "ON")
      BY <1>1, <1>11 DEF EnableAutomatically, Switch
    <2>5. Decide(TRUE, "failed")
      BY <1>11 DEF EnableAutomatically
    <2>6. switch'.automatic
      BY <2>3, <2>4
    <2> QED  BY <1>5, <2>2, <2>5, <2>6
  <1>12. CASE RecoverAutomatically
    <2>1. m.node = "recover" /\ m.branch = "automatic_recovery"
      BY <1>1, <1>12 DEF RecoverAutomatically, At, Unpressed
    <2>2. ~Intends(m, switch)
      BY <2>1 DEF Intends
    <2>3. switch'.automatic = FALSE /\ switch'.enabled = "OFF"
      BY <1>1, <1>12 DEF RecoverAutomatically, Switch
    <2> QED  BY <1>5, <1>12, <2>2, <2>3 DEF RecoverAutomatically
  <1>13. ~EnableManually /\ ~DisableManually
    BY <1>1 DEF EnableManually, DisableManually, At, Current, Acting, Branches, Unpressed
  <1>14. CASE Output
    <2>1. m.node = "output" /\ m \in Decided /\ Stop
      BY <1>1, <1>14 DEF Output, At, Message, Arrived, Facts, Branches
    <2>2. Intends(m, switch) <=> switch.automatic
      BY <2>1 DEF Intends
    <2>3. switch'.automatic = switch.automatic /\ switch'.enabled = switch.enabled
      BY <1>1, <1>14 DEF Output, Switch
    <2>4. switch'.failed <=> switch.automatic
      <3>1. CASE m.communication = "untold"
        <4>1. switch' = switch
          BY <1>14, <3>1 DEF Output
        <4> QED  BY <1>1, <2>1, <3>1, <4>1 DEF Unpressed
      <3>2. CASE m.communication # "untold"
        <4>1. switch'.failed = (m.communication = "failed")
          BY <1>1, <1>14, <3>2 DEF Output, Switch
        <4>2. m.communication \in {"failed", "healthy"}
          BY <2>1, <3>2 DEF Decided
        <4>3. m.communication = "failed" <=> switch.automatic
          BY <1>1, <2>1, <4>2 DEF Unpressed
        <4> QED  BY <4>1, <4>3
      <3> QED  BY <3>1, <3>2
    <2> QED  BY <1>1, <1>4, <2>1, <2>2, <2>3, <2>4
  <1> QED
    BY <1>7, <1>8, <1>9, <1>10, <1>11, <1>12, <1>13, <1>14 DEF Node

(* Every step keeps what is shown.                                         *)
LEMMA ShowingStep ==
    ASSUME PInv, [Next]_vars, [Startup \/ Receive => queue = <<>>]_vars
    PROVE  Showing'
  <1>1. CASE UNCHANGED <<switch, queue, published, started>>
    BY <1>1 DEF PInv, Showing, PublishedFollowsSwitch
  <1>2. CASE Restart
    BY <1>2 DEF Restart, Showing, PublishedFollowsSwitch
  <1> QED  BY <1>1, <1>2, NodeShows, EntryShows DEF Next, vars, Press, CallFails,
              ProviderBackoff, ConfirmEvidence, Tick, Lose, Flush

(* Once started and idle, the retained state is the state of the switch,   *)
(* whatever was pressed, failed, lost or restarted before, as long as      *)
(* commands enter one by one.                                              *)
THEOREM DashboardFollows == Spec /\ OneByOne => []PublishedFollowsSwitch
  <1>1. Init => Showing
    BY DEF Init, Showing, PublishedFollowsSwitch
  <1>2. IInv /\ Showing /\ [Next]_vars /\ [Startup \/ Receive => queue = <<>>]_vars
            => Showing'
    BY ShowingStep DEF PInv
  <1>3. Showing => PublishedFollowsSwitch
    BY DEF Showing
  <1> QED  BY <1>1, <1>2, <1>3, Inductive, PTL DEF Spec, OneByOne

(* Until somebody presses a button, a command is lost or the process goes  *)
(* down, the switch ends up where the coordinator stands, in whatever order*)
(* failures, recoveries and the startup have crossed the broker, as long as*)
(* each is worked off before the next enters.                              *)
THEOREM AgreementKept == Spec /\ OneByOne => []QuietMeansAgreed
  <1> DEFINE UInv == Undisturbed => Agreeing
  <1>1. Init => Showing /\ UInv
    <2> SUFFICES ASSUME Init  PROVE Showing /\ Agreeing
      OBVIOUS
    <2>1. Showing
      BY DEF Init, Showing, PublishedFollowsSwitch
    <2>2. topic = <<>> /\ Len(topic) = 0 /\ queue = <<>>
      BY EmptySeq DEF Init
    <2>3. Agreeing
      BY <2>2 DEF Init, Agreeing, Told
    <2> QED  BY <2>1, <2>3
  <1>2. IInv /\ Showing /\ UInv /\ [Next]_vars /\ [Startup \/ Receive => queue = <<>>]_vars
            => Showing' /\ UInv'
    <2> SUFFICES ASSUME PInv, UInv, [Next]_vars, [Startup \/ Receive => queue = <<>>]_vars
                 PROVE  Showing' /\ UInv'
      BY DEF PInv
    <2>1. Showing'
      BY ShowingStep
    <2>2. ASSUME Undisturbed'  PROVE Agreeing'
      <3>1. Undisturbed /\ ~Press /\ ~Lose /\ ~Restart
        BY <2>2, UndisturbedBefore DEF PInv
      <3>2. Agreeing
        BY <3>1
      <3>3. CASE UNCHANGED <<switch, vehicle, topic, queue>>
        BY <3>2, <3>3 DEF Agreeing, Told
      <3> QED  BY <3>1, <3>2, <3>3, OutsideAgrees, EntryAgrees, NodeAgrees DEF Next, vars, Flush
    <2> QED  BY <2>1, <2>2
  <1>3. IInv /\ Showing /\ UInv => QuietMeansAgreed
    <2> SUFFICES ASSUME IInv, Showing, Agreeing, Quiet, started
                 PROVE  /\ CommunicationFailed <=> vehicle.failed
                        /\ published = "ON" <=> vehicle.failed
      BY DEF QuietMeansAgreed
    <2>1. (switch.automatic <=> vehicle.failed) /\ (switch.failed <=> switch.automatic)
      BY DEF Agreeing, Quiet, Told
    <2>2. switch.enabled = "ON" <=> switch.automatic
      BY DEF Agreeing, IInv, Consistent
    <2>3. published = switch.enabled
      BY DEF Showing, PublishedFollowsSwitch, Quiet
    <2> QED  BY <2>1, <2>2, <2>3 DEF CommunicationFailed
  <1> HIDE DEF UInv
  <1> QED  BY <1>1, <1>2, <1>3, Inductive, PTL DEF Spec, OneByOne
=============================================================================
