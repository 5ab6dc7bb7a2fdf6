--------------------------- MODULE MCEventDelivery ---------------------------
(* A subscription to notifications, one that may continue it at the same   *)
(* address and one at another, and three events.                           *)
EXTENDS EventDelivery, TLC

CONSTANTS narrow, wide, moved, h1, h2, t1

MCTopics == narrow :> {"ha"} @@ wide :> {"ha", "task"} @@ moved :> {"ha", "task"}
MCUrl == narrow :> "old" @@ wide :> "old" @@ moved :> "new"
MCTopic == h1 :> "ha" @@ h2 :> "ha" @@ t1 :> "task"
MCObject == [e \in Events |-> e]

Budget(subscribe, unsubscribe, arm, crash, back, event, tick) ==
    [subscribe |-> subscribe, unsubscribe |-> unsubscribe, arm |-> arm,
     crash |-> crash, back |-> back, event |-> event, tick |-> tick]
(* A handover with two events; one with a cancellation; one asked for again *)
(* and one with a crash; a clock set back; one subscription, all events.   *)
MCBudgets == {Budget(2, 0, 1, 0, 0, 2, 3), Budget(2, 1, 1, 0, 0, 1, 3),
              Budget(3, 1, 1, 1, 0, 0, 4), Budget(2, 0, 0, 1, 1, 1, 3),
              Budget(1, 0, 0, 0, 0, 3, 4)}
Alike == Permutations({h1, h2})
=============================================================================
