---------------------------- MODULE EventDelivery ----------------------------
(***************************************************************************)
(* The delivery of observations to a subscriber's webhook                  *)
(* (scripts/raspberry-mcp/runtime-source/native-events).                   *)
(*                                                                         *)
(* One single-threaded worker serves subscribers and polls its sources.    *)
(* A batch and its members are committed as uncertain before the POST, and *)
(* a reply that does not come leaves them so.  A subscription to           *)
(* notifications only may be continued by one to both topics, which takes  *)
(* over its start and leaves out what it has sent.                         *)
(*                                                                         *)
(* Instants are ticks of the wall clock, which may be set back.            *)
(***************************************************************************)
EXTENDS Integers, FiniteSets, Sequences

CONSTANTS
    Subs, Topics, Url,      \* subscriptions, what each asks for, its address
    Events, Topic, Object,  \* events, the topic and the object of each
    MaxGroups,              \* objects a batch may be about
    Window,                 \* ticks an event stays eligible
    Spacing,                \* ticks between two batches
    Life, Ttls,             \* longest lease, and the leases asked for
    Grace,                  \* ticks a marker, a grant, a verification is good
    Persist,                \* ticks between two writes of the clock
    MaxAge,                 \* bound: ticks until an event is taken in
    Horizon,                \* bound: the last instant
    Budgets                 \* bound, one to choose from: subscriptions
                            \* asked for, cancelled, grants, crashes, steps
                            \* back of the clock, events taken in;
                            \* and the last instant of it

Time == 0 .. Horizon
Min(a, b) == IF a < b THEN a ELSE b
Later(a, b) == IF a > b THEN a ELSE b

ASSUME DeliveryAssumption ==
    /\ IsFiniteSet(Subs) /\ Subs # {}
    /\ Topics \in [Subs -> (SUBSET {"ha", "task"}) \ {{}}]
    /\ Topic \in [Events -> {"ha", "task"}]
    /\ {MaxGroups, Window, Spacing, Life, Grace, Persist, Horizon}
           \subseteq Nat \ {0}
    /\ Spacing <= Window /\ MaxAge \in 0 .. Window
    /\ Ttls \subseteq Nat
    /\ Budgets \subseteq [{"subscribe", "unsubscribe", "arm", "crash", "back",
                            "event", "tick"} -> Nat]

VARIABLES
    subscriptions,  \* the table: lease and start of each subscription
    events,         \* events and event_archive
    dispatch,       \* delivery_batches, _members and dispatch, in one
    lineage,        \* pairs of a successor and its predecessor
    markers,        \* subscription_transition_markers
    grant,          \* meta: subscription_handover
    mark,           \* meta: clock
    high_clock,     \* the highest clock in memory
    worker,         \* what the worker waits for
    wire,           \* batches posted and not arrived, or lost
    heard,          \* batches the receiver has taken
    asked,          \* challenges sent under the present grant
    wall, latest,   \* the wall clock, and the highest it has been
    stepped,        \* that it was set back
    budget          \* what is left of the bound

vars == <<subscriptions, events, dispatch, lineage, markers, grant, mark,
          high_clock, worker, wire, heard, asked, wall, latest, stepped, budget>>
marks == <<mark, high_clock>>
clock == <<wall, latest, stepped>>
tables == <<subscriptions, events, dispatch, lineage, markers>>
network == <<wire, heard>>
-----------------------------------------------------------------------------
Subscription == [known : BOOLEAN, active : BOOLEAN, started : Time,
                 expires : 0 .. Horizon + Life, verified : Time]
Unknown == [known |-> FALSE, active |-> FALSE, started |-> 0, expires |-> 0,
            verified |-> 0]
Event == [place : {"unknown", "held", "archived"}, created : Time,
          reason : {"none", "covered_by_summary", "eligibility_window_elapsed"}]
Unseen == [place |-> "unknown", created |-> 0, reason |-> "none"]
Batch == [sub : Subs, members : SUBSET Events, at : Time]
Dispatch == [sub : Subs, members : SUBSET Events, at : Time,
             state : {"uncertain", "webhook_accepted", "delivery_refused"}]
Grant == [state : {"none", "armed", "verification_intent",
                   "verification_unconfirmed", "completed"},
          predecessor : Subs, old_started : Time,
          old_expires : 0 .. Horizon + Life,
          armed_at : Time, expires_at : 0 .. Horizon + Life]
Free == [step |-> "idle"]
Worker == {Free}
    \cup [step : {"sending", "posting"}, batch : Batch]
    \cup [step : {"verifying"}, sub : Subs, from : SUBSET Subs,
          handover : BOOLEAN, began : Time, ttl : Ttls]

Init ==
    /\ subscriptions = [s \in Subs |-> Unknown]
    /\ events = [e \in Events |-> Unseen]
    /\ dispatch = {} /\ lineage = {} /\ markers = {}
    /\ grant = [state |-> "none", predecessor |-> CHOOSE s \in Subs : TRUE,
                old_started |-> 0, old_expires |-> 0, armed_at |-> 0,
                expires_at |-> 0]
    /\ mark = 0 /\ high_clock = 0 /\ wall = 0 /\ latest = 0 /\ stepped = FALSE
    /\ worker = Free
    /\ wire = {} /\ heard = <<>> /\ asked = 0
    /\ budget \in Budgets

Spend(b) == budget[b] > 0 /\ budget' = [budget EXCEPT ![b] = @ - 1]

(* A clock behind its mark is refused; the mark is written now and then.   *)
Now ==
    /\ wall >= Later(mark, high_clock)
    /\ high_clock' = wall
    /\ mark' = IF wall - mark >= Persist THEN wall ELSE mark

Live(s, t) == subscriptions[s].active /\ subscriptions[s].expires > t
Lives(t) == {s \in Subs : Live(s, t)}
Narrow(s) == Topics[s] = {"ha"}
Both(s) == Topics[s] = {"ha", "task"}
Marked(p, from) == \E m \in markers : m.predecessor = p /\ m.at \in from .. wall
-----------------------------------------------------------------------------
(* What is to be sent.                                                     *)

BadCovered(e, s) == \E d \in dispatch : e \in d.members /\ d.sub = s
Covered(e, s) ==
    \E d \in dispatch :
        /\ e \in d.members
        /\ d.sub = s \/ <<s, d.sub>> \in lineage

Eligible(s, table, now) ==
    {e \in Events :
        /\ table[e].place = "held"
        /\ table[e].created >= Later(now - Window, subscriptions[s].started)
        /\ Topic[e] \in Topics[s]
        /\ ~Covered(e, s)}

First(rows, table) == {e \in rows : \A f \in rows : table[e].created <= table[f].created}

(* All of a topic if it fits; otherwise the newest of notifications alone, *)
(* which the current state reorders, and the oldest of anything else.      *)
BadTopicBatches(f, rows, table) ==
    LET same == {e \in rows : Topic[e] = Topic[f]}
        objects == {Object[e] : e \in same}
        size == Min(MaxGroups, Cardinality(objects))
        kept(some) == {e \in same : Object[e] \in some}
    IN {kept(some) : some \in {o \in SUBSET objects : Cardinality(o) = size}}
TopicBatches(f, rows, table) ==
    LET same == {e \in rows : Topic[e] = Topic[f]}
        objects == {Object[e] : e \in same}
        size == Min(MaxGroups, Cardinality(objects))
        inOrder == Topic[f] = "task" \/ same # rows
        kept(some) == {e \in same : Object[e] \in some}
    IN {kept(some) : some \in {o \in SUBSET objects :
            Cardinality(o) = size /\ (inOrder => kept(o) \cap First(same, table) # {})}}
Batches(rows, table) ==
    UNION {TopicBatches(f, rows, table) : f \in First(rows, table)}

BadSpaced(s) == \A d \in dispatch : d.sub = s => wall - d.at >= Spacing
Spaced(s) == \A d \in dispatch : wall - d.at >= Spacing

(* A poll of the worker: retire, take in from the sources, send.           *)
Lapsed == [s \in Subs |->
    [subscriptions[s] EXCEPT !.active = @ /\ subscriptions[s].expires > wall]]

BadRetired ==
    {e \in Events : events[e].place = "held" /\ events[e].created < wall - Window}
Retired ==
    {e \in Events :
        /\ events[e].place = "held" /\ events[e].created < wall - Window
        /\ ~\E d \in dispatch : e \in d.members /\ d.state = "uncertain"}
Archived == [e \in Events |->
    IF e \notin Retired THEN events[e]
    ELSE [events[e] EXCEPT
             !.place = "archived",
             !.reason = IF \E d \in dispatch : e \in d.members
                        THEN "covered_by_summary"
                        ELSE "eligibility_window_elapsed"]]

Sendable(table, ready) ==
    UNION {LET rows == {e \in Eligible(s, table, wall) : Topic[e] \in ready}
           IN {[sub |-> s, members |-> m, at |-> wall] : m \in Batches(rows, table)}
           : s \in {t \in Lives(wall) :
                 /\ Lives(wall) = {t}
                 /\ subscriptions[t].started <= wall
                 /\ Spaced(t)}}

Commit(b) ==
    /\ dispatch' = dispatch \cup
           {[sub |-> b.sub, members |-> b.members, at |-> b.at,
             state |-> "uncertain"]}
    /\ worker' = [step |-> "sending", batch |-> b]

(* A source that is not fresh is not ready.  At most one event a poll:     *)
(* more are polls that do not send.                                        *)
Poll(new, at, ready) ==
    /\ worker.step = "idle" /\ Now
    /\ IF new = {} THEN UNCHANGED budget ELSE Spend("event")
    /\ \A e \in new : events[e].place = "unknown"
    /\ "task" \in ready \/ (\E e \in new : Topic[e] = "task") =>
           \E s \in Lives(wall) : "task" \in Topics[s]
    /\ LET table == [e \in Events |->
               IF e \in new THEN [place |-> "held", created |-> at, reason |-> "none"]
               ELSE Archived[e]]
           sendable == Sendable(table, ready)
       IN /\ events' = table
          /\ subscriptions' = Lapsed
          /\ IF sendable = {} THEN UNCHANGED <<dispatch, worker>>
             ELSE \E b \in sendable : Commit(b)
    /\ UNCHANGED <<lineage, markers, grant, network, asked, clock>>
Polls ==
    \E ready \in SUBSET {"ha", "task"} :
        \/ Poll({}, wall, ready)
        \/ \E e \in Events, at \in Later(0, wall - MaxAge) .. wall :
               Poll({e}, at, ready)

Post ==
    /\ worker.step = "sending"
    /\ worker' = [worker EXCEPT !.step = "posting"]
    /\ wire' = wire \cup {worker.batch}
    /\ UNCHANGED <<tables, grant, marks, heard, asked, clock, budget>>

Answered(state) == dispatch' =
    {IF d.sub = worker.batch.sub /\ d.members = worker.batch.members
     THEN [d EXCEPT !.state = state] ELSE d : d \in dispatch}
Reply(state, gone) ==
    /\ worker.step = "posting"
    /\ state = "webhook_accepted" =>
           ~gone /\ \E i \in DOMAIN heard : heard[i] = worker.batch
    /\ wire' = wire \ {worker.batch}
    /\ Answered(state)
    /\ subscriptions' = [subscriptions EXCEPT ![worker.batch.sub].active = @ /\ ~gone]
    /\ worker' = Free
    /\ UNCHANGED <<events, lineage, markers, grant, marks, heard, asked, clock,
                   budget>>
Silence ==
    /\ worker.step \in {"sending", "posting"}
    /\ worker' = Free
    /\ UNCHANGED <<tables, grant, marks, network, asked, clock, budget>>
-----------------------------------------------------------------------------
(* Subscriptions.                                                          *)

Others(s) == Lives(wall) \ {s}
New(s) == ~subscriptions[s].known

(* Cancelled a moment ago at the same address, and not continued yet.      *)
Waiting(s) ==
    {p \in Subs :
        /\ Narrow(p) /\ Url[p] = Url[s]
        /\ subscriptions[p].known /\ ~subscriptions[p].active
        /\ subscriptions[p].expires > wall
        /\ Marked(p, wall - Grace)
        /\ ~\E l \in lineage : l[2] = p}

Admitted(s, p) ==
    /\ grant.state = "armed"
    /\ grant.armed_at <= wall /\ wall < grant.expires_at
    /\ p = grant.predecessor /\ Narrow(p)
    /\ subscriptions[p].started = grant.old_started
    /\ subscriptions[p].expires = grant.old_expires
    /\ subscriptions[p].expires > wall
    /\ subscriptions[p].active \/ Marked(p, Later(grant.armed_at, wall - Grace))
    /\ Url[p] # Url[s]

Continues(s, p) ==
    /\ New(s) /\ Both(s) /\ Narrow(p) /\ Url[p] = Url[s]
    /\ \/ Others(s) = {p}
       \/ Others(s) = {} /\ Waiting(s) = {p}
HandsOver(s, p) ==
    /\ New(s) /\ Both(s) /\ Admitted(s, p)
    /\ \/ Others(s) = {p}
       \/ Others(s) = {} /\ Waiting(s) = {}
BadFresh(s) ==
    \/ ~Both(s)
    \/ Others(s) = {} /\ ~New(s)
    \/ /\ Others(s) = {} /\ Waiting(s) = {} /\ grant.state = "none"
       /\ \A p \in Subs : Narrow(p) => New(p)
Fresh(s) ==
    /\ Others(s) = {}
    /\ \/ ~New(s)
       \/ ~Both(s)
       \/ /\ Waiting(s) = {} /\ grant.state = "none"
          /\ \A p \in Subs : Narrow(p) => New(p)

BadIntent(handover) == UNCHANGED grant
Intent(handover) ==
    grant' = IF handover THEN [grant EXCEPT !.state = "verification_intent"] ELSE grant
Unconfirmed(handover) ==
    grant' = IF handover /\ grant.state = "verification_intent"
             THEN [grant EXCEPT !.state = "verification_unconfirmed"] ELSE grant

(* The address has to answer a challenge.  No start falls on the instant   *)
(* of an event.                                                            *)
Subscribe(s, from, handover, ttl) ==
    /\ Spend("subscribe")
    /\ worker.step = "idle" /\ Now
    /\ \/ from = {} /\ ~handover /\ Fresh(s)
       \/ \E p \in from : from = {p} /\ handover /\ HandsOver(s, p)
       \/ \E p \in from : from = {p} /\ ~handover /\ Continues(s, p)
    /\ \A e \in Events : events[e].place # "unknown" => events[e].created # wall
    /\ Intent(handover)
    /\ asked' = IF handover THEN asked + 1 ELSE asked
    /\ worker' = [step |-> "verifying", sub |-> s, from |-> from,
                  handover |-> handover, began |-> wall, ttl |-> ttl]
    /\ UNCHANGED <<tables, network, clock>>

BadLease(now, ttl) == now + ttl
Lease(now, ttl) == now + Min(ttl, Life)

Renew(s, ttl) ==
    /\ Spend("subscribe")
    /\ worker.step = "idle" /\ Now
    /\ Fresh(s) /\ subscriptions[s].active
    /\ wall - subscriptions[s].verified <= Grace
    /\ subscriptions' = [subscriptions EXCEPT ![s].expires = Lease(wall, ttl)]
    /\ UNCHANGED <<events, dispatch, lineage, markers, grant, worker, network,
                   asked, clock>>

Echoed == worker.step = "verifying" /\ wall - worker.began \in 0 .. 1
Started(s) == IF subscriptions[s].active THEN subscriptions[s].started ELSE worker.began
Stored(started, expires) ==
    [known |-> TRUE, active |-> TRUE, started |-> started, expires |-> expires,
     verified |-> worker.began]

SubscribeFresh ==
    /\ Echoed /\ worker.from = {}
    /\ subscriptions' = [subscriptions EXCEPT ![worker.sub] =
           Stored(Started(worker.sub), Lease(worker.began, worker.ttl))]
    /\ worker' = Free
    /\ UNCHANGED <<events, dispatch, lineage, markers, grant, marks,
                   network, asked, clock, budget>>

(* The transaction looks at the predecessor once more.                     *)
Same(p) ==
    /\ subscriptions[p].expires > wall
    /\ Cardinality(Lives(wall)) = IF subscriptions[p].active THEN 1 ELSE 0
    /\ subscriptions[p].active \/ Marked(p, wall - Grace)
    /\ worker.handover => grant.state = "verification_intent" /\ wall < grant.expires_at
    /\ ~\E l \in lineage : l[2] = p
BadInherited(p) == worker.began
Inherited(p) == subscriptions[p].started
SubscribeAfter(p) ==
    /\ Echoed /\ worker.from = {p} /\ Same(p)
    /\ subscriptions' = [subscriptions EXCEPT
           ![p].active = FALSE,
           ![worker.sub] = Stored(Inherited(p),
               Min(Lease(worker.began, worker.ttl), subscriptions[p].expires))]
    /\ lineage' = lineage \cup {<<worker.sub, p>>}
    /\ markers' = {m \in markers : m.predecessor # p}
    /\ grant' = IF worker.handover THEN [grant EXCEPT !.state = "completed"] ELSE grant
    /\ worker' = Free
    /\ UNCHANGED <<events, dispatch, marks, network, asked, clock, budget>>
SubscribeChanged(p) ==
    /\ Echoed /\ worker.from = {p} /\ ~Same(p)
    /\ worker' = Free
    /\ UNCHANGED <<tables, grant, marks, network, asked, clock, budget>>
ChallengeFails ==
    /\ worker.step = "verifying"
    /\ Unconfirmed(worker.handover)
    /\ worker' = Free
    /\ UNCHANGED <<tables, marks, network, asked, clock, budget>>

Unsubscribe(s) ==
    /\ Spend("unsubscribe")
    /\ worker.step = "idle" /\ Now
    /\ markers' = {m \in markers : m.at >= wall - Grace /\
                                   ~(m.predecessor = s /\ Live(s, wall) /\ Narrow(s))}
           \cup IF Live(s, wall) /\ Narrow(s) THEN {[predecessor |-> s, at |-> wall]} ELSE {}
    /\ subscriptions' = [subscriptions EXCEPT ![s].active = FALSE]
    /\ UNCHANGED <<events, dispatch, lineage, grant, worker, network, asked, clock>>
-----------------------------------------------------------------------------
(* Around the worker: root, the network, crashes and the clock.            *)

Arm(p) ==
    /\ Spend("arm")
    /\ Narrow(p) /\ Live(p, wall)
    /\ grant' = [state |-> "armed", predecessor |-> p,
                 old_started |-> subscriptions[p].started,
                 old_expires |-> subscriptions[p].expires, armed_at |-> wall,
                 expires_at |-> Min(wall + Grace, subscriptions[p].expires)]
    /\ asked' = 0
    /\ UNCHANGED <<tables, marks, worker, network, clock>>

Arrive(b) ==
    /\ b \in wire
    /\ wire' = wire \ {b}
    /\ heard' = Append(heard, b)
    /\ UNCHANGED <<tables, grant, marks, worker, asked, clock, budget>>

Crash ==
    /\ Spend("crash")
    /\ worker' = Free
    /\ high_clock' = 0
    /\ UNCHANGED <<tables, grant, mark, network, asked, clock>>

Tick ==
    /\ wall < Min(Horizon, budget["tick"])
    /\ worker.step = "verifying" => wall <= worker.began
    /\ wall' = wall + 1
    /\ latest' = Later(latest, wall + 1)
    /\ UNCHANGED <<tables, grant, marks, worker, network, asked, stepped, budget>>
SetBack(to) ==
    /\ Spend("back")
    /\ to < wall
    /\ wall' = to /\ stepped' = TRUE
    /\ UNCHANGED <<tables, grant, marks, worker, network, asked, latest>>

Next ==
    \/ Polls
    \/ Post
    \/ \E gone \in BOOLEAN, state \in {"webhook_accepted", "delivery_refused"} :
           Reply(state, gone)
    \/ Silence
    \/ \E s \in Subs, ttl \in Ttls :
           \/ Renew(s, ttl)
           \/ \E from \in {{}} \cup {{p} : p \in Subs}, handover \in BOOLEAN :
                  Subscribe(s, from, handover, ttl)
    \/ SubscribeFresh
    \/ \E p \in Subs : SubscribeAfter(p) \/ SubscribeChanged(p) \/ Arm(p)
    \/ ChallengeFails
    \/ \E s \in Subs : Unsubscribe(s)
    \/ \E b \in wire : Arrive(b)
    \/ Crash
    \/ Tick
    \/ \E to \in Time : SetBack(to)

Spec == Init /\ [][Next]_vars
-----------------------------------------------------------------------------
(* Every variable stays in its domain; no lease runs past Life.            *)
TypeOK ==
    /\ subscriptions \in [Subs -> Subscription]
    /\ events \in [Events -> Event]
    /\ dispatch \subseteq Dispatch
    /\ lineage \subseteq Subs \X Subs
    /\ markers \subseteq [predecessor : Subs, at : Time]
    /\ grant \in Grant
    /\ {mark, high_clock, wall, latest} \subseteq Time
    /\ worker \in Worker
    /\ wire \subseteq Batch /\ heard \in Seq(Batch)
    /\ asked \in Nat /\ stepped \in BOOLEAN

(* From the highest instant the clock has shown on, one subscription at    *)
(* most is live, also while it is handed over to another.  Two are live at *)
(* the present instant only after the clock was set back, and until it is  *)
(* where it was: a lease that had run out, and that nobody marked so, runs *)
(* once more beside the one that followed it.                              *)
OneActive ==
    /\ Cardinality(Lives(latest)) <= 1
    /\ Cardinality(Lives(wall)) > 1 => stepped /\ wall < latest

(* What a subscription, or the one it continues, may have sent is not sent *)
(* again, whatever crashed, was lost, late, cancelled, renewed or handed   *)
(* over.  Nor is it sent to another, unless the clock was set back or that *)
(* one continues what was pending to a predecessor.                        *)
DeliveredOnce ==
    \A i, j \in DOMAIN heard :
        LET c == heard[i]  d == heard[j]
        IN i # j /\ c.at <= d.at /\ c.members \cap d.members # {} =>
               /\ c.sub # d.sub
               /\ <<d.sub, c.sub>> \notin lineage
               /\ stepped \/ \E p \in Subs : <<d.sub, p>> \in lineage

(* An archived event was never sent if its window has elapsed, and has an  *)
(* answer if a summary covered it: what is uncertain is not archived.      *)
ArchivedTruly ==
    \A e \in Events : events[e].place = "archived" =>
        /\ \A d \in dispatch : e \in d.members => d.state # "uncertain"
        /\ events[e].reason = "eligibility_window_elapsed" =>
               /\ \A d \in dispatch : e \notin d.members
               /\ \A i \in DOMAIN heard : e \notin heard[i].members

(* Batches keep their distance, across subscriptions, restarts and clocks. *)
SendsSpaced ==
    \A c, d \in dispatch : c = d \/ c.at - d.at >= Spacing \/ d.at - c.at >= Spacing

(* A grant of root allows one challenge, whatever becomes of it.           *)
AskedOnce == asked <= 1

(* What the predecessor still had to send, its successor has to send.      *)
HandoverKeepsPending ==
    [][\A p, s \in Subs : SubscribeAfter(p) /\ worker.sub = s =>
            Eligible(p, events, wall) \subseteq Eligible(s, events, wall)']_vars

(* When both topics have something to send, a batch has an oldest event in *)
(* it: neither source starves the other.                                   *)
NoTopicStarves ==
    [][worker'.step = "sending" /\ worker.step = "idle" =>
        \/ ~\E new \in {{}} \cup {{e} : e \in Events}, at \in Time :
               Poll(new, at, {"ha", "task"})
        \/ LET rows == UNION {Eligible(s, events', wall) : s \in Lives(wall)}
           IN {Topic[e] : e \in rows} = {"ha", "task"} =>
                  worker'.batch.members \cap First(rows, events') # {}]_vars
=============================================================================
