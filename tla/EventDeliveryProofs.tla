------------------------ MODULE EventDeliveryProofs ------------------------
(***************************************************************************)
(* Of EventDelivery, for any subscriptions, events, leases and instants:   *)
(* that one subscription is live, that batches keep their distance, that   *)
(* nothing uncertain is archived, that nothing is sent twice, and that     *)
(* neither source starves the other.                                       *)
(***************************************************************************)
EXTENDS EventDelivery, FiniteSetTheorems, TLAPS

-----------------------------------------------------------------------------
(* The steps, by what they change.                                         *)

(* Subscriptions asked for, and what becomes of them.                      *)
Subscribing ==
    \/ \E s \in Subs, ttl \in Ttls :
          \/ Renew(s, ttl)
          \/ \E from \in {{}} \cup {{p} : p \in Subs}, handover \in BOOLEAN :
                 Subscribe(s, from, handover, ttl)
    \/ SubscribeFresh
    \/ \E p \in Subs : SubscribeAfter(p) \/ SubscribeChanged(p)
    \/ ChallengeFails
    \/ \E s \in Subs : Unsubscribe(s)
Sending ==
    \/ Post
    \/ \E gone \in BOOLEAN, state \in {"webhook_accepted", "delivery_refused"} :
           Reply(state, gone)
    \/ Silence
    \/ \E b \in wire : Arrive(b)
Around == Crash \/ Tick \/ (\E p \in Subs : Arm(p)) \/ (\E to \in Time : SetBack(to))

(* Every step is one of these, or of a poll.                               *)
LEMMA Steps == Next => Polls \/ Subscribing \/ Sending \/ Around
BY DEF Next, Subscribing, Sending, Around

(* Lengths and instants are numbers.                                       *)
LEMMA Numbers ==
    /\ {Window, Spacing, Life, Grace, Persist, Horizon} \subseteq Nat \ {0}
    /\ Ttls \subseteq Nat /\ MaxAge \in Nat
    /\ IsFiniteSet(Subs) /\ Subs # {}
    /\ \A t \in Time : t \in Nat /\ t <= Horizon
BY DeliveryAssumption DEF Time

(* A batch consists of events that are to be sent.                         *)
LEMMA BatchesChosen ==
    ASSUME NEW rows, NEW table, NEW m \in Batches(rows, table)
    PROVE  m \subseteq rows
<1>1. PICK f \in First(rows, table) : m \in TopicBatches(f, rows, table)
  BY DEF Batches
<1> QED BY <1>1 DEF TopicBatches

(* What a poll commits to.                                                 *)
LEMMA SendableSound ==
    ASSUME NEW table, NEW ready, NEW b \in Sendable(table, ready)
    PROVE  /\ b.sub \in Subs /\ Lives(wall) = {b.sub} /\ Spaced(b.sub)
           /\ b.members \subseteq Eligible(b.sub, table, wall)
           /\ b.at = wall
           /\ b = [sub |-> b.sub, members |-> b.members, at |-> wall]
<1> DEFINE Rows(s) == {e \in Eligible(s, table, wall) : Topic[e] \in ready}
<1>1. PICK s \in {t \in Lives(wall) : /\ Lives(wall) = {t}
                                      /\ subscriptions[t].started <= wall
                                      /\ Spaced(t)} :
          b \in {[sub |-> s, members |-> m, at |-> wall] : m \in Batches(Rows(s), table)}
  BY DEF Sendable
<1>2. PICK m \in Batches(Rows(s), table) : b = [sub |-> s, members |-> m, at |-> wall]
  BY <1>1
<1>3. m \subseteq Rows(s)
  BY <1>2, BatchesChosen
<1> HIDE DEF Rows
<1>4. Rows(s) \subseteq Eligible(s, table, wall)
  BY DEF Rows
<1>5. s \in Subs
  BY <1>1 DEF Lives
<1> QED BY <1>1, <1>2, <1>3, <1>4, <1>5

(* The table of events after a poll has taken in new.                      *)
Table(new, at) == [e \in Events |->
    IF e \in new THEN [place |-> "held", created |-> at, reason |-> "none"]
    ELSE Archived[e]]
(* A poll, with the batch it commits to, if any.                           *)
LEMMA PollsDo ==
    ASSUME Polls, TypeOK
    PROVE  \E new \in SUBSET Events, at \in Time :
              /\ worker.step = "idle" /\ Now /\ at <= wall
              /\ \A e \in new : events[e].place = "unknown"
              /\ events' = Table(new, at) /\ subscriptions' = Lapsed
              /\ \/ UNCHANGED <<dispatch, worker>>
                 \/ \E ready : \E b \in Sendable(Table(new, at), ready) : Commit(b)
              /\ UNCHANGED <<lineage, markers, grant, network, asked, clock>>
<1>1. wall \in Time /\ \A at \in Later(0, wall - MaxAge) .. wall : at \in Time /\ at <= wall
  BY Numbers DEF TypeOK, Time, Later
<1>2. PICK ready \in SUBSET {"ha", "task"} :
          \/ Poll({}, wall, ready)
          \/ \E e \in Events, at \in Later(0, wall - MaxAge) .. wall : Poll({e}, at, ready)
  BY DEF Polls
<1>3. PICK new \in SUBSET Events, at \in Time : at <= wall /\ Poll(new, at, ready)
  <2>1. CASE Poll({}, wall, ready)
    BY <1>1, <2>1, Numbers
  <2>2. CASE \E e \in Events, at \in Later(0, wall - MaxAge) .. wall : Poll({e}, at, ready)
    BY <1>1, <2>2
  <2> QED BY <1>2, <2>1, <2>2
<1> QED BY <1>3 DEF Poll, Table
-----------------------------------------------------------------------------
(* Types.                                                                  *)

(* What a lease and a grant may last.                                      *)
LEMMA LeaseTyped ==
    ASSUME NEW now \in Time, NEW ttl \in Ttls
    PROVE  Lease(now, ttl) \in 0 .. Horizon + Life
BY Numbers DEF Lease, Min, Time

(* The clock's marks are instants.                                         *)
LEMMA NowTyped == ASSUME TypeOK, Now  PROVE {mark, high_clock}' \subseteq Time
BY DEF TypeOK, Now

(* A batch that is chosen is one.                                          *)
LEMMA ChosenTyped ==
    ASSUME NEW table, NEW ready, NEW b \in Sendable(table, ready), TypeOK
    PROVE  b \in Batch /\ [sub |-> b.sub, members |-> b.members, at |-> b.at,
                           state |-> "uncertain"] \in Dispatch
<1>1. b.sub \in Subs /\ b.members \in SUBSET Events /\ b.at \in Time
  BY SendableSound DEF TypeOK, Eligible
<1> QED BY <1>1, SendableSound DEF Batch, Dispatch, TypeOK

(* A poll keeps the types.                                                 *)
LEMMA PollTyped == ASSUME TypeOK, Polls  PROVE TypeOK'
<1>1. PICK new \in SUBSET Events, at \in Time :
          /\ worker.step = "idle" /\ Now /\ at <= wall
          /\ events' = Table(new, at) /\ subscriptions' = Lapsed
          /\ \/ UNCHANGED <<dispatch, worker>>
             \/ \E ready : \E b \in Sendable(Table(new, at), ready) : Commit(b)
          /\ UNCHANGED <<lineage, markers, grant, network, asked, clock>>
  BY PollsDo
<1>2. subscriptions' \in [Subs -> Subscription]
  BY <1>1 DEF Lapsed, TypeOK, Subscription
<1>3. Archived \in [Events -> Event]
  BY DEF Archived, TypeOK, Event
<1>4. events' \in [Events -> Event]
  BY <1>1, <1>3 DEF Table, Event
<1>5. dispatch' \subseteq Dispatch /\ worker' \in Worker
  <2>1. CASE UNCHANGED <<dispatch, worker>>
    BY <2>1 DEF TypeOK
  <2>2. ASSUME NEW ready, NEW b \in Sendable(Table(new, at), ready), Commit(b)
        PROVE  dispatch' \subseteq Dispatch /\ worker' \in Worker
    <3>1. b \in Batch /\ [sub |-> b.sub, members |-> b.members, at |-> b.at,
                          state |-> "uncertain"] \in Dispatch
      BY ChosenTyped
    <3> QED BY <2>2, <3>1 DEF Commit, Worker, TypeOK
  <2> QED BY <1>1, <2>1, <2>2
<1> QED BY <1>1, <1>2, <1>4, <1>5, NowTyped DEF TypeOK, network, clock

(* So do a post, its outcomes and its arrival.                             *)
LEMMA SendingTyped == ASSUME TypeOK, Sending  PROVE TypeOK'
<1>1. CASE Post
  <2>1. worker.batch \in Batch /\ worker' \in Worker
    BY <1>1 DEF Post, TypeOK, Worker, Free
  <2> QED BY <1>1, <2>1 DEF Post, TypeOK, tables, marks, clock
<1>2. ASSUME NEW gone \in BOOLEAN,
             NEW state \in {"webhook_accepted", "delivery_refused"}, Reply(state, gone)
      PROVE  TypeOK'
  <2>1. dispatch' \subseteq Dispatch
    BY <1>2 DEF Reply, Answered, TypeOK, Dispatch
  <2>2. subscriptions' \in [Subs -> Subscription]
    BY <1>2 DEF Reply, TypeOK, Subscription
  <2> QED BY <1>2, <2>1, <2>2 DEF Reply, TypeOK, marks, clock, Worker
<1>3. CASE Silence
  BY <1>3 DEF Silence, TypeOK, tables, marks, clock, network, Worker
<1>4. ASSUME NEW b \in wire, Arrive(b)  PROVE TypeOK'
  BY <1>4 DEF Arrive, TypeOK, tables, marks, clock
<1> QED BY <1>1, <1>2, <1>3, <1>4 DEF Sending

(* And subscriptions.                                                      *)
LEMMA SubscribingTyped == ASSUME TypeOK, Subscribing  PROVE TypeOK'
<1>1. ASSUME NEW s \in Subs, NEW ttl \in Ttls, Renew(s, ttl)  PROVE TypeOK'
  <2>1. Lease(wall, ttl) \in 0 .. Horizon + Life
    BY LeaseTyped DEF TypeOK
  <2>2. subscriptions' \in [Subs -> Subscription]
    BY <1>1, <2>1 DEF Renew, TypeOK, Subscription
  <2> QED BY <1>1, <2>2, NowTyped DEF Renew, TypeOK, network, clock
<1>2. ASSUME NEW s \in Subs, NEW ttl \in Ttls, NEW from \in {{}} \cup {{p} : p \in Subs},
             NEW handover \in BOOLEAN, Subscribe(s, from, handover, ttl)
      PROVE  TypeOK'
  <2>1. worker' \in Worker
    BY <1>2 DEF Subscribe, TypeOK, Worker
  <2>2. grant' \in Grant
    BY <1>2 DEF Subscribe, Intent, TypeOK, Grant
  <2> QED BY <1>2, <2>1, <2>2, NowTyped DEF Subscribe, TypeOK, tables, network, clock
<1>3. CASE SubscribeFresh
  <2>1. /\ worker.sub \in Subs /\ worker.began \in Time /\ worker.ttl \in Ttls
    BY <1>3 DEF SubscribeFresh, Echoed, TypeOK, Worker, Free
  <2>2. Stored(Started(worker.sub), Lease(worker.began, worker.ttl)) \in Subscription
    BY <2>1, LeaseTyped DEF Stored, Started, TypeOK, Subscription
  <2> QED BY <1>3, <2>2 DEF SubscribeFresh, TypeOK, marks, network, clock, Worker
<1>4. ASSUME NEW p \in Subs, SubscribeAfter(p)  PROVE TypeOK'
  <2>1. /\ worker.sub \in Subs /\ worker.began \in Time /\ worker.ttl \in Ttls
    BY <1>4 DEF SubscribeAfter, Echoed, TypeOK, Worker, Free
  <2>2. Min(Lease(worker.began, worker.ttl), subscriptions[p].expires) \in 0 .. Horizon + Life
    BY <2>1, LeaseTyped DEF Min, TypeOK, Subscription
  <2>3. Stored(Inherited(p), Min(Lease(worker.began, worker.ttl), subscriptions[p].expires))
            \in Subscription
    BY <2>1, <2>2 DEF Stored, Inherited, TypeOK, Subscription
  <2>4. subscriptions' \in [Subs -> Subscription]
    BY <1>4, <2>3 DEF SubscribeAfter, TypeOK, Subscription
  <2>5. grant' \in Grant
    BY <1>4 DEF SubscribeAfter, TypeOK, Grant
  <2>6. lineage' \subseteq Subs \X Subs /\ markers' \subseteq markers
    BY <1>4, <2>1 DEF SubscribeAfter, TypeOK
  <2>7. worker' \in Worker
    BY <1>4 DEF SubscribeAfter, Worker
  <2> QED BY <1>4, <2>4, <2>5, <2>6, <2>7
          DEF SubscribeAfter, TypeOK, marks, network, clock
<1>5. ASSUME NEW p \in Subs, SubscribeChanged(p)  PROVE TypeOK'
  BY <1>5 DEF SubscribeChanged, TypeOK, tables, marks, network, clock, Worker
<1>6. CASE ChallengeFails
  BY <1>6 DEF ChallengeFails, Unconfirmed, TypeOK, Grant, tables, marks, network,
              clock, Worker
<1>7. ASSUME NEW s \in Subs, Unsubscribe(s)  PROVE TypeOK'
  <2>1. markers' \subseteq [predecessor : Subs, at : Time]
    BY <1>7 DEF Unsubscribe, TypeOK
  <2>2. subscriptions' \in [Subs -> Subscription]
    BY <1>7 DEF Unsubscribe, TypeOK, Subscription
  <2> QED BY <1>7, <2>1, <2>2, NowTyped DEF Unsubscribe, TypeOK, network, clock
<1> QED BY <1>1, <1>2, <1>3, <1>4, <1>5, <1>6, <1>7 DEF Subscribing

(* And what happens around the worker.                                     *)
LEMMA AroundTyped == ASSUME TypeOK, Around  PROVE TypeOK'
<1>1. CASE Crash
  BY <1>1, Numbers DEF Crash, TypeOK, tables, network, clock, Worker, Time
<1>2. CASE Tick
  <2>1. wall' \in Time /\ latest' \in Time
    BY <1>2, Numbers DEF Tick, TypeOK, Later, Min, Time
  <2> QED BY <1>2, <2>1 DEF Tick, TypeOK, tables, marks, network
<1>3. ASSUME NEW p \in Subs, Arm(p)  PROVE TypeOK'
  <2>1. Min(wall + Grace, subscriptions[p].expires) \in 0 .. Horizon + Life
    <3>1. subscriptions[p].expires \in 0 .. Horizon + Life /\ wall + Grace \in Nat
      BY Numbers DEF TypeOK, Subscription, Time
    <3> QED BY <3>1, Numbers DEF Min
  <2>2. grant' \in Grant
    BY <1>3, <2>1 DEF Arm, TypeOK, Grant, Subscription
  <2> QED BY <1>3, <2>2 DEF Arm, TypeOK, tables, marks, network, clock
<1>4. ASSUME NEW to \in Time, SetBack(to)  PROVE TypeOK'
  BY <1>4 DEF SetBack, TypeOK, tables, marks, network
<1> QED BY <1>1, <1>2, <1>3, <1>4 DEF Around

(* Every variable stays in its domain.                                     *)
THEOREM DeliveryTypeCorrect == Spec => []TypeOK
<1>1. Init => TypeOK
  <2> SUFFICES ASSUME Init  PROVE TypeOK
    OBVIOUS
  <2>1. 0 \in Time /\ 0 \in 0 .. Horizon + Life
    BY Numbers DEF Time
  <2>2. Unknown \in Subscription /\ Unseen \in Event
    BY <2>1 DEF Unknown, Subscription, Unseen, Event
  <2>3. (CHOOSE s \in Subs : TRUE) \in Subs
    BY Numbers
  <2>4. grant \in Grant
    BY <2>1, <2>3 DEF Init, Grant
  <2>5. worker \in Worker /\ heard \in Seq(Batch) /\ {mark, high_clock, wall, latest} \subseteq Time
    BY <2>1 DEF Init, Worker
  <2>6. subscriptions \in [Subs -> Subscription] /\ events \in [Events -> Event]
    BY <2>2 DEF Init
  <2> QED BY <2>4, <2>5, <2>6 DEF Init, TypeOK
<1>2. TypeOK /\ [Next]_vars => TypeOK'
  <2>1. ASSUME TypeOK, UNCHANGED vars  PROVE TypeOK'
    BY <2>1 DEF TypeOK, vars
  <2> QED BY <2>1, Steps, PollTyped, SendingTyped, SubscribingTyped, AroundTyped
<1> QED BY <1>1, <1>2, PTL DEF Spec
-----------------------------------------------------------------------------
(* The dispatch table.                                                     *)

SameBatch(c, d) == c.sub = d.sub /\ c.members = d.members /\ c.at = d.at
Row(b) == [sub |-> b.sub, members |-> b.members, at |-> b.at, state |-> "uncertain"]

(* A poll that commits to batch b.                                         *)
Commits(b, new, at) ==
    /\ b \in Batch /\ b.at = wall
    /\ Lives(wall) = {b.sub} /\ Spaced(b.sub)
    /\ b.members \subseteq Eligible(b.sub, Table(new, at), wall)
    /\ dispatch' = dispatch \cup {Row(b)}
    /\ worker' = [step |-> "sending", batch |-> b]
(* Outcomes written to the rows of a batch.                                *)
Answers(f) ==
    /\ f \in [dispatch -> Dispatch]
    /\ dispatch' = {f[d] : d \in dispatch}
    /\ \A d \in dispatch :
           /\ SameBatch(f[d], d)
           /\ f[d].state = "uncertain" => f[d] = d

(* Rows and what becomes of them.                                          *)
LEMMA AnswersKeep ==
    ASSUME NEW f, Answers(f)
    PROVE  /\ \A d \in dispatch : f[d] \in dispatch' /\ SameBatch(f[d], d)
           /\ \A c \in dispatch' : \E d \in dispatch : c = f[d] /\ SameBatch(c, d)
                                       /\ (c.state = "uncertain" => c = d)
<1>1. \A d \in dispatch : f[d] \in dispatch' /\ SameBatch(f[d], d)
  BY DEF Answers
<1>2. ASSUME NEW c \in dispatch'
      PROVE  \E d \in dispatch : c = f[d] /\ SameBatch(c, d) /\ (c.state = "uncertain" => c = d)
  <2>1. PICK d \in dispatch : c = f[d]
    BY DEF Answers
  <2>2. SameBatch(f[d], d) /\ (f[d].state = "uncertain" => f[d] = d)
    BY DEF Answers
  <2> QED BY <2>1, <2>2
<1> QED BY <1>1, <1>2

(* A poll, in these words.                                                 *)
LEMMA PollCommits ==
    ASSUME Polls, TypeOK
    PROVE  \E new \in SUBSET Events, at \in Time :
              /\ worker.step = "idle" /\ Now /\ at <= wall
              /\ \A e \in new : events[e].place = "unknown"
              /\ events' = Table(new, at) /\ subscriptions' = Lapsed
              /\ \/ UNCHANGED <<dispatch, worker>>
                 \/ \E b : Commits(b, new, at)
              /\ UNCHANGED <<lineage, markers, grant, network, asked, clock>>
<1>1. ASSUME NEW new, NEW at, NEW ready, NEW b \in Sendable(Table(new, at), ready), Commit(b)
      PROVE  Commits(b, new, at)
  BY <1>1, SendableSound, ChosenTyped DEF Commits, Commit, Row
<1> QED BY <1>1, PollsDo

(* An answer, in these words.                                              *)
LEMMA ReplyAnswers ==
    ASSUME TypeOK, NEW gone, NEW state \in {"webhook_accepted", "delivery_refused"},
           Reply(state, gone)
    PROVE  \E f : Answers(f)
<1> DEFINE f == [d \in dispatch |->
                   IF d.sub = worker.batch.sub /\ d.members = worker.batch.members
                   THEN [d EXCEPT !.state = state] ELSE d]
<1>1. \A d \in dispatch : f[d] \in Dispatch /\ SameBatch(f[d], d)
                         /\ (f[d].state = "uncertain" => f[d] = d)
  BY DEF TypeOK, Dispatch, SameBatch
<1>2. dispatch' = {f[d] : d \in dispatch}
  BY DEF Reply, Answered
<1> QED BY <1>1, <1>2 DEF Answers

(* Nothing else changes the table.                                         *)
LEMMA DispatchDoes ==
    ASSUME TypeOK, [Next]_vars
    PROVE  \/ UNCHANGED dispatch
           \/ \E f : Answers(f)
           \/ \E new \in SUBSET Events, at \in Time : \E b : Commits(b, new, at)
<1>1. CASE Polls
  BY <1>1, PollCommits
<1>2. CASE Subscribing
  BY <1>2 DEF Subscribing, Renew, Subscribe, SubscribeFresh, SubscribeAfter,
              SubscribeChanged, ChallengeFails, Unsubscribe, tables
<1>3. CASE Sending
  BY <1>3, ReplyAnswers DEF Sending, Post, Silence, Arrive, tables
<1>4. CASE Around
  BY <1>4 DEF Around, Crash, Tick, Arm, SetBack, tables
<1> QED BY <1>1, <1>2, <1>3, <1>4, Steps DEF vars

(* Batches keep their distance, whatever the clock does.                   *)
THEOREM DeliverySpaced == Spec => []SendsSpaced
<1>1. Init => SendsSpaced
  BY DEF Init, SendsSpaced
<1>2. TypeOK /\ SendsSpaced /\ [Next]_vars => SendsSpaced'
  <2> SUFFICES ASSUME TypeOK, SendsSpaced, [Next]_vars  PROVE SendsSpaced'
    OBVIOUS
  <2>1. CASE UNCHANGED dispatch
    BY <2>1 DEF SendsSpaced
  <2>2. ASSUME NEW f, Answers(f)  PROVE SendsSpaced'
    <3> SUFFICES ASSUME NEW c \in dispatch', NEW d \in dispatch'
                 PROVE  c = d \/ c.at - d.at >= Spacing \/ d.at - c.at >= Spacing
      BY DEF SendsSpaced
    <3>1. PICK a, b \in dispatch : c = f[a] /\ SameBatch(c, a) /\ d = f[b] /\ SameBatch(d, b)
      BY <2>2, AnswersKeep
    <3> QED BY <3>1 DEF SameBatch, SendsSpaced
  <2>3. ASSUME NEW new, NEW at, NEW b, Commits(b, new, at)  PROVE SendsSpaced'
    <3>1. \A d \in dispatch : wall - d.at >= Spacing
      BY <2>3 DEF Commits, Spaced
    <3> QED BY <2>3, <3>1 DEF Commits, Row, SendsSpaced
  <2> QED BY <2>1, <2>2, <2>3, DispatchDoes
<1> QED BY <1>1, <1>2, DeliveryTypeCorrect, PTL DEF Spec
-----------------------------------------------------------------------------
(* An armed grant has not been asked on.                                   *)
Unasked == grant.state = "armed" => asked = 0

(* A grant of root allows one challenge.                                   *)
THEOREM DeliveryAsksOnce == Spec => []AskedOnce
<1>1. Init => Unasked /\ AskedOnce
  BY DEF Init, Unasked, AskedOnce
<1>2. TypeOK /\ Unasked /\ AskedOnce /\ [Next]_vars => (Unasked /\ AskedOnce)'
  <2> SUFFICES ASSUME TypeOK, Unasked, AskedOnce, [Next]_vars
               PROVE  (Unasked /\ AskedOnce)'
    OBVIOUS
  <2>1. CASE Polls
    BY <2>1, PollCommits DEF Unasked, AskedOnce
  <2>2. CASE Subscribing
    <3>1. ASSUME NEW s \in Subs, NEW ttl \in Ttls, NEW from, NEW handover \in BOOLEAN,
                 Subscribe(s, from, handover, ttl)
          PROVE  (Unasked /\ AskedOnce)'
      <4>1. handover => grant.state = "armed"
        BY <3>1 DEF Subscribe, HandsOver, Admitted
      <4>2. CASE handover
        BY <3>1, <4>1, <4>2 DEF Subscribe, Intent, Unasked, AskedOnce, TypeOK, Grant
      <4>3. CASE ~handover
        BY <3>1, <4>3 DEF Subscribe, Intent, Unasked, AskedOnce
      <4> QED BY <4>2, <4>3
    <3>2. ASSUME NEW p \in Subs, SubscribeAfter(p)  PROVE (Unasked /\ AskedOnce)'
      BY <3>2 DEF SubscribeAfter, Unasked, AskedOnce, TypeOK, Grant
    <3>3. CASE ChallengeFails
      BY <3>3 DEF ChallengeFails, Unconfirmed, Unasked, AskedOnce, TypeOK, Grant
    <3> QED BY <2>2, <3>1, <3>2, <3>3
            DEF Subscribing, Renew, SubscribeFresh, SubscribeChanged, Unsubscribe,
                Unasked, AskedOnce
  <2>3. CASE Sending
    BY <2>3 DEF Sending, Post, Reply, Silence, Arrive, Unasked, AskedOnce
  <2>4. CASE Around
    BY <2>4 DEF Around, Crash, Tick, Arm, SetBack, Unasked, AskedOnce
  <2> QED BY <2>1, <2>2, <2>3, <2>4, Steps DEF vars, Unasked, AskedOnce
<1> QED BY <1>1, <1>2, DeliveryTypeCorrect, PTL DEF Spec
-----------------------------------------------------------------------------
(* Events and the batches they are in.                                     *)

MembersKnown == \A d \in dispatch : \A e \in d.members : events[e].place # "unknown"
Recorded(b, rows) == \E d \in rows : SameBatch(d, b)
Heard(b, log) == \E i \in DOMAIN log : log[i] = b

(* Every batch under way is in the table, and arrives once.                *)
Booked ==
    /\ \A b \in wire : Recorded(b, dispatch) /\ ~Heard(b, heard)
    /\ \A i \in DOMAIN heard : Recorded(heard[i], dispatch)
    /\ \A i, j \in DOMAIN heard : heard[i] = heard[j] => i = j
    /\ worker.step = "sending" =>
           /\ Recorded(worker.batch, dispatch)
           /\ worker.batch \notin wire /\ ~Heard(worker.batch, heard)

(* Rows are not removed.                                                   *)
LEMMA RowsStay ==
    ASSUME TypeOK, [Next]_vars, NEW b, Recorded(b, dispatch)
    PROVE  Recorded(b, dispatch')
<1>1. CASE UNCHANGED dispatch
  BY <1>1 DEF Recorded, SameBatch
<1>2. ASSUME NEW f, Answers(f)  PROVE Recorded(b, dispatch')
  BY <1>2, AnswersKeep DEF Recorded, SameBatch
<1>3. ASSUME NEW new, NEW at, NEW c, Commits(c, new, at)  PROVE Recorded(b, dispatch')
  BY <1>3 DEF Commits, Recorded, SameBatch
<1> QED BY <1>1, <1>2, <1>3, DispatchDoes
(* What a poll has in its table.                                           *)
LEMMA TableIs ==
    ASSUME NEW new, NEW at, NEW e \in Events
    PROVE  /\ Table(new, at)[e].place = "archived" =>
                 e \notin new /\ Table(new, at)[e] = Archived[e]
           /\ Table(new, at)[e].place = "unknown" => Archived[e].place = "unknown"
           /\ e \notin new => Table(new, at)[e] = Archived[e]
BY DEF Table

(* What retiring does: only what has no uncertain row is archived.         *)
LEMMA ArchivedIs ==
    ASSUME TypeOK, NEW e \in Events
    PROVE  /\ e \notin Retired => Archived[e] = events[e]
           /\ e \in Retired => /\ Archived[e].place = "archived"
                               /\ events[e].place = "held"
                               /\ \A d \in dispatch : e \in d.members => d.state # "uncertain"
                               /\ Archived[e].reason = "eligibility_window_elapsed" =>
                                      \A d \in dispatch : e \notin d.members
           /\ Archived[e].created = events[e].created
BY DEF Archived, Retired, TypeOK, Event

(* What is archived is not on its way, nor was, if its window elapsed.     *)
TrulyInTable ==
    \A e \in Events : events[e].place = "archived" =>
        /\ \A d \in dispatch : e \in d.members => d.state # "uncertain"
        /\ events[e].reason = "eligibility_window_elapsed" =>
               \A d \in dispatch : e \notin d.members
Tabled == MembersKnown /\ TrulyInTable

(* Rows are of events taken in, and what is archived gets no new row.      *)
LEMMA TabledStep ==
    ASSUME TypeOK, Tabled, [Next]_vars
    PROVE  Tabled'
<1>1. CASE Polls
  <2>1. PICK new \in SUBSET Events, at \in Time :
            /\ \A e \in new : events[e].place = "unknown"
            /\ events' = Table(new, at)
            /\ UNCHANGED dispatch \/ \E b : Commits(b, new, at)
    BY <1>1, PollCommits
  <2>2. MembersKnown'
    <3> SUFFICES ASSUME NEW d \in dispatch', NEW e \in d.members
                 PROVE  events'[e].place # "unknown"
      BY DEF MembersKnown
    <3>1. CASE d \in dispatch
      <4>1. e \in Events /\ events[e].place # "unknown" /\ e \notin new
        BY <2>1, <3>1 DEF Tabled, MembersKnown, TypeOK, Dispatch
      <4> QED BY <2>1, <4>1, TableIs, ArchivedIs
    <3>2. CASE d \notin dispatch
      BY <2>1, <3>2 DEF Commits, Row, Eligible
    <3> QED BY <3>1, <3>2
  <2>3. TrulyInTable'
    <3> SUFFICES ASSUME NEW e \in Events, events'[e].place = "archived"
                 PROVE  /\ \A d \in dispatch' : e \in d.members => d.state # "uncertain"
                        /\ events'[e].reason = "eligibility_window_elapsed" =>
                               \A d \in dispatch' : e \notin d.members
      BY DEF TrulyInTable
    <3>1. events'[e] = Archived[e]
      BY <2>1, TableIs
    <3>2. \A d \in dispatch : e \in d.members => d.state # "uncertain"
      BY <3>1, ArchivedIs DEF Tabled, TrulyInTable
    <3>3. events'[e].reason = "eligibility_window_elapsed" =>
              \A d \in dispatch : e \notin d.members
      BY <3>1, ArchivedIs DEF Tabled, TrulyInTable
    <3>4. \A d \in dispatch' : d \in dispatch \/ e \notin d.members
      BY <2>1 DEF Commits, Row, Eligible
    <3> QED BY <3>2, <3>3, <3>4
  <2> QED BY <2>2, <2>3 DEF Tabled
<1>2. ASSUME NEW gone \in BOOLEAN,
             NEW state \in {"webhook_accepted", "delivery_refused"}, Reply(state, gone)
      PROVE  Tabled'
  <2>1. PICK f : Answers(f)
    BY <1>2, ReplyAnswers
  <2>2. UNCHANGED events
    BY <1>2 DEF Reply
  <2>3. \A c \in dispatch' : \E d \in dispatch : SameBatch(c, d) /\ (c.state = "uncertain" => c = d)
    BY <2>1, AnswersKeep
  <2> QED BY <2>2, <2>3 DEF Tabled, MembersKnown, TrulyInTable, SameBatch
<1>3. CASE UNCHANGED <<events, dispatch>>
  BY <1>3 DEF Tabled, MembersKnown, TrulyInTable
<1>4. CASE Subscribing
  BY <1>3, <1>4 DEF Subscribing, Renew, Subscribe, SubscribeFresh, SubscribeAfter,
              SubscribeChanged, ChallengeFails, Unsubscribe, tables
<1>5. CASE Sending
  BY <1>2, <1>3, <1>5 DEF Sending, Post, Silence, Arrive, tables
<1>6. CASE Around
  BY <1>3, <1>6 DEF Around, Crash, Tick, Arm, SetBack, tables
<1> QED BY <1>1, <1>3, <1>4, <1>5, <1>6, Steps DEF vars

(* A batch gets its row before it is posted, and a batch is posted once.   *)
LEMMA BookedStep ==
    ASSUME TypeOK, SendsSpaced, Booked, [Next]_vars
    PROVE  Booked'
<1>1. CASE Polls
  <2>1. PICK new \in SUBSET Events, at \in Time :
            /\ worker.step = "idle"
            /\ UNCHANGED <<dispatch, worker>> \/ \E b : Commits(b, new, at)
            /\ UNCHANGED <<wire, heard>>
    BY <1>1, PollCommits DEF network
  <2>2. CASE UNCHANGED <<dispatch, worker>>
    BY <2>1, <2>2 DEF Booked, Recorded, Heard
  <2>3. ASSUME NEW b, Commits(b, new, at)  PROVE Booked'
    <3>1. \A d \in dispatch : d.at < b.at
      BY <2>3, Numbers DEF Commits, Spaced, TypeOK, Dispatch, Time
    <3>2. ~Recorded(b, dispatch)
      BY <3>1, <2>3, Numbers DEF Recorded, SameBatch, Commits, Batch, TypeOK
    <3>3. b \notin wire /\ ~Heard(b, heard)
      BY <3>2 DEF Booked, Heard
    <3>4. Recorded(b, dispatch')
      <4>1. Row(b) \in dispatch'
        BY <2>3 DEF Commits
      <4>2. SameBatch(Row(b), b)
        BY DEF Row, SameBatch
      <4> QED BY <4>1, <4>2 DEF Recorded
    <3>5. worker'.batch = b
      BY <2>3 DEF Commits
    <3>6. \A c : Recorded(c, dispatch) => Recorded(c, dispatch')
      BY RowsStay
    <3> QED BY <2>1, <3>3, <3>4, <3>5, <3>6 DEF Booked, Heard
  <2> QED BY <2>1, <2>2, <2>3
<1>2. \A c : Recorded(c, dispatch) => Recorded(c, dispatch')
  BY RowsStay
<1>3. CASE UNCHANGED <<wire, heard>> /\ (worker'.step = "sending" => UNCHANGED worker)
  BY <1>2, <1>3 DEF Booked, Heard
<1>4. CASE Subscribing
  BY <1>3, <1>4 DEF Subscribing, Renew, Subscribe, SubscribeFresh, SubscribeAfter,
              SubscribeChanged, ChallengeFails, Unsubscribe, network, Free
<1>5. CASE Post
  BY <1>2, <1>5 DEF Post, Booked, Heard, TypeOK, Worker
<1>6. ASSUME NEW gone, NEW state, Reply(state, gone)  PROVE Booked'
  BY <1>2, <1>6 DEF Reply, Booked, Heard, Free
<1>7. CASE Silence
  BY <1>3, <1>7 DEF Silence, network, Free
<1>8. ASSUME NEW b \in wire, Arrive(b)  PROVE Booked'
  <2>1. heard' = Append(heard, b) /\ wire' = wire \ {b} /\ UNCHANGED <<dispatch, worker>>
    BY <1>8 DEF Arrive, tables
  <2>2. /\ DOMAIN heard = 1 .. Len(heard) /\ Len(heard) \in Nat
        /\ DOMAIN heard' = 1 .. Len(heard) + 1
        /\ \A i \in DOMAIN heard : heard'[i] = heard[i]
        /\ heard'[Len(heard) + 1] = b
    BY <2>1 DEF TypeOK
  <2>3. \A c : Heard(c, heard') => Heard(c, heard) \/ c = b
    BY <2>2 DEF Heard
  <2>4. \A i, j \in DOMAIN heard' : heard'[i] = heard'[j] => i = j
    BY <2>2 DEF Booked, Heard
  <2>5. \A i \in DOMAIN heard' : Recorded(heard'[i], dispatch')
    BY <1>2, <2>2 DEF Booked
  <2>6. worker'.step = "sending" => /\ Recorded(worker'.batch, dispatch')
                                     /\ worker'.batch \notin wire' /\ ~Heard(worker'.batch, heard')
    BY <1>2, <2>1, <2>3 DEF Booked
  <2>7. \A c \in wire' : Recorded(c, dispatch') /\ ~Heard(c, heard')
    BY <1>2, <2>1, <2>3 DEF Booked
  <2> QED BY <2>4, <2>5, <2>6, <2>7 DEF Booked
<1>9. CASE Around
  BY <1>3, <1>9 DEF Around, Crash, Tick, Arm, SetBack, network, Free
<1> QED BY <1>1, <1>3, <1>4, <1>5, <1>6, <1>7, <1>8, <1>9, Steps DEF vars, Sending

(* The invariant of the table and of what is under way.                    *)
LEMMA BookInductive == Spec => [](Tabled /\ Booked)
<1>1. Init => Tabled /\ Booked
  BY DEF Init, Tabled, MembersKnown, TrulyInTable, Booked, Heard, Unseen, Free
<1> QED BY <1>1, TabledStep, BookedStep, DeliveryTypeCorrect, DeliverySpaced, PTL DEF Spec

(* What is archived has an answer, or was never sent.                      *)
THEOREM DeliveryArchivesTruly == Spec => []ArchivedTruly
<1>1. Tabled /\ Booked => ArchivedTruly
  BY DEF Tabled, Booked, TrulyInTable, ArchivedTruly, Recorded, SameBatch
<1> QED BY <1>1, BookInductive, PTL
-----------------------------------------------------------------------------
(* One subscription at a time.                                             *)

ClockKept == wall <= latest /\ (~stepped => wall = latest)
Known ==
    /\ \A s \in Subs : subscriptions[s].active => subscriptions[s].known
    /\ \A d \in dispatch : subscriptions[d.sub].known
    /\ \A l \in lineage : subscriptions[l[1]].known
Past == \A e \in Events : events[e].place # "unknown" => events[e].created <= latest
OneLive == \A s, t \in Subs : Live(s, latest) /\ Live(t, latest) => s = t

(* What a challenge was sent on holds until it is answered.                *)
Asking ==
    worker.step = "verifying" =>
        /\ worker.from = {} =>
               /\ \A t \in Subs : Live(t, latest) => t = worker.sub
               /\ ~stepped => \A e \in Events :
                      events[e].place # "unknown" => events[e].created < worker.began
        /\ \A p \in worker.from : New(worker.sub) /\ Both(worker.sub) /\ Narrow(p)
Kept == ClockKept /\ Known /\ Past /\ OneLive /\ Asking

(* Steps that leave the tables and the clock, and start no challenge.      *)
Quiet ==
    /\ UNCHANGED <<subscriptions, events, dispatch, lineage, clock>>
    /\ UNCHANGED worker \/ worker'.step # "verifying"

(* Every step is one of these.                                             *)
LEMMA Kinds ==
    ASSUME TypeOK, [Next]_vars
    PROVE  \/ Polls
           \/ \E gone \in BOOLEAN, state \in {"webhook_accepted", "delivery_refused"} :
                  Reply(state, gone)
           \/ \E s \in Subs, ttl \in Ttls : Renew(s, ttl)
           \/ \E s \in Subs, ttl \in Ttls, handover \in BOOLEAN : \E from :
                  Subscribe(s, from, handover, ttl)
           \/ SubscribeFresh
           \/ \E p \in Subs : SubscribeAfter(p)
           \/ \E s \in Subs : Unsubscribe(s)
           \/ Tick
           \/ \E to \in Time : SetBack(to)
           \/ Quiet
<1>1. Post \/ Silence \/ ChallengeFails \/ Crash => Quiet
  BY DEF Post, Silence, ChallengeFails, Crash, Quiet, tables, clock, Free, TypeOK, Worker
<1>2. \A b, p : Arrive(b) \/ Arm(p) \/ SubscribeChanged(p) => Quiet
  BY DEF Arrive, Arm, SubscribeChanged, Quiet, tables, clock, Free
<1>3. UNCHANGED vars => Quiet
  BY DEF vars, Quiet, clock
<1>4. ASSUME Next  PROVE \/ Polls \/ Subscribing \/ Sending \/ Around
  BY <1>4, Steps
<1> QED BY <1>1, <1>2, <1>3, <1>4 DEF Subscribing, Sending, Around

(* The table of subscriptions after one has continued another.             *)
LEMMA AfterDoes ==
    ASSUME TypeOK, NEW p \in Subs, SubscribeAfter(p)
    PROVE  /\ worker.step = "verifying" /\ worker.from = {p} /\ worker.sub \in Subs
           /\ \A t \in Subs \ {worker.sub} :
                 /\ subscriptions'[t].known = subscriptions[t].known
                 /\ subscriptions'[t].active => subscriptions[t].active /\ t # p
                 /\ subscriptions'[t].started = subscriptions[t].started
                 /\ subscriptions'[t].expires = subscriptions[t].expires
           /\ subscriptions'[worker.sub].known
           /\ subscriptions'[worker.sub].started = subscriptions[p].started
           /\ lineage' = lineage \cup {<<worker.sub, p>>}
           /\ UNCHANGED <<events, dispatch, clock>> /\ worker' = Free
<1>1. worker.step = "verifying" /\ worker.from = {p} /\ worker.sub \in Subs
  BY DEF SubscribeAfter, Echoed, TypeOK, Worker, Free
<1>2. subscriptions' = [subscriptions EXCEPT
           ![p].active = FALSE,
           ![worker.sub] = Stored(Inherited(p),
               Min(Lease(worker.began, worker.ttl), subscriptions[p].expires))]
  BY DEF SubscribeAfter
<1>3. subscriptions'[worker.sub] =
          Stored(Inherited(p), Min(Lease(worker.began, worker.ttl), subscriptions[p].expires))
  BY <1>1, <1>2 DEF TypeOK
<1>4. \A t \in Subs \ {worker.sub} :
          subscriptions'[t] = IF t = p THEN [subscriptions[t] EXCEPT !.active = FALSE]
                              ELSE subscriptions[t]
  BY <1>1, <1>2 DEF TypeOK
<1>5. \A t \in Subs \ {worker.sub} :
          /\ subscriptions'[t].known = subscriptions[t].known
          /\ subscriptions'[t].active => subscriptions[t].active /\ t # p
          /\ subscriptions'[t].started = subscriptions[t].started
          /\ subscriptions'[t].expires = subscriptions[t].expires
  BY <1>4 DEF TypeOK, Subscription
<1>6. subscriptions'[worker.sub].known
      /\ subscriptions'[worker.sub].started = subscriptions[p].started
  BY <1>3 DEF Stored, Inherited
<1>7. lineage' = lineage \cup {<<worker.sub, p>>}
      /\ UNCHANGED <<events, dispatch, clock>> /\ worker' = Free
  BY DEF SubscribeAfter
<1> QED BY <1>1, <1>5, <1>6, <1>7

(* Steps that make no subscription live.                                   *)
Lesser ==
    \A s \in Subs :
        /\ subscriptions'[s].known = subscriptions[s].known
        /\ subscriptions'[s].active => subscriptions[s].active
        /\ subscriptions'[s].started = subscriptions[s].started
        /\ subscriptions'[s].expires = subscriptions[s].expires

(* Nothing comes alive as leases or the clock run on.                      *)
LEMMA LesserKeeps ==
    ASSUME TypeOK, TypeOK', Lesser, latest <= latest'
    PROVE  /\ \A t \in Subs : Live(t, latest)' => Live(t, latest)
           /\ OneLive => OneLive'
<1>1. \A t \in Subs : subscriptions[t].expires \in Int
  BY Numbers DEF TypeOK, Subscription
<1>2. latest \in Int /\ latest' \in Int
  BY DEF TypeOK, Time
<1>3. \A t \in Subs : Live(t, latest)' => Live(t, latest)
  BY <1>1, <1>2 DEF Live, Lesser
<1> QED BY <1>3 DEF OneLive

(* Which steps these are.                                                  *)
LEMMA LesserSteps ==
    ASSUME TypeOK
    PROVE  /\ Polls => Lesser
           /\ \A gone \in BOOLEAN, state \in {"webhook_accepted", "delivery_refused"} :
                  Reply(state, gone) => Lesser
           /\ \A s \in Subs : Unsubscribe(s) => Lesser
           /\ UNCHANGED subscriptions => Lesser
<1>1. ASSUME Polls  PROVE Lesser
  <2>1. subscriptions' = Lapsed
    BY <1>1, PollCommits
  <2> QED BY <2>1 DEF Lapsed, Lesser, TypeOK, Subscription
<1>2. ASSUME NEW gone \in BOOLEAN,
             NEW state \in {"webhook_accepted", "delivery_refused"}, Reply(state, gone)
      PROVE  Lesser
  BY <1>2 DEF Reply, Lesser, TypeOK, Subscription
<1>3. ASSUME NEW s \in Subs, Unsubscribe(s)  PROVE Lesser
  BY <1>3 DEF Unsubscribe, Lesser, TypeOK, Subscription
<1>4. UNCHANGED subscriptions => Lesser
  BY DEF Lesser
<1> QED BY <1>1, <1>2, <1>3, <1>4

(* What is live at the highest instant is live now.                        *)
LEMMA LiveNow ==
    ASSUME TypeOK, ClockKept, NEW s \in Subs, Fresh(s)
    PROVE  \A t \in Subs : Live(t, latest) => t = s
<1>1. \A t \in Subs : subscriptions[t].expires \in Int
  BY Numbers DEF TypeOK, Subscription
<1>2. wall \in Int /\ latest \in Int /\ wall <= latest
  BY DEF TypeOK, Time, ClockKept
<1>3. \A t \in Subs : Live(t, latest) => Live(t, wall)
  BY <1>1, <1>2 DEF Live
<1> QED BY <1>3 DEF Fresh, Others, Lives

(* Steps that only shorten leases.                                         *)
LEMMA KeptLesser ==
    ASSUME TypeOK, TypeOK', Kept, Lesser, UNCHANGED <<lineage, clock>>,
           worker'.step # "verifying",
           \A d \in dispatch' : \/ \E c \in dispatch : SameBatch(d, c)
                                \/ subscriptions[d.sub].active,
           \A e \in Events : events'[e].place # "unknown" => events'[e].created <= latest
    PROVE  Kept'
<1>1. ClockKept' /\ Past' /\ Asking'
  BY DEF Kept, ClockKept, Past, Asking, clock
<1>2. OneLive'
  BY LesserKeeps DEF Kept, clock, TypeOK, Time
<1>3. \A d \in dispatch' : d.sub \in Subs
  BY DEF TypeOK, Dispatch
<1>4. \A d \in dispatch' : subscriptions[d.sub].known
  BY <1>3 DEF Kept, Known, SameBatch
<1>5. \A l \in lineage : l[1] \in Subs
  BY DEF TypeOK
<1>6. Known'
  BY <1>3, <1>4, <1>5 DEF Kept, Known, Lesser
<1> QED BY <1>1, <1>2, <1>6 DEF Kept

(* A poll.                                                                 *)
LEMMA KeptPoll == ASSUME TypeOK, TypeOK', Kept, Polls  PROVE Kept'
<1>1. PICK new \in SUBSET Events, at \in Time :
          /\ worker.step = "idle" /\ Now /\ at <= wall
          /\ \A e \in new : events[e].place = "unknown"
          /\ events' = Table(new, at) /\ subscriptions' = Lapsed
          /\ \/ UNCHANGED <<dispatch, worker>>
             \/ \E b : Commits(b, new, at)
          /\ UNCHANGED <<lineage, markers, grant, network, asked, clock>>
  BY PollCommits
<1>2. worker'.step # "verifying"
  BY <1>1 DEF Commits
<1>3. ASSUME NEW d \in dispatch'
      PROVE  \/ \E c \in dispatch : SameBatch(d, c)
             \/ subscriptions[d.sub].active
  <2>1. CASE d \in dispatch
    BY <2>1 DEF SameBatch
  <2>2. ASSUME NEW b, Commits(b, new, at), d = Row(b)  PROVE subscriptions[d.sub].active
    BY <2>2 DEF Commits, Row, Lives, Live
  <2> QED BY <1>1, <2>1, <2>2 DEF Commits
<1>4. ASSUME NEW e \in Events, events'[e].place # "unknown"  PROVE events'[e].created <= latest
  <2>1. CASE e \in new
    <3>1. events'[e].created = at
      BY <1>1, <2>1 DEF Table
    <3>2. at <= wall /\ wall <= latest /\ {at, wall, latest} \subseteq Int
      BY <1>1 DEF Kept, ClockKept, TypeOK, Time
    <3> QED BY <3>1, <3>2
  <2>2. CASE e \notin new
    <3>1. events'[e] = Archived[e]
      BY <1>1, <2>2, TableIs
    <3>2. events'[e].created = events[e].created /\ events[e].place # "unknown"
      BY <1>4, <3>1, ArchivedIs
    <3> QED BY <3>2 DEF Kept, Past
  <2> QED BY <2>1, <2>2
<1> QED BY <1>1, <1>2, <1>3, <1>4, KeptLesser, LesserSteps

(* An answer.                                                              *)
LEMMA KeptReply ==
    ASSUME TypeOK, TypeOK', Kept, NEW gone \in BOOLEAN,
           NEW state \in {"webhook_accepted", "delivery_refused"}, Reply(state, gone)
    PROVE  Kept'
<1>1. Lesser /\ UNCHANGED <<events, lineage, clock>> /\ worker'.step # "verifying"
  BY LesserSteps DEF Reply, Free
<1>2. PICK f : Answers(f)
  BY ReplyAnswers
<1>3. \A d \in dispatch' : \E c \in dispatch : SameBatch(d, c)
  BY <1>2, AnswersKeep
<1> QED BY <1>1, <1>3, KeptLesser DEF Kept, Past

(* An end.                                                                 *)
LEMMA KeptUnsubscribe ==
    ASSUME TypeOK, TypeOK', Kept, NEW s \in Subs, Unsubscribe(s)
    PROVE  Kept'
<1>1. /\ Lesser /\ UNCHANGED <<events, dispatch, lineage, worker, clock>>
      /\ worker.step = "idle"
  BY LesserSteps DEF Unsubscribe
<1>2. \A d \in dispatch' : \E c \in dispatch : SameBatch(d, c)
  BY <1>1 DEF SameBatch
<1> QED BY <1>1, <1>2, KeptLesser DEF Kept, Past

(* A step that changes none of this.                                       *)
LEMMA KeptQuiet == ASSUME TypeOK, TypeOK', Kept, Quiet  PROVE Kept'
<1>1. CASE worker'.step # "verifying"
  <2>1. Lesser /\ UNCHANGED <<events, dispatch, lineage, clock>>
    BY LesserSteps DEF Quiet
  <2>2. \A d \in dispatch' : \E c \in dispatch : SameBatch(d, c)
    BY <2>1 DEF SameBatch
  <2> QED BY <1>1, <2>1, <2>2, KeptLesser DEF Kept, Past
<1>2. CASE UNCHANGED worker
  BY <1>2 DEF Quiet, Kept, ClockKept, Known, Past, OneLive, Asking, Live, New, clock
<1> QED BY <1>1, <1>2 DEF Quiet

(* The clock runs on, or is set back.                                      *)
LEMMA KeptClock ==
    ASSUME TypeOK, TypeOK', Kept, Tick \/ \E to \in Time : SetBack(to)
    PROVE  Kept'
<1>1. UNCHANGED <<subscriptions, events, dispatch, lineage, worker>>
  BY DEF Tick, SetBack, tables
<1>2. ClockKept' /\ latest <= latest' /\ (~stepped' => ~stepped)
  BY DEF Tick, SetBack, Kept, ClockKept, Later, TypeOK, Time
<1>3. OneLive' /\ \A t \in Subs : Live(t, latest)' => Live(t, latest)
  BY <1>1, <1>2, LesserKeeps, LesserSteps DEF Kept
<1>4. Known'
  BY <1>1 DEF Kept, Known
<1>5. Past'
  <2>1. \A e \in Events : events[e].created \in Int
    BY DEF TypeOK, Event, Time
  <2> QED BY <1>1, <1>2, <2>1 DEF Kept, Past, TypeOK, Time
<1>6. Asking'
  BY <1>1, <1>2, <1>3 DEF Kept, Asking, New
<1> QED BY <1>2, <1>3, <1>4, <1>5, <1>6 DEF Kept

(* A lease is extended.                                                    *)
LEMMA KeptRenew ==
    ASSUME TypeOK, TypeOK', Kept, NEW s \in Subs, NEW ttl \in Ttls, Renew(s, ttl)
    PROVE  Kept'
<1>1. /\ UNCHANGED <<events, dispatch, lineage, worker, clock>>
      /\ worker.step = "idle" /\ Fresh(s)
      /\ \A t \in Subs : /\ subscriptions'[t].known = subscriptions[t].known
                         /\ subscriptions'[t].active = subscriptions[t].active
                         /\ t # s => subscriptions'[t] = subscriptions[t]
  BY DEF Renew, TypeOK, Subscription
<1>2. \A t \in Subs : Live(t, latest) => t = s
  BY <1>1, LiveNow DEF Kept
<1>3. OneLive'
  BY <1>1, <1>2 DEF OneLive, Live, clock
<1>4. (\A d \in dispatch : d.sub \in Subs) /\ (\A l \in lineage : l[1] \in Subs)
  BY DEF TypeOK, Dispatch
<1>5. Known'
  BY <1>1, <1>4 DEF Kept, Known
<1>6. ClockKept' /\ Past' /\ Asking'
  BY <1>1 DEF Kept, ClockKept, Past, Asking, clock
<1> QED BY <1>3, <1>5, <1>6 DEF Kept

(* A challenge is sent.                                                    *)
LEMMA KeptSubscribe ==
    ASSUME TypeOK, TypeOK', Kept, NEW s \in Subs, NEW ttl \in Ttls, NEW from,
           NEW handover \in BOOLEAN, Subscribe(s, from, handover, ttl)
    PROVE  Kept'
<1>1. /\ UNCHANGED <<subscriptions, events, dispatch, lineage, clock>>
      /\ worker' = [step |-> "verifying", sub |-> s, from |-> from,
                    handover |-> handover, began |-> wall, ttl |-> ttl]
      /\ \A e \in Events : events[e].place # "unknown" => events[e].created # wall
  BY DEF Subscribe, tables
<1>2. \/ from = {} /\ Fresh(s)
      \/ \E p : from = {p} /\ New(s) /\ Both(s) /\ Narrow(p)
  <2>1. ASSUME NEW p \in from, from = {p}, HandsOver(s, p) \/ Continues(s, p)
        PROVE  New(s) /\ Both(s) /\ Narrow(p)
    BY <2>1 DEF HandsOver, Admitted, Continues
  <2> QED BY <2>1 DEF Subscribe
<1>3. ASSUME from = {}
      PROVE  /\ \A t \in Subs : Live(t, latest) => t = s
             /\ ~stepped => \A e \in Events :
                    events[e].place # "unknown" => events[e].created < wall
  <2>1. \A t \in Subs : Live(t, latest) => t = s
    BY <1>2, <1>3, LiveNow DEF Kept
  <2>2. ASSUME ~stepped, NEW e \in Events, events[e].place # "unknown"
        PROVE  events[e].created < wall
    <3>1. events[e].created <= wall /\ events[e].created # wall
      BY <1>1, <2>2 DEF Kept, ClockKept, Past
    <3>2. events[e].created \in Int /\ wall \in Int
      BY DEF TypeOK, Event, Time
    <3> QED BY <3>1, <3>2
  <2> QED BY <2>1, <2>2
<1>4. Asking'
  BY <1>1, <1>2, <1>3 DEF Asking, Live, New, clock
<1>5. ClockKept' /\ Known' /\ Past' /\ OneLive'
  BY <1>1 DEF Kept, ClockKept, Known, Past, OneLive, Live, clock
<1> QED BY <1>4, <1>5 DEF Kept

(* A subscription is stored.                                               *)
LEMMA KeptFresh == ASSUME TypeOK, TypeOK', Kept, SubscribeFresh  PROVE Kept'
<1>1. worker.step = "verifying" /\ worker.from = {} /\ worker.sub \in Subs
  BY DEF SubscribeFresh, Echoed, TypeOK, Worker, Free
<1>2. UNCHANGED <<events, dispatch, lineage, clock>> /\ worker' = Free
  BY DEF SubscribeFresh
<1>3. /\ \A t \in Subs \ {worker.sub} : subscriptions'[t] = subscriptions[t]
      /\ subscriptions'[worker.sub].known
  BY <1>1 DEF SubscribeFresh, Stored, TypeOK
<1>4. OneLive'
  BY <1>1, <1>2, <1>3 DEF Kept, Asking, OneLive, Live, clock
<1>5. (\A d \in dispatch : d.sub \in Subs) /\ (\A l \in lineage : l[1] \in Subs)
  BY DEF TypeOK, Dispatch
<1>6. Known'
  BY <1>2, <1>3, <1>5 DEF Kept, Known
<1>7. ClockKept' /\ Past' /\ Asking'
  BY <1>2 DEF Kept, ClockKept, Past, Asking, clock, Free
<1> QED BY <1>4, <1>6, <1>7 DEF Kept

(* A subscription continues another.                                       *)
LEMMA KeptAfter ==
    ASSUME TypeOK, TypeOK', Kept, NEW p \in Subs, SubscribeAfter(p)
    PROVE  Kept'
<1>1. /\ worker.sub \in Subs
      /\ \A t \in Subs \ {worker.sub} :
            /\ subscriptions'[t].known = subscriptions[t].known
            /\ subscriptions'[t].active => subscriptions[t].active /\ t # p
            /\ subscriptions'[t].expires = subscriptions[t].expires
      /\ subscriptions'[worker.sub].known
      /\ lineage' = lineage \cup {<<worker.sub, p>>}
      /\ UNCHANGED <<events, dispatch, clock>> /\ worker' = Free
  BY AfterDoes
<1>2. \A t \in Lives(wall) : t = p
  <2>1. subscriptions[p].expires > wall
        /\ Cardinality(Lives(wall)) = IF subscriptions[p].active THEN 1 ELSE 0
    BY DEF SubscribeAfter, Same
  <2>2. IsFiniteSet(Lives(wall))
    BY Numbers, FS_Subset DEF Lives
  <2>3. CASE subscriptions[p].active
    <3>1. p \in Lives(wall)
      BY <2>1, <2>3 DEF Lives, Live
    <3>2. \E x : Lives(wall) = {x}
      BY <2>1, <2>2, <2>3, FS_Singleton
    <3> QED BY <3>1, <3>2
  <2>4. CASE ~subscriptions[p].active
    BY <2>1, <2>2, <2>4, FS_EmptySet
  <2> QED BY <2>3, <2>4
<1>3. \A t \in Subs \ {worker.sub} : ~Live(t, latest)'
  <2>1. \A t \in Subs : subscriptions[t].expires \in Int
    BY Numbers DEF TypeOK, Subscription
  <2>2. wall \in Int /\ latest \in Int /\ wall <= latest /\ latest' = latest
    BY <1>1 DEF TypeOK, Time, Kept, ClockKept, clock
  <2>3. ASSUME NEW t \in Subs \ {worker.sub}, Live(t, latest)'  PROVE FALSE
    <3>1. subscriptions[t].active /\ t # p /\ subscriptions[t].expires > latest
      BY <1>1, <2>2, <2>3 DEF Live
    <3>2. t \in Lives(wall)
      BY <2>1, <2>2, <3>1 DEF Lives, Live
    <3> QED BY <1>2, <3>1, <3>2
  <2> QED BY <2>3
<1>4. OneLive'
  BY <1>3 DEF OneLive
<1>5. (\A d \in dispatch : d.sub \in Subs) /\ (\A l \in lineage : l[1] \in Subs)
  BY DEF TypeOK, Dispatch
<1>6. Known'
  BY <1>1, <1>5 DEF Kept, Known
<1>7. ClockKept' /\ Past' /\ Asking'
  BY <1>1 DEF Kept, ClockKept, Past, Asking, clock, Free
<1> QED BY <1>4, <1>6, <1>7 DEF Kept

(* The invariant of the clock, the leases and the challenges.              *)
LEMMA KeptInductive == Spec => []Kept
<1>1. Init => Kept
  <2> SUFFICES ASSUME Init  PROVE Kept
    OBVIOUS
  <2>1. \A s \in Subs : ~subscriptions[s].active
    BY DEF Init, Unknown
  <2>2. \A e \in Events : events[e].place = "unknown"
    BY DEF Init, Unseen
  <2> QED BY <2>1, <2>2
          DEF Init, Kept, ClockKept, Known, Past, OneLive, Live, Asking, Free
<1>2. TypeOK /\ TypeOK' /\ Kept /\ [Next]_vars => Kept'
  BY Kinds, KeptPoll, KeptReply, KeptRenew, KeptSubscribe, KeptFresh, KeptAfter,
     KeptUnsubscribe, KeptClock, KeptQuiet
<1> QED BY <1>1, <1>2, DeliveryTypeCorrect, PTL DEF Spec

(* From the highest instant on there is one live subscription at most; two *)
(* are live only while the clock is behind it, having been set back.       *)
THEOREM DeliveryOneActive == Spec => []OneActive
<1>1. TypeOK /\ Kept => OneActive
  <2> SUFFICES ASSUME TypeOK, Kept  PROVE OneActive
    OBVIOUS
  <2>1. Cardinality(Lives(latest)) = 0 \/ Cardinality(Lives(latest)) = 1
    <3>1. CASE Lives(latest) = {}
      BY <3>1, FS_EmptySet
    <3>2. CASE \E s : s \in Lives(latest)
      <4>1. PICK s : Lives(latest) = {s}
        BY <3>2 DEF Kept, OneLive, Lives
      <4> QED BY <4>1, FS_Singleton, Zenon
    <3> QED BY <3>1, <3>2
  <2>2. wall = latest \/ (stepped /\ wall < latest)
    <3>1. wall \in Int /\ latest \in Int
      BY DEF TypeOK, Time
    <3> QED BY <3>1 DEF Kept, ClockKept
  <2>3. wall = latest => Cardinality(Lives(wall)) = Cardinality(Lives(latest))
    OBVIOUS
  <2> QED BY <2>1, <2>2, <2>3 DEF OneActive
<1> QED BY <1>1, KeptInductive, DeliveryTypeCorrect, PTL
-----------------------------------------------------------------------------
(* Nothing is sent twice.                                                  *)

Continued(s) == \E p \in Subs : <<s, p>> \in lineage

(* Of two batches with an event in common, by their instants: the later is *)
(* of another subscription, and of none that continues the earlier one.    *)
Once ==
    \A c, d \in dispatch :
        c # d /\ c.at <= d.at /\ c.members \cap d.members # {} =>
            /\ c.sub # d.sub
            /\ <<d.sub, c.sub>> \notin lineage
            /\ stepped \/ Continued(d.sub)

(* While the clock was not set back, what others have sent is older than a *)
(* live subscription that continues none.                                  *)
Unrelated ==
    ~stepped =>
        \A s \in Subs : subscriptions[s].active /\ ~Continued(s) =>
            \A c \in dispatch : c.sub # s =>
                \A e \in c.members : events[e].created < subscriptions[s].started
Apart == Once /\ Unrelated

(* An event that a batch had stays as it was when taken in.                *)
LEMMA MembersStay ==
    ASSUME TypeOK, Tabled, [Next]_vars, NEW d \in dispatch, NEW e \in d.members
    PROVE  e \in Events /\ events'[e].created = events[e].created
<1>1. e \in Events /\ events[e].place # "unknown"
  BY DEF Tabled, MembersKnown, TypeOK, Dispatch
<1>2. CASE Polls
  <2>1. PICK new \in SUBSET Events, at \in Time :
            /\ \A f \in new : events[f].place = "unknown"
            /\ events' = Table(new, at)
    BY <1>2, PollCommits
  <2> QED BY <1>1, <2>1, TableIs, ArchivedIs
<1>3. CASE UNCHANGED events
  BY <1>1, <1>3
<1>4. CASE Subscribing
  BY <1>3, <1>4 DEF Subscribing, Renew, Subscribe, SubscribeFresh, SubscribeAfter,
              SubscribeChanged, ChallengeFails, Unsubscribe, tables
<1>5. CASE Sending
  BY <1>3, <1>5 DEF Sending, Post, Reply, Silence, Arrive, tables
<1>6. CASE Around
  BY <1>3, <1>6 DEF Around, Crash, Tick, Arm, SetBack, tables
<1> QED BY <1>2, <1>3, <1>4, <1>5, <1>6, Steps DEF vars

(* The rows of after are those of before, but for what became of them.     *)
RowsKept ==
    \A c, d \in dispatch' : \E a, b \in dispatch :
        SameBatch(c, a) /\ SameBatch(d, b) /\ (c # d => a # b)

(* So they are, unless a poll commits.                                     *)
LEMMA RowsKeptSteps ==
    ASSUME TypeOK
    PROVE  /\ UNCHANGED dispatch => RowsKept
           /\ (\E f : Answers(f)) => RowsKept
<1>1. UNCHANGED dispatch => RowsKept
  BY DEF RowsKept, SameBatch
<1>2. ASSUME NEW f, Answers(f)  PROVE RowsKept
  <2> SUFFICES ASSUME NEW c \in dispatch', NEW d \in dispatch'
               PROVE  \E a, b \in dispatch :
                          SameBatch(c, a) /\ SameBatch(d, b) /\ (c # d => a # b)
    BY DEF RowsKept
  <2>1. PICK a \in dispatch : c = f[a] /\ SameBatch(c, a)
    BY <1>2, AnswersKeep
  <2>2. PICK b \in dispatch : d = f[b] /\ SameBatch(d, b)
    BY <1>2, AnswersKeep
  <2> QED BY <2>1, <2>2
<1> QED BY <1>1, <1>2

(* Lineage grows by subscriptions that have sent nothing.                  *)
Grown ==
    /\ lineage \subseteq lineage'
    /\ \A d \in dispatch : \A p \in Subs :
           <<d.sub, p>> \in lineage' => <<d.sub, p>> \in lineage

(* Then no two of the rows come to be related.                             *)
LEMMA OnceKept ==
    ASSUME TypeOK, TypeOK', Once, RowsKept, Grown, stepped => stepped'
    PROVE  Once'
<1> SUFFICES ASSUME NEW c \in dispatch', NEW d \in dispatch', c # d, c.at <= d.at,
                    c.members \cap d.members # {}
             PROVE  /\ c.sub # d.sub
                    /\ <<d.sub, c.sub>> \notin lineage'
                    /\ stepped' \/ \E p \in Subs : <<d.sub, p>> \in lineage'
  BY DEF Once, Continued
<1>1. PICK a, b \in dispatch : SameBatch(c, a) /\ SameBatch(d, b) /\ a # b
  BY DEF RowsKept
<1>2. /\ a.sub # b.sub /\ <<b.sub, a.sub>> \notin lineage
      /\ stepped \/ Continued(b.sub)
  BY <1>1 DEF Once, SameBatch
<1>3. a.sub \in Subs /\ b.sub \in Subs
  BY DEF TypeOK, Dispatch
<1>4. <<b.sub, a.sub>> \notin lineage'
  BY <1>2, <1>3 DEF Grown
<1> QED BY <1>1, <1>2, <1>4 DEF Grown, Continued, SameBatch

(* And none that is live and continues none becomes related to the rows.   *)
LEMMA UnrelatedKept ==
    ASSUME TypeOK, TypeOK', Tabled, Unrelated, RowsKept, [Next]_vars, stepped => stepped',
           NEW s \in Subs, ~stepped', subscriptions[s].active, ~Continued(s),
           NEW c \in dispatch', c.sub # s, NEW e \in c.members
    PROVE  events'[e].created < subscriptions[s].started
<1>1. PICK a \in dispatch : SameBatch(c, a)
  BY DEF RowsKept
<1>2. e \in a.members /\ a.sub # s
  BY <1>1 DEF SameBatch
<1>3. events'[e].created = events[e].created
  BY <1>2, MembersStay
<1> QED BY <1>2, <1>3 DEF Unrelated

(* A poll sends what was not sent, and nothing that another has sent.      *)
LEMMA ApartPoll ==
    ASSUME TypeOK, TypeOK', Tabled, Kept, Apart, Polls
    PROVE  Apart'
<1>1. PICK new \in SUBSET Events, at \in Time :
          /\ \A e \in new : events[e].place = "unknown"
          /\ events' = Table(new, at)
          /\ UNCHANGED dispatch \/ \E b : Commits(b, new, at)
          /\ UNCHANGED <<lineage, clock>>
  BY PollCommits
<1>2. Lesser /\ Grown /\ UNCHANGED stepped /\ [Next]_vars
  BY <1>1, LesserSteps DEF Grown, clock, Next
<1>3. CASE UNCHANGED dispatch
  <2>1. RowsKept
    BY <1>3, RowsKeptSteps
  <2>2. Once'
    BY <1>2, <2>1, OnceKept DEF Apart
  <2>3. Unrelated'
    BY <1>1, <1>2, <2>1, UnrelatedKept DEF Unrelated, Apart, Lesser, Continued
  <2> QED BY <2>2, <2>3 DEF Apart
<1>4. ASSUME NEW b, Commits(b, new, at)  PROVE Apart'
  <2>1. /\ dispatch' = dispatch \cup {Row(b)}
        /\ Row(b).sub = b.sub /\ Row(b).members = b.members /\ Row(b).at = wall
        /\ b.sub \in Subs /\ Live(b.sub, wall) /\ \A s \in Lives(wall) : s = b.sub
        /\ b.members \subseteq Eligible(b.sub, Table(new, at), wall)
    BY <1>4 DEF Commits, Row, Batch, Lives
  <2>2. \A d \in dispatch : d.at < wall
    <3>1. \A d \in dispatch : wall - d.at >= Spacing /\ d.at \in Int
      BY <1>4 DEF Commits, Spaced, TypeOK, Dispatch, Time
    <3>2. wall \in Int /\ Spacing \in Int /\ Spacing > 0
      BY Numbers DEF TypeOK, Time
    <3> QED BY <3>1, <3>2
  <2>3. ASSUME NEW c \in dispatch, NEW e \in c.members, e \in b.members
        PROVE  /\ c.sub # b.sub /\ <<b.sub, c.sub>> \notin lineage
               /\ stepped \/ Continued(b.sub)
    <3>1. ~Covered(e, b.sub) /\ Table(new, at)[e].created >= subscriptions[b.sub].started
      <4>1. Table(new, at)[e].created >= Later(wall - Window, subscriptions[b.sub].started)
            /\ ~Covered(e, b.sub)
        BY <2>1, <2>3 DEF Eligible
      <4>2. wall - Window \in Int /\ subscriptions[b.sub].started \in Int
        <5>1. subscriptions[b.sub] \in Subscription
          BY <2>1 DEF TypeOK
        <5>2. Window \in Int /\ wall \in Int
          BY Numbers DEF TypeOK, Time
        <5> QED BY <5>1, <5>2 DEF Subscription, Time
      <4>3. e \in Events
        BY <2>3 DEF TypeOK, Dispatch
      <4>4. Table(new, at)[e].created \in Int
        BY <1>1, <4>3 DEF TypeOK, Event, Time
      <4> QED BY <4>1, <4>2, <4>4 DEF Later
    <3>2. c.sub # b.sub /\ <<b.sub, c.sub>> \notin lineage
      BY <2>3, <3>1 DEF Covered
    <3>3. Table(new, at)[e].created = events[e].created /\ e \in Events
      BY <1>1, <1>2, MembersStay
    <3>4. events[e].created \in Int /\ subscriptions[b.sub].started \in Int
      BY <2>1, <3>3 DEF TypeOK, Event, Subscription, Time
    <3>5. ~stepped /\ ~Continued(b.sub) => events[e].created < subscriptions[b.sub].started
      BY <2>1, <3>2 DEF Apart, Unrelated, Live
    <3> QED BY <3>1, <3>2, <3>3, <3>4, <3>5
  <2>4. Once'
    <3> SUFFICES ASSUME NEW c \in dispatch', NEW d \in dispatch', c # d, c.at <= d.at,
                        c.members \cap d.members # {}
                 PROVE  /\ c.sub # d.sub /\ <<d.sub, c.sub>> \notin lineage
                        /\ stepped \/ Continued(d.sub)
      BY <1>1 DEF Once, clock, Continued
    <3>1. CASE c \in dispatch /\ d \in dispatch
      BY <3>1 DEF Apart, Once
    <3>2. CASE c \in dispatch /\ d = Row(b)
      BY <2>1, <2>3, <3>2
    <3>3. CASE c = Row(b) /\ d \in dispatch
      <4>1. d.at < c.at /\ d.at \in Int /\ c.at \in Int
        BY <2>1, <2>2, <3>3 DEF TypeOK, Dispatch, Time
      <4> QED BY <4>1
    <3> QED BY <2>1, <3>1, <3>2, <3>3
  <2>5. Unrelated'
    <3> SUFFICES ASSUME ~stepped, NEW s \in Subs, subscriptions'[s].active, ~Continued(s),
                        NEW c \in dispatch', c.sub # s, NEW e \in c.members
                 PROVE  events'[e].created < subscriptions[s].started
      BY <1>1, <1>2 DEF Unrelated, Lesser, Continued, clock
    <3>1. s = b.sub
      <4>1. subscriptions'[s] = Lapsed[s]
        BY PollCommits
      <4>2. s \in Lives(wall)
        BY <4>1 DEF Lapsed, Lives, Live, TypeOK, Subscription
      <4> QED BY <2>1, <4>2
    <3>2. c \in dispatch
      BY <2>1, <3>1
    <3>3. events[e].created < subscriptions[s].started
      BY <2>1, <3>1, <3>2 DEF Apart, Unrelated, Live
    <3> QED BY <1>2, <3>2, <3>3, MembersStay
  <2> QED BY <2>4, <2>5 DEF Apart
<1> QED BY <1>1, <1>3, <1>4

(* Steps that start no subscription and send nothing.                      *)
LEMMA ApartRest ==
    ASSUME TypeOK, TypeOK', Tabled, Apart, [Next]_vars, RowsKept,
           UNCHANGED lineage, stepped => stepped',
           \A s \in Subs : /\ subscriptions'[s].active => subscriptions[s].active
                           /\ subscriptions'[s].started = subscriptions[s].started
    PROVE  Apart'
<1>1. Once'
  <2>1. Grown
    BY DEF Grown
  <2> QED BY <2>1, OnceKept DEF Apart
<1>2. Unrelated'
  BY UnrelatedKept DEF Unrelated, Apart, Continued
<1> QED BY <1>1, <1>2 DEF Apart

(* A subscription starts after everything that was taken in, or was live.  *)
LEMMA ApartFresh ==
    ASSUME TypeOK, TypeOK', Tabled, Kept, Apart, SubscribeFresh
    PROVE  Apart'
<1>1. worker.step = "verifying" /\ worker.from = {} /\ worker.sub \in Subs
  BY DEF SubscribeFresh, Echoed, TypeOK, Worker, Free
<1>2. /\ UNCHANGED <<events, dispatch, lineage, clock>> /\ [Next]_vars
      /\ \A t \in Subs \ {worker.sub} : subscriptions'[t] = subscriptions[t]
      /\ subscriptions'[worker.sub].started = Started(worker.sub)
  BY <1>1 DEF SubscribeFresh, Stored, TypeOK, Next
<1>3. RowsKept /\ Grown
  BY <1>2, RowsKeptSteps DEF Grown
<1>4. Once'
  BY <1>2, <1>3, OnceKept DEF Apart, clock
<1>5. Unrelated'
  <2> SUFFICES ASSUME ~stepped, NEW s \in Subs, subscriptions'[s].active, ~Continued(s),
                      NEW c \in dispatch, c.sub # s, NEW e \in c.members
               PROVE  events[e].created < subscriptions'[s].started
    BY <1>2 DEF Unrelated, Continued, clock
  <2>1. CASE s # worker.sub \/ subscriptions[s].active
    <3>1. subscriptions[s].active /\ subscriptions'[s].started = subscriptions[s].started
      BY <1>2, <2>1 DEF Started
    <3> QED BY <3>1 DEF Apart, Unrelated
  <2>2. CASE s = worker.sub /\ ~subscriptions[s].active
    <3>1. subscriptions'[s].started = worker.began
      BY <1>2, <2>2 DEF Started
    <3>2. e \in Events /\ events[e].place # "unknown"
      BY DEF Tabled, MembersKnown, TypeOK, Dispatch
    <3> QED BY <1>1, <3>1, <3>2 DEF Kept, Asking
  <2> QED BY <2>1, <2>2
<1> QED BY <1>4, <1>5 DEF Apart

(* One that continues another has sent nothing.                            *)
LEMMA ApartAfter ==
    ASSUME TypeOK, TypeOK', Tabled, Kept, Apart, NEW p \in Subs, SubscribeAfter(p)
    PROVE  Apart'
<1>1. /\ worker.step = "verifying" /\ worker.from = {p} /\ worker.sub \in Subs
      /\ \A t \in Subs \ {worker.sub} :
            /\ subscriptions'[t].active => subscriptions[t].active
            /\ subscriptions'[t].started = subscriptions[t].started
      /\ lineage' = lineage \cup {<<worker.sub, p>>}
      /\ UNCHANGED <<events, dispatch, clock>> /\ [Next]_vars
  BY AfterDoes DEF Next
<1>2. \A d \in dispatch : d.sub # worker.sub
  BY <1>1 DEF Kept, Asking, New, Known
<1>3. RowsKept /\ Grown
  BY <1>1, <1>2, RowsKeptSteps DEF Grown
<1>4. Once'
  BY <1>1, <1>3, OnceKept DEF Apart, clock
<1>5. Unrelated'
  <2> SUFFICES ASSUME ~stepped', NEW s \in Subs, subscriptions'[s].active, ~Continued(s)',
                      NEW c \in dispatch', c.sub # s, NEW e \in c.members
               PROVE  events'[e].created < subscriptions'[s].started
    BY DEF Unrelated
  <2>1. s # worker.sub /\ ~Continued(s)
    BY <1>1 DEF Continued
  <2> QED BY <1>1, <2>1 DEF Apart, Unrelated, clock
<1> QED BY <1>4, <1>5 DEF Apart

(* The invariant of what has been sent.                                    *)
LEMMA ApartInductive == Spec => []Apart
<1>1. Init => Apart
  <2>1. Init => dispatch = {}
    BY DEF Init
  <2> QED BY <2>1 DEF Apart, Once, Unrelated
<1>2. TypeOK /\ TypeOK' /\ Tabled /\ Kept /\ Apart /\ [Next]_vars => Apart'
  <2> SUFFICES ASSUME TypeOK, TypeOK', Tabled, Kept, Apart, [Next]_vars  PROVE Apart'
    OBVIOUS
  <2>1. ASSUME NEW gone \in BOOLEAN,
               NEW state \in {"webhook_accepted", "delivery_refused"}, Reply(state, gone)
        PROVE  Apart'
    <3>1. Lesser /\ RowsKept /\ UNCHANGED <<lineage, clock>>
      BY <2>1, LesserSteps, ReplyAnswers, RowsKeptSteps DEF Reply
    <3> QED BY <3>1, ApartRest DEF Lesser, clock
  <2>2. ASSUME NEW s \in Subs, NEW ttl \in Ttls, Renew(s, ttl)  PROVE Apart'
    <3>1. /\ UNCHANGED <<dispatch, lineage, clock>>
          /\ \A t \in Subs : /\ subscriptions'[t].active = subscriptions[t].active
                             /\ subscriptions'[t].started = subscriptions[t].started
      BY <2>2 DEF Renew, TypeOK, Subscription
    <3> QED BY <3>1, ApartRest, RowsKeptSteps DEF clock
  <2>3. ASSUME NEW s \in Subs, Unsubscribe(s)  PROVE Apart'
    <3>1. Lesser /\ UNCHANGED <<dispatch, lineage, clock>>
      BY <2>3, LesserSteps DEF Unsubscribe
    <3> QED BY <3>1, ApartRest, RowsKeptSteps DEF Lesser, clock
  <2>4. CASE UNCHANGED <<subscriptions, dispatch, lineage>> /\ (stepped => stepped')
    BY <2>4, ApartRest, RowsKeptSteps
  <2>5. ASSUME NEW s \in Subs, NEW ttl \in Ttls, NEW from, NEW handover \in BOOLEAN,
               Subscribe(s, from, handover, ttl)
        PROVE  Apart'
    BY <2>4, <2>5 DEF Subscribe, tables, clock
  <2>6. CASE Tick \/ Quiet \/ \E to \in Time : SetBack(to)
    BY <2>4, <2>6 DEF Tick, Quiet, SetBack, tables, clock
  <2> QED BY <2>1, <2>2, <2>3, <2>5, <2>6, Kinds, ApartPoll, ApartFresh, ApartAfter
<1> QED BY <1>1, <1>2, DeliveryTypeCorrect, BookInductive, KeptInductive, PTL DEF Spec

(* What was sent is not sent again.                                        *)
THEOREM DeliveryOnce == Spec => []DeliveredOnce
<1>1. TypeOK /\ Booked /\ Apart => DeliveredOnce
  <2> SUFFICES ASSUME TypeOK, Booked, Apart, NEW i \in DOMAIN heard, NEW j \in DOMAIN heard,
                      i # j, heard[i].at <= heard[j].at,
                      heard[i].members \cap heard[j].members # {}
               PROVE  /\ heard[i].sub # heard[j].sub
                      /\ <<heard[j].sub, heard[i].sub>> \notin lineage
                      /\ stepped \/ \E p \in Subs : <<heard[j].sub, p>> \in lineage
    BY DEF DeliveredOnce
  <2>1. PICK c \in dispatch : SameBatch(c, heard[i])
    BY DEF Booked, Recorded
  <2>2. PICK d \in dispatch : SameBatch(d, heard[j])
    BY DEF Booked, Recorded
  <2>3. heard[i] # heard[j] /\ heard[i] \in Batch /\ heard[j] \in Batch
    BY DEF Booked, TypeOK
  <2>4. c # d
    BY <2>1, <2>2, <2>3 DEF SameBatch, Batch
  <2> QED BY <2>1, <2>2, <2>4 DEF SameBatch, Apart, Once, Continued
<1> QED BY <1>1, DeliveryTypeCorrect, BookInductive, ApartInductive, PTL

(* What the predecessor still had to send, its successor has to send.      *)
THEOREM DeliveryKeepsPending == Spec => HandoverKeepsPending
<1>1. ASSUME TypeOK, Kept, NEW p \in Subs, NEW s \in Subs,
             SubscribeAfter(p), worker.sub = s
      PROVE  Eligible(p, events, wall) \subseteq Eligible(s, events, wall)'
  <2>1. /\ worker.step = "verifying" /\ worker.from = {p}
        /\ subscriptions'[s].started = subscriptions[p].started
        /\ lineage' = lineage \cup {<<s, p>>}
        /\ UNCHANGED <<events, dispatch, wall>>
    BY <1>1, AfterDoes DEF clock
  <2>2. New(s) /\ Both(s) /\ Narrow(p)
    BY <1>1, <2>1 DEF Kept, Asking
  <2> SUFFICES ASSUME NEW e \in Eligible(p, events, wall)
               PROVE  e \in Eligible(s, events, wall)'
    OBVIOUS
  <2>3. /\ e \in Events /\ events[e].place = "held" /\ ~Covered(e, p)
        /\ events[e].created >= Later(wall - Window, subscriptions[p].started)
        /\ Topic[e] \in Topics[s]
    BY <2>2 DEF Eligible, Both, Narrow
  <2>4. ~Covered(e, s)'
    <3> SUFFICES ASSUME NEW d \in dispatch, e \in d.members,
                        d.sub = s \/ <<s, d.sub>> \in lineage \cup {<<s, p>>}
                 PROVE  FALSE
      BY <2>1 DEF Covered
    <3>1. d.sub # s
      BY <1>1, <2>2 DEF Kept, Known, New
    <3>2. <<s, d.sub>> \notin lineage
      BY <1>1, <2>2 DEF Kept, Known, New
    <3>3. d.sub # p
      BY <2>3 DEF Covered
    <3> QED BY <3>1, <3>2, <3>3
  <2> QED BY <2>1, <2>3, <2>4 DEF Eligible
<1>2. TypeOK /\ Kept /\ [Next]_vars =>
          [\A p, s \in Subs : SubscribeAfter(p) /\ worker.sub = s =>
              Eligible(p, events, wall) \subseteq Eligible(s, events, wall)']_vars
  BY <1>1
<1> QED BY <1>2, DeliveryTypeCorrect, KeptInductive, PTL DEF Spec, HandoverKeepsPending
-----------------------------------------------------------------------------
(* What a batch starts from.                                               *)

(* The oldest events of the topic of an oldest event are the oldest of all. *)
LEMMA OldestOfTopic ==
    ASSUME NEW rows \in SUBSET Events, NEW table \in [Events -> Event],
           NEW f \in First(rows, table)
    PROVE  First({e \in rows : Topic[e] = Topic[f]}, table) \subseteq First(rows, table)
<1> DEFINE same == {e \in rows : Topic[e] = Topic[f]}
<1>1. SUFFICES ASSUME NEW e \in First(same, table), NEW g \in rows
               PROVE  e \in rows /\ table[e].created <= table[g].created
  BY DEF First
<1>2. e \in rows /\ f \in same
  BY DEF First
<1>3. table[e].created <= table[f].created /\ table[f].created <= table[g].created
  BY <1>2 DEF First
<1>4. {table[e].created, table[f].created, table[g].created} \subseteq Int
  BY <1>2, Numbers DEF Event, First
<1> QED BY <1>2, <1>3, <1>4

(* With both topics to send, a batch has an oldest event in it.            *)
LEMMA BatchesStartOldest ==
    ASSUME NEW rows \in SUBSET Events, NEW table \in [Events -> Event],
           NEW m \in Batches(rows, table), {Topic[e] : e \in rows} = {"ha", "task"}
    PROVE  m \cap First(rows, table) # {}
<1>1. PICK f \in First(rows, table) : m \in TopicBatches(f, rows, table)
  BY DEF Batches
<1> DEFINE same == {e \in rows : Topic[e] = Topic[f]}
           kept(some) == {e \in same : Object[e] \in some}
<1>2. same # rows
  BY "ha" \in {Topic[e] : e \in rows}, "task" \in {Topic[e] : e \in rows}
<1>3. PICK o : m = kept(o) /\ kept(o) \cap First(same, table) # {}
  BY <1>1, <1>2 DEF TopicBatches
<1> HIDE DEF same, kept
<1>4. First(same, table) \subseteq First(rows, table)
  BY OldestOfTopic DEF same
<1> QED BY <1>3, <1>4

(* What a poll that takes both topics in commits to.                       *)
LEMMA BothTopicsSendable ==
    ASSUME NEW table, NEW b \in Sendable(table, {"ha", "task"})
    PROVE  b.members \in Batches(UNION {Eligible(s, table, wall) : s \in Lives(wall)}, table)
<1> DEFINE Rows(s) == {e \in Eligible(s, table, wall) : Topic[e] \in {"ha", "task"}}
<1>1. PICK s \in Lives(wall) :
          /\ Lives(wall) = {s}
          /\ b \in {[sub |-> s, members |-> m, at |-> wall] : m \in Batches(Rows(s), table)}
  BY DEF Sendable
<1>2. b.members \in Batches(Rows(s), table)
  BY <1>1
<1>3. Rows(s) = Eligible(s, table, wall)
  BY DeliveryAssumption DEF Eligible
<1>4. UNION {Eligible(t, table, wall) : t \in Lives(wall)} = Eligible(s, table, wall)
  BY <1>1
<1> HIDE DEF Rows
<1> QED BY <1>2, <1>3, <1>4

(* Neither source starves the other: when a poll reads both sources, and   *)
(* both have something to send, an oldest event of all is in the batch.    *)
THEOREM NeitherTopicStarves == Spec => NoTopicStarves
<1>1. ASSUME TypeOK, TypeOK',
             worker'.step = "sending", worker.step = "idle",
             NEW new \in {{}} \cup {{e} : e \in Events}, NEW at \in Time,
             Poll(new, at, {"ha", "task"}),
             {Topic[e] : e \in UNION {Eligible(s, events', wall) : s \in Lives(wall)}}
                 = {"ha", "task"}
      PROVE  worker'.batch.members \cap
                 First(UNION {Eligible(s, events', wall) : s \in Lives(wall)}, events') # {}
  <2>1. events' = Table(new, at) /\ \E b \in Sendable(events', {"ha", "task"}) : Commit(b)
    BY <1>1 DEF Poll, Table
  <2>2. PICK b \in Sendable(events', {"ha", "task"}) : Commit(b)
    BY <2>1
  <2>3. worker'.batch.members = b.members
    BY <2>2 DEF Commit
  <2>4. b.members \in Batches(UNION {Eligible(s, events', wall) : s \in Lives(wall)}, events')
    BY BothTopicsSendable
  <2>5. UNION {Eligible(s, events', wall) : s \in Lives(wall)} \in SUBSET Events
    BY DEF Eligible
  <2>6. events' \in [Events -> Event]
    BY <1>1 DEF TypeOK
  <2> QED BY <1>1, <2>3, <2>4, <2>5, <2>6, BatchesStartOldest
<1>2. TypeOK /\ TypeOK' /\ [Next]_vars =>
          [worker'.step = "sending" /\ worker.step = "idle" =>
            \/ ~\E new \in {{}} \cup {{e} : e \in Events}, at \in Time :
                   Poll(new, at, {"ha", "task"})
            \/ LET rows == UNION {Eligible(s, events', wall) : s \in Lives(wall)}
               IN {Topic[e] : e \in rows} = {"ha", "task"} =>
                      worker'.batch.members \cap First(rows, events') # {}]_vars
  BY <1>1
<1> QED BY <1>2, DeliveryTypeCorrect, PTL DEF Spec, NoTopicStarves
=============================================================================
