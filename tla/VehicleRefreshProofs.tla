------------------------ MODULE VehicleRefreshProofs ------------------------
(***************************************************************************)
(* Proofs about VehicleRefresh, for every number of commands and calls,    *)
(* every set of intervals, every lease, backoff and window, and every      *)
(* budget of faults.                                                       *)
(***************************************************************************)
EXTENDS VehicleRefresh, FiniteSetTheorems, TLAPS
-----------------------------------------------------------------------------
(* Numbers.                                                                *)

(* What is left of an interval, and the later of two deadlines.            *)
LEMMA LeftFacts ==
    ASSUME NEW a \in Nat, NEW b \in Nat
    PROVE  /\ Left(a, b) \in Nat /\ Left(a, b) <= a
           /\ Left(a, b) = 0 => a <= b
           /\ a <= b => Left(a, b) = 0
           /\ a > b => Left(a, b) = a - b
BY DEF Left

(* What is left of a bounded length is within the bound.                   *)
LEMMA LeftWithin ==
    ASSUME NEW n \in Nat, NEW a \in 0 .. n, NEW b \in Nat
    PROVE  Left(a, b) \in 0 .. n
BY DEF Left

(* So is the later of two, and it is after both.                           *)
LEMMA LaterWithin ==
    ASSUME NEW n \in Nat, NEW a \in 0 .. n, NEW b \in 0 .. n
    PROVE  Later(a, b) \in 0 .. n /\ a <= Later(a, b) /\ b <= Later(a, b)
BY DEF Later

(* The bounds on deadlines and ages.                                       *)
LEMMA Bounds ==
    /\ Intervals \subseteq Nat \ {0} /\ MaxInterval \in Intervals
    /\ Longest \in Nat /\ Old \in Nat /\ Never \in Nat /\ Never = Old + 1
    /\ Intervals \subseteq 0 .. Longest /\ 0 .. Backoff \subseteq 0 .. Longest
    /\ \A i \in Intervals : i <= Old
    /\ {Lease, Settle, Backoff, Window} \subseteq Nat \ {0}
    /\ Window <= Old
<1>1. MaxInterval \in Intervals /\ \A j \in Intervals : j <= MaxInterval
  BY RefreshBounds DEF MaxInterval
<1>2. /\ Intervals \subseteq Nat \ {0}
      /\ {Lease, Settle, Backoff, Window} \subseteq Nat \ {0}
  BY RefreshBounds
<1>3. Longest \in Nat /\ MaxInterval <= Longest /\ Backoff <= Longest
  BY <1>1, <1>2 DEF Longest, Later
<1>4. Old \in Nat /\ MaxInterval <= Old /\ Window <= Old
  BY <1>1, <1>2 DEF Old, Later
<1>5. ASSUME NEW i \in Intervals  PROVE i \in 0 .. Longest /\ i <= Old
  <2>1. i \in Nat /\ MaxInterval \in Nat /\ i <= MaxInterval
    BY <1>1, <1>2
  <2> QED BY <2>1, <1>3, <1>4
<1>6. 0 .. Backoff \subseteq 0 .. Longest
  BY <1>2, <1>3
<1>7. Never \in Nat /\ Never = Old + 1
  BY <1>4 DEF Never
<1> QED BY <1>1, <1>2, <1>3, <1>4, <1>5, <1>6, <1>7

(* What a handler may write into a field.                                  *)
LEMMA Values ==
    /\ 0 \in 0 .. Lease /\ Lease \in 0 .. Lease /\ 0 \in 0 .. Settle
    /\ Settle \in 0 .. Settle /\ 0 \in 0 .. Backoff /\ 0 \in 0 .. Longest
    /\ 0 \in Ages /\ Never \in Ages /\ Ages \subseteq Nat
    /\ MaxInterval \in Intervals
BY Bounds DEF Ages

(* Ages grow alike.                                                        *)
LEMMA AgedFacts ==
    ASSUME NEW a \in Ages
    PROVE  Aged(a) \in Ages /\ \A b \in Ages : a <= b => Aged(a) <= Aged(b)
BY Bounds DEF Ages, Aged
-----------------------------------------------------------------------------
(* What the handlers make of a record is one.                              *)

(* The record of an empty context.                                         *)
LEMMA BlankTyped == Blank \in Record
BY Values DEF Blank, Record

(* The facts of a command; its deadline covers what is left of the interval*)
(* selected since the last wake.                                           *)
LEMMA DerivedTyped ==
    ASSUME NEW r \in Record, NEW i \in Intervals
    PROVE  /\ Derived(r, i) \in Record
           /\ Derived(r, i).next >= Left(i, r.anchor)
<1> DEFINE floor == Left(i, r.anchor)
           kept == IF r.interval = i THEN Later(r.next, floor) ELSE floor
           expired == r.probe /\ r.probeLeft = 0
           later == Later(kept, r.retry)
           last == IF expired THEN i ELSE 0
           next == Later(later, last)
<1>1. Longest \in Nat /\ i \in 0 .. Longest /\ 0 \in 0 .. Longest
  BY Bounds, Values
<1>2. r.anchor \in Nat /\ r.next \in 0 .. Longest /\ r.retry \in 0 .. Longest
  BY Bounds, Values DEF Record
<1>3. floor \in 0 .. Longest
  BY <1>1, <1>2, LeftWithin
<1> HIDE DEF floor
<1>4. kept \in 0 .. Longest /\ floor <= kept
  <2>1. Later(r.next, floor) \in 0 .. Longest /\ floor <= Later(r.next, floor)
    BY <1>1, <1>2, <1>3, LaterWithin
  <2>2. floor <= floor
    BY <1>1, <1>3
  <2> QED BY <2>1, <2>2, <1>3
<1> HIDE DEF kept
<1>5. later \in 0 .. Longest /\ kept <= later
  BY <1>1, <1>2, <1>4, LaterWithin
<1>6. last \in 0 .. Longest
  BY <1>1
<1> HIDE DEF later, last
<1>7. next \in 0 .. Longest /\ later <= next
  BY <1>1, <1>5, <1>6, LaterWithin
<1> HIDE DEF next
<1>8. floor <= next
  BY <1>1, <1>3, <1>4, <1>5, <1>7
<1>9. Derived(r, i) = [r EXCEPT !.interval = i, !.next = next,
          !.probe = @ /\ ~expired, !.marked = @ /\ ~expired,
          !.wake = @ /\ r.wakeLeft > 0]
  BY DEF Derived, next, later, last, kept, floor
<1> HIDE DEF expired
<1>10. Derived(r, i) \in Record
  BY <1>7, <1>9 DEF Record
<1>11. Derived(r, i).next = next
  BY <1>9 DEF Record
<1> QED BY <1>8, <1>10, <1>11 DEF floor

(* A wake sent.                                                            *)
LEMMA DispatchedTyped ==
    ASSUME NEW r \in Record, NEW i \in Intervals, seen \in Ages
    PROVE  Dispatched(r, i) \in Record
<1>1. i \in 0 .. Longest
  BY Bounds
<1> QED BY <1>1, Values DEF Dispatched, Record

(* A read of the cache sent.                                               *)
LEMMA ProbingTyped == ASSUME NEW r \in Record  PROVE Probing(r) \in Record
BY Values DEF Probing, Record

(* A deadline moved out by what is left of the interval, or by all of it.  *)
LEMMA NextTyped ==
    ASSUME NEW r \in Record
    PROVE  /\ Left(r.interval, r.request) \in 0 .. Longest
           /\ \A n \in 0 .. Longest : Later(r.next, n) \in 0 .. Longest
<1>1. /\ Longest \in Nat /\ r.interval \in 0 .. Longest /\ r.request \in Nat
      /\ r.next \in 0 .. Longest
  BY Bounds, Values DEF Record
<1> QED BY <1>1, LeftWithin, LaterWithin

(* A call answered, by the coordinator and by the handler of errors.       *)
LEMMA AcceptedTyped ==
    ASSUME NEW r \in Record
    PROVE  Accepted(r) \in Record /\ AcceptedAsError(r) \in Record
<1>1. Later(r.next, Left(r.interval, r.request)) \in 0 .. Longest
  BY NextTyped
<1> QED BY <1>1, Values DEF Accepted, AcceptedAsError, Record

(* A cache read, and a provider out of reach.                              *)
LEMMA RereadTyped ==
    ASSUME NEW r \in Record, NEW kind
    PROVE  Reread(r) \in Record /\ Disconnected(r, kind) \in Record
BY Values DEF Reread, Disconnected, Record

(* A call refused, by the provider or for another reason.                  *)
LEMMA BrokenTyped ==
    ASSUME NEW r \in Record, NEW cache \in BOOLEAN, NEW relevant \in BOOLEAN
    PROVE  Broken(r, cache, relevant) \in Record
<1>1. r.interval \in 0 .. Longest
  BY Bounds DEF Record
<1>2. Later(r.next, r.interval) \in 0 .. Longest
  BY <1>1, NextTyped
<1> DEFINE next == IF cache THEN Later(r.next, r.interval) ELSE r.next
<1>3. next \in 0 .. Longest
  BY <1>2 DEF Record
<1> HIDE DEF next
<1>4. /\ (r.failed \/ relevant) \in BOOLEAN
      /\ (r.pending /\ ~relevant) \in BOOLEAN
  OBVIOUS
<1>5. Broken(r, cache, relevant) =
          [r EXCEPT !.wake = FALSE, !.wakeLeft = 0, !.probe = FALSE,
                    !.probeLeft = 0, !.marked = FALSE, !.settle = 0,
                    !.await = TRUE, !.failed = @ \/ relevant,
                    !.pending = @ /\ ~relevant, !.next = next]
  BY DEF Broken, next
<1> QED BY <1>3, <1>4, <1>5, Values DEF Record

(* A tick.                                                                 *)
LEMMA OlderTyped == ASSUME NEW r \in Record  PROVE Older(r) \in Record
<1>1. {Lease, Settle, Backoff, Longest} \subseteq Nat
  BY Bounds
<1>2. /\ Left(r.wakeLeft, 1) \in 0 .. Lease /\ Left(r.probeLeft, 1) \in 0 .. Lease
      /\ Left(r.settle, 1) \in 0 .. Settle /\ Left(r.next, 1) \in 0 .. Longest
      /\ Left(r.retry, 1) \in 0 .. Backoff
  BY <1>1, LeftWithin DEF Record
<1>3. /\ Aged(r.request) \in Ages /\ Aged(r.anchor) \in Ages
      /\ Aged(r.base) \in Ages
  BY AgedFacts DEF Record
<1> QED BY <1>2, <1>3 DEF Older, Record
-----------------------------------------------------------------------------
(* The objects in the heap.                                                *)

(* One object more than there are commands: a handler that may not write   *)
(* to the stored one finds another that nobody holds.                      *)
LEMMA FreeObject ==
    ASSUME TypeOK, Held(stored) # {}
    PROVE  \E p \in Objects \ {stored} : Held(p) = {}
<1> SUFFICES ASSUME \A p \in Objects : Held(p) # {}
             PROVE  FALSE
  OBVIOUS
<1> DEFINE holder == [p \in Objects |-> CHOOSE s \in Slots : s \in Held(p)]
<1>1. \A p \in Objects : holder[p] \in Slots /\ holder[p] \in Held(p)
  <2>1. ASSUME NEW p \in Objects  PROVE \E s \in Slots : s \in Held(p)
    BY DEF Held
  <2> QED BY <2>1
<1>2. holder \in [Objects -> Slots]
  BY <1>1
<1> HIDE DEF holder
<1>3. MaxCommands \in Nat \ {0}
  BY RefreshBounds
<1>4. /\ IsFiniteSet(Slots) /\ IsFiniteSet(Objects)
      /\ Cardinality(Slots) < Cardinality(Objects)
  <2>1. 1 \in Int /\ 0 \in Int /\ MaxCommands \in Int /\ 0 < MaxCommands
    BY <1>3
  <2>2. IsFiniteSet(Slots) /\ Cardinality(Slots) = MaxCommands
    BY <2>1, FS_Interval DEF Slots
  <2>3. IsFiniteSet(Objects) /\ Cardinality(Objects) = MaxCommands + 1
    BY <2>1, FS_Interval DEF Objects
  <2> QED BY <2>1, <2>2, <2>3
<1>5. PICK p, q \in Objects : p # q /\ holder[p] = holder[q]
  BY <1>2, <1>4, FS_PigeonHole
<1>6. holder[p] \in Held(p) /\ holder[p] \in Held(q)
  BY <1>1, <1>5
<1> QED BY <1>5, <1>6 DEF Held

(* Writing to the stored object leaves the others alone.                   *)
LEMMA WriteDoes ==
    ASSUME TypeOK, NEW r \in Record, Write(r)
    PROVE  /\ heap' \in [Objects -> Record] /\ stored' \in Objects
           /\ stored' = stored /\ heap'[stored] = r
           /\ \A p \in Objects : p # stored => heap'[p] = heap[p]
BY DEF TypeOK, Write

(* Storing another object leaves those alone that a command holds.         *)
LEMMA ReplaceDoes ==
    ASSUME TypeOK, NEW r \in Record, Replace(r)
    PROVE  /\ heap' \in [Objects -> Record] /\ stored' \in Objects
           /\ heap'[stored'] = r
           /\ \A s \in Slots : command[s].doing # "idle" =>
                  heap'[command[s].object] = heap[command[s].object]
           /\ Held(stored) = {} => stored' = stored
<1>1. \A s \in Slots : command[s].object \in Objects
  BY DEF TypeOK, Command
<1>2. CASE Held(stored) = {}
  <2>1. Write(r)
    BY <1>2 DEF Replace
  <2>2. \A s \in Slots : command[s].doing # "idle" => command[s].object # stored
    BY <1>2 DEF Held
  <2> QED BY <1>1, <2>1, <2>2, WriteDoes
<1>3. CASE Held(stored) # {}
  <2> DEFINE o == CHOOSE p \in Objects \ {stored} : Held(p) = {}
  <2>1. o \in Objects \ {stored} /\ Held(o) = {}
    BY <1>3, FreeObject
  <2>2. heap' = [heap EXCEPT ![o] = r] /\ stored' = o
    BY <1>3 DEF Replace
  <2> HIDE DEF o
  <2>3. \A s \in Slots : command[s].doing # "idle" => command[s].object # o
    BY <2>1 DEF Held
  <2> QED BY <1>1, <1>3, <2>1, <2>2, <2>3 DEF TypeOK
<1> QED BY <1>2, <1>3

(* The end of a command stores its object; no other command's is touched.  *)
LEMMA LeaveDoes ==
    ASSUME TypeOK, NEW s \in Slots, NEW r \in Record, Leave(s, r)
    PROVE  /\ heap' \in [Objects -> Record] /\ stored' \in Objects
           /\ stored' = command[s].object /\ heap'[stored'] = r
           /\ command' \in [Slots -> Command]
           /\ command'[s] = Idle
           /\ \A t \in Slots : t # s =>
                  /\ command'[t] = command[t]
                  /\ command[t].doing # "idle" /\ command[t].object # stored' =>
                         heap'[command[t].object] = heap[command[t].object]
           /\ UNCHANGED <<seen, lifecycle, said, spent, budget, faults>>
<1> DEFINE o == command[s].object
           others == Held(stored) \ {s}
<1>1. o \in Objects /\ \A t \in Slots : command[t].object \in Objects
  BY DEF TypeOK, Command
<1>2. /\ heap' = [p \in Objects |->
              CASE p = o -> r
                [] p = stored /\ p # o /\ others = {} -> Blank
                [] OTHER -> heap[p]]
      /\ stored' = o
      /\ command' = [command EXCEPT ![s] = Idle]
      /\ UNCHANGED <<seen, lifecycle, said, spent, budget, faults>>
  BY DEF Leave
<1>3. heap' \in [Objects -> Record]
  BY <1>2, BlankTyped DEF TypeOK
<1>4. Idle \in Command
  BY RefreshBounds, Values DEF Idle, Command, Objects
<1>5. command' \in [Slots -> Command] /\ command'[s] = Idle
      /\ \A t \in Slots : t # s => command'[t] = command[t]
  BY <1>2, <1>4 DEF TypeOK
<1>6. ASSUME NEW t \in Slots, t # s, command[t].doing # "idle", command[t].object # o
      PROVE  heap'[command[t].object] = heap[command[t].object]
  <2>1. command[t].object = stored => t \in others
    BY <1>6 DEF Held
  <2>2. command[t].object \in Objects
    BY <1>1
  <2> HIDE DEF others, o
  <2> QED BY <1>2, <1>6, <2>1, <2>2
<1> QED BY <1>1, <1>2, <1>3, <1>5, <1>6
-----------------------------------------------------------------------------
(* Types.                                                                  *)

Kinds == {"force", "call", "trip", "provider", "loss", "restart", "overlap",
          "late"}

(* What is spent of a kind is never given back.                            *)
LEMMA SpendDoes ==
    ASSUME TypeOK, NEW kinds, Spend(kinds)
    PROVE  /\ budget' \in Budgets /\ faults' \in [DOMAIN budget' -> Nat]
           /\ \A f \in Kinds : faults'[f] >= faults[f]
           /\ \A f \in kinds \cap Kinds : faults'[f] > 0
<1>1. DOMAIN budget = Kinds /\ faults \in [Kinds -> Nat]
  BY RefreshBounds DEF TypeOK, Kinds
<1> HIDE DEF Kinds
<1> QED BY <1>1 DEF TypeOK, Spend

(* A message from outside; without overlap it meets no chain.              *)
LEMMA ArrivesDoes ==
    ASSUME TypeOK, NEW kinds, Arrives(kinds)
    PROVE  /\ budget' \in Budgets /\ faults' \in [DOMAIN budget' -> Nat]
           /\ \A f \in Kinds : faults'[f] >= faults[f]
           /\ \A f \in kinds \cap Kinds : faults'[f] > 0
           /\ faults'.overlap = 0 => Quiet
<1> DEFINE all == kinds \cup IF Quiet THEN {} ELSE {"overlap"}
<1>1. Spend(all)
  BY DEF Arrives
<1>2. /\ budget' \in Budgets /\ faults' \in [DOMAIN budget' -> Nat]
      /\ \A f \in Kinds : faults'[f] >= faults[f]
      /\ \A f \in all \cap Kinds : faults'[f] > 0
  BY <1>1, SpendDoes
<1>3. ~Quiet => faults'.overlap > 0
  BY <1>2 DEF Kinds
<1>4. \A f \in kinds \cap Kinds : faults'[f] > 0
  BY <1>2
<1> QED BY <1>2, <1>3, <1>4

(* A call that is made, and one that ends.                                 *)
LEMMA SendDoes ==
    ASSUME TypeOK, NEW kind \in {"wake", "probe"}, Send(kind)
    PROVE  /\ calls' \in [DOMAIN calls' -> Call]
           /\ \E new : \A c \in DOMAIN calls' :
                  IF c = new THEN calls'[c] = [kind |-> kind, left |-> Lease, lost |-> FALSE,
                                               cut |-> FALSE]
                  ELSE c \in DOMAIN calls /\ calls'[c] = calls[c]
<1> DEFINE new == CHOOSE c \in 1 .. Cardinality(DOMAIN calls) + 1 : c \notin DOMAIN calls
           call == [kind |-> kind, left |-> Lease, lost |-> FALSE, cut |-> FALSE]
<1>1. calls' = [c \in DOMAIN calls \cup {new} |-> IF c = new THEN call ELSE calls[c]]
  BY DEF Send
<1> HIDE DEF new
<1>2. call \in Call
  BY Values DEF Call
<1>3. \A c \in DOMAIN calls' :
          IF c = new THEN calls'[c] = call ELSE c \in DOMAIN calls /\ calls'[c] = calls[c]
  BY <1>1
<1> QED BY <1>1, <1>2, <1>3 DEF TypeOK

(* A call answered is gone; the others are as they were.                   *)
LEMMA EndsDoes ==
    ASSUME TypeOK, NEW c, NEW kinds, Ends(c, kinds)
    PROVE  /\ calls' \in [DOMAIN calls' -> Call]
           /\ c \in DOMAIN calls /\ ~calls[c].lost /\ calls[c] \in Call
           /\ DOMAIN calls' = DOMAIN calls \ {c}
           /\ \A d \in DOMAIN calls' : calls'[d] = calls[d]
BY DEF TypeOK, Ends, Restrict

(* A call whose connection is lost never left, or goes on, cut off.        *)
LEMMA DisconnectDoes ==
    ASSUME TypeOK, NEW c, Disconnect(c)
    PROVE  /\ calls' \in [DOMAIN calls' -> Call]
           /\ c \in DOMAIN calls /\ ~calls[c].lost /\ DOMAIN calls' \subseteq DOMAIN calls
           /\ \A d \in DOMAIN calls' :
                  IF d = c THEN calls'[d].cut = TRUE /\ calls'[d].lost = TRUE
                  ELSE calls'[d] = calls[d]
<1>1. c \in DOMAIN calls /\ ~calls[c].lost /\ \A d \in DOMAIN calls : calls[d] \in Call
  BY DEF Disconnect, TypeOK
<1>2. CASE calls' = Restrict(calls, DOMAIN calls \ {c})
  BY <1>1, <1>2 DEF Restrict
<1>3. CASE calls' = [calls EXCEPT ![c].lost = TRUE, ![c].cut = TRUE]
  <2>1. DOMAIN calls' = DOMAIN calls /\ \A d \in DOMAIN calls :
            calls'[d] = IF d = c THEN [calls[c] EXCEPT !.lost = TRUE, !.cut = TRUE]
                                 ELSE calls[d]
    BY <1>1, <1>3 DEF TypeOK
  <2>2. [calls[c] EXCEPT !.lost = TRUE, !.cut = TRUE] \in Call
        /\ [calls[c] EXCEPT !.lost = TRUE, !.cut = TRUE].cut = TRUE
        /\ [calls[c] EXCEPT !.lost = TRUE, !.cut = TRUE].lost = TRUE
    BY <1>1 DEF Call
  <2>3. calls' = [d \in DOMAIN calls' |-> calls'[d]]
    BY <1>3
  <2> QED BY <1>1, <2>1, <2>2, <2>3
<1> QED BY <1>2, <1>3 DEF Disconnect

(* What is stored is a record.                                             *)
LEMMA RecordTyped == ASSUME TypeOK  PROVE record \in Record
BY DEF TypeOK, record

(* A command enters.                                                       *)
LEMMA EnterTyped ==
    ASSUME TypeOK, NEW s \in Slots, NEW i \in Intervals, NEW forced \in BOOLEAN,
           NEW wanted, Enter(s, i, forced, wanted)
    PROVE  TypeOK'
<1>1. Derived(record, i) \in Record /\ Write(Derived(record, i))
  BY RecordTyped, DerivedTyped DEF Enter
<1>2. heap' \in [Objects -> Record] /\ stored' \in Objects
  BY <1>1, WriteDoes
<1>3. budget' \in Budgets /\ faults' \in [DOMAIN budget' -> Nat]
  BY ArrivesDoes DEF Enter
<1>4. Outcome(Derived(record, i), forced, wanted) \in {"idle", "nothing", "probe", "wake"}
  BY DEF Outcome
<1>5. command' \in [Slots -> Command]
  BY <1>4 DEF Enter, TypeOK, Command
<1> QED BY <1>2, <1>3, <1>5 DEF Enter, TypeOK

(* A command ends.                                                         *)
LEMMA LeaveTyped ==
    ASSUME TypeOK, NEW s \in Slots, Suppress(s) \/ ProbeCache(s) \/ Wake(s)
    PROVE  TypeOK'
<1>1. command[s].object \in Objects /\ command[s].interval \in Intervals
  BY DEF TypeOK, Command
<1>2. heap[command[s].object] \in Record
  BY <1>1 DEF TypeOK
<1>3. CASE Suppress(s)
  <2>1. Leave(s, heap[command[s].object])
    BY <1>3 DEF Suppress
  <2> QED BY <1>2, <1>3, <2>1, LeaveDoes DEF Suppress, TypeOK
<1>4. CASE ProbeCache(s)
  <2>1. /\ Leave(s, Probing(heap[command[s].object]))
        /\ Probing(heap[command[s].object]) \in Record
    BY <1>2, <1>4, ProbingTyped DEF ProbeCache
  <2>2. calls' \in [DOMAIN calls' -> Call]
    BY <1>4, SendDoes DEF ProbeCache
  <2> QED BY <1>4, <2>1, <2>2, LeaveDoes DEF ProbeCache, TypeOK
<1>5. CASE Wake(s)
  <2>1. /\ Leave(s, Dispatched(heap[command[s].object], command[s].interval))
        /\ Dispatched(heap[command[s].object], command[s].interval) \in Record
    BY <1>1, <1>2, <1>5, DispatchedTyped DEF Wake, TypeOK
  <2>2. calls' \in [DOMAIN calls' -> Call]
    BY <1>5, SendDoes DEF Wake
  <2>3. wakeAge' \in Ages
    BY <1>5, Values DEF Wake
  <2> QED BY <2>1, <2>2, <2>3, LeaveDoes DEF TypeOK
<1> QED BY <1>3, <1>4, <1>5

(* A call ends.                                                            *)
LEMMA AnswerTyped ==
    ASSUME TypeOK, Answer
    PROVE  TypeOK'
<1>1. record \in Record /\ Accepted(record) \in Record /\ AcceptedAsError(record) \in Record
      /\ Reread(record) \in Record
  BY RecordTyped, AcceptedTyped, RereadTyped
<1>2. PICK c \in DOMAIN calls : \/ Accept(c) \/ AcceptAsError(c) \/ Disconnect(c)
                                \/ \E relevant \in BOOLEAN : Fail(c, relevant)
  BY DEF Answer
<1>3. ASSUME NEW kinds, Ends(c, kinds), heap' \in [Objects -> Record],
             stored' \in Objects, said' \in {"none", "ON", "OFF"}
      PROVE  TypeOK'
  <2>1. calls' \in [DOMAIN calls' -> Call]
    BY <1>3, EndsDoes
  <2>2. Arrives(kinds) /\ UNCHANGED <<command, seen, lifecycle, wakeAge, spent>>
    BY <1>3 DEF Ends
  <2>3. budget' \in Budgets /\ faults' \in [DOMAIN budget' -> Nat]
    BY <2>2, ArrivesDoes
  <2> QED BY <1>3, <2>1, <2>2, <2>3 DEF TypeOK
<1>4. CASE Accept(c)
  BY <1>1, <1>3, <1>4, WriteDoes DEF Accept, TypeOK
<1>5. CASE AcceptAsError(c)
  BY <1>1, <1>3, <1>5, WriteDoes DEF AcceptAsError, TypeOK
<1>6. CASE Disconnect(c)
  <2>1. Disconnected(record, calls[c].kind) \in Record
    BY <1>1, RereadTyped
  <2>2. heap' \in [Objects -> Record] /\ stored' \in Objects
    BY <1>6, <2>1, ReplaceDoes DEF Disconnect
  <2>3. calls' \in [DOMAIN calls' -> Call]
    BY <1>6, DisconnectDoes
  <2>4. budget' \in Budgets /\ faults' \in [DOMAIN budget' -> Nat]
    BY <1>6, ArrivesDoes DEF Disconnect
  <2>5. UNCHANGED <<command, seen, lifecycle, said, wakeAge, spent>>
    BY <1>6 DEF Disconnect
  <2> QED BY <2>2, <2>3, <2>4, <2>5 DEF TypeOK
<1>7. ASSUME NEW relevant \in BOOLEAN, Fail(c, relevant)  PROVE TypeOK'
  <2>1. Broken(record, calls[c].kind = "probe", relevant) \in Record
    BY <1>1, BrokenTyped
  <2>2. Ends(c, {"call"}) /\ Write(Broken(record, calls[c].kind = "probe", relevant))
        /\ said' \in {said, "ON"}
    BY <1>7 DEF Fail, Warn
  <2> QED BY <1>3, <2>1, <2>2, WriteDoes DEF TypeOK
<1> QED BY <1>2, <1>4, <1>5, <1>6, <1>7

(* Telemetry or the provider settles all calls.                            *)
LEMMA ExcusedDoes ==
    ASSUME TypeOK, Excused
    PROVE  /\ calls' \in [DOMAIN calls' -> Call]
           /\ DOMAIN calls' = DOMAIN calls
           /\ \A c \in DOMAIN calls :
                  /\ calls'[c].left = 0 /\ calls'[c].lost = calls[c].lost
                  /\ calls'[c].kind = calls[c].kind /\ calls'[c].cut = calls[c].cut
<1>1. calls' = [c \in DOMAIN calls |-> [calls[c] EXCEPT !.left = 0]]
  BY DEF Excused
<1>2. ASSUME NEW c \in DOMAIN calls
      PROVE  calls'[c] \in Call /\ calls'[c].left = 0 /\ calls'[c].lost = calls[c].lost
             /\ calls'[c].kind = calls[c].kind /\ calls'[c].cut = calls[c].cut
  <2>1. calls[c] \in Call
    BY DEF TypeOK
  <2> QED BY <1>1, <2>1, Values DEF Call
<1> QED BY <1>1, <1>2

(* What a notice, a release and an announcement make of the record.        *)
LEMMA LimitDoes ==
    ASSUME TypeOK, NEW k \in 1 .. Backoff, Limit(k)
    PROVE  /\ heap' \in [Objects -> Record] /\ stored' = stored
           /\ \A p \in Objects : p # stored => heap'[p] = heap[p]
           /\ record'.failed = TRUE /\ record'.pending = FALSE
           /\ record'.anchor = record.anchor
<1> DEFINE r == [record EXCEPT !.limited = TRUE, !.retry = k, !.next = Later(@, k),
                    !.await = TRUE, !.wake = FALSE, !.wakeLeft = 0,
                    !.probe = FALSE, !.probeLeft = 0, !.marked = FALSE,
                    !.settle = 0, !.failed = TRUE, !.pending = FALSE]
<1>1. k \in 0 .. Backoff /\ k \in 0 .. Longest
  BY Bounds
<1>2. record \in Record /\ Later(record.next, k) \in 0 .. Longest
  BY <1>1, RecordTyped, NextTyped
<1>3. r \in Record /\ r.failed = TRUE /\ r.pending = FALSE /\ r.anchor = record.anchor
  BY <1>1, <1>2, Values DEF Record
<1>4. Write(r)
  BY DEF Limit
<1> HIDE DEF r
<1> QED BY <1>3, <1>4, WriteDoes DEF record

(* The end of a backoff writes to the stored record or leaves it.          *)
LEMMA ReleaseDoes ==
    ASSUME TypeOK, Release
    PROVE  /\ heap' \in [Objects -> Record] /\ stored' = stored
           /\ \A p \in Objects : p # stored => heap'[p] = heap[p]
           /\ record'.failed = record.failed /\ record'.pending = record.pending
           /\ record'.anchor = record.anchor
           /\ record'.wake = record.wake /\ record'.wakeLeft = record.wakeLeft
           /\ record'.probe = record.probe /\ record'.probeLeft = record.probeLeft
<1> DEFINE n == IF record.next <= record.retry THEN 0 ELSE record.next
           r == [record EXCEPT !.limited = FALSE, !.retry = 0, !.await = TRUE, !.next = n]
<1>1. record \in Record
  BY RecordTyped
<1>2. n \in 0 .. Longest
  BY <1>1, Values DEF Record
<1>3. Write(r)
  BY DEF Release
<1> HIDE DEF n
<1>4. /\ r \in Record /\ r.failed = record.failed /\ r.pending = record.pending
      /\ r.anchor = record.anchor
      /\ r.wake = record.wake /\ r.wakeLeft = record.wakeLeft
      /\ r.probe = record.probe /\ r.probeLeft = record.probeLeft
  BY <1>1, <1>2, Values DEF Record
<1> HIDE DEF r
<1> QED BY <1>3, <1>4, WriteDoes DEF record

(* So does the announcement of a recovery.                                 *)
LEMMA AnnounceDoes ==
    ASSUME TypeOK, Announce
    PROVE  /\ heap' \in [Objects -> Record] /\ stored' = stored
           /\ \A p \in Objects : p # stored => heap'[p] = heap[p]
           /\ record'.failed = record.failed /\ record'.pending = FALSE
           /\ record'.anchor = record.anchor
           /\ record'.wake = record.wake /\ record'.wakeLeft = record.wakeLeft
           /\ record'.probe = record.probe /\ record'.probeLeft = record.probeLeft
<1> DEFINE r == [record EXCEPT !.pending = FALSE]
<1>1. record \in Record
  BY RecordTyped
<1>2. /\ r \in Record /\ r.failed = record.failed /\ r.pending = FALSE
      /\ r.anchor = record.anchor
      /\ r.wake = record.wake /\ r.wakeLeft = record.wakeLeft
      /\ r.probe = record.probe /\ r.probeLeft = record.probeLeft
  BY <1>1 DEF Record
<1>3. Write(r)
  BY DEF Announce
<1> HIDE DEF r
<1> QED BY <1>2, <1>3, WriteDoes DEF record

(* What a confirmation does: the record it stores is a fresh one.          *)
LEMMA ConfirmDoes ==
    ASSUME TypeOK, Confirm
    PROVE  /\ heap' \in [Objects -> Record] /\ stored' \in Objects
           /\ record'.failed = FALSE /\ record'.anchor = 0
           /\ record'.pending = (record.pending \/ lifecycle.failed)
           /\ \A s \in Slots : command[s].doing # "idle" =>
                  heap'[command[s].object] = heap[command[s].object]
           /\ Held(stored) = {} => stored' = stored
<1> DEFINE i == record.interval
           n == Later(Later(record.next, Left(i, record.request)),
                      IF record.probed THEN i ELSE 0)
           p == record.pending \/ lifecycle.failed
           r == [record EXCEPT !.await = FALSE, !.wake = FALSE, !.wakeLeft = 0,
                    !.next = n,
                    !.probe = FALSE, !.probeLeft = 0, !.marked = FALSE, !.probed = FALSE,
                    !.settle = 0, !.anchor = 0, !.base = Never, !.failed = FALSE,
                    !.pending = p]
<1>1. record \in Record /\ lifecycle \in Evaluation
  BY RecordTyped DEF TypeOK
<1>2. n \in 0 .. Longest
  <2>1. Longest \in Nat /\ Later(record.next, Left(i, record.request)) \in 0 .. Longest
    BY <1>1, NextTyped, Bounds
  <2>2. (IF record.probed THEN i ELSE 0) \in 0 .. Longest
    BY <1>1, Bounds, Values DEF Record
  <2> QED BY <2>1, <2>2, LaterWithin
<1>3. Replace(r)
  BY DEF Confirm
<1> HIDE DEF n
<1>4. p \in BOOLEAN
  BY <1>1 DEF Record, Evaluation
<1> HIDE DEF p
<1>5. r \in Record /\ r.failed = FALSE /\ r.anchor = 0 /\ r.pending = p
  BY <1>1, <1>2, <1>4, Values DEF Record
<1> HIDE DEF r
<1>6. record' = r
  BY <1>3, <1>5, ReplaceDoes DEF record
<1> QED BY <1>3, <1>5, <1>6, ReplaceDoes DEF p

(* Notices, telemetry and announcements.                                   *)
LEMMA NoticeTyped ==
    ASSUME TypeOK,
           \/ FailTrip \/ \E k \in 1 .. Backoff : Limit(k)
           \/ Release \/ \E age \in Ages : Observe(age)
           \/ Announce
    PROVE  TypeOK'
<1>1. record \in Record
  BY RecordTyped
<1>2. CASE FailTrip
  <2>1. Broken(record, FALSE, FALSE) \in Record /\ Write(Broken(record, FALSE, FALSE))
    BY <1>1, <1>2, BrokenTyped DEF FailTrip
  <2> QED BY <1>2, <2>1, WriteDoes, ArrivesDoes DEF FailTrip, TypeOK
<1>3. ASSUME NEW k \in 1 .. Backoff, Limit(k)  PROVE TypeOK'
  <2>1. heap' \in [Objects -> Record] /\ stored' \in Objects
    BY <1>3, LimitDoes DEF TypeOK
  <2>2. calls' \in [DOMAIN calls' -> Call]
    BY <1>3, ExcusedDoes DEF Limit
  <2> QED BY <1>3, <2>1, <2>2, ArrivesDoes DEF Limit, TypeOK
<1>4. CASE Release
  BY <1>4, ReleaseDoes, ArrivesDoes DEF Release, TypeOK
<1>5. ASSUME NEW age \in Ages, Observe(age)  PROVE TypeOK'
  <2>1. lifecycle' \in Evaluation
    BY <1>1, <1>5 DEF Observe, Evaluation, Record
  <2> QED BY <1>5, <2>1, ArrivesDoes DEF Observe, TypeOK
<1>6. CASE Announce
  BY <1>6, AnnounceDoes, ArrivesDoes DEF Announce, TypeOK
<1> QED BY <1>2, <1>3, <1>4, <1>5, <1>6

(* The end of an evaluation, time, a lost answer, a restart.               *)
LEMMA OtherTyped ==
    ASSUME TypeOK,
           Confirm \/ LeavePending \/ Tick \/ Restart \/ \E c \in DOMAIN calls : Lose(c)
    PROVE  TypeOK'
<1>1. record \in Record /\ Rest \in Evaluation /\ lifecycle.telemetry \in Ages
  BY RecordTyped, Values DEF TypeOK, Evaluation, Rest
<1>2. CASE Confirm
  <2>1. calls' \in [DOMAIN calls' -> Call]
    BY <1>2, ExcusedDoes DEF Confirm
  <2> QED BY <1>1, <1>2, <2>1, ConfirmDoes DEF Confirm, Conclude, TypeOK
<1>3. CASE LeavePending
  BY <1>1, <1>3 DEF LeavePending, Conclude, TypeOK
<1>4. CASE Tick
  <2>1. heap' \in [Objects -> Record]
    BY <1>1, <1>4, OlderTyped DEF Tick, TypeOK, record
  <2>2. seen' \in Ages /\ wakeAge' \in Ages
    BY <1>4, AgedFacts DEF Tick, TypeOK
  <2>3. calls' \in [DOMAIN calls' -> Call]
    <3>1. ASSUME NEW c \in DOMAIN calls
          PROVE  [calls[c] EXCEPT !.left = Left(@, 1)] \in Call
      <4>1. calls[c] \in Call /\ Lease \in Nat
        BY Bounds DEF TypeOK
      <4>2. Left(calls[c].left, 1) \in 0 .. Lease
        BY <4>1, LeftWithin DEF Call
      <4> QED BY <4>1, <4>2 DEF Call
    <3> QED BY <1>4, <3>1 DEF Tick
  <2> QED BY <1>4, <2>1, <2>2, <2>3 DEF Tick, TypeOK
<1>5. CASE Restart
  <2>1. heap' \in [Objects -> Record] /\ stored' \in Objects
    BY <1>1, <1>5, BlankTyped, RefreshBounds DEF Restart, Objects
  <2>2. command' \in [Slots -> Command]
    BY <1>5, RefreshBounds, Values DEF Restart, Idle, Command, Objects
  <2>3. calls' \in [DOMAIN calls' -> Call]
    <3>1. ASSUME NEW c \in DOMAIN calls
          PROVE  [calls[c] EXCEPT !.lost = TRUE] \in Call
      <4>1. calls[c] \in Call
        BY DEF TypeOK
      <4> QED BY <4>1 DEF Call
    <3> QED BY <1>5, <3>1 DEF Restart
  <2> QED BY <1>1, <1>5, <2>1, <2>2, <2>3, SpendDoes, Values DEF Restart, TypeOK
<1>6. ASSUME NEW c \in DOMAIN calls, Lose(c)  PROVE TypeOK'
  <2>1. calls' \in [DOMAIN calls' -> Call]
    <3>1. [calls[c] EXCEPT !.lost = TRUE] \in Call
      <4>1. calls[c] \in Call
        BY DEF TypeOK
      <4> QED BY <4>1 DEF Call
    <3>2. calls' = [calls EXCEPT ![c] = [calls[c] EXCEPT !.lost = TRUE]]
      BY <1>6 DEF Lose
    <3>3. calls \in [DOMAIN calls -> Call]
      BY DEF TypeOK
    <3> QED BY <3>1, <3>2, <3>3
  <2> QED BY <1>6, <2>1, SpendDoes DEF Lose, TypeOK
<1> QED BY <1>2, <1>3, <1>4, <1>5, <1>6

(* The initial state, and every step.                                      *)
LEMMA InitTyped == Init => TypeOK
<1> SUFFICES ASSUME Init  PROVE TypeOK
  OBVIOUS
<1>1. heap \in [Objects -> Record] /\ stored \in Objects
  BY BlankTyped, RefreshBounds DEF Init, Objects
<1>2. command \in [Slots -> Command]
  BY RefreshBounds, Values DEF Init, Idle, Command, Objects
<1>3. calls \in [DOMAIN calls -> Call]
  BY DEF Init
<1>4. lifecycle \in Evaluation /\ seen \in Ages /\ wakeAge \in Ages
  BY Values DEF Init, Rest, Evaluation
<1> QED BY <1>1, <1>2, <1>3, <1>4 DEF Init, TypeOK

(* Every step keeps the types.                                             *)
LEMMA NextTypedOK == TypeOK /\ [Next]_vars => TypeOK'
<1> SUFFICES ASSUME TypeOK, [Next]_vars  PROVE TypeOK'
  OBVIOUS
<1>1. CASE UNCHANGED vars
  BY <1>1 DEF vars, TypeOK
<1>2. CASE Next
  BY <1>2, EnterTyped, LeaveTyped, AnswerTyped, NoticeTyped, OtherTyped DEF Next, Chain
<1> QED BY <1>1, <1>2

(* Every variable stays in its domain: no deadline grows past the longest  *)
(* interval or backoff, whatever is added to it and by whom, and no field  *)
(* of the record is left without a value.                                  *)
THEOREM Types == Spec => []TypeOK
BY InitTyped, NextTypedOK, PTL DEF Spec

(* What a behaviour has spent never shrinks.                               *)
LEMMA FaultsGrow ==
    ASSUME TypeOK, [Next]_vars
    PROVE  \A f \in Kinds : faults[f] \in Nat /\ faults'[f] \in Nat /\ faults'[f] >= faults[f]
<1>1. \A f \in Kinds : faults[f] \in Nat
  BY RefreshBounds DEF TypeOK, Kinds
<1>2. TypeOK'
  BY NextTypedOK
<1>3. \A f \in Kinds : faults'[f] \in Nat
  <2>1. budget' \in Budgets /\ faults' \in [DOMAIN budget' -> Nat]
    BY <1>2 DEF TypeOK
  <2> QED BY <2>1, RefreshBounds DEF Kinds
<1>4. CASE UNCHANGED faults
  BY <1>1, <1>4
<1>5. ASSUME NEW kinds, Arrives(kinds) \/ Spend(kinds)
      PROVE  \A f \in Kinds : faults'[f] >= faults[f]
  <2>1. CASE Arrives(kinds)
    BY <2>1, ArrivesDoes
  <2>2. CASE Spend(kinds)
    BY <2>2, SpendDoes
  <2> QED BY <1>5, <2>1, <2>2
<1>6. UNCHANGED faults \/ \E kinds : Arrives(kinds) \/ Spend(kinds)
  <2>1. CASE Answer
    BY <2>1 DEF Answer, Accept, AcceptAsError, Disconnect, Fail, Ends
  <2>2. CASE Chain
    BY <2>2 DEF Chain, Suppress, ProbeCache, Wake, Leave, Confirm, LeavePending, Conclude
  <2>3. CASE UNCHANGED vars
    BY <2>3 DEF vars
  <2> QED BY <2>1, <2>2, <2>3 DEF Next, Enter, FailTrip, Limit, Release, Observe, Announce,
                                   Tick, Lose, Restart
<1> QED BY <1>1, <1>3, <1>4, <1>5, <1>6
-----------------------------------------------------------------------------
(* One chain at a time: as long as no event meets a chain under way, a     *)
(* command writes to the object that is stored when it ends, and what an   *)
(* evaluation read of the failure is still true when it ends.              *)

Settled ==
    /\ \A s, t \in Slots :
           command[s].doing # "idle" /\ command[t].doing # "idle" => s = t
    /\ \A s \in Slots : command[s].doing # "idle" =>
           command[s].object = stored /\ ~lifecycle.busy
    /\ lifecycle.busy => lifecycle.failed = record.failed
SInv == TypeOK /\ (faults.overlap = 0 => Settled)

(* What a handler does not touch in the failure and its recovery.          *)
AsReported(q, r) == q.failed = r.failed /\ q.pending = r.pending

(* Handlers that report neither a failure nor a recovery.                  *)
LEMMA ReportKept ==
    ASSUME NEW r \in Record, NEW i, NEW kind, NEW cache
    PROVE  /\ AsReported(Derived(r, i), r) /\ AsReported(Dispatched(r, i), r)
           /\ AsReported(Probing(r), r) /\ AsReported(Accepted(r), r)
           /\ AsReported(AcceptedAsError(r), r) /\ AsReported(Reread(r), r)
           /\ AsReported(Disconnected(r, kind), r) /\ AsReported(Older(r), r)
           /\ AsReported(Broken(r, cache, FALSE), r)
<1>1. AsReported(Derived(r, i), r) /\ AsReported(Dispatched(r, i), r)
  BY DEF AsReported, Derived, Dispatched, Record
<1>2. AsReported(Probing(r), r) /\ AsReported(Accepted(r), r)
  BY DEF AsReported, Probing, Accepted, Record
<1>3. AsReported(AcceptedAsError(r), r) /\ AsReported(Reread(r), r)
  BY DEF AsReported, AcceptedAsError, Reread, Record
<1>4. AsReported(Disconnected(r, kind), r) /\ AsReported(Older(r), r)
  BY DEF AsReported, Disconnected, Older, Record
<1>5. AsReported(Broken(r, cache, FALSE), r)
  <2>1. r.failed \in BOOLEAN /\ r.pending \in BOOLEAN
    BY DEF Record
  <2>2. /\ Broken(r, cache, FALSE).failed = (r.failed \/ FALSE)
        /\ Broken(r, cache, FALSE).pending = (r.pending /\ ~FALSE)
    BY DEF Broken, Record
  <2>3. (r.failed \/ FALSE) = r.failed /\ (r.pending /\ ~FALSE) = r.pending
    BY <2>1
  <2> QED BY <2>2, <2>3 DEF AsReported
<1> QED BY <1>1, <1>2, <1>3, <1>4, <1>5

(* The one that reports a failure.                                         *)
LEMMA BrokenSays ==
    ASSUME NEW r \in Record, NEW cache
    PROVE  Broken(r, cache, TRUE).failed = TRUE /\ Broken(r, cache, TRUE).pending = FALSE
<1>1. /\ Broken(r, cache, TRUE).failed = (r.failed \/ TRUE)
      /\ Broken(r, cache, TRUE).pending = (r.pending /\ ~TRUE)
  BY DEF Broken, Record
<1> QED BY <1>1

(* What the commands say of a step that leaves failure and recovery alone. *)
Silent == AsReported(record', record) /\ said' = said

(* To say nothing is a stutter of the abstract specification.              *)
LEMMA SilentStutters == ASSUME Silent  PROVE [reports!Next]_(reports!vars)
BY DEF Silent, AsReported, reports!vars

(* A step that meets no chain and starts none.                             *)
LEMMA QuietSettled ==
    ASSUME Quiet, command' = command, lifecycle' = lifecycle
    PROVE  Settled'
BY DEF Quiet, Settled

(* A command enters alone, and says nothing.                               *)
LEMMA EnterSettled ==
    ASSUME SInv, NEW s \in Slots, NEW i \in Intervals, NEW forced \in BOOLEAN,
           NEW wanted, Enter(s, i, forced, wanted), faults'.overlap = 0
    PROVE  Settled' /\ Silent
<1>1. Quiet
  BY ArrivesDoes DEF Enter, SInv
<1>2. Derived(record, i) \in Record /\ Write(Derived(record, i)) /\ record \in Record
  BY RecordTyped, DerivedTyped DEF Enter, SInv
<1>3. stored' = stored /\ record' = Derived(record, i)
  BY <1>2, WriteDoes DEF SInv, record
<1>4. Silent
  BY <1>2, <1>3, ReportKept DEF Silent, Enter
<1>5. /\ \A t \in Slots : t # s => command'[t].doing = "idle"
      /\ command'[s].object = stored'
      /\ ~lifecycle'.busy
  BY <1>1, <1>3 DEF Enter, Quiet, SInv, TypeOK
<1> QED BY <1>4, <1>5 DEF Settled

(* A command ends, and what it stores says what was stored.                *)
LEMMA LeaveSettled ==
    ASSUME SInv, NEW s \in Slots, Suppress(s) \/ ProbeCache(s) \/ Wake(s),
           faults'.overlap = 0
    PROVE  Settled' /\ Silent
<1> DEFINE o == command[s].object
<1>1. o \in Objects /\ command[s].interval \in Intervals /\ command[s].doing # "idle"
      /\ heap[o] \in Record
  BY DEF SInv, TypeOK, Command, Suppress, ProbeCache, Wake
<1>2. PICK r \in Record : AsReported(r, heap[o]) /\ Leave(s, r)
  <2>1. CASE Suppress(s)
    BY <1>1, <2>1 DEF Suppress, AsReported
  <2>2. CASE ProbeCache(s)
    BY <1>1, <2>2, ProbingTyped, ReportKept DEF ProbeCache
  <2>3. CASE Wake(s)
    BY <1>1, <2>3, DispatchedTyped, ReportKept DEF Wake, SInv, TypeOK
  <2> QED BY <2>1, <2>2, <2>3
<1>3. faults' = faults /\ stored' = o /\ record' = r /\ lifecycle' = lifecycle
      /\ command'[s] = Idle /\ said' = said
      /\ \A t \in Slots : t # s => command'[t] = command[t]
  BY <1>2, LeaveDoes DEF SInv, record
<1>4. Settled
  BY <1>3 DEF SInv
<1>5. o = stored /\ ~lifecycle.busy /\ \A t \in Slots : t # s => command[t].doing = "idle"
  BY <1>1, <1>4 DEF Settled
<1>6. \A t \in Slots : command'[t].doing = "idle"
  BY <1>3, <1>5 DEF Idle
<1>7. Silent
  BY <1>2, <1>3, <1>5 DEF Silent, AsReported, record
<1> HIDE DEF o
<1> QED BY <1>3, <1>5, <1>6, <1>7 DEF Settled

(* Answers: only a failure that counts disturbs the report, and says so.   *)
LEMMA AnswerSettled ==
    ASSUME SInv, Answer, faults'.overlap = 0
    PROVE  Settled' /\ [reports!Next]_(reports!vars)
<1>1. PICK c \in DOMAIN calls : \/ Accept(c) \/ AcceptAsError(c) \/ Disconnect(c)
                                \/ \E relevant \in BOOLEAN : Fail(c, relevant)
  BY DEF Answer
<1>2. /\ \E kinds : Arrives(kinds)
      /\ command' = command /\ lifecycle' = lifecycle
  BY <1>1 DEF Accept, AcceptAsError, Disconnect, Fail, Ends
<1>3. Quiet /\ command' = command /\ lifecycle' = lifecycle
  BY <1>2, ArrivesDoes DEF SInv
<1>4. Settled'
  BY <1>3, QuietSettled
<1>5. Held(stored) = {}
  BY <1>3 DEF Quiet, Held
<1>6. record \in Record /\ Accepted(record) \in Record /\ AcceptedAsError(record) \in Record
      /\ Reread(record) \in Record /\ Disconnected(record, calls[c].kind) \in Record
      /\ \A relevant \in BOOLEAN : Broken(record, calls[c].kind = "probe", relevant) \in Record
  BY RecordTyped, AcceptedTyped, RereadTyped, BrokenTyped DEF SInv
<1>7. ASSUME NEW r \in Record, Write(r)  PROVE record' = r
  BY <1>7, WriteDoes DEF SInv, record
<1>8. CASE Accept(c)
  <2>1. record' \in {Accepted(record), Reread(record)} /\ said' = said
    BY <1>6, <1>7, <1>8 DEF Accept
  <2>2. Silent
    BY <1>6, <2>1, ReportKept DEF Silent
  <2> QED BY <1>4, <2>2, SilentStutters
<1>9. CASE AcceptAsError(c)
  <2>1. record' = AcceptedAsError(record) /\ said' = said
    BY <1>6, <1>7, <1>9 DEF AcceptAsError
  <2>2. Silent
    BY <1>6, <2>1, ReportKept DEF Silent
  <2> QED BY <1>4, <2>2, SilentStutters
<1>10. CASE Disconnect(c)
  <2>1. record' = Disconnected(record, calls[c].kind) /\ said' = said
    BY <1>5, <1>6, <1>7, <1>10 DEF Disconnect, Replace
  <2>2. Silent
    BY <1>6, <2>1, ReportKept DEF Silent
  <2> QED BY <1>4, <2>2, SilentStutters
<1>11. ASSUME NEW relevant \in BOOLEAN, Fail(c, relevant)
       PROVE  [reports!Next]_(reports!vars)
  <2>1. record' = Broken(record, calls[c].kind = "probe", relevant) /\ Warn(relevant)
    BY <1>6, <1>7, <1>11 DEF Fail
  <2>2. CASE ~relevant
    <3>1. relevant = FALSE
      BY <2>2
    <3>2. said' = said
      BY <2>1, <3>1 DEF Warn
    <3>3. Silent
      BY <1>6, <2>1, <3>1, <3>2, ReportKept DEF Silent
    <3> QED BY <3>3, SilentStutters
  <2>3. CASE relevant
    <3>1. record'.failed = TRUE /\ record'.pending = FALSE
      <4>1. relevant = TRUE
        BY <2>3
      <4> QED BY <1>6, <2>1, <4>1, BrokenSays
    <3>2. reports!Fail
      BY <2>1, <2>3, <3>1 DEF Warn, reports!Fail
    <3> QED BY <3>2 DEF reports!Next
  <2> QED BY <2>2, <2>3
<1> QED BY <1>1, <1>4, <1>8, <1>9, <1>10, <1>11

(* Notices, and the announcement of a recovery.                            *)
LEMMA NoticeSettled ==
    ASSUME SInv, faults'.overlap = 0,
           \/ FailTrip \/ \E k \in 1 .. Backoff : Limit(k)
           \/ Release \/ \E age \in Ages : Observe(age)
           \/ Announce
    PROVE  Settled' /\ [reports!Next]_(reports!vars)
<1>1. Quiet
  BY ArrivesDoes DEF FailTrip, Limit, Release, Observe, Announce, SInv
<1>2. record \in Record
  BY RecordTyped DEF SInv
<1>3. CASE FailTrip
  <2>1. record' = Broken(record, FALSE, FALSE)
    BY <1>2, <1>3, BrokenTyped, WriteDoes DEF FailTrip, SInv, record
  <2>2. Silent
    BY <1>2, <1>3, <2>1, ReportKept DEF Silent, FailTrip
  <2> QED BY <1>1, <1>3, <2>2, QuietSettled, SilentStutters DEF FailTrip
<1>4. ASSUME NEW k \in 1 .. Backoff, Limit(k)
      PROVE  Settled' /\ [reports!Next]_(reports!vars)
  <2>1. record'.failed = TRUE /\ record'.pending = FALSE /\ said' = "ON"
    BY <1>4, LimitDoes DEF Limit, SInv
  <2>2. reports!Fail
    BY <2>1 DEF reports!Fail
  <2> QED BY <1>1, <1>4, <2>2, QuietSettled DEF Limit, reports!Next
<1>5. CASE Release
  <2>1. Silent
    BY <1>5, ReleaseDoes DEF Silent, AsReported, Release, SInv
  <2> QED BY <1>1, <1>5, <2>1, QuietSettled, SilentStutters DEF Release
<1>6. ASSUME NEW age \in Ages, Observe(age)
      PROVE  Settled' /\ [reports!Next]_(reports!vars)
  <2>1. Silent
    BY <1>6 DEF Silent, AsReported, Observe, record
  <2>2. Settled'
    BY <1>1, <1>6 DEF Observe, Quiet, Settled, record
  <2> QED BY <2>1, <2>2, SilentStutters
<1>7. CASE Announce
  <2>1. reports!Announce
    BY <1>7, AnnounceDoes DEF Announce, SInv, reports!Announce
  <2> QED BY <1>1, <1>7, <2>1, QuietSettled DEF Announce, reports!Next
<1> QED BY <1>3, <1>4, <1>5, <1>6, <1>7

(* The end of an evaluation: the failure it read is the one it clears.     *)
LEMMA ConcludeSettled ==
    ASSUME SInv, Confirm \/ LeavePending, faults'.overlap = 0
    PROVE  Settled' /\ [reports!Next]_(reports!vars)
<1>1. Settled /\ lifecycle.busy /\ lifecycle' = Rest /\ command' = command /\ said' = said
  BY DEF SInv, Confirm, LeavePending, Conclude
<1>2. \A s \in Slots : command[s].doing = "idle"
  BY <1>1 DEF Settled
<1>3. Settled'
  BY <1>1, <1>2 DEF Settled, Rest
<1>4. CASE Confirm
  <2>1. /\ record'.failed = FALSE
        /\ record'.pending = (record.pending \/ record.failed)
    BY <1>1, <1>4, ConfirmDoes DEF Settled, SInv
  <2>2. record.failed \in BOOLEAN /\ record.pending \in BOOLEAN
    BY RecordTyped DEF SInv, Record
  <2>3. CASE record.failed
    <3>1. record'.pending = TRUE
      BY <2>1, <2>3
    <3>2. reports!Confirm
      BY <1>1, <2>1, <2>3, <3>1 DEF reports!Confirm
    <3> QED BY <1>3, <3>2 DEF reports!Next
  <2>4. CASE ~record.failed
    <3>1. record.failed = FALSE /\ (record.pending \/ record.failed) = record.pending
      BY <2>2, <2>4
    <3>2. Silent
      BY <1>1, <2>1, <3>1 DEF Silent, AsReported
    <3> QED BY <1>3, <3>2, SilentStutters
  <2> QED BY <2>3, <2>4
<1>5. CASE LeavePending
  <2>1. Silent
    BY <1>5 DEF Silent, AsReported, LeavePending, Conclude, record
  <2> QED BY <1>3, <2>1, SilentStutters
<1> QED BY <1>4, <1>5

(* One chain at a time is kept, and every step is one of FailureReports.   *)
LEMMA SInvNext == SInv /\ [Next]_vars =>
    /\ SInv'
    /\ faults'.overlap = 0 => [reports!Next]_(reports!vars)
<1> SUFFICES ASSUME SInv, [Next]_vars
             PROVE  /\ TypeOK'
                    /\ faults'.overlap = 0 => Settled' /\ [reports!Next]_(reports!vars)
  BY DEF SInv
<1>1. TypeOK'
  BY NextTypedOK DEF SInv
<1> SUFFICES ASSUME faults'.overlap = 0
             PROVE  Settled' /\ [reports!Next]_(reports!vars)
  BY <1>1
<1>2. CASE UNCHANGED vars
  <2>1. Settled' /\ Silent
    BY <1>2 DEF vars, Settled, SInv, record, Silent, AsReported
  <2> QED BY <2>1, SilentStutters
<1>3. ASSUME NEW s \in Slots, NEW i \in Intervals, NEW forced \in BOOLEAN,
             NEW wanted \in BOOLEAN, Enter(s, i, forced, wanted)
      PROVE  Settled' /\ [reports!Next]_(reports!vars)
  BY <1>3, EnterSettled, SilentStutters
<1>4. ASSUME NEW s \in Slots, Suppress(s) \/ ProbeCache(s) \/ Wake(s)
      PROVE  Settled' /\ [reports!Next]_(reports!vars)
  BY <1>4, LeaveSettled, SilentStutters
<1>5. CASE Tick
  <2>1. heap'[stored] = Older(record) /\ stored' = stored
    BY <1>5 DEF Tick, SInv, TypeOK, record
  <2>2. Silent
    BY <1>5, <2>1, RecordTyped, ReportKept DEF Silent, SInv, Tick, record
  <2> QED BY <1>5, <2>2, QuietSettled, SilentStutters DEF Tick
<1>6. ASSUME NEW c \in DOMAIN calls, Lose(c)
      PROVE  Settled' /\ [reports!Next]_(reports!vars)
  <2>1. faults.overlap = 0
    BY FaultsGrow DEF SInv, Kinds
  <2>2. Settled
    BY <2>1 DEF SInv
  <2>3. Settled' /\ Silent
    BY <1>6, <2>2 DEF Lose, Settled, record, Silent, AsReported
  <2> QED BY <2>3, SilentStutters
<1>7. CASE Restart
  <2>1. heap'[0] = record /\ stored' = 0
    BY <1>7, RefreshBounds DEF Restart, Objects
  <2>2. Silent
    BY <1>7, <2>1 DEF Silent, AsReported, Restart, record
  <2>3. Settled'
    BY <1>7 DEF Restart, Settled, Idle, Rest
  <2> QED BY <2>2, <2>3, SilentStutters
<1> QED BY <1>2, <1>3, <1>4, <1>5, <1>6, <1>7, AnswerSettled, NoticeSettled,
           ConcludeSettled DEF Next, Chain

(* At the start nothing runs and nothing has been said.                    *)
LEMMA SInvInit == Init => SInv /\ reports!Init
<1> SUFFICES ASSUME Init  PROVE SInv /\ reports!Init
  OBVIOUS
<1>1. Settled
  BY DEF Init, Settled, Idle, Rest
<1>2. record = Blank
  BY RefreshBounds DEF Init, record, Objects
<1> QED BY <1>1, <1>2, InitTyped DEF SInv, Init, Blank, reports!Init

(* The commands the coordinator sends implement FailureReports, as long as *)
(* no event meets a chain of nodes under way: what an evaluation read of   *)
(* the failure is still what the record says when it stores the recovery.  *)
THEOREM ReportsAll == Spec => ReportsFailures
<1>1. Init => SInv /\ reports!Init
  BY SInvInit
<1>2. SInv /\ [Next]_vars => SInv' /\ [faults'.overlap = 0 => [reports!Next]_(reports!vars)]_vars
  BY SInvNext
<1> QED BY <1>1, <1>2, PTL DEF Spec, ReportsFailures

(* An inductive invariant of the abstract specification, and what it gives *)
(* the coordinator.                                                        *)
Agreed == /\ record.failed \in BOOLEAN /\ record.pending \in BOOLEAN
          /\ ~(record.failed /\ record.pending)
          /\ reports!SaidAgrees
AInv == SInv /\ (faults.overlap = 0 => Agreed)

(* A step of FailureReports keeps what was said in agreement.              *)
LEMMA AgreedNext ==
    ASSUME Agreed, [reports!Next]_(reports!vars)
    PROVE  Agreed'
<1>1. CASE UNCHANGED reports!vars
  BY <1>1 DEF Agreed, reports!vars, reports!SaidAgrees
<1>2. CASE reports!Fail
  BY <1>2 DEF Agreed, reports!Fail, reports!SaidAgrees
<1>3. CASE reports!Confirm
  BY <1>3 DEF Agreed, reports!Confirm, reports!SaidAgrees
<1>4. CASE reports!Announce
  BY <1>4 DEF Agreed, reports!Announce, reports!SaidAgrees
<1> QED BY <1>1, <1>2, <1>3, <1>4 DEF reports!Next

(* What the refinement buys: with nothing left to announce, the last word  *)
(* the bypass heard is ON exactly while the record holds a failure.        *)
THEOREM LastWordAgrees == Spec => [](faults.overlap = 0 => reports!SaidAgrees)
<1>1. Init => AInv
  BY SInvInit DEF AInv, reports!Init, Agreed, reports!SaidAgrees
<1>2. AInv /\ [Next]_vars => AInv'
  <2> SUFFICES ASSUME AInv, [Next]_vars, faults'.overlap = 0
               PROVE  Agreed'
    BY SInvNext DEF AInv
  <2>1. SInv
    BY DEF AInv
  <2>2. faults.overlap = 0
    BY <2>1, FaultsGrow DEF SInv, Kinds
  <2>3. [reports!Next]_(reports!vars)
    BY <2>1, SInvNext
  <2>4. Agreed
    BY <2>2 DEF AInv
  <2> QED BY <2>3, <2>4, AgreedNext
<1>3. AInv => (faults.overlap = 0 => reports!SaidAgrees)
  BY DEF AInv, Agreed
<1> QED BY <1>1, <1>2, <1>3, PTL DEF Spec
-----------------------------------------------------------------------------
(* Pacing: no record that is stored or held remembers an older wake than   *)
(* the last one, and an automatic command that is to wake was derived from *)
(* a record that knew of it.                                               *)

OneAtATime == MaxCommands = 1 \/ faults.overlap = 0
Paced ==
    /\ record.anchor <= wakeAge
    /\ \A s \in Slots : command[s].doing # "idle" =>
           heap[command[s].object].anchor <= wakeAge
    /\ \A s \in Slots : command[s].doing = "wake" /\ ~command[s].forced =>
           command[s].interval <= wakeAge
PInv == SInv /\ (OneAtATime => Paced)

(* When commands do not overlap there is one.                              *)
LEMMA SingleCommand ==
    ASSUME SInv, OneAtATime, NEW s \in Slots, NEW t \in Slots,
           command[s].doing # "idle", command[t].doing # "idle"
    PROVE  s = t
<1>1. CASE MaxCommands = 1
  BY <1>1 DEF Slots
<1>2. CASE faults.overlap = 0
  BY <1>2 DEF SInv, Settled
<1> QED BY <1>1, <1>2 DEF OneAtATime

(* An overlap once counted stays counted.                                  *)
LEMMA OneAtATimeBefore == ASSUME TypeOK, [Next]_vars, OneAtATime'  PROVE OneAtATime
BY FaultsGrow DEF OneAtATime, Kinds

(* What the handlers make of the last wake.                                *)
LEMMA AnchorKept ==
    ASSUME NEW r \in Record, NEW i, NEW kind, NEW cache, NEW relevant
    PROVE  /\ Derived(r, i).anchor = r.anchor /\ Probing(r).anchor = r.anchor
           /\ Reread(r).anchor = r.anchor /\ Disconnected(r, kind).anchor = r.anchor
           /\ Broken(r, cache, relevant).anchor = r.anchor
           /\ Dispatched(r, i).anchor = 0 /\ Accepted(r).anchor = 0
           /\ AcceptedAsError(r).anchor = 0
<1>1. Derived(r, i).anchor = r.anchor /\ Probing(r).anchor = r.anchor
  BY DEF Derived, Probing, Record
<1>2. Reread(r).anchor = r.anchor /\ Disconnected(r, kind).anchor = r.anchor
  BY DEF Reread, Disconnected, Record
<1>3. Broken(r, cache, relevant).anchor = r.anchor /\ Dispatched(r, i).anchor = 0
  BY DEF Broken, Dispatched, Record
<1>4. Accepted(r).anchor = 0 /\ AcceptedAsError(r).anchor = 0
  BY DEF Accepted, AcceptedAsError, Record
<1> QED BY <1>1, <1>2, <1>3, <1>4

(* The age of the last wake is a number, in every record.                  *)
LEMMA AnchorTyped ==
    ASSUME TypeOK
    PROVE  /\ wakeAge \in Nat /\ record.anchor \in Nat
           /\ \A p \in Objects : heap[p] \in Record /\ heap[p].anchor \in Nat
           /\ \A s \in Slots : command[s].object \in Objects /\ command[s].interval \in Nat
BY Values, Bounds DEF TypeOK, record, Record, Command

(* A handler that writes to the stored object keeps the pace, and so does  *)
(* one that stores another.                                                *)
LEMMA WritePaced ==
    ASSUME TypeOK, Paced, NEW r \in Record, r.anchor = record.anchor \/ r.anchor = 0,
           Write(r) \/ Replace(r), command' = command, wakeAge' = wakeAge
    PROVE  Paced'
<1>1. r.anchor <= wakeAge
  BY AnchorTyped DEF Paced
<1>2. heap'[stored'] = r /\ \A s \in Slots : command[s].doing # "idle" =>
          heap'[command[s].object] \in {r, heap[command[s].object]}
  BY WriteDoes, ReplaceDoes, AnchorTyped
<1>3. record'.anchor <= wakeAge
  BY <1>1, <1>2 DEF record
<1>4. \A s \in Slots : command[s].doing # "idle" => heap'[command[s].object].anchor <= wakeAge
  BY <1>1, <1>2 DEF Paced
<1> QED BY <1>3, <1>4 DEF Paced

(* A command that enters: an automatic one wakes only when the deadline,   *)
(* and with it the selected interval since the last wake, has passed.      *)
LEMMA EnterPaced ==
    ASSUME TypeOK, Paced, NEW s \in Slots, NEW i \in Intervals, NEW forced \in BOOLEAN,
           NEW wanted, Enter(s, i, forced, wanted)
    PROVE  Paced'
<1> DEFINE r == Derived(record, i)
<1>1. /\ record \in Record /\ r \in Record /\ r.anchor = record.anchor
      /\ r.next >= Left(i, record.anchor) /\ i \in Nat
  BY RecordTyped, DerivedTyped, AnchorKept, Bounds
<1>2. Write(r) /\ stored' = stored /\ wakeAge' = wakeAge
  BY DEF Enter, Write
<1> DEFINE new == [doing |-> Outcome(r, forced, wanted), forced |-> forced,
                   interval |-> i, object |-> stored]
<1>3. command' = [command EXCEPT ![s] = new]
  BY DEF Enter
<1> HIDE DEF r
<1>4. heap' = [heap EXCEPT ![stored] = r] /\ stored \in Objects
  BY <1>2 DEF Write, TypeOK
<1>5. \A p \in Objects : heap'[p].anchor = heap[p].anchor
  BY <1>1, <1>4 DEF TypeOK, record
<1>6. new.doing = "wake" /\ ~new.forced => i <= wakeAge
  <2> SUFFICES ASSUME Outcome(r, forced, wanted) = "wake", ~forced
               PROVE  i <= wakeAge
    OBVIOUS
  <2>1. ~(r.retry > 0 \/ (~forced /\ r.next > 0))
    BY DEF Outcome
  <2>2. r.next = 0
    BY <1>1, <2>1 DEF Record
  <2>3. Left(i, record.anchor) \in Nat /\ record.anchor \in Nat /\ wakeAge \in Nat
    BY <1>1, AnchorTyped, LeftFacts
  <2>4. Left(i, record.anchor) = 0
    BY <1>1, <2>2, <2>3
  <2>5. i <= record.anchor
    BY <1>1, <2>3, <2>4, LeftFacts
  <2> QED BY <1>1, <2>3, <2>5 DEF Paced
<1>7. record'.anchor <= wakeAge
  BY <1>2, <1>4, <1>5 DEF Paced, record
<1>8. ASSUME NEW t \in Slots
      PROVE  /\ command'[t].doing # "idle" => heap'[command'[t].object].anchor <= wakeAge
             /\ command'[t].doing = "wake" /\ ~command'[t].forced =>
                    command'[t].interval <= wakeAge
  <2>1. CASE t = s
    <3>1. command'[t] = new
      BY <1>3, <2>1 DEF TypeOK
    <3>2. heap'[stored].anchor <= wakeAge
      BY <1>2, <1>7 DEF record
    <3> QED BY <1>6, <3>1, <3>2
  <2>2. CASE t # s
    <3>1. command'[t] = command[t] /\ command[t].object \in Objects
      BY <1>3, <2>2, AnchorTyped DEF TypeOK
    <3> QED BY <1>5, <3>1 DEF Paced
  <2> QED BY <2>1, <2>2
<1> QED BY <1>2, <1>7, <1>8 DEF Paced

(* The end of a command: a wake starts the pace anew, for everybody.       *)
LEMMA LeavePaced ==
    ASSUME PInv, OneAtATime, NEW s \in Slots, Suppress(s) \/ ProbeCache(s) \/ Wake(s)
    PROVE  Paced'
<1>1. TypeOK /\ Paced /\ SInv
  BY DEF PInv, SInv
<1> DEFINE o == command[s].object
<1>2. o \in Objects /\ heap[o] \in Record /\ command[s].interval \in Intervals
      /\ command[s].doing # "idle" /\ seen \in Ages
  BY <1>1 DEF TypeOK, Command, Suppress, ProbeCache, Wake
<1>3. CASE Suppress(s) \/ ProbeCache(s)
  <2>1. PICK r \in Record : r.anchor = heap[o].anchor /\ Leave(s, r)
    <3>1. CASE Suppress(s)
      BY <1>2, <3>1 DEF Suppress
    <3>2. CASE ProbeCache(s)
      BY <1>2, <3>2, ProbingTyped, AnchorKept DEF ProbeCache
    <3> QED BY <1>3, <3>1, <3>2
  <2>2. /\ stored' = o /\ heap'[stored'] = r /\ command'[s] = Idle
        /\ \A t \in Slots : t # s =>
               /\ command'[t] = command[t]
               /\ command[t].doing # "idle" /\ command[t].object # stored' =>
                      heap'[command[t].object] = heap[command[t].object]
    BY <1>1, <2>1, LeaveDoes
  <2>3. r.anchor <= wakeAge /\ wakeAge' = wakeAge
    BY <1>1, <1>2, <1>3, <2>1 DEF Paced, Suppress, ProbeCache
  <2>4. ASSUME NEW t \in Slots
        PROVE  /\ command'[t].doing # "idle" => heap'[command'[t].object].anchor <= wakeAge
               /\ command'[t].doing = "wake" /\ ~command'[t].forced =>
                      command'[t].interval <= wakeAge
    <3>1. CASE t = s
      BY <2>2, <3>1 DEF Idle
    <3>2. CASE t # s
      BY <1>1, <2>2, <2>3, <3>2 DEF Paced
    <3> QED BY <3>1, <3>2
  <2> HIDE DEF o
  <2> QED BY <2>2, <2>3, <2>4 DEF Paced, record
<1>4. CASE Wake(s)
  <2> DEFINE r == Dispatched(heap[o], command[s].interval)
  <2>1. r \in Record /\ r.anchor = 0 /\ Leave(s, r) /\ wakeAge' = 0
    BY <1>2, <1>4, DispatchedTyped, AnchorKept DEF Wake
  <2> HIDE DEF r
  <2>2. /\ record'.anchor = 0 /\ command'[s] = Idle
        /\ \A t \in Slots : t # s => command'[t] = command[t]
    BY <1>1, <2>1, LeaveDoes DEF record
  <2>3. \A t \in Slots : t # s => command[t].doing = "idle"
    BY <1>1, <1>2, SingleCommand
  <2>4. \A t \in Slots : command'[t].doing = "idle"
    BY <2>2, <2>3 DEF Idle
  <2> QED BY <2>1, <2>2, <2>4 DEF Paced
<1> QED BY <1>3, <1>4

(* Answers, notices and confirmations.                                     *)
LEMMA AnswerPaced == ASSUME TypeOK, Paced, Answer  PROVE Paced'
<1>1. PICK c \in DOMAIN calls : \/ Accept(c) \/ AcceptAsError(c) \/ Disconnect(c)
                                \/ \E relevant \in BOOLEAN : Fail(c, relevant)
  BY DEF Answer
<1>2. command' = command /\ wakeAge' = wakeAge
  BY <1>1 DEF Accept, AcceptAsError, Disconnect, Fail, Ends
<1>3. record \in Record /\ Accepted(record) \in Record /\ AcceptedAsError(record) \in Record
      /\ Reread(record) \in Record /\ Disconnected(record, calls[c].kind) \in Record
      /\ \A relevant \in BOOLEAN : Broken(record, calls[c].kind = "probe", relevant) \in Record
  BY RecordTyped, AcceptedTyped, RereadTyped, BrokenTyped
<1>4. PICK r \in Record : /\ r.anchor = record.anchor \/ r.anchor = 0
                          /\ Write(r) \/ Replace(r)
  <2>1. CASE Accept(c)
    BY <1>3, <2>1, AnchorKept DEF Accept
  <2>2. CASE AcceptAsError(c)
    BY <1>3, <2>2, AnchorKept DEF AcceptAsError
  <2>3. CASE Disconnect(c)
    BY <1>3, <2>3, AnchorKept DEF Disconnect
  <2>4. CASE \E relevant \in BOOLEAN : Fail(c, relevant)
    BY <1>3, <2>4, AnchorKept DEF Fail
  <2> QED BY <1>1, <2>1, <2>2, <2>3, <2>4
<1> QED BY <1>2, <1>4, WritePaced

(* Limits, their end, announcements and confirmed evidence keep the pace.  *)
LEMMA OtherPaced ==
    ASSUME TypeOK, Paced,
           (\E k \in 1 .. Backoff : Limit(k)) \/ Release \/ Announce \/ Confirm
    PROVE  Paced'
<1>1. command' = command /\ wakeAge' = wakeAge
  BY DEF Limit, Release, Announce, Confirm, Conclude
<1>2. /\ heap' \in [Objects -> Record] /\ stored' \in Objects
      /\ record'.anchor \in {record.anchor, 0}
      /\ \A s \in Slots : command[s].doing # "idle" =>
             heap'[command[s].object].anchor \in {heap[command[s].object].anchor, record.anchor}
  <2>1. ASSUME stored' = stored, record'.anchor = record.anchor,
               heap' \in [Objects -> Record],
               \A p \in Objects : p # stored => heap'[p] = heap[p]
        PROVE  /\ record'.anchor = record.anchor /\ stored' \in Objects
               /\ \A s \in Slots : command[s].doing # "idle" =>
                      heap'[command[s].object].anchor = heap[command[s].object].anchor
    BY <2>1, AnchorTyped DEF record, TypeOK
  <2>2. CASE \E k \in 1 .. Backoff : Limit(k)
    BY <2>1, <2>2, LimitDoes
  <2>3. CASE Release
    BY <2>1, <2>3, ReleaseDoes
  <2>4. CASE Announce
    BY <2>1, <2>4, AnnounceDoes
  <2>5. CASE Confirm
    BY <2>5, ConfirmDoes
  <2> QED BY <2>2, <2>3, <2>4, <2>5
<1>3. record'.anchor <= wakeAge
  BY <1>2, AnchorTyped DEF Paced
<1> QED BY <1>1, <1>2, <1>3 DEF Paced

(* So does a tick: the record and the world age alike.                     *)
LEMMA TickPaced == ASSUME TypeOK, Paced, Tick  PROVE Paced'
<1>1. heap'[stored] = Older(record) /\ stored' = stored /\ wakeAge' = Aged(wakeAge)
      /\ command' = command /\ \A s \in Slots : command[s].doing = "idle"
  BY DEF Tick, Quiet, TypeOK, record
<1>2. record \in Record /\ record.anchor \in Ages /\ wakeAge \in Ages
  BY RecordTyped DEF TypeOK, Record
<1>3. Older(record).anchor = Aged(record.anchor)
  BY <1>2 DEF Older, Record
<1>4. Aged(record.anchor) <= Aged(wakeAge)
  BY <1>2, AgedFacts DEF Paced
<1>5. record'.anchor = Aged(record.anchor)
  BY <1>1, <1>3 DEF record
<1> QED BY <1>1, <1>4, <1>5 DEF Paced

(* Every step keeps the pace.                                              *)
LEMMA PInvNext == PInv /\ [Next]_vars => PInv'
<1> SUFFICES ASSUME PInv, [Next]_vars, OneAtATime'  PROVE Paced'
  BY SInvNext DEF PInv
<1>1. TypeOK /\ SInv
  BY DEF PInv, SInv
<1>2. OneAtATime /\ Paced
  BY <1>1, OneAtATimeBefore DEF PInv
<1>3. CASE UNCHANGED <<heap, stored, command, wakeAge>>
  BY <1>2, <1>3 DEF Paced, record
<1>4. CASE Restart
  <2>1. heap'[0] = record /\ stored' = 0
    BY <1>4, RefreshBounds DEF Restart, Objects
  <2> QED BY <1>2, <1>4, <2>1 DEF Paced, Restart, Idle, record
<1>5. UNCHANGED <<heap, stored, command, wakeAge>> \/ Restart \/ Next
  BY DEF vars
<1>6. CASE \/ \E age \in Ages : Observe(age)
           \/ LeavePending \/ \E c \in DOMAIN calls : Lose(c)
  BY <1>3, <1>6 DEF Observe, LeavePending, Conclude, Lose
<1>7. CASE FailTrip
  <2>1. record \in Record
    BY <1>1, RecordTyped
  <2>2. Broken(record, FALSE, FALSE) \in Record
    BY <2>1, BrokenTyped
  <2>3. Broken(record, FALSE, FALSE).anchor = record.anchor
    BY <2>1 DEF Broken, Record
  <2> QED BY <1>1, <1>2, <1>7, <2>2, <2>3, WritePaced DEF FailTrip
<1> QED BY <1>1, <1>2, <1>3, <1>4, <1>5, <1>6, <1>7, EnterPaced, LeavePaced, AnswerPaced,
           OtherPaced, TickPaced DEF Next, Chain

(* An automatic wake comes no sooner after the last wake than the interval *)
(* its command selected, as long as commands do not overlap: by whatever   *)
(* answers, errors, notices, restarts and late ends of calls the record    *)
(* has been changed since, it has not forgotten that wake.                 *)
THEOREM WakesKeepPace == Spec => WakesSpaced
<1>1. Init => PInv
  <2> SUFFICES ASSUME Init  PROVE Paced
    BY SInvInit DEF PInv
  <2>1. record = Blank
    BY RefreshBounds DEF Init, record, Objects
  <2> QED BY <2>1, Bounds DEF Init, Paced, Blank, Idle
<1>2. PInv /\ [Next]_vars => PInv'
  BY PInvNext
<1>3. PInv /\ [Next]_vars =>
          [MaxCommands = 1 \/ faults'.overlap = 0 =>
              \A s \in Slots : Wake(s) /\ ~command[s].forced =>
                  wakeAge >= command[s].interval]_vars
  <2> SUFFICES ASSUME PInv, Next, MaxCommands = 1 \/ faults'.overlap = 0,
                      NEW s \in Slots, Wake(s), ~command[s].forced
               PROVE  wakeAge >= command[s].interval
    OBVIOUS
  <2>1. OneAtATime
    BY OneAtATimeBefore DEF OneAtATime, PInv, SInv
  <2>2. command[s].interval <= wakeAge
    BY <2>1 DEF PInv, Paced, Wake
  <2> QED BY <2>2, AnchorTyped DEF PInv, SInv
<1> QED BY <1>1, <1>2, <1>3, PTL DEF Spec, WakesSpaced
-----------------------------------------------------------------------------
(* Calls: the record protects the one call that is within its lease, and a *)
(* command that is to make another has found none.                         *)

Clean(f) == f.overlap + f.late + f.trip = 0
Protected(r, call) ==
    call.left > 0 /\ ~call.cut =>
        IF call.kind = "wake" THEN r.wake /\ r.wakeLeft = call.left
                               ELSE r.probe /\ r.probeLeft = call.left
Active(call) == ~call.cut /\ (~call.lost \/ call.left > 0)
Flight ==
    /\ \A c \in DOMAIN calls : calls[c].cut => calls[c].lost
    /\ \A c \in DOMAIN calls : Protected(record, calls[c])
    /\ \A c, d \in DOMAIN calls : Active(calls[c]) /\ Active(calls[d]) => c = d
    /\ \A s \in Slots : command[s].doing \in {"probe", "wake"} =>
           \A c \in DOMAIN calls : ~Active(calls[c])
FInv == SInv /\ (Clean(faults) => Flight)

(* Faults once counted stay counted.                                       *)
LEMMA CleanBefore ==
    ASSUME TypeOK, [Next]_vars, Clean(faults')
    PROVE  /\ Clean(faults) /\ faults.overlap = 0
           /\ faults'.overlap = 0 /\ faults'.late = 0 /\ faults'.trip = 0
<1>1. /\ faults.overlap \in Nat /\ faults'.overlap \in Nat /\ faults'.overlap >= faults.overlap
      /\ faults.late \in Nat /\ faults'.late \in Nat /\ faults'.late >= faults.late
      /\ faults.trip \in Nat /\ faults'.trip \in Nat /\ faults'.trip >= faults.trip
  BY FaultsGrow DEF Kinds
<1>2. faults'.overlap + faults'.late + faults'.trip = 0
  BY DEF Clean
<1>3. faults'.overlap = 0 /\ faults'.late = 0 /\ faults'.trip = 0
  <2> DEFINE a == faults'.overlap
             b == faults'.late
             c == faults'.trip
  <2>1. a \in Nat /\ b \in Nat /\ c \in Nat /\ a + b + c = 0
    BY <1>1, <1>2
  <2> HIDE DEF a, b, c
  <2>2. a = 0 /\ b = 0 /\ c = 0
    BY <2>1
  <2> QED BY <2>2 DEF a, b, c
<1>4. faults.overlap = 0 /\ faults.late = 0 /\ faults.trip = 0
  BY <1>1, <1>3
<1> QED BY <1>3, <1>4 DEF Clean

(* What a call consists of.                                                *)
LEMMA CallTyped ==
    ASSUME TypeOK, NEW c \in DOMAIN calls
    PROVE  /\ calls[c].kind \in {"wake", "probe"} /\ calls[c].lost \in BOOLEAN
           /\ calls[c].cut \in BOOLEAN
           /\ calls[c].left \in Nat /\ calls[c].left \in 0 .. Lease
BY Bounds DEF TypeOK, Call

(* A command that is to call has found no call active.                     *)
LEMMA EnterFlight ==
    ASSUME SInv, Flight, NEW s \in Slots, NEW i \in Intervals, NEW forced \in BOOLEAN,
           NEW wanted, Enter(s, i, forced, wanted), faults'.overlap = 0, faults'.late = 0
    PROVE  Flight'
<1> DEFINE r == Derived(record, i)
<1>1. TypeOK /\ record \in Record /\ r \in Record
  BY RecordTyped, DerivedTyped DEF SInv
<1>2. /\ record.wake /\ record.wakeLeft > 0 => r.wake /\ r.wakeLeft = record.wakeLeft
      /\ record.probe /\ record.probeLeft > 0 => r.probe /\ r.probeLeft = record.probeLeft
  <2>1. /\ r.wake = (record.wake /\ record.wakeLeft > 0) /\ r.wakeLeft = record.wakeLeft
        /\ r.probe = (record.probe /\ ~(record.probe /\ record.probeLeft = 0))
        /\ r.probeLeft = record.probeLeft
    BY <1>1 DEF Derived, Record
  <2>2. record.probeLeft > 0 => ~(record.probeLeft = 0)
    BY <1>1, Bounds DEF Record
  <2> HIDE DEF r
  <2> QED BY <2>1, <2>2
<1>3. record' = r /\ calls' = calls
  BY <1>1, WriteDoes DEF Enter, record
<1> HIDE DEF r
<1>4. Overdue = {}
  <2>1. Arrives((IF forced THEN {"force"} ELSE {}) \cup (IF Overdue = {} THEN {} ELSE {"late"}))
    BY DEF Enter
  <2>2. Overdue # {} => faults'["late"] > 0
    BY <1>1, <2>1, ArrivesDoes DEF Kinds
  <2> QED BY <2>2
<1>5. ASSUME NEW c \in DOMAIN calls  PROVE Protected(r, calls[c])
  BY <1>2, <1>5, CallTyped, <1>1 DEF Flight, Protected
<1>6. command' = [command EXCEPT ![s] = [doing |-> Outcome(r, forced, wanted),
                     forced |-> forced, interval |-> i, object |-> stored]]
  BY DEF Enter, r
<1>7. ASSUME NEW c \in DOMAIN calls, Active(calls[c]),
             Outcome(r, forced, wanted) \in {"probe", "wake"}
      PROVE  FALSE
  <2>1. ~r.probe /\ ~r.wake
    <3>1. r.probe \/ r.wake => Outcome(r, forced, wanted) = "nothing"
      BY DEF Outcome
    <3> QED BY <1>7, <3>1
  <2>2. ~(calls[c].left > 0)
    BY <1>5, <1>7, <2>1 DEF Protected, Active
  <2>3. calls[c].left = 0 /\ ~calls[c].lost
    BY <1>1, <1>7, <2>2, CallTyped DEF Active
  <2> QED BY <1>4, <2>3 DEF Overdue
<1>8. ASSUME NEW t \in Slots, command'[t].doing \in {"probe", "wake"}, NEW c \in DOMAIN calls
      PROVE  ~Active(calls[c])
  <2>1. CASE t = s
    <3>1. command'[t].doing = Outcome(r, forced, wanted)
      BY <1>1, <1>6, <2>1 DEF TypeOK
    <3> QED BY <1>7, <1>8, <3>1
  <2>2. CASE t # s
    <3>1. command'[t] = command[t]
      BY <1>1, <1>6, <2>2 DEF TypeOK
    <3> QED BY <1>8, <3>1 DEF Flight
  <2> QED BY <2>1, <2>2
<1> QED BY <1>3, <1>5, <1>8 DEF Flight

(* The call a command makes is the only active one, and the record that the*)
(* command stores protects it.                                             *)
LEMMA SendFlight ==
    ASSUME SInv, Settled, Flight, NEW s \in Slots, ProbeCache(s) \/ Wake(s)
    PROVE  Flight'
<1> DEFINE o == command[s].object
<1>1. TypeOK /\ o \in Objects /\ heap[o] \in Record /\ command[s].interval \in Intervals
      /\ seen \in Ages /\ command[s].doing \in {"probe", "wake"}
  BY DEF SInv, TypeOK, Command, ProbeCache, Wake
<1>2. \A c \in DOMAIN calls : ~Active(calls[c])
  BY <1>1 DEF Flight
<1>3. PICK kind \in {"probe", "wake"}, r \in Record :
          /\ Leave(s, r) /\ Send(kind)
          /\ Protected(r, [kind |-> kind, left |-> Lease, lost |-> FALSE, cut |-> FALSE])
  <2>1. CASE ProbeCache(s)
    <3>1. /\ Probing(heap[o]) \in Record /\ Probing(heap[o]).probe = TRUE
          /\ Probing(heap[o]).probeLeft = Lease
      BY <1>1, ProbingTyped DEF Probing, Record
    <3>2. Protected(Probing(heap[o]), [kind |-> "probe", left |-> Lease, lost |-> FALSE,
                                          cut |-> FALSE])
      BY <3>1 DEF Protected
    <3> QED BY <2>1, <3>1, <3>2 DEF ProbeCache
  <2>2. CASE Wake(s)
    <3> DEFINE r == Dispatched(heap[o], command[s].interval)
    <3>1. r \in Record /\ r.wake = TRUE /\ r.wakeLeft = Lease
      BY <1>1, DispatchedTyped DEF Dispatched, Record
    <3> HIDE DEF r
    <3>2. Protected(r, [kind |-> "wake", left |-> Lease, lost |-> FALSE,
                                          cut |-> FALSE])
      BY <3>1 DEF Protected
    <3> QED BY <2>2, <3>1, <3>2 DEF Wake, r
  <2> QED BY <2>1, <2>2
<1> DEFINE call == [kind |-> kind, left |-> Lease, lost |-> FALSE, cut |-> FALSE]
<1>4. PICK new : \A c \in DOMAIN calls' :
          IF c = new THEN calls'[c] = call ELSE c \in DOMAIN calls /\ calls'[c] = calls[c]
  BY <1>1, <1>3, SendDoes
<1> HIDE DEF call
<1>5. \A c \in DOMAIN calls' : Active(calls'[c]) => c = new
  BY <1>2, <1>4
<1>6. record' = r /\ command'[s] = Idle /\ \A t \in Slots : t # s => command'[t] = command[t]
  BY <1>1, <1>3, LeaveDoes DEF record
<1>7. \A t \in Slots : command'[t].doing = "idle"
  BY <1>1, <1>6 DEF Settled, Idle
<1>8. ASSUME NEW c \in DOMAIN calls'  PROVE Protected(r, calls'[c])
  <2>1. CASE c = new
    BY <1>3, <1>4, <2>1 DEF call
  <2>2. CASE c # new
    BY <1>2, <1>4, <2>2 DEF Active, Protected
  <2> QED BY <2>1, <2>2
<1>9. ASSUME NEW c \in DOMAIN calls', calls'[c].cut  PROVE calls'[c].lost
  <2>1. c # new
    BY <1>4, <1>9 DEF call
  <2> QED BY <1>4, <1>9, <2>1 DEF Flight
<1> QED BY <1>5, <1>6, <1>7, <1>8, <1>9 DEF Flight

(* With every call settled nothing is left to protect.                     *)
LEMMA SettledFlight ==
    ASSUME \A s \in Slots : command'[s].doing = "idle",
           \A c \in DOMAIN calls' : calls'[c].left = 0 \/ calls'[c].cut,
           \A c \in DOMAIN calls' : calls'[c].cut => calls'[c].lost,
           \A c, d \in DOMAIN calls' : Active(calls'[c]) /\ Active(calls'[d]) => c = d
    PROVE  Flight'
<1>1. \A c \in DOMAIN calls' : Protected(record', calls'[c])
  BY DEF Protected
<1> QED BY <1>1 DEF Flight

(* The active call was the only one: when it ends none is left.            *)
LEMMA AnswerFlight == ASSUME SInv, Flight, Answer, faults'.overlap = 0  PROVE Flight'
<1>1. PICK c \in DOMAIN calls : Disconnect(c) \/ \E kinds : Ends(c, kinds)
  BY DEF Answer, Accept, AcceptAsError, Fail
<1>2. TypeOK /\ Quiet /\ command' = command /\ ~calls[c].lost
  BY <1>1, ArrivesDoes DEF Ends, Disconnect, SInv
<1>3. DOMAIN calls' \subseteq DOMAIN calls /\ \A d \in DOMAIN calls' :
          \/ calls'[d].cut = TRUE /\ calls'[d].lost = TRUE
          \/ (d # c /\ calls'[d] = calls[d])
  <2>1. CASE Disconnect(c)
    BY <1>2, <2>1, DisconnectDoes
  <2>2. CASE \E kinds : Ends(c, kinds)
    BY <1>2, <2>2, EndsDoes
  <2> QED BY <1>1, <2>1, <2>2
<1>4. Active(calls[c])
  BY <1>1, <1>2 DEF Flight, Active
<1>5. ASSUME NEW d \in DOMAIN calls'
      PROVE  /\ calls'[d].cut \/ calls'[d].left = 0
             /\ calls'[d].cut => calls'[d].lost
             /\ ~Active(calls'[d])
  <2>1. CASE d # c /\ calls'[d] = calls[d]
    <3>1. calls[d].left \in Nat /\ calls[d].cut \in BOOLEAN /\ d \in DOMAIN calls
      BY <1>2, <1>3, <1>5, CallTyped
    <3>2. ~Active(calls[d]) /\ (calls[d].cut => calls[d].lost)
      BY <1>4, <2>1, <3>1 DEF Flight
    <3> QED BY <2>1, <3>1, <3>2 DEF Active
  <2>2. CASE calls'[d].cut = TRUE /\ calls'[d].lost = TRUE
    BY <2>2 DEF Active
  <2> QED BY <1>3, <1>5, <2>1, <2>2
<1> QED BY <1>2, <1>5, SettledFlight DEF Quiet

(* Telemetry, or a notice of the provider, gives up every call.            *)
LEMMA ExcusedFlight ==
    ASSUME TypeOK, Flight, Excused, \A s \in Slots : command'[s].doing = "idle"
    PROVE  Flight'
<1>1. DOMAIN calls' = DOMAIN calls /\ \A c \in DOMAIN calls :
          calls'[c].left = 0 /\ calls'[c].lost = calls[c].lost /\ calls'[c].cut = calls[c].cut
  BY ExcusedDoes
<1>2. \A c \in DOMAIN calls : Active(calls'[c]) => Active(calls[c])
  BY <1>1 DEF Active
<1> QED BY <1>1, <1>2, SettledFlight DEF Flight

(* The rest leaves the calls and the leases alone, or ages them together,  *)
(* or loses the answer of a call whose lease goes on.                      *)
SameLeases ==
    /\ record'.wake = record.wake /\ record'.wakeLeft = record.wakeLeft
    /\ record'.probe = record.probe /\ record'.probeLeft = record.probeLeft

(* With the leases as they were, a lost answer changes nothing.            *)
LEMMA SameFlight ==
    ASSUME Flight, SameLeases, DOMAIN calls' = DOMAIN calls,
           \A c \in DOMAIN calls : calls'[c].left = calls[c].left
               /\ calls'[c].kind = calls[c].kind /\ calls'[c].cut = calls[c].cut
               /\ (calls'[c] = calls[c] \/ calls'[c].lost = TRUE),
           \A s \in Slots : command'[s].doing \in {"probe", "wake"} =>
               command[s].doing \in {"probe", "wake"}
    PROVE  Flight'
<1>1. \A c \in DOMAIN calls : Active(calls'[c]) => Active(calls[c])
  BY DEF Active
<1>2. \A c \in DOMAIN calls' : Protected(record', calls'[c])
  BY DEF Flight, SameLeases, Protected
<1> QED BY <1>1, <1>2 DEF Flight

(* The lease of a call and the deadline in the record shrink together.     *)
LEMMA TickFlight == ASSUME TypeOK, Flight, Tick  PROVE Flight'
<1>1. record' = Older(record) /\ record \in Record
  BY RecordTyped DEF Tick, TypeOK, record
<1>2. /\ record'.wake = record.wake /\ record'.wakeLeft = Left(record.wakeLeft, 1)
      /\ record'.probe = record.probe /\ record'.probeLeft = Left(record.probeLeft, 1)
  BY <1>1 DEF Older, Record
<1>3. command' = command /\ \A s \in Slots : command[s].doing = "idle"
  BY DEF Tick, Quiet
<1>4. ASSUME NEW c \in DOMAIN calls'
      PROVE  /\ c \in DOMAIN calls /\ calls'[c].kind = calls[c].kind
             /\ calls'[c].lost = calls[c].lost /\ calls'[c].left = Left(calls[c].left, 1)
             /\ calls'[c].left > 0 => calls[c].left > 0
             /\ calls'[c].cut = calls[c].cut
  <2>1. c \in DOMAIN calls /\ calls'[c] = [calls[c] EXCEPT !.left = Left(@, 1)]
    BY <1>4 DEF Tick
  <2>2. calls[c] \in Call /\ calls[c].left \in Nat
    BY <2>1, CallTyped DEF TypeOK
  <2>3. Left(calls[c].left, 1) > 0 => calls[c].left > 0
    BY <2>2 DEF Left
  <2> QED BY <2>1, <2>2, <2>3 DEF Call
<1>5. ASSUME NEW c \in DOMAIN calls'  PROVE Protected(record', calls'[c])
  BY <1>2, <1>4, <1>5 DEF Protected, Flight
<1>6. ASSUME NEW c \in DOMAIN calls', Active(calls'[c])  PROVE Active(calls[c])
  BY <1>4, <1>6 DEF Active
<1>7. ASSUME NEW c \in DOMAIN calls', NEW d \in DOMAIN calls',
             Active(calls'[c]), Active(calls'[d])
      PROVE  c = d
  BY <1>4, <1>6, <1>7 DEF Flight
<1>8. ASSUME NEW c \in DOMAIN calls', calls'[c].cut  PROVE calls'[c].lost
  BY <1>4, <1>8 DEF Flight
<1> QED BY <1>3, <1>5, <1>7, <1>8 DEF Flight

(* Every step keeps the one call protected.                                *)
LEMMA FInvNext == FInv /\ [Next]_vars => FInv'
<1> SUFFICES ASSUME FInv, [Next]_vars, Clean(faults')  PROVE Flight'
  BY SInvNext DEF FInv
<1>1. SInv /\ TypeOK
  BY DEF FInv, SInv
<1>2. /\ Clean(faults) /\ faults.overlap = 0
      /\ faults'.overlap = 0 /\ faults'.late = 0 /\ faults'.trip = 0
  BY <1>1, CleanBefore
<1>3. Flight /\ Settled
  BY <1>1, <1>2 DEF FInv, SInv
<1>4. CASE UNCHANGED <<heap, stored, command, calls>>
  <2>1. SameLeases
    BY <1>4 DEF SameLeases, record
  <2> QED BY <1>3, <1>4, <2>1, SameFlight
<1>5. ASSUME NEW s \in Slots, NEW i \in Intervals, NEW forced \in BOOLEAN,
             NEW wanted \in BOOLEAN, Enter(s, i, forced, wanted)
      PROVE  Flight'
  BY <1>1, <1>2, <1>3, <1>5, EnterFlight
<1>6. ASSUME NEW s \in Slots, Suppress(s)  PROVE Flight'
  <2>1. heap[command[s].object] \in Record /\ Leave(s, heap[command[s].object])
        /\ command[s].object = stored /\ calls' = calls
    BY <1>1, <1>3, <1>6 DEF Suppress, Settled, TypeOK, Command
  <2>2. record' = record /\ command'[s] = Idle
        /\ \A t \in Slots : t # s => command'[t] = command[t]
    BY <1>1, <2>1, LeaveDoes DEF record
  <2>3. SameLeases
    BY <2>2 DEF SameLeases
  <2>4. \A t \in Slots : command'[t].doing \in {"probe", "wake"} =>
            command[t].doing \in {"probe", "wake"}
    BY <2>2 DEF Idle
  <2> QED BY <1>3, <2>1, <2>3, <2>4, SameFlight
<1>7. ASSUME NEW s \in Slots, ProbeCache(s) \/ Wake(s)  PROVE Flight'
  BY <1>1, <1>3, <1>7, SendFlight
<1>8. CASE Confirm
  <2>1. \A s \in Slots : command'[s].doing = "idle"
    BY <1>3, <1>8 DEF Settled, Confirm, Conclude
  <2> QED BY <1>1, <1>3, <1>8, <2>1, ExcusedFlight DEF Confirm
<1>9. ASSUME NEW k \in 1 .. Backoff, Limit(k)  PROVE Flight'
  <2>1. \A s \in Slots : command'[s].doing = "idle"
    BY <1>1, <1>2, <1>9, ArrivesDoes DEF Limit, Quiet
  <2> QED BY <1>1, <1>3, <1>9, <2>1, ExcusedFlight DEF Limit
<1>10. CASE Release
  <2>1. SameLeases
    BY <1>1, <1>10, ReleaseDoes DEF SameLeases
  <2> QED BY <1>3, <1>10, <2>1, SameFlight DEF Release
<1>11. CASE Announce
  <2>1. SameLeases
    BY <1>1, <1>11, AnnounceDoes DEF SameLeases
  <2> QED BY <1>3, <1>11, <2>1, SameFlight DEF Announce
<1>12. CASE FailTrip
  <2>1. Arrives({"trip"})
    BY <1>12 DEF FailTrip
  <2>2. faults'["trip"] > 0
    BY <1>1, <2>1, ArrivesDoes DEF Kinds
  <2> QED BY <1>2, <2>2
<1>13. ASSUME NEW c \in DOMAIN calls, Lose(c)  PROVE Flight'
  <2>1. SameLeases
    BY <1>13 DEF Lose, SameLeases, record
  <2>2. calls' = [calls EXCEPT ![c].lost = TRUE] /\ \A d \in DOMAIN calls : calls[d] \in Call
    BY <1>1, <1>13 DEF Lose, TypeOK
  <2>3. DOMAIN calls' = DOMAIN calls /\ \A d \in DOMAIN calls : calls'[d].left = calls[d].left
            /\ calls'[d].kind = calls[d].kind /\ calls'[d].cut = calls[d].cut
            /\ (calls'[d] = calls[d] \/ calls'[d].lost = TRUE)
    BY <2>2 DEF Call
  <2> QED BY <1>3, <1>13, <2>1, <2>3, SameFlight DEF Lose
<1>14. CASE Restart
  <2>1. heap'[0] = record /\ stored' = 0
    BY <1>14, RefreshBounds DEF Restart, Objects
  <2>2. SameLeases
    BY <2>1 DEF SameLeases, record
  <2>3. calls' = [c \in DOMAIN calls |-> [calls[c] EXCEPT !.lost = TRUE]]
        /\ \A d \in DOMAIN calls : calls[d] \in Call
    BY <1>1, <1>14 DEF Restart, TypeOK
  <2>4. DOMAIN calls' = DOMAIN calls /\ \A d \in DOMAIN calls : calls'[d].left = calls[d].left
            /\ calls'[d].kind = calls[d].kind /\ calls'[d].cut = calls[d].cut
            /\ (calls'[d] = calls[d] \/ calls'[d].lost = TRUE)
    BY <2>3 DEF Call
  <2>5. \A s \in Slots : command'[s].doing = "idle"
    BY <1>14 DEF Restart, Idle
  <2> QED BY <1>3, <2>2, <2>4, <2>5, SameFlight
<1>15. CASE LeavePending \/ \E age \in Ages : Observe(age)
  BY <1>4, <1>15 DEF LeavePending, Conclude, Observe
<1>16. CASE UNCHANGED vars
  BY <1>4, <1>16 DEF vars
<1>17. CASE Answer
  BY <1>1, <1>2, <1>3, <1>17, AnswerFlight
<1>18. CASE Tick
  BY <1>1, <1>3, <1>18, TickFlight
<1> QED BY <1>5, <1>6, <1>7, <1>8, <1>9, <1>10, <1>11, <1>12, <1>13, <1>14, <1>15,
           <1>16, <1>17, <1>18 DEF Next, Chain

(* As long as no event meets a chain under way, no answer outlives its     *)
(* lease and no trip fails, the one record keeps a second call from being  *)
(* made beside one that is out, also when the answer to that one is lost,  *)
(* the process restarts, or the command is a manual one.  Excepted is one  *)
(* whose connection broke under it, since its handler gives up the lease.  *)
THEOREM OneCall == Spec => OneCallInFlight
<1>1. Init => FInv
  <2> SUFFICES ASSUME Init  PROVE Flight
    BY SInvInit DEF FInv
  <2> QED BY DEF Init, Flight, Idle
<1>2. FInv /\ [Next]_vars => FInv'
  BY FInvNext
<1>3. FInv /\ [Next]_vars =>
          [faults'.overlap + faults'.late + faults'.trip = 0 =>
              \A s \in Slots : Wake(s) \/ ProbeCache(s) =>
                  \A c \in DOMAIN calls : calls[c].left = 0 \/ calls[c].cut]_vars
  <2> SUFFICES ASSUME FInv, Next, Clean(faults'), NEW s \in Slots, Wake(s) \/ ProbeCache(s),
                      NEW c \in DOMAIN calls
               PROVE  calls[c].left = 0 \/ calls[c].cut
    BY DEF Clean
  <2>1. TypeOK /\ Flight
    BY CleanBefore DEF FInv, SInv
  <2>2. ~Active(calls[c])
    BY <2>1 DEF Flight, Wake, ProbeCache
  <2> QED BY <2>1, <2>2, CallTyped DEF Active
<1> QED BY <1>1, <1>2, <1>3, PTL DEF Spec, OneCallInFlight
=============================================================================
