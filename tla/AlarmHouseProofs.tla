--------------------------- MODULE AlarmHouseProofs ---------------------------
(***************************************************************************)
(* Of AlarmHouse: that nothing under way ever lets the panel rest against  *)
(* the last intention, for any limit of attempts and any number of calls,  *)
(* errors, retries and restarts.                                           *)
(***************************************************************************)
EXTENDS AlarmHouse, SequenceTheorems, TLAPS

(* The message that will be carried out last carries the last intention,   *)
(* or one that waits does; with nothing under way, the panel does.         *)
LastRules ==
    IF sends # <<>> THEN sends[Len(sends)].action = desired
    ELSE IF calls # <<>> THEN /\ calls[Len(calls)].action = desired
                              /\ calls[Len(calls)].heard
    ELSE panel = desired
SomeWaits == \E i \in DOMAIN waiting : waiting[i].action = desired
Pursued == ~abandoned /\ desired # "none" => LastRules \/ SomeWaits
-----------------------------------------------------------------------------
(* What is left of a sequence without its i-th element.                    *)
LEMMA Removal ==
    ASSUME NEW S, NEW s \in Seq(S), NEW i \in DOMAIN s
    PROVE  /\ RemoveAt(s, i) \in Seq(S)
           /\ Len(RemoveAt(s, i)) = Len(s) - 1
           /\ \A j \in 1 .. Len(s) - 1 :
                 RemoveAt(s, i)[j] = IF j < i THEN s[j] ELSE s[j + 1]
<1> DEFINE front == SubSeq(s, 1, i - 1)
           back == SubSeq(s, i + 1, Len(s))
<1>1. i \in 1 .. Len(s) /\ Len(s) \in Nat
  OBVIOUS
<1>2. /\ front \in Seq(S) /\ Len(front) = i - 1
      /\ \A j \in 1 .. i - 1 : front[j] = s[j]
  <2>1. \A j \in 1 .. i - 1 : s[j] \in S
    BY <1>1
  <2>2. 1 \in Int /\ i - 1 \in Int
    BY <1>1
  <2> QED BY <1>1, <2>1, <2>2, SubSeqProperties
<1>3. /\ back \in Seq(S) /\ Len(back) = Len(s) - i
      /\ \A j \in 1 .. Len(s) - i : back[j] = s[j + i]
  <2>1. \A j \in i + 1 .. Len(s) : s[j] \in S
    BY <1>1
  <2>2. i + 1 \in Int /\ Len(s) \in Int
    BY <1>1
  <2>3. /\ back \in Seq(S)
        /\ Len(back) = IF i + 1 <= Len(s) THEN Len(s) - (i + 1) + 1 ELSE 0
        /\ \A j \in 1 .. Len(s) - (i + 1) + 1 : back[j] = s[i + 1 + j - 1]
    BY <2>1, <2>2, SubSeqProperties
  <2> QED BY <1>1, <2>3
<1>4. /\ front \o back \in Seq(S)
      /\ Len(front \o back) = Len(front) + Len(back)
      /\ \A j \in 1 .. Len(front) + Len(back) :
            (front \o back)[j] = IF j <= Len(front) THEN front[j]
                                 ELSE back[j - Len(front)]
  BY <1>2, <1>3, ConcatProperties
<1>5. RemoveAt(s, i) = front \o back
  BY DEF RemoveAt
<1> HIDE DEF front, back
<1>6. Len(front) + Len(back) = Len(s) - 1
  BY <1>1, <1>2, <1>3
<1>7. ASSUME NEW j \in 1 .. Len(s) - 1
      PROVE  (front \o back)[j] = IF j < i THEN s[j] ELSE s[j + 1]
  <2>1. (front \o back)[j] = IF j <= i - 1 THEN front[j] ELSE back[j - (i - 1)]
    BY <1>2, <1>4, <1>6
  <2>2. CASE j < i
    BY <1>1, <1>2, <2>1, <2>2
  <2>3. CASE ~(j < i)
    <3>1. j - (i - 1) \in 1 .. Len(s) - i /\ j - (i - 1) + i = j + 1
      BY <1>1, <2>3
    <3>2. back[j - (i - 1)] = s[j - (i - 1) + i]
      BY <1>3, <3>1
    <3> QED BY <1>1, <2>1, <2>3, <3>1, <3>2
  <2> QED BY <2>2, <2>3
<1> QED BY <1>4, <1>5, <1>6, <1>7

(* A function on the right interval is a sequence.                         *)
LEMMA Sequence ==
    ASSUME NEW S, NEW n \in Nat, NEW f \in [1 .. n -> S]
    PROVE  f \in Seq(S)
OBVIOUS

(* Where the last element of a sequence is once its head is taken off.     *)
LEMMA LastOfTail ==
    ASSUME NEW S, NEW s \in Seq(S), s # <<>>
    PROVE  /\ Head(s) \in S /\ Tail(s) \in Seq(S)
           /\ Tail(s) = <<>> => Head(s) = s[Len(s)]
           /\ Tail(s) # <<>> => Tail(s)[Len(Tail(s))] = s[Len(s)]
<1> DEFINE t == Tail(s)
<1>1. /\ Head(s) \in S /\ t \in Seq(S) /\ Len(t) = Len(s) - 1
      /\ \A i \in 1 .. Len(t) : t[i] = s[i + 1]
  BY HeadTailProperties
<1>2. Len(s) \in Nat /\ Len(t) \in Nat
  BY <1>1, LenProperties
<1>3. Head(s) = s[1]
  OBVIOUS
<1>4. t = <<>> <=> Len(t) = 0
  BY <1>1, EmptySeq
<1> HIDE DEF t
<1>5. t = <<>> => s[1] = s[Len(s)]
  BY <1>1, <1>2, <1>4
<1>6. ASSUME t # <<>>  PROVE t[Len(t)] = s[Len(s)]
  <2>1. Len(t) \in 1 .. Len(t) /\ Len(t) + 1 = Len(s)
    BY <1>1, <1>2, <1>4, <1>6
  <2> QED BY <1>1, <2>1
<1> QED BY <1>1, <1>3, <1>5, <1>6 DEF t

(* Every step of the alarm keeps its variables in their domains.           *)
LEMMA AlarmTypeStep ==
    ASSUME AlarmTypeOK, [AlarmNext]_alarm
    PROVE  AlarmTypeOK'
<1> USE AttemptsAssumption DEF AlarmTypeOK, Actions, Message, Call
<1>1. ASSUME NEW action \in Actions, Intend(action)  PROVE AlarmTypeOK'
  BY <1>1, AppendProperties DEF Intend
<1>2. CASE Send
  <2>1. Head(sends) \in Message /\ Tail(sends) \in Seq(Message)
    BY <1>2, HeadTailProperties DEF Send
  <2> QED BY <1>2, <2>1, AppendProperties DEF Send
<1>3. ASSUME calls # <<>>
      PROVE  Head(calls) \in Call /\ Tail(calls) \in Seq(Call)
  BY <1>3, HeadTailProperties
<1>4. CASE Accepted
  BY <1>3, <1>4 DEF Accepted
<1>5. ASSUME NEW carried \in BOOLEAN, Rejected(carried)  PROVE AlarmTypeOK'
  <2>1. [action |-> Head(calls).action, attempt |-> Attempt(Head(calls))] \in Message
    BY <1>3, <1>5 DEF Rejected, Attempt
  <2>2. /\ panel' \in Actions /\ abandoned' \in BOOLEAN
        /\ calls' \in Seq(Call)
    BY <1>3, <1>5 DEF Rejected, RetryAllowed
  <2>3. waiting' \in Seq(Message)
    BY <1>5, <2>1, AppendProperties DEF Rejected
  <2> QED BY <1>5, <2>2, <2>3 DEF Rejected
<1>6. ASSUME NEW i \in DOMAIN waiting, Retry(i)  PROVE AlarmTypeOK'
  <2>1. waiting[i] \in Message
    BY LenProperties, ElementOfSeq
  <2>2. waiting' \in Seq(Message)
    BY <1>6, Removal DEF Retry
  <2>3. sends' \in Seq(Message)
    BY <1>6, <2>1, AppendProperties DEF Retry
  <2> QED BY <1>6, <2>2, <2>3 DEF Retry
<1>7. CASE Flush
  BY <1>7 DEF Flush
<1>8. CASE Interrupted
  <2>1. /\ Len(calls) \in Nat /\ DOMAIN calls = 1 .. Len(calls)
        /\ calls \in [1 .. Len(calls) -> Call]
    BY LenProperties
  <2>2. calls' \in [1 .. Len(calls) -> Call]
    BY <1>8, <2>1 DEF Interrupted
  <2>3. calls' \in Seq(Call)
    BY <2>1, <2>2, Sequence
  <2> QED BY <1>8, <2>3 DEF Interrupted
<1>9. CASE UNCHANGED alarm
  BY <1>9 DEF alarm
<1> QED BY <1>1, <1>2, <1>4, <1>5, <1>6, <1>7, <1>8, <1>9 DEF AlarmNext
-----------------------------------------------------------------------------
(* Every step keeps somebody pursuing the last intention.                  *)
LEMMA PursuedStep ==
    ASSUME AlarmTypeOK, Pursued, [AlarmNext]_alarm
    PROVE  Pursued'
<1>1. ASSUME NEW action \in Actions, Intend(action)  PROVE Pursued'
  <2>1. [action |-> action, attempt |-> 0] \in Message
    BY DEF Message
  <2>2. /\ sends' # <<>>
        /\ sends'[Len(sends')] = [action |-> action, attempt |-> 0]
    BY <1>1, <2>1, AppendProperties DEF Intend, AlarmTypeOK
  <2> QED BY <1>1, <2>2 DEF Intend, Pursued, LastRules
<1>2. CASE Send
  <2> DEFINE c == [action |-> Head(sends).action,
                   attempt |-> Head(sends).attempt, heard |-> TRUE]
  <2>1. /\ Head(sends) \in Message /\ Tail(sends) \in Seq(Message)
        /\ Tail(sends) = <<>> => Head(sends) = sends[Len(sends)]
        /\ Tail(sends) # <<>> => Tail(sends)[Len(Tail(sends))] = sends[Len(sends)]
    BY <1>2, LastOfTail DEF Send, AlarmTypeOK
  <2>2. c \in Call
    BY <2>1 DEF Call, Message
  <2>3. /\ calls' = Append(calls, c) /\ calls' # <<>>
        /\ calls'[Len(calls')] = c
    BY <1>2, <2>2, AppendProperties DEF Send, AlarmTypeOK
  <2>4. ASSUME LastRules, Tail(sends) # <<>>  PROVE LastRules'
    BY <1>2, <2>1, <2>4 DEF Send, LastRules
  <2>5. ASSUME LastRules, Tail(sends) = <<>>  PROVE LastRules'
    BY <1>2, <2>1, <2>3, <2>5 DEF Send, LastRules
  <2>6. SomeWaits => SomeWaits'
    BY <1>2 DEF Send, SomeWaits
  <2> QED BY <1>2, <2>4, <2>5, <2>6 DEF Send, Pursued
<1>3. ASSUME calls # <<>>
      PROVE  /\ Head(calls) \in Call /\ Tail(calls) \in Seq(Call)
             /\ Tail(calls) = <<>> => Head(calls) = calls[Len(calls)]
             /\ Tail(calls) # <<>> =>
                   Tail(calls)[Len(Tail(calls))] = calls[Len(calls)]
  BY <1>3, LastOfTail DEF AlarmTypeOK
(* A call that ends leaves the last one, unless it was that.               *)
<1>4. ASSUME calls # <<>>, calls' = Tail(calls), LastRules,
             UNCHANGED <<desired, sends>>,
             sends # <<>> \/ Tail(calls) # <<>>
      PROVE  LastRules'
  BY <1>3, <1>4 DEF LastRules
<1>5. CASE Accepted
  <2>1. LastRules => LastRules'
    BY <1>3, <1>4, <1>5 DEF Accepted, LastRules
  <2>2. SomeWaits => SomeWaits'
    BY <1>5 DEF Accepted, SomeWaits
  <2> QED BY <1>5, <2>1, <2>2 DEF Accepted, Pursued
<1>6. ASSUME NEW carried \in BOOLEAN, Rejected(carried)  PROVE Pursued'
  <2> DEFINE c == Head(calls)
             m == [action |-> c.action, attempt |-> Attempt(c)]
  <2>1. m \in Message
    BY <1>3, <1>6 DEF Rejected, Attempt, Call, Message, AlarmTypeOK
  <2>2. CASE c.heard /\ RetryAllowed(c)
    <3>1. /\ waiting' = Append(waiting, m)
          /\ Len(waiting) \in Nat /\ DOMAIN waiting = 1 .. Len(waiting)
          /\ DOMAIN waiting' = 1 .. Len(waiting) + 1
          /\ \A i \in DOMAIN waiting : waiting'[i] = waiting[i]
          /\ waiting'[Len(waiting) + 1].action = c.action
      BY <1>6, <2>1, <2>2, AppendProperties, LenProperties DEF Rejected, AlarmTypeOK
    <3>2. SomeWaits => SomeWaits'
      BY <1>6, <3>1 DEF Rejected, SomeWaits
    <3>3. ASSUME LastRules, sends = <<>>, Tail(calls) = <<>>  PROVE SomeWaits'
      <4>1. c.action = desired
        BY <1>3, <1>6, <3>3 DEF Rejected, LastRules
      <4> QED BY <1>6, <3>1, <4>1 DEF Rejected, SomeWaits
    <3> QED BY <1>4, <1>6, <3>2, <3>3 DEF Rejected, Pursued
  <2>3. CASE ~(c.heard /\ RetryAllowed(c))
    <3>1. SomeWaits => SomeWaits'
      BY <1>6, <2>3 DEF Rejected, SomeWaits
    <3>2. ASSUME LastRules, sends = <<>>, Tail(calls) = <<>>  PROVE abandoned'
      <4>1. c.heard
        BY <1>3, <1>6, <3>2 DEF Rejected, LastRules
      <4> QED BY <1>6, <2>3, <4>1 DEF Rejected
    <3>3. abandoned => abandoned'
      BY <1>6 DEF Rejected
    <3> QED BY <1>4, <1>6, <3>1, <3>2, <3>3 DEF Rejected, Pursued
  <2> QED BY <2>2, <2>3
<1>7. ASSUME NEW i \in DOMAIN waiting, Retry(i)  PROVE Pursued'
  <2>1. /\ Len(waiting) \in Nat /\ DOMAIN waiting = 1 .. Len(waiting)
        /\ waiting[i] \in Message
    BY LenProperties, ElementOfSeq DEF AlarmTypeOK
  <2>2. CASE waiting[i].action = desired
    <3>1. sends' # <<>> /\ sends'[Len(sends')] = waiting[i]
      BY <1>7, <2>1, <2>2, AppendProperties DEF Retry, StillDesired, AlarmTypeOK
    <3> QED BY <1>7, <2>2, <3>1 DEF Retry, Pursued, LastRules
  <2>3. CASE waiting[i].action # desired
    <3>1. UNCHANGED <<desired, sends, calls, panel, abandoned>>
      BY <1>7, <2>3 DEF Retry, StillDesired
    <3>2. ASSUME SomeWaits  PROVE SomeWaits'
      <4>1. PICK j \in 1 .. Len(waiting) : waiting[j].action = desired
        BY <2>1, <3>2 DEF SomeWaits
      <4>2. /\ waiting' = RemoveAt(waiting, i)
            /\ waiting' \in Seq(Message)
            /\ Len(waiting') = Len(waiting) - 1
            /\ \A k \in 1 .. Len(waiting) - 1 :
                  waiting'[k] = IF k < i THEN waiting[k] ELSE waiting[k + 1]
        BY <1>7, Removal DEF Retry, AlarmTypeOK
      <4>3. DOMAIN waiting' = 1 .. Len(waiting) - 1
        BY <4>2, LenProperties
      <4>4. CASE j < i
        <5>1. j \in DOMAIN waiting' /\ waiting'[j] = waiting[j]
          BY <2>1, <4>2, <4>3, <4>4
        <5> QED BY <3>1, <4>1, <5>1 DEF SomeWaits
      <4>5. CASE j > i
        <5>1. j - 1 \in DOMAIN waiting' /\ waiting'[j - 1] = waiting[j]
          BY <2>1, <4>2, <4>3, <4>5
        <5> QED BY <3>1, <4>1, <5>1 DEF SomeWaits
      <4> QED BY <2>1, <2>3, <4>1, <4>4, <4>5
    <3>3. LastRules => LastRules'
      BY <3>1 DEF LastRules
    <3> QED BY <3>1, <3>2, <3>3 DEF Pursued
  <2> QED BY <2>2, <2>3
<1>8. CASE Flush
  BY <1>8 DEF Flush, Pursued, LastRules, SomeWaits
<1>9. CASE Interrupted
  BY <1>9 DEF Interrupted, Pursued
<1>10. CASE UNCHANGED alarm
  BY <1>10 DEF alarm, Pursued, LastRules, SomeWaits
<1> QED BY <1>1, <1>2, <1>5, <1>6, <1>7, <1>8, <1>9, <1>10 DEF AlarmNext
-----------------------------------------------------------------------------
(* Types and pursuit together, from the start and for good.                *)
LEMMA AlarmInductive == AlarmSpec => [](AlarmTypeOK /\ Pursued)
<1>1. AlarmInit => AlarmTypeOK /\ Pursued
  BY EmptySeq DEF AlarmInit, AlarmTypeOK, Pursued, Actions, Message, Call
<1>2. AlarmTypeOK /\ Pursued /\ [AlarmNext]_alarm => (AlarmTypeOK /\ Pursued)'
  BY AlarmTypeStep, PursuedStep
<1> QED BY <1>1, <1>2, PTL DEF AlarmSpec

(* Every variable of the alarm stays in its domain.                        *)
THEOREM AlarmTypeCorrect == AlarmSpec => []AlarmTypeOK
BY AlarmInductive, PTL

(* The panel never rests against the last intention.                       *)
THEOREM AlarmFollowsIntent == AlarmSpec => []PanelFollowsIntent
<1>1. Pursued => PanelFollowsIntent
  BY DEF Pursued, PanelFollowsIntent, Quiet, LastRules, SomeWaits
<1> QED BY <1>1, AlarmInductive, PTL
=============================================================================
