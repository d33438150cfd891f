------------------------- MODULE SubscriptionProofs -------------------------
(***************************************************************************)
(* Proofs about Subscription, for any number of callers of Unsubscribe,    *)
(* any number of messages and any capacity of the channel.                 *)
(***************************************************************************)
EXTENDS Subscription, TLAPS

\* The part of the invariant about Unsubscribe: how far the body of closeOnce
\* has come tells whether the channel is closed, and the processor ends only
\* with the closed channel drained.
Ending ==
  /\ once \in {"unused", "check", "close"} => ~chanClosed
  /\ once \in {"wait", "write"} => chanClosed
  /\ once = "write" \/ (once = "done" /\ chanClosed) => proc = "exit"
  /\ proc = "exit" => chanClosed /\ msgChan = <<>>
  /\ proc = "callback" <=> inCallback # 0
  /\ \A u \in Caller : caller[u] = "returned" => once = "done"

\* The part about the order: the messages processed, the one in the callback
\* and those in the channel ascend, and the one in hand is above them all.
Ascending(q) == \A i, j \in 1..Len(q) : i < j => q[i] < q[j]
Below(q, m) == \A i \in 1..Len(q) : q[i] < m

Latest == IF recv \in {"check", "send"} THEN arrived ELSE arrived + 1

Ordered ==
  /\ Ascending(processed) /\ Ascending(msgChan)
  /\ Below(processed, Latest) /\ Below(msgChan, Latest) /\ inCallback < Latest
  /\ \A j \in 1..Len(msgChan) : inCallback < msgChan[j] /\ Below(processed, msgChan[j])
  /\ inCallback # 0 => Below(processed, inCallback)

\* How many messages the callback holds.
InHand == IF inCallback = 0 THEN 0 ELSE 1
InEnqueue == IF recv \in {"check", "send"} THEN 1 ELSE 0

Counted ==
  arrived = Len(processed) + InHand + Len(msgChan) + dropped + refused + InEnqueue

\* Types without the bounds that follow from Counted.
Typed ==
  /\ arrived \in 0..MaxMsg /\ dropped \in Nat /\ refused \in Nat
  /\ recv \in {"idle", "check", "send", "ended"}
  /\ recv \in {"check", "send"} => arrived > 0
  /\ active \in BOOLEAN /\ listed \in BOOLEAN /\ chanClosed \in BOOLEAN
  /\ msgChan \in Seq(1..MaxMsg) /\ Len(msgChan) <= Cap
  /\ proc \in {"range", "callback", "exit"} /\ inCallback \in 0..MaxMsg
  /\ processed \in Seq(1..MaxMsg)
  /\ once \in {"unused", "check", "close", "wait", "write", "done"}
  /\ caller \in [Caller -> {"idle", "called", "returned"}]

IInv == Typed /\ Ending /\ Ordered /\ Counted

-----------------------------------------------------------------------------
\* What the built-in operators on sequences do, for the provers.
LEMMA SeqLen ==
  ASSUME NEW S, NEW s \in Seq(S)
  PROVE  Len(s) \in Nat /\ \A i \in 1..Len(s) : s[i] \in S
OBVIOUS

\* Only the empty sequence has no elements.
LEMMA SeqEmpty ==
  ASSUME NEW S, NEW s \in Seq(S), s # <<>> PROVE Len(s) \in Nat \ {0}
OBVIOUS

\* A message more at the end, as a send on a channel puts it.
LEMMA SeqAppend ==
  ASSUME NEW S, NEW s \in Seq(S), NEW e \in S
  PROVE  /\ Append(s, e) \in Seq(S) /\ Len(Append(s, e)) = Len(s) + 1 /\ Append(s, e) # <<>>
         /\ \A i \in 1..Len(s) : Append(s, e)[i] = s[i]
         /\ Append(s, e)[Len(s) + 1] = e
OBVIOUS

\* A message less at the front, as a receive from a channel takes it.
LEMMA SeqTail ==
  ASSUME NEW S, NEW s \in Seq(S), s # <<>>
  PROVE  /\ Head(s) = s[1] /\ Head(s) \in S /\ Tail(s) \in Seq(S)
         /\ Len(s) >= 1 /\ Len(Tail(s)) = Len(s) - 1
         /\ \A i \in 1..Len(Tail(s)) : Tail(s)[i] = s[i + 1]
OBVIOUS

\* One sequence after the other.
LEMMA SeqConcat ==
  ASSUME NEW S, NEW s \in Seq(S), NEW t \in Seq(S)
  PROVE  /\ s \o t \in Seq(S) /\ Len(s \o t) = Len(s) + Len(t)
         /\ \A i \in 1..Len(s \o t) : (s \o t)[i] = IF i <= Len(s) THEN s[i] ELSE t[i - Len(s)]
OBVIOUS

\* A message that TryEnqueue sends goes to the end of the channel.
LEMMA Sent ==
  ASSUME NEW q \in Seq(1..MaxMsg), NEW m \in 1..MaxMsg
  PROVE  /\ Append(q, m) \in Seq(1..MaxMsg) /\ Len(Append(q, m)) = Len(q) + 1
         /\ \A i \in 1..Len(q) : Append(q, m)[i] = q[i]
         /\ Append(q, m)[Len(q) + 1] = m
  OBVIOUS

\* The message the processor takes leaves the front of the channel.
LEMMA Taken ==
  ASSUME NEW q \in Seq(1..MaxMsg), q # <<>>
  PROVE  /\ Head(q) = q[1] /\ Head(q) \in 1..MaxMsg /\ Len(q) >= 1
         /\ Tail(q) \in Seq(1..MaxMsg) /\ Len(Tail(q)) = Len(q) - 1
         /\ \A i \in 1..Len(Tail(q)) : Tail(q)[i] = q[i + 1]
<1>1. Len(q) \in Nat \ {0} BY SeqEmpty
<1>2. Head(q) = q[1] OBVIOUS
<1>3. /\ Head(q) \in 1..MaxMsg /\ Tail(q) \in Seq(1..MaxMsg)
      /\ Len(Tail(q)) = Len(q) - 1
      /\ \A i \in 1..Len(Tail(q)) : Tail(q)[i] = q[i + 1]
  BY SeqTail, Zenon
<1> QED BY <1>1, <1>2, <1>3

\* A message later than all of an ascending sequence may be appended to it.
LEMMA SentAscends ==
  ASSUME NEW q \in Seq(1..MaxMsg), NEW m \in 1..MaxMsg, Ascending(q), Below(q, m)
  PROVE  Ascending(Append(q, m)) /\ \A n \in Nat : n > m => Below(Append(q, m), n)
<1> DEFINE r == Append(q, m)
<1>1. /\ Len(q) \in Nat /\ Len(r) = Len(q) + 1 /\ r[Len(q) + 1] = m
      /\ \A i \in 1..Len(q) : r[i] = q[i] /\ q[i] \in Nat
  BY Sent, SeqLen, SubscriptionConstants
<1> HIDE DEF r
<1>2. ASSUME NEW i \in 1..Len(r), NEW j \in 1..Len(r), i < j PROVE r[i] < r[j]
  <2>1. CASE j = Len(q) + 1 BY <1>1, <1>2, <2>1 DEF Below
  <2>2. CASE j \in 1..Len(q) BY <1>1, <1>2, <2>2 DEF Ascending
  <2> QED BY <1>1, <2>1, <2>2
<1>3. ASSUME NEW n \in Nat, n > m, NEW i \in 1..Len(r) PROVE r[i] < n
  <2>1. CASE i = Len(q) + 1 BY <1>1, <1>3, <2>1
  <2>2. CASE i \in 1..Len(q) BY <1>1, <1>3, <2>2 DEF Below
  <2> QED BY <1>1, <2>1, <2>2
<1> QED BY <1>2, <1>3 DEF Ascending, Below, r

\* A new subscription (SubscribeWithOptionsContext) satisfies the invariant.
LEMMA InvInit == ASSUME Init PROVE IInv
<1> USE SubscriptionConstants DEF Init
<1>3. /\ Len(processed) = 0 /\ Len(msgChan) = 0
      /\ processed \in Seq(1..MaxMsg) /\ msgChan \in Seq(1..MaxMsg)
  OBVIOUS
<1>1. Typed
  <2>1. 0 \in 0..MaxMsg /\ Cap >= 0 OBVIOUS
  <2>2. caller \in [Caller -> {"idle", "called", "returned"}] OBVIOUS
  <2> QED BY <1>3, <2>1, <2>2, Zenon DEF Typed
<1>2. Ending BY DEF Ending
<1>4. Ordered BY <1>3 DEF Ordered, Ascending, Below, Latest
<1>5. Counted BY <1>3 DEF Counted, InHand, InEnqueue
<1> QED BY <1>1, <1>2, <1>4, <1>5 DEF IInv

\* Each step of handleMessage, of the processor, of Unsubscribe and of the
\* other places that end a subscription keeps the types.
LEMMA TypedStep == ASSUME IInv, [Next]_vars PROVE Typed'
<1> USE SubscriptionConstants DEF IInv, Typed
<1>1. CASE Receive BY <1>1 DEF Receive, procVars
<1>2. CASE TryEnqueueCheck BY <1>2 DEF TryEnqueueCheck, procVars
<1>3. CASE TryEnqueueSend
  <2>1. arrived \in 1..MaxMsg BY <1>3 DEF TryEnqueueSend
  <2>2. msgChan' \in Seq(1..MaxMsg) /\ Len(msgChan') <= Cap
    BY <1>3, <2>1, Sent, SMTT(30) DEF TryEnqueueSend
  <2>3. dropped' \in Nat /\ refused' \in Nat BY <1>3 DEF TryEnqueueSend
  <2> QED BY <1>3, <2>2, <2>3 DEF TryEnqueueSend, procVars
<1>4. CASE ProcessTake BY <1>4, Taken DEF ProcessTake, recvVars
<1>5. CASE ProcessDone BY <1>5, Sent DEF ProcessDone, recvVars, Ending
<1>6. CASE ProcessExit BY <1>6 DEF ProcessExit, recvVars
<1>7. CASE Body
  BY <1>7, Zenon DEF Body, UnsubscribeCheck, UnsubscribeClose, UnsubscribeWait, UnsubscribeWrite,
              recvVars, procVars
<1>8. CASE \E u \in Caller : Unsubscribe(u) \/ UnsubscribeReturn(u)
  BY <1>8, Zenon DEF Unsubscribe, UnsubscribeReturn, recvVars, procVars
<1>9. CASE RestoreFailed \/ ClientClosed
  BY <1>9, Zenon DEF RestoreFailed, ClientClosed, recvVars, procVars
<1>10. CASE UNCHANGED vars BY <1>10 DEF vars, recvVars, procVars
<1> QED BY <1>1, <1>2, <1>3, <1>4, <1>5, <1>6, <1>7, <1>8, <1>9, <1>10 DEF Next, Processing

\* closeOnce, the closed channel and the processor stay in step: only
\* UnsubscribeClose closes the channel, and nothing enters it afterwards.
LEMMA EndingStep == ASSUME IInv, [Next]_vars PROVE Ending'
<1> USE SubscriptionConstants DEF IInv, Typed, Ending
<1>1. CASE Receive BY <1>1 DEF Receive, procVars
<1>2. CASE TryEnqueueCheck BY <1>2 DEF TryEnqueueCheck, procVars
<1>3. CASE TryEnqueueSend BY <1>3 DEF TryEnqueueSend, procVars
<1>4. CASE ProcessTake BY <1>4 DEF ProcessTake, recvVars
<1>5. CASE ProcessDone BY <1>5 DEF ProcessDone, recvVars
<1>6. CASE ProcessExit BY <1>6 DEF ProcessExit, recvVars
<1>7. CASE Body
  BY <1>7 DEF Body, UnsubscribeCheck, UnsubscribeClose, UnsubscribeWait, UnsubscribeWrite,
              recvVars, procVars
<1>8. CASE \E u \in Caller : Unsubscribe(u) \/ UnsubscribeReturn(u)
  BY <1>8 DEF Unsubscribe, UnsubscribeReturn, recvVars, procVars
<1>9. CASE RestoreFailed \/ ClientClosed
  BY <1>9 DEF RestoreFailed, ClientClosed, recvVars, procVars
<1>10. CASE UNCHANGED vars BY <1>10 DEF vars, recvVars, procVars
<1> QED BY <1>1, <1>2, <1>3, <1>4, <1>5, <1>6, <1>7, <1>8, <1>9, <1>10 DEF Next, Processing

\* No step loses a message or counts one twice.
LEMMA CountedStep == ASSUME IInv, [Next]_vars PROVE Counted'
<1> USE SubscriptionConstants DEF IInv, Typed, Counted, InHand, InEnqueue
<1>1. CASE Receive BY <1>1 DEF Receive, procVars
<1>2. CASE TryEnqueueCheck BY <1>2 DEF TryEnqueueCheck, procVars
<1>3. CASE TryEnqueueSend
  <2>1. arrived \in 1..MaxMsg BY <1>3 DEF TryEnqueueSend
  <2>2. \/ Len(msgChan') = Len(msgChan) + 1 /\ dropped' = dropped /\ refused' = refused
        \/ msgChan' = msgChan /\ dropped' = dropped + 1 /\ refused' = refused
        \/ msgChan' = msgChan /\ dropped' = dropped /\ refused' = refused + 1
    BY <1>3, <2>1, Sent DEF TryEnqueueSend
  <2>3. InEnqueue = 1 /\ InEnqueue' = 0 /\ InHand' = InHand
    BY <1>3 DEF TryEnqueueSend, procVars
  <2> HIDE DEF InEnqueue, InHand
  <2>4. InHand \in Nat BY DEF InHand
  <2>5. /\ Len(msgChan) \in Nat /\ Len(processed) \in Nat /\ dropped \in Nat
        /\ refused \in Nat
    BY SeqLen
  <2>6. processed' = processed /\ arrived' = arrived
    BY <1>3 DEF TryEnqueueSend, procVars
  <2>7. arrived = Len(processed) + InHand + Len(msgChan) + dropped + refused + 1
    BY <2>3
  <2> HIDE DEF IInv, Typed, Counted
  <2>8. CASE Len(msgChan') = Len(msgChan) + 1 /\ dropped' = dropped /\ refused' = refused
    BY <2>3, <2>4, <2>5, <2>6, <2>7, <2>8 DEF Counted
  <2>9. CASE msgChan' = msgChan /\ dropped' = dropped + 1 /\ refused' = refused
    BY <2>3, <2>4, <2>5, <2>6, <2>7, <2>9 DEF Counted
  <2>10. CASE msgChan' = msgChan /\ dropped' = dropped /\ refused' = refused + 1
    BY <2>3, <2>4, <2>5, <2>6, <2>7, <2>10 DEF Counted
  <2> QED BY <2>2, <2>8, <2>9, <2>10
<1>4. CASE ProcessTake
  <2>1. Len(msgChan') = Len(msgChan) - 1 /\ inCallback' # 0
    BY <1>4, Taken DEF ProcessTake
  <2>2. inCallback = 0 BY <1>4 DEF ProcessTake, Ending
  <2> QED BY <1>4, <2>1, <2>2 DEF ProcessTake, recvVars
<1>5. CASE ProcessDone BY <1>5 DEF ProcessDone, recvVars, Ending
<1>6. CASE ProcessExit BY <1>6 DEF ProcessExit, recvVars
<1>7. CASE Body
  BY <1>7, Zenon DEF Body, UnsubscribeCheck, UnsubscribeClose, UnsubscribeWait, UnsubscribeWrite,
              recvVars, procVars
<1>8. CASE \E u \in Caller : Unsubscribe(u) \/ UnsubscribeReturn(u)
  BY <1>8, Zenon DEF Unsubscribe, UnsubscribeReturn, recvVars, procVars
<1>9. CASE RestoreFailed \/ ClientClosed
  BY <1>9, Zenon DEF RestoreFailed, ClientClosed, recvVars, procVars
<1>10. CASE UNCHANGED vars BY <1>10 DEF vars, recvVars, procVars
<1> QED BY <1>1, <1>2, <1>3, <1>4, <1>5, <1>6, <1>7, <1>8, <1>9, <1>10 DEF Next, Processing

\* The messages stay in the order of their arrival: TryEnqueue appends the
\* latest one and the processor takes the first one.
LEMMA OrderedStep == ASSUME IInv, [Next]_vars PROVE Ordered'
<1> USE SubscriptionConstants DEF IInv, Typed
<1>0. /\ arrived \in Nat /\ Len(msgChan) \in Nat /\ Len(processed) \in Nat
      /\ \A i \in 1..Len(msgChan) : msgChan[i] \in Nat
      /\ \A i \in 1..Len(processed) : processed[i] \in Nat
      /\ inCallback \in Nat
  BY SeqLen
<1>1. ASSUME UNCHANGED <<msgChan, inCallback, processed>>, Latest' \in Nat, Latest' >= Latest
      PROVE  Ordered'
  BY <1>0, <1>1, SMTT(30) DEF Ordered, Ascending, Below, Latest
<1>2. CASE Receive \/ TryEnqueueCheck
  <2>1. UNCHANGED <<msgChan, inCallback, processed>> /\ Latest' \in Nat /\ Latest' >= Latest
    BY <1>0, <1>2 DEF Receive, TryEnqueueCheck, procVars, Latest
  <2> QED BY <1>1, <2>1
<1>3. CASE TryEnqueueSend
  <2>1. arrived \in 1..MaxMsg /\ Latest = arrived /\ Latest' = arrived + 1
    BY <1>3 DEF TryEnqueueSend, Latest
  <2>2. UNCHANGED <<inCallback, processed>> BY <1>3 DEF TryEnqueueSend, procVars
  <2>3. CASE msgChan' = msgChan BY <1>0, <1>1, <2>1, <2>2, <2>3
  <2>4. CASE msgChan' = Append(msgChan, arrived)
    <3>1. /\ Len(msgChan') = Len(msgChan) + 1
          /\ \A i \in 1..Len(msgChan) : msgChan'[i] = msgChan[i]
          /\ msgChan'[Len(msgChan) + 1] = arrived
      BY <2>1, <2>4, Sent
    <3> HIDE DEF IInv, Typed
    <3>2. Ordered BY DEF IInv
    <3>3. Ascending(msgChan') /\ Below(msgChan', Latest')
      BY <2>1, <2>4, <3>2, SentAscends DEF Ordered, IInv, Typed
    <3>4. \A j \in 1..Len(msgChan') : inCallback < msgChan'[j] /\ Below(processed, msgChan'[j])
      BY <1>0, <2>1, <3>1, <3>2 DEF Ordered, Below
    <3>5. Below(processed, Latest') /\ inCallback < Latest'
      BY <1>0, <2>1, <3>2 DEF Ordered, Below
    <3> QED BY <2>2, <3>2, <3>3, <3>4, <3>5 DEF Ordered
  <2> QED BY <1>3, <2>3, <2>4 DEF TryEnqueueSend
<1>4. CASE ProcessTake
  <2>1. /\ Len(msgChan) >= 1 /\ inCallback' = msgChan[1] /\ Len(msgChan') = Len(msgChan) - 1
        /\ \A i \in 1..Len(msgChan') : msgChan'[i] = msgChan[i + 1]
    BY <1>4, Taken DEF ProcessTake
  <2>2. UNCHANGED <<arrived, recv, processed>> /\ Latest' = Latest
    BY <1>4 DEF ProcessTake, recvVars, Latest
  <2>3. Ordered OBVIOUS
  <2> HIDE DEF IInv, Typed
  <2>4. Ascending(msgChan') /\ Below(msgChan', Latest)
    <3>1. ASSUME NEW i \in 1..Len(msgChan'), NEW j \in 1..Len(msgChan'), i < j
          PROVE  msgChan'[i] < msgChan'[j]
      <4>1. i + 1 \in 1..Len(msgChan) /\ j + 1 \in 1..Len(msgChan) /\ i + 1 < j + 1
        BY <1>0, <2>1, <3>1
      <4> QED BY <2>1, <2>3, <4>1 DEF Ordered, Ascending
    <3>2. ASSUME NEW i \in 1..Len(msgChan') PROVE msgChan'[i] < Latest
      <4>1. i + 1 \in 1..Len(msgChan) BY <1>0, <2>1
      <4> QED BY <2>1, <2>3, <4>1 DEF Ordered, Below
    <3> QED BY <3>1, <3>2 DEF Ascending, Below
  <2>5. \A j \in 1..Len(msgChan') : inCallback' < msgChan'[j] /\ Below(processed, msgChan'[j])
    BY <1>0, <2>1, <2>3 DEF Ordered, Ascending
  <2>6. Below(processed, inCallback') /\ inCallback' < Latest
    BY <1>0, <2>1, <2>3 DEF Ordered, Below
  <2> QED BY <2>2, <2>3, <2>4, <2>5, <2>6 DEF Ordered
<1>5. CASE ProcessDone
  <2>1. inCallback \in 1..MaxMsg BY <1>5 DEF ProcessDone, Ending
  <2>2. /\ Len(processed') = Len(processed) + 1 /\ processed'[Len(processed) + 1] = inCallback
        /\ \A i \in 1..Len(processed) : processed'[i] = processed[i]
    BY <1>5, <2>1, Sent DEF ProcessDone
  <2>3. UNCHANGED <<arrived, recv, msgChan>> /\ Latest' = Latest /\ inCallback' = 0
    BY <1>5 DEF ProcessDone, recvVars, Latest
  <2>4. Ordered /\ Latest \in Nat /\ Latest > 0 BY <1>0 DEF Latest
  <2> HIDE DEF IInv, Typed
  <2>5. Ascending(processed') /\ Below(processed', Latest)
    BY <1>5, <2>1, <2>4, SentAscends DEF ProcessDone, Ordered, IInv, Typed
  <2>6. \A j \in 1..Len(msgChan) : 0 < msgChan[j] /\ Below(processed', msgChan[j])
    BY <1>0, <2>1, <2>2, <2>4 DEF Ordered, Below
  <2> QED BY <2>3, <2>4, <2>5, <2>6 DEF Ordered
<1>6. CASE ProcessExit \/ Body \/ RestoreFailed \/ ClientClosed \/ UNCHANGED vars
           \/ \E u \in Caller : Unsubscribe(u) \/ UnsubscribeReturn(u)
  <2>1. UNCHANGED <<msgChan, inCallback, processed>> /\ Latest' = Latest /\ Latest \in Nat
    BY <1>0, <1>6
    DEF ProcessExit, Body, UnsubscribeCheck, UnsubscribeClose, UnsubscribeWait,
        UnsubscribeWrite, RestoreFailed, ClientClosed, Unsubscribe, UnsubscribeReturn,
        vars, recvVars, procVars, Latest
  <2> QED BY <1>1, <2>1
<1> QED BY <1>2, <1>3, <1>4, <1>5, <1>6 DEF Next, Processing

-----------------------------------------------------------------------------
\* The invariant holds in every reachable state of the subscription.
LEMMA Invariance == Spec => []IInv
<1>1. Init => IInv BY InvInit
<1>2. IInv /\ [Next]_vars => IInv'
  BY TypedStep, EndingStep, CountedStep, OrderedStep DEF IInv
<1> QED BY <1>1, <1>2, PTL DEF Spec

\* A subscription's fields keep their types, and neither the channel nor a
\* counter of GetStats exceeds its bound.
THEOREM TypeCorrect == Spec => []TypeOK
<1>1. IInv => TypeOK
  <2> SUFFICES ASSUME IInv PROVE TypeOK OBVIOUS
  <2>1. Len(processed) \in Nat /\ Len(msgChan) \in Nat BY SeqLen DEF IInv, Typed
  <2>2. dropped \in 0..MaxMsg /\ refused \in 0..MaxMsg
    <3>1. InHand \in Nat /\ InEnqueue \in Nat BY DEF InHand, InEnqueue
    <3>2. /\ arrived \in 0..MaxMsg /\ dropped \in Nat /\ refused \in Nat
          /\ arrived = Len(processed) + InHand + Len(msgChan) + dropped + refused + InEnqueue
      BY DEF IInv, Typed, Counted
    <3> QED BY <2>1, <3>1, <3>2, SubscriptionConstants
  <2> QED BY <2>2, SubscriptionConstants DEF IInv, Typed, TypeOK
<1> QED BY <1>1, Invariance, PTL

\* Every message that arrived is processed, in the callback, queued, dropped,
\* refused or in TryEnqueue, whatever the order of the goroutines.
THEOREM Accounted == Spec => []MessagesAccounted
<1>1. IInv => MessagesAccounted
  <2> SUFFICES ASSUME IInv PROVE MessagesAccounted OBVIOUS
  <2> QED BY DEF IInv, Counted, InHand, InEnqueue, MessagesAccounted
<1> QED BY <1>1, Invariance, PTL

\* An ascending sequence continued by a later one ascends.
LEMMA ConcatAscends ==
  ASSUME NEW q \in Seq(Nat), NEW r \in Seq(Nat), Ascending(q), Ascending(r),
         \A j \in 1..Len(r) : Below(q, r[j])
  PROVE  q \o r \in Seq(Nat) /\ Ascending(q \o r)
<1> DEFINE z == q \o r
<1>1. /\ Len(q) \in Nat /\ Len(r) \in Nat /\ Len(z) = Len(q) + Len(r) /\ z \in Seq(Nat)
      /\ \A i \in 1..Len(z) : z[i] = IF i <= Len(q) THEN q[i] ELSE r[i - Len(q)]
  BY SeqConcat, SeqLen
<1> HIDE DEF z
<1>2. ASSUME NEW i \in 1..Len(z), NEW j \in 1..Len(z), i < j PROVE z[i] < z[j]
  <2>1. CASE j <= Len(q)
    <3>1. i \in 1..Len(q) /\ j \in 1..Len(q) BY <1>1, <1>2, <2>1
    <3>2. z[i] = q[i] /\ z[j] = q[j] BY <1>1, <3>1
    <3> QED BY <1>2, <3>1, <3>2 DEF Ascending
  <2>2. CASE i <= Len(q) /\ j > Len(q)
    <3>0. /\ i \in Nat /\ i > 0 /\ j \in Nat /\ j <= Len(q) + Len(r)
          /\ Len(q) \in Nat /\ Len(r) \in Nat
      BY <1>1
    <3>1. i \in 1..Len(q) /\ j - Len(q) \in 1..Len(r) BY <2>2, <3>0
    <3>2. z[i] = q[i] /\ z[j] = r[j - Len(q)] BY <1>1, <2>2
    <3> QED BY <3>1, <3>2, Zenon DEF Below
  <2>3. CASE i > Len(q)
    <3>1. /\ i \in Nat /\ j \in Nat /\ i < j /\ j <= Len(q) + Len(r) /\ i > Len(q)
          /\ Len(q) \in Nat /\ Len(r) \in Nat
      BY <1>1, <1>2, <2>3
    <3>2. /\ i - Len(q) \in 1..Len(r) /\ j - Len(q) \in 1..Len(r)
          /\ i - Len(q) < j - Len(q) /\ ~(i <= Len(q)) /\ ~(j <= Len(q))
      BY <3>1
    <3>3. z[i] = r[i - Len(q)] /\ z[j] = r[j - Len(q)] BY <1>1, <3>2, Zenon
    <3> QED BY <3>2, <3>3, Zenon DEF Ascending
  <2> QED BY <1>1, <2>1, <2>2, <2>3
<1> QED BY <1>1, <1>2 DEF Ascending, z

\* The callback gets the messages in the order of arrival, none twice.
THEOREM InOrder == Spec => []CallbackInOrder
<1>1. IInv => CallbackInOrder
  <2> SUFFICES ASSUME IInv PROVE CallbackInOrder OBVIOUS
  <2> DEFINE held == IF inCallback = 0 THEN <<>> ELSE <<inCallback>>
  <2>1. processed \in Seq(Nat) /\ msgChan \in Seq(Nat) /\ inCallback \in Nat /\ Ordered
    BY SubscriptionConstants DEF IInv, Typed
  <2>2. /\ held \in Seq(Nat) /\ Ascending(held)
        /\ \A j \in 1..Len(held) : Below(processed, held[j]) /\ held[j] = inCallback
    BY <2>1 DEF Ordered, Ascending
  <2> HIDE DEF held
  <2> DEFINE first == processed \o held
  <2>3. first \in Seq(Nat) /\ Ascending(first)
    BY <2>1, <2>2, ConcatAscends DEF Ordered
  <2>4. ASSUME NEW j \in 1..Len(msgChan) PROVE Below(first, msgChan[j])
    <3>1. /\ Len(processed) \in Nat /\ Len(held) \in Nat
          /\ Len(first) = Len(processed) + Len(held)
          /\ \A i \in 1..Len(first) :
               first[i] = IF i <= Len(processed) THEN processed[i] ELSE held[i - Len(processed)]
      BY <2>1, <2>2, SeqConcat, SeqLen
    <3> HIDE DEF first
    <3>2. ASSUME NEW i \in 1..Len(first) PROVE first[i] < msgChan[j]
      <4>1. CASE i <= Len(processed)
        <5>1. i \in 1..Len(processed) BY <3>1, <4>1
        <5>2. first[i] = processed[i] BY <3>1, <4>1
        <5> QED BY <2>1, <5>1, <5>2 DEF Ordered, Below
      <4>2. CASE i > Len(processed)
        <5>1. i - Len(processed) \in 1..Len(held) BY <3>1, <4>2
        <5>2. ~(i <= Len(processed)) BY <3>1, <4>2
        <5>3. first[i] = held[i - Len(processed)] BY <3>1, <5>2, Zenon
        <5>4. held[i - Len(processed)] = inCallback BY <2>2, <5>1, Zenon
        <5> QED BY <2>1, <5>3, <5>4 DEF Ordered
      <4> QED BY <3>1, <4>1, <4>2
    <3> QED BY <3>2 DEF Below
  <2>5. Ascending(first \o msgChan)
    BY <2>1, <2>3, <2>4, ConcatAscends, Zenon DEF Ordered
  <2> QED BY <2>5 DEF Ascending, CallbackInOrder, held
<1> QED BY <1>1, Invariance, PTL

\* When Unsubscribe has returned to any caller and closed the channel, no
\* callback runs and nothing is left to process.
THEOREM Quiescent == Spec => []UnsubscribeQuiesces
<1>1. IInv => UnsubscribeQuiesces BY DEF IInv, Typed, Ending, UnsubscribeQuiesces
<1> QED BY <1>1, Invariance, PTL
=============================================================================
