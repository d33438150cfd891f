--------------------------- MODULE PipelineProofs ---------------------------
(***************************************************************************)
(* Proofs about Pipeline, for any packets, any strays and any capacities:  *)
(* the invariant of the subscription inside it is that of                  *)
(* SubscriptionProofs.                                                     *)
(***************************************************************************)
EXTENDS Pipeline, SubscriptionProofs

Msg == [packet : Nat, len : Nat]

Handling == IF handler = "handle" THEN 1 ELSE 0

\* The message that the goroutine of channel mode has taken, and not yet handled,
\* is the last one taken.
PipelineTyped ==
  /\ message \in Seq(Msg) /\ Len(message) = arrived
  /\ frames \in Seq(Msg) /\ errors \in Nat /\ discarded \in Nat
  /\ outChan \in Seq(1..MaxMsg) /\ taken \in Seq(1..MaxMsg)
  /\ udp \in Seq(Nat) /\ wire \in Seq(Msg)
  /\ mode \in {"channel", "callback"}
  /\ mode = "callback" => outChan = <<>> /\ taken = <<>> /\ handler # "select"
  /\ handler = "handle" => taken # <<>>

\* The goroutine of channel mode starts after the subscription.  Stop is past
\* Unsubscribe only when the body of closeOnce is done, and closes NATS last.
StopOrder ==
  /\ subscribing = "await" => handler = "none"
  /\ stop \in {"close", "nats", "stopped"} => once = "done"
  /\ nats \/ stop = "stopped"

\* A message whose callback has returned was published, failed, was
\* discarded, or is in the second channel or in hand.
Forwarded == Len(processed) = discarded + Len(frames) + errors + Len(outChan) + Handling

\* The messages taken and those in the second channel ascend, and all of
\* them have been processed.
AreProcessed(q) == \A i \in 1..Len(q) : \E k \in 1..Len(processed) : q[i] = processed[k]

SecondOrdered ==
  /\ Ascending(taken) /\ Ascending(outChan)
  /\ \A j \in 1..Len(outChan) : Below(taken, outChan[j])
  /\ AreProcessed(taken) /\ AreProcessed(outChan)

\* How many packets have been published or given up: the last one is still
\* in publishToKCPQ.
Sendable == IF receiver \in {"publish", "write"} THEN Len(udp) - 1 ELSE Len(udp)

\* A message that carries a packet of u carries it whole, with the timestamp.
IsStamped(m, u) ==
  m.packet # 0 => m.packet \in 1..Len(u) /\ m.len = PrefixLen + u[m.packet]

\* Of a sequence of messages: all are so, carry packets up to n, come before
\* packet n, carry a packet, and a packet is later than the ones before it.
AllStamped(q, u) == \A i \in 1..Len(q) : IsStamped(q[i], u)
UpTo(q, n) == \A i \in 1..Len(q) : q[i].packet <= n
Under(q, n) == \A i \in 1..Len(q) : q[i].packet < n
AllRelayed(q) == \A i \in 1..Len(q) : q[i].packet # 0
Later(q) == \A i, j \in 1..Len(q) : i < j /\ q[j].packet # 0 => q[i].packet < q[j].packet

Carried ==
  /\ receiver \in {"publish", "write"} => Len(udp) > 0
  /\ AllStamped(message, udp) /\ UpTo(message, Sendable) /\ Later(message)
  /\ AllStamped(wire, udp) /\ UpTo(wire, Sendable) /\ Later(wire) /\ AllRelayed(wire)
  /\ \A i \in 1..Len(wire) : Under(message, wire[i].packet)

\* The messages that handleMessage is done with.
Handled(n) ==
  IF mode = "callback" THEN \E k \in 1..Len(processed) : processed[k] = n
  ELSE \E k \in 1..(Len(taken) - Handling) : taken[k] = n

\* A frame is a message that has been handled, without its timestamp.
Published ==
  /\ \A i \in 1..Len(frames) : \E n \in 1..Len(message) :
       Handled(n) /\ frames[i] = Frame(message[n]) /\ message[n].len >= TimestampLen
  /\ Later(frames)

PInv ==
  /\ IInv /\ PipelineTyped /\ StopOrder /\ Forwarded /\ SecondOrdered /\ Carried
  /\ Published

\* What the relay, the forwarder and the goroutines do to the subscription
\* between them is a step of the subscription.
LEMMA IsSubscriptionStep == ASSUME [PipelineNext]_pipelineVars PROVE [Next]_vars
<1> USE DEF Next, Processing, Body
<1>1. CASE ReceiveLoop BY <1>1 DEF ReceiveLoop
<1>2. CASE Processor
  BY <1>2 DEF Processor, ForwarderCallback, ChanCallback
<1>3. CASE Handler
  BY <1>3 DEF Handler, HandlerStop, HandlerTake, HandlerHandle, subscriptionVars, vars
<1>4. CASE Stopping
  BY <1>4 DEF Stopping, StopUnsubscribe, StopUnsubscribed, StopClose, StopNats
<1>5. CASE Receiver BY <1>5 DEF Receiver, forwarderStill
<1>6. CASE Environment
  <2>1. CASE ReceiveRelayed \/ (\E n \in StrayLens : ReceiveStray(n)) \/ Lost
    BY <2>1, Zenon DEF ReceiveRelayed, ReceiveStray, Lost
  <2>2. CASE Subscribed
    BY <2>2 DEF Subscribed, SubscribeAcked, subscriptionVars, vars
  <2>3. CASE RestoreFailed \/ StopCancel BY <2>3 DEF StopCancel
  <2>4. CASE forwarderStill BY <2>4 DEF forwarderStill
  <2> QED BY <1>6, <2>1, <2>2, <2>3, <2>4 DEF Environment
<1>7. CASE UNCHANGED pipelineVars BY <1>7 DEF pipelineVars
<1> QED BY <1>1, <1>2, <1>3, <1>4, <1>5, <1>6, <1>7 DEF PipelineNext

\* The steps of the pipeline that move no message and no packet.
StillVars == <<arrived, processed, mode, message, frames, errors, outChan, taken, discarded,
               udp, wire, receiver>>

Still ==
  /\ UNCHANGED StillVars
  /\ handler' = handler
       \/ (handler # "handle" /\ handler' \notin {"select", "handle"})
       \/ (handler # "handle" /\ handler' = "select" /\ mode = "channel")

\* The steps of the relay.
RelayStep ==
  /\ UNCHANGED <<arrived, processed, mode, message, frames, errors, outChan, taken,
                 discarded, handler>>
  /\ \/ ReceiverCheck \/ ReceiverTimeout \/ PublishCheck \/ PublishWrite
     \/ (\E n \in PacketSizes : ReceiverPacket(n)) \/ ReceiverError
     \/ Lost

\* The arrival of a message.
Arrival ==
  /\ Receive
  /\ UNCHANGED <<mode, frames, errors, outChan, taken, discarded, handler, udp, receiver>>
  /\ ReceiveRelayed \/ \E n \in StrayLens : ReceiveStray(n)

\* Each step of the pipeline moves no message, or is one of the relay, an
\* arrival, the callback, or one of the goroutine of channel mode.
LEMMA StepKinds ==
  ASSUME [PipelineNext]_pipelineVars, PipelineTyped, StopOrder
  PROVE  \/ Still \/ RelayStep \/ Arrival
         \/ ForwarderCallback /\ relayStill
         \/ HandlerTake /\ relayStill
         \/ HandlerHandle /\ relayStill
<1> USE DEF recvVars, procVars, relayVars, forwarderVars, chanVars, outVars, StillVars
<1>1. CASE ReceiveLoop
  BY <1>1 DEF ReceiveLoop, TryEnqueueCheck, TryEnqueueSend, libraryStill, Still
<1>2. CASE Processor
  BY <1>2 DEF Processor, ProcessTake, ProcessExit, libraryStill, Still
<1>3. CASE Handler
  BY <1>3 DEF Handler, HandlerStop, relayStill, vars, Still
<1>4. CASE Stopping
  BY <1>4, Zenon DEF Stopping, StopUnsubscribe, StopUnsubscribed, StopClose, StopNats, Unsubscribe,
     UnsubscribeReturn, ClientClosed, UnsubscribeCheck, UnsubscribeClose, UnsubscribeWait,
     UnsubscribeWrite, libraryStill, relayStill, vars, Still
<1>5. CASE Receiver
  BY <1>5 DEF Receiver, forwarderStill, vars, RelayStep
<1>6. CASE Environment
  <2>1. CASE ReceiveRelayed \/ \E n \in StrayLens : ReceiveStray(n)
    BY <2>1, Zenon DEF ReceiveRelayed, ReceiveStray, Receive, Arrival
  <2>2. CASE Subscribed /\ relayStill
    BY <2>2 DEF Subscribed, SubscribeAcked, subscriptionVars, relayStill, PipelineTyped,
               StopOrder, Still
  <2>3. CASE RestoreFailed /\ libraryStill
    BY <2>3 DEF RestoreFailed, libraryStill, Still
  <2>4. CASE StopCancel /\ relayStill
    BY <2>4 DEF StopCancel, relayStill, vars, Still
  <2>5. CASE Lost BY <2>5 DEF Lost, vars, RelayStep
  <2>6. CASE forwarderStill /\ ((\E n \in PacketSizes : ReceiverPacket(n)) \/ ReceiverError)
    BY <2>6 DEF forwarderStill, vars, RelayStep
  <2>7. CASE forwarderStill /\ (RelayCancel \/ RelayClose)
    BY <2>7 DEF forwarderStill, RelayCancel, RelayClose, vars, Still
  <2> QED BY <1>6, <2>1, <2>2, <2>3, <2>4, <2>5, <2>6, <2>7 DEF Environment
<1>7. CASE UNCHANGED pipelineVars BY <1>7 DEF pipelineVars, vars, Still
<1> QED BY <1>1, <1>2, <1>3, <1>4, <1>5, <1>6, <1>7 DEF PipelineNext

\* Stop goes through its stages in order: Unsubscribe returns only from a
\* body of closeOnce that is done, which stays done.
LEMMA StopOrderStep ==
  ASSUME PInv, [PipelineNext]_pipelineVars PROVE StopOrder'
<1> USE DEF recvVars, procVars, relayVars, forwarderVars, chanVars, outVars, StopOrder
<1>0. StopOrder BY DEF PInv
<1>1. CASE ReceiveLoop
  BY <1>0, <1>1 DEF ReceiveLoop, TryEnqueueCheck, TryEnqueueSend, libraryStill
<1>2. CASE Processor
  BY <1>0, <1>2 DEF Processor, ProcessTake, ProcessExit, ForwarderCallback, ChanCallback,
     ProcessDone, libraryStill, relayStill
<1>3. CASE Handler
  BY <1>0, <1>3 DEF Handler, HandlerStop, HandlerTake, HandlerHandle, TakeFromChan,
     subscriptionVars, relayStill, vars
<1>4. CASE Stopping
  BY <1>0, <1>4 DEF Stopping, StopUnsubscribe, StopUnsubscribed, StopClose, StopNats,
     Unsubscribe, UnsubscribeReturn, ClientClosed, UnsubscribeCheck, UnsubscribeClose,
     UnsubscribeWait, UnsubscribeWrite, libraryStill, relayStill, vars
<1>5. CASE Receiver BY <1>0, <1>5 DEF Receiver, forwarderStill, vars
<1>6. CASE Environment
  <2>1. CASE ReceiveRelayed \/ \E n \in StrayLens : ReceiveStray(n)
    BY <1>0, <2>1, Zenon DEF ReceiveRelayed, ReceiveStray, Receive
  <2>2. CASE Subscribed /\ relayStill
    BY <1>0, <2>2 DEF Subscribed, SubscribeAcked, subscriptionVars
  <2>3. CASE RestoreFailed /\ libraryStill BY <1>0, <2>3 DEF RestoreFailed, libraryStill
  <2>4. CASE StopCancel BY <1>0, <2>4 DEF StopCancel, vars
  <2>5. CASE Lost \/ forwarderStill BY <1>0, <2>5 DEF Lost, forwarderStill, vars
  <2> QED BY <1>6, <2>1, <2>2, <2>3, <2>4, <2>5 DEF Environment
<1>7. CASE UNCHANGED pipelineVars BY <1>0, <1>7 DEF pipelineVars, vars
<1> QED BY <1>1, <1>2, <1>3, <1>4, <1>5, <1>6, <1>7 DEF PipelineNext

\* What handleMessage does: one frame more, or one error more.
LEMMA HandleEffect ==
  ASSUME NEW m \in Msg, HandleMessage(m), frames \in Seq(Msg), errors \in Nat
  PROVE  /\ frames' \in Seq(Msg) /\ errors' \in Nat
         /\ \/ frames' = frames /\ errors' = errors + 1
            \/ /\ frames' = Append(frames, Frame(m)) /\ Len(frames') = Len(frames) + 1
               /\ errors' = errors /\ m.len >= TimestampLen /\ Frame(m) \in Msg
<1>1. CASE frames' = frames /\ errors' = errors + 1 BY <1>1
<1>2. CASE frames' = Append(frames, Frame(m)) /\ errors' = errors /\ m.len >= TimestampLen
  <2>1. Frame(m) \in Msg
    <3>1. m.len - TimestampLen \in Nat BY <1>2, ForwarderConstants DEF Msg
    <3> QED BY <3>1 DEF Frame, Msg
  <2> QED BY <1>2, <2>1
<1> QED BY <1>1, <1>2 DEF HandleMessage

\* A message that is in the callback or has been taken out of the second
\* channel is one that has arrived.
LEMMA HeldHasArrived ==
  ASSUME PInv
  PROVE  /\ proc = "callback" => inCallback \in 1..Len(message) /\ message[inCallback] \in Msg
         /\ handler = "handle" =>
              /\ Len(taken) \in 1..Len(taken)
              /\ taken[Len(taken)] \in 1..Len(message)
              /\ message[taken[Len(taken)]] \in Msg
<1> USE SubscriptionConstants DEF PInv, IInv
<1>0. message \in Seq(Msg) /\ Len(message) = arrived /\ arrived \in Nat
  BY DEF PipelineTyped, Typed
<1>1. Latest \in Nat /\ Latest <= arrived + 1 BY <1>0 DEF Latest
<1>2. ASSUME proc = "callback" PROVE inCallback \in 1..Len(message)
  BY <1>0, <1>1, <1>2 DEF Typed, Ending, Ordered
<1>3. ASSUME handler = "handle"
      PROVE  Len(taken) \in 1..Len(taken) /\ taken[Len(taken)] \in 1..Len(message)
  <2>1. taken \in Seq(1..MaxMsg) /\ taken # <<>> BY <1>3 DEF PipelineTyped
  <2>2. Len(taken) \in Nat /\ Len(taken) # 0 BY <2>1, SeqEmpty, SeqLen
  <2>3. Len(taken) \in 1..Len(taken) BY <2>2
  <2>4. PICK k \in 1..Len(processed) : taken[Len(taken)] = processed[k]
    BY <2>3 DEF SecondOrdered, AreProcessed
  <2>5. processed[k] < Latest BY DEF Ordered, Below
  <2>6. taken[Len(taken)] \in 1..MaxMsg BY <2>1, <2>3, SeqLen
  <2> QED BY <1>0, <1>1, <2>3, <2>4, <2>5, <2>6
<1>4. \A n \in 1..Len(message) : message[n] \in Msg BY <1>0, SeqLen
<1> QED BY <1>2, <1>3, <1>4

\* The fields of the relay and of the forwarder keep their types.
LEMMA PipelineTypedStep ==
  ASSUME PInv, [PipelineNext]_pipelineVars PROVE PipelineTyped'
<1>0. PipelineTyped /\ arrived \in Nat /\ IInv' /\ IInv
  BY IsSubscriptionStep, TypedStep, EndingStep, CountedStep, OrderedStep
  DEF PInv, IInv, Typed
<1>1. CASE Still BY <1>0, <1>1 DEF Still, StillVars, PipelineTyped
<1>2. CASE RelayStep
  <2>1. udp' \in Seq(Nat)
    <3>1. CASE \E n \in PacketSizes : ReceiverPacket(n)
      BY <1>0, <3>1, RelayConstants, SeqAppend DEF ReceiverPacket, PipelineTyped
    <3>2. CASE udp' = udp BY <1>0, <3>2 DEF PipelineTyped
    <3> QED
      BY <1>2, <3>1, <3>2
      DEF RelayStep, Lost, ReceiverCheck, ReceiverTimeout, PublishCheck, PublishWrite,
          ReceiverError
  <2>2. ASSUME PublishWrite PROVE Stamped(Len(udp)) \in Msg
    <3>1. udp[Len(udp)] \in Nat
      <4>1. Len(udp) \in 1..Len(udp)
        BY <1>0, <2>2, SeqLen DEF PInv, Carried, PublishWrite, PipelineTyped
      <4> QED BY <1>0, <4>1, SeqLen DEF PipelineTyped
    <3> QED BY <1>0, <3>1, SeqLen, RelayConstants DEF Stamped, Msg, PipelineTyped
  <2>3. wire' \in Seq(Msg)
    <3>1. CASE wire' = wire BY <1>0, <3>1 DEF PipelineTyped
    <3>2. CASE wire # <<>> /\ wire' = Tail(wire)
      BY <1>0, <3>2, SeqTail DEF PipelineTyped
    <3>3. CASE PublishWrite /\ wire' = Append(wire, Stamped(Len(udp)))
      BY <1>0, <2>2, <3>3, SeqAppend DEF PipelineTyped
    <3> QED
      BY <1>2, <3>1, <3>2, <3>3
      DEF RelayStep, Lost, ReceiverCheck, ReceiverTimeout, PublishCheck, PublishWrite,
          ReceiverPacket, ReceiverError
  <2> QED BY <1>0, <1>2, <2>1, <2>3 DEF RelayStep, PipelineTyped
<1>3. CASE Arrival
  <2>1. ASSUME NEW m \in Msg, message' = Append(message, m)
        PROVE  message' \in Seq(Msg) /\ Len(message') = arrived'
    <3>1. arrived' = arrived + 1 BY <1>3 DEF Arrival, Receive
    <3> QED BY <1>0, <2>1, <3>1, SeqAppend DEF PipelineTyped
  <2>2. CASE ReceiveRelayed
    <3>1. Head(wire) \in Msg /\ wire' \in Seq(Msg)
      BY <1>0, <2>2, SeqTail DEF ReceiveRelayed, PipelineTyped
    <3>2. message' \in Seq(Msg) /\ Len(message') = arrived'
      BY <2>1, <2>2, <3>1 DEF ReceiveRelayed
    <3> QED BY <1>0, <1>3, <3>1, <3>2 DEF Arrival, PipelineTyped
  <2>3. CASE \E n \in StrayLens : ReceiveStray(n)
    <3>1. PICK n \in StrayLens : ReceiveStray(n) BY <2>3
    <3>2. [packet |-> 0, len |-> n] \in Msg BY PipelineConstants DEF Msg
    <3>3. message' \in Seq(Msg) /\ Len(message') = arrived' /\ wire' = wire
      BY <2>1, <3>1, <3>2 DEF ReceiveStray, relayVars
    <3> QED BY <1>0, <1>3, <3>3 DEF Arrival, PipelineTyped
  <2> QED BY <1>3, <2>2, <2>3 DEF Arrival
<1>4. CASE ForwarderCallback /\ relayStill
  <2>1. proc = "callback" /\ arrived' = arrived
    BY <1>4 DEF ForwarderCallback, ChanCallback, ProcessDone, recvVars
  <2>2. inCallback \in 1..MaxMsg /\ message[inCallback] \in Msg
    BY <1>0, <2>1, HeldHasArrived DEF IInv, Typed, Ending
  <2>3. CASE mode = "channel" /\ ChanCallback /\ UNCHANGED forwarderVars
    <3>1. outChan' \in Seq(1..MaxMsg) /\ discarded' \in Nat /\ taken' = taken
      <4>1. outChan \in Seq(1..MaxMsg) /\ discarded \in Nat BY <1>0 DEF PipelineTyped
      <4>2. Append(outChan, inCallback) \in Seq(1..MaxMsg) BY <2>2, <4>1, Sent
      <4>3. discarded + 1 \in Nat BY <4>1
      <4> QED BY <2>3, <4>1, <4>2, <4>3, Zenon DEF ChanCallback
    <3> QED BY <1>0, <1>4, <2>1, <2>3, <3>1 DEF PipelineTyped, forwarderVars, relayStill, relayVars
  <2>4. CASE mode = "callback" /\ HandleMessage(message[inCallback]) /\ UNCHANGED chanVars
             /\ UNCHANGED <<mode, message, ctx, handler, nats, stop>>
    <3>1. frames' \in Seq(Msg) /\ errors' \in Nat
      BY <1>0, <2>2, <2>4, HandleEffect DEF PipelineTyped
    <3> QED BY <1>0, <1>4, <2>1, <2>4, <3>1
            DEF PipelineTyped, chanVars, outVars, relayStill, relayVars
  <2> QED BY <1>4, <2>3, <2>4 DEF ForwarderCallback
<1>5. CASE HandlerTake /\ relayStill
  <2>1. /\ outChan' \in Seq(1..MaxMsg) /\ taken' \in Seq(1..MaxMsg) /\ taken' # <<>>
        /\ handler = "select"
    <3>1. outChan \in Seq(1..MaxMsg) /\ outChan # <<>> /\ taken \in Seq(1..MaxMsg)
      BY <1>0, <1>5 DEF HandlerTake, TakeFromChan, PipelineTyped
    <3>2. Head(outChan) \in 1..MaxMsg /\ Tail(outChan) \in Seq(1..MaxMsg) BY <3>1, Taken
    <3>3. /\ Append(taken, Head(outChan)) \in Seq(1..MaxMsg)
          /\ Append(taken, Head(outChan)) # <<>>
      BY <3>1, <3>2, SeqAppend
    <3> QED BY <1>5, <3>2, <3>3 DEF HandlerTake, TakeFromChan
  <2> QED BY <1>0, <1>5, <2>1
          DEF HandlerTake, TakeFromChan, relayStill, relayVars, subscriptionVars, recvVars,
              PipelineTyped
<1>6. CASE HandlerHandle /\ relayStill
  <2>1. frames' \in Seq(Msg) /\ errors' \in Nat
    BY <1>0, <1>6, HeldHasArrived, HandleEffect DEF HandlerHandle, PipelineTyped
  <2> QED BY <1>0, <1>6, <2>1
          DEF HandlerHandle, relayStill, relayVars, vars, recvVars, chanVars, outVars,
              PipelineTyped
<1> QED BY <1>0, <1>1, <1>2, <1>3, <1>4, <1>5, <1>6, StepKinds DEF PInv

\* No step loses a message that got through the client's queue, or counts
\* one twice.
LEMMA ForwardedStep ==
  ASSUME PInv, [PipelineNext]_pipelineVars PROVE Forwarded'
<1>0. /\ PipelineTyped /\ Forwarded /\ Len(processed) \in Nat /\ Len(frames) \in Nat
      /\ Len(outChan) \in Nat /\ discarded \in Nat /\ errors \in Nat /\ Handling \in Nat
  BY SeqLen DEF PInv, IInv, Typed, PipelineTyped, Handling
<1>1. CASE Still BY <1>0, <1>1 DEF Still, StillVars, Forwarded, Handling
<1>2. CASE RelayStep \/ Arrival
  BY <1>0, <1>2 DEF RelayStep, Arrival, Receive, procVars, Forwarded, Handling
<1>3. CASE ForwarderCallback /\ relayStill
  <2>1. proc = "callback" /\ Len(processed') = Len(processed) + 1 /\ handler' = handler
    <3>1. /\ proc = "callback" /\ processed' = Append(processed, inCallback)
          /\ handler' = handler
      BY <1>3 DEF ForwarderCallback, ChanCallback, ProcessDone, forwarderVars
    <3>2. processed \in Seq(1..MaxMsg) /\ inCallback \in 0..MaxMsg
          /\ (proc = "callback" <=> inCallback # 0)
      BY DEF PInv, IInv, Typed, Ending
    <3>3. inCallback \in 1..MaxMsg BY <3>1, <3>2
    <3> QED BY <3>1, <3>2, <3>3, SeqAppend
  <2>2. \/ Len(outChan') = Len(outChan) + 1 /\ UNCHANGED <<discarded, frames, errors>>
        \/ discarded' = discarded + 1 /\ UNCHANGED <<outChan, frames, errors>>
        \/ Len(frames') = Len(frames) + 1 /\ UNCHANGED <<outChan, discarded, errors>>
        \/ errors' = errors + 1 /\ UNCHANGED <<outChan, discarded, frames>>
    <3>1. inCallback \in 1..MaxMsg /\ message[inCallback] \in Msg
      BY <2>1, HeldHasArrived DEF PInv, IInv, Typed, Ending
    <3>2. CASE mode = "channel" /\ ChanCallback /\ UNCHANGED forwarderVars
      BY <1>0, <3>1, <3>2, Sent DEF ChanCallback, forwarderVars, PipelineTyped
    <3>3. CASE HandleMessage(message[inCallback]) /\ UNCHANGED chanVars
      BY <1>0, <3>1, <3>3, HandleEffect DEF chanVars, outVars, PipelineTyped
    <3> QED BY <1>3, <3>2, <3>3 DEF ForwarderCallback
  <2>3. Handling' = Handling BY <2>1 DEF Handling
  <2> QED BY <1>0, <2>1, <2>2, <2>3 DEF Forwarded
<1>4. CASE HandlerTake /\ relayStill
  <2>1. Len(outChan') = Len(outChan) - 1
    BY <1>0, <1>4, Taken DEF HandlerTake, TakeFromChan, PipelineTyped
  <2>2. /\ Handling = 0 /\ Handling' = 1
        /\ UNCHANGED <<processed, discarded, frames, errors>>
    BY <1>4 DEF HandlerTake, TakeFromChan, Handling, subscriptionVars, procVars
  <2> QED BY <1>0, <2>1, <2>2 DEF Forwarded
<1>5. CASE HandlerHandle /\ relayStill
  <2>1. \/ Len(frames') = Len(frames) + 1 /\ UNCHANGED errors
        \/ errors' = errors + 1 /\ UNCHANGED frames
    BY <1>0, <1>5, HeldHasArrived, HandleEffect DEF HandlerHandle, PipelineTyped
  <2>2. Handling = 1 /\ Handling' = 0 /\ UNCHANGED <<processed, discarded, outChan>>
    BY <1>5 DEF HandlerHandle, Handling, vars, procVars, chanVars, outVars
  <2> QED BY <1>0, <2>1, <2>2 DEF Forwarded
<1> QED BY <1>1, <1>2, <1>3, <1>4, <1>5, StepKinds DEF PInv

\* The messages of the second channel come before what the callback holds.
LEMMA ProcessedBelow ==
  ASSUME NEW q, NEW m, AreProcessed(q), Below(processed, m)
  PROVE  Below(q, m)
BY DEF AreProcessed, Below

\* The second channel keeps the order of the callbacks: the callback appends
\* and the application takes the first message.
LEMMA SecondOrderedStep ==
  ASSUME PInv, [PipelineNext]_pipelineVars PROVE SecondOrdered'
<1>0. /\ PipelineTyped /\ SecondOrdered /\ Ordered
      /\ processed \in Seq(1..MaxMsg) /\ outChan \in Seq(1..MaxMsg) /\ taken \in Seq(1..MaxMsg)
      /\ Len(processed) \in Nat /\ Len(outChan) \in Nat /\ Len(taken) \in Nat
  BY SeqLen DEF PInv, IInv, Typed, PipelineTyped
<1>1. ASSUME UNCHANGED <<processed, outChan, taken>> PROVE SecondOrdered'
  BY <1>0, <1>1, Zenon DEF SecondOrdered, AreProcessed
<1>2. CASE Still \/ RelayStep \/ Arrival
  BY <1>1, <1>2 DEF Still, StillVars, RelayStep, Arrival, Receive, procVars
<1>3. CASE HandlerHandle /\ relayStill
  BY <1>1, <1>3 DEF HandlerHandle, vars, procVars, chanVars, outVars
<1>4. CASE ForwarderCallback /\ relayStill
  <2>1. proc = "callback" /\ processed' = Append(processed, inCallback) /\ taken' = taken
    BY <1>4 DEF ForwarderCallback, ChanCallback, ProcessDone, chanVars, outVars
  <2>2. inCallback \in 1..MaxMsg /\ inCallback # 0 /\ Below(processed, inCallback)
    BY <1>0, <2>1 DEF PInv, IInv, Typed, Ending, Ordered
  <2>3. /\ Len(processed') = Len(processed) + 1 /\ processed'[Len(processed) + 1] = inCallback
        /\ \A i \in 1..Len(processed) : processed'[i] = processed[i]
    BY <1>0, <2>1, <2>2, Sent
  <2>4. ASSUME NEW i, NEW q, AreProcessed(q), i \in 1..Len(q)
        PROVE  \E k \in 1..Len(processed') : q[i] = processed'[k]
    <3>1. PICK k \in 1..Len(processed) : q[i] = processed[k] BY <2>4 DEF AreProcessed
    <3>2. k \in 1..Len(processed') BY <1>0, <2>3
    <3> QED BY <2>3, <3>1, <3>2
  <2>5. AreProcessed(taken)'
    <3>1. AreProcessed(taken) BY <1>0 DEF SecondOrdered
    <3>2. \A i \in 1..Len(taken) : \E k \in 1..Len(processed') : taken[i] = processed'[k]
      BY <2>4, <3>1
    <3> QED BY <2>1, <3>2 DEF AreProcessed
  <2>6. CASE outChan' = outChan
    <3>1. AreProcessed(outChan) BY <1>0 DEF SecondOrdered
    <3>2. \A i \in 1..Len(outChan) : \E k \in 1..Len(processed') : outChan[i] = processed'[k]
      BY <2>4, <3>1
    <3>3. AreProcessed(outChan)' BY <2>6, <3>2 DEF AreProcessed
    <3> QED BY <1>0, <2>1, <2>5, <2>6, <3>3 DEF SecondOrdered
  <2>7. CASE outChan' = Append(outChan, inCallback)
    <3>1. /\ Len(outChan') = Len(outChan) + 1 /\ outChan'[Len(outChan) + 1] = inCallback
          /\ \A i \in 1..Len(outChan) : outChan'[i] = outChan[i]
      BY <1>0, <2>2, <2>7, Sent
    <3>2. Below(outChan, inCallback) /\ Below(taken, inCallback)
      BY <1>0, <2>2, ProcessedBelow DEF SecondOrdered
    <3>3. Ascending(outChan')
      BY <1>0, <2>2, <2>7, <3>2, SentAscends DEF SecondOrdered
    <3>4. ASSUME NEW j \in 1..Len(outChan')
          PROVE  /\ Below(taken, outChan'[j])
                 /\ \E k \in 1..Len(processed') : outChan'[j] = processed'[k]
      <4>1. CASE j = Len(outChan) + 1
        <5>1. Len(processed) + 1 \in 1..Len(processed') BY <1>0, <2>3
        <5> QED BY <2>3, <3>1, <3>2, <4>1, <5>1
      <4>2. CASE j \in 1..Len(outChan)
        BY <1>0, <2>4, <3>1, <4>2 DEF SecondOrdered
      <4> QED BY <1>0, <3>1, <4>1, <4>2
    <3>5. AreProcessed(outChan)' BY <3>4 DEF AreProcessed
    <3> QED BY <1>0, <2>1, <2>5, <3>3, <3>4, <3>5 DEF SecondOrdered
  <2> QED BY <1>4, <2>6, <2>7 DEF ForwarderCallback, ChanCallback, chanVars, outVars
<1>5. CASE HandlerTake /\ relayStill
  <2>1. /\ outChan # <<>> /\ taken' = Append(taken, Head(outChan)) /\ outChan' = Tail(outChan)
        /\ processed' = processed
    BY <1>5 DEF HandlerTake, TakeFromChan, subscriptionVars, procVars
  <2>2. /\ Head(outChan) = outChan[1] /\ Head(outChan) \in 1..MaxMsg /\ Len(outChan) >= 1
        /\ Len(outChan') = Len(outChan) - 1
        /\ \A i \in 1..Len(outChan') : outChan'[i] = outChan[i + 1]
    BY <1>0, <2>1, Taken
  <2>3. /\ Len(taken') = Len(taken) + 1 /\ taken'[Len(taken) + 1] = outChan[1]
        /\ \A i \in 1..Len(taken) : taken'[i] = taken[i]
    BY <1>0, <2>1, <2>2, Sent
  <2>4. 1 \in 1..Len(outChan) /\ \A i \in 1..Len(outChan') : i + 1 \in 1..Len(outChan)
    BY <1>0, <2>2
  <2>5. Ascending(taken')
    BY <1>0, <2>1, <2>2, <2>4, SentAscends DEF SecondOrdered
  <2>6. Ascending(outChan')
    <3>1. ASSUME NEW i \in 1..Len(outChan'), NEW j \in 1..Len(outChan'), i < j
          PROVE  outChan'[i] < outChan'[j]
      <4>1. i + 1 < j + 1 BY <1>0, <2>2, <3>1
      <4> QED BY <1>0, <2>2, <2>4, <4>1, Zenon DEF SecondOrdered, Ascending
    <3> QED BY <3>1 DEF Ascending
  <2>7. ASSUME NEW j \in 1..Len(outChan'), NEW i \in 1..Len(taken')
        PROVE  taken'[i] < outChan'[j]
    <3>1. j + 1 \in 1..Len(outChan) /\ 1 < j + 1 BY <1>0, <2>2, <2>4
    <3>2. CASE i = Len(taken) + 1
      BY <1>0, <2>2, <2>3, <2>4, <3>1, <3>2 DEF SecondOrdered, Ascending
    <3>3. CASE i \in 1..Len(taken)
      BY <1>0, <2>2, <2>3, <3>1, <3>3 DEF SecondOrdered, Below
    <3> QED BY <1>0, <2>3, <3>2, <3>3
  <2>8. AreProcessed(outChan)'
    <3>1. ASSUME NEW i \in 1..Len(outChan')
          PROVE  \E k \in 1..Len(processed) : outChan'[i] = processed[k]
      <4>1. i + 1 \in 1..Len(outChan) /\ outChan'[i] = outChan[i + 1] BY <2>2, <2>4
      <4> QED BY <1>0, <4>1 DEF SecondOrdered, AreProcessed
    <3> QED BY <2>1, <3>1 DEF AreProcessed
  <2>9. ASSUME NEW i \in 1..Len(taken')
        PROVE  \E k \in 1..Len(processed) : taken'[i] = processed[k]
    <3>1. CASE i = Len(taken) + 1
      BY <1>0, <2>3, <2>4, <3>1 DEF SecondOrdered, AreProcessed
    <3>2. CASE i \in 1..Len(taken)
      BY <1>0, <2>3, <3>2 DEF SecondOrdered, AreProcessed
    <3> QED BY <1>0, <2>3, <3>1, <3>2
  <2>10. AreProcessed(taken)' BY <2>1, <2>9 DEF AreProcessed
  <2> QED BY <2>5, <2>6, <2>7, <2>8, <2>10 DEF SecondOrdered, Below
<1> QED BY <1>0, <1>2, <1>3, <1>4, <1>5, StepKinds DEF PInv

\* The elements of a sequence with one more at the end, and with one less at
\* the front.
LEMMA MsgAppend ==
  ASSUME NEW q \in Seq(Msg), NEW m \in Msg
  PROVE  /\ Append(q, m) \in Seq(Msg)
         /\ \A i \in 1..Len(Append(q, m)) :
              \/ i = Len(q) + 1 /\ Append(q, m)[i] = m
              \/ i \in 1..Len(q) /\ Append(q, m)[i] = q[i]
OBVIOUS

\* The same for a message that leaves the front.
LEMMA MsgTail ==
  ASSUME NEW q \in Seq(Msg), q # <<>>
  PROVE  /\ Head(q) \in Msg /\ Head(q) = q[1] /\ 1 \in 1..Len(q) /\ Tail(q) \in Seq(Msg)
         /\ \A i \in 1..Len(Tail(q)) :
              i + 1 \in 1..Len(q) /\ 1 < i + 1 /\ Tail(q)[i] = q[i + 1]
OBVIOUS

\* A message with a packet later than all before it may be appended.
LEMMA AppendLater ==
  ASSUME NEW q \in Seq(Msg), NEW m \in Msg, Later(q), m.packet # 0 => Under(q, m.packet)
  PROVE  Later(Append(q, m))
<1> DEFINE r == Append(q, m)
<1>1. \A i \in 1..Len(r) : \/ i = Len(q) + 1 /\ r[i] = m
                           \/ i \in 1..Len(q) /\ r[i] = q[i]
  BY MsgAppend
<1>2. Len(q) \in Nat /\ Len(r) = Len(q) + 1 OBVIOUS
<1> HIDE DEF r
<1>3. ASSUME NEW i \in 1..Len(r), NEW j \in 1..Len(r), i < j, r[j].packet # 0
      PROVE  r[i].packet < r[j].packet
  <2>1. i \in 1..Len(q) /\ i # Len(q) + 1 BY <1>2, <1>3
  <2>2. r[i] = q[i] BY <1>1, <2>1
  <2>3. CASE r[j] = m BY <1>3, <2>1, <2>2, <2>3 DEF Under
  <2>4. CASE j \in 1..Len(q) /\ r[j] = q[j] BY <1>3, <2>1, <2>2, <2>4 DEF Later
  <2> QED BY <1>1, <2>3, <2>4
<1> QED BY <1>3 DEF Later, r

\* What holds of all messages holds of one more for which it holds.
LEMMA AppendAll ==
  ASSUME NEW q \in Seq(Msg), NEW m \in Msg, NEW u, NEW n
  PROVE  /\ AllStamped(q, u) /\ IsStamped(m, u) => AllStamped(Append(q, m), u)
         /\ UpTo(q, n) /\ m.packet <= n => UpTo(Append(q, m), n)
         /\ Under(q, n) /\ m.packet < n => Under(Append(q, m), n)
         /\ AllRelayed(q) /\ m.packet # 0 => AllRelayed(Append(q, m))
<1> DEFINE r == Append(q, m)
<1>1. \A i \in 1..Len(r) : r[i] = m \/ (i \in 1..Len(q) /\ r[i] = q[i]) BY MsgAppend
<1> HIDE DEF r
<1>2. AllStamped(q, u) /\ IsStamped(m, u) => AllStamped(r, u)
  BY <1>1, Zenon DEF AllStamped
<1>3. UpTo(q, n) /\ m.packet <= n => UpTo(r, n) BY <1>1, Zenon DEF UpTo
<1>4. Under(q, n) /\ m.packet < n => Under(r, n) BY <1>1, Zenon DEF Under
<1>5. AllRelayed(q) /\ m.packet # 0 => AllRelayed(r) BY <1>1, Zenon DEF AllRelayed
<1> QED BY <1>2, <1>3, <1>4, <1>5 DEF r

\* What holds of all messages holds of the first and of the others.
LEMMA TailAll ==
  ASSUME NEW q \in Seq(Msg), q # <<>>, NEW u, NEW n
  PROVE  /\ AllStamped(q, u) => IsStamped(Head(q), u) /\ AllStamped(Tail(q), u)
         /\ UpTo(q, n) => Head(q).packet <= n /\ UpTo(Tail(q), n)
         /\ AllRelayed(q) => Head(q).packet # 0 /\ AllRelayed(Tail(q))
         /\ Later(q) => Later(Tail(q))
         /\ Later(q) /\ AllRelayed(q) =>
              \A i \in 1..Len(Tail(q)) : Head(q).packet < Tail(q)[i].packet
<1> DEFINE r == Tail(q)
           h == Head(q)
<1>1. /\ h = q[1] /\ 1 \in 1..Len(q)
      /\ \A i \in 1..Len(r) : i + 1 \in 1..Len(q) /\ 1 < i + 1 /\ r[i] = q[i + 1]
  BY MsgTail
<1>2. \A i, j \in 1..Len(r) : i < j => i + 1 < j + 1
  <2>1. \A i \in 1..Len(r) : i \in Nat BY MsgTail
  <2> QED BY <2>1
<1> HIDE DEF r, h
<1>3. AllStamped(q, u) => IsStamped(h, u) /\ AllStamped(r, u)
  BY <1>1, Zenon DEF AllStamped
<1>4. UpTo(q, n) => h.packet <= n /\ UpTo(r, n) BY <1>1, Zenon DEF UpTo
<1>5. AllRelayed(q) => h.packet # 0 /\ AllRelayed(r) BY <1>1, Zenon DEF AllRelayed
<1>6. Later(q) => Later(r)
  <2> SUFFICES ASSUME Later(q), NEW i \in 1..Len(r), NEW j \in 1..Len(r), i < j,
                      r[j].packet # 0
               PROVE  r[i].packet < r[j].packet
    BY DEF Later
  <2>1. i + 1 < j + 1 BY <1>2
  <2> QED BY <1>1, <2>1, Zenon DEF Later
<1>7. Later(q) /\ AllRelayed(q) => \A i \in 1..Len(r) : h.packet < r[i].packet
  BY <1>1, Zenon DEF Later, AllRelayed
<1> QED BY <1>3, <1>4, <1>5, <1>6, <1>7 DEF r, h

\* A packet read from the socket changes nothing about the earlier ones.
LEMMA StillStamped ==
  ASSUME NEW u \in Seq(Nat), NEW n \in Nat, NEW q \in Seq(Msg), AllStamped(q, u)
  PROVE  AllStamped(q, Append(u, n))
<1>1. \A k \in 1..Len(u) : k \in 1..Len(Append(u, n)) /\ Append(u, n)[k] = u[k] OBVIOUS
<1> QED BY <1>1, Zenon DEF AllStamped, IsStamped

\* Messages up to a packet are under every later one.
LEMMA UpToUnder ==
  ASSUME NEW q \in Seq(Msg), NEW a \in Nat, NEW b \in Nat, UpTo(q, a)
  PROVE  (a <= b => UpTo(q, b)) /\ (a < b => Under(q, b))
<1>1. \A i \in 1..Len(q) : q[i].packet \in Nat /\ q[i].packet <= a
  <2>1. \A i \in 1..Len(q) : q[i] \in Msg OBVIOUS
  <2> QED BY <2>1 DEF Msg, UpTo
<1> QED BY <1>1 DEF UpTo, Under

\* Packets stay in order and whole on their way: publishToKCPQ appends the
\* latest packet to the subject, and a message leaves the subject at the front.
LEMMA CarriedStep ==
  ASSUME PInv, [PipelineNext]_pipelineVars PROVE Carried'
<1>0. message \in Seq(Msg) /\ wire \in Seq(Msg) /\ udp \in Seq(Nat) /\ Len(udp) \in Nat
  BY SeqLen DEF PInv, PipelineTyped
<1>c. Carried BY DEF PInv
<1>1. Sendable \in Nat
  <2>1. receiver \in {"publish", "write"} => Len(udp) > 0 BY <1>c DEF Carried
  <2> QED BY <1>0, <2>1 DEF Sendable
<1>2. ASSUME UNCHANGED <<message, wire, udp>>, Sendable' \in Nat, Sendable' >= Sendable,
             receiver' \in {"publish", "write"} => receiver \in {"publish", "write"}
      PROVE  Carried'
  <2>1. UpTo(message, Sendable') /\ UpTo(wire, Sendable')
    BY <1>0, <1>1, <1>2, <1>c, UpToUnder DEF Carried
  <2> QED BY <1>2, <1>c, <2>1 DEF Carried
<1>3. ASSUME UNCHANGED <<message, wire, udp, receiver>> PROVE Carried'
  BY <1>c, <1>3 DEF Carried, Sendable
<1>4. CASE Still BY <1>3, <1>4 DEF Still, StillVars
<1>5. CASE (ForwarderCallback \/ HandlerTake \/ HandlerHandle) /\ relayStill
  BY <1>3, <1>5 DEF ForwarderCallback, HandlerTake, HandlerHandle, forwarderVars, relayStill,
     relayVars
<1>6. ASSUME wire # <<>>, wire' = Tail(wire), UNCHANGED <<udp, receiver>>,
             AllStamped(message', udp), UpTo(message', Sendable), Later(message'),
             \A i \in 1..Len(wire') : Under(message', wire'[i].packet)
      PROVE  Carried'
  <2>1. AllStamped(wire', udp) /\ UpTo(wire', Sendable) /\ Later(wire') /\ AllRelayed(wire')
    BY <1>0, <1>6, <1>c, TailAll DEF Carried
  <2>2. Sendable' = Sendable BY <1>6 DEF Sendable
  <2> QED BY <1>6, <1>c, <2>1, <2>2 DEF Carried
<1>7. CASE RelayStep
  <2>0. message' = message BY <1>7 DEF RelayStep
  <2>1. CASE ReceiverCheck \/ ReceiverTimeout \/ ReceiverError \/ PublishCheck
    <3>1. /\ UNCHANGED <<wire, udp>>
          /\ receiver' \in {"publish", "write"} => receiver \in {"publish", "write"}
      BY <2>1 DEF ReceiverCheck, ReceiverTimeout, ReceiverError, PublishCheck
    <3>2. Sendable' \in Nat /\ Sendable' >= Sendable
      <4>1. CASE receiver' \in {"publish", "write"}
        BY <1>1, <3>1, <4>1 DEF Sendable
      <4>2. CASE receiver' \notin {"publish", "write"}
        <5>1. Sendable' = Len(udp) BY <3>1, <4>2 DEF Sendable
        <5> QED BY <1>0, <5>1 DEF Sendable
      <4> QED BY <4>1, <4>2
    <3> QED BY <1>2, <2>0, <3>1, <3>2
  <2>2. CASE \E n \in PacketSizes : ReceiverPacket(n)
    <3>1. PICK n \in PacketSizes : ReceiverPacket(n) BY <2>2
    <3>2. /\ n \in Nat /\ udp' = Append(udp, n) /\ wire' = wire
          /\ receiver = "read" /\ receiver' = "publish"
      BY <3>1, RelayConstants DEF ReceiverPacket
    <3>3. Len(udp') = Len(udp) + 1 BY <1>0, <3>2
    <3>4. Sendable' = Sendable /\ Len(udp') > 0 BY <1>0, <3>2, <3>3 DEF Sendable
    <3>5. AllStamped(message, udp') /\ AllStamped(wire, udp')
      BY <1>0, <1>c, <3>2, StillStamped DEF Carried
    <3> QED BY <1>c, <2>0, <3>2, <3>4, <3>5 DEF Carried
  <2>3. CASE PublishWrite /\ wire' = wire
    <3>1. udp' = udp /\ receiver = "write" /\ receiver' = "check" BY <2>3 DEF PublishWrite
    <3>2. Sendable' = Len(udp) /\ Sendable = Len(udp) - 1 BY <3>1 DEF Sendable
    <3> QED BY <1>0, <1>2, <2>0, <2>3, <3>1, <3>2
  <2>4. CASE PublishWrite /\ wire' = Append(wire, Stamped(Len(udp)))
    <3>1. udp' = udp /\ receiver = "write" /\ receiver' = "check" BY <2>4 DEF PublishWrite
    <3>2. Sendable' = Len(udp) /\ Sendable = Len(udp) - 1 BY <3>1 DEF Sendable
    <3>3. Len(udp) \in 1..Len(udp) BY <1>0, <1>c, <3>1 DEF Carried
    <3> DEFINE m == Stamped(Len(udp))
    <3>4. /\ m \in Msg /\ m.packet = Len(udp) /\ m.packet # 0
          /\ m.len = PrefixLen + udp[m.packet]
      <4>1. udp[Len(udp)] \in Nat BY <1>0, <3>3
      <4> QED BY <1>0, <3>3, <4>1, RelayConstants DEF Stamped, Msg
    <3> HIDE DEF m
    <3>5. /\ UpTo(message, Len(udp)) /\ Under(message, Len(udp))
          /\ UpTo(wire, Len(udp)) /\ Under(wire, Len(udp))
      <4>1. UpTo(message, Sendable) /\ UpTo(wire, Sendable) BY <1>c DEF Carried
      <4>2. Sendable \in Nat /\ Len(udp) \in Nat /\ Sendable < Len(udp)
            /\ Sendable <= Len(udp)
        BY <1>0, <1>1, <3>2
      <4> QED BY <1>0, <4>1, <4>2, UpToUnder
    <3>6. IsStamped(m, udp) /\ m.packet <= Len(udp)
      BY <1>0, <3>3, <3>4 DEF IsStamped
    <3>7. wire' = Append(wire, m) BY <2>4 DEF m
    <3>8. /\ AllStamped(wire', udp) /\ UpTo(wire', Len(udp)) /\ AllRelayed(wire')
          /\ Later(wire')
      <4>1. AllStamped(wire, udp) /\ Later(wire) /\ AllRelayed(wire) BY <1>c DEF Carried
      <4> QED BY <1>0, <3>4, <3>5, <3>6, <3>7, <4>1, AppendAll, AppendLater
    <3>9. ASSUME NEW i \in 1..Len(wire') PROVE Under(message, wire'[i].packet)
      <4>1. CASE wire'[i] = m BY <3>4, <3>5, <4>1
      <4>2. CASE i \in 1..Len(wire) /\ wire'[i] = wire[i] BY <1>c, <4>2 DEF Carried
      <4> QED BY <1>0, <3>4, <3>7, <4>1, <4>2, MsgAppend
    <3>10. AllStamped(message, udp) /\ Later(message) BY <1>c DEF Carried
    <3> QED BY <2>0, <3>1, <3>2, <3>5, <3>8, <3>9, <3>10 DEF Carried
  <2>5. CASE Lost
    <3>1. wire # <<>> /\ wire' = Tail(wire) /\ UNCHANGED <<udp, receiver>> BY <2>5 DEF Lost
    <3>2. \A i \in 1..Len(wire') : Under(message, wire'[i].packet)
      <4>1. \A i \in 1..Len(wire') : i + 1 \in 1..Len(wire) /\ wire'[i] = wire[i + 1]
        BY <1>0, <3>1, MsgTail
      <4> QED BY <1>c, <4>1, Zenon DEF Carried
    <3>3. AllStamped(message, udp) /\ UpTo(message, Sendable) /\ Later(message)
      BY <1>c DEF Carried
    <3> QED BY <1>6, <2>0, <3>1, <3>2, <3>3
  <2> QED BY <1>7, <2>1, <2>2, <2>3, <2>4, <2>5 DEF RelayStep, PublishWrite
<1>8. CASE Arrival
  <2>0. UNCHANGED <<udp, receiver>> /\ Sendable' = Sendable BY <1>8 DEF Arrival, Sendable
  <2>m. AllStamped(message, udp) /\ UpTo(message, Sendable) /\ Later(message)
    BY <1>c DEF Carried
  <2>1. CASE ReceiveRelayed
    <3> DEFINE h == Head(wire)
    <3>1. wire # <<>> /\ message' = Append(message, h) /\ wire' = Tail(wire)
      BY <2>1 DEF ReceiveRelayed
    <3>2. /\ h \in Msg /\ h = wire[1] /\ 1 \in 1..Len(wire)
          /\ \A i \in 1..Len(wire') : i + 1 \in 1..Len(wire) /\ wire'[i] = wire[i + 1]
      BY <1>0, <3>1, MsgTail
    <3>3. /\ IsStamped(h, udp) /\ h.packet <= Sendable
          /\ \A i \in 1..Len(wire') : h.packet < wire'[i].packet
      BY <1>0, <1>c, <3>1, TailAll DEF Carried
    <3>4. Under(message, h.packet) BY <1>c, <3>2, Zenon DEF Carried
    <3> HIDE DEF h
    <3>5. AllStamped(message', udp) /\ UpTo(message', Sendable) /\ Later(message')
      BY <1>0, <2>m, <3>1, <3>2, <3>3, <3>4, AppendAll, AppendLater
    <3>6. ASSUME NEW i \in 1..Len(wire') PROVE Under(message', wire'[i].packet)
      <4>1. Under(message, wire'[i].packet) BY <1>c, <3>2, Zenon DEF Carried
      <4> QED BY <1>0, <3>1, <3>2, <3>3, <4>1, AppendAll, Zenon
    <3> QED BY <1>6, <2>0, <3>1, <3>5, <3>6
  <2>2. CASE \E n \in StrayLens : ReceiveStray(n)
    <3>1. PICK n \in StrayLens : ReceiveStray(n) BY <2>2
    <3> DEFINE m == [packet |-> 0, len |-> n]
    <3>2. m \in Msg /\ m.packet = 0 /\ IsStamped(m, udp)
      BY PipelineConstants DEF Msg, IsStamped
    <3>3. message' = Append(message, m) /\ wire' = wire BY <3>1 DEF ReceiveStray, relayVars
    <3> HIDE DEF m
    <3>4. m.packet <= Sendable BY <1>1, <3>2
    <3>5. AllStamped(message', udp) /\ UpTo(message', Sendable) /\ Later(message')
      BY <1>0, <2>m, <3>2, <3>3, <3>4, AppendAll, AppendLater
    <3>6. ASSUME NEW i \in 1..Len(wire) PROVE Under(message', wire[i].packet)
      <4>1. Under(message, wire[i].packet) BY <1>c DEF Carried
      <4>2. wire[i] \in Msg BY <1>0, SeqLen
      <4>3. wire[i].packet # 0 BY <1>c, Zenon DEF Carried, AllRelayed
      <4>4. m.packet < wire[i].packet BY <3>2, <4>2, <4>3 DEF Msg
      <4> QED BY <1>0, <3>2, <3>3, <4>1, <4>4, AppendAll, Zenon
    <3> QED BY <1>c, <2>0, <3>3, <3>5, <3>6 DEF Carried
  <2> QED BY <1>8, <2>1, <2>2 DEF Arrival
<1> QED BY <1>4, <1>5, <1>7, <1>8, StepKinds DEF PInv

\* handleMessage takes off the timestamp and keeps the packet.
LEMMA FrameOf ==
  ASSUME NEW m \in Msg
  PROVE  Frame(m).packet = m.packet /\ Frame(m).len = m.len - TimestampLen
BY DEF Frame, Msg

\* What has been handled stays handled, and what handleMessage is called
\* with is later than all of it.
LEMMA HandledStep ==
  ASSUME PInv, [PipelineNext]_pipelineVars
  PROVE  /\ mode' = mode
         /\ \A n : Handled(n) => Handled(n)'
         /\ ForwarderCallback /\ mode = "callback" =>
              \A x : x = inCallback => Handled(x)' /\ \A n : Handled(n) => n < x
         /\ HandlerHandle =>
              \A x : x = taken[Len(taken)] => Handled(x)' /\ \A n : Handled(n) => n < x
<1>0. /\ PipelineTyped /\ processed \in Seq(1..MaxMsg) /\ taken \in Seq(1..MaxMsg)
      /\ Len(processed) \in Nat /\ Len(taken) \in Nat
  BY SeqLen DEF PInv, IInv, Typed, PipelineTyped
<1>1. CASE Still \/ RelayStep \/ Arrival
  <2>1. UNCHANGED <<processed, taken, mode>> /\ Handling' = Handling
    BY <1>1 DEF Still, StillVars, RelayStep, Arrival, Receive, procVars, Handling
  <2>2. ~ForwarderCallback /\ ~HandlerHandle
    <3>1. ASSUME ForwarderCallback PROVE FALSE
      <4>1. processed' = Append(processed, inCallback)
        BY <3>1 DEF ForwarderCallback, ChanCallback, ProcessDone
      <4>2. inCallback \in 1..MaxMsg
        <5>1. proc = "callback"
          BY <3>1 DEF ForwarderCallback, ChanCallback, ProcessDone
        <5>2. inCallback \in 0..MaxMsg /\ inCallback # 0
          BY <5>1 DEF PInv, IInv, Typed, Ending
        <5> QED BY <5>2
      <4>3. Len(processed') = Len(processed) + 1 BY <1>0, <4>1, <4>2, Sent
      <4> QED BY <1>0, <2>1, <4>3
    <3>2. ASSUME HandlerHandle PROVE FALSE
      BY <2>1, <3>2 DEF HandlerHandle, Handling
    <3> QED BY <3>1, <3>2
  <2> QED BY <2>1, <2>2 DEF Handled
<1>2. CASE ForwarderCallback /\ relayStill
  <2>1. /\ proc = "callback" /\ processed' = Append(processed, inCallback)
        /\ UNCHANGED <<taken, handler, mode>> /\ Handling' = Handling
    BY <1>2 DEF ForwarderCallback, ChanCallback, ProcessDone, chanVars, outVars,
       forwarderVars, Handling
  <2>2. inCallback \in 1..MaxMsg /\ Below(processed, inCallback)
    BY <1>0, <2>1 DEF PInv, IInv, Typed, Ending, Ordered
  <2>3. /\ Len(processed') = Len(processed) + 1 /\ processed'[Len(processed) + 1] = inCallback
        /\ \A i \in 1..Len(processed) : processed'[i] = processed[i]
    BY <1>0, <2>1, <2>2, Sent
  <2>4. ~HandlerHandle BY <2>1 DEF HandlerHandle
  <2>5. CASE mode = "callback"
    <3>1. /\ Len(processed) + 1 \in 1..Len(processed')
          /\ \A k \in 1..Len(processed) : k \in 1..Len(processed')
      BY <1>0, <2>3
    <3>2. \A x : x = inCallback => Handled(x)' BY <2>1, <2>3, <2>5, <3>1 DEF Handled
    <3>3. \A n : Handled(n) => Handled(n)' BY <2>1, <2>3, <2>5, <3>1 DEF Handled
    <3>4. \A n : Handled(n) => n < inCallback BY <2>2, <2>5 DEF Handled, Below
    <3> QED BY <2>1, <2>4, <3>2, <3>3, <3>4
  <2>6. CASE mode # "callback" BY <2>1, <2>4, <2>6 DEF Handled
  <2> QED BY <2>5, <2>6
<1>3. CASE HandlerTake /\ relayStill
  <2>1. /\ outChan # <<>> /\ taken' = Append(taken, Head(outChan)) /\ mode' = mode
        /\ processed' = processed /\ handler = "select" /\ Handling = 0 /\ Handling' = 1
    BY <1>3 DEF HandlerTake, TakeFromChan, subscriptionVars, procVars, Handling
  <2>2. Head(outChan) \in 1..MaxMsg BY <1>0, <2>1, Taken DEF PipelineTyped
  <2>3. Len(taken') = Len(taken) + 1 /\ \A i \in 1..Len(taken) : taken'[i] = taken[i]
    BY <1>0, <2>1, <2>2, Sent
  <2>4. Len(taken') - Handling' = Len(taken) /\ Len(taken) - Handling = Len(taken)
    BY <1>0, <2>1, <2>3
  <2>5. mode = "channel" BY <1>0, <2>1 DEF PipelineTyped
  <2>6. \A n : Handled(n) => Handled(n)' BY <2>1, <2>3, <2>4, <2>5 DEF Handled
  <2>7. ~HandlerHandle /\ ~(ForwarderCallback /\ mode = "callback")
    BY <2>1, <2>5 DEF HandlerHandle
  <2> QED BY <2>1, <2>6, <2>7
<1>4. CASE HandlerHandle /\ relayStill
  <2>1. /\ UNCHANGED <<processed, taken, mode>> /\ handler = "handle"
        /\ Handling = 1 /\ Handling' = 0
    BY <1>4 DEF HandlerHandle, vars, procVars, chanVars, outVars, Handling
  <2>2. mode = "channel" BY <1>0, <2>1 DEF PipelineTyped
  <2>3. /\ Len(taken) \in 1..Len(taken) /\ Len(taken') - Handling' = Len(taken)
        /\ \A k \in 1..(Len(taken) - Handling) : k \in 1..Len(taken) /\ k < Len(taken)
    BY <1>0, <2>1, HeldHasArrived
  <2>4. \A x : x = taken[Len(taken)] => Handled(x)' BY <2>1, <2>2, <2>3 DEF Handled
  <2>5. \A n : Handled(n) => Handled(n)' BY <2>1, <2>2, <2>3 DEF Handled
  <2>6. \A n : Handled(n) => n < taken[Len(taken)]
    BY <2>2, <2>3 DEF Handled, PInv, SecondOrdered, Ascending
  <2>7. ~(ForwarderCallback /\ mode = "callback") BY <2>2
  <2> QED BY <2>1, <2>4, <2>5, <2>6, <2>7
<1> QED BY <1>1, <1>2, <1>3, <1>4, StepKinds DEF PInv

\* The frames stay in the order of the packets, each the payload of a message
\* that has been handled.
LEMMA PublishedStep ==
  ASSUME PInv, [PipelineNext]_pipelineVars PROVE Published'
<1>0. /\ PipelineTyped /\ Published /\ message \in Seq(Msg) /\ frames \in Seq(Msg)
      /\ Len(message) \in Nat /\ Len(frames) \in Nat
      /\ \A n \in 1..Len(message) : message[n] \in Msg
  <2>1. message \in Seq(Msg) /\ frames \in Seq(Msg) BY DEF PInv, PipelineTyped
  <2> QED BY <2>1, SeqLen DEF PInv
<1>1. ASSUME NEW f, NEW n \in 1..Len(message),
             Handled(n) /\ f = Frame(message[n]) /\ message[n].len >= TimestampLen,
             \A k \in 1..Len(message) : k \in 1..Len(message') /\ message'[k] = message[k]
      PROVE  \E k \in 1..Len(message') :
               (Handled(k))' /\ f = Frame(message'[k]) /\ message'[k].len >= TimestampLen
  <2>1. Handled(n)' BY <1>1, HandledStep
  <2> QED BY <1>1, <2>1
<1>2. ASSUME frames' = frames,
             \A k \in 1..Len(message) : k \in 1..Len(message') /\ message'[k] = message[k]
      PROVE  Published'
  BY <1>0, <1>1, <1>2 DEF Published
<1>3. ASSUME NEW x \in 1..Len(message), Handled(x)', \A n : Handled(n) => n < x,
             HandleMessage(message[x]), message' = message
      PROVE  Published'
  <2>1. \/ frames' = frames
        \/ /\ frames' = Append(frames, Frame(message[x])) /\ frames' \in Seq(Msg)
           /\ Len(frames') = Len(frames) + 1 /\ message[x].len >= TimestampLen
           /\ Frame(message[x]) \in Msg
    BY <1>0, <1>3, HandleEffect DEF PipelineTyped
  <2>2. CASE frames' = frames BY <1>2, <1>3, <2>2
  <2>3. CASE /\ frames' = Append(frames, Frame(message[x])) /\ frames' \in Seq(Msg)
             /\ Len(frames') = Len(frames) + 1 /\ message[x].len >= TimestampLen
             /\ Frame(message[x]) \in Msg
    <3>1. /\ frames'[Len(frames) + 1] = Frame(message[x])
          /\ \A i \in 1..Len(frames) : frames'[i] = frames[i]
      <4> DEFINE f == Frame(message[x])
      <4>1. frames \in Seq(Msg) /\ f \in Msg /\ frames' = Append(frames, f)
        BY <1>0, <2>3
      <4> HIDE DEF f
      <4>2. /\ frames'[Len(frames) + 1] = f
            /\ \A i \in 1..Len(frames) : frames'[i] = frames[i]
        BY <4>1, SeqAppend
      <4> QED BY <4>2 DEF f
    <3>2. ASSUME NEW i \in 1..Len(frames')
          PROVE  \E k \in 1..Len(message') :
                   /\ Handled(k)' /\ frames'[i] = Frame(message'[k])
                   /\ message'[k].len >= TimestampLen
      <4>1. CASE i = Len(frames) + 1 BY <1>3, <2>3, <3>1, <4>1
      <4>2. CASE i \in 1..Len(frames)
        <5>1. PICK n \in 1..Len(message) : /\ Handled(n) /\ frames[i] = Frame(message[n])
                                           /\ message[n].len >= TimestampLen
          BY <1>0, <4>2, Zenon DEF Published
        <5> QED BY <1>1, <1>3, <3>1, <4>2, <5>1
      <4>3. i = Len(frames) + 1 \/ i \in 1..Len(frames) BY <1>0, <2>3
      <4> QED BY <4>1, <4>2, <4>3
    <3>3. ASSUME NEW i \in 1..Len(frames'), NEW j \in 1..Len(frames'), i < j,
                 frames'[j].packet # 0
          PROVE  frames'[i].packet < frames'[j].packet
      <4>1. i \in 1..Len(frames) /\ frames'[i] = frames[i] BY <1>0, <2>3, <3>1, <3>3
      <4>2. CASE j = Len(frames) + 1
        <5>1. PICK n \in 1..Len(message) : Handled(n) /\ frames[i] = Frame(message[n])
          BY <1>0, <4>1 DEF Published
        <5>2. n < x BY <1>3, <5>1
        <5>3. frames'[j].packet = message[x].packet BY <1>0, <3>1, <4>2, FrameOf
        <5>4. frames[i].packet = message[n].packet BY <1>0, <5>1, FrameOf
        <5> QED BY <3>3, <4>1, <5>2, <5>3, <5>4 DEF PInv, Carried, Later
      <4>3. CASE j \in 1..Len(frames)
        BY <1>0, <3>1, <3>3, <4>1, <4>3 DEF Published, Later
      <4>4. j = Len(frames) + 1 \/ j \in 1..Len(frames) BY <1>0, <2>3
      <4> QED BY <4>2, <4>3, <4>4
    <3>4. Later(frames') BY <3>3 DEF Later
    <3> QED BY <3>2, <3>4 DEF Published
  <2> QED BY <2>1, <2>2, <2>3
<1>4. CASE Still \/ RelayStep
  BY <1>2, <1>4 DEF Still, StillVars, RelayStep
<1>5. CASE Arrival
  <2>1. \E m \in Msg : message' = Append(message, m)
    <3>1. CASE ReceiveRelayed
      BY <1>0, <3>1, SeqTail DEF ReceiveRelayed, PipelineTyped
    <3>2. CASE \E n \in StrayLens : ReceiveStray(n)
      BY <3>2, PipelineConstants DEF ReceiveStray, Msg
    <3> QED BY <1>5, <3>1, <3>2 DEF Arrival
  <2>2. \A k \in 1..Len(message) : k \in 1..Len(message') /\ message'[k] = message[k]
    <3>1. PICK m \in Msg : message' = Append(message, m) BY <2>1
    <3>2. /\ Len(message') = Len(message) + 1
          /\ \A k \in 1..Len(message) : message'[k] = message[k]
      BY <1>0, <3>1, SeqAppend
    <3> QED BY <1>0, <3>2
  <2> QED BY <1>2, <1>5, <2>2 DEF Arrival
<1>6. CASE ForwarderCallback /\ relayStill
  <2>1. CASE mode = "callback"
    <3>1. proc = "callback" /\ HandleMessage(message[inCallback]) /\ message' = message
      BY <1>6, <2>1 DEF ForwarderCallback, ProcessDone
    <3>2. inCallback \in 1..Len(message) BY <3>1, HeldHasArrived
    <3>3. \A x : x = inCallback => Handled(x)' /\ \A n : Handled(n) => n < x
      BY <1>6, <2>1, HandledStep
    <3> QED BY <1>3, <3>1, <3>2, <3>3
  <2>2. CASE mode # "callback"
    <3>1. frames' = frames /\ message' = message
      BY <1>6, <2>2 DEF ForwarderCallback, forwarderVars
    <3> QED BY <1>2, <3>1
  <2> QED BY <2>1, <2>2
<1>7. CASE HandlerTake /\ relayStill
  BY <1>2, <1>7 DEF HandlerTake
<1>8. CASE HandlerHandle /\ relayStill
  <2>1. /\ handler = "handle" /\ HandleMessage(message[taken[Len(taken)]])
        /\ message' = message
    BY <1>8 DEF HandlerHandle
  <2>2. taken[Len(taken)] \in 1..Len(message) BY <2>1, HeldHasArrived
  <2>3. \A x : x = taken[Len(taken)] => Handled(x)' /\ \A n : Handled(n) => n < x
    BY <1>8, HandledStep
  <2> QED BY <1>3, <2>1, <2>2, <2>3
<1> QED BY <1>4, <1>5, <1>6, <1>7, <1>8, StepKinds DEF PInv

\* NewH264Relay, NewForwarder and their Start begin in the invariant.
LEMMA PipelineInvInit == ASSUME PipelineInit PROVE PInv
<1> USE DEF PipelineInit, ForwarderInit, ChanInit, RelayInit
<1>1. IInv BY InvInit
<1>2. /\ message = <<>> /\ frames = <<>> /\ outChan = <<>> /\ taken = <<>> /\ udp = <<>>
      /\ wire = <<>> /\ processed = <<>> /\ arrived = 0
  BY DEF Init
<1>3. PipelineTyped BY <1>2 DEF PipelineTyped
<1>4. StopOrder BY DEF StopOrder
<1>5. Forwarded BY <1>2 DEF Forwarded, Handling
<1>6. SecondOrdered BY <1>2 DEF SecondOrdered, Ascending, AreProcessed
<1>7. Carried
  BY <1>2 DEF Carried, Later, AllStamped, UpTo, AllRelayed
<1>8. Published BY <1>2 DEF Published, Later
<1> QED BY <1>1, <1>3, <1>4, <1>5, <1>6, <1>7, <1>8 DEF PInv

\* The invariant holds in every reachable state of the pipeline.
LEMMA PipelineInvariance == PipelineSpec => []PInv
<1>1. PipelineInit => PInv BY PipelineInvInit
<1>2. PInv /\ [PipelineNext]_pipelineVars => PInv'
  <2> SUFFICES ASSUME PInv, [PipelineNext]_pipelineVars PROVE PInv' OBVIOUS
  <2>1. IInv' BY IsSubscriptionStep, TypedStep, EndingStep, CountedStep, OrderedStep DEF PInv, IInv
  <2> QED BY <2>1, StopOrderStep, PipelineTypedStep, ForwardedStep, SecondOrderedStep,
             CarriedStep, PublishedStep
          DEF PInv
<1> QED BY <1>1, <1>2, PTL DEF PipelineSpec

\* Stop of a forwarder in callback mode leaves no accepted message behind:
\* NATS is closed after Unsubscribe has waited for the processor.
THEOREM DrainedStop == PipelineSpec => []CallbackModeDrains
<1>1. PInv => CallbackModeDrains
  BY DEF PInv, IInv, Typed, Ending, StopOrder, CallbackModeDrains
<1> QED BY <1>1, PipelineInvariance, PTL

\* Every message that arrived at the forwarder is in one of its counters, in
\* one of its channels or in hand, in either mode and in every order of its
\* goroutines.
THEOREM AllAccounted == PipelineSpec => []ForwarderAccounted
<1>1. PInv => ForwarderAccounted
  <2> SUFFICES ASSUME PInv PROVE ForwarderAccounted OBVIOUS
  <2>2. /\ Len(frames) \in Nat /\ Len(msgChan) \in Nat /\ Len(outChan) \in Nat
        /\ InHand \in Nat /\ InEnqueue \in Nat /\ Handling \in Nat /\ errors \in Nat
        /\ discarded \in Nat /\ dropped \in Nat /\ refused \in Nat /\ Len(processed) \in Nat
    BY SeqLen DEF PInv, IInv, Typed, PipelineTyped, InHand, InEnqueue, Handling
  <2>3. /\ arrived = Len(processed) + InHand + Len(msgChan) + dropped + refused + InEnqueue
        /\ Len(processed) = discarded + Len(frames) + errors + Len(outChan) + Handling
    BY DEF PInv, IInv, Counted, Forwarded
  <2>4. arrived = refused + dropped + discarded + Len(frames) + errors + Len(msgChan)
                    + Len(outChan) + InHand + InEnqueue + Handling
    BY <2>2, <2>3
  <2> QED BY <2>4 DEF ForwarderAccounted, InHand, InEnqueue, Handling
<1> QED BY <1>1, PipelineInvariance, PTL

\* Every packet that NATS receives is whole and without its timestamp, and
\* comes after the packets before it, for any packets, any losses on the
\* subject and any messages of other publishers.
THEOREM PacketsArrive == PipelineSpec => []FramesArePackets
<1>1. PInv => FramesArePackets
  <2> SUFFICES ASSUME PInv, NEW i \in 1..Len(frames), frames[i].packet # 0
               PROVE  /\ frames[i].len = udp[frames[i].packet]
                      /\ \A j \in 1..(i - 1) : frames[j].packet < frames[i].packet
    BY DEF FramesArePackets
  <2>1. message \in Seq(Msg) /\ udp \in Seq(Nat) /\ frames \in Seq(Msg)
    BY DEF PInv, PipelineTyped
  <2>2. PICK n \in 1..Len(message) : frames[i] = Frame(message[n])
    BY DEF PInv, Published
  <2>3. message[n] \in Msg BY <2>1, SeqLen
  <2>4. /\ frames[i].packet = message[n].packet
        /\ frames[i].len = message[n].len - TimestampLen
    BY <2>2, <2>3, FrameOf
  <2>5. /\ message[n].packet \in 1..Len(udp)
        /\ message[n].len = PrefixLen + udp[message[n].packet]
    BY <2>4 DEF PInv, Carried, AllStamped, IsStamped
  <2>6. udp[message[n].packet] \in Nat BY <2>1, <2>5, SeqLen
  <2>7. frames[i].len = udp[frames[i].packet]
    BY <2>4, <2>5, <2>6, PipelineConstants, ForwarderConstants
  <2>8. Len(frames) \in Nat BY <2>1, SeqLen
  <2>9. \A j \in 1..(i - 1) : j \in 1..Len(frames) /\ j < i BY <2>8
  <2> QED BY <2>7, <2>9 DEF PInv, Published, Later
<1> QED BY <1>1, PipelineInvariance, PTL
=============================================================================
