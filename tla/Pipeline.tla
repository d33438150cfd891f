------------------------------ MODULE Pipeline ------------------------------
(***************************************************************************)
(* The relay, the subject and the forwarder as they are deployed together: *)
(* UDP packets become messages of a subject, pass the server, and become   *)
(* NATS messages.  Of the server only what a subscriber may rely on is     *)
(* kept: messages reach it in order, some not at all.                      *)
(***************************************************************************)
EXTENDS Forwarder, Relay

CONSTANTS
  StrayLens,   \* lengths of the messages others publish to the subject
  Signalled    \* bound: the sets of programs that are told to stop in one behaviour

ASSUME PipelineConstants ==
  /\ StrayLens \subseteq Nat /\ PrefixLen = TimestampLen
  /\ Signalled \subseteq SUBSET {"relay", "forwarder"}

VARIABLE signal   \* which programs are told to stop (SIGINT, SIGTERM)

pipelineVars == <<vars, chanVars, forwarderVars, relayVars, signal>>

PipelineInit == ForwarderInit /\ RelayInit /\ signal \in Signalled

-----------------------------------------------------------------------------
(* The subject between the two *)

\* A message of the relay reaches the forwarder's client.
ReceiveRelayed ==
  /\ Receive /\ wire # <<>>
  /\ message' = Append(message, Head(wire)) /\ wire' = Tail(wire)
  /\ UNCHANGED <<chanVars, mode, ctx, handler, frames, errors, nats, stop, udp, receiver,
                 relayCtx, relayOpen, relayStop, signal>>

\* A message of another publisher does.
ReceiveStray(n) ==
  /\ Receive
  /\ message' = Append(message, [packet |-> 0, len |-> n])
  /\ UNCHANGED <<chanVars, mode, ctx, handler, frames, errors, nats, stop, relayVars, signal>>

\* The session or the connection that held the message ends.
Lost ==
  /\ wire # <<>> /\ wire' = Tail(wire)
  /\ UNCHANGED <<vars, chanVars, forwarderVars, udp, receiver, relayCtx, relayOpen,
                 relayStop, signal>>

-----------------------------------------------------------------------------
(* The goroutines *)

libraryStill == UNCHANGED <<chanVars, forwarderVars, relayVars, signal>>
forwarderStill == UNCHANGED <<vars, chanVars, forwarderVars, signal>>
relayStill == UNCHANGED <<relayVars, signal>>

ReceiveLoop ==
  \/ TryEnqueueCheck /\ libraryStill
  \/ TryEnqueueSend /\ libraryStill

Processor ==
  \/ ProcessTake /\ libraryStill
  \/ ProcessExit /\ libraryStill
  \/ ForwarderCallback /\ relayStill

Handler ==
  \/ HandlerStop /\ relayStill
  \/ HandlerTake /\ relayStill
  \/ HandlerHandle /\ relayStill

Stopping ==
  \/ \E u \in Caller : StopUnsubscribe(u) /\ relayStill
  \/ UnsubscribeCheck /\ libraryStill
  \/ UnsubscribeClose /\ libraryStill
  \/ UnsubscribeWait /\ libraryStill
  \/ UnsubscribeWrite /\ libraryStill
  \/ \E u \in Caller : StopUnsubscribed(u) /\ relayStill
  \/ StopClose /\ relayStill
  \/ StopNats /\ relayStill

Receiver ==
  \/ ReceiverCheck /\ forwarderStill
  \/ ReceiverTimeout /\ forwarderStill
  \/ PublishCheck /\ forwarderStill
  \/ PublishWrite /\ forwarderStill

\* What need not happen: packets, messages, the acknowledgement, errors of
\* the socket, a failed restoration, and the signals that stop the programs.
\* A forwarder whose subscription fails is at its end (log.Fatalf).
Environment ==
  \/ \E n \in PacketSizes : ReceiverPacket(n) /\ forwarderStill
  \/ ReceiverError /\ forwarderStill
  \/ ReceiveRelayed
  \/ \E n \in StrayLens : ReceiveStray(n)
  \/ Lost
  \/ Subscribed /\ relayStill
  \/ RestoreFailed /\ libraryStill
  \/ "forwarder" \in signal /\ StopCancel /\ relayStill
  \/ "relay" \in signal /\ RelayCancel /\ forwarderStill
  \/ RelayClose /\ forwarderStill

PipelineNext == ReceiveLoop \/ Processor \/ Handler \/ Stopping \/ Receiver \/ Environment

\* Goroutines run; callbacks, publishes and reads of the socket return.
PipelineSpec ==
  /\ PipelineInit /\ [][PipelineNext]_pipelineVars
  /\ WF_pipelineVars(ReceiveLoop) /\ WF_pipelineVars(Processor) /\ WF_pipelineVars(Handler)
  /\ WF_pipelineVars(Stopping) /\ WF_pipelineVars(Receiver)

-----------------------------------------------------------------------------
(* Properties *)

\* NATS receives packets as they came from the socket, without the
\* timestamp, in the order of the socket and none twice, whatever is lost,
\* dropped or published by others on the way (publishToKCPQ, TryEnqueue, the
\* second channel, handleMessage).
FramesArePackets ==
  \A i \in 1..Len(frames) : frames[i].packet # 0 =>
    /\ frames[i].len = udp[frames[i].packet]
    /\ \A j \in 1..(i - 1) : frames[j].packet < frames[i].packet

\* A message that arrived at the forwarder is in one place, and the
\* statistics of the forwarder cover those that got through the channels.
ForwarderAccounted ==
  arrived = refused + dropped + discarded + Len(frames) + errors
              + Len(msgChan) + Len(outChan) + (IF inCallback = 0 THEN 0 ELSE 1)
              + (IF recv \in {"check", "send"} THEN 1 ELSE 0)
              + (IF handler = "handle" THEN 1 ELSE 0)

\* In callback mode Stop leaves nothing behind: the messages accepted before
\* it were published, or failed to be, while NATS was open (Unsubscribe waits
\* for the processor, and NATS is closed after it).  In channel mode the
\* goroutine stops at once and what its channel holds is lost.
CallbackModeDrains ==
  mode = "callback" /\ chanClosed /\ ~nats =>
    proc = "exit" /\ msgChan = <<>> /\ inCallback = 0

\* Stop returns, and the goroutine of channel mode ends after it.
ForwarderStops ==
  stop # "running" ~> stop = "stopped" /\ handler \in {"none", "exit"}

\* UDPReceiver ends after the relay's Stop, also when no packet comes (the
\* deadline of the read).
ReceiverStops == relayStop # "running" ~> receiver = "exit"
=============================================================================
