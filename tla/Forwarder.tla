----------------------------- MODULE Forwarder ------------------------------
(***************************************************************************)
(* The forwarder from a subject to NATS (examples/kcpq-to-nats/main.go): a *)
(* subscription, in channel or in callback mode, whose messages lose their *)
(* timestamp and are published to NATS, and Stop, which takes the parts    *)
(* down in an order.  A message is [packet, len]: which packet of its      *)
(* publisher it carries, and its length.                                   *)
(***************************************************************************)
EXTENDS ChanSubscription

CONSTANT TimestampLen   \* the bytes put before a frame (8)

ASSUME ForwarderConstants == TimestampLen \in Nat

VARIABLES
  mode,      \* "channel" or "callback": UseChannelMode
  message,   \* the messages that have arrived, by number
  ctx,       \* f.ctx is cancelled
  handler,   \* the goroutine of handleMessagesFromChannel
  frames,    \* the frames published to NATS, in order
  errors,    \* ErrorCount
  nats,      \* the NATS connection is open
  stop       \* where Stop is

forwarderVars == <<mode, message, ctx, handler, frames, errors, nats, stop>>

\* NewForwarder and Start, up to the write of SUB.
ForwarderInit ==
  /\ ChanInit
  /\ mode \in {"channel", "callback"} /\ message = <<>> /\ ctx = FALSE /\ handler = "none"
  /\ frames = <<>> /\ errors = 0 /\ nats = TRUE /\ stop = "running"

-----------------------------------------------------------------------------
(* handleMessage *)

\* Mutant: the timestamp is published with the frame.
FrameWhole(m) == m

\* h264Data := msg.Data[8:]
Frame(m) == [m EXCEPT !.len = @ - TimestampLen]

\* Mutant: a short message is ignored.
HandleUncounted(m) ==
  \/ m.len < TimestampLen /\ UNCHANGED <<frames, errors>>
  \/ m.len >= TimestampLen /\ nats /\ frames' = Append(frames, Frame(m)) /\ UNCHANGED errors
  \/ m.len >= TimestampLen /\ errors' = errors + 1 /\ UNCHANGED frames

\* Publish fails on a closed connection, and may fail on an open one.
HandleMessage(m) ==
  \/ m.len < TimestampLen /\ errors' = errors + 1 /\ UNCHANGED frames
  \/ m.len >= TimestampLen /\ nats /\ frames' = Append(frames, Frame(m)) /\ UNCHANGED errors
  \/ m.len >= TimestampLen /\ errors' = errors + 1 /\ UNCHANGED frames

-----------------------------------------------------------------------------
(* handleMessagesFromChannel *)

\* subscribeKCPQ returns; in channel mode it starts the goroutine.
Subscribed ==
  /\ SubscribeAcked
  /\ handler' = IF mode = "channel" THEN "select" ELSE "none"
  /\ UNCHANGED <<mode, message, ctx, frames, errors, nats, stop>>

\* Mutant: the goroutine ends with the channel only.
HandlerStopOnClose ==
  /\ handler = "select" /\ outClosed
  /\ handler' = "exit"
  /\ UNCHANGED <<vars, chanVars, mode, message, ctx, frames, errors, nats, stop>>

\* case <-f.ctx.Done()
HandlerStop ==
  /\ handler = "select" /\ ctx
  /\ handler' = "exit"
  /\ UNCHANGED <<vars, chanVars, mode, message, ctx, frames, errors, nats, stop>>

\* case msg, ok := <-f.msgChan: either case of the select when both are ready
HandlerTake ==
  /\ handler = "select" /\ TakeFromChan
  /\ handler' = "handle"
  /\ UNCHANGED <<subscriptionVars, subscribing, crashed, mode, message, ctx, frames, errors,
                 nats, stop>>

HandlerHandle ==
  /\ handler = "handle"
  /\ HandleMessage(message[taken[Len(taken)]])
  /\ handler' = "select"
  /\ UNCHANGED <<vars, chanVars, mode, message, ctx, nats, stop>>

\* The callback of the processor, in either mode.
ForwarderCallback ==
  \/ mode = "channel" /\ ChanCallback /\ UNCHANGED forwarderVars
  \/ /\ mode = "callback" /\ ProcessDone /\ UNCHANGED chanVars
     /\ HandleMessage(message[inCallback])
     /\ UNCHANGED <<mode, message, ctx, handler, nats, stop>>

-----------------------------------------------------------------------------
(* Stop *)

\* f.cancel()
StopCancel ==
  /\ stop = "running" /\ subscribing = "subscribed"
  /\ ctx' = TRUE /\ stop' = "unsubscribe"
  /\ UNCHANGED <<vars, chanVars, mode, message, handler, frames, errors, nats>>

\* f.subscription.Unsubscribe() is called ...
StopUnsubscribe(u) ==
  /\ stop = "unsubscribe" /\ Unsubscribe(u)
  /\ stop' = "wait"
  /\ UNCHANGED <<chanVars, mode, message, ctx, handler, frames, errors, nats>>

\* ... and returns.
StopUnsubscribed(u) ==
  /\ stop = "wait" /\ UnsubscribeReturn(u)
  /\ stop' = "close"
  /\ UNCHANGED <<chanVars, mode, message, ctx, handler, frames, errors, nats>>

\* f.kcpClient.Close()
StopClose ==
  /\ stop = "close" /\ ClientClosed
  /\ stop' = "nats"
  /\ UNCHANGED <<chanVars, mode, message, ctx, handler, frames, errors, nats>>

\* Mutant: the NATS connection is closed while Unsubscribe drains.
StopNatsEarly ==
  /\ stop \in {"wait", "nats"}
  /\ nats' = FALSE /\ stop' = IF stop = "nats" THEN "stopped" ELSE stop
  /\ UNCHANGED <<vars, chanVars, mode, message, ctx, handler, frames, errors>>

\* f.natsConn.Close()
StopNats ==
  /\ stop = "nats"
  /\ nats' = FALSE /\ stop' = "stopped"
  /\ UNCHANGED <<vars, chanVars, mode, message, ctx, handler, frames, errors>>
=============================================================================
