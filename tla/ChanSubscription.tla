-------------------------- MODULE ChanSubscription --------------------------
(***************************************************************************)
(* A subscription made with SubscribeChanWithContext (client/client.go):   *)
(* the callback of a Subscription puts each message into a second channel, *)
(* which the application reads.  The messages of an attempt arrive from    *)
(* the moment SUB is handled, so before the call has returned; when the    *)
(* call fails, the attempt's Subscription is dropped without waiting for   *)
(* its processor, and the second channel is closed.                        *)
(***************************************************************************)
EXTENDS Subscription

CONSTANT ChanCap   \* capacity of the second channel

ASSUME ChanConstants == ChanCap \in Nat \ {0}

VARIABLES
  subscribing,          \* where SubscribeChanWithContext is
  outChan, outClosed,   \* the second channel, and whether it is closed
  discarded,            \* messages it had no room for
  taken,                \* the messages the application has taken out, in order
  crashed               \* the process has ended in a panic

outVars == <<outChan, outClosed, discarded, taken>>
chanVars == <<subscribing, outVars, crashed>>
subscriptionVars == <<recvVars, active, listed, msgChan, chanClosed, procVars, once, caller>>

ChanInit ==
  /\ Init
  /\ subscribing = "await" /\ outChan = <<>> /\ outClosed = FALSE
  /\ discarded = 0 /\ taken = <<>> /\ crashed = FALSE

-----------------------------------------------------------------------------
(* SubscribeWithOptionsContext, from the write of SUB in its last attempt *)

\* case <-ackChan
SubscribeAcked ==
  /\ subscribing = "await"
  /\ subscribing' = "subscribed"
  /\ UNCHANGED <<subscriptionVars, outVars, crashed>>

\* The context is cancelled or the last timeout passes: removeSubscription,
\* which needs c.mu, ...
FailRemove ==
  /\ subscribing = "await" /\ recv \in {"idle", "ended"}
  /\ listed' = FALSE /\ subscribing' = "drop"
  /\ UNCHANGED <<recvVars, active, msgChan, chanClosed, procVars, once, caller, outVars,
                 crashed>>

\* ... sub.active.Store(false) ...
FailDeactivate ==
  /\ subscribing = "drop"
  /\ active' = FALSE /\ subscribing' = "close"
  /\ UNCHANGED <<recvVars, listed, msgChan, chanClosed, procVars, once, caller, outVars,
                 crashed>>

\* ... close(sub.msgChan), and the error is returned.
FailClose ==
  /\ subscribing = "close"
  /\ chanClosed' = TRUE /\ subscribing' = "closeChan"
  /\ UNCHANGED <<recvVars, active, listed, msgChan, procVars, once, caller, outVars, crashed>>

\* case <-c.done: the call gives up its connection and leaves the attempt's
\* Subscription as it is, in the list and active.
FailAbandon ==
  /\ subscribing = "await"
  /\ subscribing' = "abandon"
  /\ UNCHANGED <<subscriptionVars, outVars, crashed>>

\* if err != nil { close(msgChan) }
FailCloseChan ==
  /\ subscribing \in {"closeChan", "abandon"}
  /\ outClosed' = TRUE
  /\ subscribing' = IF subscribing = "abandon" THEN "abandoned" ELSE "failed"
  /\ UNCHANGED <<subscriptionVars, outChan, discarded, taken, crashed>>

-----------------------------------------------------------------------------
(* The callback and the application *)

\* The callback: a send that does not wait, ...
ChanCallback ==
  /\ ProcessDone /\ ~outClosed
  /\ \/ /\ Len(outChan) < ChanCap
        /\ outChan' = Append(outChan, inCallback) /\ UNCHANGED discarded
     \/ /\ Len(outChan) = ChanCap
        /\ discarded' = discarded + 1 /\ UNCHANGED outChan
  /\ UNCHANGED <<subscribing, outClosed, taken, crashed>>

\* ... and into the closed channel a panic, which nothing in the processor
\* recovers.
ChanCallbackPanics ==
  /\ ProcessDone /\ outClosed
  /\ crashed' = TRUE
  /\ UNCHANGED <<subscribing, outVars>>

\* The application receives from the channel it was given.
TakeFromChan ==
  /\ subscribing = "subscribed" /\ outChan # <<>>
  /\ taken' = Append(taken, Head(outChan)) /\ outChan' = Tail(outChan)
  /\ UNCHANGED <<outClosed, discarded>>

-----------------------------------------------------------------------------
Delivering ==
  \/ Receive /\ UNCHANGED chanVars
  \/ TryEnqueueCheck /\ UNCHANGED chanVars
  \/ TryEnqueueSend /\ UNCHANGED chanVars
  \/ ProcessTake /\ UNCHANGED chanVars
  \/ ChanCallback \/ ChanCallbackPanics
  \/ ProcessExit /\ UNCHANGED chanVars

Unsubscribing ==
  \/ \E u \in Caller : subscribing = "subscribed" /\ Unsubscribe(u) /\ UNCHANGED chanVars
  \/ UnsubscribeCheck /\ UNCHANGED chanVars
  \/ UnsubscribeClose /\ UNCHANGED chanVars
  \/ UnsubscribeWait /\ UNCHANGED chanVars
  \/ UnsubscribeWrite /\ UNCHANGED chanVars
  \/ \E u \in Caller : UnsubscribeReturn(u) /\ UNCHANGED chanVars

Failing == FailRemove \/ FailDeactivate \/ FailClose \/ FailAbandon \/ FailCloseChan

\* After a panic nothing runs.
ChanNext ==
  /\ ~crashed
  /\ \/ Delivering \/ Unsubscribing \/ SubscribeAcked \/ Failing
     \/ TakeFromChan /\ UNCHANGED <<subscriptionVars, subscribing, crashed>>
     \/ RestoreFailed /\ UNCHANGED chanVars
     \/ ClientClosed /\ UNCHANGED chanVars

ChanSpec == ChanInit /\ [][ChanNext]_<<vars, chanVars>>

-----------------------------------------------------------------------------
(* Properties *)

\* A SubscribeChanWithContext that is cancelled or times out is an error to
\* its caller and no more (client.go: it "supports control by the context,
\* timeouts, cancellation").
CancelledIsHarmless == ~(crashed /\ subscribing = "failed")
=============================================================================
