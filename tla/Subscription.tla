---------------------------- MODULE Subscription ----------------------------
(***************************************************************************)
(* One subscription of a client (client/subscription.go): receiveLoop's    *)
(* handleMessage puts messages into its bounded channel with TryEnqueue,   *)
(* the processor goroutine takes them out and runs the callback, and       *)
(* Unsubscribe, which any number of goroutines may call, stops it.         *)
(***************************************************************************)
EXTENDS Naturals, Sequences

CONSTANTS
  Caller,       \* goroutines that call Unsubscribe
  MaxMsg,       \* bound: messages that arrive
  Cap,          \* capacity of msgChan
  Deactivation  \* what else may clear the flag: "restore" and "close"

ASSUME SubscriptionConstants ==
  /\ MaxMsg \in Nat /\ Cap \in Nat \ {0}
  /\ Deactivation \subseteq {"restore", "close"}

VARIABLES
  arrived,    \* how many messages have arrived; the last one is in hand
  recv,       \* where handleMessage is
  active, listed,       \* the flag; the subscription is in c.subscriptions
  msgChan, chanClosed,  \* the channel of messages, and whether it is closed
  proc, inCallback,     \* the processor, and the message in its callback
  processed,  \* the messages whose callback has returned, in order
  dropped,    \* droppedCount
  refused,    \* messages turned away without being counted
  once,       \* how far the body of closeOnce has come
  caller      \* where each caller is

recvVars == <<arrived, recv, dropped, refused>>
procVars == <<proc, inCallback, processed>>
vars == <<recvVars, active, listed, msgChan, chanClosed, procVars, once, caller>>

Init ==
  /\ arrived = 0 /\ recv = "idle" /\ dropped = 0 /\ refused = 0
  /\ active = TRUE /\ listed = TRUE /\ msgChan = <<>> /\ chanClosed = FALSE
  /\ proc = "range" /\ inCallback = 0 /\ processed = <<>>
  /\ once = "unused" /\ caller = [u \in Caller |-> "idle"]

-----------------------------------------------------------------------------
(* handleMessage, which holds c.mu for reading until it is done *)

\* A matching message; the subscription is found in the list and active.
Receive ==
  /\ recv = "idle" /\ arrived < MaxMsg
  /\ arrived' = arrived + 1
  /\ IF listed /\ active THEN recv' = "check" /\ UNCHANGED refused
     ELSE refused' = refused + 1 /\ UNCHANGED recv
  /\ UNCHANGED <<dropped, active, listed, msgChan, chanClosed, procVars, once, caller>>

\* TryEnqueue: if !s.active.Load() { return false }
TryEnqueueCheck ==
  /\ recv = "check"
  /\ IF active THEN recv' = "send" /\ UNCHANGED refused
     ELSE recv' = "idle" /\ refused' = refused + 1
  /\ UNCHANGED <<arrived, dropped, active, listed, msgChan, chanClosed, procVars, once,
                 caller>>

\* Mutant: a full channel is not counted.
TryEnqueueUncounted ==
  /\ recv = "send" /\ recv' = "idle"
  /\ IF ~chanClosed /\ Len(msgChan) < Cap
     THEN msgChan' = Append(msgChan, arrived) ELSE UNCHANGED msgChan
  /\ UNCHANGED <<dropped, refused>>
  /\ UNCHANGED <<arrived, active, listed, chanClosed, procVars, once, caller>>

\* TryEnqueue: the select.  A send on the closed channel panics, and the
\* deferred recover makes TryEnqueue return false without counting.
TryEnqueueSend ==
  /\ recv = "send" /\ recv' = "idle"
  /\ \/ /\ ~chanClosed /\ Len(msgChan) < Cap
        /\ msgChan' = Append(msgChan, arrived) /\ UNCHANGED <<dropped, refused>>
     \/ /\ ~chanClosed /\ Len(msgChan) = Cap
        /\ dropped' = dropped + 1 /\ UNCHANGED <<msgChan, refused>>
     \/ /\ chanClosed
        /\ refused' = refused + 1 /\ UNCHANGED <<msgChan, dropped>>
  /\ UNCHANGED <<arrived, active, listed, chanClosed, procVars, once, caller>>

-----------------------------------------------------------------------------
(* The goroutine of startProcessing *)

\* Mutant: the newest message is taken first.
ProcessTakeLast ==
  /\ proc = "range" /\ msgChan # <<>>
  /\ inCallback' = msgChan[Len(msgChan)]
  /\ msgChan' = SubSeq(msgChan, 1, Len(msgChan) - 1) /\ proc' = "callback"
  /\ UNCHANGED <<recvVars, active, listed, chanClosed, processed, once, caller>>

ProcessTake ==
  /\ proc = "range" /\ msgChan # <<>>
  /\ inCallback' = Head(msgChan) /\ msgChan' = Tail(msgChan) /\ proc' = "callback"
  /\ UNCHANGED <<recvVars, active, listed, chanClosed, processed, once, caller>>

\* The callback returns and the message is counted.
ProcessDone ==
  /\ proc = "callback"
  /\ processed' = Append(processed, inCallback) /\ inCallback' = 0 /\ proc' = "range"
  /\ UNCHANGED <<recvVars, active, listed, msgChan, chanClosed, once, caller>>

\* Mutant: the processor ends as soon as the channel is closed.
ProcessExitEager ==
  /\ proc = "range" /\ chanClosed
  /\ proc' = "exit"
  /\ UNCHANGED <<recvVars, active, listed, msgChan, chanClosed, inCallback, processed,
                 once, caller>>

\* The range ends when the channel is closed and empty; wg.Done().
ProcessExit ==
  /\ proc = "range" /\ chanClosed /\ msgChan = <<>>
  /\ proc' = "exit"
  /\ UNCHANGED <<recvVars, active, listed, msgChan, chanClosed, inCallback, processed,
                 once, caller>>

-----------------------------------------------------------------------------
(* Unsubscribe *)

\* A call: the first one runs the body, the others wait for its end.
Unsubscribe(u) ==
  /\ caller[u] = "idle"
  /\ caller' = [caller EXCEPT ![u] = "called"]
  /\ once' = IF once = "unused" THEN "check" ELSE once
  /\ UNCHANGED <<recvVars, active, listed, msgChan, chanClosed, procVars>>

\* if !s.active.Load() { return }; s.active.Store(false)
UnsubscribeCheck ==
  /\ once = "check"
  /\ once' = IF active THEN "close" ELSE "done"
  /\ active' = FALSE
  /\ UNCHANGED <<recvVars, listed, msgChan, chanClosed, procVars, caller>>

\* Mutant: the channel is not closed.
UnsubscribeKeepsOpen ==
  /\ once = "close"
  /\ once' = "wait"
  /\ UNCHANGED <<recvVars, active, listed, msgChan, chanClosed, procVars, caller>>

\* close(s.msgChan)
UnsubscribeClose ==
  /\ once = "close"
  /\ chanClosed' = TRUE /\ once' = "wait"
  /\ UNCHANGED <<recvVars, active, listed, msgChan, procVars, caller>>

\* Mutant: Unsubscribe does not wait for the processor.
UnsubscribeNoWait ==
  /\ once = "wait"
  /\ once' = "write"
  /\ UNCHANGED <<recvVars, active, listed, msgChan, chanClosed, procVars, caller>>

\* s.wg.Wait()
UnsubscribeWait ==
  /\ once = "wait" /\ proc = "exit"
  /\ once' = "write"
  /\ UNCHANGED <<recvVars, active, listed, msgChan, chanClosed, procVars, caller>>

\* UNSUB is written and removeSubscription, which needs c.mu, called; or the
\* write fails and the subscription stays in the list.
UnsubscribeWrite ==
  /\ once = "write" /\ once' = "done"
  /\ \/ recv \in {"idle", "ended"} /\ listed' = FALSE
     \/ UNCHANGED listed
  /\ UNCHANGED <<recvVars, active, msgChan, chanClosed, procVars, caller>>

UnsubscribeReturn(u) ==
  /\ caller[u] = "called" /\ once = "done"
  /\ caller' = [caller EXCEPT ![u] = "returned"]
  /\ UNCHANGED <<recvVars, active, listed, msgChan, chanClosed, procVars, once>>

-----------------------------------------------------------------------------
(* The other places that end a subscription *)

\* restoreSubscriptions could not restore it.
RestoreFailed ==
  /\ "restore" \in Deactivation /\ active
  /\ active' = FALSE
  /\ UNCHANGED <<recvVars, listed, msgChan, chanClosed, procVars, once, caller>>

\* Client.Close, after receiveLoop has ended: the subscriptions in the list
\* are made inactive and the list is dropped.
ClientClosed ==
  /\ "close" \in Deactivation /\ recv = "idle"
  /\ active' = (active /\ ~listed) /\ listed' = FALSE /\ recv' = "ended"
  /\ UNCHANGED <<arrived, dropped, refused, msgChan, chanClosed, procVars, once, caller>>

-----------------------------------------------------------------------------
Processing == ProcessTake \/ ProcessDone \/ ProcessExit
Body == UnsubscribeCheck \/ UnsubscribeClose \/ UnsubscribeWait \/ UnsubscribeWrite

Next ==
  \/ Receive \/ TryEnqueueCheck \/ TryEnqueueSend
  \/ Processing \/ Body
  \/ \E u \in Caller : Unsubscribe(u) \/ UnsubscribeReturn(u)
  \/ RestoreFailed \/ ClientClosed

Spec == Init /\ [][Next]_vars

\* Goroutines run and callbacks return; messages and calls need not come.
Fairness ==
  /\ WF_vars(Processing) /\ WF_vars(Body)
  /\ WF_vars(TryEnqueueCheck \/ TryEnqueueSend)
  /\ \A u \in Caller : WF_vars(UnsubscribeReturn(u))

FairSpec == Spec /\ Fairness

-----------------------------------------------------------------------------
(* Properties *)

TypeOK ==
  /\ arrived \in 0..MaxMsg /\ dropped \in 0..MaxMsg /\ refused \in 0..MaxMsg
  /\ recv \in {"idle", "check", "send", "ended"}
  /\ active \in BOOLEAN /\ listed \in BOOLEAN /\ chanClosed \in BOOLEAN
  /\ msgChan \in Seq(1..MaxMsg) /\ Len(msgChan) <= Cap
  /\ proc \in {"range", "callback", "exit"} /\ inCallback \in 0..MaxMsg
  /\ processed \in Seq(1..MaxMsg)
  /\ once \in {"unused", "check", "close", "wait", "write", "done"}
  /\ caller \in [Caller -> {"idle", "called", "returned"}]

\* Every message that has arrived is in exactly one place, so the counters
\* of GetStats add up: processed, in the callback, queued, dropped because
\* the channel was full, turned away because the subscription was ending, or
\* still in TryEnqueue.
MessagesAccounted ==
  arrived = Len(processed) + (IF inCallback = 0 THEN 0 ELSE 1) + Len(msgChan)
              + dropped + refused + (IF recv \in {"check", "send"} THEN 1 ELSE 0)

\* The callback sees the messages in the order in which they arrived, each
\* at most once (msgChan has one sender and one receiver).
CallbackInOrder ==
  LET seen == processed \o (IF inCallback = 0 THEN <<>> ELSE <<inCallback>>) \o msgChan
  IN \A i, j \in 1..Len(seen) : i < j => seen[i] < seen[j]

\* When an Unsubscribe that stopped the subscription returns to anybody, no
\* callback runs or will run and no accepted message is left.
UnsubscribeQuiesces ==
  chanClosed /\ (\E u \in Caller : caller[u] = "returned") =>
    proc = "exit" /\ msgChan = <<>> /\ inCallback = 0

\* Unsubscribe returns to every caller (sync.Once, wg.Wait).
UnsubscribeReturns ==
  \A u \in Caller : caller[u] = "called" ~> caller[u] = "returned"

\* A message that was accepted into the channel is processed, also when the
\* subscription is ending (the range drains the closed channel).
AcceptedIsProcessed ==
  \A m \in 1..MaxMsg :
    (\E i \in 1..Len(msgChan) : msgChan[i] = m) ~>
      (\E i \in 1..Len(processed) : processed[i] = m)
=============================================================================
