----------------------------- MODULE ClientConn -----------------------------
(***************************************************************************)
(* The connection of a client (client/client.go): the goroutines that      *)
(* receive, send heartbeats and monitor, the detection of a lost           *)
(* connection, the goroutine that reconnects and restores subscriptions,   *)
(* and Client.Close.                                                       *)
(*                                                                         *)
(* doReconnect replaces c.done, c.receiveLoopDone and c.heartbeatDone, so  *)
(* a channel is named by its generation: 1 from Connect, one more for each *)
(* call of doReconnect.  Connections are numbered, and the goroutines      *)
(* started for one carry its number.  A goroutine reads the fields of the  *)
(* client when it starts, which may be after they were replaced.           *)
(*                                                                         *)
(* KCP has no end-of-connection message: a connection whose peer is gone   *)
(* is "broken" and is noticed by a read deadline or a failed write.  c.conn *)
(* is never nil after Connect, so those branches of the code are left out. *)
(***************************************************************************)
EXTENDS Naturals, FiniteSets

CONSTANTS
  MaxConn,    \* bound: connections that are dialled
  MaxGen,     \* bound: generations of the channels
  MaxBreaks,  \* bound: how often the network breaks a connection
  Sub,        \* the client's subscriptions
  Scenario    \* what the application does: records of auto, whether it has
              \* called EnableAutoReconnect at the start, app, its later calls,
              \* and gens, the bound on the generations of that behaviour

ASSUME ConnConstants ==
  /\ MaxGen \in Nat \ {0} /\ MaxConn \in 1..MaxGen /\ MaxBreaks \in Nat
  /\ \A sc \in Scenario :
       /\ sc.auto \in BOOLEAN /\ sc.gens \in 1..MaxGen
       /\ sc.app \subseteq {"enable", "disable", "cancel", "publish", "close"}

Gen == 1..MaxGen
Conn == 1..MaxConn
Loop == {"recv", "hb"} \X Conn         \* the goroutines that c.wg counts
Monitor == {"mon"} \X Conn
Publisher == <<"pub", 0>>             \* an application goroutine that publishes
Thread == Loop \cup Monitor \cup {Publisher}

VARIABLES
  app,           \* what the application may still do
  gens,          \* bound: the generations of this behaviour
  pc,            \* where each goroutine is
  cap,           \* the generation of the channels it has read from the client
  src,           \* the connection a receiveLoop reads from
  done,          \* c.done, c.receiveLoopDone, c.heartbeatDone: a generation
  conn,          \* c.conn
  doneClosed, loopDone,   \* the closed channels: generations; threads' kinds
  link,          \* the state of each connection
  ctxDone,       \* c.ctx is cancelled
  lost, reconnecting, auto,   \* c.connectionLost, c.reconnecting, c.autoReconnect
  rec, todo,     \* the goroutine of reconnect, and what it has to restore
  active,        \* the subscriptions that are active
  closer,        \* where Client.Close is
  breaks         \* how often the network has failed

chanVars == <<done, doneClosed, loopDone>>
connVars == <<app, gens, conn, link, breaks>>
flagVars == <<lost, reconnecting, auto>>
recVars == <<rec, todo, active>>
vars == <<pc, cap, src, chanVars, connVars, ctxDone, flagVars, recVars, closer>>

\* The goroutines that have called c.wg.Add(1) and not yet c.wg.Done().
Counted == {t \in Loop : pc[t] \notin {"none", "start", "exit"}}

Spawned(g) == [t \in Thread |-> IF t[2] = g THEN "start" ELSE pc[t]]

\* ConnectWithContext
Init ==
  /\ pc = [t \in Thread |-> IF t[2] = 1 THEN "start" ELSE "none"]
  /\ cap = [t \in Thread |-> 0] /\ src = [g \in Conn |-> 0]
  /\ done = 1 /\ doneClosed = {} /\ loopDone = {}
  /\ conn = 1 /\ link = [g \in Conn |-> IF g = 1 THEN "open" ELSE "none"] /\ breaks = 0
  /\ ctxDone = FALSE /\ lost = FALSE /\ reconnecting = FALSE
  /\ \E sc \in Scenario : auto = sc.auto /\ app = sc.app /\ gens = sc.gens
  /\ rec = "idle" /\ todo = {} /\ active = Sub
  /\ closer = "idle"

-----------------------------------------------------------------------------
(* The network and the application *)

Break ==
  /\ link[conn] = "open" /\ breaks < MaxBreaks
  /\ link' = [link EXCEPT ![conn] = "broken"] /\ breaks' = breaks + 1
  /\ UNCHANGED <<app, gens, pc, cap, src, chanVars, conn, ctxDone, flagVars, recVars, closer>>

EnableAutoReconnect ==
  /\ "enable" \in app /\ ~auto
  /\ auto' = TRUE
  /\ UNCHANGED <<pc, cap, src, chanVars, connVars, ctxDone, lost, reconnecting, recVars,
                 closer>>

DisableAutoReconnect ==
  /\ "disable" \in app /\ auto
  /\ auto' = FALSE
  /\ UNCHANGED <<pc, cap, src, chanVars, connVars, ctxDone, lost, reconnecting, recVars,
                 closer>>

\* The context given to ConnectWithContext is cancelled.
CancelContext ==
  /\ "cancel" \in app /\ ~ctxDone
  /\ ctxDone' = TRUE
  /\ UNCHANGED <<pc, cap, src, chanVars, connVars, flagVars, recVars, closer>>

-----------------------------------------------------------------------------
(* receiveLoop, heartbeat, MonitorConnection, Publish *)

\* A goroutine that ends, or leaves a read, forgets what it had captured.
Goto(t, label) == pc' = [pc EXCEPT ![t] = label]
Forget(t, label) ==
  cap' = IF label \in {"exit", "none"} THEN [cap EXCEPT ![t] = 0] ELSE cap

\* The goroutine runs at last: c.wg.Add(1), and the channels it will use.
Start(t) ==
  /\ pc[t] = "start"
  /\ Goto(t, "loop") /\ cap' = [cap EXCEPT ![t] = done]
  /\ UNCHANGED <<src, chanVars, connVars, ctxDone, flagVars, recVars, closer>>

\* receiveLoop: select on c.done and c.ctx.Done(), then read c.conn.
RecvCheck(g) ==
  LET t == <<"recv", g>> IN
  /\ pc[t] = "loop"
  /\ IF done \in doneClosed \/ ctxDone
     THEN Goto(t, "return") /\ UNCHANGED src
     ELSE Goto(t, "read") /\ src' = [src EXCEPT ![g] = conn]
  /\ UNCHANGED <<cap, chanVars, connVars, ctxDone, flagVars, recVars, closer>>

\* ParseFromReader returns a message (PONGs at least); handleMessage.
RecvMessage(g) ==
  LET t == <<"recv", g>> IN
  /\ pc[t] = "read" /\ link[src[g]] = "open"
  /\ Goto(t, "loop") /\ src' = [src EXCEPT ![g] = 0]
  /\ UNCHANGED <<cap, chanVars, connVars, ctxDone, flagVars, recVars, closer>>

\* ParseFromReader fails: the connection is closed, or nothing came before
\* the deadline because the peer is gone or no heartbeat asks for a PONG.
RecvError(g) ==
  LET t == <<"recv", g>> IN
  /\ pc[t] = "read" /\ (link[src[g]] # "open" \/ cap[t] \in doneClosed)
  /\ Goto(t, "trigger") /\ src' = [src EXCEPT ![g] = 0]
  /\ UNCHANGED <<cap, chanVars, connVars, ctxDone, flagVars, recVars, closer>>

\* heartbeat: case <-c.done
HeartbeatDone(g) ==
  LET t == <<"hb", g>> IN
  /\ pc[t] = "loop" /\ cap[t] \in doneClosed
  /\ Goto(t, "return")
  /\ UNCHANGED <<cap, src, chanVars, connVars, ctxDone, flagVars, recVars, closer>>

\* heartbeat: the write of a PING fails.  (One that succeeds changes nothing.)
HeartbeatError(g) ==
  LET t == <<"hb", g>> IN
  /\ pc[t] = "loop" /\ link[conn] # "open"
  /\ Goto(t, "trigger")
  /\ UNCHANGED <<cap, src, chanVars, connVars, ctxDone, flagVars, recVars, closer>>

\* MonitorConnection: one of its two loops has ended ...
MonitorLost(g) ==
  LET t == <<"mon", g>> IN
  /\ pc[t] = "loop" /\ \E kind \in {"recv", "hb"} : <<kind, cap[t]>> \in loopDone
  /\ Goto(t, "trigger")
  /\ UNCHANGED <<cap, src, chanVars, connVars, ctxDone, flagVars, recVars, closer>>

\* ... or the client closes the channel or cancels the context.
MonitorDone(g) ==
  LET t == <<"mon", g>> IN
  /\ pc[t] = "loop" /\ (cap[t] \in doneClosed \/ ctxDone)
  /\ Goto(t, "exit") /\ Forget(t, "exit")
  /\ UNCHANGED <<src, chanVars, connVars, ctxDone, flagVars, recVars, closer>>

\* PublishWithContext: the write fails.
PublishError ==
  /\ "publish" \in app /\ pc[Publisher] = "none" /\ link[conn] # "open"
  /\ Goto(Publisher, "trigger")
  /\ UNCHANGED <<cap, src, chanVars, connVars, ctxDone, flagVars, recVars, closer>>

-----------------------------------------------------------------------------
(* triggerConnectionLost *)

\* Where a goroutine goes after the call: a loop returns, the monitor ends,
\* the publisher goes back to the application.
AfterTrigger(t) ==
  IF t \in Loop THEN "return" ELSE IF t = Publisher THEN "none" ELSE "exit"

\* select on c.done, then on c.ctx.Done()
TriggerCheck(t) ==
  /\ pc[t] = "trigger"
  /\ LET label == IF done \in doneClosed \/ ctxDone THEN AfterTrigger(t) ELSE "lose"
     IN Goto(t, label) /\ Forget(t, label)
  /\ UNCHANGED <<src, chanVars, connVars, ctxDone, flagVars, recVars, closer>>

\* connectionLost.CompareAndSwap(false, true)
TriggerLose(t) ==
  /\ pc[t] = "lose"
  /\ lost' = TRUE
  /\ LET label == IF lost THEN AfterTrigger(t) ELSE "spawn"
     IN Goto(t, label) /\ Forget(t, label)
  /\ UNCHANGED <<src, chanVars, connVars, ctxDone, reconnecting, auto, recVars,
                 closer>>

\* if autoReconnect { c.reconnect() }, which returns at once when
\* reconnecting.CompareAndSwap(false, true) fails.
TriggerReconnect(t) ==
  /\ pc[t] = "spawn"
  /\ Goto(t, AfterTrigger(t)) /\ Forget(t, AfterTrigger(t))
  /\ IF auto /\ ~reconnecting
     THEN reconnecting' = TRUE /\ rec' = "check"
     ELSE UNCHANGED <<reconnecting, rec>>
  /\ UNCHANGED <<src, chanVars, connVars, ctxDone, lost, auto, todo, active,
                 closer>>

\* The deferred close of the loop's channel and c.wg.Done(): the last Done
\* releases everyone who waits for the group.
Return(t) ==
  /\ pc[t] = "return"
  /\ <<t[1], cap[t]>> \notin loopDone
  /\ loopDone' = loopDone \cup {<<t[1], cap[t]>>}
  /\ Goto(t, "exit") /\ Forget(t, "exit")
  /\ LET last == Counted = {t} IN
     /\ rec' = IF last /\ rec = "wait" THEN "renew" ELSE rec
     /\ closer' = IF last /\ closer = "wait" THEN "clear" ELSE closer
  /\ UNCHANGED <<src, done, doneClosed, connVars, ctxDone, flagVars, todo, active>>

\* Two loops that took the same channel: the second close panics, and the
\* process ends.
ReturnPanic(t) ==
  /\ pc[t] = "return"
  /\ <<t[1], cap[t]>> \in loopDone
  /\ pc' = [u \in Thread |-> "crashed"] /\ rec' = "crashed" /\ closer' = "crashed"
  /\ UNCHANGED <<cap, src, chanVars, connVars, ctxDone, flagVars, todo, active>>

-----------------------------------------------------------------------------
(* reconnect, doReconnect and restoreSubscriptions *)

ReconnectEnd == rec' = "idle" /\ reconnecting' = FALSE

\* The head of the loop of reconnect.
ReconnectCheck ==
  /\ rec = "check"
  /\ IF auto /\ done \notin doneClosed
     THEN rec' = "sleep" /\ UNCHANGED reconnecting
     ELSE ReconnectEnd
  /\ UNCHANGED <<pc, cap, src, chanVars, connVars, ctxDone, lost, auto, todo, active,
                 closer>>

\* Mutant: doReconnect does not close the old connection.
ReconnectKeepsOld ==
  /\ rec = "sleep" /\ done < gens /\ conn < MaxConn
  /\ doneClosed' = doneClosed \cup {done}
  /\ rec' = IF Counted = {} THEN "renew" ELSE "wait"
  /\ UNCHANGED <<pc, cap, src, done, loopDone, connVars, ctxDone, flagVars, todo,
                 active, closer>>

\* The delay is over: doReconnect closes the old channel and the old
\* connection and waits for the group.
ReconnectClose ==
  /\ rec = "sleep" /\ done < gens /\ conn < MaxConn
  /\ doneClosed' = doneClosed \cup {done}
  /\ link' = [link EXCEPT ![conn] = "closed"]
  /\ rec' = IF Counted = {} THEN "renew" ELSE "wait"
  /\ UNCHANGED <<app, gens, pc, cap, src, done, loopDone, conn, breaks, ctxDone, flagVars, todo,
                 active, closer>>

\* Three new channels.
ReconnectRenew ==
  /\ rec = "renew"
  /\ done' = done + 1 /\ rec' = "dial"
  /\ UNCHANGED <<pc, cap, src, doneClosed, loopDone, connVars, ctxDone, flagVars, todo,
                 active, closer>>

\* DialWithOptions fails; try again after a longer delay.
ReconnectDialError ==
  /\ rec = "dial" /\ done < gens
  /\ rec' = "check"
  /\ UNCHANGED <<pc, cap, src, chanVars, connVars, ctxDone, flagVars, todo, active,
                 closer>>

\* DialWithOptions succeeds, c.conn is set and the goroutines are started.
ReconnectDial ==
  /\ rec = "dial"
  /\ conn' = conn + 1 /\ link' = [link EXCEPT ![conn + 1] = "open"]
  /\ pc' = Spawned(conn + 1)
  /\ rec' = "clear"
  /\ UNCHANGED <<app, gens, cap, src, chanVars, breaks, ctxDone, flagVars, todo, active, closer>>

\* connectionLost.Store(false); the list of subscriptions is copied.
ReconnectClear ==
  /\ rec = "clear"
  /\ lost' = FALSE
  /\ rec' = "restore" /\ todo' = active
  /\ UNCHANGED <<pc, cap, src, chanVars, connVars, ctxDone, reconnecting, auto, active,
                 closer>>

\* Mutant: the result of restoreOneSubscription is read the wrong way round.
RestoreAlwaysFails(s) ==
  /\ rec = "restore" /\ s \in todo
  /\ todo' = todo \ {s} /\ active' = active \ {s}
  /\ UNCHANGED <<pc, cap, src, chanVars, connVars, ctxDone, flagVars, rec, closer>>

\* An OK can come back: the connection works and a receiveLoop reads it.
Answered ==
  /\ link[conn] = "open" /\ done \notin doneClosed /\ ~ctxDone
  /\ \E g \in Conn : pc[<<"recv", g>>] \in {"start", "loop", "read"}

\* restoreOneSubscription: the server acknowledges in one of three attempts
\* (sendSubWithAck), or none of them is answered and the subscription is made
\* inactive.
Restore(s) ==
  /\ rec = "restore" /\ s \in todo
  /\ todo' = todo \ {s}
  /\ active' = IF Answered THEN active ELSE active \ {s}
  /\ UNCHANGED <<pc, cap, src, chanVars, connVars, ctxDone, flagVars, rec, closer>>

RestoreEnd ==
  /\ rec = "restore" /\ todo = {}
  /\ ReconnectEnd
  /\ UNCHANGED <<pc, cap, src, chanVars, connVars, ctxDone, lost, auto, todo, active,
                 closer>>

-----------------------------------------------------------------------------
(* Client.Close *)

\* c.cancel()
CloseCancel ==
  /\ "close" \in app /\ closer = "idle"
  /\ ctxDone' = TRUE /\ closer' = "cancelled"
  /\ UNCHANGED <<pc, cap, src, chanVars, connVars, flagVars, recVars>>

\* Mutant: Close does not close the channel.
CloseDoneForgotten ==
  /\ closer = "cancelled"
  /\ closer' = "done"
  /\ UNCHANGED <<pc, cap, src, chanVars, connVars, ctxDone, flagVars, recVars>>

\* safeClose(c.done)
CloseDone ==
  /\ closer = "cancelled"
  /\ doneClosed' = doneClosed \cup {done} /\ closer' = "done"
  /\ UNCHANGED <<pc, cap, src, done, loopDone, connVars, ctxDone, flagVars, recVars>>

\* c.wg.Wait() is called
CloseWait ==
  /\ closer = "done"
  /\ closer' = IF Counted = {} THEN "clear" ELSE "wait"
  /\ UNCHANGED <<pc, cap, src, chanVars, connVars, ctxDone, flagVars, recVars>>

\* The subscriptions are made inactive and dropped.
CloseClear ==
  /\ closer = "clear"
  /\ active' = {} /\ closer' = "conn"
  /\ UNCHANGED <<pc, cap, src, chanVars, connVars, ctxDone, flagVars, rec, todo>>

\* c.conn.Close()
CloseConn ==
  /\ closer = "conn"
  /\ link' = [link EXCEPT ![conn] = "closed"] /\ closer' = "returned"
  /\ UNCHANGED <<app, gens, pc, cap, src, chanVars, conn, breaks, ctxDone, flagVars, recVars>>

-----------------------------------------------------------------------------
Recv(g) == RecvCheck(g) \/ RecvMessage(g) \/ RecvError(g)
Mon(g) == MonitorLost(g) \/ MonitorDone(g)
Trigger(t) == TriggerCheck(t) \/ TriggerLose(t) \/ TriggerReconnect(t)

Reconnect ==
  \/ ReconnectCheck \/ ReconnectClose \/ ReconnectRenew \/ ReconnectDial
  \/ ReconnectClear \/ (\E s \in Sub : Restore(s)) \/ RestoreEnd

ClosePart == CloseDone \/ CloseWait \/ CloseClear \/ CloseConn

Application ==
  \/ EnableAutoReconnect \/ DisableAutoReconnect \/ CancelContext
  \/ PublishError \/ CloseCancel

Next ==
  \/ Break \/ Application \/ ReconnectDialError \/ Reconnect \/ ClosePart
  \/ \E t \in Thread : Start(t) \/ Trigger(t) \/ Return(t) \/ ReturnPanic(t)
  \/ \E g \in Conn : Recv(g) \/ HeartbeatDone(g) \/ HeartbeatError(g) \/ Mon(g)

Spec == Init /\ [][Next]_vars

\* Goroutines run.  A receiveLoop in a read gets a message or its deadline;
\* nothing has to break, the application need not do anything, and a
\* heartbeat into a dead connection need not fail.
Fairness ==
  /\ WF_vars(Reconnect) /\ WF_vars(ClosePart)
  /\ \A t \in Thread : WF_vars(Start(t) \/ Trigger(t) \/ Return(t) \/ ReturnPanic(t))
  /\ \A g \in Conn : /\ WF_vars(Recv(g)) /\ WF_vars(Mon(g))
                    /\ WF_vars(HeartbeatDone(g))

FairSpec == Spec /\ Fairness

-----------------------------------------------------------------------------
(* Properties *)

TypeOK ==
  /\ app \in {sc.app : sc \in Scenario} /\ gens \in Gen
  /\ pc \in [Thread -> {"none", "start", "loop", "read", "trigger", "lose", "spawn",
                        "return", "exit", "crashed"}]
  /\ cap \in [Thread -> 0..MaxGen] /\ src \in [Conn -> 0..MaxConn]
  /\ done \in Gen /\ doneClosed \in SUBSET Gen /\ loopDone \in SUBSET ({"recv", "hb"} \X Gen)
  /\ conn \in Conn /\ link \in [Conn -> {"none", "open", "broken", "closed"}]
  /\ breaks \in 0..MaxBreaks
  /\ ctxDone \in BOOLEAN /\ lost \in BOOLEAN /\ reconnecting \in BOOLEAN
  /\ auto \in BOOLEAN
  /\ rec \in {"idle", "check", "sleep", "wait", "renew", "dial", "clear", "restore",
             "crashed"}
  /\ todo \in SUBSET Sub /\ active \in SUBSET Sub
  /\ closer \in {"idle", "cancelled", "done", "wait", "clear", "conn", "returned", "crashed"}

\* No connection is forgotten open: all but c.conn are closed, however often
\* doReconnect replaces it (client.go doReconnect closes oldConn first).
OldConnectionsClosed ==
  \A g \in Conn : link[g] \in {"open", "broken"} => g = conn

Idle(t) == pc[t] \in {"none", "exit"}

\* No reconnection has begun or will: the channels are those of Connect, and
\* no goroutine is past the checks of triggerConnectionLost, or auto-reconnect
\* stays off.
Settled ==
  /\ done = 1 /\ ~reconnecting
  /\ \/ \A t \in Thread : pc[t] \notin {"lose", "spawn"}
     \/ ~auto /\ "enable" \notin app

\* Client.Close returns and every goroutine of the client ends, the monitor
\* too, unless a reconnection has begun when the context is cancelled: with
\* auto-reconnect on, a loss noticed later starts none (client.go Close,
\* triggerConnectionLost).
CloseStopsLoops ==
  closer = "cancelled" /\ Settled ~>
    closer = "returned" /\ \A t \in Loop \cup Monitor : Idle(t)

\* With auto-reconnect on before the loss is noticed, a connection the network
\* broke is replaced by a working one on which every subscription is restored,
\* unless the client is being closed or auto-reconnect turned off (reconnect,
\* doReconnect, restoreSubscriptions).  gens > 1: a reconnection is in bounds.
Recovers ==
  link[conn] = "broken" /\ auto /\ ~lost /\ gens > 1 ~>
    \/ link[conn] = "open" /\ rec = "idle" /\ active = Sub
    \/ ctxDone \/ ~auto

\* While the connection is known to be lost and auto-reconnect is on, some
\* goroutine is reconnecting or about to start it (triggerConnectionLost).
LossIsHandled ==
  lost /\ auto /\ ~ctxDone => reconnecting \/ \E t \in Thread : pc[t] = "spawn"
=============================================================================
