-------------------------- MODULE ClientConnProofs --------------------------
(***************************************************************************)
(* Proof about ClientConn that no connection leaks, for any number of      *)
(* connections, generations and losses and whatever the application does.  *)
(***************************************************************************)
EXTENDS ClientConn, TLAPS

\* The invariant: doReconnect has closed c.conn from the time it closes it to
\* the time it replaces it, whoever else closes or breaks connections.
IInv ==
  /\ conn \in Conn /\ link \in [Conn -> {"none", "open", "broken", "closed"}]
  /\ OldConnectionsClosed
  /\ rec \in {"wait", "renew", "dial"} => link[conn] = "closed" /\ conn < MaxConn

\* ConnectWithContext opens one connection, and it is c.conn.
LEMMA InvInit == ASSUME Init PROVE IInv
  BY ConnConstants DEF Init, IInv, OldConnectionsClosed, Conn

\* What the goroutines of a connection do opens no connection and replaces
\* none; the last of them to return lets doReconnect go on.
LEMMA GoroutineStep ==
  ASSUME IInv, UNCHANGED <<conn, link>>, rec' = rec \/ rec' \notin {"wait", "renew", "dial"}
                                         \/ rec = "wait"
  PROVE  IInv'
  BY DEF IInv, OldConnectionsClosed

\* Each step of the client, of the application and of the network keeps it.
LEMMA InvStep == ASSUME IInv, [Next]_vars PROVE IInv'
<1>1. CASE Break
  BY <1>1 DEF Break, IInv, OldConnectionsClosed, recVars
<1>2. CASE Application \/ UNCHANGED vars
  <2>1. UNCHANGED <<conn, link, rec>>
    BY <1>2 DEF Application, EnableAutoReconnect, DisableAutoReconnect, CancelContext,
                PublishError, CloseCancel, vars, connVars, recVars
  <2> QED BY <2>1, GoroutineStep
<1>3. CASE ReconnectDialError \/ ReconnectCheck \/ ReconnectClear \/ RestoreEnd
  <2>1. UNCHANGED <<conn, link>> /\ rec' \notin {"wait", "renew", "dial"}
    BY <1>3 DEF ReconnectDialError, ReconnectCheck, ReconnectClear, RestoreEnd,
                ReconnectEnd, connVars
  <2> QED BY <2>1, GoroutineStep
<1>4. CASE \E s \in Sub : Restore(s)
  <2>1. UNCHANGED <<conn, link, rec>> BY <1>4 DEF Restore, connVars
  <2> QED BY <2>1, GoroutineStep
<1>5. CASE ReconnectClose
  BY <1>5, ConnConstants DEF ReconnectClose, IInv, OldConnectionsClosed, Conn
<1>6. CASE ReconnectRenew
  BY <1>6 DEF ReconnectRenew, IInv, OldConnectionsClosed, connVars
<1>7. CASE ReconnectDial
  <2>1. /\ conn' = conn + 1 /\ conn' \in Conn /\ rec' = "clear"
        /\ link' = [link EXCEPT ![conn + 1] = "open"]
    BY <1>7, ConnConstants DEF ReconnectDial, IInv, Conn
  <2>2. \A g \in Conn : link[g] \notin {"open", "broken"}
    BY <1>7 DEF ReconnectDial, IInv, OldConnectionsClosed
  <2> QED BY <2>1, <2>2 DEF IInv, OldConnectionsClosed
<1>8. CASE ClosePart
  <2>1. CASE CloseConn BY <2>1 DEF CloseConn, IInv, OldConnectionsClosed, recVars
  <2>2. CASE CloseDone \/ CloseWait \/ CloseClear
    <3>1. UNCHANGED <<conn, link, rec>>
      BY <2>2 DEF CloseDone, CloseWait, CloseClear, connVars, recVars
    <3> QED BY <3>1, GoroutineStep
  <2> QED BY <1>8, <2>1, <2>2 DEF ClosePart
<1>9. CASE \E t \in Thread : Start(t) \/ Trigger(t) \/ Return(t) \/ ReturnPanic(t)
  <2>1. /\ UNCHANGED <<conn, link>>
        /\ rec' = rec \/ rec' \notin {"wait", "renew", "dial"} \/ rec = "wait"
    BY <1>9 DEF Start, Trigger, TriggerCheck, TriggerLose, TriggerReconnect, Return,
                ReturnPanic, connVars, recVars
  <2> QED BY <2>1, GoroutineStep
<1>10. CASE \E g \in Conn : Recv(g) \/ HeartbeatDone(g) \/ HeartbeatError(g) \/ Mon(g)
  <2>1. UNCHANGED <<conn, link, rec>>
    BY <1>10 DEF Recv, RecvCheck, RecvMessage, RecvError, HeartbeatDone, HeartbeatError, Mon,
                 MonitorLost, MonitorDone, connVars, recVars
  <2> QED BY <2>1, GoroutineStep
<1> QED
  BY <1>1, <1>2, <1>3, <1>4, <1>5, <1>6, <1>7, <1>8, <1>9, <1>10 DEF Next, Reconnect

\* However often the client reconnects, is closed or loses its connection,
\* c.conn is the only connection that can be open.
THEOREM NoConnectionLeaks == Spec => []OldConnectionsClosed
<1>1. Init => IInv BY InvInit
<1>2. IInv /\ [Next]_vars => IInv' BY InvStep
<1>3. IInv => OldConnectionsClosed BY DEF IInv
<1> QED BY <1>1, <1>2, <1>3, PTL DEF Spec

-----------------------------------------------------------------------------
(* Types *)

\* What types need beyond themselves.  Only a loop comes to the deferred close
\* of its channel, and it has read from the client which channel that is; and
\* reconnect makes new channels only while a generation is left.
Captured ==
  /\ \A t \in Thread : pc[t] = "return" => t \in Loop
  /\ \A t \in Loop : pc[t] \notin {"none", "start", "exit", "crashed"} => cap[t] \in Gen
  /\ rec \in {"wait", "renew"} => done < gens

Threads ==
  /\ pc \in [Thread -> {"none", "start", "loop", "read", "trigger", "lose", "spawn",
                        "return", "exit", "crashed"}]
  /\ cap \in [Thread -> 0..MaxGen] /\ src \in [Conn -> 0..MaxConn]

\* ConnectWithContext leaves every variable with its type.
LEMMA TypeInit == ASSUME Init PROVE TypeOK /\ Captured
<1>1. Threads BY ConnConstants DEF Init, Threads, Thread, Loop, Monitor, Publisher, Conn
<1>2. app \in {sc.app : sc \in Scenario} /\ gens \in Gen /\ auto \in BOOLEAN
  BY ConnConstants DEF Init, Gen
<1>3. done \in Gen /\ conn \in Conn /\ breaks \in 0..MaxBreaks
      /\ link \in [Conn -> {"none", "open", "broken", "closed"}]
  BY ConnConstants DEF Init, Gen, Conn
<1>4. Captured BY DEF Init, Captured, Thread
<1> QED BY <1>1, <1>2, <1>3, <1>4 DEF Init, TypeOK, Threads

\* A goroutine that goes on keeps what it has captured, and one that ends
\* forgets it.
LEMMA GoOn ==
  ASSUME TypeOK, Captured, NEW t \in Thread,
         NEW l \in {"loop", "read", "trigger", "lose", "spawn", "return", "exit", "none"},
         Goto(t, l), cap' = cap \/ Forget(t, l),
         pc[t] \notin {"none", "start", "exit", "crashed"} \/ t \notin Loop,
         l = "return" => t \in Loop,
         src' \in [Conn -> 0..MaxConn], UNCHANGED <<done, gens>>,
         rec' \in {"wait", "renew"} => rec \in {"wait", "renew"}
  PROVE  Threads' /\ Captured'
<1>1. Threads'
  <2>1. 0 \in 0..MaxGen BY ConnConstants
  <2> QED BY <2>1 DEF TypeOK, Threads, Goto, Forget
<1>2. \A u \in Thread : pc'[u] = "return" => u \in Loop BY DEF TypeOK, Captured, Goto
<1>3. \A u \in Loop : pc'[u] \notin {"none", "start", "exit", "crashed"} => cap'[u] \in Gen
  <2> SUFFICES ASSUME NEW u \in Loop, pc'[u] \notin {"none", "start", "exit", "crashed"}
               PROVE  cap'[u] \in Gen
    OBVIOUS
  <2>1. u \in Thread BY DEF Thread
  <2>2. pc[u] \notin {"none", "start", "exit", "crashed"} /\ cap'[u] = cap[u]
    BY <2>1 DEF TypeOK, Goto, Forget
  <2> QED BY <2>2 DEF Captured
<1> QED BY <1>1, <1>2, <1>3 DEF Captured

\* Most steps of a goroutine change only where it is and what it has captured.
LEMMA SameRest ==
  ASSUME TypeOK, Threads',
         UNCHANGED <<chanVars, connVars, ctxDone, flagVars, recVars, closer>>
  PROVE  TypeOK'
<1>1. UNCHANGED <<app, gens, done, doneClosed, loopDone, conn, link, breaks, ctxDone, lost,
                  reconnecting, auto, rec, todo, active, closer>>
  BY DEF chanVars, connVars, flagVars, recVars
<1> QED BY <1>1 DEF TypeOK, Threads

\* The steps of the goroutines of a connection and of a publisher.
LEMMA GoroutineTypes ==
  ASSUME TypeOK, Captured,
         \/ \E t \in Thread : Start(t) \/ Trigger(t) \/ Return(t) \/ ReturnPanic(t)
         \/ \E g \in Conn : Recv(g) \/ HeartbeatDone(g) \/ HeartbeatError(g) \/ Mon(g)
         \/ PublishError
  PROVE  TypeOK' /\ Captured'
<1>1. ASSUME NEW t \in Thread, Start(t) PROVE TypeOK' /\ Captured'
  <2>1. /\ pc' = [pc EXCEPT ![t] = "loop"] /\ cap' = [cap EXCEPT ![t] = done]
        /\ done \in 0..MaxGen
    BY <1>1 DEF Start, Goto, TypeOK, Gen
  <2>2. Threads' BY <1>1, <2>1 DEF Start, TypeOK, Threads
  <2>3. Captured'
    BY <1>1, <2>1 DEF Start, TypeOK, Captured, Thread, chanVars, connVars, recVars
  <2> QED BY <1>1, <2>2, <2>3, SameRest DEF Start
<1>2. ASSUME NEW t \in Thread, Trigger(t) PROVE TypeOK' /\ Captured'
  <2>1. /\ AfterTrigger(t) \in {"return", "none", "exit"}
        /\ AfterTrigger(t) = "return" => t \in Loop
    BY DEF AfterTrigger
  <2>2. PICK l \in {"lose", "spawn", "return", "exit", "none"} :
          Goto(t, l) /\ Forget(t, l) /\ (l = "return" => t \in Loop)
    BY <1>2, <2>1 DEF Trigger, TriggerCheck, TriggerLose, TriggerReconnect
  <2>3. /\ pc[t] \notin {"none", "start", "exit", "crashed"}
        /\ UNCHANGED <<src, chanVars, connVars, ctxDone, auto, todo, active, closer>>
        /\ lost' \in BOOLEAN /\ reconnecting' \in BOOLEAN
        /\ rec' = rec \/ rec' = "check"
    BY <1>2 DEF Trigger, TriggerCheck, TriggerLose, TriggerReconnect, flagVars, recVars, TypeOK
  <2>4. Threads' /\ Captured'
    <3>1. src' \in [Conn -> 0..MaxConn] /\ UNCHANGED <<done, gens>>
      BY <2>3 DEF TypeOK, chanVars, connVars
    <3>2. rec' \in {"wait", "renew"} => rec \in {"wait", "renew"} BY <2>3
    <3> QED BY <2>2, <2>3, <3>1, <3>2, GoOn
  <2> QED BY <2>3, <2>4 DEF TypeOK, Threads, chanVars, connVars
<1>3. ASSUME NEW t \in Thread, Return(t) PROVE TypeOK' /\ Captured'
  <2>1. t \in Loop /\ cap[t] \in Gen /\ t[1] \in {"recv", "hb"}
    BY <1>3 DEF Return, Captured, Loop
  <2>2. loopDone' \in SUBSET ({"recv", "hb"} \X Gen) BY <1>3, <2>1 DEF Return, TypeOK
  <2>3. /\ Goto(t, "exit") /\ Forget(t, "exit")
        /\ UNCHANGED <<src, done, doneClosed, connVars, ctxDone, flagVars, todo, active>>
        /\ rec' = rec \/ (rec = "wait" /\ rec' = "renew")
        /\ closer' = closer \/ closer' = "clear"
        /\ pc[t] = "return"
    BY <1>3 DEF Return
  <2>4. Threads' /\ Captured' BY <2>3, GoOn DEF TypeOK, connVars
  <2> QED BY <2>2, <2>3, <2>4 DEF TypeOK, Threads, connVars, flagVars
<1>4. ASSUME NEW t \in Thread, ReturnPanic(t) PROVE TypeOK' /\ Captured'
  BY <1>4 DEF ReturnPanic, TypeOK, Captured, Thread, chanVars, connVars, flagVars
<1>5. ASSUME NEW g \in Conn, Recv(g) PROVE TypeOK' /\ Captured'
  <2>1. <<"recv", g>> \in Loop /\ <<"recv", g>> \in Thread BY DEF Loop, Thread
  <2>2. PICK l \in {"loop", "read", "trigger", "return"} : Goto(<<"recv", g>>, l)
    BY <1>5 DEF Recv, RecvCheck, RecvMessage, RecvError
  <2>3. /\ pc[<<"recv", g>>] \in {"loop", "read"}
        /\ src' \in [Conn -> 0..MaxConn]
        /\ UNCHANGED <<cap, chanVars, connVars, ctxDone, flagVars, recVars, closer>>
    BY <1>5, ConnConstants DEF Recv, RecvCheck, RecvMessage, RecvError, TypeOK, Conn
  <2>4. Threads' /\ Captured'
    BY <2>1, <2>2, <2>3, GoOn DEF chanVars, connVars, recVars
  <2> QED BY <2>3, <2>4, SameRest
<1>6. ASSUME NEW g \in Conn, HeartbeatDone(g) \/ HeartbeatError(g) PROVE TypeOK' /\ Captured'
  <2>1. <<"hb", g>> \in Loop /\ <<"hb", g>> \in Thread BY DEF Loop, Thread
  <2>2. PICK l \in {"trigger", "return"} : Goto(<<"hb", g>>, l)
    BY <1>6 DEF HeartbeatDone, HeartbeatError
  <2>3. /\ pc[<<"hb", g>>] = "loop"
        /\ UNCHANGED <<cap, src, chanVars, connVars, ctxDone, flagVars, recVars, closer>>
    BY <1>6 DEF HeartbeatDone, HeartbeatError
  <2>4. Threads' /\ Captured'
    BY <2>1, <2>2, <2>3, GoOn DEF TypeOK, chanVars, connVars, recVars
  <2> QED BY <2>3, <2>4, SameRest
<1>7. ASSUME NEW g \in Conn, Mon(g) PROVE TypeOK' /\ Captured'
  <2>1. <<"mon", g>> \in Thread BY DEF Monitor, Thread
  <2>2. PICK l \in {"trigger", "exit"} :
          Goto(<<"mon", g>>, l) /\ (cap' = cap \/ Forget(<<"mon", g>>, l))
    BY <1>7 DEF Mon, MonitorLost, MonitorDone
  <2>3. /\ pc[<<"mon", g>>] = "loop"
        /\ UNCHANGED <<src, chanVars, connVars, ctxDone, flagVars, recVars, closer>>
    BY <1>7 DEF Mon, MonitorLost, MonitorDone
  <2>4. Threads' /\ Captured'
    BY <2>1, <2>2, <2>3, GoOn DEF TypeOK, chanVars, connVars, recVars
  <2> QED BY <2>3, <2>4, SameRest
<1>8. CASE PublishError
  <2>1. Publisher \in Thread /\ Publisher \notin Loop BY DEF Publisher, Thread, Loop
  <2>2. Threads' /\ Captured'
    BY <1>8, <2>1, GoOn DEF PublishError, TypeOK, chanVars, connVars, recVars
  <2> QED BY <1>8, <2>2, SameRest DEF PublishError
<1> QED BY <1>1, <1>2, <1>3, <1>4, <1>5, <1>6, <1>7, <1>8

\* The steps of reconnect.
LEMMA ReconnectTypes ==
  ASSUME TypeOK, Captured, IInv, Reconnect \/ ReconnectDialError
  PROVE  TypeOK' /\ Captured'
<1>1. CASE ReconnectCheck \/ RestoreEnd \/ ReconnectDialError \/ ReconnectClear
  <2>1. /\ UNCHANGED <<pc, cap, src, chanVars, connVars, ctxDone, auto, active, closer>>
        /\ rec' \in {"sleep", "idle", "check", "restore"}
        /\ reconnecting' \in BOOLEAN /\ lost' \in BOOLEAN /\ todo' \in SUBSET Sub
    BY <1>1 DEF ReconnectCheck, RestoreEnd, ReconnectDialError, ReconnectClear, ReconnectEnd,
                flagVars, TypeOK
  <2> QED BY <2>1 DEF TypeOK, Captured, chanVars, connVars
<1>2. CASE ReconnectClose
  <2>1. /\ UNCHANGED <<app, gens, pc, cap, src, done, loopDone, conn, breaks, ctxDone,
                       flagVars, todo, active, closer>>
        /\ rec' \in {"wait", "renew"} /\ done < gens
        /\ doneClosed' \in SUBSET Gen
        /\ link' \in [Conn -> {"none", "open", "broken", "closed"}]
    BY <1>2 DEF ReconnectClose, TypeOK
  <2> QED BY <2>1 DEF TypeOK, Captured, flagVars
<1>3. CASE ReconnectRenew
  <2>1. /\ UNCHANGED <<pc, cap, src, doneClosed, loopDone, connVars, ctxDone, flagVars, todo,
                       active, closer>>
        /\ rec' = "dial"
    BY <1>3 DEF ReconnectRenew
  <2>2. done' \in Gen
    BY <1>3, ConnConstants DEF ReconnectRenew, TypeOK, Captured, Gen
  <2> QED BY <2>1, <2>2 DEF TypeOK, Captured, connVars, flagVars
<1>4. CASE ReconnectDial
  <2>1. /\ UNCHANGED <<app, gens, cap, src, chanVars, breaks, ctxDone, flagVars, todo, active,
                       closer>>
        /\ rec' = "clear" /\ link' \in [Conn -> {"none", "open", "broken", "closed"}]
        /\ pc' = Spawned(conn + 1)
    BY <1>4 DEF ReconnectDial, TypeOK
  <2>2. conn' \in Conn BY <1>4, ConnConstants DEF ReconnectDial, IInv, Conn
  <2>3. /\ \A t \in Thread : pc'[t] = "start" \/ pc'[t] = pc[t]
        /\ DOMAIN pc' = Thread /\ Threads'
    BY <2>1 DEF Spawned, TypeOK, Threads
  <2>4. Captured' BY <2>1, <2>3 DEF Captured, Thread, chanVars
  <2> QED BY <2>1, <2>2, <2>3, <2>4 DEF TypeOK, Threads, chanVars, flagVars
<1>5. CASE \E s \in Sub : Restore(s)
  BY <1>5 DEF Restore, TypeOK, Captured, chanVars, connVars, flagVars
<1> QED BY <1>1, <1>2, <1>3, <1>4, <1>5 DEF Reconnect

\* The steps of the network, the application and Client.Close, and stuttering.
LEMMA OtherTypes ==
  ASSUME TypeOK, Captured, ClosePart \/ Break \/ UNCHANGED vars \/ EnableAutoReconnect
                           \/ DisableAutoReconnect \/ CancelContext \/ CloseCancel
  PROVE  TypeOK' /\ Captured'
<1>1. /\ UNCHANGED <<app, gens, pc, cap, src, done, loopDone, conn, lost, reconnecting, rec,
                     todo>>
      /\ auto' \in BOOLEAN /\ ctxDone' \in BOOLEAN /\ active' \in SUBSET Sub
  BY DEF ClosePart, CloseDone, CloseWait, CloseClear, CloseConn, Break, EnableAutoReconnect,
         DisableAutoReconnect, CancelContext, CloseCancel, TypeOK, vars, chanVars, connVars,
         flagVars, recVars
<1>2. /\ closer' \in {"idle", "cancelled", "done", "wait", "clear", "conn", "returned",
                      "crashed"}
      /\ doneClosed' \in SUBSET Gen
  BY DEF ClosePart, CloseDone, CloseWait, CloseClear, CloseConn, Break, EnableAutoReconnect,
         DisableAutoReconnect, CancelContext, CloseCancel, TypeOK, vars, chanVars
<1>3. /\ link' \in [Conn -> {"none", "open", "broken", "closed"}]
      /\ breaks' \in 0..MaxBreaks
  BY ConnConstants
     DEF ClosePart, CloseDone, CloseWait, CloseClear, CloseConn, Break, EnableAutoReconnect,
         DisableAutoReconnect, CancelContext, CloseCancel, TypeOK, vars, connVars
<1> QED BY <1>1, <1>2, <1>3 DEF TypeOK, Captured

\* Every variable of the client keeps its type.  In particular the
\* generations of channels stay in bounds, and a loop closes a channel it has
\* read from the client.
THEOREM TypeCorrect == Spec => []TypeOK
<1>1. Init => IInv /\ TypeOK /\ Captured BY InvInit, TypeInit
<1>2. IInv /\ TypeOK /\ Captured /\ [Next]_vars => (IInv /\ TypeOK /\ Captured)'
  BY InvStep, GoroutineTypes, ReconnectTypes, OtherTypes DEF Next, Application
<1> QED BY <1>1, <1>2, PTL DEF Spec
=============================================================================
