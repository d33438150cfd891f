---------------------------- MODULE ServerProofs ----------------------------
(***************************************************************************)
(* Proofs about Server for every set of sessions and subjects and whatever *)
(* the clients send.                                                       *)
(***************************************************************************)
EXTENDS Server, TLAPS

-----------------------------------------------------------------------------
(* The inductive invariant *)

\* Before acceptLoop has registered a session nothing knows of it: no
\* goroutine of its own, no call of Close, no route, no send on its way.
Unconnected ==
  \A s \in Session :
    /\ reader[s] = "none" =>
         /\ closing[s] = "open" /\ s \notin pending /\ writer[s] = "none"
         /\ \A x \in Subject : <<x, s>> \notin subs
         /\ \A t \in Session : s \notin targets[t]
    /\ s \in accepted => reader[s] = "none"

\* The subject on its way out of the router is out of the list already, and
\* only the session's own reader could put it back.
Unlisted ==
  \A s \in Session, x \in Subject :
    reader[s] = "unroute" /\ request[s] = <<"UNSUB", x>> => x \notin subjects[s]

Safe == Unconnected /\ Unlisted /\ RouterMatchesSubjects /\ ListedUntilClosed /\ OneLateRoute

IInv == TypeOK /\ Safe

-----------------------------------------------------------------------------
(* Types *)

\* NewServer and Start leave every variable with its type.
LEMMA TypeInit == Init => TypeOK
BY ServerConstants DEF Init, TypeOK

\* No step of a goroutine takes a variable out of its type.
LEMMA TypeStep == TypeOK /\ [Next]_vars => TypeOK'
<1> SUFFICES ASSUME TypeOK, [Next]_vars
             PROVE  TypeOK'
  OBVIOUS
<1> USE DEF TypeOK, serverVars, readerVars, closeVars
<1>1. CASE Accepting
  BY <1>1 DEF Accepting, AcceptCheck, AcceptError, AcceptConn, Register
<1>2. ASSUME NEW s \in Session, Reading(s)
      PROVE  TypeOK'
  <2>1. CASE StartSession(s) \/ ReadCheck(s) \/ ReadError(s)
    BY <2>1 DEF StartSession, ReadCheck, ReadError, Goto
  <2>2. CASE DeferClose(s) \/ RemoveAfterStart(s)
    BY <2>2 DEF DeferClose, RemoveAfterStart, Goto
  <2>3. ASSUME NEW r \in plan[s], ReadRequest(s, r)
        PROVE  TypeOK'
    <3>1. r \in Requests
      BY ServerConstants
    <3>2. QED
      BY <2>3, <3>1 DEF ReadRequest, Goto
  <2>4. ASSUME NEW x \in Subject,
               \/ HandleSubscribe(s, x) \/ HandlePublish(s, x)
               \/ HandleUnsubscribe(s, x) \/ Unroute(s, x)
        PROVE  TypeOK'
    <3>1. CASE HandleSubscribe(s, x)
      BY <3>1 DEF HandleSubscribe, Goto
    <3>2. CASE HandlePublish(s, x)
      BY <3>2 DEF HandlePublish, FindSubscribers, Goto
    <3>3. CASE HandleUnsubscribe(s, x)
      BY <3>3 DEF HandleUnsubscribe, Goto
    <3>4. CASE Unroute(s, x)
      BY <3>4 DEF Unroute, Goto
    <3>5. QED
      BY <2>4, <3>1, <3>2, <3>3, <3>4
  <2>5. CASE HandleOther(s) \/ PublishEnd(s)
    BY <2>5 DEF HandleOther, PublishEnd, Goto
  <2>6. CASE Reply(s)
    BY <2>6 DEF Reply, SendTo, Goto
  <2>7. ASSUME NEW t \in Session, PublishTo(s, t)
        PROVE  TypeOK'
    BY <2>7 DEF PublishTo, SendTo
  <2>8. QED
    BY <1>2, <2>1, <2>2, <2>3, <2>4, <2>5, <2>6, <2>7 DEF Reading, Handling
<1>3. ASSUME NEW s \in Session, WriterDone(s) \/ WriterFail(s)
      PROVE  TypeOK'
  BY <1>3 DEF WriterDone, WriterFail
<1>4. ASSUME NEW s \in Session, Closing(s)
      PROVE  TypeOK'
  BY <1>4 DEF Closing, CloseFlag, CloseUnroute, CloseUnlist, CloseConn, CloseTo
<1>5. CASE ShutdownStart \/ ShuttingDown
  BY <1>5 DEF ShutdownStart, ShuttingDown, ShutdownLock, ShutdownNext
<1>6. CASE UNCHANGED vars
  BY <1>6 DEF vars
<1>7. QED
  BY <1>1, <1>2, <1>3, <1>4, <1>5, <1>6 DEF Next

-----------------------------------------------------------------------------
(* The other conjuncts *)

\* A server without sessions satisfies the rest of the invariant.
LEMMA SafeInit == Init => Safe
BY DEF Init, Safe, Unconnected, Unlisted, RouterMatchesSubjects, ListedUntilClosed,
       OneLateRoute

\* Every step of acceptLoop, of a session's goroutines, of Session.Close and of
\* Server.Close keeps it.
LEMMA SafeStep == TypeOK /\ Safe /\ [Next]_vars => Safe'
<1> SUFFICES ASSUME TypeOK, Safe, [Next]_vars
             PROVE  Safe'
  OBVIOUS
<1> USE DEF TypeOK, serverVars, readerVars, closeVars,
            Safe, Unconnected, Unlisted, RouterMatchesSubjects, ListedUntilClosed, OneLateRoute
<1>1. CASE AcceptCheck \/ AcceptError
  BY <1>1 DEF AcceptCheck, AcceptError
<1>2. ASSUME NEW s \in Session, AcceptConn(s)
      PROVE  Safe'
  BY <1>2 DEF AcceptConn
<1>3. ASSUME NEW s \in Session, Register(s)
      PROVE  Safe'
  BY <1>3 DEF Register
<1>4. ASSUME NEW s \in Session, StartSession(s)
      PROVE  Safe'
  BY <1>4 DEF StartSession, Goto
<1>5. ASSUME NEW s \in Session, ReadCheck(s)
      PROVE  Safe'
  BY <1>5 DEF ReadCheck, done, Goto
<1>6. ASSUME NEW s \in Session, NEW r \in plan[s], ReadRequest(s, r)
      PROVE  Safe'
  BY <1>6 DEF ReadRequest, Goto
<1>7. ASSUME NEW s \in Session, ReadError(s)
      PROVE  Safe'
  BY <1>7 DEF ReadError, Goto
<1>8. ASSUME NEW s \in Session, NEW x \in Subject, HandleSubscribe(s, x)
      PROVE  Safe'
  BY <1>8 DEF HandleSubscribe, Goto
<1>9. ASSUME NEW s \in Session, NEW x \in Subject, HandleUnsubscribe(s, x)
      PROVE  Safe'
  <2> USE <1>9 DEF HandleUnsubscribe, Goto
  <2>1. /\ reader' = [reader EXCEPT ![s] = "unroute"]
        /\ subjects' = [subjects EXCEPT ![s] = @ \ {x}]
    OBVIOUS
  <2>2. Unconnected' /\ Unlisted' /\ ListedUntilClosed' /\ OneLateRoute'
    BY <2>1
  <2>3. ASSUME NEW t \in Session, closing[t] \in {"open", "flagged", "done"},
               NEW y \in Subject
        PROVE  /\ y \in subjects'[t] => <<y, t>> \in subs
               /\ <<y, t>> \in subs /\ y \notin subjects'[t] =>
                    reader'[t] = "unroute" /\ request[t] = <<"UNSUB", y>>
    <3>1. CASE t = s
      BY <2>1, <2>3, <3>1
    <3>2. CASE t # s
      BY <2>1, <2>3, <3>2
    <3>3. QED
      BY <3>1, <3>2
  <2>4. QED
    BY <2>2, <2>3
<1>10. ASSUME NEW s \in Session, NEW x \in Subject, Unroute(s, x)
       PROVE  Safe'
  <2> USE <1>10 DEF Unroute, Goto
  <2>1. reader' = [reader EXCEPT ![s] = "reply"] /\ subs' = subs \ {<<x, s>>}
    OBVIOUS
  <2>2. Unconnected' /\ Unlisted' /\ ListedUntilClosed' /\ OneLateRoute'
    BY <2>1
  <2>3. ASSUME NEW t \in Session, closing[t] \in {"open", "flagged", "done"},
               NEW y \in Subject
        PROVE  /\ y \in subjects[t] => <<y, t>> \in subs'
               /\ <<y, t>> \in subs' /\ y \notin subjects[t] =>
                    reader'[t] = "unroute" /\ request[t] = <<"UNSUB", y>>
    <3>1. CASE t = s
      BY <2>1, <2>3, <3>1
    <3>2. CASE t # s
      BY <2>1, <2>3, <3>2
    <3>3. QED
      BY <3>1, <3>2
  <2>4. QED
    BY <2>2, <2>3
<1>11. ASSUME NEW s \in Session, NEW x \in Subject, HandlePublish(s, x)
       PROVE  Safe'
  <2>1. \A t \in FindSubscribers(x) : reader[t] # "none"
    BY DEF FindSubscribers
  <2>2. \A u \in Session : targets'[u] \subseteq targets[u] \cup FindSubscribers(x)
    BY <1>11 DEF HandlePublish
  <2>3. QED
    BY <1>11, <2>1, <2>2 DEF HandlePublish, Goto
<1>12. ASSUME NEW s \in Session, HandleOther(s)
       PROVE  Safe'
  BY <1>12 DEF HandleOther, Goto
<1>13. ASSUME NEW s \in Session, Reply(s)
       PROVE  Safe'
  BY <1>13 DEF Reply, SendTo, Goto
<1>14. ASSUME NEW s \in Session, NEW t \in Session, PublishTo(s, t)
       PROVE  Safe'
  BY <1>14 DEF PublishTo, SendTo
<1>15. ASSUME NEW s \in Session, PublishEnd(s)
       PROVE  Safe'
  BY <1>15 DEF PublishEnd, Goto
<1>16. ASSUME NEW s \in Session, DeferClose(s)
       PROVE  Safe'
  BY <1>16 DEF DeferClose, Goto
<1>17. ASSUME NEW s \in Session, RemoveAfterStart(s)
       PROVE  Safe'
  BY <1>17 DEF RemoveAfterStart, Goto
<1>18. ASSUME NEW s \in Session, WriterDone(s) \/ WriterFail(s)
       PROVE  Safe'
  BY <1>18 DEF WriterDone, WriterFail
<1>19. ASSUME NEW s \in Session, CloseFlag(s)
       PROVE  Safe'
  BY <1>19 DEF CloseFlag, CloseTo
<1>20. ASSUME NEW s \in Session, CloseUnroute(s)
       PROVE  Safe'
  BY <1>20 DEF CloseUnroute, CloseTo
<1>21. ASSUME NEW s \in Session, CloseUnlist(s)
       PROVE  Safe'
  BY <1>21 DEF CloseUnlist, CloseTo
<1>22. ASSUME NEW s \in Session, CloseConn(s)
       PROVE  Safe'
  BY <1>22 DEF CloseConn, CloseTo
<1>23. CASE ShutdownStart \/ ShutdownLock
  BY <1>23 DEF ShutdownStart, ShutdownLock
<1>24. CASE ShutdownNext
  BY <1>24 DEF ShutdownNext
<1>25. CASE UNCHANGED vars
  BY <1>25 DEF vars
<1>26. QED
  BY <1>1, <1>2, <1>3, <1>4, <1>5, <1>6, <1>7, <1>8, <1>9, <1>10, <1>11, <1>12, <1>13,
     <1>14, <1>15, <1>16, <1>17, <1>18, <1>19, <1>20, <1>21, <1>22, <1>23, <1>24, <1>25
     DEF Next, Accepting, Reading, Handling, Closing, ShuttingDown

-----------------------------------------------------------------------------
(* The theorems *)

\* The inductive invariant holds in every state of the server.
LEMMA Invariance == Spec => []IInv
<1>1. Init => IInv
  BY TypeInit, SafeInit DEF IInv
<1>2. IInv /\ [Next]_vars => IInv'
  BY TypeStep, SafeStep DEF IInv
<1>3. QED
  BY <1>1, <1>2, PTL DEF Spec

\* The variables keep their types, however many sessions there are.
THEOREM TypeCorrect == Spec => []TypeOK
<1>1. IInv => TypeOK
  BY DEF IInv
<1>2. QED
  BY <1>1, Invariance, PTL

\* Until Close has taken a session out of the router, its list and the router
\* agree (handleSubscribe and handleUnsubscribe against Close).
THEOREM RouterAgrees == Spec => []RouterMatchesSubjects
<1>1. IInv => RouterMatchesSubjects
  BY DEF IInv, Safe
<1>2. QED
  BY <1>1, Invariance, PTL

\* Server.sessions holds exactly the sessions that are registered and not yet
\* removed by their Close.
THEOREM SessionsListed == Spec => []ListedUntilClosed
<1>1. IInv => ListedUntilClosed
  BY DEF IInv, Safe
<1>2. QED
  BY <1>1, Invariance, PTL

\* A closed session keeps at most one route in the router, however many SUBs
\* its client has sent.
THEOREM LateRouteBounded == Spec => []OneLateRoute
<1>1. IInv => OneLateRoute
  BY DEF IInv, Safe
<1>2. QED
  BY <1>1, Invariance, PTL
=============================================================================
