-------------------------- MODULE ClientSubsProofs --------------------------
(***************************************************************************)
(* Proofs about ClientSubs for every set of callers and subjects, every    *)
(* number of attempts and every scenario.                                  *)
(***************************************************************************)
EXTENDS ClientSubs, TLAPS

-----------------------------------------------------------------------------
(* Types *)

Label == {"idle", "retry", "append", "register", "write", "await", "drop", "dropCancelled",
          "subscribed", "failed", "abandoned", "unsub", "ended"}

\* The entry of a caller's attempt, and the parts of an entry.
LEMMA EntryParts ==
  /\ \A e \in Entry : e[1] \in Caller /\ e[2] \in 0..MaxRetries - 1 /\ e = <<e[1], e[2]>>
  /\ TypeOK => \A c \in Caller : Mine(c) \in Entry /\ Mine(c)[1] = c /\ Mine(c)[2] = attempt[c]
BY SubsConstants DEF Entry, Mine, TypeOK

\* The steps of Subscribe and Unsubscribe keep the types.
LEMMA CallerTypes ==
  ASSUME TypeOK, NEW c \in Caller,
         Subscribing(c) \/ Cancelled(c) \/ AwaitCancelled(c) \/ Unsubscribe(c)
           \/ WriteUnsub(c) \/ WriteUnsubError(c)
  PROVE  TypeOK'
<1> USE SubsConstants DEF TypeOK, Goto, subVars, ackVars, wireVars, recVars, otherVars
<1>0. Mine(c) \in Entry /\ subject[c] \in Subject
  BY EntryParts
<1>1. CASE Begin(c)
  BY <1>1 DEF Begin
<1>2. CASE Cancelled(c)
  BY <1>2 DEF Cancelled
<1>3. CASE Cleanup(c)
  BY <1>0, <1>3 DEF Cleanup
<1>4. CASE Append_(c)
  BY <1>0, <1>4 DEF Append_
<1>5. CASE Register(c)
  BY <1>0, <1>5 DEF Register
<1>6. CASE WriteSub(c)
  <2>1. <<"SUB", subject[c]>> \in Command
    BY <1>0 DEF Command
  <2>2. up' \in Seq(Command)
    BY <1>6, <2>1 DEF WriteSub
  <2>3. QED
    BY <1>6, <2>2 DEF WriteSub
<1>7. CASE WriteError(c) \/ Timeout(c) \/ AwaitCancelled(c)
  <2>1. PICK label \in {"drop", "dropCancelled"} : GiveUp(c, label)
    BY <1>7 DEF WriteError, Timeout, AwaitCancelled
  <2>2. pendingSubs' \in [Subject -> Entry \cup {None, Restorer}]
    BY <1>0, <2>1 DEF GiveUp
  <2>3. QED
    BY <2>1, <2>2 DEF GiveUp
<1>8. CASE Drop(c)
  <2>1. attempt[c] \in 0..MaxRetries - 1 /\ scenario.retries \in 1..MaxRetries
    OBVIOUS
  <2>2. attempt[c] + 1 < scenario.retries => attempt[c] + 1 \in 0..MaxRetries - 1
    BY <2>1
  <2>3. CASE attempt' = [attempt EXCEPT ![c] = @ + 1] /\ attempt[c] + 1 < scenario.retries
    BY <1>8, <2>2, <2>3 DEF Drop
  <2>4. CASE UNCHANGED attempt
    BY <1>8, <2>4 DEF Drop
  <2>5. QED
    BY <1>8, <2>3, <2>4, Zenon DEF Drop
<1>9. CASE Acked(c) \/ AwaitDone(c)
  BY <1>9, Zenon DEF Acked, AwaitDone
<1>10. CASE Unsubscribe(c)
  BY <1>10 DEF Unsubscribe
<1>11. CASE WriteUnsub(c)
  <2>1. <<"UNSUB", subject[c]>> \in Command
    BY <1>0 DEF Command
  <2>2. up' \in Seq(Command)
    BY <1>11, <2>1 DEF WriteUnsub
  <2>3. QED
    BY <1>11, <2>2 DEF WriteUnsub
<1>12. CASE WriteUnsubError(c)
  BY <1>12 DEF WriteUnsubError
<1>13. QED
  BY <1>1, <1>2, <1>3, <1>4, <1>5, <1>6, <1>7, <1>8, <1>9, <1>10, <1>11, <1>12
     DEF Subscribing

\* The steps of the session and of receiveLoop keep the types.
LEMMA WireTypes ==
  ASSUME TypeOK, Serve \/ HandleOk
  PROVE  TypeOK'
<1> USE SubsConstants DEF TypeOK, subVars, ackVars, wireVars, recVars, otherVars
<1>1. CASE Serve
  <2>1. Head(up) \in Command /\ Head(up)[2] \in Subject
    BY <1>1 DEF Serve, Command
  <2>2. up' \in Seq(Command) /\ down' \in Seq(Command)
    BY <1>1, <2>1 DEF Serve
  <2>3. served' \in SUBSET Subject
    BY <1>1, <2>1 DEF Serve
  <2>4. QED
    BY <1>1, <2>2, <2>3 DEF Serve
<1>2. CASE HandleOk
  <2>1. Head(down) \in Command /\ Head(down)[2] \in Subject
    BY <1>2 DEF HandleOk, Command
  <2>2. down' \in Seq(Command)
    BY <1>2 DEF HandleOk
  <2>3. acked' \in SUBSET (Entry \cup {Restorer})
    BY <1>2, <2>1 DEF HandleOk
  <2>4. pendingSubs' \in [Subject -> Entry \cup {None, Restorer}]
    BY <1>2, <2>1 DEF HandleOk
  <2>5. QED
    BY <1>2, <2>2, <2>3, <2>4 DEF HandleOk
<1>3. QED
  BY <1>1, <1>2

\* The steps of reconnect keep the types.
LEMMA ReconnectTypes ==
  ASSUME TypeOK, ReconnectClose \/ Restoring
  PROVE  TypeOK'
<1> USE SubsConstants DEF TypeOK, subVars, ackVars, wireVars, recVars, otherVars
<1>1. CASE ReconnectClose
  <2>1. up' = <<>> /\ down' = <<>> /\ <<>> \in Seq(Command)
    BY <1>1 DEF ReconnectClose
  <2>2. QED
    BY <1>1, <2>1 DEF ReconnectClose
<1>2. CASE ReconnectDial \/ RestoreCopy \/ RestoreEnd
  BY <1>2 DEF ReconnectDial, RestoreCopy, RestoreEnd
<1>3. CASE RestoreAcked
  BY <1>3 DEF RestoreAcked
<1>4. ASSUME NEW e \in Entry, RestoreNext(e)
      PROVE  TypeOK'
  BY <1>4 DEF RestoreNext
<1>5. ASSUME NEW e \in Entry, RestoreRegister(e)
      PROVE  TypeOK'
  <2>1. subject[e[1]] \in Subject
    BY EntryParts
  <2>2. QED
    BY <1>5, <2>1 DEF RestoreRegister
<1>6. ASSUME NEW e \in Entry, RestoreWrite(e)
      PROVE  TypeOK'
  <2>1. <<"SUB", subject[e[1]]>> \in Command
    BY EntryParts DEF Command
  <2>2. up' \in Seq(Command)
    BY <1>6, <2>1 DEF RestoreWrite
  <2>3. QED
    BY <1>6, <2>2 DEF RestoreWrite
<1>7. ASSUME NEW e \in Entry, RestoreFails(e)
      PROVE  TypeOK'
  <2>1. subject[e[1]] \in Subject
    BY EntryParts
  <2>2. tries \in 0..MaxRetries - 1 /\ scenario.retries \in 1..MaxRetries
    OBVIOUS
  <2>3. tries' \in 0..MaxRetries - 1
    BY <1>7, <2>2 DEF RestoreFails
  <2>4. pendingSubs' \in [Subject -> Entry \cup {None, Restorer}]
    BY <1>7, <2>1 DEF RestoreFails
  <2>5. QED
    BY <1>7, <2>3, <2>4 DEF RestoreFails
<1>8. QED
  BY <1>1, <1>2, <1>3, <1>4, <1>5, <1>6, <1>7 DEF Restoring

\* Client.Close and idle time keep the types.
LEMMA CloseTypes ==
  ASSUME TypeOK, CloseDone \/ CloseLists \/ CloseAcks \/ CloseConn \/ UNCHANGED vars
  PROVE  TypeOK'
<1> USE SubsConstants DEF TypeOK, subVars, ackVars, wireVars, recVars, otherVars
<1>1. CASE CloseDone \/ CloseConn
  BY <1>1 DEF CloseDone, CloseConn
<1>2. CASE CloseLists
  BY <1>2 DEF CloseLists
<1>3. CASE CloseAcks
  <2>1. acked' \in SUBSET (Entry \cup {Restorer})
    BY <1>3 DEF CloseAcks
  <2>2. QED
    BY <1>3, <2>1 DEF CloseAcks
<1>4. CASE UNCHANGED vars
  BY <1>4 DEF vars
<1>5. QED
  BY <1>1, <1>2, <1>3, <1>4

\* No step breaks the types.
LEMMA TypeStep == TypeOK /\ [Next]_vars => TypeOK'
BY CallerTypes, WireTypes, ReconnectTypes, CloseTypes DEF Next

\* The client starts with variables of their types.
LEMMA TypeInit == Init => TypeOK
<1> SUFFICES ASSUME Init PROVE TypeOK
  OBVIOUS
<1>1. scenario \in Scenario /\ scenario.holders \subseteq Caller /\ 0 \in 0..MaxRetries - 1
  BY SubsConstants DEF Init
<1>2. scenario.holders \X {0} \subseteq Entry
  BY <1>1 DEF Entry
<1>3. <<>> \in Seq(Command)
  OBVIOUS
<1>4. {subject[c] : c \in scenario.holders} \subseteq Subject
  BY <1>1, SubsConstants
<1>5. QED
  BY <1>1, <1>2, <1>3, <1>4 DEF Init, TypeOK

-----------------------------------------------------------------------------
(* The list of subscriptions *)

\* Client.Close is not undone.
LEMMA StaysClosed ==
  ASSUME [Next]_vars, closer' = "open"
  PROVE  closer = "open" /\ ~CloseDone /\ ~CloseLists /\ ~CloseAcks /\ ~CloseConn
BY Zenon DEF Next, Subscribing, Begin, Cancelled, Cleanup, Append_, Register, WriteSub, WriteError,
       Timeout, AwaitCancelled, GiveUp, Drop, Acked, AwaitDone, Unsubscribe, WriteUnsub,
       WriteUnsubError, Serve, HandleOk, ReconnectClose, Restoring, ReconnectDial, RestoreCopy,
       RestoreNext, RestoreRegister, RestoreWrite, RestoreAcked, RestoreFails, RestoreEnd,
       CloseDone, CloseLists, CloseAcks, CloseConn, otherVars, vars

\* What ListedHasOwner says of one active subscription.
Owned(e) ==
  /\ e \in subscriptions /\ e = Mine(e[1])
  /\ \/ pc[e[1]] \in {"register", "write", "await", "drop", "dropCancelled", "subscribed"}
     \/ pc[e[1]] = "abandoned" /\ e[1] \in early /\ rec # "none"

\* No step leaves an active subscription without its owner.
LEMMA ListedStep ==
  ASSUME TypeOK, ListedHasOwner, [Next]_vars
  PROVE  ListedHasOwner'
<1> SUFFICES ASSUME closer' = "open", NEW e \in active'
             PROVE  Owned(e)'
  BY DEF ListedHasOwner, Owned
<1>0. closer = "open" /\ ~CloseDone /\ ~CloseLists /\ ~CloseAcks /\ ~CloseConn
  BY StaysClosed
<1>e. e \in Entry /\ e[1] \in Caller /\ (e \in active => Owned(e))
  BY <1>0, TypeStep, EntryParts DEF TypeOK, ListedHasOwner, Owned
<1> USE <1>0, <1>e DEF TypeOK, Goto, subVars, ackVars, wireVars, recVars, otherVars, Mine, Owned
<1>1. ASSUME NEW c \in Caller, Begin(c) \/ Cancelled(c) \/ Cleanup(c)
      PROVE  Owned(e)'
  BY <1>1 DEF Begin, Cancelled, Cleanup
<1>2. ASSUME NEW c \in Caller, Append_(c)
      PROVE  Owned(e)'
  BY <1>2 DEF Append_
<1>3. ASSUME NEW c \in Caller, Register(c) \/ WriteSub(c)
      PROVE  Owned(e)'
  BY <1>3 DEF Register, WriteSub
<1>4. ASSUME NEW c \in Caller, WriteError(c) \/ Timeout(c) \/ AwaitCancelled(c)
      PROVE  Owned(e)'
  BY <1>4 DEF WriteError, Timeout, AwaitCancelled, GiveUp
<1>5. ASSUME NEW c \in Caller, Drop(c)
      PROVE  Owned(e)'
  BY <1>5 DEF Drop
<1>6. ASSUME NEW c \in Caller, Acked(c) \/ AwaitDone(c)
      PROVE  Owned(e)'
  BY <1>6 DEF Acked, AwaitDone, doneClosed
<1>7. ASSUME NEW c \in Caller, Unsubscribe(c) \/ WriteUnsub(c) \/ WriteUnsubError(c)
      PROVE  Owned(e)'
  BY <1>7 DEF Unsubscribe, WriteUnsub, WriteUnsubError
<1>8. CASE Serve \/ HandleOk \/ ReconnectClose \/ Restoring \/ UNCHANGED vars
  BY <1>8 DEF Serve, HandleOk, ReconnectClose, Restoring, ReconnectDial, RestoreCopy,
              RestoreNext, RestoreRegister, RestoreWrite, RestoreAcked, RestoreFails,
              RestoreEnd, vars
<1>9. QED
  BY <1>1, <1>2, <1>3, <1>4, <1>5, <1>6, <1>7, <1>8 DEF Next, Subscribing

-----------------------------------------------------------------------------
(* The registered ACKs *)

\* restoreSubscriptions works on one subscription at a time, and a behaviour
\* ends with Close or has a reconnection.
OneAtATime ==
  /\ current # {} <=> rec \in {"register", "write", "await"}
  /\ \A e, f \in current : e = f
  /\ rec # "none" => scenario.ends = "reconnect"
  /\ closer # "open" => scenario.ends = "close"

\* An ACK that is registered under x: its owner waits for it, or gave it up
\* because c.done was closed.
Awaited(x) ==
  /\ pendingSubs[x] = Restorer =>
       rec \in {"write", "await"} /\ \E e \in current : subject[e[1]] = x
  /\ pendingSubs[x] \in Entry =>
       /\ subject[pendingSubs[x][1]] = x /\ pendingSubs[x] = Mine(pendingSubs[x][1])
       /\ \/ pc[pendingSubs[x][1]] \in {"write", "await"}
          \/ pc[pendingSubs[x][1]] = "abandoned" /\ doneClosed(pendingSubs[x][1])

\* No registered ACK is closed: whoever closes one removes it.
Unclosed == \A x \in Subject : pendingSubs[x] \notin acked

\* The entries that are acknowledged or being restored are of attempts that
\* have begun.
Begun ==
  /\ \A e \in acked \cap Entry :
       /\ e[2] <= attempt[e[1]]
       /\ e = Mine(e[1]) => pc[e[1]] \notin {"idle", "retry", "append", "register"}
  /\ \A e \in current :
       /\ e[2] <= attempt[e[1]]
       /\ e = Mine(e[1]) => pc[e[1]] \notin {"idle", "retry", "append"}

AckInv == OneAtATime /\ (\A x \in Subject : Awaited(x)) /\ Unclosed /\ Begun

\* Restoration goes on one subscription after the other.
LEMMA OneAtATimeStep ==
  ASSUME TypeOK, OneAtATime, [Next]_vars
  PROVE  OneAtATime'
<1> USE DEF OneAtATime, subVars, ackVars, wireVars, recVars, otherVars
<1>1. CASE \E c \in Caller : \/ Subscribing(c) \/ Cancelled(c) \/ AwaitCancelled(c)
                             \/ Unsubscribe(c) \/ WriteUnsub(c) \/ WriteUnsubError(c)
  BY <1>1 DEF Subscribing, Begin, Cancelled, Cleanup, Append_, Register, WriteSub, WriteError,
       Timeout, AwaitCancelled, GiveUp, Drop, Acked, AwaitDone, Unsubscribe, WriteUnsub,
       WriteUnsubError
<1>2. CASE Serve \/ HandleOk \/ ReconnectClose \/ UNCHANGED vars
  BY <1>2 DEF Serve, HandleOk, ReconnectClose, vars
<1>3. CASE Restoring
  BY <1>3 DEF Restoring, ReconnectDial, RestoreCopy, RestoreNext, RestoreRegister,
              RestoreWrite, RestoreAcked, RestoreFails, RestoreEnd
<1>4. CASE CloseDone \/ CloseLists \/ CloseAcks \/ CloseConn
  BY <1>4 DEF CloseDone, CloseLists, CloseAcks, CloseConn
<1>5. QED
  BY <1>1, <1>2, <1>3, <1>4 DEF Next

\* A registered ACK keeps its owner.
LEMMA AwaitedStep ==
  ASSUME TypeOK, AckInv, [Next]_vars, NEW x \in Subject
  PROVE  Awaited(x)'
<1>0. /\ Awaited(x) /\ (\A y \in Subject : Awaited(y)) /\ OneAtATime /\ Unclosed
      /\ \A c \in Caller : subject[c] \in Subject
      /\ pendingSubs \in [Subject -> Entry \cup {None, Restorer}]
      /\ pc \in [Caller -> Label] /\ attempt \in [Caller -> 0..MaxRetries - 1]
      /\ \A e \in Entry : e[1] \in Caller
      /\ current \in SUBSET Entry
      /\ None # Restorer /\ None \notin Entry /\ Restorer \notin Entry
  BY SubsConstants, EntryParts DEF AckInv, TypeOK, Label
<1> USE <1>0 DEF Goto, subVars, ackVars, wireVars, recVars, otherVars, Mine, doneClosed
<1>1. ASSUME NEW c \in Caller, Begin(c) \/ Cancelled(c) \/ Append_(c)
      PROVE  Awaited(x)'
  BY <1>1 DEF Begin, Cancelled, Append_, Awaited
<1>2. ASSUME NEW c \in Caller, Cleanup(c)
      PROVE  Awaited(x)'
  BY <1>2 DEF Cleanup, Awaited
<1>3. ASSUME NEW c \in Caller, Register(c)
      PROVE  Awaited(x)'
  <2>1. CASE x = subject[c]
    <3>1. /\ pendingSubs'[x] = <<c, attempt[c]>> /\ pendingSubs'[x][1] = c
          /\ pendingSubs'[x] # Restorer /\ pc'[c] = "write" /\ attempt' = attempt
      BY <1>3, <2>1, EntryParts DEF Register
    <3>2. QED
      BY <2>1, <3>1 DEF Awaited
  <2>2. CASE x # subject[c]
    BY <1>3, <2>2 DEF Register, Awaited
  <2>3. QED
    BY <2>1, <2>2
<1>4. ASSUME NEW c \in Caller, WriteSub(c)
      PROVE  Awaited(x)'
  BY <1>4 DEF WriteSub, Awaited
<1>5. ASSUME NEW c \in Caller, WriteError(c) \/ Timeout(c) \/ AwaitCancelled(c)
      PROVE  Awaited(x)'
  BY <1>5 DEF WriteError, Timeout, AwaitCancelled, GiveUp, Awaited
<1>6. ASSUME NEW c \in Caller, Drop(c)
      PROVE  Awaited(x)'
  BY <1>6 DEF Drop, Awaited
<1>7. ASSUME NEW c \in Caller, Acked(c)
      PROVE  Awaited(x)'
  BY <1>7 DEF Acked, Awaited, Unclosed
<1>8. ASSUME NEW c \in Caller, AwaitDone(c)
      PROVE  Awaited(x)'
  BY <1>8 DEF AwaitDone, Awaited
<1>9. ASSUME NEW c \in Caller, Unsubscribe(c) \/ WriteUnsub(c) \/ WriteUnsubError(c)
      PROVE  Awaited(x)'
  BY <1>9 DEF Unsubscribe, WriteUnsub, WriteUnsubError, Awaited
<1>10. CASE Serve \/ UNCHANGED vars
  BY <1>10 DEF Serve, vars, Awaited
<1>11. CASE HandleOk
  BY <1>11 DEF HandleOk, Awaited
<1>12. CASE ReconnectClose \/ ReconnectDial \/ RestoreCopy \/ RestoreEnd
  BY <1>12 DEF ReconnectClose, ReconnectDial, RestoreCopy, RestoreEnd, Awaited
<1>13. CASE RestoreAcked
  BY <1>13 DEF RestoreAcked, Awaited, Unclosed
<1>14. ASSUME NEW e \in Entry, RestoreNext(e) \/ RestoreWrite(e)
       PROVE  Awaited(x)'
  BY <1>14 DEF RestoreNext, RestoreWrite, Awaited, OneAtATime
<1>15. ASSUME NEW e \in Entry, RestoreRegister(e)
       PROVE  Awaited(x)'
  BY <1>15 DEF RestoreRegister, Awaited
<1>16. ASSUME NEW e \in Entry, RestoreFails(e)
       PROVE  Awaited(x)'
  BY <1>16 DEF RestoreFails, Awaited
<1>17. CASE CloseDone \/ CloseLists \/ CloseAcks \/ CloseConn
  BY <1>17 DEF CloseDone, CloseLists, CloseAcks, CloseConn, Awaited
<1>18. QED
  BY <1>1, <1>2, <1>3, <1>4, <1>5, <1>6, <1>7, <1>8, <1>9, <1>10, <1>11, <1>12, <1>13, <1>14,
     <1>15, <1>16, <1>17 DEF Next, Subscribing, Restoring

\* The code that closes an ACK removes it, and a new ACK is open.
LEMMA UnclosedStep ==
  ASSUME TypeOK, AckInv, [Next]_vars
  PROVE  Unclosed'
<1> SUFFICES ASSUME NEW x \in Subject PROVE pendingSubs'[x] \notin acked'
  BY DEF Unclosed
<1>0. /\ (\A y \in Subject : Awaited(y)) /\ Unclosed /\ Begun
      /\ \A c \in Caller : subject[c] \in Subject
      /\ pendingSubs \in [Subject -> Entry \cup {None, Restorer}]
      /\ acked \in SUBSET (Entry \cup {Restorer})
      /\ current \in SUBSET Entry
      /\ \A e \in Entry : e[1] \in Caller
      /\ None # Restorer /\ None \notin Entry /\ Restorer \notin Entry
  BY SubsConstants, EntryParts DEF AckInv, TypeOK
<1>1. ASSUME NEW y \in Subject, x # y
      PROVE  pendingSubs[x] # pendingSubs[y] \/ pendingSubs[x] \in {None, Restorer}
  BY <1>0, <1>1 DEF Awaited
<1>2. ASSUME NEW y \in Subject, x # y
      PROVE  pendingSubs[x] # pendingSubs[y] \/ pendingSubs[x] = None
  BY <1>0, <1>1, <1>2 DEF Awaited, AckInv, OneAtATime
<1> USE <1>0 DEF Unclosed, subVars, ackVars, wireVars, recVars, otherVars
<1>3. CASE pendingSubs' = pendingSubs /\ acked' = acked
  BY <1>3
<1>4. ASSUME NEW c \in Caller, Cleanup(c)
      PROVE  pendingSubs'[x] \notin acked'
  BY <1>2, <1>4 DEF Cleanup
<1>5. ASSUME NEW c \in Caller, Register(c)
      PROVE  pendingSubs'[x] \notin acked'
  <2>1. Mine(c) \notin acked
    BY <1>5, EntryParts DEF Begun, Register
  <2>2. QED
    BY <1>5, <2>1 DEF Register
<1>6. ASSUME NEW c \in Caller, WriteError(c) \/ Timeout(c) \/ AwaitCancelled(c)
      PROVE  pendingSubs'[x] \notin acked'
  BY <1>6 DEF WriteError, Timeout, AwaitCancelled, GiveUp
<1>7. CASE HandleOk
  <2>1. Head(down)[2] \in Subject
    BY <1>7 DEF HandleOk, TypeOK, Command
  <2>2. QED
    BY <1>2, <1>7, <2>1 DEF HandleOk
<1>8. ASSUME NEW e \in Entry, RestoreRegister(e)
      PROVE  pendingSubs'[x] \notin acked'
  BY <1>2, <1>8 DEF RestoreRegister
<1>9. ASSUME NEW e \in Entry, RestoreFails(e)
      PROVE  pendingSubs'[x] \notin acked'
  BY <1>9 DEF RestoreFails
<1>10. CASE CloseAcks
  BY <1>10 DEF CloseAcks
<1>11. QED
  BY <1>3, <1>4, <1>5, <1>6, <1>7, <1>8, <1>9, <1>10, Zenon
     DEF Next, Subscribing, Begin, Cancelled, Append_, WriteSub, Drop, Acked, AwaitDone,
         Unsubscribe, WriteUnsub, WriteUnsubError, Serve, ReconnectClose, Restoring,
         ReconnectDial, RestoreCopy, RestoreNext, RestoreWrite, RestoreAcked, RestoreEnd,
         CloseDone, CloseLists, CloseConn, vars

\* An attempt that has begun does not begin again.
LEMMA BegunCaller ==
  ASSUME TypeOK, NEW e \in Entry, e[2] <= attempt[e[1]], [Next]_vars, NEW L \in SUBSET Label,
         L \in {{"idle", "retry", "append"}, {"idle", "retry", "append", "register"}},
         e = Mine(e[1]) => pc[e[1]] \notin L
  PROVE  e[2] <= attempt'[e[1]] /\ (e = Mine(e[1])' => pc'[e[1]] \notin L)
<1>0. /\ e[1] \in Caller /\ e[2] \in Nat
      /\ pc \in [Caller -> Label] /\ attempt \in [Caller -> Nat]
  BY SubsConstants, EntryParts DEF TypeOK, Label
<1> USE <1>0 DEF Mine, Goto, Label
<1>1. CASE pc' = pc /\ attempt' = attempt
  BY <1>1
<1>2. ASSUME NEW c \in Caller, Begin(c) \/ Cancelled(c) \/ Cleanup(c) \/ Append_(c)
      PROVE  e[2] <= attempt'[e[1]] /\ (e = Mine(e[1])' => pc'[e[1]] \notin L)
  BY <1>2 DEF Begin, Cancelled, Cleanup, Append_
<1>3. ASSUME NEW c \in Caller,
             \/ Register(c) \/ WriteSub(c) \/ WriteError(c) \/ Timeout(c) \/ AwaitCancelled(c)
             \/ Acked(c) \/ AwaitDone(c) \/ Unsubscribe(c) \/ WriteUnsub(c)
             \/ WriteUnsubError(c)
      PROVE  e[2] <= attempt'[e[1]] /\ (e = Mine(e[1])' => pc'[e[1]] \notin L)
  BY <1>3, Zenon DEF Register, WriteSub, WriteError, Timeout, AwaitCancelled, GiveUp, Acked, AwaitDone,
              Unsubscribe, WriteUnsub, WriteUnsubError
<1>4. ASSUME NEW c \in Caller, Drop(c)
      PROVE  e[2] <= attempt'[e[1]] /\ (e = Mine(e[1])' => pc'[e[1]] \notin L)
  BY <1>4 DEF Drop
<1>5. QED
  BY <1>1, <1>2, <1>3, <1>4, Zenon
     DEF Next, Subscribing, Serve, HandleOk, ReconnectClose, Restoring, ReconnectDial,
         RestoreCopy, RestoreNext, RestoreRegister, RestoreWrite, RestoreAcked, RestoreFails,
         RestoreEnd, CloseDone, CloseLists, CloseAcks, CloseConn, vars

\* What a step closes was registered, and what restoreSubscriptions takes up
\* was active.
LEMMA Sources ==
  ASSUME TypeOK, [Next]_vars
  PROVE  /\ acked' \subseteq acked \cup {pendingSubs[x] : x \in Subject}
         /\ current' \subseteq current \cup active
         /\ current' \subseteq current \/ rec = "next"
<1>0. \A c \in Caller : subject[c] \in Subject
  BY SubsConstants
<1> USE <1>0 DEF subVars, ackVars, wireVars, recVars, otherVars
<1>1. CASE acked' = acked /\ current' = current
  BY <1>1
<1>2. ASSUME NEW c \in Caller, Cleanup(c)
      PROVE  acked' \subseteq acked \cup {pendingSubs[x] : x \in Subject} /\ current' = current
  BY <1>2, Zenon DEF Cleanup
<1>3. CASE HandleOk
  <2>1. Head(down)[2] \in Subject
    BY <1>3 DEF HandleOk, TypeOK, Command
  <2>2. QED
    BY <1>3, <2>1 DEF HandleOk
<1>4. ASSUME NEW e \in Entry, RestoreRegister(e)
      PROVE  acked' \subseteq acked \cup {pendingSubs[x] : x \in Subject} /\ current' = current
  <2>1. subject[e[1]] \in Subject
    BY EntryParts
  <2>2. QED
    BY <1>4, <2>1 DEF RestoreRegister
<1>5. CASE CloseAcks
  BY <1>5 DEF CloseAcks
<1>6. ASSUME NEW e \in Entry, RestoreNext(e)
      PROVE  acked' = acked /\ current' \subseteq current \cup active /\ rec = "next"
  BY <1>6 DEF RestoreNext
<1>7. CASE acked' = acked /\ current' = {}
  BY <1>7
<1>8. QED
  BY <1>1, <1>2, <1>3, <1>4, <1>5, <1>6, <1>7, Zenon
     DEF Next, Subscribing, Begin, Cancelled, Append_, Register, WriteSub, WriteError, Timeout,
         AwaitCancelled, GiveUp, Drop, Acked, AwaitDone, Unsubscribe, WriteUnsub,
         WriteUnsubError, Serve, ReconnectClose, Restoring, ReconnectDial, RestoreCopy,
         RestoreWrite, RestoreAcked, RestoreFails, RestoreEnd, CloseDone, CloseLists, CloseConn,
         vars

\* Acknowledged and restored entries stay those of attempts that have begun.
LEMMA BegunStep ==
  ASSUME TypeOK, ListedHasOwner, AckInv, [Next]_vars
  PROVE  Begun'
<1>0. /\ OneAtATime /\ (\A x \in Subject : Awaited(x)) /\ Begun
      /\ current \in SUBSET Entry /\ active \in SUBSET Entry
      /\ attempt \in [Caller -> Nat]
  BY SubsConstants DEF AckInv, TypeOK
<1>1. ASSUME NEW e \in acked' \cap Entry
      PROVE  /\ e[2] <= attempt'[e[1]]
             /\ e = Mine(e[1])' => pc'[e[1]] \notin {"idle", "retry", "append", "register"}
  <2>1. e \in acked \/ \E x \in Subject : e = pendingSubs[x]
    BY Sources
  <2>2. CASE e \in acked
    BY <1>0, <2>2, BegunCaller, Zenon DEF Begun, Label
  <2>3. ASSUME NEW x \in Subject, e = pendingSubs[x]
        PROVE  /\ e[2] <= attempt'[e[1]]
               /\ e = Mine(e[1])' => pc'[e[1]] \notin {"idle", "retry", "append", "register"}
    <3>1. e = Mine(e[1]) /\ pc[e[1]] \in {"write", "await", "abandoned"}
      BY <1>0, <2>3 DEF Awaited
    <3>2. e[2] = attempt[e[1]] /\ attempt[e[1]] \in Nat
      BY <1>0, <3>1, EntryParts
    <3>3. /\ e[2] <= attempt[e[1]]
          /\ pc[e[1]] \notin {"idle", "retry", "append", "register"}
      BY <3>1, <3>2
    <3>4. QED
      BY <3>3, BegunCaller, Zenon DEF Label
  <2>4. QED
    BY <2>1, <2>2, <2>3
<1>2. ASSUME NEW e \in current'
      PROVE  /\ e[2] <= attempt'[e[1]]
             /\ e = Mine(e[1])' => pc'[e[1]] \notin {"idle", "retry", "append"}
  <2>1. e \in Entry
    BY <1>0, Sources
  <2>2. CASE e \in current
    BY <1>0, <2>1, <2>2, BegunCaller, Zenon DEF Begun, Label
  <2>3. CASE e \notin current
    <3>1. e \in active /\ rec = "next"
      BY <2>3, Sources
    <3>2. closer = "open"
      BY <1>0, <3>1 DEF OneAtATime
    <3>3. /\ e = Mine(e[1])
          /\ pc[e[1]] \in {"register", "write", "await", "drop", "dropCancelled", "subscribed",
                          "abandoned"}
      BY <3>1, <3>2 DEF ListedHasOwner
    <3>4. e[2] = attempt[e[1]] /\ attempt[e[1]] \in Nat
      BY <1>0, <2>1, <3>3, EntryParts
    <3>5. e[2] <= attempt[e[1]] /\ pc[e[1]] \notin {"idle", "retry", "append"}
      BY <3>3, <3>4
    <3>6. QED
      BY <2>1, <3>5, BegunCaller, Zenon DEF Label
  <2>4. QED
    BY <2>2, <2>3
<1>3. QED
  BY <1>1, <1>2 DEF Begun

-----------------------------------------------------------------------------
(* The theorems that hold whoever subscribes to what *)

BaseInv == TypeOK /\ ListedHasOwner /\ AckInv

\* The client starts with an owner for every subscription and no ACK.
LEMMA BaseInit == Init => BaseInv
<1> SUFFICES ASSUME Init PROVE BaseInv
  OBVIOUS
<1>1. TypeOK
  BY TypeInit
<1>2. \A e \in active : e[1] \in scenario.holders /\ e = <<e[1], 0>> /\ e[1] \in Caller
  BY <1>1, EntryParts DEF Init, TypeOK
<1>3. ListedHasOwner
  BY <1>2 DEF Init, ListedHasOwner, Mine
<1>4. OneAtATime
  BY DEF Init, OneAtATime
<1>5. \A x \in Subject : Awaited(x)
  BY SubsConstants DEF Init, Awaited
<1>6. Unclosed
  BY <1>1, SubsConstants DEF Init, Unclosed, TypeOK
<1>7. Begun
  BY <1>2, SubsConstants DEF Init, Begun
<1>8. QED
  BY <1>1, <1>3, <1>4, <1>5, <1>6, <1>7 DEF BaseInv, AckInv

\* Types, owners of subscriptions and owners of ACKs are kept together.
THEOREM BaseInvariant == Spec => []BaseInv
<1>1. BaseInv /\ [Next]_vars => BaseInv'
  <2> SUFFICES ASSUME BaseInv, [Next]_vars PROVE BaseInv'
    OBVIOUS
  <2>1. TypeOK /\ ListedHasOwner /\ AckInv /\ OneAtATime
    BY DEF BaseInv, AckInv
  <2>2. TypeOK' /\ ListedHasOwner' /\ OneAtATime' /\ Unclosed' /\ Begun'
    BY <2>1, TypeStep, ListedStep, OneAtATimeStep, UnclosedStep, BegunStep
  <2>3. \A x \in Subject : Awaited(x)'
    BY <2>1, AwaitedStep
  <2>4. QED
    BY <2>2, <2>3 DEF BaseInv, AckInv
<1>2. QED
  BY BaseInit, <1>1, PTL DEF Spec

\* The variables keep their types.
THEOREM TypeCorrect == Spec => []TypeOK
BY BaseInvariant, PTL DEF BaseInv

\* An active subscription waits for its ACK or was confirmed, or it was
\* abandoned when a reconnection closed c.done: no other path through
\* SubscribeWithOptionsContext leaves one behind, whatever the interleaving
\* with receiveLoop, reconnect and other callers, also of the same subject.
THEOREM NoOrphanSubscription == Spec => []ListedHasOwner
BY BaseInvariant, PTL DEF BaseInv

\* An ACK in pendingSubs belongs to an attempt that waits for it, or whose
\* wait was ended by the closing of c.done.
THEOREM NoOrphanAck == Spec => []PendingHasOwner
<1>1. BaseInv => PendingHasOwner
  BY DEF BaseInv, AckInv, Awaited, PendingHasOwner
<1>2. QED
  BY BaseInvariant, <1>1, PTL

-----------------------------------------------------------------------------
(* A returned subscription is served *)

\* Each caller has a subject of its own.  With one UNSUB the server drops the
\* subject for all subscriptions of the client, so nothing is promised for
\* two of them on one subject.
Distinct == \A c, d \in Caller : subject[c] = subject[d] => c = d

\* The messages in a sequence.
Elements(s) == {s[i] : i \in 1..Len(s)}

\* A SUB for x is on its way.
SubSent(x) == <<"SUB", x>> \in Elements(up)

\* Whoever subscribed to x has unsubscribed.
Gone(x) == \A c \in Caller : subject[c] = x => pc[c] = "ended"

\* UNSUB is the last message about a subject, and an OK to SUB tells the truth.
TrueAnswers ==
  \A x \in Subject :
    /\ <<"UNSUB", x>> \in Elements(up) => Gone(x)
    /\ <<"SUB", x>> \in Elements(down) => x \in served \/ Gone(x)

\* A caller that waits for an OK on the new connection has sent its SUB there,
\* and one whose attempt is not the one being restored is such a caller.
Requested ==
  /\ \A c \in Caller : pc[c] = "await" /\ c \notin early =>
       rec \notin {"none", "closed"} /\ (subject[c] \in served \/ SubSent(subject[c]))
  /\ \A e \in current : e # Mine(e[1]) /\ pc[e[1]] = "await" => e[1] \notin early

\* The restoration of an active subscription is acknowledged only after its
\* SUB was sent.
Restored ==
  closer = "open" /\ rec \in {"write", "await"} /\ Restorer \in acked =>
    \A e \in current \cap active : subject[e[1]] \in served \/ SubSent(subject[e[1]])

\* The subject of c is served, or will be.
Reached(c) ==
  \/ subject[c] \in served
  \/ rec \in {"closed", "copy"} \/ Mine(c) \in todo \cup current
  \/ rec # "none" /\ SubSent(subject[c])

\* A caller that has its OK is reached, and so is one that is to see it; a
\* caller that has it before it wrote its SUB was served by an earlier attempt,
\* unless the connection has been replaced.
Confirmed(c) ==
  closer = "open" /\ Mine(c) \in active =>
    /\ pc[c] = "subscribed" \/ (pc[c] = "await" /\ Mine(c) \in acked) => Reached(c)
    /\ pc[c] = "write" /\ Mine(c) \in acked /\ rec = "none" => subject[c] \in served

ServedInv ==
  /\ TrueAnswers /\ Requested /\ Restored
  /\ \A c \in Caller : Confirmed(c)

\* The messages on the wire as sets.
LEMMA ElementsFacts ==
  ASSUME NEW S, NEW s \in Seq(S)
  PROVE  /\ \A e \in S : Elements(Append(s, e)) = Elements(s) \cup {e}
         /\ s # <<>> => Head(s) \in Elements(s) /\ Elements(s) = Elements(Tail(s)) \cup {Head(s)}
<1>1. ASSUME NEW e \in S
      PROVE  Elements(Append(s, e)) = Elements(s) \cup {e}
  <2>1. Len(s) \in Nat /\ Len(Append(s, e)) = Len(s) + 1
    OBVIOUS
  <2>2. \A i \in 1..Len(s) : i \in 1..Len(Append(s, e)) /\ Append(s, e)[i] = s[i]
    BY <2>1
  <2>3. Len(s) + 1 \in 1..Len(Append(s, e)) /\ Append(s, e)[Len(s) + 1] = e
    BY <2>1
  <2>4. \A i \in 1..Len(Append(s, e)) : i \in 1..Len(s) \/ i = Len(s) + 1
    BY <2>1
  <2>5. QED
    BY <2>2, <2>3, <2>4, Zenon DEF Elements
<1>2. ASSUME s # <<>>
      PROVE  Head(s) \in Elements(s) /\ Elements(s) = Elements(Tail(s)) \cup {Head(s)}
  <2>1. \A i \in 1..Len(s) :
          IF i = 1 THEN s[i] = Head(s)
          ELSE i - 1 \in 1..Len(Tail(s)) /\ s[i] = Tail(s)[i - 1]
    BY <1>2
  <2>2. \A i \in 1..Len(Tail(s)) : i + 1 \in 1..Len(s) /\ s[i + 1] = Tail(s)[i]
    BY <1>2
  <2>3. 1 \in 1..Len(s) /\ s[1] = Head(s)
    BY <1>2
  <2>4. ASSUME NEW i \in 1..Len(s)
        PROVE  s[i] \in Elements(Tail(s)) \cup {Head(s)}
    BY <2>1 DEF Elements
  <2>5. ASSUME NEW i \in 1..Len(Tail(s))
        PROVE  Tail(s)[i] \in Elements(s)
    BY <2>2 DEF Elements
  <2>6. QED
    BY <2>3, <2>4, <2>5 DEF Elements
<1>3. QED
  BY <1>1, <1>2

\* A SUB that was written is on its way.
LEMMA SubIsSent ==
  ASSUME TypeOK, NEW x \in Subject, up' = Append(up, <<"SUB", x>>)
  PROVE  SubSent(x)'
<1>1. up \in Seq(Command) /\ <<"SUB", x>> \in Command
  BY DEF TypeOK, Command
<1>2. Elements(up') = Elements(up) \cup {<<"SUB", x>>}
  BY <1>1, ElementsFacts
<1>3. QED
  BY <1>2, Zenon DEF SubSent, Elements

\* What a step of the session does to the wire.
LEMMA ServeEffect ==
  ASSUME TypeOK, Serve
  PROVE  \E k \in {"SUB", "UNSUB"}, x \in Subject :
           /\ <<k, x>> \in Elements(up)
           /\ Elements(up) = Elements(up') \cup {<<k, x>>}
           /\ Elements(down') = Elements(down) \cup {<<k, x>>}
           /\ served' = IF k = "SUB" THEN served \cup {x} ELSE served \ {x}
<1>1. up \in Seq(Command) /\ down \in Seq(Command) /\ up # <<>>
  BY DEF TypeOK, Serve
<1>2. PICK k \in {"SUB", "UNSUB"}, x \in Subject : Head(up) = <<k, x>>
  BY <1>1 DEF Command
<1>3. up' = Tail(up) /\ down' = Append(down, <<k, x>>) /\ <<k, x>> \in Command
  BY <1>2 DEF Serve, Command
<1>4. /\ <<k, x>> \in Elements(up)
      /\ Elements(up) = Elements(Tail(up)) \cup {<<k, x>>}
  BY <1>1, <1>2, ElementsFacts, Zenon
<1>5. Elements(Append(down, <<k, x>>)) = Elements(down) \cup {<<k, x>>}
  BY <1>1, <1>3, ElementsFacts
<1>6. Head(up)[1] = k /\ Head(up)[2] = x
  BY <1>2
<1>7. served' = IF k = "SUB" THEN served \cup {x} ELSE served \ {x}
  BY <1>6, Zenon DEF Serve
<1>8. QED
  BY <1>3, <1>4, <1>5, <1>7, Zenon

\* What an OK closes was registered under a subject that is served, unless
\* its subscription has ended.
LEMMA HandleOkEffect ==
  ASSUME TypeOK, TrueAnswers, HandleOk
  PROVE  /\ Elements(down') \subseteq Elements(down)
         /\ \A a \in acked' \ acked : \E x \in Subject : a = pendingSubs[x] /\ (x \in served \/ Gone(x))
<1>1. down \in Seq(Command) /\ down # <<>> /\ down' = Tail(down)
  BY DEF TypeOK, HandleOk
<1>2. Head(down) \in Elements(down) /\ Elements(Tail(down)) \subseteq Elements(down)
  BY <1>1, ElementsFacts
<1>3. ASSUME NEW a \in acked' \ acked
      PROVE  \E x \in Subject : a = pendingSubs[x] /\ (x \in served \/ Gone(x))
  <2>1. PICK k \in {"SUB", "UNSUB"}, x \in Subject : Head(down) = <<k, x>>
    BY <1>1 DEF Command
  <2>2. k = "SUB" /\ a = pendingSubs[x]
    BY <1>3, <2>1 DEF HandleOk
  <2>3. x \in served \/ Gone(x)
    BY <1>2, <2>1, <2>2, Zenon DEF TrueAnswers
  <2>4. QED
    BY <2>2, <2>3
<1>4. QED
  BY <1>1, <1>2, <1>3

\* The steps that touch the wire, and how.
LEMMA WireStep ==
  ASSUME TypeOK, [Next]_vars
  PROVE  \/ UNCHANGED wireVars
         \/ \E x \in Subject :
              /\ (\E c \in Caller : WriteSub(c) /\ subject[c] = x)
                   \/ (\E e \in Entry : RestoreWrite(e) /\ subject[e[1]] = x)
              /\ Elements(up') = Elements(up) \cup {<<"SUB", x>>} /\ UNCHANGED <<down, served>>
         \/ \E c \in Caller :
              /\ WriteUnsub(c)
              /\ Elements(up') = Elements(up) \cup {<<"UNSUB", subject[c]>>}
              /\ UNCHANGED <<down, served>>
         \/ Serve
         \/ HandleOk /\ UNCHANGED <<up, served>>
         \/ ReconnectClose /\ Elements(up') = {} /\ Elements(down') = {} /\ served' = {}
<1> USE DEF subVars, ackVars, wireVars, recVars, otherVars
<1>1. ASSUME NEW x \in Subject, NEW k \in {"SUB", "UNSUB"}, up' = Append(up, <<k, x>>)
      PROVE  Elements(up') = Elements(up) \cup {<<k, x>>}
  <2>1. up \in Seq(Command) /\ <<k, x>> \in Command
    BY DEF TypeOK, Command
  <2>2. QED
    BY <1>1, <2>1, ElementsFacts
<1>2. ASSUME NEW c \in Caller, WriteSub(c)
      PROVE  /\ subject[c] \in Subject
             /\ Elements(up') = Elements(up) \cup {<<"SUB", subject[c]>>}
             /\ UNCHANGED <<down, served>>
  <2>1. subject[c] \in Subject
    BY SubsConstants
  <2>2. QED
    BY <1>1, <1>2, <2>1 DEF WriteSub
<1>3. ASSUME NEW e \in Entry, RestoreWrite(e)
      PROVE  /\ subject[e[1]] \in Subject
             /\ Elements(up') = Elements(up) \cup {<<"SUB", subject[e[1]]>>}
             /\ UNCHANGED <<down, served>>
  <2>1. subject[e[1]] \in Subject
    BY SubsConstants, EntryParts
  <2>2. QED
    BY <1>1, <1>3, <2>1 DEF RestoreWrite
<1>4. ASSUME NEW c \in Caller, WriteUnsub(c)
      PROVE  /\ Elements(up') = Elements(up) \cup {<<"UNSUB", subject[c]>>}
             /\ UNCHANGED <<down, served>>
  <2>1. subject[c] \in Subject
    BY SubsConstants
  <2>2. QED
    BY <1>1, <1>4, <2>1 DEF WriteUnsub
<1>5. ASSUME ReconnectClose
      PROVE  Elements(up') = {} /\ Elements(down') = {} /\ served' = {}
  BY <1>5 DEF ReconnectClose, Elements
<1>6. HandleOk => UNCHANGED <<up, served>>
  BY DEF HandleOk
<1>7. \/ UNCHANGED wireVars \/ Serve \/ HandleOk \/ ReconnectClose
      \/ \E c \in Caller : WriteSub(c) \/ WriteUnsub(c)
      \/ \E e \in Entry : RestoreWrite(e)
  BY Zenon DEF Next, Subscribing, Begin, Cancelled, Cleanup, Append_, Register, WriteError, Timeout,
         AwaitCancelled, GiveUp, Drop, Acked, AwaitDone, Unsubscribe, WriteUnsubError,
         Restoring, ReconnectDial, RestoreCopy, RestoreNext, RestoreRegister,
         RestoreAcked, RestoreFails, RestoreEnd, CloseDone, CloseLists, CloseAcks, CloseConn,
         vars
<1> HIDE DEF wireVars, subVars, ackVars, recVars, otherVars
<1>8. QED
  BY <1>2, <1>3, <1>4, <1>5, <1>6, <1>7, Zenon

\* A subscription that has ended stays so.
LEMMA GoneStep ==
  ASSUME TypeOK, [Next]_vars, NEW x \in Subject, Gone(x)
  PROVE  Gone(x)'
<1> SUFFICES ASSUME NEW c \in Caller, subject[c] = x PROVE pc'[c] = "ended"
  BY DEF Gone
<1>1. pc[c] = "ended" /\ pc \in [Caller -> Label]
  BY DEF Gone, TypeOK, Label
<1>2. QED
  BY <1>1, Zenon DEF Next, Subscribing, Begin, Cancelled, Cleanup, Append_, Register, WriteSub, WriteError,
       Timeout, AwaitCancelled, GiveUp, Drop, Acked, AwaitDone, Unsubscribe, WriteUnsub,
       WriteUnsubError, Serve, HandleOk, ReconnectClose, Restoring, ReconnectDial, RestoreCopy,
       RestoreNext, RestoreRegister, RestoreWrite, RestoreAcked, RestoreFails, RestoreEnd,
       CloseDone, CloseLists, CloseAcks, CloseConn, vars, Goto

\* The answers stay true.
LEMMA TrueAnswersStep ==
  ASSUME TypeOK, Distinct, TrueAnswers, [Next]_vars
  PROVE  TrueAnswers'
<1> SUFFICES ASSUME NEW x \in Subject
             PROVE  /\ <<"UNSUB", x>> \in Elements(up') => Gone(x)'
                    /\ <<"SUB", x>> \in Elements(down') => x \in served' \/ Gone(x)'
  BY DEF TrueAnswers, Elements
<1>0. /\ Gone(x) => Gone(x)'
      /\ <<"UNSUB", x>> \in Elements(up) => Gone(x)
      /\ <<"SUB", x>> \in Elements(down) => x \in served \/ Gone(x)
  BY GoneStep DEF TrueAnswers
<1>1. CASE UNCHANGED wireVars
  BY <1>0, <1>1 DEF wireVars
<1>2. ASSUME NEW y \in Subject, Elements(up') = Elements(up) \cup {<<"SUB", y>>},
             UNCHANGED <<down, served>>
      PROVE  /\ <<"UNSUB", x>> \in Elements(up') => Gone(x)'
             /\ <<"SUB", x>> \in Elements(down') => x \in served' \/ Gone(x)'
  BY <1>0, <1>2
<1>3. ASSUME NEW c \in Caller, WriteUnsub(c),
             Elements(up') = Elements(up) \cup {<<"UNSUB", subject[c]>>},
             UNCHANGED <<down, served>>
      PROVE  /\ <<"UNSUB", x>> \in Elements(up') => Gone(x)'
             /\ <<"SUB", x>> \in Elements(down') => x \in served' \/ Gone(x)'
  <2>1. x = subject[c] => Gone(x)'
    BY <1>3 DEF Gone, WriteUnsub, Goto, Distinct, TypeOK
  <2>2. QED
    BY <1>0, <1>3, <2>1
<1>4. CASE Serve
  <2>1. PICK k \in {"SUB", "UNSUB"}, y \in Subject :
          /\ <<k, y>> \in Elements(up)
          /\ Elements(up) = Elements(up') \cup {<<k, y>>}
          /\ Elements(down') = Elements(down) \cup {<<k, y>>}
          /\ served' = IF k = "SUB" THEN served \cup {y} ELSE served \ {y}
    BY <1>4, ServeEffect, Zenon
  <2>2. QED
    BY <1>0, <2>1
<1>5. CASE HandleOk /\ UNCHANGED <<up, served>>
  BY <1>0, <1>5, HandleOkEffect
<1>6. CASE Elements(up') = {} /\ Elements(down') = {}
  BY <1>6
<1>7. QED
  BY <1>1, <1>2, <1>3, <1>4, <1>5, <1>6, WireStep, Zenon

\* A subject that is served, or is about to be, stays so unless its
\* subscription has ended or the connection is replaced.
LEMMA ServedStays ==
  ASSUME TypeOK, TrueAnswers, [Next]_vars, ~ReconnectClose, NEW x \in Subject, ~Gone(x)
  PROVE  /\ x \in served => x \in served'
         /\ SubSent(x) => x \in served' \/ SubSent(x)'
<1>0. <<"UNSUB", x>> \notin Elements(up)
  BY Zenon DEF TrueAnswers
<1> USE <1>0 DEF SubSent
<1>1. CASE UNCHANGED wireVars
  BY <1>1 DEF wireVars
<1>2. ASSUME NEW m, Elements(up') = Elements(up) \cup {m}, UNCHANGED <<down, served>>
      PROVE  /\ x \in served => x \in served'
             /\ SubSent(x) => x \in served' \/ SubSent(x)'
  BY <1>2 DEF Elements
<1>3. CASE Serve
  <2>1. PICK k \in {"SUB", "UNSUB"}, y \in Subject :
          /\ <<k, y>> \in Elements(up)
          /\ Elements(up) = Elements(up') \cup {<<k, y>>}
          /\ Elements(down') = Elements(down) \cup {<<k, y>>}
          /\ served' = IF k = "SUB" THEN served \cup {y} ELSE served \ {y}
    BY <1>3, ServeEffect, Zenon
  <2>2. QED
    BY <2>1, Zenon DEF Elements
<1>4. CASE UNCHANGED <<up, served>>
  BY <1>4
<1>5. QED
  BY <1>1, <1>2, <1>3, <1>4, WireStep

\* How a caller comes to wait, and to return: in one attempt, by its own
\* steps, with the subscription it appended.
LEMMA CallerStep ==
  ASSUME TypeOK, [Next]_vars, NEW c \in Caller, pc'[c] \in {"write", "await", "subscribed"}
  PROVE  /\ attempt'[c] = attempt[c] /\ Mine(c)' = Mine(c)
         /\ \/ pc'[c] = pc[c]
            \/ Register(c) /\ pc'[c] = "write"
            \/ WriteSub(c) /\ pc'[c] = "await"
            \/ Acked(c) /\ pc'[c] = "subscribed"
         /\ Mine(c) \in active' => Mine(c) \in active
<1>0. pc \in [Caller -> Label] /\ attempt \in [Caller -> 0..MaxRetries - 1]
  BY DEF TypeOK, Label
<1> USE <1>0 DEF Mine, Goto, subVars, ackVars, wireVars, recVars, otherVars
<1> DEFINE P == /\ attempt'[c] = attempt[c]
                /\ \/ pc'[c] = pc[c]
                   \/ Register(c) /\ pc'[c] = "write"
                   \/ WriteSub(c) /\ pc'[c] = "await"
                   \/ Acked(c) /\ pc'[c] = "subscribed"
                /\ <<c, attempt[c]>> \in active' => <<c, attempt[c]>> \in active
<1>1. CASE pc' = pc /\ attempt' = attempt /\ active' \subseteq active
  BY <1>1
<1>2. ASSUME NEW d \in Caller,
             \/ Begin(d) \/ Cancelled(d) \/ Cleanup(d) \/ WriteError(d) \/ Timeout(d)
             \/ AwaitCancelled(d) \/ AwaitDone(d) \/ Unsubscribe(d) \/ WriteUnsub(d)
             \/ WriteUnsubError(d)
      PROVE  P
  BY <1>2, Zenon DEF Begin, Cancelled, Cleanup, WriteError, Timeout, AwaitCancelled, GiveUp, AwaitDone,
              Unsubscribe, WriteUnsub, WriteUnsubError
<1>3. ASSUME NEW d \in Caller, Append_(d)
      PROVE  P
  BY <1>3 DEF Append_
<1>4. ASSUME NEW d \in Caller, Drop(d)
      PROVE  P
  BY <1>4 DEF Drop
<1>5. ASSUME NEW d \in Caller, Register(d) \/ WriteSub(d) \/ Acked(d)
      PROVE  P
  <2>1. CASE c = d
    BY <1>5, <2>1 DEF Register, WriteSub, Acked
  <2>2. CASE c # d
    BY <1>5, <2>2 DEF Register, WriteSub, Acked
  <2>3. QED
    BY <2>1, <2>2
<1>6. CASE \E e \in Entry : RestoreFails(e)
  BY <1>6 DEF RestoreFails
<1>7. P
  BY <1>1, <1>2, <1>3, <1>4, <1>5, <1>6, Zenon
     DEF Next, Subscribing, Serve, HandleOk, ReconnectClose, Restoring, ReconnectDial,
         RestoreCopy, RestoreNext, RestoreRegister, RestoreWrite, RestoreAcked, RestoreEnd,
         CloseDone, CloseLists, CloseAcks, CloseConn, vars
<1>8. QED
  BY <1>7

\* Who closes an ACK while the client is open.
LEMMA NewlyAcked ==
  ASSUME TypeOK, TrueAnswers, [Next]_vars, closer' = "open", NEW a \in acked' \ acked
  PROVE  \/ /\ UNCHANGED <<up, served, pc, rec>>
            /\ \E x \in Subject : a = pendingSubs[x] /\ (x \in served \/ Gone(x))
         \/ \E d \in Caller : Cleanup(d) /\ a = pendingSubs[subject[d]]
         \/ \E e \in Entry : RestoreRegister(e) /\ a = pendingSubs[subject[e[1]]] /\ a # Restorer
<1>0. ~CloseAcks
  BY StaysClosed
<1>1. acked' # acked
  OBVIOUS
<1>2. \/ HandleOk
      \/ \E d \in Caller : Cleanup(d)
      \/ \E e \in Entry : RestoreRegister(e)
  BY <1>0, <1>1, Zenon
     DEF Next, Subscribing, Begin, Cancelled, Append_, Register, WriteSub, WriteError, Timeout,
         AwaitCancelled, GiveUp, Drop, Acked, AwaitDone, Unsubscribe, WriteUnsub,
         WriteUnsubError, Serve, ReconnectClose, Restoring, ReconnectDial, RestoreCopy,
         RestoreNext, RestoreWrite, RestoreAcked, RestoreFails, RestoreEnd, CloseDone,
         CloseLists, CloseConn, vars, ackVars
<1>3. CASE HandleOk
  <2>1. UNCHANGED <<up, served, pc, rec>>
    BY <1>3, Zenon DEF HandleOk, otherVars, recVars
  <2>2. \E x \in Subject : a = pendingSubs[x] /\ (x \in served \/ Gone(x))
    BY <1>3, HandleOkEffect
  <2>3. QED
    BY <2>1, <2>2, Zenon
<1>4. ASSUME NEW d \in Caller, Cleanup(d)
      PROVE  a = pendingSubs[subject[d]]
  BY <1>4 DEF Cleanup
<1>5. ASSUME NEW e \in Entry, RestoreRegister(e)
      PROVE  a = pendingSubs[subject[e[1]]] /\ a # Restorer
  BY <1>5 DEF RestoreRegister
<1>6. QED
  BY <1>2, <1>3, <1>4, <1>5, Zenon

\* How the goroutine of reconnect advances.
LEMMA ReconnectStep ==
  ASSUME [Next]_vars
  PROVE  \/ UNCHANGED <<rec, todo, current>>
         \/ ReconnectClose \/ ReconnectDial \/ RestoreCopy \/ RestoreAcked \/ RestoreEnd
         \/ \E e \in Entry : RestoreNext(e) \/ RestoreRegister(e) \/ RestoreWrite(e)
                             \/ RestoreFails(e)
BY Zenon DEF Next, Subscribing, Begin, Cancelled, Cleanup, Append_, Register, WriteSub, WriteError,
       Timeout, AwaitCancelled, GiveUp, Drop, Acked, AwaitDone, Unsubscribe, WriteUnsub,
       WriteUnsubError, Serve, HandleOk, Restoring, CloseDone, CloseLists, CloseAcks,
       CloseConn, vars, recVars, otherVars

\* What was requested on the new connection stays requested.
LEMMA RequestedStep ==
  ASSUME BaseInv, TrueAnswers, Requested, [Next]_vars
  PROVE  Requested'
<1>0. TypeOK /\ ListedHasOwner /\ OneAtATime
  BY DEF BaseInv, AckInv
<1>r. rec \notin {"none", "closed"} => ~ReconnectClose /\ rec' \notin {"none", "closed"}
  BY ReconnectStep, Zenon DEF ReconnectClose, ReconnectDial, RestoreCopy, RestoreAcked, RestoreEnd,
                       RestoreNext, RestoreRegister, RestoreWrite, RestoreFails
<1>w. ASSUME NEW c \in Caller, WriteSub(c)
      PROVE  /\ c \notin early' => rec \notin {"none", "closed"}
             /\ rec' = rec /\ (rec # "none" => c \notin early')
  BY <1>w DEF WriteSub, Connected, otherVars, recVars
<1>s. ASSUME NEW c \in Caller, ~WriteSub(c)
      PROVE  c \in early' <=> c \in early
  BY <1>s, Zenon DEF Next, Subscribing, Begin, Cancelled, Cleanup, Append_, Register, WriteSub, WriteError,
       Timeout, AwaitCancelled, GiveUp, Drop, Acked, AwaitDone, Unsubscribe, WriteUnsub,
       WriteUnsubError, Serve, HandleOk, ReconnectClose, Restoring, ReconnectDial, RestoreCopy,
       RestoreNext, RestoreRegister, RestoreWrite, RestoreAcked, RestoreFails, RestoreEnd,
       CloseDone, CloseLists, CloseAcks, CloseConn, vars
<1>1. ASSUME NEW c \in Caller, pc'[c] = "await", c \notin early'
      PROVE  rec' \notin {"none", "closed"} /\ (subject[c] \in served' \/ SubSent(subject[c])')
  <2>0. subject[c] \in Subject
    BY SubsConstants
  <2>1. CASE WriteSub(c)
    <3>1. rec' \notin {"none", "closed"}
      BY <1>1, <1>w, <2>1
    <3>2. SubSent(subject[c])'
      <4>1. up' = Append(up, <<"SUB", subject[c]>>)
        BY <2>1 DEF WriteSub
      <4>2. QED
        BY <1>0, <2>0, <4>1, SubIsSent
    <3>3. QED
      BY <3>1, <3>2
  <2>2. CASE ~WriteSub(c)
    <3>1. pc[c] = "await" /\ c \notin early
      BY <1>0, <1>1, <1>s, <2>2, CallerStep
    <3>2. rec \notin {"none", "closed"} /\ (subject[c] \in served \/ SubSent(subject[c]))
      BY <3>1 DEF Requested
    <3>3. ~Gone(subject[c])
      BY <3>1 DEF Gone
    <3>4. QED
      BY <1>0, <1>r, <2>0, <3>2, <3>3, ServedStays
  <2>3. QED
    BY <2>1, <2>2
<1>2. ASSUME NEW e \in current', e # Mine(e[1])', pc'[e[1]] = "await"
      PROVE  e[1] \notin early'
  <2>1. e \in Entry /\ e[1] \in Caller
    BY <1>0, TypeStep, EntryParts DEF TypeOK
  <2>2. Mine(e[1])' = Mine(e[1]) /\ (pc[e[1]] = "await" \/ WriteSub(e[1]))
    BY <1>0, <1>2, <2>1, CallerStep
  <2>3. e \in current
    <3> SUFFICES ASSUME e \notin current PROVE FALSE
      OBVIOUS
    <3>1. e \in active /\ rec = "next"
      BY <1>0, Sources
    <3>2. closer = "open"
      BY <1>0, <3>1 DEF OneAtATime
    <3>3. QED
      BY <1>0, <1>2, <2>2, <3>1, <3>2 DEF ListedHasOwner
  <2>4. rec # "none"
    BY <1>0, <2>3 DEF OneAtATime
  <2>5. CASE WriteSub(e[1])
    BY <1>w, <2>1, <2>4, <2>5
  <2>6. CASE ~WriteSub(e[1])
    <3>1. e[1] \notin early
      BY <1>2, <2>2, <2>3, <2>6 DEF Requested
    <3>2. QED
      BY <1>s, <2>1, <2>6, <3>1
  <2>7. QED
    BY <2>5, <2>6
<1>3. QED
  BY <1>1, <1>2, Zenon DEF Requested, SubSent, Elements, Mine

\* An ACK that is closed while the client is open tells the truth: the subject
\* is served, unless reconnect closed it to register its own.
LEMMA TruthfulAck ==
  ASSUME BaseInv, Distinct, TrueAnswers, [Next]_vars, closer' = "open", NEW c \in Caller,
         pc[c] \notin {"retry", "ended"}, NEW a \in acked' \ acked,
         \/ a = Mine(c)
         \/ a = Restorer /\ \E e \in current : e[1] = c
  PROVE  \/ subject[c] \in served /\ UNCHANGED <<up, served, pc, rec>>
         \/ \E e \in Entry : RestoreRegister(e) /\ subject[e[1]] = subject[c] /\ a = Mine(c)
<1>0. TypeOK /\ OneAtATime /\ (\A x \in Subject : Awaited(x)) /\ Mine(c) \in Entry
  BY EntryParts DEF BaseInv, AckInv
<1>1. ASSUME NEW x \in Subject, a = pendingSubs[x]
      PROVE  x = subject[c]
  BY <1>0, <1>1, EntryParts DEF Awaited, OneAtATime
<1>2. ASSUME NEW x \in Subject, a = pendingSubs[x], x \in served \/ Gone(x)
      PROVE  subject[c] \in served
  BY <1>1, <1>2 DEF Gone
<1>3. ASSUME NEW d \in Caller, Cleanup(d), a = pendingSubs[subject[d]]
      PROVE  FALSE
  <2>1. subject[d] = subject[c]
    BY <1>1, <1>3, SubsConstants
  <2>2. d = c
    BY <2>1 DEF Distinct
  <2>3. QED
    BY <1>3, <2>2 DEF Cleanup
<1>4. ASSUME NEW e \in Entry, RestoreRegister(e), a = pendingSubs[subject[e[1]]], a # Restorer
      PROVE  subject[e[1]] = subject[c] /\ a = Mine(c)
  <2>1. subject[e[1]] \in Subject
    BY SubsConstants, EntryParts
  <2>2. QED
    BY <1>1, <1>4, <2>1
<1>5. QED
  BY <1>0, <1>2, <1>3, <1>4, NewlyAcked, Zenon

\* A restoration is acknowledged only when its subject is served.
LEMMA RestoredStep ==
  ASSUME BaseInv, Distinct, TrueAnswers, Restored, [Next]_vars
  PROVE  Restored'
<1> SUFFICES ASSUME closer' = "open", rec' \in {"write", "await"}, Restorer \in acked',
                    NEW e \in current' \cap active'
             PROVE  subject[e[1]] \in served' \/ SubSent(subject[e[1]])'
  BY Zenon DEF Restored, SubSent, Elements
<1>0. /\ TypeOK /\ ListedHasOwner /\ OneAtATime /\ Begun /\ closer = "open"
      /\ e \in Entry /\ e[1] \in Caller /\ subject[e[1]] \in Subject
  BY StaysClosed, TypeStep, EntryParts, SubsConstants DEF BaseInv, AckInv, TypeOK
<1>1. CASE RestoreWrite(e)
  <2>1. up' = Append(up, <<"SUB", subject[e[1]]>>)
    BY <1>1 DEF RestoreWrite
  <2>2. QED
    BY <1>0, <2>1, SubIsSent
<1>2. CASE ~RestoreWrite(e)
  <2>1. rec \in {"write", "await"} /\ e \in current
    <3>1. ~ \E f \in Entry : RestoreRegister(f)
      BY DEF RestoreRegister
    <3>2. \A f \in Entry : ~RestoreWrite(f)
      BY <1>2 DEF RestoreWrite
    <3>3. QED
      BY <3>1, <3>2, ReconnectStep
         DEF ReconnectClose, ReconnectDial, RestoreCopy, RestoreAcked, RestoreEnd, RestoreNext,
             RestoreFails
  <2>2. e \in active
    <3>1. e = Mine(e[1]) => pc[e[1]] # "append"
      BY <1>0, <2>1 DEF Begun
    <3>2. \A c \in Caller : Append_(c) => e # Mine(c)
      BY <1>0, <3>1, EntryParts DEF Append_
    <3>3. QED
      BY <3>2, Zenon
         DEF Next, Subscribing, Begin, Cancelled, Cleanup, Append_, Register, WriteSub,
             WriteError, Timeout, AwaitCancelled, GiveUp, Drop, Acked, AwaitDone, Unsubscribe,
             WriteUnsub, WriteUnsubError, Serve, HandleOk, ReconnectClose, Restoring,
             ReconnectDial, RestoreCopy, RestoreNext, RestoreRegister, RestoreWrite,
             RestoreAcked, RestoreFails, RestoreEnd, CloseDone, CloseLists, CloseAcks,
             CloseConn, vars, subVars
  <2>3. pc[e[1]] \notin {"retry", "ended"} /\ ~Gone(subject[e[1]])
    BY <1>0, <2>2, Zenon DEF ListedHasOwner, Gone
  <2>4. CASE Restorer \in acked
    <3>1. subject[e[1]] \in served \/ SubSent(subject[e[1]])
      BY <1>0, <2>1, <2>2, <2>4 DEF Restored
    <3>2. ~ReconnectClose
      BY <2>1 DEF ReconnectClose
    <3>3. QED
      BY <1>0, <2>3, <3>1, <3>2, ServedStays
  <2>5. CASE Restorer \notin acked
    <3>1. Restorer # Mine(e[1])
      BY <1>0, EntryParts, SubsConstants
    <3>2. subject[e[1]] \in served /\ served' = served
      BY <1>0, <2>1, <2>3, <2>5, <3>1, TruthfulAck
    <3>3. QED
      BY <3>2
  <2>6. QED
    BY <2>4, <2>5
<1>3. QED
  BY <1>1, <1>2

\* A caller that is reached stays reached while it holds its subscription.
LEMMA ReachedStep ==
  ASSUME BaseInv, TrueAnswers, Restored, [Next]_vars, closer' = "open",
         NEW c \in Caller, pc[c] # "ended", Mine(c)' = Mine(c),
         Mine(c) \in active, Mine(c) \in active', Reached(c)
  PROVE  Reached(c)'
<1>0. /\ TypeOK /\ ListedHasOwner /\ OneAtATime /\ closer = "open" /\ subject[c] \in Subject
      /\ Mine(c)[1] = c /\ ~Gone(subject[c])
  BY StaysClosed, EntryParts, SubsConstants DEF BaseInv, AckInv, Gone
<1>1. Mine(c) \in subscriptions
  BY <1>0 DEF ListedHasOwner
<1> DEFINE Held == subject[c] \in served \/ (rec # "none" /\ SubSent(subject[c]))
<1>2. ASSUME ~ReconnectClose, Held
      PROVE  subject[c] \in served' \/ (rec' # "none" /\ SubSent(subject[c])')
  <2>1. rec # "none" => rec' # "none"
    BY ReconnectStep, Zenon DEF ReconnectClose, ReconnectDial, RestoreCopy, RestoreAcked, RestoreEnd,
                         RestoreNext, RestoreRegister, RestoreWrite, RestoreFails
  <2>2. QED
    BY <1>0, <1>2, <2>1, ServedStays
<1>3. CASE ReconnectClose
  BY <1>3, Zenon DEF ReconnectClose, Reached
<1>4. CASE ~ReconnectClose /\ Held
  BY <1>2, <1>4, Zenon DEF Reached, SubSent, Elements
<1>5. CASE ~ReconnectClose /\ rec \in {"closed", "copy"}
  <2>1. rec' \in {"closed", "copy"} \/ Mine(c) \in todo'
    BY <1>1, <1>5, ReconnectStep
       DEF ReconnectDial, RestoreCopy, RestoreAcked, RestoreEnd, RestoreNext, RestoreRegister,
           RestoreWrite, RestoreFails
  <2>2. QED
    BY <2>1 DEF Reached
<1>6. CASE ~ReconnectClose /\ Mine(c) \in todo \cup current
  <2>1. CASE UNCHANGED <<todo, current>>
    BY <1>6, <2>1 DEF Reached
  <2>2. CASE RestoreCopy
    BY <1>1, <2>2 DEF RestoreCopy, Reached
  <2>3. CASE RestoreAcked
    <3>1. CASE Mine(c) \in todo
      BY <2>3, <3>1 DEF RestoreAcked, Reached
    <3>2. CASE Mine(c) \in current
      <4>1. subject[c] \in served \/ SubSent(subject[c])
        BY <1>0, <2>3, <3>2 DEF Restored, RestoreAcked
      <4>2. Held
        BY <2>3, <4>1, Zenon DEF RestoreAcked
      <4>3. QED
        BY <1>4, <1>6, <4>2
    <3>3. QED
      BY <1>6, <3>1, <3>2
  <2>4. ASSUME NEW e \in Entry, RestoreNext(e)
        PROVE  Reached(c)'
    <3>1. Mine(c) \in todo
      BY <1>0, <1>6, <2>4, Zenon DEF RestoreNext, OneAtATime
    <3>2. Mine(c) \in todo' \cup current'
      BY <2>4, <3>1 DEF RestoreNext
    <3>3. QED
      BY <3>2, Zenon DEF Reached
  <2>5. ASSUME NEW e \in Entry, RestoreFails(e)
        PROVE  Reached(c)'
    <3>1. Mine(c) \in todo' \cup current'
      BY <1>6, <2>5 DEF RestoreFails
    <3>2. QED
      BY <3>1 DEF Reached
  <2>6. \/ UNCHANGED <<todo, current>> \/ RestoreCopy \/ RestoreAcked
        \/ \E e \in Entry : RestoreNext(e) \/ RestoreFails(e)
    BY <1>6, ReconnectStep DEF ReconnectDial, RestoreEnd, RestoreRegister, RestoreWrite
  <2>7. QED
    BY <2>1, <2>2, <2>3, <2>4, <2>5, <2>6
<1>7. QED
  BY <1>3, <1>4, <1>5, <1>6 DEF Reached

\* A caller that has its OK is reached.
LEMMA ConfirmedStep ==
  ASSUME BaseInv, Distinct, ServedInv, [Next]_vars, NEW c \in Caller
  PROVE  Confirmed(c)'
<1>0. /\ TypeOK /\ Begun /\ TrueAnswers /\ Requested /\ Restored /\ Confirmed(c)
      /\ subject[c] \in Subject /\ Mine(c) \in Entry /\ Mine(c)[1] = c
  BY EntryParts, SubsConstants DEF BaseInv, AckInv, ServedInv
<1> SUFFICES ASSUME closer' = "open", Mine(c)' \in active',
                    pc'[c] \in {"write", "await", "subscribed"}
             PROVE  /\ pc'[c] = "subscribed" \/ (pc'[c] = "await" /\ Mine(c)' \in acked') =>
                         Reached(c)'
                    /\ pc'[c] = "write" /\ Mine(c)' \in acked' /\ rec' = "none" =>
                         subject[c] \in served'
  BY DEF Confirmed
<1>1. /\ closer = "open" /\ Mine(c)' = Mine(c) /\ Mine(c) \in active
      /\ \/ pc'[c] = pc[c]
         \/ Register(c) /\ pc'[c] = "write"
         \/ WriteSub(c) /\ pc'[c] = "await"
         \/ Acked(c) /\ pc'[c] = "subscribed"
  BY <1>0, StaysClosed, CallerStep
<1>2. ASSUME pc'[c] = "subscribed" PROVE Reached(c)'
  <2>1. pc[c] = "subscribed" \/ (pc[c] = "await" /\ Mine(c) \in acked)
    BY <1>1, <1>2, Zenon DEF Acked
  <2>2. Reached(c)
    BY <1>0, <1>1, <2>1 DEF Confirmed
  <2>3. QED
    BY <1>0, <1>1, <2>1, <2>2, ReachedStep, Zenon
<1>3. ASSUME pc'[c] = "await", Mine(c) \in acked' PROVE Reached(c)'
  <2>1. CASE WriteSub(c)
    <3>1. acked' = acked /\ pc[c] = "write" /\ rec' = rec /\ served' = served
      BY <2>1, Zenon DEF WriteSub, ackVars, otherVars, recVars
    <3>2. CASE rec = "none"
      BY <1>0, <1>1, <1>3, <3>1, <3>2, Zenon DEF Confirmed, Reached
    <3>3. CASE rec # "none"
      <4>1. up' = Append(up, <<"SUB", subject[c]>>)
        BY <2>1 DEF WriteSub
      <4>2. SubSent(subject[c])'
        BY <1>0, <4>1, SubIsSent
      <4>3. QED
        BY <3>1, <3>3, <4>2 DEF Reached
    <3>4. QED
      BY <3>2, <3>3
  <2>2. CASE ~WriteSub(c)
    <3>1. pc[c] = "await"
      BY <1>1, <1>3, <2>2
    <3>2. CASE Mine(c) \in acked
      <4>1. Reached(c)
        BY <1>0, <1>1, <3>1, <3>2 DEF Confirmed
      <4>2. QED
        BY <1>0, <1>1, <3>1, <4>1, ReachedStep, Zenon
    <3>3. CASE Mine(c) \notin acked
      <4>1. CASE subject[c] \in served /\ served' = served
        BY <4>1 DEF Reached
      <4>2. ASSUME NEW e \in Entry, RestoreRegister(e), subject[e[1]] = subject[c]
            PROVE  Reached(c)'
        <5>1. e[1] = c /\ e \in current /\ current' = current /\ rec' = "write"
              /\ UNCHANGED <<up, served>>
          BY <4>2, EntryParts DEF RestoreRegister, Distinct, wireVars
        <5>2. CASE e = Mine(c)
          BY <1>1, <5>1, <5>2 DEF Reached
        <5>3. CASE e # Mine(c)
          <6>1. c \notin early
            BY <1>0, <3>1, <5>1, <5>3 DEF Requested
          <6>2. subject[c] \in served \/ SubSent(subject[c])
            BY <1>0, <3>1, <6>1 DEF Requested
          <6>3. QED
            BY <5>1, <6>2 DEF Reached, SubSent
        <5>4. QED
          BY <5>2, <5>3
      <4>3. QED
        BY <1>0, <1>3, <3>1, <3>3, <4>1, <4>2, TruthfulAck, Zenon
    <3>4. QED
      BY <3>2, <3>3
  <2>3. QED
    BY <2>1, <2>2
<1>4. ASSUME pc'[c] = "write", Mine(c) \in acked', rec' = "none"
      PROVE  subject[c] \in served'
  <2>1. rec = "none" /\ ~ReconnectClose /\ \A e \in Entry : ~RestoreRegister(e)
    BY <1>4, ReconnectStep, Zenon
       DEF ReconnectClose, ReconnectDial, RestoreCopy, RestoreAcked, RestoreEnd, RestoreNext,
           RestoreRegister, RestoreWrite, RestoreFails
  <2>2. ~Register(c)
    <3> SUFFICES ASSUME Register(c) PROVE FALSE
      OBVIOUS
    <3>1. acked' = acked /\ pc[c] = "register"
      BY Zenon DEF Register
    <3>2. QED
      BY <1>0, <1>4, <3>1 DEF Begun
  <2>3. pc[c] = "write"
    BY <1>1, <1>4, <2>2
  <2>4. CASE Mine(c) \in acked
    <3>1. subject[c] \in served /\ ~Gone(subject[c])
      BY <1>0, <1>1, <2>1, <2>3, <2>4, Zenon DEF Confirmed, Gone
    <3>2. QED
      BY <1>0, <2>1, <3>1, ServedStays, Zenon
  <2>5. CASE Mine(c) \notin acked
    BY <1>0, <1>4, <2>1, <2>3, <2>5, TruthfulAck, Zenon
  <2>6. QED
    BY <2>4, <2>5
<1>5. QED
  BY <1>1, <1>2, <1>3, <1>4, Zenon

\* At the start only the holders have returned, and they are served.
LEMMA ServedInit == Init => ServedInv
<1> SUFFICES ASSUME Init PROVE ServedInv
  OBVIOUS
<1>1. Elements(up) = {} /\ Elements(down) = {}
  <2>1. up = <<>> /\ down = <<>>
    BY DEF Init
  <2>2. Elements(<<>>) = {}
    BY DEF Elements
  <2>3. QED
    BY <2>1, <2>2
<1>2. TrueAnswers
  BY <1>1 DEF TrueAnswers
<1>3. Requested /\ Restored
  BY DEF Init, Requested, Restored
<1>4. ASSUME NEW c \in Caller PROVE Confirmed(c)
  BY DEF Init, Confirmed, Reached
<1>5. QED
  BY <1>2, <1>3, <1>4 DEF ServedInv

\* When the callers subscribe to different subjects, a Subscribe that returned
\* without error is served as long as it is active: by the session, or after
\* the connection was lost by the SUB or the restoration under way, whatever
\* attempt the OK answered and whoever closed the ACK (receiveLoop, a retry,
\* restoreSubscriptions).
THEOREM ReturnedIsServed ==
  ASSUME Distinct
  PROVE  Spec => []SuccessIsServed
<1>1. BaseInv /\ ServedInv /\ [Next]_vars => ServedInv'
  <2> SUFFICES ASSUME BaseInv, ServedInv, [Next]_vars PROVE ServedInv'
    OBVIOUS
  <2>1. TypeOK /\ TrueAnswers /\ Requested /\ Restored
    BY DEF BaseInv, ServedInv
  <2>2. TrueAnswers' /\ Requested' /\ Restored'
    BY <2>1, TrueAnswersStep, RequestedStep, RestoredStep
  <2>3. \A c \in Caller : Confirmed(c)'
    BY ConfirmedStep
  <2>4. QED
    BY <2>2, <2>3 DEF ServedInv
<1>2. ServedInv => SuccessIsServed
  BY Zenon DEF ServedInv, Confirmed, Reached, SubSent, Elements, SuccessIsServed
<1>3. QED
  BY ServedInit, BaseInvariant, <1>1, <1>2, PTL DEF Spec
=============================================================================
