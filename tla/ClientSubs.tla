----------------------------- MODULE ClientSubs -----------------------------
(***************************************************************************)
(* How a client subscribes (client/client.go, client/subscription.go):     *)
(* application goroutines call Subscribe, which registers a Subscription   *)
(* and an ACK under its subject, sends SUB, waits for the server's OK and  *)
(* tries again after a timeout; handleMessage closes the ACK an OK names;  *)
(* Unsubscribe sends UNSUB; reconnect replaces the connection and restores *)
(* the subscriptions on the new one; Client.Close ends everything.         *)
(*                                                                         *)
(* The connection is KCP: SUB and UNSUB reach the session in order, its    *)
(* answers come back in order, and either may take longer than the client  *)
(* waits.  How a loss is noticed and the goroutines replaced is the matter *)
(* of ClientConn.tla.  The server's session is the one of Server.tla: a    *)
(* set of subjects, empty on a new connection.                             *)
(***************************************************************************)
EXTENDS Naturals, Sequences, FiniteSets

CONSTANTS
  Caller,      \* the goroutines that subscribe, once each
  Subject,
  subject,     \* what each of them subscribes to
  MaxRetries,  \* the most attempts a scenario has
  Scenario,    \* bound: what happens in one behaviour, as records of callers,
               \* those that subscribe, holders, those that have subscribed at
               \* the start, retries, the attempts of one Subscribe or
               \* restoration (3 in the code), and ends: "close" or "reconnect"
  None,        \* no ACK is pending
  Restorer     \* the ACK of restoreSubscriptions

\* A Subscription and its ACK: the caller and the attempt that made them.
Entry == Caller \X (0..MaxRetries - 1)

ASSUME SubsConstants ==
  /\ subject \in [Caller -> Subject]
  /\ MaxRetries \in Nat
  /\ None # Restorer /\ None \notin Entry /\ Restorer \notin Entry
  /\ \A sc \in Scenario :
       /\ sc.callers \subseteq Caller /\ sc.holders \subseteq Caller \ sc.callers
       /\ sc.retries \in 1..MaxRetries /\ sc.ends \in {"close", "reconnect"}

VARIABLES
  scenario,       \* what happens in this behaviour
  pc,             \* where each caller is
  attempt,        \* the attempt it is in, from 0
  subscriptions,  \* c.subscriptions: one entry <<caller, attempt>> per attempt
  active,         \* the entries whose flag active is set
  pendingSubs,    \* the ACK registered under each subject: <<caller, attempt>>
  acked,          \* the ACK channels that are closed
  up, down,       \* the messages to the server and its answers
  served,         \* the subjects of the server's session
  early,          \* the callers whose SUB went out on the first connection
  rec,            \* where the goroutine of reconnect is
  todo,           \* the subscriptions it has still to restore
  current, tries, \* the one it restores, as a set, and its failed attempts
  closer          \* where Client.Close is

subVars == <<subscriptions, active>>
ackVars == <<pendingSubs, acked>>
wireVars == <<up, down, served>>
recVars == <<rec, todo, current, tries>>
otherVars == <<scenario, recVars, closer>>
vars == <<pc, attempt, subVars, ackVars, wireVars, early, otherVars>>

Mine(c) == <<c, attempt[c]>>
Command == {"SUB", "UNSUB"} \X Subject

\* The channel c.done that caller c waits on is closed: by Client.Close, or
\* by doReconnect, which then puts a new one in its place.
doneClosed(c) == closer # "open" \/ (rec # "none" /\ c \in early)

\* The client has a connection that takes writes.
Connected == closer # "closed" /\ rec # "closed"

Init ==
  /\ scenario \in Scenario
  /\ LET held == scenario.holders IN
     /\ pc = [c \in Caller |-> IF c \in held THEN "subscribed" ELSE "idle"]
     /\ subscriptions = held \X {0} /\ active = held \X {0} /\ acked = held \X {0}
     /\ served = {subject[c] : c \in held} /\ early = held
  /\ attempt = [c \in Caller |-> 0]
  /\ pendingSubs = [x \in Subject |-> None]
  /\ up = <<>> /\ down = <<>>
  /\ rec = "none" /\ todo = {} /\ current = {} /\ tries = 0
  /\ closer = "open"

Goto(c, label) == pc' = [pc EXCEPT ![c] = label]

-----------------------------------------------------------------------------
(* SubscribeWithOptionsContext *)

\* The head of the loop: nothing to clean up in the first attempt.
Begin(c) ==
  /\ pc[c] = "idle" /\ c \in scenario.callers
  /\ Goto(c, "append")
  /\ UNCHANGED <<attempt, subVars, ackVars, wireVars, early, otherVars>>

\* The caller's context is cancelled when the head of the loop looks at it.
Cancelled(c) ==
  /\ pc[c] \in {"idle", "retry"} /\ c \in scenario.callers
  /\ Goto(c, "failed")
  /\ UNCHANGED <<attempt, subVars, ackVars, wireVars, early, otherVars>>

\* A retry closes and removes whatever ACK is registered under the subject.
Cleanup(c) ==
  /\ pc[c] = "retry"
  /\ LET x == subject[c] IN
     /\ acked' = acked \cup ({pendingSubs[x]} \ {None})
     /\ pendingSubs' = [pendingSubs EXCEPT ![x] = None]
  /\ Goto(c, "append")
  /\ UNCHANGED <<attempt, subVars, wireVars, early, otherVars>>

\* A new Subscription, its processor started, is put into the list.
Append_(c) ==
  /\ pc[c] = "append"
  /\ subscriptions' = subscriptions \cup {Mine(c)} /\ active' = active \cup {Mine(c)}
  /\ Goto(c, "register")
  /\ UNCHANGED <<attempt, ackVars, wireVars, early, otherVars>>

\* The ACK is registered, over one that may be there.
Register(c) ==
  /\ pc[c] = "register"
  /\ pendingSubs' = [pendingSubs EXCEPT ![subject[c]] = Mine(c)]
  /\ Goto(c, "write")
  /\ UNCHANGED <<attempt, subVars, acked, wireVars, early, otherVars>>

\* conn.Write(SUB) succeeds, and the caller waits.
WriteSub(c) ==
  /\ pc[c] = "write" /\ Connected
  /\ up' = Append(up, <<"SUB", subject[c]>>)
  /\ early' = IF rec = "none" THEN early \cup {c} ELSE early \ {c}
  /\ Goto(c, "await")
  /\ UNCHANGED <<attempt, subVars, ackVars, down, served, otherVars>>

\* Mutant: the registered ACK stays.
GiveUpKeeping(c, label) ==
  /\ Goto(c, label)
  /\ UNCHANGED <<attempt, subVars, ackVars, wireVars, early, otherVars>>

\* delete(c.pendingSubs, subject)
GiveUp(c, label) ==
  /\ pendingSubs' = [pendingSubs EXCEPT ![subject[c]] = None]
  /\ Goto(c, label)
  /\ UNCHANGED <<attempt, subVars, acked, wireVars, early, otherVars>>

\* conn.Write(SUB) fails
WriteError(c) == pc[c] = "write" /\ GiveUp(c, "drop")

\* case <-time.After(ackTimeout)
Timeout(c) == pc[c] = "await" /\ GiveUp(c, "drop")

\* case <-ctx.Done()
AwaitCancelled(c) == pc[c] = "await" /\ GiveUp(c, "dropCancelled")

\* Mutant: one attempt too many.
DropTooLate(c) ==
  /\ pc[c] \in {"drop", "dropCancelled"}
  /\ subscriptions' = subscriptions \ {Mine(c)} /\ active' = active \ {Mine(c)}
  /\ IF pc[c] = "drop" /\ attempt[c] < scenario.retries
     THEN /\ attempt' = [attempt EXCEPT ![c] = @ + 1]
          /\ Goto(c, "retry")
     ELSE UNCHANGED attempt /\ Goto(c, "failed")
  /\ UNCHANGED <<ackVars, wireVars, early, otherVars>>

\* Mutant: the subscription of a failed attempt stays.
DropKeeping(c) ==
  /\ pc[c] \in {"drop", "dropCancelled"}
  /\ UNCHANGED subVars
  /\ IF pc[c] = "drop" /\ attempt[c] + 1 < scenario.retries
     THEN /\ attempt' = [attempt EXCEPT ![c] = @ + 1]
          /\ Goto(c, "retry")
     ELSE UNCHANGED attempt /\ Goto(c, "failed")
  /\ UNCHANGED <<ackVars, wireVars, early, otherVars>>

\* Mutant: the attempt is not counted.
DropUncounted(c) ==
  /\ pc[c] \in {"drop", "dropCancelled"}
  /\ subscriptions' = subscriptions \ {Mine(c)} /\ active' = active \ {Mine(c)}
  /\ IF pc[c] = "drop" /\ attempt[c] + 1 < scenario.retries
     THEN /\ attempt' = [attempt EXCEPT ![c] = @]
          /\ Goto(c, "retry")
     ELSE UNCHANGED attempt /\ Goto(c, "failed")
  /\ UNCHANGED <<ackVars, wireVars, early, otherVars>>

\* removeSubscription(sub), active false, close(msgChan); continue or return.
Drop(c) ==
  /\ pc[c] \in {"drop", "dropCancelled"}
  /\ subscriptions' = subscriptions \ {Mine(c)} /\ active' = active \ {Mine(c)}
  /\ IF pc[c] = "drop" /\ attempt[c] + 1 < scenario.retries
     THEN /\ attempt' = [attempt EXCEPT ![c] = @ + 1]
          /\ Goto(c, "retry")
     ELSE UNCHANGED attempt /\ Goto(c, "failed")
  /\ UNCHANGED <<ackVars, wireVars, early, otherVars>>

\* case <-ackChan: the call succeeds.
Acked(c) ==
  /\ pc[c] = "await" /\ Mine(c) \in acked
  /\ Goto(c, "subscribed")
  /\ UNCHANGED <<attempt, subVars, ackVars, wireVars, early, otherVars>>

\* case <-c.done: an error, and the entry stays in the list, active, with its
\* ACK.
AwaitDone(c) ==
  /\ pc[c] = "await" /\ doneClosed(c)
  /\ Goto(c, "abandoned")
  /\ UNCHANGED <<attempt, subVars, ackVars, wireVars, early, otherVars>>

-----------------------------------------------------------------------------
(* Subscription.Unsubscribe, once per subscription *)

\* Nothing happens if it is not active; else active is cleared and the
\* message channel closed, and the processor's end awaited.
Unsubscribe(c) ==
  /\ pc[c] = "subscribed"
  /\ active' = active \ {Mine(c)}
  /\ Goto(c, IF Mine(c) \in active THEN "unsub" ELSE "ended")
  /\ UNCHANGED <<attempt, subscriptions, ackVars, wireVars, early, otherVars>>

\* conn.Write(UNSUB) and, if it succeeds, removeSubscription.
WriteUnsub(c) ==
  /\ pc[c] = "unsub" /\ Connected
  /\ up' = Append(up, <<"UNSUB", subject[c]>>)
  /\ subscriptions' = subscriptions \ {Mine(c)}
  /\ Goto(c, "ended")
  /\ UNCHANGED <<attempt, active, ackVars, down, served, early, otherVars>>

WriteUnsubError(c) ==
  /\ pc[c] = "unsub"
  /\ Goto(c, "ended")
  /\ UNCHANGED <<attempt, subVars, ackVars, wireVars, early, otherVars>>

-----------------------------------------------------------------------------
(* The server's session and the client's receiveLoop *)

\* handleSubscribe or handleUnsubscribe, with its OK.
Serve ==
  /\ up # <<>>
  /\ LET x == Head(up)[2] IN
     served' = IF Head(up)[1] = "SUB" THEN served \cup {x} ELSE served \ {x}
  /\ up' = Tail(up) /\ down' = Append(down, Head(up))
  /\ UNCHANGED <<pc, attempt, subVars, ackVars, early, otherVars>>

\* handleMessage with CmdOk: only "subscribed to x" names an ACK; it is
\* closed and removed.
HandleOk ==
  /\ down # <<>> /\ closer \in {"open", "done"}
  /\ LET x == Head(down)[2]
         named == IF Head(down)[1] = "SUB" THEN {pendingSubs[x]} \ {None} ELSE {} IN
     /\ acked' = acked \cup named
     /\ pendingSubs' = IF named = {} THEN pendingSubs ELSE [pendingSubs EXCEPT ![x] = None]
  /\ down' = Tail(down)
  /\ UNCHANGED <<pc, attempt, subVars, up, served, early, otherVars>>

-----------------------------------------------------------------------------
(* reconnect: doReconnect and restoreSubscriptions *)

\* doReconnect closes c.done and the connection; what was on its way is lost.
ReconnectClose ==
  /\ scenario.ends = "reconnect" /\ rec = "none"
  /\ rec' = "closed" /\ up' = <<>> /\ down' = <<>> /\ served' = {}
  /\ UNCHANGED <<scenario, pc, attempt, subVars, ackVars, early, todo, current, tries, closer>>

\* A new c.done, a new connection and its loops.
ReconnectDial ==
  /\ rec = "closed"
  /\ rec' = "copy"
  /\ UNCHANGED <<scenario, pc, attempt, subVars, ackVars, wireVars, early, todo, current,
                 tries, closer>>

\* copy(subs, c.subscriptions)
RestoreCopy ==
  /\ rec = "copy"
  /\ todo' = subscriptions /\ rec' = "next"
  /\ UNCHANGED <<scenario, pc, attempt, subVars, ackVars, wireVars, early, current, tries,
                 closer>>

\* One turn of the loop: an inactive subscription is passed over.
RestoreNext(e) ==
  /\ rec = "next" /\ e \in todo
  /\ todo' = todo \ {e}
  /\ IF e \in active THEN current' = {e} /\ rec' = "register" ELSE UNCHANGED <<current, rec>>
  /\ UNCHANGED <<scenario, pc, attempt, subVars, ackVars, wireVars, early, tries, closer>>

\* sendSubWithAck closes the ACK of the subject, whosever it is, and
\* registers its own.
RestoreRegister(e) ==
  /\ rec = "register" /\ current = {e}
  /\ LET x == subject[e[1]] IN
     /\ acked' = (acked \cup {pendingSubs[x]}) \ {None, Restorer}
     /\ pendingSubs' = [pendingSubs EXCEPT ![x] = Restorer]
  /\ rec' = "write"
  /\ UNCHANGED <<scenario, pc, attempt, subVars, wireVars, early, todo, current, tries,
                 closer>>

RestoreWrite(e) ==
  /\ rec = "write" /\ current = {e}
  /\ up' = Append(up, <<"SUB", subject[e[1]]>>) /\ rec' = "await"
  /\ UNCHANGED <<scenario, pc, attempt, subVars, ackVars, down, served, early, todo, current,
                 tries, closer>>

\* case <-ackChan
RestoreAcked ==
  /\ rec = "await" /\ Restorer \in acked
  /\ rec' = "next" /\ current' = {} /\ tries' = 0
  /\ UNCHANGED <<scenario, pc, attempt, subVars, ackVars, wireVars, early, todo, closer>>

\* Mutant: a subscription that could not be restored stays active.
RestoreFailsKeeping(e) ==
  /\ rec \in {"write", "await"} /\ current = {e}
  /\ pendingSubs' = [pendingSubs EXCEPT ![subject[e[1]]] = None]
  /\ rec' = "next" /\ current' = {} /\ tries' = 0
  /\ UNCHANGED <<scenario, pc, attempt, subVars, acked, wireVars, early, todo, closer>>

\* Mutant: failed attempts are not counted.
RestoreFailsUncounted(e) ==
  /\ rec \in {"write", "await"} /\ current = {e}
  /\ pendingSubs' = [pendingSubs EXCEPT ![subject[e[1]]] = None]
  /\ rec' = "register"
  /\ UNCHANGED <<scenario, pc, attempt, subVars, acked, wireVars, early, todo, current, tries,
                 closer>>

\* The write fails or the timeout passes; after the last attempt the
\* subscription is made inactive.
RestoreFails(e) ==
  /\ rec \in {"write", "await"} /\ current = {e}
  /\ pendingSubs' = [pendingSubs EXCEPT ![subject[e[1]]] = None]
  /\ IF tries + 1 < scenario.retries
     THEN tries' = tries + 1 /\ rec' = "register" /\ UNCHANGED <<active, current>>
     ELSE tries' = 0 /\ rec' = "next" /\ active' = active \ {e} /\ current' = {}
  /\ UNCHANGED <<scenario, pc, attempt, subscriptions, acked, wireVars, early, todo, closer>>

RestoreEnd ==
  /\ rec = "next" /\ todo = {}
  /\ rec' = "done"
  /\ UNCHANGED <<scenario, pc, attempt, subVars, ackVars, wireVars, early, todo, current,
                 tries, closer>>

-----------------------------------------------------------------------------
(* Client.Close: the channel done, the loops (their end is in ClientConn),   *)
(* the list, the ACKs, the connection.                                       *)

CloseDone ==
  /\ scenario.ends = "close" /\ closer = "open"
  /\ closer' = "done"
  /\ UNCHANGED <<scenario, early, recVars, pc, attempt, subVars, ackVars, wireVars>>

CloseLists ==
  /\ closer = "done"
  /\ closer' = "cleared"
  /\ active' = active \ subscriptions /\ subscriptions' = {}
  /\ UNCHANGED <<scenario, early, recVars, pc, attempt, ackVars, wireVars>>

CloseAcks ==
  /\ closer = "cleared"
  /\ closer' = "unacked"
  /\ acked' = acked \cup ({pendingSubs[x] : x \in Subject} \ {None})
  /\ pendingSubs' = [x \in Subject |-> None]
  /\ UNCHANGED <<scenario, early, recVars, pc, attempt, subVars, wireVars>>

CloseConn ==
  /\ closer = "unacked"
  /\ closer' = "closed"
  /\ UNCHANGED <<scenario, early, recVars, pc, attempt, subVars, ackVars, wireVars>>

-----------------------------------------------------------------------------
\* What a caller's Subscribe does by itself, the timeout included.
Subscribing(c) ==
  \/ Begin(c) \/ Cleanup(c) \/ Append_(c) \/ Register(c) \/ WriteSub(c) \/ WriteError(c)
  \/ Timeout(c) \/ Drop(c) \/ Acked(c) \/ AwaitDone(c)

Restoring ==
  \/ ReconnectDial \/ RestoreCopy \/ RestoreAcked \/ RestoreEnd
  \/ \E e \in Entry : \/ RestoreNext(e) \/ RestoreRegister(e) \/ RestoreWrite(e)
                       \/ RestoreFails(e)

Next ==
  \/ \E c \in Caller : \/ Subscribing(c) \/ Cancelled(c) \/ AwaitCancelled(c)
                       \/ Unsubscribe(c) \/ WriteUnsub(c) \/ WriteUnsubError(c)
  \/ Serve \/ HandleOk
  \/ ReconnectClose \/ Restoring
  \/ CloseDone \/ CloseLists \/ CloseAcks \/ CloseConn

Spec == Init /\ [][Next]_vars

\* A caller's goroutine and that of reconnect run, their timers fire and the
\* dialling ends.  Nothing is assumed of the network, the server or the
\* application.
FairSpec ==
  /\ Spec
  /\ \A c \in Caller : WF_vars(pc[c] # "idle" /\ Subscribing(c))
  /\ WF_vars(Restoring)

-----------------------------------------------------------------------------
(* Properties *)

TypeOK ==
  /\ scenario \in Scenario
  /\ pc \in [Caller -> {"idle", "retry", "append", "register", "write", "await", "drop",
                        "dropCancelled", "subscribed", "failed", "abandoned", "unsub",
                        "ended"}]
  /\ attempt \in [Caller -> 0..MaxRetries - 1]
  /\ subscriptions \in SUBSET Entry /\ active \in SUBSET Entry
  /\ pendingSubs \in [Subject -> Entry \cup {None, Restorer}]
  /\ acked \in SUBSET (Entry \cup {Restorer})
  /\ up \in Seq(Command) /\ down \in Seq(Command) /\ served \in SUBSET Subject
  /\ early \in SUBSET Caller
  /\ rec \in {"none", "closed", "copy", "next", "register", "write", "await", "done"}
  /\ todo \in SUBSET Entry /\ current \in SUBSET Entry /\ tries \in 0..MaxRetries - 1
  /\ closer \in {"open", "done", "cleared", "unacked", "closed"}

\* A subscription that was returned and is still active is served: the
\* server's session holds its subject, whichever attempt the OK answered, and
\* after the connection was replaced it holds it again, or the SUB is on its
\* way or the restoration still to come (SubscribeWithOptionsContext,
\* restoreSubscriptions).
SuccessIsServed ==
  \A c \in Caller : pc[c] = "subscribed" /\ Mine(c) \in active /\ closer = "open" =>
    \/ subject[c] \in served
    \/ rec \in {"closed", "copy"} \/ Mine(c) \in todo \cup current
    \/ rec # "none" /\ \E i \in 1..Len(up) : up[i] = <<"SUB", subject[c]>>

\* No ACK is left behind: one that is registered belongs to an attempt that
\* still waits for it, of a caller or of restoreSubscriptions, unless c.done
\* was closed under the attempt (pendingSubs).
PendingHasOwner ==
  \A x \in Subject :
    /\ pendingSubs[x] = Restorer =>
         rec \in {"write", "await"} /\ \E e \in current : subject[e[1]] = x
    /\ pendingSubs[x] \in Entry =>
         LET c == pendingSubs[x][1] IN
         /\ subject[c] = x /\ pendingSubs[x] = Mine(c)
         /\ pc[c] \in {"write", "await"} \/ doneClosed(c)

\* An active subscription is one that waits for its ACK or was confirmed: a
\* failed attempt and an error leave none behind while the client is open
\* (removeSubscription on each path of the loop), but for one error: the call
\* that found c.done closed by a reconnection leaves a subscription that
\* nobody holds and that is restored with the others.
ListedHasOwner ==
  closer = "open" =>
    \A e \in active :
      /\ e \in subscriptions /\ e = Mine(e[1])
      /\ \/ pc[e[1]] \in {"register", "write", "await", "drop", "dropCancelled", "subscribed"}
         \/ pc[e[1]] = "abandoned" /\ e[1] \in early /\ rec # "none"

\* A Subscribe returns: its attempts and timeouts are bounded.
SubscribeReturns ==
  \A c \in Caller :
    pc[c] = "append" ~> pc[c] \in {"subscribed", "failed", "abandoned", "unsub", "ended"}

\* A reconnection comes to an end with every subscription restored or made
\* inactive, also when the server never answers (restoreOneSubscription).
RestoreEnds == rec = "closed" ~> rec = "done"
=============================================================================
