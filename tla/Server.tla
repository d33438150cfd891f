------------------------------- MODULE Server -------------------------------
(***************************************************************************)
(* The life of the sessions of a server (server/server.go and              *)
(* server/session.go): acceptLoop registers a session and starts its       *)
(* reader and writer goroutines, the reader handles the client's commands, *)
(* Session.Close runs once, started by whichever goroutine calls it first, *)
(* and Server.Close walks over the sessions with Server.mu held.           *)
(*                                                                         *)
(* The router is the set of pairs that RouterSpec.tla promises.  A send to *)
(* a session is one step that is accepted or refused, as OutQueue.tla      *)
(* promises; a refusal starts "go s.Close()".                              *)
(***************************************************************************)
EXTENDS Naturals, FiniteSets

CONSTANTS
  Session,   \* the connections that clients may open
  Subject,   \* the subjects and patterns of the clients' commands
  Plans,     \* bound: what the clients may send in one behaviour, by session
  Matching   \* the pairs <<pattern, subject>> that Router.Match accepts

Requests == ({"SUB", "UNSUB", "PUB"} \X Subject) \cup {<<"PING">>, <<"UNKNOWN">>}
NoRequest == <<>>

ASSUME ServerConstants ==
  /\ Plans \subseteq [Session -> SUBSET Requests]
  /\ \A x \in Subject : <<x, x>> \in Matching

VARIABLES
  plan,       \* the commands that each client may send; without any it does not connect
  mu,         \* who holds Server.mu across steps: "free" or "Close"
  shutdown,   \* where Server.Close is
  visiting,   \* the session whose Close it has called, as a set
  listening,  \* the listener is open
  acceptor,   \* where acceptLoop is
  accepted,   \* the connection it has just accepted, as a set
  sessions,   \* Server.sessions
  subs,       \* the router: a set of pairs <<pattern, session>>
  subjects,   \* Session.subjects
  reader,     \* where the session's goroutine is (Session.Start and after)
  request,    \* the command it handles
  targets,    \* the sessions handlePublish has still to send to
  writer,     \* where the writer goroutine is
  pending,    \* the sessions whose Close some goroutine has called
  closing     \* how far the body of closeOnce has come

serverVars == <<mu, shutdown, visiting, listening, acceptor, accepted>>
readerVars == <<subjects, reader, request, targets>>
closeVars == <<pending, closing>>
vars == <<plan, serverVars, sessions, subs, readerVars, writer, closeVars>>

done(s) == closing[s] \notin {"open", "flagged"}   \* Session.done is closed

FindSubscribers(x) ==
  {s \in Session : \E p \in Subject : <<p, s>> \in subs /\ <<p, x>> \in Matching}

Init ==
  /\ plan \in Plans
  /\ mu = "free" /\ shutdown = "serving" /\ visiting = {} /\ listening = TRUE
  /\ acceptor = "check" /\ accepted = {}
  /\ sessions = {} /\ subs = {}
  /\ subjects = [s \in Session |-> {}]
  /\ reader = [s \in Session |-> "none"]
  /\ request = [s \in Session |-> NoRequest]
  /\ targets = [s \in Session |-> {}]
  /\ writer = [s \in Session |-> "none"]
  /\ pending = {}
  /\ closing = [s \in Session |-> "open"]

-----------------------------------------------------------------------------
(* Server.acceptLoop *)

\* Mutant: the loop does not look at done.
AcceptCheckBlind ==
  /\ acceptor = "check"
  /\ acceptor' = "accept"
  /\ UNCHANGED <<plan, mu, shutdown, visiting, listening, accepted, sessions, subs,
                 readerVars, writer, closeVars>>

\* select { case <-s.done: return; default: }
AcceptCheck ==
  /\ acceptor = "check"
  /\ acceptor' = IF shutdown = "serving" THEN "accept" ELSE "exit"
  /\ UNCHANGED <<plan, mu, shutdown, visiting, listening, accepted, sessions, subs,
                 readerVars, writer, closeVars>>

\* s.listener.AcceptKCP() returns a connection, also one that was waiting
\* when the listener was closed.
AcceptConn(s) ==
  /\ acceptor = "accept"
  /\ reader[s] = "none" /\ plan[s] # {}
  /\ acceptor' = "register" /\ accepted' = {s}
  /\ UNCHANGED <<plan, mu, shutdown, visiting, listening, sessions, subs, readerVars,
                 writer, closeVars>>

\* AcceptKCP fails on the closed listener; the loop continues.
AcceptError ==
  /\ acceptor = "accept" /\ ~listening
  /\ acceptor' = "check"
  /\ UNCHANGED <<plan, mu, shutdown, visiting, listening, accepted, sessions, subs,
                 readerVars, writer, closeVars>>

\* NewSession and the registration, each under Server.mu, then "go func()".
Register(s) ==
  /\ acceptor = "register" /\ accepted = {s} /\ mu = "free"
  /\ sessions' = sessions \cup {s}
  /\ reader' = [reader EXCEPT ![s] = "start"]
  /\ acceptor' = "check" /\ accepted' = {}
  /\ UNCHANGED <<plan, mu, shutdown, visiting, listening, subs, subjects, request,
                 targets, writer, closeVars>>

-----------------------------------------------------------------------------
(* Session.Start: the goroutine that reads *)

Goto(s, label) == reader' = [reader EXCEPT ![s] = label]

\* Starts the writer goroutine.
StartSession(s) ==
  /\ reader[s] = "start"
  /\ writer' = [writer EXCEPT ![s] = "run"]
  /\ Goto(s, "check")
  /\ UNCHANGED <<plan, serverVars, sessions, subs, subjects, request, targets, closeVars>>

\* Mutant: the loop does not look at done.
ReadCheckBlind(s) ==
  /\ reader[s] = "check"
  /\ Goto(s, "read")
  /\ UNCHANGED <<plan, serverVars, sessions, subs, subjects, request, targets, writer,
                 closeVars>>

\* select { case <-s.done: return; default: }
ReadCheck(s) ==
  /\ reader[s] = "check"
  /\ Goto(s, IF done(s) THEN "defer" ELSE "read")
  /\ UNCHANGED <<plan, serverVars, sessions, subs, subjects, request, targets, writer,
                 closeVars>>

\* ParseFromReader returns a command, possibly after the session has begun to
\* close: the connection is closed last.
ReadRequest(s, r) ==
  /\ reader[s] = "read" /\ closing[s] # "closed"
  /\ request' = [request EXCEPT ![s] = r]
  /\ Goto(s, "handle")
  /\ UNCHANGED <<plan, serverVars, sessions, subs, subjects, targets, writer, closeVars>>

\* ParseFromReader fails: a malformed message, the read deadline of 120 s, or
\* the connection closed on this side.
ReadError(s) ==
  /\ reader[s] = "read"
  /\ Goto(s, "defer")
  /\ UNCHANGED <<plan, serverVars, sessions, subs, subjects, request, targets, writer,
                 closeVars>>

\* Mutant: the session remembers the subject and forgets the router.
HandleSubscribeUnrouted(s, x) ==
  /\ reader[s] = "handle" /\ request[s] = <<"SUB", x>>
  /\ subjects' = [subjects EXCEPT ![s] = @ \cup {x}]
  /\ Goto(s, "reply")
  /\ UNCHANGED <<plan, serverVars, sessions, subs, request, targets, writer, closeVars>>

\* handleSubscribe up to the reply.  Session.mu keeps the list and the call
\* of the router together; nothing in it looks at Session.closed.
HandleSubscribe(s, x) ==
  /\ reader[s] = "handle" /\ request[s] = <<"SUB", x>>
  /\ IF x \in subjects[s] THEN UNCHANGED <<subjects, subs>>
     ELSE /\ subjects' = [subjects EXCEPT ![s] = @ \cup {x}]
          /\ subs' = subs \cup {<<x, s>>}
  /\ Goto(s, "reply")
  /\ UNCHANGED <<plan, serverVars, sessions, request, targets, writer, closeVars>>

\* handleUnsubscribe: the session's list under Session.mu ...
HandleUnsubscribe(s, x) ==
  /\ reader[s] = "handle" /\ request[s] = <<"UNSUB", x>>
  /\ subjects' = [subjects EXCEPT ![s] = @ \ {x}]
  /\ Goto(s, "unroute")
  /\ UNCHANGED <<plan, serverVars, sessions, subs, request, targets, writer, closeVars>>

\* ... and, after it is unlocked, router.Unsubscribe.
Unroute(s, x) ==
  /\ reader[s] = "unroute" /\ request[s] = <<"UNSUB", x>>
  /\ subs' = subs \ {<<x, s>>}
  /\ Goto(s, "reply")
  /\ UNCHANGED <<plan, serverVars, sessions, subjects, request, targets, writer, closeVars>>

\* handlePublish takes its snapshot of the subscribers.
HandlePublish(s, x) ==
  /\ reader[s] = "handle" /\ request[s] = <<"PUB", x>>
  /\ targets' = [targets EXCEPT ![s] = FindSubscribers(x)]
  /\ Goto(s, "publish")
  /\ UNCHANGED <<plan, serverVars, sessions, subs, subjects, request, writer, closeVars>>

\* PING is answered with PONG, an unknown command with ERR.
HandleOther(s) ==
  /\ reader[s] = "handle" /\ request[s] \in {<<"PING">>, <<"UNKNOWN">>}
  /\ Goto(s, "reply")
  /\ UNCHANGED <<plan, serverVars, sessions, subs, subjects, request, targets, writer,
                 closeVars>>

\* A send to session t: an error without effect once t is closed, otherwise
\* accepted, or refused for want of room with "go t.Close()".
SendTo(t) ==
  \/ UNCHANGED pending
  \/ closing[t] = "open" /\ pending' = pending \cup {t}

\* SendOK, SendPong or SendError, the end of HandleMessage.
Reply(s) ==
  /\ reader[s] = "reply"
  /\ SendTo(s)
  /\ request' = [request EXCEPT ![s] = NoRequest]
  /\ Goto(s, "check")
  /\ UNCHANGED <<plan, serverVars, sessions, subs, subjects, targets, writer, closing>>

\* One turn of the loop of handlePublish, over a map and so in any order; an
\* error is logged and the loop goes on.
PublishTo(s, t) ==
  /\ reader[s] = "publish" /\ t \in targets[s]
  /\ SendTo(t)
  /\ targets' = [targets EXCEPT ![s] = @ \ {t}]
  /\ UNCHANGED <<plan, serverVars, sessions, subs, subjects, reader, request, writer,
                 closing>>

PublishEnd(s) ==
  /\ reader[s] = "publish" /\ targets[s] = {}
  /\ request' = [request EXCEPT ![s] = NoRequest]
  /\ Goto(s, "check")
  /\ UNCHANGED <<plan, serverVars, sessions, subs, subjects, targets, writer, closeVars>>

\* The deferred s.Close() of Start, and its return.
DeferClose(s) ==
  /\ reader[s] = "defer"
  /\ pending' = pending \cup {s}
  /\ Goto(s, "closing")
  /\ UNCHANGED <<plan, serverVars, sessions, subs, subjects, request, targets, writer,
                 closing>>

\* After Start returns, acceptLoop's goroutine calls removeSession itself.
RemoveAfterStart(s) ==
  /\ reader[s] = "closing" /\ closing[s] = "closed" /\ mu = "free"
  /\ sessions' = sessions \ {s}
  /\ Goto(s, "exit")
  /\ UNCHANGED <<plan, serverVars, subs, subjects, request, targets, writer, closeVars>>

-----------------------------------------------------------------------------
(* The writer goroutine and Session.Close *)

\* case <-s.done: return
WriterDone(s) ==
  /\ writer[s] = "run" /\ done(s)
  /\ writer' = [writer EXCEPT ![s] = "exit"]
  /\ UNCHANGED <<plan, serverVars, sessions, subs, readerVars, closeVars>>

\* conn.Write fails: s.Close() and return
WriterFail(s) ==
  /\ writer[s] = "run"
  /\ writer' = [writer EXCEPT ![s] = "exit"]
  /\ pending' = pending \cup {s}
  /\ UNCHANGED <<plan, serverVars, sessions, subs, readerVars, closing>>

CloseTo(s, from, to) ==
  /\ s \in pending /\ closing[s] = from
  /\ closing' = [closing EXCEPT ![s] = to]

\* Mutant: Close does nothing but set the flag.
CloseFlagOnly(s) ==
  /\ CloseTo(s, "open", "flagged")
  /\ UNCHANGED <<plan, serverVars, sessions, subs, readerVars, writer, pending>>

\* s.closed.Store(true); close(s.done)
CloseFlag(s) ==
  /\ CloseTo(s, "open", "flagged") \/ CloseTo(s, "flagged", "done")
  /\ UNCHANGED <<plan, serverVars, sessions, subs, readerVars, writer, pending>>

\* s.server.router.RemoveSession(s)
CloseUnroute(s) ==
  /\ CloseTo(s, "done", "unrouted")
  /\ subs' = {ps \in subs : ps[2] # s}
  /\ UNCHANGED <<plan, serverVars, sessions, readerVars, writer, pending>>

\* Mutant: Close does not take the session out of Server.sessions.
CloseUnlistForgotten(s) ==
  /\ CloseTo(s, "unrouted", "unlisted")
  /\ UNCHANGED <<plan, serverVars, sessions, subs, readerVars, writer, pending>>

\* s.server.removeSession(s), which locks Server.mu
CloseUnlist(s) ==
  /\ CloseTo(s, "unrouted", "unlisted") /\ mu = "free"
  /\ sessions' = sessions \ {s}
  /\ UNCHANGED <<plan, serverVars, subs, readerVars, writer, pending>>

\* conn.Close()
CloseConn(s) ==
  /\ CloseTo(s, "unlisted", "closed")
  /\ UNCHANGED <<plan, serverVars, sessions, subs, readerVars, writer, pending>>

-----------------------------------------------------------------------------
(* Server.Close *)

\* close(s.done)
ShutdownStart ==
  /\ shutdown = "serving"
  /\ shutdown' = "done"
  /\ UNCHANGED <<plan, mu, visiting, listening, acceptor, accepted, sessions, subs,
                 readerVars, writer, closeVars>>

\* s.mu.Lock()
ShutdownLock ==
  /\ shutdown = "done" /\ mu = "free"
  /\ mu' = "Close" /\ shutdown' = "locked"
  /\ UNCHANGED <<plan, visiting, listening, acceptor, accepted, sessions, subs,
                 readerVars, writer, closeVars>>

\* One turn of "for session := range s.sessions": session.Close() of the
\* session visited last has returned and the session is deleted; the next
\* one is visited, or the listener is closed and the mutex released.
ShutdownNext ==
  /\ shutdown = "locked"
  /\ \A s \in visiting : closing[s] = "closed"
  /\ sessions' = sessions \ visiting
  /\ IF sessions' = {}
     THEN /\ visiting' = {} /\ listening' = FALSE
          /\ mu' = "free" /\ shutdown' = "closed"
          /\ UNCHANGED pending
     ELSE /\ \E s \in sessions' : /\ visiting' = {s}
                                  /\ pending' = pending \cup {s}
          /\ UNCHANGED <<listening, mu, shutdown>>
  /\ UNCHANGED <<plan, acceptor, accepted, subs, readerVars, writer, closing>>

-----------------------------------------------------------------------------
Accepting == AcceptCheck \/ AcceptError \/ \E s \in Session : AcceptConn(s) \/ Register(s)

Handling(s) ==
  \/ \E x \in Subject : \/ HandleSubscribe(s, x) \/ HandlePublish(s, x)
                        \/ HandleUnsubscribe(s, x) \/ Unroute(s, x)
  \/ HandleOther(s) \/ Reply(s)
  \/ \E t \in Session : PublishTo(s, t)
  \/ PublishEnd(s)

Reading(s) ==
  \/ StartSession(s) \/ ReadCheck(s) \/ ReadError(s) \/ DeferClose(s) \/ RemoveAfterStart(s)
  \/ \E r \in plan[s] : ReadRequest(s, r)
  \/ Handling(s)

Closing(s) == CloseFlag(s) \/ CloseUnroute(s) \/ CloseUnlist(s) \/ CloseConn(s)

ShuttingDown == ShutdownLock \/ ShutdownNext

Next ==
  \/ Accepting
  \/ \E s \in Session : Reading(s) \/ WriterDone(s) \/ WriterFail(s) \/ Closing(s)
  \/ ShutdownStart \/ ShuttingDown

\* Goroutines that can run do run, and a read on a closed connection or past
\* its deadline returns.  No client has to send anything, and none is heard
\* for ever once the listener, which receives for all of them, is closed.
Fairness ==
  /\ WF_vars(AcceptCheck) /\ WF_vars(AcceptError)
  /\ WF_vars(\E s \in Session : Register(s))
  /\ WF_vars(ShuttingDown)
  /\ \A s \in Session :
       /\ WF_vars(Reading(s)) /\ SF_vars(~listening /\ ReadError(s))
       /\ WF_vars(WriterDone(s))
       /\ WF_vars(Closing(s))

Spec == Init /\ [][Next]_vars
FairSpec == Spec /\ Fairness

-----------------------------------------------------------------------------
(* Properties *)

TypeOK ==
  /\ mu \in {"free", "Close"}
  /\ shutdown \in {"serving", "done", "locked", "closed"}
  /\ listening \in BOOLEAN
  /\ acceptor \in {"check", "accept", "register", "exit"}
  /\ accepted \in SUBSET Session /\ visiting \in SUBSET Session
  /\ sessions \in SUBSET Session
  /\ subs \in SUBSET (Subject \X Session)
  /\ subjects \in [Session -> SUBSET Subject]
  /\ reader \in [Session -> {"none", "start", "check", "read", "handle", "unroute",
                             "reply", "publish", "defer", "closing", "exit"}]
  /\ plan \in Plans
  /\ request \in [Session -> Requests \cup {NoRequest}]
  /\ targets \in [Session -> SUBSET Session]
  /\ writer \in [Session -> {"none", "run", "exit"}]
  /\ pending \in SUBSET Session
  /\ closing \in [Session -> {"open", "flagged", "done", "unrouted", "unlisted", "closed"}]

\* Until Close has taken a session out of the router, the router routes to it
\* every subject in its list, and nothing else but the subject of an UNSUB
\* that has left the list and not yet the router (handleSubscribe and
\* handleUnsubscribe, which take Session.mu and Router.mu one after the other).
RouterMatchesSubjects ==
  \A s \in Session : closing[s] \in {"open", "flagged", "done"} =>
    \A x \in Subject :
      /\ x \in subjects[s] => <<x, s>> \in subs
      /\ <<x, s>> \in subs /\ x \notin subjects[s] =>
           reader[s] = "unroute" /\ request[s] = <<"UNSUB", x>>

\* Server.sessions, which GetStats counts and Server.Close walks over, holds a
\* session from its registration until its Close removes it, whoever removes
\* it first: Close, the accepting goroutine after Start, or Server.Close.
ListedUntilClosed ==
  \A s \in Session :
    s \in sessions <=> reader[s] # "none" /\ closing[s] \notin {"unlisted", "closed"}

\* After Close has taken a session out of the router (RemoveSession), the
\* router routes at most one subject to it again, for good: that of the SUB
\* its reader had in hand or still read, since handleSubscribe does not look
\* at Session.closed.
OneLateRoute ==
  \A s \in Session : closing[s] \notin {"open", "flagged", "done"} =>
    /\ \A x, y \in Subject : <<x, s>> \in subs /\ <<y, s>> \in subs => x = y
    /\ reader[s] \in {"read", "handle", "unroute"} =>
         \A x \in Subject : <<x, s>> \notin subs

\* Once some goroutine has called Session.Close, the session's two goroutines
\* end and the server forgets the session (session.go Start and Close),
\* unless Server.Close holds Server.mu.
SessionTerminates ==
  \A s \in Session :
    s \in pending ~> \/ reader[s] = "exit" /\ writer[s] = "exit" /\ s \notin sessions
                  \/ shutdown = "locked"

\* After Server.Close has returned, acceptLoop ends, and so does a session
\* that it registered too late for Close to see it.
ClosedServerDrains ==
  shutdown = "closed" ~>
    /\ acceptor = "exit" /\ sessions = {}
    /\ \A s \in Session : reader[s] \in {"none", "exit"}

\* Server.Close, once called, returns (the graceful shutdown of the README).
ServerCloseReturns == shutdown = "done" ~> shutdown = "closed"
=============================================================================
