---------------------------- MODULE SessionQueue ----------------------------
(***************************************************************************)
(* The outbound queue of one server session (server/session.go): every     *)
(* goroutine that sends to the session runs enqueueEncoded, the writer     *)
(* goroutine of Session.Start drains outChan, and Session.Close may run at *)
(* any time.  Every load, compare-and-swap, add and channel operation on   *)
(* the shared fields is a step of its own.                                 *)
(*                                                                         *)
(* Each call of Send* is a process of its own: calls of one goroutine      *)
(* follow each other, calls of different goroutines (handlePublish of any  *)
(* session) overlap.  Leaving out the first restriction only adds          *)
(* interleavings.                                                          *)
(***************************************************************************)
EXTENDS Integers, Sequences, FiniteSets

CONSTANTS
  Call,            \* the calls of SendMessage, SendEncoded, SendOK, ...
  Size,            \* len(encoded) of each call
  MaxQueuedBytes,  \* Session.maxQueuedBytes, which NewSession makes positive
  OutCap,          \* cap(Session.outChan)
  MaxEncoded       \* protocol.MaxBodyLen + 4

\* NewSession replaces a configured limit that is not positive by its default,
\* and an encoded message has at least its 7 bytes of header.
ASSUME QueueConstants ==
  /\ Size \in [Call -> Nat \ {0}]
  /\ MaxQueuedBytes \in Nat \ {0}
  /\ OutCap \in Nat \ {0}
  /\ MaxEncoded \in Nat

VARIABLES
  pc,           \* where each call is
  current,      \* the local variable "current" of each call, 0 when dead
  queuedBytes,  \* Session.queuedBytes
  outChan,      \* Session.outChan
  writer,       \* where the writer goroutine is
  data,         \* its local variable "data": a sequence of length 0 or 1
  wire,         \* what conn.Write has put on the connection
  closeCalled,  \* some goroutine has called Session.Close
  closing       \* how far the body of closeOnce has come

vars == <<pc, current, queuedBytes, outChan, writer, data, wire,
          closeCalled, closing>>

closed == closing # "open"                      \* Session.closed
doneClosed == closing \in {"done", "closed"}    \* close(Session.done)
connOpen == closing # "closed"                  \* conn.Close() not yet run

Init ==
  /\ pc = [m \in Call |-> "new"]
  /\ current = [m \in Call |-> 0]
  /\ queuedBytes = 0
  /\ outChan = <<>>
  /\ writer = "select"
  /\ data = <<>>
  /\ wire = <<>>
  /\ closeCalled = FALSE
  /\ closing = "open"

-----------------------------------------------------------------------------
(* Send* and enqueueEncoded *)

\* The checks of SendMessage and SendEncoded.  SendOK, SendError and
\* SendPong have the first check only; their messages are never too large.
Send(m) ==
  /\ pc[m] = "new"
  /\ pc' = [pc EXCEPT ![m] = IF closed \/ Size[m] > MaxEncoded
                             THEN "err" ELSE "enqueue"]
  /\ UNCHANGED <<current, queuedBytes, outChan, writer, data, wire,
                 closeCalled, closing>>

\* if s.closed.Load() { return error }
CheckClosed(m) ==
  /\ pc[m] = "enqueue"
  /\ pc' = [pc EXCEPT ![m] = IF closed THEN "err" ELSE "load"]
  /\ UNCHANGED <<current, queuedBytes, outChan, writer, data, wire,
                 closeCalled, closing>>

\* Mutant: the budget refuses a message that just fits.
LoadOffByOne(m) ==
  /\ pc[m] = "load"
  /\ IF queuedBytes + Size[m] >= MaxQueuedBytes
     THEN /\ pc' = [pc EXCEPT ![m] = "err"]
          /\ closeCalled' = TRUE
          /\ UNCHANGED current
     ELSE /\ current' = [current EXCEPT ![m] = queuedBytes]
          /\ pc' = [pc EXCEPT ![m] = "cas"]
          /\ UNCHANGED closeCalled
  /\ UNCHANGED <<queuedBytes, outChan, writer, data, wire, closing>>

\* Mutant: a refused message does not close the session.
LoadWithoutClose(m) ==
  /\ pc[m] = "load"
  /\ current' = [current EXCEPT ![m] = queuedBytes]
  /\ pc' = [pc EXCEPT ![m] = IF queuedBytes + Size[m] > MaxQueuedBytes
                             THEN "err" ELSE "cas"]
  /\ UNCHANGED <<queuedBytes, outChan, writer, data, wire, closeCalled, closing>>

\* current := s.queuedBytes.Load(), and "go s.Close()" when the message
\* would exceed the budget.
Load(m) ==
  /\ pc[m] = "load"
  /\ IF queuedBytes + Size[m] > MaxQueuedBytes
     THEN /\ pc' = [pc EXCEPT ![m] = "err"]
          /\ closeCalled' = TRUE
          /\ UNCHANGED current
     ELSE /\ current' = [current EXCEPT ![m] = queuedBytes]
          /\ pc' = [pc EXCEPT ![m] = "cas"]
          /\ UNCHANGED closeCalled
  /\ UNCHANGED <<queuedBytes, outChan, writer, data, wire, closing>>

\* Mutant: an unconditional Add in place of the compare-and-swap.
BlindAdd(m) ==
  /\ pc[m] = "cas"
  /\ queuedBytes' = queuedBytes + Size[m]
  /\ pc' = [pc EXCEPT ![m] = "send"]
  /\ UNCHANGED <<current, outChan, writer, data, wire, closeCalled, closing>>

\* s.queuedBytes.CompareAndSwap(current, next).  The local variable is dead
\* after it, whatever the outcome.
CompareAndSwap(m) ==
  /\ pc[m] = "cas"
  /\ current' = [current EXCEPT ![m] = 0]
  /\ IF queuedBytes = current[m]
     THEN /\ queuedBytes' = current[m] + Size[m]
          /\ pc' = [pc EXCEPT ![m] = "send"]
     ELSE /\ pc' = [pc EXCEPT ![m] = "load"]
          /\ UNCHANGED queuedBytes
  /\ UNCHANGED <<outChan, writer, data, wire, closeCalled, closing>>

\* select { case s.outChan <- encoded: ... default: ... }
Enqueue(m) ==
  /\ pc[m] = "send"
  /\ IF Len(outChan) < OutCap
     THEN /\ outChan' = Append(outChan, m)
          /\ pc' = [pc EXCEPT ![m] = "ok"]
     ELSE /\ pc' = [pc EXCEPT ![m] = "full"]
          /\ UNCHANGED outChan
  /\ UNCHANGED <<current, queuedBytes, writer, data, wire, closeCalled, closing>>

\* Mutant: a full channel does not give the reserved bytes back.
RollbackForgotten(m) ==
  /\ pc[m] = "full"
  /\ pc' = [pc EXCEPT ![m] = "err"]
  /\ closeCalled' = TRUE
  /\ UNCHANGED <<current, queuedBytes, outChan, writer, data, wire, closing>>

\* Mutant: a full channel drops the message and reports success.
RollbackSilent(m) ==
  /\ pc[m] = "full"
  /\ queuedBytes' = queuedBytes - Size[m]
  /\ pc' = [pc EXCEPT ![m] = "ok"]
  /\ closeCalled' = TRUE
  /\ UNCHANGED <<current, outChan, writer, data, wire, closing>>

\* The default branch: give the bytes back, then "go s.Close()".
Rollback(m) ==
  /\ pc[m] = "full"
  /\ queuedBytes' = queuedBytes - Size[m]
  /\ pc' = [pc EXCEPT ![m] = "err"]
  /\ closeCalled' = TRUE
  /\ UNCHANGED <<current, outChan, writer, data, wire, closing>>

-----------------------------------------------------------------------------
(* The writer goroutine of Session.Start *)

\* case data := <-s.outChan.  When done is closed as well, Go's select takes
\* either branch.
WriterReceive ==
  /\ writer = "select"
  /\ outChan # <<>>
  /\ data' = <<Head(outChan)>>
  /\ outChan' = Tail(outChan)
  /\ writer' = "account"
  /\ UNCHANGED <<pc, current, queuedBytes, wire, closeCalled, closing>>

\* s.queuedBytes.Add(-int64(len(data)))
WriterAccount ==
  /\ writer = "account"
  /\ queuedBytes' = queuedBytes - Size[data[1]]
  /\ writer' = "write"
  /\ UNCHANGED <<pc, current, outChan, data, wire, closeCalled, closing>>

\* conn.Write(data) succeeds
WriterWrite ==
  /\ writer = "write"
  /\ connOpen
  /\ wire' = wire \o data
  /\ data' = <<>>
  /\ writer' = "select"
  /\ UNCHANGED <<pc, current, queuedBytes, outChan, closeCalled, closing>>

\* Mutant: the writer returns on a failed write without closing the session.
WriterFailQuietly ==
  /\ writer = "write"
  /\ writer' = "exit"
  /\ UNCHANGED <<pc, current, queuedBytes, outChan, data, wire, closeCalled, closing>>

\* conn.Write(data) times out or finds the connection closed: the message is
\* lost, the writer calls s.Close() and returns.
WriterFail ==
  /\ writer = "write"
  /\ closeCalled' = TRUE
  /\ writer' = "exit"
  /\ UNCHANGED <<pc, current, queuedBytes, outChan, data, wire, closing>>

\* case <-s.done: return
WriterDone ==
  /\ writer = "select"
  /\ doneClosed
  /\ writer' = "exit"
  /\ UNCHANGED <<pc, current, queuedBytes, outChan, data, wire, closeCalled,
                 closing>>

-----------------------------------------------------------------------------
(* Session.Close *)

\* The reader's deferred Close, or Server.Close.
CallClose ==
  /\ ~closeCalled
  /\ closeCalled' = TRUE
  /\ UNCHANGED <<pc, current, queuedBytes, outChan, writer, data, wire, closing>>

\* The three steps of the body that closeOnce runs once: closed.Store(true),
\* close(done), and conn.Close() after the session left router and server.
CloseStep ==
  /\ closeCalled
  /\ \/ closing = "open" /\ closing' = "flagged"
     \/ closing = "flagged" /\ closing' = "done"
     \/ closing = "done" /\ closing' = "closed"
  /\ UNCHANGED <<pc, current, queuedBytes, outChan, writer, data, wire,
                 closeCalled>>

-----------------------------------------------------------------------------
CallStep(m) ==
  \/ Send(m) \/ CheckClosed(m) \/ Load(m) \/ CompareAndSwap(m)
  \/ Enqueue(m) \/ Rollback(m)

WriterStep ==
  WriterReceive \/ WriterAccount \/ WriterWrite \/ WriterFail \/ WriterDone

Next == (\E m \in Call : CallStep(m)) \/ WriterStep \/ CallClose \/ CloseStep

Spec == Init /\ [][Next]_vars

\* The Go scheduler runs every goroutine that can run.  Nothing is assumed of
\* the callers' first step nor of the outside world that calls Close.
FairSpec ==
  /\ Spec
  /\ \A m \in Call : WF_vars(CallStep(m) /\ pc[m] # "new")
  /\ WF_vars(WriterStep)
  /\ WF_vars(CloseStep)

-----------------------------------------------------------------------------
(* Properties *)

TypeOK ==
  /\ pc \in [Call -> {"new", "enqueue", "load", "cas", "send", "full", "ok", "err"}]
  /\ current \in [Call -> Int]
  /\ queuedBytes \in Int
  /\ outChan \in Seq(Call)
  /\ writer \in {"select", "account", "write", "exit"}
  /\ data \in {<<>>} \cup {<<m>> : m \in Call}
  /\ wire \in Seq(Call)
  /\ closeCalled \in BOOLEAN
  /\ closing \in {"open", "flagged", "done", "closed"}

Elements(s) == {s[i] : i \in 1..Len(s)}

\* The messages whose bytes are charged to queuedBytes: reserved by a call
\* that has not finished, in the channel, or taken and not yet accounted for.
Held ==
  {m \in Call : pc[m] \in {"send", "full"}}
    \cup Elements(outChan)
    \cup (IF writer = "account" THEN Elements(data) ELSE {})

\* The bytes of a set of messages, one element each; its cardinality is the
\* sum of their sizes.
BytesOf(M) == UNION {{m} \X (1..Size[m]) : m \in M}

\* queuedBytes (session.go:325-349 and the writer, 88) is at every moment the
\* exact sum of the sizes charged to it: no interleaving of reservations,
\* rollbacks and the writer's subtraction loses or invents a byte.
ByteAccounting == queuedBytes = Cardinality(BytesOf(Held))

\* The budget of session.go:333 holds at every moment although the check and
\* the reservation are separate steps, and the counter never goes negative.
BudgetRespected == queuedBytes \in 0..MaxQueuedBytes

\* The accepted messages in the order in which they go, or went, out.
InTransit == wire \o data \o outChan

\* A message whose call returned nil (session.go:343) is on the wire, in the
\* writer's hand or in the channel, in exactly one place and exactly once; a
\* message whose call returned an error is in none of them.
AcceptedExactlyOnce ==
  /\ Elements(InTransit) = {m \in Call : pc[m] = "ok"}
  /\ \A i, j \in 1..Len(InTransit) : InTransit[i] = InTransit[j] => i = j

\* How far a call has come, as its caller could tell: a message is accepted or
\* refused when the channel takes it or does not.
Outcome(label) ==
  CASE label \in {"enqueue", "load", "cas", "send"} -> "pending"
    [] label \in {"full", "err"} -> "err"
    [] OTHER -> label

Status == [m \in Call |-> Outcome(pc[m])]

\* The queue implements its contract: atomic acceptance, refusal only for
\* want of room or on a closed session, and delivery in order of acceptance.
Contract == INSTANCE OutQueue WITH
  status <- Status, queue <- outChan, hand <- data, open <- ~closed
ImplementsOutQueue == Contract!Spec

\* A message the queue accepted is written unless the session closes: the
\* writer (session.go:82-98) never stalls with a message in the channel.
AcceptedIsWritten ==
  \A m \in Call : pc[m] = "ok" ~> (m \in Elements(wire) \/ closed)

\* A refusal of a message of legal size means the session ends: after the
\* "go s.Close()" of session.go:334 and 346 it is closed for good, and the
\* writer goroutine has returned.
RefusalEndsSession ==
  \A m \in Call : pc[m] = "err" /\ Size[m] <= MaxEncoded
                    ~> closing = "closed" /\ writer = "exit"
=============================================================================
