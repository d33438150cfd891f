------------------------------ MODULE OutQueue ------------------------------
(***************************************************************************)
(* What the outbound queue of a server session promises its callers, with  *)
(* no byte counter, no compare-and-swap loop and no channel: a call offers *)
(* a message, the offer is accepted or refused in one step, and accepted   *)
(* messages leave in the order of their acceptance.  SessionQueue.tla,     *)
(* translated from server/session.go, is shown to implement it.            *)
(***************************************************************************)
EXTENDS Naturals, Sequences, FiniteSets

CONSTANTS
  Call,            \* the calls of Send*, each carrying one encoded message
  Size,            \* the length of the encoded message of each call
  MaxQueuedBytes,  \* Session.maxQueuedBytes
  OutCap,          \* capacity of Session.outChan
  MaxEncoded       \* protocol.MaxBodyLen + 4

VARIABLES
  status,  \* "new", "pending", "ok" or "err", for every call
  queue,   \* accepted and not yet taken by the writer
  hand,    \* the message the writer took: a sequence of length 0 or 1
  wire,    \* written to the connection, in order
  open     \* FALSE once the session is closed

vars == <<status, queue, hand, wire, open>>

Elements(s) == {s[i] : i \in 1..Len(s)}

\* The bytes of a set of messages, one element each, so that the
\* cardinality of the result is the sum of the sizes.
BytesOf(M) == UNION {{m} \X (1..Size[m]) : m \in M}

Pending == {m \in Call : status[m] = "pending"}

Init ==
  /\ status = [m \in Call |-> "new"]
  /\ queue = <<>> /\ hand = <<>> /\ wire = <<>>
  /\ open = TRUE

Offer(m) ==
  /\ status[m] = "new"
  /\ status' = [status EXCEPT ![m] = "pending"]
  /\ UNCHANGED <<queue, hand, wire, open>>

\* An accepted message fits: in the channel and, with everything queued in
\* front of it, in the byte budget.
Accept(m) ==
  /\ status[m] = "pending"
  /\ Len(queue) < OutCap
  /\ Cardinality(BytesOf(Elements(queue) \cup {m})) <= MaxQueuedBytes
  /\ status' = [status EXCEPT ![m] = "ok"]
  /\ queue' = Append(queue, m)
  /\ UNCHANGED <<hand, wire, open>>

\* A refusal has a reason: the session is closed, the message is too large,
\* the channel is full, or the budget would be exceeded, counting the other
\* calls under way and the message in the writer's hand.  After one refusal
\* for want of room the session is given up, and any call may be refused.
Refuse(m) ==
  /\ status[m] \in {"new", "pending"}
  /\ \/ ~open
     \/ Size[m] > MaxEncoded
     \/ Len(queue) = OutCap
     \/ \E k \in Call : status[k] = "err" /\ Size[k] <= MaxEncoded
     \/ Cardinality(BytesOf(Elements(queue) \cup Elements(hand) \cup Pending
                              \cup {m})) > MaxQueuedBytes
  /\ status' = [status EXCEPT ![m] = "err"]
  /\ UNCHANGED <<queue, hand, wire, open>>

Take ==
  /\ hand = <<>> /\ queue # <<>>
  /\ hand' = <<Head(queue)>>
  /\ queue' = Tail(queue)
  /\ UNCHANGED <<status, wire, open>>

Deliver ==
  /\ hand # <<>>
  /\ wire' = wire \o hand
  /\ hand' = <<>>
  /\ UNCHANGED <<status, queue, open>>

Close ==
  /\ open
  /\ open' = FALSE
  /\ UNCHANGED <<status, queue, hand, wire>>

Next ==
  \/ \E m \in Call : Offer(m) \/ Accept(m) \/ Refuse(m)
  \/ Take \/ Deliver \/ Close

Spec == Init /\ [][Next]_vars
=============================================================================
