----------------------------- MODULE RouterPair -----------------------------
(***************************************************************************)
(* The two routers of the server package, called alike.  OptimizedRouter   *)
(* is written to replace Router, so both get the calls of the sessions.    *)
(* Its Subscribe appends without looking: a repeated SUB has to be stopped *)
(* before it, as Session.handleSubscribe does (session.go:158-169), while  *)
(* Router is given the repetition too.                                     *)
(***************************************************************************)
EXTENDS Naturals, Sequences, Functions

CONSTANTS
  Pattern, Subject, Session,
  RouterMatching,      \* the pairs Router.Match accepts
  OptimizedMatching,   \* the pairs the compiled patterns accept
  MaxList              \* bound on the lists of OptimizedRouter

VARIABLES subscriptions, found, table, optFound

vars == <<subscriptions, found, table, optFound>>

R == INSTANCE Router WITH Matching <- RouterMatching
O == INSTANCE OptimizedRouter WITH Matching <- OptimizedMatching, found <- optFound

Init == R!Init /\ O!Init

Subscribe(p, s) ==
  /\ R!Subscribe(p, s)
  /\ IF s \in Range(table[p]) THEN UNCHANGED <<table, optFound>> ELSE O!Subscribe(p, s)

Unsubscribe(p, s) == R!Unsubscribe(p, s) /\ O!Unsubscribe(p, s)
RemoveSession(s) == R!RemoveSession(s) /\ O!RemoveSession(s)
FindSubscribers(x) == R!FindSubscribers(x) /\ O!FindSubscribers(x)

Next ==
  \/ \E p \in Pattern, s \in Session : Subscribe(p, s) \/ Unsubscribe(p, s)
  \/ \E s \in Session : RemoveSession(s)
  \/ \E x \in Subject : FindSubscribers(x)

Spec == Init /\ [][Next]_vars

-----------------------------------------------------------------------------
(* Properties *)

\* The lists of router.go implement the set of pairs: after any sequence of
\* calls a lookup returns exactly the sessions subscribed to a matching
\* pattern, and RemoveSession leaves none of a session's subscriptions.
RouterImplementsSpec == R!Abstract!Spec /\ [][R!CallByCall]_vars

\* So do the lists of router_optimized.go, whose loops stop at the first
\* occurrence, as long as no session subscribes twice to a pattern.
OptimizedImplementsSpec == O!Abstract!Spec /\ [][O!CallByCall]_vars

\* The counts of both routers are numbers of pairs and of patterns that have a
\* subscriber: no session is listed twice, however often the client repeats
\* its SUB, and no pattern stays behind when its last subscriber leaves
\* (GetTotalSubscriptions, GetSubjectCount, which Server.GetStats reports).
CountsAreExact == R!CountsAreExact /\ O!CountsAreExact
=============================================================================
