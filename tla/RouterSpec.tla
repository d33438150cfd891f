----------------------------- MODULE RouterSpec -----------------------------
(***************************************************************************)
(* What a router of subjects promises: it keeps a set of (pattern,         *)
(* session) pairs, and a lookup returns the sessions with a matching       *)
(* pattern, each once.  Router.tla and OptimizedRouter.tla implement it,   *)
(* each with the matcher of its own source file.                           *)
(***************************************************************************)
CONSTANTS
  Pattern, Subject, Session,
  Matching    \* the set of pairs <<pattern, subject>> that match

VARIABLES
  subs,       \* the subscriptions
  found       \* the result of the last lookup

vars == <<subs, found>>

Init == subs = {} /\ found = {}

Subscribe(p, s) == subs' = subs \cup {<<p, s>>} /\ UNCHANGED found

Unsubscribe(p, s) == subs' = subs \ {<<p, s>>} /\ UNCHANGED found

RemoveSession(s) == subs' = subs \ (Pattern \X {s}) /\ UNCHANGED found

FindSubscribers(x) ==
  /\ found' = {s \in Session : \E p \in Pattern :
                                  <<p, s>> \in subs /\ <<p, x>> \in Matching}
  /\ UNCHANGED subs

Next ==
  \/ \E p \in Pattern, s \in Session : Subscribe(p, s) \/ Unsubscribe(p, s)
  \/ \E s \in Session : RemoveSession(s)
  \/ \E x \in Subject : FindSubscribers(x)

Spec == Init /\ [][Next]_vars
=============================================================================
