------------------------------- MODULE Router -------------------------------
(***************************************************************************)
(* The router of the server (server/router.go).  Each method holds the     *)
(* mutex for its whole body, so each is one action.  The map               *)
(* "subscriptions" is a function in which the empty list stands for an     *)
(* absent key: the methods delete a key whose list has become empty.       *)
(***************************************************************************)
EXTENDS Naturals, Sequences, FiniteSets, Functions

CONSTANTS Pattern, Subject, Session,
          Matching    \* the pairs that Router.Match accepts, see SubjectMatch

VARIABLES subscriptions, found

vars == <<subscriptions, found>>

Init ==
  /\ subscriptions = [p \in Pattern |-> <<>>]
  /\ found = {}

\* Mutant: no check for a session that is already in the list.
SubscribeTwice(p, s) ==
  /\ Len(subscriptions[p]) < 3
  /\ subscriptions' = [subscriptions EXCEPT ![p] = Append(@, s)]
  /\ UNCHANGED found

Subscribe(p, s) ==
  /\ subscriptions' =
       [subscriptions EXCEPT ![p] = IF s \in Range(@) THEN @ ELSE Append(@, s)]
  /\ UNCHANGED found

\* The loop that filters a session out of a list: what it has kept of the
\* first i sessions.
Filtered(sessions, s) ==
  LET filtered[i \in 0..Len(sessions)] ==
        IF i = 0 THEN <<>>
        ELSE IF sessions[i] # s THEN Append(filtered[i - 1], sessions[i]) ELSE filtered[i - 1]
  IN filtered[Len(sessions)]

Unsubscribe(p, s) ==
  /\ subscriptions' = [subscriptions EXCEPT ![p] = Filtered(@, s)]
  /\ UNCHANGED found

\* Mutant: the loop over the subjects stops at the first one it changed.
RemoveSessionOnce(s) ==
  /\ \E p \in Pattern :
       /\ s \in Range(subscriptions[p])
       /\ subscriptions' = [subscriptions EXCEPT ![p] = Filtered(@, s)]
  /\ UNCHANGED found

RemoveSession(s) ==
  /\ subscriptions' = [p \in Pattern |-> Filtered(subscriptions[p], s)]
  /\ UNCHANGED found

FindSubscribers(x) ==
  /\ found' = UNION {Range(subscriptions[p]) : p \in {q \in Pattern : <<q, x>> \in Matching}}
  /\ UNCHANGED subscriptions

GetSubjectCount == Cardinality({p \in Pattern : subscriptions[p] # <<>>})

\* The lengths of the lists together: the number of their cells.
GetTotalSubscriptions == Cardinality(UNION {{p} \X DOMAIN subscriptions[p] : p \in Pattern})

Next ==
  \/ \E p \in Pattern, s \in Session : Subscribe(p, s) \/ Unsubscribe(p, s)
  \/ \E s \in Session : RemoveSession(s)
  \/ \E x \in Subject : FindSubscribers(x)

Spec == Init /\ [][Next]_vars

-----------------------------------------------------------------------------
(* Properties *)

Pairs == {ps \in Pattern \X Session : ps[2] \in Range(subscriptions[ps[1]])}

\* The set of pairs that the lists stand for.
Abstract == INSTANCE RouterSpec WITH subs <- Pairs

\* Each call does to the pairs what the call of that name does in RouterSpec.
CallByCall ==
  /\ \A p \in Pattern, s \in Session :
       /\ Subscribe(p, s) => Abstract!Subscribe(p, s)
       /\ Unsubscribe(p, s) => Abstract!Unsubscribe(p, s)
  /\ \A s \in Session : RemoveSession(s) => Abstract!RemoveSession(s)
  /\ \A x \in Subject : FindSubscribers(x) => Abstract!FindSubscribers(x)

\* The statistics of Server.GetStats count pairs: no session is listed twice
\* under a subject, however often the client repeats its SUB.
CountsAreExact ==
  /\ GetTotalSubscriptions = Cardinality(Pairs)
  /\ GetSubjectCount = Cardinality({ps[1] : ps \in Pairs})
=============================================================================
