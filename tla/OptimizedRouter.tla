-------------------------- MODULE OptimizedRouter --------------------------
(***************************************************************************)
(* The alternative router of server/router_optimized.go.  A pattern is     *)
(* kept in exactMatches or in wildcardPatterns, by isWildcardPattern, in   *)
(* every method alike, so one function from patterns to lists stands for   *)
(* the two maps.  As in Router, the empty list stands for an absent key.   *)
(* The cache of compiled patterns returns what compilePattern computes and *)
(* is part of the matcher.                                                 *)
(***************************************************************************)
EXTENDS Naturals, Sequences, FiniteSets, Functions

CONSTANTS Pattern, Subject, Session,
          Matching,  \* the pairs that OptimizedMatch of SubjectMatch accepts
          MaxList    \* bound on the length of a list

VARIABLES table, found

vars == <<table, found>>

Init ==
  /\ table = [p \in Pattern |-> <<>>]
  /\ found = {}

Subscribe(p, s) ==
  /\ Len(table[p]) < MaxList
  /\ table' = [table EXCEPT ![p] = Append(@, s)]
  /\ UNCHANGED found

\* Where the loop over a list finds the session.
First(sessions, s) ==
  CHOOSE i \in DOMAIN sessions : sessions[i] = s /\ \A j \in 1..i - 1 : sessions[j] # s

\* Mutant: the list is cut at the session instead of closed around it.
WithoutCut(sessions, s) ==
  IF s \in Range(sessions) THEN SubSeq(sessions, 1, First(sessions, s) - 1) ELSE sessions

\* append(sessions[:i], sessions[i+1:]...), and the loop ends.
Without(sessions, s) ==
  IF s \in Range(sessions)
  THEN LET i == First(sessions, s) IN
       SubSeq(sessions, 1, i - 1) \o SubSeq(sessions, i + 1, Len(sessions))
  ELSE sessions

Unsubscribe(p, s) ==
  /\ table' = [table EXCEPT ![p] = Without(@, s)]
  /\ UNCHANGED found

\* In each list the loop breaks after the first occurrence.
RemoveSession(s) ==
  /\ table' = [p \in Pattern |-> Without(table[p], s)]
  /\ UNCHANGED found

FindSubscribers(x) ==
  /\ found' = UNION {Range(table[p]) : p \in {q \in Pattern : <<q, x>> \in Matching}}
  /\ UNCHANGED table

GetSubjectCount == Cardinality({p \in Pattern : table[p] # <<>>})

\* The lengths of the lists together: the number of their cells.
GetTotalSubscriptions == Cardinality(UNION {{p} \X DOMAIN table[p] : p \in Pattern})

Next ==
  \/ \E p \in Pattern, s \in Session : Subscribe(p, s) \/ Unsubscribe(p, s)
  \/ \E s \in Session : RemoveSession(s)
  \/ \E x \in Subject : FindSubscribers(x)

Spec == Init /\ [][Next]_vars

-----------------------------------------------------------------------------
(* Properties *)

Pairs == {ps \in Pattern \X Session : ps[2] \in Range(table[ps[1]])}

\* The set of pairs that the lists stand for.
Abstract == INSTANCE RouterSpec WITH subs <- Pairs

\* Each call does to the pairs what the call of that name does in RouterSpec.
CallByCall ==
  /\ \A p \in Pattern, s \in Session :
       /\ Subscribe(p, s) => Abstract!Subscribe(p, s)
       /\ Unsubscribe(p, s) => Abstract!Unsubscribe(p, s)
  /\ \A s \in Session : RemoveSession(s) => Abstract!RemoveSession(s)
  /\ \A x \in Subject : FindSubscribers(x) => Abstract!FindSubscribers(x)

\* The counts are those of pairs and of patterns with a subscriber.
CountsAreExact ==
  /\ GetTotalSubscriptions = Cardinality(Pairs)
  /\ GetSubjectCount = Cardinality({ps[1] : ps \in Pairs})
=============================================================================
