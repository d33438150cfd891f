---------------------------- MODULE MCRouterPair ----------------------------
(* The routers on a literal, a '*' and a '>' pattern that overlap.           *)
EXTENDS RouterPair, TLC

M == INSTANCE SubjectMatch WITH
  Segment <- {"a", "b", "*", ">"}, Starred <- {"*"}, Arrowed <- {">"},
  MaxLen <- 2, pattern <- <<>>, subject <- <<>>

MCPattern == {<<"a", "b">>, <<"a", "*">>, <<"a", ">">>}
MCSubject == {<<"a">>, <<"a", "a">>, <<"a", "b">>}
MCRouterMatching == {ps \in MCPattern \X MCSubject : M!Match(ps[1], ps[2])}
MCOptimizedMatching == {ps \in MCPattern \X MCSubject : M!OptimizedMatch(ps[1], ps[2])}

Symmetry == Permutations(Session)
=============================================================================
