----------------------------- MODULE MCFraming ------------------------------
(* Instances of Framing for model checking: bytes of three values, a length *)
(* of the body of two bytes and of the subject of one.                      *)
EXTENDS Framing

\* Empty, short and full subjects and payloads, and one too long of each.
Messages ==
  [cmd : {1, 2}, subject : {<<>>, <<2>>, <<0, 1>>},
   payload : {<<>>, <<1>>, <<2, 0>>, <<1, 1, 2>>, <<0, 2, 1, 0>>}]
=============================================================================
