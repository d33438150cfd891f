------------------------------ MODULE MCServer ------------------------------
(* Instances of Server for model checking. *)
EXTENDS Server

CONSTANTS s1, s2, a, b

Plain == {<<a, a>>, <<b, b>>}

Plan(first, second) == [s \in Session |-> IF s = s1 THEN first ELSE second]

\* One client that sends everything; and a subscriber and a publisher of one
\* subject.
OneOrTwo ==
  { Plan(Requests, {}), Plan({<<"SUB", a>>, <<"UNSUB", a>>}, {<<"PUB", a>>}) }

Everything == {Plan(Requests, Requests)}
=============================================================================
