---------------------------- MODULE MCClientSubs ----------------------------
(* Instances of ClientSubs for model checking. *)
EXTENDS ClientSubs, TLC

CONSTANTS c1, c2, x1, x2

Own == c1 :> x1 @@ c2 :> x2      \* a subject for each caller

\* A caller, or two, and Client.Close; a caller, or a caller and a subscription
\* that exists, and a reconnection.
CloseOrReconnect ==
  { [callers |-> {c1}, holders |-> {}, retries |-> 3, ends |-> "close"],
    [callers |-> {c1, c2}, holders |-> {}, retries |-> 1, ends |-> "close"],
    [callers |-> {c1}, holders |-> {}, retries |-> 3, ends |-> "reconnect"],
    [callers |-> {c1}, holders |-> {c2}, retries |-> 1, ends |-> "reconnect"] }
=============================================================================
