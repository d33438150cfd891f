---------------------------- MODULE MCClientConn ----------------------------
(* Instances of ClientConn for model checking. *)
EXTENDS ClientConn, TLC

CONSTANTS x1

\* Auto-reconnect off, or turned on at some time; on, and turned off or the
\* context cancelled at some time; on, and the client closed before the first
\* reconnection has waited its delay.
Mixed ==
  { [auto |-> FALSE, gens |-> 3, app |-> {"cancel", "close", "publish"}],
    [auto |-> FALSE, gens |-> 3, app |-> {"enable"}],
    [auto |-> TRUE, gens |-> 3, app |-> {"disable"}],
    [auto |-> TRUE, gens |-> 3, app |-> {"cancel"}],
    [auto |-> TRUE, gens |-> 1, app |-> {"close"}] }

Steady == {[auto |-> TRUE, gens |-> 3, app |-> {}]}
=============================================================================
