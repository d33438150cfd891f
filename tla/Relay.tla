------------------------------- MODULE Relay --------------------------------
(***************************************************************************)
(* The relay from UDP to a subject (examples/h264-relay/main.go): each     *)
(* packet gets a timestamp in front and is published, until Stop.  The     *)
(* statistics are left out.                                                *)
(***************************************************************************)
EXTENDS Naturals, Sequences

CONSTANTS
  PrefixLen,    \* bytes of the timestamp put before a packet (8)
  PacketSizes,  \* sizes a UDP packet may have
  MaxPackets    \* bound: packets that arrive

ASSUME RelayConstants ==
  PrefixLen \in Nat /\ PacketSizes \subseteq Nat /\ MaxPackets \in Nat

VARIABLES
  udp,           \* the sizes of the packets read from the socket, in order
  receiver,      \* where UDPReceiver is
  relayCtx,      \* r.ctx is cancelled
  relayOpen,     \* the client's connection accepts writes
  wire,          \* the messages written, not yet at the subscriber
  relayStop      \* where Stop is

relayVars == <<udp, receiver, relayCtx, relayOpen, wire, relayStop>>

\* NewH264Relay and Start
RelayInit ==
  /\ udp = <<>> /\ receiver = "check" /\ relayCtx = FALSE /\ relayOpen = TRUE
  /\ wire = <<>> /\ relayStop = "running"

-----------------------------------------------------------------------------
(* UDPReceiver *)

\* select { case <-r.ctx.Done(): return; default: }
ReceiverCheck ==
  /\ receiver = "check"
  /\ receiver' = IF relayCtx THEN "exit" ELSE "read"
  /\ UNCHANGED <<udp, relayCtx, relayOpen, wire, relayStop>>

\* ReadFromUDP returns a packet.
ReceiverPacket(n) ==
  /\ receiver = "read" /\ Len(udp) < MaxPackets
  /\ udp' = Append(udp, n) /\ receiver' = "publish"
  /\ UNCHANGED <<relayCtx, relayOpen, wire, relayStop>>

\* Mutant: the read waits for a packet without a deadline.
ReceiverTimeoutNever ==
  /\ FALSE
  /\ UNCHANGED relayVars

\* The deadline of one second passes, and is set again.
ReceiverTimeout ==
  /\ receiver = "read"
  /\ receiver' = "check"
  /\ UNCHANGED <<udp, relayCtx, relayOpen, wire, relayStop>>

\* Another error.
ReceiverError ==
  /\ receiver = "read"
  /\ receiver' = "check"
  /\ UNCHANGED <<udp, relayCtx, relayOpen, wire, relayStop>>

-----------------------------------------------------------------------------
(* publishToKCPQ *)

\* PublishWithContext: the context is looked at once, before the write.
PublishCheck ==
  /\ receiver = "publish"
  /\ receiver' = IF relayCtx THEN "check" ELSE "write"
  /\ UNCHANGED <<udp, relayCtx, relayOpen, wire, relayStop>>

\* message := append(timestampBytes, data...)
Stamped(k) == [packet |-> k, len |-> PrefixLen + udp[k]]

\* The write: it fails on a closed connection, and may fail on an open one.
PublishWrite ==
  /\ receiver = "write" /\ receiver' = "check"
  /\ \/ relayOpen /\ wire' = Append(wire, Stamped(Len(udp)))
     \/ UNCHANGED wire
  /\ UNCHANGED <<udp, relayCtx, relayOpen, relayStop>>

-----------------------------------------------------------------------------
(* Stop *)

\* r.cancel()
RelayCancel ==
  /\ relayStop = "running"
  /\ relayCtx' = TRUE /\ relayStop' = "close"
  /\ UNCHANGED <<udp, receiver, relayOpen, wire>>

\* r.kcpClient.Close(), which does not wait for UDPReceiver
RelayClose ==
  /\ relayStop = "close"
  /\ relayOpen' = FALSE /\ relayStop' = "stopped"
  /\ UNCHANGED <<udp, receiver, relayCtx, wire>>
=============================================================================
