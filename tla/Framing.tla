------------------------------ MODULE Framing -------------------------------
(***************************************************************************)
(* A stream of messages between a client and a session: goroutines write   *)
(* encoded messages to the connection, the bytes arrive one after the      *)
(* other, and the receiving loop (Session.Start, Client.receiveLoop) cuts  *)
(* them into messages with ParseFromReader until an error ends it.  Next   *)
(* to it a buffer is cut with ParseWithRemaining.                          *)
(*                                                                         *)
(* KCP is reliable and ordered, and a Write puts all of its bytes into the *)
(* stream or none.  The peer is a program of this library or any other     *)
(* program, which may send any bytes.                                      *)
(***************************************************************************)
EXTENDS Codec

CONSTANTS
  Outgoing,  \* the messages that are handed to the library to send
  MaxSent,   \* bound: messages written
  MaxBytes,  \* bound: bytes that a peer of another kind sends
  Peers      \* the kinds of peer: "library" and "other"

Message == [cmd : Byte, subject : Seq(Byte), payload : Seq(Byte)]

ASSUME FramingConstants ==
  /\ Outgoing \subseteq Message
  /\ MaxSent \in Nat /\ MaxBytes \in Nat /\ Peers \subseteq {"library", "other"}

VARIABLES
  peer,      \* who writes
  sent,      \* the messages the library has written
  wire,      \* bytes on their way
  data,      \* all the bytes that have arrived
  reader,    \* where ParseFromReader is, or how the loop has ended
  pos,       \* how many bytes it has read
  bodyLen,   \* the length it has read
  received,  \* the messages it has returned
  left,      \* how many bytes ParseWithRemaining has consumed
  parsed     \* the messages it has returned

readVars == <<reader, pos, bodyLen, received>>
bufVars == <<left, parsed>>
vars == <<peer, sent, wire, data, readVars, bufVars>>

Init ==
  /\ peer \in Peers /\ sent = <<>> /\ wire = <<>> /\ data = <<>>
  /\ reader = "length" /\ pos = 0 /\ bodyLen = 0 /\ received = <<>>
  /\ left = 0 /\ parsed = <<>>

-----------------------------------------------------------------------------
(* The senders *)

\* Mutant: the command and the subject's length are not counted.
AcceptsBarely(m) ==
  Len(m.subject) <= MaxSubjectLen /\ Len(m.subject) + Len(m.payload) <= MaxBodyLen

\* The checks of PublishWithContext and SendMessage; a refused message is an
\* error to the caller and nothing is written.
Accepts(m) == Len(m.subject) <= MaxSubjectLen /\ BodyLen(m) <= MaxBodyLen

Write(m) ==
  /\ peer = "library" /\ Len(sent) < MaxSent /\ Accepts(m)
  /\ sent' = Append(sent, m) /\ wire' = wire \o Encode(m)
  /\ UNCHANGED <<peer, data, readVars, bufVars>>

Arrive ==
  /\ wire # <<>>
  /\ data' = Append(data, Head(wire)) /\ wire' = Tail(wire)
  /\ UNCHANGED <<peer, sent, readVars, bufVars>>

\* A byte of another program.
ArriveAny(b) ==
  /\ peer = "other" /\ Len(data) < MaxBytes
  /\ data' = Append(data, b)
  /\ UNCHANGED <<peer, sent, wire, readVars, bufVars>>

-----------------------------------------------------------------------------
(* ParseFromReader in the receiving loop *)

\* io.ReadFull of the length
ReadLength ==
  /\ reader = "length" /\ Len(data) - pos >= LengthBytes
  /\ pos' = pos + LengthBytes
  /\ LET n == Uint(SubSeq(data, pos + 1, pos + LengthBytes)) IN
     IF ValidLength(n) THEN reader' = "body" /\ bodyLen' = n
     ELSE reader' = "invalid" /\ UNCHANGED bodyLen
  /\ UNCHANGED <<peer, sent, wire, data, received, bufVars>>

\* Mutant: one byte of the body stays in the stream.
ReadBodyShort ==
  /\ reader = "body" /\ Len(data) - pos >= bodyLen
  /\ pos' = pos + bodyLen - 1 /\ bodyLen' = 0
  /\ LET parse == ParseBody(SubSeq(data, pos + 1, pos + bodyLen)) IN
     IF parse = Nothing THEN reader' = "invalid" /\ UNCHANGED received
     ELSE reader' = "length" /\ \E m \in parse : received' = Append(received, m)
  /\ UNCHANGED <<peer, sent, wire, data, bufVars>>

\* io.ReadFull of the body, and its parts.  An error ends the loop: the
\* session is closed, the client's connection is lost.
ReadBody ==
  /\ reader = "body" /\ Len(data) - pos >= bodyLen
  /\ pos' = pos + bodyLen /\ bodyLen' = 0
  /\ LET parse == ParseBody(SubSeq(data, pos + 1, pos + bodyLen)) IN
     IF parse = Nothing THEN reader' = "invalid" /\ UNCHANGED received
     ELSE reader' = "length" /\ \E m \in parse : received' = Append(received, m)
  /\ UNCHANGED <<peer, sent, wire, data, bufVars>>

\* The read deadline passes or the connection is closed, also in the middle
\* of a message.
ReadFails ==
  /\ reader \in {"length", "body"}
  /\ reader' = "failed"
  /\ UNCHANGED <<peer, sent, wire, data, pos, bodyLen, received, bufVars>>

-----------------------------------------------------------------------------
(* ParseWithRemaining on what is left in a buffer; an error leaves it. *)

ParseBuffer ==
  LET parse == ParseWithRemaining(SubSeq(data, left + 1, Len(data))) IN
  /\ \E m \in parse.msg : parsed' = Append(parsed, m)
  /\ left' = Len(data) - Len(parse.remaining)
  /\ UNCHANGED <<peer, sent, wire, data, readVars>>

-----------------------------------------------------------------------------
Next ==
  \/ \E m \in Outgoing : Write(m)
  \/ Arrive \/ \E b \in Byte : ArriveAny(b)
  \/ ReadLength \/ ReadBody \/ ReadFails \/ ParseBuffer

Spec == Init /\ [][Next]_vars

\* KCP delivers what was written, and the receiving loop runs.
FairSpec == Spec /\ WF_vars(Arrive) /\ WF_vars(ReadLength \/ ReadBody)

-----------------------------------------------------------------------------
(* Properties *)

Prefix(s, t) == Len(s) <= Len(t) /\ SubSeq(t, 1, Len(s)) = s

\* What the library sends is what both parsers return: no message is lost,
\* cut, joined with another or reordered, whatever the chunks in which the
\* bytes arrive (Encode, ParseFromReader, ParseWithRemaining).
ReceivedIsSent ==
  peer = "library" => Prefix(received, sent) /\ Prefix(parsed, sent)

Encoded(msgs) ==
  LET enc[n \in 0..Len(msgs)] == IF n = 0 THEN <<>> ELSE enc[n - 1] \o Encode(msgs[n])
  IN enc[Len(msgs)]

\* The receiving loop never loses its place: between two messages the bytes
\* it has read are exactly the encodings of the messages it has returned, so
\* every message has one encoding only, also when the peer sends anything.
StreamInSync ==
  reader = "length" => SubSeq(data, 1, pos) = Encoded(received)

\* The two parsers cut any bytes into the same messages, and when the reader
\* has found an invalid one the buffer holds no message either from there on
\* (the checks of ParseFromReader and of ParseWithRemaining are written twice).
ParsersAgree ==
  /\ Prefix(received, parsed) \/ Prefix(parsed, received)
  /\ reader = "invalid" => Len(parsed) <= Len(received)

\* Every message that was written is received unless the read fails:
\* io.ReadFull waits for the bytes and no longer, and the limits that
\* PublishWithContext and SendMessage check are those of the parser, so that
\* nobody is cut off for the form of a message the library has accepted.
WrittenIsReceived ==
  \A n \in 1..MaxSent :
    Len(sent) >= n ~> Len(received) >= n \/ reader = "failed"
=============================================================================
