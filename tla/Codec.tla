------------------------------- MODULE Codec --------------------------------
(***************************************************************************)
(* The wire format of protocol/protocol.go: Encode and the two parsers, on *)
(* sequences of bytes.                                                     *)
(*                                                                         *)
(*   [length of the body][command][length of the subject][subject][payload] *)
(*                                                                         *)
(* The widths of the two length fields, the number of values of a byte and *)
(* the two limits are constants, so that small instances meet the same     *)
(* boundaries as 4 and 2 bytes of 256 values, 8 MiB and 4 KiB.             *)
(***************************************************************************)
EXTENDS Integers, Sequences

CONSTANTS
  Base,           \* the values of a byte (256)
  LengthBytes,    \* the width of the length of the body (4)
  SubjectBytes,   \* the width of the length of the subject (2)
  MaxSubjectLen,  \* 4096
  MaxBodyLen      \* 8 MiB

Byte == 0..Base - 1
BodyHeader == 1 + SubjectBytes            \* the command and the subject's length
MinPacket == LengthBytes + BodyHeader     \* len(data) < 7

\* binary.BigEndian.PutUint32 and PutUint16: the bytes of v, v >> 8, v >> 16
\* and so on, the last one first.
PutUint(n, width) ==
  LET shifted[i \in 0..width] == IF i = 0 THEN n ELSE shifted[i - 1] \div Base
  IN [i \in 1..width |-> shifted[width - i] % Base]

\* binary.BigEndian.Uint32 and Uint16.
Uint(bytes) ==
  LET value[i \in 0..Len(bytes)] ==
        IF i = 0 THEN 0 ELSE value[i - 1] * Base + bytes[i]
  IN value[Len(bytes)]

\* The fields are wide enough for the limits.
ASSUME CodecConstants ==
  /\ Base \in Nat \ {0, 1} /\ LengthBytes \in Nat \ {0} /\ SubjectBytes \in Nat \ {0}
  /\ MaxSubjectLen \in Nat \ {0} /\ MaxBodyLen \in Nat \ {0}
  /\ Uint(PutUint(MaxSubjectLen, SubjectBytes)) = MaxSubjectLen
  /\ Uint(PutUint(MaxBodyLen, LengthBytes)) = MaxBodyLen

BodyLen(m) == BodyHeader + Len(m.subject) + Len(m.payload)

Encode(m) ==
  PutUint(BodyLen(m), LengthBytes) \o <<m.cmd>> \o PutUint(Len(m.subject), SubjectBytes)
    \o m.subject \o m.payload

ValidLength(n) == n > 0 /\ n <= MaxBodyLen

\* Mutant: the payload begins with the last byte of the subject.
MessageOfOverlap(body, subjectLen) ==
  [cmd |-> body[1],
   subject |-> SubSeq(body, BodyHeader + 1, BodyHeader + subjectLen),
   payload |-> SubSeq(body, BodyHeader + subjectLen, Len(body))]

MessageOf(body, subjectLen) ==
  [cmd |-> body[1],
   subject |-> SubSeq(body, BodyHeader + 1, BodyHeader + subjectLen),
   payload |-> SubSeq(body, BodyHeader + subjectLen + 1, Len(body))]

ValidSubject(subjectLen, bodyLen) ==
  subjectLen <= MaxSubjectLen /\ BodyHeader + subjectLen <= bodyLen

\* What a parser returns: the message in a set that is empty on an error.
Nothing == {}

\* ParseFromReader, once the body has been read.
ParseBody(body) ==
  IF Len(body) < BodyHeader THEN Nothing
  ELSE LET subjectLen == Uint(SubSeq(body, 2, BodyHeader)) IN
       IF ValidSubject(subjectLen, Len(body)) THEN {MessageOf(body, subjectLen)} ELSE Nothing

\* Mutant: the length is taken to include its own field.
ParseWithRemainingShort(data) ==
  IF Len(data) < MinPacket THEN [msg |-> Nothing, remaining |-> data]
  ELSE
    LET total == Uint(SubSeq(data, 1, LengthBytes))
        subjectLen == Uint(SubSeq(data, LengthBytes + 2, MinPacket)) IN
    IF ValidLength(total) /\ total > LengthBytes /\ Len(data) >= total
         /\ ValidSubject(subjectLen, total - LengthBytes)
    THEN [msg |-> {MessageOf(SubSeq(data, LengthBytes + 1, total), subjectLen)},
          remaining |-> SubSeq(data, total + 1, Len(data))]
    ELSE [msg |-> Nothing, remaining |-> data]

\* ParseWithRemaining.  The subject's length is sliced out of the data, where
\* it exists even if the body is too short for it; on an error the data are
\* returned as they are.
ParseWithRemaining(data) ==
  IF Len(data) < MinPacket THEN [msg |-> Nothing, remaining |-> data]
  ELSE
    LET bodyLen == Uint(SubSeq(data, 1, LengthBytes))
        total == LengthBytes + bodyLen
        subjectLen == Uint(SubSeq(data, LengthBytes + 2, MinPacket)) IN
    IF ValidLength(bodyLen) /\ Len(data) >= total /\ ValidSubject(subjectLen, bodyLen)
    THEN [msg |-> {MessageOf(SubSeq(data, LengthBytes + 1, total), subjectLen)},
          remaining |-> SubSeq(data, total + 1, Len(data))]
    ELSE [msg |-> Nothing, remaining |-> data]
=============================================================================
