----------------------------- MODULE MqttReader -----------------------------
(***************************************************************************)
(* mqtt_read_packet: one packet from a stream of bytes.  The fixed header  *)
(* is read, then the remaining length one byte at a time                   *)
(* (mqtt_decode_packet), then the body, or, when the packet does not fit   *)
(* the read buffer, everything up to its end (mqtt_packet_drain).  Every   *)
(* network_read may fail after it has taken some bytes.                    *)
(*                                                                         *)
(* Bytes are not numbers here: a byte knows the packet it belongs to and   *)
(* its part.  A byte of another part that is taken for a length byte can   *)
(* decode as anything.                                                     *)
(***************************************************************************)
EXTENDS Integers, Sequences

CONSTANTS
    Base,            \* values of a length byte without its top bit (128)
    MaxLengthBytes,  \* MAX_NO_OF_REMAINING_LENGTH_BYTES (4)
    BufSize,         \* c->mqtt_read_buf_size
    Remaining,       \* the remaining lengths of the packets the broker sends
    Packets,         \* how many packets the broker sends
    MaxFails         \* bound: how many reads fail inside a packet

ASSUME BaseAssumption == Base \in Nat \ {0, 1} /\ MaxLengthBytes \in Nat \ {0}
ASSUME BufSizeAssumption == BufSize \in Nat /\ BufSize > MaxLengthBytes

\* multiplier in mqtt_decode_packet, after k bytes.
multiplier[k \in Nat] == IF k = 0 THEN 1 ELSE Base * multiplier[k - 1]

ASSUME RemainingAssumption == Remaining \subseteq 0 .. multiplier[MaxLengthBytes] - 1
ASSUME BoundsAssumption == Packets \in Nat /\ MaxFails \in Nat

VARIABLES
    sent,   \* the remaining lengths of the packets sent, in order
    wire,   \* the bytes sent and not read yet
    pc,     \* the network_read that comes next
    buf,    \* the header and body bytes in the read buffer
    value,  \* *value in mqtt_decode_packet, then remain_len and packet_len
    len,    \* length bytes read
    total,  \* total_bytes_read in mqtt_packet_drain
    got,    \* history: the contents of the buffer at each successful return
    done,   \* history: packets read to their end
    fails   \* reads that failed inside a packet

vars == <<sent, wire, pc, buf, value, len, total, got, done, fails>>

torn == fails > 0

-----------------------------------------------------------------------------
(* Packets as bytes.                                                       *)

Byte(i, part) == [packet |-> i, part |-> part, digit |-> 0, more |-> FALSE]

\* MQTTPacket_encode: the remaining length, least significant digit first.
encode[n \in Nat] ==
    IF n < Base
      THEN <<[digit |-> n, more |-> FALSE]>>
      ELSE <<[digit |-> n % Base, more |-> TRUE]>> \o encode[n \div Base]
MQTTPacket_encode(n) == encode[n]

Body(i, n) == [k \in 1..n |-> Byte(i, "body")]

LengthBytes(i, e) ==
    [k \in 1 .. Len(e) |-> [packet |-> i, part |-> "length", digit |-> e[k].digit, more |-> e[k].more]]

Bytes(i, n) == <<Byte(i, "header")>> \o LengthBytes(i, MQTTPacket_encode(n)) \o Body(i, n)

\* The bytes of the last k packets of s.
stream(s) ==
    LET last[k \in 0 .. Len(s)] ==
          IF k = 0 THEN <<>> ELSE Bytes(Len(s) + 1 - k, s[Len(s) + 1 - k]) \o last[k - 1]
    IN  last

Fits(n) == 1 + Len(MQTTPacket_encode(n)) + n <= BufSize

-----------------------------------------------------------------------------
(* network_read.                                                           *)

\* All n bytes are there.
ReadFully(n) == Len(wire) >= n /\ wire' = SubSeq(wire, n + 1, Len(wire))

\* Fewer are taken, and then recv fails or times out (rc = -1) or the
\* connection is at its end (rc = what there was).
ReadShort(n, rc) ==
    \E k \in 0 .. n - 1 :
        /\ k <= Len(wire)
        /\ rc = -1 \/ (rc = k /\ k = Len(wire))
        /\ wire' = SubSeq(wire, k + 1, Len(wire))
        /\ fails < MaxFails
        /\ fails' = fails + 1

-----------------------------------------------------------------------------
(* mqtt_read_packet.                                                       *)

\* The first read; when it fails there is nothing to read and nothing changes.
read_header ==
    /\ pc = "header"
    /\ ReadFully(1)
    /\ buf' = <<Head(wire)>>
    /\ value' = 0 /\ len' = 0
    /\ pc' = "length"
    /\ UNCHANGED <<sent, total, got, done, fails>>

\* A successful return.  The histories are kept up to the first failure.
Return(b) ==
    /\ got' = IF fails' > 0 THEN got ELSE Append(got, b)
    /\ done' = IF fails' > 0 THEN done ELSE done + 1
    /\ pc' = "header"

\* What follows mqtt_decode_packet, whatever that returned: drain when the
\* packet is larger than the buffer, else read the body if there is one.
Mutant_decoded(v) ==                      \* the bytes of the length not counted
    IF 1 + v > BufSize
      THEN pc' = "drain" /\ total' = 0 /\ UNCHANGED <<got, done>>
      ELSE IF v > 0
             THEN pc' = "body" /\ UNCHANGED <<total, got, done>>
             ELSE Return(buf) /\ UNCHANGED total
decoded(v) ==
    IF 1 + Len(MQTTPacket_encode(v)) + v > BufSize
      THEN pc' = "drain" /\ total' = 0 /\ UNCHANGED <<got, done>>
      ELSE IF v > 0
             THEN pc' = "body" /\ UNCHANGED <<total, got, done>>
             ELSE Return(buf) /\ UNCHANGED total

\* What a byte says when it is read as a length byte.
Digits(b) ==
    IF b.part = "length" THEN {<<b.digit, b.more>>} ELSE (0 .. Base - 1) \X BOOLEAN

Mutant_too_long == len > MaxLengthBytes   \* a fifth byte is read
too_long == len >= MaxLengthBytes

\* One turn of the loop of mqtt_decode_packet.
mqtt_decode_packet ==
    /\ pc = "length"
    /\ ~too_long
    /\ ReadFully(1)
    /\ UNCHANGED fails
    /\ len' = len + 1
    /\ \E d \in Digits(Head(wire)) :
          /\ value' = value + d[1] * multiplier[len]
          /\ IF d[2] THEN UNCHANGED <<pc, total, got, done>> ELSE decoded(value')
    /\ UNCHANGED <<sent, buf>>

\* The loop is left early, and the length found so far is used.
mqtt_decode_packet_fails ==
    /\ pc = "length"
    /\ \/ too_long /\ UNCHANGED <<wire, fails>>
       \/ ~too_long /\ \E rc \in {-1, 0} : ReadShort(1, rc)
    /\ decoded(value)
    /\ UNCHANGED <<sent, buf, value, len>>

read_body ==
    /\ pc = "body"
    /\ ReadFully(value)
    /\ UNCHANGED fails
    /\ Return(buf \o SubSeq(wire, 1, value))
    /\ UNCHANGED <<sent, buf, value, len, total>>

read_body_fails ==
    /\ pc = "body"
    /\ \E rc \in -1 .. value : ReadShort(value, rc)
    /\ pc' = "header"
    /\ UNCHANGED <<sent, buf, value, len, total, got, done>>

-----------------------------------------------------------------------------
(* mqtt_packet_drain.                                                      *)

Mutant_bytes2read == IF value < BufSize THEN value ELSE BufSize   \* what is left not recomputed
bytes2read == IF value - total >= BufSize THEN BufSize ELSE value - total

\* The end of a turn of the loop, after a read that returned rc.
drained(rc) ==
    /\ total' = total + rc
    /\ IF total' < value /\ rc # 0
         THEN UNCHANGED <<pc, done>>
         ELSE pc' = "header" /\ done' = IF fails' > 0 THEN done ELSE done + 1

mqtt_packet_drain ==
    /\ pc = "drain"
    /\ ReadFully(bytes2read)
    /\ UNCHANGED fails
    /\ drained(bytes2read)
    /\ UNCHANGED <<sent, buf, value, len, got>>

\* A failed read counts as -1 bytes.
mqtt_packet_drain_fails ==
    /\ pc = "drain"
    /\ \E rc \in -1 .. bytes2read : ReadShort(bytes2read, rc) /\ drained(rc)
    /\ UNCHANGED <<sent, buf, value, len, got>>

-----------------------------------------------------------------------------
Init ==
    /\ sent \in [1..Packets -> Remaining]
    /\ wire = stream(sent)[Packets]
    /\ pc = "header" /\ buf = <<>> /\ value = 0 /\ len = 0 /\ total = 0
    /\ got = <<>> /\ done = 0 /\ fails = 0

\* The connection is at its end, or no more failures are considered.
Finished == Len(wire) < (CASE pc = "drain" -> bytes2read [] pc = "body" -> value [] OTHER -> 1)
            /\ UNCHANGED vars

Step == \/ read_header \/ mqtt_decode_packet \/ mqtt_decode_packet_fails
        \/ read_body \/ read_body_fails \/ mqtt_packet_drain \/ mqtt_packet_drain_fails

Next == Step \/ Finished

\* The broker's bytes arrive, and the yield thread goes on reading them.
Spec == Init /\ [][Next]_vars /\ WF_vars(Step)

-----------------------------------------------------------------------------
(* Properties.                                                             *)

\* Every variable has its type.  Even when the stream is no longer understood,
\* the length never has more bytes than MQTT allows and a read of the drain
\* asks for at least one byte and for no more than the buffer holds.
TypeOK ==
    /\ sent \in [1..Packets -> Remaining]
    /\ pc \in {"header", "length", "body", "drain"}
    /\ value \in 0 .. multiplier[MaxLengthBytes] - 1
    /\ len \in 0..MaxLengthBytes
    /\ total \in Int /\ (pc = "drain" => bytes2read \in 1..BufSize)
    /\ done \in Nat /\ fails \in 0..MaxFails

\* As long as no read has failed inside a packet, mqtt_read_packet starts at
\* the first byte of a packet, also after a packet that was drained.
Aligned == ~torn /\ pc = "header" => done <= Packets /\ wire = stream(sent)[Packets - done]

\* The packet the buffer holds, or -1.
Whole(b) ==
    LET i == b[1].packet
    IN  IF i \in DOMAIN sent /\ b = <<Byte(i, "header")>> \o Body(i, sent[i])
          THEN sent[i] ELSE -1

Abstract ==
    INSTANCE PacketStream WITH
        pending <- SubSeq(sent, done + 1, Len(sent)),
        delivered <- [k \in DOMAIN got |-> Whole(got[k])],
        sync <- ~torn

\* mqtt_read_packet implements PacketStream: while no read fails inside a
\* packet, every packet is delivered whole and in order, or skipped because
\* it is too large, and the next one is always reached.
ReadsPackets == Abstract!Spec
=============================================================================
