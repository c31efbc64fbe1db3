------------------------------ MODULE Infrared ------------------------------
(***************************************************************************)
(* The Broadlink packet (backend/src/broadlink_ir.rs) and RC5 in it        *)
(* (philips_ir.rs).  Durations are microseconds, a packet is a sequence of *)
(* bytes.  32.84 us a tick is 3284 / 100.                                  *)
(***************************************************************************)
EXTENDS Naturals, Sequences, SequencesExt

Token == 38
Terminator == <<0, 13>>
HeaderLen == 4

\* round(), and `as u16`, which saturates.
Ticks(us) == LET t == (us * 200 + 3284) \div 6568 IN IF t > 65535 THEN 65535 ELSE t

\* ticks_to_micros.
Micros(ticks) == (ticks * 3284 + 50) \div 100

\* One byte, or 0 and two: encode.
Encode(durations) ==
    LET bytes(t) == IF t >= 256 THEN <<0, t \div 256, t % 256>> ELSE <<t>>
        body == FlattenSeq([i \in DOMAIN durations |-> bytes(Ticks(durations[i]))]) \o Terminator
        length == Len(body) + 1
    IN  <<Token, 0, length % 256, length \div 256>> \o body

\* The terminator, and nothing after it.
EndsAt(packet, i) == i = Len(packet) - 1 /\ SubSeq(packet, i, i + 1) = Terminator

\* decode: the durations; `ok` unless too short, foreign, or cut inside a long duration.
Decode(packet) ==
    LET from[i \in 1 .. Len(packet) + 3] ==
          IF i > Len(packet) \/ EndsAt(packet, i) THEN [ok |-> TRUE, read |-> <<>>]
          ELSE IF packet[i] # 0
            THEN LET rest == from[i + 1] IN [rest EXCEPT !.read = <<Micros(packet[i])>> \o @]
          ELSE IF i + 2 > Len(packet) THEN [ok |-> FALSE, read |-> <<>>]
          ELSE LET rest == from[i + 3] IN [rest EXCEPT !.read = <<Micros(packet[i + 1] * 256 + packet[i + 2])>> \o @]
    IN  IF Len(packet) <= HeaderLen \/ packet[1] # Token THEN [ok |-> FALSE, read |-> <<>>]
        ELSE from[HeaderLen + 1]

-----------------------------------------------------------------------------
(* RC5.                                                                    *)

HalfBit == 889
Bit(n, k) == (n \div 2^k) % 2

\* Start bits, toggle, five bits of address, six of command, highest first.
Rc5Bits(key) ==
    <<1, 1, IF key.toggle THEN 1 ELSE 0>>
      \o [k \in 1 .. 5 |-> Bit(key.address, 5 - k)] \o [k \in 1 .. 6 |-> Bit(key.command, 6 - k)]

\* Bi-phase: a one is a space then a mark.
Halves(bits) == FlattenSeq([i \in DOMAIN bits |-> IF bits[i] = 1 THEN <<"space", "mark">> ELSE <<"mark", "space">>])

\* Neighbours at one level are one pulse.
Merged(halves) ==
    LET add(pulses, level) ==
          IF pulses # <<>> /\ Last(pulses).level = level
            THEN [pulses EXCEPT ![Len(pulses)].us = @ + HalfBit]
            ELSE Append(pulses, [level |-> level, us |-> HalfBit])
    IN  FoldLeft(add, <<>>, halves)

\* encode_rc5: a packet starts on a mark, so the first space is left out.
EncodeRc5(key) ==
    LET pulses == Merged(Halves(Rc5Bits(key)))
        kept == IF pulses[1].level = "space" THEN Tail(pulses) ELSE pulses
    IN  Encode([i \in DOMAIN kept |-> kept[i].us])

\* The television's receiver (external): half bits from a mark on, the first space understood.
ReceiveRc5(durations) ==
    LET level(i) == IF i % 2 = 1 THEN "mark" ELSE "space"
        halves == <<"space">> \o FlattenSeq([i \in DOMAIN durations |->
                    [k \in 1 .. (durations[i] + HalfBit \div 2) \div HalfBit |-> level(i)]])
        bit(i) == IF halves[2 * i] = "mark" THEN 1 ELSE 0
        number(i, n) == FoldLeft(LAMBDA x, k : 2 * x + bit(i + k - 1), 0, [k \in 1 .. n |-> k])
    IN  [toggle |-> bit(3) = 1, address |-> number(4, 5), command |-> number(9, 6)]

=============================================================================
