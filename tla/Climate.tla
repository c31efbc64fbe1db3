------------------------------ MODULE Climate ------------------------------
(***************************************************************************)
(* The heat pump's commands and frames: backend/src/mitsubishi_ir.rs.      *)
(*                                                                         *)
(* A command is the sequence of its tokens (the text split at dashes): a   *)
(* word, or a number.  A state becomes 18 bytes, sent twice as pulses, and *)
(* is read back with the same tables.  Infrared has the packet.            *)
(***************************************************************************)
EXTENDS Naturals, Sequences, SequencesExt, Infrared

CONSTANT Nil

\* Each setting's tokens and codes (Setting::TABLE).
Mode == [heat |-> 1, dry |-> 2, cool |-> 3, auto |-> 4, fan |-> 7]
Fan == [auto |-> 128, one |-> 1, two |-> 2, three |-> 3, four |-> 4, silent |-> 5]
Vane == [auto |-> 0, highest |-> 1, high |-> 2, middle |-> 3, low |-> 4, lowest |-> 5, swing |-> 7]
Wide == [left_max |-> 1, left |-> 2, center |-> 3, right |-> 4, right_max |-> 5, wide |-> 6, auto |-> 8]
Timer == [none |-> 0, stop |-> 3, start |-> 5, startstop |-> 7]

\* from_code: Nil for a code no table knows.
FromCode(table, code) == IF \E v \in DOMAIN table : table[v] = code THEN CHOOSE v \in DOMAIN table : table[v] = code ELSE Nil

W(word) == [word |-> word, n |-> 0]
N(n) == [word |-> "", n |-> n]

TicksPerDay == 144

-----------------------------------------------------------------------------
(* Commands.                                                               *)

WideTokens(wide) ==
    CASE wide = "left_max" -> <<W("left"), W("max")>> [] wide = "right_max" -> <<W("right"), W("max")>> [] OTHER -> <<W(wide)>>

\* ClimateSettings::command.
Command(s) ==
    <<W("state"), W(s.mode), N(s.temperature), W("fan"), W(s.fan), W("vane"), W(s.vane)>>
      \o (IF s.wide = Nil THEN <<>> ELSE <<W("wide")>> \o WideTokens(s.wide))
      \o (IF s.econo THEN <<W("econo"), W("on")>> ELSE <<>>)
      \o (IF s.stopin = Nil THEN <<>> ELSE <<W("stopin"), N(s.stopin)>>)

\* MitsubishiState::default, its clocks in ten minutes.
Default ==
    [power |-> TRUE, mode |-> "cool", temperature |-> 20, fan |-> "auto", vane |-> "auto", wide |-> "center",
     isee |-> FALSE, econo |-> FALSE, clock |-> 0, start |-> Nil, stop |-> Nil, stopin |-> Nil, timer |-> "none"]

\* Mutant: a wide vane is one token.
SideAtOne(tokens, i) == [side |-> tokens[i].word, length |-> 1]

\* `left-max` and `right-max` are two tokens once split.
SideAt(tokens, i) ==
    IF tokens[i].word \in {"left", "right"} /\ i < Len(tokens) /\ tokens[i + 1].word = "max"
      THEN [side |-> tokens[i].word \o "_max", length |-> 2]
      ELSE [side |-> tokens[i].word, length |-> 1]

\* parse_clock, parse_stop_in_minutes: of numbers, not of words.
ClockOk(h, m) == h.word = "" /\ m.word = "" /\ h.n <= 23 /\ m.n <= 59 /\ m.n % 10 = 0
StopInOk(m) == m # 0 /\ m % 10 = 0 /\ m < 24 * 60

Toggle(token) == token.word \in {"on", "off"}

\* One option: where the next begins, and the settings so far; Nil for a command refused.
NextOption(tokens, at) ==
    LET i == at.i
        s == at.s
        word == tokens[i].word
        arg == tokens[i + 1]
        read(ok, length, settings) == IF ok THEN [i |-> i + length, s |-> settings] ELSE [at EXCEPT !.s = Nil]
    IN  IF s = Nil \/ i > Len(tokens) THEN at
        ELSE IF i = Len(tokens) THEN [at EXCEPT !.s = Nil]
        ELSE
      CASE word = "wide" -> LET side == SideAt(tokens, i + 1)
                            IN  read(side.side \in DOMAIN Wide, 1 + side.length, [s EXCEPT !.wide = side.side])
        [] word = "econo" -> read(Toggle(arg), 2, [s EXCEPT !.econo = (arg.word = "on")])
        [] word = "isee" -> read(Toggle(arg), 2, [s EXCEPT !.isee = (arg.word = "on")])
        [] word = "timer" -> read(Toggle(arg), 2, IF arg.word = "on" THEN s
                                                  ELSE [s EXCEPT !.timer = "none", !.start = Nil, !.stop = Nil, !.stopin = Nil])
        [] word \in {"start", "stop"} ->
             IF i + 2 > Len(tokens) THEN [at EXCEPT !.s = Nil]
             ELSE read(ClockOk(arg, tokens[i + 2]), 3, [s EXCEPT ![word] = arg.n * 6 + tokens[i + 2].n \div 10])
        [] word = "stopin" -> read(StopInOk(arg.n), 2, [s EXCEPT !.stopin = arg.n \div 10])
        [] OTHER -> [at EXCEPT !.s = Nil]

\* The options after the settings, one at a time (there are fewer than tokens).
Options(tokens, from, s) == FoldLeft(LAMBDA at, token : NextOption(tokens, at), [i |-> from, s |-> s], tokens).s

TimerOf(start, stop, was) ==
    CASE start /\ stop -> "startstop" [] start /\ ~stop -> "start" [] stop /\ ~start -> "stop" [] OTHER -> was

\* parse_state_command; Nil is an error.
Parse(tokens) ==
    IF tokens = <<W("state"), W("off")>>
      THEN [Default EXCEPT !.power = FALSE, !.temperature = 16, !.fan = "four", !.vane = "swing"]
    ELSE IF Len(tokens) < 7 \/ tokens[1] # W("state") \/ tokens[2].word \notin DOMAIN Mode
            \/ tokens[3].n \notin 16 .. 31 \/ tokens[4] # W("fan") \/ tokens[5].word \notin DOMAIN Fan
            \/ tokens[6] # W("vane") \/ tokens[7].word \notin DOMAIN Vane THEN Nil
    ELSE LET s == Options(tokens, 8, [Default EXCEPT !.mode = tokens[2].word, !.temperature = tokens[3].n,
                                                     !.fan = tokens[5].word, !.vane = tokens[7].word])
         IN  IF s = Nil THEN Nil
             ELSE [s EXCEPT !.timer = TimerOf(s.start # Nil, s.stop # Nil, s.timer),
                            !.econo = @ /\ s.mode = "cool"]

-----------------------------------------------------------------------------
(* Frames.                                                                 *)

\* encode_mitsubishi_command: the sleep timer becomes a time of the clock sent.
Resolved(s, clock) ==
    IF s.stopin = Nil THEN [s EXCEPT !.clock = clock]
    ELSE [s EXCEPT !.clock = clock, !.stop = (clock + s.stopin) % TicksPerDay,
                   !.timer = IF @ \in {"start", "startstop"} THEN "startstop" ELSE "stop"]

Checksum(bytes) == FoldLeft(LAMBDA sum, b : (sum + b) % 256, 0, SubSeq(bytes, 1, 17))

ModeNibble(mode) == CASE mode \in {"auto", "heat"} -> 0 [] mode = "cool" -> 6 [] mode = "dry" -> 2 [] mode = "fan" -> 7

\* build_state_bytes: the parts of a byte share no bit.
StateBytes(s) ==
    LET or0(clock) == IF clock = Nil THEN 0 ELSE clock
        flag(on, bit) == IF on THEN bit ELSE 0
        bytes == <<35, 203, 38, 1, 0, flag(s.power, 32), Mode[s.mode] * 8 + flag(s.isee, 64), s.temperature - 16,
                   Wide[s.wide] * 16 + ModeNibble(s.mode), Fan[s.fan] + 64 + Vane[s.vane] * 8,
                   s.clock, or0(s.stop), or0(s.start), Timer[s.timer], flag(s.econo, 32), 0, 0, 0>>
    IN  [bytes EXCEPT ![18] = Checksum(bytes)]

FrameDurations == 2 + 18 * 8 * 2 + 1

\* append_frame: header, a mark and a space per bit (lowest first), the closing mark.
Frame(bytes) ==
    [i \in 1 .. FrameDurations |->
       IF i = 1 THEN 3400 ELSE IF i = 2 THEN 1750 ELSE IF i = FrameDurations THEN 440
       ELSE IF i % 2 = 1 THEN 450
       ELSE LET bit == i \div 2 - 2 IN IF Bit(bytes[bit \div 8 + 1], bit % 8) = 1 THEN 1300 ELSE 420]

\* encode_broadlink_packet, as the blaster plays it back: to the tick.
Pulses(bytes) == LET sent == Frame(bytes) \o <<15500>> \o Frame(bytes)
                 IN  [i \in DOMAIN sent |-> Micros(Ticks(sent[i]))]

\* decode_frame.
FrameBytes(durations, from) ==
    [b \in 1 .. 18 |->
       FoldLeft(LAMBDA byte, k : byte + IF durations[from + 2 + 2 * (8 * (b - 1) + k - 1) + 1] > (1300 + 420) \div 2
                                          THEN 2^(k - 1) ELSE 0,
                0, [k \in 1 .. 8 |-> k])]

\* decode_frames: whole frames, as long as a gap follows.
Frames(durations) ==
    LET from(k) == 1 + (k - 1) * (FrameDurations + 1)
        whole(k) == /\ from(k) + FrameDurations - 1 <= Len(durations)
                    /\ \A j \in 2 .. k : durations[from(j) - 1] > 5000
    IN  [k \in 1 .. Cardinality({k \in 1 .. Len(durations) \div FrameDurations : whole(k)}) |-> FrameBytes(durations, from(k))]

\* read_state; checksum_valid.
ReadState(b) ==
    [power |-> Bit(b[6], 5) = 1, mode |-> FromCode(Mode, (b[7] \div 8) % 8), isee |-> Bit(b[7], 6) = 1,
     halves |-> (b[8] % 16) * 2 + Bit(b[8], 4),
     fan |-> FromCode(Fan, IF Bit(b[10], 7) = 1 THEN 128 ELSE b[10] % 8), vane |-> FromCode(Vane, (b[10] \div 8) % 8),
     wide |-> FromCode(Wide, b[9] \div 16), clock |-> b[11], stop |-> b[12], start |-> b[13],
     timer |-> FromCode(Timer, b[14] % 8), econo |-> Bit(b[15], 5) = 1, valid |-> Checksum(b) = b[18]]

=============================================================================
