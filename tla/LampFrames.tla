----------------------------- MODULE LampFrames -----------------------------
(***************************************************************************)
(* What goes to and comes from a lamp's radio: the scales and the frames   *)
(* of backend/src/zigbee/zcl.rs, and the scales of hue/ble.rs.             *)
(*                                                                         *)
(* A frame is a sequence of bytes.  Reading starts where the bytes are and *)
(* stops where they end: every reader is given what is left of a frame.    *)
(***************************************************************************)
EXTENDS Naturals, Sequences, SequencesExt

CONSTANT Nil

LOCAL AtMost(n, bound) == IF n > bound THEN bound ELSE n
LOCAL AtLeast(n, bound) == IF n < bound THEN bound ELSE n
Word(bytes, i) == bytes[i] + 256 * bytes[i + 1]
WordBytes(n) == <<n % 256, n \div 256>>
From(bytes, i) == SubSeq(bytes, i, Len(bytes))

-----------------------------------------------------------------------------
(* Percentages of the API, and the lamps' own scales.                      *)

MiredWarm == 500
MiredCool == 153

BrightnessToLevel(percent) == AtLeast((AtMost(percent, 100) * 254) \div 100, 1)
LevelToBrightness(level) == AtMost((level * 100) \div 254, 100)
TemperatureToMireds(percent) == MiredWarm - (AtMost(percent, 100) * (MiredWarm - MiredCool)) \div 100
MiredsToTemperature(mireds) ==
    AtMost(((MiredWarm - AtMost(mireds, MiredWarm)) * 100) \div (MiredWarm - MiredCool), 100)

\* hue/ble.rs: to_brightness, parse_brightness, to_temperature, parse_temperature.
ToBrightness(percent) == (AtLeast(AtMost(percent, 100), 1) * 254 + 50) \div 100
ParseBrightness(raw) == AtLeast((AtLeast(AtMost(raw, 254), 1) * 100) \div 254, 1)
ToTemperature(percent) == 244 - (AtMost(percent, 100) * 243) \div 100
ParseTemperature(raw) == ((244 - AtLeast(AtMost(raw, 244), 1)) * 100) \div 243

-----------------------------------------------------------------------------
(* ZCL frames to and from a lamp.                                          *)

Basic == 0
OnOff == 6
LevelControl == 8
ColorControl == 768
ReadResponse == 1
Report == 10
MoveToLevel == 4
MoveToTemperature == 10

\* build_brightness_command_payload, build_color_temperature_command_payload.
SetBrightness(percent, sequence) == <<17, sequence, MoveToLevel, BrightnessToLevel(percent), 0, 0>>
SetTemperature(percent, sequence) == <<17, sequence, MoveToTemperature>> \o WordBytes(TemperatureToMireds(percent)) \o <<0, 0>>

\* build_control_command of a Hue lamp: a segment for each field given.
ControlCommand(power, brightness, temperature) ==
    (IF power = Nil THEN <<>> ELSE <<1, 1, IF power = "on" THEN 1 ELSE 0>>)
      \o (IF brightness = Nil THEN <<>> ELSE <<2, 1, AtLeast(AtMost(brightness, 254), 1)>>)
      \o (IF temperature = Nil THEN <<>> ELSE <<3, 2, AtLeast(AtMost(temperature, 244), 1), 1>>)

\* parse_zcl_header: Nil when cut short or of a reserved type.
Header(frame) ==
    LET specific == frame[1] % 4 = 1
        maker == (frame[1] \div 4) % 2 = 1
        at == IF maker THEN 5 ELSE 3
    IN  IF frame = <<>> \/ frame[1] % 4 > 1 \/ at > Len(frame) THEN Nil
        ELSE [specific |-> specific, maker |-> maker, command |-> frame[at], body |-> at + 1]

\* The n bytes of a value are there.
Holds(rest, n) == Len(rest) >= n

\* parse_zcl_attribute_value: how many bytes the value takes (0: unknown or cut short), and the value.
ValueAt(type, rest) ==
    CASE type \in {16, 24, 32, 48} /\ rest # <<>> -> [length |-> 1, value |-> SubSeq(rest, 1, 1)]
      [] type \in {25, 33, 49} /\ Holds(rest, 2) -> [length |-> 2, value |-> SubSeq(rest, 1, AtMost(2, Len(rest)))]
      [] type = 66 /\ rest # <<>> /\ Holds(rest, 1 + rest[1]) ->
           [length |-> 1 + rest[1], value |-> SubSeq(rest, 2, AtMost(1 + rest[1], Len(rest)))]
      [] OTHER -> [length |-> 0, value |-> <<>>]

\* A record with a status other than success has no type and no value.
SkipsRecord(withStatus, status) == withStatus /\ status # 0

\* parse_attribute_records.
Records(body, withStatus) ==
    LET first == IF withStatus THEN 3 ELSE 2 IN
    LET from[i \in Nat] ==
          LET rest == From(body, i) IN
            IF Len(rest) < first THEN <<>>
            ELSE IF SkipsRecord(withStatus, rest[first]) THEN from[i + 3]
            ELSE IF Len(rest) = first THEN <<>>
            ELSE LET at == ValueAt(rest[first + 1], From(rest, first + 2)) IN
                   IF at.length = 0 THEN <<>>
                   ELSE <<[attribute |-> Word(rest, 1), value |-> at.value]>> \o from[i + first + 1 + at.length]
    IN  from[1]

\* apply_attribute: light is [on, brightness, temperature, mode, color (supports_color), maker, model].
ApplyAttribute(light, cluster, record) ==
    LET value == record.value
        is(c, a) == cluster = c /\ record.attribute = a
        wide == Len(value) >= 2
    IN  CASE is(OnOff, 0) /\ value # <<>> -> [light EXCEPT !.on = (value[1] # 0)]
          [] is(LevelControl, 0) /\ value # <<>> -> [light EXCEPT !.brightness = LevelToBrightness(value[1])]
          [] is(ColorControl, 7) /\ wide -> [light EXCEPT !.temperature = MiredsToTemperature(Word(value, 1))]
          [] is(ColorControl, 8) /\ value # <<>> -> [light EXCEPT !.mode = value[1]]
          [] is(ColorControl, 16394) /\ wide -> [light EXCEPT !.color = ((value[1] \div 8) % 2 = 1)]
          [] is(Basic, 4) -> [light EXCEPT !.maker = value]
          [] is(Basic, 5) -> [light EXCEPT !.model = value]
          [] OTHER -> light

\* apply_lamp_frame: the light after it, and whether the lamp answered.
ApplyLampFrame(light, cluster, frame) ==
    LET header == Header(frame)
        body == From(frame, header.body)
        applied(records) == FoldLeft(LAMBDA l, r : ApplyAttribute(l, cluster, r), light, records)
        is(c, command) == cluster = c /\ header.command = command
    IN  IF header = Nil THEN [light |-> light, alive |-> FALSE]
        ELSE IF header.maker THEN [light |-> light, alive |-> FALSE]
        ELSE [alive |-> TRUE,
              light |-> CASE ~header.specific /\ header.command = ReadResponse -> applied(Records(body, TRUE))
                          [] ~header.specific /\ header.command = Report -> applied(Records(body, FALSE))
                          [] header.specific /\ is(OnOff, 0) -> [light EXCEPT !.on = FALSE]
                          [] header.specific /\ is(OnOff, 1) -> [light EXCEPT !.on = TRUE]
                          [] header.specific /\ is(OnOff, 2) -> [light EXCEPT !.on = ~@]
                          [] header.specific /\ is(LevelControl, MoveToLevel) /\ body # <<>> ->
                               [light EXCEPT !.brightness = LevelToBrightness(body[1]), !.on = (body[1] > 0)]
                          [] OTHER -> light]

-----------------------------------------------------------------------------
(* ZDO answers.                                                            *)

\* parse_active_ep_response.
ActiveEndpoints(answer) ==
    IF Len(answer) < 5 \/ answer[2] # 0 \/ Len(answer) < 5 + answer[5] THEN Nil
    ELSE SubSeq(answer, 6, 5 + answer[5])

\* parse_device_announce: the address comes lowest byte first.
Announced(frame) ==
    IF Len(frame) < 11 THEN Nil ELSE [node |-> Word(frame, 2), eui64 |-> Reverse(SubSeq(frame, 4, 11))]

\* parse_cluster_list: the clusters, and where the list ends.
ClusterList(descriptor, i) ==
    IF i > Len(descriptor) \/ Len(descriptor) < i + 2 * descriptor[i] THEN Nil
    ELSE [clusters |-> [k \in 1 .. descriptor[i] |-> Word(descriptor, i + 2 * k - 1)],
          end |-> i + 1 + 2 * descriptor[i]]

\* parse_simple_desc_response.
SimpleDescriptor(answer) ==
    IF Len(answer) < 8 \/ answer[2] # 0 \/ Len(answer) < 5 + answer[5] \/ answer[5] < 8 THEN Nil
    ELSE LET descriptor == SubSeq(answer, 6, 5 + answer[5])
             inputs == ClusterList(descriptor, 7) IN
           IF inputs = Nil THEN Nil
           ELSE LET outputs == ClusterList(descriptor, inputs.end) IN
                  IF outputs = Nil THEN Nil
                  ELSE [endpoint |-> descriptor[1], profile |-> Word(descriptor, 2), device |-> Word(descriptor, 4),
                        inputs |-> inputs.clusters, outputs |-> outputs.clusters]

=============================================================================
