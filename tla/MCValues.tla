------------------------------ MODULE MCValues ------------------------------
(***************************************************************************)
(* What is written is what is read: every format the program writes or     *)
(* reads byte by byte, one at a time, through a line that may cut it.      *)
(*                                                                         *)
(* `given` is what one side means, `wire` what it writes, `read` what the  *)
(* other side makes of it.  The side that is not in src/ (the lamp, the    *)
(* television, the heat pump) writes or reads as its protocol says.        *)
(***************************************************************************)
EXTENDS Integers, Sequences, SequencesExt, FiniteSetsExt, Climate

INSTANCE LampFrames
INSTANCE Wire
Rules == INSTANCE TempoRules

VARIABLES codec, given, wire, read, cut, phase
valuesVars == <<codec, given, wire, read, cut, phase>>

UpTo(S, n) == UNION {[1 .. k -> S] : k \in 0 .. n}
NonEmpty(S, n) == UpTo(S, n) \ {<<>>}
\* The last of the elements of a sequence that pass, or what there was before.
LastOf(seq, Test(_), Value(_), otherwise) ==
    LET passing == {i \in DOMAIN seq : Test(seq[i])} IN IF passing = {} THEN otherwise ELSE Value(seq[Max(passing)])

-----------------------------------------------------------------------------
(* Inputs, one set for each format.                                        *)

\* One tick, the last of one byte, the first of three, and the one that begins like a terminator.
Durations == {33, 8374, 8407, 109300}
PacketGiven == NonEmpty(Durations, 4)

Rc5Given == [toggle : BOOLEAN, address : {0, 1, 31}, command : {0, 12, 42, 63}]

Option == {[word |-> "wide", v |-> "left_max"], [word |-> "wide", v |-> "left"], [word |-> "econo", v |-> "on"],
           [word |-> "timer", v |-> "off"], [word |-> "start", v |-> <<23, 50>>], [word |-> "stop", v |-> <<6, 0>>],
           [word |-> "stopin", v |-> 30], [word |-> "stopin", v |-> 1430]}
ClimateGiven ==
    [mode : {"heat", "cool", "fan"}, temperature : {16, 31}, fan : {"auto", "four"}, vane : {"swing"},
     options : UpTo(Option, 2), clock : {0, 143}]
      \cup [mode : {"cool"}, temperature : {21}, fan : {"silent"}, vane : {"lowest"},
            options : {<<a, b, c>> : a, b, c \in Option \ {[word |-> "wide", v |-> "left"]}}, clock : {142}]

Record(attribute, type, value) == [attribute |-> attribute, status |-> 0, type |-> type, value |-> value]
Refusal(attribute) == [attribute |-> attribute, status |-> 134, type |-> 0, value |-> <<>>]
ColorRecords ==
    {Record(7, 33, WordBytes(153)), Record(7, 33, WordBytes(366)), Record(7, 33, WordBytes(501)), Record(8, 48, <<2>>),
     Record(16394, 25, <<31, 0>>), Record(3, 33, <<16, 16>>), Record(9, 226, <<0, 0, 0, 0>>), Refusal(4)}
BasicRecords == {Record(4, 66, <<3, 7, 7, 7>>), Record(5, 66, <<0>>), Record(5, 66, <<2, 0, 0>>), Refusal(7)}
LampGiven ==
    {[cluster |-> ColorControl, kind |-> k, records |-> r] : k \in {ReadResponse, Report}, r \in UpTo(ColorRecords, 3)}
      \cup {[cluster |-> Basic, kind |-> k, records |-> r] : k \in {ReadResponse, Report}, r \in UpTo(BasicRecords, 3)}
      \cup {[cluster |-> LevelControl, kind |-> Report, records |-> <<Record(0, 32, <<l>>)>>] : l \in {0, 1, 127, 254, 255}}
      \cup {[cluster |-> OnOff, kind |-> k, records |-> <<Record(0, 16, <<l>>)>>] : k \in {4, 11}, l \in {0, 1}}

Percents == 0 .. 100
AskGiven == [lamp : {"zigbee", "hue"}, what : {"brightness", "temperature"}, percent : Percents]

Clusters == UpTo({0, 6, 768}, 2)
DescriptorGiven == [endpoint : {1, 11}, profile : {260, 49246}, device : {528, 2096}, inputs : Clusters, outputs : Clusters]
EndpointsGiven == UpTo({1, 11, 242}, 3)
AnnounceGiven == [node : {0, 258, 65528}, eui64 : {<<0, 23, 136, 1, 8, 12, 0, 11>>}]

Field == {[number |-> 1, kind |-> 0, value |-> <<0>>], [number |-> 16, kind |-> 0, value |-> <<0, 1>>],
          [number |-> 2, kind |-> 0, value |-> <<127, 127, 127, 127, 127, 127, 127, 127, 127, 1>>],
          [number |-> 2, kind |-> 2, value |-> <<>>], [number |-> 11, kind |-> 2, value |-> <<8, 150, 1>>],
          [number |-> 3, kind |-> 5, value |-> <<0, 0, 0, 0>>]}
FieldsGiven == UpTo(Field, 3)
\* Numbers as a peer may write them: with leading zeroes, or too long.
Zeroes(n) == [i \in 1 .. n |-> 0]
VarintGiven ==
    {digits \o Zeroes(n) : digits \in {<<5>>, <<0, 1>>}, n \in {0, 1, 8, 9, 12}}
      \cup {[i \in 1 .. 9 |-> 127] \o <<d>> : d \in {0, 1, 2, 127}}

AdbGiven == [command : {<<67, 78, 88, 78>>, <<87, 82, 84, 69>>}, arg0 : {<<1, 0, 0, 0>>}, arg1 : {<<0, 0, 4, 0>>, <<255, 255, 255, 255>>},
             payload : UpTo({0, 255}, 2)]

Meal == [days : {<<>>, <<6, 0, 6>>, <<0, 1, 2, 3, 4, 5, 6>>}, hour : {0, 23, 24}, minute : {0, 59}, portion : {0, 10}, enabled : BOOLEAN]
PlanGiven == NonEmpty(Meal, 1)
    \cup {<<[days |-> d, hour |-> 8, minute |-> 5, portion |-> p, enabled |-> TRUE],
            [days |-> <<2>>, hour |-> 19, minute |-> 30, portion |-> 1, enabled |-> FALSE], m>>
            : d \in {<<0>>, <<5, 6>>}, p \in {1, 10}, m \in {m \in Meal : MealOk(m)}}

EasterGiven == 2014 .. 2100

-----------------------------------------------------------------------------
(* The side that writes.                                                   *)

\* A climate command's tokens.
Tokens(c) ==
    <<W("state"), W(c.mode), N(c.temperature), W("fan"), W(c.fan), W("vane"), W(c.vane)>>
      \o FlattenSeq([i \in DOMAIN c.options |->
           LET o == c.options[i] IN
             <<W(o.word)>> \o CASE o.word = "wide" -> WideTokens(o.v) [] o.word \in {"start", "stop"} -> <<N(o.v[1]), N(o.v[2])>>
                                [] o.word = "stopin" -> <<N(o.v)>> [] OTHER -> <<W(o.v)>>])

\* A lamp's read response or report (external).
LampSays(g) ==
    <<24, 1, g.kind>> \o FlattenSeq([i \in DOMAIN g.records |->
      LET r == g.records[i] IN
        WordBytes(r.attribute) \o IF g.kind = ReadResponse /\ r.status # 0 THEN <<r.status>>
                                  ELSE (IF g.kind = ReadResponse THEN <<r.status>> ELSE <<>>) \o <<r.type>> \o r.value])

ClusterBytes(clusters) == <<Len(clusters)>> \o FlattenSeq([i \in DOMAIN clusters |-> WordBytes(clusters[i])])
\* A device's answers (external).
DeviceSays(c, g) ==
    CASE c = "descriptor" ->
           LET d == <<g.endpoint>> \o WordBytes(g.profile) \o WordBytes(g.device) \o <<1>> \o ClusterBytes(g.inputs) \o ClusterBytes(g.outputs)
           IN  <<7, 0, 0, 0, Len(d)>> \o d
      [] c = "endpoints" -> <<7, 0, 0, 0, Len(g)>> \o g
      [] c = "announce" -> <<7>> \o WordBytes(g.node) \o Reverse(g.eui64) \o <<128>>

\* A lamp told what to show, and what it then reports (external).
Asked(g) ==
    CASE g.lamp = "zigbee" /\ g.what = "brightness" ->
           LET told == SetBrightness(g.percent, 1) IN LampSays([kind |-> Report, records |-> <<Record(0, 32, <<told[4]>>)>>])
      [] g.lamp = "zigbee" /\ g.what # "brightness" -> LET told == SetTemperature(g.percent, 1) IN
                                LampSays([kind |-> Report, records |-> <<Record(7, 33, <<told[4], told[5]>>)>>])
      [] g.lamp = "hue" /\ g.what = "brightness" -> <<ControlCommand(Nil, ToBrightness(g.percent), Nil)[3]>>
      [] OTHER -> <<ControlCommand(Nil, Nil, ToTemperature(g.percent))[3]>>

Written(c, g) ==
    CASE c = "packet" -> Encode(g)
      [] c = "rc5" -> EncodeRc5(g)
      [] c = "climate" -> LET s == Parse(Tokens(g)) IN IF s = Nil THEN Nil ELSE Pulses(StateBytes(Resolved(s, g.clock)))
      [] c = "lamp" -> LampSays(g)
      [] c = "ask" -> Asked(g)
      [] c \in {"descriptor", "endpoints", "announce"} -> DeviceSays(c, g)
      [] c = "fields" -> FlattenSeq([i \in DOMAIN g |-> FieldBytes(g[i])])
      [] c = "frame" -> FrameOf(g)
      [] c = "varint" -> VarintBytes(g)
      [] c = "adb" -> AdbEncode(g)
      [] c = "plan" -> PlanText(g)
      [] c = "easter" -> <<Rules!Easter(g)>>

-----------------------------------------------------------------------------
(* The side that reads.                                                    *)

Light == [on |-> FALSE, brightness |-> 50, temperature |-> 50, mode |-> 1, color |-> FALSE, maker |-> <<>>, model |-> <<9>>]

Reading(c, g, bytes) ==
    CASE c = "packet" -> Decode(bytes)
      [] c = "rc5" -> LET d == Decode(bytes) IN IF d.ok THEN d.read ELSE <<>>
      [] c = "climate" -> LET frames == Frames(bytes) IN [i \in DOMAIN frames |-> ReadState(frames[i])]
      [] c = "lamp" -> ApplyLampFrame(Light, g.cluster, bytes)
      [] c = "ask" -> CASE g.lamp = "zigbee" -> ApplyLampFrame(Light, IF g.what = "brightness" THEN LevelControl ELSE ColorControl, bytes)
                        [] g.lamp = "hue" /\ g.what = "brightness" -> ParseBrightness(bytes[1])
                        [] OTHER -> ParseTemperature(bytes[1])
      [] c = "descriptor" -> SimpleDescriptor(bytes)
      [] c = "endpoints" -> ActiveEndpoints(bytes)
      [] c = "announce" -> Announced(bytes)
      [] c = "fields" -> Fields(bytes)
      [] c = "frame" -> LET message == ReadFrame(bytes) IN IF message = Nil THEN Nil ELSE Fields(message)
      [] c = "varint" -> VarintAt(bytes, 1)
      [] c = "adb" -> AdbRead(bytes)
      [] c = "plan" -> PlanRead(bytes)
      [] c = "easter" -> bytes[1]

-----------------------------------------------------------------------------
(* The line.                                                               *)

ValuesInit ==
    /\ wire = <<>> /\ read = Nil /\ cut = FALSE /\ phase = "given"
    /\ \/ codec = "packet" /\ given \in PacketGiven
       \/ codec = "rc5" /\ given \in Rc5Given
       \/ codec = "climate" /\ given \in ClimateGiven
       \/ codec = "lamp" /\ given \in LampGiven
       \/ codec = "ask" /\ given \in AskGiven
       \/ codec = "descriptor" /\ given \in DescriptorGiven
       \/ codec = "endpoints" /\ given \in EndpointsGiven
       \/ codec = "announce" /\ given \in AnnounceGiven
       \/ codec \in {"fields", "frame"} /\ given \in FieldsGiven
       \/ codec = "varint" /\ given \in VarintGiven
       \/ codec = "adb" /\ given \in AdbGiven
       \/ codec = "plan" /\ given \in PlanGiven
       \/ codec = "easter" /\ given \in EasterGiven

Send ==
    /\ phase = "given"
    /\ LET w == Written(codec, given) IN IF w = Nil THEN phase' = "refused" /\ wire' = <<>> ELSE phase' = "sent" /\ wire' = w
    /\ UNCHANGED <<codec, given, read, cut>>

\* Where a line of so many elements may be cut: anywhere, and at the few places that matter in a long one.
Cuts(n) == IF n < 40 THEN 0 .. n - 1 ELSE {0, 1, 290, 291, 292, 293, n - 1}

Cut ==
    /\ phase = "sent" /\ ~cut /\ codec \notin {"ask", "easter"}
    /\ \E n \in Cuts(Len(wire)) : wire' = SubSeq(wire, 1, n)
    /\ cut' = TRUE
    /\ UNCHANGED <<codec, given, read, phase>>

Receive ==
    /\ phase = "sent"
    /\ read' = Reading(codec, given, wire)
    /\ phase' = "read"
    /\ UNCHANGED <<codec, given, wire, cut>>

ValuesNext == Send \/ Cut \/ Receive

-----------------------------------------------------------------------------
(* What it should be, said another way.                                    *)

\* What the options of a climate command mean, whatever their order.
Meant(c) ==
    LET offs == {i \in DOMAIN c.options : c.options[i].word = "timer"}
        timers == IF offs = {} THEN c.options ELSE From(c.options, Max(offs) + 1)
        last(options, word, otherwise) == LastOf(options, LAMBDA o : o.word = word, LAMBDA o : o.v, otherwise)
        start == last(timers, "start", <<>>)
        stop == last(timers, "stop", <<>>)
        stopin == last(timers, "stopin", 0)
        tick(time) == IF time = <<>> THEN 0 ELSE (time[1] * 60 + time[2]) \div 10
        stops == stop # <<>> \/ stopin # 0
    IN  [power |-> TRUE, mode |-> c.mode, isee |-> FALSE, halves |-> 2 * (c.temperature - 16), fan |-> c.fan, vane |-> c.vane,
         wide |-> last(c.options, "wide", "center"), clock |-> c.clock,
         stop |-> IF stopin # 0 THEN (c.clock + stopin \div 10) % 144 ELSE tick(stop), start |-> tick(start),
         timer |-> IF start # <<>> /\ stops THEN "startstop" ELSE IF start # <<>> THEN "start" ELSE IF stops THEN "stop" ELSE "none",
         econo |-> c.mode = "cool" /\ \E i \in DOMAIN c.options : c.options[i].word = "econo", valid |-> TRUE]

\* What a lamp's records say once k of them are in: the last word on each attribute, up to a value of unknown type.
Said(g, k) ==
    LET told == g.kind \in {ReadResponse, Report}
        unknown == {i \in DOMAIN g.records : g.records[i].type = 226 \/ (g.kind = Report /\ g.records[i].status # 0)}
        known == IF unknown = {} THEN Len(g.records) ELSE Min(unknown) - 1
        heard == SelectSeq(SubSeq(g.records, 1, IF k < known THEN k ELSE known), LAMBDA r : told /\ r.status = 0)
        last(cluster, attribute, Value(_), otherwise) ==
          IF g.cluster # cluster THEN otherwise ELSE LastOf(heard, LAMBDA r : r.attribute = attribute, LAMBDA r : Value(r.value), otherwise)
        scale(mireds) == IF mireds > 500 THEN 0 ELSE ((500 - mireds) * 100) \div 347
    IN  [on |-> last(OnOff, 0, LAMBDA v : v[1] # 0, Light.on), brightness |-> last(LevelControl, 0, LAMBDA v : (IF v[1] = 255 THEN 100 ELSE (v[1] * 100) \div 254), Light.brightness),
         temperature |-> last(ColorControl, 7, LAMBDA v : scale(v[1] + 256 * v[2]), Light.temperature),
         mode |-> last(ColorControl, 8, LAMBDA v : v[1], Light.mode), color |-> last(ColorControl, 16394, LAMBDA v : TRUE, Light.color),
         maker |-> last(Basic, 4, LAMBDA v : Tail(v), Light.maker), model |-> last(Basic, 5, LAMBDA v : Tail(v), Light.model)]

\* What a reader that forgets what it skips makes of fields.
Seen(fields) == [i \in DOMAIN fields |-> IF fields[i].kind = 5 THEN [fields[i] EXCEPT !.value = <<>>] ELSE fields[i]]

PlanSeen(plan) == [i \in DOMAIN plan |-> [plan[i] EXCEPT !.days = SetToSortSeq(ToSet(@), <)]]

\* The Sunday after the first full moon of spring.
SundayAfterMoon(year) ==
    LET golden == year % 19
        century == year \div 100
        epact == (century - century \div 4 - (8 * century + 13) \div 25 + 19 * golden + 15) % 30
        moon == epact - (epact \div 28) * (1 - (29 \div (epact + 1)) * ((21 - golden) \div 11))
        full == Rules!Ymd(year, 3, 21) + moon
    IN  CHOOSE d \in full + 1 .. full + 7 : Rules!Weekday(d) = Rules!Sunday

Near(a, b, within) == a - b <= within /\ b - a <= within

Fits(c, g, r) ==
    CASE c = "packet" -> r.ok /\ Len(r.read) = Len(g) /\ \A i \in DOMAIN g : Near(r.read[i], g[i], 17)
      [] c = "rc5" -> ReceiveRc5(r) = g
      [] c = "climate" -> r = <<Meant(g), Meant(g)>>
      [] c = "lamp" -> r = [alive |-> TRUE, light |-> Said(g, Len(g.records))]
      [] c = "ask" -> Near(g.percent, CASE g.lamp = "hue" -> r [] g.lamp = "zigbee" /\ g.what = "brightness" -> r.light.brightness [] OTHER -> r.light.temperature, 1)
      [] c \in {"fields", "frame"} -> r = Seen(g)
      [] c = "varint" -> IF Len(g) > 10 \/ (Len(g) = 10 /\ g[10] > 1) THEN r = Nil
                         ELSE r # Nil /\ Trimmed(r.digits) = Trimmed(g) /\ r.end = Len(g) + 1
      [] c = "plan" -> r = PlanSeen(g)
      [] c = "easter" -> r = SundayAfterMoon(g)
      [] OTHER -> r = g

\* What is read of a message that came whole is what was meant: a packet to half a tick, a lamp's
\* percentage to one, a climate command's options in any order (`left-max` is one side, `timer-off`
\* forgets what came before it, `stopin` passes midnight), a failed record without a value
\* skipped, a number of more than 64 bits refused; and nothing well-formed is refused (broadlink_ir.rs:encode/decode, mitsubishi_ir.rs,
\* zcl.rs:apply_lamp_frame, ble.rs, atvremote.rs:Varint, adb.rs, feeder.rs).  Easter is the Sunday it should be (rules.rs:easter).
WholeIsMeant ==
    /\ phase = "read" /\ ~cut => Fits(codec, given, read)
    /\ phase = "refused" => codec = "plan" /\ \E i \in DOMAIN given : ~MealOk(given[i])

\* A message cut anywhere is refused, or read as the part of it that came whole: no value is
\* made of half its bytes, and no byte past the end is touched.
CutIsPrefix ==
    phase = "read" /\ cut =>
      CASE codec = "packet" -> read.ok => Len(read.read) <= Len(given) /\ \A i \in DOMAIN read.read : Near(read.read[i], given[i], 17)
        [] codec = "climate" -> read \in Prefixes(<<Meant(given), Meant(given)>>)
        [] codec = "lamp" -> \E k \in 0 .. Len(given.records) : read.light = Said(given, k) /\ (k > 0 => read.alive)
        [] codec = "fields" -> read \in Prefixes(Seen(given))
        [] codec = "plan" -> read \in Prefixes(PlanSeen(given))
        [] codec = "announce" -> read \in {Nil, given}
        [] codec \in {"descriptor", "endpoints", "frame", "varint", "adb"} -> read = Nil
        [] OTHER -> TRUE

\* Every format reads back what was written, and of a line that was cut no more than came through it
\* (the readers and writers of broadlink_ir.rs, mitsubishi_ir.rs, zcl.rs, ble.rs, atvremote.rs, adb.rs, feeder.rs; rules.rs:easter).
ReadsBack == WholeIsMeant /\ CutIsPrefix

=============================================================================
