-------------------------------- MODULE Wire --------------------------------
(***************************************************************************)
(* The other messages the program writes and reads byte by byte: protobuf  *)
(* for the Android TV remote (backend/src/atvremote.rs), ADB's messages    *)
(* (adb.rs), the feeder's meal plan (tuya/feeder.rs).                      *)
(*                                                                         *)
(* A number of 64 bits is the sequence of its digits in base 128, lowest   *)
(* first and without leading zeroes: TLC's own integers have 32 bits.      *)
(***************************************************************************)
EXTENDS Naturals, Sequences, SequencesExt

CONSTANT Nil

\* A small number's digits, and back.
Digits(n) == IF n < 128 THEN <<n>> ELSE <<n % 128, n \div 128>>
Number(digits) == FoldRight(LAMBDA d, n : d + 128 * n, digits, 0)

\* ProtoBuf::varint.
VarintBytes(digits) == [i \in DOMAIN digits |-> IF i < Len(digits) THEN digits[i] + 128 ELSE digits[i]]

\* Leading zeroes add nothing to the number.
Trimmed(digits) ==
    LET significant == {1} \cup {i \in DOMAIN digits : digits[i] # 0}
    IN  SubSeq(digits, 1, CHOOSE i \in significant : \A j \in significant : j <= i)

\* The tenth byte holds the 64th bit and nothing more: Varint::push.
FitsIn64(digits) == Len(digits) < 10 \/ (Len(digits) = 10 /\ digits[10] <= 1)

\* ProtoReader::varint from position i: the number and the position after it, Nil when the
\* bytes end first or it does not fit.
VarintAt(bytes, i) ==
    LET ends == {k \in i .. Len(bytes) : bytes[k] < 128}
        end == CHOOSE k \in ends : \A j \in ends : k <= j
        digits == [k \in 1 .. end - i + 1 |-> bytes[i + k - 1] % 128]
    IN  IF ends = {} THEN Nil
        ELSE IF ~FitsIn64(digits) THEN Nil
        ELSE [digits |-> Trimmed(digits), end |-> end + 1]

\* ProtoBuf::int, bytes_field: a field is [number, kind, value].
FieldBytes(field) ==
    VarintBytes(Digits(8 * field.number + field.kind))
      \o CASE field.kind = 0 -> VarintBytes(field.value)
           [] field.kind = 2 -> VarintBytes(Digits(Len(field.value))) \o field.value
           [] OTHER -> field.value

\* ProtoBuf::frame.
FrameOf(fields) ==
    LET payload == FlattenSeq([i \in DOMAIN fields |-> FieldBytes(fields[i])])
    IN  VarintBytes(Digits(Len(payload))) \o payload

\* ProtoReader::next_field at position i: Nil at the end and where the bytes make no sense.
\* A key above 35 bits has a field number above 32.
NextField(bytes, i) ==
    LET key == VarintAt(bytes, i)
        kind == key.digits[1] % 8
        field(value, end) ==
          [field |-> [number |-> Number(key.digits) \div 8, kind |-> kind, value |-> value], end |-> end]
        arg == VarintAt(bytes, key.end)
    IN  IF i > Len(bytes) THEN Nil
        ELSE IF key = Nil THEN Nil
        ELSE IF Len(key.digits) > 5 THEN Nil
        ELSE IF kind = 1 THEN field(<<>>, key.end + 8)
        ELSE IF kind = 5 THEN field(<<>>, key.end + 4)
        ELSE IF kind \notin {0, 2} THEN Nil
        ELSE IF arg = Nil THEN Nil
        ELSE IF kind = 0 THEN field(arg.digits, arg.end)
        ELSE IF Len(arg.digits) > 4 \/ arg.end + Number(arg.digits) - 1 > Len(bytes) THEN Nil
        ELSE field(SubSeq(bytes, arg.end, arg.end + Number(arg.digits) - 1), arg.end + Number(arg.digits))

\* The fields a reader that asks until there is none gets from a message.
Fields(bytes) ==
    LET from[i \in 1 .. Len(bytes) + 9] ==
          LET next == NextField(bytes, i) IN IF next = Nil THEN <<>> ELSE <<next.field>> \o from[next.end]
    IN  from[1]

\* read_framed: the length, then that many bytes; Nil while they are not there, or too many.
MaxMessage == 65536
ReadFrame(stream) ==
    LET length == VarintAt(stream, 1)
        n == Number(length.digits)
    IN  IF length = Nil THEN Nil
        ELSE IF Len(length.digits) > 3 \/ n > MaxMessage \/ length.end + n - 1 > Len(stream) THEN Nil
        ELSE SubSeq(stream, length.end, length.end + n - 1)

-----------------------------------------------------------------------------
(* ADB: a word is four bytes, lowest first.                                *)

MaxPayload == 262144
ToWord(n) == <<n % 256, (n \div 256) % 256, n \div 65536, 0>>
Complement(word) == [i \in 1 .. 4 |-> 255 - word[i]]

\* Message::encode; wire_length refuses a payload past the agreed size.
AdbEncode(message) ==
    IF Len(message.payload) > MaxPayload THEN Nil
    ELSE message.command \o message.arg0 \o message.arg1 \o ToWord(Len(message.payload))
           \o ToWord(FoldLeft(LAMBDA sum, b : sum + b, 0, message.payload))
           \o Complement(message.command) \o message.payload

\* read_message_within: the checksum is not looked at.
AdbRead(stream) ==
    LET word(at) == SubSeq(stream, at + 1, at + 4)
        length == word(12)[1] + 256 * word(12)[2] + 65536 * word(12)[3]
    IN  IF Len(stream) < 24 THEN Nil
        ELSE IF Complement(word(0)) # word(20) \/ word(12)[4] > 0 \/ length > MaxPayload \/ Len(stream) < 24 + length THEN Nil
        ELSE [command |-> word(0), arg0 |-> word(4), arg1 |-> word(8), payload |-> SubSeq(stream, 25, 24 + length)]

-----------------------------------------------------------------------------
(* The feeder's meal plan.                                                 *)

MaxPortions == 10
MaxMeals == 10

\* Base64 (external): groups of three bytes, the last one may be shorter.
Groups(bytes) ==
    [g \in 1 .. (Len(bytes) + 2) \div 3 |-> SubSeq(bytes, 3 * g - 2, IF 3 * g > Len(bytes) THEN Len(bytes) ELSE 3 * g)]

MealOk(meal) == meal.hour <= 23 /\ meal.minute <= 59 /\ meal.days # <<>> /\ meal.portion \in 1 .. MaxPortions

\* Days are 0 (Monday) to 6, in any order; a day named twice is one bit.
DaysByte(days) == FoldLeft(LAMBDA byte, d : IF (byte \div 2^d) % 2 = 1 THEN byte ELSE byte + 2^d, 0, days)

\* encode.
PlanText(plan) ==
    IF Len(plan) \notin 1 .. MaxMeals \/ \E i \in DOMAIN plan : ~MealOk(plan[i]) THEN Nil
    ELSE Groups(FlattenSeq([i \in DOMAIN plan |->
           <<DaysByte(plan[i].days), plan[i].hour, plan[i].minute, plan[i].portion, IF plan[i].enabled THEN 1 ELSE 0>>]))

\* decode: a trailing partial meal is ignored.
PlanRead(text) ==
    LET bytes == FlattenSeq(text) IN
      [i \in 1 .. Len(bytes) \div 5 |->
         LET meal == SubSeq(bytes, 5 * i - 4, 5 * i) IN
           [days |-> SelectSeq(<<0, 1, 2, 3, 4, 5, 6>>, LAMBDA d : (meal[1] \div 2^d) % 2 = 1),
            hour |-> meal[2], minute |-> meal[3], portion |-> meal[4], enabled |-> meal[5] = 1]]

=============================================================================
