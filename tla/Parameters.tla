---------------------------- MODULE Parameters ------------------------------
(***************************************************************************)
(* The parameters of a statement on their way to the server: how           *)
(* executeStatement and executeBatch (src/src/wire/connection.ts) choose a *)
(* representation for each value, how the XdrWriter writes it, and the BLR *)
(* that tells the server what was written.                                 *)
(*                                                                         *)
(* A message is a sequence of words of four bytes.  A text is a sequence   *)
(* of characters, packed into words.                                       *)
(***************************************************************************)
EXTENDS Integers, SequencesExt, FiniteSetsExt

CONSTANTS
    Word,       \* bytes in a word: 4
    Base,       \* the characters are 1..Base - 1, 0 is padding
    WordBits,   \* bits in a word of the null bitmap: 32
    Half,       \* 2^31: a number fits 32 bits from -Half to Half - 1
    Day         \* TimeCoeff, milliseconds of a day: 86400000

Space == Base - 1
DateOffset == 40587
HighByte == 256

(* A value of the caller: what it is, its number, and its characters in    *)
(* the chunks in which a stream delivers them.                             *)
Value(is, v, chunks) == [is |-> is, v |-> v, chunks |-> chunks]
Null == Value("null", 0, <<>>)

(* A described parameter, or its representation in a message.              *)
Column(type, length, scale) == [type |-> type, length |-> length, scale |-> scale]

Dates == {"date", "time", "timestamp"}

-----------------------------------------------------------------------------
(* XdrWriter.                                                              *)
Blocks(n) == (n + Word - 1) \div Word

(* addText, addParamBuffer: filled up with zeros.                          *)
Pack(text) ==
    LET char(i) == IF i > Len(text) THEN 0 ELSE text[i]
        word(w) == MapThenSumSet(LAMBDA k : char(Word * (w - 1) + k) * Base^(k - 1),
                                 1..Word)
    IN  [w \in 1..Blocks(Len(text)) |-> word(w)]

(* addInt64; addInt128, whose writeBigUInt64BE refuses a negative number.  *)
AddInt64(v) == <<v \div (2 * Half), v % (2 * Half)>>
AddInt128(v) == <<0, 0>> \o AddInt64(v)

(* The null bitmap, from the first parameter on.                           *)
Bitmap(nulls) ==
    LET bit(i) == IF i <= Len(nulls) /\ nulls[i] THEN 1 ELSE 0
    IN  [w \in 1..((Len(nulls) + WordBits - 1) \div WordBits) |->
            MapThenSumSet(LAMBDA k : bit(WordBits * (w - 1) + k) * 2^(k - 1),
                          1..WordBits)]

(* The % of JavaScript has the sign of its left side.                      *)
Remainder(a, b) == IF a < 0 THEN -((-a) % b) ELSE a % b

(* encodeDateTimeParts: the day and the tenths of milliseconds.            *)
EncodeDateTimeParts(ms) ==
    LET time == Remainder(ms, Day)
        date == (ms - time) \div Day + DateOffset
    IN  IF time < 0 THEN [date |-> date - 1, time |-> 10 * (Day + time)]
        ELSE [date |-> date, time |-> 10 * time]

DateTime(ms) == <<EncodeDateTimeParts(ms).date, EncodeDateTimeParts(ms).time>>

-----------------------------------------------------------------------------
(* executeStatement: the SQLParam that is made of a value.                 *)
Param(class, v, text) == [class |-> class, null |-> FALSE, v |-> v, text |-> text]

NullClass(type) ==
    CASE type \in {"text", "varying", "null"} -> "String"
      [] type \in {"double", "float"} -> "Double"
      [] type \in Dates -> "Date"
      [] type = "blob" -> "Quad"
      [] type \in {"long", "short", "int64", "boolean"} -> "Int"
      [] OTHER -> "none"

NumberClass(v) == IF v \in -Half..(Half - 1) THEN "Int" ELSE "Int64"

Prepared(column, value) ==
    CASE value.is = "null" -> [Param(NullClass(column.type), 0, <<>>) EXCEPT !.null = TRUE]
      [] value.is = "quad" -> Param("Quad", value.v, <<>>)
      [] column.type \in Dates -> Param("Date", value.v, <<>>)
      [] value.is = "bigint" -> Param("Int128", value.v, <<>>)
      [] value.is = "number" -> Param(NumberClass(value.v), value.v, <<>>)
      [] value.is = "fraction" -> Param("Double", value.v, <<>>)
      [] value.is = "boolean" ->
            Param(IF column.type = "boolean" THEN "Bool" ELSE "Short", value.v, <<>>)
      [] OTHER -> Param("Text", 0, FlattenSeq(value.chunks))

(* encode() of a value; of null, before protocol 13: a dummy in its place. *)
Encode(p) ==
    CASE p.class \in {"Int", "Short"} -> <<p.v>>
      [] p.class = "Int64" -> AddInt64(p.v)
      [] p.class = "Int128" -> AddInt128(p.v)
      [] p.class = "Double" -> <<p.v, 0>>
      [] p.class = "Quad" -> <<0, p.v>>
      [] p.class = "Date" -> DateTime(p.v)
      [] p.class = "Bool" -> <<p.v * HighByte>>
      [] OTHER -> Pack(p.text)

Dummy(class) ==
    CASE class \in {"Double", "Quad", "Date"} -> <<0, 0>>
      [] class = "Int" -> <<0>>
      [] OTHER -> <<>>

(* calcBlr() of a SQLParam.                                                *)
ParamBlr(p) ==
    CASE p.class = "Int" -> Column("long", 0, 0)
      [] p.class = "Int64" -> Column("int64", 0, 0)
      [] p.class = "Int128" -> Column("int128", 0, 0)
      [] p.class = "Double" -> Column("double", 0, 0)
      [] p.class = "Quad" -> Column("quad", 0, 0)
      [] p.class = "Date" -> Column("timestamp", 0, 0)
      [] p.class = "Short" -> Column("short", 0, 0)
      [] p.class = "Bool" -> Column("boolean", 0, 0)
      [] OTHER -> Column("text", Len(p.text), 0)

(* What throws: a class without encoder, a number outside its words, a     *)
(* negative 128-bit integer.                                               *)
Throws(p) ==
    \/ p.class = "none"
    \/ p.class = "Int" /\ p.v \notin -Half..(Half - 1)
    \/ p.class = "Int128" /\ p.v < 0

(* sendExecute: the values, after their null bitmap; before protocol 13,   *)
(* each before its null flag.                                              *)
Message(params, old) ==
    LET new == [i \in DOMAIN params |-> IF params[i].null THEN <<>> ELSE Encode(params[i])]
        flagged == [i \in DOMAIN params |->
                      IF params[i].null THEN Dummy(params[i].class) \o <<1>>
                      ELSE Encode(params[i]) \o <<0>>]
    IN  IF old THEN FlattenSeq(flagged)
        ELSE Bitmap([i \in DOMAIN params |-> params[i].null]) \o FlattenSeq(new)

-----------------------------------------------------------------------------
(* executeBatch: the message has the format that was described, and what   *)
(* calcBlr() of the described column says.                                 *)
VarBlr(column) ==
    CASE column.type = "blob" -> Column("quad", 0, 0)
      [] column.type = "null" -> [column EXCEPT !.type = "text"]
      [] OTHER -> column

Unsupported(column) == column.type \notin
    {"text", "varying", "null", "short", "long", "int64", "int128", "float",
     "double", "dec16", "dec34", "boolean", "timestamp", "date", "time", "blob"}

(* toBytes refuses a text that is too long.                                *)
TooLong(column, value) ==
    /\ column.type \in {"text", "varying", "null"}
    /\ Len(FlattenSeq(value.chunks)) > column.length

Scaled(v, scale) == v * 10^(-scale)

(* The numbers that do not fit where they are written.                     *)
EncoderThrows(column, value) ==
    LET n == Scaled(value.v, column.scale)
    IN  /\ value.is # "null"
        /\ \/ column.type \in {"short", "long"} /\ n \notin -Half..(Half - 1)
           \/ column.type = "int128" /\ n < 0

(* The encoders of buildBatchEncoders.                                     *)
BatchEncode(column, value) ==
    LET text == FlattenSeq(value.chunks)
        n == Scaled(value.v, column.scale)
        filler == [i \in 1..(column.length - Len(text)) |-> Space]
    IN  CASE column.type = "text" -> Pack(text \o filler)
          [] column.type \in {"varying", "null"} -> <<Len(text)>> \o Pack(text)
          [] column.type \in {"short", "long"} -> <<n>>
          [] column.type = "int64" -> AddInt64(n)
          [] column.type = "int128" -> AddInt128(n)
          [] column.type = "float" -> <<value.v>>
          [] column.type \in {"double", "dec16"} -> <<value.v, 0>>
          [] column.type = "dec34" -> <<value.v, 0, 0, 0>>
          [] column.type = "boolean" -> <<value.v * HighByte>>
          [] column.type = "timestamp" -> DateTime(value.v)
          [] column.type = "date" -> <<EncodeDateTimeParts(value.v).date>>
          [] column.type = "time" -> <<EncodeDateTimeParts(value.v).time>>
          [] OTHER -> <<0, value.v>>

BatchMessage(input, row) ==
    Bitmap([i \in DOMAIN row |-> row[i].is = "null"])
    \o FlattenSeq([i \in DOMAIN row |-> IF row[i].is = "null" THEN <<>>
                                        ELSE BatchEncode(input[i], row[i])])

(* msglen: the length of the message in the server's memory, as            *)
(* buildBatchEncoders adds it up: each column aligned, then a short that   *)
(* says whether it is null.                                                *)
Aligned(offset, a) == ((offset + a - 1) \div a) * a
Room(a, n) == [align |-> a, size |-> n]

BatchRoom(column) ==
    CASE column.type = "text" -> Room(1, column.length)
      [] column.type \in {"varying", "null"} -> Room(2, 2 + column.length)
      [] column.type = "short" -> Room(2, 2)
      [] column.type = "boolean" -> Room(1, 1)
      [] column.type \in {"long", "float", "date", "time"} -> Room(4, 4)
      [] column.type \in {"timestamp", "blob"} -> Room(4, 8)
      [] column.type \in {"int64", "double", "dec16"} -> Room(8, 8)
      [] OTHER -> Room(8, 16)

AddUp(rooms) ==
    FoldLeft(LAMBDA offset, r : Aligned(Aligned(offset, r.align) + r.size, 2) + 2, 0, rooms)
MsgLen(input) == AddUp([i \in DOMAIN input |-> BatchRoom(input[i])])

-----------------------------------------------------------------------------
(* The server: it reads a message by its BLR alone.                        *)
ServerRoom(blr) ==
    CASE blr.type = "text" -> Room(1, blr.length)
      [] blr.type = "varying" -> Room(2, 2 + blr.length)
      [] blr.type = "short" -> Room(2, 2)
      [] blr.type = "boolean" -> Room(1, 1)
      [] blr.type \in {"long", "float", "date", "time"} -> Room(4, 4)
      [] blr.type \in {"timestamp", "quad"} -> Room(4, 8)
      [] blr.type \in {"int64", "double", "dec16"} -> Room(8, 8)
      [] OTHER -> Room(8, 16)
ServerLength(blr) == AddUp([i \in DOMAIN blr |-> ServerRoom(blr[i])])

Width(blr, first) ==
    CASE blr.type = "text" -> Blocks(blr.length)
      [] blr.type = "varying" -> 1 + Blocks(first)
      [] blr.type \in {"short", "long", "float", "date", "time", "boolean"} -> 1
      [] blr.type \in {"int128", "dec34"} -> 4
      [] OTHER -> 2

(* A value as the server sees it: a number in its column's scale, a text,  *)
(* a moment, a blob.                                                       *)
Seen(is, v, text) == [is |-> is, v |-> v, text |-> text]
SeenNull == Seen("null", 0, <<>>)
SeenValue == [is : STRING, v : Int, text : Seq(Nat)]

Unpack(words, n) ==
    [i \in 1..n |-> (words[(i - 1) \div Word + 1] \div Base^((i - 1) % Word)) % Base]

Read(blr, w) ==
    CASE blr.type = "text" -> Seen("text", 0, Unpack(w, blr.length))
      [] blr.type = "varying" -> Seen("text", 0, Unpack(Tail(w), w[1]))
      [] blr.type \in {"short", "long", "float", "double", "dec16", "dec34"} ->
            Seen("number", w[1], <<>>)
      [] blr.type = "int64" -> Seen("number", 2 * Half * w[1] + w[2], <<>>)
      [] blr.type = "int128" -> Seen("number", 2 * Half * w[3] + w[4], <<>>)
      [] blr.type = "boolean" -> Seen("boolean", w[1] \div HighByte, <<>>)
      [] blr.type = "timestamp" ->
            Seen("moment", (w[1] - DateOffset) * Day + w[2] \div 10, <<>>)
      [] blr.type = "date" -> Seen("moment", (w[1] - DateOffset) * Day, <<>>)
      [] blr.type = "time" -> Seen("moment", w[1] \div 10, <<>>)
      [] OTHER -> Seen("blob", w[2], <<>>)

Garbage == <<Seen("garbage", 0, <<>>)>>

(* The values of the message w from its position "from" on; a message that *)
(* does not end with its last value is refused.                            *)
Decoded(blr, w, old) ==
    LET n == Len(blr)
        first(p) == IF p > Len(w) THEN 0 ELSE w[p]
        null(i) == (w[i \div WordBits + 1] \div 2^(i % WordBits)) % 2 = 1
        f[p \in Nat, values \in Seq(SeenValue)] ==
            LET i == Len(values)
                isNull == ~old /\ null(i)
                end == IF isNull THEN p ELSE p + Width(blr[i + 1], first(p))
                next == IF old THEN end + 1 ELSE end
            IN  IF i = n THEN IF p = Len(w) + 1 THEN values ELSE Garbage
                ELSE IF next > Len(w) + 1 THEN Garbage
                ELSE f[next, Append(values,
                        IF isNull \/ (old /\ w[end] # 0) THEN SeenNull
                        ELSE Read(blr[i + 1], SubSeq(w, p, end - 1)))]
    IN  f[IF old THEN 1 ELSE 1 + (n + WordBits - 1) \div WordBits, <<>>]
=============================================================================
