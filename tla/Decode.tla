------------------------------- MODULE Decode -------------------------------
(***************************************************************************)
(* How the answers of the server are cut out of the bytes that arrive: the *)
(* 'data' handler and decodeResponse() of src/src/wire/connection.ts, on   *)
(* the XdrReader and BitSet of serialize.ts.                               *)
(*                                                                         *)
(* The stream is a sequence of words of four bytes; a TCP segment ends     *)
(* anywhere.  A number read behind the end throws a RangeError: what was   *)
(* read is kept, and the packet is decoded from its first word again when  *)
(* more has arrived.  An array or a text read behind the end is cut off,   *)
(* silently, and the next number throws.  "at" is the position behind what *)
(* was read; 0 stands for the RangeError.  The opcodes of the handshake    *)
(* are in module Connect.                                                  *)
(***************************************************************************)
EXTENDS Integers, SequencesExt

CONSTANTS
    Scripts,    \* what the server may send, by old: sequences of exchanges
    Output,     \* the types of a row's columns
    Length,     \* the length of a "text" column
    Word,       \* bytes in a word: 4
    Opaque,     \* lengths from half of it come sign-extended: 2^16
    WordBits    \* bits in a word of the null bitmap: 32

(* An exchange: the queue entry of a request, the words that answer it,    *)
(* and the value that they encode.                                         *)
VARIABLES
    old,        \* lowerV13: the protocol is older than 13
    sent,       \* the exchanges
    wire,       \* words that have not arrived
    saved,      \* _xdr: the words of an incomplete packet
    buffer,     \* xdr: the words being decoded
    queue,      \* the entries that wait
    got,        \* the values called back
    inline      \* the blob of an op_inline_blob

vars == <<old, sent, wire, saved, buffer, queue, got, inline>>

OpResponse == 9
OpEvent == 52
OpFetchResponse == 66
OpDummy == 71
OpPiggyback == 72
OpSqlResponse == 78
OpBatchCs == 103
OpInlineBlob == 114

ArgEnd == 0
ArgGds == 1
ArgString == 2
ArgNumber == 4
ArgWarning == 18

Blank == [at |-> 0, handle |-> 0, buffer |-> <<>>, status |-> <<>>, warnings |-> <<>>]

Read == [at : Nat, handle : Int, buffer : Seq(Int), status : Seq(Int),
         warnings : Seq(Int)]

(* The entry of a request; keeps: startTransaction, prepare and the     *)
(* like decode into an object of the entry.                                *)
Entry(keeps, lazy) == [keeps |-> keeps, lazy |-> lazy, response |-> Blank]

Init ==
    /\ old \in BOOLEAN /\ sent \in Scripts[old]
    /\ wire = FlattenSeq([i \in 1..Len(sent) |-> sent[i].words])
    /\ queue = [i \in 1..Len(sent) |-> sent[i].entry]
    /\ saved = <<>> /\ buffer = <<>> /\ got = <<>> /\ inline = <<>>

-----------------------------------------------------------------------------
(* XdrReader.                                                              *)
Missing(b, p) == p > Len(b)
Slice(b, p, n) == SubSeq(b, p, IF p + n - 1 > Len(b) THEN Len(b) ELSE p + n - 1)

(* align(), in words.                                                      *)
Blocks(n) == IF n <= 0 THEN 0 ELSE (n + Word - 1) \div Word

\* Mutant: a sign-extended length is taken as it is.
SizeAsIs(n) == n

(* readArray: "a negative length is never valid".                          *)
Size(n) == IF n < 0 THEN n % Opaque ELSE n

AfterArray(b, p) == p + 1 + Blocks(Size(b[p]))
Array(b, p) == Slice(b, p + 1, Blocks(Size(b[p])))

Null == <<>>

(* BitSet.get: beyond what has arrived, no bit is set.                     *)
IsNull(b, p, c) ==
    LET w == p + c \div WordBits
    IN  ~Missing(b, w) /\ (b[w] \div 2^(c % WordBits)) % 2 = 1

-----------------------------------------------------------------------------
(* A status vector, into the response r.                                   *)
Item(arg, n, r) ==
    CASE arg = ArgGds /\ n # 0 -> [r EXCEPT !.status = Append(@, n)]
      [] arg = ArgWarning /\ n # 0 -> [r EXCEPT !.warnings = Append(@, n)]
      [] OTHER -> r

Vector(b, from, r) ==
    LET f[p \in Nat, v \in Read] ==
            IF Missing(b, p) THEN [v EXCEPT !.at = 0]
            ELSE IF b[p] = ArgEnd THEN [v EXCEPT !.at = p + 1]
            ELSE IF Missing(b, p + 1) THEN [v EXCEPT !.at = 0]
            ELSE f[p + 2 + (IF b[p] = ArgString THEN Blocks(b[p + 1]) ELSE 0),
                   Item(b[p], b[p + 1], v)]
    IN  f[from, r]

(* parseOpResponse: handle, quad, array, status vector.                    *)
ParseOpResponse(b, p, r) ==
    LET new == [r EXCEPT !.at = 0,
                         !.handle = IF @ = 0 /\ ~Missing(b, p) THEN b[p] ELSE @]
    IN  IF Missing(b, p + 3) THEN new
        ELSE Vector(b, AfterArray(b, p + 3),
                    [new EXCEPT !.buffer = IF b[p + 3] = 0 THEN @ ELSE Array(b, p + 3)])

(* What a packet comes to: where it ends, what is called back, and what    *)
(* has become of the entry and of the inline blob.                         *)
Nothing == [what |-> "nothing"]
Error(r) == [what |-> "error", status |-> r.status]
Good(r) == [what |-> "ok", handle |-> r.handle, buffer |-> r.buffer,
            warnings |-> r.warnings]
Value(r) == IF r.status = <<>> THEN Good(r) ELSE Error(r)
Out(at, value, entry) ==
    [at |-> at, value |-> value, entry |-> entry, inline |-> <<>>]
Incomplete(entry) == Out(0, Nothing, entry)

(* An op_response; as many of them as the entry's lazy_count says.         *)
Responses(b, from, e) ==
    LET f[p \in Nat, lazy \in Nat, r \in Read] ==
            LET new == ParseOpResponse(b, p, r)
                left == IF lazy > 0 /\ new.at > 0 THEN lazy - 1 ELSE lazy
                entry == [e EXCEPT !.response = IF e.keeps THEN new ELSE @, !.lazy = left]
            IN  IF new.at = 0 \/ left = 0 THEN Out(new.at, Value(new), entry)
                ELSE IF Missing(b, new.at) THEN Incomplete(entry)
                ELSE f[new.at + 1, left, new]
    IN  f[from, e.lazy, IF e.keeps THEN e.response ELSE Blank]

-----------------------------------------------------------------------------
(* The column types: how many words a value takes, and how many of them    *)
(* the caller gets: time zones are skipped.                                *)
Numbers == [int |-> 1, short |-> 1, float |-> 1, boolean |-> 1,
            int64 |-> 2, double |-> 2, quad |-> 2, int128 |-> 4]
Times == [date |-> 1, time |-> 1, timestamp |-> 2, timeTz |-> 2, timeTzEx |-> 3,
          timestampTz |-> 3, timestampTzEx |-> 4]
Decimals == [dec16 |-> 2, dec34 |-> 4]

Kept(type) ==
    CASE type \in {"timeTz", "timeTzEx"} -> 1
      [] type \in {"timestampTz", "timestampTzEx"} -> 2
      [] OTHER -> (Numbers @@ Times)[type]

(* decode() of a column, without its null flag.  Texts and decimals are    *)
(* slices: cut off behind the end.                                         *)
Cell(b, p, type) ==
    LET n == (Numbers @@ Times)[type]
    IN  CASE type = "text" ->
                [at |-> p + Blocks(Length), value |-> Slice(b, p, Blocks(Length))]
          [] type = "varying" ->
                IF Missing(b, p) THEN [at |-> 0, value |-> Null]
                ELSE [at |-> p + 1 + Blocks(b[p]), value |-> Slice(b, p + 1, Blocks(b[p]))]
          [] type \in DOMAIN Decimals ->
                [at |-> p + Decimals[type], value |-> Slice(b, p, Decimals[type])]
          [] OTHER ->
                IF Missing(b, p + n - 1) THEN [at |-> 0, value |-> Null]
                ELSE [at |-> p + n, value |-> SubSeq(b, p, p + Kept(type) - 1)]

(* Before protocol 13, a null flag comes behind each value.                *)
Flagged(b, c) ==
    IF c.at = 0 \/ Missing(b, c.at) THEN [c EXCEPT !.at = 0]
    ELSE [at |-> c.at + 1, value |-> IF b[c.at] = 0 THEN c.value ELSE Null]

(* A row: the null bitmap, then the columns that are not null; before      *)
(* protocol 13, every column.                                              *)
Row(b, from) ==
    LET n == Len(Output)
        f[p \in Nat, row \in Seq(Seq(Int))] ==
            LET i == Len(row)
                new == IF old THEN Flagged(b, Cell(b, p, Output[i + 1]))
                       ELSE IF IsNull(b, from, i) THEN [at |-> p, value |-> Null]
                       ELSE Cell(b, p, Output[i + 1])
            IN  IF i = n THEN [at |-> p, row |-> row]
                ELSE IF new.at = 0 THEN [at |-> 0, row |-> row]
                ELSE f[new.at, Append(row, new.value)]
    IN  f[IF old THEN from ELSE from + (n + WordBits - 1) \div WordBits, <<>>]

Rows(rows, last) == [what |-> "rows", rows |-> rows, last |-> last]

(* op_fetch_response: status, count and a row, each under a header of its  *)
(* own; an op_response in their place is the error, and drops the rows.    *)
Fetched(b, from, e) ==
    LET f[p \in Nat, rows \in Seq(Seq(Seq(Int)))] ==
            LET r == Row(b, p + 2)
                error == ParseOpResponse(b, r.at + 1, Blank)
            IN  IF Missing(b, p + 1) THEN Incomplete(e)
                ELSE IF b[p + 1] = 0 \/ b[p] = 100
                THEN Out(p + 2, Rows(rows, b[p] = 100), e)
                ELSE IF r.at = 0 \/ Missing(b, r.at) THEN Incomplete(e)
                ELSE IF b[r.at] = OpResponse THEN Out(error.at, Value(error), e)
                ELSE f[r.at + 1, Append(rows, r.row)]
    IN  f[from, <<>>]

(* The op_response behind an op_sql_response: where it ends.               *)
Trailer(b, p) ==
    IF Missing(b, p) THEN Blank
    ELSE IF b[p] # OpResponse THEN [Blank EXCEPT !.at = p + 1]
    ELSE ParseOpResponse(b, p + 1, Blank)

\* Mutant: no trailer is read when there are no rows (issue #341).
LeftBehind(b, p, e) == Out(p, Rows(<<>>, TRUE), e)

(* Without rows, the trailer says whether the statement failed.            *)
WithoutRows(b, p, e) ==
    LET t == Trailer(b, p)
    IN  Out(t.at, IF t.status = <<>> THEN Rows(<<>>, TRUE) ELSE Error(t), e)

(* op_sql_response: n rows, a trailer behind each.                         *)
WithRows(b, from, count, e) ==
    LET f[p \in Nat, n \in Nat, rows \in Seq(Seq(Seq(Int)))] ==
            LET r == Row(b, p)
                t == Trailer(b, r.at)
            IN  IF n = 0 THEN Out(p, Rows(rows, TRUE), e)
                ELSE IF r.at = 0 \/ t.at = 0 THEN Incomplete(e)
                ELSE f[t.at, n - 1, Append(rows, r.row)]
    IN  f[from, count, <<>>]

Executed(b, p, e) ==
    IF Missing(b, p) THEN Incomplete(e)
    ELSE IF b[p] = 0 THEN WithoutRows(b, p + 1, e)
    ELSE WithRows(b, p + 1, b[p], e)

(* op_batch_cs: five numbers, the update counts, the failed records with   *)
(* their status vectors, and those without.                                *)
Vectors(b, from, count) ==
    LET f[p \in Nat, n \in Nat, errors \in Seq(Int \X Seq(Int))] ==
            LET v == Vector(b, p + 1, Blank)
            IN  IF n = 0 THEN [at |-> p, errors |-> errors]
                ELSE IF Missing(b, p) \/ v.at = 0 THEN [at |-> 0, errors |-> errors]
                ELSE f[v.at, n - 1, Append(errors, <<b[p], v.status>>)]
    IN  f[from, count, <<>>]

Completion(b, p, e) ==
    IF Missing(b, p + 4) \/ Missing(b, p + 4 + b[p + 2]) THEN Incomplete(e)
    ELSE LET from == p + 5 + b[p + 2]
             v == Vectors(b, from, b[p + 3])
             end == v.at + b[p + 4]
         IN  IF v.at = 0 \/ Missing(b, end - 1) THEN Incomplete(e)
             ELSE Out(end, [what |-> "batch", counts |-> SubSeq(b, p + 5, from - 1),
                            errors |-> v.errors, simple |-> SubSeq(b, v.at, end - 1)],
                      e)

(* What belongs to no request: op_event, op_response_piggyback.            *)
Event(b, p, e) ==
    IF Missing(b, p + 1) \/ Missing(b, AfterArray(b, p + 1) + 2)
    THEN Incomplete(e)
    ELSE Out(AfterArray(b, p + 1) + 3, Nothing, e)

Piggyback(b, p, e) == Out(ParseOpResponse(b, p, Blank).at, Nothing, e)

(* decodeResponse.  An unknown opcode is kept like an incomplete packet.   *)
Packet(b, e) ==
    LET f[p \in Nat] ==
            IF Missing(b, p) THEN Incomplete(e)
            ELSE CASE b[p] = OpDummy -> f[p + 1]
                   [] b[p] = OpInlineBlob ->
                         IF Missing(b, p + 4) THEN Incomplete(e)
                         ELSE [f[AfterArray(b, p + 4)] EXCEPT !.inline = Array(b, p + 4)]
                   [] b[p] = OpResponse -> Responses(b, p + 1, e)
                   [] b[p] = OpBatchCs -> Completion(b, p + 1, e)
                   [] b[p] = OpFetchResponse -> Fetched(b, p + 1, e)
                   [] b[p] = OpSqlResponse -> Executed(b, p + 1, e)
                   [] b[p] = OpEvent -> Event(b, p + 1, e)
                   [] b[p] = OpPiggyback -> Piggyback(b, p + 1, e)
                   [] OTHER -> Incomplete(e)
    IN  f[1]

-----------------------------------------------------------------------------
\* Mutant: lazy_count stays what the failed attempt made of it.
NotRestored(e, out) == out.entry

(* The entry after an incomplete packet: its lazy_count is restored, what  *)
(* was decoded into its response stays there.                              *)
Restored(e, out) == [out.entry EXCEPT !.lazy = e.lazy]

(* A TCP segment of n words arrives; it may hold the end of an answer and  *)
(* the start of the next.                                                  *)
Data(n) ==
    /\ buffer = <<>>
    /\ buffer' = saved \o SubSeq(wire, 1, n) /\ saved' = <<>>
    /\ wire' = SubSeq(wire, n + 1, Len(wire))
    /\ UNCHANGED <<old, sent, queue, got, inline>>

(* The loop of the 'data' handler turns once: the packet at the start of   *)
(* the buffer is kept, taken and called back, or taken for nobody.         *)
Waits == queue # <<>>

Decoded ==
    /\ buffer # <<>>
    /\ \E e \in {IF Waits THEN Head(queue) ELSE Entry(FALSE, 0)} :
       \E out \in {Packet(buffer, e)} :
          /\ inline' = IF out.inline = <<>> THEN inline ELSE out.inline
          /\ IF out.at = 0
             THEN /\ saved' = buffer /\ buffer' = <<>> /\ got' = got
                  /\ queue' = IF Waits THEN <<Restored(e, out)>> \o Tail(queue) ELSE queue
             ELSE /\ saved' = saved
                  /\ buffer' = SubSeq(buffer, out.at, Len(buffer))
                  /\ IF Waits /\ out.value # Nothing
                     THEN queue' = Tail(queue) /\ got' = Append(got, out.value)
                     ELSE UNCHANGED <<queue, got>>
    /\ UNCHANGED <<old, sent, wire>>

Next == Decoded \/ \E n \in 1..Len(wire) : Data(n)

Spec == Init /\ [][Next]_vars /\ WF_vars(Next)

-----------------------------------------------------------------------------
(* A value as the caller tells it from another: an error by its gdscode,   *)
(* the first of its status.                                                *)
Seen(v) ==
    CASE v.what = "error" -> [v EXCEPT !.status = <<Head(@)>>]
      [] v.what = "ok" -> [v EXCEPT !.warnings = ToSet(@)]
      [] OTHER -> v

(* However the stream is cut, the requests are answered in their order,    *)
(* each with the value that the server sent for it.                        *)
DecodedInOrder ==
    \A i \in 1..Len(got) : i <= Len(sent) /\ Seen(got[i]) = Seen(sent[i].value)

(* Once everything has arrived, every request is answered and no word is   *)
(* left over that would be taken for the next answer.                      *)
AllDecoded == <>(Len(got) = Len(sent) /\ wire \o saved \o buffer = <<>>)
=============================================================================
