------------------------------ MODULE MCDecode ------------------------------
(* What a server sends, for TLC: every kind of answer, with and without    *)
(* the packets that belong to no request before it.  Arrays of 5 bytes     *)
(* take two words; lengths of 8 and more come sign-extended; the null      *)
(* bitmap takes three words.                                               *)
EXTENDS Decode

Columns == <<"int", "varying", "timestampTz", "text", "int64">>

Payload(n) == [i \in 1..Blocks(n) |-> OpResponse]
Bytes(n) == <<IF 2 * n >= Opaque THEN n - Opaque ELSE n>> \o Payload(n)

Reply(handle, n, vector) ==
    <<OpResponse, handle, 0, 0>> \o Bytes(n) \o vector \o <<ArgEnd>>
Fine == <<ArgGds, 0>>
Warned == Fine \o <<ArgWarning, 77>>
Failure == <<ArgGds, 321, ArgString, 5>> \o Payload(5) \o <<ArgNumber, 3, ArgGds, 345>>
Failed == [what |-> "error", status |-> <<321, 345>>]

Answer(n, warnings) ==
    [what |-> "ok", handle |-> 6, buffer |-> Payload(n), warnings |-> warnings]
Exchange(entry, words, value) == [entry |-> entry, words |-> words, value |-> value]

(* A row as it is sent: a value or Null for each column; nulls are sent as *)
(* zeros before protocol 13, in the bitmap later.                          *)
Bit(row, i) == IF i <= Len(row) /\ row[i] = Null THEN 1 ELSE 0
Bitmap(row) == <<Bit(row, 1) + 2 * Bit(row, 2), Bit(row, 3) + 2 * Bit(row, 4), Bit(row, 5)>>
Sent(type, value) ==
    CASE type = "varying" -> <<4 * Len(value)>> \o value
      [] type = "timestampTz" -> value \o <<65535>>
      [] OTHER -> value
Zeros(type) == Sent(type, CASE type \in {"varying", "text"} -> <<0>>
                            [] type \in {"timestampTz", "int64"} -> <<0, 0>>
                            [] OTHER -> <<0>>)
OldCell(type, value) ==
    IF value = Null THEN Zeros(type) \o <<1>> ELSE Sent(type, value) \o <<0>>
EncodeRow(lower, row) ==
    LET cells == [i \in 1..Len(row) |->
                    IF lower THEN OldCell(Columns[i], row[i])
                    ELSE IF row[i] = Null THEN <<>> ELSE Sent(Columns[i], row[i])]
    IN  (IF lower THEN <<>> ELSE Bitmap(row)) \o FlattenSeq(cells)

RowA == <<<<7>>, Payload(5), <<1, 2>>, <<9>>, <<0, 8>>>>
RowB == <<Null, Payload(2), Null, Null, Null>>
Header(status, count) == <<OpFetchResponse, status, count>>

Simple == Entry(FALSE, 0)
Started == Exchange(Entry(TRUE, 0), Reply(6, 0, Warned), Answer(0, <<77>>))
NotStarted == Exchange(Entry(TRUE, 0), Reply(0, 0, Failure), Failed)
Segment == Exchange(Simple, Reply(6, 9, Fine), Answer(9, <<>>))
Refused == Exchange(Simple, Reply(0, 0, Failure), Failed)
Prepared == Exchange(Entry(TRUE, 2), Reply(6, 0, Fine) \o Reply(0, 5, Fine), Answer(5, <<>>))
TwoRows(o) == Exchange(Simple,
    Header(0, 1) \o EncodeRow(o, RowA) \o Header(0, 1) \o EncodeRow(o, RowB) \o Header(100, 0),
    Rows(<<RowA, RowB>>, TRUE))
NoMore == Exchange(Simple, Header(100, 0), Rows(<<>>, TRUE))
RowError(o) == Exchange(Simple, Header(0, 1) \o EncodeRow(o, RowB) \o Reply(0, 0, Failure), Failed)
Singleton(o) == Exchange(Simple, <<OpSqlResponse, 1>> \o EncodeRow(o, RowA) \o Reply(0, 0, Fine),
                         Rows(<<RowA>>, TRUE))
NoRow == Exchange(Simple, <<OpSqlResponse, 0>> \o Reply(0, 0, Fine), Rows(<<>>, TRUE))
Violation == Exchange(Simple, <<OpSqlResponse, 0>> \o Reply(0, 0, Failure), Failed)
Batch == Exchange(Simple,
    <<OpBatchCs, 6, 3, 2, 1, 1, 1, 0, 1>> \o Failure \o <<ArgEnd, 2>>,
    [what |-> "batch", counts |-> <<1, 0>>, errors |-> <<<<1, <<321, 345>>>>>>,
     simple |-> <<2>>])

Noise == {<<>>, <<OpDummy>>, <<OpInlineBlob, 1, 0, 2>> \o Bytes(5),
          <<OpEvent, 1>> \o Bytes(5) \o <<0, 0, 1>>,
          <<OpPiggyback>> \o Tail(Reply(0, 0, Fine))}
After(noise, x) == [x EXCEPT !.words = noise \o @]

Firsts(o) == {Started, NotStarted, Segment, Refused, Prepared, TwoRows(o), NoMore,
              RowError(o), Singleton(o), NoRow, Violation, Batch}
TwoAnswers == [o \in BOOLEAN |->
    {<<x, After(n, y)>> : x \in Firsts(o), y \in {Prepared, NoRow}, n \in Noise}]
=============================================================================
