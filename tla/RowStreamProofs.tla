-------------------------- MODULE RowStreamProofs --------------------------
(* Theorems about the rows of a query, for every cursor, fetch size and    *)
(* buffer, and whatever takes the rows.                                    *)
EXTENDS RowStream, SequenceTheorems, TLAPS

(* The rows s are the rows of the cursor that follow the first n.          *)
Follows(s, n) == \A i \in 1..Len(s) : s[i] = n + i

(* A row taken from the front of the response goes behind those given.     *)
LEMMA RowMoves ==
    ASSUME NEW g \in Seq(Nat), NEW b \in Seq(Nat), b # <<>>,
           Follows(g, 0), Follows(b, Len(g))
    PROVE  /\ Append(g, Head(b)) \in Seq(Nat) /\ Tail(b) \in Seq(Nat)
           /\ Len(Append(g, Head(b))) + Len(Tail(b)) = Len(g) + Len(b)
           /\ Follows(Append(g, Head(b)), 0)
           /\ Follows(Tail(b), Len(Append(g, Head(b))))
<1> DEFINE x == Head(b)
           u == Append(g, x)
           t == Tail(b)
<1>1. Len(g) \in Nat /\ Len(b) \in Nat \ {0}
  BY LenProperties, EmptySeq
<1>2. /\ x \in Nat /\ x = b[1] /\ t \in Seq(Nat) /\ Len(t) = Len(b) - 1
      /\ \A i \in 1..Len(t) : t[i] = b[i + 1]
  BY HeadTailProperties
<1>3. x = Len(g) + 1
  <2>1. 1 \in 1..Len(b)
    BY <1>1
  <2> QED BY <1>2, <2>1 DEF Follows
<1> HIDE DEF x, t
<1>4. /\ u \in Seq(Nat) /\ Len(u) = Len(g) + 1 /\ u[Len(g) + 1] = x
      /\ \A i \in 1..Len(g) : u[i] = g[i]
  BY <1>2, AppendProperties
<1> HIDE DEF u
<1>5. Follows(u, 0)
  <2> SUFFICES ASSUME NEW i \in 1..(Len(g) + 1) PROVE u[i] = 0 + i
    BY <1>4 DEF Follows
  <2>1. CASE i \in 1..Len(g)
    <3>1. g[i] = 0 + i
      BY <2>1 DEF Follows
    <3> QED BY <1>4, <2>1, <3>1
  <2>2. CASE i = Len(g) + 1
    BY <1>1, <1>3, <1>4, <2>2
  <2>3. i \in 1..Len(g) \/ i = Len(g) + 1
    BY <1>1
  <2> QED BY <2>1, <2>2, <2>3
<1>6. Follows(t, Len(u))
  <2> SUFFICES ASSUME NEW i \in 1..Len(t) PROVE t[i] = Len(u) + i
    BY DEF Follows
  <2>1. i + 1 \in 1..Len(b) /\ i \in Nat
    BY <1>1, <1>2
  <2>2. b[i + 1] = Len(g) + (i + 1)
    BY <2>1 DEF Follows
  <2> QED BY <1>1, <1>2, <1>4, <2>1, <2>2
<1>7. Len(u) + Len(t) = Len(g) + Len(b)
  BY <1>1, <1>2, <1>4
<1> QED BY <1>2, <1>4, <1>5, <1>6, <1>7 DEF u, t, x

-----------------------------------------------------------------------------
(* Every row that the server has sent is given or in the response, in its  *)
(* place; a loop that ended well has left none.                            *)
RowInv ==
    /\ sent \in Nat /\ given \in Seq(Nat) /\ batch \in Seq(Nat)
    /\ Len(given) + Len(batch) = sent
    /\ Follows(given, 0) /\ Follows(batch, Len(given))
    /\ fetched => sent = Rows
    /\ at = "fetch" => batch = <<>>
    /\ at = "cells" => batch # <<>>
    /\ outcome # "none" => at \in {"end", "over"}
    /\ outcome = "ok" => batch = <<>> /\ sent = Rows

(* Nothing has been fetched yet.                                           *)
LEMMA RowInit == Init => RowInv
<1> SUFFICES ASSUME Init PROVE RowInv
  OBVIOUS
<1>1. <<>> \in Seq(Nat) /\ Len(<<>>) = 0 /\ 1..0 = {}
  OBVIOUS
<1>2. \A n : Follows(<<>>, n)
  BY <1>1 DEF Follows
<1> QED BY <1>1, <1>2 DEF Init, RowInv

(* A response of n rows continues the numbering.                           *)
LEMMA ResponseFollows ==
    ASSUME NEW n \in Nat, NEW m \in Nat
    PROVE  /\ [i \in 1..n |-> m + i] \in Seq(Nat)
           /\ Len([i \in 1..n |-> m + i]) = n
           /\ Follows([i \in 1..n |-> m + i], m)
           /\ n = 0 <=> [i \in 1..n |-> m + i] = <<>>
<1> DEFINE s == [i \in 1..n |-> m + i]
<1>1. s \in [1..n -> Nat]
  OBVIOUS
<1>2. s \in Seq(Nat) /\ DOMAIN s = 1..n
  BY <1>1, SeqDef
<1>3. \A i \in 1..n : s[i] = m + i
  OBVIOUS
<1> HIDE DEF s
<1>4. Len(s) = n
  BY <1>2, LenProperties
<1> QED BY <1>2, <1>3, <1>4, EmptySeq DEF s, Follows

(* What is not about rows leaves the invariant alone.                      *)
LEMMA RowsApart ==
    ASSUME RowInv, UNCHANGED <<sent, given, batch, fetched>>,
           at' = "fetch" => batch = <<>>,
           at' = "cells" => batch # <<>>,
           outcome' # "none" => at' \in {"end", "over"},
           outcome' = "ok" => batch = <<>> /\ sent = Rows
    PROVE  RowInv'
<1>1. Follows(given, 0)' /\ Follows(batch, Len(given))'
  BY DEF RowInv, Follows
<1> QED BY <1>1 DEF RowInv

(* A row is given, or the destroyed stream ends the loop.                  *)
LEMMA GiveRowKeeps ==
    ASSUME RowInv, GiveRow, batch # <<>>, UNCHANGED <<sent, fetched>>,
           outcome = "none"
    PROVE  RowInv'
<1>1. CASE mode = "stream" /\ readable # "open"
  <2>1. at' = "end" /\ outcome' = "abort" /\ UNCHANGED <<batch, given>>
    BY <1>1 DEF GiveRow, Finish
  <2> QED BY <2>1, RowsApart
<1>2. CASE ~(mode = "stream" /\ readable # "open")
  <2>1. /\ given' = Append(given, Head(batch)) /\ batch' = Tail(batch)
        /\ at' \in {"give", "row"} /\ outcome' = "none"
    BY <1>2 DEF GiveRow
  <2>2. /\ given' \in Seq(Nat) /\ batch' \in Seq(Nat)
        /\ Len(given') + Len(batch') = sent
        /\ Follows(given', 0) /\ Follows(batch', Len(given'))
    BY <2>1, RowMoves DEF RowInv
  <2>3. Follows(given, 0)' /\ Follows(batch, Len(given))'
    BY <2>2 DEF Follows
  <2> QED BY <2>1, <2>2, <2>3 DEF RowInv
<1> QED BY <1>1, <1>2

(* Steps keep the rows in their order.                                     *)
LEMMA RowStep == RowInv /\ [Next]_vars => RowInv'
<1> SUFFICES ASSUME RowInv, [Next]_vars PROVE RowInv'
  OBVIOUS
<1>1. CASE Fetched
  <2>1. PICK n \in 0..Batch, last \in BOOLEAN :
           /\ sent + n <= Rows /\ (last => sent + n = Rows) /\ (n = 0 => last)
           /\ sent' = sent + n /\ fetched' = last
           /\ batch' = [i \in 1..n |-> sent + i]
           /\ IF n = 0 THEN Refetch(last) /\ UNCHANGED texts
              ELSE /\ texts' = IF blobs = "text" THEN n ELSE 0
                   /\ at' = IF blobs = "text" THEN "text" ELSE "give"
                   /\ UNCHANGED outcome
    BY <1>1 DEF Fetched
  <2>2. n \in Nat /\ sent \in Nat /\ given' = given
    BY <1>1, RowStreamAssumption DEF Fetched, RowInv
  <2>3. batch = <<>> /\ Len(given) = sent /\ outcome = "none"
    <3>1. at = "fetch"
      BY <1>1 DEF Fetched
    <3>2. Len(<<>>) = 0 /\ Len(given) \in Nat
      BY LenProperties DEF RowInv
    <3> QED BY <3>1, <3>2 DEF RowInv
  <2>4. /\ batch' \in Seq(Nat) /\ Len(batch') = n /\ Follows(batch', sent)
        /\ n = 0 <=> batch' = <<>>
    BY <2>1, <2>2, ResponseFollows
  <2>5. Follows(given, 0)' /\ Follows(batch, Len(given))'
    BY <2>2, <2>3, <2>4 DEF RowInv, Follows
  <2>6. CASE n = 0
    <3>1. at' = "end" /\ outcome' = "ok"
      BY <2>1, <2>6 DEF Refetch, Finish
    <3> QED BY <2>1, <2>2, <2>3, <2>4, <2>5, <2>6, <3>1 DEF RowInv
  <2>7. CASE n # 0
    <3>1. at' \in {"text", "give"} /\ outcome' = "none"
      BY <2>1, <2>3, <2>7
    <3> QED BY <2>1, <2>2, <2>3, <2>4, <2>5, <2>7, <3>1 DEF RowInv
  <2> QED BY <2>6, <2>7
<1>2. CASE FetchFailed
  BY <1>2, RowsApart DEF FetchFailed, Finish
<1>3. CASE NextText
  <2>1. /\ UNCHANGED <<sent, given, batch, fetched>>
        /\ at = "text" /\ outcome = "none"
    BY <1>3 DEF NextText, RowInv
  <2>2. \/ at' = "end" /\ outcome' = "error"
        \/ at' \in {"text", "give"} /\ outcome' = outcome
    BY <1>3 DEF NextText, Finish
  <2> QED BY <2>1, <2>2, RowsApart
<1>4. CASE Give
  <2>1. at = "give" /\ outcome = "none" /\ UNCHANGED <<sent, fetched>>
    BY <1>4 DEF Give, RowInv
  <2>2. CASE batch = <<>>
    <3>1. Refetch(fetched) /\ UNCHANGED <<batch, given>>
      BY <1>4, <2>2 DEF Give
    <3>2. CASE fetched
      BY <2>1, <2>2, <3>1, <3>2, RowsApart DEF Refetch, Finish, RowInv
    <3>3. CASE ~fetched
      BY <2>1, <2>2, <3>1, <3>3, RowsApart DEF Refetch
    <3> QED BY <3>2, <3>3
  <2>3. CASE batch # <<>> /\ Own
    <3>1. at' = "cells" /\ UNCHANGED <<outcome, batch, given>>
      BY <1>4, <2>3 DEF Give
    <3> QED BY <2>1, <2>3, <3>1, RowsApart
  <2>4. CASE batch # <<>> /\ ~Own
    BY <1>4, <2>1, <2>4, GiveRowKeeps DEF Give
  <2> QED BY <2>2, <2>3, <2>4
<1>5. CASE CellsRead
  <2>1. /\ at = "cells" /\ outcome = "none" /\ batch # <<>>
        /\ UNCHANGED <<sent, fetched>>
    BY <1>5 DEF CellsRead, RowInv
  <2>2. CASE GiveRow
    BY <2>1, <2>2, GiveRowKeeps
  <2>3. CASE ~GiveRow
    <3>1. at' = "end" /\ outcome' = "error" /\ UNCHANGED <<batch, given>>
      BY <1>5, <2>3 DEF CellsRead, Finish
    <3> QED BY <2>1, <3>1, RowsApart
  <2> QED BY <2>2, <2>3
<1>6. ASSUME NEW x \in Cells, Read(x) PROVE RowInv'
  <2>1. UNCHANGED cursor
    BY <1>6 DEF Read, ReadAnswered
  <2> QED BY <2>1, RowsApart DEF cursor, RowInv
<1>7. CASE CallbackNext
  <2>1. PICK how \in {"ok", "error"} : NextRow(how)
    BY <1>7 DEF CallbackNext
  <2>2. at = "row" /\ outcome = "none" /\ UNCHANGED <<sent, given, batch, fetched>>
    BY <1>7, <2>1 DEF CallbackNext, NextRow, RowInv
  <2>3. \/ at' = "give" /\ outcome' = outcome
        \/ at' = "end" /\ outcome' = "error"
    BY <2>1 DEF NextRow, Finish
  <2> QED BY <2>2, <2>3, RowsApart
<1>8. CASE CallbackAgain
  <2>1. UNCHANGED <<at, sent, batch, fetched, given, outcome>>
    BY <1>8 DEF CallbackAgain, FinishAgain
  <2> QED BY <2>1, RowsApart DEF RowInv
<1>9. CASE Consume
  <2>1. /\ UNCHANGED <<sent, batch, fetched, given, outcome>>
        /\ at' = IF at = "row" THEN "give" ELSE at
    BY <1>9 DEF Consume
  <2>2. CASE at = "row"
    BY <2>1, <2>2, RowsApart DEF RowInv
  <2>3. CASE at # "row"
    BY <2>1, <2>3, RowsApart DEF RowInv
  <2> QED BY <2>2, <2>3
<1>10. CASE Destroy
  <2>1. UNCHANGED <<sent, batch, fetched, given>>
    BY <1>10 DEF Destroy
  <2>2. \/ UNCHANGED <<at, outcome>>
        \/ at' = "end" /\ outcome' = "abort"
    BY <1>10 DEF Destroy, DestroyResumes, Finish
  <2>3. CASE UNCHANGED <<at, outcome>>
    BY <2>1, <2>3, RowsApart DEF RowInv
  <2>4. CASE at' = "end" /\ outcome' = "abort"
    BY <2>1, <2>4, RowsApart
  <2> QED BY <2>2, <2>3, <2>4
<1>11. CASE Complete
  <2>1. at' = "over" /\ UNCHANGED <<sent, batch, fetched, given>>
    BY <1>11 DEF Complete
  <2>2. outcome' = "ok" => outcome = "ok"
    BY <1>11 DEF Complete
  <2> QED BY <2>1, <2>2, RowsApart DEF RowInv
<1>12. CASE UNCHANGED vars
  BY <1>12, RowsApart DEF vars, cursor, RowInv
<1> QED
  BY <1>1, <1>2, <1>3, <1>4, <1>5, <1>6, <1>7, <1>8, <1>9, <1>10, <1>11, <1>12
  DEF Next

(* The inductive invariant of the rows.                                    *)
LEMMA RowInvariant == Spec => []RowInv
BY RowInit, RowStep, PTL DEF Spec

(* An array, a callback or a stream gets the rows of the cursor in their   *)
(* order and once, and all of them when it is told that it has them all.   *)
THEOREM RowStreamInOrder == Spec => []RowsInOrder
<1>1. RowInv => RowsInOrder
  <2> SUFFICES ASSUME RowInv PROVE RowsInOrder
    OBVIOUS
  <2>1. DOMAIN given = 1..Len(given) /\ Len(given) \in Nat
    BY LenProperties DEF RowInv
  <2>2. \A i \in 1..Len(given) : given[i] = i
    BY DEF RowInv, Follows
  <2>3. given \in [1..Len(given) -> Nat]
    BY LenProperties DEF RowInv
  <2>4. given = [i \in 1..Len(given) |-> i]
    BY <2>2, <2>3
  <2>5. outcome = "ok" => Len(given) = Rows
    <3>1. Len(<<>>) = 0
      OBVIOUS
    <3> QED BY <2>1, <3>1 DEF RowInv
  <2> QED BY <2>4, <2>5 DEF RowsInOrder
<1> QED BY <1>1, RowInvariant, PTL

-----------------------------------------------------------------------------
(* The buffer of the Readable.                                             *)

Room == buffered < HighWater \/ buffered = 0

(* The loop that goes on has room for the row that it gives next; one that *)
(* has filled the buffer waits.  Only a stream buffers.                    *)
BufferInv ==
    /\ buffered \in Nat /\ mode \in {"array", "callback", "stream"}
    /\ Backpressure
    /\ mode # "stream" => buffered = 0
    /\ at \in {"fetch", "text", "give", "cells"} => Room

(* A row fits where there was room.                                        *)
LEMMA GiveRowFits ==
    ASSUME BufferInv, Room, GiveRow, mode' = mode
    PROVE  BufferInv'
<1> USE RowStreamAssumption
<1>1. CASE mode = "stream" /\ readable # "open"
  BY <1>1 DEF GiveRow, Finish, BufferInv, Backpressure, Room
<1>2. CASE ~(mode = "stream" /\ readable # "open")
  <2>1. /\ buffered' = IF mode = "stream" THEN buffered + 1 ELSE buffered
        /\ at' = IF mode = "array" \/ (mode = "stream" /\ buffered' < HighWater)
                 THEN "give" ELSE "row"
    BY <1>2 DEF GiveRow, HasRoom
  <2>2. CASE mode = "stream"
    BY <2>1, <2>2 DEF BufferInv, Backpressure, Room
  <2>3. CASE mode # "stream"
    BY <2>1, <2>3 DEF BufferInv, Backpressure, Room
  <2> QED BY <2>2, <2>3
<1> QED BY <1>1, <1>2

(* The loop moves on without touching the buffer.                          *)
LEMMA BufferApart ==
    ASSUME BufferInv, UNCHANGED <<mode, buffered>>,
           at' \in {"fetch", "text", "give", "cells"} =>
               at \in {"fetch", "text", "give", "cells"} \/ mode # "stream"
    PROVE  BufferInv'
BY RowStreamAssumption DEF BufferInv, Backpressure, Room

(* Steps keep the buffer within its bounds.                                *)
LEMMA BufferStep == BufferInv /\ [Next]_vars => BufferInv'
<1> SUFFICES ASSUME BufferInv, [Next]_vars PROVE BufferInv'
  OBVIOUS
<1>1. CASE Fetched
  <2>1. at = "fetch" /\ UNCHANGED <<mode, buffered>>
    BY <1>1 DEF Fetched, stream
  <2> QED BY <2>1, BufferApart
<1>2. CASE FetchFailed
  BY <1>2, BufferApart DEF FetchFailed, stream
<1>3. CASE NextText
  BY <1>3, BufferApart DEF NextText, stream
<1>4. CASE Give
  <2>1. at = "give" /\ mode' = mode /\ Room
    BY <1>4 DEF Give, BufferInv
  <2>2. CASE batch # <<>> /\ ~Own
    BY <1>4, <2>1, <2>2, GiveRowFits DEF Give
  <2>3. CASE ~(batch # <<>> /\ ~Own)
    <3>1. buffered' = buffered
      BY <1>4, <2>3 DEF Give
    <3> QED BY <2>1, <3>1, BufferApart
  <2> QED BY <2>2, <2>3
<1>5. CASE CellsRead
  <2>1. at = "cells" /\ mode' = mode /\ Room
    BY <1>5 DEF CellsRead, BufferInv
  <2>2. CASE GiveRow
    BY <2>1, <2>2, GiveRowFits
  <2>3. CASE ~GiveRow
    <3>1. buffered' = buffered
      BY <1>5, <2>3 DEF CellsRead
    <3> QED BY <2>1, <3>1, BufferApart
  <2> QED BY <2>2, <2>3
<1>6. ASSUME NEW x \in Cells, Read(x) PROVE BufferInv'
  <2>1. UNCHANGED <<mode, cursor, stream>>
    BY <1>6 DEF Read, ReadAnswered
  <2> QED BY <2>1, BufferApart DEF cursor, stream
<1>7. CASE CallbackNext
  <2>1. PICK how \in {"ok", "error"} : NextRow(how)
    BY <1>7 DEF CallbackNext
  <2>2. mode = "callback" /\ UNCHANGED <<mode, buffered>>
    BY <1>7, <2>1 DEF CallbackNext, NextRow, stream
  <2> QED BY <2>2, BufferApart
<1>8. CASE CallbackAgain
  BY <1>8, BufferApart DEF CallbackAgain, stream
<1>9. CASE Consume
  <2>1. mode = "stream" /\ mode' = mode /\ buffered > 0 /\ buffered' = buffered - 1
    BY <1>9 DEF Consume
  <2>2. buffered' \in Nat /\ Backpressure' /\ Room'
    BY <2>1, RowStreamAssumption DEF BufferInv, Backpressure, Room
  <2> QED BY <2>1, <2>2 DEF BufferInv
<1>10. CASE Destroy
  <2>1. mode' = mode /\ buffered' = 0
    BY <1>10 DEF Destroy
  <2> QED BY <2>1, RowStreamAssumption DEF BufferInv, Backpressure, Room
<1>11. CASE Complete
  <2>1. at' = "over" /\ mode' = mode /\ buffered' \in {0, buffered}
    BY <1>11 DEF Complete, stream
  <2> QED BY <2>1, RowStreamAssumption DEF BufferInv, Backpressure, Room
<1>12. CASE UNCHANGED vars
  BY <1>12, BufferApart DEF vars, cursor, stream
<1> QED
  BY <1>1, <1>2, <1>3, <1>4, <1>5, <1>6, <1>7, <1>8, <1>9, <1>10, <1>11, <1>12
  DEF Next

(* The stream's buffer never holds more rows than its high-water mark, for *)
(* every mark, or one when the mark is 0.                                  *)
THEOREM RowStreamBackpressure == Spec => []Backpressure
<1>1. Init => BufferInv
  BY RowStreamAssumption DEF Init, BufferInv, Backpressure, Room
<1>2. BufferInv => Backpressure
  BY DEF BufferInv
<1> QED BY <1>1, <1>2, BufferStep, PTL DEF Spec
=============================================================================
