------------------------- MODULE BatchStreamProofs -------------------------
(***************************************************************************)
(* Theorems about the batch stream: types, all or nothing, what finishing  *)
(* means, and that no transaction of its own is left open.  And about      *)
(* statements and batches with their uploads (Execute): each is run once.  *)
(***************************************************************************)
EXTENDS BatchStream, SeqRemovalProofs

FlushOps == {"begin", "prepare", "batch"}
EndOps == {"commit", "rollback"}
UpTo(n) == [i \in 1..n |-> i]

(* Concatenation, kept folded: two facts about it are all that is needed.  *)
Cat(s, t) == s \o t

(* Appending no rows changes nothing.                                     *)
LEMMA CatEmpty ==
    ASSUME NEW s \in Seq(Nat) PROVE Cat(s, <<>>) = s
  BY DEF Cat

(* The row the stream takes next continues the rows written so far.       *)
LEMMA CatNextRow ==
    ASSUME NEW s \in Seq(Nat), NEW t \in Seq(Nat), NEW n \in Nat,
           Cat(s, t) = UpTo(n)
    PROVE  Cat(s, Append(t, n + 1)) = UpTo(n + 1)
<1>1. Cat(s, Append(t, n + 1)) = Append(s \o t, n + 1)
  BY DEF Cat
<1>2. s \o t = UpTo(n)
  BY DEF Cat
<1>3. UpTo(n) \in Seq(Nat) /\ Len(UpTo(n)) = n
  BY DEF UpTo
<1>4. Append(UpTo(n), n + 1) = UpTo(n + 1)
  BY <1>3 DEF UpTo
<1>. QED
  BY <1>1, <1>2, <1>4

-----------------------------------------------------------------------------

(* The answer that comes next is to a flush(), and to this request of it.  *)
Next1(op) == Len(line) > 0 /\ line[1].op = op

(* flush() has one request at a time on the line; behind it, or alone,     *)
(* there is at most the one request that ends the stream's transaction.    *)
LineShape ==
    /\ Len(line) <= 2
    /\ \A i \in 1..Len(line) :
          /\ i = 2 => line[i].op \in EndOps
          /\ ends = 0 => line[i].op \in FlushOps
          /\ line[i].op = "rollback" => state = "destroyed"
          /\ line[i].op = "commit" => i = 1 /\ Len(line) = 1
    /\ flushing \in {"write", "final"} <=> Len(line) > 0 /\ line[1].op \in FlushOps

(* Where flush() is, and what it has set up by then.                       *)
Progress ==
    /\ Next1("begin") => ~transaction /\ ends = 0
    /\ Next1("prepare") /\ state # "destroyed" => transaction
    /\ Next1("batch") => buffered = <<>> /\ (state # "destroyed" => transaction /\ statement)
    /\ state \in {"open", "ending"} /\ flushing = "nobody" => transaction = statement
    /\ transaction => ends = 0
    /\ ends = 1 => state = "destroyed" \/ flushing = "over"
    /\ flushing \in {"final", "over"} => state # "open"
    /\ state = "finished" => flushing = "over"

(* Unless something has failed, the rows written are the rows inserted,    *)
(* the rows being sent and the rows buffered, in this order.               *)
Healthy == flushing = "final" \/ (state \in {"open", "ending"} /\ flushing # "over")

NoRowLost ==
    Healthy => IF Next1("batch") THEN Cat(inserted, line[1].rows) = UpTo(written)
               ELSE Cat(inserted, buffered) = UpTo(written)

(* A commit is sent when all rows are inserted, and once.                  *)
CommitIsComplete ==
    /\ Next1("commit") => /\ inserted = UpTo(written) /\ durable = <<>>
                          /\ flushing = "over"
    /\ durable # <<>> => durable = UpTo(written) /\ state # "open" /\ ends = 1

Owned == LineShape /\ Progress /\ NoRowLost /\ CommitIsComplete

(* In the caller's transaction the stream ends nothing.                    *)
Borrowed ==
    /\ durable = <<>>
    /\ \A i \in 1..Len(line) : line[i].op \in FlushOps

BatchInv == IF owns THEN Owned ELSE Borrowed

-----------------------------------------------------------------------------
Op == {"begin", "prepare", "batch", "commit", "rollback"}
Requests == [op : Op, rows : Seq(Nat)]

(* What the stream sends is a request record.                             *)
LEMMA RequestTyped ==
    ASSUME NEW op \in Op, NEW rows \in Seq(Nat) PROVE Request(op, rows) \in Requests
  BY DEF Request, Requests

(* The empty buffer is a sequence of rows.                                *)
LEMMA NoRowsTyped == <<>> \in Seq(Nat)
  OBVIOUS

(* What the turns do to the line: it grows behind, it shrinks in front.    *)
LEMMA Grown ==
    ASSUME NEW s \in Seq(Requests), NEW r \in Requests
    PROVE  /\ Append(s, r) \in Seq(Requests) /\ Len(Append(s, r)) = Len(s) + 1
           /\ \A i \in 1..Len(s) : Append(s, r)[i] = s[i]
           /\ Append(s, r)[Len(s) + 1] = r
  OBVIOUS

(* Taking the oldest request off the line leaves the others in order.     *)
LEMMA Shrunk ==
    ASSUME NEW s \in Seq(Requests), s # <<>>
    PROVE  /\ Tail(s) \in Seq(Requests) /\ Len(Tail(s)) = Len(s) - 1
           /\ \A i \in 1..(Len(s) - 1) : Tail(s)[i] = s[i + 1]
           /\ Head(s) = s[1] /\ Head(s) \in Requests /\ Len(s) > 0
  OBVIOUS

(* A request put on an empty line is alone on it.                         *)
LEMMA OnlyOne ==
    ASSUME NEW s \in Seq(Requests), Len(s) = 0, NEW r \in Requests
    PROVE  Len(Append(s, r)) = 1 /\ Append(s, r)[1] = r
  BY Grown

(* A line of at most one request has a length the type admits.            *)
LEMMA ShortLength ==
    ASSUME NEW s \in Seq(Requests), Len(s) <= 1 PROVE Len(s) \in 0..1
<1>1. Len(s) \in Nat
  BY LenProperties
<1>2. \A n \in Nat : n <= 1 => n \in 0..1
  OBVIOUS
<1>. QED
  BY <1>1, <1>2

(* makeBatchStream starts with the declared types.                        *)
LEMMA InitTypeOK == Init => TypeOK
<1>. SUFFICES ASSUME Init PROVE TypeOK
  OBVIOUS
<1>1. line \in Seq(Requests)
  BY DEF Init
<1>2. owns \in BOOLEAN /\ transaction \in BOOLEAN /\ statement \in BOOLEAN
  BY Zenon DEF Init
<1>3. buffered \in Seq(Nat) /\ inserted \in Seq(Nat) /\ durable \in Seq(Nat)
  BY NoRowsTyped DEF Init
<1>. QED
  BY <1>1, <1>2, <1>3 DEF Init, TypeOK, Requests, Op

(* makeBatchStream starts with nothing on the line and nothing written.   *)
LEMMA InitInv == Init => BatchInv
<1>. SUFFICES ASSUME Init PROVE BatchInv
  OBVIOUS
<1>1. UpTo(0) = <<>>
  BY DEF UpTo
<1>2. Cat(inserted, buffered) = UpTo(written)
  BY <1>1, CatEmpty, NoRowsTyped DEF Init
<1>3. Len(line) = 0 /\ ends = 0 /\ durable = <<>>
  BY DEF Init
<1>4. LineShape
  BY <1>3 DEF Init, LineShape
<1>4a. transaction = statement /\ ~transaction
  BY Zenon DEF Init
<1>5. Progress
  BY <1>3, <1>4a DEF Init, Progress, Next1
<1>6. NoRowLost
  BY <1>2, <1>3 DEF NoRowLost, Next1
<1>7. CommitIsComplete
  BY <1>3 DEF CommitIsComplete, Next1
<1>8. Borrowed
  BY <1>3 DEF Borrowed
<1>. QED
  BY <1>4, <1>5, <1>6, <1>7, <1>8 DEF BatchInv, Owned

-----------------------------------------------------------------------------
(* Types.  A stream ends its transaction once because it forgets it then.  *)
LEMMA CleanupTyped ==
    ASSUME TypeOK, BatchInv, NEW how \in EndOps, NEW rest \in Seq(Requests),
           Cleanup(how, transaction, rest)
    PROVE  /\ statement' \in BOOLEAN /\ transaction' \in BOOLEAN
           /\ line' \in Seq(Requests) /\ ends' \in 0..1
<1>1. statement' \in BOOLEAN
  BY DEF Cleanup
<1>2. transaction' \in BOOLEAN
  BY Zenon DEF Cleanup, TypeOK, Ended
<1>3. line' \in Seq(Requests)
  <2>1. Request(how, <<>>) \in Requests
    BY RequestTyped, NoRowsTyped DEF EndOps, Op
  <2>. QED
    BY <2>1, Grown DEF Cleanup
<1>4. ends' \in 0..1
  BY DEF Cleanup, TypeOK, BatchInv, Owned, Progress
<1>. QED
  BY <1>1, <1>2, <1>3, <1>4

(* flush() keeps the types, at whichever of its awaits it goes on.        *)
LEMMA FlushTyped ==
    ASSUME TypeOK, NEW who \in {"write", "final"}, NEW rows \in Seq(Nat),
           Flush(who, rows)
    PROVE  /\ flushing' = who /\ transaction' \in BOOLEAN
           /\ line' \in Seq(Requests) /\ buffered' \in Seq(Nat)
<1>1. transaction' \in BOOLEAN
  BY Zenon DEF Flush
<1>2. line' \in Seq(Requests)
  <2>1. /\ Request("batch", rows) \in Requests
        /\ Request("begin", <<>>) \in Requests
        /\ Request("prepare", <<>>) \in Requests
    BY RequestTyped, NoRowsTyped DEF Op
  <2>2. line \in Seq(Requests)
    BY DEF TypeOK, Requests, Op
  <2>. QED
    BY <2>1, <2>2, Grown DEF Flush
<1>3. buffered' \in Seq(Nat)
  BY NoRowsTyped DEF Flush, Taken
<1>. QED
  BY <1>1, <1>2, <1>3 DEF Flush

(* What the turn that answers a flush() may change.                        *)
Typed(st, fl, tx, sm, ln, en) ==
    /\ st \in {"open", "ending", "finished", "destroyed"}
    /\ fl \in {"nobody", "write", "final", "over"}
    /\ tx \in BOOLEAN /\ sm \in BOOLEAN
    /\ ln \in Seq(Requests) /\ en \in 0..1

TypedNext == Typed(state', flushing', transaction', statement', line', ends')

(* final() after its last flush keeps the types, ending or finishing.     *)
LEMMA ConcludeTyped ==
    ASSUME TypeOK, BatchInv, NEW rest \in Seq(Requests), Conclude(rest)
    PROVE  TypedNext
<1>1. statement' \in BOOLEAN /\ transaction' \in BOOLEAN
      /\ line' \in Seq(Requests) /\ ends' \in 0..1
  BY CleanupTyped DEF Conclude, EndOps
<1>2. state' \in {"open", "ending", "finished", "destroyed"} /\ flushing' = "over"
  BY DEF Conclude, TypeOK
<1>. QED
  BY <1>1, <1>2 DEF TypedNext, Typed

(* destroy() keeps the types and sends one rollback at most.              *)
LEMMA DestroyedTyped ==
    ASSUME TypeOK, BatchInv, NEW rest \in Seq(Requests), Destroyed(rest)
    PROVE  /\ state' = "destroyed" /\ statement' \in BOOLEAN /\ transaction' \in BOOLEAN
           /\ line' \in Seq(Requests) /\ ends' \in 0..1
<1>1. state' = "destroyed"
  BY DEF Destroyed
<1>2. /\ statement' \in BOOLEAN /\ transaction' \in BOOLEAN
      /\ line' \in Seq(Requests) /\ ends' \in 0..1
  BY CleanupTyped DEF Destroyed, EndOps
<1>. QED
  BY <1>1, <1>2

(* An answered request leaves a typed line.                               *)
LEMMA TailTyped ==
    ASSUME TypeOK, line # <<>>
    PROVE  Tail(line) \in Seq(Requests) /\ Head(line) \in Requests
<1>1. line \in Seq(Requests)
  BY DEF TypeOK, Requests, Op
<1>. QED
  BY <1>1, Shrunk

(* A flush that is done keeps the types, of write() and of final().       *)
LEMMA ResolvedTyped ==
    ASSUME TypeOK, BatchInv, line # <<>>, Resolved PROVE TypedNext
<1>1. CASE flushing = "write" /\ flushing' = "nobody" /\ line' = Tail(line)
           /\ UNCHANGED <<state, transaction, statement, ends>>
  <2>1. transaction' \in BOOLEAN /\ statement' \in BOOLEAN
    BY <1>1, Zenon DEF TypeOK
  <2>2. state' \in {"open", "ending", "finished", "destroyed"} /\ ends' \in 0..1
    BY <1>1 DEF TypeOK
  <2>. QED
    BY <1>1, <2>1, <2>2, TailTyped DEF TypedNext, Typed
<1>2. CASE flushing = "final" /\ Conclude(Tail(line))
  BY <1>2, ConcludeTyped, TailTyped
<1>. QED
  BY <1>1, <1>2 DEF Resolved

(* A flush that fails keeps the types, of write() and of final().         *)
LEMMA RejectedTyped ==
    ASSUME TypeOK, BatchInv, line # <<>>, Rejected PROVE TypedNext
<1>1. CASE flushing' = "nobody" /\ state = "destroyed" /\ line' = Tail(line)
           /\ UNCHANGED <<state, transaction, statement, ends>>
  <2>1. transaction' \in BOOLEAN /\ statement' \in BOOLEAN
    BY <1>1, Zenon DEF TypeOK
  <2>2. state' = "destroyed" /\ ends' \in 0..1
    BY <1>1 DEF TypeOK
  <2>. QED
    BY <1>1, <2>1, <2>2, TailTyped DEF TypedNext, Typed
<1>2. CASE flushing' = "nobody" /\ Destroyed(Tail(line))
  BY <1>2, DestroyedTyped, TailTyped DEF TypedNext, Typed
<1>3. CASE flushing' = "over" /\ state' = "destroyed"
           /\ Cleanup(Failed, transaction, Tail(line))
  BY <1>3, CleanupTyped, TailTyped DEF TypedNext, Typed, Failed, EndOps
<1>. QED
  BY <1>1, <1>2, <1>3 DEF Rejected

(* No turn of the stream leaves the types.                                *)
LEMMA TypeStep == TypeOK /\ BatchInv /\ [Next]_vars => TypeOK'
<1>. SUFFICES ASSUME TypeOK, BatchInv, [Next]_vars PROVE TypeOK'
  OBVIOUS
<1>. DEFINE
    Stays == /\ owns' \in BOOLEAN /\ written' \in Nat
             /\ excuse' \subseteq {"late", "commit", "rollback"}
    Rows == buffered' \in Seq(Nat) /\ inserted' \in Seq(Nat) /\ durable' \in Seq(Nat)
    Server == server' \in {"none", "open", "ended"}
<1>0. ASSUME TypedNext, Stays, Rows, Server PROVE TypeOK'
  BY <1>0 DEF TypedNext, Typed, TypeOK, Requests, Op
<1>1. CASE Write
  <2>1. Append(buffered, written') \in Seq(Nat) /\ written' \in Nat
    BY <1>1 DEF Write, TypeOK
  <2>2. owns' \in BOOLEAN /\ statement' \in BOOLEAN
    BY <1>1, Zenon DEF Write, TypeOK
  <2>3. /\ flushing' \in {"nobody", "write"} /\ transaction' \in BOOLEAN
        /\ line' \in Seq(Requests) /\ buffered' \in Seq(Nat)
    <3>1. CASE Flush("write", Append(buffered, written'))
      BY <3>1, <2>1, FlushTyped
    <3>2. CASE /\ buffered' = Append(buffered, written')
               /\ UNCHANGED <<flushing, transaction, line>>
      <4>1. transaction' \in BOOLEAN
        BY <3>2, Zenon DEF TypeOK
      <4>2. line' \in Seq(Requests)
        BY <3>2 DEF TypeOK, Requests, Op
      <4>. QED
        BY <3>2, <2>1, <1>1, <4>1, <4>2 DEF Write
    <3>. QED
      BY <1>1, <3>1, <3>2 DEF Write
  <2>4. TypedNext
    BY <2>2, <2>3, <1>1 DEF Write, TypedNext, Typed, TypeOK
  <2>. QED
    BY <1>0, <2>1, <2>2, <2>3, <2>4, <1>1 DEF Write, TypeOK
<1>2. CASE End
  <2>1. owns' \in BOOLEAN /\ transaction' \in BOOLEAN /\ statement' \in BOOLEAN
    BY <1>2, Zenon DEF End, TypeOK
  <2>2. TypedNext
    BY <2>1, <1>2 DEF End, TypedNext, Typed, TypeOK, Requests, Op
  <2>. QED
    BY <1>0, <2>1, <2>2, <1>2 DEF End, TypeOK
<1>3. CASE Final
  <2>1. owns' \in BOOLEAN
    BY <1>3, Zenon DEF Final, TypeOK
  <2>2. CASE Conclude(line) /\ UNCHANGED buffered
    <3>1. TypedNext
      BY <2>2, ConcludeTyped DEF TypeOK, Requests, Op
    <3>. QED
      BY <1>0, <2>1, <2>2, <3>1, <1>3 DEF Final, TypeOK
  <2>3. CASE Flush("final", buffered) /\ UNCHANGED <<state, statement, ends>>
    <3>1. /\ flushing' = "final" /\ transaction' \in BOOLEAN
          /\ line' \in Seq(Requests) /\ buffered' \in Seq(Nat)
      BY <2>3, FlushTyped DEF TypeOK
    <3>2. statement' \in BOOLEAN
      BY <2>3, Zenon DEF TypeOK
    <3>3. TypedNext
      BY <2>3, <3>1, <3>2 DEF TypedNext, Typed, TypeOK
    <3>. QED
      BY <1>0, <2>1, <3>1, <3>3, <1>3 DEF Final, TypeOK
  <2>. QED
    BY <1>3, <2>2, <2>3 DEF Final
<1>4. CASE Destroy
  <2>1. owns' \in BOOLEAN
    BY <1>4, Zenon DEF Destroy, TypeOK
  <2>2. /\ state' = "destroyed" /\ statement' \in BOOLEAN /\ transaction' \in BOOLEAN
        /\ line' \in Seq(Requests) /\ ends' \in 0..1
    BY <1>4, DestroyedTyped DEF Destroy, TypeOK, Requests, Op
  <2>3. TypedNext
    BY <2>2, <1>4 DEF Destroy, TypedNext, Typed, TypeOK
  <2>. QED
    BY <1>0, <2>1, <2>3, <1>4 DEF Destroy, TypeOK
<1>5. CASE Answer
  <2>0. line # <<>> /\ written' = written /\ owns' \in BOOLEAN
    <3>1. owns' \in BOOLEAN
      BY <1>5, Zenon DEF Answer, TypeOK
    <3>. QED
      BY <3>1, <1>5 DEF Answer
  <2>r. Head(line) \in Requests /\ Tail(line) \in Seq(Requests)
    BY <2>0, TailTyped
  <2>. PICK ok \in BOOLEAN :
          \/ /\ Head(line).op = "begin" /\ Begun(ok)
             /\ UNCHANGED <<buffered, inserted, durable>>
          \/ /\ Head(line).op = "prepare" /\ Prepared(ok)
             /\ UNCHANGED <<server, inserted, durable, excuse>>
          \/ /\ Head(line).op = "batch" /\ Executed(Head(line).rows, ok)
             /\ UNCHANGED <<buffered, server, durable, excuse>>
          \/ /\ Head(line).op \in {"commit", "rollback"}
             /\ Concluded(Head(line).op, ok) /\ UNCHANGED buffered
    BY <1>5 DEF Answer
  <2>1. CASE Head(line).op = "begin" /\ Begun(ok) /\ UNCHANGED <<buffered, inserted, durable>>
    <3>1. CASE ok
      <4>1. line' = Append(Tail(line), Request("prepare", <<>>))
        BY <2>1, <3>1 DEF Begun
      <4>2. line' \in Seq(Requests)
        BY <4>1, <2>r, Grown, RequestTyped, NoRowsTyped DEF Op
      <4>3. transaction' \in BOOLEAN /\ statement' \in BOOLEAN
        BY <2>1, <3>1, Zenon DEF Begun, TypeOK
      <4>4. TypedNext
        BY <4>2, <4>3, <2>1, <3>1 DEF Begun, TypedNext, Typed, TypeOK
      <4>. QED
        BY <1>0, <2>0, <4>4, <2>1, <3>1 DEF Begun, TypeOK
    <3>2. CASE ~ok
      <4>1. Rejected /\ UNCHANGED <<server, excuse>>
        BY <2>1, <3>2 DEF Begun
      <4>. QED
        BY <1>0, <2>0, <2>1, <4>1, RejectedTyped DEF TypeOK
    <3>. QED
      BY <3>1, <3>2
  <2>2. CASE Head(line).op = "prepare" /\ Prepared(ok)
             /\ UNCHANGED <<server, inserted, durable, excuse>>
    <3>1. CASE ok /\ transaction
      <4>1. line' = Append(Tail(line), Request("batch", buffered))
        BY <2>2, <3>1 DEF Prepared
      <4>2. line' \in Seq(Requests)
        BY <4>1, <2>r, Grown, RequestTyped DEF Op, TypeOK
      <4>3. transaction' \in BOOLEAN /\ statement' \in BOOLEAN
        BY <2>2, <3>1, Zenon DEF Prepared, TypeOK
      <4>4. TypedNext
        BY <4>2, <4>3, <2>2, <3>1 DEF Prepared, TypedNext, Typed, TypeOK
      <4>. QED
        BY <1>0, <2>0, <4>4, <2>2, <3>1, NoRowsTyped DEF Prepared, TypeOK, Taken
    <3>2. CASE ~(ok /\ transaction)
      <4>1. Rejected /\ UNCHANGED buffered
        BY <2>2, <3>2 DEF Prepared
      <4>. QED
        BY <1>0, <2>0, <2>2, <4>1, RejectedTyped DEF TypeOK
    <3>. QED
      BY <3>1, <3>2
  <2>3. CASE Head(line).op = "batch" /\ Executed(Head(line).rows, ok)
             /\ UNCHANGED <<buffered, server, durable, excuse>>
    <3>1. Head(line).rows \in Seq(Nat)
      BY <2>r DEF Requests
    <3>2. TypedNext
      BY <2>3, <2>0, ResolvedTyped, RejectedTyped DEF Executed
    <3>3. inserted' \in Seq(Nat)
      <4>1. CASE inserted' = inserted \o Head(line).rows
        BY <4>1, <3>1 DEF TypeOK
      <4>2. ASSUME NEW k \in 0..(Len(Head(line).rows) - 1),
                   inserted' = inserted \o SubSeq(Head(line).rows, 1, k)
            PROVE  inserted' \in Seq(Nat)
        <5>1. SubSeq(Head(line).rows, 1, k) \in Seq(Nat)
          BY <3>1
        <5>. QED
          BY <5>1, <4>2 DEF TypeOK
      <4>. QED
        BY <4>1, <4>2, <2>3 DEF Executed
    <3>. QED
      BY <1>0, <2>0, <3>2, <3>3, <2>3 DEF TypeOK
  <2>4. CASE /\ Head(line).op \in {"commit", "rollback"}
             /\ Concluded(Head(line).op, ok) /\ UNCHANGED buffered
    <3>1. transaction' \in BOOLEAN /\ statement' \in BOOLEAN
      BY <2>4, Zenon DEF Concluded, TypeOK
    <3>2. TypedNext
      BY <2>4, <2>r, <3>1 DEF Concluded, Outcome, TypedNext, Typed, TypeOK
    <3>3. inserted' \in Seq(Nat) /\ durable' \in Seq(Nat)
      <4>1. durable \o inserted \in Seq(Nat)
        BY DEF TypeOK
      <4>2. CASE ok
        BY <2>4, <4>1, <4>2, NoRowsTyped DEF Concluded, TypeOK
      <4>3. CASE ~ok
        BY <2>4, <4>3 DEF Concluded, TypeOK
      <4>. QED
        BY <4>2, <4>3
    <3>. QED
      BY <1>0, <2>0, <3>2, <3>3, <2>4 DEF Concluded, TypeOK
  <2>. QED
    BY <2>1, <2>2, <2>3, <2>4
<1>6. CASE UNCHANGED vars
  <2>1. owns' \in BOOLEAN /\ transaction' \in BOOLEAN /\ statement' \in BOOLEAN
    BY <1>6, Zenon DEF vars, client, TypeOK
  <2>. QED
    BY <2>1, <1>6 DEF vars, client, TypeOK
<1>. QED
  BY <1>1, <1>2, <1>3, <1>4, <1>5, <1>6 DEF Next

-----------------------------------------------------------------------------
(* All or nothing.  First the parts that several turns have in common.     *)
LineTyped == line \in Seq(Requests)

(* The line is a sequence of request records.                             *)
LEMMA LineIsTyped == TypeOK => LineTyped
  BY DEF TypeOK, LineTyped, Requests, Op

(* Between two writes nothing is on the line and nothing has been ended.  *)
LEMMA NothingAsked ==
    ASSUME TypeOK, Owned, flushing = "nobody", state \in {"open", "ending"}
    PROVE  ends = 0 /\ Len(line) = 0 /\ durable = <<>>
<1>1. ends = 0
  BY DEF Owned, Progress, TypeOK
<1>2. durable = <<>>
  BY <1>1 DEF Owned, CommitIsComplete
<1>3. ~(Len(line) > 0)
  <2>1. Len(line) > 0 => line[1].op \in FlushOps
    <3>1. Len(line) \in Nat /\ (Len(line) > 0 => 1 \in 1..Len(line))
      BY LineIsTyped DEF LineTyped
    <3>. QED
      BY <1>1, <3>1 DEF Owned, LineShape
  <2>. QED
    BY <2>1 DEF Owned, LineShape
<1>4. Len(line) \in Nat
  BY LineIsTyped DEF LineTyped
<1>. QED
  BY <1>1, <1>2, <1>3, <1>4

(* flush() keeps the rows accounted for: what it takes off the buffer it  *)
(* sends.                                                                 *)
LEMMA FlushKeeps ==
    ASSUME TypeOK, Owned, owns, owns', NEW who \in {"write", "final"},
           NEW rows \in Seq(Nat), Flush(who, rows),
           flushing = "nobody", state \in {"open", "ending"},
           who = "final" => state = "ending",
           UNCHANGED <<state, statement, inserted, durable, ends>>,
           Cat(inserted, rows) = UpTo(written')
    PROVE  Owned'
<1>. DEFINE r == IF statement THEN Request("batch", rows) ELSE Request("begin", <<>>)
<1>1. ends = 0 /\ Len(line) = 0 /\ durable = <<>>
  BY NothingAsked
<1>2. line' = Append(line, r) /\ r \in Requests
  <2>1. r \in Requests
    BY RequestTyped, NoRowsTyped DEF Op
  <2>2. CASE statement
    BY <2>1, <2>2 DEF Flush
  <2>3. CASE ~statement
    BY <2>1, <2>3 DEF Flush
  <2>. QED
    BY <2>2, <2>3
<1>3. Len(line') = 1 /\ line'[1] = r
  BY <1>1, <1>2, LineIsTyped, Grown DEF LineTyped
<1>4. r.op = (IF statement THEN "batch" ELSE "begin") /\ (statement => r.rows = rows)
  BY DEF Request
<1>5. /\ flushing' = who /\ buffered' = IF statement THEN <<>> ELSE rows
      /\ statement => transaction
      /\ ~statement => ~transaction
      /\ transaction <=> transaction'
  <2>1. flushing' = who /\ buffered' = IF statement THEN <<>> ELSE rows
    BY DEF Flush, Taken
  <2>2. transaction = statement
    BY DEF Owned, Progress
  <2>3. transaction <=> transaction'
    BY Zenon DEF Flush
  <2>. QED
    BY <2>1, <2>2, <2>3
<1>. HIDE DEF r
<1>6. LineShape'
  BY <1>1, <1>3, <1>4, <1>5 DEF LineShape, FlushOps, EndOps
<1>7. Progress'
  BY <1>1, <1>3, <1>4, <1>5 DEF Progress, Next1
<1>8. NoRowLost'
  BY <1>3, <1>4, <1>5 DEF NoRowLost, Next1
<1>9. CommitIsComplete'
  BY <1>1, <1>3, <1>4 DEF CommitIsComplete, Next1
<1>. QED
  BY <1>6, <1>7, <1>8, <1>9 DEF Owned

(* What is left on the line when the answer to a flush() was taken off.    *)
Rest(rest) ==
    /\ rest \in Seq(Requests) /\ Len(rest) <= 1
    /\ \A i \in 1..Len(rest) : rest[i].op = "rollback" /\ state = "destroyed"
    /\ ends = 0 => Len(rest) = 0

(* Behind the answered request of a flush nothing waits but the rollback  *)
(* of destroy().                                                          *)
LEMMA TailIsRest ==
    ASSUME TypeOK, Owned, line # <<>>, line[1].op \in FlushOps
    PROVE  Rest(Tail(line))
<1>1. /\ Tail(line) \in Seq(Requests) /\ Len(Tail(line)) = Len(line) - 1
      /\ \A i \in 1..(Len(line) - 1) : Tail(line)[i] = line[i + 1]
      /\ Len(line) \in Nat
  BY LineIsTyped, Shrunk DEF LineTyped
<1>2. Len(line) <= 2
  BY DEF Owned, LineShape
<1>3. ASSUME NEW i \in 1..Len(Tail(line))
      PROVE  Tail(line)[i].op = "rollback" /\ state = "destroyed" /\ ends # 0
  <2>1. i = 1 /\ Len(line) = 2 /\ Tail(line)[i] = line[2]
    BY <1>1, <1>2, <1>3
  <2>2. line[2].op \in EndOps
    BY <2>1 DEF Owned, LineShape
  <2>3. line[2].op # "commit" /\ line[2].op \notin FlushOps
    BY <2>1, <2>2 DEF Owned, LineShape, FlushOps, EndOps
  <2>. QED
    BY <2>1, <2>2, <2>3 DEF Owned, LineShape, EndOps
<1>. QED
  BY <1>1, <1>2, <1>3 DEF Rest

(* final() commits after its last flush, when every row written is        *)
(* inserted.                                                              *)
LEMMA ConcludeKeeps ==
    ASSUME TypeOK, Owned, owns, owns', NEW rest, Rest(rest), Conclude(rest),
           state # "open", state # "finished", flushing # "over",
           written' = written, durable' = durable, inserted' = UpTo(written)
    PROVE  Owned'
<1>1. ends = 1 => state = "destroyed"
  BY DEF Owned, Progress
<1>2. CASE transaction
  <2>1. ends = 0 /\ Len(rest) = 0 /\ durable = <<>>
    BY <1>2 DEF Owned, Progress, Rest, CommitIsComplete
  <2>2. /\ line' = Append(rest, Request("commit", <<>>)) /\ ends' = 1
        /\ flushing' = "over" /\ state' = state
    BY <1>2, <2>1 DEF Conclude, Cleanup
  <2>3. ~transaction'
    BY <1>2, Zenon DEF Conclude, Cleanup, Ended
  <2>4. Request("commit", <<>>) \in Requests /\ Request("commit", <<>>).op = "commit"
    BY RequestTyped, NoRowsTyped DEF Request, Op
  <2>5. Len(line') = 1 /\ line'[1].op = "commit"
    BY <2>1, <2>2, <2>4, Grown DEF Rest
  <2>6. LineShape'
    BY <2>2, <2>5 DEF LineShape, FlushOps
  <2>7. Progress'
    BY <2>2, <2>3, <2>5 DEF Progress, Next1
  <2>8. NoRowLost'
    BY <2>2 DEF NoRowLost, Healthy
  <2>9. CommitIsComplete'
    BY <2>1, <2>2, <2>5 DEF CommitIsComplete, Next1
  <2>. QED
    BY <2>6, <2>7, <2>8, <2>9 DEF Owned
<1>3. CASE ~transaction
  <2>1. /\ line' = rest /\ ends' = ends /\ flushing' = "over"
        /\ state' = IF state = "ending" THEN "finished" ELSE state
    BY <1>3 DEF Conclude, Cleanup
  <2>2. ~transaction'
    BY <1>3, Zenon DEF Conclude, Cleanup
  <2>3. \A i \in 1..Len(line') : line'[i].op = "rollback" /\ state' = "destroyed" /\ ends # 0
    BY <2>1 DEF Rest
  <2>4. LineShape'
    BY <2>1, <2>3 DEF LineShape, Rest, FlushOps, EndOps
  <2>5. Progress'
    BY <2>1, <2>2, <2>3 DEF Progress, Next1
  <2>6. NoRowLost'
    BY <2>1 DEF NoRowLost, Healthy
  <2>7. CommitIsComplete'
    BY <2>1, <2>3 DEF CommitIsComplete, Next1, Owned
  <2>. QED
    BY <2>4, <2>5, <2>6, <2>7 DEF Owned
<1>. QED
  BY <1>2, <1>3

(* A cleanup() that does not commit, at any moment.                        *)
LEMMA RolledBack ==
    ASSUME TypeOK, Owned, owns, NEW rest \in Seq(Requests),
           Cleanup("rollback", transaction, rest)
    PROVE  /\ ~transaction'
           /\ IF transaction
              THEN /\ ends' = 1 /\ Len(line') = Len(rest) + 1
                   /\ \A i \in 1..Len(rest) : line'[i] = rest[i]
                   /\ line'[Len(rest) + 1].op = "rollback"
              ELSE ends' = ends /\ line' = rest
<1>1. Request("rollback", <<>>) \in Requests /\ Request("rollback", <<>>).op = "rollback"
  BY RequestTyped, NoRowsTyped DEF Request, Op
<1>2. CASE transaction
  <2>1. ~transaction'
    BY <1>2, Zenon DEF Cleanup, Ended
  <2>2. ends = 0 /\ ends' = ends + 1 /\ line' = Append(rest, Request("rollback", <<>>))
    BY <1>2 DEF Owned, Progress, Cleanup
  <2>. QED
    BY <1>1, <1>2, <2>1, <2>2, Grown
<1>3. CASE ~transaction
  <2>1. ~transaction'
    BY <1>3, Zenon DEF Cleanup
  <2>. QED
    BY <1>3, <2>1 DEF Cleanup
<1>. QED
  BY <1>2, <1>3

(* destroy() keeps the invariant, whichever request is on the line.       *)
LEMMA DestroyKeeps ==
    ASSUME TypeOK, Owned, owns, owns', Destroy PROVE Owned'
<1>1. /\ Cleanup("rollback", transaction, line) /\ state' = "destroyed"
      /\ UNCHANGED <<written, buffered, flushing, inserted, durable>>
      /\ state \in {"open", "ending"}
  BY DEF Destroy, Destroyed
<1>2. line \in Seq(Requests) /\ Len(line) \in Nat
  BY LineIsTyped DEF LineTyped
<1>3. CASE transaction
  <2>1. ends = 0 /\ \A i \in 1..Len(line) : line[i].op \in FlushOps
    BY <1>3 DEF Owned, LineShape, Progress
  <2>2. Len(line) <= 1 /\ durable = <<>>
    BY <2>1, <1>2 DEF Owned, LineShape, CommitIsComplete, FlushOps, EndOps
  <2>3. /\ ~transaction' /\ ends' = 1 /\ Len(line') = Len(line) + 1
        /\ \A i \in 1..Len(line) : line'[i] = line[i]
        /\ line'[Len(line) + 1].op = "rollback"
    BY <1>1, <1>2, <1>3, RolledBack
  <2>4. LineShape'
    BY <1>1, <1>2, <2>1, <2>2, <2>3 DEF LineShape, Owned, FlushOps, EndOps
  <2>5. Progress'
    BY <1>1, <1>2, <1>3, <2>1, <2>2, <2>3 DEF Progress, Next1, Owned, LineShape, FlushOps
  <2>6. NoRowLost'
    BY <1>1, <1>2, <2>2, <2>3 DEF NoRowLost, Next1, Healthy, Owned
  <2>7. CommitIsComplete'
    BY <1>1, <1>2, <2>1, <2>2, <2>3 DEF CommitIsComplete, Next1, FlushOps
  <2>. QED
    BY <2>4, <2>5, <2>6, <2>7 DEF Owned
<1>4. CASE ~transaction
  <2>1. ~transaction' /\ ends' = ends /\ line' = line
    BY <1>1, <1>2, <1>4, RolledBack
  <2>2. LineShape'
    BY <1>1, <2>1 DEF LineShape, Owned
  <2>3. Progress'
    BY <1>1, <1>4, <2>1 DEF Progress, Next1, Owned
  <2>4. NoRowLost'
    BY <1>1, <2>1 DEF NoRowLost, Next1, Healthy, Owned
  <2>5. CommitIsComplete'
    BY <1>1, <2>1 DEF CommitIsComplete, Next1, Owned
  <2>. QED
    BY <2>2, <2>3, <2>4, <2>5 DEF Owned
<1>. QED
  BY <1>3, <1>4

(* A failing flush keeps the invariant: the stream rolls back or fails.   *)
LEMMA RejectedKeeps ==
    ASSUME TypeOK, Owned, owns, owns', line # <<>>, line[1].op \in FlushOps,
           Rejected, written' = written, durable' = durable
    PROVE  Owned'
<1>. DEFINE rest == Tail(line)
<1>1. Rest(rest)
  BY TailIsRest
<1>2. /\ state' = "destroyed" /\ flushing' \in {"nobody", "over"}
      /\ \/ /\ state = "destroyed" /\ line' = rest
            /\ UNCHANGED <<transaction, statement, ends>>
         \/ Cleanup("rollback", transaction, rest)
  BY DEF Rejected, Destroyed, Failed
<1>. HIDE DEF rest
<1>3. /\ Len(line') \in 0..1 /\ ends' \in 0..1 /\ (transaction' => ends' = 0)
      /\ \A i \in 1..Len(line') : line'[i].op = "rollback" /\ ends' = 1
      /\ durable # <<>> => ends' = 1
  <2>0. /\ ends \in 0..1 /\ (transaction => ends = 0) /\ (durable # <<>> => ends = 1)
    BY DEF TypeOK, Owned, Progress, CommitIsComplete
  <2>r. /\ Len(rest) \in 0..1 /\ (Len(rest) = 1 => ends = 1)
        /\ \A i \in 1..Len(rest) : rest[i].op = "rollback"
    <3>1. rest \in Seq(Requests) /\ Len(rest) <= 1
      BY <1>1 DEF Rest
    <3>2. Len(rest) \in 0..1
      BY <3>1, ShortLength
    <3>3. Len(rest) = 1 => ends = 1
      BY <2>0, <1>1 DEF Rest
    <3>4. \A i \in 1..Len(rest) : rest[i].op = "rollback"
      BY <1>1 DEF Rest
    <3>. QED
      BY <3>2, <3>3, <3>4
  <2>1. CASE line' = rest /\ UNCHANGED <<transaction, statement, ends>>
    <3>1. transaction' => ends' = 0
      BY <2>0, <2>1
    <3>. QED
      BY <2>0, <2>r, <2>1, <3>1
  <2>2. CASE Cleanup("rollback", transaction, rest) /\ transaction
    <3>1. /\ ~transaction' /\ ends' = 1 /\ Len(line') = Len(rest) + 1
          /\ line'[Len(rest) + 1].op = "rollback"
      BY <2>2, <1>1, RolledBack DEF Rest
    <3>2. Len(rest) = 0
      BY <2>2, <2>0, <2>r
    <3>. QED
      BY <3>1, <3>2
  <2>3. CASE Cleanup("rollback", transaction, rest) /\ ~transaction
    <3>1. ~transaction' /\ ends' = ends /\ line' = rest
      BY <2>3, <1>1, RolledBack DEF Rest
    <3>. QED
      BY <2>0, <2>r, <3>1
  <2>. QED
    BY <1>2, <2>1, <2>2, <2>3
<1>4. LineShape'
  BY <1>2, <1>3 DEF LineShape, FlushOps, EndOps
<1>5. Progress'
  <2>1. state # "open" \/ flushing' # "over" \/ state' # "open"
    BY <1>2
  <2>. QED
    BY <1>2, <1>3, <2>1 DEF Progress, Next1
<1>6. NoRowLost'
  BY <1>2 DEF NoRowLost, Healthy
<1>7. CommitIsComplete'
  BY <1>2, <1>3 DEF CommitIsComplete, Next1, Owned
<1>. QED
  BY <1>4, <1>5, <1>6, <1>7 DEF Owned

(* A flush that is done keeps the invariant, whether final() waits for it *)
(* or not.                                                                *)
LEMMA ResolvedKeeps ==
    ASSUME TypeOK, Owned, owns, owns', line # <<>>, line[1].op = "batch",
           Resolved, UNCHANGED <<written, buffered, durable>>,
           inserted' = Cat(inserted, line[1].rows)
    PROVE  Owned'
<1>1. Rest(Tail(line)) /\ flushing \in {"write", "final"} /\ Next1("batch")
      /\ Len(line) > 0
  <2>1. Len(line) > 0
    BY LineIsTyped, Shrunk DEF LineTyped
  <2>. QED
    BY <2>1, TailIsRest DEF Owned, LineShape, FlushOps, Next1
<1>2. buffered = <<>>
  BY <1>1 DEF Owned, Progress
<1>3. Healthy => inserted' = UpTo(written)
  BY <1>1 DEF Owned, NoRowLost
<1>4. CASE flushing = "final" /\ Conclude(Tail(line))
  <2>1. inserted' = UpTo(written)
    BY <1>3, <1>4 DEF Healthy
  <2>2. state # "open" /\ state # "finished"
    BY <1>4 DEF Owned, Progress
  <2>. QED
    BY <1>1, <1>4, <2>1, <2>2, ConcludeKeeps
<1>5. CASE /\ flushing = "write" /\ flushing' = "nobody" /\ line' = Tail(line)
           /\ UNCHANGED <<state, transaction, statement, ends>>
  <2>1. \A i \in 1..Len(line') : line'[i].op = "rollback" /\ state' = "destroyed" /\ ends' # 0
    BY <1>1, <1>5 DEF Rest
  <2>2. LineShape'
    BY <1>1, <1>5, <2>1 DEF LineShape, Rest, FlushOps, EndOps
  <2>3. Progress'
    <3>1. state # "destroyed" => transaction /\ statement
      BY <1>1 DEF Owned, Progress
    <3>2. state' \in {"open", "ending"} => transaction' = statement'
      <4>1. state # "destroyed" => transaction = statement
        BY <3>1, Zenon DEF TypeOK
      <4>. QED
        BY <1>5, <4>1
    <3>3. transaction' => ends' = 0
      BY <1>5 DEF Owned, Progress
    <3>. QED
      BY <1>5, <2>1, <3>2, <3>3 DEF Progress, Next1, Owned
  <2>4. NoRowLost'
    <3>1. ~Next1("batch")'
      BY <2>1 DEF Next1
    <3>2. Healthy' => Healthy
      BY <1>5 DEF Healthy
    <3>3. inserted' \in Seq(Nat) \/ ~Healthy
      <4>1. UpTo(written) \in Seq(Nat)
        BY DEF UpTo, TypeOK
      <4>. QED
        BY <4>1, <1>3
    <3>. QED
      BY <1>2, <1>3, <3>1, <3>2, <3>3, CatEmpty DEF NoRowLost
  <2>5. CommitIsComplete'
    <3>1. ~Next1("commit")'
      BY <2>1 DEF Next1
    <3>2. durable # <<>> => durable = UpTo(written) /\ state # "open" /\ ends = 1
      BY DEF Owned, CommitIsComplete
    <3>. QED
      BY <1>5, <3>1, <3>2 DEF CommitIsComplete
  <2>. QED
    BY <2>2, <2>3, <2>4, <2>5 DEF Owned
<1>. QED
  BY <1>4, <1>5 DEF Resolved

(* Each answer of the connection keeps the invariant.                     *)
LEMMA AnswerKeeps ==
    ASSUME TypeOK, Owned, owns, owns', Answer PROVE Owned'
<1>0. /\ line # <<>> /\ written' = written /\ Head(line) = line[1]
      /\ line[1] \in Requests /\ line \in Seq(Requests) /\ Len(line) > 0
  BY LineIsTyped, Shrunk DEF Answer, LineTyped
<1>. PICK ok \in BOOLEAN :
        \/ /\ line[1].op = "begin" /\ Begun(ok)
           /\ UNCHANGED <<buffered, inserted, durable>>
        \/ /\ line[1].op = "prepare" /\ Prepared(ok)
           /\ UNCHANGED <<server, inserted, durable, excuse>>
        \/ /\ line[1].op = "batch" /\ Executed(line[1].rows, ok)
           /\ UNCHANGED <<buffered, server, durable, excuse>>
        \/ /\ line[1].op \in {"commit", "rollback"}
           /\ Concluded(line[1].op, ok) /\ UNCHANGED buffered
  BY <1>0 DEF Answer
<1>1. CASE line[1].op = "begin" /\ Begun(ok) /\ UNCHANGED <<buffered, inserted, durable>>
  <2>1. CASE ok
    <3>1. ends = 0 /\ ~transaction /\ durable = <<>>
      BY <1>0, <1>1 DEF Owned, Progress, CommitIsComplete, Next1
    <3>2. Len(Tail(line)) = 0 /\ Tail(line) \in Seq(Requests)
      BY <1>0, <1>1, <3>1, TailIsRest DEF Rest, FlushOps
    <3>3. /\ transaction' /\ line' = Append(Tail(line), Request("prepare", <<>>))
          /\ UNCHANGED <<state, flushing, statement, ends>>
      BY <1>1, <2>1, Zenon DEF Begun
    <3>4. Request("prepare", <<>>) \in Requests /\ Request("prepare", <<>>).op = "prepare"
      BY RequestTyped, NoRowsTyped DEF Request, Op
    <3>5. Len(line') = 1 /\ line'[1].op = "prepare"
      BY <3>2, <3>3, <3>4, OnlyOne
    <3>6. flushing \in {"write", "final"}
      BY <1>0, <1>1 DEF Owned, LineShape, FlushOps
    <3>7. LineShape'
      BY <3>3, <3>5, <3>6 DEF LineShape, FlushOps, EndOps
    <3>8. Progress'
      BY <1>1, <3>1, <3>3, <3>5, <3>6 DEF Progress, Next1, Owned
    <3>9. NoRowLost'
      BY <1>0, <1>1, <3>3, <3>5 DEF NoRowLost, Next1, Healthy, Owned
    <3>10. CommitIsComplete'
      BY <1>1, <3>1, <3>5 DEF CommitIsComplete, Next1
    <3>. QED
      BY <3>7, <3>8, <3>9, <3>10 DEF Owned
  <2>2. CASE ~ok
    BY <1>0, <1>1, <2>2, RejectedKeeps DEF Begun, FlushOps
  <2>. QED
    BY <2>1, <2>2
<1>2. CASE line[1].op = "prepare" /\ Prepared(ok)
           /\ UNCHANGED <<server, inserted, durable, excuse>>
  <2>1. CASE ok /\ transaction
    <3>1. ends = 0 /\ durable = <<>>
      BY <2>1 DEF Owned, Progress, CommitIsComplete
    <3>2. Len(Tail(line)) = 0 /\ Tail(line) \in Seq(Requests)
      BY <1>0, <1>2, <3>1, TailIsRest DEF Rest, FlushOps
    <3>3. /\ line' = Append(Tail(line), Request("batch", buffered))
          /\ buffered' = <<>> /\ UNCHANGED <<state, flushing, ends>>
      BY <1>2, <2>1 DEF Prepared, Taken
    <3>4. statement' /\ transaction'
      BY <1>2, <2>1, Zenon DEF Prepared
    <3>5. /\ Request("batch", buffered) \in Requests
          /\ Request("batch", buffered).op = "batch"
          /\ Request("batch", buffered).rows = buffered
      BY RequestTyped DEF Request, Op, TypeOK
    <3>6. Len(line') = 1 /\ line'[1].op = "batch" /\ line'[1].rows = buffered
      BY <3>2, <3>3, <3>5, OnlyOne
    <3>7. flushing \in {"write", "final"}
      BY <1>0, <1>2 DEF Owned, LineShape, FlushOps
    <3>8. LineShape'
      BY <3>3, <3>6, <3>7 DEF LineShape, FlushOps, EndOps
    <3>9. Progress'
      BY <1>2, <3>1, <3>3, <3>4, <3>6, <3>7 DEF Progress, Next1, Owned
    <3>10. NoRowLost'
      BY <1>0, <1>2, <3>3, <3>6 DEF NoRowLost, Next1, Healthy, Owned
    <3>11. CommitIsComplete'
      BY <1>2, <3>1, <3>6 DEF CommitIsComplete, Next1
    <3>. QED
      BY <3>8, <3>9, <3>10, <3>11 DEF Owned
  <2>2. CASE ~(ok /\ transaction)
    BY <1>0, <1>2, <2>2, RejectedKeeps DEF Prepared, FlushOps
  <2>. QED
    BY <2>1, <2>2
<1>3. CASE line[1].op = "batch" /\ Executed(line[1].rows, ok)
           /\ UNCHANGED <<buffered, server, durable, excuse>>
  <2>1. CASE Resolved /\ inserted' = inserted \o line[1].rows
    BY <1>0, <1>3, <2>1, ResolvedKeeps DEF Cat
  <2>2. CASE Rejected
    BY <1>0, <1>3, <2>2, RejectedKeeps DEF FlushOps
  <2>. QED
    BY <1>3, <2>1, <2>2 DEF Executed
<1>4. CASE /\ line[1].op \in {"commit", "rollback"}
           /\ Concluded(line[1].op, ok) /\ UNCHANGED buffered
  <2>0. Len(line) = 1 \/ Len(line) = 2
    <3>1. Len(line) \in Nat /\ Len(line) > 0 /\ Len(line) <= 2
      BY <1>0, LenProperties DEF Owned, LineShape
    <3>2. \A n \in Nat : n > 0 /\ n <= 2 => n = 1 \/ n = 2
      OBVIOUS
    <3>. QED
      BY <3>1, <3>2
  <2>1. /\ line' = Tail(line) /\ UNCHANGED <<flushing, transaction, statement, ends>>
        /\ Len(line') = Len(line) - 1 /\ Len(line) \in Nat
        /\ \A i \in 1..(Len(line) - 1) : line'[i] = line[i + 1]
    BY <1>0, <1>4, Shrunk DEF Concluded
  <2>2. ends = 1 /\ flushing \notin {"write", "final"}
    BY <1>0, <1>4 DEF Owned, LineShape, FlushOps, TypeOK
  <2>3. CASE line[1].op = "rollback"
    <3>1. state = "destroyed" /\ state' = "destroyed" /\ durable' = durable
      BY <1>0, <1>4, <2>3 DEF Owned, LineShape, Concluded
    <3>2. /\ Len(line') = 0 \/ Len(line') = 1
          /\ \A i \in 1..Len(line') : line'[i].op = "rollback"
      <4>1. ASSUME NEW i \in 1..Len(line') PROVE line'[i].op = "rollback"
        <5>1. i = 1 /\ Len(line) = 2 /\ line'[i] = line[2]
          <6>1. Len(line) = 1 => Len(line') = 0
            BY <2>1
          <6>2. Len(line) = 2 => Len(line') = 1
            BY <2>1
          <6>3. Len(line) = 2 /\ i = 1
            BY <6>1, <6>2, <2>0
          <6>4. line'[1] = line[1 + 1]
            BY <6>3, <2>1
          <6>. QED
            BY <6>3, <6>4
        <5>. QED
          BY <5>1 DEF Owned, LineShape, EndOps
      <4>. QED
        BY <4>1, <2>0, <2>1
    <3>3. LineShape'
      <4>1. ends' = 1 /\ flushing' \notin {"write", "final"} /\ state' = "destroyed"
        BY <2>1, <2>2, <3>1
      <4>2. CASE Len(line') = 0
        BY <4>1, <4>2 DEF LineShape
      <4>3. CASE Len(line') = 1
        BY <4>1, <4>3, <3>2 DEF LineShape, FlushOps
      <4>. QED
        BY <3>2, <4>2, <4>3
    <3>4. Progress'
      <4>1. ~Next1("begin")' /\ ~Next1("prepare")' /\ ~Next1("batch")'
        BY <3>2 DEF Next1
      <4>2. ~transaction
        BY <2>2 DEF Owned, Progress
      <4>3. ~transaction'
        BY <2>1, <4>2, Zenon
      <4>4. flushing' \notin {"write", "final"} /\ state' = "destroyed"
        BY <2>1, <2>2, <3>1
      <4>. QED
        BY <4>1, <4>3, <4>4 DEF Progress
    <3>5. NoRowLost'
      BY <2>1, <2>2, <3>1 DEF NoRowLost, Healthy
    <3>6. CommitIsComplete'
      BY <1>0, <2>1, <2>2, <3>1, <3>2 DEF CommitIsComplete, Next1, Owned
    <3>. QED
      BY <3>3, <3>4, <3>5, <3>6 DEF Owned
  <2>4. CASE line[1].op = "commit"
    <3>1. /\ Len(line') = 0 /\ inserted = UpTo(written) /\ durable = <<>>
          /\ flushing = "over" /\ state # "open"
      BY <1>0, <2>1, <2>4 DEF Owned, LineShape, Progress, CommitIsComplete, Next1
    <3>2. state' # "open" /\ (state = "destroyed" => state' = "destroyed")
      BY <1>4, <2>4, <3>1 DEF Concluded, Outcome
    <3>3. durable' \in {<<>>, UpTo(written)}
      <4>1. <<>> \o inserted = inserted
        BY DEF TypeOK
      <4>. QED
        BY <1>4, <2>4, <3>1, <4>1 DEF Concluded
    <3>4. LineShape'
      <4>1. ends' = 1 /\ flushing' = "over" /\ Len(line') = 0
        BY <2>1, <2>2, <3>1
      <4>. QED
        BY <4>1 DEF LineShape
    <3>5. Progress'
      <4>1. ~Next1("begin")' /\ ~Next1("prepare")' /\ ~Next1("batch")'
        BY <3>1 DEF Next1
      <4>2. ~transaction
        BY <2>2 DEF Owned, Progress
      <4>3. ~transaction'
        BY <2>1, <4>2, Zenon
      <4>4. flushing' = "over" /\ state' # "open"
        BY <2>1, <3>1, <3>2
      <4>. QED
        BY <4>1, <4>3, <4>4 DEF Progress
    <3>6. NoRowLost'
      BY <2>1, <3>1 DEF NoRowLost, Healthy
    <3>7. CommitIsComplete'
      BY <1>0, <2>1, <2>2, <3>1, <3>2, <3>3 DEF CommitIsComplete, Next1
    <3>. QED
      BY <3>4, <3>5, <3>6, <3>7 DEF Owned
  <2>. QED
    BY <1>4, <2>3, <2>4
<1>. QED
  BY <1>1, <1>2, <1>3, <1>4

(* write() keeps the invariant: the row is buffered behind those before   *)
(* it.                                                                    *)
LEMMA WriteKeeps ==
    ASSUME TypeOK, Owned, owns, owns', Write PROVE Owned'
<1>. DEFINE rows == Append(buffered, written')
<1>1. /\ state = "open" /\ flushing = "nobody" /\ written' = written + 1
      /\ UNCHANGED <<state, statement, inserted, durable, ends>>
      /\ written \in Nat /\ buffered \in Seq(Nat) /\ inserted \in Seq(Nat)
  BY DEF Write, TypeOK
<1>2. ends = 0 /\ Len(line) = 0 /\ durable = <<>>
  BY <1>1, NothingAsked
<1>3. Cat(inserted, buffered) = UpTo(written)
  BY <1>1, <1>2 DEF Owned, NoRowLost, Healthy, Next1
<1>4. rows \in Seq(Nat) /\ Cat(inserted, rows) = UpTo(written')
  BY <1>1, <1>3, CatNextRow
<1>5. CASE Flush("write", rows)
  BY <1>1, <1>4, <1>5, FlushKeeps
<1>6. CASE buffered' = rows /\ UNCHANGED <<flushing, transaction, line>>
  <2>1. LineShape' /\ Progress' /\ CommitIsComplete'
    BY <1>1, <1>2, <1>6
    DEF Owned, LineShape, Progress, CommitIsComplete, Next1
  <2>2. NoRowLost'
    BY <1>1, <1>2, <1>4, <1>6 DEF NoRowLost, Next1
  <2>. QED
    BY <2>1, <2>2 DEF Owned
<1>. QED
  BY <1>5, <1>6 DEF Write

(* final() keeps the invariant: it flushes what is left, or commits.      *)
LEMMA FinalKeeps ==
    ASSUME TypeOK, Owned, owns, owns', Final PROVE Owned'
<1>1. /\ state = "ending" /\ flushing = "nobody" /\ UNCHANGED <<written, inserted, durable>>
      /\ buffered \in Seq(Nat) /\ inserted \in Seq(Nat)
  BY DEF Final, TypeOK
<1>2. ends = 0 /\ Len(line) = 0
  BY <1>1 DEF Owned, LineShape, Progress, TypeOK, EndOps, FlushOps
<1>3. Cat(inserted, buffered) = UpTo(written)
  BY <1>1, <1>2 DEF Owned, NoRowLost, Healthy, Next1
<1>4. CASE buffered = <<>> /\ Conclude(line)
  <2>1. inserted' = UpTo(written)
    BY <1>1, <1>3, <1>4, CatEmpty
  <2>2. Rest(line)
    BY <1>2, LineIsTyped DEF Rest, LineTyped
  <2>. QED
    BY <1>1, <1>4, <2>1, <2>2, ConcludeKeeps
<1>5. CASE Flush("final", buffered) /\ UNCHANGED <<state, statement, ends>>
  BY <1>1, <1>3, <1>5, FlushKeeps
<1>. QED
  BY <1>4, <1>5 DEF Final

(* Each step of a stream with a transaction of its own.                    *)
LEMMA OwnedStep ==
    ASSUME TypeOK, Owned, owns, [Next]_vars PROVE Owned'
<1>1. CASE Write
  BY <1>1, WriteKeeps DEF Write
<1>2. CASE End
  <2>1. /\ state = "open" /\ state' = "ending"
        /\ UNCHANGED <<written, buffered, flushing, line, inserted, durable, ends>>
    BY <1>2 DEF End
  <2>2. (transaction <=> transaction') /\ transaction' = transaction /\ statement' = statement
    BY <1>2, Zenon DEF End
  <2>3. LineShape'
    BY <2>1 DEF Owned, LineShape
  <2>4. Progress'
    BY <2>1, <2>2 DEF Owned, Progress, Next1
  <2>5. NoRowLost' /\ CommitIsComplete'
    BY <2>1 DEF Owned, NoRowLost, CommitIsComplete, Healthy, Next1
  <2>. QED
    BY <2>3, <2>4, <2>5 DEF Owned
<1>3. CASE Final
  BY <1>3, FinalKeeps DEF Final
<1>4. CASE Destroy
  BY <1>4, DestroyKeeps DEF Destroy
<1>5. CASE Answer
  BY <1>5, AnswerKeeps DEF Answer
<1>6. CASE UNCHANGED vars
  BY <1>6 DEF vars, client, Owned, LineShape, Progress, NoRowLost,
     CommitIsComplete, Healthy, Next1
<1>. QED
  BY <1>1, <1>2, <1>3, <1>4, <1>5, <1>6 DEF Next

-----------------------------------------------------------------------------
(* A stream in the caller's transaction: nothing is ever committed.        *)
OnlyFlushes(ln) == \A i \in 1..Len(ln) : ln[i].op \in FlushOps

(* A flush request keeps a borrowed line free of commits and rollbacks.   *)
LEMMA MoreFlushes ==
    ASSUME NEW s \in Seq(Requests), OnlyFlushes(s), NEW r \in Requests, r.op \in FlushOps
    PROVE  OnlyFlushes(Append(s, r))
  BY Grown DEF OnlyFlushes

(* An answer keeps a borrowed line free of commits and rollbacks.         *)
LEMMA FewerFlushes ==
    ASSUME NEW s \in Seq(Requests), OnlyFlushes(s), s # <<>>
    PROVE  /\ OnlyFlushes(Tail(s)) /\ Tail(s) \in Seq(Requests)
           /\ Head(s).op \in FlushOps
  BY Shrunk DEF OnlyFlushes

(* A stream in the caller's transaction never sends a commit or a         *)
(* rollback.                                                              *)
LEMMA BorrowedStep ==
    ASSUME TypeOK, Borrowed, ~owns, [Next]_vars PROVE Borrowed'
<1>0. line \in Seq(Requests) /\ OnlyFlushes(line) /\ durable = <<>>
  BY LineIsTyped DEF LineTyped, Borrowed, OnlyFlushes
<1>r. ASSUME NEW rows \in Seq(Nat), NEW op \in FlushOps
      PROVE  Request(op, rows) \in Requests /\ Request(op, rows).op = op
  BY RequestTyped DEF Request, FlushOps, Op
<1>f. ASSUME NEW who, NEW rows \in Seq(Nat), Flush(who, rows) PROVE OnlyFlushes(line')
  <2>1. line' = Append(line, Request("batch", rows))
        \/ line' = Append(line, Request("prepare", <<>>))
    BY <1>f DEF Flush
  <2>. QED
    BY <2>1, <1>0, <1>r, MoreFlushes, NoRowsTyped DEF FlushOps
<1>c. ASSUME NEW how, NEW rest, OnlyFlushes(rest), Cleanup(how, transaction, rest)
      PROVE  OnlyFlushes(line')
  BY <1>c DEF Cleanup
<1>1. CASE Write
  <2>1. Append(buffered, written') \in Seq(Nat) /\ durable' = durable
    BY <1>1 DEF Write, TypeOK
  <2>2. OnlyFlushes(line')
    BY <1>1, <2>1, <1>0, <1>f DEF Write
  <2>. QED
    BY <1>0, <2>1, <2>2 DEF Borrowed, OnlyFlushes
<1>2. CASE End
  BY <1>2 DEF End, Borrowed
<1>3. CASE Final
  <2>1. OnlyFlushes(line') /\ durable' = durable
    BY <1>3, <1>0, <1>f, <1>c DEF Final, Conclude, TypeOK
  <2>. QED
    BY <1>0, <2>1 DEF Borrowed, OnlyFlushes
<1>4. CASE Destroy
  <2>1. OnlyFlushes(line') /\ durable' = durable
    BY <1>4, <1>0, <1>c DEF Destroy, Destroyed
  <2>. QED
    BY <1>0, <2>1 DEF Borrowed, OnlyFlushes
<1>5. CASE Answer
  <2>0. /\ line # <<>> /\ OnlyFlushes(Tail(line)) /\ Tail(line) \in Seq(Requests)
        /\ Head(line).op \in FlushOps
    BY <1>5, <1>0, FewerFlushes DEF Answer
  <2>. PICK ok \in BOOLEAN :
          \/ Head(line).op = "begin" /\ Begun(ok) /\ UNCHANGED durable
          \/ Head(line).op = "prepare" /\ Prepared(ok) /\ UNCHANGED durable
          \/ /\ Head(line).op = "batch" /\ Executed(Head(line).rows, ok)
             /\ UNCHANGED durable
    BY <1>5, <2>0 DEF Answer, FlushOps
  <2>1. Rejected => OnlyFlushes(line')
    BY <2>0, <1>c DEF Rejected, Destroyed
  <2>2. Resolved => OnlyFlushes(line')
    BY <2>0, <1>c DEF Resolved, Conclude
  <2>3. OnlyFlushes(Append(Tail(line), Request("prepare", <<>>)))
    BY <2>0, <1>r, MoreFlushes, NoRowsTyped DEF FlushOps
  <2>4. OnlyFlushes(Append(Tail(line), Request("batch", buffered)))
    BY <2>0, <1>r, MoreFlushes DEF FlushOps, TypeOK
  <2>5. OnlyFlushes(line')
    BY <2>1, <2>2, <2>3, <2>4 DEF Begun, Prepared, Executed
  <2>. QED
    BY <1>0, <2>5 DEF Borrowed, OnlyFlushes
<1>6. CASE UNCHANGED vars
  BY <1>6 DEF vars, client, Borrowed
<1>. QED
  BY <1>1, <1>2, <1>3, <1>4, <1>5, <1>6 DEF Next

(* Every step keeps the invariant, in either kind of transaction.         *)
LEMMA InvStep == TypeOK /\ BatchInv /\ [Next]_vars => BatchInv'
<1>. SUFFICES ASSUME TypeOK, BatchInv, [Next]_vars PROVE BatchInv'
  OBVIOUS
<1>1. owns' = owns
  BY DEF Next, Write, End, Final, Destroy, Answer, vars, client
<1>2. CASE owns
  BY <1>1, <1>2, OwnedStep DEF BatchInv
<1>3. CASE ~owns
  BY <1>1, <1>3, BorrowedStep DEF BatchInv
<1>. QED
  BY <1>2, <1>3

(* The inductive invariant holds in every reachable state.                *)
LEMMA BatchInvariant == Spec => [](TypeOK /\ BatchInv)
<1>1. TypeOK /\ BatchInv /\ [Next]_vars => TypeOK' /\ BatchInv'
  BY TypeStep, InvStep
<1>. QED
  BY <1>1, InitTypeOK, InitInv, PTL DEF Spec

-----------------------------------------------------------------------------
(* The stream and its transaction at the server.  Once open, it is open    *)
(* until a commit or rollback is answered, and that is asked for once.     *)
Asked(ln) == \E i \in 1..Len(ln) : ln[i].op \in EndOps

(* The server has a transaction as long as the stream has one, or has      *)
(* asked for its end.                                                      *)
BegunOnce ==
    /\ server = "none" <=> ~transaction /\ ends = 0
    /\ server = "ended" => ends = 1
    /\ server = "none" => inserted = <<>>
    /\ Next1("prepare") \/ Next1("batch") => server # "none"

(* One that is open has an end coming, or there is an excuse.              *)
EndComes ==
    server = "open" =>
        /\ ends = 1 => excuse # {} \/ Asked(line)
        /\ transaction /\ state \in {"finished", "destroyed"} => excuse # {}

(* Nothing happens to a stream that has finished.                          *)
FinishIsLast ==
    state = "finished" =>
        /\ ~transaction /\ line = <<>>
        /\ durable = UpTo(written) /\ server # "open"

ServerInv == BegunOnce /\ EndComes /\ FinishIsLast

(* An answered flush request is no end that is waited for.                 *)
LEMMA AskedBehind ==
    ASSUME NEW s \in Seq(Requests), s # <<>>, s[1].op \in FlushOps, Asked(s)
    PROVE  Asked(Tail(s))
<1>. PICK i \in 1..Len(s) : s[i].op \in EndOps
  BY DEF Asked
<1>1. i # 1
  BY DEF FlushOps, EndOps
<1>2. /\ Len(Tail(s)) = Len(s) - 1 /\ Len(s) \in Nat
      /\ \A j \in 1..(Len(s) - 1) : Tail(s)[j] = s[j + 1]
  BY Shrunk
<1>3. i - 1 \in 1..(Len(s) - 1) /\ (i - 1) + 1 = i
  BY <1>1, <1>2
<1>4. Tail(s)[i - 1] = s[i]
  BY <1>2, <1>3
<1>. QED
  BY <1>2, <1>3, <1>4 DEF Asked

(* cleanup() asks for the end of a transaction that is set, and forgets it.*)
LEMMA CleanedUp ==
    ASSUME TypeOK, Owned, owns, NEW how \in EndOps, NEW rest \in Seq(Requests),
           Cleanup(how, transaction, rest)
    PROVE  /\ ~transaction'
           /\ transaction => ends = 0 /\ ends' = 1 /\ Asked(line')
           /\ ~transaction => ends' = ends /\ line' = rest
<1>1. Request(how, <<>>) \in Requests /\ Request(how, <<>>).op = how
  BY RequestTyped, NoRowsTyped DEF Request, Op, EndOps
<1>2. CASE transaction
  <2>1. ~transaction'
    BY <1>2, Zenon DEF Cleanup, Ended
  <2>2. ends = 0 /\ ends' = ends + 1 /\ line' = Append(rest, Request(how, <<>>))
    BY <1>2 DEF Owned, Progress, Cleanup
  <2>3. /\ Len(line') = Len(rest) + 1 /\ line'[Len(rest) + 1].op = how
        /\ Len(rest) \in Nat
    BY <1>1, <2>2, Grown, LenProperties
  <2>4. Len(rest) + 1 \in 1..Len(line')
    BY <2>3
  <2>5. Asked(line')
    BY <2>3, <2>4 DEF Asked
  <2>. QED
    BY <1>2, <2>1, <2>2, <2>5
<1>3. CASE ~transaction
  <2>1. ~transaction'
    BY <1>3, Zenon DEF Cleanup
  <2>. QED
    BY <1>3, <2>1 DEF Cleanup
<1>. QED
  BY <1>2, <1>3

(* A turn that ends with cleanup() keeps what is said of the server, when  *)
(* it does not finish the stream.                                          *)
LEMMA CleanupKeepsServer ==
    ASSUME TypeOK, Owned, ServerInv, owns, Owned',
           NEW how \in EndOps, NEW rest \in Seq(Requests),
           Cleanup(how, transaction, rest),
           server' = server, excuse' = excuse, state' # "finished",
           inserted' = inserted \/ server # "none",
           Asked(line) => Asked(rest),
           (Next1("prepare") \/ Next1("batch"))' => server # "none"
    PROVE  ServerInv'
<1>1. /\ ~transaction'
      /\ transaction => ends = 0 /\ ends' = 1 /\ Asked(line')
      /\ ~transaction => ends' = ends /\ line' = rest
  BY CleanedUp
<1>2. ends \in 0..1
  BY DEF TypeOK
<1>3. BegunOnce'
  BY <1>1, <1>2 DEF ServerInv, BegunOnce
<1>4. EndComes'
  <2>1. CASE transaction
    BY <1>1, <2>1 DEF EndComes
  <2>2. CASE ~transaction
    <3>1. Asked(line) => Asked(line')
      BY <1>1, <2>2
    <3>. QED
      BY <1>1, <2>2, <3>1 DEF ServerInv, EndComes
  <2>. QED
    BY <2>1, <2>2
<1>5. FinishIsLast'
  BY DEF FinishIsLast
<1>. QED
  BY <1>3, <1>4, <1>5 DEF ServerInv

(* The beginning of a flush keeps what is said of the server.              *)
LEMMA FlushKeepsServer ==
    ASSUME TypeOK, Owned, ServerInv, owns, NEW who, NEW rows \in Seq(Nat),
           Flush(who, rows), flushing = "nobody", state \in {"open", "ending"},
           UNCHANGED <<state, statement, server, inserted, ends, excuse>>
    PROVE  ServerInv'
<1>. DEFINE r == IF statement THEN Request("batch", rows) ELSE Request("begin", <<>>)
<1>1. ends = 0 /\ Len(line) = 0
  BY NothingAsked
<1>2. line' = Append(line, r) /\ r \in Requests
  <2>1. r \in Requests
    BY RequestTyped, NoRowsTyped DEF Op
  <2>2. CASE statement
    BY <2>1, <2>2 DEF Flush
  <2>3. CASE ~statement
    BY <2>1, <2>3 DEF Flush
  <2>. QED
    BY <2>2, <2>3
<1>3. Len(line') = 1 /\ line'[1] = r
  BY <1>1, <1>2, LineIsTyped, OnlyOne DEF LineTyped
<1>4. r.op = (IF statement THEN "batch" ELSE "begin")
  BY DEF Request
<1>5. (statement => transaction) /\ (transaction <=> transaction')
  <2>1. transaction = statement
    BY DEF Owned, Progress
  <2>2. transaction <=> transaction'
    BY Zenon DEF Flush
  <2>. QED
    BY <2>1, <2>2
<1>. HIDE DEF r
<1>6. BegunOnce'
  BY <1>1, <1>3, <1>4, <1>5 DEF ServerInv, BegunOnce, Next1
<1>7. EndComes' /\ FinishIsLast'
  BY <1>1 DEF EndComes, FinishIsLast
<1>. QED
  BY <1>6, <1>7 DEF ServerInv

(* A failing flush keeps it: the transaction's end is asked for.           *)
LEMMA RejectedKeepsServer ==
    ASSUME TypeOK, Owned, ServerInv, owns, Owned', line # <<>>,
           line[1].op \in FlushOps, Rejected, server' = server, excuse' = excuse,
           inserted' = inserted \/ server # "none"
    PROVE  ServerInv'
<1>1. Tail(line) \in Seq(Requests)
  BY TailIsRest DEF Rest
<1>2. Asked(line) => Asked(Tail(line))
  BY LineIsTyped, AskedBehind DEF LineTyped
<1>3. ~Next1("prepare")' /\ ~Next1("batch")'
  <2>1. flushing' \in {"nobody", "over"}
    BY DEF Rejected
  <2>. QED
    BY <2>1 DEF Owned, LineShape, Next1, FlushOps
<1>4. state' = "destroyed"
  BY DEF Rejected, Destroyed
<1>5. CASE Cleanup("rollback", transaction, Tail(line))
  BY <1>1, <1>2, <1>3, <1>4, <1>5, CleanupKeepsServer DEF EndOps
<1>6. CASE /\ state = "destroyed" /\ line' = Tail(line)
           /\ UNCHANGED <<transaction, statement, ends>>
  <2>1. transaction <=> transaction'
    BY <1>6
  <2>2. BegunOnce'
    BY <1>3, <1>6, <2>1 DEF ServerInv, BegunOnce
  <2>3. EndComes'
    BY <1>2, <1>4, <1>6, <2>1 DEF ServerInv, EndComes
  <2>. QED
    BY <1>4, <2>2, <2>3 DEF ServerInv, FinishIsLast
<1>. QED
  BY <1>5, <1>6 DEF Rejected, Destroyed, Failed

(* So does a flush that is done, of write() and of final().                *)
LEMMA ResolvedKeepsServer ==
    ASSUME TypeOK, Owned, ServerInv, owns, Owned', Next1("batch"), line # <<>>,
           Resolved, server' = server, excuse' = excuse
    PROVE  ServerInv'
<1>1. Tail(line) \in Seq(Requests)
  BY TailIsRest DEF Rest, Next1, FlushOps
<1>2. Asked(line) => Asked(Tail(line))
  BY LineIsTyped, AskedBehind DEF LineTyped, Next1, FlushOps
<1>3. ~Next1("prepare")' /\ ~Next1("batch")'
  <2>1. flushing' \in {"nobody", "over"}
    BY DEF Resolved, Conclude
  <2>. QED
    BY <2>1 DEF Owned, LineShape, Next1, FlushOps
<1>4. server # "none"
  BY DEF ServerInv, BegunOnce
<1>5. CASE flushing = "final" /\ Conclude(Tail(line))
  <2>1. state # "destroyed" => transaction
    BY DEF Owned, Progress
  <2>2. state # "finished"
    BY <1>5 DEF Owned, Progress
  <2>3. state' # "finished" /\ Cleanup("commit", transaction, Tail(line))
    BY <1>5, <2>1, <2>2 DEF Conclude
  <2>. QED
    BY <1>1, <1>2, <1>3, <1>4, <2>3, CleanupKeepsServer DEF EndOps
<1>6. CASE /\ flushing = "write" /\ line' = Tail(line)
           /\ UNCHANGED <<state, transaction, statement, ends>>
  <2>1. transaction <=> transaction'
    BY <1>6
  <2>2. BegunOnce'
    BY <1>3, <1>4, <1>6, <2>1 DEF ServerInv, BegunOnce
  <2>3. EndComes'
    BY <1>2, <1>6, <2>1 DEF ServerInv, EndComes
  <2>4. state' # "finished"
    BY <1>6 DEF Owned, Progress
  <2>. QED
    BY <2>2, <2>3, <2>4 DEF ServerInv, FinishIsLast
<1>. QED
  BY <1>5, <1>6 DEF Resolved

(* The end of the transaction, answered: it has ended, or the server has   *)
(* refused to; a stream that finishes has committed all its rows.          *)
LEMMA ConcludedKeepsServer ==
    ASSUME TypeOK, Owned, ServerInv, owns, NEW ok \in BOOLEAN,
           NEW how \in EndOps, line # <<>>, line[1].op = how,
           Concluded(how, ok), written' = written
    PROVE  ServerInv'
<1>1. ends = 1 /\ Len(line) > 0
  <2>1. Len(line) > 0
    BY LineIsTyped, Shrunk DEF LineTyped
  <2>2. Len(line) \in Nat /\ 1 \in 1..Len(line)
    BY <2>1, LineIsTyped, LenProperties DEF LineTyped
  <2>3. line[1].op \notin FlushOps
    BY DEF EndOps, FlushOps
  <2>4. ends # 0
    BY <2>2, <2>3 DEF Owned, LineShape
  <2>. QED
    BY <2>1, <2>4 DEF TypeOK
<1>2. ~transaction /\ server # "none" /\ state # "finished"
  BY <1>1 DEF Owned, Progress, ServerInv, BegunOnce, FinishIsLast
<1>3. ~transaction'
  BY <1>2, Zenon DEF Concluded
<1>4. ends' = 1 /\ server' \in {server, "ended"}
  BY <1>1 DEF Concluded
<1>5. BegunOnce'
  BY <1>1, <1>2, <1>3, <1>4 DEF ServerInv, BegunOnce
<1>6. EndComes'
  <2>1. CASE ok
    BY <2>1 DEF Concluded, EndComes
  <2>2. CASE ~ok
    BY <1>3, <2>2 DEF Concluded, EndComes
  <2>. QED
    BY <2>1, <2>2
<1>7. FinishIsLast'
  <2>. SUFFICES ASSUME state' = "finished" PROVE FinishIsLast'
    BY DEF FinishIsLast
  <2>1. how = "commit" /\ ok
    BY <1>2 DEF Concluded, Outcome
  <2>2. server' = "ended" /\ durable' = durable \o inserted /\ line' = Tail(line)
    BY <2>1 DEF Concluded
  <2>3. inserted = UpTo(written) /\ durable = <<>> /\ Len(line) = 1
    BY <1>1, <2>1 DEF Owned, LineShape, CommitIsComplete, Next1
  <2>4. durable' = UpTo(written)
    <3>1. <<>> \o inserted = inserted
      BY DEF TypeOK
    <3>. QED
      BY <2>2, <2>3, <3>1
  <2>5. line' = <<>>
    <3>1. line' \in Seq(Requests) /\ Len(line') = 0
      BY <2>2, <2>3, LineIsTyped, Shrunk DEF LineTyped
    <3>. QED
      BY <3>1, EmptySeq
  <2>. QED
    BY <1>3, <2>2, <2>4, <2>5 DEF FinishIsLast
<1>. QED
  BY <1>5, <1>6, <1>7 DEF ServerInv

(* final() with nothing to flush keeps it: it asks for the commit, or, if  *)
(* there was never a transaction, no row was written.                      *)
LEMMA FinishKeepsServer ==
    ASSUME TypeOK, Owned, ServerInv, owns, Owned', state = "ending",
           flushing = "nobody", buffered = <<>>, Conclude(line),
           UNCHANGED <<written, server, inserted, durable, excuse>>
    PROVE  ServerInv'
<1>1. ends = 0 /\ Len(line) = 0 /\ durable = <<>>
  BY NothingAsked
<1>2. Cleanup("commit", transaction, line) /\ flushing' = "over"
  BY DEF Conclude
<1>3. ~Next1("prepare")' /\ ~Next1("batch")'
  BY <1>2 DEF Owned, LineShape, Next1, FlushOps
<1>4. CASE transaction
  <2>1. state' # "finished"
    BY <1>4 DEF Conclude
  <2>. QED
    BY <1>2, <1>3, <2>1, LineIsTyped, CleanupKeepsServer DEF LineTyped, EndOps
<1>5. CASE ~transaction
  <2>1. server = "none" /\ inserted = <<>>
    BY <1>1, <1>5 DEF ServerInv, BegunOnce
  <2>2. UpTo(written) = <<>>
    <3>1. Cat(inserted, buffered) = UpTo(written)
      BY <1>1 DEF Owned, NoRowLost, Healthy, Next1
    <3>. QED
      BY <2>1, <3>1, CatEmpty, NoRowsTyped
  <2>3. ~transaction' /\ ends' = 0 /\ line' = line
    BY <1>1, <1>2, <1>5, LineIsTyped, CleanedUp DEF LineTyped, EndOps
  <2>4. line' = <<>>
    BY <1>1, <2>3, LineIsTyped, EmptySeq DEF LineTyped
  <2>5. BegunOnce'
    BY <1>3, <2>1, <2>3 DEF BegunOnce
  <2>6. EndComes' /\ FinishIsLast'
    BY <1>1, <2>1, <2>2, <2>3, <2>4 DEF EndComes, FinishIsLast
  <2>. QED
    BY <2>5, <2>6 DEF ServerInv
<1>. QED
  BY <1>4, <1>5

(* Each answer keeps what is said of the server.                           *)
LEMMA AnswerKeepsServer ==
    ASSUME TypeOK, Owned, ServerInv, owns, Owned', Answer PROVE ServerInv'
<1>0. /\ line # <<>> /\ written' = written /\ Head(line) = line[1]
      /\ line[1] \in Requests /\ line \in Seq(Requests) /\ Len(line) > 0
  BY LineIsTyped, Shrunk DEF Answer, LineTyped
<1>. PICK ok \in BOOLEAN :
        \/ /\ line[1].op = "begin" /\ Begun(ok)
           /\ UNCHANGED <<buffered, inserted, durable>>
        \/ /\ line[1].op = "prepare" /\ Prepared(ok)
           /\ UNCHANGED <<server, inserted, durable, excuse>>
        \/ /\ line[1].op = "batch" /\ Executed(line[1].rows, ok)
           /\ UNCHANGED <<buffered, server, durable, excuse>>
        \/ /\ line[1].op \in {"commit", "rollback"}
           /\ Concluded(line[1].op, ok) /\ UNCHANGED buffered
  BY <1>0 DEF Answer
<1>1. CASE line[1].op = "begin" /\ Begun(ok) /\ UNCHANGED <<buffered, inserted, durable>>
  <2>1. CASE ok
    <3>1. ends = 0 /\ flushing \in {"write", "final"}
      BY <1>0, <1>1 DEF Owned, Progress, LineShape, Next1, FlushOps
    <3>2. transaction' /\ server' = "open" /\ ends' = 0 /\ state' = state
      BY <1>1, <2>1, <3>1, Zenon DEF Begun
    <3>3. state # "finished"
      BY <3>1 DEF Owned, Progress
    <3>4. BegunOnce' /\ FinishIsLast'
      BY <3>2, <3>3 DEF BegunOnce, FinishIsLast
    <3>5. EndComes'
      <4>1. state = "destroyed" => "late" \in excuse'
        BY <1>1, <2>1 DEF Begun
      <4>2. state' = "destroyed" => excuse' # {}
        BY <4>1, <3>2
      <4>. QED
        BY <4>2, <3>2, <3>3 DEF EndComes
    <3>. QED
      BY <3>4, <3>5 DEF ServerInv
  <2>2. CASE ~ok
    BY <1>0, <1>1, <2>2, RejectedKeepsServer DEF Begun, FlushOps
  <2>. QED
    BY <2>1, <2>2
<1>2. CASE line[1].op = "prepare" /\ Prepared(ok)
           /\ UNCHANGED <<server, inserted, durable, excuse>>
  <2>1. CASE ok /\ transaction
    <3>1. ends = 0 /\ server # "none" /\ flushing \in {"write", "final"}
      BY <1>0, <1>2, <2>1 DEF Owned, Progress, LineShape, FlushOps, ServerInv, BegunOnce
    <3>2. transaction' /\ ends' = 0 /\ state' = state
      BY <1>2, <2>1, <3>1, Zenon DEF Prepared
    <3>3. state # "finished"
      BY <3>1 DEF Owned, Progress
    <3>. QED
      BY <1>2, <2>1, <3>1, <3>2, <3>3
      DEF ServerInv, BegunOnce, EndComes, FinishIsLast
  <2>2. CASE ~(ok /\ transaction)
    BY <1>0, <1>2, <2>2, RejectedKeepsServer DEF Prepared, FlushOps
  <2>. QED
    BY <2>1, <2>2
<1>3. CASE line[1].op = "batch" /\ Executed(line[1].rows, ok)
           /\ UNCHANGED <<buffered, server, durable, excuse>>
  <2>1. server # "none" /\ Next1("batch")
    BY <1>0, <1>3 DEF ServerInv, BegunOnce, Next1
  <2>2. CASE Resolved
    BY <1>0, <1>3, <2>1, <2>2, ResolvedKeepsServer
  <2>3. CASE Rejected
    BY <1>0, <1>3, <2>1, <2>3, RejectedKeepsServer DEF FlushOps
  <2>. QED
    BY <1>3, <2>2, <2>3 DEF Executed
<1>4. CASE /\ line[1].op \in {"commit", "rollback"}
           /\ Concluded(line[1].op, ok) /\ UNCHANGED buffered
  BY <1>0, <1>4, ConcludedKeepsServer DEF EndOps
<1>. QED
  BY <1>1, <1>2, <1>3, <1>4

(* Each step of a stream with a transaction of its own.                    *)
LEMMA ServerStep ==
    ASSUME TypeOK, Owned, ServerInv, owns, Owned', [Next]_vars PROVE ServerInv'
<1>1. CASE Write
  <2>1. /\ state = "open" /\ flushing = "nobody"
        /\ UNCHANGED <<state, statement, server, inserted, ends, excuse>>
        /\ Append(buffered, written') \in Seq(Nat)
    BY <1>1 DEF Write, TypeOK
  <2>2. CASE Flush("write", Append(buffered, written'))
    BY <2>1, <2>2, FlushKeepsServer
  <2>3. CASE UNCHANGED <<flushing, transaction, line>>
    <3>1. transaction <=> transaction'
      BY <2>3
    <3>. QED
      BY <2>1, <2>3, <3>1 DEF ServerInv, BegunOnce, EndComes, FinishIsLast, Next1
  <2>. QED
    BY <1>1, <2>2, <2>3 DEF Write
<1>2. CASE End
  <2>1. transaction <=> transaction'
    BY <1>2, Zenon DEF End
  <2>. QED
    BY <1>2, <2>1 DEF End, ServerInv, BegunOnce, EndComes, FinishIsLast, Next1
<1>3. CASE Final
  <2>1. CASE buffered = <<>>
    BY <1>3, <2>1, FinishKeepsServer DEF Final
  <2>2. CASE buffered # <<>>
    BY <1>3, <2>2, FlushKeepsServer DEF Final, TypeOK
  <2>. QED
    BY <2>1, <2>2
<1>4. CASE Destroy
  <2>1. /\ Cleanup("rollback", transaction, line) /\ state' = "destroyed"
        /\ UNCHANGED <<flushing, server, inserted, excuse>>
    BY <1>4 DEF Destroy, Destroyed
  <2>2. (Next1("prepare") \/ Next1("batch"))' => server # "none"
    <3>1. CASE transaction
      BY <3>1 DEF ServerInv, BegunOnce
    <3>2. CASE ~transaction
      <4>1. line' = line
        BY <2>1, <3>2, LineIsTyped, CleanedUp DEF LineTyped, EndOps
      <4>. QED
        BY <4>1 DEF ServerInv, BegunOnce, Next1
    <3>. QED
      BY <3>1, <3>2
  <2>. QED
    BY <2>1, <2>2, LineIsTyped, CleanupKeepsServer DEF LineTyped, EndOps
<1>5. CASE Answer
  BY <1>5, AnswerKeepsServer
<1>6. CASE UNCHANGED vars
  BY <1>6 DEF vars, client, ServerInv, BegunOnce, EndComes, FinishIsLast, Next1
<1>. QED
  BY <1>1, <1>2, <1>3, <1>4, <1>5, <1>6 DEF Next

-----------------------------------------------------------------------------
(* A stream in the caller's transaction: that stays open, and unless       *)
(* something has failed the rows written are accounted for as in NoRowLost.*)
LentLine ==
    /\ Len(line) <= 1
    /\ \A i \in 1..Len(line) : line[i].op \in {"prepare", "batch"}
    /\ flushing \in {"write", "final"} <=> Len(line) > 0
    /\ Next1("batch") => buffered = <<>>

LentEnd ==
    /\ server = "open"
    /\ flushing = "final" => state # "open"
    /\ state = "finished" => flushing = "over" /\ inserted = UpTo(written)

Lent == LentLine /\ LentEnd /\ NoRowLost

(* With nobody waiting for a flush the line is empty and the rows are      *)
(* inserted or buffered.                                                   *)
LEMMA LentIdle ==
    ASSUME TypeOK, Lent, flushing = "nobody", state \in {"open", "ending"}
    PROVE  Len(line) = 0 /\ Cat(inserted, buffered) = UpTo(written)
<1>1. Len(line) \in Nat
  BY LineIsTyped DEF LineTyped
<1>2. Len(line) = 0
  BY <1>1 DEF Lent, LentLine
<1>. QED
  BY <1>2 DEF Lent, NoRowLost, Healthy, Next1

(* flush() sends the rows, or asks for the statement first.                *)
LEMMA LentFlush ==
    ASSUME TypeOK, Lent, ~owns, NEW who \in {"write", "final"},
           NEW rows \in Seq(Nat), Flush(who, rows),
           flushing = "nobody", state \in {"open", "ending"},
           who = "final" => state = "ending",
           UNCHANGED <<state, server, inserted>>,
           Cat(inserted, rows) = UpTo(written')
    PROVE  Lent'
<1>. DEFINE r == IF statement THEN Request("batch", rows) ELSE Request("prepare", <<>>)
<1>1. Len(line) = 0
  BY LentIdle
<1>2. line' = Append(line, r) /\ r \in Requests
  <2>1. r \in Requests
    BY RequestTyped, NoRowsTyped DEF Op
  <2>2. CASE statement
    BY <2>1, <2>2 DEF Flush
  <2>3. CASE ~statement
    BY <2>1, <2>3 DEF Flush
  <2>. QED
    BY <2>2, <2>3
<1>3. Len(line') = 1 /\ line'[1] = r
  BY <1>1, <1>2, LineIsTyped, OnlyOne DEF LineTyped
<1>4. r.op = (IF statement THEN "batch" ELSE "prepare") /\ (statement => r.rows = rows)
  BY DEF Request
<1>5. flushing' = who /\ buffered' = IF statement THEN <<>> ELSE rows
  BY DEF Flush, Taken
<1>. HIDE DEF r
<1>6. LentLine'
  BY <1>3, <1>4, <1>5 DEF LentLine, Next1
<1>7. LentEnd'
  BY <1>5 DEF Lent, LentEnd
<1>8. NoRowLost'
  BY <1>3, <1>4, <1>5 DEF NoRowLost, Next1
<1>. QED
  BY <1>6, <1>7, <1>8 DEF Lent

(* cleanup() sends nothing in the caller's transaction.                    *)
LEMMA LentCleanup ==
    ASSUME ~owns, NEW how, NEW rest, Cleanup(how, transaction, rest)
    PROVE  line' = rest
  BY DEF Cleanup

(* What an answer leaves on the line: nothing.                             *)
LEMMA LentAnswered ==
    ASSUME TypeOK, Lent, line # <<>>
    PROVE  /\ Len(Tail(line)) = 0 /\ Tail(line) \in Seq(Requests)
           /\ Head(line) = line[1] /\ line[1] \in Requests /\ Len(line) > 0
           /\ line[1].op \in {"prepare", "batch"}
           /\ flushing \in {"write", "final"} /\ state # "finished"
<1>1. /\ Tail(line) \in Seq(Requests) /\ Len(Tail(line)) = Len(line) - 1
      /\ Head(line) = line[1] /\ Head(line) \in Requests /\ Len(line) > 0
      /\ Len(line) \in Nat
  BY LineIsTyped, Shrunk, LenProperties DEF LineTyped
<1>2. Len(line) = 1 /\ line[1].op \in {"prepare", "batch"}
      /\ flushing \in {"write", "final"}
  BY <1>1 DEF Lent, LentLine
<1>3. state # "finished"
  BY <1>2 DEF Lent, LentEnd
<1>. QED
  BY <1>1, <1>2, <1>3

(* A failing flush: the stream is destroyed, the transaction stays.        *)
LEMMA LentRejected ==
    ASSUME TypeOK, Lent, ~owns, line # <<>>, Rejected, server' = server PROVE Lent'
<1>1. /\ state' = "destroyed" /\ line' = Tail(line)
      /\ flushing' \in {"nobody", "over"}
  BY LentCleanup DEF Rejected, Destroyed
<1>2. Len(line') = 0
  BY <1>1, LentAnswered
<1>3. LentLine'
  BY <1>1, <1>2 DEF LentLine, Next1
<1>4. LentEnd'
  BY <1>1 DEF Lent, LentEnd
<1>5. NoRowLost'
  BY <1>1 DEF NoRowLost, Healthy
<1>. QED
  BY <1>3, <1>4, <1>5 DEF Lent

(* The end of final(): the stream finishes with all its rows inserted.     *)
LEMMA LentConclude ==
    ASSUME ~owns, NEW rest, Len(rest) = 0, Conclude(rest), Lent, server' = server,
           state \in {"ending", "destroyed"}, inserted' = UpTo(written')
    PROVE  Lent'
<1>1. /\ flushing' = "over" /\ line' = rest /\ state' \in {"finished", "destroyed"}
  BY LentCleanup DEF Conclude
<1>2. LentLine'
  BY <1>1 DEF LentLine, Next1
<1>3. LentEnd'
  BY <1>1 DEF Lent, LentEnd
<1>4. NoRowLost'
  BY <1>1 DEF NoRowLost, Healthy
<1>. QED
  BY <1>2, <1>3, <1>4 DEF Lent

(* A flush that is done: the rows sent are inserted.                       *)
LEMMA LentResolved ==
    ASSUME TypeOK, Lent, ~owns, line # <<>>, line[1].op = "batch", Resolved,
           UNCHANGED <<written, buffered, server>>,
           inserted' = Cat(inserted, line[1].rows)
    PROVE  Lent'
<1>1. /\ Len(Tail(line)) = 0 /\ Len(line) > 0 /\ state # "finished"
  BY LentAnswered
<1>2. buffered = <<>> /\ Next1("batch")
  BY <1>1 DEF Lent, LentLine, Next1
<1>3. Healthy => inserted' = UpTo(written)
  BY <1>2 DEF Lent, NoRowLost
<1>4. CASE flushing = "final" /\ Conclude(Tail(line))
  <2>1. state \in {"ending", "destroyed"}
    BY <1>1, <1>4 DEF Lent, LentEnd, TypeOK
  <2>2. inserted' = UpTo(written')
    BY <1>3, <1>4 DEF Healthy
  <2>. QED
    BY <1>1, <1>4, <2>1, <2>2, LentConclude
<1>5. CASE flushing = "write" /\ flushing' = "nobody" /\ line' = Tail(line)
           /\ UNCHANGED state
  <2>1. LentLine'
    BY <1>1, <1>5 DEF LentLine, Next1
  <2>2. LentEnd'
    BY <1>1, <1>5 DEF Lent, LentEnd
  <2>3. NoRowLost'
    <3>1. Healthy' => Healthy
      BY <1>5 DEF Healthy
    <3>2. inserted' \in Seq(Nat) \/ ~Healthy
      <4>1. UpTo(written) \in Seq(Nat)
        BY DEF UpTo, TypeOK
      <4>. QED
        BY <4>1, <1>3
    <3>3. ~Next1("batch")'
      <4>1. Len(line') = 0
        BY <1>1, <1>5
      <4>. QED
        BY <4>1 DEF Next1
    <3>4. Healthy => Cat(inserted', buffered') = UpTo(written')
      BY <1>2, <1>3, <3>2, CatEmpty
    <3>. QED
      BY <3>1, <3>3, <3>4 DEF NoRowLost
  <2>. QED
    BY <2>1, <2>2, <2>3 DEF Lent
<1>. QED
  BY <1>4, <1>5 DEF Resolved

(* Each step of a stream in the caller's transaction.                      *)
LEMMA LentStep ==
    ASSUME TypeOK, Lent, ~owns, [Next]_vars PROVE Lent'
<1>0. written \in Nat /\ buffered \in Seq(Nat) /\ inserted \in Seq(Nat)
  BY DEF TypeOK
<1>1. CASE Write
  <2>. DEFINE rows == Append(buffered, written')
  <2>1. /\ state = "open" /\ flushing = "nobody" /\ written' = written + 1
        /\ UNCHANGED <<state, server, inserted>>
    BY <1>1 DEF Write
  <2>2. Len(line) = 0 /\ Cat(inserted, buffered) = UpTo(written)
    BY <2>1, LentIdle
  <2>3. rows \in Seq(Nat) /\ Cat(inserted, rows) = UpTo(written')
    BY <1>0, <2>1, <2>2, CatNextRow
  <2>4. CASE Flush("write", rows)
    BY <2>1, <2>3, <2>4, LentFlush
  <2>5. CASE buffered' = rows /\ UNCHANGED <<flushing, transaction, line>>
    <3>1. LentLine' /\ LentEnd'
      BY <2>1, <2>2, <2>5 DEF Lent, LentLine, LentEnd, Next1
    <3>2. NoRowLost'
      BY <2>1, <2>2, <2>3, <2>5 DEF NoRowLost, Next1
    <3>. QED
      BY <3>1, <3>2 DEF Lent
  <2>. QED
    BY <1>1, <2>4, <2>5 DEF Write
<1>2. CASE End
  <2>1. /\ state = "open" /\ state' = "ending"
        /\ UNCHANGED <<written, buffered, flushing, line, server, inserted>>
    BY <1>2 DEF End
  <2>. QED
    BY <2>1 DEF Lent, LentLine, LentEnd, NoRowLost, Healthy, Next1
<1>3. CASE Final
  <2>1. /\ state = "ending" /\ flushing = "nobody"
        /\ UNCHANGED <<written, server, inserted>>
    BY <1>3 DEF Final
  <2>2. Len(line) = 0 /\ Cat(inserted, buffered) = UpTo(written)
    BY <2>1, LentIdle
  <2>3. CASE buffered = <<>> /\ Conclude(line)
    <3>1. inserted' = UpTo(written')
      BY <1>0, <2>1, <2>2, <2>3, CatEmpty
    <3>. QED
      BY <2>1, <2>2, <2>3, <3>1, LentConclude
  <2>4. CASE Flush("final", buffered) /\ UNCHANGED state
    BY <1>0, <2>1, <2>2, <2>4, LentFlush
  <2>. QED
    BY <1>3, <2>3, <2>4 DEF Final
<1>4. CASE Destroy
  <2>1. /\ state' = "destroyed" /\ line' = line /\ state \in {"open", "ending"}
        /\ UNCHANGED <<written, buffered, flushing, server, inserted>>
    BY <1>4, LentCleanup DEF Destroy, Destroyed
  <2>. QED
    BY <2>1 DEF Lent, LentLine, LentEnd, NoRowLost, Healthy, Next1
<1>5. CASE Answer
  <2>0. /\ line # <<>> /\ written' = written
    BY <1>5 DEF Answer
  <2>1. /\ Len(Tail(line)) = 0 /\ Tail(line) \in Seq(Requests)
        /\ Head(line) = line[1] /\ line[1] \in Requests /\ Len(line) > 0
        /\ line[1].op \in {"prepare", "batch"}
        /\ flushing \in {"write", "final"} /\ state # "finished"
    BY <2>0, LentAnswered
  <2>. PICK ok \in BOOLEAN :
          \/ /\ line[1].op = "prepare" /\ Prepared(ok)
             /\ UNCHANGED <<server, inserted>>
          \/ /\ line[1].op = "batch" /\ Executed(line[1].rows, ok)
             /\ UNCHANGED <<buffered, server>>
    BY <1>5, <2>1 DEF Answer
  <2>2. CASE line[1].op = "prepare" /\ Prepared(ok) /\ UNCHANGED <<server, inserted>>
    <3>1. CASE ok /\ transaction
      <4>1. /\ line' = Append(Tail(line), Request("batch", buffered))
            /\ buffered' = <<>> /\ UNCHANGED <<state, flushing>>
        BY <2>2, <3>1 DEF Prepared, Taken
      <4>2. /\ Request("batch", buffered) \in Requests
            /\ Request("batch", buffered).op = "batch"
            /\ Request("batch", buffered).rows = buffered
        BY <1>0, RequestTyped DEF Request, Op
      <4>3. Len(line') = 1 /\ line'[1].op = "batch" /\ line'[1].rows = buffered
        BY <2>1, <4>1, <4>2, OnlyOne
      <4>4. LentLine' /\ LentEnd'
        BY <2>0, <2>1, <2>2, <4>1, <4>3 DEF Lent, LentLine, LentEnd
      <4>5. Healthy => Cat(inserted, buffered) = UpTo(written)
        BY <2>2 DEF Lent, NoRowLost, Next1
      <4>6. (Healthy' => Healthy) /\ inserted' = inserted
        BY <2>2, <4>1 DEF Healthy
      <4>7. NoRowLost'
        <5>1. Next1("batch")'
          BY <4>3 DEF Next1
        <5>2. Cat(inserted, buffered) = UpTo(written)
              => Cat(inserted', line'[1].rows) = UpTo(written')
          BY <2>0, <4>3, <4>6
        <5>. QED
          BY <4>5, <4>6, <5>1, <5>2 DEF NoRowLost
      <4>. QED
        BY <4>4, <4>7 DEF Lent
    <3>2. CASE ~(ok /\ transaction)
      BY <2>0, <2>2, <3>2, LentRejected DEF Prepared
    <3>. QED
      BY <3>1, <3>2
  <2>3. CASE line[1].op = "batch" /\ Executed(line[1].rows, ok)
             /\ UNCHANGED <<buffered, server>>
    <3>1. CASE Resolved /\ inserted' = inserted \o line[1].rows
      BY <2>0, <2>3, <3>1, LentResolved DEF Cat
    <3>2. CASE Rejected
      BY <2>0, <2>3, <3>2, LentRejected
    <3>. QED
      BY <2>3, <3>1, <3>2 DEF Executed
  <2>. QED
    BY <2>2, <2>3
<1>6. CASE UNCHANGED vars
  BY <1>6 DEF vars, client, Lent, LentLine, LentEnd, NoRowLost, Healthy, Next1
<1>. QED
  BY <1>1, <1>2, <1>3, <1>4, <1>5, <1>6 DEF Next

-----------------------------------------------------------------------------
(* What the stream leaves behind, in either kind of transaction.           *)
Behind == IF owns THEN ServerInv ELSE Lent

(* makeBatchStream starts with no transaction, or with the caller's.       *)
LEMMA InitBehind == Init => Behind
<1>. SUFFICES ASSUME Init PROVE Behind
  OBVIOUS
<1>1. UpTo(0) = <<>>
  BY DEF UpTo
<1>2. Cat(inserted, buffered) = UpTo(written)
  BY <1>1, CatEmpty, NoRowsTyped DEF Init
<1>3. Len(line) = 0 /\ ends = 0 /\ ~transaction
  <2>1. ~transaction
    BY Zenon DEF Init
  <2>. QED
    BY <2>1 DEF Init
<1>4. owns => ServerInv
  BY <1>3 DEF Init, ServerInv, BegunOnce, EndComes, FinishIsLast, Next1
<1>5. ~owns => Lent
  BY <1>2, <1>3 DEF Init, Lent, LentLine, LentEnd, NoRowLost, Next1
<1>. QED
  BY <1>4, <1>5 DEF Behind

(* Every step keeps it.                                                    *)
LEMMA BehindStep ==
    TypeOK /\ BatchInv /\ Behind /\ [Next]_vars => Behind'
<1>. SUFFICES ASSUME TypeOK, BatchInv, Behind, [Next]_vars PROVE Behind'
  OBVIOUS
<1>1. owns' = owns
  BY DEF Next, Write, End, Final, Destroy, Answer, vars, client
<1>2. CASE owns
  <2>1. Owned'
    BY <1>2, OwnedStep DEF BatchInv
  <2>. QED
    BY <1>1, <1>2, <2>1, ServerStep DEF BatchInv, Behind
<1>3. CASE ~owns
  BY <1>1, <1>3, LentStep DEF Behind
<1>. QED
  BY <1>2, <1>3

(* It holds in every reachable state.                                      *)
LEMMA BehindInvariant == Spec => []Behind
  BY BatchInvariant, InitBehind, BehindStep, PTL DEF Spec

-----------------------------------------------------------------------------
(* Every reachable state of a batch stream has the declared types; among   *)
(* them that it sends one commit or rollback at most.                      *)
THEOREM BatchTypeOK == Spec => []TypeOK
  BY BatchInvariant, PTL

(* All or nothing: whatever fails and whenever the stream is destroyed,    *)
(* the rows committed are none or all that were written, in order.         *)
THEOREM BatchAllOrNothing == Spec => []AllOrNothing
<1>1. BatchInv => AllOrNothing
  BY DEF BatchInv, Owned, Borrowed, CommitIsComplete, AllOrNothing, UpTo
<1>. QED
  BY <1>1, BatchInvariant, PTL

(* A stream that finishes has committed all its rows and has no            *)
(* transaction open; in the caller's transaction it has inserted them all  *)
(* and left that open.                                                     *)
THEOREM BatchFinishKeepsAll == Spec => []FinishKeepsAll
<1>1. Behind => FinishKeepsAll
  BY DEF Behind, ServerInv, FinishIsLast, Lent, LentEnd, FinishKeepsAll, UpTo
<1>. QED
  BY <1>1, BehindInvariant, PTL

(* A stream that is over leaves no transaction of its own open, unless it  *)
(* began after destroy() or the server refused to end it.                  *)
THEOREM BatchNothingLeftOpen == Spec => []NothingLeftOpen
<1>1. ASSUME TypeOK, Behind PROVE NothingLeftOpen
  <2>. SUFFICES ASSUME owns, state \in {"finished", "destroyed"}, line = <<>>,
                       server = "open"
                PROVE  excuse # {}
    BY DEF NothingLeftOpen
  <2>1. ~Asked(line)
    BY DEF Asked
  <2>2. transaction \/ ends = 1
    BY <1>1 DEF Behind, ServerInv, BegunOnce, TypeOK
  <2>. QED
    BY <1>1, <2>1, <2>2 DEF Behind, ServerInv, EndComes
<1>. QED
  BY <1>1, BatchInvariant, BehindInvariant, PTL

-----------------------------------------------------------------------------
(* Statements and batches with their uploads (Execute), for every plan of  *)
(* calls, chunk size and refusal.                                          *)
CONSTANTS Call, Plans, Chunk, PerPacket, Failing, Word, Base, WordBits, Half, Day
VARIABLES old, job, started, queue, upload, stored, left, failed, told, blobs, batch, ran

Exec == INSTANCE Execute

(* The requests of an upload: one of them at most is on its way, and the   *)
(* chunks of a stream that were sent in one piece.                         *)
UploadOps == {"create", "segment", "close"}
PacketOps == {"open", "rows", "exec", "release"}
CountedOps == {"open", "rows", "exec"}
Ops == UploadOps \cup PacketOps \cup {"piece", "execute"}

About(r, u) == r.call = u[1] /\ r.place = u[2]
Turn(r, u) == r.op \in UploadOps /\ About(r, u)
SegmentOf(r, u) == r.op = "segment" /\ About(r, u)
InOnePiece(r, u) == r.op = "piece" /\ About(r, u)
Executes(r, c) == r.call = c /\ r.op = "execute"
OfBatch(r, c) == r.call = c /\ r.op \in PacketOps
Counted(r, c) == r.call = c /\ r.op \in CountedOps

(* The place of a value that was given.                                    *)
PlacedIn(j, x) ==
    /\ x \in (DOMAIN j.rows) \X (DOMAIN j.input)
    /\ Len(Exec!ValuesOf(j, x[1])) = Len(j.input)
Placed(c, x) == PlacedIn(job[c], x)

IsRequest(r) ==
    /\ r.call \in started /\ r.op \in Ops
    /\ r.op \in UploadOps \cup {"piece"} => Placed(r.call, r.place)

(* The closure of an upload.                                               *)
ClosureFields == {"blob", "rest", "error", "chunks", "flowing", "reading", "end"}
LastIsLong(chunks) == chunks # <<>> => Len(chunks[Len(chunks)]) > Chunk
IsClosure(x) ==
    /\ x = [f \in ClosureFields |-> x[f]]
    /\ x.flowing \in BOOLEAN /\ x.reading \in BOOLEAN /\ x.end \in BOOLEAN
    /\ x.chunks \in Seq(Seq(Nat)) /\ LastIsLong(x.chunks)

IsSeq(s) == s \in Seq(ToSet(s))
IsBatch(b) == b = [f \in {"open", "blr", "messages"} |-> b[f]] /\ b.open \in BOOLEAN

(* The types, where the proofs need them.                                  *)
QueueTypes == IsSeq(queue) /\ \A i \in DOMAIN queue : IsRequest(queue[i])
UploadTypes ==
    /\ upload = [u \in Exec!Upload |-> upload[u]]
    /\ \A u \in Exec!Upload :
          /\ IsClosure(upload[u])
          /\ upload[u].flowing => u[1] \in started /\ Placed(u[1], u[2])
CallTypes ==
    /\ left \in [Call -> Int] /\ failed \in [Call -> BOOLEAN]
    /\ told \in [Call -> Seq({"ok", "error"})]
    /\ \A c \in Call : told[c] # <<>> => c \in started
ServerTypes ==
    /\ batch = [c \in Call |-> batch[c]] /\ \A c \in Call : IsBatch(batch[c])
    /\ IsSeq(ran) /\ \A i \in DOMAIN ran : ran[i].call \in started
Types ==
    /\ job \in Plans /\ started \subseteq Call
    /\ QueueTypes /\ UploadTypes /\ CallTypes /\ ServerTypes

(* An upload goes on in one way: its stream flows, or a request of it is   *)
(* answered.  A chunk in one piece is followed by more of the stream, and  *)
(* a stream that has ended sends segments only of the chunk it was reading.*)
UploadInv(u) ==
    /\ \A i, j \in DOMAIN queue : Turn(queue[i], u) /\ Turn(queue[j], u) => i = j
    /\ upload[u].flowing =>
          /\ ~upload[u].end /\ ~upload[u].reading
          /\ \A i \in DOMAIN queue : ~Turn(queue[i], u)
    /\ upload[u].end /\ ~upload[u].reading =>
          \A i \in DOMAIN queue : ~SegmentOf(queue[i], u)
    /\ \A i \in DOMAIN queue : InOnePiece(queue[i], u) =>
          \/ upload[u].flowing /\ upload[u].chunks # <<>>
          \/ \E j \in DOMAIN queue : i < j /\ SegmentOf(queue[j], u)

(* The uploads of a call that go on.                                       *)
GoesOn(u) == upload[u].flowing \/ \E i \in DOMAIN queue : Turn(queue[i], u)
Alive(c) == {x \in Exec!PlacesOf(c) : GoesOn(<<c, x>>)}

ToldOnce(c) ==
    /\ Len(told[c]) = 1 /\ Cardinality(Exec!RunsOf(c)) <= 1
    /\ told[c] = <<"ok">> /\ job[c].rows # <<>> => Exec!RunsOf(c) # {}
    /\ told[c] = <<"error">> => Exec!RunsOf(c) = {}

(* A statement has one upload at a time, and then its execution.           *)
StatementInv(c) ==
    /\ \A i \in DOMAIN queue : ~OfBatch(queue[i], c)
    /\ \A x, y \in Alive(c) : x = y
    /\ \A i, j \in DOMAIN queue : Executes(queue[i], c) /\ Executes(queue[j], c) => i = j
    /\ \A i \in DOMAIN queue : Executes(queue[i], c) => Alive(c) = {}
    /\ told[c] = <<>> => Exec!RunsOf(c) = {}
    /\ told[c] # <<>> => /\ Alive(c) = {} /\ ToldOnce(c)
                         /\ \A i \in DOMAIN queue : ~Executes(queue[i], c)

(* A batch counts its uploads, and then its packets: "left" of them, up to *)
(* the one that runs it, at k.                                             *)
Uploading(c) ==
    /\ told[c] = <<>> /\ Exec!RunsOf(c) = {} /\ ~batch[c].open
    /\ \A i \in DOMAIN queue : ~OfBatch(queue[i], c)
    /\ left[c] = Cardinality(Alive(c))
Sending(c, k) ==
    LET a == k - left[c] + 1
    IN  /\ left[c] \in 1..k
        /\ \A i \in DOMAIN queue : Counted(queue[i], c) <=> a <= i /\ i <= k
        /\ \A i \in DOMAIN queue : OfBatch(queue[i], c) =>
              /\ queue[i].op = "open" => i = a
              /\ queue[i].op = "exec" <=> i = k
              /\ queue[i].op = "release" => i > k
        /\ IF queue[a].op = "open" THEN ~failed[c] /\ ~batch[c].open
           ELSE failed[c] = ~batch[c].open
Executing(c) ==
    /\ told[c] = <<>> /\ Exec!RunsOf(c) = {} /\ Alive(c) = {}
    /\ \E k \in DOMAIN queue : Sending(c, k)
Over(c) ==
    /\ told[c] # <<>> /\ ToldOnce(c) /\ Alive(c) = {}
    /\ \A i \in DOMAIN queue : ~Counted(queue[i], c)
BatchCallInv(c) ==
    /\ \A i \in DOMAIN queue : ~Executes(queue[i], c)
    /\ Uploading(c) \/ Executing(c) \/ Over(c)

CallInv(c) == IF Exec!InBatch(c) THEN BatchCallInv(c) ELSE StatementInv(c)

ExecuteInv ==
    Types /\ (\A u \in Exec!Upload : UploadInv(u)) /\ \A c \in Call : CallInv(c)

-----------------------------------------------------------------------------
(* Sequences of requests, by index.                                        *)
LEMMA IsSeqOf ==
    ASSUME NEW S, NEW s \in Seq(S)
    PROVE  IsSeq(s) /\ Len(s) \in Nat /\ DOMAIN s = 1..Len(s)
<1>1. Len(s) \in Nat /\ DOMAIN s = 1..Len(s) /\ s = [i \in 1..Len(s) |-> s[i]]
  BY LenProperties
<1>2. \A i \in 1..Len(s) : s[i] \in ToSet(s)
  BY <1>1 DEF ToSet
<1> QED BY <1>1, <1>2, IsASeq DEF IsSeq

(* The length of a sequence, and where it is empty.                        *)
LEMMA IsSeqLen ==
    ASSUME NEW s, IsSeq(s)
    PROVE  /\ Len(s) \in Nat /\ DOMAIN s = 1..Len(s)
           /\ s # <<>> <=> Len(s) > 0
<1>1. s \in Seq(ToSet(s))
  BY DEF IsSeq
<1> QED BY <1>1, LenProperties, EmptySeq

(* How the queue moves: d requests were answered, "new" ones were sent.    *)
Moves(d, new) ==
    /\ d \in {0, 1} /\ d <= Len(queue) /\ IsSeq(new) /\ IsSeq(queue')
    /\ Len(queue') = Len(queue) - d + Len(new)
    /\ \A i \in 1..(Len(queue) - d) : queue'[i] = queue[i + d]
    /\ \A i \in 1..Len(new) : queue'[Len(queue) - d + i] = new[i]

(* Concatenation, index by index.                                          *)
LEMMA CatByIndex ==
    ASSUME NEW s, IsSeq(s), NEW t, IsSeq(t)
    PROVE  /\ IsSeq(s \o t) /\ Len(s \o t) = Len(s) + Len(t)
           /\ \A i \in 1..Len(s) : (s \o t)[i] = s[i]
           /\ \A i \in 1..Len(t) : (s \o t)[Len(s) + i] = t[i]
<1> DEFINE S == ToSet(s) \cup ToSet(t)
<1>1. s \in Seq(ToSet(s)) /\ t \in Seq(ToSet(t))
  BY DEF IsSeq
<1>2. s \in Seq(S) /\ t \in Seq(S)
  BY <1>1
<1>3. Len(s) \in Nat /\ Len(t) \in Nat
  BY <1>1, LenProperties
<1> HIDE DEF S
<1>4. /\ s \o t \in Seq(S) /\ Len(s \o t) = Len(s) + Len(t)
      /\ \A i \in 1..(Len(s) + Len(t)) :
            (s \o t)[i] = IF i <= Len(s) THEN s[i] ELSE t[i - Len(s)]
  BY <1>2, ConcatProperties
<1>5. IsSeq(s \o t)
  BY <1>4, IsSeqOf
<1>6. \A i \in 1..Len(s) : (s \o t)[i] = s[i]
  BY <1>3, <1>4
<1>7. ASSUME NEW i \in 1..Len(t) PROVE (s \o t)[Len(s) + i] = t[i]
  <2>1. Len(s) + i \in 1..(Len(s) + Len(t)) /\ ~(Len(s) + i <= Len(s)) /\ (Len(s) + i) - Len(s) = i
    BY <1>3
  <2> QED BY <1>4, <2>1
<1> QED BY <1>4, <1>5, <1>6, <1>7

(* The empty sequence, and one of a single request.                        *)
LEMMA FewRequests ==
    /\ IsSeq(<<>>) /\ Len(<<>>) = 0 /\ DOMAIN <<>> = {}
    /\ \A r : IsSeq(<<r>>) /\ Len(<<r>>) = 1 /\ <<r>>[1] = r /\ DOMAIN <<r>> = {1}
<1>1. <<>> \in Seq({}) /\ Len(<<>>) = 0
  BY EmptySeq
<1>2. IsSeq(<<>>) /\ DOMAIN <<>> = 1..0
  BY <1>1, IsSeqOf
<1>3. ASSUME NEW r PROVE IsSeq(<<r>>) /\ Len(<<r>>) = 1 /\ <<r>>[1] = r /\ DOMAIN <<r>> = {1}
  <2>1. <<r>> \in Seq({r}) /\ Len(<<r>>) = 1 /\ <<r>>[1] = r
    OBVIOUS
  <2>2. IsSeq(<<r>>) /\ DOMAIN <<r>> = 1..1
    BY <2>1, IsSeqOf
  <2> QED BY <2>1, <2>2
<1> QED BY <1>1, <1>2, <1>3

(* Requests are sent behind the queue.                                     *)
LEMMA MovesSent ==
    ASSUME IsSeq(queue), NEW new, IsSeq(new), queue' = queue \o new
    PROVE  Moves(0, new)
<1>1. Len(queue) \in Nat
  BY IsSeqLen
<1>2. \A i \in 1..Len(queue) : i + 0 = i
  BY <1>1
<1>3. Len(queue) - 0 = Len(queue) /\ 0 <= Len(queue)
  BY <1>1
<1> QED BY <1>1, <1>2, <1>3, CatByIndex DEF Moves

(* One request is sent.                                                    *)
LEMMA MovesAppended ==
    ASSUME IsSeq(queue), NEW r, queue' = Append(queue, r)
    PROVE  Moves(0, <<r>>)
<1>1. queue \in Seq(ToSet(queue) \cup {r})
  <2>1. queue \in Seq(ToSet(queue))
    BY DEF IsSeq
  <2> QED BY <2>1
<1>2. Append(queue, r) = queue \o <<r>>
  BY <1>1, AppendIsConcat
<1> QED BY <1>2, FewRequests, MovesSent

(* Nothing is answered or sent.                                            *)
LEMMA MovesNot ==
    ASSUME IsSeq(queue), queue' = queue
    PROVE  Moves(0, <<>>)
<1>1. queue \in Seq(ToSet(queue))
  BY DEF IsSeq
<1>2. queue \o <<>> = queue
  BY <1>1, ConcatEmptySeq
<1> QED BY <1>2, FewRequests, MovesSent

(* The request at the front is answered, and others are sent.              *)
LEMMA MovesAnswered ==
    ASSUME IsSeq(queue), queue # <<>>, NEW new, IsSeq(new), queue' = Tail(queue) \o new
    PROVE  Moves(1, new) /\ Head(queue) = queue[1] /\ 1 \in DOMAIN queue
<1>1. queue \in Seq(ToSet(queue))
  BY DEF IsSeq
<1>2. /\ Tail(queue) \in Seq(ToSet(queue)) /\ Len(Tail(queue)) = Len(queue) - 1
      /\ \A i \in 1..Len(Tail(queue)) : Tail(queue)[i] = queue[i + 1]
      /\ Head(queue) = queue[1]
  BY <1>1, HeadTailProperties
<1>3. Len(queue) \in Nat /\ Len(queue) > 0 /\ DOMAIN queue = 1..Len(queue)
  BY IsSeqLen
<1>4. IsSeq(Tail(queue))
  BY <1>2, IsSeqOf
<1> QED BY <1>2, <1>3, <1>4, CatByIndex DEF Moves

(* The request at the front is answered, and nothing is sent.              *)
LEMMA MovesOff ==
    ASSUME IsSeq(queue), queue # <<>>, queue' = Tail(queue)
    PROVE  Moves(1, <<>>) /\ Head(queue) = queue[1] /\ 1 \in DOMAIN queue
<1>1. queue \in Seq(ToSet(queue))
  BY DEF IsSeq
<1>2. Tail(queue) \in Seq(ToSet(queue))
  BY <1>1, HeadTailProperties
<1>3. Tail(queue) \o <<>> = Tail(queue)
  BY <1>2, ConcatEmptySeq
<1> QED BY <1>3, FewRequests, MovesAnswered

(* Where a request in the queue comes from, and where one goes to.         *)
LEMMA MovesIs ==
    ASSUME IsSeq(queue), NEW d, NEW new, Moves(d, new)
    PROVE  /\ DOMAIN queue = 1..Len(queue) /\ DOMAIN queue' = 1..Len(queue')
           /\ DOMAIN new = 1..Len(new)
           /\ Len(queue) \in Nat /\ Len(queue') \in Nat /\ Len(new) \in Nat
           /\ \A i \in DOMAIN queue' :
                 \/ i + d \in DOMAIN queue /\ i \in 1..(Len(queue) - d) /\ queue'[i] = queue[i + d]
                 \/ \E k \in DOMAIN new : i = Len(queue) - d + k /\ queue'[i] = new[k]
           /\ \A i \in DOMAIN queue : i > d =>
                 i - d \in DOMAIN queue' /\ queue'[i - d] = queue[i]
           /\ \A k \in DOMAIN new :
                 /\ Len(queue) - d + k \in DOMAIN queue'
                 /\ queue'[Len(queue) - d + k] = new[k]
<1>1. /\ DOMAIN queue = 1..Len(queue) /\ Len(queue) \in Nat
      /\ DOMAIN queue' = 1..Len(queue') /\ Len(queue') \in Nat
      /\ DOMAIN new = 1..Len(new) /\ Len(new) \in Nat
  BY IsSeqLen DEF Moves
<1>2. d \in {0, 1} /\ d <= Len(queue) /\ Len(queue') = Len(queue) - d + Len(new)
  BY DEF Moves
<1>3. ASSUME NEW i \in DOMAIN queue'
      PROVE  \/ i + d \in DOMAIN queue /\ i \in 1..(Len(queue) - d) /\ queue'[i] = queue[i + d]
             \/ \E k \in DOMAIN new : i = Len(queue) - d + k /\ queue'[i] = new[k]
  <2>1. CASE i <= Len(queue) - d
    <3>1. i \in 1..(Len(queue) - d) /\ i + d \in 1..Len(queue)
      BY <1>1, <1>2, <2>1
    <3> QED BY <1>1, <3>1 DEF Moves
  <2>2. CASE ~(i <= Len(queue) - d)
    <3>1. PICK l, k, m : l = Len(queue) - d /\ k = i - l /\ m = Len(new)
      OBVIOUS
    <3>2. l \in Int /\ m \in Int /\ i \in 1..(l + m) /\ ~(i <= l) /\ k = i - l
      BY <1>1, <1>2, <2>2, <3>1
    <3>3. k \in 1..m /\ i = l + k
      BY ONLY <3>2
    <3> QED BY <1>1, <3>1, <3>3 DEF Moves
  <2> QED BY <2>1, <2>2
<1>4. ASSUME NEW i \in DOMAIN queue, i > d
      PROVE  i - d \in DOMAIN queue' /\ queue'[i - d] = queue[i]
  <2>1. i - d \in 1..(Len(queue) - d) /\ i - d \in 1..Len(queue') /\ (i - d) + d = i
    BY <1>1, <1>2, <1>4
  <2> QED BY <1>1, <2>1 DEF Moves
<1>5. ASSUME NEW k \in DOMAIN new
      PROVE  /\ Len(queue) - d + k \in DOMAIN queue'
             /\ queue'[Len(queue) - d + k] = new[k]
  BY <1>1, <1>2, <1>5 DEF Moves
<1> QED BY <1>1, <1>3, <1>4, <1>5

-----------------------------------------------------------------------------
(* What the moves of the queue leave of an upload.                         *)
ForUpload(r, u) == About(r, u) /\ r.op \in UploadOps \cup {"piece"}

(* The requests of an upload, told apart by their operation.               *)
LEMMA OpsApart ==
    ASSUME NEW r, NEW u
    PROVE  /\ Turn(r, u) => ForUpload(r, u) /\ ~InOnePiece(r, u)
           /\ InOnePiece(r, u) => ForUpload(r, u)
           /\ SegmentOf(r, u) => Turn(r, u) /\ ForUpload(r, u) /\ r.op = "segment"
           /\ Turn(r, u) /\ r.op = "segment" => SegmentOf(r, u)
           /\ ForUpload(r, u) => Turn(r, u) \/ InOnePiece(r, u)
BY DEF Turn, ForUpload, InOnePiece, SegmentOf, UploadOps

(* Nothing sent is about it, and its turn is not taken from it.            *)
LEMMA UploadStays ==
    ASSUME IsSeq(queue), NEW d, NEW new, Moves(d, new), NEW u, UploadInv(u),
           upload'[u] = upload[u],
           \A k \in DOMAIN new : ~ForUpload(new[k], u),
           d = 1 => ~Turn(queue[1], u)
    PROVE  UploadInv(u)' /\ (GoesOn(u)' <=> GoesOn(u))
<1>1. /\ DOMAIN queue = 1..Len(queue) /\ Len(queue) \in Nat /\ d \in {0, 1}
      /\ DOMAIN queue' = 1..Len(queue') /\ Len(queue') \in Nat
  BY MovesIs DEF Moves
<1>2. ASSUME NEW i \in DOMAIN queue', ForUpload(queue'[i], u)
      PROVE  i + d \in DOMAIN queue /\ queue'[i] = queue[i + d]
  BY <1>2, MovesIs
<1>3. ASSUME NEW i \in DOMAIN queue, Turn(queue[i], u)
      PROVE  i - d \in DOMAIN queue' /\ queue'[i - d] = queue[i]
  <2>1. i > d
    <3>1. i >= 1
      BY <1>1
    <3>2. CASE d = 0
      BY <1>1, <3>1, <3>2
    <3>3. CASE d = 1
      <4>1. i # 1
        BY <1>3, <3>3
      <4> QED BY <1>1, <3>1, <3>3, <4>1
    <3> QED BY <1>1, <3>2, <3>3
  <2> QED BY <2>1, MovesIs
<1>4. ASSUME NEW i \in DOMAIN queue', NEW j \in DOMAIN queue',
             Turn(queue'[i], u), Turn(queue'[j], u)
      PROVE  i = j
  <2>1. /\ i + d \in DOMAIN queue /\ queue'[i] = queue[i + d]
        /\ j + d \in DOMAIN queue /\ queue'[j] = queue[j + d]
    BY <1>2, <1>4, OpsApart
  <2>2. i + d = j + d
    BY <1>4, <2>1 DEF UploadInv
  <2> QED BY <1>1, <2>2
<1>5. (\E i \in DOMAIN queue' : Turn(queue'[i], u)) <=> \E i \in DOMAIN queue : Turn(queue[i], u)
  <2>1. ASSUME NEW i \in DOMAIN queue', Turn(queue'[i], u)
        PROVE  \E j \in DOMAIN queue : Turn(queue[j], u)
    BY <1>2, <2>1, OpsApart
  <2>2. ASSUME NEW i \in DOMAIN queue, Turn(queue[i], u)
        PROVE  \E j \in DOMAIN queue' : Turn(queue'[j], u)
    BY <1>3, <2>2
  <2> QED BY <2>1, <2>2
<1>6. GoesOn(u)' <=> GoesOn(u)
  BY <1>5 DEF GoesOn
<1>7. upload'[u].flowing => /\ ~upload'[u].end /\ ~upload'[u].reading
                            /\ \A i \in DOMAIN queue' : ~Turn(queue'[i], u)
  BY <1>5 DEF UploadInv
<1>8. upload'[u].end /\ ~upload'[u].reading =>
         \A i \in DOMAIN queue' : ~SegmentOf(queue'[i], u)
  <2>1. SUFFICES ASSUME upload[u].end, ~upload[u].reading,
                        NEW i \in DOMAIN queue', SegmentOf(queue'[i], u)
                 PROVE  FALSE
    OBVIOUS
  <2>2. i + d \in DOMAIN queue /\ SegmentOf(queue[i + d], u)
    BY <1>2, <2>1, OpsApart
  <2> QED BY <2>1, <2>2 DEF UploadInv
<1>9. ASSUME NEW i \in DOMAIN queue', InOnePiece(queue'[i], u)
      PROVE  \/ upload'[u].flowing /\ upload'[u].chunks # <<>>
             \/ \E j \in DOMAIN queue' : i < j /\ SegmentOf(queue'[j], u)
  <2>1. i + d \in DOMAIN queue /\ InOnePiece(queue[i + d], u)
    BY <1>2, <1>9, OpsApart
  <2>2. CASE upload[u].flowing /\ upload[u].chunks # <<>>
    BY <2>2
  <2>3. ASSUME NEW j \in DOMAIN queue, i + d < j, SegmentOf(queue[j], u)
        PROVE  \E m \in DOMAIN queue' : i < m /\ SegmentOf(queue'[m], u)
    <3>1. j - d \in DOMAIN queue' /\ queue'[j - d] = queue[j]
      BY <1>3, <2>3, OpsApart
    <3>2. i < j - d
      BY <1>1, <2>3
    <3> QED BY <2>3, <3>1, <3>2
  <2> QED BY <2>1, <2>2, <2>3 DEF UploadInv
<1> QED BY <1>4, <1>6, <1>7, <1>8, <1>9 DEF UploadInv

(* Behind its turn at the front, the queue holds nothing of an upload.     *)
LEMMA AtTurn ==
    ASSUME IsSeq(queue), queue # <<>>, NEW u, UploadInv(u), Turn(queue[1], u)
    PROVE  /\ ~upload[u].flowing
           /\ queue[1].op = "segment" => (upload[u].end => upload[u].reading)
           /\ \A i \in DOMAIN queue : i > 1 => ~ForUpload(queue[i], u)
           /\ GoesOn(u)
<1>1. DOMAIN queue = 1..Len(queue) /\ Len(queue) \in Nat /\ 1 \in DOMAIN queue
  BY IsSeqLen
<1>2. GoesOn(u)
  BY <1>1 DEF GoesOn
<1>3. ~upload[u].flowing
  BY <1>1 DEF UploadInv
<1>4. queue[1].op = "segment" => (upload[u].end => upload[u].reading)
  BY <1>1, OpsApart DEF UploadInv
<1>5. ASSUME NEW i \in DOMAIN queue, i > 1, ForUpload(queue[i], u)
      PROVE  FALSE
  <2>1. CASE Turn(queue[i], u)
    BY <1>1, <1>5, <2>1 DEF UploadInv
  <2>2. CASE InOnePiece(queue[i], u)
    <3>1. PICK j \in DOMAIN queue : i < j /\ SegmentOf(queue[j], u)
      BY <1>3, <2>2 DEF UploadInv
    <3>2. j = 1
      BY <1>1, <3>1, OpsApart DEF UploadInv
    <3> QED BY <1>1, <1>5, <3>1, <3>2
  <2> QED BY <1>5, <2>1, <2>2, OpsApart
<1> QED BY <1>2, <1>3, <1>4, <1>5

(* What is left of it then is gone when nothing new is sent.               *)
Clear(d, u) == \A i \in DOMAIN queue : i > d => ~ForUpload(queue[i], u)

(* An upload whose requests are gone ends, or its stream flows again.      *)
LEMMA UploadEnds ==
    ASSUME IsSeq(queue), NEW d, NEW new, Moves(d, new), NEW u, Clear(d, u),
           \A k \in DOMAIN new : ~ForUpload(new[k], u),
           upload'[u].flowing => ~upload'[u].end /\ ~upload'[u].reading
    PROVE  UploadInv(u)' /\ (GoesOn(u)' <=> upload'[u].flowing)
<1>1. ASSUME NEW i \in DOMAIN queue' PROVE ~ForUpload(queue'[i], u)
  <2>1. DOMAIN queue = 1..Len(queue) /\ Len(queue) \in Nat /\ d \in {0, 1}
    BY MovesIs DEF Moves
  <2>2. CASE i + d \in DOMAIN queue /\ i \in 1..(Len(queue) - d) /\ queue'[i] = queue[i + d]
    <3>1. i + d > d
      BY <2>1, <2>2
    <3> QED BY <2>2, <3>1 DEF Clear
  <2>3. CASE \E k \in DOMAIN new : queue'[i] = new[k]
    BY <2>3
  <2> QED BY <2>2, <2>3, MovesIs
<1>2. \A i \in DOMAIN queue' : /\ ~Turn(queue'[i], u) /\ ~SegmentOf(queue'[i], u)
                               /\ ~InOnePiece(queue'[i], u)
  BY <1>1, OpsApart
<1>3. UploadInv(u)'
  BY <1>2 DEF UploadInv
<1>4. GoesOn(u)' <=> upload'[u].flowing
  BY <1>2 DEF GoesOn
<1> QED BY <1>3, <1>4

(* One request is sent for it, at n of the new ones.                       *)
LEMMA UploadTurns ==
    ASSUME IsSeq(queue), NEW d, NEW new, Moves(d, new), NEW u,
           NEW n \in DOMAIN new, Turn(new[n], u),
           \A k \in DOMAIN new : ForUpload(new[k], u) => k = n,
           \A i \in DOMAIN queue : i > d =>
              /\ ~Turn(queue[i], u)
              /\ InOnePiece(queue[i], u) => new[n].op = "segment",
           ~upload'[u].flowing,
           new[n].op = "segment" => (upload'[u].end => upload'[u].reading)
    PROVE  UploadInv(u)' /\ GoesOn(u)'
<1> DEFINE m == Len(queue) - d + n
<1>1. /\ DOMAIN queue = 1..Len(queue) /\ Len(queue) \in Nat /\ d \in {0, 1}
      /\ DOMAIN queue' = 1..Len(queue') /\ DOMAIN new = 1..Len(new) /\ Len(new) \in Nat
      /\ d <= Len(queue)
  BY MovesIs DEF Moves
<1>2. m \in DOMAIN queue' /\ queue'[m] = new[n] /\ n \in Nat \ {0}
  BY <1>1, MovesIs
<1>3. ASSUME NEW i \in DOMAIN queue', ForUpload(queue'[i], u), i # m
      PROVE  i < m /\ ~Turn(queue'[i], u) /\ new[n].op = "segment"
  <2>1. ASSUME NEW k \in DOMAIN new, i = Len(queue) - d + k, queue'[i] = new[k]
        PROVE  FALSE
    BY <1>3, <2>1
  <2>2. /\ i + d \in DOMAIN queue /\ i \in 1..(Len(queue) - d) /\ queue'[i] = queue[i + d]
    BY <2>1, MovesIs
  <2>3. i + d > d /\ i < m
    BY <1>1, <1>2, <2>2
  <2>4. ~Turn(queue'[i], u)
    BY <2>2, <2>3
  <2>5. InOnePiece(queue'[i], u)
    BY <1>3, <2>4, OpsApart
  <2> QED BY <2>2, <2>3, <2>4, <2>5
<1>4. GoesOn(u)'
  BY <1>2 DEF GoesOn
<1>5. ASSUME NEW i \in DOMAIN queue', Turn(queue'[i], u) PROVE i = m
  BY <1>3, <1>5, OpsApart
<1> HIDE DEF m
<1>6. \A i, j \in DOMAIN queue' : Turn(queue'[i], u) /\ Turn(queue'[j], u) => i = j
  BY <1>5
<1>7. upload'[u].end /\ ~upload'[u].reading =>
         \A i \in DOMAIN queue' : ~SegmentOf(queue'[i], u)
  BY <1>2, <1>5, OpsApart
<1>8. ASSUME NEW i \in DOMAIN queue', InOnePiece(queue'[i], u)
      PROVE  \E j \in DOMAIN queue' : i < j /\ SegmentOf(queue'[j], u)
  <2>1. i # m
    BY <1>2, <1>8, OpsApart
  <2>2. i < m /\ new[n].op = "segment"
    BY <1>3, <1>8, <2>1, OpsApart
  <2> QED BY <1>2, <2>2, OpsApart
<1> QED BY <1>4, <1>6, <1>7, <1>8 DEF UploadInv

(* Its stream flows on: at most a chunk in one piece is sent, and more is  *)
(* to follow.                                                              *)
LEMMA UploadFlows ==
    ASSUME IsSeq(queue), NEW d, NEW new, Moves(d, new), NEW u,
           \A k \in DOMAIN new : ~Turn(new[k], u),
           \A i \in DOMAIN queue : i > d => ~Turn(queue[i], u),
           upload'[u].flowing, ~upload'[u].end, ~upload'[u].reading,
           upload'[u].chunks # <<>>
    PROVE  UploadInv(u)' /\ GoesOn(u)'
<1>1. ASSUME NEW i \in DOMAIN queue' PROVE ~Turn(queue'[i], u)
  <2>1. DOMAIN queue = 1..Len(queue) /\ Len(queue) \in Nat /\ d \in {0, 1}
    BY MovesIs DEF Moves
  <2>2. CASE i + d \in DOMAIN queue /\ i \in 1..(Len(queue) - d) /\ queue'[i] = queue[i + d]
    <3>1. i + d > d
      BY <2>1, <2>2
    <3> QED BY <2>2, <3>1
  <2>3. CASE \E k \in DOMAIN new : queue'[i] = new[k]
    BY <2>3
  <2> QED BY <2>2, <2>3, MovesIs
<1>2. UploadInv(u)'
  BY <1>1, OpsApart DEF UploadInv
<1> QED BY <1>2 DEF GoesOn

-----------------------------------------------------------------------------
(* What leaves a call as it was: nothing of its execution is answered or   *)
(* sent, and the same uploads go on.                                       *)
ForCall(r, c) == Executes(r, c) \/ OfBatch(r, c)

(* The requests of a call, told apart by their operation.                  *)
LEMMA CallOpsApart ==
    ASSUME NEW r, NEW c
    PROVE  /\ Counted(r, c) => OfBatch(r, c)
           /\ OfBatch(r, c) => Counted(r, c) \/ r.op = "release"
           /\ OfBatch(r, c) => ~Executes(r, c) /\ ForCall(r, c)
           /\ Executes(r, c) => ForCall(r, c)
BY DEF Counted, OfBatch, Executes, ForCall, PacketOps, CountedOps

(* The requests for the execution of a call are those there were.          *)
LEMMA CallRequests ==
    ASSUME IsSeq(queue), NEW d, NEW new, Moves(d, new), NEW c,
           \A k \in DOMAIN new : ~ForCall(new[k], c)
    PROVE  /\ d \in {0, 1} /\ DOMAIN queue = 1..Len(queue) /\ Len(queue) \in Nat
           /\ DOMAIN queue' = 1..Len(queue')
           /\ \A i \in DOMAIN queue' : ForCall(queue'[i], c) =>
                 i + d \in DOMAIN queue /\ queue'[i] = queue[i + d]
           /\ \A i \in DOMAIN queue : i > d =>
                 i - d \in DOMAIN queue' /\ queue'[i - d] = queue[i]
<1>1. /\ d \in {0, 1} /\ DOMAIN queue = 1..Len(queue) /\ Len(queue) \in Nat
      /\ DOMAIN queue' = 1..Len(queue')
  BY MovesIs DEF Moves
<1>2. ASSUME NEW i \in DOMAIN queue', ForCall(queue'[i], c)
      PROVE  i + d \in DOMAIN queue /\ queue'[i] = queue[i + d]
  BY <1>2, MovesIs
<1>3. \A i \in DOMAIN queue : i > d =>
         i - d \in DOMAIN queue' /\ queue'[i - d] = queue[i]
  BY MovesIs
<1> QED BY <1>1, <1>2, <1>3

CallSame(c) ==
    /\ job' = job /\ told'[c] = told[c] /\ left'[c] = left[c] /\ failed'[c] = failed[c]
    /\ batch'[c] = batch[c] /\ Exec!RunsOf(c)' = Exec!RunsOf(c)

(* The same uploads go on.                                                 *)
LEMMA AliveStays ==
    ASSUME NEW c, job' = job,
           \A x \in Exec!PlacesOf(c) : GoesOn(<<c, x>>)' <=> GoesOn(<<c, x>>)
    PROVE  Alive(c)' = Alive(c)
<1>1. Exec!PlacesOf(c)' = Exec!PlacesOf(c)
  BY DEF Exec!PlacesOf
<1> QED BY <1>1 DEF Alive

(* What a callback was told stays.                                         *)
LEMMA ToldStays ==
    ASSUME NEW c, CallSame(c), ToldOnce(c) PROVE ToldOnce(c)'
BY DEF CallSame, ToldOnce

(* A statement that a step is not about.                                   *)
LEMMA StatementStays ==
    ASSUME IsSeq(queue), NEW d, NEW new, Moves(d, new), NEW c, StatementInv(c), CallSame(c),
           \A k \in DOMAIN new : ~ForCall(new[k], c), Alive(c)' = Alive(c)
    PROVE  StatementInv(c)'
<1>1. /\ d \in {0, 1} /\ DOMAIN queue = 1..Len(queue) /\ Len(queue) \in Nat
      /\ DOMAIN queue' = 1..Len(queue')
      /\ \A i \in DOMAIN queue' : ForCall(queue'[i], c) =>
            i + d \in DOMAIN queue /\ queue'[i] = queue[i + d]
  BY CallRequests
<1>2. /\ told'[c] = told[c] /\ Exec!RunsOf(c)' = Exec!RunsOf(c)
  BY DEF CallSame
<1>3. \A i \in DOMAIN queue' : ~OfBatch(queue'[i], c)
  BY <1>1, CallOpsApart DEF StatementInv
<1>4. \A i \in DOMAIN queue' : Executes(queue'[i], c) =>
         i + d \in DOMAIN queue /\ Executes(queue[i + d], c)
  BY <1>1, CallOpsApart
<1>5. ASSUME NEW i \in DOMAIN queue', NEW j \in DOMAIN queue',
             Executes(queue'[i], c), Executes(queue'[j], c)
      PROVE  i = j
  <2>1. i + d = j + d
    BY <1>4, <1>5 DEF StatementInv
  <2> QED BY <1>1, <2>1
<1>6. \A i \in DOMAIN queue' : Executes(queue'[i], c) => Alive(c)' = {}
  BY <1>4 DEF StatementInv
<1>7. \A x, y \in Alive(c)' : x = y
  BY DEF StatementInv
<1>8. told'[c] = <<>> => Exec!RunsOf(c)' = {}
  BY <1>2 DEF StatementInv
<1>9. told'[c] # <<>> => /\ Alive(c)' = {} /\ ToldOnce(c)'
                         /\ \A i \in DOMAIN queue' : ~Executes(queue'[i], c)
  BY <1>2, <1>4, ToldStays DEF StatementInv
<1> QED BY <1>3, <1>5, <1>6, <1>7, <1>8, <1>9 DEF StatementInv

(* The packets of a batch, one position further to the front if a request  *)
(* was answered.                                                           *)
LEMMA SendingStays ==
    ASSUME IsSeq(queue), NEW d, NEW new, Moves(d, new), NEW c, CallSame(c),
           \A i \in DOMAIN new : ~ForCall(new[i], c),
           d = 1 => ~ForCall(queue[1], c),
           NEW k \in DOMAIN queue, Sending(c, k)
    PROVE  k - d \in DOMAIN queue' /\ Sending(c, k - d)'
<1> DEFINE a == k - left[c] + 1
           b == (k - d) - left[c] + 1
<1>1. /\ d \in {0, 1} /\ DOMAIN queue = 1..Len(queue) /\ Len(queue) \in Nat
      /\ DOMAIN queue' = 1..Len(queue')
      /\ \A i \in DOMAIN queue' : ForCall(queue'[i], c) =>
            i + d \in DOMAIN queue /\ queue'[i] = queue[i + d]
      /\ \A i \in DOMAIN queue : i > d =>
            i - d \in DOMAIN queue' /\ queue'[i - d] = queue[i]
  BY CallRequests
<1>2. /\ left'[c] = left[c] /\ failed'[c] = failed[c] /\ batch'[c] = batch[c]
  BY DEF CallSame
<1>3. /\ left[c] \in 1..k
      /\ \A i \in DOMAIN queue : Counted(queue[i], c) <=> a <= i /\ i <= k
      /\ \A i \in DOMAIN queue : OfBatch(queue[i], c) =>
            /\ queue[i].op = "open" => i = a
            /\ queue[i].op = "exec" <=> i = k
            /\ queue[i].op = "release" => i > k
      /\ IF queue[a].op = "open" THEN ~failed[c] /\ ~batch[c].open
         ELSE failed[c] = ~batch[c].open
  BY DEF Sending
<1>4. a \in DOMAIN queue /\ k \in Int /\ left[c] \in Int /\ b = a - d /\ a <= k
  BY <1>1, <1>3
<1> HIDE DEF a, b
<1>5. a > d
  <2>1. Counted(queue[a], c)
    BY <1>1, <1>3, <1>4
  <2>2. d = 1 => a # 1
    BY <2>1, CallOpsApart
  <2> QED BY <1>1, <1>4, <2>2
<1>6. /\ k > d /\ k - d \in DOMAIN queue' /\ b \in DOMAIN queue' /\ queue'[b] = queue[a]
  BY <1>1, <1>4, <1>5
<1>7. left[c] \in 1..(k - d)
  <2>1. left[c] = k - a + 1
    BY <1>4 DEF a
  <2> QED BY <1>1, <1>3, <1>4, <1>5, <2>1
<1>8. ASSUME NEW i \in DOMAIN queue', OfBatch(queue'[i], c)
      PROVE  i + d \in DOMAIN queue /\ queue'[i] = queue[i + d] /\ i \in Int
  BY <1>1, <1>8, CallOpsApart
<1>9. ASSUME NEW i \in DOMAIN queue'
      PROVE  Counted(queue'[i], c) <=> b <= i /\ i <= k - d
  <2>1. i \in Int
    BY <1>1
  <2>2. ASSUME Counted(queue'[i], c) PROVE b <= i /\ i <= k - d
    <3>1. i + d \in DOMAIN queue /\ Counted(queue[i + d], c)
      BY <1>8, <2>2, CallOpsApart
    <3>2. a <= i + d /\ i + d <= k
      BY <1>3, <3>1
    <3> QED BY <1>1, <1>4, <2>1, <3>2
  <2>3. ASSUME b <= i, i <= k - d PROVE Counted(queue'[i], c)
    <3>1. a <= i + d /\ i + d <= k /\ i + d > d /\ i + d \in 1..Len(queue) /\ (i + d) - d = i
      BY <1>1, <1>4, <1>5, <2>1, <2>3
    <3>2. Counted(queue[i + d], c) /\ queue'[i] = queue[i + d]
      BY <1>1, <1>3, <3>1
    <3> QED BY <3>2
  <2> QED BY <2>2, <2>3
<1>10. ASSUME NEW i \in DOMAIN queue', OfBatch(queue'[i], c)
       PROVE  /\ queue'[i].op = "open" => i = b
              /\ queue'[i].op = "exec" <=> i = k - d
              /\ queue'[i].op = "release" => i > k - d
  <2>1. i + d \in DOMAIN queue /\ queue'[i] = queue[i + d] /\ i \in Int
    BY <1>8, <1>10
  <2>2. /\ queue[i + d].op = "open" => i + d = a
        /\ queue[i + d].op = "exec" <=> i + d = k
        /\ queue[i + d].op = "release" => i + d > k
    BY <1>3, <1>10, <2>1
  <2> QED BY <1>1, <1>4, <2>1, <2>2
<1>11. IF queue'[b].op = "open" THEN ~failed'[c] /\ ~batch'[c].open
       ELSE failed'[c] = ~batch'[c].open
  BY <1>2, <1>3, <1>6
<1>12. b = (k - d) - left'[c] + 1
  BY <1>2 DEF b
<1> QED BY <1>2, <1>6, <1>7, <1>9, <1>10, <1>11, <1>12 DEF Sending

(* The batch of a call that is told may still be released.                 *)
LEMMA BatchStays ==
    ASSUME IsSeq(queue), NEW d, NEW new, Moves(d, new), NEW c, BatchCallInv(c), CallSame(c),
           \A i \in DOMAIN new : ~ForCall(new[i], c),
           d = 1 => ~ForCall(queue[1], c), Alive(c)' = Alive(c)
    PROVE  BatchCallInv(c)'
<1>1. /\ d \in {0, 1} /\ DOMAIN queue = 1..Len(queue) /\ Len(queue) \in Nat
      /\ \A i \in DOMAIN queue' : ForCall(queue'[i], c) =>
            i + d \in DOMAIN queue /\ queue'[i] = queue[i + d]
  BY CallRequests
<1>2. /\ told'[c] = told[c] /\ left'[c] = left[c] /\ failed'[c] = failed[c]
      /\ batch'[c] = batch[c] /\ Exec!RunsOf(c)' = Exec!RunsOf(c)
  BY DEF CallSame
<1>3. \A i \in DOMAIN queue' : ~Executes(queue'[i], c)
  BY <1>1, CallOpsApart DEF BatchCallInv
<1>4. CASE Uploading(c)
  <2>1. \A i \in DOMAIN queue' : ~OfBatch(queue'[i], c)
    BY <1>1, <1>4, CallOpsApart DEF Uploading
  <2>2. Uploading(c)'
    BY <1>2, <1>4, <2>1 DEF Uploading
  <2> QED BY <1>3, <2>2 DEF BatchCallInv
<1>5. CASE Executing(c)
  <2>1. PICK k \in DOMAIN queue : Sending(c, k)
    BY <1>5 DEF Executing
  <2>2. k - d \in DOMAIN queue' /\ Sending(c, k - d)'
    BY <2>1, SendingStays
  <2>3. Executing(c)'
    BY <1>2, <1>5, <2>2 DEF Executing
  <2> QED BY <1>3, <2>3 DEF BatchCallInv
<1>6. CASE Over(c)
  <2>1. \A i \in DOMAIN queue' : ~Counted(queue'[i], c)
    BY <1>1, <1>6, CallOpsApart DEF Over
  <2>2. Over(c)'
    BY <1>2, <1>6, <2>1, ToldStays DEF Over
  <2> QED BY <1>3, <2>2 DEF BatchCallInv
<1> QED BY <1>4, <1>5, <1>6 DEF BatchCallInv

(* A call that a step is not about.                                        *)
LEMMA CallStays ==
    ASSUME IsSeq(queue), NEW d, NEW new, Moves(d, new), NEW c, CallInv(c), CallSame(c),
           \A i \in DOMAIN new : ~ForCall(new[i], c),
           d = 1 => ~ForCall(queue[1], c),
           \A x \in Exec!PlacesOf(c) : GoesOn(<<c, x>>)' <=> GoesOn(<<c, x>>)
    PROVE  CallInv(c)'
<1>1. Alive(c)' = Alive(c)
  BY AliveStays DEF CallSame
<1>2. Exec!InBatch(c)' <=> Exec!InBatch(c)
  BY DEF CallSame, Exec!InBatch
<1>3. CASE Exec!InBatch(c)
  BY <1>1, <1>2, <1>3, BatchStays DEF CallInv
<1>4. CASE ~Exec!InBatch(c)
  BY <1>1, <1>2, <1>4, StatementStays DEF CallInv
<1> QED BY <1>3, <1>4

-----------------------------------------------------------------------------
(* The jobs, and the places of their values.                               *)
LEMMA JobIs ==
    ASSUME Exec!ExecuteAssumption, job \in Plans, NEW c \in Call
    PROVE  /\ job[c].kind \in {"statement", "batch"}
           /\ job[c].kind = "statement" => Len(job[c].rows) = 1
           /\ job[c].rows \in Seq(Seq(Exec!Val)) /\ Len(job[c].rows) \in Nat
           /\ DOMAIN job[c].rows = 1..Len(job[c].rows)
           /\ Len(job[c].input) \in Nat /\ DOMAIN job[c].input = 1..Len(job[c].input)
           /\ \A n \in DOMAIN job[c].named : job[c].named[n] \in Exec!Val
           /\ Exec!InBatch(c) <=> job[c].kind = "batch"
           /\ PerPacket \in Nat \ {0} /\ Chunk \in Nat \ {0}
<1>1. /\ Exec!IsJob(job[c]) /\ PerPacket \in Nat \ {0} /\ Chunk \in Nat \ {0}
  BY DEF Exec!ExecuteAssumption
<1>2. job[c].input \in Seq([name : STRING, type : STRING, length : Nat, scale : Int])
  BY <1>1 DEF Exec!IsJob
<1>3. Len(job[c].input) \in Nat /\ DOMAIN job[c].input = 1..Len(job[c].input)
  BY <1>2, LenProperties
<1>4. job[c].rows \in Seq(Seq(Exec!Val))
  BY <1>1 DEF Exec!IsJob
<1>5. Len(job[c].rows) \in Nat /\ DOMAIN job[c].rows = 1..Len(job[c].rows)
  BY <1>4, LenProperties
<1>6. /\ job[c].kind \in {"statement", "batch"}
      /\ job[c].kind = "statement" => Len(job[c].rows) = 1
      /\ \A n \in DOMAIN job[c].named : job[c].named[n] \in Exec!Val
  BY <1>1 DEF Exec!IsJob
<1> QED BY <1>1, <1>3, <1>4, <1>5, <1>6 DEF Exec!InBatch

(* The place of a value is one of an upload.                               *)
LEMMA PlaceIs ==
    ASSUME job \in Plans, NEW c \in Call, NEW x, Placed(c, x)
    PROVE  /\ x = <<x[1], x[2]>> /\ <<c, x>> \in Exec!Upload
           /\ x[1] \in DOMAIN job[c].rows /\ x[2] \in DOMAIN job[c].input
<1>1. x \in (DOMAIN job[c].rows) \X (DOMAIN job[c].input)
  BY DEF Placed, PlacedIn
<1>2. x \in Exec!Places
  <2> DEFINE of(plan, a) == (DOMAIN plan[a].rows) \X (DOMAIN plan[a].input)
  <2>1. of(job, c) \in {of(plan, a) : plan \in Plans, a \in Call}
    OBVIOUS
  <2>2. Exec!Places = UNION {of(plan, a) : plan \in Plans, a \in Call}
    BY DEF Exec!Places
  <2> HIDE DEF of
  <2>3. x \in of(job, c)
    BY <1>1 DEF of
  <2> QED BY <2>1, <2>2, <2>3
<1> QED BY <1>1, <1>2 DEF Exec!Upload

(* The values of the members of an object are values.                      *)
LEMMA MappedIs ==
    ASSUME Exec!ExecuteAssumption, job \in Plans, NEW c \in Call, job[c].kind = "statement"
    PROVE  Exec!Mapped(job[c]) \in Seq(Exec!Val)
<1> DEFINE j == job[c]
           names == {j.input[i].name : i \in DOMAIN j.input} \cap DOMAIN j.named
           last(i) == \A k \in DOMAIN j.input : j.input[k].name = j.input[i].name => k <= i
           member(i) == LET name == j.input[i].name
                        IN  IF name \in names /\ last(i) THEN j.named[name] ELSE Exec!Null
<1>1. Exec!Mapped(j) = IF names = {} THEN j.rows[1] ELSE [i \in DOMAIN j.input |-> member(i)]
  BY DEF Exec!Mapped
<1>2. j.rows[1] \in Seq(Exec!Val)
  BY JobIs
<1>3. ASSUME NEW i \in DOMAIN j.input PROVE member(i) \in Exec!Val
  <2>1. CASE j.input[i].name \in names /\ last(i)
    BY <2>1, JobIs
  <2>2. CASE ~(j.input[i].name \in names /\ last(i))
    <3>1. <<>> \in Seq(Seq(Nat))
      BY EmptySeq
    <3>2. Exec!Null = [is |-> "null", v |-> 0, chunks |-> <<>>]
      BY DEF Exec!Null, Exec!Value
    <3>3. \A e \in Seq(Seq(Nat)) : [is |-> "null", v |-> 0, chunks |-> e] \in Exec!Val
      BY DEF Exec!Val, Exec!Kinds
    <3>4. Exec!Null \in Exec!Val
      BY <3>1, <3>2, <3>3
    <3> QED BY <2>2, <3>4
  <2> QED BY <2>1, <2>2
<1> HIDE DEF member
<1>4. [i \in DOMAIN j.input |-> member(i)] \in Seq(Exec!Val)
  <2>1. Len(j.input) \in Nat /\ DOMAIN j.input = 1..Len(j.input)
    BY JobIs
  <2> QED BY <1>3, <2>1, IsASeq
<1> QED BY <1>1, <1>2, <1>4

(* The value that is uploaded; a stream ends with a long chunk.            *)
LEMMA ValueIs ==
    ASSUME Exec!ExecuteAssumption, Exec!ClosesOnce, job \in Plans, NEW c \in Call,
           NEW x, Placed(c, x)
    PROVE  LET value == Exec!Values(c, x[1])[x[2]]
           IN  /\ value.chunks \in Seq(Seq(Nat))
               /\ value.is = "stream" /\ ~Exec!InBatch(c) => LastIsLong(value.chunks)
<1> DEFINE j == job[c]
           values == Exec!ValuesOf(j, x[1])
           value == values[x[2]]
<1>1. Exec!Values(c, x[1]) = values
  BY DEF Exec!Values
<1>2. x[1] \in DOMAIN j.rows /\ x[2] \in DOMAIN j.input
  BY PlaceIs
<1>3. values \in Seq(Exec!Val)
  <2>1. CASE j.kind = "batch"
    <3>1. j.rows[x[1]] \in Seq(Exec!Val)
      BY <1>2, JobIs
    <3> QED BY <2>1, <3>1 DEF Exec!ValuesOf
  <2>2. CASE j.kind = "statement"
    BY <2>2, MappedIs DEF Exec!ValuesOf
  <2> QED BY <2>1, <2>2, JobIs
<1>4. x[2] \in DOMAIN values
  <2>1. DOMAIN values = 1..Len(values)
    BY <1>3, LenProperties
  <2>2. Len(values) = Len(j.input)
    BY <1>1 DEF Placed, PlacedIn
  <2> QED BY <1>2, <2>1, <2>2, JobIs
<1>5. value \in Exec!Val
  <2>1. DOMAIN values = 1..Len(values)
    BY <1>3, LenProperties
  <2> QED BY <1>3, <1>4, <2>1, ElementOfSeq
<1>6. value.chunks \in Seq(Seq(Nat))
  BY <1>5 DEF Exec!Val
<1>7. ASSUME value.is = "stream", ~Exec!InBatch(c), value.chunks # <<>>
      PROVE  Len(value.chunks[Len(value.chunks)]) > Chunk
  <2>1. Exec!LongLast(j)
    BY DEF Exec!ClosesOnce
  <2>2. j.kind = "statement"
    BY <1>7, JobIs
  <2>3. Len(Exec!Last(value.chunks)) > Chunk
    BY <1>2, <1>4, <1>7, <2>1, <2>2 DEF Exec!LongLast
  <2> QED BY <2>3 DEF Exec!Last
<1> HIDE DEF values
<1> QED BY <1>1, <1>6, <1>7 DEF LastIsLong

-----------------------------------------------------------------------------
(* The types, kept.                                                        *)
Later == job' = job /\ started \subseteq started'

(* A request as it may be in the queue after a step.                       *)
Fits(r) ==
    /\ r.call \in started' /\ r.op \in Ops
    /\ r.op \in UploadOps \cup {"piece"} => Placed(r.call, r.place)

(* The requests in the queue keep their types.                             *)
LEMMA QueueTypesKept ==
    ASSUME QueueTypes, Later, NEW d, NEW new, Moves(d, new),
           \A k \in DOMAIN new : Fits(new[k])
    PROVE  QueueTypes'
<1>1. IsSeq(queue) /\ IsSeq(queue')
  BY DEF QueueTypes, Moves
<1>2. ASSUME NEW i \in DOMAIN queue' PROVE Fits(queue'[i])
  <2>1. CASE i + d \in DOMAIN queue /\ queue'[i] = queue[i + d]
    <3>1. IsRequest(queue[i + d])
      BY <2>1 DEF QueueTypes
    <3> QED BY <2>1, <3>1 DEF IsRequest, Fits, Later
  <2>2. CASE \E k \in DOMAIN new : queue'[i] = new[k]
    BY <2>2
  <2> QED BY <1>1, <2>1, <2>2, MovesIs
<1>3. ASSUME NEW i \in DOMAIN queue'
      PROVE  /\ queue'[i].call \in started' /\ queue'[i].op \in Ops
             /\ queue'[i].op \in UploadOps \cup {"piece"} =>
                   PlacedIn(job'[queue'[i].call], queue'[i].place)
  BY <1>2 DEF Fits, Placed, Later
<1> QED BY <1>1, <1>3 DEF QueueTypes, IsRequest, Placed

(* The closures keep their types when one of them changes.                 *)
LEMMA UploadTypesKept ==
    ASSUME UploadTypes, Later
    PROVE  /\ upload' = upload => UploadTypes'
           /\ \A u \in Exec!Upload : \A closure :
                 /\ IsClosure(closure)
                 /\ closure.flowing => u[1] \in started /\ Placed(u[1], u[2])
                 /\ upload' = [upload EXCEPT ![u] = closure]
                 => /\ UploadTypes' /\ upload'[u] = closure
                    /\ \A v \in Exec!Upload : v # u => upload'[v] = upload[v]
<1>1. \A v \in Exec!Upload :
         v[1] \in started /\ Placed(v[1], v[2]) => v[1] \in started' /\ PlacedIn(job'[v[1]], v[2])
  BY DEF Later, Placed
<1>2. ASSUME upload' = upload PROVE UploadTypes'
  <2>1. upload' = [v \in Exec!Upload |-> upload'[v]]
    BY <1>2 DEF UploadTypes
  <2>2. \A v \in Exec!Upload : IsClosure(upload'[v])
    BY <1>2 DEF UploadTypes
  <2>3. \A v \in Exec!Upload : upload'[v].flowing =>
           v[1] \in started' /\ PlacedIn(job'[v[1]], v[2])
    BY <1>1, <1>2 DEF UploadTypes
  <2> QED BY <2>1, <2>2, <2>3 DEF UploadTypes, IsClosure, Placed
<1>3. ASSUME NEW u \in Exec!Upload, NEW closure, IsClosure(closure),
             closure.flowing => u[1] \in started /\ Placed(u[1], u[2]),
             upload' = [upload EXCEPT ![u] = closure]
      PROVE  /\ UploadTypes' /\ upload'[u] = closure
             /\ \A v \in Exec!Upload : v # u => upload'[v] = upload[v]
  <2>1. upload = [v \in Exec!Upload |-> upload[v]]
    BY DEF UploadTypes
  <2>2. upload' = [v \in Exec!Upload |-> IF v = u THEN closure ELSE upload[v]]
    BY <1>3, <2>1
  <2>3. upload' = [v \in Exec!Upload |-> upload'[v]]
    BY <2>2
  <2>4. \A v \in Exec!Upload : IsClosure(upload'[v])
    BY <1>3, <2>2 DEF UploadTypes
  <2>5. \A v \in Exec!Upload : upload'[v].flowing =>
           v[1] \in started' /\ PlacedIn(job'[v[1]], v[2])
    BY <1>1, <1>3, <2>2 DEF UploadTypes
  <2>6. UploadTypes'
    BY <2>3, <2>4, <2>5 DEF UploadTypes, IsClosure, Placed
  <2> QED BY <2>2, <2>6
<1> QED BY <1>2, <1>3

(* What a call counts and was told keeps its type.                         *)
LEMMA CallTypesKept ==
    ASSUME CallTypes, Later, UNCHANGED <<left, failed, told>> PROVE CallTypes'
BY DEF CallTypes, Later

(* What the server holds keeps its type.                                   *)
LEMMA ServerTypesKept ==
    ASSUME ServerTypes, Later, UNCHANGED <<batch, ran>> PROVE ServerTypes'
<1>1. IsSeq(ran) => IsSeq(ran)'
  BY DEF IsSeq
<1> QED BY <1>1 DEF ServerTypes, Later, IsBatch

(* The uploads of different values, and the requests of other calls.       *)
LEMMA UploadsApart ==
    ASSUME NEW u \in Exec!Upload, NEW v \in Exec!Upload, u # v, NEW r, ForUpload(r, u)
    PROVE  ~ForUpload(r, v)
<1>1. u = <<u[1], u[2]>> /\ v = <<v[1], v[2]>>
  BY DEF Exec!Upload
<1> QED BY <1>1 DEF ForUpload, About

(* A request of an upload is not one of the execution.                     *)
LEMMA UploadNotCall ==
    ASSUME NEW u, NEW c, NEW r, ForUpload(r, u) PROVE ~ForCall(r, c)
BY DEF ForUpload, ForCall, Executes, OfBatch, PacketOps, UploadOps

(* Each place of a call has its upload.                                    *)
LEMMA PlacesAreUploads ==
    ASSUME job \in Plans, NEW c \in Call, NEW x \in Exec!PlacesOf(c)
    PROVE  <<c, x>> \in Exec!Upload
<1> DEFINE of(plan, a) == (DOMAIN plan[a].rows) \X (DOMAIN plan[a].input)
<1>1. of(job, c) \in {of(plan, a) : plan \in Plans, a \in Call}
  OBVIOUS
<1>2. Exec!Places = UNION {of(plan, a) : plan \in Plans, a \in Call}
  BY DEF Exec!Places
<1>3. x \in of(job, c)
  BY DEF Exec!PlacesOf
<1> HIDE DEF of
<1>4. x \in Exec!Places
  BY <1>1, <1>2, <1>3
<1> QED BY <1>4 DEF Exec!Upload

(* A step of the upload u by which it goes on, or that does not touch it:  *)
(* the calls do not see it.                                                *)
LEMMA QuietStep ==
    ASSUME ExecuteInv, Later, started' = started, NEW d, NEW new, Moves(d, new),
           UNCHANGED <<left, failed, told, batch, ran>>, NEW u \in Exec!Upload,
           \A k \in DOMAIN new : ForUpload(new[k], u) /\ Fits(new[k]),
           d = 1 => ForUpload(queue[1], u),
           UploadTypes', \A v \in Exec!Upload : v # u => upload'[v] = upload[v],
           UploadInv(u)', GoesOn(u)' <=> GoesOn(u)
    PROVE  ExecuteInv'
<1>1. /\ job \in Plans /\ started \subseteq Call /\ IsSeq(queue)
      /\ QueueTypes /\ UploadTypes /\ CallTypes /\ ServerTypes
  BY DEF ExecuteInv, Types, QueueTypes
<1>2. Types'
  <2>1. QueueTypes'
    BY <1>1, QueueTypesKept
  <2>2. CallTypes' /\ ServerTypes'
    BY <1>1, CallTypesKept, ServerTypesKept
  <2> QED BY <1>1, <2>1, <2>2 DEF Types, Later
<1>3. Exec!Upload' = Exec!Upload
  BY DEF Exec!Upload
<1>4. ASSUME NEW v \in Exec!Upload, v # u
      PROVE  UploadInv(v)' /\ (GoesOn(v)' <=> GoesOn(v))
  <2>1. \A k \in DOMAIN new : ~ForUpload(new[k], v)
    BY <1>4, UploadsApart
  <2>2. d = 1 => ~Turn(queue[1], v)
    BY <1>4, UploadsApart, OpsApart
  <2>3. UploadInv(v) /\ upload'[v] = upload[v]
    BY <1>4 DEF ExecuteInv
  <2> QED BY <1>1, <2>1, <2>2, <2>3, UploadStays
<1>5. \A v \in Exec!Upload : UploadInv(v)' /\ (GoesOn(v)' <=> GoesOn(v))
  BY <1>4
<1>6. ASSUME NEW c \in Call PROVE CallInv(c)'
  <2>1. Exec!RunsOf(c)' = Exec!RunsOf(c)
    BY DEF Exec!RunsOf
  <2>2. CallSame(c)
    BY <2>1 DEF CallSame, Later
  <2>3. CallInv(c)
    BY DEF ExecuteInv
  <2>4. \A k \in DOMAIN new : ~ForCall(new[k], c)
    BY UploadNotCall
  <2>5. d = 1 => ~ForCall(queue[1], c)
    BY UploadNotCall
  <2>6. \A x \in Exec!PlacesOf(c) : GoesOn(<<c, x>>)' <=> GoesOn(<<c, x>>)
    BY <1>1, <1>5, PlacesAreUploads
  <2> QED BY <1>1, <2>2, <2>3, <2>4, <2>5, <2>6, CallStays
<1> QED BY <1>2, <1>3, <1>5, <1>6 DEF ExecuteInv

-----------------------------------------------------------------------------
(* The uploads, step by step.                                              *)
LEMMA AnswerIs ==
    ASSUME ExecuteInv, NEW op, NEW ok, Exec!Answer(op, ok)
    PROVE  /\ IsSeq(queue) /\ queue # <<>> /\ 1 \in DOMAIN queue /\ Head(queue) = queue[1]
           /\ queue[1].op = op /\ Later /\ started' = started /\ job \in Plans
           /\ queue[1].call \in started /\ queue[1].call \in Call
           /\ Exec!Up = <<queue[1].call, queue[1].place>>
           /\ Exec!Up[1] \in started /\ Exec!Up[1] \in Call
           /\ op \in UploadOps \cup {"piece"} =>
                 /\ Exec!Up \in Exec!Upload /\ Placed(Exec!Up[1], Exec!Up[2])
                 /\ ForUpload(queue[1], Exec!Up)
                 /\ UploadInv(Exec!Up) /\ IsClosure(upload[Exec!Up])
           /\ op \in UploadOps => Turn(queue[1], Exec!Up)
<1> DEFINE r == queue[1]
           u == <<r.call, r.place>>
<1>1. /\ job \in Plans /\ started \subseteq Call /\ IsSeq(queue) /\ UploadTypes
      /\ \A i \in DOMAIN queue : IsRequest(queue[i])
  BY DEF ExecuteInv, Types, QueueTypes
<1>2. queue # <<>> /\ Head(queue).op = op /\ UNCHANGED <<old, job, started>>
  BY DEF Exec!Answer
<1>3. 1 \in DOMAIN queue /\ Head(queue) = queue[1]
  <2>1. queue \in Seq(ToSet(queue))
    BY <1>1 DEF IsSeq
  <2>2. Len(queue) > 0 /\ Len(queue) \in Nat /\ DOMAIN queue = 1..Len(queue)
    BY <1>1, <1>2, IsSeqLen
  <2> QED BY <1>2, <2>1, <2>2, HeadTailProperties
<1>4. IsRequest(r) /\ r.op = op /\ Later /\ Exec!Up = u
  BY <1>1, <1>2, <1>3 DEF Later, Exec!Up
<1>5. r.call \in started /\ r.call \in Call
  BY <1>1, <1>4 DEF IsRequest
<1>6. ASSUME op \in UploadOps \cup {"piece"}
      PROVE  /\ u \in Exec!Upload /\ Placed(u[1], u[2]) /\ ForUpload(r, u)
             /\ UploadInv(u) /\ IsClosure(upload[u])
  <2>1. Placed(r.call, r.place)
    BY <1>4, <1>6 DEF IsRequest
  <2>2. u \in Exec!Upload
    BY <1>1, <1>5, <2>1, PlaceIs
  <2>3. UploadInv(u) /\ IsClosure(upload[u])
    BY <1>1, <2>2 DEF ExecuteInv, UploadTypes
  <2>4. ForUpload(r, u)
    BY <1>4, <1>6 DEF ForUpload, About
  <2> QED BY <2>1, <2>2, <2>3, <2>4
<1>7. op \in UploadOps => Turn(r, u)
  BY <1>4 DEF Turn, About
<1> HIDE DEF u, r
<1>8. r = queue[1] /\ u = <<queue[1].call, queue[1].place>> /\ u[1] = r.call
  BY DEF r, u
<1> QED BY <1>1, <1>2, <1>3, <1>4, <1>5, <1>6, <1>7, <1>8

(* The request that an upload sends.                                       *)
LEMMA SentIs ==
    ASSUME NEW u \in Exec!Upload, u[1] \in started', Placed(u[1], u[2]),
           NEW op \in UploadOps \cup {"piece"}, NEW data
    PROVE  LET r == Exec!Request(op, u, data)
           IN  /\ Fits(r) /\ ForUpload(r, u) /\ r.op = op
               /\ op \in UploadOps => Turn(r, u)
               /\ op = "piece" => ~Turn(r, u)
<1> DEFINE r == Exec!Request(op, u, data)
<1>1. r.op = op /\ r.call = u[1] /\ r.place = u[2]
  BY DEF Exec!Request
<1> HIDE DEF r
<1>2. Fits(r)
  BY <1>1 DEF Fits, Ops
<1>3. ForUpload(r, u)
  BY <1>1 DEF ForUpload, About
<1>4. (op \in UploadOps => Turn(r, u)) /\ (op = "piece" => ~Turn(r, u))
  BY <1>1 DEF Turn, About, UploadOps
<1> QED BY <1>1, <1>2, <1>3, <1>4 DEF r

(* A closure with a field changed is a closure.                            *)
LEMMA ClosureIs ==
    ASSUME NEW x, IsClosure(x)
    PROVE  /\ \A y : IsClosure([x EXCEPT !.rest = y]) /\ IsClosure([x EXCEPT !.error = y])
           /\ \A y \in BOOLEAN : /\ IsClosure([x EXCEPT !.flowing = y])
                                 /\ IsClosure([x EXCEPT !.reading = y])
                                 /\ IsClosure([x EXCEPT !.end = y])
           /\ \A y \in Seq(Seq(Nat)) : LastIsLong(y) => IsClosure([x EXCEPT !.chunks = y])
BY DEF IsClosure, ClosureFields

(* A step that answers the turn of u: with the next one, or its stream     *)
(* flows.                                                                  *)
TurnTaken(u, closure) ==
    /\ Later /\ started' = started /\ UNCHANGED <<left, failed, told, batch, ran>>
    /\ queue # <<>> /\ Turn(queue[1], u) /\ ForUpload(queue[1], u)
    /\ u[1] \in started /\ Placed(u[1], u[2])
    /\ upload' = [upload EXCEPT ![u] = closure] /\ IsClosure(closure)

(* An upload is answered and sends its next request.                       *)
LEMMA TurnStep ==
    ASSUME ExecuteInv, NEW u \in Exec!Upload, NEW closure, TurnTaken(u, closure),
           NEW op \in UploadOps, NEW data,
           queue' = Tail(queue) \o <<Exec!Request(op, u, data)>>,
           ~closure.flowing, op = "segment" => (closure.end => closure.reading)
    PROVE  ExecuteInv'
<1> DEFINE r == Exec!Request(op, u, data)
<1>1. /\ Later /\ started' = started /\ UNCHANGED <<left, failed, told, batch, ran>>
      /\ queue # <<>> /\ Turn(queue[1], u) /\ ForUpload(queue[1], u)
      /\ u[1] \in started /\ Placed(u[1], u[2])
      /\ upload' = [upload EXCEPT ![u] = closure] /\ IsClosure(closure)
  BY DEF TurnTaken
<1>2. IsSeq(queue) /\ UploadTypes /\ UploadInv(u)
  BY DEF ExecuteInv, Types, QueueTypes
<1>3. Fits(r) /\ ForUpload(r, u) /\ r.op = op /\ Turn(r, u)
  BY <1>1, SentIs
<1>4. Moves(1, <<r>>)
  BY <1>1, <1>2, FewRequests, MovesAnswered
<1> HIDE DEF r
<1>5. /\ UploadTypes' /\ upload'[u] = closure
      /\ \A v \in Exec!Upload : v # u => upload'[v] = upload[v]
  BY <1>1, <1>2, UploadTypesKept
<1>6. GoesOn(u) /\ \A i \in DOMAIN queue : i > 1 => ~ForUpload(queue[i], u)
  BY <1>1, <1>2, AtTurn
<1>7. UploadInv(u)' /\ GoesOn(u)'
  <2>1. 1 \in DOMAIN <<r>> /\ <<r>>[1] = r /\ \A k \in DOMAIN <<r>> : k = 1
    BY FewRequests
  <2>2. \A i \in DOMAIN queue : i > 1 => ~Turn(queue[i], u) /\ ~InOnePiece(queue[i], u)
    BY <1>6, OpsApart
  <2> QED BY <1>2, <1>3, <1>4, <1>5, <2>1, <2>2, UploadTurns
<1>8. \A k \in DOMAIN <<r>> : ForUpload(<<r>>[k], u) /\ Fits(<<r>>[k])
  BY <1>3, FewRequests
<1> QED BY <1>1, <1>4, <1>5, <1>6, <1>7, <1>8, QuietStep

(* An upload is answered and its stream flows on.                          *)
LEMMA FlowStep ==
    ASSUME ExecuteInv, NEW u \in Exec!Upload, NEW closure, TurnTaken(u, closure),
           queue' = Tail(queue) \o <<>>, closure.flowing, ~closure.end, ~closure.reading
    PROVE  ExecuteInv'
<1>1. /\ Later /\ started' = started /\ UNCHANGED <<left, failed, told, batch, ran>>
      /\ queue # <<>> /\ Turn(queue[1], u) /\ ForUpload(queue[1], u)
      /\ u[1] \in started /\ Placed(u[1], u[2])
      /\ upload' = [upload EXCEPT ![u] = closure] /\ IsClosure(closure)
  BY DEF TurnTaken
<1>2. IsSeq(queue) /\ UploadTypes /\ UploadInv(u)
  BY DEF ExecuteInv, Types, QueueTypes
<1>3. Moves(1, <<>>)
  BY <1>1, <1>2, FewRequests, MovesAnswered
<1>4. /\ UploadTypes' /\ upload'[u] = closure
      /\ \A v \in Exec!Upload : v # u => upload'[v] = upload[v]
  BY <1>1, <1>2, UploadTypesKept
<1>5. GoesOn(u) /\ \A i \in DOMAIN queue : i > 1 => ~ForUpload(queue[i], u)
  BY <1>1, <1>2, AtTurn
<1>6. UploadInv(u)' /\ (GoesOn(u)' <=> GoesOn(u))
  BY <1>2, <1>3, <1>4, <1>5, FewRequests, UploadEnds DEF Clear
<1> QED BY <1>1, <1>3, <1>4, <1>6, FewRequests, QuietStep

(* The upload that was created: its stream flows, or its first slice is    *)
(* sent.                                                                   *)
LEMMA CreatedKeeps ==
    ASSUME Exec!ExecuteAssumption, Exec!ClosesOnce, ExecuteInv, Exec!Created
    PROVE  ExecuteInv'
<1>0. PICK u : u = Exec!Up
  OBVIOUS
<1> DEFINE value == Exec!Values(u[1], u[2][1])[u[2][2]]
           text == Exec!Contents(value)
           n == [Exec!NoUpload EXCEPT !.blob = Len(blobs) + 1]
           flows == [n EXCEPT !.chunks = value.chunks, !.flowing = TRUE]
           sends == [n EXCEPT !.rest = Exec!Rest(text)]
<1>1. /\ Exec!Answer("create", TRUE)
      /\ IF Exec!IsStream(u)
         THEN upload' = [upload EXCEPT ![u] = flows] /\ queue' = Tail(queue) \o <<>>
         ELSE /\ upload' = [upload EXCEPT ![u] = sends]
              /\ queue' = Tail(queue) \o <<Exec!Slice(u, text)>>
      /\ UNCHANGED <<left, failed, told, batch, ran>>
  BY <1>0 DEF Exec!Created, Exec!Set, Exec!Also, Exec!ValueAt
<1>2. /\ queue # <<>> /\ Later /\ started' = started /\ job \in Plans
      /\ u[1] \in started /\ u[1] \in Call
      /\ u \in Exec!Upload /\ Placed(u[1], u[2]) /\ ForUpload(queue[1], u)
      /\ Turn(queue[1], u)
  BY <1>0, <1>1, AnswerIs DEF UploadOps
<1>3. IsClosure(n) /\ ~n.flowing /\ ~n.end /\ ~n.reading
  <2>1. <<>> \in Seq(Seq(Nat))
    BY EmptySeq
  <2> QED BY <2>1 DEF Exec!NoUpload, IsClosure, ClosureFields, LastIsLong
<1>4. value.chunks \in Seq(Seq(Nat)) /\ (Exec!IsStream(u) => LastIsLong(value.chunks))
  BY <1>2, ValueIs DEF Exec!IsStream, Exec!ValueAt
<1> HIDE DEF value, n, text
<1>5. CASE Exec!IsStream(u)
  <2>1. IsClosure(flows) /\ flows.flowing /\ ~flows.end /\ ~flows.reading
    BY <1>3, <1>4, <1>5 DEF IsClosure, ClosureFields
  <2> HIDE DEF flows
  <2> QED BY <1>1, <1>2, <1>5, <2>1, FlowStep DEF TurnTaken
<1>6. CASE ~Exec!IsStream(u)
  <2>1. IsClosure(sends) /\ ~sends.flowing /\ ~sends.end
    BY <1>3, ClosureIs DEF IsClosure, ClosureFields
  <2> HIDE DEF sends
  <2> QED BY <1>1, <1>2, <1>6, <2>1, TurnStep DEF TurnTaken, Exec!Slice, UploadOps
<1> QED BY <1>5, <1>6

(* The segment that was written: the next slice, the rest of the stream,   *)
(* or the end.                                                             *)
LEMMA SegmentKeeps ==
    ASSUME ExecuteInv, NEW ok \in BOOLEAN, Exec!Segment(ok)
    PROVE  ExecuteInv'
<1>0. PICK u : u = Exec!Up
  OBVIOUS
<1> DEFINE up == [upload[u] EXCEPT !.error = Exec!SegmentError(u, Exec!Taken(ok))]
           next == [up EXCEPT !.rest = Exec!Rest(@)]
           last == [up EXCEPT !.reading = FALSE]
<1>1. /\ Exec!Answer("segment", ok) /\ UNCHANGED <<left, failed, told, batch, ran>>
      /\ \/ /\ upload' = [upload EXCEPT ![u] = next]
            /\ queue' = Tail(queue) \o <<Exec!Slice(u, up.rest)>>
         \/ /\ upload' = [upload EXCEPT ![u] = Exec!Resumed(up)]
            /\ queue' = Tail(queue) \o <<>> /\ ~up.end
         \/ /\ upload' = [upload EXCEPT ![u] = last]
            /\ queue' = Tail(queue) \o <<Exec!Request("close", u, <<>>)>>
  BY <1>0 DEF Exec!Segment, Exec!Set, Exec!Also, Exec!Close, Exec!Resumes
<1>2. /\ queue # <<>> /\ 1 \in DOMAIN queue /\ Later /\ started' = started
      /\ u[1] \in started /\ u \in Exec!Upload /\ Placed(u[1], u[2])
      /\ ForUpload(queue[1], u) /\ Turn(queue[1], u) /\ IsClosure(upload[u])
      /\ UploadInv(u) /\ IsSeq(queue) /\ queue[1].op = "segment"
  BY <1>0, <1>1, AnswerIs DEF UploadOps
<1>3. ~upload[u].flowing /\ (upload[u].end => upload[u].reading)
  BY <1>2, AtTurn
<1>4. IsClosure(up) /\ ~up.flowing /\ (up.end => up.reading)
  BY <1>2, <1>3, ClosureIs DEF IsClosure, ClosureFields
<1> HIDE DEF up
<1>5. CASE /\ upload' = [upload EXCEPT ![u] = next]
           /\ queue' = Tail(queue) \o <<Exec!Slice(u, up.rest)>>
  <2>1. IsClosure(next) /\ ~next.flowing /\ (next.end => next.reading)
    BY <1>4, ClosureIs DEF IsClosure, ClosureFields
  <2> HIDE DEF next
  <2> QED BY <1>1, <1>2, <1>5, <2>1, TurnStep DEF TurnTaken, Exec!Slice, UploadOps
<1>6. CASE /\ upload' = [upload EXCEPT ![u] = Exec!Resumed(up)]
           /\ queue' = Tail(queue) \o <<>> /\ ~up.end
  <2> DEFINE flows == Exec!Resumed(up)
  <2>1. IsClosure(flows) /\ flows.flowing /\ ~flows.end /\ ~flows.reading
    BY <1>4, <1>6 DEF IsClosure, ClosureFields, Exec!Resumed
  <2> HIDE DEF flows
  <2>2. upload' = [upload EXCEPT ![u] = flows]
    BY <1>6 DEF flows
  <2> QED BY <1>1, <1>2, <1>6, <2>1, <2>2, FlowStep DEF TurnTaken
<1>7. CASE /\ upload' = [upload EXCEPT ![u] = last]
           /\ queue' = Tail(queue) \o <<Exec!Request("close", u, <<>>)>>
  <2>1. IsClosure(last) /\ ~last.flowing
    BY <1>4, ClosureIs DEF IsClosure, ClosureFields
  <2> HIDE DEF last
  <2> QED BY <1>1, <1>2, <1>7, <2>1, TurnStep DEF TurnTaken, UploadOps
<1> QED BY <1>1, <1>5, <1>6, <1>7

(* A chunk in one piece that was written: its stream has more.             *)
LEMMA PieceKeeps ==
    ASSUME ExecuteInv, NEW ok \in BOOLEAN, Exec!Piece(ok)
    PROVE  ExecuteInv'
<1>0. PICK u : u = Exec!Up
  OBVIOUS
<1>1. /\ Exec!Answer("piece", ok) /\ UNCHANGED <<left, failed, told, batch, ran>>
      /\ upload' = upload
      /\ (upload[u].end => upload[u].reading) => queue' = Tail(queue) \o <<>>
  BY <1>0 DEF Exec!Piece, Exec!Also
<1>2. /\ queue # <<>> /\ 1 \in DOMAIN queue /\ Later /\ started' = started
      /\ u \in Exec!Upload /\ ForUpload(queue[1], u)
      /\ UploadInv(u) /\ IsSeq(queue) /\ queue[1].op = "piece"
  BY <1>0, <1>1, AnswerIs DEF UploadOps
<1>3. InOnePiece(queue[1], u) /\ ~Turn(queue[1], u)
  BY <1>2 DEF ForUpload, InOnePiece, Turn, UploadOps
<1>4. upload[u].end => upload[u].reading
  BY <1>2, <1>3 DEF UploadInv
<1>5. Moves(1, <<>>)
  BY <1>1, <1>2, <1>4, FewRequests, MovesAnswered
<1>6. UploadTypes'
  BY <1>1, <1>2, UploadTypesKept DEF ExecuteInv, Types
<1>7. UploadInv(u)' /\ (GoesOn(u)' <=> GoesOn(u))
  BY <1>1, <1>2, <1>3, <1>5, FewRequests, UploadStays
<1> QED BY <1>1, <1>2, <1>5, <1>6, <1>7, FewRequests, QuietStep

(* Of a stream that ends with a long chunk, more follows a short one.      *)
LEMMA ShortNotLast ==
    ASSUME NEW chunks \in Seq(Seq(Nat)), chunks # <<>>, LastIsLong(chunks), Chunk \in Nat
    PROVE  /\ Tail(chunks) \in Seq(Seq(Nat)) /\ LastIsLong(Tail(chunks))
           /\ Len(Head(chunks)) <= Chunk => Tail(chunks) # <<>>
<1>1. Len(chunks) \in Nat /\ Len(chunks) > 0
  BY LenProperties, EmptySeq
<1>2. /\ Tail(chunks) \in Seq(Seq(Nat)) /\ Len(Tail(chunks)) = Len(chunks) - 1
      /\ \A i \in 1..Len(Tail(chunks)) : Tail(chunks)[i] = chunks[i + 1]
      /\ Head(chunks) = chunks[1] /\ Head(chunks) \in Seq(Nat)
  BY HeadTailProperties
<1>3. Len(chunks[Len(chunks)]) > Chunk
  BY DEF LastIsLong
<1>4. ASSUME Tail(chunks) # <<>>
      PROVE  Len(Tail(chunks)[Len(Tail(chunks))]) > Chunk
  <2>1. Len(Tail(chunks)) > 0
    BY <1>2, <1>4, EmptySeq, LenProperties
  <2>2. Tail(chunks)[Len(Tail(chunks))] = chunks[Len(chunks)]
    BY <1>1, <1>2, <2>1
  <2> QED BY <1>3, <2>2
<1>5. ASSUME Len(Head(chunks)) <= Chunk, Tail(chunks) = <<>>
      PROVE  FALSE
  <2>1. Len(chunks) = 1
    <3> DEFINE n == Len(chunks)
               m == Len(Tail(chunks))
    <3>1. m = 0
      BY <1>5, FewRequests
    <3>2. m = n - 1 /\ n \in Nat
      BY <1>1, <1>2
    <3> HIDE DEF m, n
    <3>3. n = 1
      BY <3>1, <3>2
    <3> QED BY <3>3 DEF n
  <2>2. Len(Head(chunks)) > Chunk /\ Len(Head(chunks)) \in Nat
    BY <1>2, <1>3, <2>1, LenProperties
  <2> QED BY <1>5, <2>2
<1> QED BY <1>2, <1>4, <1>5 DEF LastIsLong

(* A stream that flows has no request on its way but pieces.               *)
LEMMA FlowingIs ==
    ASSUME ExecuteInv, NEW u \in Exec!Upload, upload[u].flowing
    PROVE  /\ IsSeq(queue) /\ IsClosure(upload[u]) /\ UploadTypes /\ UploadInv(u)
           /\ u[1] \in started /\ Placed(u[1], u[2]) /\ GoesOn(u)
           /\ ~upload[u].end /\ ~upload[u].reading
           /\ \A i \in DOMAIN queue : /\ ~Turn(queue[i], u)
                                      /\ upload[u].chunks = <<>> => ~InOnePiece(queue[i], u)
<1>1. /\ IsSeq(queue) /\ UploadTypes /\ UploadInv(u)
  BY DEF ExecuteInv, Types, QueueTypes
<1>2. IsClosure(upload[u]) /\ u[1] \in started /\ Placed(u[1], u[2])
  BY <1>1 DEF UploadTypes
<1>3. ~upload[u].end /\ ~upload[u].reading /\ GoesOn(u) /\ \A i \in DOMAIN queue : ~Turn(queue[i], u)
  BY <1>1 DEF UploadInv, GoesOn
<1>4. ASSUME upload[u].chunks = <<>>, NEW i \in DOMAIN queue
      PROVE  ~InOnePiece(queue[i], u)
  BY <1>1, <1>3, <1>4, OpsApart DEF UploadInv
<1> QED BY <1>1, <1>2, <1>3, <1>4

(* The data event of a stream.                                             *)
LEMMA StreamDataKeeps ==
    ASSUME Exec!ExecuteAssumption, ExecuteInv, NEW u \in Exec!Upload, Exec!StreamData(u)
    PROVE  ExecuteInv'
<1> DEFINE text == Head(upload[u].chunks)
           up == [upload[u] EXCEPT !.chunks = Tail(@)]
           paused == [up EXCEPT !.flowing = FALSE, !.reading = TRUE, !.rest = Exec!Rest(text)]
<1>1. /\ upload[u].flowing /\ upload[u].chunks # <<>>
      /\ Later /\ started' = started /\ UNCHANGED <<left, failed, told, batch, ran>>
      /\ IF Len(text) <= Chunk
         THEN /\ upload' = [upload EXCEPT ![u] = up]
              /\ queue' = Append(queue, Exec!Request("piece", u, text))
         ELSE /\ upload' = [upload EXCEPT ![u] = paused]
              /\ queue' = Append(queue, Exec!Slice(u, text))
  BY DEF Exec!StreamData, Exec!Set, Exec!server, Later
<1>2. /\ IsSeq(queue) /\ IsClosure(upload[u]) /\ UploadTypes /\ UploadInv(u)
      /\ u[1] \in started /\ Placed(u[1], u[2]) /\ GoesOn(u)
      /\ ~upload[u].end /\ ~upload[u].reading
      /\ \A i \in DOMAIN queue : ~Turn(queue[i], u)
  BY <1>1, FlowingIs
<1>3. /\ Tail(upload[u].chunks) \in Seq(Seq(Nat)) /\ LastIsLong(Tail(upload[u].chunks))
      /\ Len(text) <= Chunk => Tail(upload[u].chunks) # <<>>
  <2>1. Chunk \in Nat
    BY DEF Exec!ExecuteAssumption
  <2> QED BY <1>1, <1>2, <2>1, ShortNotLast DEF IsClosure
<1>4. IsClosure(up) /\ up.flowing /\ ~up.end /\ ~up.reading /\ (Len(text) <= Chunk => up.chunks # <<>>)
  BY <1>1, <1>2, <1>3 DEF IsClosure, ClosureFields
<1>5. IsClosure(paused) /\ ~paused.flowing /\ ~paused.end
  BY <1>4 DEF IsClosure, ClosureFields
<1> HIDE DEF up, paused, text
<1>6. CASE Len(text) <= Chunk
  <2> DEFINE r == Exec!Request("piece", u, text)
  <2>1. Fits(r) /\ ForUpload(r, u) /\ ~Turn(r, u)
    BY <1>1, <1>2, SentIs
  <2>2. Moves(0, <<r>>)
    BY <1>1, <1>2, <1>6, MovesAppended
  <2> HIDE DEF r
  <2>3. /\ UploadTypes' /\ upload'[u] = up
        /\ \A v \in Exec!Upload : v # u => upload'[v] = upload[v]
    BY <1>1, <1>2, <1>4, <1>6, UploadTypesKept
  <2>4. \A k \in DOMAIN <<r>> : <<r>>[k] = r
    BY FewRequests
  <2>5. UploadInv(u)' /\ GoesOn(u)'
    BY <1>2, <1>4, <1>6, <2>1, <2>2, <2>3, <2>4, UploadFlows
  <2> QED BY <1>1, <1>2, <2>1, <2>2, <2>3, <2>4, <2>5, QuietStep
<1>7. CASE ~(Len(text) <= Chunk)
  <2> DEFINE r == Exec!Slice(u, text)
  <2>1. Fits(r) /\ ForUpload(r, u) /\ Turn(r, u) /\ r.op = "segment"
    BY <1>1, <1>2, SentIs DEF Exec!Slice, UploadOps
  <2>2. Moves(0, <<r>>)
    BY <1>1, <1>2, <1>7, MovesAppended
  <2> HIDE DEF r
  <2>3. /\ UploadTypes' /\ upload'[u] = paused
        /\ \A v \in Exec!Upload : v # u => upload'[v] = upload[v]
    BY <1>1, <1>2, <1>5, <1>7, UploadTypesKept
  <2>4. 1 \in DOMAIN <<r>> /\ <<r>>[1] = r /\ \A k \in DOMAIN <<r>> : k = 1 /\ <<r>>[k] = r
    BY FewRequests
  <2>5. UploadInv(u)' /\ GoesOn(u)'
    BY <1>2, <1>5, <2>1, <2>2, <2>3, <2>4, UploadTurns
  <2> QED BY <1>1, <1>2, <2>1, <2>2, <2>3, <2>4, <2>5, QuietStep
<1> QED BY <1>6, <1>7

(* The end event of a stream.                                              *)
LEMMA StreamEndKeeps ==
    ASSUME ExecuteInv, NEW u \in Exec!Upload, Exec!StreamEnd(u)
    PROVE  ExecuteInv'
<1> DEFINE up == [upload[u] EXCEPT !.flowing = FALSE, !.end = TRUE]
           r == Exec!Request("close", u, <<>>)
<1>1. /\ upload[u].flowing \/ upload[u].reading
      /\ upload[u].chunks = <<>>
      /\ Later /\ started' = started /\ UNCHANGED <<left, failed, told, batch, ran>>
      /\ upload' = [upload EXCEPT ![u] = up]
      /\ IF upload[u].reading THEN queue' = queue ELSE queue' = Append(queue, r)
  BY DEF Exec!StreamEnd, Exec!EndsNow, Exec!Set, Exec!server, Later
<1>2. IsSeq(queue) /\ UploadTypes /\ UploadInv(u) /\ IsClosure(upload[u])
  BY DEF ExecuteInv, Types, QueueTypes, UploadTypes
<1>3. IsClosure(up) /\ ~up.flowing /\ up.end /\ up.reading = upload[u].reading
  BY <1>2 DEF IsClosure, ClosureFields
<1> HIDE DEF up, r
<1>4. /\ UploadTypes' /\ upload'[u] = up
      /\ \A v \in Exec!Upload : v # u => upload'[v] = upload[v]
  BY <1>1, <1>2, <1>3, UploadTypesKept
<1>5. CASE upload[u].reading
  <2>1. ~upload[u].flowing
    BY <1>2, <1>5 DEF UploadInv
  <2>2. queue' = queue /\ Moves(0, <<>>)
    BY <1>1, <1>2, <1>5, MovesNot
  <2>3. UploadInv(u)'
    BY <1>2, <1>3, <1>4, <1>5, <2>1, <2>2 DEF UploadInv
  <2>4. GoesOn(u)' <=> GoesOn(u)
    BY <1>3, <1>4, <2>1, <2>2 DEF GoesOn
  <2> QED BY <1>1, <1>4, <2>2, <2>3, <2>4, FewRequests, QuietStep
<1>6. CASE ~upload[u].reading
  <2>1. /\ u[1] \in started /\ Placed(u[1], u[2]) /\ GoesOn(u)
        /\ \A i \in DOMAIN queue : ~Turn(queue[i], u) /\ ~InOnePiece(queue[i], u)
    BY <1>1, <1>6, FlowingIs
  <2>2. Fits(r) /\ ForUpload(r, u) /\ Turn(r, u) /\ r.op = "close"
    BY <1>1, <2>1, SentIs DEF r, UploadOps
  <2>3. Moves(0, <<r>>)
    BY <1>1, <1>2, <1>6, MovesAppended
  <2>4. 1 \in DOMAIN <<r>> /\ <<r>>[1] = r /\ \A k \in DOMAIN <<r>> : k = 1 /\ <<r>>[k] = r
    BY FewRequests
  <2>5. UploadInv(u)' /\ GoesOn(u)'
    BY <1>2, <1>3, <1>4, <2>1, <2>2, <2>3, <2>4, UploadTurns
  <2> QED BY <1>1, <1>4, <2>1, <2>2, <2>3, <2>4, <2>5, QuietStep
<1> QED BY <1>5, <1>6

-----------------------------------------------------------------------------
(* A step of the call c: the others do not see it.                         *)
LEMMA CallStep ==
    ASSUME ExecuteInv, Later, started' \subseteq Call, NEW d, NEW new, Moves(d, new),
           upload' = upload, CallTypes', ServerTypes', NEW c \in Call,
           \A k \in DOMAIN new : new[k].call = c /\ Fits(new[k]),
           d = 1 => queue[1].call = c,
           \A b \in Call : b # c => CallSame(b),
           \A u \in Exec!Upload : u[1] = c => UploadInv(u)',
           CallInv(c)'
    PROVE  ExecuteInv'
<1>1. /\ job \in Plans /\ IsSeq(queue) /\ QueueTypes /\ UploadTypes
  BY DEF ExecuteInv, Types, QueueTypes
<1>2. Types'
  <2>1. QueueTypes'
    BY <1>1, QueueTypesKept
  <2>2. UploadTypes'
    BY <1>1, UploadTypesKept
  <2> QED BY <1>1, <2>1, <2>2 DEF Types, Later
<1>3. Exec!Upload' = Exec!Upload
  BY DEF Exec!Upload
<1>4. ASSUME NEW v \in Exec!Upload, v[1] # c
      PROVE  UploadInv(v)' /\ (GoesOn(v)' <=> GoesOn(v))
  <2>1. \A k \in DOMAIN new : ~ForUpload(new[k], v)
    BY <1>4 DEF ForUpload, About
  <2>2. d = 1 => ~Turn(queue[1], v)
    BY <1>4 DEF Turn, About
  <2>3. UploadInv(v) /\ upload'[v] = upload[v]
    BY <1>4 DEF ExecuteInv
  <2> QED BY <1>1, <2>1, <2>2, <2>3, UploadStays
<1>5. \A v \in Exec!Upload : UploadInv(v)'
  BY <1>4
<1>6. ASSUME NEW b \in Call, b # c PROVE CallInv(b)'
  <2>1. CallSame(b) /\ CallInv(b)
    BY <1>6 DEF ExecuteInv
  <2>2. \A k \in DOMAIN new : ~ForCall(new[k], b)
    BY <1>6 DEF ForCall, Executes, OfBatch
  <2>3. d = 1 => ~ForCall(queue[1], b)
    BY <1>6 DEF ForCall, Executes, OfBatch
  <2>4. \A x \in Exec!PlacesOf(b) : GoesOn(<<b, x>>)' <=> GoesOn(<<b, x>>)
    BY <1>1, <1>4, <1>6, PlacesAreUploads
  <2> QED BY <1>1, <2>1, <2>2, <2>3, <2>4, CallStays
<1>7. \A b \in Call : CallInv(b)'
  BY <1>6
<1> QED BY <1>2, <1>3, <1>5, <1>7 DEF ExecuteInv

(* An upload that does not go on has nothing in the queue.                 *)
LEMMA Idle ==
    ASSUME NEW u, UploadInv(u), ~GoesOn(u)
    PROVE  ~upload[u].flowing /\ \A i \in DOMAIN queue : ~ForUpload(queue[i], u)
<1>1. ~upload[u].flowing /\ \A i \in DOMAIN queue : ~Turn(queue[i], u)
  BY DEF GoesOn
<1>2. \A i \in DOMAIN queue : ~InOnePiece(queue[i], u)
  BY <1>1, OpsApart DEF UploadInv
<1> QED BY <1>1, <1>2, OpsApart

(* A call that has nothing to wait for but the d answers of the step.      *)
Freed(c, d) ==
    /\ told[c] = <<>> /\ Exec!RunsOf(c) = {}
    /\ \A i \in DOMAIN queue : i > d => ~ForCall(queue[i], c)
    /\ \A u \in Exec!Upload : u[1] = c => ~upload[u].flowing /\ Clear(d, u)

(* It may have just started,                                               *)
LEMMA FreshIs ==
    ASSUME ExecuteInv, NEW c \in Call, c \notin started
    PROVE  /\ Freed(c, 0) /\ Alive(c) = {} /\ (Exec!InBatch(c) => ~batch[c].open)
           /\ \A i \in DOMAIN queue : queue[i].call # c
<1>1. /\ job \in Plans /\ UploadTypes /\ CallTypes /\ ServerTypes
      /\ \A i \in DOMAIN queue : IsRequest(queue[i])
  BY DEF ExecuteInv, Types, QueueTypes
<1>2. \A i \in DOMAIN queue : queue[i].call # c
  BY <1>1 DEF IsRequest
<1>3. told[c] = <<>>
  BY <1>1 DEF CallTypes
<1>4. Exec!RunsOf(c) = {}
  BY <1>1 DEF Exec!RunsOf, ServerTypes
<1>5. \A u \in Exec!Upload : u[1] = c => ~upload[u].flowing /\ ~GoesOn(u) /\ Clear(0, u)
  BY <1>1, <1>2 DEF UploadTypes, GoesOn, Turn, About, Clear, ForUpload
<1>6. Freed(c, 0)
  BY <1>2, <1>3, <1>4, <1>5 DEF Freed, ForCall, Executes, OfBatch
<1>7. Alive(c) = {}
  <2>1. \A x \in Exec!PlacesOf(c) : ~GoesOn(<<c, x>>)
    BY <1>1, <1>5, PlacesAreUploads
  <2> QED BY <2>1 DEF Alive
<1>8. ASSUME Exec!InBatch(c) PROVE ~batch[c].open
  <2>1. BatchCallInv(c)
    BY <1>8 DEF ExecuteInv, CallInv
  <2>2. ~Executing(c)
    <3>1. SUFFICES ASSUME NEW k \in DOMAIN queue, Sending(c, k) PROVE FALSE
      BY DEF Executing
    <3>2. k \in Int /\ left[c] \in 1..k
      <4>1. IsSeq(queue)
        BY DEF ExecuteInv, Types, QueueTypes
      <4> QED BY <3>1, <4>1, IsSeqLen DEF Sending
    <3>3. Counted(queue[k], c)
      BY <3>1, <3>2 DEF Sending
    <3> QED BY <1>2, <3>3 DEF Counted
  <2> QED BY <1>3, <2>1, <2>2 DEF BatchCallInv, Uploading, Over
<1> QED BY <1>2, <1>6, <1>7, <1>8

(* and nothing more need be sent for its uploads.                          *)
LEMMA FreedUploads ==
    ASSUME IsSeq(queue), NEW d, NEW new, Moves(d, new), upload' = upload,
           job \in Plans, job' = job, NEW c \in Call, Freed(c, d),
           \A k \in DOMAIN new : new[k].op \notin UploadOps \cup {"piece"}
    PROVE  /\ \A u \in Exec!Upload : u[1] = c => UploadInv(u)'
           /\ Alive(c)' = {}
<1>1. ASSUME NEW u \in Exec!Upload, u[1] = c
      PROVE  UploadInv(u)' /\ ~GoesOn(u)'
  <2>1. Clear(d, u) /\ ~upload'[u].flowing
    BY <1>1 DEF Freed
  <2>2. \A k \in DOMAIN new : ~ForUpload(new[k], u)
    BY DEF ForUpload
  <2> QED BY <2>1, <2>2, UploadEnds
<1>2. \A x \in Exec!PlacesOf(c)' : ~GoesOn(<<c, x>>)'
  <2>1. Exec!PlacesOf(c)' = Exec!PlacesOf(c)
    BY DEF Exec!PlacesOf
  <2>2. ASSUME NEW x \in Exec!PlacesOf(c) PROVE ~GoesOn(<<c, x>>)'
    <3>1. <<c, x>> \in Exec!Upload
      BY PlacesAreUploads
    <3> QED BY <1>1, <3>1
  <2> QED BY <2>1, <2>2
<1> QED BY <1>1, <1>2 DEF Alive

(* Its callback is called, and that is all.                                *)
LEMMA FreedTold ==
    ASSUME ExecuteInv, Later, started' \subseteq Call, NEW c \in Call, c \in started',
           NEW d, Moves(d, <<>>), Freed(c, d), d = 1 => queue[1].call = c,
           upload' = upload, UNCHANGED <<batch, ran>>,
           left' \in [Call -> Int], failed' \in [Call -> BOOLEAN],
           \A b \in Call : b # c => left'[b] = left[b] /\ failed'[b] = failed[b],
           NEW result \in {"ok", "error"}, Exec!Tell(c, result),
           result = "ok" => job[c].rows = <<>>
    PROVE  ExecuteInv'
<1>1. /\ job \in Plans /\ IsSeq(queue) /\ CallTypes /\ ServerTypes /\ job' = job
  BY DEF ExecuteInv, Types, QueueTypes, Later
<1>2. /\ told' = [told EXCEPT ![c] = Append(told[c], result)]
      /\ told \in [Call -> Seq({"ok", "error"})] /\ told[c] = <<>>
  BY <1>1 DEF Exec!Tell, CallTypes, Freed
<1>3. /\ told'[c] = <<result>> /\ told' \in [Call -> Seq({"ok", "error"})]
      /\ \A b \in Call : b # c => told'[b] = told[b]
  <2>1. Append(<<>>, result) = <<result>> /\ <<result>> \in Seq({"ok", "error"})
    OBVIOUS
  <2> QED BY <1>2, <2>1
<1>4. CallTypes'
  BY <1>1, <1>3 DEF CallTypes, Later
<1>5. ServerTypes'
  BY <1>1, ServerTypesKept
<1>6. /\ \A u \in Exec!Upload : u[1] = c => UploadInv(u)'
      /\ Alive(c)' = {}
  BY <1>1, FewRequests, FreedUploads
<1>7. \A b \in Call : Exec!RunsOf(b)' = Exec!RunsOf(b)
  BY DEF Exec!RunsOf
<1>8. \A b \in Call : b # c => CallSame(b)
  BY <1>1, <1>3, <1>7 DEF CallSame
<1>9. ToldOnce(c)'
  <2>1. Exec!RunsOf(c)' = {} /\ Cardinality({}) = 0
    BY <1>7, FS_EmptySet DEF Freed
  <2>2. Len(told'[c]) = 1 /\ (told'[c] = <<"ok">> => result = "ok")
    BY <1>3
  <2> QED BY <1>1, <2>1, <2>2 DEF ToldOnce
<1>10. \A i \in DOMAIN queue' : ~ForCall(queue'[i], c)
  <2>1. ASSUME NEW i \in DOMAIN queue' PROVE i + d > d /\ i + d \in DOMAIN queue /\ queue'[i] = queue[i + d]
    <3>1. Len(queue') \in Nat /\ DOMAIN queue' = 1..Len(queue') /\ d \in {0, 1}
      BY <1>1, MovesIs DEF Moves
    <3>2. i + d > d
      BY <3>1
    <3> QED BY <1>1, <3>2, MovesIs, FewRequests
  <2> QED BY <2>1 DEF Freed
<1>11. CallInv(c)'
  <2>1. told'[c] # <<>>
    BY <1>3
  <2>2. BatchCallInv(c)'
    BY <1>6, <1>9, <1>10, <2>1, CallOpsApart DEF BatchCallInv, Over
  <2>3. StatementInv(c)'
    BY <1>6, <1>9, <1>10, <2>1, CallOpsApart DEF StatementInv
  <2> QED BY <2>2, <2>3 DEF CallInv
<1> QED BY <1>1, <1>4, <1>5, <1>6, <1>8, <1>11, FewRequests, CallStep

-----------------------------------------------------------------------------
(* The statements.                                                         *)
LEMMA MinIs ==
    ASSUME NEW n \in Nat, NEW S \in SUBSET (1..n), S # {}
    PROVE  Exec!Min(S) \in S
<1> DEFINE s == [i \in 1..n |-> i]
           T == (1..n) \ S
<1>1. s \in Seq(1..n) /\ Len(s) = n /\ DOMAIN s = 1..n
  OBVIOUS
<1>2. Kept(s, T) = S
  BY <1>1 DEF Kept
<1>3. IsFiniteSet(S) /\ Cardinality(S) \in Nat
  BY <1>1, <1>2, KeptFinite
<1>4. Cardinality(S) >= 1
  <2>1. Cardinality(S) # 0
    BY <1>3, FS_EmptySet
  <2> QED BY <1>3, <2>1
<1> HIDE DEF s, T
<1> DEFINE rank(i) == Rank(s, T, i)
<1>5. /\ \A i \in S : rank(i) \in 1..Cardinality(S)
      /\ \A i, j \in S : i < j => rank(i) < rank(j)
      /\ \A k \in 1..Cardinality(S) : \E i \in S : rank(i) = k
  BY <1>1, <1>2, RankBijective
<1> HIDE DEF rank
<1>6. PICK i \in S : rank(i) = 1
  BY <1>3, <1>4, <1>5
<1>7. ASSUME NEW j \in S PROVE i <= j
  <2>1. i \in Nat /\ j \in Nat
    OBVIOUS
  <2>2. ~(j < i)
    <3>1. rank(j) >= 1
      BY <1>3, <1>5
    <3> QED BY <1>5, <1>6, <3>1
  <2> QED BY <2>1, <2>2
<1> QED BY <1>7 DEF Exec!Min

(* What a statement sends next: its execution, an upload, or nothing.      *)
SentNext(c, new) ==
    \/ new = <<>>
    \/ \E r : new = <<r>> /\ Executes(r, c)
    \/ \E x : new = <<Exec!Create(<<c, x>>)>> /\ Placed(c, x)

(* The next step of a statement sends one request at most.                 *)
LEMMA StepIs ==
    ASSUME Exec!ExecuteAssumption, job \in Plans, NEW c \in Call, ~Exec!InBatch(c),
           job[c].input # <<>> => Len(Exec!Values(c, 1)) = Len(job[c].input),
           NEW p \in Nat \ {0}
    PROVE  SentNext(c, Exec!Step(c, p))
<1> DEFINE later == {i \in p..Len(job[c].input) : Exec!IsBlob(c, 1, i)}
           m == Exec!Min(later)
<1>1. CASE later = {}
  <2>1. Exec!Step(c, p) = Exec!SendExecute(c)
    BY <1>1 DEF Exec!Step
  <2>2. \/ Exec!SendExecute(c) = <<>>
        \/ \E data : Exec!SendExecute(c) = <<Exec!Packet("execute", c, data)>>
    BY DEF Exec!SendExecute
  <2>3. \A data : Executes(Exec!Packet("execute", c, data), c)
    BY DEF Executes, Exec!Packet, Exec!Request
  <2> QED BY <2>1, <2>2, <2>3 DEF SentNext
<1>2. CASE later # {}
  <2>1. Exec!Step(c, p) = <<Exec!Create(<<c, <<1, m>>>>)>>
    BY <1>2 DEF Exec!Step
  <2>2. Len(job[c].input) \in Nat /\ DOMAIN job[c].input = 1..Len(job[c].input)
    BY JobIs
  <2>3. later \subseteq 1..Len(job[c].input)
    BY <2>2
  <2> HIDE DEF later
  <2>4. m \in DOMAIN job[c].input
    BY <1>2, <2>2, <2>3, MinIs
  <2>5. 1 \in DOMAIN job[c].rows
    <3>1. Len(job[c].rows) = 1 /\ DOMAIN job[c].rows = 1..Len(job[c].rows)
      BY JobIs
    <3> QED BY <3>1
  <2> HIDE DEF m
  <2>6. Placed(c, <<1, m>>)
    <3>1. job[c].input # <<>>
      BY <2>4, FewRequests
    <3> QED BY <2>4, <2>5, <3>1 DEF Placed, PlacedIn, Exec!Values
  <2> QED BY <2>1, <2>6 DEF SentNext
<1> QED BY <1>1, <1>2

(* A statement that nothing is under way for takes its next step.          *)
LEMMA FreedSteps ==
    ASSUME ExecuteInv, Later, started' \subseteq Call, NEW c \in Call, c \in started',
           ~Exec!InBatch(c), NEW d, NEW new, Moves(d, new), Freed(c, d),
           d = 1 => queue[1].call = c, SentNext(c, new),
           upload' = upload, UNCHANGED <<left, failed, told, batch, ran>>
    PROVE  ExecuteInv'
<1>1. /\ job \in Plans /\ IsSeq(queue) /\ CallTypes /\ ServerTypes /\ job' = job
  BY DEF ExecuteInv, Types, QueueTypes, Later
<1>2. CallTypes' /\ ServerTypes'
  BY <1>1, CallTypesKept, ServerTypesKept
<1>3. \A b \in Call : Exec!RunsOf(b)' = Exec!RunsOf(b)
  BY DEF Exec!RunsOf
<1>4. \A b \in Call : b # c => CallSame(b)
  BY <1>1, <1>3 DEF CallSame
<1>5. told'[c] = <<>> /\ Exec!RunsOf(c)' = {} /\ ~Exec!InBatch(c)'
  BY <1>1, <1>3 DEF Freed, Exec!InBatch
<1>6. Len(queue) \in Nat /\ d \in {0, 1} /\ DOMAIN queue' = 1..Len(queue') /\ Len(queue') \in Nat
  BY <1>1, MovesIs DEF Moves
<1>7. ASSUME NEW i \in DOMAIN queue', ForCall(queue'[i], c)
      PROVE  \E k \in DOMAIN new : i = Len(queue) - d + k /\ queue'[i] = new[k]
  <2>1. i + d > d
    BY <1>6
  <2>2. ~(i + d \in DOMAIN queue /\ queue'[i] = queue[i + d])
    BY <1>7, <2>1 DEF Freed
  <2> QED BY <1>1, <2>2, MovesIs
<1>8. CASE new = <<>>
  <2>1. /\ \A u \in Exec!Upload : u[1] = c => UploadInv(u)'
        /\ Alive(c)' = {}
    BY <1>1, <1>8, FewRequests, FreedUploads
  <2>2. \A i \in DOMAIN queue' : ~ForCall(queue'[i], c)
    BY <1>7, <1>8, FewRequests
  <2>3. CallInv(c)'
    BY <1>5, <2>1, <2>2, CallOpsApart DEF CallInv, StatementInv
  <2> QED BY <1>1, <1>2, <1>4, <1>8, <2>1, <2>3, FewRequests, CallStep
<1>9. CASE \E r : new = <<r>> /\ Executes(r, c)
  <2>1. PICK r : new = <<r>> /\ Executes(r, c)
    BY <1>9
  <2>2. DOMAIN new = {1} /\ new[1] = r
    BY <2>1, FewRequests
  <2>3. r.call = c /\ r.op = "execute" /\ Fits(r) /\ ~OfBatch(r, c)
    BY <2>1 DEF Executes, Fits, Ops, UploadOps, OfBatch, PacketOps
  <2>4. /\ \A u \in Exec!Upload : u[1] = c => UploadInv(u)'
        /\ Alive(c)' = {}
    BY <1>1, <2>2, <2>3, FreedUploads DEF UploadOps
  <2>5. \A i \in DOMAIN queue' : ForCall(queue'[i], c) => i = Len(queue) - d + 1 /\ queue'[i] = r
    BY <1>7, <2>2
  <2>6. /\ \A i \in DOMAIN queue' : ~OfBatch(queue'[i], c)
        /\ \A i, j \in DOMAIN queue' : Executes(queue'[i], c) /\ Executes(queue'[j], c) => i = j
    BY <2>3, <2>5, CallOpsApart
  <2>7. CallInv(c)'
    BY <1>5, <2>4, <2>6 DEF CallInv, StatementInv
  <2> QED BY <1>1, <1>2, <1>4, <2>2, <2>3, <2>4, <2>7, CallStep
<1>10. CASE \E x : new = <<Exec!Create(<<c, x>>)>> /\ Placed(c, x)
  <2>1. PICK x : new = <<Exec!Create(<<c, x>>)>> /\ Placed(c, x)
    BY <1>10
  <2>2. PICK u : u = <<c, x>>
    OBVIOUS
  <2>3. PICK r : r = Exec!Create(u)
    OBVIOUS
  <2>4. u \in Exec!Upload /\ u[1] = c
    BY <1>1, <2>1, <2>2, PlaceIs
  <2>5. DOMAIN new = {1} /\ new[1] = r
    BY <2>1, <2>2, <2>3, FewRequests
  <2>6. Fits(r) /\ ForUpload(r, u) /\ Turn(r, u) /\ r.op = "create" /\ r.call = c
    <3>1. r.call = c
      BY <2>2, <2>3 DEF Exec!Create, Exec!Request
    <3> QED BY <2>1, <2>2, <2>3, <2>4, <3>1, SentIs DEF Exec!Create, UploadOps
  <2>7. ASSUME NEW v \in Exec!Upload, v[1] = c
        PROVE  UploadInv(v)' /\ (GoesOn(v)' => v = u)
    <3>1. ~upload'[v].flowing /\ Clear(d, v)
      BY <2>7 DEF Freed
    <3>2. CASE v = u
      <4>1. \A i \in DOMAIN queue : i > d => ~Turn(queue[i], v) /\ ~InOnePiece(queue[i], v)
        BY <3>1, OpsApart DEF Clear
      <4> QED BY <1>1, <2>5, <2>6, <3>1, <3>2, <4>1, UploadTurns
    <3>3. CASE v # u
      <4>1. \A k \in DOMAIN new : ~ForUpload(new[k], v)
        BY <2>4, <2>5, <2>6, <3>3, UploadsApart
      <4> QED BY <1>1, <3>1, <4>1, UploadEnds
    <3> QED BY <3>2, <3>3
  <2>8. \A i \in DOMAIN queue' : ~ForCall(queue'[i], c)
    BY <1>7, <2>5, <2>6 DEF ForCall, Executes, OfBatch, PacketOps
  <2>9. \A y \in Alive(c)' : y = x
    <3>1. ASSUME NEW y \in Exec!PlacesOf(c), GoesOn(<<c, y>>)'
          PROVE  y = x
      <4>1. PICK v : v = <<c, y>>
        OBVIOUS
      <4>2. v \in Exec!Upload /\ v[1] = c
        BY <1>1, <4>1, PlacesAreUploads
      <4>3. GoesOn(v)'
        BY <3>1, <4>1
      <4> QED BY <2>2, <2>7, <4>1, <4>2, <4>3
    <3>2. Exec!PlacesOf(c)' = Exec!PlacesOf(c)
      BY <1>1 DEF Exec!PlacesOf
    <3> QED BY <3>1, <3>2 DEF Alive
  <2>10. CallInv(c)'
    BY <1>5, <2>8, <2>9, CallOpsApart DEF CallInv, StatementInv
  <2> QED BY <1>1, <1>2, <1>4, <2>5, <2>6, <2>7, <2>10, CallStep
<1> QED BY <1>8, <1>9, <1>10 DEF SentNext

-----------------------------------------------------------------------------
(* The batches.                                                            *)
LEMMA PacketsAre ==
    ASSUME Exec!ExecuteAssumption, job \in Plans, NEW c \in Call
    PROVE  LET new == Exec!Packets(c)
               n == Len(new)
           IN  /\ IsSeq(new) /\ n \in Nat /\ n >= 3
               /\ \A i \in 1..n : /\ new[i].call = c
                                  /\ new[i].op = IF i = 1 THEN "open" ELSE IF i = n THEN "release"
                                                 ELSE IF i = n - 1 THEN "exec" ELSE "rows"
<1> DEFINE count == (Len(job[c].rows) + PerPacket - 1) \div PerPacket
           messages == [r \in DOMAIN job[c].rows |->
                          Exec!BatchMessage(job[c].input, Exec!Row(c, r))]
           from(i) == (i - 1) * PerPacket + 1
           data(i) == SubSeq(messages, from(i),
                             Exec!Min({from(i + 1) - 1, Len(job[c].rows)}))
           last == <<Exec!Packet("exec", c, <<>>), Exec!Packet("release", c, <<>>)>>
<1>1. PICK opened, rows :
         /\ rows = [i \in 1..count |-> Exec!Packet("rows", c, data(i))]
         /\ Exec!Packets(c) = <<Exec!Packet("open", c, opened)>> \o rows \o last
  BY DEF Exec!Packets
<1>2. \A op, x : Exec!Packet(op, c, x).call = c /\ Exec!Packet(op, c, x).op = op
  BY DEF Exec!Packet, Exec!Request
<1>3. count \in Nat
  <2>1. Len(job[c].rows) \in Nat /\ PerPacket \in Nat \ {0}
    BY JobIs
  <2>2. \A a \in Nat, b \in Nat \ {0} : (a + b - 1) \div b \in Nat
    OBVIOUS
  <2> QED BY <2>1, <2>2
<1> HIDE DEF count, data
<1>4. /\ IsSeq(rows) /\ Len(rows) = count
      /\ \A i \in 1..count : rows[i] = Exec!Packet("rows", c, data(i))
  <2> DEFINE S == {Exec!Packet("rows", c, data(i)) : i \in 1..count}
  <2>1. rows \in Seq(S) /\ Len(rows) = count
    <3>1. rows = [i \in 1..count |-> rows[i]] /\ \A i \in 1..count : rows[i] \in S
      BY <1>1
    <3> HIDE DEF S
    <3>2. rows \in [1..count -> S]
      BY <3>1
    <3> QED BY <1>3, <3>2, LenProperties
  <2>2. \A i \in 1..count : rows[i] = Exec!Packet("rows", c, data(i))
    BY <1>1
  <2> HIDE DEF S
  <2> QED BY <2>1, <2>2, IsSeqOf
<1>5. /\ IsSeq(last) /\ Len(last) = 2 /\ last[1] = Exec!Packet("exec", c, <<>>)
      /\ last[2] = Exec!Packet("release", c, <<>>)
  <2>1. \A x, y : <<x, y>> \in Seq({x, y}) /\ Len(<<x, y>>) = 2
                  /\ <<x, y>>[1] = x /\ <<x, y>>[2] = y
    OBVIOUS
  <2>2. \A x, y : IsSeq(<<x, y>>)
    BY <2>1, IsSeqOf
  <2> QED BY <2>1, <2>2
<1> HIDE DEF last
<1>6. PICK first, front, closing, all :
         /\ first = <<Exec!Packet("open", c, opened)>>
         /\ front = first \o rows /\ closing = last /\ all = front \o closing
  OBVIOUS
<1>7. IsSeq(first) /\ Len(first) = 1 /\ first[1] = Exec!Packet("open", c, opened)
  BY <1>6, FewRequests
<1>8. /\ IsSeq(front) /\ Len(front) = 1 + count /\ front[1] = first[1]
      /\ \A i \in 1..count : front[1 + i] = rows[i]
  <2>1. /\ IsSeq(front) /\ Len(front) = Len(first) + Len(rows)
        /\ \A i \in 1..Len(first) : front[i] = first[i]
        /\ \A i \in 1..Len(rows) : front[Len(first) + i] = rows[i]
    BY <1>6, <1>4, <1>7, CatByIndex
  <2>2. 1 \in 1..Len(first)
    BY <1>7
  <2> QED BY <1>4, <1>7, <2>1, <2>2
<1>9. /\ IsSeq(all) /\ Len(all) = 1 + count + 2
      /\ \A i \in 1..(1 + count) : all[i] = front[i]
      /\ \A i \in 1..2 : all[1 + count + i] = last[i]
  <2>1. IsSeq(closing) /\ Len(closing) = 2
    BY <1>5, <1>6
  <2>2. /\ IsSeq(all) /\ Len(all) = Len(front) + Len(closing)
        /\ \A i \in 1..Len(front) : all[i] = front[i]
        /\ \A i \in 1..Len(closing) : all[Len(front) + i] = closing[i]
    <3>1. all = front \o closing
      BY <1>6
    <3>2. IsSeq(front) /\ IsSeq(closing)
      BY <1>8, <2>1
    <3> QED BY <3>1, <3>2, CatByIndex
  <2> QED BY <1>6, <1>8, <2>1, <2>2
<1>10. Exec!Packets(c) = all
  BY <1>1, <1>6
<1>11. ASSUME NEW i \in 1..Len(all)
       PROVE  /\ all[i].call = c
              /\ all[i].op = IF i = 1 THEN "open" ELSE IF i = Len(all) THEN "release"
                             ELSE IF i = Len(all) - 1 THEN "exec" ELSE "rows"
  <2>1. CASE i = 1
    <3>1. 1 \in 1..(1 + count)
      BY <1>3
    <3>2. all[1] = Exec!Packet("open", c, opened)
      BY <1>7, <1>8, <1>9, <3>1
    <3> QED BY <1>2, <2>1, <3>2
  <2>2. CASE i \in 2..(1 + count)
    <3>1. i - 1 \in 1..count /\ 1 + (i - 1) = i /\ i \in 1..(1 + count)
      BY <1>3, <2>2
    <3>2. all[i] = rows[i - 1]
      BY <1>8, <1>9, <3>1
    <3>3. all[i].call = c /\ all[i].op = "rows"
      BY <1>2, <1>4, <3>1, <3>2
    <3>4. i # 1 /\ i # Len(all) /\ i # Len(all) - 1
      BY <1>3, <1>9, <2>2
    <3> QED BY <3>3, <3>4
  <2>3. CASE i = 1 + count + 1
    <3>1. all[i] = Exec!Packet("exec", c, <<>>)
      <4>1. 1 \in 1..2
        OBVIOUS
      <4> QED BY <1>5, <1>9, <2>3, <4>1
    <3>2. i # 1 /\ i # Len(all) /\ i = Len(all) - 1
      BY <1>3, <1>9, <2>3
    <3> QED BY <1>2, <3>1, <3>2
  <2>4. CASE i = 1 + count + 2
    <3>1. all[i] = Exec!Packet("release", c, <<>>)
      <4>1. 2 \in 1..2
        OBVIOUS
      <4> QED BY <1>5, <1>9, <2>4, <4>1
    <3>2. i # 1 /\ i = Len(all)
      BY <1>3, <1>9, <2>4
    <3> QED BY <1>2, <3>1, <3>2
  <2> QED BY <1>3, <1>9, <2>1, <2>2, <2>3, <2>4
<1>12. Len(all) \in Nat /\ Len(all) >= 3
  BY <1>3, <1>9
<1> QED BY <1>9, <1>10, <1>11, <1>12

(* A batch whose packets are sent waits for all but the release.           *)
LEMMA FreedEncoded ==
    ASSUME Exec!ExecuteAssumption, ExecuteInv, Later, started' \subseteq Call,
           NEW c \in Call, c \in started', Exec!InBatch(c), ~batch[c].open,
           NEW d, NEW new, Moves(d, new), new = Exec!Packets(c), Freed(c, d),
           d = 1 => queue[1].call = c, upload' = upload, UNCHANGED <<told, batch, ran>>,
           left' = [left EXCEPT ![c] = Len(new) - 1], failed' = [failed EXCEPT ![c] = FALSE]
    PROVE  ExecuteInv'
<1> DEFINE n == Len(new)
<1>0. PICK l, k : l = Len(queue) - d /\ k = l + n - 1
  OBVIOUS
<1>1. /\ job \in Plans /\ IsSeq(queue) /\ CallTypes /\ ServerTypes /\ job' = job
  BY DEF ExecuteInv, Types, QueueTypes, Later
<1>2. /\ n \in Nat /\ n >= 3
      /\ \A i \in 1..n : /\ new[i].call = c
                         /\ new[i].op = IF i = 1 THEN "open" ELSE IF i = n THEN "release"
                                        ELSE IF i = n - 1 THEN "exec" ELSE "rows"
  BY <1>1, PacketsAre
<1>3. /\ l \in Nat /\ DOMAIN new = 1..n /\ DOMAIN queue' = 1..(l + n) /\ k \in Nat
      /\ d \in {0, 1}
  <2>1. /\ Len(queue) \in Nat /\ DOMAIN new = 1..n /\ DOMAIN queue' = 1..Len(queue')
    BY <1>1, MovesIs
  <2>2. d \in {0, 1} /\ d <= Len(queue) /\ Len(queue') = l + n
    BY <1>0 DEF Moves
  <2> HIDE DEF n
  <2>3. l \in Nat /\ k \in Nat
    BY <1>0, <1>2, <2>1, <2>2
  <2> QED BY <2>1, <2>2, <2>3
<1>4. /\ left \in [Call -> Int] /\ failed \in [Call -> BOOLEAN]
      /\ left'[c] = n - 1 /\ failed'[c] = FALSE
      /\ left' \in [Call -> Int] /\ failed' \in [Call -> BOOLEAN]
      /\ \A b \in Call : b # c => left'[b] = left[b] /\ failed'[b] = failed[b]
  <2>1. left \in [Call -> Int] /\ failed \in [Call -> BOOLEAN]
    BY <1>1 DEF CallTypes
  <2> QED BY <1>2, <2>1
<1>5. CallTypes' /\ ServerTypes'
  BY <1>1, <1>4, ServerTypesKept DEF CallTypes, Later
<1>6. \A b \in Call : Exec!RunsOf(b)' = Exec!RunsOf(b)
  BY DEF Exec!RunsOf
<1>7. \A b \in Call : b # c => CallSame(b)
  BY <1>1, <1>4, <1>6 DEF CallSame
<1>8. \A i \in DOMAIN new : new[i].call = c /\ new[i].op \in PacketOps /\ Fits(new[i])
                            /\ OfBatch(new[i], c)
  <2>1. ASSUME NEW i \in DOMAIN new
        PROVE  new[i].call = c /\ new[i].op \in PacketOps
    BY <1>2, <1>3, <2>1 DEF PacketOps
  <2> HIDE DEF n
  <2> QED BY <2>1 DEF Fits, Ops, PacketOps, UploadOps, OfBatch
<1>9. /\ \A u \in Exec!Upload : u[1] = c => UploadInv(u)'
      /\ Alive(c)' = {}
  BY <1>1, <1>8, FreedUploads DEF UploadOps, PacketOps
<1> HIDE DEF n
<1>10. ASSUME NEW i \in DOMAIN queue', i <= l
       PROVE  ~ForCall(queue'[i], c)
  <2>1. i + d > d /\ i \in 1..l
    BY <1>0, <1>3, <1>10
  <2>2. ~\E j \in DOMAIN new : i = Len(queue) - d + j
    <3>1. SUFFICES ASSUME NEW j \in 1..n, i = l + j PROVE FALSE
      BY <1>0, <1>3
    <3> QED BY <1>2, <1>3, <1>10, <3>1
  <2>3. i + d \in DOMAIN queue /\ queue'[i] = queue[i + d]
    BY <1>1, <2>2, MovesIs
  <2> QED BY <2>1, <2>3 DEF Freed
<1>11. ASSUME NEW i \in DOMAIN queue', i > l
       PROVE  /\ OfBatch(queue'[i], c) /\ i \in Int
              /\ queue'[i].op = IF i = l + 1 THEN "open" ELSE IF i = l + n THEN "release"
                                ELSE IF i = k THEN "exec" ELSE "rows"
  <2> HIDE DEF n
  <2>0. PICK j : j = i - l
    OBVIOUS
  <2>1. j \in 1..n /\ i = l + j /\ i \in Int
    BY <1>2, <1>3, <1>11, <2>0
  <2>2. queue'[i] = new[j]
    BY <1>0, <1>1, <1>3, <2>1, MovesIs
  <2>3. (i = l + 1 <=> j = 1) /\ (i = l + n <=> j = n) /\ (i = k <=> j = n - 1)
    <3>1. l \in Int /\ n \in Int /\ k = l + n - 1 /\ j \in Int
      BY <1>0, <1>2, <1>3, <2>1
    <3>2. i = l + j
      BY <2>1
    <3> QED BY ONLY <3>1, <3>2
  <2> QED BY <1>2, <1>3, <1>8, <2>1, <2>2, <2>3
<1>12. k \in DOMAIN queue' /\ k > l /\ left'[c] \in 1..k /\ k - left'[c] + 1 = l + 1
       /\ l + 1 \in DOMAIN queue'
  <2> HIDE DEF n
  <2> DEFINE m == left'[c]
  <2>1. l \in Nat /\ n \in Int /\ n >= 3 /\ k = l + n - 1 /\ m = n - 1
    BY <1>0, <1>2, <1>3, <1>4
  <2> HIDE DEF m
  <2>2. k \in 1..(l + n) /\ k > l /\ m \in 1..k /\ k - m + 1 = l + 1 /\ l + 1 \in 1..(l + n)
    BY <2>1
  <2> QED BY <1>3, <2>2 DEF m
<1>13. ASSUME NEW i \in DOMAIN queue'
       PROVE  /\ ~Executes(queue'[i], c)
              /\ Counted(queue'[i], c) <=> l + 1 <= i /\ i <= k
              /\ OfBatch(queue'[i], c) =>
                    /\ queue'[i].op = "open" => i = l + 1
                    /\ queue'[i].op = "exec" <=> i = k
                    /\ queue'[i].op = "release" => i > k
  <2>1. i \in Int /\ l \in Int /\ k = l + n - 1 /\ i <= l + n /\ n \in Int /\ n >= 3
    BY <1>0, <1>2, <1>3
  <2>2. CASE i <= l
    <3>1. ~ForCall(queue'[i], c)
      BY <1>10, <2>2
    <3>2. ~(l + 1 <= i)
      BY <2>1, <2>2
    <3> QED BY <3>1, <3>2, CallOpsApart
  <2>3. CASE i > l
    <3>1. /\ OfBatch(queue'[i], c)
          /\ queue'[i].op = IF i = l + 1 THEN "open" ELSE IF i = l + n THEN "release"
                            ELSE IF i = k THEN "exec" ELSE "rows"
      BY <1>11, <2>3
    <3>2. /\ queue'[i].op = "open" <=> i = l + 1
          /\ queue'[i].op = "exec" <=> i = k
          /\ queue'[i].op = "release" <=> i = l + n
      BY <2>1, <3>1
    <3>3. Counted(queue'[i], c) <=> queue'[i].op # "release"
      BY <3>1 DEF Counted, OfBatch, CountedOps, PacketOps
    <3>4. (i # l + n <=> i <= k) /\ (i = l + n => i > k) /\ l + 1 <= i
      BY ONLY <2>1, <2>3
    <3> QED BY <3>1, <3>2, <3>3, <3>4, CallOpsApart
  <2> QED BY <2>1, <2>2, <2>3
<1>14. queue'[l + 1].op = "open"
  <2>1. l + 1 > l
    BY <1>3
  <2> QED BY <1>11, <1>12, <2>1
<1>15. Sending(c, k)'
  BY <1>4, <1>12, <1>13, <1>14 DEF Sending
<1>16. CallInv(c)'
  <2>1. Executing(c)'
    BY <1>6, <1>9, <1>12, <1>15 DEF Executing, Freed
  <2> QED BY <1>1, <1>13, <2>1 DEF CallInv, BatchCallInv, Exec!InBatch
<1> QED BY <1>1, <1>5, <1>7, <1>8, <1>9, <1>16, CallStep

(* An upload that goes on is one of its call's, which has started.         *)
LEMMA GoesOnIs ==
    ASSUME ExecuteInv, NEW u \in Exec!Upload, GoesOn(u)
    PROVE  u = <<u[1], u[2]>> /\ u[1] \in started /\ u[2] \in Alive(u[1])
<1>1. /\ job \in Plans /\ UploadTypes /\ \A i \in DOMAIN queue : IsRequest(queue[i])
  BY DEF ExecuteInv, Types, QueueTypes
<1>2. u = <<u[1], u[2]>>
  BY DEF Exec!Upload
<1>3. u[1] \in started /\ Placed(u[1], u[2])
  <2>1. CASE upload[u].flowing
    BY <1>1, <2>1 DEF UploadTypes
  <2>2. CASE \E i \in DOMAIN queue : Turn(queue[i], u)
    BY <1>1, <2>2 DEF Turn, About, IsRequest
  <2> QED BY <2>1, <2>2 DEF GoesOn
<1>4. u[2] \in Exec!PlacesOf(u[1])
  BY <1>3 DEF Placed, PlacedIn, Exec!PlacesOf
<1> QED BY <1>2, <1>3, <1>4 DEF Alive

(* Finitely many uploads go on.                                            *)
LEMMA AliveFinite ==
    ASSUME Exec!ExecuteAssumption, job \in Plans, NEW c \in Call
    PROVE  IsFiniteSet(Alive(c)) /\ Cardinality(Alive(c)) \in Nat
<1>1. /\ Len(job[c].rows) \in Nat /\ DOMAIN job[c].rows = 1..Len(job[c].rows)
      /\ Len(job[c].input) \in Nat /\ DOMAIN job[c].input = 1..Len(job[c].input)
  BY JobIs
<1>2. IsFiniteSet(DOMAIN job[c].rows) /\ IsFiniteSet(DOMAIN job[c].input)
  <2>1. \A n \in Nat : IsFiniteSet(1..n)
    BY FS_Interval
  <2> QED BY <1>1, <2>1
<1>3. IsFiniteSet(Exec!PlacesOf(c))
  BY <1>2, FS_Product DEF Exec!PlacesOf
<1>4. Alive(c) \subseteq Exec!PlacesOf(c)
  BY DEF Alive
<1>5. IsFiniteSet(Alive(c))
  BY <1>3, <1>4, FS_Subset
<1> QED BY <1>5, FS_CardinalityType

(* The turn at the front is the last thing a call waits for.               *)
LEMMA LastTurn ==
    ASSUME ExecuteInv, NEW c \in Call, NEW x, <<c, x>> \in Exec!Upload, queue # <<>>,
           Turn(queue[1], <<c, x>>), \A y \in Alive(c) : y = x,
           told[c] = <<>>, Exec!RunsOf(c) = {},
           \A i \in DOMAIN queue : i > 1 => ~ForCall(queue[i], c)
    PROVE  Freed(c, 1)
<1>1. IsSeq(queue)
  BY DEF ExecuteInv, Types, QueueTypes
<1>2. PICK u : u = <<c, x>>
  OBVIOUS
<1>3. ASSUME NEW v \in Exec!Upload, v[1] = c
      PROVE  ~upload[v].flowing /\ Clear(1, v)
  <2>1. UploadInv(v)
    BY DEF ExecuteInv
  <2>2. CASE GoesOn(v)
    <3>1. v = <<c, v[2]>> /\ v[2] \in Alive(c)
      BY <1>3, <2>2, GoesOnIs
    <3>2. v = u
      BY <1>2, <3>1
    <3> QED BY <1>1, <1>2, <2>1, <3>2, AtTurn DEF Clear
  <2>3. CASE ~GoesOn(v)
    BY <2>1, <2>3, Idle DEF Clear
  <2> QED BY <2>2, <2>3
<1> QED BY <1>3 DEF Freed

(* The uploads of a batch but the one that is settled go on.               *)
LEMMA SettledOne ==
    ASSUME Exec!ExecuteAssumption, ExecuteInv, Later, started' = started, NEW c \in Call,
           c \in started, Exec!InBatch(c), Uploading(c), NEW x, x \in Alive(c), left[c] > 1,
           <<c, x>> \in Exec!Upload, queue # <<>>, Turn(queue[1], <<c, x>>),
           queue' = Tail(queue) \o <<>>, upload' = upload, UNCHANGED <<told, batch, ran>>,
           left' = [left EXCEPT ![c] = @ - 1],
           NEW b \in BOOLEAN, failed' = [failed EXCEPT ![c] = b]
    PROVE  ExecuteInv'
<1>1. /\ job \in Plans /\ IsSeq(queue) /\ CallTypes /\ ServerTypes /\ job' = job
      /\ started \subseteq Call
  BY DEF ExecuteInv, Types, QueueTypes, Later
<1>2. PICK u : u = <<c, x>>
  OBVIOUS
<1>3. Moves(1, <<>>) /\ \A k \in DOMAIN <<>> : FALSE
  BY <1>1, FewRequests, MovesAnswered
<1>4. u \in Exec!Upload /\ Turn(queue[1], u) /\ UploadInv(u) /\ u[1] = c
  BY <1>2 DEF ExecuteInv
<1>5. /\ left \in [Call -> Int] /\ failed \in [Call -> BOOLEAN] /\ left'[c] = left[c] - 1
      /\ left' \in [Call -> Int] /\ failed' \in [Call -> BOOLEAN]
      /\ \A a \in Call : a # c => left'[a] = left[a] /\ failed'[a] = failed[a]
  <2>1. left \in [Call -> Int] /\ failed \in [Call -> BOOLEAN]
    BY <1>1 DEF CallTypes
  <2> QED BY <2>1
<1>6. CallTypes' /\ ServerTypes'
  BY <1>1, <1>5, ServerTypesKept DEF CallTypes, Later
<1>7. \A a \in Call : Exec!RunsOf(a)' = Exec!RunsOf(a)
  BY DEF Exec!RunsOf
<1>8. \A a \in Call : a # c => CallSame(a)
  BY <1>1, <1>5, <1>7 DEF CallSame
<1>9. UploadInv(u)' /\ ~GoesOn(u)'
  <2>1. ~upload[u].flowing /\ Clear(1, u)
    BY <1>1, <1>4, AtTurn DEF Clear
  <2> QED BY <1>1, <1>3, <2>1, UploadEnds
<1>10. ASSUME NEW v \in Exec!Upload, v # u
       PROVE  UploadInv(v)' /\ (GoesOn(v)' <=> GoesOn(v))
  <2>1. ~Turn(queue[1], v)
    BY <1>4, <1>10, UploadsApart, OpsApart
  <2>2. UploadInv(v)
    BY DEF ExecuteInv
  <2> QED BY <1>1, <1>3, <2>1, <2>2, UploadStays
<1>11. Alive(c)' = Alive(c) \ {x}
  <2>1. Exec!PlacesOf(c)' = Exec!PlacesOf(c)
    BY <1>1 DEF Exec!PlacesOf
  <2>2. ASSUME NEW y \in Exec!PlacesOf(c)
        PROVE  GoesOn(<<c, y>>)' <=> GoesOn(<<c, y>>) /\ y # x
    <3>1. PICK v : v = <<c, y>>
      OBVIOUS
    <3>2. v \in Exec!Upload /\ (v = u <=> y = x)
      BY <1>1, <1>2, <3>1, PlacesAreUploads
    <3>3. GoesOn(v)' <=> GoesOn(v) /\ y # x
      BY <1>9, <1>10, <3>2
    <3> QED BY <3>1, <3>3
  <2> QED BY <2>1, <2>2 DEF Alive
<1>12. left'[c] = Cardinality(Alive(c)')
  <2>1. IsFiniteSet(Alive(c))
    BY <1>1, AliveFinite
  <2>2. Cardinality(Alive(c) \ {x}) = Cardinality(Alive(c)) - 1
    BY <2>1, FS_RemoveElement
  <2> QED BY <1>5, <1>11, <2>2 DEF Uploading
<1>13. CallInv(c)'
  <2>1. BatchCallInv(c)
    BY DEF ExecuteInv, CallInv
  <2>2. \A i \in DOMAIN queue' : i + 1 \in DOMAIN queue /\ queue'[i] = queue[i + 1]
    BY <1>1, <1>3, MovesIs
  <2>3. \A i \in DOMAIN queue' : ~Executes(queue'[i], c) /\ ~OfBatch(queue'[i], c)
    BY <2>1, <2>2 DEF BatchCallInv, Uploading
  <2>4. Uploading(c)'
    BY <1>7, <1>12, <2>3 DEF Uploading
  <2> QED BY <1>1, <2>3, <2>4 DEF CallInv, BatchCallInv, Exec!InBatch
<1>14. queue[1].call = c
  BY <1>2, <1>4 DEF Turn, About
<1> QED BY <1>1, <1>3, <1>4, <1>6, <1>8, <1>9, <1>10, <1>13, <1>14, CallStep

(* An upload of a batch ends.                                              *)
LEMMA SettleKeeps ==
    ASSUME Exec!ExecuteAssumption, ExecuteInv, Later, started' = started, NEW c \in Call,
           c \in started, Exec!InBatch(c), NEW x,
           <<c, x>> \in Exec!Upload, queue # <<>>, Turn(queue[1], <<c, x>>),
           NEW error \in BOOLEAN, Exec!SettleBlobs(c, error),
           upload' = upload, UNCHANGED <<batch, ran>>
    PROVE  ExecuteInv'
<1>1. /\ job \in Plans /\ IsSeq(queue) /\ CallTypes /\ started' \subseteq Call
  BY DEF ExecuteInv, Types, QueueTypes
<1>2. x \in Alive(c) /\ queue[1].call = c
  <2>1. PICK u : u = <<c, x>>
    OBVIOUS
  <2>2. UploadInv(u)
    BY <2>1 DEF ExecuteInv
  <2>3. GoesOn(u)
    BY <1>1, <2>1, <2>2, AtTurn
  <2>4. u[2] \in Alive(u[1])
    BY <2>1, <2>3, GoesOnIs
  <2> QED BY <2>1, <2>4 DEF Turn, About
<1>3. BatchCallInv(c) /\ Uploading(c)
  <2>1. BatchCallInv(c)
    BY DEF ExecuteInv, CallInv
  <2> QED BY <1>2, <2>1 DEF BatchCallInv, Executing, Over
<1>4. left[c] \in Nat /\ IsFiniteSet(Alive(c)) /\ left[c] = Cardinality(Alive(c))
  BY <1>1, <1>3, AliveFinite DEF Uploading
<1>5. failed \in [Call -> BOOLEAN] /\ left \in [Call -> Int]
  BY <1>1 DEF CallTypes
<1>6. CASE left[c] > 1
  <2>1. PICK b : b = (failed[c] \/ error)
    OBVIOUS
  <2>2. b \in BOOLEAN
    BY <1>5, <2>1
  <2>3. ~Exec!Settled(c)
    BY <1>4, <1>6 DEF Exec!Settled
  <2>4. /\ left' = [left EXCEPT ![c] = @ - 1] /\ failed' = [failed EXCEPT ![c] = b]
        /\ told' = told /\ queue' = Tail(queue) \o <<>>
    BY <2>1, <2>3 DEF Exec!SettleBlobs, Exec!Also
  <2> QED BY <1>2, <1>3, <1>6, <2>2, <2>4, SettledOne
<1>7. CASE ~(left[c] > 1)
  <2>1. Exec!Settled(c)
    BY <1>4, <1>7 DEF Exec!Settled
  <2>2. \A y \in Alive(c) : y = x
    <3>1. IsFiniteSet(Alive(c) \ {x}) /\ Cardinality(Alive(c) \ {x}) = Cardinality(Alive(c)) - 1
      BY <1>2, <1>4, FS_RemoveElement
    <3>2. Cardinality(Alive(c) \ {x}) \in Nat
      BY <3>1, FS_CardinalityType
    <3>3. Cardinality(Alive(c) \ {x}) = 0
      BY <1>4, <1>7, <3>1, <3>2
    <3>4. Alive(c) \ {x} = {}
      BY <3>1, <3>3, FS_EmptySet
    <3> QED BY <3>4
  <2>3. Freed(c, 1)
    <3>1. \A i \in DOMAIN queue : ~ForCall(queue[i], c)
      BY <1>3 DEF ForCall, BatchCallInv, Uploading
    <3> QED BY <1>3, <2>2, <3>1, LastTurn DEF Uploading
  <2>4. CASE ~(failed[c] \/ error)
    <3>1. Exec!ExecuteBatchEncoded(c, Tail(queue))
      BY <2>1, <2>4 DEF Exec!SettleBlobs
    <3>2. CASE Exec!Refused(c)
      <4>1. Exec!Tell(c, "error") /\ queue' = Tail(queue) /\ UNCHANGED <<left, failed>>
        BY <3>1, <3>2 DEF Exec!ExecuteBatchEncoded
      <4>2. Moves(1, <<>>)
        BY <1>1, <4>1, MovesOff
      <4> QED BY <1>1, <1>2, <1>5, <2>3, <4>1, <4>2, FreedTold
    <3>3. CASE ~Exec!Refused(c)
      <4>1. PICK new : new = Exec!Packets(c)
        OBVIOUS
      <4>2. /\ queue' = Tail(queue) \o new /\ told' = told
            /\ left' = [left EXCEPT ![c] = Len(new) - 1]
            /\ failed' = [failed EXCEPT ![c] = FALSE]
        BY <3>1, <3>3, <4>1 DEF Exec!ExecuteBatchEncoded
      <4>3. IsSeq(new)
        BY <1>1, <4>1, PacketsAre
      <4>4. Moves(1, new)
        BY <1>1, <4>2, <4>3, MovesAnswered
      <4>5. ~batch[c].open
        BY <1>3 DEF Uploading
      <4> QED BY <1>1, <1>2, <2>3, <4>1, <4>2, <4>4, <4>5, FreedEncoded
    <3> QED BY <3>2, <3>3
  <2>5. CASE failed[c] \/ error
    <3>1. PICK b : b = (failed[c] \/ error)
      OBVIOUS
    <3>2. /\ left' = [left EXCEPT ![c] = @ - 1] /\ failed' = [failed EXCEPT ![c] = b]
          /\ Exec!Tell(c, "error") /\ queue' = Tail(queue) \o <<>>
      BY <2>1, <2>5, <3>1 DEF Exec!SettleBlobs, Exec!Also
    <3>3. /\ left' \in [Call -> Int] /\ failed' \in [Call -> BOOLEAN]
          /\ \A a \in Call : a # c => left'[a] = left[a] /\ failed'[a] = failed[a]
      <4>1. b \in BOOLEAN
        BY <1>5, <3>1
      <4> QED BY <1>5, <3>2, <4>1
    <3>4. Moves(1, <<>>)
      BY <1>1, <3>2, FewRequests, MovesAnswered
    <3> QED BY <1>1, <1>2, <2>3, <3>2, <3>3, <3>4, FreedTold
  <2> QED BY <2>4, <2>5
<1> QED BY <1>6, <1>7

(* The upload of a statement at its turn is all it waits for.              *)
LEMMA StatementTurn ==
    ASSUME ExecuteInv, NEW c \in Call, ~Exec!InBatch(c), NEW x,
           <<c, x>> \in Exec!Upload, queue # <<>>, Turn(queue[1], <<c, x>>)
    PROVE  Freed(c, 1)
<1>1. IsSeq(queue) /\ StatementInv(c)
  BY DEF ExecuteInv, Types, QueueTypes, CallInv
<1>2. x \in Alive(c)
  <2>1. PICK u : u = <<c, x>>
    OBVIOUS
  <2>2. UploadInv(u)
    BY <2>1 DEF ExecuteInv
  <2>3. GoesOn(u)
    BY <1>1, <2>1, <2>2, AtTurn
  <2>4. u[2] \in Alive(u[1])
    BY <2>1, <2>3, GoesOnIs
  <2> QED BY <2>1, <2>4
<1>3. \A y \in Alive(c) : y = x
  BY <1>1, <1>2 DEF StatementInv
<1>4. \A i \in DOMAIN queue : ~ForCall(queue[i], c)
  BY <1>1, <1>2 DEF StatementInv, ForCall
<1>5. told[c] = <<>> /\ Exec!RunsOf(c) = {}
  BY <1>1, <1>2 DEF StatementInv
<1> QED BY <1>3, <1>4, <1>5, LastTurn

(* The server refuses to create a blob.                                    *)
LEMMA NotCreatedKeeps ==
    ASSUME Exec!ExecuteAssumption, ExecuteInv, Exec!NotCreated
    PROVE  ExecuteInv'
<1>1. PICK c, x : c = Exec!Up[1] /\ x = Exec!Up[2] /\ Exec!Up = <<c, x>>
  <2>1. Exec!Answer("create", FALSE)
    BY DEF Exec!NotCreated
  <2>2. Exec!Up = <<queue[1].call, queue[1].place>>
    BY <2>1, AnswerIs
  <2> QED BY <2>2
<1>2. /\ Exec!Answer("create", FALSE) /\ upload' = upload /\ UNCHANGED <<batch, ran>>
      /\ IF Exec!InBatch(c) THEN Exec!SettleBlobs(c, TRUE)
         ELSE queue' = Tail(queue) \o <<>> /\ UNCHANGED <<left, failed, told>>
  BY <1>1 DEF Exec!NotCreated, Exec!server, Exec!Also
<1>3. /\ IsSeq(queue) /\ queue # <<>> /\ Later /\ started' = started /\ job \in Plans
      /\ c \in started /\ c \in Call /\ <<c, x>> \in Exec!Upload
      /\ Turn(queue[1], <<c, x>>) /\ queue[1].call = c
  <2>1. Exec!Answer("create", FALSE) /\ "create" \in UploadOps
    BY <1>2 DEF UploadOps
  <2>2. /\ IsSeq(queue) /\ queue # <<>> /\ Later /\ started' = started /\ job \in Plans
        /\ Exec!Up = <<queue[1].call, queue[1].place>>
        /\ Exec!Up[1] \in started /\ Exec!Up[1] \in Call /\ Exec!Up \in Exec!Upload
        /\ Turn(queue[1], Exec!Up)
    BY <2>1, AnswerIs
  <2>3. queue[1].call = c
    BY <1>1, <2>2
  <2> QED BY <1>1, <2>2, <2>3
<1>4. CASE Exec!InBatch(c)
  BY <1>2, <1>3, <1>4, SettleKeeps
<1>5. CASE ~Exec!InBatch(c)
  <2>1. Freed(c, 1)
    BY <1>3, <1>5, StatementTurn
  <2>2. Moves(1, <<>>)
    BY <1>2, <1>3, <1>5, FewRequests, MovesAnswered
  <2>3. SentNext(c, <<>>) /\ started' \subseteq Call
    BY <1>3 DEF SentNext, ExecuteInv, Types
  <2> QED BY <1>2, <1>3, <1>5, <2>1, <2>2, <2>3, FreedSteps
<1> QED BY <1>4, <1>5

(* A blob is closed, or its close is refused.                              *)
LEMMA ClosedKeeps ==
    ASSUME Exec!ExecuteAssumption, ExecuteInv, NEW ok \in BOOLEAN, Exec!Closed(ok)
    PROVE  ExecuteInv'
<1>1. PICK c, x : c = Exec!Up[1] /\ x = Exec!Up[2] /\ Exec!Up = <<c, x>>
  <2>1. Exec!Answer("close", ok)
    BY DEF Exec!Closed
  <2>2. Exec!Up = <<queue[1].call, queue[1].place>>
    BY <2>1, AnswerIs
  <2> QED BY <2>2
<1>2. PICK error \in BOOLEAN :
         /\ Exec!Answer("close", ok) /\ upload' = upload /\ UNCHANGED <<batch, ran>>
         /\ IF Exec!InBatch(c) THEN Exec!SettleBlobs(c, error)
            ELSE /\ queue' = Tail(queue) \o Exec!Step(c, x[2] + 1)
                 /\ UNCHANGED <<left, failed, told>>
  <2> DEFINE e == upload[Exec!Up].error \/ ~ok \/ ~blobs[upload[Exec!Up].blob].open
  <2>1. PICK error : error = ~~e
    OBVIOUS
  <2>2. error \in BOOLEAN /\ (Exec!InBatch(c) => Exec!SettleBlobs(c, e))
    BY <1>1, <2>1 DEF Exec!Closed
  <2>3. /\ Exec!Answer("close", ok) /\ upload' = upload /\ UNCHANGED <<batch, ran>>
        /\ ~Exec!InBatch(c) => /\ queue' = Tail(queue) \o Exec!Step(c, x[2] + 1)
                               /\ UNCHANGED <<left, failed, told>>
    BY <1>1 DEF Exec!Closed, Exec!Also
  <2>4. error <=> e
    BY <2>1
  <2>5. Exec!InBatch(c) => Exec!SettleBlobs(c, error)
    <3> HIDE DEF e
    <3>1. SUFFICES ASSUME Exec!SettleBlobs(c, e) PROVE Exec!SettleBlobs(c, error)
      BY <2>2
    <3> QED BY <2>4, <3>1 DEF Exec!SettleBlobs
  <2> QED BY <2>2, <2>3, <2>5
<1>3. /\ IsSeq(queue) /\ queue # <<>> /\ Later /\ started' = started /\ job \in Plans
      /\ c \in started /\ c \in Call /\ <<c, x>> \in Exec!Upload /\ Placed(c, x)
      /\ Turn(queue[1], <<c, x>>) /\ queue[1].call = c
  <2>1. Exec!Answer("close", ok) /\ "close" \in UploadOps
    BY <1>2 DEF UploadOps
  <2>2. /\ IsSeq(queue) /\ queue # <<>> /\ Later /\ started' = started /\ job \in Plans
        /\ Exec!Up = <<queue[1].call, queue[1].place>>
        /\ Exec!Up[1] \in started /\ Exec!Up[1] \in Call /\ Exec!Up \in Exec!Upload
        /\ Placed(Exec!Up[1], Exec!Up[2]) /\ Turn(queue[1], Exec!Up)
    BY <2>1, AnswerIs
  <2>3. queue[1].call = c
    BY <1>1, <2>2
  <2> QED BY <1>1, <2>2, <2>3
<1>4. CASE Exec!InBatch(c)
  BY <1>2, <1>3, <1>4, SettleKeeps
<1>5. CASE ~Exec!InBatch(c)
  <2>1. Freed(c, 1)
    BY <1>3, <1>5, StatementTurn
  <2>2. PICK new : new = Exec!Step(c, x[2] + 1)
    OBVIOUS
  <2>3. x[2] + 1 \in Nat \ {0} /\ Len(Exec!Values(c, 1)) = Len(job[c].input)
    <3>1. x[1] \in DOMAIN job[c].rows /\ x[2] \in DOMAIN job[c].input
      BY <1>3, PlaceIs
    <3>2. /\ Len(job[c].rows) = 1 /\ DOMAIN job[c].rows = 1..Len(job[c].rows)
          /\ Len(job[c].input) \in Nat /\ DOMAIN job[c].input = 1..Len(job[c].input)
      BY <1>3, <1>5, JobIs
    <3>3. x[1] = 1 /\ x[2] + 1 \in Nat \ {0}
      BY <3>1, <3>2
    <3> QED BY <1>3, <3>3 DEF Placed, PlacedIn, Exec!Values
  <2>4. SentNext(c, new)
    BY <1>3, <1>5, <2>2, <2>3, StepIs
  <2>5. IsSeq(new)
    BY <2>4, FewRequests DEF SentNext
  <2>6. Moves(1, new)
    BY <1>2, <1>3, <1>5, <2>2, <2>5, MovesAnswered
  <2>7. started' \subseteq Call
    BY <1>3 DEF ExecuteInv, Types
  <2> QED BY <1>2, <1>3, <1>5, <2>1, <2>4, <2>6, <2>7, FreedSteps
<1> QED BY <1>4, <1>5

-----------------------------------------------------------------------------
(* What the server runs, and what the callback is told.                    *)
LEMMA RanIs ==
    ASSUME ServerTypes, Later, NEW c \in started', NEW x, x.call = c, ran' = Append(ran, x),
           batch' = [a \in Call |-> batch'[a]], \A a \in Call : IsBatch(batch'[a])
    PROVE  /\ ServerTypes'
           /\ \A b : b # c => Exec!RunsOf(b)' = Exec!RunsOf(b)
           /\ Exec!RunsOf(c) = {} => \E n : Exec!RunsOf(c)' = {n}
<1> DEFINE n == Len(ran) + 1
<1>1. IsSeq(ran) /\ Len(ran) \in Nat /\ DOMAIN ran = 1..Len(ran)
  BY IsSeqLen DEF ServerTypes
<1>2. ran \in Seq(ToSet(ran) \cup {x})
  <2>1. ran \in Seq(ToSet(ran))
    BY <1>1 DEF IsSeq
  <2> QED BY <2>1
<1>3. /\ ran' \in Seq(ToSet(ran) \cup {x}) /\ Len(ran') = n
      /\ \A i \in 1..Len(ran) : ran'[i] = ran[i]
      /\ ran'[n] = x
  BY <1>1, <1>2
<1>4. IsSeq(ran') /\ DOMAIN ran' = 1..n
  BY <1>3, IsSeqOf
<1>5. \A i \in DOMAIN ran' : (i \in DOMAIN ran /\ ran'[i] = ran[i]) \/ i = n
  BY <1>1, <1>4, <1>3
<1>6. n \in DOMAIN ran' /\ n \notin DOMAIN ran /\ \A i \in DOMAIN ran : i \in DOMAIN ran'
  BY <1>1, <1>4
<1>7. ServerTypes'
  <2>1. \A i \in DOMAIN ran' : ran'[i].call \in started'
    BY <1>3, <1>5 DEF ServerTypes, Later
  <2>2. IsSeq(ran)'
    BY <1>4 DEF IsSeq, ToSet
  <2> QED BY <2>1, <2>2 DEF ServerTypes, IsBatch
<1>8. ASSUME NEW b, b # c PROVE Exec!RunsOf(b)' = Exec!RunsOf(b)
  <2>1. \A i : i \in DOMAIN ran' /\ ran'[i].call = b <=> i \in DOMAIN ran /\ ran[i].call = b
    BY <1>1, <1>3, <1>5, <1>6, <1>8
  <2> QED BY <2>1 DEF Exec!RunsOf
<1>9. ASSUME Exec!RunsOf(c) = {} PROVE Exec!RunsOf(c)' = {n}
  <2>1. \A i \in DOMAIN ran : ran[i].call # c
    BY <1>9 DEF Exec!RunsOf
  <2>2. \A i : i \in DOMAIN ran' /\ ran'[i].call = c <=> i = n
    BY <1>3, <1>5, <1>6, <2>1
  <2> QED BY <2>2 DEF Exec!RunsOf
<1> QED BY <1>7, <1>8, <1>9

(* A callback that was not called yet is called.                           *)
LEMMA TellIs ==
    ASSUME CallTypes, Later, NEW c \in Call, c \in started, NEW result \in {"ok", "error"},
           told[c] = <<>>, Exec!Tell(c, result), left' \in [Call -> Int],
           failed' \in [Call -> BOOLEAN]
    PROVE  /\ CallTypes' /\ told'[c] = <<result>> /\ Len(told'[c]) = 1
           /\ \A b \in Call : b # c => told'[b] = told[b]
<1>1. told \in [Call -> Seq({"ok", "error"})] /\ told' = [told EXCEPT ![c] = Append(@, result)]
  BY DEF CallTypes, Exec!Tell
<1>2. Append(<<>>, result) = <<result>> /\ <<result>> \in Seq({"ok", "error"})
      /\ Len(<<result>>) = 1
  OBVIOUS
<1>3. /\ told'[c] = <<result>> /\ told' \in [Call -> Seq({"ok", "error"})]
      /\ \A b \in Call : b # c => told'[b] = told[b]
  BY <1>1, <1>2
<1> QED BY <1>2, <1>3 DEF CallTypes, Later

(* The statement is executed: that was all it waited for.                  *)
LEMMA ExecutedKeeps ==
    ASSUME ExecuteInv, NEW ok \in BOOLEAN, Exec!Executed(ok)
    PROVE  ExecuteInv'
<1>1. PICK c, result : c = Exec!Up[1] /\ result = IF ok THEN "ok" ELSE "error"
  OBVIOUS
<1>2. /\ Exec!Answer("execute", ok) /\ Exec!Tell(c, result) /\ queue' = Tail(queue) \o <<>>
      /\ UNCHANGED <<blobs, batch, upload, stored, left, failed>>
      /\ IF ok THEN \E rows : ran' = Append(ran, [call |-> c, rows |-> rows]) ELSE ran' = ran
  BY <1>1 DEF Exec!Executed, Exec!Also, Exec!Run
<1>3. /\ IsSeq(queue) /\ queue # <<>> /\ Later /\ started' = started /\ job \in Plans
      /\ c \in started /\ c \in Call /\ queue[1].call = c /\ queue[1].op = "execute"
      /\ 1 \in DOMAIN queue
  BY <1>1, <1>2, AnswerIs
<1>4. Executes(queue[1], c)
  BY <1>3 DEF Executes
<1>5. ~Exec!InBatch(c) /\ StatementInv(c)
  BY <1>3, <1>4 DEF ExecuteInv, CallInv, BatchCallInv
<1>6. told[c] = <<>> /\ Exec!RunsOf(c) = {} /\ Alive(c) = {}
  BY <1>3, <1>4, <1>5 DEF StatementInv
<1>7. /\ CallTypes /\ ServerTypes /\ left \in [Call -> Int] /\ failed \in [Call -> BOOLEAN]
      /\ started' \subseteq Call /\ job' = job
  BY <1>3 DEF ExecuteInv, Types, CallTypes, Later
<1>8. /\ CallTypes' /\ told'[c] = <<result>> /\ Len(told'[c]) = 1
      /\ \A b \in Call : b # c => told'[b] = told[b]
  BY <1>1, <1>2, <1>3, <1>6, <1>7, TellIs
<1>9. Moves(1, <<>>)
  BY <1>2, <1>3, FewRequests, MovesAnswered
<1>10. /\ ServerTypes'
       /\ \A b \in Call : b # c => Exec!RunsOf(b)' = Exec!RunsOf(b)
       /\ IF ok THEN \E n : Exec!RunsOf(c)' = {n} ELSE Exec!RunsOf(c)' = {}
  <2>1. CASE ok
    <3>1. PICK x : x.call = c /\ ran' = Append(ran, x)
      BY <1>2, <2>1
    <3>2. batch' = [a \in Call |-> batch'[a]] /\ \A a \in Call : IsBatch(batch'[a])
      BY <1>2, <1>7 DEF ServerTypes
    <3> QED BY <1>3, <1>6, <1>7, <2>1, <3>1, <3>2, RanIs
  <2>2. CASE ~ok
    BY <1>2, <1>3, <1>6, <1>7, <2>2, ServerTypesKept DEF Exec!RunsOf
  <2> QED BY <2>1, <2>2
<1>11. ToldOnce(c)'
  <2>1. Cardinality(Exec!RunsOf(c)') <= 1
    <3>1. CASE ok
      <4>1. PICK n : Exec!RunsOf(c)' = {n}
        BY <1>10, <3>1
      <4>2. Cardinality({n}) = 1
        BY FS_Singleton
      <4> QED BY <4>1, <4>2
    <3>2. CASE ~ok
      <4>1. Exec!RunsOf(c)' = {}
        BY <1>10, <3>2
      <4> QED BY <4>1, FS_EmptySet
    <3> QED BY <3>1, <3>2
  <2>2. (told'[c] = <<"ok">> => ok) /\ (told'[c] = <<"error">> => ~ok)
    BY <1>1, <1>8
  <2>3. (ok => Exec!RunsOf(c)' # {}) /\ (~ok => Exec!RunsOf(c)' = {})
    BY <1>10
  <2> QED BY <1>8, <2>1, <2>2, <2>3 DEF ToldOnce
<1>12. ASSUME NEW v \in Exec!Upload
       PROVE  UploadInv(v)' /\ (GoesOn(v)' <=> GoesOn(v))
  <2>1. ~Turn(queue[1], v)
    BY <1>3 DEF Turn, UploadOps
  <2>2. UploadInv(v)
    BY DEF ExecuteInv
  <2> QED BY <1>2, <1>3, <1>9, <2>1, <2>2, FewRequests, UploadStays
<1>13. Alive(c)' = {}
  <2>1. \A x \in Exec!PlacesOf(c) : GoesOn(<<c, x>>)' <=> GoesOn(<<c, x>>)
    BY <1>3, <1>12, PlacesAreUploads
  <2> QED BY <1>6, <1>7, <2>1, AliveStays
<1>14. \A i \in DOMAIN queue' : ~OfBatch(queue'[i], c) /\ ~Executes(queue'[i], c)
  <2>1. ASSUME NEW i \in DOMAIN queue' PROVE i + 1 \in DOMAIN queue /\ queue'[i] = queue[i + 1] /\ i + 1 # 1
    <3>1. DOMAIN queue' = 1..Len(queue') /\ Len(queue') \in Nat
      BY <1>3, <1>9, MovesIs
    <3>2. i + 1 # 1
      BY <3>1
    <3> QED BY <1>3, <1>9, <3>2, MovesIs, FewRequests
  <2> QED BY <1>3, <1>4, <1>5, <2>1 DEF StatementInv
<1>15. CallInv(c)'
  <2>1. told'[c] # <<>> /\ ~Exec!InBatch(c)'
    BY <1>5, <1>7, <1>8 DEF Exec!InBatch
  <2> QED BY <1>11, <1>13, <1>14, <2>1 DEF CallInv, StatementInv
<1>16. \A b \in Call : b # c => CallSame(b)
  BY <1>2, <1>7, <1>8, <1>10 DEF CallSame
<1> QED BY <1>2, <1>3, <1>7, <1>8, <1>9, <1>10, <1>12, <1>15, <1>16, FewRequests, CallStep

(* The answer to a packet of a batch, in what the proof needs of it.       *)
LEMMA PacketIs ==
    ASSUME ExecuteInv, NEW op \in Exec!BatchOps, NEW ok \in BOOLEAN, Exec!Batch(op, ok)
    PROVE  \E c \in Call, good \in BOOLEAN :
              /\ Exec!Answer(op, ok) /\ queue[1].call = c /\ queue[1].op = op
              /\ ok \/ <<job[c].kind, op>> \in Failing
              /\ op # "open" => (good <=> ok /\ batch[c].open)
              /\ batch' = [a \in Call |-> batch'[a]] /\ \A a \in Call : IsBatch(batch'[a])
              /\ \A a \in Call : a # c => batch'[a] = batch[a]
              /\ batch'[c].open = IF good /\ op # "rows" THEN op \in {"open", "exec"}
                                  ELSE batch[c].open
              /\ IF good /\ op = "exec" THEN \E x : x.call = c /\ ran' = Append(ran, x)
                 ELSE ran' = ran
              /\ IF op = "release" THEN UNCHANGED <<left, failed, told>>
                 ELSE /\ left' = [left EXCEPT ![c] = @ - 1]
                      /\ failed' = [failed EXCEPT ![c] = @ \/ ~good]
                      /\ IF left[c] > 1 THEN told' = told
                         ELSE Exec!Tell(c, IF failed'[c] THEN "error" ELSE "ok")
              /\ queue' = Tail(queue) \o <<>> /\ UNCHANGED <<blobs, upload, stored>>
<1>1. PICK c, data : c = Exec!Up[1] /\ data = Head(queue).data
  OBVIOUS
<1> DEFINE g == ok /\ IF op = "open" THEN data.length = Exec!ServerLength(data.blr)
                      ELSE batch[c].open
<1>2. PICK good \in BOOLEAN : good = ~~g
  OBVIOUS
<1>3. Exec!Answer(op, ok)
  BY DEF Exec!Batch
<1>4. /\ queue[1].op = op /\ queue[1].call = c /\ c \in Call
  BY <1>1, <1>3, AnswerIs
<1>5. ok \/ <<job[c].kind, op>> \in Failing
  BY <1>1, <1>3 DEF Exec!Answer, Exec!Up
<1>6. g <=> good
  BY <1>2
<1>7. op # "open" => (good <=> ok /\ batch[c].open)
  BY <1>6
<1>8. /\ batch' = [batch EXCEPT ![c] =
                 IF ~g THEN @
                 ELSE CASE op = "open" -> [Exec!NoBatch EXCEPT !.open = TRUE, !.blr = data.blr]
                        [] op = "rows" -> [@ EXCEPT !.messages = @ \o data]
                        [] OTHER -> [@ EXCEPT !.open = (op = "exec")]]
      /\ IF g /\ op = "exec" THEN Exec!Run(c, batch[c].blr, batch[c].messages) ELSE ran' = ran
      /\ IF op = "release" THEN UNCHANGED <<left, failed, told>>
         ELSE /\ left' = [left EXCEPT ![c] = @ - 1]
              /\ failed' = [failed EXCEPT ![c] = @ \/ ~g]
              /\ IF left[c] > 1 THEN told' = told
                 ELSE Exec!Tell(c, IF failed'[c] THEN "error" ELSE "ok")
      /\ queue' = Tail(queue) \o <<>> /\ UNCHANGED <<blobs, upload, stored>>
  BY <1>1 DEF Exec!Batch, Exec!Also
<1> HIDE DEF g
<1>9. batch = [a \in Call |-> batch[a]] /\ \A a \in Call : IsBatch(batch[a])
  BY DEF ExecuteInv, Types, ServerTypes
<1>10. PICK new :
          new = IF ~g THEN batch[c]
                ELSE CASE op = "open" -> [Exec!NoBatch EXCEPT !.open = TRUE, !.blr = data.blr]
                       [] op = "rows" -> [batch[c] EXCEPT !.messages = @ \o data]
                       [] OTHER -> [batch[c] EXCEPT !.open = (op = "exec")]
  OBVIOUS
<1>10a. batch' = [batch EXCEPT ![c] = new]
  BY <1>8, <1>10
<1>11. IsBatch(new) /\ new.open = IF good /\ op # "rows" THEN op \in {"open", "exec"}
                                  ELSE batch[c].open
  <2>1. IsBatch(batch[c])
    BY <1>4, <1>9
  <2>2. CASE ~g
    BY <1>6, <1>10, <2>1, <2>2
  <2>3. CASE g /\ op = "open"
    BY <1>6, <1>10, <2>3 DEF IsBatch, Exec!NoBatch
  <2>4. CASE g /\ op = "rows"
    BY <1>6, <1>10, <2>1, <2>4 DEF IsBatch
  <2>5. CASE g /\ op \notin {"open", "rows"}
    <3>1. new = [batch[c] EXCEPT !.open = (op = "exec")]
      BY <1>10, <2>5
    <3> QED BY <1>6, <2>1, <2>5, <3>1 DEF IsBatch
  <2> QED BY <2>2, <2>3, <2>4, <2>5
<1>12. /\ batch' = [a \in Call |-> batch'[a]] /\ \A a \in Call : IsBatch(batch'[a])
       /\ \A a \in Call : a # c => batch'[a] = batch[a]
       /\ batch'[c] = new
  BY <1>4, <1>9, <1>11, <1>10a
<1>13. IF good /\ op = "exec" THEN \E x : x.call = c /\ ran' = Append(ran, x) ELSE ran' = ran
  <2>1. CASE good /\ op = "exec"
    <3>1. Exec!Run(c, batch[c].blr, batch[c].messages)
      BY <1>6, <1>8, <2>1
    <3>2. PICK rows : ran' = Append(ran, [call |-> c, rows |-> rows])
      BY <3>1 DEF Exec!Run
    <3>3. [call |-> c, rows |-> rows].call = c
      OBVIOUS
    <3> QED BY <2>1, <3>2, <3>3
  <2>2. CASE ~(good /\ op = "exec")
    BY <1>6, <1>8, <2>2
  <2> QED BY <2>1, <2>2
<1>14. IF op = "release" THEN UNCHANGED <<left, failed, told>>
       ELSE /\ left' = [left EXCEPT ![c] = @ - 1]
            /\ failed' = [failed EXCEPT ![c] = @ \/ ~good]
            /\ IF left[c] > 1 THEN told' = told
               ELSE Exec!Tell(c, IF failed'[c] THEN "error" ELSE "ok")
  BY <1>6, <1>8
<1>15. batch'[c].open = IF good /\ op # "rows" THEN op \in {"open", "exec"}
                          ELSE batch[c].open
  BY <1>11, <1>12
<1>16. queue' = Tail(queue) \o <<>> /\ UNCHANGED <<blobs, upload, stored>>
  BY <1>8
<1> QED BY ONLY <1>3, <1>4, <1>5, <1>7, <1>12, <1>13, <1>14, <1>15, <1>16, Zenon

(* Behind the packet at the front the queue goes on as it was.             *)
LEMMA QueueOff ==
    ASSUME IsSeq(queue), Moves(1, <<>>)
    PROVE  /\ \A i \in DOMAIN queue' : /\ i + 1 \in DOMAIN queue /\ queue'[i] = queue[i + 1]
                                       /\ i \in Nat /\ i >= 1
           /\ \A i \in DOMAIN queue : i > 1 => i - 1 \in DOMAIN queue'
<1>1. DOMAIN queue' = 1..Len(queue') /\ Len(queue') \in Nat
  BY MovesIs
<1> QED BY <1>1, MovesIs, FewRequests

(* The next packet is awaited.                                             *)
LEMMA PacketNext ==
    ASSUME IsSeq(queue), Moves(1, <<>>), NEW c \in Call, NEW k \in DOMAIN queue, k > 1,
           Sending(c, k), left[c] = k, left'[c] = k - 1, failed'[c] = ~batch'[c].open
    PROVE  k - 1 \in DOMAIN queue' /\ Sending(c, k - 1)'
<1>1. /\ DOMAIN queue = 1..Len(queue) /\ Len(queue) \in Nat
      /\ \A i \in DOMAIN queue' : /\ i + 1 \in DOMAIN queue /\ queue'[i] = queue[i + 1]
                                  /\ i \in Nat /\ i >= 1
      /\ k - 1 \in DOMAIN queue'
  BY IsSeqLen, QueueOff
<1>2. k \in Int /\ k - k + 1 = 1 /\ (k - 1) - (k - 1) + 1 = 1 /\ k - 1 \in 1..(k - 1)
  BY <1>1
<1>3. /\ \A i \in DOMAIN queue : Counted(queue[i], c) <=> 1 <= i /\ i <= k
      /\ \A i \in DOMAIN queue : OfBatch(queue[i], c) =>
            /\ queue[i].op = "open" => i = 1
            /\ queue[i].op = "exec" <=> i = k
            /\ queue[i].op = "release" => i > k
  BY <1>2 DEF Sending
<1>4. ASSUME NEW i \in DOMAIN queue'
      PROVE  /\ Counted(queue'[i], c) <=> 1 <= i /\ i <= k - 1
             /\ OfBatch(queue'[i], c) =>
                   /\ queue'[i].op # "open"
                   /\ queue'[i].op = "exec" <=> i = k - 1
                   /\ queue'[i].op = "release" => i > k - 1
  <2>1. i + 1 \in DOMAIN queue /\ queue'[i] = queue[i + 1] /\ i \in Nat /\ i >= 1
    BY <1>1
  <2>2. /\ 1 <= i + 1 /\ (i + 1 <= k <=> i <= k - 1) /\ i + 1 # 1
        /\ (i + 1 = k <=> i = k - 1) /\ (i + 1 > k => i > k - 1)
    <3>1. k \in Int /\ i \in Int /\ i >= 1
      BY <1>2, <2>1
    <3> QED BY ONLY <3>1
  <2> QED BY <1>3, <2>1, <2>2
<1>5. 1 \in DOMAIN queue' /\ queue'[1].op # "open"
  <2>1. 1 \in DOMAIN queue'
    <3>1. DOMAIN queue' = 1..Len(queue') /\ Len(queue') \in Nat
      BY MovesIs
    <3> QED BY <1>1, <1>2, <3>1
  <2>2. Counted(queue'[1], c)
    BY <1>2, <1>4, <2>1
  <2> QED BY <1>4, <2>1, <2>2, CallOpsApart
<1>6. LET a == (k - 1) - left'[c] + 1
      IN  /\ left'[c] \in 1..(k - 1)
          /\ \A i \in DOMAIN queue' : Counted(queue'[i], c) <=> a <= i /\ i <= k - 1
          /\ \A i \in DOMAIN queue' : OfBatch(queue'[i], c) =>
                /\ queue'[i].op = "open" => i = a
                /\ queue'[i].op = "exec" <=> i = k - 1
                /\ queue'[i].op = "release" => i > k - 1
          /\ IF queue'[a].op = "open" THEN ~failed'[c] /\ ~batch'[c].open
             ELSE failed'[c] = ~batch'[c].open
  <2>1. (k - 1) - left'[c] + 1 = 1 /\ left'[c] \in 1..(k - 1)
    BY <1>2
  <2> QED BY <1>4, <1>5, <2>1
<1> QED BY <1>1, <1>6 DEF Sending

(* A batch goes on to its next packet; the last that counts tells its      *)
(* callback.                                                               *)
LEMMA BatchKeeps ==
    ASSUME Exec!ClosesOnce, ExecuteInv, NEW op \in Exec!BatchOps, NEW ok \in BOOLEAN,
           Exec!Batch(op, ok), Exec!ExecuteAssumption
    PROVE  ExecuteInv'
<1>1. PICK c \in Call, good \in BOOLEAN :
              /\ Exec!Answer(op, ok) /\ queue[1].call = c /\ queue[1].op = op
              /\ ok \/ <<job[c].kind, op>> \in Failing
              /\ op # "open" => (good <=> ok /\ batch[c].open)
              /\ batch' = [a \in Call |-> batch'[a]] /\ \A a \in Call : IsBatch(batch'[a])
              /\ \A a \in Call : a # c => batch'[a] = batch[a]
              /\ batch'[c].open = IF good /\ op # "rows" THEN op \in {"open", "exec"}
                                  ELSE batch[c].open
              /\ IF good /\ op = "exec" THEN \E x : x.call = c /\ ran' = Append(ran, x)
                 ELSE ran' = ran
              /\ IF op = "release" THEN UNCHANGED <<left, failed, told>>
                 ELSE /\ left' = [left EXCEPT ![c] = @ - 1]
                      /\ failed' = [failed EXCEPT ![c] = @ \/ ~good]
                      /\ IF left[c] > 1 THEN told' = told
                         ELSE Exec!Tell(c, IF failed'[c] THEN "error" ELSE "ok")
              /\ queue' = Tail(queue) \o <<>> /\ UNCHANGED <<blobs, upload, stored>>
  BY PacketIs
<1>2. /\ IsSeq(queue) /\ queue # <<>> /\ Later /\ started' = started /\ job \in Plans
      /\ c \in started /\ 1 \in DOMAIN queue
  <2>1. Exec!Answer(op, ok)
    BY <1>1
  <2> QED BY <1>1, <2>1, AnswerIs
<1>3. OfBatch(queue[1], c) /\ queue[1].op = op /\ op \notin UploadOps
  BY <1>1 DEF OfBatch, PacketOps, Exec!BatchOps, UploadOps
<1>4. Exec!InBatch(c) /\ BatchCallInv(c)
  BY <1>2, <1>3 DEF ExecuteInv, CallInv, StatementInv
<1>5. Executing(c) \/ Over(c)
  BY <1>2, <1>3, <1>4 DEF BatchCallInv, Uploading
<1>6. Moves(1, <<>>)
  BY <1>1, <1>2, FewRequests, MovesAnswered
<1>7. /\ CallTypes /\ ServerTypes /\ left \in [Call -> Int] /\ failed \in [Call -> BOOLEAN]
      /\ started' \subseteq Call /\ job' = job
  BY <1>2 DEF ExecuteInv, Types, CallTypes, Later
<1>8. ASSUME NEW v \in Exec!Upload
      PROVE  UploadInv(v)' /\ (GoesOn(v)' <=> GoesOn(v))
  <2>1. ~Turn(queue[1], v)
    BY <1>3 DEF Turn
  <2>2. UploadInv(v)
    BY DEF ExecuteInv
  <2> QED BY <1>1, <1>2, <1>6, <2>1, <2>2, FewRequests, UploadStays
<1>9. Alive(c)' = {}
  <2>1. \A x \in Exec!PlacesOf(c) : GoesOn(<<c, x>>)' <=> GoesOn(<<c, x>>)
    BY <1>2, <1>8, PlacesAreUploads
  <2>2. Alive(c) = {}
    BY <1>5 DEF Executing, Over
  <2> QED BY <1>7, <2>1, <2>2, AliveStays
<1>10. /\ ServerTypes'
       /\ \A b \in Call : b # c => Exec!RunsOf(b)' = Exec!RunsOf(b)
       /\ op # "exec" \/ ~good => Exec!RunsOf(c)' = Exec!RunsOf(c)
       /\ op = "exec" /\ good /\ Exec!RunsOf(c) = {} => \E n : Exec!RunsOf(c)' = {n}
  <2>1. CASE good /\ op = "exec"
    <3>1. PICK x : x.call = c /\ ran' = Append(ran, x)
      BY <1>1, <2>1
    <3> QED BY <1>1, <1>2, <1>7, <2>1, <3>1, RanIs
  <2>2. CASE ~(good /\ op = "exec")
    <3>1. ran' = ran
      BY <1>1, <2>2
    <3>2. ServerTypes'
      BY <1>1, <1>2, <1>7, <3>1 DEF ServerTypes, Later, IsBatch
    <3> QED BY <2>2, <3>1, <3>2 DEF Exec!RunsOf
  <2> QED BY <2>1, <2>2
<1>11. \A i \in DOMAIN queue' : /\ i + 1 \in DOMAIN queue /\ queue'[i] = queue[i + 1]
                                /\ i \in Nat /\ i >= 1
  BY <1>2, <1>6, QueueOff
<1>12. \A i \in DOMAIN queue' : ~Executes(queue'[i], c)
  BY <1>4, <1>11 DEF BatchCallInv
<1>13. CASE Over(c)
  <2>1. op = "release"
    <3>1. ~Counted(queue[1], c)
      BY <1>2, <1>13 DEF Over
    <3> QED BY <1>3, <3>1, CallOpsApart
  <2>2. UNCHANGED <<left, failed, told>> /\ \A b \in Call : Exec!RunsOf(b)' = Exec!RunsOf(b)
    BY <1>1, <1>10, <2>1
  <2>3. CallTypes'
    BY <1>2, <1>7, <2>2, CallTypesKept
  <2>4. \A b \in Call : b # c => CallSame(b)
    BY <1>1, <1>7, <2>2 DEF CallSame
  <2>5. Over(c)'
    <3>1. \A j \in DOMAIN queue' : ~Counted(queue'[j], c)
      BY <1>11, <1>13 DEF Over
    <3>2. ToldOnce(c)'
      BY <1>7, <1>13, <2>2 DEF Over, ToldOnce
    <3> QED BY <1>9, <1>13, <2>2, <3>1, <3>2 DEF Over
  <2>6. CallInv(c)'
    BY <1>4, <1>7, <1>12, <2>5 DEF CallInv, BatchCallInv, Exec!InBatch
  <2> QED BY <1>1, <1>2, <1>6, <1>7, <1>8, <1>10, <2>3, <2>4, <2>6, FewRequests, CallStep
<1>14. CASE Executing(c)
  <2>1. PICK k \in DOMAIN queue : Sending(c, k)
    BY <1>14 DEF Executing
  <2>2. told[c] = <<>> /\ Exec!RunsOf(c) = {}
    BY <1>14 DEF Executing
  <2>3. k \in Nat /\ k >= 1 /\ left[c] \in 1..k
    <3>1. DOMAIN queue = 1..Len(queue) /\ Len(queue) \in Nat
      BY <1>2, IsSeqLen
    <3> QED BY <2>1, <3>1 DEF Sending
  <2>4. op # "release" /\ (op = "exec" <=> 1 = k)
    <3>1. (queue[1].op = "exec" <=> 1 = k) /\ (queue[1].op = "release" => 1 > k)
      BY <1>2, <1>3, <2>1 DEF Sending
    <3> QED BY <1>3, <2>3, <3>1
  <2>5. left[c] = k
    <3>1. Counted(queue[1], c)
      BY <1>3, <2>4, CallOpsApart
    <3>2. k - left[c] + 1 <= 1
      BY <1>2, <2>1, <3>1 DEF Sending
    <3> QED BY <2>3, <3>2
  <2>6. IF op = "open" THEN ~failed[c] /\ ~batch[c].open ELSE failed[c] = ~batch[c].open
    <3>1. k - left[c] + 1 = 1
      BY <2>3, <2>5
    <3> QED BY <1>3, <2>1, <3>1 DEF Sending
  <2>7. op = "rows" => ok
    BY <1>1, <1>2, <1>4, JobIs DEF Exec!ClosesOnce
  <2>8. /\ left' = [left EXCEPT ![c] = @ - 1] /\ failed' = [failed EXCEPT ![c] = @ \/ ~good]
        /\ IF left[c] > 1 THEN told' = told
           ELSE Exec!Tell(c, IF failed'[c] THEN "error" ELSE "ok")
    BY <1>1, <2>4
  <2>9. /\ left' \in [Call -> Int] /\ failed' \in [Call -> BOOLEAN] /\ left'[c] = k - 1
        /\ failed'[c] = (failed[c] \/ ~good)
        /\ \A b \in Call : b # c => left'[b] = left[b] /\ failed'[b] = failed[b]
    BY <1>7, <2>3, <2>5, <2>8
  <2>10. batch[c].open \in BOOLEAN /\ failed[c] \in BOOLEAN
    BY <1>7 DEF ServerTypes, IsBatch
  <2>11. op # "exec" => failed'[c] = ~batch'[c].open
    BY <1>1, <2>4, <2>6, <2>7, <2>9, <2>10 DEF Exec!BatchOps
  <2>12. op = "exec" => failed'[c] = ~good
    BY <1>1, <2>6, <2>9, <2>10
  <2>13. CASE k > 1
    <3>1. told' = told /\ op # "exec"
      BY <2>3, <2>4, <2>5, <2>8, <2>13
    <3>2. \A b \in Call : Exec!RunsOf(b)' = Exec!RunsOf(b)
      BY <1>10, <3>1
    <3>3. CallTypes'
      BY <1>2, <1>7, <2>9, <3>1 DEF CallTypes, Later
    <3>4. \A b \in Call : b # c => CallSame(b)
      BY <1>1, <1>7, <2>9, <3>1, <3>2 DEF CallSame
    <3>5. k - 1 \in DOMAIN queue' /\ Sending(c, k - 1)'
      BY <1>2, <1>6, <2>1, <2>5, <2>9, <2>11, <2>13, <3>1, PacketNext
    <3>6. Executing(c)'
      BY <1>9, <2>2, <3>1, <3>2, <3>5 DEF Executing
    <3>7. CallInv(c)'
      BY <1>4, <1>7, <1>12, <3>6 DEF CallInv, BatchCallInv, Exec!InBatch
    <3> QED BY <1>1, <1>2, <1>6, <1>7, <1>8, <1>10, <3>3, <3>4, <3>7, FewRequests, CallStep
  <2>14. CASE k = 1
    <3>1. PICK result \in {"ok", "error"} : result = IF good THEN "ok" ELSE "error"
      OBVIOUS
    <3>2. Exec!Tell(c, result) /\ op = "exec"
      <4>1. op = "exec" /\ failed'[c] = ~good
        BY <2>4, <2>12, <2>14
      <4>2. Exec!Tell(c, IF failed'[c] THEN "error" ELSE "ok")
        BY <2>5, <2>8, <2>14
      <4>3. result = IF failed'[c] THEN "error" ELSE "ok"
        BY <3>1, <4>1
      <4> QED BY <4>1, <4>2, <4>3
    <3>3. /\ CallTypes' /\ told'[c] = <<result>> /\ Len(told'[c]) = 1
          /\ \A b \in Call : b # c => told'[b] = told[b]
      BY <1>2, <1>7, <2>2, <2>9, <3>2, TellIs
    <3>4. \A b \in Call : b # c => CallSame(b)
      BY <1>1, <1>7, <1>10, <2>9, <3>3 DEF CallSame
    <3>5. IF good THEN \E n : Exec!RunsOf(c)' = {n} ELSE Exec!RunsOf(c)' = {}
      BY <1>10, <2>2, <3>2
    <3>6. ToldOnce(c)'
      <4>1. Cardinality(Exec!RunsOf(c)') <= 1 /\ (good => Exec!RunsOf(c)' # {})
        <5>1. CASE good
          <6>1. PICK n : Exec!RunsOf(c)' = {n}
            BY <3>5, <5>1
          <6>2. Cardinality({n}) = 1
            BY FS_Singleton
          <6> QED BY <6>1, <6>2
        <5>2. CASE ~good
          <6>1. Exec!RunsOf(c)' = {}
            BY <3>5, <5>2
          <6> QED BY <5>2, <6>1, FS_EmptySet
        <5> QED BY <5>1, <5>2
      <4>2. (told'[c] = <<"ok">> => good) /\ (told'[c] = <<"error">> => ~good)
        BY <3>1, <3>3
      <4> QED BY <3>3, <3>5, <4>1, <4>2 DEF ToldOnce
    <3>7. \A j \in DOMAIN queue' : ~Counted(queue'[j], c)
      <4>1. ASSUME NEW j \in DOMAIN queue' PROVE ~Counted(queue'[j], c)
        <5>1. j + 1 \in DOMAIN queue /\ queue'[j] = queue[j + 1] /\ ~(j + 1 <= k)
          BY <1>11, <2>14
        <5> QED BY <2>1, <5>1 DEF Sending
      <4> QED BY <4>1
    <3>8. Over(c)'
      BY <1>9, <3>3, <3>6, <3>7 DEF Over
    <3>9. CallInv(c)'
      BY <1>4, <1>7, <1>12, <3>8 DEF CallInv, BatchCallInv, Exec!InBatch
    <3> QED BY <1>1, <1>2, <1>6, <1>7, <1>8, <1>10, <3>3, <3>4, <3>9, FewRequests, CallStep
  <2> QED BY <2>3, <2>13, <2>14
<1> QED BY <1>5, <1>13, <1>14

-----------------------------------------------------------------------------
(* The model's own copy of the operators on sequences.                     *)
LEMMA SameOperators ==
    /\ \A s, S : Exec!Without(s, S) = Without(s, S)
    /\ Exec!RunOnce <=> \A c \in Call :
          /\ Len(told[c]) <= 1 /\ Cardinality(Exec!RunsOf(c)) <= 1
          /\ told[c] = <<"ok">> /\ job[c].rows # <<>> => Exec!RunsOf(c) # {}
          /\ told[c] = <<"error">> => Exec!RunsOf(c) = {}
<1>1. \A S : Exec!Cardinality(S) = Cardinality(S)
  BY DEF Exec!Cardinality, Cardinality
<1>2. ASSUME NEW s, NEW S PROVE Exec!Without(s, S) = Without(s, S)
  BY DEF Exec!Without, Without, Exec!Kept, Kept, Exec!Rank, Rank,
         Exec!Cardinality, Cardinality
<1>3. Exec!RunOnce <=> \A c \in Call :
          /\ Len(told[c]) <= 1 /\ Cardinality(Exec!RunsOf(c)) <= 1
          /\ told[c] = <<"ok">> /\ job[c].rows # <<>> => Exec!RunsOf(c) # {}
          /\ told[c] = <<"error">> => Exec!RunsOf(c) = {}
  BY <1>1 DEF Exec!RunOnce
<1> QED BY <1>2, <1>3

(* Dividing with a remainder.                                              *)
LEMMA DivisionIs ==
    ASSUME NEW m \in Nat, NEW n \in Nat \ {0}
    PROVE  /\ m \div n \in Nat /\ m % n \in 0..(n - 1)
           /\ m = n * (m \div n) + (m % n)
OBVIOUS

(* The places of a batch in their order: none of them twice.               *)
LEMMA InOrderIs ==
    ASSUME NEW rows \in Nat, NEW n \in Nat
    PROVE  /\ Exec!InOrder(rows, n) \in Seq((1..rows) \X (1..n))
           /\ IsInjective(Exec!InOrder(rows, n))
<1> DEFINE s == Exec!InOrder(rows, n)
<1>1. rows * n \in Nat
  OBVIOUS
<1>2. ASSUME NEW k \in 1..(rows * n)
      PROVE  /\ n \in Nat \ {0} /\ k - 1 \in Nat
             /\ (k - 1) \div n + 1 \in 1..rows /\ ((k - 1) % n) + 1 \in 1..n
  <2>1. n # 0
    <3>1. SUFFICES ASSUME n = 0 PROVE FALSE
      OBVIOUS
    <3>2. rows * n = 0
      BY <3>1
    <3> QED BY <1>2, <3>2
  <2>2. PICK m, q, r : m \in Nat /\ m = k - 1 /\ q = m \div n /\ r = m % n
    BY <1>1
  <2>3. q \in Nat /\ r \in 0..(n - 1) /\ m = n * q + r
    BY <2>1, <2>2, DivisionIs
  <2>4. q < rows
    <3>1. SUFFICES ASSUME q >= rows PROVE FALSE
      BY <2>3
    <3>2. n * q >= n * rows
      BY <2>3, <3>1
    <3>3. m < rows * n /\ rows * n = n * rows
      BY <1>1, <2>2
    <3> QED BY <1>1, <2>2, <2>3, <3>2, <3>3
  <2> QED BY <2>1, <2>2, <2>3, <2>4
<1>3. s \in Seq((1..rows) \X (1..n)) /\ Len(s) = rows * n
  <2>1. s = [k \in 1..(rows * n) |-> <<(k - 1) \div n + 1, ((k - 1) % n) + 1>>]
    BY DEF Exec!InOrder
  <2>2. \A k \in 1..(rows * n) : <<(k - 1) \div n + 1, ((k - 1) % n) + 1>> \in (1..rows) \X (1..n)
    BY <1>2
  <2> QED BY <1>1, <2>1, <2>2, IsASeq
<1>4. ASSUME NEW i \in 1..(rows * n), NEW j \in 1..(rows * n), s[i] = s[j]
      PROVE  i = j
  <2>1. /\ (i - 1) \div n + 1 = (j - 1) \div n + 1
        /\ ((i - 1) % n) + 1 = ((j - 1) % n) + 1
    BY <1>4 DEF Exec!InOrder
  <2>2. PICK a, b : a = i - 1 /\ b = j - 1
    OBVIOUS
  <2>3. /\ n \in Nat \ {0} /\ a \in Nat /\ b \in Nat
        /\ a \div n + 1 = b \div n + 1 /\ (a % n) + 1 = (b % n) + 1
    BY <1>2, <2>1, <2>2
  <2>4. /\ a = n * (a \div n) + (a % n) /\ a \div n \in Nat /\ a % n \in 0..(n - 1)
        /\ b = n * (b \div n) + (b % n) /\ b \div n \in Nat /\ b % n \in 0..(n - 1)
    BY <2>3, DivisionIs
  <2>5. a \div n = b \div n /\ a % n = b % n
    BY <2>3, <2>4
  <2>6. a = b
    BY <2>4, <2>5
  <2> QED BY <1>1, <2>2, <2>6
<1>5. IsInjective(s)
  <2>1. DOMAIN s = 1..(rows * n)
    BY DEF Exec!InOrder
  <2> QED BY <1>4, <2>1 DEF IsInjective
<1> QED BY <1>3, <1>5

(* The uploads of a batch, each at a place of its own.                     *)
LEMMA CreatesAre ==
    ASSUME Exec!ExecuteAssumption, job \in Plans, NEW c \in Call, Exec!InBatch(c),
           \A r \in DOMAIN job[c].rows : Len(job[c].rows[r]) = Len(job[c].input),
           NEW S, NEW s, s = Exec!Without(Exec!InOrder(Len(job[c].rows), Len(job[c].input)), S)
    PROVE  /\ s \in Seq(Exec!PlacesOf(c)) /\ IsInjective(s)
           /\ \A i \in DOMAIN s : Placed(c, s[i])
<1>1. /\ Len(job[c].rows) \in Nat /\ DOMAIN job[c].rows = 1..Len(job[c].rows)
      /\ Len(job[c].input) \in Nat /\ DOMAIN job[c].input = 1..Len(job[c].input)
      /\ job[c].kind = "batch"
  BY JobIs
<1>2. PICK o : o = Exec!InOrder(Len(job[c].rows), Len(job[c].input))
  OBVIOUS
<1>3. o \in Seq(Exec!PlacesOf(c)) /\ IsInjective(o)
  BY <1>1, <1>2, InOrderIs DEF Exec!PlacesOf
<1>4. s = Without(o, S)
  BY <1>2, SameOperators
<1>5. s \in Seq(Exec!PlacesOf(c)) /\ IsInjective(s)
  BY <1>3, <1>4, WithoutProperties
<1>6. ASSUME NEW i \in DOMAIN s PROVE Placed(c, s[i])
  <2>1. s[i] \in Exec!PlacesOf(c)
    BY <1>5, LenProperties
  <2>2. s[i][1] \in DOMAIN job[c].rows
    BY <2>1 DEF Exec!PlacesOf
  <2>3. Exec!ValuesOf(job[c], s[i][1]) = job[c].rows[s[i][1]]
    BY <1>1 DEF Exec!ValuesOf
  <2> QED BY <2>1, <2>2, <2>3 DEF Placed, PlacedIn, Exec!PlacesOf
<1> QED BY <1>5, <1>6

(* All uploads of a batch start at once, each with its own request.        *)
LEMMA UploadsStart ==
    ASSUME Exec!ExecuteAssumption, ExecuteInv, Later, started' \subseteq Call,
           NEW c \in Call, c \in started', Exec!InBatch(c), ~batch[c].open, Freed(c, 0),
           NEW s \in Seq(Exec!PlacesOf(c)), IsInjective(s),
           \A i \in DOMAIN s : Placed(c, s[i]),
           queue' = queue \o [i \in DOMAIN s |-> Exec!Create(<<c, s[i]>>)],
           left' = [left EXCEPT ![c] = Len(s)],
           UNCHANGED <<failed, told, batch, ran, upload>>
    PROVE  ExecuteInv'
<1>1. /\ job \in Plans /\ IsSeq(queue) /\ CallTypes /\ ServerTypes /\ job' = job
      /\ Len(s) \in Nat /\ DOMAIN s = 1..Len(s)
  BY LenProperties DEF ExecuteInv, Types, QueueTypes, Later
<1>2. PICK new : new = [i \in DOMAIN s |-> Exec!Create(<<c, s[i]>>)]
  OBVIOUS
<1>3. IsSeq(new) /\ DOMAIN new = DOMAIN s
  <2> DEFINE T == {Exec!Create(<<c, s[i]>>) : i \in DOMAIN s}
  <2>1. \A i \in 1..Len(s) : Exec!Create(<<c, s[i]>>) \in T
    BY <1>1
  <2> HIDE DEF T
  <2>2. new \in Seq(T)
    BY <1>1, <1>2, <2>1, IsASeq
  <2> QED BY <1>2, <2>2, IsSeqOf
<1>4. Moves(0, new)
  BY <1>1, <1>2, <1>3, MovesSent
<1>5. ASSUME NEW i \in DOMAIN new
      PROVE  /\ new[i].call = c /\ new[i].place = s[i] /\ new[i].op = "create"
             /\ Fits(new[i]) /\ ~ForCall(new[i], c)
  <2>1. new[i] = Exec!Create(<<c, s[i]>>)
    BY <1>2, <1>3
  <2>2. /\ new[i].call = c /\ new[i].place = s[i] /\ new[i].op = "create"
    BY <2>1 DEF Exec!Create, Exec!Request
  <2>3. Fits(new[i])
    BY <1>3, <2>2 DEF Fits, Ops, UploadOps
  <2> QED BY <2>2, <2>3 DEF ForCall, Executes, OfBatch, PacketOps
<1>6. ASSUME NEW u \in Exec!Upload, u[1] = c
      PROVE  UploadInv(u)' /\ (GoesOn(u)' <=> u[2] \in ToSet(s))
  <2>1. ~upload'[u].flowing /\ Clear(0, u)
    BY <1>6 DEF Freed
  <2>2. CASE \E n \in DOMAIN s : s[n] = u[2]
    <3>1. PICK n \in DOMAIN new : s[n] = u[2]
      BY <1>3, <2>2
    <3>2. Turn(new[n], u) /\ new[n].op # "segment"
      BY <1>5, <1>6, <3>1 DEF Turn, About, UploadOps
    <3>3. \A k \in DOMAIN new : ForUpload(new[k], u) => k = n
      BY <1>3, <1>5, <3>1 DEF ForUpload, About, IsInjective
    <3>4. \A i \in DOMAIN queue : i > 0 => ~Turn(queue[i], u) /\ ~InOnePiece(queue[i], u)
      BY <2>1, OpsApart DEF Clear
    <3>5. UploadInv(u)' /\ GoesOn(u)'
      BY <1>1, <1>4, <2>1, <3>2, <3>3, <3>4, UploadTurns
    <3> QED BY <1>3, <3>1, <3>5 DEF ToSet
  <2>3. CASE ~\E n \in DOMAIN s : s[n] = u[2]
    <3>1. \A k \in DOMAIN new : ~ForUpload(new[k], u)
      BY <1>3, <1>5, <2>3 DEF ForUpload, About
    <3>2. UploadInv(u)' /\ ~GoesOn(u)'
      BY <1>1, <1>4, <2>1, <3>1, UploadEnds
    <3> QED BY <2>3, <3>2 DEF ToSet
  <2> QED BY <2>2, <2>3
<1>7. Alive(c)' = ToSet(s)
  <2>1. Exec!PlacesOf(c)' = Exec!PlacesOf(c) /\ ToSet(s) \subseteq Exec!PlacesOf(c)
    BY <1>1 DEF Exec!PlacesOf, ToSet
  <2>2. ASSUME NEW x \in Exec!PlacesOf(c)
        PROVE  GoesOn(<<c, x>>)' <=> x \in ToSet(s)
    <3>1. PICK u : u = <<c, x>>
      OBVIOUS
    <3>2. u \in Exec!Upload /\ u[1] = c /\ u[2] = x
      BY <1>1, <3>1, PlacesAreUploads
    <3>3. GoesOn(u)' <=> x \in ToSet(s)
      BY <1>6, <3>2
    <3> QED BY <3>1, <3>3
  <2> QED BY <2>1, <2>2 DEF Alive
<1>8. /\ left'[c] = Len(s) /\ left' \in [Call -> Int]
      /\ \A b \in Call : b # c => left'[b] = left[b]
  BY <1>1 DEF CallTypes
<1>9. left'[c] = Cardinality(Alive(c)')
  BY <1>7, <1>8, InjectiveLength
<1>10. CallTypes' /\ ServerTypes'
  BY <1>1, <1>8, ServerTypesKept DEF CallTypes, Later
<1>11. \A b \in Call : Exec!RunsOf(b)' = Exec!RunsOf(b)
  BY DEF Exec!RunsOf
<1>12. \A b \in Call : b # c => CallSame(b)
  BY <1>1, <1>8, <1>11 DEF CallSame
<1>13. \A i \in DOMAIN queue' : ~Executes(queue'[i], c) /\ ~OfBatch(queue'[i], c)
  <2>1. ASSUME NEW i \in DOMAIN queue' PROVE ~ForCall(queue'[i], c)
    <3>1. SUFFICES ASSUME ForCall(queue'[i], c) PROVE FALSE
      OBVIOUS
    <3>2. \A k \in DOMAIN new : ~ForCall(new[k], c)
      BY <1>5
    <3>3. i + 0 \in DOMAIN queue /\ queue'[i] = queue[i + 0] /\ DOMAIN queue' = 1..Len(queue')
      <4>1. PICK d : d = 0
        OBVIOUS
      <4>2. Moves(d, new)
        BY <1>4, <4>1
      <4>3. /\ DOMAIN queue' = 1..Len(queue')
            /\ \A j \in DOMAIN queue' : ForCall(queue'[j], c) =>
                  j + d \in DOMAIN queue /\ queue'[j] = queue[j + d]
        BY <1>1, <3>2, <4>2, CallRequests
      <4> QED BY <2>1, <3>1, <4>1, <4>3
    <3>4. i + 0 > 0
      BY <2>1, <3>3
    <3>5. \A j \in DOMAIN queue : j > 0 => ~ForCall(queue[j], c)
      BY DEF Freed
    <3> QED BY <3>1, <3>3, <3>4, <3>5
  <2> QED BY <2>1, CallOpsApart
<1>14. CallInv(c)'
  <2>1. Uploading(c)'
    BY <1>9, <1>11, <1>13 DEF Uploading, Freed
  <2> QED BY <1>1, <1>13, <2>1 DEF CallInv, BatchCallInv, Exec!InBatch
<1>15. /\ \A k \in DOMAIN new : new[k].call = c /\ Fits(new[k])
       /\ \A u \in Exec!Upload : u[1] = c => UploadInv(u)'
       /\ 0 = 1 => queue[1].call = c
       /\ upload' = upload
  BY <1>5, <1>6
<1> QED BY <1>4, <1>10, <1>12, <1>14, <1>15, CallStep

(* A call begins.                                                          *)
LEMMA StartKeeps ==
    ASSUME Exec!ExecuteAssumption, ExecuteInv, NEW c \in Call, Exec!Start(c)
    PROVE  ExecuteInv'
<1>1. /\ c \notin started /\ started' = started \cup {c}
      /\ Exec!ExecuteStatement(c) \/ Exec!ExecuteBatch(c)
      /\ job' = job /\ upload' = upload /\ UNCHANGED <<batch, ran>>
  BY DEF Exec!Start, Exec!server
<1>2. /\ job \in Plans /\ IsSeq(queue) /\ CallTypes /\ Later /\ started' \subseteq Call
      /\ c \in started' /\ left \in [Call -> Int] /\ failed \in [Call -> BOOLEAN]
  BY <1>1 DEF ExecuteInv, Types, QueueTypes, CallTypes, Later
<1>3. Freed(c, 0) /\ (Exec!InBatch(c) => ~batch[c].open)
  BY <1>1, FreshIs
<1>4. ASSUME queue' = queue, UNCHANGED <<left, failed>>, NEW result \in {"ok", "error"},
             Exec!Tell(c, result), result = "ok" => job[c].rows = <<>>
      PROVE  ExecuteInv'
  <2>1. Moves(0, <<>>)
    BY <1>2, <1>4, MovesNot
  <2> QED BY <1>1, <1>2, <1>3, <1>4, <2>1, FreedTold
<1>5. CASE Exec!ExecuteStatement(c)
  <2>1. /\ ~Exec!InBatch(c) /\ UNCHANGED <<left, failed>>
        /\ IF job[c].input # <<>> /\ Len(Exec!Values(c, 1)) # Len(job[c].input)
           THEN Exec!Tell(c, "error") /\ queue' = queue
           ELSE queue' = queue \o Exec!Step(c, 1) /\ told' = told
    BY <1>5 DEF Exec!ExecuteStatement
  <2>2. CASE job[c].input # <<>> /\ Len(Exec!Values(c, 1)) # Len(job[c].input)
    BY <1>4, <2>1, <2>2
  <2>3. CASE ~(job[c].input # <<>> /\ Len(Exec!Values(c, 1)) # Len(job[c].input))
    <3>1. PICK new : new = Exec!Step(c, 1)
      OBVIOUS
    <3>2. SentNext(c, new)
      BY <1>2, <2>1, <2>3, <3>1, StepIs
    <3>3. IsSeq(new)
      BY <3>2, FewRequests DEF SentNext
    <3>4. Moves(0, new)
      BY <1>2, <2>1, <2>3, <3>1, <3>3, MovesSent
    <3>5. UNCHANGED <<left, failed, told, batch, ran>>
      BY <1>1, <2>1, <2>3
    <3> QED BY <1>1, <1>2, <1>3, <2>1, <3>2, <3>4, <3>5, FreedSteps
  <2> QED BY <2>2, <2>3
<1>6. CASE Exec!ExecuteBatch(c)
  <2>1. PICK S, s :
           s = Exec!Without(Exec!InOrder(Len(job[c].rows), Len(job[c].input)), S)
           /\ Exec!InBatch(c)
           /\ IF \/ old \/ job[c].input = <<>>
                 \/ \E r \in DOMAIN job[c].rows : Len(job[c].rows[r]) # Len(job[c].input)
              THEN Exec!Tell(c, "error") /\ UNCHANGED <<queue, left, failed>>
              ELSE IF job[c].rows = <<>>
              THEN Exec!Tell(c, "ok") /\ UNCHANGED <<queue, left, failed>>
              ELSE IF s = <<>> THEN Exec!ExecuteBatchEncoded(c, queue)
              ELSE /\ queue' = queue \o [i \in DOMAIN s |-> Exec!Create(<<c, s[i]>>)]
                   /\ left' = [left EXCEPT ![c] = Len(s)]
                   /\ UNCHANGED <<failed, told>>
    <3>1. PICK S : S = {x \in Exec!PlacesOf(c) : ~Exec!IsBlob(c, x[1], x[2])}
      OBVIOUS
    <3> QED BY <1>6, <3>1 DEF Exec!ExecuteBatch
  <2>2. CASE \/ old \/ job[c].input = <<>>
             \/ \E r \in DOMAIN job[c].rows : Len(job[c].rows[r]) # Len(job[c].input)
    BY <1>4, <2>1, <2>2
  <2>3. CASE job[c].rows = <<>> /\ Exec!Tell(c, "ok") /\ UNCHANGED <<queue, left, failed>>
    BY <1>4, <2>3
  <2>4. CASE Exec!ExecuteBatchEncoded(c, queue)
    <3>1. CASE Exec!Refused(c)
      <4>1. Exec!Tell(c, "error") /\ queue' = queue /\ UNCHANGED <<left, failed>>
        BY <2>4, <3>1 DEF Exec!ExecuteBatchEncoded
      <4> QED BY <1>4, <4>1
    <3>2. CASE ~Exec!Refused(c)
      <4>1. PICK new : new = Exec!Packets(c)
        OBVIOUS
      <4>2. /\ queue' = queue \o new /\ told' = told
            /\ left' = [left EXCEPT ![c] = Len(new) - 1]
            /\ failed' = [failed EXCEPT ![c] = FALSE]
        BY <2>4, <3>2, <4>1 DEF Exec!ExecuteBatchEncoded
      <4>3. IsSeq(new)
        BY <1>2, <4>1, PacketsAre
      <4>4. Moves(0, new)
        BY <1>2, <4>2, <4>3, MovesSent
      <4>5. /\ Later /\ started' \subseteq Call /\ c \in started' /\ Exec!InBatch(c)
            /\ ~batch[c].open /\ Freed(c, 0) /\ (0 = 1 => queue[1].call = c)
            /\ upload' = upload /\ UNCHANGED <<told, batch, ran>>
        BY <1>1, <1>2, <1>3, <2>1, <4>2
      <4>6. /\ left' = [left EXCEPT ![c] = Len(new) - 1]
            /\ failed' = [failed EXCEPT ![c] = FALSE]
        BY <4>2
      <4> QED BY <4>1, <4>4, <4>5, <4>6, FreedEncoded
    <3> QED BY <3>1, <3>2
  <2>5. CASE /\ \A r \in DOMAIN job[c].rows : Len(job[c].rows[r]) = Len(job[c].input)
             /\ queue' = queue \o [i \in DOMAIN s |-> Exec!Create(<<c, s[i]>>)]
             /\ left' = [left EXCEPT ![c] = Len(s)] /\ UNCHANGED <<failed, told>>
    <3>1. /\ s \in Seq(Exec!PlacesOf(c)) /\ IsInjective(s)
          /\ \A i \in DOMAIN s : Placed(c, s[i])
      BY <1>2, <2>1, <2>5, CreatesAre
    <3>2. UNCHANGED <<failed, told, batch, ran, upload>>
      BY <1>1, <2>5
    <3>3. /\ Exec!InBatch(c) /\ ~batch[c].open
          /\ queue' = queue \o [i \in DOMAIN s |-> Exec!Create(<<c, s[i]>>)]
          /\ left' = [left EXCEPT ![c] = Len(s)]
      BY <1>3, <2>1, <2>5
    <3> QED BY <1>2, <1>3, <3>1, <3>2, <3>3, UploadsStart
  <2> QED BY <2>1, <2>2, <2>3, <2>4, <2>5
<1> QED BY <1>1, <1>5, <1>6

-----------------------------------------------------------------------------
(* The specification keeps the invariant.                                  *)
LEMMA ExecuteInit ==
    ASSUME Exec!ExecuteAssumption, Exec!Init
    PROVE  ExecuteInv
<1>1. /\ job \in Plans /\ started = {} /\ queue = <<>> /\ ran = <<>>
      /\ upload = [u \in Exec!Upload |-> Exec!NoUpload]
      /\ left = [c \in Call |-> 0] /\ failed = [c \in Call |-> FALSE]
      /\ told = [c \in Call |-> <<>>] /\ batch = [c \in Call |-> Exec!NoBatch]
  BY DEF Exec!Init
<1>2. IsSeq(<<>>) /\ DOMAIN <<>> = {}
  BY FewRequests
<1>3. IsClosure(Exec!NoUpload) /\ ~Exec!NoUpload.flowing
  <2>1. Exec!NoUpload.chunks = <<>> /\ <<>> \in Seq(Seq(Nat))
    BY DEF Exec!NoUpload
  <2>2. Exec!NoUpload = [f \in ClosureFields |-> Exec!NoUpload[f]]
    BY DEF Exec!NoUpload, ClosureFields
  <2>3. /\ Exec!NoUpload.flowing = FALSE /\ Exec!NoUpload.reading = FALSE
        /\ Exec!NoUpload.end = FALSE
    BY DEF Exec!NoUpload
  <2> QED BY <2>1, <2>2, <2>3 DEF IsClosure, LastIsLong
<1>4. IsBatch(Exec!NoBatch) /\ ~Exec!NoBatch.open
  BY DEF IsBatch, Exec!NoBatch
<1>5. Types
  <2>1. QueueTypes
    BY <1>1, <1>2 DEF QueueTypes
  <2>2. UploadTypes
    BY <1>1, <1>3 DEF UploadTypes
  <2>3. CallTypes
    BY <1>1 DEF CallTypes
  <2>4. ServerTypes
    BY <1>1, <1>2, <1>4 DEF ServerTypes
  <2> QED BY <1>1, <2>1, <2>2, <2>3, <2>4 DEF Types
<1>6. ASSUME NEW u \in Exec!Upload PROVE UploadInv(u) /\ ~GoesOn(u)
  BY <1>1, <1>2, <1>3 DEF UploadInv, GoesOn
<1>7. ASSUME NEW c \in Call PROVE CallInv(c)
  <2>1. Alive(c) = {}
    <3>1. ASSUME NEW x \in Exec!PlacesOf(c) PROVE ~GoesOn(<<c, x>>)
      <4>1. PICK u : u = <<c, x>>
        OBVIOUS
      <4>2. u \in Exec!Upload
        BY <1>1, <4>1, PlacesAreUploads
      <4> QED BY <1>6, <4>1, <4>2
    <3> QED BY <3>1 DEF Alive
  <2>2. Exec!RunsOf(c) = {} /\ told[c] = <<>> /\ left[c] = 0 /\ ~batch[c].open
    BY <1>1, <1>2, <1>4 DEF Exec!RunsOf
  <2>3. StatementInv(c)
    BY <1>1, <1>2, <2>1, <2>2 DEF StatementInv
  <2>4. Uploading(c)
    BY <1>1, <1>2, <2>1, <2>2, FS_EmptySet DEF Uploading
  <2>5. BatchCallInv(c)
    BY <1>1, <1>2, <2>4 DEF BatchCallInv
  <2> QED BY <2>3, <2>5 DEF CallInv
<1> QED BY <1>5, <1>6, <1>7 DEF ExecuteInv

(* Nothing changes.                                                        *)
LEMMA StutterKeeps ==
    ASSUME ExecuteInv, UNCHANGED Exec!vars
    PROVE  ExecuteInv'
<1>1. /\ UNCHANGED <<left, failed, told, batch, ran>> /\ upload' = upload
      /\ queue' = queue /\ job' = job /\ started' = started
  BY DEF Exec!vars, Exec!client, Exec!server
<1>2. /\ job \in Plans /\ started \subseteq Call /\ IsSeq(queue) /\ Later
      /\ QueueTypes /\ UploadTypes /\ CallTypes /\ ServerTypes
  BY <1>1 DEF ExecuteInv, Types, QueueTypes, Later
<1>3. PICK d, new : d = 0 /\ new = <<>> /\ Moves(d, new)
  BY <1>1, <1>2, MovesNot
<1>4. d # 1 /\ DOMAIN new = {}
  BY <1>3, FewRequests
<1>5. Types'
  <2>1. QueueTypes'
    BY <1>2, <1>3, <1>4, QueueTypesKept
  <2>2. UploadTypes' /\ CallTypes' /\ ServerTypes'
    BY <1>1, <1>2, UploadTypesKept, CallTypesKept, ServerTypesKept
  <2> QED BY <1>1, <1>2, <2>1, <2>2 DEF Types
<1>6. ASSUME NEW u \in Exec!Upload PROVE UploadInv(u)' /\ (GoesOn(u)' <=> GoesOn(u))
  <2>1. UploadInv(u)
    BY DEF ExecuteInv
  <2> QED BY <1>1, <1>2, <1>3, <1>4, <2>1, UploadStays
<1>7. ASSUME NEW c \in Call PROVE CallInv(c)'
  <2>1. CallSame(c)
    BY <1>1 DEF CallSame, Exec!RunsOf
  <2>2. CallInv(c)
    BY DEF ExecuteInv
  <2>3. \A x \in Exec!PlacesOf(c) : GoesOn(<<c, x>>)' <=> GoesOn(<<c, x>>)
    BY <1>2, <1>6, PlacesAreUploads
  <2> QED BY <1>2, <1>3, <1>4, <2>1, <2>2, <2>3, CallStays
<1>8. Exec!Upload' = Exec!Upload
  BY DEF Exec!Upload
<1> QED BY <1>5, <1>6, <1>7, <1>8 DEF ExecuteInv

(* Every step keeps the invariant.                                         *)
LEMMA ExecuteStep ==
    ASSUME Exec!ExecuteAssumption, Exec!ClosesOnce, ExecuteInv, [Exec!Next]_Exec!vars
    PROVE  ExecuteInv'
<1>1. CASE UNCHANGED Exec!vars
  BY <1>1, StutterKeeps
<1>2. CASE \E c \in Call : Exec!Start(c)
  BY <1>2, StartKeeps
<1>3. CASE Exec!Answered
  <2>1. CASE Exec!Created
    BY <2>1, CreatedKeeps
  <2>2. CASE Exec!NotCreated
    BY <2>2, NotCreatedKeeps
  <2>3. ASSUME NEW ok \in BOOLEAN, Exec!Segment(ok) PROVE ExecuteInv'
    BY <2>3, SegmentKeeps
  <2>4. ASSUME NEW ok \in BOOLEAN, Exec!Piece(ok) PROVE ExecuteInv'
    BY <2>4, PieceKeeps
  <2>5. ASSUME NEW ok \in BOOLEAN, Exec!Closed(ok) PROVE ExecuteInv'
    BY <2>5, ClosedKeeps
  <2>6. ASSUME NEW ok \in BOOLEAN, Exec!Executed(ok) PROVE ExecuteInv'
    BY <2>6, ExecutedKeeps
  <2>7. ASSUME NEW ok \in BOOLEAN, NEW op \in Exec!BatchOps, Exec!Batch(op, ok)
        PROVE  ExecuteInv'
    BY <2>7, BatchKeeps
  <2> QED BY <1>3, <2>1, <2>2, <2>3, <2>4, <2>5, <2>6, <2>7 DEF Exec!Answered
<1>4. ASSUME NEW u \in Exec!Upload, Exec!StreamData(u) PROVE ExecuteInv'
  BY <1>4, StreamDataKeeps
<1>5. ASSUME NEW u \in Exec!Upload, Exec!StreamEnd(u) PROVE ExecuteInv'
  BY <1>5, StreamEndKeeps
<1> QED BY <1>1, <1>2, <1>3, <1>4, <1>5 DEF Exec!Next

(* What was run, and what was told of it.                                  *)
LEMMA InvRunsOnce ==
    ASSUME ExecuteInv
    PROVE  Exec!RunOnce
<1>1. ASSUME NEW c \in Call
      PROVE  /\ Len(told[c]) <= 1 /\ Cardinality(Exec!RunsOf(c)) <= 1
             /\ told[c] = <<"ok">> /\ job[c].rows # <<>> => Exec!RunsOf(c) # {}
             /\ told[c] = <<"error">> => Exec!RunsOf(c) = {}
  <2>1. (told[c] = <<>> /\ Exec!RunsOf(c) = {}) \/ ToldOnce(c)
    <3>1. CallInv(c)
      BY DEF ExecuteInv
    <3>2. CASE Exec!InBatch(c)
      BY <3>1, <3>2 DEF CallInv, BatchCallInv, Uploading, Executing, Over
    <3>3. CASE ~Exec!InBatch(c)
      BY <3>1, <3>3 DEF CallInv, StatementInv
    <3> QED BY <3>2, <3>3
  <2>2. CASE told[c] = <<>> /\ Exec!RunsOf(c) = {}
    <3>1. Len(<<>>) = 0 /\ Cardinality({}) = 0
      BY FS_EmptySet
    <3>2. told[c] # <<"ok">> /\ told[c] # <<"error">>
      BY <2>2
    <3> QED BY <2>2, <3>1, <3>2
  <2>3. CASE ToldOnce(c)
    BY <2>3 DEF ToldOnce
  <2> QED BY <2>1, <2>2, <2>3
<1> QED BY <1>1, SameOperators

(* Every callback is called at most once, a statement or a batch is run at *)
(* most once, once if its callback was told that it was and never if it    *)
(* was told of an error, however the requests of any number of calls mix   *)
(* and whatever the server refuses (connection.ts:3665-3701, 4011-4031).   *)
THEOREM ExecuteRunsOnce ==
    ASSUME Exec!ExecuteAssumption, Exec!ClosesOnce
    PROVE  Exec!Spec => []Exec!RunOnce
<1>1. Exec!Init => ExecuteInv
  BY ExecuteInit
<1>2. ExecuteInv /\ [Exec!Next]_Exec!vars => ExecuteInv'
  BY ExecuteStep
<1>3. ExecuteInv => Exec!RunOnce
  BY InvRunsOnce
<1> QED BY <1>1, <1>2, <1>3, PTL DEF Exec!Spec
=============================================================================
