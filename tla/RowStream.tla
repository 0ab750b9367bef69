----------------------------- MODULE RowStream -----------------------------
(***************************************************************************)
(* The rows of one query, from the cursor to the caller: fetchAll(), the   *)
(* row loop and the blob reads of src/src/wire/connection.ts, and what     *)
(* takes the rows: an array (query), a callback (sequentially of           *)
(* wire/database.ts), a Readable (wire/query-stream.ts).                   *)
(*                                                                         *)
(* "at" says what the row loop waits for.  Rows are numbered in the order  *)
(* of the cursor.  The rows of a response that nobody holds up are taken   *)
(* in one turn; here one step each, which adds interleavings only.         *)
(***************************************************************************)
EXTENDS Integers, Sequences, FiniteSets

CONSTANTS
    Rows,       \* how many rows the cursor has
    Batch,      \* DEFAULT_FETCHSIZE
    HighWater,  \* highWaterMark
    Cells,      \* the blob columns of a row
    Segments    \* how many segments a blob has at most

ASSUME RowStreamAssumption ==
    /\ Rows \in Nat /\ Batch \in Nat \ {0} /\ HighWater \in Nat
    /\ IsFiniteSet(Cells) /\ Segments \in Nat \ {0}

VARIABLES
    mode,      \* who takes the rows: "array", "callback", "stream"
    blobs,     \* "none"; "text": blobAsText; "binary"
    at,        \* "fetch", "text", "give", "cells", "row", "end", "over"
    sent,      \* rows the server has sent
    batch,     \* rows of the response, not given yet
    fetched,   \* the response says that it was the last
    texts,     \* rows of the response whose text blobs are still to be read
    cell,      \* the blob cell
    given,     \* the rows given to the caller
    late,      \* an earlier row's callback may call next() again
    readable,  \* the Readable: "open", "ending", "ended", "errored", "destroyed"
    buffered,  \* its buffer
    outcome    \* how the loop ended: "none", "ok", "error", "abort"

cursor == <<at, sent, batch, fetched, texts, given, outcome>>
stream == <<readable, buffered>>
vars == <<mode, blobs, cursor, cell, late, stream>>

(* Where the read of a blob is, and how many segments are still to come.   *)
Idle == [on |-> "idle", segments |-> 0]
Own == blobs = "binary"

Init ==
    /\ mode \in {"array", "callback", "stream"}
    /\ blobs \in {"none", "text"} \cup (IF mode = "array" THEN {} ELSE {"binary"})
    /\ at = "fetch" /\ sent = 0 /\ batch = <<>> /\ fetched = FALSE /\ texts = 0
    /\ cell = [x \in Cells |-> Idle]
    /\ given = <<>> /\ late = FALSE
    /\ readable = "open" /\ buffered = 0 /\ outcome = "none"

-----------------------------------------------------------------------------
(* fetchAll's callback: the statement is released, the transaction ends.   *)
Finish(how) == at' = "end" /\ outcome' = how

(* loop() of fetchAll: the rows of the response, then the next response.   *)
Refetch(last) ==
    IF last THEN Finish("ok") ELSE at' = "fetch" /\ UNCHANGED outcome

(* The answer to op_fetch: rows, and whether the cursor is at its end;     *)
(* or an error, which drops the rows that came before it.                  *)
Fetched ==
    /\ at = "fetch"
    /\ \E n \in 0..Batch, last \in BOOLEAN :
          /\ sent + n <= Rows /\ (last => sent + n = Rows) /\ (n = 0 => last)
          /\ sent' = sent + n /\ fetched' = last
          /\ batch' = [i \in 1..n |-> sent + i]
          /\ IF n = 0 THEN Refetch(last) /\ UNCHANGED texts
             ELSE /\ texts' = IF blobs = "text" THEN n ELSE 0
                  /\ at' = IF blobs = "text" THEN "text" ELSE "give"
                  /\ UNCHANGED outcome
    /\ UNCHANGED <<mode, blobs, given, cell, late, stream>>

FetchFailed ==
    /\ at = "fetch" /\ Finish("error")
    /\ UNCHANGED <<mode, blobs, sent, batch, fetched, texts, given, cell, late, stream>>

-----------------------------------------------------------------------------
(* One blob read.  A text blob is read in the caller's transaction, the    *)
(* others in one of their own.  An inline blob is there already.           *)
InRead(x) == cell[x].on \in {"begin", "open", "read", "commit", "rollback"}
Is(on) == [on |-> on, segments |-> 0]

Starts(x) == {Is("whole"), Is(IF Own THEN "begin" ELSE "open")}

(* handle 2 in the answer: it was the last segment.                        *)
Segment(n) ==
    IF n > 1 THEN [on |-> "read", segments |-> n - 1]
    ELSE IF Own THEN Is("commit") ELSE Is("whole")

(* The answer to the read x.  Nobody ends the read's own transaction when  *)
(* the blob cannot be opened or the commit fails.                          *)
ReadAnswered(x, good) ==
    LET on == cell[x].on IN
    /\ InRead(x)
    /\ \E next \in
          CASE on = "begin" -> {Is(IF good THEN "open" ELSE "failed")}
            [] on = "open" -> IF good THEN {[on |-> "read", segments |-> n] : n \in 1..Segments}
                              ELSE {Is("failed")}
            [] on = "read" -> IF good THEN {Segment(cell[x].segments)}
                              ELSE {Is(IF Own THEN "rollback" ELSE "failed")}
            [] on = "commit" -> {Is(IF good THEN "whole" ELSE "failed")}
            [] on = "rollback" -> {Is("failed")} :
          cell' = [cell EXCEPT ![x] = next]
    /\ UNCHANGED <<mode, blobs, cursor, late, stream>>

Read(x) == ReadAnswered(x, TRUE) \/ ReadAnswered(x, FALSE)

(* resolveTextBlobs: the text blobs of the response one after the other,   *)
(* row by row; the first that fails ends the query.                        *)
NextText ==
    /\ at = "text" /\ ~\E x \in Cells : InRead(x)
    /\ IF \E x \in Cells : cell[x].on = "failed"
       THEN Finish("error") /\ UNCHANGED <<cell, texts>>
       ELSE IF texts > 0 /\ \E x \in Cells : cell[x] = Idle
       THEN /\ \E x \in Cells :
                  /\ cell[x] = Idle
                  /\ \E start \in Starts(x) : cell' = [cell EXCEPT ![x] = start]
            /\ UNCHANGED <<at, outcome, texts>>
       ELSE /\ cell' = [x \in Cells |-> Idle]
            /\ texts' = IF texts > 0 THEN texts - 1 ELSE 0
            /\ at' = IF texts > 1 THEN "text" ELSE "give"
            /\ UNCHANGED outcome
    /\ UNCHANGED <<mode, blobs, sent, batch, fetched, given, late, stream>>

-----------------------------------------------------------------------------
\* Mutant: a row is pushed however full the buffer is.
HasRoomAlways(n) == TRUE

(* What Readable.push returns when its buffer has n rows.                  *)
HasRoom(n) == n < HighWater

(* The row loop gives the caller the next row: on(row, i, next); push(row),*)
(* which waits for read() when the buffer is full; or a destroyed stream   *)
(* ends the loop.                                                          *)
GiveRow ==
    IF mode = "stream" /\ readable # "open"
    THEN Finish("abort") /\ UNCHANGED <<batch, given, buffered>>
    ELSE /\ given' = Append(given, Head(batch)) /\ batch' = Tail(batch)
         /\ buffered' = IF mode = "stream" THEN buffered + 1 ELSE buffered
         /\ at' = IF mode = "array" \/ (mode = "stream" /\ HasRoom(buffered'))
                  THEN "give" ELSE "row"
         /\ UNCHANGED outcome

(* doSynchronousLoop.  fetchBlobSyncRow first reads all the row's blobs at *)
(* once.                                                                   *)
Give ==
    /\ at = "give"
    /\ IF batch = <<>>
       THEN Refetch(fetched) /\ UNCHANGED <<batch, given, buffered, cell>>
       ELSE IF Own
       THEN /\ at' = "cells"
            /\ cell' \in [Cells -> UNION {Starts(x) : x \in Cells}]
            /\ UNCHANGED <<outcome, batch, given, buffered>>
       ELSE GiveRow /\ UNCHANGED cell
    /\ UNCHANGED <<mode, blobs, sent, fetched, texts, late, readable>>

(* The last of the row's blob reads settles; the first error is the row's. *)
CellsRead ==
    /\ at = "cells" /\ ~\E x \in Cells : InRead(x)
    /\ cell' = [x \in Cells |-> Idle]
    /\ IF \E x \in Cells : cell[x].on = "failed"
       THEN Finish("error") /\ UNCHANGED <<batch, given, buffered>>
       ELSE GiveRow
    /\ UNCHANGED <<mode, blobs, sent, fetched, texts, late, readable>>

(* finish() of a row callback: the loop goes on, or ends with the error    *)
(* that the callback threw, rejected with or passed to next().             *)
NextRow(how) ==
    /\ IF how = "ok" THEN at' = "give" /\ UNCHANGED outcome ELSE Finish(how)
    /\ UNCHANGED <<mode, blobs, sent, batch, fetched, texts, given, cell, stream>>

CallbackNext ==
    /\ mode = "callback" /\ at = "row"
    /\ \E how \in {"ok", "error"} : NextRow(how)
    /\ late' = TRUE

\* Mutant: finish() does not look whether it was called; the loop gives
\* the row behind once more.
FinishTwice ==
    given' = IF at = "row" THEN Append(given, given[Len(given)]) ELSE given

(* finish() called again: done.                                            *)
FinishAgain == UNCHANGED given

(* A callback that calls next() twice, or throws after it.                 *)
CallbackAgain ==
    /\ late /\ late' = FALSE
    /\ FinishAgain
    /\ UNCHANGED <<mode, blobs, at, sent, batch, fetched, texts, outcome, cell, stream>>

-----------------------------------------------------------------------------
(* The stream's consumer takes a row; when there is room in the buffer,    *)
(* Node calls read(), which resumes a loop that waits.                     *)
Consume ==
    /\ mode = "stream" /\ readable \in {"open", "ending"} /\ buffered > 0
    /\ buffered' = buffered - 1
    /\ readable' = IF readable = "ending" /\ buffered = 1 THEN "ended" ELSE readable
    /\ at' = IF at = "row" THEN "give" ELSE at
    /\ UNCHANGED <<mode, blobs, sent, batch, fetched, texts, given, outcome, cell, late>>

\* Mutant: destroy() leaves a loop that waits.
DestroyForgets == UNCHANGED <<at, outcome>>

(* A loop that waits for read() is ended with the sentinel error.          *)
DestroyResumes ==
    IF at = "row" THEN Finish("abort") ELSE UNCHANGED <<at, outcome>>

Destroy ==
    /\ mode = "stream" /\ readable \in {"open", "ending"}
    /\ readable' = "destroyed" /\ buffered' = 0
    /\ DestroyResumes
    /\ UNCHANGED <<mode, blobs, sent, batch, fetched, texts, given, cell, late>>

(* The statement is released and the transaction has ended: the completion *)
(* callback.  It ends the stream, or fails it with an error that is not    *)
(* its own.                                                                *)
Complete ==
    /\ at = "end" /\ at' = "over"
    /\ \E how \in IF outcome = "ok" THEN {"ok", "error"} ELSE {outcome} :
          /\ outcome' = how
          /\ IF mode = "stream" /\ readable = "open" /\ how # "abort"
             THEN /\ readable' = CASE how = "error" -> "errored"
                                   [] buffered = 0 -> "ended"
                                   [] OTHER -> "ending"
                  /\ buffered' = IF how = "error" THEN 0 ELSE buffered
             ELSE UNCHANGED stream
    /\ UNCHANGED <<mode, blobs, sent, batch, fetched, texts, given, cell, late>>

Next ==
    \/ Fetched \/ FetchFailed \/ NextText \/ Give \/ CellsRead
    \/ \E x \in Cells : Read(x)
    \/ CallbackNext \/ CallbackAgain \/ Consume \/ Destroy \/ Complete

Spec == Init /\ [][Next]_vars

(* Every request is answered, every callback calls next(), the consumer    *)
(* takes what is there.                                                   *)
FairSpec ==
    /\ Spec
    /\ WF_vars(Fetched \/ FetchFailed) /\ WF_vars(NextText) /\ WF_vars(Give)
    /\ WF_vars(CellsRead) /\ \A x \in Cells : WF_vars(Read(x))
    /\ WF_vars(CallbackNext) /\ WF_vars(Consume) /\ WF_vars(Complete)

-----------------------------------------------------------------------------
(* The caller gets the rows of the cursor, each once and in their order,   *)
(* and all of them when it is told that there are no more.                 *)
RowsInOrder ==
    /\ given = [i \in 1..Len(given) |-> i]
    /\ outcome = "ok" => Len(given) = Rows

(* queryStream: "fetching pauses while the stream buffer is full"          *)
(* (database.ts:405): the buffer never has more than the high-water mark,  *)
(* or the one row that a stream without a buffer takes.                    *)
Backpressure == buffered <= IF HighWater = 0 THEN 1 ELSE HighWater

(* A query whose caller keeps taking rows, or destroys its stream, is over *)
(* in the end: the statement is released.  A stream whose buffer is read   *)
(* ends, fails or is destroyed.                                            *)
StreamSettles ==
    <>(at = "over" /\ (mode = "stream" => readable \in {"ended", "errored", "destroyed"}))
=============================================================================
