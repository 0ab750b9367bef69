---------------------------- MODULE BatchStream ----------------------------
(***************************************************************************)
(* The bulk-load stream of src/src/wire/batch-stream.ts, driven by Node's  *)
(* Writable: write() and final() one at a time, destroy() at any moment.   *)
(*                                                                         *)
(* What it asks of the connection is answered in order (module Wire).      *)
(* Releasing a statement is deferred and answered at once, so a cleanup()  *)
(* sends its commit or rollback in the turn it is called.  Rows are        *)
(* numbered in the order they are written.                                 *)
(***************************************************************************)
EXTENDS Integers, Sequences

CONSTANTS
    MaxRows,   \* how many rows are written at most
    FlushRows  \* flushRows

ASSUME BatchStreamAssumption == MaxRows \in Nat /\ FlushRows \in Nat \ {0}

VARIABLES
    owns,         \* ownsTransaction
    state,        \* the Writable: "open", "ending", "finished", "destroyed"
    written,      \* rows written
    buffered,     \* buffered
    flushing,     \* who waits for flush(): "nobody", "write", "final"; "over"
    transaction,  \* transaction is set
    statement,    \* statement is set
    line,         \* requests to the server, not answered yet
    server,       \* the transaction at the server: "none", "open", "ended"
    inserted,     \* rows inserted in the open transaction
    durable,      \* rows committed
    ends,         \* history: commits and rollbacks sent
    excuse        \* history: the transaction began after destroy(); the
                  \* server refused to commit; to roll back

client == <<owns, state, written, buffered, flushing, transaction, statement>>
vars == <<client, line, server, inserted, durable, ends, excuse>>

Init ==
    /\ owns \in BOOLEAN
    /\ state = "open" /\ written = 0 /\ buffered = <<>> /\ flushing = "nobody"
    /\ transaction = FALSE /\ statement = FALSE
    /\ line = <<>> /\ server = IF owns THEN "none" ELSE "open"
    /\ inserted = <<>> /\ durable = <<>> /\ ends = 0 /\ excuse = {}

Request(op, rows) == [op |-> op, rows |-> rows]

-----------------------------------------------------------------------------
\* Mutant: the chunk is sent and kept.
TakenNot(rows) == rows
Taken(rows) == <<>>

(* flush() up to its first await, for what is buffered: init() begins a    *)
(* transaction or uses the caller's, and prepares; then the chunk is sent. *)
Flush(who, rows) ==
    /\ flushing' = who
    /\ transaction' = (transaction \/ ~owns)
    /\ line' = Append(line,
          CASE statement -> Request("batch", rows)
            [] owns /\ ~statement -> Request("begin", <<>>)
            [] OTHER -> Request("prepare", <<>>))
    /\ buffered' = IF statement THEN Taken(rows) ELSE rows

Write ==
    /\ state = "open" /\ flushing = "nobody" /\ written < MaxRows
    /\ written' = written + 1
    /\ LET rows == Append(buffered, written')
       IN  IF Len(rows) >= FlushRows
           THEN Flush("write", rows)
           ELSE buffered' = rows /\ UNCHANGED <<flushing, transaction, line>>
    /\ UNCHANGED <<owns, state, statement, server, inserted, durable, ends, excuse>>

Ended == FALSE

\* Mutant: without a statement there is nothing to clean up.
CleanupOfStatement(how, tx, rest) ==
    /\ statement' = FALSE
    /\ IF owns /\ tx /\ statement
       THEN /\ line' = Append(rest, Request(how, <<>>))
            /\ transaction' = Ended /\ ends' = ends + 1
       ELSE line' = rest /\ transaction' = tx /\ UNCHANGED ends

(* cleanup(commit): release the statement, end the stream's transaction.   *)
(* tx is the transaction and rest the line when it is called.              *)
Cleanup(how, tx, rest) ==
    /\ statement' = FALSE
    /\ IF owns /\ tx
       THEN /\ line' = Append(rest, Request(how, <<>>))
            /\ transaction' = Ended /\ ends' = ends + 1
       ELSE line' = rest /\ transaction' = tx /\ UNCHANGED ends

(* destroy(), by the user, by a bad row or by the Writable on an error.    *)
Destroyed(rest) == state' = "destroyed" /\ Cleanup("rollback", transaction, rest)

Destroy ==
    /\ state \in {"open", "ending"} /\ Destroyed(line)
    /\ UNCHANGED <<owns, written, buffered, flushing, server, inserted, durable, excuse>>

(* The end of final(): cleanup(true), and 'finish' when it is answered.    *)
Conclude(rest) ==
    /\ flushing' = "over"
    /\ Cleanup("commit", transaction, rest)
    /\ state' = IF state = "ending" /\ ~(owns /\ transaction)
                THEN "finished" ELSE state

End ==
    /\ state = "open" /\ state' = "ending"
    /\ UNCHANGED <<owns, written, buffered, flushing, transaction, statement,
                   line, server, inserted, durable, ends, excuse>>

Final ==
    /\ state = "ending" /\ flushing = "nobody"
    /\ IF buffered = <<>>
       THEN Conclude(line) /\ UNCHANGED buffered
       ELSE Flush("final", buffered) /\ UNCHANGED <<state, statement, ends>>
    /\ UNCHANGED <<owns, written, server, inserted, durable, excuse>>

-----------------------------------------------------------------------------
(* flush() resolves: the write is over, or final() goes on.                *)
Resolved ==
    \/ /\ flushing = "write" /\ flushing' = "nobody" /\ line' = Tail(line)
       /\ UNCHANGED <<state, transaction, statement, ends>>
    \/ flushing = "final" /\ Conclude(Tail(line))

\* Mutant: a failed final() commits what there is.
FailedHowever == "commit"
Failed == "rollback"

(* flush() rejects: the Writable destroys itself, after final() has        *)
(* cleaned up.                                                             *)
Rejected ==
    \/ /\ flushing = "write" /\ flushing' = "nobody"
       /\ IF state = "destroyed"
          THEN line' = Tail(line) /\ UNCHANGED <<state, transaction, statement, ends>>
          ELSE Destroyed(Tail(line))
    \/ /\ flushing = "final" /\ flushing' = "over"
       /\ state' = "destroyed" /\ Cleanup(Failed, transaction, Tail(line))

(* init() goes on, destroyed or not.                                       *)
Begun(ok) ==
    IF ok
    THEN /\ server' = "open" /\ transaction' = TRUE
         /\ line' = Append(Tail(line), Request("prepare", <<>>))
         /\ excuse' = IF state = "destroyed" THEN excuse \cup {"late"} ELSE excuse
         /\ UNCHANGED <<state, flushing, statement, ends>>
    ELSE Rejected /\ UNCHANGED <<server, excuse>>

(* executeBatch() without a transaction is an error.                       *)
Prepared(ok) ==
    IF ok /\ transaction
    THEN /\ statement' = TRUE /\ buffered' = Taken(buffered)
         /\ line' = Append(Tail(line), Request("batch", buffered))
         /\ UNCHANGED <<state, flushing, transaction, ends>>
    ELSE Rejected /\ UNCHANGED buffered

(* A batch that fails may have inserted rows.                              *)
Executed(rows, ok) ==
    \/ ok /\ inserted' = inserted \o rows /\ Resolved
    \/ /\ ~ok /\ Rejected
       /\ \E k \in 0..(Len(rows) - 1) : inserted' = inserted \o SubSeq(rows, 1, k)

\* Mutant: a commit that fails is not reported.
OutcomeIfGood(ok) == IF ok THEN "finished" ELSE "ending"
Outcome(ok) == IF ok THEN "finished" ELSE "destroyed"

Concluded(how, ok) ==
    /\ line' = Tail(line)
    /\ IF ok
       THEN /\ server' = "ended" /\ inserted' = <<>> /\ UNCHANGED excuse
            /\ durable' = IF how = "commit" THEN durable \o inserted ELSE durable
       ELSE UNCHANGED <<server, inserted, durable>> /\ excuse' = excuse \cup {how}
    /\ state' = IF how = "commit" /\ state = "ending"
                THEN Outcome(ok) ELSE state
    /\ UNCHANGED <<flushing, transaction, statement, ends>>

Answer ==
    /\ line # <<>>
    /\ LET r == Head(line)
       IN  \E ok \in BOOLEAN :
              \/ r.op = "begin" /\ Begun(ok) /\ UNCHANGED <<buffered, inserted, durable>>
              \/ /\ r.op = "prepare" /\ Prepared(ok)
                 /\ UNCHANGED <<server, inserted, durable, excuse>>
              \/ /\ r.op = "batch" /\ Executed(r.rows, ok)
                 /\ UNCHANGED <<buffered, server, durable, excuse>>
              \/ /\ r.op \in {"commit", "rollback"} /\ Concluded(r.op, ok)
                 /\ UNCHANGED buffered
    /\ UNCHANGED <<owns, written>>

Next == Write \/ End \/ Final \/ Destroy \/ Answer

Spec == Init /\ [][Next]_vars

(* The server answers; Node calls final() after the last write.            *)
FairSpec == Spec /\ WF_vars(Answer) /\ WF_vars(Final)

-----------------------------------------------------------------------------
(* The types of the variables.                                             *)
TypeOK ==
    /\ owns \in BOOLEAN /\ state \in {"open", "ending", "finished", "destroyed"}
    /\ written \in Nat /\ buffered \in Seq(Nat)
    /\ flushing \in {"nobody", "write", "final", "over"}
    /\ transaction \in BOOLEAN /\ statement \in BOOLEAN
    /\ line \in Seq([op : {"begin", "prepare", "batch", "commit", "rollback"},
                     rows : Seq(Nat)])
    /\ server \in {"none", "open", "ended"}
    /\ inserted \in Seq(Nat) /\ durable \in Seq(Nat)
    /\ ends \in 0..1 /\ excuse \subseteq {"late", "commit", "rollback"}

(* batch-stream.ts:21-22, "all-or-nothing for the whole stream": the rows  *)
(* that are committed are all that were written, each once and in order.   *)
AllOrNothing == durable # <<>> => durable = [i \in 1..written |-> i]

(* A stream that finishes has committed its rows (batch-stream.ts:21); one *)
(* in the caller's transaction has inserted them and left it open.         *)
FinishKeepsAll ==
    state = "finished" =>
        IF owns THEN durable = [i \in 1..written |-> i] /\ server # "open"
        ELSE inserted = [i \in 1..written |-> i] /\ server = "open"

(* Once a stream is over and the server has answered, no transaction of    *)
(* its own is open, unless it was destroyed before there was one or the    *)
(* server refused to end it.                                               *)
NothingLeftOpen ==
    owns /\ state \in {"finished", "destroyed"} /\ line = <<>> /\ server = "open"
        => excuse # {}

(* A stream that was asked to end does, one way or the other.              *)
EndsSomehow == state = "ending" ~> state \in {"finished", "destroyed"}
=============================================================================
