------------------------------ MODULE Session ------------------------------
(***************************************************************************)
(* The helpers of Database and Transaction (src/src/wire/database.ts,      *)
(* transaction.ts, statement.ts): newStatement, execute and query,         *)
(* executeBatch, withTransaction, and savepoints inside it, several calls  *)
(* at a time on one connection and its statement cache.                    *)
(*                                                                         *)
(* A call is a chain of requests, each sent by the callback of the one     *)
(* before.  The connection answers requests in their order (module Wire):  *)
(* one action is one answer and everything its callback does.  What the    *)
(* caller awaits is the field "at" of its call.  On a closed connection    *)
(* every request fails at once; here, in a step of its own.                *)
(***************************************************************************)
EXTENDS StatementCache

CONSTANTS
    Query,      \* the texts each user runs
    Api,        \* the helpers each user calls
    Signals,    \* who passes an AbortSignal
    MaxDepth,   \* how deep savepoints are nested
    MaxRuns,    \* how many statements the user's work runs
    Faults      \* "refuse": any request may fail; "loss"

(* A text: what it does, and a number that tells texts apart.              *)
Sql(verb, n) == [verb |-> verb, n |-> n]
SavepointVerbs == {"savepoint", "undo", "release"}
SavepointTexts == {Sql(verb, d) : verb \in SavepointVerbs, d \in 1..MaxDepth}

(* A bound of the model: the user's own texts set no savepoints.           *)
ASSUME SessionAssumption ==
    /\ MaxDepth \in Nat /\ MaxRuns \in Nat
    /\ Query \in [User -> SUBSET Text] /\ SavepointTexts \subseteq Text
    /\ \A u \in User : \A q \in Query[u] : q.verb \notin SavepointVerbs
    /\ Api \in [User -> SUBSET {"newStatement", "execute", "executeBatch",
                                "withTransaction"}]
    /\ Faults \subseteq {"refuse", "loss"} /\ Signals \subseteq User

VARIABLES
    call,     \* the call of each user
    line,     \* who awaits an answer, in the order of the requests
    link,     \* "open" or "closed"
    fired,    \* whose AbortSignal has fired
    cancel,   \* an op_cancel is on its way to the server
    tx,       \* the transaction of each call: "none", "open", "over"
    log,      \* the changes and savepoints in it, in order
    durable,  \* the changes it committed
    scopes,   \* the changes by open savepoint, as the client sees them
    refused   \* history: the ends of the transaction the server refused

server == <<tx, log, durable>>
vars == <<cached, call, line, link, fired, cancel, server, scopes, refused>>

Requests == {"begin", "prepare", "execute", "fetch", "info", "commit", "rollback"}

NoCall == [api |-> "none", at |-> "idle", sql |-> Sql("none", 0),
           depth |-> 0, runs |-> 0, outcome |-> "none"]

Init ==
    /\ CacheInit
    /\ call = [c \in User |-> NoCall] /\ line = <<>> /\ link = "open"
    /\ fired = {} /\ cancel = FALSE
    /\ tx = [c \in User |-> "none"] /\ log = [c \in User |-> <<>>]
    /\ durable = [c \in User |-> {}] /\ scopes = [c \in User |-> <<{}>>]
    /\ refused = [c \in User |-> {}]

-----------------------------------------------------------------------------
(* The call c is new from here on; rest is the line, and a request goes    *)
(* behind it.                                                              *)
Goes(c, new, rest) ==
    /\ call' = [call EXCEPT ![c] = new]
    /\ line' = IF new.at \in Requests /\ link = "open" THEN Append(rest, c) ELSE rest

At(c, at) == [call[c] EXCEPT !.at = at]

(* savepoint() is left: released or rolled back to, or never entered.      *)
Leaves(k, good) ==
    k.sql.verb \in {"undo", "release"} \/ (k.sql.verb = "savepoint" /\ ~good)

\* Mutant: db.execute calls back without ending the transaction.
AfterNoRollback(k, good) ==
    IF k.api = "withTransaction"
    THEN [k EXCEPT !.at = "work",
             !.depth = IF Leaves(k, good) THEN @ - 1 ELSE @]
    ELSE [k EXCEPT !.at = IF good THEN "commit" ELSE "over",
                   !.outcome = IF good THEN "ok" ELSE "error"]

(* The callback of transaction.execute or executeBatch: db.execute and     *)
(* db.executeBatch commit or roll back; in a transaction's work the user's *)
(* promise settles, and a savepoint() that failed or is over is left.      *)
After(k, good) ==
    IF k.api = "withTransaction"
    THEN [k EXCEPT !.at = "work",
             !.depth = IF Leaves(k, good) THEN @ - 1 ELSE @]
    ELSE [k EXCEPT !.at = IF good THEN "commit" ELSE "rollback",
                   !.outcome = IF good THEN "ok" ELSE "error"]

(* What the client holds true of its savepoints: rolled back to, one is    *)
(* gone with its changes; released, its changes are those of the one       *)
(* around it.  A rollback that failed leaves them there.                   *)
ScopesAfter(c, good) ==
    LET s == scopes[c]
        n == Len(s)
        verb == call[c].sql.verb
        merged == [SubSeq(s, 1, n - 1) EXCEPT ![n - 1] = @ \cup s[n]]
    IN  CASE verb = "savepoint" /\ good -> Append(s, {})
          [] verb = "insert" /\ good -> [s EXCEPT ![n] = @ \cup {call[c].runs}]
          [] verb = "undo" -> IF good THEN Front(s) ELSE merged
          [] verb = "release" -> merged
          [] OTHER -> s

(* The end of the running statement.                                       *)
Ends(c, good, rest) == Goes(c, After(call[c], good), rest)

(* What the callback of newStatement asks for: db.newStatement ends its    *)
(* transaction, the others execute.                                        *)
Prepared(k) == [k EXCEPT !.at = IF k.api = "newStatement" THEN "commit" ELSE "execute",
                         !.outcome = IF k.api = "newStatement" THEN "ok" ELSE @]

(* Transaction.newStatement: a statement of the cache, or a new one.       *)
(* Parameters that do not bind fail the call before anything is sent, and  *)
(* the statement is dropped.                                               *)
NewStatement(c, k, rest) ==
    \/ /\ Take(c, k.sql)
       /\ Goes(c, Prepared(k), rest)
    \/ /\ Spoil(k.sql) /\ k.api # "newStatement" /\ k.sql \notin SavepointTexts
       /\ Goes(c, After(k, FALSE), rest)
    \/ /\ Idle(k.sql) = {}
       /\ Goes(c, [k EXCEPT !.at = "prepare"], rest) /\ UNCHANGED cached

(* transaction.execute: a signal that has fired already fails the call.    *)
HasSignal(k) == \/ k.api = "execute"
                \/ k.api = "withTransaction" /\ k.sql \notin SavepointTexts

Execute(c, k, rest) ==
    IF c \in fired /\ HasSignal(k)
    THEN Goes(c, After(k, FALSE), rest) /\ UNCHANGED cached
    ELSE NewStatement(c, k, rest)

-----------------------------------------------------------------------------
(* The calls of the user.                                                  *)
Call(c) ==
    /\ call[c].at = "idle"
    /\ \E api \in Api[c], q \in Query[c] :
          Goes(c, [NoCall EXCEPT !.api = api, !.at = "begin", !.sql = q], line)
    /\ UNCHANGED <<cached, link, fired, cancel, server, scopes, refused>>

(* The work of withTransaction: runs a query; enters a savepoint; resolves *)
(* or rejects, in the innermost savepoint or in the transaction.           *)
Run(c) ==
    /\ call[c].runs < MaxRuns
    /\ \E q \in Query[c] :
          Execute(c, [call[c] EXCEPT !.sql = q, !.runs = @ + 1], line)

Enter(c) ==
    /\ call[c].runs < MaxRuns /\ call[c].depth < MaxDepth
    /\ LET d == call[c].depth + 1
       IN  Execute(c, [call[c] EXCEPT !.sql = Sql("savepoint", d),
                                      !.depth = d, !.runs = @ + 1], line)

Resolve(c) ==
    IF call[c].depth > 0
    THEN Execute(c, [call[c] EXCEPT !.sql = Sql("release", call[c].depth)], line)
    ELSE /\ Goes(c, [call[c] EXCEPT !.at = "commit", !.outcome = "ok"], line)
         /\ UNCHANGED cached

Reject(c) ==
    IF call[c].depth > 0
    THEN Execute(c, [call[c] EXCEPT !.sql = Sql("undo", call[c].depth)], line)
    ELSE /\ Goes(c, [call[c] EXCEPT !.at = "rollback", !.outcome = "error"], line)
         /\ UNCHANGED cached

Work(c) ==
    /\ call[c].at = "work"
    /\ Run(c) \/ Enter(c) \/ Resolve(c) \/ Reject(c)
    /\ UNCHANGED <<link, fired, cancel, server, scopes, refused>>

(* The statement of newStatement, given back or dropped.                   *)
GiveBack(c) ==
    /\ call[c].at = "over"
    /\ \E s \in held[c] : Release(c, s, FALSE) \/ Release(c, s, TRUE) \/ Drop(c, s)
    /\ UNCHANGED <<call, line, link, fired, cancel, server, scopes, refused>>

(* The listener is there until the operation settles.                      *)
Hooked(c) ==
    call[c].at \in {"prepare", "execute", "fetch", "info"} /\ HasSignal(call[c])

(* The signal fires; while the operation runs, an op_cancel is sent.       *)
Abort(c) ==
    /\ c \in Signals \ fired /\ call[c].at # "over"
    /\ fired' = fired \cup {c}
    /\ cancel' = (cancel \/ (link = "open" /\ Hooked(c)))
    /\ UNCHANGED <<cached, call, line, link, server, scopes, refused>>
-----------------------------------------------------------------------------
(* The transaction at the server.  A savepoint of a name that is in use    *)
(* replaces it; release and rollback act on all that came after it.        *)
Entry(what, n) == [what |-> what, n |-> n]
Mark(l, d) == CHOOSE i \in DOMAIN l : l[i] = Entry("savepoint", d)
Marked(l, d) == Entry("savepoint", d) \in ToSet(l)
IsChange(e) == e.what = "change"
Changes(l) == {e.n : e \in {f \in ToSet(l) : IsChange(f)}}

Served(l, k) ==
    CASE k.sql.verb = "savepoint" ->
            Append(Without(l, {Entry("savepoint", k.sql.n)}), Entry("savepoint", k.sql.n))
      [] k.sql.verb = "undo" -> SubSeq(l, 1, Mark(l, k.sql.n))
      [] k.sql.verb = "release" ->
            Without(l, {e \in ToSet(SubSeq(l, Mark(l, k.sql.n), Len(l))) : ~IsChange(e)})
      [] k.sql.verb = "insert" -> Append(l, Entry("change", k.runs))
      [] OTHER -> l

(* What the server may do with the request of c.                           *)
Can(c) == call[c].sql.verb \in {"undo", "release"} => Marked(log[c], call[c].sql.n)

-----------------------------------------------------------------------------
(* The callbacks, by what was asked.  good: the answer is no error.        *)
Begun(c, good, rest) ==
    /\ tx' = [tx EXCEPT ![c] = IF good THEN "open" ELSE @]
    /\ UNCHANGED <<log, durable, scopes, refused>>
    /\ IF ~good
       THEN Goes(c, [At(c, "over") EXCEPT !.outcome = "error"], rest)
            /\ UNCHANGED cached
       ELSE CASE call[c].api = "withTransaction" ->
                    Goes(c, At(c, "work"), rest) /\ UNCHANGED cached
              [] call[c].api = "execute" -> Execute(c, call[c], rest)
              [] OTHER -> NewStatement(c, call[c], rest)

(* db.newStatement whose prepare fails calls back, and nobody ends its     *)
(* transaction.                                                            *)
PrepareAnswered(c, good, rest) ==
    /\ UNCHANGED <<server, refused>>
    /\ scopes' = [scopes EXCEPT ![c] = IF good THEN @ ELSE ScopesAfter(c, FALSE)]
    /\ IF ~good
       THEN /\ UNCHANGED cached
            /\ IF call[c].api = "newStatement"
               THEN Goes(c, [At(c, "over") EXCEPT !.outcome = "error"], rest)
               ELSE Ends(c, FALSE, rest)
       ELSE \/ /\ Prepare(c, call[c].sql)
               /\ Goes(c, Prepared(call[c]), rest)
            \/ /\ call[c].api # "newStatement" /\ call[c].sql \notin SavepointTexts
               /\ Ends(c, FALSE, rest) /\ UNCHANGED cached

\* Mutant: the statement is forgotten, neither cached nor dropped.
Forgets(c, failed) == held' = [held EXCEPT ![c] = {}] /\ UNCHANGED <<cache, open>>

(* statement.release() by the helper that has it.                          *)
Releases(c, failed) == \E s \in held[c] : Release(c, s, failed)

(* dropError: the statement is not put back into the cache.                *)
DropError(c, rest) == Releases(c, TRUE) /\ Ends(c, FALSE, rest)

Delivers(c, rest) == Releases(c, FALSE) /\ Ends(c, TRUE, rest)

Asks(c, at, rest) == Goes(c, At(c, at), rest) /\ UNCHANGED cached

Executed(c, good, rest) ==
    LET k == call[c]
    IN  /\ log' = [log EXCEPT ![c] = IF good THEN Served(@, k) ELSE @]
        /\ scopes' = [scopes EXCEPT ![c] = ScopesAfter(c, good)]
        /\ UNCHANGED <<tx, durable, refused>>
        /\ CASE ~good -> DropError(c, rest)
             [] k.api = "executeBatch" -> \E all \in BOOLEAN :
                   Releases(c, FALSE) /\ Ends(c, all, rest)
             [] good /\ k.api # "executeBatch" ->
                   \/ k.sql.verb \in {"select", "call"} /\ Asks(c, "fetch", rest)
                   \/ k.sql.verb \in {"insert", "call"} /\ Asks(c, "info", rest)
                   \/ k.sql.verb # "select" /\ Delivers(c, rest)

(* fetchAll, resolveTextBlobs and the fetch of a procedure's row: as many  *)
(* requests as they take are one here.                                     *)
Fetched(c, good, rest) ==
    /\ UNCHANGED <<server, scopes, refused>>
    /\ CASE ~good -> DropError(c, rest)
         [] good -> \/ Delivers(c, rest)
                    \/ call[c].sql.verb = "call" /\ Asks(c, "info", rest)

Informed(c, good, rest) ==
    /\ UNCHANGED <<server, scopes, refused>>
    /\ IF good THEN Delivers(c, rest) ELSE DropError(c, rest)

\* Mutant: nobody is called back when the rollback failed.
OverIfGood(c, good) == IF good THEN At(c, "over") ELSE At(c, "forgotten")
Over(c, good) == [At(c, "over") EXCEPT !.outcome = IF good THEN @ ELSE "error"]

\* Mutant: the callback is not told that the commit failed.
CommitFailureUnsaid(c) == At(c, "over")

(* A commit that fails: withTransaction rolls back, the others call back.  *)
CommitFailed(c) ==
    IF call[c].api = "withTransaction"
    THEN [At(c, "rollback") EXCEPT !.outcome = "error"] ELSE Over(c, FALSE)

Ended(c, good, rest) ==
    LET how == call[c].at IN
    /\ tx' = [tx EXCEPT ![c] = IF good THEN "over" ELSE @]
    /\ log' = [log EXCEPT ![c] = IF good THEN <<>> ELSE @]
    /\ durable' = [durable EXCEPT ![c] =
          IF good /\ how = "commit" THEN Changes(log[c]) ELSE @]
    /\ refused' = [refused EXCEPT ![c] =
          IF good \/ link = "closed" THEN @ ELSE @ \cup {how}]
    /\ Goes(c, IF how = "commit" /\ ~good THEN CommitFailed(c) ELSE Over(c, good), rest)
    /\ UNCHANGED <<cached, scopes>>

Answered(c, good, rest) ==
    CASE call[c].at = "begin" -> Begun(c, good, rest)
      [] call[c].at = "prepare" -> PrepareAnswered(c, good, rest)
      [] call[c].at = "execute" -> Executed(c, good, rest)
      [] call[c].at = "fetch" -> Fetched(c, good, rest)
      [] call[c].at = "info" -> Informed(c, good, rest)
      [] call[c].at \in {"commit", "rollback"} -> Ended(c, good, rest)

(* An answer arrives.                                                      *)
Answer(good) ==
    /\ line # <<>>
    /\ IF good THEN Can(Head(line)) ELSE "refuse" \in Faults \/ ~Can(Head(line))
    /\ Answered(Head(line), good, Tail(line))
    /\ UNCHANGED <<link, fired, cancel>>

(* The op_cancel arrives: what the server is executing fails, whosever it  *)
(* is; or it comes too late.                                               *)
Cancelled ==
    /\ cancel /\ cancel' = FALSE
    /\ \/ line # <<>> /\ Answered(Head(line), FALSE, Tail(line))
       \/ UNCHANGED <<cached, call, line, server, scopes, refused>>
    /\ UNCHANGED <<link, fired>>

(* The socket is closed; the requests are rejected, and a commit among     *)
(* them may have been done.                                                *)
Lost ==
    /\ "loss" \in Faults /\ link = "open" /\ link' = "closed"
    /\ line' = <<>> /\ cancel' = FALSE
    /\ \E S \in SUBSET {c \in User : call[c].at = "commit"} :
          durable' = [c \in User |-> IF c \in S THEN Changes(log[c]) ELSE durable[c]]
    /\ UNCHANGED <<cached, call, fired, tx, log, scopes, refused>>

Refuse(c) ==
    /\ link = "closed" /\ call[c].at \in Requests
    /\ Answered(c, FALSE, line)
    /\ UNCHANGED <<link, fired, cancel>>

Next ==
    \/ \E c \in User : Call(c) \/ Work(c) \/ GiveBack(c) \/ Abort(c) \/ Refuse(c)
    \/ Answer(TRUE) \/ Answer(FALSE) \/ Cancelled \/ Lost

Spec == Init /\ [][Next]_vars

(* The server answers, a closed connection refuses, the user's work ends.  *)
FairSpec ==
    /\ Spec /\ WF_vars(Answer(TRUE) \/ Answer(FALSE))
    /\ \A c \in User : WF_vars(Refuse(c)) /\ WF_vars(Work(c))

-----------------------------------------------------------------------------
(* A call that is over leaves nothing open: no statement, but the one that *)
(* newStatement is for; and no transaction, unless the server refused to   *)
(* end it - withTransaction asks twice - or newStatement could not prepare *)
(* (database.ts:226-229).                                                  *)
NothingLeftOpen ==
    \A c \in User : call[c].at = "over" =>
        /\ call[c].api # "newStatement" => held[c] = {}
        /\ link = "open" /\ tx[c] = "open" =>
            CASE call[c].api = "withTransaction" -> "rollback" \in refused[c]
              [] call[c].api = "newStatement" -> refused[c] # {} \/ held[c] = {}
              [] OTHER -> refused[c] # {}

(* What is committed is what the client was told: after a success, the     *)
(* changes of all the work that is not rolled back to a savepoint; after   *)
(* an error nothing (transaction.ts:75-78: "undoing only work's changes";  *)
(* database.ts:278: all or nothing).                                       *)
CommitsWhatResolved ==
    \A c \in User : call[c].at = "over" =>
        \/ call[c].outcome = "ok" /\ durable[c] = scopes[c][1]
        \/ call[c].outcome = "error" /\ (durable[c] = {} \/ link = "closed")

(* Every call is answered, and the work of a transaction goes on.          *)
EveryCallAnswered ==
    \A c \in User : call[c].at # "idle" ~> call[c].at = "over"
=============================================================================
