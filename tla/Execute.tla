------------------------------ MODULE Execute -------------------------------
(***************************************************************************)
(* Running a statement with its parameters (src/src/wire/connection.ts):   *)
(* executeStatement, which uploads the blobs among them one after the      *)
(* other and then sends op_execute, and executeBatch, which uploads those  *)
(* of all rows at once and then sends the batch.                           *)
(*                                                                         *)
(* The requests of all calls share one connection and are answered in the  *)
(* order they were sent; the server acts on a request when it answers it,  *)
(* which nobody can tell from acting earlier.                              *)
(***************************************************************************)
EXTENDS Parameters, SeqRemoval

CONSTANTS
    Call,       \* calls of executeStatement and executeBatch
    Plans,      \* what the calls may be: functions from Call to jobs
    Chunk,      \* blobChunkSize
    PerPacket,  \* chunkSize, the rows in an op_batch_msg
    Failing     \* what the server may refuse: pairs of kind of call and request

(* A job: the parameters that were described, and the values for them, one *)
(* row for each execution or members of an object.                         *)
Kinds == {"null", "string", "number", "fraction", "bigint", "boolean", "date", "buffer",
          "json", "stream", "quad"}
Val == [is : Kinds, v : Int, chunks : Seq(Seq(Nat))]
IsJob(j) ==
    /\ j.kind \in {"statement", "batch"} /\ (j.kind = "statement" => Len(j.rows) = 1)
    /\ j.input \in Seq([name : STRING, type : STRING, length : Nat, scale : Int])
    /\ j.rows \in Seq(Seq(Val)) /\ \A n \in DOMAIN j.named : j.named[n] \in Val

ASSUME ExecuteAssumption ==
    /\ Chunk \in Nat \ {0} /\ PerPacket \in Nat \ {0}
    /\ \A plan \in Plans, c \in Call : IsJob(plan[c])

VARIABLES
    old,        \* lowerV13: the protocol is older than 13
    job,        \* what each call is: [kind, input, rows, named]
    started,    \* the calls that were made
    queue,      \* _queue: the requests sent and not answered
    upload,     \* the closure of each upload
    stored,     \* ret, cloned: the blobs that stand for values
    left,       \* pendingBlobs, then remaining
    failed,     \* blobFailure, then failure
    told,       \* the results that each callback was called with
    blobs,      \* the server's blobs
    batch,      \* the server's open batches
    ran         \* what the server ran

client == <<started, upload, stored, left, failed, told>>
server == <<blobs, batch, ran>>
vars == <<old, job, queue, client, server>>

(* Where the value of an upload stands: row and parameter.                 *)
Places ==
    UNION {(DOMAIN plan[c].rows) \X (DOMAIN plan[c].input) : plan \in Plans, c \in Call}
Upload == Call \X Places
NoUpload == [blob |-> 0, rest |-> <<>>, error |-> FALSE, chunks |-> <<>>,
             flowing |-> FALSE, reading |-> FALSE, end |-> FALSE]
NoBatch == [open |-> FALSE, blr |-> <<>>, messages |-> <<>>]

Init ==
    /\ old \in BOOLEAN /\ job \in Plans /\ started = {}
    /\ queue = <<>> /\ blobs = <<>> /\ ran = <<>>
    /\ upload = [u \in Upload |-> NoUpload] /\ stored = [u \in Upload |-> 0]
    /\ left = [c \in Call |-> 0] /\ failed = [c \in Call |-> FALSE]
    /\ told = [c \in Call |-> <<>>] /\ batch = [c \in Call |-> NoBatch]

-----------------------------------------------------------------------------
(* An object as parameters: its members in the order of the described      *)
(* names, or, when it names none of them, the object as the only value.    *)
(* What is described twice by a name has the value in its last place only. *)
Mapped(j) ==
    LET names == {j.input[i].name : i \in DOMAIN j.input} \cap DOMAIN j.named
        last(i) == \A k \in DOMAIN j.input : j.input[k].name = j.input[i].name => k <= i
        member(i) == LET name == j.input[i].name
                     IN  IF name \in names /\ last(i) THEN j.named[name] ELSE Null
    IN  IF names = {} THEN j.rows[1] ELSE [i \in DOMAIN j.input |-> member(i)]

InBatch(c) == job[c].kind = "batch"
ValuesOf(j, r) == IF j.kind = "batch" THEN j.rows[r] ELSE Mapped(j)
Values(c, r) == ValuesOf(job[c], r)

(* Which values are uploaded; a batch takes the id of a blob as it is.     *)
IsBlob(c, r, p) ==
    /\ job[c].input[p].type = "blob"
    /\ Values(c, r)[p].is \notin (IF InBatch(c) THEN {"null", "quad"} ELSE {"null"})

(* What stands for a value in a message.                                   *)
Stands(c, r, p) ==
    IF IsBlob(c, r, p) THEN Value("quad", stored'[<<c, <<r, p>>>>], <<>>)
    ELSE Values(c, r)[p]
Row(c, r) == [p \in DOMAIN job[c].input |-> Stands(c, r, p)]

Request(op, u, data) == [op |-> op, call |-> u[1], place |-> u[2], data |-> data]
Packet(op, c, data) == Request(op, <<c, <<0, 0>>>>, data)
Create(u) == Request("create", u, <<>>)

-----------------------------------------------------------------------------
(* sendExecute; nothing is sent when the encoding throws.                  *)
SendExecute(c) ==
    LET params == [p \in DOMAIN job[c].input |-> Prepared(job[c].input[p], Row(c, 1)[p])]
    IN  IF \E p \in DOMAIN params : Throws(params[p]) THEN <<>>
        ELSE <<Packet("execute", c,
                      [blr |-> [p \in DOMAIN params |-> ParamBlr(params[p])],
                       words |-> Message(params, old)])>>

(* PrepareParams.step: on to the next blob, or to the execution.           *)
Step(c, p) ==
    LET later == {i \in p..Len(job[c].input) : IsBlob(c, 1, i)}
    IN  IF later = {} THEN SendExecute(c) ELSE <<Create(<<c, <<1, Min(later)>>>>)>>

(* The packets of _executeBatchEncoded.                                    *)
Packets(c) ==
    LET rows == job[c].rows
        blr == [p \in DOMAIN job[c].input |-> VarBlr(job[c].input[p])]
        messages == [r \in DOMAIN rows |-> BatchMessage(job[c].input, Row(c, r))]
        from(i) == (i - 1) * PerPacket + 1
        count == (Len(rows) + PerPacket - 1) \div PerPacket
    IN  <<Packet("open", c, [blr |-> blr, length |-> MsgLen(job[c].input)])>>
        \o [i \in 1..count |->
              Packet("rows", c, SubSeq(messages, from(i), Min({from(i + 1) - 1, Len(rows)})))]
        \o <<Packet("exec", c, <<>>), Packet("release", c, <<>>)>>

(* A batch whose packets cannot be built.                                  *)
Refused(c) ==
    \E p \in DOMAIN job[c].input :
       \/ Unsupported(job[c].input[p])
       \/ \E r \in DOMAIN job[c].rows :
             LET column == job[c].input[p]
                 value == job[c].rows[r][p]
             IN  TooLong(column, value) \/ EncoderThrows(column, value)

Tell(c, result) == told' = [told EXCEPT ![c] = Append(@, result)]
Set(u, closure) == upload' = [upload EXCEPT ![u] = closure]

(* executeStatement; values for a statement without parameters are ignored.*)
ExecuteStatement(c) ==
    /\ ~InBatch(c) /\ stored' = stored
    /\ IF job[c].input # <<>> /\ Len(Values(c, 1)) # Len(job[c].input)
       THEN Tell(c, "error") /\ queue' = queue
       ELSE queue' = queue \o Step(c, 1) /\ told' = told
    /\ UNCHANGED <<left, failed>>

(* _executeBatchEncoded behind the requests "rest" of the queue; "remaining"*)
(* counts what is answered until the callback: all but the release.        *)
ExecuteBatchEncoded(c, rest) ==
    IF Refused(c) THEN Tell(c, "error") /\ queue' = rest /\ UNCHANGED <<left, failed>>
    ELSE /\ queue' = rest \o Packets(c) /\ told' = told
         /\ left' = [left EXCEPT ![c] = Len(Packets(c)) - 1]
         /\ failed' = [failed EXCEPT ![c] = FALSE]

(* executeBatch: every blob of every row is created at once, row by row.   *)
PlacesOf(c) == (DOMAIN job[c].rows) \X (DOMAIN job[c].input)
InOrder(rows, n) ==
    [k \in 1..(rows * n) |-> <<(k - 1) \div n + 1, ((k - 1) % n) + 1>>]

ExecuteBatch(c) ==
    LET j == job[c]
        uploads == Without(InOrder(Len(j.rows), Len(j.input)),
                           {x \in PlacesOf(c) : ~IsBlob(c, x[1], x[2])})
    IN  /\ InBatch(c) /\ stored' = stored
        /\ IF old \/ j.input = <<>> \/ \E r \in DOMAIN j.rows : Len(j.rows[r]) # Len(j.input)
           THEN Tell(c, "error") /\ UNCHANGED <<queue, left, failed>>
           ELSE IF j.rows = <<>>
           THEN Tell(c, "ok") /\ UNCHANGED <<queue, left, failed>>
           ELSE IF uploads = <<>> THEN ExecuteBatchEncoded(c, queue)
           ELSE /\ queue' = queue \o [i \in DOMAIN uploads |-> Create(<<c, uploads[i]>>)]
                /\ left' = [left EXCEPT ![c] = Len(uploads)]
                /\ UNCHANGED <<failed, told>>

Start(c) ==
    /\ c \notin started /\ started' = started \cup {c}
    /\ ExecuteStatement(c) \/ ExecuteBatch(c)
    /\ UNCHANGED <<old, job, upload, server>>

-----------------------------------------------------------------------------
(* The answer to the oldest request; it may be a refusal.                  *)
Answer(op, ok) ==
    /\ queue # <<>> /\ Head(queue).op = op
    /\ ok \/ <<job[Head(queue).call].kind, op>> \in Failing
    /\ UNCHANGED <<old, job, started>>

Up == <<Head(queue).call, Head(queue).place>>
Also(requests) == queue' = Tail(queue) \o requests

(* What the server makes of a segment: a closed blob takes no more.        *)
Taken(ok) == ok /\ blobs[upload[Up].blob].open
Holds(ok) ==
    blobs' = IF Taken(ok) THEN [blobs EXCEPT ![upload[Up].blob].text = @ \o Head(queue).data]
             ELSE blobs

(* settleBlobs; "remaining" of a batch.                                    *)
\* Mutant: the last upload but one settles them all.
SettledEarly(c) == left[c] <= 2
Settled(c) == left[c] <= 1

SettleBlobs(c, error) ==
    IF Settled(c) /\ ~(failed[c] \/ error)
    THEN ExecuteBatchEncoded(c, Tail(queue))
    ELSE /\ left' = [left EXCEPT ![c] = @ - 1]
         /\ failed' = [failed EXCEPT ![c] = @ \/ error]
         /\ IF Settled(c) THEN Tell(c, "error") ELSE told' = told
         /\ Also(<<>>)

(* bufferReader: a slice of what is left.                                  *)
Slice(u, text) == Request("segment", u, SubSeq(text, 1, Min({Chunk, Len(text)})))
Rest(text) == SubSeq(text, Chunk + 1, Len(text))

(* A statement listens to a stream; for a batch it is an object like any,  *)
(* whose JSON is not what the stream holds.                                *)
ValueAt(u) == Values(u[1], u[2][1])[u[2][2]]
IsStream(u) == ~InBatch(u[1]) /\ ValueAt(u).is = "stream"
Contents(value) == IF value.is = "stream" THEN <<Space>> ELSE FlattenSeq(value.chunks)

(* createBlob2's callback: the first slice, or the stream's listeners.     *)
Created ==
    /\ Answer("create", TRUE)
    /\ LET value == ValueAt(Up)
           text == Contents(value)
           new == [NoUpload EXCEPT !.blob = Len(blobs) + 1]
       IN  IF IsStream(Up)
           THEN Set(Up, [new EXCEPT !.chunks = value.chunks, !.flowing = TRUE]) /\ Also(<<>>)
           ELSE Set(Up, [new EXCEPT !.rest = Rest(text)]) /\ Also(<<Slice(Up, text)>>)
    /\ blobs' = Append(blobs, [text |-> <<>>, open |-> TRUE])
    /\ UNCHANGED <<batch, ran, stored, left, failed, told>>

(* A statement goes on without a blob, and throws.                         *)
NotCreated ==
    /\ Answer("create", FALSE)
    /\ IF InBatch(Up[1]) THEN SettleBlobs(Up[1], TRUE)
       ELSE Also(<<>>) /\ UNCHANGED <<left, failed, told>>
    /\ stored' = stored /\ UNCHANGED <<server, upload>>

(* closeBlob; a statement takes the blob's id now, a batch later.          *)
Close(u) ==
    /\ Also(<<Request("close", u, <<>>)>>)
    /\ stored' = IF InBatch(u[1]) THEN stored ELSE [stored EXCEPT ![u] = upload[u].blob]

\* Mutant: bufferReader's next() drops the error, in a batch too.
ErrorDropped(u, ok) == FALSE

(* uploadBlob keeps the error of a segment, putBlobData drops it.          *)
SegmentError(u, ok) == InBatch(u[1]) /\ (upload[u].error \/ ~ok)

\* Mutant: the stream stays paused.
NotResumed(closure) == [closure EXCEPT !.reading = FALSE]
Resumed(closure) == [closure EXCEPT !.reading = FALSE, !.flowing = TRUE]

(* A chunk has been sent: a stream that has ended meanwhile is not resumed.*)
\* Mutant: it is.
ResumesAnyway(closure) == TRUE
Resumes(closure) == ~closure.end

Segment(ok) ==
    /\ Answer("segment", ok)
    /\ LET up == [upload[Up] EXCEPT !.error = SegmentError(Up, Taken(ok))]
       IN  IF up.rest # <<>>
           THEN /\ Set(Up, [up EXCEPT !.rest = Rest(@)])
                /\ Also(<<Slice(Up, up.rest)>>) /\ stored' = stored
           ELSE IF IsStream(Up) /\ Resumes(up)
           THEN Set(Up, Resumed(up)) /\ Also(<<>>) /\ stored' = stored
           ELSE Set(Up, [up EXCEPT !.reading = FALSE]) /\ Close(Up)
    /\ Holds(ok)
    /\ UNCHANGED <<batch, ran, left, failed, told>>

(* A chunk of a stream that was sent in one piece.                         *)
Piece(ok) ==
    /\ Answer("piece", ok)
    /\ IF upload[Up].end /\ ~upload[Up].reading THEN Close(Up)
       ELSE Also(<<>>) /\ stored' = stored
    /\ Holds(ok)
    /\ UNCHANGED <<batch, ran, upload, left, failed, told>>

(* The server refuses to close what is closed.                             *)
Closed(ok) ==
    /\ Answer("close", ok)
    /\ LET error == upload[Up].error \/ ~ok \/ ~blobs[upload[Up].blob].open
       IN  IF InBatch(Up[1])
           THEN /\ stored' = IF error THEN stored ELSE [stored EXCEPT ![Up] = upload[Up].blob]
                /\ SettleBlobs(Up[1], error)
           ELSE /\ stored' = stored
                /\ Also(Step(Up[1], Up[2][2] + 1)) /\ UNCHANGED <<left, failed, told>>
    /\ blobs' = [blobs EXCEPT ![upload[Up].blob].open = FALSE]
    /\ UNCHANGED <<batch, ran, upload>>

(* The stream's events.                                                    *)
StreamData(u) ==
    /\ upload[u].flowing /\ upload[u].chunks # <<>>
    /\ LET text == Head(upload[u].chunks)
           up == [upload[u] EXCEPT !.chunks = Tail(@)]
       IN  IF Len(text) <= Chunk
           THEN Set(u, up) /\ queue' = Append(queue, Request("piece", u, text))
           ELSE /\ Set(u, [up EXCEPT !.flowing = FALSE, !.reading = TRUE, !.rest = Rest(text)])
                /\ queue' = Append(queue, Slice(u, text))
    /\ UNCHANGED <<old, job, started, server, stored, left, failed, told>>

\* Mutant: 'end' closes the blob whether or not a chunk is being sent.
EndsAnyway(u) == TRUE
EndsNow(u) == ~upload[u].reading

(* 'end' comes once the last chunk is read: after the chunk was sent, or   *)
(* while it is being sent, for pause() does not hold it back.              *)
StreamEnd(u) ==
    /\ upload[u].flowing \/ upload[u].reading
    /\ upload[u].chunks = <<>> /\ ~upload[u].end
    /\ Set(u, [upload[u] EXCEPT !.flowing = FALSE, !.end = TRUE])
    /\ IF EndsNow(u)
       THEN /\ queue' = Append(queue, Request("close", u, <<>>))
            /\ stored' = [stored EXCEPT ![u] = upload[u].blob]
       ELSE UNCHANGED <<queue, stored>>
    /\ UNCHANGED <<old, job, started, server, left, failed, told>>

-----------------------------------------------------------------------------
(* What the server makes of a message: its blobs, and what they hold.      *)
Resolved(v) ==
    IF v.is = "blob" /\ v.v > 0
    THEN Seen(IF blobs[v.v].open THEN "open blob" ELSE "blob", 0, blobs[v.v].text)
    ELSE v
Run(c, blr, messages) ==
    LET values(i) == Decoded(blr, messages[i], old)
    IN  ran' = Append(ran, [call |-> c, rows |-> [i \in DOMAIN messages |->
                   [p \in DOMAIN values(i) |-> Resolved(values(i)[p])]]])

Executed(ok) ==
    /\ Answer("execute", ok)
    /\ LET data == Head(queue).data
       IN  IF ok THEN Run(Up[1], data.blr, <<data.words>>) ELSE ran' = ran
    /\ Tell(Up[1], IF ok THEN "ok" ELSE "error") /\ Also(<<>>)
    /\ UNCHANGED <<blobs, batch, upload, stored, left, failed>>

(* A packet of a batch: refused also when the batch is not open, which it  *)
(* is not when its msglen is not that of its BLR.                          *)
Batch(op, ok) ==
    /\ Answer(op, ok)
    /\ LET c == Up[1]
           data == Head(queue).data
           good == ok /\ IF op = "open" THEN data.length = ServerLength(data.blr)
                         ELSE batch[c].open
       IN  /\ batch' = [batch EXCEPT ![c] =
                 IF ~good THEN @
                 ELSE CASE op = "open" -> [NoBatch EXCEPT !.open = TRUE, !.blr = data.blr]
                        [] op = "rows" -> [@ EXCEPT !.messages = @ \o data]
                        [] OTHER -> [@ EXCEPT !.open = (op = "exec")]]
           /\ IF good /\ op = "exec" THEN Run(c, batch[c].blr, batch[c].messages)
              ELSE ran' = ran
           /\ IF op = "release" THEN UNCHANGED <<left, failed, told>>
              ELSE /\ left' = [left EXCEPT ![c] = @ - 1]
                   /\ failed' = [failed EXCEPT ![c] = @ \/ ~good]
                   /\ IF left[c] > 1 THEN told' = told
                      ELSE Tell(c, IF failed'[c] THEN "error" ELSE "ok")
    /\ Also(<<>>)
    /\ UNCHANGED <<blobs, upload, stored>>

BatchOps == {"open", "rows", "exec", "release"}

Answered ==
    \/ Created \/ NotCreated
    \/ \E ok \in BOOLEAN :
          \/ Segment(ok) \/ Piece(ok) \/ Closed(ok) \/ Executed(ok)
          \/ \E op \in BatchOps : Batch(op, ok)

Next ==
    \/ \E c \in Call : Start(c)
    \/ Answered
    \/ \E u \in Upload : StreamData(u) \/ StreamEnd(u)

(* The server answers; a stream that is read goes on to its end.           *)
Spec ==
    /\ Init /\ [][Next]_vars
    /\ WF_vars(Answered)
    /\ \A u \in Upload : WF_vars(StreamData(u) \/ StreamEnd(u))

-----------------------------------------------------------------------------
(* What the server should see of a value: of a number in a batch, its      *)
(* units of the column's scale.                                            *)
Given(c, r, p) ==
    LET value == Values(c, r)[p]
        column == job[c].input[p]
        text == FlattenSeq(value.chunks)
        spaces == [i \in 1..(column.length - Len(text)) |-> Space]
        number == value.v * (IF InBatch(c) THEN 10^(-column.scale) ELSE 1)
    IN  CASE value.is = "null" -> SeenNull
          [] column.type = "blob" -> Seen("blob", 0, text)
          [] column.type = "date" /\ InBatch(c) -> Seen("moment", value.v - (value.v % Day), <<>>)
          [] column.type = "time" /\ InBatch(c) -> Seen("moment", value.v % Day, <<>>)
          [] column.type \in Dates -> Seen("moment", value.v, <<>>)
          [] value.is = "boolean" /\ column.type = "boolean" -> Seen("boolean", value.v, <<>>)
          [] value.is \in {"number", "fraction", "bigint", "boolean"} ->
                Seen("number", number, <<>>)
          [] column.type = "text" /\ InBatch(c) -> Seen("text", 0, text \o spaces)
          [] OTHER -> Seen("text", 0, text)

(* Every statement and batch that the server runs gets the values that     *)
(* were given, each at its place and every blob whole: whatever is null,   *)
(* however long, however the uploads of several calls and rows mix, and    *)
(* whichever of them fails (connection.ts:2311-2315, 3678-3681).           *)
SentAsGiven ==
    \A i \in DOMAIN ran :
       LET c == ran[i].call
       IN  /\ ran[i].rows = [r \in DOMAIN ran[i].rows |->
                               [p \in DOMAIN job[c].input |-> Given(c, r, p)]]
           /\ Len(ran[i].rows) = (IF InBatch(c) THEN Len(job[c].rows) ELSE 1)

(* A callback is called once; a statement is run once if it is told so,    *)
(* and never if it is told of an error or not told yet.                    *)
RunsOf(c) == {i \in DOMAIN ran : ran[i].call = c}
RunOnce ==
    \A c \in Call :
       /\ Len(told[c]) <= 1 /\ Cardinality(RunsOf(c)) <= 1
       /\ told[c] = <<"ok">> /\ job[c].rows # <<>> => RunsOf(c) # {}
       /\ told[c] = <<"error">> => RunsOf(c) = {}

(* Where that is so: no stream ends with a chunk that is sent in one piece *)
(* (the other streams close their blob twice), and the server refuses a    *)
(* batch as a whole, when it is opened or run, not single packets of rows. *)
LongLast(j) ==
    \A r \in DOMAIN j.rows : \A p \in DOMAIN ValuesOf(j, r) :
       LET value == ValuesOf(j, r)[p]
       IN  j.kind = "statement" /\ value.is = "stream" /\ value.chunks # <<>> => Len(Last(value.chunks)) > Chunk
ClosesOnce ==
    /\ \A plan \in Plans, c \in Call : LongLast(plan[c])
    /\ <<"batch", "rows">> \notin Failing

(* Every call is answered.                                                 *)
EveryCallAnswered == \A c \in Call : c \in started ~> told[c] # <<>>
=============================================================================
