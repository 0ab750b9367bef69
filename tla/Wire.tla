-------------------------------- MODULE Wire --------------------------------
(***************************************************************************)
(* The response queue of a connection (class Connection of                 *)
(* src/src/wire/connection.ts, the deferred buffer of wire/socket.ts) and  *)
(* Database.detach() on top of it (wire/database.ts).                      *)
(*                                                                         *)
(* The Firebird protocol has no request numbers.  The client pairs the     *)
(* n-th reply with the n-th entry of _queue, so every packet that the      *)
(* server answers must have its entry, in the order of the wire.           *)
(*                                                                         *)
(* One action is one turn of the event loop: a call of the driver, a data  *)
(* event, a timer.  A data event is modelled for each reply; a longer      *)
(* chunk is several of them with nothing in between.  An allocate+prepare  *)
(* packet has one entry with lazy_count = 2: here two slots, the first one *)
(* silent, so that a chunk that ends between the two replies is a state.   *)
(***************************************************************************)
EXTENDS SeqRemoval

CONSTANTS
    Op,       \* the calls of driver operations
    Kinds,    \* which kinds of operations are called
    Chunks,   \* the op_batch_msg packets of a batch
    Faults    \* "loss": the socket may be closed by the peer

AllKinds == {"execute", "fetch", "prepare", "openBlob", "free", "closeBlob",
             "batch"}

ASSUME WireAssumption ==
    /\ IsFiniteSet(Op) /\ "db" \notin Op
    /\ Kinds \subseteq AllKinds
    /\ Chunks \in Nat
    /\ Faults \subseteq {"loss"}

VARIABLES
    queue,    \* _queue
    pending,  \* _pending.length
    buffer,   \* packets in the socket's deferred buffer
    sent,     \* packets on the wire to the server
    held,     \* replies the server has not flushed
    stream,   \* replies on the wire to the client
    link,     \* "open"; _isDetach; _isClosed; cut after _isDetach
    pooled,   \* _pooled
    auto,     \* _detachAuto
    timer,    \* _detachTimeout
    detach,   \* the call of db.detach()
    kind,     \* what each call is
    calls,    \* how often its callback was called
    left,     \* remaining, the packets a batch still waits for
    got       \* the reply its last callback brought

wires == <<buffer, sent, held, stream>>
ops == <<kind, calls, left, got>>
detaching == <<pooled, auto, timer, detach>>
vars == <<queue, pending, wires, link, detaching, ops>>

None == [op |-> "none", part |-> "none"]
Part == {"reply", "allocate", "prepare", "deferred", "create", "message",
         "exec", "release", "detach", "none", "closed"}
Packet == [op : Op \cup {"db", "none"}, part : Part]

(* The operations by what they do to _pending, _isClosed and the socket.   *)
Tracked(k) == k \in {"execute", "prepare", "openBlob", "free"}
Guarded(k) == k \in {"execute", "free", "batch"}
Deferred(k) == k \in {"free", "closeBlob"}

BatchPart(i) ==
    CASE i = 1 -> "create" [] i = Chunks + 2 -> "exec"
      [] i = Chunks + 3 -> "release" [] OTHER -> "message"

(* The packets of an operation, and how many of them _pending counts.      *)
Packets(o, k) ==
    CASE k = "prepare" -> <<[op |-> o, part |-> "allocate"],
                            [op |-> o, part |-> "prepare"]>>
      [] k = "batch" ->
            [i \in 1..(Chunks + 3) |-> [op |-> o, part |-> BatchPart(i)]]
      [] Deferred(k) -> <<[op |-> o, part |-> "deferred"]>>
      [] OTHER -> <<[op |-> o, part |-> "reply"]>>

\* Mutant: no placeholder for the reply to a deferred packet.
SlotsWithoutPlaceholder(o, k) == IF Deferred(k) THEN <<>> ELSE Packets(o, k)
Slots(o, k) == Packets(o, k)

Counted(k) == IF k = "batch" THEN Chunks + 3 ELSE IF Tracked(k) THEN 1 ELSE 0

Init ==
    /\ queue = <<>> /\ pending = 0
    /\ buffer = <<>> /\ sent = <<>> /\ held = <<>> /\ stream = <<>>
    /\ link = "open" /\ pooled \in {"yes", "no"}
    /\ auto = "off" /\ timer = "off" /\ detach = "no"
    /\ kind = [o \in Op |-> "none"]
    /\ calls = [o \in Op |-> 0] /\ left = [o \in Op |-> 0]
    /\ got = [o \in Op |-> None]

-----------------------------------------------------------------------------
\* Mutant: a deferred packet overwrites the one before it.
BufferedLast(packets) == packets
Buffered(packets) == buffer \o packets

(* Socket.write: a deferred packet waits for the next one that is not.     *)
Write(packets, deferred) ==
    IF deferred
    THEN buffer' = Buffered(packets) /\ UNCHANGED sent
    ELSE sent' = sent \o buffer \o packets /\ buffer' = <<>>

(* The callback of o is called with what r brought.                        *)
Tell(o, r) ==
    /\ calls' = [calls EXCEPT ![o] = @ + 1]
    /\ got' = [got EXCEPT ![o] = r]

(* A call on an open connection: packets and entries; a deferred operation *)
(* is over at once.                                                        *)
Send(o, k) ==
    /\ Write(Packets(o, k), Deferred(k))
    /\ queue' = queue \o Slots(o, k)
    /\ left' = [left EXCEPT ![o] = IF k = "batch" THEN Chunks + 2 ELSE 0]
    /\ IF Deferred(k) THEN Tell(o, [op |-> o, part |-> "deferred"])
       ELSE UNCHANGED <<calls, got>>

(* On a closed connection the callback gets an error at once; what does    *)
(* not look at _isClosed first has pushed onto _pending by then.           *)
Refuse(o) ==
    /\ Tell(o, [op |-> o, part |-> "closed"])
    /\ UNCHANGED <<queue, wires, left>>

Call(o, k) ==
    /\ k \in Kinds /\ kind[o] = "none" /\ link \in {"open", "closed"}
    /\ detach # "done" \/ pooled = "yes"
    /\ kind' = [kind EXCEPT ![o] = k]
    /\ pending' = pending + (IF link = "closed" /\ Guarded(k) THEN 0 ELSE Counted(k))
    /\ \/ link = "open" /\ Send(o, k)
       \/ link = "closed" /\ Refuse(o)
    /\ UNCHANGED <<held, stream, link, detaching>>

(* startTransaction, commit, rollback, commitRetaining, rollbackRetaining, *)
(* allocateStatement, executeStatement, statementInfo.                     *)
Execute(o) == Call(o, "execute")

(* fetch, fetchScroll, prepareStatement, getSegment, createBlob2,          *)
(* batchSegments, the service manager's and the event operations.          *)
Fetch(o) == Call(o, "fetch")

(* allocateAndPrepareStatement.                                            *)
Prepare(o) == Call(o, "prepare")

(* openBlob, called by a row's blob function.                              *)
OpenBlob(o) == Call(o, "openBlob")

(* dropStatement, closeStatement.                                          *)
Free(o) == Call(o, "free")

CloseBlob(o) == Call(o, "closeBlob")

(* _executeBatchEncoded: create, messages, exec and release in one flush.  *)
Batch(o) == Call(o, "batch")

(* cancelOperation: op_cancel has no reply, but its write flushes.         *)
Cancel ==
    /\ link = "open"
    /\ Write(<<>>, FALSE)
    /\ UNCHANGED <<queue, pending, held, stream, link, detaching, ops>>

-----------------------------------------------------------------------------
(* The server answers in order; what it answers lazily leaves with the     *)
(* next reply that is flushed.                                             *)
LazyReply(p) == p.part \in {"deferred", "create", "message", "release", "allocate"}

ServerAnswers ==
    /\ sent # <<>> /\ link \in {"open", "detaching"}
    /\ sent' = Tail(sent)
    /\ IF LazyReply(Head(sent))
       THEN held' = Append(held, Head(sent)) /\ UNCHANGED stream
       ELSE stream' = stream \o held \o <<Head(sent)>> /\ held' = <<>>
    /\ UNCHANGED <<queue, pending, buffer, link, detaching, ops>>

-----------------------------------------------------------------------------
Silent(p) == p.part \in {"allocate", "deferred", "release"}
InBatch(p) == p.part \in {"create", "message", "exec"}

\* Mutant: a batch is complete when one packet is still to be answered.
CompletesEarly(p) == left[p.op] <= 2
Completes(p) == left[p.op] <= 1

(* The entry e is shifted off the queue with the reply r, or with an error.*)
Settle(e, r) ==
    IF e.op = "db" \/ Silent(e) THEN UNCHANGED <<calls, left, got>>
    ELSE /\ left' = [left EXCEPT ![e.op] = IF InBatch(e) THEN @ - 1 ELSE @]
         /\ IF InBatch(e) /\ ~Completes(e)
            THEN UNCHANGED <<calls, got>>
            ELSE Tell(e.op, r)

(* _pending.shift(), once for each entry: an entry of two replies shifts   *)
(* with the second.                                                        *)
ShiftPending(e) ==
    pending' = IF pending > 0 /\ e.part # "allocate" THEN pending - 1 ELSE pending

\* Mutant: _pending is looked at before the reply takes its name off.
DetachDueBefore == auto = "waiting" /\ pending = 0

(* After the data: an automatic detach() is due 100 ms after _pending ran  *)
(* empty.                                                                  *)
DetachDue == auto = "waiting" /\ pending' = 0

(* The reply to op_detach: disconnect(), 'detach', the callback.           *)
Detached(e) == e.part = "detach"

Data ==
    /\ stream # <<>> /\ queue # <<>>
    /\ stream' = Tail(stream) /\ queue' = Tail(queue)
    /\ ShiftPending(Head(queue))
    /\ Settle(Head(queue), Head(stream))
    /\ timer' = IF DetachDue THEN "armed" ELSE timer
    /\ detach' = IF Detached(Head(queue)) THEN "done" ELSE detach
    /\ UNCHANGED <<buffer, sent, held, link, pooled, auto, kind>>

-----------------------------------------------------------------------------
Owing(o) == \E i \in DOMAIN queue : queue[i].op = o /\ ~Silent(queue[i])

\* Mutant: the entries of the queue are dropped, not rejected.
RejectNobody == UNCHANGED <<calls, got, left>>

(* _rejectPending: every entry's callback gets the error; the entries of   *)
(* one batch settle it once.                                               *)
Reject ==
    /\ calls' = [o \in Op |-> IF Owing(o) THEN calls[o] + 1 ELSE calls[o]]
    /\ got' = [o \in Op |-> IF Owing(o) THEN [op |-> o, part |-> "closed"]
                            ELSE got[o]]
    /\ left' = [o \in Op |-> IF Owing(o) THEN 0 ELSE left[o]]

(* 'close': ignored once op_detach is sent.  Pooled connections stop here; *)
(* the reconnect timer of the others builds a new Connection.              *)
Lost ==
    /\ "loss" \in Faults /\ link \in {"open", "detaching"}
    /\ buffer' = <<>> /\ sent' = <<>> /\ held' = <<>> /\ stream' = <<>>
    /\ IF link = "detaching"
       THEN link' = "cut" /\ UNCHANGED <<queue, pending, ops>>
       ELSE /\ link' = "closed" /\ queue' = <<>> /\ pending' = 0
            /\ Reject /\ UNCHANGED kind
    /\ UNCHANGED detaching

-----------------------------------------------------------------------------
(* Database.detach(callback): waits while _pending is not empty; a pooled  *)
(* connection only tells its pool; otherwise op_detach is sent, or refused *)
(* by a closed connection, which completes it too.                         *)
DetachNow ==
    /\ pending = 0
    /\ IF pooled = "no" /\ link = "open"
       THEN /\ Write(<<[op |-> "db", part |-> "detach"]>>, FALSE)
            /\ queue' = Append(queue, [op |-> "db", part |-> "detach"])
            /\ link' = "detaching" /\ detach' = "asked"
       ELSE detach' = "done" /\ UNCHANGED <<queue, buffer, sent, link>>

Detach ==
    /\ detach = "no"
    /\ \/ DetachNow /\ UNCHANGED auto
       \/ /\ pending > 0
          /\ auto' = "waiting" /\ detach' = "asked"
          /\ UNCHANGED <<queue, buffer, sent, link>>
    /\ UNCHANGED <<pending, held, stream, pooled, timer, ops>>

(* The timer calls db.detach() again and then clears _detachAuto: when a   *)
(* new call made _pending grow in the meantime, nothing remembers that     *)
(* db.detach() waits.                                                      *)
DetachTimer ==
    /\ timer = "armed" /\ timer' = "off" /\ auto' = "off"
    /\ \/ DetachNow
       \/ pending > 0 /\ UNCHANGED <<queue, buffer, sent, link, detach>>
    /\ UNCHANGED <<pending, held, stream, pooled, ops>>

Next ==
    \/ \E o \in Op :
          \/ Execute(o) \/ Fetch(o) \/ Prepare(o) \/ OpenBlob(o)
          \/ Free(o) \/ CloseBlob(o) \/ Batch(o)
    \/ Cancel
    \/ ServerAnswers \/ Data \/ Lost
    \/ Detach \/ DetachTimer

Spec == Init /\ [][Next]_vars

(* The server answers what it was sent, the network delivers it, a timer   *)
(* that was armed fires.                                                   *)
FairSpec ==
    Spec /\ WF_vars(ServerAnswers) /\ WF_vars(Data) /\ WF_vars(DetachTimer)

-----------------------------------------------------------------------------
(* The types of the variables.                                             *)
TypeOK ==
    /\ queue \in Seq(Packet) /\ buffer \in Seq(Packet) /\ sent \in Seq(Packet)
    /\ held \in Seq(Packet) /\ stream \in Seq(Packet)
    /\ pending \in Nat
    /\ link \in {"open", "detaching", "closed", "cut"}
    /\ pooled \in {"yes", "no"}
    /\ auto \in {"off", "waiting"} /\ timer \in {"off", "armed"}
    /\ detach \in {"no", "asked", "done"}
    /\ kind \in [Op -> AllKinds \cup {"none"}]
    /\ calls \in [Op -> Nat] /\ left \in [Op -> Int]
    /\ got \in [Op -> Packet]

(* The queue is in step with the wire: its entries are, one for one and in *)
(* order, the replies that are still to come (connection.ts:629-636, what  *)
(* the placeholder of a deferred packet is for).                           *)
InStep ==
    link \in {"open", "detaching"} => queue = stream \o held \o sent \o buffer

(* No callback is given the reply to somebody else's request.              *)
OwnReply == \A o \in Op : got[o].op \in {o, "none"}

(* Every callback is called exactly once: not yet while the queue owes it  *)
(* a reply, and once otherwise, whether by a reply, at once, or by         *)
(* _rejectPending (connection.ts:265-270: no callback is left "to hang     *)
(* forever").                                                              *)
CalledBack ==
    \A o \in Op : kind[o] # "none" => calls[o] = IF Owing(o) THEN 0 ELSE 1

(* Every call is answered, unless op_detach was sent behind its back.      *)
EveryCallAnswered ==
    \A o \in Op : kind[o] # "none" ~> calls[o] > 0 \/ link \in {"detaching", "cut"}

(* What may keep db.detach() from completing: the connection is gone; a    *)
(* packet or a reply waits for somebody to flush it; the timer dropped it. *)
DetachExcused ==
    \/ link \in {"closed", "cut"}
    \/ buffer # <<>> \/ held # <<>>
    \/ auto = "off" /\ link = "open"

(* Otherwise a detach() that waits completes.                              *)
DetachSettles == detach = "asked" ~> detach = "done" \/ DetachExcused

-----------------------------------------------------------------------------
(* The abstract connection: calls answered in their order (module Rpc).    *)
Answers(e) == e.part \in {"reply", "prepare", "exec"}

phaseOf == [o \in Op |->
    IF kind[o] = "none" THEN "new"
    ELSE IF calls[o] = 0 THEN "waiting"
    ELSE IF got[o].part = "closed" THEN "failed" ELSE "answered"]

Others == {e \in Packet : ~Answers(e)}

lineOf ==
    LET waiting == Without(queue, Others)
    IN  [i \in DOMAIN waiting |-> waiting[i].op]

Calls == INSTANCE Rpc WITH phase <- phaseOf, line <- lineOf
RpcSpec == Calls!Spec
=============================================================================
