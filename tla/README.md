# TLA+ models of node-firebird

node-firebird is a Firebird client for Node.js: TypeScript, callbacks
underneath promises, one thread. What makes it hard is not parallelism but the
order of turns of the event loop: answers, timers, socket events and the calls
of the application meet objects that other turns have left half-way. The models
here are about that order.

Sources are quoted as `pool.ts:285`, meaning `src/src/pool.ts` line 285;
`README:n` is `src/README.md`.

## The system

| Component | Where | State it keeps | Operations |
| --- | --- | --- | --- |
| Connection pool | `pool.ts` | waiting requests, idle list, books, two counters, `_destroyed` | `get`, `check`, the attach callback and its timer, `detach`, the idle sweep, `destroy` |
| Pool cluster | `pool-cluster.ts` | nodes, online flags, failure counts, restore timers, round-robin counters | `add`, `remove`, `get` with failover, `restore`, `destroy` |
| Connection: request/response queue | `wire/connection.ts`, `wire/socket.ts` | `_queue`, `_pending`, the deferred buffer, `_isDetach`, `_isClosed`, `_detachAuto` | every protocol operation, `decodeResponse`, `_rejectPending`, `cancelOperation`, `detach` |
| Events | `wire/fbEventManager.ts`, `wire/eventConnection.ts` | counts by name, subscription flag and version, a second socket | `registerEvent`, `unregisterEvent`, the renewing loop, `close` |
| Batch stream | `wire/batch-stream.ts` | transaction, statement, buffered rows | `write`, `final`, `destroy` |
| Statement cache | `wire/connection.ts:221-262` | cached statements by SQL | take, release |
| Connecting, reconnecting | `wire/connection.ts:301-899`, `index.ts` | handshake, retry timer | `connect`, `attach`, `createDatabase`, `attachOrCreate` |
| Helpers | `wire/database.ts`, `wire/transaction.ts`, `wire/statement.ts`, `callback.ts` | transactions and statements of a call | `query`, `execute`, `sequentially`, `newStatement`, `withTransaction`, savepoints, abort signals |
| Rows and blobs | `wire/connection.ts:1696-2344`, `3774-4017`, `wire/query-stream.ts` | cursors, upload and download progress | fetch loops, pause and resume, blob reads and uploads |
| Codec | `wire/serialize.ts`, `wire/xsqlvar.ts` | read position | alignment, parameters, null bitmaps |
| Services | `wire/service.ts` | polling loop | backup, restore, statistics, users |
| Text and tables | `uri.ts`, `named-params.ts`, `sql-template.ts`, `utils.ts`, `messages.ts`, generated tables | none, but a small cache | parsing, formatting |
| Cryptography | `srp.ts`, `unix-crypt.ts`, ciphers in `wire/socket.ts` | keys | key exchange, stream ciphers |

How they interact: a cluster owns one pool per node and calls its `get` and
`destroy`. A pool calls `index.attach`, which builds a `Connection` and a
`Database`; the pool listens to the database's `detach` event and to nothing
else. A `Database` forwards to its `Connection`, which writes packets and pushes
an entry on `_queue` for each reply; the `data` event of the socket takes the
entries off and calls the callbacks. The helpers of `Database` and `Transaction`
are chains of such requests, one callback calling the next; several chains share
one connection, its response queue and its statement cache. The event manager
sends its requests over the same queue and receives notifications over a socket
of its own. Batch streams and query streams are clients of the helpers.

What is hard, by component, is in `PROJECT.json` under `hazards`, each at its
line. The properties of the models are aimed at these.

## Modules

| Module | Models | Extends or instantiates |
| --- | --- | --- |
| `Pool` | `pool.ts` | `SeqRemoval`; `Lease` as its abstract specification |
| `Lease` | what a pool promises: exclusive, bounded leases | |
| `SeqRemoval` | removing elements from a list, written without recursion so that it can be proved about | |
| `PoolCluster` | `pool-cluster.ts`; of its pools only their promises | `SeqRemoval` |
| `Wire` | the response queue, the deferred buffer, `Database.detach` | `SeqRemoval`; `Rpc` as its abstract specification |
| `Rpc` | what a connection promises: calls answered in order, once | |
| `Decode` | the `data` handler, `decodeResponse`, the reader and the column decoders | |
| `StatementCache` | the statement cache, and the statements out of it with their users | `SeqRemoval` |
| `Session` | the helpers of `Database` and `Transaction`, several calls on one connection | extends `StatementCache`, and implements its specification |
| `Parameters` | encoding of values and BLR, and how a server reads them | |
| `Execute` | `executeStatement` and `executeBatch` with their blob uploads | `Parameters`, `SeqRemoval` |
| `RowStream` | the rows of one query, from the cursor to array, callback or stream | |
| `Connect` | handshake, attach, compression and encryption, reconnect | |
| `FbEvents` | the event manager, its socket, the server's one-shot subscriptions | |
| `BatchStream` | the bulk-load stream on top of an in-order connection | |
| `MC...` | constants and symmetries of the runs | the module they are named for |
| `...Proofs` | theorems and lemmas; `PoolProofs` has those about `Lease`, `SessionProofs` those about `StatementCache`, `WireProofs` those about `FbEvents`, `BatchStreamProofs` those about `Execute` | the module they are named for |

How they compose. `Session` runs on the actions of `StatementCache` itself, and
run `session` checks that it implements `CacheSpec`. Above the connection, the
models rely on what `Wire` shows, one queue answered in order: `Session`,
`Execute`, `BatchStream` and `RowStream` have requests answered in the order they
were sent. `PoolCluster` relies on what `Pool` promises. `Decode` is below
`Wire`: it shows that the bytes are cut into the answers that `Wire` counts.

One action is one turn of the event loop, with everything the code does in it:
the handler, what it calls synchronously, the `check()` or the send at its end.
An `await`, a timer, `setImmediate` or a reply of the server ends an action.
Operators that begin with `\* Mutant:` are mistakes the code could contain; the
mutants in `PROJECT.json` put them in the place of the definition that follows
and the property named there fails.

### Pool

A caller is named by its request and a physical connection by the request it
was attached for, because `check()` starts one attach for one request.
`attach[r]` is the closure of an attach callback (`called`, `timedOut`);
`conn[c]` joins `_isClosed`, `_isDetach` and `_pooled`. `dbinuse` and
`_creating` are counters of their own, as in the code.

* `Get` is `get()` and the `check()` it runs; `RunCheck` one `setImmediate`.
* `AttachOk`, `AttachFail`, `AttachTimeout`, `AttachLate` and
  `AttachAfterDestroy` are the attach callback and its timer, by what they find
  (pool.ts:225-310). `AttachCallbackAgain` is the same callback called once more
  for a later socket error (connection.ts:367).
* `OnDetach` is the `detach` listener (pool.ts:277-300): retire or put back, then
  `check()`. `Detach` and `DetachAgain` are the calls of the application.
* `Reap` is the idle sweep, `Destroy` is `destroy()`, `DetachReply` the answer to
  `op_detach`. `ConnLost`, `Age` and `GoStale` are the environment.

Callers do what they do next in a later turn: pool.ts calls them after its own
assignments. A caller that detaches a connection while somebody else has it is
excluded (README:2110, "exactly once"). That `db.detach` may be deferred by
pending operations belongs to `Wire`.

### PoolCluster

A node object is `<<name, life>>`, because `remove` and a second `add` make a new
object while a `get` in flight keeps the old one. A pattern is the set of names
it matches. The answer of a pool is a turn of its own, even when the pool rejects
synchronously: the model has more interleavings than the code, never fewer.
`steady` and `firsts` are history: the nodes that matched a `get` and stayed
online, and the first picks of each pattern since its candidates changed.

### Wire

The Firebird protocol has no request numbers: the n-th reply belongs to the n-th
entry. `queue` is `_queue`; `buffer`, `sent`, `held` and `stream` follow a packet
from the socket's deferred buffer to the server, and its reply back, `held` being
the lazy replies the server may keep until a later one. The entry of an
allocate+prepare packet, answered twice (`lazy_count = 2`), is two slots. Each
kind of operation is one action (`Execute`, `Fetch`, `Prepare`, `OpenBlob`,
`Free`, `CloseBlob`, `Batch`) that differs in what it does to `_pending`, in
whether it asks `_isClosed`, and in its packets. `Data` is one reply taken off
the stream; a chunk with several is several of them. `Detach`, `DetachTimer` are
`Database.detach` and its 100 ms timer.

`DetachExcused` lists what may keep a waiting detach from completing: the
connection is lost; a deferred packet or a lazy reply waits for somebody to flush
it; the timer fired after a new call and cleared `_detachAuto`
(connection.ts:517-520). `DetachSettles` says there is no other reason.

### Decode

The stream is a sequence of words of four bytes; a segment ends anywhere, at a
word. `saved` is `_xdr`, `buffer` the reader's bytes in one turn of the loop, and
`queue` holds for each request what its entry keeps between attempts: an entry
whose response object is filled while decoding, and the `lazy_count` that is
counted down and put back. `Packet` is `decodeResponse`, one operator for each
opcode outside the handshake; a position of 0 is the RangeError that a read
behind the end throws. A packet is decoded from its start again when more has
come, so what a failed attempt changed is part of the model. Dummy packets,
events and inline blobs, which belong to no request, may stand before an answer.

### StatementCache and Session

The cache is the sequence of its statements, the oldest first, as the insertion
order of the `Map`. `Take`, `Prepare`, `Release` and `Drop` are
`takeCachedStatement`, a prepare that succeeds, `releaseStatement` and
`dropStatement`; `held` says who has which statement, `open` what the server keeps.

In `Session`, `call[c].at` is what the call of `c` awaits, and `line` who awaits
an answer, in the order of the requests. `Answer` takes the head of the line and
does everything its callback does up to the next request: `Begun`,
`PrepareAnswered`, `Executed`, `Fetched`, `Informed`, `Ended`, by what was asked.
`After` is the callback of `transaction.execute` and decides whether a helper
commits or rolls back. A savepoint is three statements whose texts are made from
the depth, as in transaction.ts:95-125. The server keeps, by transaction, the
list of changes and savepoints (`log`), `scopes` is what the client believes
of them, and `CommitsWhatResolved` compares the two when the call is over.
`Abort` is a fired AbortSignal, which may send `op_cancel`; `Cancelled` fails
whatever the server executes then, somebody else's request included.

### Parameters and Execute

Each value is prepared as `executeStatement` prepares it (a class and a BLR by the
value's type and the column's), encoded into words, and decoded again by the
server from the BLR alone (`Decoded`); a batch goes through `BatchEncode`, with
its `msglen` recomputed by the server (`ServerLength`). `Half`, `Day`, `WordBits`
are the code's 2^31, 86400000 and 32, made small in the runs.

`upload` is the closure of one blob upload: what a buffer reader still has to
send, whether the stream flows, is being read, has ended. `Step` goes on to the
next blob of a statement or to its `op_execute`; `SettleBlobs` counts down the
uploads of a batch, which all run at once. `StreamData` and `StreamEnd` are the
stream's events; everything else is the answer to the head of the queue. A chunk
above `blobChunkSize` pauses the stream while it is sent in slices, but that holds
back chunks only: when Node has seen the end of the source as the last chunk is
read, `end` comes in the next tick, between the answers to the slices.
`StreamEnd` may therefore come while the stream flows or while its last chunk is being
sent. In the first case it closes the blob (`EndsNow`), in the second the blob is
closed when the last slice is answered (`Resumes`), as in connection.ts:1778-1789.
A statement listens to streams; a batch takes one for an object and uploads its JSON
(connection.ts:2320).

### RowStream

`at` is what the row loop waits for. `Fetched` is one response with up to
`Batch` rows; `NextText` is `resolveTextBlobs`, `CellsRead` the blobs of a row
read before it is given; `Give` is `doSynchronousLoop` with the array, the row
callback (`CallbackNext`, and `CallbackAgain` for one that calls `next()` twice)
or the Readable (`Consume` is `read()`, `Destroy` the destroyed stream).

### Connect

`cnx` is the client's `Connection` and socket, `sv` the server's side, `toServer`
and `toClient` the packets on their way, each with what it went through (deflated
or not, which cipher). `Written` puts a packet into the compressor, and `Deflated`
is when it comes out and is encrypted with the cipher of that moment. `Accept`,
`ContinueAuth`, `CryptKeyCallback` and the `...Answered` actions are the packets of
the handshake as `decodeResponse` and the callbacks of `connect()` treat them;
`AttachRequest` and what follows are `attach`, `createDatabase`, `svcattach` and
`dropDatabase` as `index.ts` chains them. `drop` is told how `op_drop_database` went, not how the
detach behind it did (`ToldOfDrop`, connection.ts:1049-1055). `Lost` is the socket's `error` and
`close`, `Retry` the reconnect timer, which puts the fields of a new `Connection`
over those of the old one. The server is external: it asks for the logins
of its `path` one after the other, as the client's code and the mock server of
the tests expect.

### FbEvents

The server is external: it keeps an EPB (a count per name) for each subscription,
answers it once when a count differs, and `op_cancel_events` removes the oldest.
Main connection and event socket are two queues and nothing orders them.
`latest` stands for `_subscriptionVersion`: the call that raised it last.
`attachEvent`, the split of packets over chunks and `Bad eventid` are left out.

### BatchStream

`line` holds the requests the server has not answered, in order (`InStep` of
`Wire`). Releasing a statement is deferred and answered at once, so `cleanup()`
sends its commit or rollback in the turn it is called. Every request may fail.
The Writable is external: `write` and `final` one at a time, `destroy` once, at
any moment.

## Runs

| Run | Question | Bounds |
| --- | --- | --- |
| `pool_faults` | One holder, no leak, nothing dead handed out, never more than `max`, under every fault? | 3 callers, max 2, min 1, maxUses 2, connectTimeout, idle sweep, maxLifetime; lost connections, failing attaches, op_detach errors, repeated callbacks; 1 destroy |
| `pool_fair` | Does the pool implement `Lease`; is every `get` and every `destroy` answered? | 3 callers, max 2, min 1, 2 destroys, attaches may hang |
| `cluster` | Does failover try everybody, is rotation even, do offline nodes come back, is every `get` answered? | 2 names, 2 lives each, 2 gets, threshold 2, restore timers, 1 destroy |
| `wire_queue` | Do replies reach their requests; is everybody answered once; does the connection implement `Rpc`; does a waiting detach go on? | 3 calls of any of 7 kinds, 1 message per batch, a lost socket, a detach |
| `decode` | Wherever the stream is cut, is every request given its own answer, and nothing left over? | 12 kinds of answer, then one more, with 5 kinds of packet for nobody between; both row formats; rows of 5 columns, the bitmap in three words |
| `session` | Is a statement in one place; are transactions ended and statements given back on every path; is what was promised what is committed; is everybody answered? | 2 callers of the 4 helpers, 2 handles, a cache of 1, 1 savepoint, 2 statements per transaction, an abort signal; any request failing, a lost connection |
| `execute` | Does the server run what was given, once? | 2 calls at a time from 20 pairs: every column type, values at the edges, nulls on both sides of a bitmap word, blobs of 0 to 3 slices from buffers and streams, a stream that ends during its last chunk; refusals |
| `execute_twice` | finding: a statement with a short stream runs twice | 1 stream of one chunk, 1 other call |
| `row_stream` | Every row once and in order; the buffer bounded; every stream over in the end? | 5 rows in responses of 2, high-water mark 2, 2 blob columns of up to 2 segments, three consumers |
| `connect` | Do both sides compress and encrypt alike; does the right login succeed; is every attach answered; does a lost database come back? | 5 modes, 6 paths of logins, 2 ciphers, with and without compression, encryption refused or insisted on, old and new protocols, missing databases, databases in use that cannot be dropped; 2 losses in any phase |
| `events` | Is every post noticed, is an active subscription known, is everybody answered? | 1 name, 3 changes, 2 counts, 1 refusal, a lost socket, one `close` |
| `batch_stream` | All or nothing; nothing lost; no transaction left open; every stream ends? | 5 rows, chunks of 2; every request may fail; `destroy` at any time |

Why the bounds are enough. The pool's hard cases need a request that waits while
others hold every slot (callers > max), a slot freed by each of the ways a slot
can be freed, and a connection that is used again after it was given back
(maxUses 2). A response queue goes wrong when an entry of one call stands between
two of another, for which three calls are enough (two are not: the deferred
packet, its overtaker and the one that flushes both). In a batch every message is
treated alike, so one message is the general case. Failover and rotation need two
nodes, a removed and re-added one needs two lives. Decoding keeps nothing between
answers but the bytes left over and what an entry keeps, so one answer
of each kind and one more behind it show both. Two callers with one text between
them and a cache of one meet at the cache in every way (taken, given back while
the text is cached, evicted). Savepoints are named by their depth: at depth
one a name is used again, and its server-side meaning does not depend on more. An upload
of three slices has a first, a middle and a last. Five rows in responses of two
have a full response, one that follows it and a short last one, and fill a buffer
of two. The handshake is enumerated, not sampled. An event name is treated
independently of the others in every rule except the test for an empty set, so
one name, with three changes that overlap pairwise, has the races; the server's
count is at one already, as in a database that was used before. A batch stream
needs one full chunk, one in flight and a rest.

`CHECK_DEADLOCK FALSE` everywhere: the callers, posts and rows of a run are
finite, and a system whose callers have all been served does stop.

## Fairness

* `Pool`: `setImmediate` callbacks and timers run; callers give back what they
  were given; `op_detach` is answered; an attach settles, or, with
  `connectTimeout`, only the timer is relied on. No fairness for lost connections,
  for `get` or `destroy`, or for the sweep.
* `PoolCluster`: a pool answers each `get` and each `destroy` (what
  `EveryGetAnswered` and `DestroyReplied` of `Pool` are about), restore timers fire.
* `Wire`: the server answers what it has been sent, the network delivers what
  it has been given, an armed timer fires. Nothing makes the server flush a lazy
  reply and nothing makes a call happen.
* `Decode`: every word of the answers arrives.
* `Session`: the server answers, a closed connection refuses, and the work of a
  transaction ends; nothing makes a caller call, or give back the statement of
  `newStatement`.
* `Execute`: the server answers, and a stream that is read goes on to its end.
* `RowStream`: every request is answered, every row callback calls `next()`, and
  the consumer of a stream takes what is buffered.
* `Connect`: sockets connect and carry packets, both sides read, the retry timer
  fires. A reconnection's socket is not refused (see the known defects).
* `FbEvents`: both connections deliver, the server handles requests and fires due
  subscriptions, the safety timer of `close()` fires. A server need not close
  its end of the event socket.
* `BatchStream`: the server answers; Node calls `final()` after the last write.

## Theorems

TLC checks small instances; these hold for any number of callers or calls and
any options, from the named assumptions on the constants only, and
`ConnectLayersAgree` and `ExecuteRunsOnce` from one hypothesis more each.

* `PoolTypeOK`: the type invariant is inductive by itself once `check()` is shown
  to keep types (`CheckTypes`): every other handler ends in `check()`.
* `PoolSingleHolder`, `PoolNoLeak`: neither is inductive. That two callers never
  hold one connection depends on the idle list being free of held connections,
  on both lists being free of repetitions, and on each attach closure delivering
  at most one new connection. `HolderInv` is the conjunction: `Unique` (no list
  repeats an element, idle connections are on the books), `HeldApart` (held
  connections are on the books, not idle, not retired, and held once), `Tracked`
  (idle connections are not retired, usable ones are on the books) and
  `OneAttach` (a request with no finished attach has no connection on the books).
  It is stated for given lists rather than for the variables, because `check()`
  runs on lists that the handler before it has already changed (`CheckFacts`).
  Repeated attach callbacks are allowed throughout. `SeqRemovalProofs` has the
  facts on removing an element from a list.
* `PoolWithinBounds`: `check()` does not count
  connections, it adds `dbinuse` and `_creating`, and attaches only when the idle
  list is empty. So the invariant is that both counters are true (`Counted`:
  `_creating` is the number of attaches in flight, `dbinuse` the length of the books
  less the idle list, until `destroy()`), while no request was answered twice;
  `Told` (a finished attach has answered) shows that a repeated attach callback
  answers twice, and `Worn` that an idle connection has a use left.
* `PoolImplementsLease`: every step is a step of `Lease`, for every fault except a
  repeated attach callback. To the invariants above it adds `Fresh`: whoever waits or
  is being served has neither connection nor answer, whoever released had one, and
  nobody is answered twice. Handlers are first reduced to what callers see of them
  (`GoesOn`, `Asks`, `Settles`, `Closes`), so that the refinement has four cases.
* `ClusterTypeOK`, `ClusterEvenSpread`, `ClusterFailsOnlyAfterAll`: the parts of
  `ClusterInv`. `Closes`: the counter of `destroy()` is the number of pools it has
  not heard from, so it calls back once. `Spread`: that no node is two picks ahead is
  not inductive, it says nothing of who comes next. What is, is that since the
  candidates changed, the first picks have gone round them q times, and once
  more from some z to where the counter stands; the counter is never reset, so
  z need not be its start. `Seeks`: a call in flight keeps its pattern, and every node
  that was there throughout matches it, so that a call without candidates has
  tried those nodes. The candidates are a list with the unfit taken out
  (`Without`), whose order and membership the lemmas of `SeqRemovalProofs` give.
* `WireTypeOK`.
* `WireInStep`, `WireOwnReply`: the inductive invariant is `Lockstep`: the queue
  equals the concatenation of what is on its way, as long as the socket is
  there, and every callback so far was given its own reply. Each step extends
  both sides by the same packets at the end, or takes the same one off the
  front, or moves packets between adjacent parts of the wire. Concatenation is
  handled through the opaque operator `Cat`, whose associativity is proved once.
* `WireCalledBack`: an account for each call (`Balanced`). Of the entries on the
  queue, those that settle something for a call are `owes(o)`: the queue with all
  the others taken out. The account says that the callback has been called exactly
  when nothing is owed any more, that the answer is the last of what is owed, and that only
  the packets of a batch come before it, as many as its counter says. Sending
  opens an account, `Data` takes the head off the one it belongs to, a lost
  socket settles all of them.
* `WireImplementsRpc`: with `Lockstep` and `Balanced`, every step of the connection
  is a step of `Rpc` (a call made, or settled at once; the oldest answered;
  everything failed) or none.
  The calls waiting in `Rpc` are the answers on the queue; a packet of a
  batch, a deferred packet and `op_detach` change nothing there.
* `RowStreamInOrder`, `RowStreamBackpressure`: a row is in one of two places, given
  or in the response, and each of them goes on where the one before it ends
  (`RowInv`). The row loop only goes on where there is room in the buffer for the
  row that it gives next, and waits when that row fills it (`BufferInv`).
* `BatchTypeOK`, `BatchAllOrNothing`: nothing in a state with a commit on its way
  says that the commit is complete, so the invariant `BatchInv` follows the rows.
  With a transaction of its own, a stream (`Owned`) has one flush request on the
  line at most, and behind it one commit or rollback at most (`LineShape`); what is
  prepared, begun and ended fits what it waits for (`Progress`); unless a request
  failed, the rows written are those inserted, then those being sent, then those
  buffered (`NoRowLost`); and a commit is sent once, when all of them are inserted
  (`CommitIsComplete`). In the caller's transaction (`Borrowed`) nothing but flush
  requests is ever on the line.
* `BatchFinishKeepsAll`, `BatchNothingLeftOpen`: `ServerInv` adds to that what the
  server has: a transaction begins once, and while it is open somebody will ask for
  its end - the request is on the line, or the stream has still to come to
  `cleanup()`; `finish` comes after the answer to the commit. For the caller's
  transaction, which has no end, `Lent` says the same of the flush requests alone.
* `CacheTypes`, `CacheInOnePlace`, `CacheStaysBounded`: the three together are
  inductive (`CacheInv`). That a statement is in one place is split into what
  concerns the sequence (it has no repetition) and what concerns the places as
  sets (`Places`), so that each action moves one statement between sets and the
  sequence lemmas say what is left of the cache.
* `SessionImplementsCache`: every step of the session is a step of the statement
  cache or leaves it alone. It needs `CacheInv` (what is taken is a statement, what
  is held may be given back) and that the line is in order, `LineInv`: whoever
  stands in it stands there once and awaits an answer, and nobody does after the
  connection is closed. `SessionInOnePlace` follows.
* `SessionNothingLeftOpen`: `CallsInv` says, for each point where a call can be
  (`at`), what it has of the cache (`Has`) and of its transaction (`Left`). A step
  of a call moves it from one point to the next with what belongs to it there.
* `SessionCommitsWhatResolved`: the server has a log of changes and savepoints, the
  client a stack of scopes. They need not look alike: a released savepoint stays in
  the log, and the changes of a scope that was left are one with those of the scope
  around it. `Agree` says what they have in common: the savepoints of the client's
  depth are in the log, in order, and a change was made before the savepoint of a
  depth exactly when it belongs to a scope below it. A rollback to a savepoint
  cuts both in the same place. While a call is to roll back, nothing needs
  to agree. The application's own texts set no savepoints (`SessionAssumption`): with
  savepoints of the same names it could undo what the helper believes is there.
* `ConnectLayersAgree`: each side switches compression and encryption on by itself,
  at a moment of its own. That each reads what the other wrote rests on the handshake
  being a conversation, `ConnectInv`: one packet is in the air, in the compressor
  (`Zipping`), on its way to the server (`Upward`) or to the client (`Downward`);
  or two, when the server sends its own proof before an answer (`DownwardTwo`); or
  none (`Quiet`). Which packet it is says how the layers of the sides differ
  meanwhile (`LayerAfter`: an accept that grants compression, the answer to
  `op_crypt`); in all other states they are equal. `Zips` says that compression
  is on only where both sides want it. The theorem is for any path of logins and any
  number of losses, under the hypothesis `CompressionFits`: compression is not asked
  for with Arc4, nor on a server whose first plugin is not the client's. In both
  cases the client is wrong and the property false (see the known defects); every case
  of run `connect` satisfies the hypothesis (`CasesFit` in `MCConnect`).
* `ConnectLoginSucceeds`: a login is decided by what one side has noted of it when the
  other speaks, so the invariant `LoginInv` is about the packet in the air. For each
  request that the client waits on, `Says` and `Hears` tell what the packet to the
  server or to the client carries (a plugin of the server's path and its proof, a
  refusal, a key to encrypt with) and what the pending accept, the accepted
  login and the server's place in its path are meanwhile. `Login` ties them to the
  state of the socket: nobody has been told while there is a packet, and whoever was
  told was told what is true. It holds until the first connection is lost
  (`First`), which is what the property is about. Nothing here depends on the
  layers, so the theorem needs no hypothesis. `MayLogIn` names those who can log in:
  where encryption is required, not an old protocol, a path of legacy logins, or an
  application that turned `wireCrypt` off, for they have no key; and not a service on
  a server that wants the login with the attach, to which `svcattach` sends the
  password alone (connection.ts:2347-2378). For a drop, `cnx.detach` keeps what the
  server said of it until the detach is answered, and agrees with whether the database
  is gone: a drop is told `ok` only of a database that no longer exists.
* `EventsKnownActive` (at the end of `WireProofs`): `KnownActive` says nothing while the
  server keeps no subscription, and then one that is on its way would count for
  nothing. The invariant `Subscribed` does not look at the server: what is registered is
  subscribed to, and neither a request nor a reply on the main connection is that
  of `close()` or a refusal. So an answer to a cancel always ends in a new `subscribe`
  of what is registered by then.
* `ExecuteRunsOnce` (at the end of `BatchStreamProofs`): `RunOnce` looks at what was told
  and run, and it is the requests on their way that decide it. `ExecuteInv` follows
  them. Each upload goes on in one way (`UploadInv`): its stream flows, or one request
  of it is to be answered (`Turn`); a chunk that was sent in one piece has more of
  the stream behind it; and of a stream that has ended, only slices of the chunk it
  was paused for, or the close, are on their way. So `end` and the answer to the last
  slice, in either order, close the blob once between them: without the test of
  `isReading` in `end` TLC finds the statement run twice, and without that of `isEnd`
  behind the last slice a call that is never answered (the mutants of run `execute`). A statement has one upload that goes on, or its execution
  in the queue, or was told (`StatementInv`). A batch (`BatchCallInv`) counts down the
  uploads that go on (`Uploading`), then its packets, which stand in the queue one
  after the other with nothing of other calls between (`Sending`: `left` of them up to
  the one that runs it, and the batch is open on the server exactly when nothing
  failed), then has been told (`Over`). The hypothesis is `ClosesOnce`: no stream ends
  with a chunk that is sent in one piece, for those close their blob twice (run
  `execute_twice`, below); and the server does not refuse a single packet of rows,
  after which it would still run the rest of a batch whose callback is told of the
  error. Run `execute` satisfies it (`PlansFit` in `MCExecute`).

Only model-checked: `DecodedInOrder`, `SentAsGiven` of `Execute`, and every liveness
property, the prover having no fairness and no ENABLED. What the recursive definitions
of `Decode` and `Parameters` compute for every input would need induction over data,
which the installed provers cannot do: `DecodedInOrder` and `SentAsGiven` stay with TLC.

## Findings

`execute_twice` ends in a counterexample to what the repository says of itself:
when the last chunk of a blob parameter's stream is not above `blobChunkSize`,
`end` closes the blob while the chunk is on its way, and the answer to the chunk
closes it again (connection.ts:1791); each closure goes on to the execution, so
the statement runs twice and its callback is called twice. The comment at
connection.ts:1789-1790 describes one closure.

Known defects. Seen while modelling; the property of a passing run that is near
says in its definition what it excepts, or the run leaves the case out.

Pool and cluster:

* A failed attach frees its slot (pool.ts:303) and does not run `check()`: a
  waiting request stays beside a free slot. `pool_fair` has no failing attaches.
* The attach callback is called again for a later loss of the same connection
  (connection.ts:367): `_creating` is counted down twice. `WithinBounds` holds as
  long as no callback came twice.
* A connection given back after `destroy()` goes to the idle list (pool.ts:290)
  and is never closed.
* `noteFailure` looks a node up by its name (pool-cluster.ts:196): for a node that
  was removed and added again, the old object goes offline and arms a timer.

Connection and detach:

* `db.detach()` waits for `_pending` to empty; a deferred packet counts there and
  nothing flushes it on an idle connection (database.ts:179): `DetachExcused`.
* A socket lost after `op_detach` was sent never calls detach's callback.
* `executeStatement` pushes its name on `_pending` before its uploads and takes
  the last one off when encoding throws (connection.ts:1701, 1956): replies to the
  uploads shift it away, so an automatic detach may go out between them, and
  another call may lose its name.
* A fetch answer that is cut repeats its `row` events, and an error answer that is
  cut its status entries: `DecodedInOrder` compares errors by their first code.

Executing and reading:

* `putBlobData` drops the error of a segment, of the close, and (throwing) of the
  create (connection.ts:1735): a statement goes on with a truncated blob. `execute`
  has refusals of uploads for batches only.
* A null for an INT128 or DECFLOAT parameter throws in the encoder; so does a
  negative bigint (`Throws`). In a batch a negative INT128, or a number out of
  the 32 bits of its column, refuses all rows (`EncoderThrows`). `SQL_NULL` in a
  batch is counted as a varying value and described as text.
* A statement that names one parameter twice gets the value of an object in the last
  place only, and NULL in the others (connection.ts:1926-1931); `SentAsGiven` compares
  with that (`Mapped`).
* A stream among the values of a batch is uploaded as its JSON (connection.ts:2320).
  No plan has one.
* A blob that cannot be opened leaves the transaction that was started for its read.

Helpers:

* `db.newStatement` whose prepare fails leaves its transaction (database.ts:226-229);
  a commit that fails in `newStatement`, `execute` or `executeBatch` is not rolled
  back. `NothingLeftOpen` excepts both.
* A batch stream commits after `destroy()` (batch-stream.ts:102); one that is
  destroyed before its `begin` is answered leaves the transaction (`excuse`).
* `close()` of the event manager while a change waits for its cancel leaves a
  subscription at the server (fbEventManager.ts:325): `KnownActive` is about
  managers that are not being closed.

Connecting:

* Errors that only reach the decoder's own callback (an unknown plugin, an
  `op_cont_auth` it does not understand, connection.ts:3148) leave the caller waiting.
  So does a second demand for Legacy_Auth while one is pending: it is taken for
  an SRP challenge (connection.ts:3020).
* `compress` in an accept packet without data is forgotten (connection.ts:2903);
  with compression and Arc4, `op_crypt` itself is encrypted (connection.ts:759,
  against the comment at 753); a server that lists no keys is asked for Arc4.
* A reconnection whose socket is refused is never retried (connection.ts:340-362),
  and the queries after it hang. A reconnected database keeps statements and
  transactions of the lost attachment. A caller whose connection was lost during
  the handshake is told twice, and a connection that was lost while attaching is
  attached again behind its back. A failed attach leaves its socket open.
* `attachOrCreate` creates, overwriting, after any error of the attach, not only
  after "no such database".

## Not modelled, and why

* `Services`: thirty operations that write their bytes into one request each and
  read lines one request at a time. Every request is one of `Wire`'s, no state
  outlives an operation, and the attachment is in `Connect`.
* SRP, `unix-crypt`, the stream ciphers and decimal arithmetic compute on integers
  of a thousand bits or on digits; `Connect` and `Parameters` take a proof, a key,
  a cipher and a decimal as one value each.
* Connection strings, SQL templates and messages format text, character by
  character, without state. What named parameters do to the values is in
  `Execute` (`Mapped`).
* Tables of constants and generated codes have no behaviour.
* Within the modelled parts: character sets, time zones, `describe()` and the
  conversion of words into JavaScript values; `attachEvent`'s set-up;
  `_pending` during uploads (the two halves are in `Wire` and `Execute`).
* Tests and the mock server are used as statements of what the program should do
  and of what a server does.

## Plan

Done: the pool, the response queue, the cluster, events and the batch stream; then
the helpers with the statement cache, rows and blobs, the decoder, execution with
its uploads, and connecting.

Next, most important first:

1. `Wire` and `Execute` composed, for `_pending` during uploads.
2. Two blobs of different calls read while a third call fetches (`RowStream` on
   the queue of `Wire`).
