-------------------------------- MODULE Pool --------------------------------
(***************************************************************************)
(* The connection pool, class Pool of src/src/pool.ts.                     *)
(*                                                                         *)
(* A caller is named by its get() request.  check() starts at most one     *)
(* attach() per request, so the physical connection that attach() yields   *)
(* is named by the request it was started for.                             *)
(*                                                                         *)
(* JavaScript runs one turn of the event loop to its end, so one action    *)
(* is one turn: a call of get(), detach() or destroy() together with the   *)
(* check() it runs, a timer, an attach() answer, one setImmediate.         *)
(* Callbacks of callers are not re-entered within a turn: pool.ts calls    *)
(* them after its own bookkeeping, so what they do next is a next action.  *)
(***************************************************************************)
EXTENDS Integers, Sequences, FiniteSets, SeqRemoval

CONSTANTS
    Req,         \* the get() requests, and the connections made for them
    NoConn,      \* what a request holds before it is given a connection
    Destroyers,  \* the calls of destroy()
    MaxSize,     \* max
    MinSize,     \* min
    MaxUses,     \* maxUses, 0 for no limit
    Options,     \* which timed options of the pool are set
    Faults       \* what the network and the server may do wrong

ASSUME PoolAssumption ==
    /\ IsFiniteSet(Req)
    /\ NoConn \notin Req
    /\ MaxSize \in Nat \ {0}
    /\ MinSize \in 0..MaxSize
    /\ MaxUses \in Nat
    /\ Options \subseteq {"connectTimeout", "idleTimeout", "maxLifetime"}
    /\ Faults \subseteq {"loss", "attach_error", "detach_error",
                         "repeated_callback"}

(* A connection is told apart from the other states of a lease.            *)
ASSUME LeaseAssumption ==
    Req \cap {"new", "waiting", "refused", "released"} = {}

VARIABLES
    pending,     \* requests waiting for a slot
    pooldb,      \* idle connections, oldest first
    internaldb,  \* connections the pool has on its books
    dbinuse,     \* the counter of connections handed out
    creating,    \* the counter _creating of attaches in flight
    destroyed,   \* _destroyed
    checks,      \* setImmediate callbacks that will run check()
    attach,      \* the closure of each attach() call
    conn,        \* the state of each physical connection
    useCount,    \* __poolUseCount
    aged,        \* connections older than maxLifetimeMillis
    stale,       \* connections idle for idleTimeoutMillis or longer
    asked,       \* requests made
    got,         \* the connection each request was given
    released,    \* requests whose caller called detach()
    answers,     \* how often each get() callback was called
    remaining,   \* connectionCount of each destroy() call
    replies,     \* how often each destroy() callback was called, -1 before
    closes       \* the connections each destroy() call waits to see closed

poolVars == <<pending, pooldb, internaldb, dbinuse, creating, checks>>
callVars == <<asked, got, released, answers>>
connVars == <<attach, conn, useCount, aged, stale>>
destroyVars == <<destroyed, remaining, replies, closes>>
vars == <<poolVars, callVars, connVars, destroyVars>>

(***************************************************************************)
(* attach: no attach() yet; in flight; in flight after its timer fired;    *)
(* answered with a connection; answered with an error; nothing more of it  *)
(* can reach the pool.                                                     *)
(* conn: no connection; usable; closed by the peer (_isClosed); op_detach  *)
(* sent (_isDetach, _pooled = false); disconnected by the client.          *)
(***************************************************************************)
AttachState == {"none", "flight", "late", "ok", "failed", "ended"}
ConnState == {"none", "open", "lost", "closing", "gone"}

Init ==
    /\ pending = <<>> /\ pooldb = <<>> /\ internaldb = <<>>
    /\ dbinuse = 0 /\ creating = 0 /\ checks = 0
    /\ attach = [r \in Req |-> "none"]
    /\ conn = [r \in Req |-> "none"]
    /\ useCount = [r \in Req |-> 0]
    /\ aged = {} /\ stale = {}
    /\ asked = {} /\ released = {}
    /\ got = [r \in Req |-> NoConn]
    /\ answers = [r \in Req |-> 0]
    /\ destroyed = FALSE
    /\ remaining = [d \in Destroyers |-> 0]
    /\ replies = [d \in Destroyers |-> -1]
    /\ closes = [d \in Destroyers |-> {}]

-----------------------------------------------------------------------------
Dead(c) == conn[c] # "open"

Expired(c) == (MaxUses > 0 /\ useCount[c] >= MaxUses) \/ c \in aged
Pooled(c) == conn[c] \in {"open", "lost"}   \* _pooled is not false

Answer(r) == answers' = [answers EXCEPT ![r] = @ + 1]

(***************************************************************************)
(* check() on a pool whose fields have these values.  It serves the oldest *)
(* request from the idle connections, oldest first, or starts an attach();  *)
(* it schedules itself again whenever it did something.                    *)
(***************************************************************************)
\* Mutant: the bound is off by one.
MayServeOneMore(waiting, inuse) ==
    ~destroyed /\ inuse + creating <= MaxSize /\ waiting # <<>>

MayServe(waiting, inuse) ==
    ~destroyed /\ inuse + creating < MaxSize /\ waiting # <<>>

CheckNothing(waiting, idle, all, inuse, due) ==
    /\ ~MayServe(waiting, inuse)
    /\ pending' = waiting /\ pooldb' = idle /\ internaldb' = all
    /\ dbinuse' = inuse /\ checks' = due
    /\ UNCHANGED <<creating, attach, useCount, got, answers>>

CheckDiscards(waiting, idle, all, inuse, due) ==
    /\ MayServe(waiting, inuse)
    /\ idle # <<>> /\ Dead(Head(idle))
    /\ pooldb' = Tail(idle)
    /\ internaldb' = Without(all, {Head(idle)})
    /\ pending' = waiting
    /\ dbinuse' = inuse /\ checks' = due + 1
    /\ UNCHANGED <<creating, attach, useCount, got, answers>>

CheckHandsOut(waiting, idle, all, inuse, due) ==
    /\ MayServe(waiting, inuse)
    /\ idle # <<>> /\ ~Dead(Head(idle))
    /\ pooldb' = Tail(idle) /\ internaldb' = all
    /\ pending' = Tail(waiting)
    /\ dbinuse' = inuse + 1 /\ checks' = due + 1
    /\ useCount' = [useCount EXCEPT ![Head(idle)] = @ + 1]
    /\ got' = [got EXCEPT ![Head(waiting)] = Head(idle)]
    /\ Answer(Head(waiting))
    /\ UNCHANGED <<creating, attach>>

CheckAttaches(waiting, idle, all, inuse, due) ==
    /\ MayServe(waiting, inuse)
    /\ idle = <<>>
    /\ pooldb' = idle /\ internaldb' = all
    /\ pending' = Tail(waiting)
    /\ creating' = creating + 1
    /\ attach' = [attach EXCEPT ![Head(waiting)] = "flight"]
    /\ dbinuse' = inuse /\ checks' = due + 1
    /\ UNCHANGED <<useCount, got, answers>>

Check(waiting, idle, all, inuse, due) ==
    \/ CheckNothing(waiting, idle, all, inuse, due)
    \/ CheckDiscards(waiting, idle, all, inuse, due)
    \/ CheckHandsOut(waiting, idle, all, inuse, due)
    \/ CheckAttaches(waiting, idle, all, inuse, due)

(* A check() that setImmediate scheduled.                                  *)
RunCheck ==
    /\ checks > 0
    /\ Check(pending, pooldb, internaldb, dbinuse, checks - 1)
    /\ UNCHANGED <<conn, aged, stale, asked, released, destroyVars>>

-----------------------------------------------------------------------------
(* pool.get(callback)                                                      *)
GetRefused(r) ==
    /\ destroyed
    /\ Answer(r)
    /\ UNCHANGED <<poolVars, attach, useCount, got>>

Get(r) ==
    /\ r \notin asked
    /\ asked' = asked \cup {r}
    /\ \/ GetRefused(r)
       \/ /\ ~destroyed
          /\ Check(Append(pending, r), pooldb, internaldb, dbinuse, checks)
    /\ UNCHANGED <<conn, aged, stale, released, destroyVars>>

-----------------------------------------------------------------------------
(* The answers of attach(), and its timer.                                 *)

GiveUpOn(r) == attach' = [attach EXCEPT ![r] = "late"]

CheckSoon == checks' = checks + 1

(* The connectTimeout timer: the slot is freed, the caller told, and a     *)
(* connection that still arrives will be discarded.                        *)
AttachTimeout(r) ==
    /\ "connectTimeout" \in Options
    /\ attach[r] = "flight"
    /\ GiveUpOn(r)
    /\ creating' = creating - 1
    /\ Answer(r)
    /\ CheckSoon
    /\ UNCHANGED <<pending, pooldb, internaldb, dbinuse, conn, useCount, aged,
                   stale, asked, got, released, destroyVars>>

\* Mutant: a connection that arrives late is left open.
DiscardNothing(r) == conn' = [conn EXCEPT ![r] = "open"]

(* A connection nobody wants any more gets a real op_detach.               *)
Discard(r) == conn' = [conn EXCEPT ![r] = "closing"]

AttachLate(r) ==
    /\ attach[r] = "late"
    /\ attach' = [attach EXCEPT ![r] = "ended"]
    /\ Discard(r)
    /\ UNCHANGED <<poolVars, useCount, aged, stale, callVars, destroyVars>>

AttachAfterDestroy(r) ==
    /\ attach[r] = "flight" /\ destroyed
    /\ attach' = [attach EXCEPT ![r] = "ok"]
    /\ creating' = creating - 1
    /\ Discard(r)
    /\ Answer(r)
    /\ UNCHANGED <<pending, pooldb, internaldb, dbinuse, checks, useCount,
                   aged, stale, asked, got, released, destroyVars>>

\* Mutant: destroy() is not looked at when attach() answers.
WantedAlways(r) == attach[r] = "flight"
Wanted(r) == attach[r] = "flight" /\ ~destroyed

AttachOk(r) ==
    /\ Wanted(r)
    /\ attach' = [attach EXCEPT ![r] = "ok"]
    /\ creating' = creating - 1
    /\ dbinuse' = dbinuse + 1
    /\ conn' = [conn EXCEPT ![r] = "open"]
    /\ useCount' = [useCount EXCEPT ![r] = 1]
    /\ internaldb' = Append(internaldb, r)
    /\ got' = [got EXCEPT ![r] = r]
    /\ Answer(r)
    /\ UNCHANGED <<pending, pooldb, checks, aged, stale, asked, released,
                   destroyVars>>

(* attach() answers with an error: nothing here runs check() again.        *)
AttachFail(r) ==
    /\ "attach_error" \in Faults
    /\ attach[r] \in {"flight", "late"}
    /\ IF attach[r] = "late"
       THEN /\ attach' = [attach EXCEPT ![r] = "ended"]
            /\ UNCHANGED <<creating, answers>>
       ELSE /\ attach' = [attach EXCEPT ![r] = "failed"]
            /\ creating' = creating - 1
            /\ Answer(r)
    /\ UNCHANGED <<pending, pooldb, internaldb, dbinuse, checks, conn,
                   useCount, aged, stale, asked, got, released, destroyVars>>

(***************************************************************************)
(* The callback of attach() is also the error callback of the socket: an   *)
(* 'error' event after a successful attach, or the 'close' that follows a  *)
(* failed handshake, calls it once more, and the closure of check() runs   *)
(* its body a second time.                                                 *)
(***************************************************************************)
AttachCallbackAgain(r) ==
    /\ "repeated_callback" \in Faults
    /\ \/ attach[r] = "failed" /\ UNCHANGED conn
       \/ /\ attach[r] = "ok" /\ conn[r] \in {"open", "closing"}
          /\ conn' = [conn EXCEPT ![r] = IF @ = "open" THEN "lost" ELSE "gone"]
    /\ attach' = [attach EXCEPT ![r] = "ended"]
    /\ creating' = creating - 1
    /\ Answer(r)
    /\ UNCHANGED <<pending, pooldb, internaldb, dbinuse, checks, useCount,
                   aged, stale, asked, got, released, destroyVars>>

-----------------------------------------------------------------------------
(* The pool's listener of the 'detach' event of connection c.              *)
\* Mutant: a second detach() of an idle connection is not noticed.
ListedEvenIdle(c) == c \in ToSet(internaldb)
Listed(c) == c \notin ToSet(pooldb) /\ c \in ToSet(internaldb)

DetachIgnored(c) ==
    /\ ~Listed(c)
    /\ UNCHANGED <<poolVars, attach, useCount, stale, got, answers>>

DetachBroken(c) ==
    /\ Listed(c) /\ Dead(c)
    /\ UNCHANGED stale
    /\ Check(pending, pooldb, Without(internaldb, {c}), dbinuse - 1, checks)

DetachExpired(c) ==
    /\ Listed(c) /\ ~Dead(c) /\ Expired(c)
    /\ UNCHANGED stale
    /\ Check(pending, pooldb, Without(internaldb, {c}), dbinuse - 1, checks)

\* Mutant: returns before check().
DetachToIdleQuietly(c) ==
    /\ Listed(c) /\ ~Dead(c) /\ ~Expired(c)
    /\ pooldb' = Append(pooldb, c) /\ dbinuse' = dbinuse - 1
    /\ UNCHANGED <<pending, internaldb, creating, checks, attach, useCount,
                   stale, got, answers>>

DetachToIdle(c) ==
    /\ Listed(c) /\ ~Dead(c) /\ ~Expired(c)
    /\ stale' = stale \ {c}
    /\ Check(pending, Append(pooldb, c), internaldb, dbinuse - 1, checks)

OnDetach(c) ==
    \/ (DetachIgnored(c) \/ DetachBroken(c) \/ DetachToIdle(c)) /\ UNCHANGED conn
    \/ DetachExpired(c) /\ conn' = [conn EXCEPT ![c] = "closing"]

(* The caller of request r calls db.detach() on its pooled connection.     *)
Detach(r) ==
    /\ got[r] # NoConn /\ r \notin released
    /\ released' = released \cup {r}
    /\ OnDetach(got[r])
    /\ UNCHANGED <<aged, asked, destroyVars>>

InUse(c) == \E r \in Req \ released : got[r] = c

(* It calls detach() a second time while nobody else has the connection    *)
(* (calling it later releases somebody else's connection: excluded).       *)
DetachAgain(r) ==
    /\ r \in released /\ ~InUse(got[r]) /\ Pooled(got[r])
    /\ OnDetach(got[r])
    /\ UNCHANGED <<aged, asked, released, destroyVars>>

\* Mutant: the count is compared before it is decremented.
CountDownShort(c, err) ==
    /\ remaining' = [d \in Destroyers |->
           IF c \in closes[d] /\ ~err THEN remaining[d] - 1 ELSE remaining[d]]
    /\ replies' = [d \in Destroyers |->
           IF c \in closes[d] /\ (err \/ remaining[d] = 0)
           THEN replies[d] + 1 ELSE replies[d]]

(* detachCallback of the destroy() call that closes c: an error is passed  *)
(* on and counts nothing down.                                             *)
CountDown(c, err) ==
    /\ remaining' = [d \in Destroyers |->
           IF c \in closes[d] /\ ~err THEN remaining[d] - 1 ELSE remaining[d]]
    /\ replies' = [d \in Destroyers |->
           IF c \in closes[d] /\ (err \/ remaining[d] = 1)
           THEN replies[d] + 1 ELSE replies[d]]

(* The server answers op_detach: disconnect(), the 'detach' event again,   *)
(* then the callback.                                                      *)
DetachReply(c, err) ==
    /\ conn[c] = "closing"
    /\ err => "detach_error" \in Faults
    /\ conn' = [conn EXCEPT ![c] = "gone"]
    /\ DetachIgnored(c) \/ DetachBroken(c)
    /\ CountDown(c, err)
    /\ UNCHANGED <<aged, asked, released, destroyed, closes>>

-----------------------------------------------------------------------------
(***************************************************************************)
(* One sweep of _reap().  It walks the idle connections in order and the   *)
(* number on the books shrinks as it removes: gone is the one set that     *)
(* satisfies the loop's conditions at every position.                      *)
(***************************************************************************)
Surplus(i, gone) ==
    Len(internaldb) - Cardinality({j \in 1..(i-1) : pooldb[j] \in gone}) > MinSize

Evicts(gone) ==
    \A i \in DOMAIN pooldb :
        pooldb[i] \in gone <=>
            \/ Dead(pooldb[i])
            \/ Expired(pooldb[i])
            \/ pooldb[i] \in stale /\ Surplus(i, gone)

Reap ==
    /\ Options \cap {"idleTimeout", "maxLifetime"} # {}
    /\ ~destroyed
    /\ \E gone \in SUBSET ToSet(pooldb) \ {{}} :
          /\ Evicts(gone)
          /\ pooldb' = Without(pooldb, gone)
          /\ internaldb' = Without(internaldb, gone)
          /\ conn' = [c \in Req |-> IF c \in gone /\ ~Dead(c) THEN "closing"
                                    ELSE conn[c]]
    /\ UNCHANGED <<pending, dbinuse, creating, checks, attach, useCount, aged,
                   stale, callVars, destroyVars>>

-----------------------------------------------------------------------------
(***************************************************************************)
(* destroy(): forEach over internaldb.  An idle connection that the peer   *)
(* closed answers detach() at once, so the 'detach' listener splices it    *)
(* out of internaldb while forEach walks it, and forEach misses the next.  *)
(***************************************************************************)
LostIdle(c) == c \in ToSet(pooldb) /\ conn[c] = "lost"

Visits(seen) ==
    \A i \in DOMAIN internaldb :
        i \in seen <=> i = 1 \/ ~(i - 1 \in seen /\ LostIdle(internaldb[i - 1]))

Destroy(d) ==
    /\ replies[d] = -1
    /\ destroyed' = TRUE
    /\ pending' = <<>>
    /\ \E seen \in SUBSET DOMAIN internaldb :
          LET visited == {internaldb[i] : i \in seen}
              idle    == visited \cap ToSet(pooldb)
              lost    == {c \in idle : conn[c] = "lost"}
              counted == visited \ idle
          IN  /\ Visits(seen)
              /\ pooldb' = Without(pooldb, idle)
              /\ internaldb' = Without(internaldb, lost)
              /\ dbinuse' = dbinuse - Cardinality(lost)
              /\ conn' = [c \in Req |-> IF c \in lost THEN "gone"
                                        ELSE IF c \in idle THEN "closing"
                                        ELSE conn[c]]
              /\ closes' = [closes EXCEPT ![d] = idle \ lost]
              /\ remaining' = [remaining EXCEPT ![d] =
                                  Len(internaldb) - Cardinality(counted)]
              /\ replies' = [replies EXCEPT ![d] = Cardinality(lost) +
                     (IF Len(internaldb) = Cardinality(counted) THEN 1 ELSE 0)]
    /\ answers' = [r \in Req |-> IF r \in ToSet(pending) THEN answers[r] + 1
                                 ELSE answers[r]]
    /\ UNCHANGED <<creating, checks, attach, useCount, aged, stale, asked, got,
                   released>>

-----------------------------------------------------------------------------
(* The environment: the peer closes the socket, and time passes.           *)
ConnLost(c) ==
    /\ "loss" \in Faults
    /\ conn[c] \in {"open", "closing"}
    /\ conn' = [conn EXCEPT ![c] = IF @ = "open" THEN "lost" ELSE "gone"]
    /\ UNCHANGED <<poolVars, attach, useCount, aged, stale, callVars,
                   destroyVars>>

Age(c) ==
    /\ "maxLifetime" \in Options
    /\ conn[c] = "open" /\ c \notin aged
    /\ aged' = aged \cup {c}
    /\ UNCHANGED <<poolVars, attach, conn, useCount, stale, callVars,
                   destroyVars>>

GoStale(c) ==
    /\ "idleTimeout" \in Options
    /\ c \in ToSet(pooldb) \ stale
    /\ stale' = stale \cup {c}
    /\ UNCHANGED <<poolVars, attach, conn, useCount, aged, callVars,
                   destroyVars>>

Next ==
    \/ \E r \in Req :
          \/ Get(r) \/ Detach(r) \/ DetachAgain(r)
          \/ AttachOk(r) \/ AttachFail(r) \/ AttachTimeout(r)
          \/ AttachLate(r) \/ AttachAfterDestroy(r) \/ AttachCallbackAgain(r)
          \/ \E err \in BOOLEAN : DetachReply(r, err)
          \/ ConnLost(r) \/ Age(r) \/ GoStale(r)
    \/ RunCheck
    \/ Reap
    \/ \E d \in Destroyers : Destroy(d)

Spec == Init /\ [][Next]_vars

(***************************************************************************)
(* Fairness.  setImmediate callbacks and timers run; callers release what  *)
(* they were given (README: "release the pool connection"); without        *)
(* connectTimeout the attach is expected to settle, with it nothing is     *)
(* expected of the server.  The reply to op_detach is expected.            *)
(***************************************************************************)
AttachSettles(r) ==
    IF "connectTimeout" \in Options
    THEN AttachTimeout(r)
    ELSE AttachOk(r) \/ AttachAfterDestroy(r) \/ AttachFail(r)

Fairness ==
    /\ WF_vars(RunCheck)
    /\ \A r \in Req :
          /\ WF_vars(Detach(r))
          /\ WF_vars(AttachSettles(r))
          /\ WF_vars(\E err \in BOOLEAN : DetachReply(r, err))

FairSpec == Spec /\ Fairness

-----------------------------------------------------------------------------
(* The types of the variables.                                             *)
TypeOK ==
    /\ pending \in Seq(Req) /\ pooldb \in Seq(Req) /\ internaldb \in Seq(Req)
    /\ dbinuse \in Int /\ creating \in Int /\ checks \in Nat
    /\ attach \in [Req -> AttachState] /\ conn \in [Req -> ConnState]
    /\ useCount \in [Req -> Nat]
    /\ aged \subseteq Req /\ stale \subseteq Req
    /\ asked \subseteq Req /\ released \subseteq Req
    /\ got \in [Req -> Req \cup {NoConn}]
    /\ answers \in [Req -> Nat]
    /\ destroyed \in BOOLEAN
    /\ remaining \in [Destroyers -> Int] /\ replies \in [Destroyers -> Int]
    /\ closes \in [Destroyers -> SUBSET Req]

InFlight == {r \in Req : attach[r] = "flight"}

(* Idle, handed out and being created, the pool's connections never exceed *)
(* max, whatever is lost, late or refused, as long as no attach() callback *)
(* is called a second time (pool.ts:192).  And no connection is handed out *)
(* more than maxUses times.                                                *)
WithinBounds ==
    /\ (\A r \in Req : answers[r] <= 1)
           => Len(internaldb) + Cardinality(InFlight) <= MaxSize
    /\ MaxUses > 0 => \A c \in Req : useCount[c] <= MaxUses

(* A connection has at most one holder, and none while it is idle.         *)
Holders == {r \in Req \ released : got[r] # NoConn}
SingleHolder ==
    /\ \A r1, r2 \in Holders : got[r1] = got[r2] => r1 = r2
    /\ \A r \in Holders : got[r] \notin ToSet(pooldb)

(* A usable physical connection is never forgotten: whatever arrives late  *)
(* or is taken off the books is being closed.                              *)
NoLeak == \A c \in Req : conn[c] = "open" => c \in ToSet(internaldb)

(* The callback of each destroy() is called at most once, and, when the    *)
(* server answers op_detach, it is called.                                 *)
DestroyReplied ==
    \A d \in Destroyers :
        /\ [](replies[d] <= 1)
        /\ destroyed /\ replies[d] = 0 ~> replies[d] > 0

(* Every get() is answered: every path that frees a slot runs or schedules *)
(* check(), and no wake-up is lost between them.                           *)
EveryGetAnswered == \A r \in Req : r \in asked ~> answers[r] > 0

-----------------------------------------------------------------------------
(* The abstract pool: leases of connections (module Lease).                *)
leaseOf == [r \in Req |->
    IF r \notin asked THEN "new"
    ELSE IF r \in released THEN "released"
    ELSE IF got[r] # NoConn THEN got[r]
    ELSE IF answers[r] > 0 THEN "refused" ELSE "waiting"]

Leases == INSTANCE Lease WITH lease <- leaseOf, closed <- destroyed
LeaseSpec == Leases!Spec
=============================================================================
