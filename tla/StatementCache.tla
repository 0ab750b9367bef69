--------------------------- MODULE StatementCache ---------------------------
(***************************************************************************)
(* The prepared-statement cache of a connection: takeCachedStatement() and *)
(* releaseStatement() of src/src/wire/connection.ts, and the statements    *)
(* that are out of it, with their users.                                   *)
(*                                                                         *)
(* The cache is a Map from the SQL text to a statement; its insertion      *)
(* order is the order of last use.  Here it is the sequence of its         *)
(* statements, the oldest first.  A drop is deferred, and sent before any  *)
(* later request: a dropped statement is gone for the client.              *)
(***************************************************************************)
EXTENDS SeqRemoval

CONSTANTS
    User,       \* who prepares and releases statements
    Text,       \* the SQL texts
    Ddl,        \* the texts of statement type ddl
    Handle,     \* statement handles
    Limit       \* statementCacheSize; 0: no cache

ASSUME CacheAssumption == Ddl \subseteq Text /\ Limit \in Nat

VARIABLES
    cache,  \* _statementCache
    open,   \* the statements the server keeps for the client
    held    \* the statements each user has

Statement == [query : Text, handle : Handle]

cached == <<cache, open, held>>

CacheInit ==
    cache = <<>> /\ open = {} /\ held = [u \in User |-> {}]

(* cache.get(query).                                                       *)
Idle(q) == {s \in ToSet(cache) : s.query = q}

\* Mutant: a statement in use stays in the cache.
StillCached(s) == cache
Uncached(s) == Without(cache, {s})

(* takeCachedStatement: out of the cache while it is in use.               *)
Take(u, q) ==
    \E s \in Idle(q) :
        /\ cache' = Uncached(s)
        /\ held' = [held EXCEPT ![u] = @ \cup {s}]
        /\ UNCHANGED open

(* Taken and dropped in one turn: parameters that do not bind.             *)
Spoil(q) ==
    \E s \in Idle(q) :
        /\ cache' = Uncached(s) /\ open' = open \ {s}
        /\ UNCHANGED held

(* A statement is prepared for q: the server hands out a free handle.      *)
Prepare(u, q) ==
    \E s \in Statement \ open :
        /\ s.query = q
        /\ open' = open \cup {s}
        /\ held' = [held EXCEPT ![u] = @ \cup {s}]
        /\ UNCHANGED cache

Cacheable(s, failed) ==
    /\ Limit > 0 /\ ~failed /\ s.query \notin Ddl
    /\ Idle(s.query) = {}

(* releaseStatement: into the cache as the newest, the oldest dropped when *)
(* there are too many; or dropped.  The cache is never over its limit, so  *)
(* the eviction loop turns once at most.                                   *)
Release(u, s, failed) ==
    /\ s \in held[u]
    /\ held' = [held EXCEPT ![u] = @ \ {s}]
    /\ IF ~Cacheable(s, failed)
       THEN open' = open \ {s} /\ UNCHANGED cache
       ELSE IF Len(cache) < Limit
       THEN cache' = Append(cache, s) /\ UNCHANGED open
       ELSE cache' = Append(Tail(cache), s) /\ open' = open \ {Head(cache)}

(* statement.drop(), by a user who does not give it back.                  *)
Drop(u, s) ==
    /\ s \in held[u]
    /\ held' = [held EXCEPT ![u] = @ \ {s}] /\ open' = open \ {s}
    /\ UNCHANGED cache

CacheNext ==
    \/ \E u \in User, q \in Text : Take(u, q) \/ Prepare(u, q)
    \/ \E q \in Text : Spoil(q)
    \/ \E u \in User, s \in Statement :
          Release(u, s, TRUE) \/ Release(u, s, FALSE) \/ Drop(u, s)

CacheSpec == CacheInit /\ [][CacheNext]_cached

-----------------------------------------------------------------------------
(* The types of the variables.                                             *)
CacheTypeOK ==
    /\ cache \in Seq(Statement) 
    /\ open \in SUBSET Statement /\ held \in [User -> SUBSET Statement]

(* A statement is in one place: with one user, or once in the cache; what  *)
(* the server keeps is in some place, and what is dropped in none          *)
(* (connection.ts:217-219: concurrent callers "never share a server-side   *)
(* cursor").                                                               *)
InOnePlace ==
    /\ IsInjective(cache)
    /\ \A u, v \in User : u # v => held[u] \cap held[v] = {}
    /\ \A u \in User : held[u] \cap ToSet(cache) = {}
    /\ open = ToSet(cache) \cup UNION {held[u] : u \in User}

(* The cache has one statement for a text, no DDL, and is within its limit *)
(* (connection.ts:238-239).                                                *)
CacheBounded ==
    /\ Len(cache) <= Limit
    /\ \A s \in ToSet(cache) : s.query \notin Ddl /\ Idle(s.query) = {s}
=============================================================================
