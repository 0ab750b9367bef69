--------------------------- MODULE SessionProofs ---------------------------
(* Theorems about the statement cache, and about the session that uses it, *)
(* for any users, texts, helpers, limits and faults.                       *)
(*  - A prepared statement is in one place, and the cache within its limit *)
(*    (CacheInv).                                                          *)
(*  - The session implements the statement cache: each step of it is a     *)
(*    step of the cache or none (SessionInv).                              *)
(*  - A call that is over has left nothing open: what each call has of the *)
(*    cache, and of its transaction, goes with where it is (CallsInv).     *)
(*  - It commits what its caller was told: the log of the transaction at   *)
(*    the server and the scopes of the client agree - as long as it is not *)
(*    to be rolled back - on which savepoint comes when and which change   *)
(*    was made in which (Agree, LogsInv).                                  *)
EXTENDS Session, SeqRemovalProofs

-----------------------------------------------------------------------------
(* The places a statement may be in, as sets: in the cache C, with a user  *)
(* of H; O are the statements that the server keeps.                       *)
Apart(C, H) ==
    /\ \A u, v \in User : u # v => H[u] \cap H[v] = {}
    /\ \A u \in User : H[u] \cap C = {}
Somewhere(C, O, H) == \A s : s \in O <=> s \in C \/ \E u \in User : s \in H[u]
Places(C, O, H) == Apart(C, H) /\ Somewhere(C, O, H)

(* A statement is in one place iff the cache has it once and the places    *)
(* are apart and complete.                                                 *)
LEMMA PlacesOfStatements ==
    InOnePlace <=> IsInjective(cache) /\ Places(ToSet(cache), open, held)
<1>1. (open = ToSet(cache) \cup UNION {held[u] : u \in User})
      <=> Somewhere(ToSet(cache), open, held)
  <2>1. \A s : s \in UNION {held[u] : u \in User} <=> \E u \in User : s \in held[u]
    OBVIOUS
  <2> QED BY <2>1 DEF Somewhere
<1> QED BY <1>1 DEF InOnePlace, Places, Apart

Holders == [User -> SUBSET Statement]

(* A user takes a statement out of the cache, or drops one unused.         *)
LEMMA PlacesTake ==
    ASSUME NEW C, NEW O, NEW H \in Holders, NEW u \in User, NEW s \in C,
           Places(C, O, H)
    PROVE  /\ Places(C \ {s}, O, [H EXCEPT ![u] = @ \cup {s}])
           /\ Places(C \ {s}, O \ {s}, H)
<1> DEFINE G == [H EXCEPT ![u] = @ \cup {s}]
<1>1. \A v \in User : G[v] = IF v = u THEN H[v] \cup {s} ELSE H[v]
  BY DEF Holders
<1>2. \A v \in User : s \notin H[v]
  BY DEF Places, Apart
<1>3. Apart(C \ {s}, G)
  BY <1>1, <1>2 DEF Places, Apart
<1>4. Somewhere(C \ {s}, O, G)
  BY <1>1 DEF Places, Somewhere
<1>5. Places(C \ {s}, O \ {s}, H)
  BY <1>2 DEF Places, Apart, Somewhere
<1> QED BY <1>3, <1>4, <1>5 DEF Places

(* A user is given a new statement.                                        *)
LEMMA PlacesPrepare ==
    ASSUME NEW C, NEW O, NEW H \in Holders, NEW u \in User, NEW s, s \notin O,
           Places(C, O, H)
    PROVE  Places(C, O \cup {s}, [H EXCEPT ![u] = @ \cup {s}])
<1> DEFINE G == [H EXCEPT ![u] = @ \cup {s}]
<1>1. \A v \in User : G[v] = IF v = u THEN H[v] \cup {s} ELSE H[v]
  BY DEF Holders
<1>2. s \notin C /\ \A v \in User : s \notin H[v]
  BY DEF Places, Somewhere
<1>3. Apart(C, G)
  BY <1>1, <1>2 DEF Places, Apart
<1>4. Somewhere(C, O \cup {s}, G)
  BY <1>1 DEF Places, Somewhere
<1> QED BY <1>3, <1>4 DEF Places

(* A user's statement is dropped, or put into the cache, where another one *)
(* may make room for it.                                                   *)
LEMMA PlacesRelease ==
    ASSUME NEW C, NEW O, NEW H \in Holders, NEW u \in User, NEW s \in H[u],
           Places(C, O, H)
    PROVE  LET G == [H EXCEPT ![u] = @ \ {s}]
           IN  /\ s \notin C
               /\ Places(C, O \ {s}, G)
               /\ Places(C \cup {s}, O, G)
               /\ \A h \in C : Places((C \ {h}) \cup {s}, O \ {h}, G)
<1> DEFINE G == [H EXCEPT ![u] = @ \ {s}]
<1>1. \A v \in User : G[v] = IF v = u THEN H[v] \ {s} ELSE H[v]
  BY DEF Holders
<1>2. s \notin C /\ \A v \in User : s \notin G[v]
  BY <1>1 DEF Places, Apart
<1>3. \A v \in User : G[v] \subseteq H[v] /\ \A t \in H[v] : t = s \/ t \in G[v]
  BY <1>1
<1>4. \A D : D \subseteq C \cup {s} => Apart(D, G)
  BY <1>2, <1>3 DEF Places, Apart
<1>5. s \in O /\ \A t : t # s => (t \in O <=> t \in C \/ \E v \in User : t \in G[v])
  BY <1>3 DEF Places, Somewhere
<1>6. Somewhere(C, O \ {s}, G) /\ Somewhere(C \cup {s}, O, G)
  BY <1>2, <1>5 DEF Somewhere
<1>7. ASSUME NEW h \in C
      PROVE  Somewhere((C \ {h}) \cup {s}, O \ {h}, G)
  <2>1. h # s /\ \A v \in User : h \notin G[v]
    BY <1>2, <1>3 DEF Places, Apart
  <2> QED BY <1>2, <1>5, <2>1 DEF Somewhere
<1> QED BY <1>2, <1>4, <1>6, <1>7 DEF Places

-----------------------------------------------------------------------------
(* One statement for a text, and no DDL.                                   *)
Distinct(C) ==
    /\ \A s \in C : s.query \notin Ddl
    /\ \A s, t \in C : s.query = t.query => s = t

(* The cache is within its bounds iff it is short and its texts distinct.  *)
LEMMA BoundedIsDistinct ==
    CacheBounded <=> Len(cache) <= Limit /\ Distinct(ToSet(cache))
BY DEF CacheBounded, Distinct, Idle

CacheInv == CacheTypeOK /\ InOnePlace /\ CacheBounded

(* The invariant, by what the places are; now and after a step.            *)
Parts ==
    /\ cache \in Seq(Statement) /\ IsInjective(cache)
    /\ open \in SUBSET Statement /\ held \in Holders
    /\ Places(ToSet(cache), open, held)
    /\ Len(cache) <= Limit /\ Distinct(ToSet(cache))

(* The invariant is its parts.                                             *)
LEMMA InvIsParts == CacheInv <=> Parts
BY PlacesOfStatements, BoundedIsDistinct DEF CacheInv, CacheTypeOK, Holders, Parts

(* And so it is after a step.                                              *)
LEMMA InvIsPartsNext == CacheInv' <=> Parts'
BY InvIsParts, PTL

(* The cache without one statement.                                        *)
LEMMA UncachedProperties ==
    ASSUME CacheInv, NEW s \in ToSet(cache)
    PROVE  /\ Uncached(s) \in Seq(Statement) /\ IsInjective(Uncached(s))
           /\ ToSet(Uncached(s)) = ToSet(cache) \ {s}
           /\ Len(Uncached(s)) <= Limit
           /\ Distinct(ToSet(Uncached(s)))
<1>1. cache \in Seq(Statement) /\ IsInjective(cache) /\ Len(cache) <= Limit
      /\ Distinct(ToSet(cache))
  BY InvIsParts DEF Parts
<1>2. /\ Uncached(s) \in Seq(Statement) /\ IsInjective(Uncached(s))
      /\ ToSet(Uncached(s)) = ToSet(cache) \ {s}
  BY <1>1, WithoutProperties DEF Uncached
<1>3. IsFiniteSet(ToSet(cache)) /\ Cardinality(ToSet(cache)) = Len(cache)
      /\ Cardinality(ToSet(Uncached(s))) = Len(Uncached(s))
  BY <1>1, <1>2, InjectiveLength
<1>4. Cardinality(ToSet(Uncached(s))) <= Cardinality(ToSet(cache))
  BY <1>2, <1>3, FS_Subset
<1>5. Len(Uncached(s)) \in Nat /\ Len(cache) \in Nat /\ Limit \in Nat
  BY <1>1, <1>2, LenProperties, CacheAssumption
<1>6. Distinct(ToSet(Uncached(s)))
  BY <1>1, <1>2 DEF Distinct
<1> QED BY <1>1, <1>2, <1>3, <1>4, <1>5, <1>6

(* Taking a statement out of the cache keeps the invariant.                *)
LEMMA TakeKeeps ==
    ASSUME CacheInv, NEW u \in User, NEW q, Take(u, q)
    PROVE  CacheInv'
<1>1. PICK s \in ToSet(cache) :
         cache' = Uncached(s) /\ held' = [held EXCEPT ![u] = @ \cup {s}] /\ open' = open
  BY DEF Take, Idle
<1>2. /\ cache \in Seq(Statement) /\ open \in SUBSET Statement /\ held \in Holders
      /\ Places(ToSet(cache), open, held)
  BY InvIsParts DEF Parts
<1>3. s \in Statement
  BY <1>2, <1>1 DEF ToSet
<1>4. held' \in Holders
  BY <1>1, <1>2, <1>3 DEF Holders
<1>5. Places(ToSet(cache'), open', held')
  <2>1. ToSet(cache') = ToSet(cache) \ {s}
    BY <1>1, UncachedProperties
  <2>2. Places(ToSet(cache) \ {s}, open, [held EXCEPT ![u] = @ \cup {s}])
    BY <1>2, PlacesTake
  <2> QED BY <1>1, <2>1, <2>2
<1> QED BY <1>1, <1>2, <1>4, <1>5, UncachedProperties, InvIsPartsNext DEF Parts

(* Dropping one whose parameters do not bind keeps it.                     *)
LEMMA SpoilKeeps ==
    ASSUME CacheInv, NEW q, Spoil(q)
    PROVE  CacheInv'
<1>1. PICK s \in ToSet(cache) :
         cache' = Uncached(s) /\ open' = open \ {s} /\ held' = held
  BY DEF Spoil, Idle
<1>2. /\ open \in SUBSET Statement /\ held \in Holders
      /\ Places(ToSet(cache), open, held)
  BY InvIsParts DEF Parts
<1>3. Places(ToSet(cache) \ {s}, open \ {s}, held)
  <2>1. \A v \in User : s \notin held[v]
    BY <1>2 DEF Places, Apart
  <2> QED BY <1>2, <2>1 DEF Places, Apart, Somewhere
<1> QED BY <1>1, <1>2, <1>3, UncachedProperties, InvIsPartsNext DEF Parts

(* A new statement keeps the invariant: its handle is free.                *)
LEMMA PrepareKeeps ==
    ASSUME CacheInv, NEW u \in User, NEW q, Prepare(u, q)
    PROVE  CacheInv'
<1>1. PICK s \in Statement \ open :
         open' = open \cup {s} /\ held' = [held EXCEPT ![u] = @ \cup {s}] /\ cache' = cache
  BY DEF Prepare
<1>2. /\ open \in SUBSET Statement /\ held \in Holders
      /\ Places(ToSet(cache), open, held)
  BY InvIsParts DEF Parts
<1>3. held' \in Holders
  BY <1>1, <1>2 DEF Holders
<1>4. Places(ToSet(cache'), open', held')
  BY <1>1, <1>2, PlacesPrepare
<1>5. /\ cache' \in Seq(Statement) /\ IsInjective(cache')
      /\ Len(cache') <= Limit /\ Distinct(ToSet(cache'))
  <2>1. /\ cache \in Seq(Statement) /\ IsInjective(cache)
        /\ Len(cache) <= Limit /\ Distinct(ToSet(cache))
    BY InvIsParts DEF Parts
  <2> QED BY <1>1, <2>1
<1>6. open' \in SUBSET Statement
  BY <1>1, <1>2
<1> QED BY <1>3, <1>4, <1>5, <1>6, InvIsPartsNext DEF Parts

(* A statement that is dropped by its user.                                *)
LEMMA DropKeeps ==
    ASSUME CacheInv, NEW u \in User, NEW s \in held[u],
           held' = [held EXCEPT ![u] = @ \ {s}], open' = open \ {s}, cache' = cache
    PROVE  CacheInv'
<1>1. /\ open \in SUBSET Statement /\ held \in Holders
      /\ Places(ToSet(cache), open, held)
  BY InvIsParts DEF Parts
<1>2. held' \in Holders
  BY <1>1 DEF Holders
<1>3. Places(ToSet(cache'), open', held')
  BY <1>1, PlacesRelease
<1>4. /\ cache' \in Seq(Statement) /\ IsInjective(cache')
      /\ Len(cache') <= Limit /\ Distinct(ToSet(cache'))
  <2>1. /\ cache \in Seq(Statement) /\ IsInjective(cache)
        /\ Len(cache) <= Limit /\ Distinct(ToSet(cache))
    BY InvIsParts DEF Parts
  <2>2. cache' = cache
    OBVIOUS
  <2> QED BY <2>1, <2>2
<1>5. open' \in SUBSET Statement
  BY <1>1
<1> QED BY <1>2, <1>3, <1>4, <1>5, InvIsPartsNext DEF Parts

(* A statement that goes back into the cache, as its newest; the oldest    *)
(* makes room.                                                             *)
LEMMA ReleaseKeeps ==
    ASSUME CacheInv, NEW u \in User, NEW s, NEW failed, Release(u, s, failed)
    PROVE  CacheInv'
<1> DEFINE G == [held EXCEPT ![u] = @ \ {s}]
<1>1. s \in held[u] /\ held' = G
  BY DEF Release
<1>2. /\ cache \in Seq(Statement) /\ IsInjective(cache)
      /\ open \in SUBSET Statement /\ held \in Holders
      /\ Places(ToSet(cache), open, held)
      /\ Len(cache) <= Limit /\ Distinct(ToSet(cache))
  BY InvIsParts DEF Parts
<1>3. s \in Statement /\ held' \in Holders
  BY <1>1, <1>2 DEF Holders
<1>4. /\ s \notin ToSet(cache)
      /\ Places(ToSet(cache) \cup {s}, open, G)
      /\ \A h \in ToSet(cache) : Places((ToSet(cache) \ {h}) \cup {s}, open \ {h}, G)
  BY <1>1, <1>2, PlacesRelease
<1>5. CASE ~Cacheable(s, failed)
  <2>1. open' = open \ {s} /\ cache' = cache
    BY <1>5 DEF Release
  <2> QED BY <1>1, <2>1, DropKeeps
<1>6. CASE Cacheable(s, failed)
  <2>1. Limit \in Nat \ {0} /\ s.query \notin Ddl
        /\ \A t \in ToSet(cache) : t.query # s.query
    BY <1>6, CacheAssumption DEF Cacheable, Idle
  <2>2. Len(cache) \in Nat
    BY <1>2, LenProperties
  <2>3. CASE Len(cache) < Limit
    <3>1. cache' = Append(cache, s) /\ open' = open
      BY <1>6, <2>3 DEF Release
    <3>2. /\ cache' \in Seq(Statement) /\ IsInjective(cache')
          /\ ToSet(cache') = ToSet(cache) \cup {s}
      BY <1>2, <1>3, <1>4, <3>1, AppendElements
    <3>3. Len(cache') = Len(cache) + 1
      BY <1>2, <1>3, <3>1, AppendProperties
    <3>4. Distinct(ToSet(cache'))
      BY <1>2, <2>1, <3>2 DEF Distinct
    <3>5. Places(ToSet(cache'), open', held')
      BY <1>1, <1>4, <3>1, <3>2
    <3>6. Len(cache') <= Limit
      BY <2>1, <2>2, <2>3, <3>3
    <3>7. open' \in SUBSET Statement
      BY <1>2, <3>1
    <3> QED BY <1>3, <3>2, <3>4, <3>5, <3>6, <3>7, InvIsPartsNext DEF Parts
  <2>4. CASE ~(Len(cache) < Limit)
    <3> DEFINE h == Head(cache)
    <3>1. cache' = Append(Tail(cache), s) /\ open' = open \ {h}
      BY <1>6, <2>4 DEF Release
    <3>2. cache # <<>> /\ Len(cache) = Limit
      BY <1>2, <2>1, <2>2, <2>4
    <3>3. /\ h \in ToSet(cache) /\ Tail(cache) \in Seq(Statement)
          /\ IsInjective(Tail(cache)) /\ ToSet(Tail(cache)) = ToSet(cache) \ {h}
      <4>1. /\ h \in ToSet(cache) /\ Tail(cache) \in Seq(Statement)
            /\ ToSet(cache) = ToSet(Tail(cache)) \cup {h}
            /\ IsInjective(Tail(cache)) /\ h \notin ToSet(Tail(cache))
        BY <1>2, <3>2, TailElements
      <4> QED BY <4>1
    <3>4. /\ cache' \in Seq(Statement) /\ IsInjective(cache')
          /\ ToSet(cache') = (ToSet(cache) \ {h}) \cup {s}
      <4> DEFINE rest == Tail(cache)
      <4>1. rest \in Seq(Statement) /\ IsInjective(rest) /\ s \notin ToSet(rest)
        BY <1>4, <3>3
      <4>2. cache' = Append(rest, s) /\ ToSet(rest) = ToSet(cache) \ {h}
        BY <3>1, <3>3
      <4> HIDE DEF h, rest
      <4>3. /\ Append(rest, s) \in Seq(Statement)
            /\ IsInjective(Append(rest, s))
            /\ ToSet(Append(rest, s)) = ToSet(rest) \cup {s}
        BY <1>3, <4>1, AppendElements
      <4> QED BY <4>2, <4>3
    <3>5. Len(cache') = Limit
      <4>1. Len(Tail(cache)) = Len(cache) - 1
        BY <1>2, <3>2, HeadTailProperties
      <4>2. Len(cache') = Len(Tail(cache)) + 1
        BY <1>3, <3>1, <3>3, AppendProperties
      <4> QED BY <2>1, <2>2, <3>2, <4>1, <4>2
    <3>6. Distinct(ToSet(cache'))
      BY <1>2, <2>1, <3>4 DEF Distinct
    <3>7. Places(ToSet(cache'), open', held')
      BY <1>1, <1>4, <3>1, <3>3, <3>4
    <3>8. open' \in SUBSET Statement
      BY <1>2, <3>1
    <3> QED BY <1>3, <2>1, <3>4, <3>5, <3>6, <3>7, <3>8, InvIsPartsNext DEF Parts
  <2> QED BY <2>3, <2>4
<1> QED BY <1>5, <1>6

(* Nothing is open, held or cached at first.                               *)
LEMMA CacheStarts == CacheInit => CacheInv
<1> SUFFICES ASSUME CacheInit PROVE CacheInv
  OBVIOUS
<1>1. cache = <<>> /\ open = {} /\ held \in Holders /\ \A u \in User : held[u] = {}
  BY DEF CacheInit, Holders
<1>2. cache \in Seq(Statement) /\ Len(cache) = 0
  BY <1>1, EmptySeq
<1>3. IsInjective(cache) /\ ToSet(cache) = {}
  BY <1>1, <1>2 DEF IsInjective, ToSet
<1>4. Places(ToSet(cache), open, held)
  BY <1>1, <1>3 DEF Places, Apart, Somewhere
<1>5. Len(cache) <= Limit /\ Distinct(ToSet(cache))
  BY <1>2, <1>3, CacheAssumption DEF Distinct
<1> QED BY <1>1, <1>2, <1>3, <1>4, <1>5, InvIsParts DEF Parts

(* Every step keeps the invariant.                                         *)
LEMMA CacheGoesOn == CacheInv /\ [CacheNext]_cached => CacheInv'
<1> SUFFICES ASSUME CacheInv, [CacheNext]_cached PROVE CacheInv'
  OBVIOUS
<1>1. ASSUME NEW u \in User, NEW q \in Text, Take(u, q) \/ Prepare(u, q)
      PROVE  CacheInv'
  BY <1>1, TakeKeeps, PrepareKeeps
<1>2. ASSUME NEW q \in Text, Spoil(q)
      PROVE  CacheInv'
  BY <1>2, SpoilKeeps
<1>3. ASSUME NEW u \in User, NEW s \in Statement,
             Release(u, s, TRUE) \/ Release(u, s, FALSE) \/ Drop(u, s)
      PROVE  CacheInv'
  BY <1>3, ReleaseKeeps, DropKeeps DEF Drop
<1>4. CASE UNCHANGED cached
  BY <1>4 DEF cached, CacheInv, CacheTypeOK, InOnePlace, CacheBounded, Idle
<1> QED BY <1>1, <1>2, <1>3, <1>4 DEF CacheNext

(* Every reachable state of the cache has the declared types.              *)
THEOREM CacheTypes == CacheSpec => []CacheTypeOK
<1>1. CacheInv => CacheTypeOK
  BY DEF CacheInv
<1> QED BY <1>1, CacheStarts, CacheGoesOn, PTL DEF CacheSpec

(* A prepared statement is with one user or once in the cache, and the     *)
(* server keeps exactly those (connection.ts:217-219).                     *)
THEOREM CacheInOnePlace == CacheSpec => []InOnePlace
<1>1. CacheInv => InOnePlace
  BY DEF CacheInv
<1> QED BY <1>1, CacheStarts, CacheGoesOn, PTL DEF CacheSpec

(* The cache is within its limit, with one statement for a text and no DDL *)
(* (connection.ts:238-239).                                                *)
THEOREM CacheStaysBounded == CacheSpec => []CacheBounded
<1>1. CacheInv => CacheBounded
  BY DEF CacheInv
<1> QED BY <1>1, CacheStarts, CacheGoesOn, PTL DEF CacheSpec

-----------------------------------------------------------------------------
(* A step of the cache, or none.                                           *)
CacheMoves == [CacheNext]_cached

(* What a user does with the cache is a step of it: the texts and the      *)
(* statements are of the right sorts because those of the cache are.       *)
LEMMA CacheMovesBy ==
    ASSUME CacheInv, NEW c \in User
    PROVE  /\ \A q : Take(c, q) \/ Spoil(q) \/ Prepare(c, q) => CacheMoves
           /\ \A s, failed : failed \in BOOLEAN /\ Release(c, s, failed) => CacheMoves
           /\ \A s : Drop(c, s) => CacheMoves
           /\ UNCHANGED cached => CacheMoves
<1>1. /\ cache \in Seq(Statement) /\ held \in Holders
  BY InvIsParts DEF Parts
<1>2. \A s \in ToSet(cache) : s \in Statement /\ s.query \in Text
  <2>1. \A s \in ToSet(cache) : s \in Statement
    BY <1>1 DEF ToSet
  <2> QED BY <2>1 DEF Statement
<1>3. \A q : Take(c, q) \/ Spoil(q) => q \in Text
  BY <1>2 DEF Take, Spoil, Idle
<1>4. \A q : Prepare(c, q) => q \in Text
  BY DEF Prepare, Statement
<1>5. \A s : s \in held[c] => s \in Statement
  BY <1>1 DEF Holders
<1>6. \A s, failed : Release(c, s, failed) => s \in Statement
  BY <1>5 DEF Release
<1>7. \A s : Drop(c, s) => s \in Statement
  BY <1>5 DEF Drop
<1>8. ASSUME NEW q, Take(c, q) \/ Spoil(q) \/ Prepare(c, q)
      PROVE  CacheMoves
  BY <1>3, <1>4, <1>8 DEF CacheMoves, CacheNext
<1>9. ASSUME NEW s, NEW failed \in BOOLEAN, Release(c, s, failed)
      PROVE  CacheMoves
  BY <1>6, <1>9 DEF CacheMoves, CacheNext
<1>10. ASSUME NEW s, Drop(c, s)
       PROVE  CacheMoves
  BY <1>7, <1>10 DEF CacheMoves, CacheNext
<1>11. UNCHANGED cached => CacheMoves
  BY DEF CacheMoves
<1> QED BY <1>8, <1>9, <1>10, <1>11

(* The call c goes on, behind the line rest, with a step of the cache.     *)
Moves(c, rest) == CacheMoves /\ \E new : Goes(c, new, rest)

(* Transaction.newStatement and execute.                                   *)
LEMMA NewStatementMoves ==
    ASSUME CacheInv, NEW c \in User, NEW k, NEW rest
    PROVE  /\ NewStatement(c, k, rest) => Moves(c, rest)
           /\ Execute(c, k, rest) => Moves(c, rest)
<1>1. NewStatement(c, k, rest) => Moves(c, rest)
  <2>1. CASE Take(c, k.sql) /\ Goes(c, Prepared(k), rest)
    BY <2>1, CacheMovesBy DEF Moves
  <2>2. CASE Spoil(k.sql) /\ Goes(c, After(k, FALSE), rest)
    BY <2>2, CacheMovesBy DEF Moves
  <2>3. CASE Goes(c, [k EXCEPT !.at = "prepare"], rest) /\ UNCHANGED cached
    BY <2>3, CacheMovesBy DEF Moves
  <2> QED BY <2>1, <2>2, <2>3 DEF NewStatement
<1>2. Goes(c, After(k, FALSE), rest) /\ UNCHANGED cached => Moves(c, rest)
  BY CacheMovesBy DEF Moves
<1> QED BY <1>1, <1>2 DEF Execute

(* A statement is given back, and the call goes on.                        *)
LEMMA ReleasesMoves ==
    ASSUME CacheInv, NEW c \in User, NEW failed \in BOOLEAN, NEW good, NEW rest,
           Releases(c, failed), Ends(c, good, rest)
    PROVE  Moves(c, rest)
BY CacheMovesBy DEF Releases, Ends, Moves

(* The next request of a call, with no change of the cache.                *)
LEMMA StillMoves ==
    ASSUME CacheInv, NEW c \in User, NEW new, NEW rest,
           Goes(c, new, rest), UNCHANGED cached
    PROVE  Moves(c, rest)
BY CacheMovesBy DEF Moves

(* The callback of an answer.                                              *)
LEMMA AnsweredMoves ==
    ASSUME CacheInv, NEW c \in User, NEW good \in BOOLEAN, NEW rest,
           call[c].at \in Requests, Answered(c, good, rest)
    PROVE  Moves(c, rest)
<1>1. ASSUME Begun(c, good, rest) PROVE Moves(c, rest)
  <2>1. CASE ~good
    BY <1>1, <2>1, StillMoves DEF Begun
  <2>2. CASE good
    <3>1. \/ Goes(c, At(c, "work"), rest) /\ UNCHANGED cached
          \/ Execute(c, call[c], rest)
          \/ NewStatement(c, call[c], rest)
      BY <1>1, <2>2 DEF Begun
    <3> QED BY <3>1, StillMoves, NewStatementMoves
  <2> QED BY <2>1, <2>2
<1>2. ASSUME PrepareAnswered(c, good, rest) PROVE Moves(c, rest)
  <2>1. CASE ~good
    <3>1. UNCHANGED cached /\ \E new : Goes(c, new, rest)
      BY <1>2, <2>1 DEF PrepareAnswered, Ends
    <3> QED BY <3>1, StillMoves
  <2>2. CASE good
    <3>1. \/ Prepare(c, call[c].sql) /\ Goes(c, Prepared(call[c]), rest)
          \/ UNCHANGED cached /\ Goes(c, After(call[c], FALSE), rest)
      BY <1>2, <2>2 DEF PrepareAnswered, Ends
    <3> QED BY <3>1, CacheMovesBy DEF Moves
  <2> QED BY <2>1, <2>2
<1>3. ASSUME DropError(c, rest) PROVE Moves(c, rest)
  BY <1>3, ReleasesMoves DEF DropError
<1>4. ASSUME Delivers(c, rest) PROVE Moves(c, rest)
  BY <1>4, ReleasesMoves DEF Delivers
<1>5. ASSUME NEW at, Asks(c, at, rest) PROVE Moves(c, rest)
  BY <1>5, StillMoves DEF Asks
<1>6. ASSUME Executed(c, good, rest) PROVE Moves(c, rest)
  <2>1. \/ DropError(c, rest) \/ Delivers(c, rest)
        \/ \E at : Asks(c, at, rest)
        \/ \E all \in BOOLEAN : Releases(c, FALSE) /\ Ends(c, all, rest)
    BY <1>6 DEF Executed
  <2> QED BY <2>1, <1>3, <1>4, <1>5, ReleasesMoves
<1>7. ASSUME Fetched(c, good, rest) PROVE Moves(c, rest)
  <2>1. DropError(c, rest) \/ Delivers(c, rest) \/ \E at : Asks(c, at, rest)
    BY <1>7 DEF Fetched
  <2> QED BY <2>1, <1>3, <1>4, <1>5
<1>8. ASSUME Informed(c, good, rest) PROVE Moves(c, rest)
  BY <1>3, <1>4, <1>8 DEF Informed
<1>9. ASSUME Ended(c, good, rest) PROVE Moves(c, rest)
  <2>1. UNCHANGED cached /\ \E new : Goes(c, new, rest)
    BY <1>9 DEF Ended
  <2> QED BY <2>1, StillMoves
<1> QED BY <1>1, <1>2, <1>6, <1>7, <1>8, <1>9 DEF Answered, Requests

-----------------------------------------------------------------------------
(* Who is in the line awaits an answer, once; a closed connection has none.*)
Line(l, k) ==
    /\ l \in Seq(User) /\ IsInjective(l)
    /\ \A c \in ToSet(l) : k[c].at \in Requests

LineInv ==
    /\ DOMAIN call = User /\ Line(line, call)
    /\ link = "closed" => line = <<>>

(* A call that goes on keeps the line in order.                            *)
LEMMA GoesKeepsLine ==
    ASSUME DOMAIN call = User, NEW c \in User, NEW rest, Line(rest, call),
           c \notin ToSet(rest), link = "closed" => rest = <<>>,
           NEW new, Goes(c, new, rest), link' = link
    PROVE  LineInv'
<1>1. /\ DOMAIN call' = User /\ call'[c] = new
      /\ \A d \in User : d # c => call'[d] = call[d]
  BY DEF Goes
<1>2. rest \in Seq(User) /\ IsInjective(rest)
  BY DEF Line
<1>3. ToSet(rest) \subseteq User
  BY <1>2 DEF ToSet
<1>4. \A d \in ToSet(rest) : call'[d].at \in Requests
  BY <1>1, <1>3 DEF Line
<1>5. CASE new.at \in Requests /\ link = "open"
  <2>1. line' = Append(rest, c)
    BY <1>5 DEF Goes
  <2>2. /\ Append(rest, c) \in Seq(User) /\ IsInjective(Append(rest, c))
        /\ ToSet(Append(rest, c)) = ToSet(rest) \cup {c}
    BY <1>2, AppendElements
  <2>3. \A d \in ToSet(rest) \cup {c} : call'[d].at \in Requests
    BY <1>1, <1>4, <1>5
  <2>4. link' # "closed"
    BY <1>5
  <2> QED BY <1>1, <2>1, <2>2, <2>3, <2>4 DEF LineInv, Line
<1>6. CASE ~(new.at \in Requests /\ link = "open")
  <2>1. line' = rest
    BY <1>6 DEF Goes
  <2> QED BY <1>1, <1>2, <1>4, <2>1 DEF LineInv, Line
<1> QED BY <1>5, <1>6

(* The line behind its head.                                               *)
LEMMA BehindHead ==
    ASSUME LineInv, line # <<>>
    PROVE  /\ Head(line) \in User /\ call[Head(line)].at \in Requests
           /\ Line(Tail(line), call) /\ Head(line) \notin ToSet(Tail(line))
           /\ link # "closed"
<1>1. line \in Seq(User) /\ IsInjective(line)
  BY DEF LineInv, Line
<1> DEFINE h == Head(line)
           rest == Tail(line)
<1>2. /\ h \in ToSet(line) /\ rest \in Seq(User)
      /\ ToSet(line) = ToSet(rest) \cup {h}
      /\ IsInjective(rest) /\ h \notin ToSet(rest)
  BY <1>1, TailElements
<1>3. h \in User
  BY <1>1, <1>2 DEF ToSet
<1> HIDE DEF h, rest
<1>4. call[h].at \in Requests /\ Line(rest, call)
  BY <1>2 DEF LineInv, Line
<1> QED BY <1>2, <1>3, <1>4 DEF LineInv, h, rest

SessionInv == CacheInv /\ LineInv

(* What the session does.                                                  *)
LEMMA SessionMoves ==
    ASSUME SessionInv, [Next]_vars
    PROVE  CacheMoves /\ LineInv'
<1> DEFINE Good == CacheMoves /\ LineInv'
<1> USE DEF SessionInv
<1>1. ASSUME NEW c \in User, NEW rest, Moves(c, rest), link' = link,
             \/ rest = line /\ c \notin ToSet(line)
             \/ rest = Tail(line) /\ line # <<>> /\ c = Head(line)
      PROVE  Good
  <2>1. Line(rest, call) /\ c \notin ToSet(rest) /\ (link = "closed" => rest = <<>>)
    BY <1>1, BehindHead DEF LineInv
  <2> QED BY <1>1, <2>1, GoesKeepsLine DEF Moves, LineInv
<1>2. \A c \in ToSet(line) : call[c].at \in Requests
  BY DEF LineInv, Line
<1>3. ASSUME NEW c \in User, Call(c) PROVE Good
  <2>1. c \notin ToSet(line) /\ link' = link
    BY <1>2, <1>3 DEF Call, Requests
  <2>2. UNCHANGED cached /\ \E new : Goes(c, new, line)
    BY <1>3 DEF Call
  <2> QED BY <1>1, <2>1, <2>2, StillMoves
<1>4. ASSUME NEW c \in User, Work(c) PROVE Good
  <2>1. c \notin ToSet(line) /\ link' = link
    BY <1>2, <1>4 DEF Work, Requests
  <2>2. \/ \E k : Execute(c, k, line)
        \/ UNCHANGED cached /\ \E new : Goes(c, new, line)
    <3>1. Run(c) => \E k : Execute(c, k, line)
      BY DEF Run
    <3>2. Enter(c) => \E k : Execute(c, k, line)
      BY DEF Enter
    <3>3. Resolve(c) => \/ \E k : Execute(c, k, line)
                        \/ UNCHANGED cached /\ \E new : Goes(c, new, line)
      BY DEF Resolve
    <3>4. Reject(c) => \/ \E k : Execute(c, k, line)
                       \/ UNCHANGED cached /\ \E new : Goes(c, new, line)
      BY DEF Reject
    <3> QED BY <1>4, <3>1, <3>2, <3>3, <3>4 DEF Work
  <2>3. Moves(c, line)
    BY <2>2, StillMoves, NewStatementMoves
  <2> QED BY <1>1, <2>1, <2>3
<1>5. ASSUME UNCHANGED <<call, line, link>>, CacheMoves PROVE Good
  BY <1>5 DEF LineInv, Line
<1>6. ASSUME NEW c \in User, GiveBack(c) \/ Abort(c) PROVE Good
  <2>1. UNCHANGED <<call, line, link>>
    BY <1>6 DEF GiveBack, Abort
  <2>2. CacheMoves
    BY <1>6, CacheMovesBy DEF GiveBack, Abort
  <2> QED BY <1>5, <2>1, <2>2
<1>7. ASSUME NEW c \in User, Refuse(c) PROVE Good
  <2>1. link = "closed" /\ line = <<>> /\ call[c].at \in Requests /\ link' = link
    BY <1>7 DEF Refuse, LineInv
  <2>2. c \notin ToSet(line)
    BY <2>1 DEF ToSet
  <2>3. Moves(c, line)
    BY <1>7, <2>1, AnsweredMoves DEF Refuse
  <2> QED BY <1>1, <2>1, <2>2, <2>3
<1>8. ASSUME NEW good \in BOOLEAN, line # <<>>, Answered(Head(line), good, Tail(line)),
             link' = link
      PROVE  Good
  <2>1. Head(line) \in User /\ call[Head(line)].at \in Requests
    BY <1>8, BehindHead
  <2>2. Moves(Head(line), Tail(line))
    BY <1>8, <2>1, AnsweredMoves
  <2> QED BY <1>1, <1>8, <2>1, <2>2
<1>9. ASSUME NEW good \in BOOLEAN, Answer(good) PROVE Good
  BY <1>8, <1>9 DEF Answer
<1>10. ASSUME Cancelled PROVE Good
  <2>1. CASE line # <<>> /\ Answered(Head(line), FALSE, Tail(line))
    BY <1>8, <1>10, <2>1 DEF Cancelled
  <2>2. CASE UNCHANGED <<cached, call, line>>
    BY <1>5, <1>10, <2>2 DEF Cancelled, CacheMoves
  <2> QED BY <1>10, <2>1, <2>2 DEF Cancelled
<1>11. ASSUME Lost PROVE Good
  <2>1. line' = <<>> /\ call' = call /\ UNCHANGED cached
    BY <1>11 DEF Lost
  <2>2. <<>> \in Seq(User) /\ ToSet(<<>>) = {} /\ IsInjective(<<>>)
    BY DEF ToSet, IsInjective
  <2> QED BY <2>1, <2>2 DEF LineInv, Line, CacheMoves
<1>12. CASE UNCHANGED vars
  BY <1>5, <1>12 DEF vars, CacheMoves
<1> QED BY <1>3, <1>4, <1>6, <1>7, <1>9, <1>10, <1>11, <1>12 DEF Next

(* The invariant of a session is inductive.                                *)
LEMMA SessionInvariant == Spec => []SessionInv
<1>1. Init => SessionInv
  <2>1. ASSUME Init PROVE CacheInv
    BY <2>1, CacheStarts DEF Init
  <2>2. ASSUME Init PROVE LineInv
    <3>1. line = <<>> /\ DOMAIN call = User
      BY <2>2 DEF Init
    <3>2. <<>> \in Seq(User) /\ ToSet(<<>>) = {} /\ IsInjective(<<>>)
      BY DEF ToSet, IsInjective
    <3> QED BY <3>1, <3>2 DEF LineInv, Line
  <2> QED BY <2>1, <2>2 DEF SessionInv
<1>2. SessionInv /\ [Next]_vars => SessionInv'
  <2> SUFFICES ASSUME SessionInv, [Next]_vars PROVE SessionInv'
    OBVIOUS
  <2>1. CacheMoves /\ LineInv'
    BY SessionMoves
  <2>2. CacheInv'
    BY <2>1, CacheGoesOn DEF SessionInv, CacheMoves
  <2> QED BY <2>1, <2>2 DEF SessionInv
<1> QED BY <1>1, <1>2, PTL DEF Spec

(* The session implements the statement cache: whatever fails, whoever     *)
(* aborts, the helpers take, give back and drop as the cache allows        *)
(* (connection.ts:221-262).                                                *)
THEOREM SessionImplementsCache == Spec => CacheSpec
<1>1. Init => CacheInit
  BY DEF Init
<1>2. SessionInv /\ [Next]_vars => [CacheNext]_cached
  <2> SUFFICES ASSUME SessionInv, [Next]_vars PROVE [CacheNext]_cached
    OBVIOUS
  <2> QED BY SessionMoves DEF CacheMoves
<1> QED BY <1>1, <1>2, SessionInvariant, PTL DEF Spec, CacheSpec

(* Hence no two calls of a session share a statement.                      *)
THEOREM SessionInOnePlace == Spec => []InOnePlace
BY SessionImplementsCache, CacheInOnePlace, PTL

-----------------------------------------------------------------------------
(* Savepoints.  The log of a transaction at the server, by what comes      *)
(* before what in it; a savepoint is in it once.                           *)
SP(d) == Entry("savepoint", d)
CH(n) == Entry("change", n)
Entries == [what : {"savepoint", "change"}, n : Nat]

Before(l, a, b) == \E i, j \in DOMAIN l : i < j /\ l[i] = a /\ l[j] = b
Once(l) == \A i, j \in DOMAIN l : l[i] = l[j] /\ ~IsChange(l[i]) => i = j

(* What a client that has entered m savepoints holds true of the log: they *)
(* are in it, in order; s is the changes before the first, between two of  *)
(* them, and behind the last.  The log may have other savepoints that the  *)
(* client has left.                                                        *)
InScope(n, s, d) == \E j \in 1..d : n \in s[j]

Agree(l, s, m) ==
    /\ Once(l)
    /\ \A d \in 1..m : SP(d) \in ToSet(l)
    /\ \A d, e \in 1..m : d < e => Before(l, SP(d), SP(e))
    /\ \A d \in 1..m : \A n \in Nat : Before(l, CH(n), SP(d)) <=> InScope(n, s, d)
    /\ \A n \in Nat : CH(n) \in ToSet(l) <=> InScope(n, s, m + 1)

(* Entries differ as they look.                                            *)
LEMMA EntriesDiffer ==
    /\ \A d, n \in Nat : /\ SP(d) \in Entries /\ CH(n) \in Entries
                         /\ SP(d) # CH(n) /\ ~IsChange(SP(d)) /\ IsChange(CH(n))
                         /\ SP(d) = SP(n) <=> d = n
                         /\ CH(d) = CH(n) <=> d = n
    /\ \A e \in Entries : /\ IsChange(e) => e = CH(e.n)
                          /\ ~IsChange(e) => e = SP(e.n)
BY DEF SP, CH, Entries, Entry, IsChange

(* What is left when elements are removed keeps its order.                 *)
LEMMA BeforeWithout ==
    ASSUME NEW T, NEW l \in Seq(T), NEW S, NEW a, NEW b, a \notin S, b \notin S
    PROVE  Before(Without(l, S), a, b) <=> Before(l, a, b)
<1>01. PICK n \in Nat : \E f :
         Enumerates(f, n, l, S) /\ Without(l, S) = [k \in 1..n |-> l[f[k]]]
  BY WithoutEnumeration
<1>1. PICK f :
         Enumerates(f, n, l, S) /\ Without(l, S) = [k \in 1..n |-> l[f[k]]]
  BY <1>01
<1> DEFINE w == [k \in 1..n |-> l[f[k]]]
<1>2. /\ f \in [1..n -> Kept(l, S)] /\ \A i, j \in 1..n : i < j => f[i] < f[j]
      /\ \A p \in Kept(l, S) : \E k \in 1..n : f[k] = p
  BY <1>1 DEF Enumerates
<1>3. /\ \A p \in Kept(l, S) : p \in DOMAIN l /\ p \in Nat
      /\ \A p \in DOMAIN l : l[p] \notin S => p \in Kept(l, S)
  BY LenProperties DEF Kept
<1>4. DOMAIN w = 1..n /\ \A k \in 1..n : w[k] = l[f[k]]
  OBVIOUS
<1> HIDE DEF w
<1>5. ASSUME Before(w, a, b) PROVE Before(l, a, b)
  <2>1. PICK i, j \in 1..n : i < j /\ w[i] = a /\ w[j] = b
    BY <1>4, <1>5 DEF Before
  <2>2. f[i] \in DOMAIN l /\ f[j] \in DOMAIN l /\ f[i] < f[j]
    BY <1>2, <1>3, <2>1
  <2>3. l[f[i]] = a /\ l[f[j]] = b
    BY <1>4, <2>1
  <2> QED BY <2>2, <2>3 DEF Before
<1>6. ASSUME Before(l, a, b) PROVE Before(w, a, b)
  <2>1. PICK p, q \in DOMAIN l : p < q /\ l[p] = a /\ l[q] = b
    BY <1>6 DEF Before
  <2>2. p \in Kept(l, S) /\ q \in Kept(l, S)
    BY <1>3, <2>1
  <2>3. PICK i \in 1..n : f[i] = p
    BY <1>2, <2>2
  <2>4. PICK j \in 1..n : f[j] = q
    BY <1>2, <2>2
  <2>5. i < j
    <3>1. i # j
      <4>1. p \in Nat /\ q \in Nat
        BY <1>3, <2>2
      <4>2. p # q
        BY <2>1, <4>1
      <4> QED BY <2>3, <2>4, <4>2
    <3>2. ~(j < i)
      <4>1. p \in Nat /\ q \in Nat
        BY <1>3, <2>2
      <4>2. j < i => q < p
        BY <1>2, <2>3, <2>4
      <4> QED BY <2>1, <4>1, <4>2
    <3> QED BY <3>1, <3>2
  <2>6. w[i] = a /\ w[j] = b
    BY <1>4, <2>1, <2>3, <2>4
  <2> QED BY <1>4, <2>5, <2>6 DEF Before
<1> QED BY <1>1, <1>5, <1>6 DEF w

(* And a savepoint that is in it once stays so.                            *)
LEMMA OnceWithout ==
    ASSUME NEW T, NEW l \in Seq(T), NEW S, Once(l)
    PROVE  Once(Without(l, S))
<1>01. PICK n \in Nat : \E f :
         Enumerates(f, n, l, S) /\ Without(l, S) = [k \in 1..n |-> l[f[k]]]
  BY WithoutEnumeration
<1>1. PICK f :
         Enumerates(f, n, l, S) /\ Without(l, S) = [k \in 1..n |-> l[f[k]]]
  BY <1>01
<1> DEFINE w == [k \in 1..n |-> l[f[k]]]
<1>2. /\ f \in [1..n -> Kept(l, S)] /\ \A i, j \in 1..n : i < j => f[i] < f[j]
  BY <1>1 DEF Enumerates
<1>3. \A p \in Kept(l, S) : p \in DOMAIN l /\ p \in Nat
  BY LenProperties DEF Kept
<1>4. DOMAIN w = 1..n /\ \A k \in 1..n : w[k] = l[f[k]]
  OBVIOUS
<1> HIDE DEF w
<1>5. ASSUME NEW i \in 1..n, NEW j \in 1..n, w[i] = w[j], ~IsChange(w[i])
      PROVE  i = j
  <2>1. f[i] \in DOMAIN l /\ f[j] \in DOMAIN l /\ f[i] \in Nat
    BY <1>2, <1>3
  <2>2. f[i] = f[j]
    <3>1. l[f[i]] = l[f[j]] /\ ~IsChange(l[f[i]])
      BY <1>4, <1>5
    <3> QED BY <2>1, <3>1 DEF Once
  <2>3. ~(i < j) /\ ~(j < i)
    <3>1. ~(f[i] < f[j]) /\ ~(f[j] < f[i])
      BY <2>1, <2>2
    <3> QED BY <1>2, <3>1
  <2> QED BY <2>3
<1> QED BY <1>1, <1>4, <1>5 DEF Once, w

(* An element at the end comes behind all that were there.                 *)
LEMMA BeforeAppend ==
    ASSUME NEW T, NEW l \in Seq(T), NEW x \in T, NEW a, NEW b
    PROVE  Before(Append(l, x), a, b) <=> Before(l, a, b) \/ (a \in ToSet(l) /\ b = x)
<1> DEFINE t == Append(l, x)
           n == Len(l)
<1>1. /\ n \in Nat /\ DOMAIN l = 1..n /\ DOMAIN t = 1..(n + 1)
      /\ t[n + 1] = x /\ \A i \in 1..n : t[i] = l[i]
  <2>1. t \in Seq(T) /\ Len(t) = n + 1
    BY AppendProperties
  <2> QED BY <2>1, LenProperties, AppendProperties
<1> HIDE DEF t, n
<1>2. ASSUME Before(t, a, b) PROVE Before(l, a, b) \/ (a \in ToSet(l) /\ b = x)
  <2>1. PICK i, j \in 1..(n + 1) : i < j /\ t[i] = a /\ t[j] = b
    BY <1>1, <1>2 DEF Before
  <2>2. i \in 1..n /\ (j \in 1..n \/ j = n + 1)
    BY <1>1, <2>1
  <2>3. CASE j \in 1..n
    BY <1>1, <2>1, <2>2, <2>3 DEF Before
  <2>4. CASE j = n + 1
    BY <1>1, <2>1, <2>2, <2>4 DEF ToSet
  <2> QED BY <2>2, <2>3, <2>4
<1>3. ASSUME Before(l, a, b) PROVE Before(t, a, b)
  <2>1. PICK i, j \in 1..n : i < j /\ l[i] = a /\ l[j] = b
    BY <1>1, <1>3 DEF Before
  <2>2. i \in 1..(n + 1) /\ j \in 1..(n + 1)
    BY <1>1, <2>1
  <2> QED BY <1>1, <2>1, <2>2 DEF Before
<1>4. ASSUME a \in ToSet(l), b = x PROVE Before(t, a, b)
  <2>1. PICK i \in 1..n : l[i] = a
    BY <1>1, <1>4 DEF ToSet
  <2>2. i \in 1..(n + 1) /\ n + 1 \in 1..(n + 1) /\ i < n + 1
    BY <1>1, <2>1
  <2> QED BY <1>1, <1>4, <2>1, <2>2 DEF Before
<1> QED BY <1>2, <1>3, <1>4 DEF t

(* A change, or a savepoint of a name that is not in use, at the end.      *)
LEMMA OnceAppend ==
    ASSUME NEW T, NEW l \in Seq(T), NEW x \in T, Once(l), IsChange(x) \/ x \notin ToSet(l)
    PROVE  Once(Append(l, x))
<1> DEFINE t == Append(l, x)
           n == Len(l)
<1>1. /\ n \in Nat /\ DOMAIN l = 1..n /\ DOMAIN t = 1..(n + 1)
      /\ t[n + 1] = x /\ \A i \in 1..n : t[i] = l[i]
  <2>1. t \in Seq(T) /\ Len(t) = n + 1
    BY AppendProperties
  <2> QED BY <2>1, LenProperties, AppendProperties
<1> HIDE DEF t, n
<1>2. ASSUME NEW i \in 1..(n + 1), NEW j \in 1..(n + 1), t[i] = t[j], ~IsChange(t[i])
      PROVE  i = j
  <2>1. (i \in 1..n \/ i = n + 1) /\ (j \in 1..n \/ j = n + 1)
    BY <1>1
  <2>2. CASE i \in 1..n /\ j \in 1..n
    BY <1>1, <1>2, <2>2 DEF Once
  <2>3. CASE i = n + 1 /\ j \in 1..n
    <3>1. ~IsChange(x) /\ l[j] = x /\ l[j] \in ToSet(l)
      BY <1>1, <1>2, <2>3 DEF ToSet
    <3> QED BY <3>1
  <2>4. CASE i \in 1..n /\ j = n + 1
    <3>1. ~IsChange(x) /\ l[i] = x /\ l[i] \in ToSet(l)
      BY <1>1, <1>2, <2>4 DEF ToSet
    <3> QED BY <3>1
  <2> QED BY <2>1, <2>2, <2>3, <2>4
<1> QED BY <1>1, <1>2 DEF Once, t

(* The log up to the savepoint d: what came before it, and itself.         *)
UpToMark(l, d) == SubSeq(l, 1, Mark(l, d))

(* It keeps its order.                                                     *)
LEMMA LogUpToMark ==
    ASSUME NEW l \in Seq(Entries), Once(l), NEW d \in Nat, SP(d) \in ToSet(l)
    PROVE  /\ UpToMark(l, d) \in Seq(Entries) /\ Once(UpToMark(l, d))
           /\ \A a : a \in ToSet(UpToMark(l, d)) <=> a = SP(d) \/ Before(l, a, SP(d))
           /\ \A a, b : ~IsChange(b) => (Before(UpToMark(l, d), a, b)
                <=> Before(l, a, b) /\ (b = SP(d) \/ Before(l, b, SP(d))))
<1> DEFINE m == Mark(l, d)
           n == Len(l)
           t == UpToMark(l, d)
<1>t. t = SubSeq(l, 1, m)
  BY DEF UpToMark
<1> HIDE DEF t
<1>0. ~IsChange(SP(d))
  BY EntriesDiffer
<1>1. /\ n \in Nat /\ DOMAIN l = 1..n /\ \A i \in 1..n : l[i] \in Entries
  BY LenProperties
<1>2. m \in 1..n /\ l[m] = SP(d)
  <2>1. \E i \in DOMAIN l : l[i] = Entry("savepoint", d)
    BY DEF ToSet, SP
  <2> QED BY <1>1, <2>1 DEF Mark, SP
<1> HIDE DEF n, m
<1>3. \A j \in 1..n : l[j] = SP(d) => j = m
  BY <1>0, <1>1, <1>2 DEF Once
<1>4. /\ t \in Seq(Entries) /\ Len(t) = m
      /\ \A i \in 1..m : t[i] = l[i]
  <2>1. 1 \in Int /\ m \in Int /\ 1 <= m /\ \A i \in 1..m : i \in 1..n
    BY <1>1, <1>2
  <2>2. t = SubSeq(l, 1, m)
    BY <1>t DEF m
  <2>3. \A i \in 1..m : l[i] \in Entries
    BY <1>1, <2>1
  <2>4. /\ SubSeq(l, 1, m) \in Seq(Entries)
        /\ Len(SubSeq(l, 1, m)) = IF 1 <= m THEN m - 1 + 1 ELSE 0
        /\ \A i \in 1..(m - 1 + 1) : SubSeq(l, 1, m)[i] = l[1 + i - 1]
    BY <2>1, <2>3, SubSeqProperties
  <2>5. m - 1 + 1 = m /\ \A i \in 1..m : 1 + i - 1 = i
    BY <2>1
  <2>6. \A i \in 1..m : SubSeq(l, 1, m)[i] = l[i]
    BY <2>4, <2>5
  <2> QED BY <2>1, <2>2, <2>4, <2>5, <2>6
<1>5. DOMAIN t = 1..m /\ \A i \in 1..m : i \in 1..n /\ t[i] = l[i]
  <2>1. DOMAIN t = 1..Len(t)
    BY <1>4, LenProperties
  <2> QED BY <1>1, <1>2, <1>4, <2>1
<1>6. Once(t)
  BY <1>1, <1>5 DEF Once
<1>7. ASSUME NEW a, NEW i \in 1..m, l[i] = a PROVE a = SP(d) \/ Before(l, a, SP(d))
  <2>1. i = m \/ i < m
    BY <1>1, <1>2
  <2>2. CASE i < m
    BY <1>1, <1>2, <1>5, <1>7, <2>2 DEF Before
  <2> QED BY <1>2, <1>7, <2>1, <2>2
<1>8. ASSUME NEW a, Before(l, a, SP(d)) PROVE \E i \in 1..m : i < m /\ l[i] = a
  <2>1. PICK i, j \in 1..n : i < j /\ l[i] = a /\ l[j] = SP(d)
    BY <1>1, <1>8 DEF Before
  <2>2. j = m
    BY <1>3, <2>1
  <2>3. i \in 1..m
    BY <1>1, <2>1, <2>2
  <2> QED BY <2>1, <2>2, <2>3
<1>9. ASSUME NEW a PROVE a \in ToSet(t) <=> a = SP(d) \/ Before(l, a, SP(d))
  <2>1. a \in ToSet(t) <=> \E i \in 1..m : l[i] = a
    BY <1>5 DEF ToSet
  <2>2. m \in 1..m
    BY <1>1, <1>2
  <2> QED BY <1>2, <1>7, <1>8, <2>1, <2>2
<1>10. ASSUME NEW a, NEW b, ~IsChange(b), Before(t, a, b)
       PROVE  Before(l, a, b) /\ (b = SP(d) \/ Before(l, b, SP(d)))
  <2>1. PICK i, j \in 1..m : i < j /\ l[i] = a /\ l[j] = b
    BY <1>5, <1>10 DEF Before
  <2>2. Before(l, a, b)
    BY <1>1, <1>5, <2>1 DEF Before
  <2> QED BY <1>7, <2>1, <2>2
<1>11. ASSUME NEW a, NEW b, ~IsChange(b), Before(l, a, b),
              b = SP(d) \/ Before(l, b, SP(d))
       PROVE  Before(t, a, b)
  <2>1. PICK i, j \in 1..n : i < j /\ l[i] = a /\ l[j] = b
    BY <1>1, <1>11 DEF Before
  <2>2. j \in 1..m
    <3>1. CASE b = SP(d)
      BY <1>2, <1>3, <2>1, <3>1
    <3>2. CASE Before(l, b, SP(d))
      <4>1. PICK k \in 1..m : k < m /\ l[k] = b
        BY <1>8, <3>2
      <4>2. k = j
        BY <1>1, <1>5, <1>11, <2>1, <4>1 DEF Once
      <4> QED BY <4>2
    <3> QED BY <1>11, <3>1, <3>2
  <2>3. i \in 1..m
    <3>1. i \in 1..n /\ i < j /\ j \in 1..m
      BY <2>1, <2>2
    <3>2. m \in Nat /\ n \in Nat
      BY <1>1, <1>2
    <3> QED BY <3>1, <3>2
  <2> QED BY <1>5, <2>1, <2>2, <2>3 DEF Before
<1> QED BY <1>4, <1>6, <1>9, <1>10, <1>11 DEF t

(* Rolled back to its innermost savepoint, the log has what the client     *)
(* keeps.                                                                  *)
LEMMA AgreeUndo ==
    ASSUME NEW l \in Seq(Entries), NEW m \in Nat \ {0}, NEW s, NEW z, Agree(l, s, m),
           \A j \in 1..m : z[j] = s[j]
    PROVE  UpToMark(l, m) \in Seq(Entries) /\ Agree(UpToMark(l, m), z, m - 1)
<1> DEFINE t == UpToMark(l, m)
<1>1. /\ m \in 1..m /\ m - 1 \in Nat
      /\ \A d \in 1..(m - 1) : d \in 1..m /\ d \in Nat /\ d < m /\ d # m
      /\ (m - 1) + 1 = m
  OBVIOUS
<1>2. /\ t \in Seq(Entries) /\ Once(t)
      /\ \A a : a \in ToSet(t) <=> a = SP(m) \/ Before(l, a, SP(m))
      /\ \A a, b : ~IsChange(b) => (Before(t, a, b)
            <=> Before(l, a, b) /\ (b = SP(m) \/ Before(l, b, SP(m))))
  <2>1. Once(l) /\ SP(m) \in ToSet(l)
    BY <1>1 DEF Agree
  <2>2. m \in Nat
    OBVIOUS
  <2> QED BY <2>1, <2>2, LogUpToMark
<1> HIDE DEF t
<1>3. ASSUME NEW d \in 1..(m - 1) PROVE Before(l, SP(d), SP(m)) /\ ~IsChange(SP(d))
  BY <1>1, EntriesDiffer DEF Agree
<1>4. \A d \in 1..m : \A n \in Nat : InScope(n, z, d) <=> InScope(n, s, d)
  <2>1. \A d \in 1..m : \A j \in 1..d : z[j] = s[j]
    OBVIOUS
  <2> QED BY <2>1 DEF InScope
<1>5. \A d \in 1..(m - 1) : SP(d) \in ToSet(t)
  BY <1>2, <1>3
<1>6. ASSUME NEW d \in 1..(m - 1), NEW e \in 1..(m - 1), d < e
      PROVE  Before(t, SP(d), SP(e))
  <2>1. Before(l, SP(d), SP(e))
    BY <1>1, <1>6 DEF Agree
  <2> QED BY <1>2, <1>3, <2>1
<1>7. ASSUME NEW d \in 1..(m - 1), NEW n \in Nat
      PROVE  Before(t, CH(n), SP(d)) <=> InScope(n, z, d)
  <2>1. Before(t, CH(n), SP(d)) <=> Before(l, CH(n), SP(d))
    BY <1>2, <1>3
  <2>2. Before(l, CH(n), SP(d)) <=> InScope(n, s, d)
    BY <1>1 DEF Agree
  <2> QED BY <1>1, <1>4, <2>1, <2>2
<1>8. ASSUME NEW n \in Nat
      PROVE  CH(n) \in ToSet(t) <=> InScope(n, z, (m - 1) + 1)
  <2>1. CH(n) # SP(m)
    BY EntriesDiffer
  <2>2. CH(n) \in ToSet(t) <=> Before(l, CH(n), SP(m))
    BY <1>2, <2>1
  <2>3. Before(l, CH(n), SP(m)) <=> InScope(n, s, m)
    BY <1>1 DEF Agree
  <2> QED BY <1>1, <1>4, <2>2, <2>3
<1> QED BY <1>2, <1>5, <1>6, <1>7, <1>8 DEF Agree, t

(* A client that leaves a savepoint without a rollback keeps its changes.  *)
LEMMA AgreeMerged ==
    ASSUME NEW l, NEW m \in Nat \ {0}, NEW s, NEW z, Agree(l, s, m),
           \A j \in 1..(m - 1) : z[j] = s[j], z[m] = s[m] \cup s[m + 1]
    PROVE  Agree(l, z, m - 1)
<1>1. /\ \A d \in 1..(m - 1) : d \in 1..m
      /\ \A d \in 1..(m - 1) : \A j \in 1..d : j \in 1..(m - 1)
      /\ (m - 1) + 1 = m
  OBVIOUS
<1>2. ASSUME NEW d \in 1..(m - 1), NEW n \in Nat
      PROVE  InScope(n, z, d) <=> InScope(n, s, d)
  BY <1>1 DEF InScope
<1>3. ASSUME NEW n \in Nat PROVE InScope(n, z, m) <=> InScope(n, s, m + 1)
  <2>1. /\ \A j \in 1..m : j \in 1..(m - 1) \/ j = m
        /\ \A j \in 1..(m + 1) : j \in 1..(m - 1) \/ j = m \/ j = m + 1
        /\ \A j \in 1..(m - 1) : j \in 1..m /\ j \in 1..(m + 1)
        /\ m \in 1..m /\ m \in 1..(m + 1) /\ m + 1 \in 1..(m + 1)
    OBVIOUS
  <2>2. ASSUME InScope(n, z, m) PROVE InScope(n, s, m + 1)
    <3>1. PICK j \in 1..m : n \in z[j]
      BY <2>2 DEF InScope
    <3>2. CASE j \in 1..(m - 1)
      BY <2>1, <3>1, <3>2 DEF InScope
    <3>3. CASE j = m
      BY <2>1, <3>1, <3>3 DEF InScope
    <3> QED BY <2>1, <3>2, <3>3
  <2>3. ASSUME InScope(n, s, m + 1) PROVE InScope(n, z, m)
    <3>1. PICK j \in 1..(m + 1) : n \in s[j]
      BY <2>3 DEF InScope
    <3>2. CASE j \in 1..(m - 1)
      BY <2>1, <3>1, <3>2 DEF InScope
    <3>3. CASE j = m \/ j = m + 1
      BY <2>1, <3>1, <3>3 DEF InScope
    <3> QED BY <2>1, <3>2, <3>3
  <2> QED BY <2>2, <2>3
<1>4. /\ Once(l)
      /\ \A d \in 1..(m - 1) : SP(d) \in ToSet(l)
      /\ \A d, e \in 1..(m - 1) : d < e => Before(l, SP(d), SP(e))
  BY <1>1 DEF Agree
<1>5. ASSUME NEW d \in 1..(m - 1), NEW n \in Nat
      PROVE  Before(l, CH(n), SP(d)) <=> InScope(n, z, d)
  BY <1>1, <1>2 DEF Agree
<1>6. ASSUME NEW n \in Nat PROVE CH(n) \in ToSet(l) <=> InScope(n, z, (m - 1) + 1)
  BY <1>1, <1>3 DEF Agree
<1> QED BY <1>4, <1>5, <1>6 DEF Agree

(* Removing savepoints that the client has left changes nothing for it.    *)
LEMMA AgreeWithout ==
    ASSUME NEW l \in Seq(Entries), NEW m \in Nat, NEW s, Agree(l, s, m),
           NEW S, \A n \in Nat : CH(n) \notin S, \A d \in 1..m : SP(d) \notin S
    PROVE  Without(l, S) \in Seq(Entries) /\ Agree(Without(l, S), s, m)
<1> DEFINE t == Without(l, S)
<1>1. t \in Seq(Entries) /\ ToSet(t) = ToSet(l) \ S /\ Once(t)
  BY WithoutProperties, OnceWithout DEF Agree
<1>2. \A a, b : a \notin S /\ b \notin S => (Before(t, a, b) <=> Before(l, a, b))
  BY BeforeWithout
<1> HIDE DEF t
<1>3. ASSUME NEW d \in 1..m PROVE SP(d) \in ToSet(t)
  BY <1>1 DEF Agree
<1>4. ASSUME NEW d \in 1..m, NEW e \in 1..m, d < e PROVE Before(t, SP(d), SP(e))
  BY <1>2, <1>4 DEF Agree
<1>5. ASSUME NEW d \in 1..m, NEW n \in Nat
      PROVE  Before(t, CH(n), SP(d)) <=> InScope(n, s, d)
  BY <1>2 DEF Agree
<1>6. ASSUME NEW n \in Nat PROVE CH(n) \in ToSet(t) <=> InScope(n, s, m + 1)
  BY <1>1 DEF Agree
<1> QED BY <1>1, <1>3, <1>4, <1>5, <1>6 DEF Agree, t

(* A change goes behind the innermost savepoint.                           *)
LEMMA AgreeChange ==
    ASSUME NEW l \in Seq(Entries), NEW m \in Nat, NEW s, NEW z, Agree(l, s, m),
           NEW x \in Nat, \A j \in 1..m : z[j] = s[j], z[m + 1] = s[m + 1] \cup {x}
    PROVE  Append(l, CH(x)) \in Seq(Entries) /\ Agree(Append(l, CH(x)), z, m)
<1> DEFINE t == Append(l, CH(x))
<1>1. CH(x) \in Entries /\ IsChange(CH(x))
  BY EntriesDiffer
<1>2. t \in Seq(Entries) /\ ToSet(t) = ToSet(l) \cup {CH(x)}
  BY <1>1, AppendElements
<1>3. Once(t)
  BY <1>1, OnceAppend DEF Agree
<1>4. \A a, b : Before(t, a, b) <=> Before(l, a, b) \/ (a \in ToSet(l) /\ b = CH(x))
  BY <1>1, BeforeAppend
<1> HIDE DEF t
<1>5. ASSUME NEW d \in 1..m, NEW a PROVE Before(t, a, SP(d)) <=> Before(l, a, SP(d))
  <2>1. SP(d) # CH(x)
    BY EntriesDiffer
  <2> QED BY <1>4, <2>1
<1>6. /\ \A d \in 1..m : SP(d) \in ToSet(t)
      /\ \A d, e \in 1..m : d < e => Before(t, SP(d), SP(e))
  BY <1>2, <1>5 DEF Agree
<1>7. ASSUME NEW d \in 1..m, NEW n \in Nat
      PROVE  Before(t, CH(n), SP(d)) <=> InScope(n, z, d)
  <2>1. Before(l, CH(n), SP(d)) <=> InScope(n, s, d)
    BY DEF Agree
  <2>2. \A j \in 1..d : j \in 1..m
    OBVIOUS
  <2> QED BY <1>5, <2>1, <2>2 DEF InScope
<1>8. ASSUME NEW n \in Nat PROVE CH(n) \in ToSet(t) <=> InScope(n, z, m + 1)
  <2>1. CH(n) \in ToSet(l) <=> InScope(n, s, m + 1)
    BY DEF Agree
  <2>2. CH(n) = CH(x) <=> n = x
    BY EntriesDiffer
  <2>3. InScope(n, z, m + 1) <=> InScope(n, s, m + 1) \/ n = x
    <3>1. /\ \A j \in 1..(m + 1) : j \in 1..m \/ j = m + 1
          /\ m + 1 \in 1..(m + 1) /\ \A j \in 1..m : j \in 1..(m + 1)
      OBVIOUS
    <3>2. ASSUME InScope(n, z, m + 1) PROVE InScope(n, s, m + 1) \/ n = x
      BY <3>1, <3>2 DEF InScope
    <3>3. ASSUME InScope(n, s, m + 1) PROVE InScope(n, z, m + 1)
      <4>1. PICK j \in 1..(m + 1) : n \in s[j]
        BY <3>3 DEF InScope
      <4>2. n \in z[j]
        BY <3>1, <4>1
      <4> QED BY <4>2 DEF InScope
    <3>4. ASSUME n = x PROVE InScope(n, z, m + 1)
      BY <3>1, <3>4 DEF InScope
    <3> QED BY <3>2, <3>3, <3>4
  <2> QED BY <1>2, <2>1, <2>2, <2>3
<1> QED BY <1>2, <1>3, <1>6, <1>7, <1>8 DEF Agree, t

(* A savepoint goes behind all, and the one of its name goes.              *)
Renewed(l, x) == Append(Without(l, {x}), x)

(* So the client has one savepoint more, with no changes in it.            *)
LEMMA AgreeSavepoint ==
    ASSUME NEW l \in Seq(Entries), NEW m \in Nat, NEW s, NEW z, Agree(l, s, m),
           \A j \in 1..(m + 1) : z[j] = s[j], z[m + 2] = {},
           NEW x, x = SP(m + 1)
    PROVE  Renewed(l, x) \in Seq(Entries) /\ Agree(Renewed(l, x), z, m + 1)
<1> DEFINE w == Without(l, {x})
           t == Renewed(l, x)
<1>0. x \in Entries /\ ~IsChange(x) /\ \A n \in Nat : CH(n) # x
  <2>1. m + 1 \in Nat
    OBVIOUS
  <2> HIDE DEF w, t
  <2> QED BY <2>1, EntriesDiffer
<1>1. w \in Seq(Entries) /\ Agree(w, s, m)
  <2>1. \A n \in Nat : CH(n) \notin {x}
    BY <1>0
  <2>2. \A d \in 1..m : SP(d) \notin {x}
    <3> TAKE d \in 1..m
    <3>1. d \in Nat /\ m + 1 \in Nat /\ d # m + 1
      OBVIOUS
    <3> QED BY <3>1, EntriesDiffer
  <2> QED BY <2>1, <2>2, AgreeWithout
<1>2. x \notin ToSet(w)
  BY WithoutProperties
<1>3. t = Append(w, x)
  BY DEF Renewed
<1>4. \A d \in 1..m : SP(d) # x
  <2> TAKE d \in 1..m
  <2>1. d \in Nat /\ m + 1 \in Nat /\ d # m + 1
    OBVIOUS
  <2> QED BY <2>1, EntriesDiffer
<1>x. SP(m + 1) = x
  OBVIOUS
<1> HIDE DEF w, t
<1>5. t \in Seq(Entries) /\ ToSet(t) = ToSet(w) \cup {x}
  BY <1>0, <1>1, <1>3, AppendElements
<1>6. Once(t)
  BY <1>0, <1>1, <1>2, <1>3, OnceAppend DEF Agree
<1>7. \A a, b : Before(t, a, b)
                  <=> Before(w, a, b) \/ (a \in ToSet(w) /\ b = x)
  BY <1>0, <1>1, <1>3, BeforeAppend
<1>8. /\ \A d \in 1..(m + 1) : d \in 1..m \/ d = m + 1
      /\ m + 1 \in Nat /\ \A d \in 1..m : d \in Nat /\ d # m + 1
      /\ (m + 1) + 1 = m + 2
  OBVIOUS
<1>9. ASSUME NEW d \in 1..m, NEW a PROVE Before(t, a, SP(d)) <=> Before(w, a, SP(d))
  BY <1>4, <1>7
<1>10. ASSUME NEW a PROVE Before(t, a, x) <=> a \in ToSet(w)
  <2>1. ASSUME Before(w, a, x) PROVE FALSE
    <3>1. PICK j \in DOMAIN w : w[j] = x
      BY <2>1 DEF Before
    <3> QED BY <1>2, <3>1 DEF ToSet
  <2> QED BY <1>7, <2>1
<1>11. \A d \in 1..(m + 1) : SP(d) \in ToSet(t)
  BY <1>1, <1>5, <1>8, <1>x DEF Agree
<1>12. ASSUME NEW d \in 1..(m + 1), NEW e \in 1..(m + 1), d < e
       PROVE  Before(t, SP(d), SP(e))
  <2>1. d \in 1..m
    BY <1>12
  <2>2. CASE e \in 1..m
    BY <1>1, <1>9, <1>12, <2>1, <2>2 DEF Agree
  <2>3. CASE e = m + 1
    BY <1>1, <1>10, <1>x, <2>1, <2>3 DEF Agree
  <2> QED BY <1>8, <2>2, <2>3
<1>13. ASSUME NEW d \in 1..(m + 1), NEW n \in Nat
       PROVE  InScope(n, z, d) <=> InScope(n, s, d)
  <2>1. \A j \in 1..d : j \in 1..(m + 1)
    OBVIOUS
  <2> QED BY <2>1 DEF InScope
<1>14. ASSUME NEW d \in 1..(m + 1), NEW n \in Nat
       PROVE  Before(t, CH(n), SP(d)) <=> InScope(n, z, d)
  <2>1. CASE d \in 1..m
    BY <1>1, <1>9, <1>13, <2>1 DEF Agree
  <2>2. CASE d = m + 1
    BY <1>1, <1>10, <1>13, <1>x, <2>2 DEF Agree
  <2> QED BY <1>8, <2>1, <2>2
<1>15. ASSUME NEW n \in Nat
       PROVE  CH(n) \in ToSet(t) <=> InScope(n, z, (m + 1) + 1)
  <2>2. CH(n) \in ToSet(t) <=> InScope(n, s, m + 1)
    BY <1>0, <1>1, <1>5 DEF Agree
  <2>3. m + 1 \in 1..(m + 1)
    OBVIOUS
  <2>4. InScope(n, z, m + 2) <=> InScope(n, z, m + 1)
    <3>1. /\ \A j \in 1..(m + 2) : j \in 1..(m + 1) \/ j = m + 2
          /\ \A j \in 1..(m + 1) : j \in 1..(m + 2)
      OBVIOUS
    <3> QED BY <3>1 DEF InScope
  <2> QED BY <1>8, <1>13, <2>2, <2>3, <2>4
<1> QED BY <1>5, <1>6, <1>11, <1>12, <1>14, <1>15 DEF Agree, t

(* Released, the innermost savepoint and those behind it are gone from the *)
(* log, and the changes stay.                                              *)
LEMMA AgreeRelease ==
    ASSUME NEW l \in Seq(Entries), NEW m \in Nat \ {0}, NEW s, NEW z, Agree(l, s, m),
           \A j \in 1..(m - 1) : z[j] = s[j], z[m] = s[m] \cup s[m + 1],
           NEW S, S = {e \in ToSet(SubSeq(l, Mark(l, m), Len(l))) : ~IsChange(e)}
    PROVE  Without(l, S) \in Seq(Entries) /\ Agree(Without(l, S), z, m - 1)
<1> DEFINE p == Mark(l, m)
           n == Len(l)
           r == SubSeq(l, p, n)
<1>1. n \in Nat /\ DOMAIN l = 1..n /\ \A i \in 1..n : l[i] \in Entries
  BY LenProperties
<1>2. p \in 1..n /\ l[p] = SP(m)
  <2>1. SP(m) \in ToSet(l)
    BY DEF Agree
  <2>2. \E i \in DOMAIN l : l[i] = Entry("savepoint", m)
    BY <2>1 DEF ToSet, SP
  <2> QED BY <1>1, <2>2 DEF Mark, SP
<1>3. S = {e \in ToSet(r) : ~IsChange(e)}
  OBVIOUS
<1>4. \A e \in S : \E i \in 1..n : p <= i /\ l[i] = e
  <2> HIDE DEF p, n
  <2>1. p \in Int /\ n \in Int /\ p <= n /\ \A i \in p..n : i \in 1..n
    BY <1>1, <1>2
  <2>2. \A i \in p..n : l[i] \in Entries
    BY <1>1, <2>1
  <2>3. /\ r \in Seq(Entries) /\ Len(r) = n - p + 1
        /\ \A i \in 1..(n - p + 1) : r[i] = l[p + i - 1]
    BY <2>1, <2>2, SubSeqProperties
  <2> HIDE DEF r
  <2>4. DOMAIN r = 1..(n - p + 1)
    BY <2>3, LenProperties
  <2>5. ASSUME NEW e \in S PROVE \E i \in 1..n : p <= i /\ l[i] = e
    <3>1. PICK i \in 1..(n - p + 1) : r[i] = e
      BY <1>3, <2>4, <2>5 DEF ToSet
    <3>2. p + i - 1 \in 1..n /\ p <= p + i - 1
      BY <1>1, <1>2, <3>1
    <3> QED BY <2>3, <3>1, <3>2
  <2> QED BY <2>5
<1> HIDE DEF p, n, r
<1>5. \A k \in Nat : CH(k) \notin S
  BY <1>3, EntriesDiffer
<1>6. ASSUME NEW d \in 1..(m - 1) PROVE SP(d) \notin S
  <2> SUFFICES ASSUME SP(d) \in S PROVE FALSE
    OBVIOUS
  <2>1. d \in 1..m /\ m \in 1..m /\ d < m
    OBVIOUS
  <2>2. Before(l, SP(d), SP(m)) /\ Once(l)
    BY <2>1 DEF Agree
  <2>3. PICK i, j \in 1..n : i < j /\ l[i] = SP(d) /\ l[j] = SP(m)
    BY <1>1, <2>2 DEF Before
  <2>4. ~IsChange(SP(d)) /\ ~IsChange(SP(m))
    BY EntriesDiffer
  <2>5. j = p
    BY <1>1, <1>2, <2>2, <2>3, <2>4 DEF Once
  <2>6. PICK k \in 1..n : p <= k /\ l[k] = SP(d)
    BY <1>4
  <2>7. k = i
    BY <1>1, <2>2, <2>3, <2>4, <2>6 DEF Once
  <2> QED BY <1>1, <1>2, <2>3, <2>5, <2>6, <2>7
<1>7. Agree(l, z, m - 1)
  BY AgreeMerged
<1>8. m - 1 \in Nat
  OBVIOUS
<1> QED BY <1>5, <1>6, <1>7, <1>8, AgreeWithout

-----------------------------------------------------------------------------
(* What a call is like at each of its requests, what it has of the cache,  *)
(* and what it leaves of its transaction.                                  *)
Ats == {"idle", "begin", "work", "prepare", "execute", "fetch", "info",
        "commit", "rollback", "over"}
Running == {"prepare", "execute", "fetch", "info"}
Apis == {"none", "newStatement", "execute", "executeBatch", "withTransaction"}
Calls == [api : Apis, at : Ats, sql : Text \cup {NoCall.sql}, depth : 0..MaxDepth,
          runs : Nat, outcome : {"none", "ok", "error"}]

OfSavepoint(k) == k.sql.verb \in SavepointVerbs

(* Only savepoint() runs the texts of savepoints, the innermost one's.     *)
RunsWell(k) ==
    /\ k.api # "withTransaction" => k.depth = 0
    /\ OfSavepoint(k) => /\ k.api = "withTransaction" /\ k.depth > 0
                         /\ k.sql = Sql(k.sql.verb, k.depth)

Shape(k) ==
    /\ k.api # "withTransaction" => k.depth = 0
    /\ k.at = "work" => k.api = "withTransaction"
    /\ k.at \in Running => RunsWell(k)
    /\ k.at \in {"begin", "fetch", "info"} => ~OfSavepoint(k)
    /\ k.at \in {"execute", "fetch", "info"} => k.api # "newStatement"
    /\ k.at \in {"idle", "begin", "commit"} => k.depth = 0
    /\ k.at = "commit" => k.outcome = "ok"
    /\ k.at = "rollback" => k.outcome = "error"

(* The helper has its statement from when it is prepared or taken until it *)
(* is executed; only newStatement's is for its caller.                     *)
Has(k, h) ==
    /\ k.at \in {"idle", "begin", "prepare", "work"} => h = {}
    /\ k.at \in {"execute", "fetch", "info"} => \E s : h = {s}
    /\ k.at \in {"commit", "rollback", "over"} /\ k.api # "newStatement" => h = {}

Left(k, h, t, r, ln) ==
    /\ k.at \in {"idle", "begin"} => t # "open"
    /\ k.at = "over" /\ ln = "open" /\ t = "open" =>
          /\ k.api = "withTransaction" => "rollback" \in r
          /\ k.api = "newStatement" => r # {} \/ h = {}
          /\ k.api \notin {"withTransaction", "newStatement"} => r # {}

Fits(k, h, t, r, ln) == k \in Calls /\ Shape(k) /\ Has(k, h) /\ Left(k, h, t, r, ln)

CallsInv ==
    /\ DOMAIN call = User /\ DOMAIN tx = User /\ DOMAIN refused = User
    /\ \A c \in User : Fits(call[c], held[c], tx[c], refused[c], link)

(* How deep the scopes are of a call at k.  savepoint() counts its         *)
(* savepoint before the server has it.                                     *)
Level(k) == IF k.sql.verb = "savepoint" THEN k.depth ELSE k.depth + 1
LevelOf(k) == IF k.at \in Running THEN Level(k) ELSE k.depth + 1

(* A statement that runs well: its call may go on in these ways.           *)
LEMMA AfterFits ==
    ASSUME NEW k \in Calls, RunsWell(k), NEW good \in BOOLEAN
    PROVE  /\ After(k, good) \in Calls /\ Shape(After(k, good))
           /\ After(k, good).at \in {"work", "commit", "rollback"}
           /\ After(k, good).depth = IF Leaves(k, good) THEN k.depth - 1 ELSE k.depth
           /\ After(k, good).api = k.api
<1>1. MaxDepth \in Nat
  BY SessionAssumption
<1>2. Leaves(k, good) => OfSavepoint(k)
  BY DEF Leaves, OfSavepoint, SavepointVerbs
<1>3. Leaves(k, good) => k.depth > 0 /\ k.depth - 1 \in 0..MaxDepth
  BY <1>1, <1>2 DEF RunsWell, Calls
<1>4. CASE k.api = "withTransaction"
  <2>1. After(k, good) = [k EXCEPT !.at = "work",
                            !.depth = IF Leaves(k, good) THEN @ - 1 ELSE @]
    BY <1>4 DEF After
  <2>2. /\ After(k, good) \in Calls /\ After(k, good).at = "work"
        /\ After(k, good).api = "withTransaction"
        /\ After(k, good).depth = IF Leaves(k, good) THEN k.depth - 1 ELSE k.depth
    BY <1>3, <1>4, <2>1 DEF Calls, Ats
  <2>3. Shape(After(k, good))
    BY <2>2 DEF Shape, Running
  <2> QED BY <1>4, <2>2, <2>3
<1>5. CASE k.api # "withTransaction"
  <2>1. After(k, good) = [k EXCEPT !.at = IF good THEN "commit" ELSE "rollback",
                                   !.outcome = IF good THEN "ok" ELSE "error"]
    BY <1>5 DEF After
  <2>2. /\ After(k, good) \in Calls /\ After(k, good).api = k.api
        /\ After(k, good).depth = k.depth
        /\ After(k, good).at = IF good THEN "commit" ELSE "rollback"
        /\ After(k, good).outcome = IF good THEN "ok" ELSE "error"
    BY <2>1 DEF Calls, Ats
  <2>3. ~Leaves(k, good) /\ k.depth = 0
    BY <1>2, <1>5 DEF RunsWell
  <2>4. Shape(After(k, good))
    BY <1>5, <2>2, <2>3 DEF Shape, Running
  <2> QED BY <2>2, <2>3, <2>4
<1> QED BY <1>4, <1>5

(* Prepared or taken out of the cache, or to be prepared.                  *)
LEMMA PreparedFits ==
    ASSUME NEW k \in Calls, RunsWell(k)
    PROVE  /\ Prepared(k) \in Calls /\ Shape(Prepared(k))
           /\ Prepared(k).at = IF k.api = "newStatement" THEN "commit" ELSE "execute"
           /\ Prepared(k).depth = k.depth /\ Prepared(k).sql = k.sql
           /\ Prepared(k).api = k.api
           /\ [k EXCEPT !.at = "prepare"] \in Calls
           /\ Shape([k EXCEPT !.at = "prepare"])
<1>1. /\ Prepared(k) \in Calls /\ Prepared(k).api = k.api /\ Prepared(k).sql = k.sql
      /\ Prepared(k).depth = k.depth
      /\ Prepared(k).at = IF k.api = "newStatement" THEN "commit" ELSE "execute"
      /\ k.api = "newStatement" => Prepared(k).outcome = "ok"
  BY DEF Prepared, Calls, Ats
<1>2. Shape(Prepared(k))
  BY <1>1 DEF Shape, Running, RunsWell, OfSavepoint
<1> DEFINE p == [k EXCEPT !.at = "prepare"]
<1>3. /\ p \in Calls /\ p.at = "prepare" /\ p.api = k.api /\ p.sql = k.sql
      /\ p.depth = k.depth
  BY DEF Calls, Ats
<1> HIDE DEF p
<1>4. Shape(p)
  BY <1>3 DEF Shape, Running, RunsWell, OfSavepoint
<1> QED BY <1>1, <1>2, <1>3, <1>4 DEF p

(* The text of a savepoint is one of those that need no parameters.        *)
LEMMA SavepointText ==
    ASSUME NEW k \in Calls, RunsWell(k), OfSavepoint(k)
    PROVE  k.sql \in SavepointTexts
<1>1. k.depth \in 1..MaxDepth
  BY SessionAssumption DEF RunsWell, Calls
<1> QED BY <1>1 DEF RunsWell, OfSavepoint, SavepointTexts

(* Where a call is put that goes on in its own transaction, n scopes deep. *)
Landed(c, n) ==
    \E new \in Calls :
        /\ call' = [call EXCEPT ![c] = new]
        /\ Shape(new) /\ Has(new, held'[c]) /\ new.at \notin {"idle", "begin", "over"}
        /\ new.at = "rollback" \/ LevelOf(new) = n
        /\ \A d \in User \ {c} : held'[d] = held[d]

(* Transaction.newStatement and execute put it so.                         *)
LEMMA NewStatementLands ==
    ASSUME CacheInv, NEW c \in User, NEW k \in Calls, RunsWell(k), held[c] = {},
           NEW rest, NewStatement(c, k, rest)
    PROVE  Landed(c, Level(k))
<1>1. held \in Holders
  BY InvIsParts DEF Parts
<1>2. Level(k) = k.depth + 1 \/ OfSavepoint(k)
  BY DEF Level, OfSavepoint, SavepointVerbs
<1>3. CASE Take(c, k.sql) /\ Goes(c, Prepared(k), rest)
  <2>1. PICK s : held' = [held EXCEPT ![c] = @ \cup {s}]
    BY <1>3 DEF Take
  <2>2. held'[c] = {s} /\ \A d \in User \ {c} : held'[d] = held[d]
    BY <1>1, <2>1 DEF Holders
  <2>3. call' = [call EXCEPT ![c] = Prepared(k)]
    BY <1>3 DEF Goes
  <2>4. Has(Prepared(k), held'[c])
    BY <2>2, PreparedFits DEF Has
  <2>5. LevelOf(Prepared(k)) = Level(k)
    <3>1. CASE k.api = "newStatement"
      <4>1. LevelOf(Prepared(k)) = k.depth + 1
        BY <3>1, PreparedFits DEF LevelOf, Running
      <4>2. ~OfSavepoint(k)
        BY <3>1 DEF RunsWell
      <4> QED BY <1>2, <4>1, <4>2
    <3>2. CASE k.api # "newStatement"
      BY <3>2, PreparedFits DEF LevelOf, Level, Running
    <3> QED BY <3>1, <3>2
  <2>6. Prepared(k).at \notin {"idle", "begin", "over"}
    BY PreparedFits
  <2> QED BY <2>2, <2>3, <2>4, <2>5, <2>6, PreparedFits DEF Landed
<1>4. CASE Spoil(k.sql) /\ k.sql \notin SavepointTexts /\ Goes(c, After(k, FALSE), rest)
  <2>1. held' = held /\ call' = [call EXCEPT ![c] = After(k, FALSE)]
    BY <1>4 DEF Spoil, Goes
  <2>2. ~OfSavepoint(k)
    BY <1>4, SavepointText
  <2>3. ~Leaves(k, FALSE)
    BY <2>2 DEF Leaves, OfSavepoint, SavepointVerbs
  <2>4. /\ After(k, FALSE) \in Calls /\ Shape(After(k, FALSE))
        /\ After(k, FALSE).at \in {"work", "commit", "rollback"}
        /\ After(k, FALSE).depth = k.depth
    BY <2>3, AfterFits
  <2>5. Has(After(k, FALSE), held'[c])
    BY <2>1, <2>4 DEF Has
  <2>6. LevelOf(After(k, FALSE)) = Level(k)
    BY <1>2, <2>2, <2>4 DEF LevelOf, Running
  <2>7. After(k, FALSE).at \notin {"idle", "begin", "over"}
    BY <2>4
  <2> QED BY <2>1, <2>4, <2>5, <2>6, <2>7 DEF Landed
<1>5. CASE Goes(c, [k EXCEPT !.at = "prepare"], rest) /\ UNCHANGED cached
  <2> DEFINE p == [k EXCEPT !.at = "prepare"]
  <2>1. p.at = "prepare" /\ p.sql = k.sql /\ p.depth = k.depth
    BY DEF Calls
  <2>2. p \in Calls /\ Shape(p)
    BY PreparedFits
  <2>3. held' = held /\ call' = [call EXCEPT ![c] = p]
    BY <1>5 DEF Goes, cached
  <2> HIDE DEF p
  <2>4. Has(p, held'[c])
    BY <2>1, <2>3 DEF Has
  <2>5. LevelOf(p) = Level(k)
    BY <2>1 DEF LevelOf, Level, Running
  <2>6. p.at \notin {"idle", "begin", "over"}
    BY <2>1
  <2> QED BY <2>2, <2>3, <2>4, <2>5, <2>6 DEF Landed
<1> QED BY <1>3, <1>4, <1>5 DEF NewStatement

(* So does transaction.execute.                                            *)
LEMMA ExecuteLands ==
    ASSUME CacheInv, NEW c \in User, NEW k \in Calls, RunsWell(k), held[c] = {},
           NEW rest, Execute(c, k, rest)
    PROVE  Landed(c, Level(k))
<1>1. CASE NewStatement(c, k, rest)
  BY <1>1, NewStatementLands
<1>2. CASE HasSignal(k) /\ Goes(c, After(k, FALSE), rest) /\ UNCHANGED cached
  <2>1. held' = held /\ call' = [call EXCEPT ![c] = After(k, FALSE)]
    BY <1>2 DEF Goes, cached
  <2>2. ~OfSavepoint(k)
    <3>1. k.api = "execute" \/ k.sql \notin SavepointTexts
      BY <1>2 DEF HasSignal
    <3> QED BY <3>1, SavepointText DEF RunsWell
  <2>3. ~Leaves(k, FALSE) /\ Level(k) = k.depth + 1
    BY <2>2 DEF Leaves, Level, OfSavepoint, SavepointVerbs
  <2>4. /\ After(k, FALSE) \in Calls /\ Shape(After(k, FALSE))
        /\ After(k, FALSE).at \in {"work", "commit", "rollback"}
        /\ After(k, FALSE).depth = k.depth
    BY <2>3, AfterFits
  <2>5. Has(After(k, FALSE), held'[c])
    BY <2>1, <2>4 DEF Has
  <2>6. LevelOf(After(k, FALSE)) = Level(k)
    BY <2>3, <2>4 DEF LevelOf, Running
  <2>7. After(k, FALSE).at \notin {"idle", "begin", "over"}
    BY <2>4
  <2> QED BY <2>1, <2>4, <2>5, <2>6, <2>7 DEF Landed
<1> QED BY <1>1, <1>2 DEF Execute

(* One call goes on, and the others stay as they are.                      *)
OthersRest(c) ==
    /\ link' = link /\ DOMAIN tx' = User /\ DOMAIN refused' = User
    /\ \A d \in User \ {c} : /\ held'[d] = held[d]
                             /\ tx'[d] = tx[d] /\ refused'[d] = refused[d]

(* If the one is in shape, all are.                                      *)
LEMMA OneFits ==
    ASSUME CallsInv, NEW c \in User, NEW new, call' = [call EXCEPT ![c] = new],
           OthersRest(c), Fits(new, held'[c], tx'[c], refused'[c], link)
    PROVE  CallsInv'
<1>1. DOMAIN call' = User /\ call'[c] = new /\ \A d \in User \ {c} : call'[d] = call[d]
  BY DEF CallsInv
<1>2. Fits(call'[c], held'[c], tx'[c], refused'[c], link')
  BY <1>1 DEF OthersRest
<1>3. ASSUME NEW d \in User \ {c}
      PROVE  Fits(call'[d], held'[d], tx'[d], refused'[d], link')
  <2>1. Fits(call[d], held[d], tx[d], refused[d], link)
    BY DEF CallsInv
  <2>2. /\ call'[d] = call[d] /\ held'[d] = held[d] /\ tx'[d] = tx[d]
        /\ refused'[d] = refused[d] /\ link' = link
    BY <1>1 DEF OthersRest
  <2> QED BY <2>1, <2>2
<1>4. \A d \in User : Fits(call'[d], held'[d], tx'[d], refused'[d], link')
  BY <1>2, <1>3
<1> QED BY <1>1, <1>4 DEF CallsInv, OthersRest

(* A call that runs on leaves nothing yet.                                 *)
LEMMA RunsOn ==
    ASSUME NEW k, NEW h, NEW t, NEW r, NEW ln, k.at \notin {"idle", "begin", "over"},
           k \in Calls, Shape(k), Has(k, h)
    PROVE  Fits(k, h, t, r, ln)
BY DEF Fits, Left

(* A call that lands in its own transaction is in shape.                 *)
LEMMA LandedFits ==
    ASSUME CallsInv, NEW c \in User, NEW n, Landed(c, n), link' = link,
           DOMAIN tx' = User, DOMAIN refused' = User,
           \A d \in User \ {c} : tx'[d] = tx[d] /\ refused'[d] = refused[d]
    PROVE  CallsInv'
<1>1. PICK new \in Calls :
        /\ call' = [call EXCEPT ![c] = new]
        /\ Shape(new) /\ Has(new, held'[c]) /\ new.at \notin {"idle", "begin", "over"}
        /\ \A d \in User \ {c} : held'[d] = held[d]
  BY DEF Landed
<1>2. OthersRest(c)
  BY <1>1 DEF OthersRest
<1>3. Fits(new, held'[c], tx'[c], refused'[c], link)
  BY <1>1, RunsOn
<1> QED BY <1>1, <1>2, <1>3, OneFits

(* The end of a statement that the helper does not have any more.          *)
LEMMA EndsFits ==
    ASSUME CallsInv, NEW c \in User, call[c].at \in Running, NEW good \in BOOLEAN,
           NEW rest, Ends(c, good, rest), held'[c] = {}, OthersRest(c)
    PROVE  CallsInv'
<1>1. call[c] \in Calls /\ RunsWell(call[c])
  BY DEF CallsInv, Fits, Shape
<1> DEFINE new == After(call[c], good)
<1>2. new \in Calls /\ Shape(new) /\ new.at \in {"work", "commit", "rollback"}
  BY <1>1, AfterFits
<1>3. call' = [call EXCEPT ![c] = new]
  BY DEF Ends, Goes
<1> HIDE DEF new
<1>4. Has(new, held'[c])
  BY <1>2 DEF Has
<1>5. new.at \notin {"idle", "begin", "over"}
  BY <1>2
<1>6. Fits(new, held'[c], tx'[c], refused'[c], link)
  BY <1>2, <1>4, <1>5, RunsOn
<1> QED BY <1>3, <1>6, OneFits

(* The helper gives back the one statement that it has.                    *)
LEMMA ReleasesAll ==
    ASSUME CacheInv, CallsInv, NEW c \in User, call[c].at \in {"execute", "fetch", "info"},
           NEW failed, Releases(c, failed)
    PROVE  held'[c] = {} /\ \A d \in User \ {c} : held'[d] = held[d]
<1>1. held \in Holders
  BY InvIsParts DEF Parts
<1>2. PICK t : held[c] = {t}
  BY DEF CallsInv, Fits, Has
<1>3. PICK s \in held[c] : held' = [held EXCEPT ![c] = @ \ {s}]
  BY DEF Releases, Release
<1>4. held'[c] = held[c] \ {s} /\ \A d \in User \ {c} : held'[d] = held[d]
  BY <1>1, <1>3 DEF Holders
<1> QED BY <1>2, <1>3, <1>4

(* Rows are fetched, and the records affected asked for.                   *)
LEMMA AsksFits ==
    ASSUME CallsInv, NEW c \in User, call[c].at \in {"execute", "fetch"},
           ~OfSavepoint(call[c]), NEW at \in {"fetch", "info"}, NEW rest,
           Asks(c, at, rest), UNCHANGED <<link, tx, refused>>
    PROVE  CallsInv'
<1>1. call[c] \in Calls /\ Shape(call[c]) /\ Has(call[c], held[c])
  BY DEF CallsInv, Fits
<1> DEFINE k == call[c]
           new == At(c, at)
<1>2. call' = [call EXCEPT ![c] = new] /\ held' = held
  BY DEF Asks, Goes, cached
<1>3. /\ new \in Calls /\ new.at = at /\ new.api = k.api /\ new.sql = k.sql
      /\ new.depth = k.depth
  BY <1>1 DEF At, Calls, Ats
<1>4. RunsWell(k) /\ k.api # "newStatement" /\ (k.api # "withTransaction" => k.depth = 0)
  BY <1>1 DEF Shape, Running
<1> HIDE DEF new, k
<1>5. RunsWell(new) /\ ~OfSavepoint(new)
  BY <1>3, <1>4 DEF RunsWell, OfSavepoint, k
<1>6. new.at \in {"fetch", "info"}
  BY <1>3
<1>7. Shape(new)
  BY <1>3, <1>4, <1>5, <1>6 DEF Shape
<1>8. Has(new, held'[c])
  <2>1. \E s : held[c] = {s}
    BY <1>1 DEF Has
  <2> QED BY <1>2, <1>6, <2>1 DEF Has
<1>9. Fits(new, held'[c], tx'[c], refused'[c], link)
  <2>1. new.at \notin {"idle", "begin", "over"}
    BY <1>6
  <2> QED BY <1>3, <1>7, <1>8, <2>1, RunsOn
<1>10. OthersRest(c)
  BY <1>2 DEF OthersRest, CallsInv
<1> QED BY <1>2, <1>9, <1>10, OneFits

(* The answer to a begin: the call is over, or its work starts.            *)
LEMMA BegunFits ==
    ASSUME CacheInv, CallsInv, NEW c \in User, call[c].at = "begin", NEW good \in BOOLEAN,
           NEW rest, Begun(c, good, rest), link' = link
    PROVE  CallsInv'
<1> DEFINE k == call[c]
<1>1. /\ k \in Calls /\ Shape(k) /\ held[c] = {} /\ tx[c] # "open" /\ k.depth = 0
      /\ ~OfSavepoint(k)
  BY DEF CallsInv, Fits, Shape, Has, Left
<1>2. /\ tx' = [tx EXCEPT ![c] = IF good THEN "open" ELSE @] /\ refused' = refused
      /\ DOMAIN tx' = User /\ DOMAIN refused' = User
      /\ \A d \in User \ {c} : tx'[d] = tx[d] /\ refused'[d] = refused[d]
  BY DEF Begun, CallsInv
<1>3. CASE ~good
  <2> DEFINE new == [At(c, "over") EXCEPT !.outcome = "error"]
  <2>1. call' = [call EXCEPT ![c] = new] /\ held' = held
    BY <1>3 DEF Begun, Goes, cached
  <2>2. new \in Calls /\ new.at = "over" /\ new.api = k.api /\ new.depth = 0
    BY <1>1 DEF Calls, Ats, At
  <2> HIDE DEF new
  <2>3. Shape(new) /\ Has(new, held'[c])
    BY <1>1, <2>1, <2>2 DEF Shape, Has, Running
  <2>4. tx'[c] # "open"
    BY <1>1, <1>2, <1>3 DEF CallsInv
  <2>5. Fits(new, held'[c], tx'[c], refused'[c], link)
    BY <2>2, <2>3, <2>4 DEF Fits, Left
  <2>6. OthersRest(c)
    BY <1>2, <2>1 DEF OthersRest
  <2> QED BY <2>1, <2>5, <2>6, OneFits
<1>4. CASE good
  <2>1. RunsWell(k)
    BY <1>1 DEF RunsWell
  <2>2. CASE k.api = "withTransaction" /\ Goes(c, At(c, "work"), rest) /\ UNCHANGED cached
    <3> DEFINE new == At(c, "work")
    <3>1. call' = [call EXCEPT ![c] = new] /\ held' = held
      BY <2>2 DEF Goes, cached
    <3>2. new \in Calls /\ new.at = "work" /\ new.api = "withTransaction"
      BY <1>1, <2>2 DEF Calls, Ats, At
    <3> HIDE DEF new
    <3>3. Shape(new) /\ Has(new, held'[c])
      BY <1>1, <3>1, <3>2 DEF Shape, Has, Running
    <3>4. new.at \notin {"idle", "begin", "over"}
      BY <3>2
    <3>5. Fits(new, held'[c], tx'[c], refused'[c], link)
      BY <3>2, <3>3, <3>4, RunsOn
    <3>6. OthersRest(c)
      BY <1>2, <3>1 DEF OthersRest
    <3> QED BY <3>1, <3>5, <3>6, OneFits
  <2>3. CASE Execute(c, k, rest)
    BY <1>1, <1>2, <2>1, <2>3, ExecuteLands, LandedFits
  <2>4. CASE NewStatement(c, k, rest)
    BY <1>1, <1>2, <2>1, <2>4, NewStatementLands, LandedFits
  <2> QED BY <1>4, <2>2, <2>3, <2>4 DEF Begun
<1> QED BY <1>3, <1>4

(* The answer to a prepare.                                              *)
LEMMA PrepareFits ==
    ASSUME CacheInv, CallsInv, NEW c \in User, call[c].at = "prepare",
           NEW good \in BOOLEAN, NEW rest, PrepareAnswered(c, good, rest), link' = link
    PROVE  CallsInv'
<1> DEFINE k == call[c]
<1>0. held \in Holders
  BY InvIsParts DEF Parts
<1>1. k \in Calls /\ Shape(k) /\ held[c] = {} /\ RunsWell(k) /\ k.at \in Running
  BY DEF CallsInv, Fits, Shape, Has, Running
<1>2. /\ DOMAIN tx' = User /\ DOMAIN refused' = User
      /\ \A d \in User \ {c} : tx'[d] = tx[d] /\ refused'[d] = refused[d]
  BY DEF PrepareAnswered, CallsInv, server
<1>3. CASE UNCHANGED cached /\ \E g \in BOOLEAN : Ends(c, g, rest)
  <2>1. held'[c] = {} /\ OthersRest(c)
    BY <1>1, <1>2, <1>3 DEF OthersRest, cached
  <2> QED BY <1>1, <1>3, <2>1, EndsFits
<1>4. CASE /\ UNCHANGED cached /\ k.api = "newStatement"
           /\ Goes(c, [At(c, "over") EXCEPT !.outcome = "error"], rest)
  <2> DEFINE new == [At(c, "over") EXCEPT !.outcome = "error"]
  <2>1. call' = [call EXCEPT ![c] = new] /\ held' = held
    BY <1>4 DEF Goes, cached
  <2>2. new \in Calls /\ new.at = "over" /\ new.api = "newStatement" /\ new.depth = k.depth
    BY <1>1, <1>4 DEF Calls, Ats, At
  <2>3. k.depth = 0
    BY <1>1, <1>4 DEF Shape
  <2> HIDE DEF new
  <2>4. Shape(new) /\ Has(new, held'[c])
    BY <2>2, <2>3 DEF Shape, Has, Running
  <2>5. held'[c] = {}
    BY <1>1, <2>1
  <2>6. Fits(new, held'[c], tx'[c], refused'[c], link)
    BY <2>2, <2>4, <2>5 DEF Fits, Left
  <2>7. OthersRest(c)
    BY <1>2, <2>1 DEF OthersRest
  <2> QED BY <2>1, <2>6, <2>7, OneFits
<1>5. CASE Prepare(c, k.sql) /\ Goes(c, Prepared(k), rest)
  <2> DEFINE new == Prepared(k)
  <2>1. PICK s : held' = [held EXCEPT ![c] = @ \cup {s}]
    BY <1>5 DEF Prepare
  <2>2. held'[c] = {s} /\ \A d \in User \ {c} : held'[d] = held[d]
    BY <1>0, <1>1, <2>1 DEF Holders
  <2>3. call' = [call EXCEPT ![c] = new]
    BY <1>5 DEF Goes
  <2>4. /\ new \in Calls /\ Shape(new) /\ new.api = k.api
        /\ new.at = IF k.api = "newStatement" THEN "commit" ELSE "execute"
    BY <1>1, PreparedFits
  <2> HIDE DEF new
  <2>5. Has(new, held'[c])
    BY <2>2, <2>4 DEF Has
  <2>6. new.at \notin {"idle", "begin", "over"}
    BY <2>4
  <2>7. Fits(new, held'[c], tx'[c], refused'[c], link)
    BY <2>4, <2>5, <2>6, RunsOn
  <2>8. OthersRest(c)
    BY <1>2, <2>2 DEF OthersRest
  <2> QED BY <2>3, <2>7, <2>8, OneFits
<1> QED BY <1>3, <1>4, <1>5 DEF PrepareAnswered

(* The statement is given back and its call goes on.                       *)
LEMMA ReleasesFits ==
    ASSUME CacheInv, CallsInv, NEW c \in User, call[c].at \in {"execute", "fetch", "info"},
           NEW good \in BOOLEAN, NEW failed, NEW rest,
           Releases(c, failed), Ends(c, good, rest), UNCHANGED <<link, tx, refused>>
    PROVE  CallsInv'
<1>1. held'[c] = {} /\ \A d \in User \ {c} : held'[d] = held[d]
  BY ReleasesAll
<1>2. OthersRest(c)
  BY <1>1 DEF OthersRest, CallsInv
<1>3. call[c].at \in Running
  BY DEF Running
<1> QED BY <1>1, <1>2, <1>3, EndsFits

(* The answer to an execute: the statement ends, or more is asked for.   *)
LEMMA ExecutedFits ==
    ASSUME CacheInv, CallsInv, NEW c \in User, call[c].at = "execute",
           NEW good \in BOOLEAN, NEW rest, Executed(c, good, rest), link' = link
    PROVE  CallsInv'
<1>1. UNCHANGED <<link, tx, refused>>
  BY DEF Executed
<1>2. CASE DropError(c, rest)
  BY <1>1, <1>2, ReleasesFits DEF DropError
<1>3. CASE Delivers(c, rest)
  BY <1>1, <1>3, ReleasesFits DEF Delivers
<1>4. CASE \E all \in BOOLEAN : Releases(c, FALSE) /\ Ends(c, all, rest)
  BY <1>1, <1>4, ReleasesFits
<1>5. CASE /\ call[c].sql.verb \in {"select", "call", "insert"}
           /\ Asks(c, "fetch", rest) \/ Asks(c, "info", rest)
  <2>1. ~OfSavepoint(call[c])
    BY <1>5 DEF OfSavepoint, SavepointVerbs
  <2> QED BY <1>1, <1>5, <2>1, AsksFits
<1> QED BY <1>2, <1>3, <1>4, <1>5 DEF Executed

(* The answer to a fetch, or with the records affected.                  *)
LEMMA FetchedFits ==
    ASSUME CacheInv, CallsInv, NEW c \in User, call[c].at \in {"fetch", "info"},
           NEW good \in BOOLEAN, NEW rest, link' = link,
           \/ call[c].at = "fetch" /\ Fetched(c, good, rest)
           \/ call[c].at = "info" /\ Informed(c, good, rest)
    PROVE  CallsInv'
<1>1. UNCHANGED <<link, tx, refused>>
  BY DEF Fetched, Informed, server
<1>2. CASE DropError(c, rest)
  BY <1>1, <1>2, ReleasesFits DEF DropError
<1>3. CASE Delivers(c, rest)
  BY <1>1, <1>3, ReleasesFits DEF Delivers
<1>4. CASE call[c].at = "fetch" /\ Asks(c, "info", rest)
  <2>1. ~OfSavepoint(call[c])
    BY DEF CallsInv, Fits, Shape
  <2> QED BY <1>1, <1>4, <2>1, AsksFits
<1> QED BY <1>2, <1>3, <1>4 DEF Fetched, Informed

(* The end of a transaction: done, or refused, which is noted.             *)
LEMMA EndedFits ==
    ASSUME CallsInv, NEW c \in User, call[c].at \in {"commit", "rollback"},
           NEW good \in BOOLEAN, NEW rest, Ended(c, good, rest), link' = link
    PROVE  CallsInv'
<1> DEFINE k == call[c]
           new == IF k.at = "commit" /\ ~good THEN CommitFailed(c) ELSE Over(c, good)
<1>1. k \in Calls /\ Shape(k) /\ Has(k, held[c])
  BY DEF CallsInv, Fits
<1>2. /\ tx' = [tx EXCEPT ![c] = IF good THEN "over" ELSE @]
      /\ refused' = [refused EXCEPT ![c] =
            IF good \/ link = "closed" THEN @ ELSE @ \cup {k.at}]
      /\ call' = [call EXCEPT ![c] = new] /\ held' = held
  BY DEF Ended, Goes, cached
<1>3. OthersRest(c)
  BY <1>2 DEF CallsInv, OthersRest
<1>4. CASE k.at = "commit" /\ ~good /\ k.api = "withTransaction"
  <2>1. new = [At(c, "rollback") EXCEPT !.outcome = "error"]
    BY <1>4 DEF CommitFailed
  <2>2. /\ new \in Calls /\ new.at = "rollback" /\ new.api = "withTransaction"
        /\ new.outcome = "error"
    BY <1>1, <1>4, <2>1 DEF Calls, Ats, At
  <2> HIDE DEF new
  <2>3. Shape(new)
    BY <2>2 DEF Shape, Running
  <2>4. Has(new, held'[c])
    BY <1>1, <1>2, <1>4, <2>2 DEF Has
  <2>5. new.at \notin {"idle", "begin", "over"}
    BY <2>2
  <2>6. Fits(new, held'[c], tx'[c], refused'[c], link)
    BY <2>2, <2>3, <2>4, <2>5, RunsOn
  <2> QED BY <1>2, <1>3, <2>6, OneFits
<1>5. CASE ~(k.at = "commit" /\ ~good /\ k.api = "withTransaction")
  <2>1. new = Over(c, good)
    <3>1. CASE k.at = "commit" /\ ~good
      BY <1>5, <3>1 DEF CommitFailed
    <3>2. CASE ~(k.at = "commit" /\ ~good)
      BY <3>2
    <3> QED BY <3>1, <3>2
  <2>2. new \in Calls /\ new.at = "over" /\ new.api = k.api /\ new.depth = k.depth
    BY <1>1, <2>1 DEF Calls, Ats, At, Over
  <2> HIDE DEF new
  <2>3. Shape(new) /\ Has(new, held'[c])
    BY <1>1, <1>2, <2>2 DEF Shape, Has, Running
  <2>4. Left(new, held'[c], tx'[c], refused'[c], link)
    <3>1. CASE good
      <4>1. tx'[c] = "over"
        BY <1>2, <3>1 DEF CallsInv
      <4> QED BY <2>2, <4>1 DEF Left
    <3>2. CASE link = "closed"
      BY <2>2, <3>2 DEF Left
    <3>3. CASE ~good /\ link # "closed"
      <4>1. k.at \in refused'[c]
        BY <1>2, <3>3 DEF CallsInv
      <4>2. new.api = "withTransaction" => k.at = "rollback"
        BY <1>5, <2>2, <3>3
      <4> QED BY <2>2, <4>1, <4>2 DEF Left
    <3> QED BY <3>1, <3>2, <3>3
  <2>5. Fits(new, held'[c], tx'[c], refused'[c], link)
    BY <2>2, <2>3, <2>4 DEF Fits
  <2> QED BY <1>2, <1>3, <2>5, OneFits
<1> QED BY <1>4, <1>5

(* Every answer keeps every call in shape.                               *)
LEMMA AnsweredFits ==
    ASSUME CacheInv, CallsInv, NEW c \in User, call[c].at \in Requests,
           NEW good \in BOOLEAN, NEW rest, Answered(c, good, rest), link' = link
    PROVE  CallsInv'
<1>1. CASE call[c].at = "begin" /\ Begun(c, good, rest)
  BY <1>1, BegunFits
<1>2. CASE call[c].at = "prepare" /\ PrepareAnswered(c, good, rest)
  BY <1>2, PrepareFits
<1>3. CASE call[c].at = "execute" /\ Executed(c, good, rest)
  BY <1>3, ExecutedFits
<1>4. CASE call[c].at = "fetch" /\ Fetched(c, good, rest)
  BY <1>4, FetchedFits
<1>5. CASE call[c].at = "info" /\ Informed(c, good, rest)
  BY <1>5, FetchedFits
<1>6. CASE call[c].at \in {"commit", "rollback"} /\ Ended(c, good, rest)
  BY <1>6, EndedFits
<1> QED BY <1>1, <1>2, <1>3, <1>4, <1>5, <1>6 DEF Answered, Requests

(* The work of a transaction goes on as deep as it is.                     *)
LEMMA WorkLands ==
    ASSUME CacheInv, CallsInv, NEW c \in User, Work(c)
    PROVE  Landed(c, LevelOf(call[c]))
<1> DEFINE k == call[c]
<1>1. /\ k \in Calls /\ k.at = "work" /\ k.api = "withTransaction" /\ held[c] = {}
      /\ LevelOf(k) = k.depth + 1
  BY DEF CallsInv, Fits, Shape, Has, Work, LevelOf, Running
<1>2. k.depth \in 0..MaxDepth /\ MaxDepth \in Nat /\ k.runs \in Nat
  BY <1>1, SessionAssumption DEF Calls
<1>3. ASSUME NEW n \in Calls, Execute(c, n, line), RunsWell(n), Level(n) = k.depth + 1
      PROVE  Landed(c, LevelOf(k))
  BY <1>1, <1>3, ExecuteLands
<1>r. PICK r \in Nat : r = k.runs + 1
  BY <1>2
<1>4. ASSUME Run(c) PROVE Landed(c, LevelOf(k))
  <2>1. PICK q \in Query[c] : Execute(c, [k EXCEPT !.sql = q, !.runs = @ + 1], line)
    BY <1>4 DEF Run
  <2>2. q \in Text /\ q.verb \notin SavepointVerbs
    BY SessionAssumption
  <2> DEFINE n == [k EXCEPT !.sql = q, !.runs = @ + 1]
  <2>n. n = [k EXCEPT !.sql = q, !.runs = r]
    BY <1>r
  <2>3. /\ n \in Calls /\ n.sql = q /\ n.depth = k.depth /\ n.api = k.api
    BY <1>1, <2>n, <2>2 DEF Calls
  <2>4. Execute(c, n, line)
    BY <2>1
  <2> HIDE DEF n
  <2>5. RunsWell(n) /\ Level(n) = k.depth + 1
    BY <1>1, <2>2, <2>3 DEF RunsWell, Level, OfSavepoint, SavepointVerbs
  <2> QED BY <1>3, <2>3, <2>4, <2>5
<1>5. ASSUME NEW verb \in SavepointVerbs, NEW d \in 1..MaxDepth
      PROVE  Sql(verb, d) \in Text /\ Sql(verb, d).verb = verb
  BY SessionAssumption DEF SavepointTexts, Sql
<1>6. ASSUME Enter(c) PROVE Landed(c, LevelOf(k))
  <2> DEFINE d == k.depth + 1
             n == [k EXCEPT !.sql = Sql("savepoint", d), !.depth = d, !.runs = @ + 1]
  <2>1. Execute(c, n, line) /\ d \in 1..MaxDepth
    BY <1>2, <1>6 DEF Enter
  <2>2. Sql("savepoint", d) \in Text /\ Sql("savepoint", d).verb = "savepoint"
    BY <1>5, <2>1 DEF SavepointVerbs
  <2>n. n = [k EXCEPT !.sql = Sql("savepoint", d), !.depth = d, !.runs = r]
    BY <1>r
  <2>d. d \in 0..MaxDepth
    BY <1>2, <2>1
  <2>3. /\ n \in Calls /\ n.sql = Sql("savepoint", d) /\ n.depth = d /\ n.api = k.api
    <3> HIDE DEF n, d
    <3> QED BY <1>1, <2>n, <2>d, <2>2 DEF Calls
  <2>4. d > 0
    BY <1>2
  <2> HIDE DEF n
  <2>5. RunsWell(n)
    BY <1>1, <2>2, <2>3, <2>4 DEF RunsWell
  <2>6. Level(n) = k.depth + 1
    BY <2>2, <2>3 DEF Level
  <2> QED BY <1>3, <2>1, <2>3, <2>5, <2>6
<1>7. ASSUME k.depth > 0, NEW verb \in {"undo", "release"},
             Execute(c, [k EXCEPT !.sql = Sql(verb, k.depth)], line)
      PROVE  Landed(c, LevelOf(k))
  <2> DEFINE n == [k EXCEPT !.sql = Sql(verb, k.depth)]
  <2>1. k.depth \in 1..MaxDepth /\ verb \in SavepointVerbs
    BY <1>2, <1>7 DEF SavepointVerbs
  <2>2. Sql(verb, k.depth) \in Text /\ Sql(verb, k.depth).verb = verb
    BY <1>5, <2>1
  <2>3. /\ n \in Calls /\ n.sql = Sql(verb, k.depth) /\ n.depth = k.depth /\ n.api = k.api
    BY <1>1, <2>2 DEF Calls
  <2>4. Execute(c, n, line)
    BY <1>7
  <2> HIDE DEF n
  <2>5. RunsWell(n)
    BY <1>1, <1>7, <2>2, <2>3 DEF RunsWell
  <2>6. Level(n) = k.depth + 1
    BY <2>2, <2>3 DEF Level
  <2> QED BY <1>3, <2>3, <2>4, <2>5, <2>6
<1>8. ASSUME ~(k.depth > 0), UNCHANGED cached,
             NEW at \in {"commit", "rollback"}, NEW outcome \in {"ok", "error"},
             at = "commit" <=> outcome = "ok",
             Goes(c, [k EXCEPT !.at = at, !.outcome = outcome], line)
      PROVE  Landed(c, LevelOf(k))
  <2> DEFINE n == [k EXCEPT !.at = at, !.outcome = outcome]
  <2>1. k.depth = 0
    BY <1>2, <1>8
  <2>2. /\ n \in Calls /\ n.at = at /\ n.outcome = outcome /\ n.depth = 0
        /\ n.api = "withTransaction"
    BY <1>1, <2>1 DEF Calls, Ats
  <2>3. call' = [call EXCEPT ![c] = n] /\ held' = held
    BY <1>8 DEF Goes, cached
  <2> HIDE DEF n
  <2>4. Shape(n) /\ Has(n, held'[c]) /\ LevelOf(n) = LevelOf(k)
    BY <1>1, <1>8, <2>1, <2>2, <2>3 DEF Shape, Has, Running, LevelOf
  <2> QED BY <2>2, <2>3, <2>4 DEF Landed
<1>9. ASSUME Resolve(c) PROVE Landed(c, LevelOf(k))
  BY <1>7, <1>8, <1>9 DEF Resolve
<1>10. ASSUME Reject(c) PROVE Landed(c, LevelOf(k))
  BY <1>7, <1>8, <1>10 DEF Reject
<1> QED BY <1>4, <1>6, <1>9, <1>10 DEF Work

(* What the user does of his own.                                          *)
LEMMA UserFits ==
    ASSUME CacheInv, CallsInv, NEW c \in User, Call(c) \/ Work(c) \/ GiveBack(c)
    PROVE  CallsInv'
<1> DEFINE k == call[c]
<1>0. held \in Holders
  BY InvIsParts DEF Parts
<1>1. link' = link /\ tx' = tx /\ refused' = refused /\ DOMAIN tx = User /\ DOMAIN refused = User
  BY DEF Call, Work, GiveBack, server, CallsInv
<1>2. Fits(k, held[c], tx[c], refused[c], link)
  BY DEF CallsInv
<1>3. CASE Call(c)
  <2>1. PICK api \in Api[c], q \in Query[c] :
          Goes(c, [NoCall EXCEPT !.api = api, !.at = "begin", !.sql = q], line)
    BY <1>3 DEF Call
  <2>2. api \in Apis /\ q \in Text /\ q.verb \notin SavepointVerbs /\ 0 \in 0..MaxDepth
    BY SessionAssumption DEF Apis
  <2> DEFINE new == [NoCall EXCEPT !.api = api, !.at = "begin", !.sql = q]
  <2>3. new \in Calls /\ new.at = "begin" /\ new.sql = q /\ new.depth = 0
    BY <2>2 DEF Calls, Ats, NoCall
  <2>4. call' = [call EXCEPT ![c] = new] /\ held' = held
    BY <1>3, <2>1 DEF Call, Goes, cached
  <2>5. held[c] = {} /\ tx[c] # "open"
    BY <1>2, <1>3 DEF Fits, Has, Left, Call
  <2> HIDE DEF new
  <2>6. Shape(new) /\ Has(new, held'[c]) /\ Left(new, held'[c], tx'[c], refused'[c], link)
    BY <1>1, <2>2, <2>3, <2>4, <2>5 DEF Shape, Has, Left, Running, OfSavepoint
  <2>7. Fits(new, held'[c], tx'[c], refused'[c], link)
    BY <2>3, <2>6 DEF Fits
  <2>8. OthersRest(c)
    BY <1>1, <2>4 DEF OthersRest
  <2> QED BY <2>4, <2>7, <2>8, OneFits
<1>4. CASE Work(c)
  BY <1>1, <1>4, WorkLands, LandedFits
<1>5. CASE GiveBack(c)
  <2>1. PICK s \in held[c] : held' = [held EXCEPT ![c] = @ \ {s}]
    BY <1>5 DEF GiveBack, Release, Drop
  <2>2. held'[c] \subseteq held[c] /\ \A d \in User \ {c} : held'[d] = held[d]
    BY <1>0, <2>1 DEF Holders
  <2>3. k.at = "over" /\ call' = call
    BY <1>5 DEF GiveBack
  <2>4. Has(k, held'[c])
    BY <1>2, <2>2, <2>3 DEF Fits, Has
  <2>5. Left(k, held'[c], tx'[c], refused'[c], link)
    BY <1>1, <1>2, <2>2, <2>3 DEF Fits, Left
  <2>6. Fits(call'[c], held'[c], tx'[c], refused'[c], link')
    BY <1>1, <1>2, <2>3, <2>4, <2>5 DEF Fits
  <2>7. \A d \in User : Fits(call'[d], held'[d], tx'[d], refused'[d], link')
    <3>1. \A d \in User \ {c} : Fits(call'[d], held'[d], tx'[d], refused'[d], link')
      BY <1>1, <2>2, <2>3 DEF CallsInv
    <3> QED BY <2>6, <3>1
  <2> QED BY <1>1, <2>3, <2>7 DEF CallsInv
<1> QED BY <1>3, <1>4, <1>5

(* What has nothing to do with the calls, but the socket.                  *)
LEMMA StillFits ==
    ASSUME CallsInv, UNCHANGED <<call, cached, tx, refused>>,
           link' = link \/ link' = "closed"
    PROVE  CallsInv'
<1>1. call' = call /\ held' = held /\ tx' = tx /\ refused' = refused
  BY DEF cached
<1>2. ASSUME NEW c \in User
      PROVE  Fits(call'[c], held'[c], tx'[c], refused'[c], link')
  <2>1. Fits(call[c], held[c], tx[c], refused[c], link)
    BY DEF CallsInv
  <2>2. Left(call[c], held[c], tx[c], refused[c], link')
    BY <2>1 DEF Fits, Left
  <2> QED BY <1>1, <2>1, <2>2 DEF Fits
<1> QED BY <1>1, <1>2 DEF CallsInv

(* Every step keeps every call in shape.                                   *)
LEMMA CallsGoOn ==
    ASSUME SessionInv, CallsInv, [Next]_vars
    PROVE  CallsInv'
<1> USE DEF SessionInv
<1>1. ASSUME NEW c \in User, Call(c) \/ Work(c) \/ GiveBack(c) PROVE CallsInv'
  BY <1>1, UserFits
<1>2. ASSUME NEW c \in User, Abort(c) PROVE CallsInv'
  <2>1. UNCHANGED <<call, cached, tx, refused, link>>
    BY <1>2 DEF Abort, server
  <2> QED BY <2>1, StillFits
<1>3. ASSUME NEW c \in User, Refuse(c) PROVE CallsInv'
  <2>1. call[c].at \in Requests /\ Answered(c, FALSE, line) /\ link' = link
    BY <1>3 DEF Refuse
  <2> QED BY <2>1, AnsweredFits
<1>4. ASSUME NEW good \in BOOLEAN, line # <<>>, link' = link,
             Answered(Head(line), good, Tail(line))
      PROVE  CallsInv'
  <2>1. Head(line) \in User /\ call[Head(line)].at \in Requests
    BY <1>4, BehindHead
  <2> QED BY <1>4, <2>1, AnsweredFits
<1>5. ASSUME NEW good \in BOOLEAN, Answer(good) PROVE CallsInv'
  BY <1>4, <1>5 DEF Answer
<1>6. ASSUME Cancelled PROVE CallsInv'
  <2>1. CASE line # <<>> /\ Answered(Head(line), FALSE, Tail(line))
    BY <1>4, <1>6, <2>1 DEF Cancelled
  <2>2. CASE UNCHANGED <<cached, call, line, server, scopes, refused>>
    <3>1. UNCHANGED <<call, cached, tx, refused, link>>
      BY <1>6, <2>2 DEF Cancelled, server
    <3> QED BY <3>1, StillFits
  <2> QED BY <1>6, <2>1, <2>2 DEF Cancelled
<1>7. ASSUME Lost PROVE CallsInv'
  <2>1. UNCHANGED <<call, cached, tx, refused>> /\ link' = "closed"
    BY <1>7 DEF Lost
  <2> QED BY <2>1, StillFits
<1>8. CASE UNCHANGED vars
  <2>1. UNCHANGED <<call, cached, tx, refused, link>>
    BY <1>8 DEF vars, server
  <2> QED BY <2>1, StillFits
<1> QED BY <1>1, <1>2, <1>3, <1>5, <1>6, <1>7, <1>8 DEF Next

(* Every call is in shape in every state.                                *)
LEMMA CallsInvariant == Spec => []CallsInv
<1>1. Init => CallsInv
  <2> SUFFICES ASSUME Init PROVE CallsInv
    OBVIOUS
  <2>1. /\ call = [c \in User |-> NoCall] /\ held = [u \in User |-> {}]
        /\ tx = [c \in User |-> "none"] /\ refused = [c \in User |-> {}]
    BY DEF Init, CacheInit
  <2>2. NoCall \in Calls
    BY SessionAssumption DEF NoCall, Calls, Apis, Ats
  <2>3. /\ NoCall.at = "idle" /\ NoCall.depth = 0 /\ NoCall.sql = Sql("none", 0)
    BY DEF NoCall
  <2>4. Shape(NoCall) /\ Has(NoCall, {}) /\ Left(NoCall, {}, "none", {}, link)
    BY <2>3 DEF Shape, Has, Left, Running
  <2>5. \A c \in User : Fits(call[c], held[c], tx[c], refused[c], link)
    BY <2>1, <2>2, <2>4 DEF Fits
  <2> QED BY <2>1, <2>5 DEF CallsInv
<1>2. SessionInv /\ CallsInv /\ [Next]_vars => CallsInv'
  BY CallsGoOn
<1> QED BY <1>1, <1>2, SessionInvariant, PTL DEF Spec

(* A call that is over leaves no statement but newStatement's, and no      *)
(* transaction whose end the server did not refuse, unless newStatement    *)
(* could not prepare (database.ts:226-229).                                *)
THEOREM SessionNothingLeftOpen == Spec => []NothingLeftOpen
<1>1. CallsInv => NothingLeftOpen
  <2> SUFFICES ASSUME CallsInv, NEW c \in User, call[c].at = "over"
               PROVE  /\ call[c].api # "newStatement" => held[c] = {}
                      /\ link = "open" /\ tx[c] = "open" =>
                          CASE call[c].api = "withTransaction" -> "rollback" \in refused[c]
                            [] call[c].api = "newStatement" -> refused[c] # {} \/ held[c] = {}
                            [] OTHER -> refused[c] # {}
    BY DEF NothingLeftOpen
  <2>1. /\ Has(call[c], held[c])
        /\ Left(call[c], held[c], tx[c], refused[c], link)
    BY DEF CallsInv, Fits
  <2>2. call[c].api # "newStatement" => held[c] = {}
    BY <2>1 DEF Has
  <2>3. CASE call[c].api = "withTransaction"
    BY <2>1, <2>2, <2>3 DEF Left
  <2>4. CASE call[c].api = "newStatement"
    BY <2>1, <2>2, <2>4 DEF Left
  <2>5. CASE call[c].api \notin {"withTransaction", "newStatement"}
    BY <2>1, <2>2, <2>5 DEF Left
  <2> QED BY <2>3, <2>4, <2>5
<1> QED BY <1>1, CallsInvariant, PTL

-----------------------------------------------------------------------------
(* What is committed.  The log at the server and the scopes of the client  *)
(* agree, n scopes deep.                                                   *)
ScopeLists == Seq(SUBSET Nat)

InAgreement(l, s, n) ==
    /\ l \in Seq(Entries) /\ s \in ScopeLists /\ Len(s) = n
    /\ \E m \in Nat : n = m + 1 /\ Agree(l, s, m)

Merged(s, m) == [SubSeq(s, 1, m) EXCEPT ![m] = @ \cup s[m + 1]]
Grown(s, i, x) == [s EXCEPT ![i] = @ \cup {x}]

(* Scopes: the last of m + 1 is gone, and its changes too or not; a new    *)
(* one; and a change in the last.                                          *)
LEMMA ScopesFront ==
    ASSUME NEW s \in ScopeLists, NEW m \in Nat, Len(s) = m + 1
    PROVE  /\ Front(s) \in ScopeLists /\ Len(Front(s)) = m
           /\ \A j \in 1..m : Front(s)[j] = s[j]
<1> DEFINE t == SubSeq(s, 1, m)
<1>1. Front(s) = t
  BY DEF Front
<1>2. /\ t \in Seq(SUBSET Nat) /\ Len(t) = m
      /\ \A j \in 1..m : t[j] = s[j]
  BY SubSeqProperties, LenProperties DEF ScopeLists
<1> QED BY <1>1, <1>2 DEF ScopeLists

(* The last two become one.                                              *)
LEMMA ScopesMerge ==
    ASSUME NEW s \in ScopeLists, NEW m \in Nat, Len(s) = m + 1, m > 0
    PROVE  /\ Merged(s, m) \in ScopeLists /\ Len(Merged(s, m)) = m
           /\ \A j \in 1..(m - 1) : Merged(s, m)[j] = s[j]
           /\ Merged(s, m)[m] = s[m] \cup s[m + 1]
<1> DEFINE t == SubSeq(s, 1, m)
           g == Merged(s, m)
<1>1. /\ DOMAIN s = 1..(m + 1) /\ \A i \in 1..(m + 1) : s[i] \in SUBSET Nat
  BY LenProperties DEF ScopeLists
<1>2. /\ t \in Seq(SUBSET Nat) /\ Len(t) = m /\ DOMAIN t = 1..m
      /\ \A j \in 1..m : t[j] = s[j]
  BY <1>1, SubSeqProperties DEF ScopeLists
<1>3. g = [t EXCEPT ![m] = @ \cup s[m + 1]]
  BY DEF Merged
<1> HIDE DEF g, t
<1>4. m \in 1..m /\ m + 1 \in 1..(m + 1)
  OBVIOUS
<1>5. s[m + 1] \subseteq Nat /\ t[m] \subseteq Nat /\ t[m] = s[m]
  BY <1>1, <1>2, <1>4
<1>6. /\ DOMAIN g = 1..m /\ g[m] = t[m] \cup s[m + 1]
      /\ \A j \in 1..m : j # m => g[j] = t[j]
  BY <1>2, <1>3, <1>4
<1>7. g = [j \in 1..m |-> g[j]]
  BY <1>2, <1>3, <1>6
<1>8. \A j \in 1..m : g[j] \in SUBSET Nat
  BY <1>1, <1>2, <1>5, <1>6
<1>9. g \in [1..m -> SUBSET Nat]
  BY <1>7, <1>8
<1>10. g \in Seq(SUBSET Nat) /\ Len(g) = m
  BY <1>9
<1>11. \A j \in 1..(m - 1) : j \in 1..m /\ j # m
  OBVIOUS
<1> QED BY <1>2, <1>5, <1>6, <1>10, <1>11 DEF g, ScopeLists

(* One more, with nothing in it.                                         *)
LEMMA ScopesEnter ==
    ASSUME NEW s \in ScopeLists, NEW m \in Nat, Len(s) = m + 1
    PROVE  /\ Append(s, {}) \in ScopeLists /\ Len(Append(s, {})) = m + 2
           /\ \A j \in 1..(m + 1) : Append(s, {})[j] = s[j]
           /\ Append(s, {})[m + 2] = {}
<1>1. {} \in SUBSET Nat
  OBVIOUS
<1> QED BY <1>1, LenProperties, AppendProperties DEF ScopeLists

(* One more change in the last.                                          *)
LEMMA ScopesGrow ==
    ASSUME NEW s \in ScopeLists, Len(s) > 0, NEW x \in Nat
    PROVE  /\ Grown(s, Len(s), x) \in ScopeLists
           /\ Len(Grown(s, Len(s), x)) = Len(s)
           /\ \A j \in 1..Len(s) : Grown(s, Len(s), x)[j] =
                 IF j = Len(s) THEN s[j] \cup {x} ELSE s[j]
<1> DEFINE n == Len(s)
           z == Grown(s, n, x)
<1>1. /\ n \in Nat /\ DOMAIN s = 1..n /\ \A i \in 1..n : s[i] \in SUBSET Nat
      /\ s \in Seq(SUBSET Nat)
  BY LenProperties DEF ScopeLists
<1>2. n \in 1..n
  BY <1>1
<1>3. PICK y \in SUBSET Nat : y = s[n] \cup {x}
  BY <1>1, <1>2
<1>4. z = [s EXCEPT ![n] = y]
  BY <1>3 DEF Grown
<1> HIDE DEF z
<1>5. /\ z \in Seq(SUBSET Nat) /\ Len(z) = n
      /\ \A j \in 1..n : z[j] = IF j = n THEN y ELSE s[j]
  BY <1>1, <1>2, <1>4, ExceptSeq
<1> QED BY <1>2, <1>3, <1>5 DEF ScopeLists, z

(* What the server has of an answered statement of c.                      *)
Told(c, good) == IF good THEN Served(log[c], call[c]) ELSE log[c]

(* The statement that is at its end, done or refused, leaves the scopes of *)
(* the client as those of the log.                                         *)
LEMMA ServedAgrees ==
    ASSUME NEW c, call[c] \in Calls, RunsWell(call[c]), NEW good \in BOOLEAN,
           InAgreement(log[c], scopes[c], Level(call[c]))
    PROVE  InAgreement(Told(c, good), ScopesAfter(c, good),
               IF Leaves(call[c], good) THEN call[c].depth ELSE call[c].depth + 1)
<1> DEFINE k == call[c]
           l == log[c]
           s == scopes[c]
           verb == k.sql.verb
           z == ScopesAfter(c, good)
           t == Told(c, good)
<1>1. /\ l \in Seq(Entries) /\ s \in ScopeLists /\ Len(s) = Level(k)
      /\ k.depth \in Nat /\ k.runs \in Nat
  BY SessionAssumption DEF InAgreement, Calls
<1>2. PICK m \in Nat : Level(k) = m + 1 /\ Agree(l, s, m)
  BY DEF InAgreement
<1>3. OfSavepoint(k) => k.depth > 0 /\ k.sql.n = k.depth
  BY DEF RunsWell, Sql
<1>4. Len(s) = m + 1
  BY <1>1, <1>2
<1>5. CASE verb = "savepoint" /\ good
  <2>1. k.depth = m + 1 /\ k.sql.n = m + 1 /\ ~Leaves(k, good)
    BY <1>2, <1>3, <1>5 DEF Level, OfSavepoint, SavepointVerbs, Leaves
  <2>2. PICK x : x = SP(m + 1)
    OBVIOUS
  <2>3. t = Renewed(l, x)
    BY <1>5, <2>1, <2>2 DEF Told, Served, Renewed, SP
  <2>4. z = Append(s, {})
    BY <1>5 DEF ScopesAfter
  <2>5. /\ z \in ScopeLists /\ Len(z) = m + 2
        /\ \A j \in 1..(m + 1) : z[j] = s[j]
        /\ z[m + 2] = {}
    BY <1>1, <1>4, <2>4, ScopesEnter
  <2> HIDE DEF k, l, s, verb, z, t
  <2>6. t \in Seq(Entries) /\ Agree(t, z, m + 1)
    BY <1>1, <1>2, <2>2, <2>3, <2>5, AgreeSavepoint
  <2>7. m + 1 \in Nat /\ k.depth + 1 = (m + 1) + 1 /\ Len(z) = k.depth + 1
    BY <2>1, <2>5
  <2>8. InAgreement(t, z, k.depth + 1)
    BY <2>5, <2>6, <2>7 DEF InAgreement
  <2> QED BY <2>1, <2>8 DEF k, t, z
<1>6. CASE verb = "insert" /\ good
  <2>1. ~OfSavepoint(k) /\ k.depth = m /\ ~Leaves(k, good)
    BY <1>1, <1>2, <1>6 DEF Level, OfSavepoint, SavepointVerbs, Leaves
  <2>2. t = Append(l, CH(k.runs))
    BY <1>6 DEF Told, Served, CH
  <2>3. z = Grown(s, Len(s), k.runs)
    BY <1>6 DEF ScopesAfter, Grown
  <2> HIDE DEF k, l, s, verb, z, t
  <2>n. /\ z \in ScopeLists /\ Len(z) = Len(s)
        /\ \A j \in 1..Len(s) : z[j] = IF j = Len(s) THEN s[j] \cup {k.runs} ELSE s[j]
    <3>1. Len(s) > 0
      BY <1>4
    <3> QED BY <1>1, <2>3, <3>1, ScopesGrow
  <2>4. /\ z \in ScopeLists /\ Len(z) = m + 1
        /\ \A j \in 1..m : z[j] = s[j]
        /\ z[m + 1] = s[m + 1] \cup {k.runs}
    BY <1>4, <2>n
  <2>5. t \in Seq(Entries) /\ Agree(t, z, m)
    <3>1. PICK x \in Nat : x = k.runs
      BY <1>1
    <3>2. t = Append(l, CH(x)) /\ z[m + 1] = s[m + 1] \cup {x}
      BY <2>2, <2>4, <3>1
    <3>3. \A j \in 1..m : z[j] = s[j]
      BY <2>4
    <3>4. l \in Seq(Entries) /\ Agree(l, s, m)
      BY <1>1, <1>2
    <3>5. Append(l, CH(x)) \in Seq(Entries) /\ Agree(Append(l, CH(x)), z, m)
      BY <3>2, <3>3, <3>4, AgreeChange
    <3> QED BY <3>2, <3>5
  <2>6. InAgreement(t, z, k.depth + 1)
    BY <2>1, <2>4, <2>5 DEF InAgreement
  <2> QED BY <2>1, <2>6 DEF k, t, z
<1>7. CASE verb \in {"undo", "release"}
  <2>1. k.depth = m /\ k.sql.n = m /\ m > 0 /\ Leaves(k, good)
    BY <1>1, <1>2, <1>3, <1>7 DEF Level, OfSavepoint, SavepointVerbs, Leaves
  <2>2. PICK i \in Nat : m = i + 1
    <3>1. m - 1 \in Nat /\ m = (m - 1) + 1
      BY <2>1
    <3> QED BY <3>1
  <2>3. m - 1 = i /\ m \in Nat \ {0}
    BY <2>2
  <2>4. Mark(l, k.sql.n) = Mark(l, m)
    BY <2>1
  <2>5. CASE verb = "undo" /\ good
    <3>1. t = UpToMark(l, m)
      BY <2>4, <2>5 DEF Told, Served, UpToMark
    <3>2. z = Front(s)
      BY <2>5 DEF ScopesAfter
    <3>3. /\ z \in ScopeLists /\ Len(z) = m
          /\ \A j \in 1..m : z[j] = s[j]
      <4> HIDE DEF k, l, s, verb, z, t
      <4> QED BY <1>1, <1>4, <3>2, ScopesFront
    <3> HIDE DEF k, l, s, verb, z, t
    <3>4. t \in Seq(Entries) /\ Agree(t, z, m - 1)
      BY <1>1, <1>2, <2>3, <3>1, <3>3, AgreeUndo
    <3>5. InAgreement(t, z, m)
      BY <2>2, <2>3, <3>3, <3>4 DEF InAgreement
    <3> QED BY <2>1, <3>5 DEF k, t, z
  <2>6. CASE ~(verb = "undo" /\ good)
    <3>1. z = Merged(s, m)
      <4>1. z = [SubSeq(s, 1, Len(s) - 1) EXCEPT ![Len(s) - 1] = @ \cup s[Len(s)]]
        BY <1>7, <2>6 DEF ScopesAfter
      <4>2. Len(s) - 1 = m
        BY <1>4
      <4> QED BY <1>4, <4>1, <4>2 DEF Merged
    <3>2. /\ z \in ScopeLists /\ Len(z) = m
          /\ \A j \in 1..(m - 1) : z[j] = s[j]
          /\ z[m] = s[m] \cup s[m + 1]
      <4> HIDE DEF k, l, s, verb, z, t
      <4> QED BY <1>1, <1>4, <2>1, <3>1, ScopesMerge
    <3>3. t \in Seq(Entries) /\ Agree(t, z, m - 1)
      <4>1. CASE ~good
        <5>1. t = l
          BY <4>1 DEF Told
        <5> HIDE DEF k, l, s, verb, z, t
        <5> QED BY <1>1, <1>2, <2>3, <3>2, <5>1, AgreeMerged
      <4>2. CASE good
        <5> DEFINE S == {e \in ToSet(SubSeq(l, Mark(l, m), Len(l))) : ~IsChange(e)}
        <5>1. t = Without(l, S)
          BY <1>7, <2>4, <2>6, <4>2 DEF Told, Served
        <5> HIDE DEF k, l, s, verb, z, t
        <5> QED BY <1>1, <1>2, <2>3, <3>2, <5>1, AgreeRelease
      <4> QED BY <4>1, <4>2
    <3> HIDE DEF k, l, s, verb, z, t
    <3>4. InAgreement(t, z, m)
      BY <2>2, <2>3, <3>2, <3>3 DEF InAgreement
    <3> QED BY <2>1, <3>4 DEF k, t, z
  <2> QED BY <2>5, <2>6
<1>8. CASE /\ ~(verb \in {"savepoint", "insert"} /\ good)
           /\ verb \notin {"undo", "release"}
  <2>1. z = s /\ t = l
    BY <1>8 DEF ScopesAfter, Told, Served
  <2>2. Level(k) = IF Leaves(k, good) THEN k.depth ELSE k.depth + 1
    BY <1>8 DEF Level, Leaves
  <2> QED BY <2>1, <2>2
<1> QED BY <1>5, <1>6, <1>7, <1>8

(* Until it is rolled back, a transaction has at the server what its call  *)
(* believes; and it has committed nothing before its call is over.         *)
Logged(k, l, s, d, ln) ==
    /\ k.at \notin {"rollback", "over"} => InAgreement(l, s, LevelOf(k))
    /\ k.at # "over" /\ ln # "closed" => d = {}
    /\ k.at = "over" =>
          \/ k.outcome = "ok" /\ d = s[1]
          \/ k.outcome = "error" /\ (d = {} \/ ln = "closed")

LogsInv ==
    /\ DOMAIN log = User /\ DOMAIN scopes = User /\ DOMAIN durable = User
    /\ \A c \in User : Logged(call[c], log[c], scopes[c], durable[c], link)

(* One transaction goes on, and the others stay as they are.               *)
OthersLogged(c) ==
    /\ link' = link
    /\ DOMAIN log' = User /\ DOMAIN scopes' = User /\ DOMAIN durable' = User
    /\ \A d \in User \ {c} : /\ log'[d] = log[d] /\ scopes'[d] = scopes[d]
                             /\ durable'[d] = durable[d]

(* If what the one has logged agrees, it does for all.                   *)
LEMMA OneLogged ==
    ASSUME CallsInv, LogsInv, NEW c \in User, NEW new,
           call' = [call EXCEPT ![c] = new], OthersLogged(c),
           Logged(new, log'[c], scopes'[c], durable'[c], link)
    PROVE  LogsInv'
<1>1. call'[c] = new /\ \A d \in User \ {c} : call'[d] = call[d]
  BY DEF CallsInv
<1>2. Logged(call'[c], log'[c], scopes'[c], durable'[c], link')
  BY <1>1 DEF OthersLogged
<1>3. ASSUME NEW d \in User \ {c}
      PROVE  Logged(call'[d], log'[d], scopes'[d], durable'[d], link')
  <2>1. Logged(call[d], log[d], scopes[d], durable[d], link)
    BY DEF LogsInv
  <2>2. /\ call'[d] = call[d] /\ log'[d] = log[d] /\ scopes'[d] = scopes[d]
        /\ durable'[d] = durable[d] /\ link' = link
    BY <1>1 DEF OthersLogged
  <2> QED BY <2>1, <2>2
<1>4. \A d \in User : Logged(call'[d], log'[d], scopes'[d], durable'[d], link')
  BY <1>2, <1>3
<1> QED BY <1>4 DEF LogsInv, OthersLogged

(* The transactions stay as they are.                                      *)
AllLogged(c) ==
    OthersLogged(c) /\ log'[c] = log[c] /\ scopes'[c] = scopes[c] /\ durable'[c] = durable[c]

(* So they do when nothing of a transaction changes.                     *)
LEMMA UnchangedLogs ==
    ASSUME LogsInv, NEW c \in User, UNCHANGED <<link, log, scopes, durable>>
    PROVE  AllLogged(c)
BY DEF AllLogged, OthersLogged, LogsInv

(* A call that goes on as deep as it was.                                  *)
LEMMA StaysLogged ==
    ASSUME CallsInv, LogsInv, NEW c \in User, NEW new,
           call' = [call EXCEPT ![c] = new], AllLogged(c),
           call[c].at \notin {"rollback", "over"}, new.at # "over",
           new.at = "rollback" \/ LevelOf(new) = LevelOf(call[c])
    PROVE  LogsInv'
<1>1. Logged(call[c], log[c], scopes[c], durable[c], link)
  BY DEF LogsInv
<1>2. Logged(new, log'[c], scopes'[c], durable'[c], link)
  BY <1>1 DEF Logged, AllLogged
<1>3. OthersLogged(c)
  BY DEF AllLogged
<1> QED BY <1>2, <1>3, OneLogged

(* A call that lands as deep as it was.                                  *)
LEMMA LandedLogged ==
    ASSUME CallsInv, LogsInv, NEW c \in User, Landed(c, LevelOf(call[c])),
           UNCHANGED <<link, log, scopes, durable>>,
           call[c].at \notin {"rollback", "over"}
    PROVE  LogsInv'
<1>1. AllLogged(c)
  BY UnchangedLogs
<1> QED BY <1>1, StaysLogged DEF Landed

(* A statement at its end: the server has it, or has not.                  *)
LEMMA EndsLogged ==
    ASSUME CallsInv, LogsInv, NEW c \in User, call[c].at \in Running,
           NEW good \in BOOLEAN, NEW all \in BOOLEAN, NEW rest, Ends(c, all, rest),
           OthersLogged(c), durable' = durable,
           log'[c] = Told(c, good), scopes'[c] = ScopesAfter(c, good),
           call[c].api = "withTransaction" => all = good
    PROVE  LogsInv'
<1> DEFINE k == call[c]
           new == After(k, all)
<1>1. /\ k \in Calls /\ RunsWell(k) /\ k.depth \in 0..MaxDepth
      /\ Logged(k, log[c], scopes[c], durable[c], link)
  BY DEF CallsInv, LogsInv, Fits, Shape, Calls
<1>2. InAgreement(log[c], scopes[c], Level(k)) /\ (link # "closed" => durable[c] = {})
  <2>1. k.at \notin {"rollback", "over"} /\ LevelOf(k) = Level(k)
    BY DEF Running, LevelOf
  <2> QED BY <1>1, <2>1 DEF Logged
<1>3. InAgreement(log'[c], scopes'[c], IF Leaves(k, good) THEN k.depth ELSE k.depth + 1)
  <2>1. InAgreement(Told(c, good), ScopesAfter(c, good),
               IF Leaves(k, good) THEN k.depth ELSE k.depth + 1)
    BY <1>1, <1>2, ServedAgrees
  <2> QED BY <2>1
<1>4. /\ new.at \in {"work", "commit", "rollback"}
      /\ new.depth = IF Leaves(k, all) THEN k.depth - 1 ELSE k.depth
  BY <1>1, AfterFits
<1>5. call' = [call EXCEPT ![c] = new]
  BY DEF Ends, Goes
<1>6. Leaves(k, all) <=> Leaves(k, good)
  <2>1. CASE k.api = "withTransaction"
    <3>1. all = good
      BY <2>1
    <3> QED BY <3>1
  <2>2. CASE k.api # "withTransaction"
    <3>1. ~OfSavepoint(k)
      BY <1>1, <2>2 DEF RunsWell
    <3> QED BY <3>1 DEF Leaves, OfSavepoint, SavepointVerbs
  <2> QED BY <2>1, <2>2
<1> HIDE DEF k, new
<1>7. LevelOf(new) = IF Leaves(k, good) THEN k.depth ELSE k.depth + 1
  <2>1. new.at \notin Running /\ k.depth \in Nat
    BY <1>1, <1>4, SessionAssumption DEF Running
  <2>2. LevelOf(new) = new.depth + 1
    BY <2>1 DEF LevelOf
  <2>3. CASE Leaves(k, good)
    BY <1>4, <1>6, <2>1, <2>2, <2>3
  <2>4. CASE ~Leaves(k, good)
    BY <1>4, <1>6, <2>2, <2>4
  <2> QED BY <2>3, <2>4
<1>8. InAgreement(log'[c], scopes'[c], LevelOf(new))
  BY <1>3, <1>7
<1>9. Logged(new, log'[c], scopes'[c], durable'[c], link)
  BY <1>2, <1>4, <1>8 DEF Logged
<1> QED BY <1>5, <1>9, OneLogged

(* A statement at its end of which the server knows already.               *)
LEMMA PlainEndsLogged ==
    ASSUME CallsInv, LogsInv, NEW c \in User, call[c].at \in Running,
           ~OfSavepoint(call[c]), NEW all \in BOOLEAN, NEW rest, Ends(c, all, rest),
           AllLogged(c)
    PROVE  LogsInv'
<1> DEFINE k == call[c]
           new == After(k, all)
<1>1. k \in Calls /\ RunsWell(k)
  BY DEF CallsInv, Fits, Shape
<1>2. ~Leaves(k, all) /\ LevelOf(k) = k.depth + 1 /\ k.at \notin {"rollback", "over"}
  BY DEF Leaves, LevelOf, Level, OfSavepoint, SavepointVerbs, Running
<1>3. new.at \in {"work", "commit", "rollback"} /\ new.depth = k.depth
  BY <1>1, <1>2, AfterFits
<1>4. call' = [call EXCEPT ![c] = new]
  BY DEF Ends, Goes
<1> HIDE DEF new
<1>5. new.at # "over" /\ LevelOf(new) = LevelOf(k)
  BY <1>2, <1>3 DEF LevelOf, Running
<1> QED BY <1>2, <1>4, <1>5, StaysLogged

(* The callbacks keep log and scopes in agreement: that of a begin,      *)
LEMMA BegunLogged ==
    ASSUME CacheInv, CallsInv, LogsInv, NEW c \in User, call[c].at = "begin",
           NEW good \in BOOLEAN, NEW rest, Begun(c, good, rest), link' = link
    PROVE  LogsInv'
<1> DEFINE k == call[c]
<1>1. /\ k \in Calls /\ Shape(k) /\ held[c] = {} /\ k.depth = 0 /\ ~OfSavepoint(k)
  BY DEF CallsInv, Fits, Shape, Has
<1>2. UNCHANGED <<link, log, scopes, durable>>
  BY DEF Begun
<1>3. LevelOf(k) = k.depth + 1 /\ Level(k) = LevelOf(k)
  BY <1>1 DEF LevelOf, Level, Running, OfSavepoint, SavepointVerbs
<1>4. CASE ~good
  <2> DEFINE new == [At(c, "over") EXCEPT !.outcome = "error"]
  <2>1. call' = [call EXCEPT ![c] = new]
    BY <1>4 DEF Begun, Goes
  <2>2. new.at = "over" /\ new.outcome = "error"
    BY <1>1 DEF Calls, At
  <2>3. link # "closed" => durable[c] = {}
    BY DEF LogsInv, Logged
  <2> HIDE DEF new
  <2>4. Logged(new, log'[c], scopes'[c], durable'[c], link)
    BY <1>2, <2>2, <2>3 DEF Logged
  <2>5. OthersLogged(c)
    BY <1>2 DEF OthersLogged, LogsInv
  <2> QED BY <2>1, <2>4, <2>5, OneLogged
<1>5. CASE good
  <2>1. RunsWell(k)
    BY <1>1 DEF RunsWell
  <2>2. CASE Goes(c, At(c, "work"), rest)
    <3> DEFINE new == At(c, "work")
    <3>1. call' = [call EXCEPT ![c] = new]
      BY <2>2 DEF Goes
    <3>2. new.at = "work" /\ new.depth = k.depth
      BY <1>1 DEF Calls, At
    <3> HIDE DEF new
    <3>3. LevelOf(new) = LevelOf(k)
      BY <1>3, <3>2 DEF LevelOf, Running
    <3>4. new.at # "over" /\ k.at \notin {"rollback", "over"}
      BY <3>2
    <3> QED BY <1>2, <3>1, <3>3, <3>4, UnchangedLogs, StaysLogged
  <2>3. CASE Execute(c, k, rest) \/ NewStatement(c, k, rest)
    <3>1. Landed(c, Level(k))
      BY <1>1, <2>1, <2>3, ExecuteLands, NewStatementLands
    <3>2. Landed(c, LevelOf(k))
      BY <1>3, <3>1
    <3> QED BY <1>2, <3>2, LandedLogged
  <2> QED BY <1>5, <2>2, <2>3 DEF Begun
<1> QED BY <1>4, <1>5

(* of a prepare,                                                         *)
LEMMA PrepareLogged ==
    ASSUME CacheInv, CallsInv, LogsInv, NEW c \in User, call[c].at = "prepare",
           NEW good \in BOOLEAN, NEW rest, PrepareAnswered(c, good, rest), link' = link
    PROVE  LogsInv'
<1> DEFINE k == call[c]
<1>1. /\ k \in Calls /\ RunsWell(k) /\ k.at \in Running
      /\ Logged(k, log[c], scopes[c], durable[c], link)
  BY DEF CallsInv, LogsInv, Fits, Shape, Running
<1>2. /\ UNCHANGED <<link, log, durable>>
      /\ scopes' = [scopes EXCEPT ![c] = IF good THEN @ ELSE ScopesAfter(c, FALSE)]
  BY DEF PrepareAnswered, server
<1>3. OthersLogged(c)
  BY <1>2 DEF OthersLogged, LogsInv
<1>4. CASE ~good
  <2>1. log'[c] = Told(c, FALSE) /\ scopes'[c] = ScopesAfter(c, FALSE)
    BY <1>2, <1>4 DEF Told, LogsInv
  <2>2. CASE Ends(c, FALSE, rest)
    BY <1>1, <1>2, <1>3, <2>1, <2>2, EndsLogged
  <2>3. CASE Goes(c, [At(c, "over") EXCEPT !.outcome = "error"], rest)
    <3> DEFINE new == [At(c, "over") EXCEPT !.outcome = "error"]
    <3>1. call' = [call EXCEPT ![c] = new]
      BY <2>3 DEF Goes
    <3>2. new.at = "over" /\ new.outcome = "error"
      BY <1>1 DEF Calls, At
    <3>3. link # "closed" => durable[c] = {}
      BY <1>1 DEF Logged
    <3> HIDE DEF new
    <3>4. Logged(new, log'[c], scopes'[c], durable'[c], link)
      BY <1>2, <3>2, <3>3 DEF Logged
    <3> QED BY <1>3, <3>1, <3>4, OneLogged
  <2> QED BY <1>4, <2>2, <2>3 DEF PrepareAnswered
<1>5. CASE good
  <2>1. AllLogged(c)
    BY <1>2, <1>3, <1>5 DEF LogsInv, AllLogged
  <2>2. CASE Goes(c, Prepared(k), rest)
    <3> DEFINE new == Prepared(k)
    <3>1. call' = [call EXCEPT ![c] = new]
      BY <2>2 DEF Goes
    <3>2. /\ new.at = IF k.api = "newStatement" THEN "commit" ELSE "execute"
          /\ new.depth = k.depth /\ new.sql = k.sql
      BY <1>1, PreparedFits
    <3>3. k.api = "newStatement" => ~OfSavepoint(k)
      BY <1>1 DEF RunsWell
    <3> HIDE DEF new
    <3>4. LevelOf(new) = LevelOf(k)
      BY <3>2, <3>3 DEF LevelOf, Level, Running, OfSavepoint, SavepointVerbs
    <3>5. new.at # "over" /\ k.at \notin {"rollback", "over"}
      BY <3>2
    <3> QED BY <2>1, <3>1, <3>4, <3>5, StaysLogged
  <2>3. CASE k.sql \notin SavepointTexts /\ Ends(c, FALSE, rest)
    <3>1. ~OfSavepoint(k)
      BY <1>1, <2>3, SavepointText
    <3> QED BY <1>1, <2>1, <2>3, <3>1, PlainEndsLogged
  <2> QED BY <1>5, <2>2, <2>3 DEF PrepareAnswered
<1> QED BY <1>4, <1>5

(* of an execute, which is where the log grows and shrinks,              *)
LEMMA ExecutedLogged ==
    ASSUME CacheInv, CallsInv, LogsInv, NEW c \in User, call[c].at = "execute",
           NEW good \in BOOLEAN, NEW rest, Executed(c, good, rest), link' = link
    PROVE  LogsInv'
<1> DEFINE k == call[c]
<1>1. /\ k \in Calls /\ RunsWell(k) /\ k.at \in Running
      /\ Logged(k, log[c], scopes[c], durable[c], link)
  BY DEF CallsInv, LogsInv, Fits, Shape, Running
<1>2. /\ durable' = durable
      /\ log' = [log EXCEPT ![c] = IF good THEN Served(@, k) ELSE @]
      /\ scopes' = [scopes EXCEPT ![c] = ScopesAfter(c, good)]
  BY DEF Executed
<1>3. OthersLogged(c) /\ log'[c] = Told(c, good) /\ scopes'[c] = ScopesAfter(c, good)
  BY <1>2 DEF OthersLogged, LogsInv, Told
<1>4. CASE ~good /\ DropError(c, rest)
  <2>1. Ends(c, FALSE, rest) /\ good = FALSE
    BY <1>4 DEF DropError
  <2> QED BY <1>1, <1>2, <1>3, <2>1, EndsLogged
<1>5. CASE good /\ Delivers(c, rest)
  <2>1. Ends(c, TRUE, rest) /\ good = TRUE
    BY <1>5 DEF Delivers
  <2> QED BY <1>1, <1>2, <1>3, <2>1, EndsLogged
<1>6. CASE k.api = "executeBatch" /\ \E all \in BOOLEAN : Ends(c, all, rest)
  BY <1>1, <1>2, <1>3, <1>6, EndsLogged
<1>7. CASE /\ good /\ k.sql.verb \in {"select", "call", "insert"}
           /\ Asks(c, "fetch", rest) \/ Asks(c, "info", rest)
  <2>1. PICK at \in {"fetch", "info"} : Asks(c, at, rest)
    BY <1>7
  <2> DEFINE new == At(c, at)
  <2>2. call' = [call EXCEPT ![c] = new]
    BY <2>1 DEF Asks, Goes
  <2>3. new.at = at /\ new.sql = k.sql /\ new.depth = k.depth
    BY <1>1 DEF At, Calls
  <2>4. ~Leaves(k, good) /\ k.sql.verb # "savepoint"
    BY <1>7 DEF Leaves
  <2>5. LevelOf(k) = Level(k)
    BY <1>1 DEF LevelOf
  <2>6. InAgreement(log[c], scopes[c], Level(k)) /\ (link # "closed" => durable[c] = {})
    BY <1>1, <2>5 DEF Logged
  <2>7. InAgreement(Told(c, good), ScopesAfter(c, good),
               IF Leaves(k, good) THEN k.depth ELSE k.depth + 1)
    BY <1>1, <2>6, ServedAgrees
  <2>8. InAgreement(log'[c], scopes'[c], k.depth + 1)
    BY <1>3, <2>4, <2>7
  <2> HIDE DEF new
  <2>9. LevelOf(new) = k.depth + 1 /\ new.at # "over"
    BY <2>3, <2>4 DEF LevelOf, Level, Running
  <2>10. Logged(new, log'[c], scopes'[c], durable'[c], link)
    BY <1>2, <2>6, <2>8, <2>9 DEF Logged
  <2> QED BY <1>3, <2>2, <2>10, OneLogged
<1> QED BY <1>4, <1>5, <1>6, <1>7 DEF Executed

(* of a fetch or the records affected,                                   *)
LEMMA FetchedLogged ==
    ASSUME CacheInv, CallsInv, LogsInv, NEW c \in User, call[c].at \in {"fetch", "info"},
           NEW good \in BOOLEAN, NEW rest, link' = link,
           \/ call[c].at = "fetch" /\ Fetched(c, good, rest)
           \/ call[c].at = "info" /\ Informed(c, good, rest)
    PROVE  LogsInv'
<1>1. UNCHANGED <<link, log, scopes, durable>>
  BY DEF Fetched, Informed, server
<1>2. call[c] \in Calls /\ ~OfSavepoint(call[c]) /\ call[c].at \in Running
  BY DEF CallsInv, Fits, Shape, Running
<1>3. CASE \E all \in BOOLEAN : Ends(c, all, rest)
  BY <1>1, <1>2, <1>3, UnchangedLogs, PlainEndsLogged
<1>4. CASE call[c].at = "fetch" /\ Asks(c, "info", rest)
  <2> DEFINE new == At(c, "info")
  <2>1. call' = [call EXCEPT ![c] = new]
    BY <1>4 DEF Asks, Goes
  <2>2. new.at = "info" /\ new.sql = call[c].sql /\ new.depth = call[c].depth
    BY <1>2 DEF At, Calls
  <2> HIDE DEF new
  <2>3. LevelOf(new) = LevelOf(call[c])
    BY <1>2, <2>2 DEF LevelOf, Level, Running
  <2>4. new.at # "over" /\ call[c].at \notin {"rollback", "over"}
    BY <2>2
  <2> QED BY <1>1, <2>1, <2>3, <2>4, UnchangedLogs, StaysLogged
<1> QED BY <1>3, <1>4 DEF Fetched, Informed, DropError, Delivers

(* A commit makes durable what the client holds in its one scope.          *)
LEMMA CommitsScope ==
    ASSUME NEW l, NEW s, InAgreement(l, s, 1)
    PROVE  Changes(l) = s[1]
<1>1. l \in Seq(Entries) /\ s \in ScopeLists /\ Len(s) = 1 /\ Agree(l, s, 0)
  <2>1. PICK m \in Nat : 1 = m + 1 /\ Agree(l, s, m)
    BY DEF InAgreement
  <2>2. m = 0
    BY <2>1
  <2>3. Agree(l, s, 0)
    BY <2>1, <2>2
  <2>4. l \in Seq(Entries) /\ s \in ScopeLists /\ Len(s) = 1
    BY DEF InAgreement
  <2> QED BY <2>3, <2>4
<1>2. s[1] \subseteq Nat
  <2>1. s \in Seq(SUBSET Nat) /\ Len(s) = 1
    BY <1>1 DEF ScopeLists
  <2>2. s[1] \in SUBSET Nat
    BY <2>1
  <2> QED BY <2>2
<1>3. \A n \in Nat : CH(n) \in ToSet(l) <=> n \in s[1]
  <2>1. \A n \in Nat : CH(n) \in ToSet(l) <=> InScope(n, s, 1)
    BY <1>1 DEF Agree
  <2>2. \A n : InScope(n, s, 1) <=> n \in s[1]
    BY DEF InScope
  <2> QED BY <2>1, <2>2
<1>4. ToSet(l) \subseteq Entries
  BY <1>1, LenProperties DEF ToSet
<1>5. \A n : n \in Changes(l) <=> n \in Nat /\ CH(n) \in ToSet(l)
  <2>1. ASSUME NEW n \in Changes(l) PROVE n \in Nat /\ CH(n) \in ToSet(l)
    <3>1. PICK e \in ToSet(l) : IsChange(e) /\ e.n = n
      BY <2>1 DEF Changes
    <3>2. e \in Entries /\ e = CH(e.n)
      BY <1>4, <3>1, EntriesDiffer
    <3>3. n \in Nat
      BY <3>1, <3>2 DEF Entries
    <3> QED BY <3>1, <3>2, <3>3
  <2>2. ASSUME NEW n \in Nat, CH(n) \in ToSet(l) PROVE n \in Changes(l)
    <3>1. IsChange(CH(n)) /\ CH(n).n = n
      BY DEF IsChange, CH, Entry
    <3> QED BY <2>2, <3>1 DEF Changes
  <2> QED BY <2>1, <2>2
<1> QED BY <1>2, <1>3, <1>5

(* and of a commit or a rollback.                                        *)
LEMMA EndedLogged ==
    ASSUME CallsInv, LogsInv, NEW c \in User, call[c].at \in {"commit", "rollback"},
           NEW good \in BOOLEAN, NEW rest, Ended(c, good, rest), link' = link
    PROVE  LogsInv'
<1> DEFINE k == call[c]
           new == IF k.at = "commit" /\ ~good THEN CommitFailed(c) ELSE Over(c, good)
<1>1. k \in Calls /\ Shape(k) /\ Logged(k, log[c], scopes[c], durable[c], link)
  BY DEF CallsInv, LogsInv, Fits
<1>2. /\ log' = [log EXCEPT ![c] = IF good THEN <<>> ELSE @]
      /\ durable' = [durable EXCEPT ![c] =
            IF good /\ k.at = "commit" THEN Changes(log[c]) ELSE @]
      /\ scopes' = scopes /\ call' = [call EXCEPT ![c] = new]
  BY DEF Ended, Goes
<1>3. OthersLogged(c)
  BY <1>2 DEF LogsInv, OthersLogged
<1>4. link # "closed" => durable[c] = {}
  BY <1>1 DEF Logged
<1>5. CASE good /\ k.at = "commit"
  <2>1. new = [At(c, "over") EXCEPT !.outcome = @]
    BY <1>5 DEF Over
  <2>2. new.at = "over" /\ new.outcome = "ok"
    BY <1>1, <1>5, <2>1 DEF Calls, At, Shape
  <2>3. LevelOf(k) = 1
    BY <1>1, <1>5 DEF Shape, LevelOf, Running
  <2>4. InAgreement(log[c], scopes[c], 1)
    BY <1>1, <1>5, <2>3 DEF Logged
  <2>5. durable'[c] = scopes'[c][1]
    BY <1>2, <1>5, <2>4, CommitsScope DEF LogsInv
  <2> HIDE DEF new
  <2>6. Logged(new, log'[c], scopes'[c], durable'[c], link)
    BY <2>2, <2>5 DEF Logged
  <2> QED BY <1>2, <1>3, <2>6, OneLogged
<1>6. CASE ~(good /\ k.at = "commit")
  <2>1. durable'[c] = durable[c]
    BY <1>2, <1>6 DEF LogsInv
  <2>2. new.at \in {"over", "rollback"} /\ new.outcome = "error"
    <3>1. CASE k.at = "commit"
      BY <1>1, <1>6, <3>1 DEF CommitFailed, Over, Calls, At
    <3>2. CASE k.at = "rollback"
      BY <1>1, <3>2 DEF Over, Calls, At, Shape
    <3> QED BY <3>1, <3>2
  <2> HIDE DEF new
  <2>3. Logged(new, log'[c], scopes'[c], durable'[c], link)
    BY <1>4, <2>1, <2>2 DEF Logged
  <2> QED BY <1>2, <1>3, <2>3, OneLogged
<1> QED BY <1>5, <1>6

(* Every answer does.                                                    *)
LEMMA AnsweredLogged ==
    ASSUME CacheInv, CallsInv, LogsInv, NEW c \in User, call[c].at \in Requests,
           NEW good \in BOOLEAN, NEW rest, Answered(c, good, rest), link' = link
    PROVE  LogsInv'
<1>1. CASE call[c].at = "begin" /\ Begun(c, good, rest)
  BY <1>1, BegunLogged
<1>2. CASE call[c].at = "prepare" /\ PrepareAnswered(c, good, rest)
  BY <1>2, PrepareLogged
<1>3. CASE call[c].at = "execute" /\ Executed(c, good, rest)
  BY <1>3, ExecutedLogged
<1>4. CASE call[c].at = "fetch" /\ Fetched(c, good, rest)
  BY <1>4, FetchedLogged
<1>5. CASE call[c].at = "info" /\ Informed(c, good, rest)
  BY <1>5, FetchedLogged
<1>6. CASE call[c].at \in {"commit", "rollback"} /\ Ended(c, good, rest)
  BY <1>6, EndedLogged
<1> QED BY <1>1, <1>2, <1>3, <1>4, <1>5, <1>6 DEF Answered, Requests

(* What the user does is not at the server yet.                            *)
LEMMA UserLogged ==
    ASSUME CacheInv, CallsInv, LogsInv, NEW c \in User, Call(c) \/ Work(c)
    PROVE  LogsInv'
<1>1. UNCHANGED <<link, log, scopes, durable>>
  BY DEF Call, Work, server
<1>2. CASE Call(c)
  <2>1. PICK api \in Api[c], q \in Query[c] :
          Goes(c, [NoCall EXCEPT !.api = api, !.at = "begin", !.sql = q], line)
    BY <1>2 DEF Call
  <2> DEFINE new == [NoCall EXCEPT !.api = api, !.at = "begin", !.sql = q]
  <2>2. new.at = "begin" /\ new.depth = 0
    BY DEF NoCall
  <2>3. call' = [call EXCEPT ![c] = new]
    BY <2>1 DEF Goes
  <2>4. call[c].at = "idle" /\ call[c].depth = 0
    BY <1>2 DEF Call, CallsInv, Fits, Shape
  <2> HIDE DEF new
  <2>5. LevelOf(new) = LevelOf(call[c])
    BY <2>2, <2>4 DEF LevelOf, Running
  <2>6. new.at # "over" /\ call[c].at \notin {"rollback", "over"}
    BY <2>2, <2>4
  <2> QED BY <1>1, <2>3, <2>5, <2>6, UnchangedLogs, StaysLogged
<1>3. CASE Work(c)
  <2>1. call[c].at \notin {"rollback", "over"}
    BY <1>3 DEF Work
  <2> QED BY <1>1, <1>3, <2>1, WorkLands, LandedLogged
<1> QED BY <1>2, <1>3

(* The socket is lost: a commit on its way may have been done.             *)
LEMMA LostLogged ==
    ASSUME LogsInv, CallsInv, Lost
    PROVE  LogsInv'
<1>1. /\ link' = "closed" /\ call' = call /\ log' = log /\ scopes' = scopes
      /\ DOMAIN durable' = User
      /\ \A c \in User : call[c].at # "commit" => durable'[c] = durable[c]
  BY DEF Lost
<1>2. link # "closed"
  BY DEF Lost
<1>3. ASSUME NEW c \in User
      PROVE  Logged(call'[c], log'[c], scopes'[c], durable'[c], link')
  <2>1. Logged(call[c], log[c], scopes[c], durable[c], link)
    BY DEF LogsInv
  <2>2. CASE call[c].at = "commit"
    BY <1>1, <2>1, <2>2 DEF Logged
  <2>3. CASE call[c].at # "commit"
    BY <1>1, <2>1, <2>3 DEF Logged
  <2> QED BY <2>2, <2>3
<1> QED BY <1>1, <1>3 DEF LogsInv

(* Every step does.                                                      *)
LEMMA LogsGoOn ==
    ASSUME SessionInv, CallsInv, LogsInv, [Next]_vars
    PROVE  LogsInv'
<1> USE DEF SessionInv
<1>1. ASSUME NEW c \in User, Call(c) \/ Work(c) PROVE LogsInv'
  BY <1>1, UserLogged
<1>2. ASSUME UNCHANGED <<call, link, log, scopes, durable>> PROVE LogsInv'
  BY <1>2 DEF LogsInv
<1>3. ASSUME NEW c \in User, GiveBack(c) \/ Abort(c) PROVE LogsInv'
  BY <1>2, <1>3 DEF GiveBack, Abort, server
<1>4. ASSUME NEW c \in User, Refuse(c) PROVE LogsInv'
  <2>1. call[c].at \in Requests /\ Answered(c, FALSE, line) /\ link' = link
    BY <1>4 DEF Refuse
  <2> QED BY <2>1, AnsweredLogged
<1>5. ASSUME NEW good \in BOOLEAN, line # <<>>, link' = link,
             Answered(Head(line), good, Tail(line))
      PROVE  LogsInv'
  <2>1. Head(line) \in User /\ call[Head(line)].at \in Requests
    BY <1>5, BehindHead
  <2> QED BY <1>5, <2>1, AnsweredLogged
<1>6. ASSUME NEW good \in BOOLEAN, Answer(good) PROVE LogsInv'
  BY <1>5, <1>6 DEF Answer
<1>7. ASSUME Cancelled PROVE LogsInv'
  <2>1. CASE line # <<>> /\ Answered(Head(line), FALSE, Tail(line))
    BY <1>5, <1>7, <2>1 DEF Cancelled
  <2>2. CASE UNCHANGED <<cached, call, line, server, scopes, refused>>
    BY <1>2, <1>7, <2>2 DEF Cancelled, server
  <2> QED BY <1>7, <2>1, <2>2 DEF Cancelled
<1>8. ASSUME Lost PROVE LogsInv'
  BY <1>8, LostLogged
<1>9. CASE UNCHANGED vars
  BY <1>2, <1>9 DEF vars, server
<1> QED BY <1>1, <1>3, <1>4, <1>6, <1>7, <1>8, <1>9 DEF Next

(* Log and scopes agree in every state.                                  *)
LEMMA LogsInvariant == Spec => []LogsInv
<1>1. Init => LogsInv
  <2> SUFFICES ASSUME Init PROVE LogsInv
    OBVIOUS
  <2>1. /\ call = [c \in User |-> NoCall] /\ log = [c \in User |-> <<>>]
        /\ durable = [c \in User |-> {}] /\ scopes = [c \in User |-> <<{}>>]
    BY DEF Init
  <2>2. /\ NoCall.at = "idle" /\ LevelOf(NoCall) = 1
    BY DEF NoCall, LevelOf, Running
  <2>3. /\ <<>> \in Seq(Entries) /\ <<{}>> \in ScopeLists /\ Len(<<{}>>) = 1
    BY DEF ScopeLists
  <2>4. Agree(<<>>, <<{}>>, 0)
    <3>1. DOMAIN <<>> = {} /\ ToSet(<<>>) = {}
      BY DEF ToSet
    <3>2. \A n : ~InScope(n, <<{}>>, 1)
      BY DEF InScope
    <3>3. Once(<<>>)
      BY <3>1 DEF Once
    <3> QED BY <3>1, <3>2, <3>3 DEF Agree
  <2>5. InAgreement(<<>>, <<{}>>, 1)
    <3>1. 0 \in Nat /\ 1 = 0 + 1
      OBVIOUS
    <3> QED BY <2>3, <2>4, <3>1 DEF InAgreement
  <2>6. Logged(NoCall, <<>>, <<{}>>, {}, link)
    BY <2>2, <2>5 DEF Logged
  <2> QED BY <2>1, <2>6 DEF LogsInv
<1>2. SessionInv /\ CallsInv /\ LogsInv /\ [Next]_vars => LogsInv'
  BY LogsGoOn
<1> QED BY <1>1, <1>2, SessionInvariant, CallsInvariant, PTL DEF Spec

(* What a call commits is what its caller was told: after a success, the   *)
(* changes of all the work not rolled back to a savepoint; after an error  *)
(* nothing, unless the connection was lost (transaction.ts:75-78).         *)
THEOREM SessionCommitsWhatResolved == Spec => []CommitsWhatResolved
<1>1. LogsInv => CommitsWhatResolved
  BY DEF LogsInv, Logged, CommitsWhatResolved
<1> QED BY <1>1, LogsInvariant, PTL

=============================================================================
