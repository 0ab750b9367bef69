----------------------------- MODULE PoolProofs -----------------------------
(***************************************************************************)
(* Theorems about the connection pool, for every number of callers and     *)
(* every setting of its options.                                           *)
(*  - No connection has two holders and none is leaked: which list a       *)
(*    connection is on goes with who holds it (HolderInv).                 *)
(*  - The connections never exceed max, nor the uses of one maxUses, as    *)
(*    long as attach() answers once.  The pool does not count its          *)
(*    connections when it decides to make one more: it adds dbinuse and    *)
(*    _creating, and looks whether the idle list is empty.  The argument   *)
(*    is that both counters say what their names say (BoundsInv).          *)
(*  - The pool keeps what module Lease promises its callers (LeaseInv).    *)
(***************************************************************************)
EXTENDS Pool, SeqRemovalProofs

(* A counter raised by one is still a family of counters.                 *)
LEMMA OneMore ==
    ASSUME NEW f \in [Req -> Nat], NEW x \in Req
    PROVE  [f EXCEPT ![x] = @ + 1] \in [Req -> Nat]
  OBVIOUS

(* The types of a pool's fields in terms of the arguments of check().      *)
LEMMA CheckTypes ==
    ASSUME TypeOK,
           NEW waiting \in Seq(Req), NEW idle \in Seq(Req), NEW all \in Seq(Req),
           NEW inuse \in Int, NEW due \in Nat,
           Check(waiting, idle, all, inuse, due)
    PROVE  /\ pending' \in Seq(Req) /\ pooldb' \in Seq(Req)
           /\ internaldb' \in Seq(Req)
           /\ dbinuse' \in Int /\ creating' \in Int /\ checks' \in Nat
           /\ attach' \in [Req -> AttachState]
           /\ useCount' \in [Req -> Nat]
           /\ got' \in [Req -> Req \cup {NoConn}]
           /\ answers' \in [Req -> Nat]
<1> USE DEF TypeOK
<1>1. CASE CheckNothing(waiting, idle, all, inuse, due)
  BY <1>1 DEF CheckNothing
<1>2. CASE CheckDiscards(waiting, idle, all, inuse, due)
  BY <1>2, TailElements, WithoutProperties DEF CheckDiscards
<1>3. CASE CheckHandsOut(waiting, idle, all, inuse, due)
  <2>1. waiting # <<>> /\ idle # <<>>
    BY <1>3 DEF CheckHandsOut, MayServe
  <2>2. /\ Head(waiting) \in Req /\ Tail(waiting) \in Seq(Req)
        /\ Head(idle) \in Req /\ Tail(idle) \in Seq(Req)
    BY <2>1, TailElements
  <2>3. PICK r \in Req, c \in Req : r = Head(waiting) /\ c = Head(idle)
    BY <2>2
  <2>4. /\ useCount' = [useCount EXCEPT ![c] = @ + 1]
        /\ answers' = [answers EXCEPT ![r] = @ + 1]
        /\ got' = [got EXCEPT ![r] = c]
    BY <1>3, <2>3 DEF CheckHandsOut, Answer
  <2>5. useCount' \in [Req -> Nat] /\ answers' \in [Req -> Nat]
    <3>1. useCount' \in [Req -> Nat]
      BY <2>4, OneMore
    <3>2. answers' \in [Req -> Nat]
      BY <2>4, OneMore
    <3>. QED
      BY <3>1, <3>2
  <2>6. got' \in [Req -> Req \cup {NoConn}]
    BY <2>4
  <2>7. /\ pooldb' = Tail(idle) /\ internaldb' = all /\ pending' = Tail(waiting)
        /\ dbinuse' = inuse + 1 /\ checks' = due + 1
        /\ UNCHANGED <<creating, attach>>
    BY <1>3 DEF CheckHandsOut
  <2>8. dbinuse' \in Int /\ checks' \in Nat
    BY <2>7
  <2>9. creating' \in Int /\ attach' \in [Req -> AttachState]
    BY <2>7
  <2> QED BY <2>2, <2>5, <2>6, <2>7, <2>8, <2>9
<1>4. CASE CheckAttaches(waiting, idle, all, inuse, due)
  <2>1. Head(waiting) \in Req /\ Tail(waiting) \in Seq(Req)
    BY <1>4, TailElements DEF CheckAttaches, MayServe
  <2> QED BY <1>4, <2>1 DEF CheckAttaches, AttachState
<1> QED BY <1>1, <1>2, <1>3, <1>4 DEF Check

(* A new pool has the declared types.                                     *)
LEMMA InitTypeOK == Init => TypeOK
<1> SUFFICES ASSUME Init PROVE TypeOK
  OBVIOUS
<1> USE DEF Init
<1>1. pending \in Seq(Req) /\ pooldb \in Seq(Req) /\ internaldb \in Seq(Req)
  BY EmptySeq
<1>2. attach \in [Req -> AttachState] /\ conn \in [Req -> ConnState]
  BY DEF AttachState, ConnState
<1>3. /\ useCount \in [Req -> Nat] /\ answers \in [Req -> Nat]
      /\ got \in [Req -> Req \cup {NoConn}]
      /\ remaining \in [Destroyers -> Int] /\ replies \in [Destroyers -> Int]
      /\ closes \in [Destroyers -> SUBSET Req]
  OBVIOUS
<1>4. /\ dbinuse \in Int /\ creating \in Int /\ checks \in Nat
      /\ aged \subseteq Req /\ stale \subseteq Req
      /\ asked \subseteq Req /\ released \subseteq Req
  OBVIOUS
<1>5. destroyed \in BOOLEAN
  BY Zenon
<1> HIDE DEF Init
<1> QED BY <1>1, <1>2, <1>3, <1>4, <1>5 DEF TypeOK

(* Giving a connection back keeps the lists typed, retired or idle.       *)
LEMMA OnDetachTypes ==
    ASSUME TypeOK, NEW c \in Req, OnDetach(c)
    PROVE  /\ pending' \in Seq(Req) /\ pooldb' \in Seq(Req)
           /\ internaldb' \in Seq(Req)
           /\ dbinuse' \in Int /\ creating' \in Int /\ checks' \in Nat
           /\ attach' \in [Req -> AttachState]
           /\ useCount' \in [Req -> Nat]
           /\ got' \in [Req -> Req \cup {NoConn}]
           /\ answers' \in [Req -> Nat]
           /\ stale' \subseteq Req
           /\ conn' \in [Req -> ConnState]
<1> USE DEF TypeOK
<1>1. Without(internaldb, {c}) \in Seq(Req) /\ Append(pooldb, c) \in Seq(Req)
  BY WithoutProperties, AppendElements
<1>2. dbinuse - 1 \in Int
  OBVIOUS
<1>3. CASE DetachIgnored(c) /\ UNCHANGED conn
  BY <1>3 DEF DetachIgnored, poolVars
<1>4. CASE DetachBroken(c) /\ UNCHANGED conn
  BY <1>1, <1>2, <1>4, CheckTypes DEF DetachBroken
<1>5. CASE DetachToIdle(c) /\ UNCHANGED conn
  BY <1>1, <1>2, <1>5, CheckTypes DEF DetachToIdle
<1>6. CASE DetachExpired(c) /\ conn' = [conn EXCEPT ![c] = "closing"]
  BY <1>1, <1>2, <1>6, CheckTypes DEF DetachExpired, ConnState
<1> QED BY <1>3, <1>4, <1>5, <1>6 DEF OnDetach

(* Every action of the pool keeps the types.                               *)
LEMMA StepTypeOK == TypeOK /\ [Next]_vars => TypeOK'
<1> SUFFICES ASSUME TypeOK, [Next]_vars PROVE TypeOK'
  OBVIOUS
<1>0. CASE UNCHANGED vars
  BY <1>0 DEF vars, poolVars, callVars, connVars, destroyVars, TypeOK
<1>1. ASSUME NEW r \in Req, Get(r) PROVE TypeOK'
  <2>1. CASE GetRefused(r)
    BY <1>1, <2>1 DEF Get, GetRefused, Answer, poolVars, destroyVars, TypeOK
  <2>2. CASE Check(Append(pending, r), pooldb, internaldb, dbinuse, checks)
    <3>1. Append(pending, r) \in Seq(Req)
      BY AppendElements DEF TypeOK
    <3>2. /\ pooldb \in Seq(Req) /\ internaldb \in Seq(Req)
          /\ dbinuse \in Int /\ checks \in Nat
      BY DEF TypeOK
    <3>3. /\ asked' \subseteq Req
          /\ UNCHANGED <<conn, aged, stale, released, destroyVars>>
      BY <1>1 DEF Get, TypeOK
    <3> QED BY <2>2, <3>1, <3>2, <3>3, CheckTypes DEF TypeOK, destroyVars
  <2> QED BY <1>1, <2>1, <2>2 DEF Get
<1>2. ASSUME NEW r \in Req, Detach(r) PROVE TypeOK'
  <2>1. got[r] \in Req
    BY <1>2 DEF Detach, TypeOK
  <2>2. /\ released' \subseteq Req /\ UNCHANGED <<aged, asked, destroyVars>>
        /\ OnDetach(got[r])
    BY <1>2 DEF Detach, TypeOK
  <2> QED BY <2>1, <2>2, OnDetachTypes DEF TypeOK, destroyVars
<1>3. ASSUME NEW r \in Req, DetachAgain(r) PROVE TypeOK'
  <2>1. CASE got[r] \in Req
    <3>1. UNCHANGED <<aged, asked, released, destroyVars>> /\ OnDetach(got[r])
      BY <1>3 DEF DetachAgain
    <3> QED BY <2>1, <3>1, OnDetachTypes DEF TypeOK, destroyVars
  <2>2. CASE got[r] = NoConn
    <3>1. NoConn \notin ToSet(internaldb)
      BY PoolAssumption, LenProperties, ElementOfSeq DEF ToSet, TypeOK
    <3>2. DetachIgnored(NoConn) /\ UNCHANGED conn
      BY <1>3, <2>2, <3>1 DEF DetachAgain, OnDetach, DetachBroken, DetachToIdle,
                              DetachExpired, Listed
    <3> QED BY <1>3, <3>2 DEF DetachAgain, DetachIgnored, TypeOK, destroyVars, poolVars
  <2> QED BY <2>1, <2>2 DEF TypeOK
<1>4. ASSUME NEW r \in Req, AttachOk(r) PROVE TypeOK'
  <2>1. internaldb' \in Seq(Req)
    BY <1>4, AppendElements DEF AttachOk, Wanted, TypeOK
  <2>2. /\ attach' \in [Req -> AttachState] /\ conn' \in [Req -> ConnState]
        /\ useCount' \in [Req -> Nat]
        /\ got' \in [Req -> Req \cup {NoConn}]
    BY <1>4 DEF AttachOk, Wanted, TypeOK, AttachState, ConnState
  <2>3. creating' \in Int /\ dbinuse' \in Int /\ answers' \in [Req -> Nat]
    BY <1>4 DEF AttachOk, Wanted, Answer, TypeOK
  <2> QED BY <1>4, <2>1, <2>2, <2>3 DEF AttachOk, Wanted, TypeOK, destroyVars
<1>5. ASSUME NEW r \in Req, AttachFail(r) PROVE TypeOK'
  <2>1. CASE attach[r] = "late"
    BY <1>5, <2>1 DEF AttachFail, TypeOK, AttachState, destroyVars
  <2>2. CASE attach[r] # "late"
    <3>1. /\ attach' = [attach EXCEPT ![r] = "failed"]
          /\ creating' = creating - 1
          /\ answers' = [answers EXCEPT ![r] = @ + 1]
      BY <1>5, <2>2 DEF AttachFail, Answer
    <3>2. attach' \in [Req -> AttachState]
      BY <3>1 DEF TypeOK, AttachState
    <3>3. answers' \in [Req -> Nat] /\ creating' \in Int
      BY <3>1 DEF TypeOK
    <3> QED BY <1>5, <3>2, <3>3 DEF AttachFail, TypeOK, destroyVars
  <2> QED BY <2>1, <2>2
<1>6. ASSUME NEW r \in Req, AttachTimeout(r) PROVE TypeOK'
  BY <1>6 DEF AttachTimeout, GiveUpOn, CheckSoon, Answer, TypeOK, AttachState, destroyVars
<1>7. ASSUME NEW r \in Req, AttachLate(r) PROVE TypeOK'
  BY <1>7 DEF AttachLate, Discard, TypeOK, AttachState, ConnState, poolVars,
              callVars, destroyVars
<1>8. ASSUME NEW r \in Req, AttachAfterDestroy(r) PROVE TypeOK'
  <2>1. conn' \in [Req -> ConnState] /\ attach' \in [Req -> AttachState]
    BY <1>8 DEF AttachAfterDestroy, Discard, TypeOK, AttachState, ConnState
  <2>2. answers' \in [Req -> Nat] /\ creating' \in Int
    BY <1>8 DEF AttachAfterDestroy, Answer, TypeOK
  <2> QED BY <1>8, <2>1, <2>2 DEF AttachAfterDestroy, TypeOK, destroyVars
<1>9. ASSUME NEW r \in Req, AttachCallbackAgain(r) PROVE TypeOK'
  <2>1. conn' \in [Req -> ConnState]
    BY <1>9 DEF AttachCallbackAgain, TypeOK, ConnState
  <2>2. /\ answers' \in [Req -> Nat] /\ creating' \in Int
        /\ attach' \in [Req -> AttachState]
    BY <1>9 DEF AttachCallbackAgain, Answer, TypeOK, AttachState
  <2> QED BY <1>9, <2>1, <2>2 DEF AttachCallbackAgain, TypeOK, destroyVars
<1>10. ASSUME NEW r \in Req, NEW err \in BOOLEAN, DetachReply(r, err)
       PROVE  TypeOK'
  <2>1. conn' \in [Req -> ConnState]
    BY <1>10 DEF DetachReply, TypeOK, ConnState
  <2>2. remaining' \in [Destroyers -> Int] /\ replies' \in [Destroyers -> Int]
    BY <1>10 DEF DetachReply, CountDown, TypeOK
  <2>3. UNCHANGED <<aged, asked, released, destroyed, closes>>
    BY <1>10 DEF DetachReply
  <2>4. CASE DetachIgnored(r)
    BY <2>1, <2>2, <2>3, <2>4 DEF DetachIgnored, poolVars, TypeOK
  <2>5. CASE DetachBroken(r)
    <3>1. Without(internaldb, {r}) \in Seq(Req) /\ dbinuse - 1 \in Int
      BY WithoutProperties DEF TypeOK
    <3>2. /\ Check(pending, pooldb, Without(internaldb, {r}), dbinuse - 1, checks)
          /\ UNCHANGED stale
      BY <2>5 DEF DetachBroken
    <3>3. pending \in Seq(Req) /\ pooldb \in Seq(Req) /\ checks \in Nat
      BY DEF TypeOK
    <3> QED BY <2>1, <2>2, <2>3, <3>1, <3>2, <3>3, CheckTypes DEF TypeOK
  <2> QED BY <1>10, <2>4, <2>5 DEF DetachReply
<1>11. ASSUME NEW r \in Req, ConnLost(r) PROVE TypeOK'
  BY <1>11 DEF ConnLost, TypeOK, ConnState, poolVars, callVars, destroyVars
<1>12. ASSUME NEW r \in Req, Age(r) PROVE TypeOK'
  BY <1>12 DEF Age, TypeOK, poolVars, callVars, destroyVars
<1>13. ASSUME NEW r \in Req, GoStale(r) PROVE TypeOK'
  BY <1>13 DEF GoStale, TypeOK, poolVars, callVars, destroyVars
<1>14. ASSUME RunCheck PROVE TypeOK'
  <2>1. /\ Check(pending, pooldb, internaldb, dbinuse, checks - 1)
        /\ UNCHANGED <<conn, aged, stale, asked, released, destroyVars>>
        /\ checks - 1 \in Nat
    BY <1>14 DEF RunCheck, TypeOK
  <2>2. /\ pending \in Seq(Req) /\ pooldb \in Seq(Req)
        /\ internaldb \in Seq(Req) /\ dbinuse \in Int
    BY DEF TypeOK
  <2> QED BY <2>1, <2>2, CheckTypes DEF TypeOK, destroyVars
<1>15. ASSUME Reap PROVE TypeOK'
  <2>1. pooldb' \in Seq(Req) /\ internaldb' \in Seq(Req)
    BY <1>15, WithoutProperties DEF Reap, TypeOK
  <2>2. conn' \in [Req -> ConnState]
    BY <1>15 DEF Reap, TypeOK, ConnState
  <2> QED BY <1>15, <2>1, <2>2 DEF Reap, TypeOK, callVars, destroyVars
<1>16. ASSUME NEW d \in Destroyers, Destroy(d) PROVE TypeOK'
  <2>1. PICK seen \in SUBSET DOMAIN internaldb :
          LET visited == {internaldb[i] : i \in seen}
              idle    == visited \cap ToSet(pooldb)
              lost    == {c \in idle : conn[c] = "lost"}
              counted == visited \ idle
          IN  /\ pooldb' = Without(pooldb, idle)
              /\ internaldb' = Without(internaldb, lost)
              /\ dbinuse' = dbinuse - Cardinality(lost)
              /\ conn' = [c \in Req |-> IF c \in lost THEN "gone"
                                        ELSE IF c \in idle THEN "closing"
                                        ELSE conn[c]]
              /\ closes' = [closes EXCEPT ![d] = idle \ lost]
              /\ remaining' = [remaining EXCEPT ![d] =
                                  Len(internaldb) - Cardinality(counted)]
              /\ replies' = [replies EXCEPT ![d] = Cardinality(lost) +
                     (IF Len(internaldb) = Cardinality(counted) THEN 1 ELSE 0)]
    BY <1>16 DEF Destroy
  <2> DEFINE visited == {internaldb[i] : i \in seen}
             idle    == visited \cap ToSet(pooldb)
             lost    == {c \in idle : conn[c] = "lost"}
             counted == visited \ idle
  <2>2. visited \subseteq Req
    BY LenProperties, ElementOfSeq DEF TypeOK
  <2>3. /\ IsFiniteSet(lost) /\ IsFiniteSet(counted)
        /\ Cardinality(lost) \in Nat /\ Cardinality(counted) \in Nat
    BY <2>2, PoolAssumption, FS_Subset, FS_CardinalityType
  <2>4. pooldb' \in Seq(Req) /\ internaldb' \in Seq(Req)
    BY <2>1, WithoutProperties DEF TypeOK
  <2>5. Len(internaldb) \in Nat
    BY LenProperties DEF TypeOK
  <2>6. /\ dbinuse' = dbinuse - Cardinality(lost)
        /\ conn' = [c \in Req |-> IF c \in lost THEN "gone"
                                  ELSE IF c \in idle THEN "closing"
                                  ELSE conn[c]]
        /\ closes' = [closes EXCEPT ![d] = idle \ lost]
        /\ remaining' = [remaining EXCEPT ![d] =
                            Len(internaldb) - Cardinality(counted)]
        /\ replies' = [replies EXCEPT ![d] = Cardinality(lost) +
               (IF Len(internaldb) = Cardinality(counted) THEN 1 ELSE 0)]
    BY <2>1
  <2>7. idle \ lost \subseteq Req
    BY <2>2
  <2> HIDE DEF visited, idle, lost, counted
  <2>8. conn' \in [Req -> ConnState] /\ closes' \in [Destroyers -> SUBSET Req]
    BY <2>6, <2>7 DEF TypeOK, ConnState
  <2>9. /\ dbinuse' \in Int /\ remaining' \in [Destroyers -> Int]
        /\ replies' \in [Destroyers -> Int]
    BY <2>3, <2>5, <2>6 DEF TypeOK
  <2>10. answers' \in [Req -> Nat]
    BY <1>16 DEF Destroy, TypeOK
  <2>11. pending' \in Seq(Req)
    BY <1>16, EmptySeq DEF Destroy
  <2>12. destroyed' \in BOOLEAN
    BY <1>16, Zenon DEF Destroy
  <2>13. UNCHANGED <<creating, checks, attach, useCount, aged, stale, asked, got,
                     released>>
    BY <1>16 DEF Destroy
  <2> QED BY <2>4, <2>8, <2>9, <2>10, <2>11, <2>12, <2>13 DEF TypeOK
<1> QED
  BY <1>0, <1>1, <1>2, <1>3, <1>4, <1>5, <1>6, <1>7, <1>8, <1>9, <1>10, <1>11,
     <1>12, <1>13, <1>14, <1>15, <1>16 DEF Next

(* The variables of every pool keep their types.                           *)
THEOREM PoolTypeOK == Spec => []TypeOK
  BY InitTypeOK, StepTypeOK, PTL DEF Spec

-----------------------------------------------------------------------------
(***************************************************************************)
(* One holder per connection.  The inductive invariant relates the pool's  *)
(* two lists, what callers hold, the attach() closures and the state of    *)
(* the physical connections; it is stated for given values of them, so     *)
(* that it can speak of the values check() is run on.                      *)
(***************************************************************************)
HoldersOf(gt, rel) == {r \in Req \ rel : gt[r] # NoConn}

Unique(pend, idle, all) ==
    /\ IsInjective(pend) /\ IsInjective(idle) /\ IsInjective(all)
    /\ ToSet(idle) \subseteq ToSet(all)

HeldApart(idle, all, gt, rel, cn) ==
    /\ \A r \in HoldersOf(gt, rel) :
          /\ gt[r] \in ToSet(all) /\ gt[r] \notin ToSet(idle)
          /\ cn[gt[r]] \in {"open", "lost"}
    /\ \A r1, r2 \in HoldersOf(gt, rel) : gt[r1] = gt[r2] => r1 = r2

Tracked(idle, all, cn) ==
    /\ \A c \in ToSet(idle) : cn[c] \in {"open", "lost"}
    /\ \A c \in Req : cn[c] = "open" => c \in ToSet(all)

OneAttach(pend, all, at, ask) ==
    /\ \A r \in Req : at[r] \in {"none", "flight", "late"} => r \notin ToSet(all)
    /\ \A r \in ToSet(pend) : at[r] = "none" /\ r \in ask
    /\ \A r \in Req : r \notin ask => at[r] = "none"

Facts(pend, idle, all, at, gt, rel, cn, ask) ==
    /\ Unique(pend, idle, all)
    /\ HeldApart(idle, all, gt, rel, cn)
    /\ Tracked(idle, all, cn)
    /\ OneAttach(pend, all, at, ask)

HolderInv ==
    Facts(pending, pooldb, internaldb, attach, got, released, conn, asked)

(* check() keeps the facts, whatever values it is run on.                  *)
LEMMA CheckFacts ==
    ASSUME TypeOK,
           NEW waiting \in Seq(Req), NEW idle \in Seq(Req), NEW all \in Seq(Req),
           NEW inuse, NEW due,
           NEW rel, NEW cn, NEW ask,
           \A c \in Req : cn[c] = "open" => conn[c] = "open",
           Facts(waiting, idle, all, attach, got, rel, cn, ask),
           Check(waiting, idle, all, inuse, due)
    PROVE  Facts(pending', pooldb', internaldb', attach', got', rel, cn, ask)
<1>1. CASE CheckNothing(waiting, idle, all, inuse, due)
  BY <1>1 DEF CheckNothing
<1>2. CASE CheckDiscards(waiting, idle, all, inuse, due)
  <2> DEFINE c == Head(idle)
  <2>1. /\ pending' = waiting /\ pooldb' = Tail(idle)
        /\ internaldb' = Without(all, {c})
        /\ attach' = attach /\ got' = got
        /\ idle # <<>> /\ conn[c] # "open"
    BY <1>2 DEF CheckDiscards, Dead
  <2>2. /\ c \in Req /\ c \in ToSet(idle)
        /\ ToSet(Tail(idle)) = ToSet(idle) \ {c}
        /\ IsInjective(Tail(idle))
    BY <2>1, TailElements DEF Facts, Unique
  <2>3. /\ ToSet(Without(all, {c})) = ToSet(all) \ {c}
        /\ IsInjective(Without(all, {c}))
    BY WithoutProperties DEF Facts, Unique
  <2> HIDE DEF c
  <2>4. Unique(pending', pooldb', internaldb')
    BY <2>1, <2>2, <2>3 DEF Facts, Unique
  <2>5. HeldApart(pooldb', internaldb', got', rel, cn)
    <3>1. HeldApart(idle, all, got, rel, cn)
      BY DEF Facts
    <3>2. \A x : x \in ToSet(all) /\ x \notin ToSet(idle)
                 => x \in ToSet(internaldb') /\ x \notin ToSet(pooldb')
      BY <2>1, <2>2, <2>3
    <3>. QED
      BY <2>1, <3>1, <3>2 DEF HeldApart
  <2>6. Tracked(pooldb', internaldb', cn)
    BY <2>1, <2>2, <2>3 DEF Facts, Tracked
  <2>7. OneAttach(pending', internaldb', attach', ask)
    BY <2>1, <2>3 DEF Facts, OneAttach
  <2> QED BY <2>4, <2>5, <2>6, <2>7 DEF Facts
<1>3. CASE CheckHandsOut(waiting, idle, all, inuse, due)
  <2> DEFINE c == Head(idle)
             r == Head(waiting)
  <2>1. /\ pending' = Tail(waiting) /\ pooldb' = Tail(idle) /\ internaldb' = all
        /\ attach' = attach /\ got' = [got EXCEPT ![r] = c]
        /\ idle # <<>> /\ waiting # <<>>
    BY <1>3 DEF CheckHandsOut, MayServe
  <2>2. /\ c \in Req /\ c \in ToSet(idle)
        /\ ToSet(Tail(idle)) = ToSet(idle) \ {c}
        /\ IsInjective(Tail(idle))
    BY <2>1, TailElements DEF Facts, Unique
  <2>3. /\ r \in Req /\ r \in ToSet(waiting)
        /\ ToSet(Tail(waiting)) = ToSet(waiting) \ {r}
        /\ IsInjective(Tail(waiting))
    BY <2>1, TailElements DEF Facts, Unique
  <2> HIDE DEF c, r
  <2>4. Unique(pending', pooldb', internaldb')
    BY <2>1, <2>2, <2>3 DEF Facts, Unique
  <2>5. HeldApart(pooldb', internaldb', got', rel, cn)
    <3>1. \A q \in Req : got'[q] = IF q = r THEN c ELSE got[q]
      BY <2>1, <2>3 DEF TypeOK
    <3>2. cn[c] \in {"open", "lost"} /\ c \in ToSet(all)
      BY <2>2 DEF Facts, Unique, Tracked
    <3>3. \A q \in HoldersOf(got, rel) : got[q] # c
      BY <2>2 DEF Facts, HeldApart
    <3>4. \A q \in HoldersOf(got', rel) : q = r \/ q \in HoldersOf(got, rel)
      BY <3>1 DEF HoldersOf
    <3>5. ASSUME NEW q \in HoldersOf(got', rel)
          PROVE  /\ got'[q] \in ToSet(internaldb') /\ got'[q] \notin ToSet(pooldb')
                 /\ cn[got'[q]] \in {"open", "lost"}
      <4>1. CASE q = r
        BY <2>1, <2>2, <2>3, <3>1, <3>2, <4>1
      <4>2. CASE q # r
        <5>1. q \in HoldersOf(got, rel) /\ got'[q] = got[q]
          BY <3>1, <3>4, <4>2 DEF HoldersOf
        <5> QED BY <2>1, <2>2, <5>1 DEF Facts, HeldApart
      <4> QED BY <4>1, <4>2
    <3>6. ASSUME NEW q1 \in HoldersOf(got', rel), NEW q2 \in HoldersOf(got', rel),
                 got'[q1] = got'[q2]
          PROVE  q1 = q2
      <4>1. q1 \in Req /\ q2 \in Req
        BY DEF HoldersOf
      <4>2. CASE q1 = r \/ q2 = r
        BY <3>1, <3>3, <3>4, <3>6, <4>1, <4>2
      <4>3. CASE q1 # r /\ q2 # r
        BY <3>1, <3>4, <3>6, <4>1, <4>3 DEF Facts, HeldApart
      <4> QED BY <4>2, <4>3
    <3> QED BY <3>5, <3>6 DEF HeldApart
  <2>6. Tracked(pooldb', internaldb', cn)
    BY <2>1, <2>2 DEF Facts, Tracked
  <2>7. OneAttach(pending', internaldb', attach', ask)
    BY <2>1, <2>3 DEF Facts, OneAttach
  <2> QED BY <2>4, <2>5, <2>6, <2>7 DEF Facts
<1>4. CASE CheckAttaches(waiting, idle, all, inuse, due)
  <2> DEFINE r == Head(waiting)
  <2>1. /\ pending' = Tail(waiting) /\ pooldb' = idle /\ internaldb' = all
        /\ attach' = [attach EXCEPT ![r] = "flight"] /\ got' = got
        /\ waiting # <<>>
    BY <1>4 DEF CheckAttaches, MayServe
  <2>2. /\ r \in Req /\ r \in ToSet(waiting)
        /\ ToSet(Tail(waiting)) = ToSet(waiting) \ {r}
        /\ IsInjective(Tail(waiting))
    BY <2>1, TailElements DEF Facts, Unique
  <2> HIDE DEF r
  <2>3. Unique(pending', pooldb', internaldb')
    BY <2>1, <2>2 DEF Facts, Unique
  <2>4. HeldApart(pooldb', internaldb', got', rel, cn) /\ Tracked(pooldb', internaldb', cn)
    BY <2>1 DEF Facts
  <2>5. OneAttach(pending', internaldb', attach', ask)
    <3>1. \A q \in Req : attach'[q] = IF q = r THEN "flight" ELSE attach[q]
      BY <2>1 DEF TypeOK
    <3>2. attach[r] = "none" /\ r \in ask
      BY <2>2 DEF Facts, OneAttach
    <3>3. ToSet(waiting) \subseteq Req
      BY LenProperties, ElementOfSeq DEF ToSet
    <3> QED BY <2>1, <2>2, <3>1, <3>2, <3>3 DEF Facts, OneAttach
  <2> QED BY <2>3, <2>4, <2>5 DEF Facts
<1> QED BY <1>1, <1>2, <1>3, <1>4 DEF Check

(* A new pool has no connection, so none is held twice.                   *)
LEMMA InitHolderInv == Init => HolderInv
<1> SUFFICES ASSUME Init PROVE HolderInv
  OBVIOUS
<1>1. ToSet(<<>>) = {} /\ IsInjective(<<>>)
  BY DEF ToSet, IsInjective
<1>2. /\ pending = <<>> /\ pooldb = <<>> /\ internaldb = <<>>
      /\ attach = [r \in Req |-> "none"] /\ conn = [r \in Req |-> "none"]
      /\ got = [r \in Req |-> NoConn]
  BY DEF Init
<1>3. HoldersOf(got, released) = {}
  BY <1>2 DEF HoldersOf
<1> QED
  BY <1>1, <1>2, <1>3 DEF HolderInv, Facts, Unique, HeldApart, Tracked, OneAttach

(* Taking a connection nobody holds off the books.                         *)
LEMMA RemovedFacts ==
    ASSUME TypeOK, NEW rel, NEW cn, NEW ask, NEW c,
           Facts(pending, pooldb, internaldb, attach, got, rel, cn, ask),
           c \notin ToSet(pooldb), c \in Req => cn[c] # "open",
           \A r \in HoldersOf(got, rel) : got[r] # c
    PROVE  Facts(pending, pooldb, Without(internaldb, {c}), attach, got, rel, cn, ask)
<1>1. /\ ToSet(Without(internaldb, {c})) = ToSet(internaldb) \ {c}
      /\ IsInjective(Without(internaldb, {c}))
  BY WithoutProperties DEF Facts, Unique, TypeOK
<1> QED BY <1>1 DEF Facts, Unique, HeldApart, Tracked, OneAttach

(* The 'detach' listener on a connection that nobody holds any more.       *)
LEMMA OnDetachFacts ==
    ASSUME TypeOK, NEW c \in Req, NEW rel, NEW ask, OnDetach(c),
           Facts(pending, pooldb, internaldb, attach, got, rel, conn, ask),
           \A r \in HoldersOf(got, rel) : got[r] # c
    PROVE  Facts(pending', pooldb', internaldb', attach', got', rel, conn', ask)
<1> USE DEF TypeOK
<1>1. CASE DetachIgnored(c) /\ UNCHANGED conn
  BY <1>1 DEF DetachIgnored, poolVars
<1>2. CASE DetachBroken(c) /\ UNCHANGED conn
  <2>1. /\ Check(pending, pooldb, Without(internaldb, {c}), dbinuse - 1, checks)
        /\ conn[c] # "open" /\ c \notin ToSet(pooldb)
    BY <1>2 DEF DetachBroken, Dead, Listed
  <2>2. Facts(pending, pooldb, Without(internaldb, {c}), attach, got, rel, conn, ask)
    BY <2>1, RemovedFacts
  <2>3. Without(internaldb, {c}) \in Seq(Req)
    BY WithoutProperties
  <2> QED BY <1>2, <2>1, <2>2, <2>3, CheckFacts
<1>3. CASE DetachToIdle(c) /\ UNCHANGED conn
  <2>1. /\ Check(pending, Append(pooldb, c), internaldb, dbinuse - 1, checks)
        /\ conn[c] = "open" /\ c \notin ToSet(pooldb) /\ c \in ToSet(internaldb)
    BY <1>3 DEF DetachToIdle, Dead, Listed
  <2>2. /\ Append(pooldb, c) \in Seq(Req)
        /\ ToSet(Append(pooldb, c)) = ToSet(pooldb) \cup {c}
        /\ IsInjective(Append(pooldb, c))
    BY <2>1, AppendElements DEF Facts, Unique
  <2>3. Facts(pending, Append(pooldb, c), internaldb, attach, got, rel, conn, ask)
    BY <2>1, <2>2 DEF Facts, Unique, HeldApart, Tracked
  <2> QED BY <1>3, <2>1, <2>2, <2>3, CheckFacts
<1>4. CASE DetachExpired(c) /\ conn' = [conn EXCEPT ![c] = "closing"]
  <2>1. /\ Check(pending, pooldb, Without(internaldb, {c}), dbinuse - 1, checks)
        /\ c \notin ToSet(pooldb) /\ c \in ToSet(internaldb)
    BY <1>4 DEF DetachExpired, Listed
  <2>2. /\ conn'[c] = "closing"
        /\ \A d \in Req : d # c => conn'[d] = conn[d]
    BY <1>4
  <2>3. ToSet(internaldb) \subseteq Req /\ ToSet(pooldb) \subseteq Req
    BY LenProperties, ElementOfSeq DEF ToSet
  <2>4. HeldApart(pooldb, internaldb, got, rel, conn')
    BY <2>2, <2>3 DEF Facts, HeldApart
  <2>5. ToSet(Without(internaldb, {c})) = ToSet(internaldb) \ {c}
    BY WithoutProperties
  <2>6. Facts(pending, pooldb, Without(internaldb, {c}), attach, got, rel, conn', ask)
    <3>1. Unique(pending, pooldb, Without(internaldb, {c}))
      BY <2>1, <2>5, WithoutProperties DEF Facts, Unique
    <3>2. HeldApart(pooldb, Without(internaldb, {c}), got, rel, conn')
      BY <2>4, <2>5 DEF HeldApart
    <3>3. Tracked(pooldb, Without(internaldb, {c}), conn')
      BY <2>1, <2>2, <2>3, <2>5 DEF Facts, Tracked
    <3>4. OneAttach(pending, Without(internaldb, {c}), attach, ask)
      BY <2>5 DEF Facts, OneAttach
    <3> QED BY <3>1, <3>2, <3>3, <3>4 DEF Facts
  <2>7. \A d \in Req : conn'[d] = "open" => conn[d] = "open"
    BY <2>2
  <2>8. Without(internaldb, {c}) \in Seq(Req)
    BY WithoutProperties
  <2> QED BY <2>1, <2>6, <2>7, <2>8, CheckFacts
<1> QED BY <1>1, <1>2, <1>3, <1>4 DEF OnDetach

(* The pool's lists hold connections of its own requests only.            *)
LEMMA ListsInReq ==
    ASSUME TypeOK
    PROVE  /\ ToSet(pending) \subseteq Req /\ ToSet(pooldb) \subseteq Req
           /\ ToSet(internaldb) \subseteq Req
  BY LenProperties, ElementOfSeq DEF ToSet, TypeOK

(* Every action of the pool keeps the facts.                               *)
LEMMA StepHolderInv == TypeOK /\ HolderInv /\ [Next]_vars => HolderInv'
<1> SUFFICES ASSUME TypeOK, HolderInv, [Next]_vars PROVE HolderInv'
  OBVIOUS
<1>a. Facts(pending, pooldb, internaldb, attach, got, released, conn, asked)
  BY DEF HolderInv
<1>0. CASE UNCHANGED vars
  BY <1>0 DEF vars, poolVars, callVars, connVars, HolderInv
<1>1. ASSUME NEW r \in Req, Get(r) PROVE HolderInv'
  <2>1. CASE GetRefused(r)
    BY <1>1, <2>1 DEF Get, GetRefused, poolVars, HolderInv, Facts, OneAttach
  <2>2. CASE Check(Append(pending, r), pooldb, internaldb, dbinuse, checks)
    <3>1. r \notin asked /\ asked' = asked \cup {r} /\ UNCHANGED <<conn, released>>
      BY <1>1 DEF Get
    <3>2. r \notin ToSet(pending) /\ attach[r] = "none"
      BY <1>a, <3>1 DEF Facts, OneAttach
    <3>3. /\ Append(pending, r) \in Seq(Req)
          /\ ToSet(Append(pending, r)) = ToSet(pending) \cup {r}
          /\ IsInjective(Append(pending, r))
      BY <1>a, <3>2, AppendElements DEF Facts, Unique, TypeOK
    <3>4. Facts(Append(pending, r), pooldb, internaldb, attach, got, released, conn,
                asked')
      BY <1>a, <3>1, <3>2, <3>3 DEF Facts, Unique, OneAttach
    <3>5. pooldb \in Seq(Req) /\ internaldb \in Seq(Req)
      BY DEF TypeOK
    <3> QED BY <2>2, <3>1, <3>3, <3>4, <3>5, CheckFacts DEF HolderInv
  <2> QED BY <1>1, <2>1, <2>2 DEF Get
<1>2. ASSUME NEW r \in Req, Detach(r) PROVE HolderInv'
  <2>1. /\ r \in HoldersOf(got, released) /\ got[r] \in Req
        /\ released' = released \cup {r} /\ asked' = asked /\ OnDetach(got[r])
    BY <1>2 DEF Detach, HoldersOf, TypeOK
  <2>2. HoldersOf(got, released') \subseteq HoldersOf(got, released) \ {r}
    BY <2>1 DEF HoldersOf
  <2>3. Facts(pending, pooldb, internaldb, attach, got, released', conn, asked)
    BY <1>a, <2>2 DEF Facts, HeldApart
  <2>4. \A q \in HoldersOf(got, released') : got[q] # got[r]
    BY <1>a, <2>1, <2>2 DEF Facts, HeldApart
  <2> QED BY <2>1, <2>3, <2>4, OnDetachFacts DEF HolderInv
<1>3. ASSUME NEW r \in Req, DetachAgain(r) PROVE HolderInv'
  <2>1. /\ ~InUse(got[r]) /\ UNCHANGED <<asked, released>> /\ OnDetach(got[r])
    BY <1>3 DEF DetachAgain
  <2>2. \A q \in HoldersOf(got, released) : got[q] # got[r]
    BY <2>1 DEF InUse, HoldersOf
  <2>3. CASE got[r] \in Req
    BY <1>a, <2>1, <2>2, <2>3, OnDetachFacts DEF HolderInv
  <2>4. CASE got[r] = NoConn
    <3>1. NoConn \notin ToSet(internaldb)
      BY ListsInReq, PoolAssumption
    <3>2. DetachIgnored(NoConn) /\ UNCHANGED conn
      BY <2>1, <2>4, <3>1 DEF OnDetach, DetachBroken, DetachToIdle,
                              DetachExpired, Listed
    <3> QED BY <2>1, <3>2 DEF DetachIgnored, HolderInv, poolVars
  <2> QED BY <2>3, <2>4 DEF TypeOK
<1>4. ASSUME NEW r \in Req, AttachOk(r) PROVE HolderInv'
  <2>1. /\ attach[r] = "flight" /\ attach' = [attach EXCEPT ![r] = "ok"]
        /\ conn' = [conn EXCEPT ![r] = "open"] /\ got' = [got EXCEPT ![r] = r]
        /\ internaldb' = Append(internaldb, r)
        /\ UNCHANGED <<pending, pooldb, asked, released>>
    BY <1>4 DEF AttachOk, Wanted
  <2>2. r \notin ToSet(internaldb)
    BY <1>a, <2>1 DEF Facts, OneAttach
  <2>3. /\ ToSet(internaldb') = ToSet(internaldb) \cup {r}
        /\ IsInjective(internaldb')
    BY <1>a, <2>1, <2>2, AppendElements DEF Facts, Unique, TypeOK
  <2>4. \A q \in Req : /\ attach'[q] = IF q = r THEN "ok" ELSE attach[q]
                       /\ conn'[q] = IF q = r THEN "open" ELSE conn[q]
                       /\ got'[q] = IF q = r THEN r ELSE got[q]
    BY <2>1 DEF TypeOK
  <2>5. Unique(pending', pooldb', internaldb')
    BY <1>a, <2>1, <2>3 DEF Facts, Unique
  <2>6. HeldApart(pooldb', internaldb', got', released', conn')
    <3>1. r \notin ToSet(pooldb)
      BY <1>a, <2>2 DEF Facts, Unique
    <3>2. \A q \in HoldersOf(got', released') :
             q \in Req /\ (q = r \/ q \in HoldersOf(got, released))
      BY <2>1, <2>4 DEF HoldersOf
    <3>3. \A q \in HoldersOf(got, released) :
             got[q] # r /\ got[q] \in Req /\ got[q] \in ToSet(internaldb)
             /\ got[q] \notin ToSet(pooldb) /\ conn[got[q]] \in {"open", "lost"}
      BY <1>a, <2>2, ListsInReq DEF Facts, HeldApart
    <3>4. \A q1, q2 \in HoldersOf(got, released) : got[q1] = got[q2] => q1 = q2
      BY <1>a DEF Facts, HeldApart
    <3>5. ASSUME NEW q \in HoldersOf(got', released')
          PROVE  /\ got'[q] \in ToSet(internaldb') /\ got'[q] \notin ToSet(pooldb')
                 /\ conn'[got'[q]] \in {"open", "lost"}
      <4>1. CASE q = r
        BY <2>1, <2>3, <2>4, <3>1, <4>1
      <4>2. CASE q # r
        <5>1. q \in Req /\ q \in HoldersOf(got, released) /\ got'[q] = got[q]
          BY <2>4, <3>2, <4>2
        <5>2. got[q] # r /\ got[q] \in Req /\ conn'[got[q]] = conn[got[q]]
          BY <2>4, <3>3, <5>1
        <5> QED BY <2>1, <2>3, <3>3, <5>1, <5>2
      <4> QED BY <4>1, <4>2
    <3>6. ASSUME NEW q1 \in HoldersOf(got', released'),
                 NEW q2 \in HoldersOf(got', released'), got'[q1] = got'[q2]
          PROVE  q1 = q2
      BY <2>4, <3>2, <3>3, <3>4, <3>6
    <3> QED BY <3>5, <3>6 DEF HeldApart
  <2>7. Tracked(pooldb', internaldb', conn')
    BY <1>a, <2>1, <2>3, <2>4, ListsInReq DEF Facts, Tracked
  <2>8. OneAttach(pending', internaldb', attach', asked')
    BY <1>a, <2>1, <2>3, <2>4, ListsInReq DEF Facts, OneAttach
  <2> QED BY <2>5, <2>6, <2>7, <2>8 DEF HolderInv, Facts
<1>5. ASSUME NEW r \in Req,
             AttachFail(r) \/ AttachTimeout(r) \/ AttachLate(r)
               \/ AttachAfterDestroy(r) \/ AttachCallbackAgain(r)
      PROVE  HolderInv'
  <2>1. UNCHANGED <<pending, pooldb, internaldb, got, asked, released>>
    BY <1>5 DEF AttachFail, AttachTimeout, GiveUpOn, CheckSoon, AttachLate, AttachAfterDestroy,
                AttachCallbackAgain, poolVars, callVars
  <2>2. /\ attach[r] # "none"
        /\ attach'[r] # "none"
        /\ attach'[r] \in {"flight", "late"} => attach[r] \in {"flight", "late"}
        /\ \A q \in Req : q # r => attach'[q] = attach[q]
    BY <1>5 DEF AttachFail, AttachTimeout, GiveUpOn, CheckSoon, AttachLate, AttachAfterDestroy,
                AttachCallbackAgain, TypeOK
  <2>3. /\ \A q \in Req : q # r => conn'[q] = conn[q]
        /\ conn'[r] = conn[r]
             \/ (conn'[r] = "closing" /\ attach[r] \in {"flight", "late"})
             \/ (conn[r] = "open" /\ conn'[r] = "lost")
             \/ (conn[r] = "closing" /\ conn'[r] = "gone")
    BY <1>5 DEF AttachFail, AttachTimeout, GiveUpOn, CheckSoon, AttachLate, AttachAfterDestroy,
                AttachCallbackAgain, Discard, TypeOK
  <2>4. HeldApart(pooldb, internaldb, got, released, conn')
    BY <1>a, <2>3, ListsInReq DEF Facts, HeldApart, OneAttach
  <2>5. Tracked(pooldb, internaldb, conn')
    BY <1>a, <2>3, ListsInReq DEF Facts, Tracked, OneAttach, Unique
  <2>6. OneAttach(pending, internaldb, attach', asked)
    BY <1>a, <2>2, ListsInReq DEF Facts, OneAttach
  <2> QED BY <1>a, <2>1, <2>4, <2>5, <2>6 DEF HolderInv, Facts
<1>6. ASSUME NEW c \in Req, NEW err \in BOOLEAN, DetachReply(c, err)
      PROVE  HolderInv'
  <2>1. /\ conn[c] = "closing" /\ conn' = [conn EXCEPT ![c] = "gone"]
        /\ DetachIgnored(c) \/ DetachBroken(c)
        /\ UNCHANGED <<asked, released>>
    BY <1>6 DEF DetachReply
  <2>2. \A d \in Req : conn'[d] = IF d = c THEN "gone" ELSE conn[d]
    BY <2>1 DEF TypeOK
  <2>3. \A r \in HoldersOf(got, released) : got[r] # c
    BY <1>a, <2>1 DEF Facts, HeldApart
  <2>4. Facts(pending, pooldb, internaldb, attach, got, released, conn', asked)
    <3>1. HeldApart(pooldb, internaldb, got, released, conn')
      BY <1>a, <2>2, <2>3, ListsInReq DEF Facts, HeldApart
    <3>2. Tracked(pooldb, internaldb, conn')
      BY <1>a, <2>1, <2>2, ListsInReq DEF Facts, Tracked
    <3> QED BY <1>a, <3>1, <3>2 DEF Facts
  <2>5. CASE DetachIgnored(c)
    BY <2>1, <2>4, <2>5 DEF DetachIgnored, HolderInv, poolVars
  <2>6. CASE DetachBroken(c)
    <3>1. Check(pending, pooldb, Without(internaldb, {c}), dbinuse - 1, checks)
      BY <2>6 DEF DetachBroken
    <3>2. c \notin ToSet(pooldb) /\ conn'[c] # "open"
      BY <2>2, <2>6 DEF DetachBroken, Listed
    <3>3. Facts(pending, pooldb, Without(internaldb, {c}), attach, got, released,
                conn', asked)
      BY <2>3, <2>4, <3>2, RemovedFacts
    <3>4. /\ Without(internaldb, {c}) \in Seq(Req)
          /\ pending \in Seq(Req) /\ pooldb \in Seq(Req)
      BY WithoutProperties DEF TypeOK
    <3>5. \A d \in Req : conn'[d] = "open" => conn[d] = "open"
      BY <2>2
    <3> QED BY <2>1, <3>1, <3>3, <3>4, <3>5, CheckFacts DEF HolderInv
  <2> QED BY <2>1, <2>5, <2>6
<1>7. ASSUME NEW c \in Req, ConnLost(c) PROVE HolderInv'
  <2>1. /\ UNCHANGED <<pending, pooldb, internaldb, attach, got, asked, released>>
        /\ \A d \in Req : d # c => conn'[d] = conn[d]
        /\ \/ conn[c] = "open" /\ conn'[c] = "lost"
           \/ conn[c] = "closing" /\ conn'[c] = "gone"
    BY <1>7 DEF ConnLost, poolVars, callVars, TypeOK
  <2>2. HeldApart(pooldb, internaldb, got, released, conn')
    BY <1>a, <2>1, ListsInReq DEF Facts, HeldApart
  <2>3. Tracked(pooldb, internaldb, conn')
    BY <1>a, <2>1, ListsInReq DEF Facts, Tracked
  <2> QED BY <1>a, <2>1, <2>2, <2>3 DEF HolderInv, Facts
<1>8. ASSUME NEW c \in Req, Age(c) \/ GoStale(c) PROVE HolderInv'
  BY <1>8 DEF Age, GoStale, HolderInv, poolVars, callVars
<1>9. ASSUME RunCheck PROVE HolderInv'
  <2>1. /\ Check(pending, pooldb, internaldb, dbinuse, checks - 1)
        /\ UNCHANGED <<conn, asked, released>>
    BY <1>9 DEF RunCheck
  <2>2. /\ pending \in Seq(Req) /\ pooldb \in Seq(Req) /\ internaldb \in Seq(Req)
    BY DEF TypeOK
  <2> QED BY <1>a, <2>1, <2>2, CheckFacts DEF HolderInv
<1>10. ASSUME Reap PROVE HolderInv'
  <2>1. PICK gone \in SUBSET ToSet(pooldb) :
          /\ pooldb' = Without(pooldb, gone)
          /\ internaldb' = Without(internaldb, gone)
          /\ conn' = [c \in Req |-> IF c \in gone /\ ~Dead(c) THEN "closing"
                                    ELSE conn[c]]
    BY <1>10 DEF Reap
  <2>2. UNCHANGED <<pending, attach, got, asked, released>>
    BY <1>10 DEF Reap, callVars
  <2>3. /\ ToSet(pooldb') = ToSet(pooldb) \ gone
        /\ ToSet(internaldb') = ToSet(internaldb) \ gone
        /\ IsInjective(pooldb') /\ IsInjective(internaldb')
    BY <1>a, <2>1, WithoutProperties DEF TypeOK, Facts, Unique
  <2>4. \A c \in Req : /\ c \notin gone => conn'[c] = conn[c]
                       /\ c \in gone => conn'[c] # "open"
    BY <2>1 DEF Dead
  <2>5. Unique(pending', pooldb', internaldb')
    BY <1>a, <2>2, <2>3 DEF Facts, Unique
  <2>6. HeldApart(pooldb', internaldb', got', released', conn')
    BY <1>a, <2>1, <2>2, <2>3, <2>4, ListsInReq DEF Facts, HeldApart
  <2>7. Tracked(pooldb', internaldb', conn')
    BY <1>a, <2>3, <2>4, ListsInReq DEF Facts, Tracked
  <2>8. OneAttach(pending', internaldb', attach', asked')
    BY <1>a, <2>2, <2>3 DEF Facts, OneAttach
  <2> QED BY <2>5, <2>6, <2>7, <2>8 DEF HolderInv, Facts
<1>11. ASSUME NEW d \in Destroyers, Destroy(d) PROVE HolderInv'
  <2>1. PICK seen \in SUBSET DOMAIN internaldb :
          LET visited == {internaldb[i] : i \in seen}
              idle    == visited \cap ToSet(pooldb)
              lost    == {c \in idle : conn[c] = "lost"}
          IN  /\ pooldb' = Without(pooldb, idle)
              /\ internaldb' = Without(internaldb, lost)
              /\ conn' = [c \in Req |-> IF c \in lost THEN "gone"
                                        ELSE IF c \in idle THEN "closing"
                                        ELSE conn[c]]
    BY <1>11 DEF Destroy
  <2> DEFINE idle == {internaldb[i] : i \in seen} \cap ToSet(pooldb)
             lost == {c \in idle : conn[c] = "lost"}
  <2>2. /\ pooldb' = Without(pooldb, idle)
        /\ internaldb' = Without(internaldb, lost)
        /\ conn' = [c \in Req |-> IF c \in lost THEN "gone"
                                  ELSE IF c \in idle THEN "closing"
                                  ELSE conn[c]]
        /\ idle \subseteq ToSet(pooldb) /\ lost \subseteq idle
    BY <2>1
  <2>3. pending' = <<>> /\ UNCHANGED <<attach, got, asked, released>>
    BY <1>11 DEF Destroy
  <2> HIDE DEF idle, lost
  <2>4. /\ ToSet(pooldb') = ToSet(pooldb) \ idle
        /\ ToSet(internaldb') = ToSet(internaldb) \ lost
        /\ IsInjective(pooldb') /\ IsInjective(internaldb')
    BY <1>a, <2>2, WithoutProperties DEF TypeOK, Facts, Unique
  <2>5. \A c \in Req : /\ c \notin idle => conn'[c] = conn[c]
                       /\ c \in idle => conn'[c] # "open"
    BY <2>2
  <2>6. ToSet(<<>>) = {} /\ IsInjective(<<>>)
    BY DEF ToSet, IsInjective
  <2>7. Unique(pending', pooldb', internaldb')
    BY <1>a, <2>2, <2>3, <2>4, <2>6 DEF Facts, Unique
  <2>8. HeldApart(pooldb', internaldb', got', released', conn')
    BY <1>a, <2>2, <2>3, <2>4, <2>5, ListsInReq DEF Facts, HeldApart
  <2>9. Tracked(pooldb', internaldb', conn')
    BY <1>a, <2>2, <2>4, <2>5, ListsInReq DEF Facts, Tracked
  <2>10. OneAttach(pending', internaldb', attach', asked')
    BY <1>a, <2>3, <2>4, <2>6 DEF Facts, OneAttach
  <2> QED BY <2>7, <2>8, <2>9, <2>10 DEF HolderInv, Facts
<1> QED
  BY <1>0, <1>1, <1>2, <1>3, <1>4, <1>5, <1>6, <1>7, <1>8, <1>9, <1>10, <1>11
     DEF Next

(* The inductive invariant holds in every reachable state.                *)
LEMMA PoolHolderInv == Spec => [](TypeOK /\ HolderInv)
  BY InitTypeOK, StepTypeOK, InitHolderInv, StepHolderInv, PTL DEF Spec

(* Whatever the network does, a repeated attach callback included: no two  *)
(* callers hold the same connection, and no idle connection is held.       *)
THEOREM PoolSingleHolder == Spec => []SingleHolder
<1>1. HolderInv => SingleHolder
  BY DEF HolderInv, Facts, HeldApart, HoldersOf, SingleHolder, Holders
<1> QED BY <1>1, PoolHolderInv, PTL

(* A usable physical connection is always on the books: none is leaked.    *)
THEOREM PoolNoLeak == Spec => []NoLeak
<1>1. HolderInv => NoLeak
  BY DEF HolderInv, Facts, Tracked, NoLeak
<1> QED BY <1>1, PoolHolderInv, PTL

-----------------------------------------------------------------------------
Once(ans) == \A r \in Req : ans[r] <= 1

Flying(at) == {r \in Req : at[r] = "flight"}

Counted(done, idle, all, inuse, making, at) ==
    /\ making = Cardinality(Flying(at))
    /\ ~done => inuse = Len(all) - Len(idle)
    /\ Len(all) + Cardinality(Flying(at)) <= MaxSize

Told(at, ans) == \A r \in Req : at[r] \in {"ok", "failed"} => ans[r] >= 1

Worn(idle, uses) ==
    MaxUses > 0 => /\ \A c \in Req : uses[c] <= MaxUses
                   /\ \A c \in ToSet(idle) : uses[c] < MaxUses

BoundsInv ==
    /\ Once(answers)
         => Counted(destroyed, pooldb, internaldb, dbinuse, creating, attach)
    /\ Told(attach, answers)
    /\ Worn(pooldb, useCount)

(* The attaches in flight are finitely many.                               *)
LEMMA FlyingFinite ==
    ASSUME NEW at
    PROVE  IsFiniteSet(Flying(at)) /\ Cardinality(Flying(at)) \in Nat
<1>1. Flying(at) \in SUBSET Req
  BY DEF Flying
<1> QED BY <1>1, PoolAssumption, FS_Subset, FS_CardinalityType

(* One attach() more is in flight.                                         *)
LEMMA OneTakesOff ==
    ASSUME NEW at \in [Req -> AttachState], NEW r \in Req, at[r] # "flight"
    PROVE  Cardinality(Flying([at EXCEPT ![r] = "flight"]))
             = Cardinality(Flying(at)) + 1
<1>1. Flying([at EXCEPT ![r] = "flight"]) = Flying(at) \cup {r} /\ r \notin Flying(at)
  BY DEF Flying
<1> QED BY <1>1, FlyingFinite, FS_AddElement

(* One attach() less is.                                                   *)
LEMMA OneLands ==
    ASSUME NEW at \in [Req -> AttachState], NEW r \in Req, at[r] = "flight",
           NEW to, to # "flight"
    PROVE  Cardinality(Flying([at EXCEPT ![r] = to]))
             = Cardinality(Flying(at)) - 1
<1>1. Flying([at EXCEPT ![r] = to]) = Flying(at) \ {r} /\ r \in Flying(at)
  BY DEF Flying
<1> QED BY <1>1, FlyingFinite, FS_RemoveElement

(* Removing elements of a sequence without duplicates shortens it by their *)
(* number.                                                                 *)
LEMMA WithoutLength ==
    ASSUME NEW T, NEW s \in Seq(T), IsInjective(s), NEW S \in SUBSET ToSet(s)
    PROVE  Len(Without(s, S)) = Len(s) - Cardinality(S)
<1> DEFINE w == Without(s, S)
<1>1. w \in Seq(T) /\ ToSet(w) = ToSet(s) \ S /\ IsInjective(w)
  BY WithoutProperties
<1> HIDE DEF w
<1>2. Cardinality(ToSet(w)) = Len(w)
  BY <1>1, InjectiveLength
<1>3. IsFiniteSet(ToSet(s)) /\ Cardinality(ToSet(s)) = Len(s)
  BY InjectiveLength
<1>4. Cardinality(ToSet(s) \ S) = Cardinality(ToSet(s)) - Cardinality(ToSet(s) \cap S)
  BY <1>3, FS_Difference
<1>5. ToSet(s) \cap S = S
  OBVIOUS
<1>6. Len(w) = Len(s) - Cardinality(S)
  BY <1>1, <1>2, <1>3, <1>4, <1>5
<1> QED BY <1>6 DEF w

(* Removing one.                                                           *)
LEMMA WithoutOne ==
    ASSUME NEW T, NEW s \in Seq(T), IsInjective(s), NEW x \in ToSet(s)
    PROVE  Len(Without(s, {x})) = Len(s) - 1
<1>1. Cardinality({x}) = 1
  BY FS_Singleton
<1> QED BY <1>1, WithoutLength

-----------------------------------------------------------------------------
(* check() keeps the counters true, whatever values it is run on.          *)
LEMMA CheckCounts ==
    ASSUME TypeOK,
           NEW waiting \in Seq(Req), NEW idle \in Seq(Req), NEW all \in Seq(Req),
           NEW inuse \in Int, NEW due \in Nat,
           Unique(waiting, idle, all),
           \A r \in ToSet(waiting) : attach[r] = "none",
           Counted(destroyed, idle, all, inuse, creating, attach),
           Check(waiting, idle, all, inuse, due)
    PROVE  Counted(destroyed, pooldb', internaldb', dbinuse', creating', attach')
<1>a. Len(idle) \in Nat /\ Len(all) \in Nat
  BY LenProperties
<1>b. Cardinality(Flying(attach)) \in Nat
  BY FlyingFinite
<1>1. CASE CheckNothing(waiting, idle, all, inuse, due)
  BY <1>1 DEF CheckNothing
<1>2. CASE CheckDiscards(waiting, idle, all, inuse, due)
  <2> DEFINE c == Head(idle)
  <2>1. /\ pooldb' = Tail(idle) /\ internaldb' = Without(all, {c})
        /\ dbinuse' = inuse /\ creating' = creating /\ attach' = attach
        /\ idle # <<>>
    BY <1>2 DEF CheckDiscards
  <2>2. c \in ToSet(all)
    BY <2>1, TailElements DEF Unique
  <2>3. Len(Tail(idle)) = Len(idle) - 1
    BY <2>1, HeadTailProperties
  <2>4. Len(Without(all, {c})) = Len(all) - 1
    BY <2>2, WithoutOne DEF Unique
  <2> HIDE DEF c
  <2>5. Len(pooldb') = Len(idle) - 1 /\ Len(internaldb') = Len(all) - 1
    BY <2>1, <2>3, <2>4
  <2>6. /\ creating = Cardinality(Flying(attach))
        /\ ~destroyed => inuse = Len(all) - Len(idle)
        /\ Len(all) + Cardinality(Flying(attach)) <= MaxSize
    BY DEF Counted
  <2>7. ~destroyed => inuse = (Len(all) - 1) - (Len(idle) - 1)
    BY <1>a, <2>6
  <2>8. (Len(all) - 1) + Cardinality(Flying(attach)) <= MaxSize
    BY <1>a, <1>b, <2>6, PoolAssumption
  <2> QED BY <2>1, <2>5, <2>6, <2>7, <2>8 DEF Counted
<1>3. CASE CheckHandsOut(waiting, idle, all, inuse, due)
  <2>1. /\ pooldb' = Tail(idle) /\ internaldb' = all /\ dbinuse' = inuse + 1
        /\ creating' = creating /\ attach' = attach /\ idle # <<>>
    BY <1>3 DEF CheckHandsOut
  <2>2. Len(Tail(idle)) = Len(idle) - 1
    BY <2>1, HeadTailProperties
  <2> QED BY <1>a, <1>b, <2>1, <2>2 DEF Counted
<1>4. CASE CheckAttaches(waiting, idle, all, inuse, due)
  <2> DEFINE r == Head(waiting)
  <2>1. /\ pooldb' = idle /\ internaldb' = all /\ dbinuse' = inuse
        /\ creating' = creating + 1
        /\ attach' = [attach EXCEPT ![r] = "flight"]
        /\ ~destroyed /\ inuse + creating < MaxSize
        /\ waiting # <<>> /\ idle = <<>>
    BY <1>4 DEF CheckAttaches, MayServe
  <2>2. r \in Req /\ attach[r] = "none"
    BY <2>1, TailElements
  <2> HIDE DEF r
  <2>3. Cardinality(Flying(attach')) = Cardinality(Flying(attach)) + 1
    BY <2>1, <2>2, OneTakesOff DEF TypeOK
  <2>4. Len(idle) = 0
    BY <2>1, EmptySeq
  <2>5. inuse = Len(all) /\ creating = Cardinality(Flying(attach))
    BY <1>a, <2>1, <2>4 DEF Counted
  <2>6. Len(all) + (Cardinality(Flying(attach)) + 1) <= MaxSize
    BY <1>a, <1>b, <2>1, <2>5, PoolAssumption
  <2> QED BY <1>a, <2>1, <2>3, <2>4, <2>5, <2>6 DEF Counted
<1> QED BY <1>1, <1>2, <1>3, <1>4 DEF Check

(* check() wears no connection out: it hands out idle ones only.           *)
LEMMA CheckWears ==
    ASSUME TypeOK,
           NEW waiting \in Seq(Req), NEW idle \in Seq(Req), NEW all \in Seq(Req),
           NEW inuse, NEW due,
           IsInjective(idle), Worn(idle, useCount),
           Check(waiting, idle, all, inuse, due)
    PROVE  Worn(pooldb', useCount')
<1>1. CASE CheckNothing(waiting, idle, all, inuse, due)
  BY <1>1 DEF CheckNothing
<1>2. CASE CheckDiscards(waiting, idle, all, inuse, due)
  <2>1. pooldb' = Tail(idle) /\ useCount' = useCount /\ idle # <<>>
    BY <1>2 DEF CheckDiscards
  <2>2. ToSet(Tail(idle)) \subseteq ToSet(idle)
    BY <2>1, TailElements
  <2> QED BY <2>1, <2>2 DEF Worn
<1>3. CASE CheckHandsOut(waiting, idle, all, inuse, due)
  <2> DEFINE c == Head(idle)
  <2>1. /\ pooldb' = Tail(idle) /\ idle # <<>>
        /\ useCount' = [useCount EXCEPT ![c] = @ + 1]
    BY <1>3 DEF CheckHandsOut
  <2>2. /\ c \in Req /\ c \in ToSet(idle) /\ c \notin ToSet(Tail(idle))
        /\ ToSet(Tail(idle)) \subseteq ToSet(idle)
    BY <2>1, TailElements
  <2>3. ToSet(Tail(idle)) \subseteq Req
    BY <2>2, LenProperties, ElementOfSeq DEF ToSet
  <2> HIDE DEF c
  <2>4. \A d \in Req : useCount'[d] = IF d = c THEN useCount[d] + 1 ELSE useCount[d]
    BY <2>1, <2>2 DEF TypeOK
  <2>5. \A d \in Req : useCount[d] \in Nat
    BY DEF TypeOK
  <2>6. MaxUses > 0 => \A d \in Req : useCount'[d] <= MaxUses
    BY <2>2, <2>4, <2>5, PoolAssumption DEF Worn
  <2>7. MaxUses > 0 => \A d \in ToSet(Tail(idle)) : useCount'[d] < MaxUses
    BY <2>2, <2>3, <2>4 DEF Worn
  <2> QED BY <2>1, <2>6, <2>7 DEF Worn
<1>4. CASE CheckAttaches(waiting, idle, all, inuse, due)
  BY <1>4 DEF CheckAttaches
<1> QED BY <1>1, <1>2, <1>3, <1>4 DEF Check

(* check() answers no request less often, and its attach() is in flight.   *)
LEMMA CheckTells ==
    ASSUME TypeOK,
           NEW waiting \in Seq(Req), NEW idle, NEW all, NEW inuse, NEW due,
           Check(waiting, idle, all, inuse, due)
    PROVE  /\ \A r \in Req : answers[r] <= answers'[r]
           /\ \A r \in Req : attach'[r] \in {attach[r], "flight"}
<1>a. \A r \in Req : answers[r] \in Nat
  BY DEF TypeOK
<1>1. CASE CheckNothing(waiting, idle, all, inuse, due)
  BY <1>a, <1>1 DEF CheckNothing
<1>2. CASE CheckDiscards(waiting, idle, all, inuse, due)
  BY <1>a, <1>2 DEF CheckDiscards
<1>3. CASE CheckHandsOut(waiting, idle, all, inuse, due)
  <2>1. attach' = attach /\ answers' = [answers EXCEPT ![Head(waiting)] = @ + 1]
    BY <1>3 DEF CheckHandsOut, Answer
  <2>2. \A r \in Req : answers[r] <= answers'[r]
    BY <1>a, <2>1 DEF TypeOK
  <2> QED BY <2>1, <2>2
<1>4. CASE CheckAttaches(waiting, idle, all, inuse, due)
  <2>1. attach' = [attach EXCEPT ![Head(waiting)] = "flight"] /\ answers' = answers
    BY <1>4 DEF CheckAttaches
  <2>2. \A r \in Req : attach'[r] \in {attach[r], "flight"}
    BY <2>1 DEF TypeOK
  <2>3. \A r \in Req : answers[r] <= answers'[r]
    BY <1>a, <2>1
  <2> QED BY <2>2, <2>3
<1> QED BY <1>1, <1>2, <1>3, <1>4 DEF Check

-----------------------------------------------------------------------------
(* What the 'detach' listener may do with a connection.                    *)
Returned(c) ==
    DetachIgnored(c) \/ DetachBroken(c) \/ DetachToIdle(c) \/ DetachExpired(c)

(* Giving a connection back keeps the counters true: it leaves the books,  *)
(* or it becomes idle, and is one less in use.                             *)
LEMMA ReturnCounts ==
    ASSUME TypeOK, NEW c \in Req, Returned(c),
           Unique(pending, pooldb, internaldb),
           \A r \in ToSet(pending) : attach[r] = "none",
           Counted(destroyed, pooldb, internaldb, dbinuse, creating, attach)
    PROVE  Counted(destroyed, pooldb', internaldb', dbinuse', creating', attach')
<1>a. /\ Len(pooldb) \in Nat /\ Len(internaldb) \in Nat
      /\ Cardinality(Flying(attach)) \in Nat
  BY LenProperties, FlyingFinite DEF TypeOK
<1>b. /\ pending \in Seq(Req) /\ pooldb \in Seq(Req) /\ internaldb \in Seq(Req)
      /\ dbinuse \in Int /\ dbinuse - 1 \in Int /\ checks \in Nat
  BY DEF TypeOK
<1>c. /\ creating = Cardinality(Flying(attach))
      /\ ~destroyed => dbinuse = Len(internaldb) - Len(pooldb)
      /\ Len(internaldb) + Cardinality(Flying(attach)) <= MaxSize
  BY DEF Counted
<1>1. CASE DetachIgnored(c)
  BY <1>1 DEF DetachIgnored, poolVars
<1>2. CASE DetachBroken(c) \/ DetachExpired(c)
  <2> DEFINE left == Without(internaldb, {c})
  <2>1. /\ Check(pending, pooldb, left, dbinuse - 1, checks)
        /\ c \notin ToSet(pooldb) /\ c \in ToSet(internaldb)
    BY <1>2 DEF DetachBroken, DetachExpired, Listed
  <2>2. /\ left \in Seq(Req) /\ IsInjective(left)
        /\ ToSet(left) = ToSet(internaldb) \ {c}
    BY <1>b, WithoutProperties DEF Unique
  <2>3. Len(left) = Len(internaldb) - 1
    BY <1>b, <2>1, WithoutOne DEF Unique
  <2> HIDE DEF left
  <2>4. Unique(pending, pooldb, left)
    BY <2>1, <2>2 DEF Unique
  <2>5. ~destroyed => dbinuse - 1 = Len(left) - Len(pooldb)
    BY <1>a, <1>c, <2>3
  <2>6. Len(left) + Cardinality(Flying(attach)) <= MaxSize
    BY <1>a, <1>c, <2>3, PoolAssumption
  <2>7. Counted(destroyed, pooldb, left, dbinuse - 1, creating, attach)
    BY <1>c, <2>5, <2>6 DEF Counted
  <2> QED BY <1>b, <2>1, <2>2, <2>4, <2>7, CheckCounts
<1>3. CASE DetachToIdle(c)
  <2> DEFINE idle == Append(pooldb, c)
  <2>1. /\ Check(pending, idle, internaldb, dbinuse - 1, checks)
        /\ c \notin ToSet(pooldb) /\ c \in ToSet(internaldb)
    BY <1>3 DEF DetachToIdle, Listed
  <2>2. /\ idle \in Seq(Req) /\ ToSet(idle) = ToSet(pooldb) \cup {c}
        /\ IsInjective(idle)
    BY <1>b, <2>1, AppendElements DEF Unique
  <2>3. Len(idle) = Len(pooldb) + 1
    BY <1>b, AppendProperties
  <2> HIDE DEF idle
  <2>4. Unique(pending, idle, internaldb)
    BY <2>1, <2>2 DEF Unique
  <2>5. ~destroyed => dbinuse - 1 = Len(internaldb) - Len(idle)
    BY <1>a, <1>c, <2>3
  <2>6. Counted(destroyed, idle, internaldb, dbinuse - 1, creating, attach)
    BY <1>c, <2>5 DEF Counted
  <2> QED BY <1>b, <2>1, <2>2, <2>4, <2>6, CheckCounts
<1> QED BY <1>1, <1>2, <1>3 DEF Returned

(* A connection becomes idle only with a use left.                         *)
LEMMA ReturnWears ==
    ASSUME TypeOK, NEW c \in Req, Returned(c),
           Unique(pending, pooldb, internaldb), Worn(pooldb, useCount)
    PROVE  Worn(pooldb', useCount')
<1>b. /\ pending \in Seq(Req) /\ pooldb \in Seq(Req) /\ internaldb \in Seq(Req)
      /\ Without(internaldb, {c}) \in Seq(Req)
  BY WithoutProperties DEF TypeOK
<1>1. CASE DetachIgnored(c)
  BY <1>1 DEF DetachIgnored, poolVars
<1>2. CASE DetachBroken(c) \/ DetachExpired(c)
  <2>1. Check(pending, pooldb, Without(internaldb, {c}), dbinuse - 1, checks)
    BY <1>2 DEF DetachBroken, DetachExpired
  <2> QED BY <1>b, <2>1, CheckWears DEF Unique
<1>3. CASE DetachToIdle(c)
  <2> DEFINE idle == Append(pooldb, c)
  <2>1. /\ Check(pending, idle, internaldb, dbinuse - 1, checks)
        /\ c \notin ToSet(pooldb)
        /\ MaxUses > 0 => ~(useCount[c] >= MaxUses)
    BY <1>3 DEF DetachToIdle, Listed, Expired
  <2>2. /\ idle \in Seq(Req) /\ ToSet(idle) = ToSet(pooldb) \cup {c}
        /\ IsInjective(idle)
    BY <1>b, <2>1, AppendElements DEF Unique
  <2> HIDE DEF idle
  <2>3. useCount[c] \in Nat
    BY DEF TypeOK
  <2>4. MaxUses > 0 => useCount[c] < MaxUses
    BY <2>1, <2>3, PoolAssumption
  <2>5. Worn(idle, useCount)
    BY <2>2, <2>4 DEF Worn
  <2> QED BY <1>b, <2>1, <2>2, <2>5, CheckWears
<1> QED BY <1>1, <1>2, <1>3 DEF Returned

(* Giving a connection back takes no answer back.                          *)
LEMMA ReturnTells ==
    ASSUME TypeOK, NEW c, Returned(c)
    PROVE  /\ \A r \in Req : answers[r] <= answers'[r]
           /\ \A r \in Req : attach'[r] \in {attach[r], "flight"}
<1>a. /\ pending \in Seq(Req)
      /\ \A r \in Req : answers[r] \in Nat
  BY DEF TypeOK
<1>1. CASE DetachIgnored(c)
  BY <1>a, <1>1 DEF DetachIgnored
<1>2. CASE DetachBroken(c) \/ DetachExpired(c)
  BY <1>a, <1>2, CheckTells DEF DetachBroken, DetachExpired
<1>3. CASE DetachToIdle(c)
  BY <1>a, <1>3, CheckTells DEF DetachToIdle
<1> QED BY <1>1, <1>2, <1>3 DEF Returned

-----------------------------------------------------------------------------
(* The three actions that run the 'detach' listener.                       *)
GivesBack(r) ==
    Detach(r) \/ DetachAgain(r) \/ \E err \in BOOLEAN : DetachReply(r, err)

(* They run it on a connection of the pool's, or nothing happens.          *)
LEMMA GivesBackReturns ==
    ASSUME TypeOK, NEW r \in Req, GivesBack(r)
    PROVE  /\ destroyed' = destroyed
           /\ \E c : Returned(c) /\ (c \in Req \/ DetachIgnored(c))
<1>1. destroyed' = destroyed
  BY DEF GivesBack, Detach, DetachAgain, DetachReply, destroyVars
<1>2. \E c : Returned(c)
  BY DEF GivesBack, Detach, DetachAgain, DetachReply, OnDetach, Returned
<1>3. ASSUME NEW c, Returned(c) PROVE c \in Req \/ DetachIgnored(c)
  <2>1. Listed(c) => c \in Req
    BY ListsInReq DEF Listed
  <2> QED BY <1>3, <2>1 DEF Returned, DetachBroken, DetachToIdle, DetachExpired
<1> QED BY <1>1, <1>2, <1>3

(* What the lists of the pool hold, from the invariant of PoolProofs.      *)
LEMMA ListsApart ==
    ASSUME HolderInv
    PROVE  /\ Unique(pending, pooldb, internaldb)
           /\ \A r \in ToSet(pending) : attach[r] = "none"
           /\ \A r \in Req : attach[r] \in {"none", "flight", "late"}
                               => r \notin ToSet(internaldb)
           /\ \A r \in Req : r \notin asked => attach[r] = "none"
  BY DEF HolderInv, Facts, OneAttach

(* No step takes back an answer, and a step that ends an attach() with or  *)
(* without a connection has answered its request.                          *)
LEMMA StepTold ==
    ASSUME TypeOK, Told(attach, answers), [Next]_vars
    PROVE  /\ \A r \in Req : answers[r] <= answers'[r]
           /\ Told(attach', answers')
<1>a. \A r \in Req : answers[r] \in Nat /\ answers'[r] \in Nat
  BY StepTypeOK DEF TypeOK
<1>b. ASSUME \A r \in Req : answers[r] <= answers'[r],
             \A r \in Req : attach'[r] \in {attach[r], "flight", "late", "ended"}
      PROVE  Told(attach', answers')
  BY <1>a, <1>b DEF Told
<1>0. CASE UNCHANGED vars
  BY <1>0, <1>a, <1>b DEF vars, connVars, callVars
<1>1. ASSUME NEW r \in Req, Get(r)
      PROVE  /\ \A q \in Req : answers[q] <= answers'[q]
             /\ Told(attach', answers')
  <2>1. CASE GetRefused(r)
    <3>1. answers' = [answers EXCEPT ![r] = @ + 1] /\ attach' = attach
      BY <2>1 DEF GetRefused, Answer
    <3>2. \A q \in Req : answers[q] <= answers'[q]
      BY <1>a, <3>1 DEF TypeOK
    <3> QED BY <1>b, <3>1, <3>2
  <2>2. CASE Check(Append(pending, r), pooldb, internaldb, dbinuse, checks)
    <3>1. Append(pending, r) \in Seq(Req)
      BY AppendElements DEF TypeOK
    <3> QED BY <1>b, <2>2, <3>1, CheckTells
  <2> QED BY <1>1, <2>1, <2>2 DEF Get
<1>2. ASSUME NEW r \in Req, GivesBack(r)
      PROVE  /\ \A q \in Req : answers[q] <= answers'[q]
             /\ Told(attach', answers')
  BY <1>b, <1>2, GivesBackReturns, ReturnTells
<1>3. ASSUME NEW r \in Req,
             \/ AttachOk(r) \/ AttachTimeout(r) \/ AttachAfterDestroy(r)
             \/ AttachCallbackAgain(r)
             \/ AttachFail(r) /\ attach[r] # "late"
      PROVE  /\ \A q \in Req : answers[q] <= answers'[q]
             /\ Told(attach', answers')
  <2>1. answers' = [answers EXCEPT ![r] = @ + 1]
    BY <1>3 DEF AttachOk, AttachTimeout, AttachAfterDestroy, AttachCallbackAgain,
                AttachFail, Answer
  <2>2. \A q \in Req : q # r => attach'[q] = attach[q]
    BY <1>3 DEF AttachOk, AttachTimeout, AttachAfterDestroy, AttachCallbackAgain,
                AttachFail, GiveUpOn, TypeOK
  <2>3. \A q \in Req : answers'[q] = IF q = r THEN answers[q] + 1 ELSE answers[q]
    BY <2>1 DEF TypeOK
  <2> QED BY <1>a, <2>2, <2>3 DEF Told
<1>4. ASSUME NEW r \in Req, AttachLate(r) \/ (AttachFail(r) /\ attach[r] = "late")
      PROVE  /\ \A q \in Req : answers[q] <= answers'[q]
             /\ Told(attach', answers')
  <2>1. answers' = answers /\ attach' = [attach EXCEPT ![r] = "ended"]
    BY <1>4 DEF AttachLate, AttachFail, callVars
  <2>2. \A q \in Req : attach'[q] \in {attach[q], "ended"}
    BY <2>1 DEF TypeOK
  <2> QED BY <1>a, <1>b, <2>1, <2>2
<1>5. ASSUME NEW r \in Req, ConnLost(r) \/ Age(r) \/ GoStale(r)
      PROVE  answers' = answers /\ attach' = attach
  BY <1>5 DEF ConnLost, Age, GoStale, callVars
<1>6. ASSUME RunCheck
      PROVE  /\ \A q \in Req : answers[q] <= answers'[q]
             /\ Told(attach', answers')
  <2>1. Check(pending, pooldb, internaldb, dbinuse, checks - 1)
    BY <1>6 DEF RunCheck
  <2> QED BY <1>b, <2>1, CheckTells DEF TypeOK
<1>7. ASSUME Reap PROVE answers' = answers /\ attach' = attach
  BY <1>7 DEF Reap, callVars
<1>8. ASSUME NEW d \in Destroyers, Destroy(d)
      PROVE  /\ \A q \in Req : answers[q] <= answers'[q]
             /\ Told(attach', answers')
  <2>1. /\ answers' = [q \in Req |-> IF q \in ToSet(pending) THEN answers[q] + 1
                                     ELSE answers[q]]
        /\ attach' = attach
    BY <1>8 DEF Destroy
  <2>2. \A q \in Req : answers[q] <= answers'[q]
    BY <1>a, <2>1
  <2> QED BY <1>b, <2>1, <2>2
<1>9. CASE answers' = answers /\ attach' = attach
  BY <1>9, <1>a, <1>b
<1> QED
  BY <1>0, <1>1, <1>2, <1>3, <1>4, <1>5, <1>6, <1>7, <1>8, <1>9
  DEF Next, GivesBack

(* No step wears a connection out, or leaves a worn one idle.              *)
LEMMA StepWorn ==
    ASSUME TypeOK, HolderInv, Worn(pooldb, useCount), [Next]_vars
    PROVE  Worn(pooldb', useCount')
<1>a. Unique(pending, pooldb, internaldb)
  BY ListsApart
<1>b. ASSUME ToSet(pooldb') \subseteq ToSet(pooldb), useCount' = useCount
      PROVE  Worn(pooldb', useCount')
  BY <1>b DEF Worn
<1>0. CASE UNCHANGED vars
  BY <1>0, <1>b DEF vars, poolVars, connVars
<1>1. ASSUME NEW r \in Req, Get(r) PROVE Worn(pooldb', useCount')
  <2>1. CASE GetRefused(r)
    BY <2>1, <1>b DEF GetRefused, poolVars
  <2>2. CASE Check(Append(pending, r), pooldb, internaldb, dbinuse, checks)
    <3>1. /\ Append(pending, r) \in Seq(Req)
          /\ pooldb \in Seq(Req) /\ internaldb \in Seq(Req)
      BY AppendElements DEF TypeOK
    <3> QED BY <1>a, <2>2, <3>1, CheckWears DEF Unique
  <2> QED BY <1>1, <2>1, <2>2 DEF Get
<1>2. ASSUME NEW r \in Req, GivesBack(r) PROVE Worn(pooldb', useCount')
  <2>1. PICK c : Returned(c) /\ (c \in Req \/ DetachIgnored(c))
    BY <1>2, GivesBackReturns
  <2>2. CASE c \in Req
    BY <1>a, <2>1, <2>2, ReturnWears
  <2>3. CASE DetachIgnored(c)
    BY <1>b, <2>3 DEF DetachIgnored, poolVars
  <2> QED BY <2>1, <2>2, <2>3
<1>3. ASSUME NEW r \in Req, AttachOk(r) PROVE Worn(pooldb', useCount')
  <2>1. /\ pooldb' = pooldb /\ useCount' = [useCount EXCEPT ![r] = 1]
        /\ attach[r] = "flight"
    BY <1>3 DEF AttachOk, Wanted
  <2>2. r \notin ToSet(pooldb)
    BY <1>a, <2>1, ListsApart DEF Unique
  <2>3. \A c \in Req : useCount'[c] = IF c = r THEN 1 ELSE useCount[c]
    BY <2>1 DEF TypeOK
  <2>4. MaxUses > 0 => 1 <= MaxUses
    BY PoolAssumption
  <2> QED BY <2>1, <2>2, <2>3, <2>4, ListsInReq DEF Worn
<1>4. ASSUME NEW r \in Req,
             \/ AttachFail(r) \/ AttachTimeout(r) \/ AttachLate(r)
             \/ AttachAfterDestroy(r) \/ AttachCallbackAgain(r)
             \/ ConnLost(r) \/ Age(r) \/ GoStale(r)
      PROVE  Worn(pooldb', useCount')
  <2>1. pooldb' = pooldb /\ useCount' = useCount
    BY <1>4 DEF AttachFail, AttachTimeout, AttachLate, AttachAfterDestroy,
                AttachCallbackAgain, ConnLost, Age, GoStale, poolVars
  <2> QED BY <1>b, <2>1
<1>5. ASSUME RunCheck PROVE Worn(pooldb', useCount')
  <2>1. Check(pending, pooldb, internaldb, dbinuse, checks - 1)
    BY <1>5 DEF RunCheck
  <2>2. pending \in Seq(Req) /\ pooldb \in Seq(Req) /\ internaldb \in Seq(Req)
    BY DEF TypeOK
  <2> QED BY <1>a, <2>1, <2>2, CheckWears DEF Unique
<1>6. ASSUME Reap \/ \E d \in Destroyers : Destroy(d)
      PROVE  Worn(pooldb', useCount')
  <2>1. (\E S : pooldb' = Without(pooldb, S)) /\ useCount' = useCount
    BY <1>6 DEF Reap, Destroy
  <2>2. ToSet(pooldb') \subseteq ToSet(pooldb)
    BY <2>1, WithoutProperties DEF TypeOK
  <2> QED BY <1>b, <2>1, <2>2
<1> QED
  BY <1>0, <1>1, <1>2, <1>3, <1>4, <1>5, <1>6 DEF Next, GivesBack

(* No step makes a counter wrong, or the connections too many, as long as  *)
(* no request is answered twice.                                           *)
LEMMA StepCounts ==
    ASSUME TypeOK, HolderInv, Told(attach, answers), Once(answers'), [Next]_vars,
           Counted(destroyed, pooldb, internaldb, dbinuse, creating, attach)
    PROVE  Counted(destroyed', pooldb', internaldb', dbinuse', creating', attach')
<1> DEFINE C == Counted(destroyed', pooldb', internaldb', dbinuse', creating', attach')
<1>a. /\ Unique(pending, pooldb, internaldb)
      /\ \A r \in ToSet(pending) : attach[r] = "none"
  BY ListsApart
<1>b. /\ Len(pooldb) \in Nat /\ Len(internaldb) \in Nat
      /\ Cardinality(Flying(attach)) \in Nat /\ MaxSize \in Nat
  BY LenProperties, FlyingFinite, PoolAssumption DEF TypeOK
<1>c. /\ creating = Cardinality(Flying(attach))
      /\ ~destroyed => dbinuse = Len(internaldb) - Len(pooldb)
      /\ Len(internaldb) + Cardinality(Flying(attach)) <= MaxSize
  BY DEF Counted
<1>d. /\ pending \in Seq(Req) /\ pooldb \in Seq(Req) /\ internaldb \in Seq(Req)
      /\ dbinuse \in Int /\ checks \in Nat /\ attach \in [Req -> AttachState]
  BY DEF TypeOK
<1>0. CASE UNCHANGED vars
  BY <1>0 DEF vars, poolVars, connVars, destroyVars, Counted
<1>1. ASSUME NEW r \in Req, Get(r) PROVE C
  <2>0. destroyed' = destroyed
    BY <1>1 DEF Get, destroyVars
  <2>1. CASE GetRefused(r)
    BY <2>0, <2>1 DEF GetRefused, poolVars, Counted
  <2>2. CASE Check(Append(pending, r), pooldb, internaldb, dbinuse, checks)
    <3>1. r \notin ToSet(pending) /\ attach[r] = "none"
      BY <1>1, ListsApart DEF Get, HolderInv, Facts, OneAttach
    <3>2. /\ Append(pending, r) \in Seq(Req)
          /\ ToSet(Append(pending, r)) = ToSet(pending) \cup {r}
          /\ IsInjective(Append(pending, r))
      BY <1>a, <1>d, <3>1, AppendElements DEF Unique
    <3>3. /\ Unique(Append(pending, r), pooldb, internaldb)
          /\ \A q \in ToSet(Append(pending, r)) : attach[q] = "none"
      BY <1>a, <3>1, <3>2 DEF Unique
    <3>4. Counted(destroyed, pooldb', internaldb', dbinuse', creating', attach')
      BY <1>d, <2>2, <3>2, <3>3, CheckCounts
    <3> QED BY <2>0, <3>4
  <2> QED BY <1>1, <2>1, <2>2 DEF Get
<1>2. ASSUME NEW r \in Req, GivesBack(r) PROVE C
  <2>0. destroyed' = destroyed
    BY <1>2, GivesBackReturns
  <2>1. PICK c : Returned(c) /\ (c \in Req \/ DetachIgnored(c))
    BY <1>2, GivesBackReturns
  <2>2. CASE c \in Req
    <3>1. Counted(destroyed, pooldb', internaldb', dbinuse', creating', attach')
      BY <1>a, <2>1, <2>2, ReturnCounts
    <3> QED BY <2>0, <3>1
  <2>3. CASE DetachIgnored(c)
    BY <2>0, <2>3 DEF DetachIgnored, poolVars, Counted
  <2> QED BY <2>1, <2>2, <2>3
<1>3. ASSUME NEW r \in Req, AttachOk(r) PROVE C
  <2>1. /\ attach[r] = "flight" /\ attach' = [attach EXCEPT ![r] = "ok"]
        /\ creating' = creating - 1 /\ dbinuse' = dbinuse + 1
        /\ internaldb' = Append(internaldb, r) /\ pooldb' = pooldb
        /\ destroyed' = destroyed
    BY <1>3 DEF AttachOk, Wanted, destroyVars
  <2>2. Len(internaldb') = Len(internaldb) + 1
    BY <1>d, <2>1, AppendProperties
  <2>3. Cardinality(Flying(attach')) = Cardinality(Flying(attach)) - 1
    BY <1>d, <2>1, OneLands
  <2>4. creating' = Cardinality(Flying(attach'))
    BY <1>c, <2>1, <2>3
  <2>5. ~destroyed' => dbinuse' = Len(internaldb') - Len(pooldb')
    BY <1>b, <1>c, <2>1, <2>2
  <2>6. Len(internaldb') + Cardinality(Flying(attach')) <= MaxSize
    BY <1>b, <1>c, <2>2, <2>3
  <2> QED BY <2>4, <2>5, <2>6 DEF Counted
<1>4. ASSUME NEW r \in Req,
             \/ AttachTimeout(r) \/ AttachAfterDestroy(r)
             \/ AttachFail(r) /\ attach[r] # "late"
      PROVE  C
  <2>1. PICK to \in {"late", "ok", "failed"} : attach' = [attach EXCEPT ![r] = to]
    BY <1>4 DEF AttachTimeout, GiveUpOn, AttachAfterDestroy, AttachFail
  <2>2. /\ attach[r] = "flight" /\ creating' = creating - 1
        /\ UNCHANGED <<pooldb, internaldb, dbinuse, destroyed>>
    BY <1>4 DEF AttachTimeout, AttachAfterDestroy, AttachFail, destroyVars
  <2>3. Cardinality(Flying(attach')) = Cardinality(Flying(attach)) - 1
    BY <1>d, <2>1, <2>2, OneLands
  <2>4. creating' = Cardinality(Flying(attach'))
    BY <1>c, <2>2, <2>3
  <2>5. ~destroyed' => dbinuse' = Len(internaldb') - Len(pooldb')
    BY <1>c, <2>2
  <2>6. Len(internaldb') + Cardinality(Flying(attach')) <= MaxSize
    BY <1>b, <1>c, <2>2, <2>3
  <2> QED BY <2>4, <2>5, <2>6 DEF Counted
<1>5. ASSUME NEW r \in Req, AttachLate(r) \/ (AttachFail(r) /\ attach[r] = "late")
      PROVE  C
  <2>1. /\ attach[r] = "late" /\ attach' = [attach EXCEPT ![r] = "ended"]
        /\ UNCHANGED <<pooldb, internaldb, dbinuse, creating, destroyed>>
    BY <1>5 DEF AttachLate, AttachFail, poolVars, destroyVars
  <2>2. Flying(attach') = Flying(attach)
    BY <1>d, <2>1 DEF Flying
  <2> QED BY <2>1, <2>2 DEF Counted
<1>6. ASSUME NEW r \in Req, AttachCallbackAgain(r) PROVE FALSE
  <2>1. /\ attach[r] \in {"ok", "failed"}
        /\ answers' = [answers EXCEPT ![r] = @ + 1]
    BY <1>6 DEF AttachCallbackAgain, Answer
  <2>2. answers[r] \in Nat /\ answers'[r] = answers[r] + 1
    BY <2>1 DEF TypeOK
  <2>3. answers[r] >= 1 /\ answers'[r] <= 1
    BY <2>1 DEF Told, Once
  <2> QED BY <2>2, <2>3
<1>7. ASSUME NEW r \in Req, ConnLost(r) \/ Age(r) \/ GoStale(r) PROVE C
  BY <1>7 DEF ConnLost, Age, GoStale, poolVars, destroyVars, Counted
<1>8. ASSUME RunCheck PROVE C
  <2>1. /\ Check(pending, pooldb, internaldb, dbinuse, checks - 1)
        /\ checks - 1 \in Nat /\ destroyed' = destroyed
    BY <1>8, <1>d DEF RunCheck, destroyVars
  <2>2. Counted(destroyed, pooldb', internaldb', dbinuse', creating', attach')
    BY <1>a, <1>d, <2>1, CheckCounts
  <2> QED BY <2>1, <2>2
<1>9. ASSUME Reap PROVE C
  <2>1. PICK gone \in SUBSET ToSet(pooldb) :
          /\ pooldb' = Without(pooldb, gone)
          /\ internaldb' = Without(internaldb, gone)
    BY <1>9 DEF Reap
  <2>2. UNCHANGED <<dbinuse, creating, attach, destroyed>>
    BY <1>9 DEF Reap, destroyVars
  <2>3. /\ Len(pooldb') = Len(pooldb) - Cardinality(gone)
        /\ Len(internaldb') = Len(internaldb) - Cardinality(gone)
    BY <1>a, <1>d, <2>1, WithoutLength DEF Unique
  <2>4. Cardinality(gone) \in Nat
    <3>1. gone \in SUBSET Req
      BY ListsInReq
    <3> QED BY <3>1, PoolAssumption, FS_Subset, FS_CardinalityType
  <2>5. ~destroyed' => dbinuse' = Len(internaldb') - Len(pooldb')
    BY <1>b, <1>c, <2>2, <2>3, <2>4
  <2>6. Len(internaldb') + Cardinality(Flying(attach')) <= MaxSize
    BY <1>b, <1>c, <2>2, <2>3, <2>4
  <2> QED BY <1>c, <2>2, <2>5, <2>6 DEF Counted
<1>10. ASSUME NEW d \in Destroyers, Destroy(d) PROVE C
  <2>1. PICK lost \in SUBSET ToSet(internaldb) :
          internaldb' = Without(internaldb, lost)
    <3>1. PICK seen \in SUBSET DOMAIN internaldb :
            LET visited == {internaldb[i] : i \in seen}
                idle    == visited \cap ToSet(pooldb)
                lost    == {c \in idle : conn[c] = "lost"}
            IN  internaldb' = Without(internaldb, lost)
      BY <1>10 DEF Destroy
    <3> DEFINE visited == {internaldb[i] : i \in seen}
               lost    == {c \in visited \cap ToSet(pooldb) : conn[c] = "lost"}
    <3>2. visited \subseteq ToSet(internaldb)
      BY DEF ToSet
    <3>3. lost \in SUBSET ToSet(internaldb)
      BY <3>2
    <3>4. internaldb' = Without(internaldb, lost)
      BY <3>1
    <3> HIDE DEF lost
    <3> QED BY <3>3, <3>4
  <2>2. destroyed' /\ UNCHANGED <<creating, attach>>
    BY <1>10, Zenon DEF Destroy
  <2>3. Len(internaldb') = Len(internaldb) - Cardinality(lost)
    BY <1>a, <1>d, <2>1, WithoutLength DEF Unique
  <2>4. Cardinality(lost) \in Nat
    <3>1. lost \in SUBSET Req
      BY ListsInReq
    <3> QED BY <3>1, PoolAssumption, FS_Subset, FS_CardinalityType
  <2>5. Len(internaldb') + Cardinality(Flying(attach')) <= MaxSize
    BY <1>b, <1>c, <2>2, <2>3, <2>4
  <2> QED BY <1>c, <2>2, <2>5 DEF Counted
<1> QED
  BY <1>0, <1>1, <1>2, <1>3, <1>4, <1>5, <1>6, <1>7, <1>8, <1>9, <1>10
  DEF Next, GivesBack

-----------------------------------------------------------------------------
(* A new pool has no connections and its counters are zero.                *)
LEMMA InitBoundsInv == Init => BoundsInv
<1> SUFFICES ASSUME Init PROVE BoundsInv
  OBVIOUS
<1>1. /\ pooldb = <<>> /\ internaldb = <<>> /\ dbinuse = 0 /\ creating = 0
      /\ attach = [r \in Req |-> "none"]
      /\ useCount = [r \in Req |-> 0]
  BY DEF Init
<1>2. Flying(attach) = {}
  BY <1>1 DEF Flying
<1>3. Cardinality(Flying(attach)) = 0 /\ Len(<<>>) = 0
  BY <1>2, FS_EmptySet
<1>4. Counted(destroyed, pooldb, internaldb, dbinuse, creating, attach)
  BY <1>1, <1>3, PoolAssumption DEF Counted
<1>5. Told(attach, answers)
  BY <1>1 DEF Told
<1>6. ToSet(pooldb) = {}
  BY <1>1 DEF ToSet
<1>7. Worn(pooldb, useCount)
  BY <1>1, <1>6, PoolAssumption DEF Worn
<1> QED BY <1>4, <1>5, <1>7 DEF BoundsInv

(* Every action of the pool keeps the bounds.                              *)
LEMMA StepBoundsInv ==
    TypeOK /\ HolderInv /\ BoundsInv /\ [Next]_vars => BoundsInv'
<1> SUFFICES ASSUME TypeOK, HolderInv, BoundsInv, [Next]_vars PROVE BoundsInv'
  OBVIOUS
<1>1. /\ \A r \in Req : answers[r] <= answers'[r]
      /\ Told(attach', answers')
  BY StepTold DEF BoundsInv
<1>2. \A r \in Req : answers[r] \in Nat /\ answers'[r] \in Nat
  BY StepTypeOK DEF TypeOK
<1>3. Once(answers') => Once(answers)
  BY <1>1, <1>2 DEF Once
<1>4. ASSUME Once(answers')
      PROVE  Counted(destroyed', pooldb', internaldb', dbinuse', creating', attach')
  BY <1>3, <1>4, StepCounts DEF BoundsInv
<1>5. Worn(pooldb', useCount')
  BY StepWorn DEF BoundsInv
<1> QED BY <1>1, <1>4, <1>5 DEF BoundsInv

(* The pool never has more connections than max, idle, handed out and      *)
(* being made, and hands none out more than maxUses times.                 *)
THEOREM PoolWithinBounds == Spec => []WithinBounds
<1>1. BoundsInv => WithinBounds
  <2> SUFFICES ASSUME BoundsInv PROVE WithinBounds
    OBVIOUS
  <2>1. InFlight = Flying(attach)
    BY DEF InFlight, Flying
  <2>2. (\A r \in Req : answers[r] <= 1)
           => Len(internaldb) + Cardinality(InFlight) <= MaxSize
    BY <2>1 DEF BoundsInv, Once, Counted
  <2>3. MaxUses > 0 => \A c \in Req : useCount[c] <= MaxUses
    BY DEF BoundsInv, Worn
  <2> QED BY <2>2, <2>3 DEF WithinBounds
<1>2. Spec => []BoundsInv
  BY InitBoundsInv, StepBoundsInv, PoolHolderInv, PTL DEF Spec
<1> QED BY <1>1, <1>2, PTL

-----------------------------------------------------------------------------
(***************************************************************************)
(* The pool as leases.  Whoever has not asked, waits or is being served    *)
(* has neither a connection nor an answer; whoever released had one; and   *)
(* nobody is answered twice, unless attach() answers twice.                *)
(***************************************************************************)
Fresh(pend, at, gt, ans, ask, rel) ==
    /\ \A r \in Req : r \notin ask \/ r \in ToSet(pend) \/ at[r] = "flight"
                          => gt[r] = NoConn /\ ans[r] = 0
    /\ \A r \in Req : r \in rel => gt[r] # NoConn
    /\ Once(ans)

FreshInv == Fresh(pending, attach, got, answers, asked, released)

(* What a check() on the requests pend may do to one of them: serve it at  *)
(* once, or not yet.                                                       *)
ServesNone(pend) ==
    /\ got' = got /\ answers' = answers
    /\ ToSet(pending') \subseteq ToSet(pend)
    /\ \A r \in Req : attach'[r] = "flight" => attach[r] = "flight" \/ r \in ToSet(pend)

ServesOne(pend, q) ==
    /\ ~destroyed
    /\ q \in ToSet(pend)
    /\ \E c \in Req : got' = [got EXCEPT ![q] = c]
    /\ answers' = [answers EXCEPT ![q] = @ + 1]
    /\ ToSet(pending') \subseteq ToSet(pend) \ {q}
    /\ attach' = attach

Serves(pend) == ServesNone(pend) \/ \E q \in Req : ServesOne(pend, q)

(* check() does one of the two.                                            *)
LEMMA CheckServes ==
    ASSUME TypeOK,
           NEW waiting \in Seq(Req), NEW idle \in Seq(Req), NEW all,
           NEW inuse, NEW due,
           IsInjective(waiting),
           Check(waiting, idle, all, inuse, due)
    PROVE  Serves(waiting)
<1>1. CASE CheckNothing(waiting, idle, all, inuse, due)
  BY <1>1 DEF CheckNothing, Serves, ServesNone
<1>2. CASE CheckDiscards(waiting, idle, all, inuse, due)
  BY <1>2 DEF CheckDiscards, Serves, ServesNone
<1>3. CASE CheckHandsOut(waiting, idle, all, inuse, due)
  <2> DEFINE q == Head(waiting)
             c == Head(idle)
  <2>1. /\ pending' = Tail(waiting) /\ attach' = attach /\ ~destroyed
        /\ got' = [got EXCEPT ![q] = c]
        /\ answers' = [answers EXCEPT ![q] = @ + 1]
        /\ waiting # <<>> /\ idle # <<>>
    BY <1>3 DEF CheckHandsOut, MayServe, Answer
  <2>2. c \in Req
    BY <2>1, TailElements
  <2>3. /\ q \in Req /\ q \in ToSet(waiting)
        /\ ToSet(Tail(waiting)) \subseteq ToSet(waiting) \ {q}
    BY <2>1, TailElements
  <2> HIDE DEF q, c
  <2>4. ServesOne(waiting, q)
    BY <2>1, <2>2, <2>3 DEF ServesOne
  <2> QED BY <2>3, <2>4 DEF Serves
<1>4. CASE CheckAttaches(waiting, idle, all, inuse, due)
  <2> DEFINE q == Head(waiting)
  <2>1. /\ pending' = Tail(waiting) /\ got' = got /\ answers' = answers
        /\ attach' = [attach EXCEPT ![q] = "flight"] /\ waiting # <<>>
    BY <1>4 DEF CheckAttaches, MayServe
  <2>2. q \in ToSet(waiting) /\ ToSet(Tail(waiting)) \subseteq ToSet(waiting)
    BY <2>1, TailElements
  <2> HIDE DEF q
  <2>3. \A r \in Req : attach'[r] = "flight" => attach[r] = "flight" \/ r \in ToSet(waiting)
    BY <2>1, <2>2 DEF TypeOK
  <2> QED BY <2>1, <2>2, <2>3 DEF Serves, ServesNone
<1> QED BY <1>1, <1>2, <1>3, <1>4 DEF Check

(* Whoever is served now was waiting: no request is answered twice by it.  *)
LEMMA ServesFresh ==
    ASSUME TypeOK, NEW pend \in Seq(Req), NEW ask, NEW rel,
           Fresh(pend, attach, got, answers, ask, rel),
           ToSet(pend) \subseteq ask,
           \A r \in ToSet(pend) : attach[r] = "none",
           Serves(pend)
    PROVE  Fresh(pending', attach', got', answers', ask, rel)
<1>1. CASE ServesNone(pend)
  BY <1>1 DEF ServesNone, Fresh
<1>2. ASSUME NEW q \in Req, ServesOne(pend, q)
      PROVE  Fresh(pending', attach', got', answers', ask, rel)
  <2>1. PICK c \in Req : got' = [got EXCEPT ![q] = c]
    BY <1>2 DEF ServesOne
  <2>2. /\ \A r \in Req : r # q => got'[r] = got[r] /\ answers'[r] = answers[r]
        /\ got'[q] = c /\ answers'[q] = answers[q] + 1
    BY <1>2, <2>1 DEF ServesOne, TypeOK
  <2>3. q \in ask /\ q \notin ToSet(pending') /\ attach'[q] = "none"
    BY <1>2 DEF ServesOne
  <2>4. ToSet(pending') \subseteq ToSet(pend) /\ attach' = attach
    BY <1>2 DEF ServesOne
  <2>5. answers[q] = 0 /\ got[q] = NoConn
    BY <1>2 DEF ServesOne, Fresh
  <2>6. q \notin rel /\ NoConn \notin Req
    BY <2>5, PoolAssumption DEF Fresh
  <2>7. ASSUME NEW r \in Req,
               r \notin ask \/ r \in ToSet(pending') \/ attach'[r] = "flight"
        PROVE  got'[r] = NoConn /\ answers'[r] = 0
    <3>1. r # q
      BY <2>3, <2>7
    <3>2. got[r] = NoConn /\ answers[r] = 0
      BY <2>4, <2>7 DEF Fresh
    <3> QED BY <2>2, <3>1, <3>2
  <2>8. \A r \in Req : r \in rel => got'[r] # NoConn
    <3>1. \A r \in Req : r # q /\ got[r] # NoConn => got'[r] # NoConn
      BY <2>2
    <3> QED BY <2>6, <3>1 DEF Fresh
  <2>9. Once(answers')
    BY <2>2, <2>5 DEF Fresh, Once
  <2> QED BY <2>7, <2>8, <2>9 DEF Fresh
<1> QED BY <1>1, <1>2 DEF Serves

-----------------------------------------------------------------------------
(***************************************************************************)
(* The steps of the pool as its callers see them, when no attach() answers *)
(* twice: the pool goes on serving, and one lease at most ends; a request  *)
(* is made; an attach() settles its request; the pool is closed.           *)
(***************************************************************************)
Ends(r) ==
    /\ r \notin released /\ got[r] # NoConn
    /\ released' = released \cup {r}

GoesOn ==
    /\ Serves(pending)
    /\ released' = released \/ \E r \in Req : Ends(r)
    /\ asked' = asked /\ destroyed' = destroyed

Asks(r) ==
    /\ r \notin asked /\ asked' = asked \cup {r}
    /\ \/ Serves(Append(pending, r))
       \/ /\ answers' = [answers EXCEPT ![r] = @ + 1]
          /\ UNCHANGED <<pending, attach, got>>
    /\ released' = released /\ destroyed' = destroyed

Settles(r) ==
    /\ attach[r] = "flight"
    /\ \E to \in AttachState \ {"flight"} : attach' = [attach EXCEPT ![r] = to]
    /\ answers' = [answers EXCEPT ![r] = @ + 1]
    /\ got' = got \/ (~destroyed /\ got' = [got EXCEPT ![r] = r])
    /\ UNCHANGED <<pending, asked, released, destroyed>>

Closes ==
    /\ destroyed' = TRUE
    /\ pending' = <<>>
    /\ answers' = [r \in Req |-> IF r \in ToSet(pending) THEN answers[r] + 1
                                 ELSE answers[r]]
    /\ UNCHANGED <<attach, got, asked, released>>

(* Every step of the pool is one of these.                                 *)
LEMMA StepKinds ==
    ASSUME TypeOK, HolderInv, "repeated_callback" \notin Faults, [Next]_vars
    PROVE  GoesOn \/ (\E r \in Req : Asks(r) \/ Settles(r)) \/ Closes
<1>a. /\ IsInjective(pending)
      /\ pending \in Seq(Req) /\ pooldb \in Seq(Req)
  BY ListsApart DEF TypeOK, Unique
<1>b. ASSUME got' = got, answers' = answers, pending' = pending,
             \A r \in Req : attach'[r] = "flight" => attach[r] = "flight",
             asked' = asked, released' = released, destroyed' = destroyed
      PROVE  GoesOn
  BY <1>b DEF GoesOn, Serves, ServesNone
<1>c. ASSUME NEW c, Returned(c) PROVE Serves(pending)
  <2>1. CASE DetachIgnored(c)
    BY <2>1 DEF DetachIgnored, poolVars, Serves, ServesNone
  <2>2. CASE DetachBroken(c) \/ DetachExpired(c)
    BY <1>a, <2>2, CheckServes DEF DetachBroken, DetachExpired
  <2>3. CASE DetachToIdle(c)
    <3>1. c \in Req
      BY <2>3, ListsInReq DEF DetachToIdle, Listed
    <3>2. Append(pooldb, c) \in Seq(Req)
      BY <1>a, <3>1, AppendElements
    <3> QED BY <1>a, <2>3, <3>2, CheckServes DEF DetachToIdle
  <2> QED BY <1>c, <2>1, <2>2, <2>3 DEF Returned
<1>0. CASE UNCHANGED vars
  BY <1>0, <1>b DEF vars, poolVars, callVars, connVars, destroyVars
<1>1. ASSUME NEW r \in Req, Get(r) PROVE Asks(r)
  <2>1. /\ r \notin asked /\ asked' = asked \cup {r}
        /\ released' = released /\ destroyed' = destroyed
    BY <1>1 DEF Get, destroyVars
  <2>2. CASE GetRefused(r)
    BY <2>1, <2>2 DEF GetRefused, Answer, poolVars, Asks
  <2>3. CASE Check(Append(pending, r), pooldb, internaldb, dbinuse, checks)
    <3>1. r \notin ToSet(pending)
      BY <2>1 DEF HolderInv, Facts, OneAttach
    <3>2. Append(pending, r) \in Seq(Req) /\ IsInjective(Append(pending, r))
      BY <1>a, <3>1, AppendElements
    <3>3. Serves(Append(pending, r))
      BY <1>a, <2>3, <3>2, CheckServes
    <3> QED BY <2>1, <3>3 DEF Asks
  <2> QED BY <1>1, <2>2, <2>3 DEF Get
<1>2. ASSUME NEW r \in Req, GivesBack(r) PROVE GoesOn
  <2>1. Serves(pending) /\ destroyed' = destroyed
    BY <1>2, <1>c, GivesBackReturns
  <2>2. asked' = asked
    BY <1>2 DEF GivesBack, Detach, DetachAgain, DetachReply
  <2>3. released' = released \/ Ends(r)
    BY <1>2 DEF GivesBack, Detach, DetachAgain, DetachReply, Ends
  <2> QED BY <2>1, <2>2, <2>3 DEF GoesOn
<1>3. ASSUME NEW r \in Req,
             \/ AttachOk(r) \/ AttachTimeout(r) \/ AttachAfterDestroy(r)
             \/ AttachFail(r) /\ attach[r] # "late"
      PROVE  Settles(r)
  <2>1. /\ attach[r] = "flight"
        /\ answers' = [answers EXCEPT ![r] = @ + 1]
        /\ got' = got \/ (~destroyed /\ got' = [got EXCEPT ![r] = r])
    BY <1>3 DEF AttachOk, Wanted, AttachTimeout, AttachAfterDestroy, AttachFail,
                Answer
  <2>2. \E to \in AttachState \ {"flight"} : attach' = [attach EXCEPT ![r] = to]
    BY <1>3 DEF AttachOk, AttachTimeout, GiveUpOn, AttachAfterDestroy, AttachFail,
                AttachState
  <2>3. UNCHANGED <<pending, asked, released, destroyed>>
    BY <1>3 DEF AttachOk, AttachTimeout, AttachAfterDestroy, AttachFail, destroyVars
  <2> QED BY <2>1, <2>2, <2>3 DEF Settles
<1>4. ASSUME NEW r \in Req, AttachLate(r) \/ (AttachFail(r) /\ attach[r] = "late")
      PROVE  GoesOn
  <2>1. /\ attach' = [attach EXCEPT ![r] = "ended"]
        /\ UNCHANGED <<got, answers, pending, asked, released, destroyed>>
    BY <1>4 DEF AttachLate, AttachFail, poolVars, callVars, destroyVars
  <2>2. \A q \in Req : attach'[q] = "flight" => attach[q] = "flight"
    BY <2>1 DEF TypeOK
  <2> QED BY <1>b, <2>1, <2>2
<1>5. ASSUME NEW r \in Req, AttachCallbackAgain(r) PROVE FALSE
  BY <1>5 DEF AttachCallbackAgain
<1>6. ASSUME NEW r \in Req, ConnLost(r) \/ Age(r) \/ GoStale(r) PROVE GoesOn
  BY <1>6, <1>b DEF ConnLost, Age, GoStale, poolVars, callVars, destroyVars
<1>7. ASSUME RunCheck PROVE GoesOn
  <2>1. /\ Check(pending, pooldb, internaldb, dbinuse, checks - 1)
        /\ UNCHANGED <<asked, released, destroyed>>
    BY <1>7 DEF RunCheck, destroyVars
  <2>2. Serves(pending)
    BY <1>a, <2>1, CheckServes
  <2> QED BY <2>1, <2>2 DEF GoesOn
<1>8. ASSUME Reap PROVE GoesOn
  BY <1>8, <1>b DEF Reap, callVars, destroyVars
<1>9. ASSUME NEW d \in Destroyers, Destroy(d) PROVE Closes
  BY <1>9, Zenon DEF Destroy, Closes
<1> QED
  BY <1>0, <1>1, <1>2, <1>3, <1>4, <1>5, <1>6, <1>7, <1>8, <1>9
  DEF Next, GivesBack

(* Every kind of step keeps requests fresh until they are served.          *)
LEMMA StepFresh ==
    ASSUME TypeOK, HolderInv, FreshInv, "repeated_callback" \notin Faults,
           [Next]_vars
    PROVE  FreshInv'
<1>a. /\ pending \in Seq(Req)
      /\ \A r \in ToSet(pending) : attach[r] = "none"
      /\ ToSet(pending) \subseteq asked
  BY ListsApart DEF TypeOK, HolderInv, Facts, OneAttach
<1>b. Fresh(pending, attach, got, answers, asked, released)
  BY DEF FreshInv
<1>1. ASSUME GoesOn PROVE FreshInv'
  <2>1. \A r \in Req : r \in released' => got[r] # NoConn
    BY <1>b, <1>1 DEF GoesOn, Ends, Fresh
  <2>2. Fresh(pending, attach, got, answers, asked', released')
    BY <1>b, <1>1, <2>1 DEF GoesOn, Fresh
  <2>3. ToSet(pending) \subseteq asked' /\ Serves(pending)
    BY <1>a, <1>1 DEF GoesOn
  <2>4. Fresh(pending', attach', got', answers', asked', released')
    BY <1>a, <2>2, <2>3, ServesFresh
  <2> QED BY <2>4 DEF FreshInv
<1>2. ASSUME NEW r \in Req, Asks(r) PROVE FreshInv'
  <2>1. r \notin asked /\ asked' = asked \cup {r} /\ released' = released
    BY <1>2 DEF Asks
  <2>2. got[r] = NoConn /\ answers[r] = 0 /\ attach[r] = "none" /\ r \notin ToSet(pending)
    BY <1>a, <1>b, <2>1, ListsApart DEF Fresh
  <2>3. CASE Serves(Append(pending, r))
    <3>1. /\ Append(pending, r) \in Seq(Req)
          /\ ToSet(Append(pending, r)) = ToSet(pending) \cup {r}
      BY <1>a, AppendElements
    <3>2. Fresh(Append(pending, r), attach, got, answers, asked', released')
      BY <1>b, <2>1, <2>2, <3>1 DEF Fresh
    <3>3. /\ ToSet(Append(pending, r)) \subseteq asked'
          /\ \A q \in ToSet(Append(pending, r)) : attach[q] = "none"
      BY <1>a, <2>1, <2>2, <3>1
    <3>4. Fresh(pending', attach', got', answers', asked', released')
      BY <2>3, <3>1, <3>2, <3>3, ServesFresh
    <3> QED BY <3>4 DEF FreshInv
  <2>4. CASE /\ answers' = [answers EXCEPT ![r] = @ + 1]
             /\ UNCHANGED <<pending, attach, got>>
    <3>1. \A q \in Req : answers'[q] = IF q = r THEN 1 ELSE answers[q]
      BY <2>2, <2>4 DEF TypeOK
    <3> QED BY <1>b, <2>1, <2>2, <2>4, <3>1 DEF FreshInv, Fresh, Once
  <2> QED BY <1>2, <2>3, <2>4 DEF Asks
<1>3. ASSUME NEW r \in Req, Settles(r) PROVE FreshInv'
  <2>1. /\ attach[r] = "flight" /\ UNCHANGED <<pending, asked, released>>
        /\ answers' = [answers EXCEPT ![r] = @ + 1]
        /\ got' = got \/ got' = [got EXCEPT ![r] = r]
    BY <1>3 DEF Settles
  <2>2. PICK to \in AttachState \ {"flight"} : attach' = [attach EXCEPT ![r] = to]
    BY <1>3 DEF Settles
  <2>3. got[r] = NoConn /\ answers[r] = 0 /\ r \notin ToSet(pending) /\ r \in asked
    BY <1>a, <1>b, <2>1, ListsApart DEF Fresh
  <2>4. /\ \A q \in Req : q # r => /\ answers'[q] = answers[q] /\ got'[q] = got[q]
                                   /\ attach'[q] = attach[q]
        /\ answers'[r] = 1 /\ attach'[r] # "flight"
    BY <2>1, <2>2, <2>3 DEF TypeOK
  <2>5. r \notin released
    BY <1>b, <2>3 DEF Fresh
  <2> QED BY <1>b, <2>1, <2>3, <2>4, <2>5 DEF FreshInv, Fresh, Once
<1>4. ASSUME Closes PROVE FreshInv'
  <2>1. /\ ToSet(pending') = {} /\ UNCHANGED <<attach, got, asked, released>>
        /\ \A q \in Req : answers'[q] = IF q \in ToSet(pending) THEN answers[q] + 1
                                        ELSE answers[q]
    BY <1>4 DEF Closes, ToSet
  <2>2. \A q \in ToSet(pending) : q \in Req /\ answers[q] = 0
    BY <1>b, ListsInReq DEF Fresh
  <2>3. \A q \in Req : q \notin asked' \/ attach'[q] = "flight" => answers'[q] = 0
    BY <1>a, <1>b, <2>1 DEF Fresh
  <2>4. Once(answers')
    BY <1>b, <2>1, <2>2 DEF Fresh, Once
  <2> QED BY <1>b, <2>1, <2>3, <2>4 DEF FreshInv, Fresh
<1> QED BY <1>1, <1>2, <1>3, <1>4, StepKinds

-----------------------------------------------------------------------------
LeaseTypes == Req \cup {"new", "waiting", "refused", "released"}

LeaseInv == TypeOK /\ HolderInv /\ BoundsInv /\ FreshInv

(* What the invariants say of the leases in one state.                     *)
LeasesGood ==
    /\ leaseOf \in [Req -> LeaseTypes]
    /\ \A r \in Req : leaseOf[r] \in Req => r \in HoldersOf(got, released)
    /\ Leases!Exclusive(leaseOf)
    /\ Cardinality(Leases!Held(leaseOf)) <= MaxSize

(* Leases are exclusive and within the bound: a lease is a connection on   *)
(* the books, and the books have no more than max.                         *)
LEMMA GoodLeases == LeaseInv => LeasesGood
<1> SUFFICES ASSUME LeaseInv PROVE LeasesGood
  OBVIOUS
<1> DEFINE H == Leases!Held(leaseOf)
           f == [r \in H |-> got[r]]
<1>1. leaseOf \in [Req -> LeaseTypes]
  BY DEF leaseOf, LeaseTypes, LeaseInv, TypeOK
<1>2. \A r \in Req : leaseOf[r] \in Req
        => r \in HoldersOf(got, released) /\ leaseOf[r] = got[r]
  BY LeaseAssumption DEF leaseOf, HoldersOf
<1>3. \A r \in H : r \in Req /\ r \in HoldersOf(got, released) /\ leaseOf[r] = got[r]
  BY <1>2 DEF Leases!Held
<1> HIDE DEF H
<1>4. /\ \A r \in HoldersOf(got, released) : got[r] \in ToSet(internaldb)
      /\ \A r1, r2 \in HoldersOf(got, released) : got[r1] = got[r2] => r1 = r2
  BY DEF LeaseInv, HolderInv, Facts, HeldApart
<1>5. Leases!Exclusive(leaseOf)
  BY <1>3, <1>4 DEF Leases!Exclusive, H
<1>6. f \in Injection(H, ToSet(internaldb))
  BY <1>3, <1>4 DEF Injection, IsInjective
<1>7. /\ IsFiniteSet(ToSet(internaldb))
      /\ Cardinality(ToSet(internaldb)) = Len(internaldb)
  BY InjectiveLength DEF LeaseInv, TypeOK, HolderInv, Facts, Unique
<1>8. IsFiniteSet(H) /\ Cardinality(H) <= Len(internaldb)
  BY <1>6, <1>7, FS_Injection
<1>9. Len(internaldb) + Cardinality(Flying(attach)) <= MaxSize
  BY DEF LeaseInv, BoundsInv, FreshInv, Fresh, Counted
<1>10. /\ Cardinality(H) \in Nat /\ Cardinality(Flying(attach)) \in Nat
       /\ Len(internaldb) \in Nat /\ MaxSize \in Nat
  BY <1>8, FlyingFinite, FS_CardinalityType, LenProperties, PoolAssumption
  DEF LeaseInv, TypeOK
<1>11. Cardinality(H) <= MaxSize
  BY <1>8, <1>9, <1>10
<1> QED BY <1>1, <1>2, <1>5, <1>11 DEF LeasesGood, H

(* So they are after a step.                                               *)
LEMMA GoodLeasesNext == LeaseInv' => LeasesGood'
  BY GoodLeases, PTL

(* What the variables say of one lease.                                    *)
LEMMA LeaseStates ==
    ASSUME LeaseInv, NEW r \in Req
    PROVE  /\ leaseOf[r] = "new" <=> r \notin asked
           /\ leaseOf[r] = "released" <=> r \in released
           /\ r \in released \/ got[r] # NoConn => r \in asked
           /\ r \in HoldersOf(got, released) => leaseOf[r] = got[r] /\ got[r] \in Req
           /\ r \in asked /\ got[r] = NoConn /\ answers[r] = 0 => leaseOf[r] = "waiting"
<1>1. got[r] \in Req \cup {NoConn}
  BY DEF LeaseInv, TypeOK
<1>2. r \notin asked => got[r] = NoConn
  BY DEF LeaseInv, FreshInv, Fresh
<1>3. r \in released => got[r] # NoConn
  BY DEF LeaseInv, FreshInv, Fresh
<1> QED BY <1>1, <1>2, <1>3, LeaseAssumption DEF leaseOf, HoldersOf

(* A lease that none of its variables changed for is the same lease.       *)
LEMMA LeaseKept ==
    ASSUME NEW r \in Req,
           r \in asked' <=> r \in asked, r \in released' <=> r \in released,
           got'[r] = got[r], answers'[r] = answers[r]
    PROVE  leaseOf'[r] = leaseOf[r]
  BY DEF leaseOf

(* What a lease is after a step.                                           *)
LEMMA LeaseAfter ==
    ASSUME NEW r \in Req, r \in asked'
    PROVE  /\ r \in released' => leaseOf'[r] = "released"
           /\ r \notin released' /\ got'[r] # NoConn => leaseOf'[r] = got'[r]
           /\ r \notin released' /\ got'[r] = NoConn
                => leaseOf'[r] = IF answers'[r] > 0 THEN "refused" ELSE "waiting"
  BY DEF leaseOf

(* What serving does to each request.                                      *)
LEMMA ServesEach ==
    ASSUME TypeOK, NEW pend, Serves(pend)
    PROVE  \/ got' = got /\ answers' = answers
           \/ \E q \in Req :
                 /\ ~destroyed /\ q \in ToSet(pend) /\ got'[q] \in Req
                 /\ \A r \in Req \ {q} : got'[r] = got[r] /\ answers'[r] = answers[r]
<1>1. CASE ServesNone(pend)
  BY <1>1 DEF ServesNone
<1>2. ASSUME NEW q \in Req, ServesOne(pend, q)
      PROVE  /\ ~destroyed /\ q \in ToSet(pend) /\ got'[q] \in Req
             /\ \A r \in Req \ {q} : got'[r] = got[r] /\ answers'[r] = answers[r]
  <2>1. PICK c \in Req : got' = [got EXCEPT ![q] = c]
    BY <1>2 DEF ServesOne
  <2>2. ~destroyed /\ q \in ToSet(pend)
    BY <1>2, Zenon DEF ServesOne
  <2>3. answers' = [answers EXCEPT ![q] = @ + 1]
    BY <1>2 DEF ServesOne
  <2>4. /\ got'[q] = c
        /\ \A r \in Req \ {q} : got'[r] = got[r] /\ answers'[r] = answers[r]
    BY <2>1, <2>3 DEF TypeOK
  <2> QED BY <2>1, <2>2, <2>4
<1> QED BY <1>1, <1>2 DEF Serves

(* Module Lease counts as this one does.                                   *)
LEMMA SameCardinality == \A S : Leases!Cardinality(S) = Cardinality(S)
  BY DEF Leases!Cardinality, Cardinality

(* A step that moves each lease on, and gives one at most, is a step of    *)
(* the abstract pool.                                                      *)
LEMMA MoveByEach ==
    ASSUME LeasesGood, LeasesGood', destroyed' = destroyed,
           \A r \in Req : Leases!Succeeds(leaseOf[r], leaseOf'[r]),
           NEW q,
           \A r \in Req : leaseOf'[r] \in Req => leaseOf[r] \in Req \/ r = q
    PROVE  Leases!Next
<1> DEFINE gained == Leases!Held(leaseOf') \ Leases!Held(leaseOf)
<1>1. gained \in SUBSET {q}
  BY DEF Leases!Held
<1>2. IsFiniteSet({q}) /\ Cardinality({q}) = 1
  BY FS_Singleton
<1>3. Cardinality(gained) <= 1
  BY <1>1, <1>2, FS_Subset
<1>4. /\ leaseOf' \in [Req -> Req \cup {"new", "waiting", "refused", "released"}]
      /\ Leases!Exclusive(leaseOf')
      /\ Cardinality(Leases!Held(leaseOf')) <= MaxSize
  BY DEF LeasesGood, LeaseTypes
<1>5. Leases!Move
  BY <1>3, <1>4, SameCardinality DEF Leases!Move
<1> QED BY <1>5 DEF Leases!Next

(* While the pool goes on serving.                                         *)
LEMMA GoesOnMoves ==
    ASSUME LeaseInv, LeasesGood, LeasesGood', GoesOn
    PROVE  Leases!Next
<1> DEFINE S(r) == Leases!Succeeds(leaseOf[r], leaseOf'[r])
<1>1. asked' = asked /\ destroyed' = destroyed /\ Serves(pending)
  BY DEF GoesOn
<1>2. ASSUME NEW r \in Req, got'[r] = got[r], answers'[r] = answers[r]
      PROVE  S(r) /\ (leaseOf'[r] \in Req => leaseOf[r] \in Req)
  <2>1. CASE r \in released' <=> r \in released
    BY <1>1, <1>2, <2>1, LeaseKept DEF Leases!Succeeds
  <2>2. CASE ~(r \in released' <=> r \in released)
    <3>1. r \notin released /\ got[r] # NoConn /\ r \in released'
      BY <2>2 DEF GoesOn, Ends
    <3>2. r \in asked' /\ leaseOf[r] \in Req
      BY <1>1, <3>1, LeaseStates DEF HoldersOf
    <3>3. leaseOf'[r] = "released"
      BY <3>1, <3>2, LeaseAfter
    <3> QED BY <3>2, <3>3, LeaseAssumption DEF Leases!Succeeds
  <2> QED BY <2>1, <2>2
<1>3. CASE got' = got /\ answers' = answers
  <2>1. \A r \in Req : S(r) /\ (leaseOf'[r] \in Req => leaseOf[r] \in Req)
    BY <1>2, <1>3
  <2> QED BY <1>1, <2>1, MoveByEach
<1>4. ASSUME NEW q \in Req, ~destroyed, q \in ToSet(pending), got'[q] \in Req,
             \A r \in Req \ {q} : got'[r] = got[r] /\ answers'[r] = answers[r]
      PROVE  Leases!Next
  <2>1. got[q] = NoConn /\ answers[q] = 0 /\ q \notin released /\ q \in asked
    BY <1>4 DEF LeaseInv, FreshInv, Fresh, HolderInv, Facts, OneAttach
  <2>2. leaseOf[q] = "waiting"
    BY <2>1, LeaseStates
  <2>3. q \notin released'
    BY <2>1 DEF GoesOn, Ends
  <2>4. leaseOf'[q] = got'[q]
    BY <1>1, <1>4, <2>1, <2>3, LeaseAfter, PoolAssumption
  <2>5. S(q)
    BY <1>4, <2>2, <2>4 DEF Leases!Succeeds
  <2>6. \A r \in Req : S(r)
    BY <1>2, <1>4, <2>5
  <2>7. \A r \in Req : leaseOf'[r] \in Req => leaseOf[r] \in Req \/ r = q
    BY <1>2, <1>4
  <2> QED BY <1>1, <2>6, <2>7, MoveByEach
<1> QED BY <1>1, <1>3, <1>4, ServesEach DEF LeaseInv

(* When a request is made.                                                 *)
LEMMA AsksMoves ==
    ASSUME LeaseInv, LeasesGood, LeasesGood', NEW r \in Req, Asks(r)
    PROVE  Leases!Next
<1> DEFINE S(x) == Leases!Succeeds(leaseOf[x], leaseOf'[x])
<1>1. /\ r \notin asked /\ asked' = asked \cup {r}
      /\ released' = released /\ destroyed' = destroyed
  BY DEF Asks
<1>2. /\ leaseOf[r] = "new" /\ r \notin released' /\ got[r] = NoConn
      /\ answers[r] = 0
  BY <1>1, LeaseStates DEF LeaseInv, FreshInv, Fresh
<1>3. ASSUME NEW x \in Req, x # r, got'[x] = got[x], answers'[x] = answers[x]
      PROVE  S(x) /\ (leaseOf'[x] \in Req => leaseOf[x] \in Req)
  BY <1>1, <1>3, LeaseKept DEF Leases!Succeeds
<1>4. ASSUME got'[r] = NoConn PROVE S(r) /\ leaseOf'[r] \notin Req
  <2>1. leaseOf'[r] \in {"waiting", "refused"}
    BY <1>1, <1>2, <1>4, LeaseAfter
  <2> QED BY <1>2, <2>1, LeaseAssumption DEF Leases!Succeeds
<1>5. CASE \A x \in Req : got'[x] = got[x] /\ (x # r => answers'[x] = answers[x])
  <2>1. \A x \in Req : S(x)
    BY <1>2, <1>3, <1>4, <1>5
  <2>2. \A x \in Req : leaseOf'[x] \in Req => leaseOf[x] \in Req
    BY <1>2, <1>3, <1>4, <1>5
  <2> QED BY <1>1, <2>1, <2>2, MoveByEach
<1>6. ASSUME NEW q \in Req, ~destroyed, q \in ToSet(Append(pending, r)),
             got'[q] \in Req,
             \A x \in Req \ {q} : got'[x] = got[x] /\ answers'[x] = answers[x]
      PROVE  Leases!Next
  <2>1. q = r \/ q \in ToSet(pending)
    BY <1>6, AppendElements DEF LeaseInv, TypeOK
  <2>2. /\ q \in asked' /\ q \notin released' /\ got[q] = NoConn
        /\ leaseOf[q] \in {"new", "waiting"}
    <3>1. CASE q = r
      BY <1>1, <1>2, <3>1
    <3>2. CASE q \in ToSet(pending)
      <4>1. got[q] = NoConn /\ answers[q] = 0 /\ q \notin released /\ q \in asked
        BY <3>2 DEF LeaseInv, FreshInv, Fresh, HolderInv, Facts, OneAttach
      <4> QED BY <1>1, <4>1, LeaseStates
    <3> QED BY <2>1, <3>1, <3>2
  <2>3. leaseOf'[q] = got'[q]
    BY <1>6, <2>2, LeaseAfter, PoolAssumption
  <2>4. S(q)
    BY <1>6, <2>2, <2>3 DEF Leases!Succeeds
  <2>5. \A x \in Req : S(x)
    BY <1>2, <1>3, <1>4, <1>6, <2>4
  <2>6. \A x \in Req : leaseOf'[x] \in Req => leaseOf[x] \in Req \/ x = q
    BY <1>2, <1>3, <1>4, <1>6
  <2> QED BY <1>1, <2>5, <2>6, MoveByEach
<1>7. CASE /\ answers' = [answers EXCEPT ![r] = @ + 1]
           /\ UNCHANGED <<pending, attach, got>>
  <2>1. \A x \in Req : got'[x] = got[x] /\ (x # r => answers'[x] = answers[x])
    BY <1>7 DEF LeaseInv, TypeOK
  <2> QED BY <1>5, <2>1
<1>8. CASE Serves(Append(pending, r))
  BY <1>5, <1>6, <1>8, ServesEach DEF LeaseInv
<1> QED BY <1>7, <1>8 DEF Asks

(* When an attach() settles its request.                                   *)
LEMMA SettlesMoves ==
    ASSUME LeaseInv, LeasesGood, LeasesGood', NEW r \in Req, Settles(r)
    PROVE  Leases!Next
<1> DEFINE S(x) == Leases!Succeeds(leaseOf[x], leaseOf'[x])
<1>1. /\ attach[r] = "flight" /\ UNCHANGED <<asked, released, destroyed>>
      /\ answers' = [answers EXCEPT ![r] = @ + 1]
      /\ got' = got \/ (~destroyed /\ got' = [got EXCEPT ![r] = r])
  BY DEF Settles
<1>2. got[r] = NoConn /\ answers[r] = 0 /\ r \notin released /\ r \in asked
  BY <1>1, ListsApart DEF LeaseInv, FreshInv, Fresh
<1>3. leaseOf[r] = "waiting"
  BY <1>2, LeaseStates
<1>4. /\ \A x \in Req : x # r => answers'[x] = answers[x] /\ got'[x] = got[x]
      /\ answers'[r] = 1
      /\ got'[r] = NoConn \/ (~destroyed /\ got'[r] = r)
  BY <1>1, <1>2 DEF LeaseInv, TypeOK
<1>5. \/ leaseOf'[r] = "refused"
      \/ ~destroyed /\ leaseOf'[r] = r
  BY <1>1, <1>2, <1>4, LeaseAfter, PoolAssumption
<1>6. S(r)
  BY <1>3, <1>5 DEF Leases!Succeeds
<1>7. \A x \in Req : x # r => leaseOf'[x] = leaseOf[x]
  BY <1>1, <1>4, LeaseKept
<1>8. \A x \in Req : S(x)
  BY <1>6, <1>7 DEF Leases!Succeeds
<1>9. \A x \in Req : leaseOf'[x] \in Req => leaseOf[x] \in Req \/ x = r
  BY <1>7
<1> QED BY <1>1, <1>8, <1>9, MoveByEach

(* When the pool is closed.                                                *)
LEMMA ClosesMoves ==
    ASSUME LeaseInv, Closes
    PROVE  Leases!Next
<1> DEFINE R == ToSet(pending)
<1>1. /\ UNCHANGED <<got, asked, released>>
      /\ \A r \in Req : answers'[r] = IF r \in R THEN answers[r] + 1 ELSE answers[r]
  BY DEF Closes
<1>2. \A r \in R : /\ r \in Req /\ got[r] = NoConn /\ answers[r] = 0
                   /\ r \notin released /\ r \in asked
  BY ListsInReq DEF LeaseInv, FreshInv, Fresh, HolderInv, Facts, OneAttach
<1>3. \A r \in R : leaseOf[r] = "waiting"
  BY <1>2, LeaseStates
<1>4. R \in SUBSET {r \in Req : leaseOf[r] = "waiting"}
  BY <1>2, <1>3
<1>5. \A r \in Req : leaseOf'[r] = IF r \in R THEN "refused" ELSE leaseOf[r]
  <2>1. ASSUME NEW r \in R PROVE leaseOf'[r] = "refused"
    BY <1>1, <1>2, LeaseAfter
  <2>2. ASSUME NEW r \in Req, r \notin R PROVE leaseOf'[r] = leaseOf[r]
    BY <1>1, <2>2, LeaseKept
  <2> QED BY <2>1, <2>2
<1>6. leaseOf' = [r \in Req |-> IF r \in R THEN "refused" ELSE leaseOf[r]]
  <2>1. leaseOf' = [r \in Req |-> leaseOf'[r]]
    BY DEF leaseOf
  <2> HIDE DEF R
  <2> QED BY <1>5, <2>1
<1>7. destroyed' = TRUE
  BY DEF Closes
<1>8. Leases!Close
  BY <1>4, <1>6, <1>7, Zenon DEF Leases!Close
<1> QED BY <1>8 DEF Leases!Next

(* The invariants together are inductive.                                  *)
LEMMA LeaseInvariant ==
    ASSUME "repeated_callback" \notin Faults
    PROVE  Spec => []LeaseInv
<1>1. Init => FreshInv
  <2> SUFFICES ASSUME Init PROVE FreshInv
    OBVIOUS
  <2>1. /\ pending = <<>> /\ asked = {} /\ released = {}
        /\ got = [r \in Req |-> NoConn] /\ answers = [r \in Req |-> 0]
    BY DEF Init
  <2> QED BY <2>1 DEF FreshInv, Fresh, Once
<1>2. LeaseInv /\ [Next]_vars => FreshInv'
  BY StepFresh DEF LeaseInv
<1>3. Init => LeaseInv
  BY <1>1, InitTypeOK, InitHolderInv, InitBoundsInv DEF LeaseInv
<1>4. LeaseInv /\ [Next]_vars => LeaseInv'
  BY <1>2, StepTypeOK, StepHolderInv, StepBoundsInv DEF LeaseInv
<1> QED BY <1>3, <1>4, PTL DEF Spec

(* The pool keeps what module Lease promises its callers (pool.ts:106-320),*)
(* whatever else fails, as long as attach() answers once: with a repeated  *)
(* callback it may lend more than max (see WithinBounds).                  *)
THEOREM PoolImplementsLease ==
    ASSUME "repeated_callback" \notin Faults
    PROVE  Spec => LeaseSpec
<1>1. Init => Leases!Init
  BY DEF Init, Leases!Init, leaseOf
<1>2. LeaseInv /\ LeaseInv' /\ [Next]_vars => [Leases!Next]_<<leaseOf, destroyed>>
  <2> SUFFICES ASSUME LeaseInv, LeaseInv', [Next]_vars PROVE Leases!Next
    OBVIOUS
  <2>1. LeasesGood /\ LeasesGood'
    BY GoodLeases, GoodLeasesNext
  <2>2. GoesOn \/ (\E r \in Req : Asks(r) \/ Settles(r)) \/ Closes
    BY StepKinds DEF LeaseInv
  <2> QED BY <2>1, <2>2, GoesOnMoves, AsksMoves, SettlesMoves, ClosesMoves
<1> QED BY <1>1, <1>2, LeaseInvariant, PTL DEF Spec, LeaseSpec, Leases!Spec
=============================================================================
