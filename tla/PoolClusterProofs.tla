------------------------- MODULE PoolClusterProofs -------------------------
(***************************************************************************)
(* Theorems about the cluster, for any nodes, calls, patterns, selectors   *)
(* and settings.                                                           *)
(*  - destroy() calls back once: its counter is the number of pools that   *)
(*    it has not heard from (Closes).                                      *)
(*  - A call fails only when it has tried every node that was there all    *)
(*    the time (Seeks): what a call has not tried and could, is in its     *)
(*    candidates.                                                          *)
(*  - Rotation is even (Spread): since the candidates changed, the first   *)
(*    picks have gone round them a number of times, and once more from     *)
(*    where the counter stood to where it stands.                          *)
(***************************************************************************)
EXTENDS PoolCluster, SeqRemovalProofs

Closure == [phase : {"new", "trying", "served", "failed"},
            pattern : SUBSET Name, selector : {"rr", "random", "order"},
            tried : SUBSET Name, node : Node \cup {<<>>}]

(* What destroy() counts, and when it has called back.                     *)
Closes(r, c, a) ==
    \A d \in Destroyers :
        /\ IsFiniteSet(c[d]) /\ r[d] = Cardinality(c[d])
        /\ a[d] = 0 <=> c[d] # {}

(* What a call in flight knows, and what it has to try.                    *)
Seeks(calls, there) ==
    \A g \in Get :
        /\ calls[g].phase = "new" => there[g] = {}
        /\ calls[g].phase = "trying" =>
              /\ calls[g].pattern \in Patterns
              /\ calls[g].node \in Node /\ calls[g].tried # {}
              /\ \A n \in there[g] : n[1] \in calls[g].pattern

(* Position i is on the way from z to t, round a circle.                   *)
Passed(z, t, i) == IF z <= t THEN z <= i /\ i < t ELSE z <= i \/ i < t

(* The picks f of the candidates c, when the counter stands at r.          *)
Spread(c, r, f) ==
    c # <<>> =>
        \E z \in 0..(Len(c) - 1), q \in Nat : \A i \in 1..Len(c) :
            f[c[i]] = IF Passed(z, r % Len(c), i - 1) THEN q + 1 ELSE q

Spreads(l, up, r, f) ==
    \A p \in Patterns : Spread(Without(l, Unfit(up, p, {})), r[p], f[p])

ClusterInv ==
    /\ TypeOK /\ IsInjective(nodes)
    /\ Closes(remaining, closing, replies)
    /\ Seeks(call, steady)
    /\ Spreads(nodes, online, rrIndex, firsts)

-----------------------------------------------------------------------------
(* The candidates are nodes that fit, once each.                           *)
LEMMA CandidatesFit ==
    ASSUME NEW l \in Seq(Node), NEW up, NEW p, NEW tried
    PROVE  LET c == Without(l, Unfit(up, p, tried))
           IN  /\ c \in Seq(Node)
               /\ ToSet(c) = {n \in ToSet(l) : n[1] \in p /\ up[n] /\ n[1] \notin tried}
               /\ IsInjective(l) => IsInjective(c)
               /\ c = <<>> <=> ToSet(c) = {}
<1> DEFINE c == Without(l, Unfit(up, p, tried))
<1>1. c \in Seq(Node) /\ ToSet(c) = ToSet(l) \ Unfit(up, p, tried)
      /\ (IsInjective(l) => IsInjective(c))
  BY WithoutProperties
<1>2. \A n \in ToSet(l) : n \in Node
  BY DEF ToSet
<1>3. ToSet(c) = {n \in ToSet(l) : n[1] \in p /\ up[n] /\ n[1] \notin tried}
  BY <1>1, <1>2 DEF Unfit
<1>4. c = <<>> <=> ToSet(c) = {}
  <2>1. DOMAIN c = 1..Len(c) /\ Len(c) \in Nat /\ (c = <<>> <=> Len(c) = 0)
    BY <1>1, LenProperties, EmptySeq
  <2> HIDE DEF c
  <2>2. CASE c = <<>>
    BY <2>1, <2>2 DEF ToSet
  <2>3. CASE c # <<>>
    <3>1. c[1] \in ToSet(c)
      BY <2>1, <2>3 DEF ToSet
    <3> QED BY <2>3, <3>1
  <2> QED BY <2>2, <2>3
<1> QED BY <1>1, <1>3, <1>4

(* A counter modulo a length, one on.                                      *)
LEMMA ModuloNext ==
    ASSUME NEW r \in Nat, NEW n \in Nat \ {0}
    PROVE  /\ r % n \in 0..(n - 1)
           /\ (r + 1) % n = IF (r % n) + 1 = n THEN 0 ELSE (r % n) + 1
<1> DEFINE x == r % n
           y == (r + 1) % n
           a == r \div n
           b == (r + 1) \div n
           w == IF x + 1 = n THEN 0 ELSE x + 1
           d == IF x + 1 = n THEN a + 1 ELSE a
<1>1. /\ x \in 0..(n - 1) /\ y \in 0..(n - 1) /\ a \in Int /\ b \in Int
      /\ r = n * a + x /\ r + 1 = n * b + y
  OBVIOUS
<1> HIDE DEF x, y, a, b
<1>2. w \in 0..(n - 1) /\ d \in Int
  BY <1>1
<1>3. n * (a + 1) = n * a + n
  BY <1>1
<1>4. r + 1 = n * d + w
  BY <1>1, <1>3
<1> HIDE DEF w, d
<1>5. n * b + y = n * d + w
  BY <1>1, <1>4
<1>6. ASSUME b < d
      PROVE  FALSE
  <2>1. n * (d - b) >= n /\ n * (d - b) = n * d - n * b
    BY <1>1, <1>2, <1>6
  <2>2. n * d \in Int /\ n * b \in Int
    BY <1>1, <1>2
  <2> QED BY <1>1, <1>2, <1>5, <2>1, <2>2
<1>7. ASSUME d < b
      PROVE  FALSE
  <2>1. n * (b - d) >= n /\ n * (b - d) = n * b - n * d
    BY <1>1, <1>2, <1>7
  <2>2. n * d \in Int /\ n * b \in Int
    BY <1>1, <1>2
  <2> QED BY <1>1, <1>2, <1>5, <2>1, <2>2
<1>8. b = d
  BY <1>1, <1>2, <1>6, <1>7
<1>9. y = w
  BY <1>1, <1>2, <1>5, <1>8
<1> QED BY <1>1, <1>9 DEF x, y, w

(* Each element of a list is at a position, and at no other.               *)
LEMMA Position ==
    ASSUME NEW c \in Seq(Node)
    PROVE  /\ DOMAIN c = 1..Len(c) /\ Len(c) \in Nat
           /\ \A i \in 1..Len(c) : c[i] \in Node /\ c[i] \in ToSet(c)
           /\ \A n \in ToSet(c) : \E i \in 1..Len(c) : c[i] = n
           /\ IsInjective(c) => \A i, j \in 1..Len(c) : c[i] = c[j] => i = j
<1>1. DOMAIN c = 1..Len(c) /\ Len(c) \in Nat
  BY LenProperties
<1>2. \A i \in 1..Len(c) : c[i] \in Node
  OBVIOUS
<1> QED BY <1>1, <1>2 DEF ToSet, IsInjective

(* The counts of an even rotation differ by one at most.                   *)
LEMMA SpreadIsEven ==
    ASSUME NEW c \in Seq(Node), NEW r, NEW f, Spread(c, r, f)
    PROVE  \A n, m \in ToSet(c) : f[n] <= f[m] + 1
<1> SUFFICES ASSUME NEW n \in ToSet(c), NEW m \in ToSet(c)
             PROVE  f[n] <= f[m] + 1
  OBVIOUS
<1>1. PICK i \in 1..Len(c), j \in 1..Len(c) : c[i] = n /\ c[j] = m
  BY Position
<1>2. c # <<>>
  BY <1>1
<1>3. PICK z \in 0..(Len(c) - 1), q \in Nat : \A k \in 1..Len(c) :
         f[c[k]] = IF Passed(z, r % Len(c), k - 1) THEN q + 1 ELSE q
  BY <1>2 DEF Spread
<1>4. f[n] \in {q, q + 1} /\ f[m] \in {q, q + 1}
  BY <1>1, <1>3
<1> QED BY <1>4

(* Nobody was picked yet.                                                  *)
LEMMA SpreadStarts ==
    ASSUME NEW c \in Seq(Node), NEW r \in Nat
    PROVE  Spread(c, r, [n \in Node |-> 0])
<1> SUFFICES ASSUME c # <<>>
             PROVE  \E z \in 0..(Len(c) - 1), q \in Nat : \A i \in 1..Len(c) :
                       [n \in Node |-> 0][c[i]]
                       = IF Passed(z, r % Len(c), i - 1) THEN q + 1 ELSE q
  BY DEF Spread
<1>1. Len(c) \in Nat \ {0}
  BY EmptySeq, LenProperties
<1>2. r % Len(c) \in 0..(Len(c) - 1)
  BY <1>1, ModuloNext
<1>3. \A i \in 1..Len(c) : ~Passed(r % Len(c), r % Len(c), i - 1)
  BY <1>1, <1>2 DEF Passed
<1>4. \A i \in 1..Len(c) : [n \in Node |-> 0][c[i]] = 0
  OBVIOUS
<1> QED BY <1>2, <1>3, <1>4

(* One pick on: the counter moves and who stands at it is counted.         *)
LEMMA SpreadGoesOn ==
    ASSUME NEW c \in Seq(Node), c # <<>>, IsInjective(c), NEW r \in Nat,
           NEW f \in [Node -> Nat], Spread(c, r, f)
    PROVE  Spread(c, r + 1, [f EXCEPT ![c[(r % Len(c)) + 1]] = @ + 1])
<1> DEFINE L == Len(c)
           t == r % L
           u == (r + 1) % L
           x == c[t + 1]
           e == [f EXCEPT ![x] = @ + 1]
<1>1. L \in Nat \ {0}
  BY EmptySeq, LenProperties
<1>2. t \in 0..(L - 1) /\ u = IF t + 1 = L THEN 0 ELSE t + 1
  BY <1>1, ModuloNext
<1>3. PICK z \in 0..(L - 1), q \in Nat : \A i \in 1..L :
         f[c[i]] = IF Passed(z, t, i - 1) THEN q + 1 ELSE q
  BY DEF Spread
<1>4. \A i \in 1..L : e[c[i]] = IF i = t + 1 THEN f[c[i]] + 1 ELSE f[c[i]]
  <2>1. t + 1 \in 1..L
    BY <1>1, <1>2
  <2> HIDE DEF t
  <2>2. \A i \in 1..L : c[i] \in Node /\ (c[i] = x => i = t + 1)
    BY <2>1, Position
  <2> QED BY <2>2
<1> HIDE DEF L, t, u, x, e
<1>5. \A i \in 1..L : e[c[i]] = IF Passed(z, t, i - 1) \/ i = t + 1
                                THEN q + 1 ELSE q
  <2>1. ~Passed(z, t, t)
    BY <1>1, <1>2, <1>3 DEF Passed
  <2>2. \A i \in 1..L : i = t + 1 => i - 1 = t
    BY <1>1, <1>2
  <2> QED BY <1>3, <1>4, <2>1, <2>2
<1>6. CASE u # z
  <2>1. \A i \in 1..L : Passed(z, u, i - 1) <=> Passed(z, t, i - 1) \/ i = t + 1
    BY <1>1, <1>2, <1>6 DEF Passed
  <2>2. \A i \in 1..L : e[c[i]] = IF Passed(z, u, i - 1) THEN q + 1 ELSE q
    BY <1>5, <2>1
  <2> QED BY <2>2 DEF Spread, L, t, u, x, e
<1>7. CASE u = z
  <2>1. \A i \in 1..L : ~Passed(z, u, i - 1) /\ (Passed(z, t, i - 1) \/ i = t + 1)
    BY <1>1, <1>2, <1>7 DEF Passed
  <2>2. \A i \in 1..L : e[c[i]] = IF Passed(z, u, i - 1) THEN (q + 1) + 1 ELSE q + 1
    BY <1>5, <2>1
  <2>3. q + 1 \in Nat
    OBVIOUS
  <2> QED BY <2>2, <2>3 DEF Spread, L, t, u, x, e
<1> QED BY <1>6, <1>7

-----------------------------------------------------------------------------
(* Which node a selector picks: one of the candidates.                     *)
LEMMA PicksOne ==
    ASSUME TypeOK, NEW c \in Seq(Node), c # <<>>, NEW p \in Patterns, NEW s
    PROVE  /\ Picks(c, p, s) \subseteq ToSet(c)
           /\ ToSet(c) \subseteq Node
           /\ s = "rr" => Picks(c, p, s) = {c[(rrIndex[p] % Len(c)) + 1]}
<1>1. Len(c) \in Nat \ {0}
  BY EmptySeq, LenProperties
<1>2. rrIndex[p] % Len(c) \in 0..(Len(c) - 1)
  BY <1>1, ModuloNext DEF TypeOK
<1>3. (rrIndex[p] % Len(c)) + 1 \in 1..Len(c) /\ 1 \in 1..Len(c)
  BY <1>1, <1>2
<1>4. \A i \in 1..Len(c) : c[i] \in ToSet(c)
  BY Position
<1>5. c[(rrIndex[p] % Len(c)) + 1] \in ToSet(c) /\ c[1] \in ToSet(c)
  BY <1>3, <1>4
<1>6. ToSet(c) \subseteq Node
  BY DEF ToSet
<1> QED BY <1>5, <1>6 DEF Picks

(* What attempt() does: the call of g is over, or asks one more node.      *)
LEMMA AttemptDoes ==
    ASSUME TypeOK, NEW g \in Get, NEW c \in Closure, c.pattern \in Patterns,
           NEW up, Attempt(g, c, up)
    PROVE  /\ call' \in [Get -> Closure] /\ rrIndex' \in [Patterns -> Nat]
           /\ \A h \in Get : h # g => call'[h] = call[h]
           /\ \/ /\ Candidates(up, c.pattern, c.tried) = <<>>
                 /\ call'[g].phase = "failed" /\ UNCHANGED rrIndex
              \/ /\ Candidates(up, c.pattern, c.tried) # <<>>
                 /\ call'[g].phase = "trying" /\ call'[g].pattern = c.pattern
                 /\ call'[g].tried # {} /\ call'[g].node \in Node
                 /\ call'[g].node
                       \in Picks(Candidates(up, c.pattern, c.tried), c.pattern, c.selector)
                 /\ rrIndex' = IF Advances(c.selector, c.tried)
                               THEN [rrIndex EXCEPT ![c.pattern] = @ + 1] ELSE rrIndex
<1> DEFINE l == Candidates(up, c.pattern, c.tried)
<1>1. nodes \in Seq(Node) /\ call \in [Get -> Closure] /\ rrIndex \in [Patterns -> Nat]
  BY DEF TypeOK, Closure
<1>2. l \in Seq(Node)
  BY <1>1, CandidatesFit DEF Candidates
<1> HIDE DEF l
<1>3. CASE l = <<>> /\ call' = [call EXCEPT ![g] = Over("failed")] /\ UNCHANGED rrIndex
  <2>1. Over("failed") \in Closure /\ Over("failed").phase = "failed"
    BY DEF Over, Fresh, Closure
  <2> QED BY <1>1, <1>3, <2>1 DEF l
<1>4. ASSUME l # <<>>, NEW n \in Picks(l, c.pattern, c.selector),
             call' = [call EXCEPT ![g] = [c EXCEPT !.phase = "trying",
                          !.node = n, !.tried = Tried(c, n)]],
             rrIndex' = IF Advances(c.selector, c.tried)
                        THEN [rrIndex EXCEPT ![c.pattern] = @ + 1] ELSE rrIndex
      PROVE  /\ call' \in [Get -> Closure] /\ rrIndex' \in [Patterns -> Nat]
             /\ \A h \in Get : h # g => call'[h] = call[h]
             /\ call'[g].phase = "trying" /\ call'[g].pattern = c.pattern
             /\ call'[g].tried # {} /\ call'[g].node \in Node
             /\ call'[g].node \in Picks(l, c.pattern, c.selector)
  <2>1. n \in Node
    BY <1>2, <1>4, PicksOne
  <2>2. n[1] \in Name
    BY <2>1 DEF Node
  <2> DEFINE d == [c EXCEPT !.phase = "trying", !.node = n, !.tried = Tried(c, n)]
  <2>3. /\ d \in Closure /\ d.phase = "trying" /\ d.pattern = c.pattern
        /\ d.tried = c.tried \cup {n[1]} /\ d.node = n
    BY <2>1, <2>2 DEF Closure, Tried
  <2>4. call' \in [Get -> Closure] /\ call'[g] = d
        /\ \A h \in Get : h # g => call'[h] = call[h]
    BY <1>1, <1>4, <2>3
  <2>5. rrIndex' \in [Patterns -> Nat]
    BY <1>1, <1>4
  <2> HIDE DEF d
  <2> QED BY <1>4, <2>1, <2>3, <2>4, <2>5
<1>5. \/ l = <<>> /\ call' = [call EXCEPT ![g] = Over("failed")] /\ UNCHANGED rrIndex
      \/ /\ l # <<>>
         /\ \E n \in Picks(l, c.pattern, c.selector) :
               call' = [call EXCEPT ![g] = [c EXCEPT !.phase = "trying",
                          !.node = n, !.tried = Tried(c, n)]]
         /\ rrIndex' = IF Advances(c.selector, c.tried)
                       THEN [rrIndex EXCEPT ![c.pattern] = @ + 1] ELSE rrIndex
  BY DEF Attempt, l
<1> QED BY <1>3, <1>4, <1>5 DEF l

(* After a change of the nodes, every rotation is even: where the          *)
(* candidates are the same nothing has changed, elsewhere it starts anew.  *)
LEMMA NoticeSpreads ==
    ASSUME ClusterInv, nodes' \in Seq(Node), UNCHANGED rrIndex, Notice
    PROVE  /\ firsts' \in [Patterns -> [Node -> Nat]]
           /\ Spreads(nodes', online', rrIndex', firsts')
<1>1. /\ firsts \in [Patterns -> [Node -> Nat]] /\ nodes \in Seq(Node)
      /\ rrIndex \in [Patterns -> Nat]
  BY DEF ClusterInv, TypeOK
<1>2. firsts' \in [Patterns -> [Node -> Nat]]
  BY <1>1 DEF Notice
<1>3. ASSUME NEW p \in Patterns
      PROVE  Spread(Without(nodes', Unfit(online', p, {})), rrIndex'[p], firsts'[p])
  <2> DEFINE c == Without(nodes, Unfit(online, p, {}))
             d == Without(nodes', Unfit(online', p, {}))
  <2>1. d \in Seq(Node)
    BY CandidatesFit
  <2>2. firsts'[p] = IF c = d THEN firsts[p] ELSE [n \in Node |-> 0]
    BY DEF Notice, Candidates
  <2>3. Spread(c, rrIndex[p], firsts[p])
    BY DEF ClusterInv, Spreads
  <2>4. rrIndex[p] \in Nat /\ rrIndex'[p] = rrIndex[p]
    BY <1>1
  <2> HIDE DEF c, d
  <2>5. CASE c = d
    BY <2>2, <2>3, <2>4, <2>5 DEF d
  <2>6. CASE c # d
    BY <2>1, <2>2, <2>4, <2>6, SpreadStarts DEF d
  <2> QED BY <2>5, <2>6
<1> QED BY <1>2, <1>3 DEF Spreads

(* Nor does it give a call more to try than it had.                        *)
LEMMA NoticeSteady ==
    ASSUME TypeOK, Notice
    PROVE  /\ steady' \in [Get -> SUBSET Node]
           /\ \A g \in Get : steady'[g] \subseteq steady[g]
           /\ \A g \in Get : \A n \in steady'[g] :
                 call[g].phase = "trying" /\ n \in Registered' /\ online'[n]
  BY DEF Notice, TypeOK

-----------------------------------------------------------------------------
(* get(): a call in flight has everybody to try who fits, and a first      *)
(* round-robin pick is counted where the counter stands.                   *)
LEMMA GetCallKeeps ==
    ASSUME ClusterInv, NEW g \in Get, NEW p \in Patterns, NEW s \in Selectors,
           GetCall(g, p, s)
    PROVE  ClusterInv'
<1>1. /\ TypeOK /\ IsInjective(nodes) /\ nodes \in Seq(Node)
      /\ call \in [Get -> Closure] /\ steady \in [Get -> SUBSET Node]
      /\ rrIndex \in [Patterns -> Nat] /\ firsts \in [Patterns -> [Node -> Nat]]
      /\ call[g].phase = "new" /\ steady[g] = {}
  BY DEF ClusterInv, TypeOK, Closure, GetCall, Seeks
<1>2. UNCHANGED <<nodes, lives, online, errorCount, timer,
                  destroyed, remaining, closing, replies>>
  BY DEF GetCall, nodeVars, destroyVars
<1>3. firsts' = IF s = "rr" /\ call'[g].phase = "trying"
                THEN [firsts EXCEPT ![p][call'[g].node] = @ + 1] ELSE firsts
  BY DEF GetCall
<1>4. Spreads(nodes, online, rrIndex, firsts)
  BY DEF ClusterInv
<1>5. CASE destroyed
  <2>1. call' = [call EXCEPT ![g] = Over("failed")] /\ UNCHANGED <<rrIndex, steady>>
    BY <1>5 DEF GetCall
  <2>2. Over("failed") \in Closure /\ Over("failed").phase = "failed"
    BY DEF Over, Fresh, Closure
  <2>3. call' \in [Get -> Closure] /\ call'[g].phase = "failed"
        /\ \A h \in Get : h # g => call'[h] = call[h]
    BY <1>1, <2>1, <2>2
  <2>4. UNCHANGED firsts
    BY <1>3, <2>3
  <2>5. TypeOK'
    BY <1>1, <1>2, <2>1, <2>3, <2>4 DEF TypeOK, Closure
  <2>6. Seeks(call', steady')
    BY <2>1, <2>3 DEF ClusterInv, Seeks
  <2> QED BY <1>1, <1>2, <1>4, <2>1, <2>4, <2>5, <2>6 DEF ClusterInv
<1>6. CASE ~destroyed
  <2> DEFINE c == [Fresh EXCEPT !.pattern = p, !.selector = s]
             l == Candidates(online, p, {})
             matching == {n \in Registered : n[1] \in p /\ online[n]}
  <2>1. p \in SUBSET Name /\ s \in {"rr", "random", "order"}
    BY ClusterAssumption
  <2>2. c \in Closure /\ c.pattern = p /\ c.selector = s /\ c.tried = {}
    BY <2>1 DEF Fresh, Closure
  <2>3. Attempt(g, c, online) /\ steady' = [steady EXCEPT ![g] = matching]
    BY <1>6 DEF GetCall
  <2> HIDE DEF c
  <2>4. /\ call' \in [Get -> Closure] /\ rrIndex' \in [Patterns -> Nat]
        /\ \A h \in Get : h # g => call'[h] = call[h]
        /\ \/ l = <<>> /\ call'[g].phase = "failed" /\ UNCHANGED rrIndex
           \/ /\ l # <<>> /\ call'[g].phase = "trying" /\ call'[g].pattern = p
              /\ call'[g].tried # {} /\ call'[g].node \in Node
              /\ call'[g].node \in Picks(l, p, s)
              /\ rrIndex' = IF Advances(s, {})
                            THEN [rrIndex EXCEPT ![p] = @ + 1] ELSE rrIndex
    <3>1. /\ call' \in [Get -> Closure] /\ rrIndex' \in [Patterns -> Nat]
          /\ \A h \in Get : h # g => call'[h] = call[h]
          /\ \/ /\ Candidates(online, c.pattern, c.tried) = <<>>
                /\ call'[g].phase = "failed" /\ UNCHANGED rrIndex
             \/ /\ Candidates(online, c.pattern, c.tried) # <<>>
                /\ call'[g].phase = "trying" /\ call'[g].pattern = c.pattern
                /\ call'[g].tried # {} /\ call'[g].node \in Node
                /\ call'[g].node \in Picks(Candidates(online, c.pattern, c.tried),
                                          c.pattern, c.selector)
                /\ rrIndex' = IF Advances(c.selector, c.tried)
                              THEN [rrIndex EXCEPT ![c.pattern] = @ + 1] ELSE rrIndex
      <4>1. c.pattern \in Patterns
        BY <2>2
      <4> QED BY <1>1, <2>2, <2>3, <4>1, AttemptDoes
    <3> QED BY <2>2, <3>1
  <2>5. matching \subseteq Node /\ \A n \in matching : n[1] \in p
    BY <1>1 DEF Registered, ToSet
  <2>6. /\ steady' \in [Get -> SUBSET Node]
        /\ steady'[g] = matching /\ \A h \in Get : h # g => steady'[h] = steady[h]
    BY <1>1, <2>3, <2>5
  <2>7. Seeks(call', steady')
    BY <2>4, <2>5, <2>6 DEF ClusterInv, Seeks
  <2>8. /\ firsts' \in [Patterns -> [Node -> Nat]]
        /\ Spreads(nodes, online, rrIndex', firsts')
    <3>1. CASE s = "rr" /\ l # <<>>
      <4> DEFINE n == l[(rrIndex[p] % Len(l)) + 1]
      <4>1. l \in Seq(Node) /\ IsInjective(l)
        BY <1>1, CandidatesFit DEF Candidates
      <4>2. call'[g].node = n /\ n \in Node /\ call'[g].phase = "trying"
        BY <1>1, <2>4, <3>1, <4>1, PicksOne
      <4>3. rrIndex' = [rrIndex EXCEPT ![p] = @ + 1]
        BY <2>4, <3>1 DEF Advances
      <4>4. firsts' = [firsts EXCEPT ![p][n] = @ + 1]
        BY <1>3, <3>1, <4>2
      <4>5. firsts[p] \in [Node -> Nat] /\ rrIndex[p] \in Nat
        BY <1>1
      <4>6. Spread(l, rrIndex[p], firsts[p])
        BY <1>4 DEF Spreads, Candidates
      <4>7. Spread(l, rrIndex[p] + 1, [firsts[p] EXCEPT ![n] = @ + 1])
        BY <3>1, <4>1, <4>5, <4>6, SpreadGoesOn
      <4> HIDE DEF l, n
      <4>8. /\ firsts' \in [Patterns -> [Node -> Nat]]
            /\ firsts'[p] = [firsts[p] EXCEPT ![n] = @ + 1]
            /\ \A o \in Patterns : o # p => firsts'[o] = firsts[o]
        BY <1>1, <4>2, <4>4, <4>5
      <4>9. /\ rrIndex'[p] = rrIndex[p] + 1
            /\ \A o \in Patterns : o # p => rrIndex'[o] = rrIndex[o]
        BY <1>1, <4>3
      <4>10. ASSUME NEW o \in Patterns
             PROVE  Spread(Without(nodes, Unfit(online, o, {})), rrIndex'[o], firsts'[o])
        <5>1. CASE o = p
          BY <4>7, <4>8, <4>9, <5>1 DEF l, Candidates
        <5>2. CASE o # p
          BY <1>4, <4>8, <4>9, <5>2 DEF Spreads
        <5> QED BY <5>1, <5>2
      <4> QED BY <4>8, <4>10 DEF Spreads
    <3>2. CASE ~(s = "rr" /\ l # <<>>)
      <4>1. UNCHANGED firsts
        BY <1>3, <2>4, <3>2
      <4>2. UNCHANGED rrIndex
        BY <2>4, <3>2 DEF Advances
      <4> QED BY <1>1, <1>4, <4>1, <4>2
    <3> QED BY <3>1, <3>2
  <2>9. TypeOK'
    BY <1>1, <1>2, <2>4, <2>6, <2>8 DEF TypeOK, Closure
  <2> QED BY <1>1, <1>2, <2>7, <2>8, <2>9 DEF ClusterInv
<1> QED BY <1>5, <1>6

(* The answer of a pool that failed.                                       *)
LEMMA PoolFailsKeeps ==
    ASSUME ClusterInv, NEW g \in Get, PoolFails(g)
    PROVE  ClusterInv'
<1>1. /\ TypeOK /\ IsInjective(nodes) /\ nodes \in Seq(Node)
      /\ call \in [Get -> Closure] /\ online \in [Node -> BOOLEAN]
      /\ errorCount \in [Node -> Nat] /\ timer \subseteq Node
      /\ Seeks(call, steady) /\ call[g].phase = "trying"
  BY DEF ClusterInv, TypeOK, Closure, PoolFails
<1>2. /\ call[g] \in Closure /\ call[g].pattern \in Patterns
      /\ call[g].tried # {} /\ call[g].node \in Node
  BY <1>1 DEF Seeks
<1>3. UNCHANGED <<nodes, lives, destroyed, remaining, closing, replies>> /\ Notice
  BY DEF PoolFails, destroyVars
<1>4. /\ call' \in [Get -> Closure]
      /\ \A h \in Get : h # g => call'[h] = call[h]
      /\ \/ call'[g].phase = "failed" /\ UNCHANGED rrIndex
         \/ /\ call'[g].phase = "trying" /\ call'[g].pattern = call[g].pattern
            /\ call'[g].tried # {} /\ call'[g].node \in Node
            /\ UNCHANGED rrIndex
  <2>1. Attempt(g, call[g], online')
    BY DEF PoolFails
  <2>2. ~Advances(call[g].selector, call[g].tried)
    BY <1>2 DEF Advances
  <2> QED BY <1>1, <1>2, <2>1, <2>2, AttemptDoes
<1>5. /\ online' \in [Node -> BOOLEAN] /\ errorCount' \in [Node -> Nat]
      /\ timer' \subseteq Node
  <2>1. NoteFailure(call[g].node)
    BY DEF PoolFails
  <2>2. Armed(call[g].node) \subseteq Node
    BY <1>1, <1>2 DEF Armed
  <2>3. [errorCount EXCEPT ![call[g].node] = @ + 1] \in [Node -> Nat]
    BY <1>1, <1>2
  <2>4. [online EXCEPT ![call[g].node] = FALSE] \in [Node -> BOOLEAN]
    BY <1>1, <1>2
  <2> QED BY <1>1, <2>1, <2>2, <2>3, <2>4 DEF NoteFailure
<1>6. /\ firsts' \in [Patterns -> [Node -> Nat]]
      /\ Spreads(nodes', online', rrIndex', firsts')
  BY <1>1, <1>3, <1>4, NoticeSpreads
<1>7. /\ steady' \in [Get -> SUBSET Node]
      /\ \A h \in Get : steady'[h] \subseteq steady[h]
  BY <1>1, <1>3, NoticeSteady
<1>8. Seeks(call', steady')
  BY <1>1, <1>4, <1>7 DEF Seeks
<1>9. rrIndex' \in [Patterns -> Nat]
  BY <1>1, <1>4 DEF TypeOK
<1>10. TypeOK'
  BY <1>1, <1>3, <1>4, <1>5, <1>6, <1>7, <1>9 DEF TypeOK, Closure
<1> QED BY <1>1, <1>3, <1>6, <1>8, <1>10 DEF ClusterInv

(* The answer of a pool that gives a connection.                           *)
LEMMA PoolGivesKeeps ==
    ASSUME ClusterInv, NEW g \in Get, PoolGives(g)
    PROVE  ClusterInv'
<1>1. /\ TypeOK /\ call \in [Get -> Closure] /\ errorCount \in [Node -> Nat]
      /\ Seeks(call, steady) /\ call[g].node \in Node
  BY DEF ClusterInv, TypeOK, Closure, PoolGives, Seeks
<1>2. /\ UNCHANGED <<nodes, lives, online, timer, rrIndex, destroyed, remaining,
                     closing, replies, steady, firsts>>
      /\ errorCount' = [errorCount EXCEPT ![call[g].node] = 0]
      /\ call' = [call EXCEPT ![g] = Over("served")]
  BY DEF PoolGives, destroyVars
<1>3. Over("served") \in Closure /\ Over("served").phase = "served"
  BY DEF Over, Fresh, Closure
<1>4. /\ call' \in [Get -> Closure] /\ call'[g].phase = "served"
      /\ \A h \in Get : h # g => call'[h] = call[h]
  BY <1>1, <1>2, <1>3
<1>5. errorCount' \in [Node -> Nat]
  BY <1>1, <1>2
<1>6. Seeks(call', steady')
  BY <1>1, <1>2, <1>4 DEF Seeks
<1>7. TypeOK'
  BY <1>1, <1>2, <1>4, <1>5 DEF TypeOK, Closure
<1> QED BY <1>2, <1>6, <1>7 DEF ClusterInv

-----------------------------------------------------------------------------
(* What a change of the nodes has to keep by itself: the list has no       *)
(* repetition and its fields their types.  The rest follows from Notice.   *)
LEMMA NodesChange ==
    ASSUME ClusterInv, Notice, UNCHANGED getVars,
           nodes' \in Seq(Node), IsInjective(nodes'), lives' \in [Name -> 0..Lives],
           online' \in [Node -> BOOLEAN], errorCount' \in [Node -> Nat],
           timer' \subseteq Node, destroyed' \in BOOLEAN,
           remaining' \in [Destroyers -> Nat], closing' \in [Destroyers -> SUBSET Node],
           replies' \in [Destroyers -> {-1, 0, 1}],
           Closes(remaining', closing', replies')
    PROVE  ClusterInv'
<1>1. TypeOK /\ Seeks(call, steady) /\ UNCHANGED <<call, rrIndex>>
  BY DEF ClusterInv, getVars
<1>2. /\ firsts' \in [Patterns -> [Node -> Nat]]
      /\ Spreads(nodes', online', rrIndex', firsts')
  BY <1>1, NoticeSpreads
<1>3. /\ steady' \in [Get -> SUBSET Node]
      /\ \A h \in Get : steady'[h] \subseteq steady[h]
  BY <1>1, NoticeSteady
<1>4. Seeks(call', steady')
  BY <1>1, <1>3 DEF Seeks
<1>5. TypeOK'
  BY <1>1, <1>2, <1>3 DEF TypeOK
<1> QED BY <1>2, <1>4, <1>5 DEF ClusterInv

(* add(): a name that is not registered is no repetition.                  *)
LEMMA AddKeeps ==
    ASSUME ClusterInv, NEW x \in Name, Add(x)
    PROVE  ClusterInv'
<1>1. /\ TypeOK /\ IsInjective(nodes) /\ nodes \in Seq(Node)
      /\ lives \in [Name -> 0..Lives] /\ online \in [Node -> BOOLEAN]
      /\ Closes(remaining, closing, replies)
  BY DEF ClusterInv, TypeOK
<1>2. lives[x] \in 0..Lives /\ lives[x] < Lives /\ lives' = [lives EXCEPT ![x] = @ + 1]
  BY <1>1 DEF Add
<1>3. lives'[x] \in 1..Lives /\ lives' \in [Name -> 0..Lives]
  BY <1>1, <1>2, ClusterAssumption
<1> DEFINE n == <<x, lives'[x]>>
<1>4. n \in Node /\ n[1] = x
  BY <1>3 DEF Node
<1>5. /\ nodes' = Append(nodes, n) /\ online' = [online EXCEPT ![n] = TRUE]
      /\ UNCHANGED <<errorCount, timer, getVars, destroyed, remaining, closing, replies>>
      /\ Notice
  BY DEF Add, destroyVars
<1>6. n \notin ToSet(nodes)
  BY <1>4 DEF Add, HasName, Registered
<1> HIDE DEF n
<1>7. nodes' \in Seq(Node) /\ IsInjective(nodes')
  BY <1>1, <1>4, <1>5, <1>6, AppendElements
<1>8. online' \in [Node -> BOOLEAN]
  BY <1>1, <1>4, <1>5
<1> QED BY <1>1, <1>3, <1>5, <1>7, <1>8, NodesChange DEF TypeOK

(* remove().                                                               *)
LEMMA RemoveKeeps ==
    ASSUME ClusterInv, NEW n \in Node, RemoveNode(n)
    PROVE  ClusterInv'
<1>1. /\ TypeOK /\ IsInjective(nodes) /\ nodes \in Seq(Node)
      /\ Closes(remaining, closing, replies)
  BY DEF ClusterInv, TypeOK
<1>2. /\ nodes' = Without(nodes, {n}) /\ timer' = timer \ {n}
      /\ UNCHANGED <<lives, online, errorCount, getVars,
                     destroyed, remaining, closing, replies>>
      /\ Notice
  BY DEF RemoveNode, Drop, destroyVars
<1>3. nodes' \in Seq(Node) /\ IsInjective(nodes')
  BY <1>1, <1>2, WithoutProperties
<1> QED BY <1>1, <1>2, <1>3, NodesChange DEF TypeOK

(* restore(), by hand or by the timer.                                     *)
LEMMA RestoreKeeps ==
    ASSUME ClusterInv, NEW x, NEW fired, RestoreName(x, fired)
    PROVE  ClusterInv'
<1>1. /\ TypeOK /\ IsInjective(nodes) /\ nodes \in Seq(Node)
      /\ online \in [Node -> BOOLEAN] /\ errorCount \in [Node -> Nat]
      /\ timer \subseteq Node /\ Closes(remaining, closing, replies)
  BY DEF ClusterInv, TypeOK
<1>2. /\ UNCHANGED <<nodes, lives, getVars, destroyed, remaining, closing, replies>>
      /\ Notice
  BY DEF RestoreName, destroyVars
<1>3. /\ online' \in [Node -> BOOLEAN] /\ errorCount' \in [Node -> Nat]
      /\ timer' \subseteq Node
  <2>1. ASSUME NEW n \in Registered, Disarm(fired, n), Forget(n)
        PROVE  /\ online' \in [Node -> BOOLEAN] /\ errorCount' \in [Node -> Nat]
               /\ timer' \subseteq Node
    <3>1. n \in Node
      BY <1>1 DEF Registered, ToSet
    <3> QED BY <1>1, <2>1, <3>1 DEF Disarm, Forget
  <2>2. \/ \E n \in Registered : Disarm(fired, n) /\ Forget(n)
        \/ timer' = timer \ fired /\ UNCHANGED <<online, errorCount>>
    BY DEF RestoreName
  <2> QED BY <1>1, <2>1, <2>2
<1> QED BY <1>1, <1>2, <1>3, NodesChange DEF TypeOK

(* destroy() waits for as many pools as there are nodes.                   *)
LEMMA DestroyKeeps ==
    ASSUME ClusterInv, NEW d \in Destroyers, Destroy(d)
    PROVE  ClusterInv'
<1>1. /\ TypeOK /\ IsInjective(nodes) /\ nodes \in Seq(Node)
      /\ remaining \in [Destroyers -> Nat] /\ closing \in [Destroyers -> SUBSET Node]
      /\ replies \in [Destroyers -> {-1, 0, 1}]
      /\ Closes(remaining, closing, replies)
  BY DEF ClusterInv, TypeOK
<1>2. /\ destroyed' = TRUE /\ nodes' = <<>> /\ timer' = timer \ Registered
      /\ remaining' = [remaining EXCEPT ![d] = Len(nodes)]
      /\ closing' = [closing EXCEPT ![d] = Registered]
      /\ replies' = [replies EXCEPT ![d] = IF nodes = <<>> THEN 1 ELSE 0]
      /\ UNCHANGED <<lives, online, errorCount, getVars>> /\ Notice
  BY DEF Destroy
<1>3. /\ Registered \subseteq Node /\ IsFiniteSet(Registered)
      /\ Cardinality(Registered) = Len(nodes) /\ Len(nodes) \in Nat
      /\ nodes = <<>> <=> Registered = {}
  <2>1. Registered \subseteq Node
    BY <1>1 DEF Registered, ToSet
  <2>2. IsFiniteSet(Registered) /\ Cardinality(Registered) = Len(nodes)
    BY <1>1, InjectiveLength DEF Registered
  <2>3. Len(nodes) \in Nat /\ (nodes = <<>> <=> Len(nodes) = 0)
    BY <1>1, LenProperties, EmptySeq
  <2>4. Cardinality(Registered) = 0 <=> Registered = {}
    BY <2>2, FS_EmptySet
  <2> QED BY <2>1, <2>2, <2>3, <2>4
<1>4. /\ remaining' \in [Destroyers -> Nat] /\ closing' \in [Destroyers -> SUBSET Node]
      /\ replies' \in [Destroyers -> {-1, 0, 1}]
  BY <1>1, <1>2, <1>3
<1>5. Closes(remaining', closing', replies')
  BY <1>1, <1>2, <1>3 DEF Closes
<1>6. nodes' \in Seq(Node) /\ IsInjective(nodes')
  <2>1. <<>> \in Seq(Node)
    OBVIOUS
  <2>2. IsInjective(<<>>)
    BY DEF IsInjective
  <2> QED BY <1>2, <2>1, <2>2
<1> QED BY <1>1, <1>2, <1>4, <1>5, <1>6, NodesChange DEF TypeOK

(* One pool less to wait for; the last one calls back.                     *)
LEMMA PoolDestroyedKeeps ==
    ASSUME ClusterInv, NEW d \in Destroyers, NEW n, PoolDestroyed(d, n)
    PROVE  ClusterInv'
<1>1. /\ TypeOK
      /\ remaining \in [Destroyers -> Nat] /\ closing \in [Destroyers -> SUBSET Node]
      /\ replies \in [Destroyers -> {-1, 0, 1}]
      /\ Closes(remaining, closing, replies)
  BY DEF ClusterInv, TypeOK
<1>2. /\ n \in closing[d]
      /\ closing' = [closing EXCEPT ![d] = @ \ {n}]
      /\ remaining' = [remaining EXCEPT ![d] = @ - 1]
      /\ replies' = [replies EXCEPT ![d] = IF remaining[d] = 1 THEN @ + 1 ELSE @]
      /\ UNCHANGED <<nodes, lives, online, errorCount, timer, rrIndex, call,
                     destroyed, steady, firsts>>
  BY DEF PoolDestroyed, LastPool, nodeVars, getVars
<1> DEFINE rest == closing[d] \ {n}
<1>3. IsFiniteSet(closing[d]) /\ remaining[d] = Cardinality(closing[d]) /\ replies[d] = 0
  BY <1>1, <1>2 DEF Closes
<1>4. /\ IsFiniteSet(rest) /\ Cardinality(rest) = remaining[d] - 1
      /\ Cardinality(rest) \in Nat
  BY <1>2, <1>3, FS_RemoveElement, FS_CardinalityType
<1>5. rest = {} <=> remaining[d] = 1
  BY <1>1, <1>4, FS_EmptySet
<1>6. /\ remaining' \in [Destroyers -> Nat] /\ closing' \in [Destroyers -> SUBSET Node]
      /\ replies' \in [Destroyers -> {-1, 0, 1}]
  BY <1>1, <1>2, <1>3, <1>4
<1>7. /\ closing'[d] = rest /\ remaining'[d] = Cardinality(rest)
      /\ replies'[d] = IF remaining[d] = 1 THEN 1 ELSE 0
      /\ \A e \in Destroyers : e # d => /\ closing'[e] = closing[e]
                                        /\ remaining'[e] = remaining[e]
                                        /\ replies'[e] = replies[e]
  BY <1>1, <1>2, <1>3, <1>4
<1> HIDE DEF rest
<1>8. Closes(remaining', closing', replies')
  BY <1>1, <1>4, <1>5, <1>7 DEF Closes
<1>9. TypeOK'
  BY <1>1, <1>2, <1>6 DEF TypeOK
<1> QED BY <1>2, <1>8, <1>9 DEF ClusterInv

-----------------------------------------------------------------------------
(* Nothing is picked, tried or closed at first.                            *)
LEMMA InitClusterInv == Init => ClusterInv
<1> SUFFICES ASSUME Init
             PROVE  ClusterInv
  OBVIOUS
<1> USE DEF Init
<1>1. <<>> \in Seq(Node) /\ IsInjective(<<>>)
  <2>1. <<>> \in Seq(Node)
    OBVIOUS
  <2> QED BY <2>1 DEF IsInjective
<1>2. Fresh \in Closure /\ Fresh.phase = "new"
  BY DEF Fresh, Closure
<1>3. call \in [Get -> Closure] /\ \A g \in Get : call[g].phase = "new"
  BY <1>2
<1>4. TypeOK
  <2>1. lives \in [Name -> 0..Lives]
    BY ClusterAssumption
  <2>2. online \in [Node -> BOOLEAN] /\ errorCount \in [Node -> Nat]
    OBVIOUS
  <2>3. rrIndex \in [Patterns -> Nat] /\ steady \in [Get -> SUBSET Node]
    OBVIOUS
  <2>4. remaining \in [Destroyers -> Nat] /\ closing \in [Destroyers -> SUBSET Node]
    OBVIOUS
  <2>5. replies \in [Destroyers -> {-1, 0, 1}]
    OBVIOUS
  <2>6. firsts \in [Patterns -> [Node -> Nat]]
    OBVIOUS
  <2>7. nodes \in Seq(Node) /\ timer \subseteq Node /\ destroyed \in BOOLEAN
    BY <1>1
  <2> QED BY <1>3, <2>1, <2>2, <2>3, <2>4, <2>5, <2>6, <2>7 DEF TypeOK, Closure
<1>5. Closes(remaining, closing, replies)
  BY FS_EmptySet DEF Closes
<1>6. Seeks(call, steady)
  BY <1>3 DEF Seeks
<1>7. ASSUME NEW p \in Patterns
      PROVE  Spread(Without(nodes, Unfit(online, p, {})), rrIndex[p], firsts[p])
  <2>1. Without(nodes, Unfit(online, p, {})) \in Seq(Node)
    BY <1>1, CandidatesFit
  <2> QED BY <2>1, SpreadStarts
<1> QED BY <1>1, <1>4, <1>5, <1>6, <1>7 DEF ClusterInv, Spreads

(* Every step of a call, a pool, a timer or the application.               *)
LEMMA StepClusterInv == ClusterInv /\ [Next]_vars => ClusterInv'
<1> SUFFICES ASSUME ClusterInv, [Next]_vars
             PROVE  ClusterInv'
  OBVIOUS
<1>1. ASSUME NEW g \in Get, NEW p \in Patterns, NEW s \in Selectors, GetCall(g, p, s)
      PROVE  ClusterInv'
  BY <1>1, GetCallKeeps
<1>2. ASSUME NEW g \in Get, PoolFails(g)
      PROVE  ClusterInv'
  BY <1>2, PoolFailsKeeps
<1>3. ASSUME NEW g \in Get, PoolGives(g)
      PROVE  ClusterInv'
  BY <1>3, PoolGivesKeeps
<1>4. ASSUME NEW x \in Name, Add(x)
      PROVE  ClusterInv'
  BY <1>4, AddKeeps
<1>5. ASSUME NEW x \in Name, Restore(x)
      PROVE  ClusterInv'
  BY <1>5, RestoreKeeps DEF Restore
<1>6. ASSUME NEW n \in Node, RemoveNode(n)
      PROVE  ClusterInv'
  BY <1>6, RemoveKeeps
<1>7. ASSUME NEW n \in Node, RestoreTimer(n)
      PROVE  ClusterInv'
  BY <1>7, RestoreKeeps DEF RestoreTimer
<1>8. ASSUME NEW d \in Destroyers, Destroy(d)
      PROVE  ClusterInv'
  BY <1>8, DestroyKeeps
<1>9. ASSUME NEW d \in Destroyers, NEW n \in Node, PoolDestroyed(d, n)
      PROVE  ClusterInv'
  BY <1>9, PoolDestroyedKeeps
<1>10. CASE UNCHANGED vars
  BY <1>10 DEF vars, nodeVars, getVars, destroyVars, ClusterInv, TypeOK
<1> QED BY <1>1, <1>2, <1>3, <1>4, <1>5, <1>6, <1>7, <1>8, <1>9, <1>10 DEF Next

(* So the invariant holds throughout.                                      *)
LEMMA ClusterInvHolds == Spec => []ClusterInv
<1> QED BY InitClusterInv, StepClusterInv, PTL DEF Spec

(* Every reachable state of a cluster has the declared types; among them   *)
(* that the callback of a destroy() is called once at most                 *)
(* (pool-cluster.ts:306-309).                                              *)
THEOREM ClusterTypeOK == Spec => []TypeOK
<1>1. ClusterInv => TypeOK
  BY DEF ClusterInv
<1> QED BY <1>1, ClusterInvHolds, PTL

(* Round-robin spreads the first picks evenly over the candidates of each  *)
(* pattern as long as these stay the same (pool-cluster.ts:182-184).       *)
THEOREM ClusterEvenSpread == Spec => []EvenSpread
<1>1. ClusterInv => EvenSpread
  <2> SUFFICES ASSUME ClusterInv, NEW p \in Patterns
               PROVE  \A n, m \in ToSet(Candidates(online, p, {})) :
                         firsts[p][n] <= firsts[p][m] + 1
    BY DEF EvenSpread
  <2> DEFINE c == Without(nodes, Unfit(online, p, {}))
  <2>1. c \in Seq(Node)
    BY CandidatesFit DEF ClusterInv, TypeOK
  <2>2. Spread(c, rrIndex[p], firsts[p])
    BY DEF ClusterInv, Spreads
  <2> HIDE DEF c
  <2>3. \A n, m \in ToSet(c) : firsts[p][n] <= firsts[p][m] + 1
    BY <2>1, <2>2, SpreadIsEven
  <2> QED BY <2>3 DEF c, Candidates
<1> QED BY <1>1, ClusterInvHolds, PTL

(* Only a get(), or the answer of a failed pool, makes a call fail.        *)
LEMMA WhoFails ==
    ASSUME TypeOK, Next, NEW g \in Get,
           call[g].phase # "failed", call'[g].phase = "failed",
           Seeks(call, steady)
    PROVE  \/ \E p \in Patterns, s \in Selectors : GetCall(g, p, s)
           \/ PoolFails(g)
<1>1. call \in [Get -> Closure]
  BY DEF TypeOK, Closure
<1>2. call'[g] # call[g]
  OBVIOUS
<1>3. ASSUME NEW h \in Get, NEW p \in Patterns, NEW s \in Selectors, GetCall(h, p, s)
      PROVE  h = g
  <2>1. CASE destroyed
    <3>1. call' = [call EXCEPT ![h] = Over("failed")]
      BY <1>3, <2>1 DEF GetCall
    <3> QED BY <1>1, <1>2, <3>1
  <2>2. CASE ~destroyed
    <3> DEFINE c == [Fresh EXCEPT !.pattern = p, !.selector = s]
    <3>1. p \in SUBSET Name /\ s \in {"rr", "random", "order"}
      BY ClusterAssumption
    <3>2. c \in Closure /\ c.pattern \in Patterns
      BY <3>1 DEF Fresh, Closure
    <3>3. Attempt(h, c, online)
      BY <1>3, <2>2 DEF GetCall
    <3> HIDE DEF c
    <3> QED BY <1>2, <3>2, <3>3, AttemptDoes
  <2> QED BY <2>1, <2>2
<1>4. ASSUME NEW h \in Get, PoolFails(h)
      PROVE  h = g
  <2>1. call[h] \in Closure /\ call[h].pattern \in Patterns /\ Attempt(h, call[h], online')
    BY <1>1, <1>4 DEF PoolFails, Seeks
  <2> QED BY <1>2, <2>1, AttemptDoes
<1>5. ASSUME NEW h \in Get, PoolGives(h)
      PROVE  FALSE
  <2>1. call' = [call EXCEPT ![h] = Over("served")] /\ Over("served").phase = "served"
    BY <1>5 DEF PoolGives, Over, Fresh
  <2> QED BY <1>1, <1>2, <2>1
<1>6. UNCHANGED getVars => FALSE
  BY <1>2 DEF getVars
<1>7. ASSUME NEW x, NEW fired, RestoreName(x, fired)
      PROVE  FALSE
  BY <1>6, <1>7 DEF RestoreName
<1>8. ASSUME NEW n \in Node, RemoveNode(n)
      PROVE  FALSE
  BY <1>6, <1>8 DEF RemoveNode
<1>9. ASSUME NEW x \in Name, Add(x)
      PROVE  FALSE
  BY <1>6, <1>9 DEF Add
<1>10. ASSUME NEW d \in Destroyers, NEW n \in Node, Destroy(d) \/ PoolDestroyed(d, n)
       PROVE  FALSE
  BY <1>6, <1>10 DEF Destroy, PoolDestroyed
<1>11. ASSUME NEW d \in Destroyers, Destroy(d)
       PROVE  FALSE
  BY <1>6, <1>11 DEF Destroy
<1> QED BY <1>3, <1>4, <1>5, <1>7, <1>8, <1>9, <1>10, <1>11
        DEF Next, Restore, RestoreTimer

(* pool-cluster.ts:216-219: a call fails only when every node that matched *)
(* and was online throughout has been tried.                               *)
THEOREM ClusterFailsOnlyAfterAll == Spec => FailsOnlyAfterAll
<1>1. ASSUME ClusterInv, Next
      PROVE  \A g \in Get : call[g].phase # "failed" /\ call'[g].phase = "failed"
                => \A n \in steady'[g] : n[1] \in call[g].tried
  <2> SUFFICES ASSUME NEW g \in Get,
                      call[g].phase # "failed", call'[g].phase = "failed",
                      NEW n \in steady'[g]
               PROVE  n[1] \in call[g].tried
    OBVIOUS
  <2>1. /\ TypeOK /\ Seeks(call, steady) /\ nodes \in Seq(Node)
        /\ call \in [Get -> Closure] /\ steady \in [Get -> SUBSET Node]
    BY <1>1 DEF ClusterInv, TypeOK, Closure
  <2>2. ASSUME NEW p \in Patterns, NEW s \in Selectors, GetCall(g, p, s)
        PROVE  FALSE
    <3>1. steady[g] = {}
      BY <2>1, <2>2 DEF GetCall, Seeks
    <3>2. CASE destroyed
      BY <2>1, <2>2, <3>1, <3>2 DEF GetCall
    <3>3. CASE ~destroyed
      <4> DEFINE c == [Fresh EXCEPT !.pattern = p, !.selector = s]
      <4>1. p \in SUBSET Name /\ s \in {"rr", "random", "order"}
        BY ClusterAssumption
      <4>2. c \in Closure /\ c.pattern = p /\ c.pattern \in Patterns /\ c.tried = {}
        BY <4>1 DEF Fresh, Closure
      <4>3. Attempt(g, c, online)
        BY <2>2, <3>3 DEF GetCall
      <4>4. steady'[g] = {m \in Registered : m[1] \in p /\ online[m]}
        BY <2>1, <2>2, <3>3 DEF GetCall
      <4> HIDE DEF c
      <4>5. Candidates(online, c.pattern, c.tried) = <<>>
        BY <2>1, <4>2, <4>3, AttemptDoes
      <4>6. Without(nodes, Unfit(online, p, {})) = <<>>
        BY <4>2, <4>5 DEF Candidates
      <4>7. {m \in ToSet(nodes) : m[1] \in p /\ online[m] /\ m[1] \notin {}} = {}
        BY <2>1, <4>6, CandidatesFit
      <4> QED BY <4>4, <4>7 DEF Registered
    <3> QED BY <3>2, <3>3
  <2>3. CASE PoolFails(g)
    <3>1. /\ call[g] \in Closure /\ call[g].pattern \in Patterns
          /\ Attempt(g, call[g], online') /\ Notice /\ UNCHANGED nodes
          /\ \A m \in steady[g] : m[1] \in call[g].pattern
      BY <2>1, <2>3 DEF PoolFails, Seeks
    <3>2. Candidates(online', call[g].pattern, call[g].tried) = <<>>
      BY <2>1, <3>1, AttemptDoes
    <3>3. n \in steady[g] /\ n \in ToSet(nodes) /\ online'[n]
      BY <2>1, <3>1, NoticeSteady DEF Registered
    <3> DEFINE p == call[g].pattern
               t == call[g].tried
    <3>4. Without(nodes, Unfit(online', p, t)) = <<>>
      BY <3>2 DEF Candidates
    <3> HIDE DEF p, t
    <3>5. {m \in ToSet(nodes) : m[1] \in p /\ online'[m] /\ m[1] \notin t} = {}
      BY <2>1, <3>4, CandidatesFit
    <3>6. n[1] \in p
      BY <3>1, <3>3 DEF p
    <3> QED BY <3>3, <3>5, <3>6 DEF t
  <2> QED BY <1>1, <2>1, <2>2, <2>3, WhoFails
<1>2. ClusterInv /\ [Next]_vars =>
         [\A g \in Get : call[g].phase # "failed" /\ call'[g].phase = "failed"
            => \A n \in steady'[g] : n[1] \in call[g].tried]_vars
  BY <1>1
<1> QED BY <1>2, ClusterInvHolds, PTL DEF Spec, FailsOnlyAfterAll
=============================================================================
