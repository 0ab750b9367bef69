---------------------------- MODULE PoolCluster ----------------------------
(***************************************************************************)
(* The multi-host pool, class PoolCluster of src/src/pool-cluster.ts, on   *)
(* top of one pool per node (module Pool), of which it uses this: a get()  *)
(* is answered once, with a connection or an error; a destroyed pool gives *)
(* no connection; destroy() calls back once.                               *)
(*                                                                         *)
(* A node object is <<name, life>>: remove() and a later add() of the same *)
(* name make a new object, while a get() in flight keeps the old one.      *)
(* A pattern is the set of names it matches.  A pool's answer is a turn of *)
(* its own: what a pool answers at once is the answer that comes next.     *)
(***************************************************************************)
EXTENDS SeqRemoval

CONSTANTS
    Name,        \* node names
    Lives,       \* how often a name is added at most
    Get,         \* the calls of get()
    Destroyers,  \* the calls of destroy()
    Patterns,    \* the patterns asked for
    Selectors,   \* the selectors asked for
    Threshold,   \* removeNodeErrorCount
    Restores     \* whether restoreNodeTimeout is set

ASSUME ClusterAssumption ==
    /\ IsFiniteSet(Name) /\ IsFiniteSet(Get)
    /\ Lives \in Nat /\ Threshold \in Nat /\ Restores \in BOOLEAN
    /\ Patterns \subseteq SUBSET Name
    /\ Selectors \subseteq {"rr", "random", "order"}

Node == Name \X (1..Lives)

VARIABLES
    nodes,       \* the Map of nodes, in the order of insertion
    lives,       \* how often each name was added
    online,      \* node.online
    errorCount,  \* node.errorCount
    timer,       \* nodes whose restoreTimer is armed
    rrIndex,     \* the round-robin counter of each pattern
    call,        \* the closure of each get()
    destroyed,   \* _destroyed
    remaining,   \* remaining of each destroy()
    closing,     \* pools each destroy() has not heard from
    replies,     \* calls of each destroy() callback, -1 before
    steady,      \* history: nodes that matched a get() and were online ever since
    firsts       \* history: first picks by pattern since its candidates changed

nodeVars == <<nodes, lives, online, errorCount, timer>>
getVars == <<rrIndex, call>>
destroyVars == <<destroyed, remaining, closing, replies>>
vars == <<nodeVars, getVars, destroyVars, steady, firsts>>

Fresh == [phase |-> "new", pattern |-> {}, selector |-> "rr", tried |-> {},
          node |-> <<>>]
Over(phase) == [Fresh EXCEPT !.phase = phase]   \* the closure is dropped

Init ==
    /\ nodes = <<>> /\ lives = [x \in Name |-> 0]
    /\ online = [n \in Node |-> FALSE] /\ errorCount = [n \in Node |-> 0]
    /\ timer = {}
    /\ rrIndex = [p \in Patterns |-> 0]
    /\ call = [g \in Get |-> Fresh]
    /\ destroyed = FALSE
    /\ remaining = [d \in Destroyers |-> 0]
    /\ closing = [d \in Destroyers |-> {}]
    /\ replies = [d \in Destroyers |-> -1]
    /\ steady = [g \in Get |-> {}]
    /\ firsts = [p \in Patterns |-> [n \in Node |-> 0]]

Registered == ToSet(nodes)
HasName(x) == \E n \in Registered : n[1] = x

-----------------------------------------------------------------------------
\* Mutant: nodes with a recent failure are passed over.
UnfitOrHurt(up, p, tried) ==
    {n \in Node : n[1] \notin p \/ ~up[n] \/ n[1] \in tried \/ errorCount[n] > 0}

(* pick(): the candidates in the order of the Map, and which one is taken. *)
Unfit(up, p, tried) == {n \in Node : n[1] \notin p \/ ~up[n] \/ n[1] \in tried}

Candidates(up, p, tried) == Without(nodes, Unfit(up, p, tried))

Picks(c, p, selector) ==
    CASE selector = "random" -> ToSet(c)
      [] selector = "order" -> {c[1]}
      [] OTHER -> {c[(rrIndex[p] % Len(c)) + 1]}

\* Mutant: every pick advances the counter, failover or not.
AdvancesAlways(selector, tried) == selector = "rr"
Advances(selector, tried) == selector = "rr" /\ tried = {}

\* Mutant: the node is not remembered as tried.
TriedNot(c, n) == c.tried
Tried(c, n) == c.tried \cup {n[1]}

(* attempt(), where up is the state of the nodes when it runs: the next    *)
(* candidate's pool is asked, or the caller is told that there is none.    *)
Attempt(g, c, up) ==
    LET candidates == Candidates(up, c.pattern, c.tried)
    IN  \/ /\ candidates = <<>>
           /\ call' = [call EXCEPT ![g] = Over("failed")]
           /\ UNCHANGED rrIndex
        \/ /\ candidates # <<>>
           /\ \E n \in Picks(candidates, c.pattern, c.selector) :
                 call' = [call EXCEPT ![g] = [c EXCEPT !.phase = "trying",
                              !.node = n, !.tried = Tried(c, n)]]
           /\ rrIndex' = IF Advances(c.selector, c.tried)
                         THEN [rrIndex EXCEPT ![c.pattern] = @ + 1] ELSE rrIndex

(* get(pattern, selector, callback).                                       *)
GetCall(g, p, selector) ==
    /\ call[g].phase = "new"
    /\ IF destroyed
       THEN /\ call' = [call EXCEPT ![g] = Over("failed")]
            /\ UNCHANGED <<rrIndex, steady>>
       ELSE /\ Attempt(g, [Fresh EXCEPT !.pattern = p, !.selector = selector], online)
            /\ steady' = [steady EXCEPT ![g] =
                              {n \in Registered : n[1] \in p /\ online[n]}]
    /\ firsts' = IF selector = "rr" /\ call'[g].phase = "trying"
                 THEN [firsts EXCEPT ![p][call'[g].node] = @ + 1] ELSE firsts
    /\ UNCHANGED <<nodeVars, destroyVars>>

-----------------------------------------------------------------------------
(* The history after a change of the nodes.                                *)
Notice ==
    /\ steady' = [g \in Get |->
          {n \in steady[g] : /\ call[g].phase = "trying"
                            /\ n \in Registered' /\ online'[n]}]
    /\ firsts' = [p \in Patterns |->
          IF Candidates(online, p, {}) = Without(nodes', Unfit(online', p, {}))
          THEN firsts[p] ELSE [n \in Node |-> 0]]

\* Mutant: one timer for the whole cluster.
ArmedOnce(n) == IF timer = {} THEN {n} ELSE timer
Armed(n) == IF Restores THEN timer \cup {n} ELSE timer

EnoughFailures(n) ==
    Threshold > 0 /\ errorCount[n] + 1 >= Threshold /\ online[n]

(* noteFailure(): looks the node up by its name.                           *)
NoteFailure(n) ==
    IF ~HasName(n[1]) THEN UNCHANGED <<errorCount, online, timer>>
    ELSE /\ errorCount' = [errorCount EXCEPT ![n] = @ + 1]
         /\ IF EnoughFailures(n)
            THEN /\ online' = [online EXCEPT ![n] = FALSE]
                 /\ timer' = Armed(n)
            ELSE UNCHANGED <<online, timer>>

(* The node's pool answers with an error: count it, try the next.          *)
PoolFails(g) ==
    /\ call[g].phase = "trying"
    /\ NoteFailure(call[g].node)
    /\ Attempt(g, call[g], online')
    /\ UNCHANGED <<nodes, lives, destroyVars>>
    /\ Notice

(* The node's pool answers with a connection.                              *)
PoolGives(g) ==
    /\ call[g].phase = "trying" /\ call[g].node \in Registered
    /\ errorCount' = [errorCount EXCEPT ![call[g].node] = 0]
    /\ call' = [call EXCEPT ![g] = Over("served")]
    /\ UNCHANGED <<nodes, lives, online, timer, rrIndex, destroyVars, steady, firsts>>

-----------------------------------------------------------------------------
Add(x) ==
    /\ ~destroyed /\ ~HasName(x) /\ lives[x] < Lives
    /\ lives' = [lives EXCEPT ![x] = @ + 1]
    /\ nodes' = Append(nodes, <<x, lives'[x]>>)
    /\ online' = [online EXCEPT ![<<x, lives'[x]>>] = TRUE]
    /\ UNCHANGED <<errorCount, timer, getVars, destroyVars>>
    /\ Notice

(* remove() takes the node off the Map and destroys its pool.              *)
Drop(n) ==
    /\ nodes' = Without(nodes, {n})
    /\ timer' = timer \ {n}

RemoveNode(n) ==
    /\ n \in Registered /\ Drop(n)
    /\ UNCHANGED <<lives, online, errorCount, getVars, destroyVars>>
    /\ Notice

Forget(n) ==
    /\ online' = [online EXCEPT ![n] = TRUE]
    /\ errorCount' = [errorCount EXCEPT ![n] = 0]

Disarm(fired, n) == timer' = timer \ (fired \cup {n})

(* restore(x), called by the user or by the timers in fired.               *)
RestoreName(x, fired) ==
    /\ \/ /\ \E n \in Registered :
              n[1] = x /\ ~online[n] /\ Disarm(fired, n) /\ Forget(n)
       \/ /\ ~\E n \in Registered : n[1] = x /\ ~online[n]
          /\ timer' = timer \ fired
          /\ UNCHANGED <<online, errorCount>>
    /\ UNCHANGED <<nodes, lives, getVars, destroyVars>>
    /\ Notice

Restore(x) == RestoreName(x, {})

RestoreTimer(n) == n \in timer /\ RestoreName(n[1], {n})

-----------------------------------------------------------------------------
(* destroy(): every pool is destroyed, its callback counts down.           *)
Destroy(d) ==
    /\ replies[d] = -1
    /\ destroyed' = TRUE
    /\ nodes' = <<>> /\ timer' = timer \ Registered
    /\ remaining' = [remaining EXCEPT ![d] = Len(nodes)]
    /\ closing' = [closing EXCEPT ![d] = Registered]
    /\ replies' = [replies EXCEPT ![d] = IF nodes = <<>> THEN 1 ELSE 0]
    /\ UNCHANGED <<lives, online, errorCount, getVars>>
    /\ Notice

LastPool(d) == remaining[d] = 1

PoolDestroyed(d, n) ==
    /\ n \in closing[d]
    /\ closing' = [closing EXCEPT ![d] = @ \ {n}]
    /\ remaining' = [remaining EXCEPT ![d] = @ - 1]
    /\ replies' = [replies EXCEPT ![d] = IF LastPool(d) THEN @ + 1 ELSE @]
    /\ UNCHANGED <<nodeVars, getVars, destroyed, steady, firsts>>

-----------------------------------------------------------------------------
Next ==
    \/ \E g \in Get :
          \/ \E p \in Patterns, selector \in Selectors : GetCall(g, p, selector)
          \/ PoolFails(g) \/ PoolGives(g)
    \/ \E x \in Name : Add(x) \/ Restore(x)
    \/ \E n \in Node : RemoveNode(n) \/ RestoreTimer(n)
    \/ \E d \in Destroyers : Destroy(d) \/ \E n \in Node : PoolDestroyed(d, n)

Spec == Init /\ [][Next]_vars

(* Pools answer (module Pool) and timers fire.                             *)
FairSpec ==
    /\ Spec
    /\ \A g \in Get : WF_vars(PoolFails(g) \/ PoolGives(g))
    /\ \A n \in Node : WF_vars(RestoreTimer(n))
    /\ \A d \in Destroyers : \A n \in Node : WF_vars(PoolDestroyed(d, n))

-----------------------------------------------------------------------------
(* The types of the variables.                                             *)
TypeOK ==
    /\ nodes \in Seq(Node) /\ lives \in [Name -> 0..Lives]
    /\ online \in [Node -> BOOLEAN] /\ errorCount \in [Node -> Nat]
    /\ timer \subseteq Node
    /\ rrIndex \in [Patterns -> Nat]
    /\ call \in [Get -> [phase : {"new", "trying", "served", "failed"},
                         pattern : SUBSET Name, selector : {"rr", "random", "order"},
                         tried : SUBSET Name, node : Node \cup {<<>>}]]
    /\ destroyed \in BOOLEAN
    /\ remaining \in [Destroyers -> Nat] /\ replies \in [Destroyers -> {-1, 0, 1}]
    /\ closing \in [Destroyers -> SUBSET Node]
    /\ steady \in [Get -> SUBSET Node]
    /\ firsts \in [Patterns -> [Node -> Nat]]

(* pool-cluster.ts:216-219: "only when every candidate has failed does the *)
(* callback receive the last error": a node that matched and was online    *)
(* throughout the call has been tried.                                     *)
FailsOnlyAfterAll ==
    [][\A g \in Get : call[g].phase # "failed" /\ call'[g].phase = "failed"
          => \A n \in steady'[g] : n[1] \in call[g].tried]_vars

(* pool-cluster.ts:182-184: round-robin spreads the calls evenly over the  *)
(* candidates as long as these stay the same, failovers or not.            *)
EvenSpread ==
    \A p \in Patterns :
        LET c == ToSet(Candidates(online, p, {}))
        IN  \A n, m \in c : firsts[p][n] <= firsts[p][m] + 1

(* Every get() is answered.                                                *)
EveryGetAnswered ==
    \A g \in Get : call[g].phase = "trying" ~> call[g].phase \in {"served", "failed"}

(* A node is not offline for ever.                                         *)
OfflineEnds ==
    Restores => \A n \in Node :
        n \in Registered /\ ~online[n] ~> n \notin Registered \/ online[n]
=============================================================================
