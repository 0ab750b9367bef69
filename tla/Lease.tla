------------------------------- MODULE Lease -------------------------------
(***************************************************************************)
(* What a connection pool promises its callers, whatever its bookkeeping:  *)
(* each request is first new, then waiting, then refused or given a        *)
(* connection that nobody else holds, then released; there are never more  *)
(* than MaxSize leases; a closed pool gives out nothing.                   *)
(***************************************************************************)
EXTENDS Naturals, FiniteSets

CONSTANTS Req, MaxSize

VARIABLES lease, closed

Held(l) == {r \in Req : l[r] \in Req}

Exclusive(l) == \A r1, r2 \in Held(l) : l[r1] = l[r2] => r1 = r2

Init ==
    /\ lease = [r \in Req |-> "new"]
    /\ closed = FALSE

(* How the life of one request may go on.                                  *)
Succeeds(before, after) ==
    \/ before = after
    \/ before = "new" /\ after \in {"waiting", "refused"}
    \/ before \in {"new", "waiting"} /\ after \in Req /\ ~closed
    \/ before = "waiting" /\ after = "refused"
    \/ before \in Req /\ after = "released"

(* One step: any requests move on, at most one of them is given a          *)
(* connection, and the leases stay exclusive and within the bound.         *)
Move ==
    /\ lease' \in [Req -> Req \cup {"new", "waiting", "refused", "released"}]
    /\ \A r \in Req : Succeeds(lease[r], lease'[r])
    /\ Cardinality(Held(lease') \ Held(lease)) <= 1
    /\ Exclusive(lease')
    /\ Cardinality(Held(lease')) <= MaxSize
    /\ closed' = closed

(* Closing refuses some of those who wait: those still being served may   *)
(* be refused later.                                                       *)
Close ==
    /\ closed' = TRUE
    /\ \E R \in SUBSET {r \in Req : lease[r] = "waiting"} :
          lease' = [r \in Req |-> IF r \in R THEN "refused" ELSE lease[r]]

Next == Move \/ Close

Spec == Init /\ [][Next]_<<lease, closed>>
=============================================================================
