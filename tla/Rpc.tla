-------------------------------- MODULE Rpc --------------------------------
(***************************************************************************)
(* What a connection promises those who call it: a call is answered in the *)
(* order of the calls, or at once when nothing has to be waited for; when  *)
(* the connection is lost every call that waits fails; nothing is answered *)
(* twice.                                                                  *)
(***************************************************************************)
EXTENDS Sequences

CONSTANT Op

VARIABLES phase, line

Init == phase = [o \in Op |-> "new"] /\ line = <<>>

Begin(o) ==
    /\ phase[o] = "new"
    /\ phase' = [phase EXCEPT ![o] = "waiting"]
    /\ line' = Append(line, o)

AtOnce(o) ==
    /\ phase[o] = "new"
    /\ phase' \in {[phase EXCEPT ![o] = how] : how \in {"answered", "failed"}}
    /\ UNCHANGED line

Answer ==
    /\ line # <<>>
    /\ phase' = [phase EXCEPT ![Head(line)] = "answered"]
    /\ line' = Tail(line)

Break ==
    /\ phase' = [o \in Op |-> IF phase[o] = "waiting" THEN "failed" ELSE phase[o]]
    /\ line' = <<>>

Next == (\E o \in Op : Begin(o) \/ AtOnce(o)) \/ Answer \/ Break

Spec == Init /\ [][Next]_<<phase, line>>
=============================================================================
