------------------------------- MODULE Calls -------------------------------
(* What a caller that asks a slower partner is promised: every call is      *)
(* settled at most once, either with the answer to that very call or with   *)
(* the caller's own substitute, and never changes after that.               *)
CONSTANT Callers

VARIABLE call       \* caller -> "idle", "open", "own" or "spare"

Init == call = [c \in Callers |-> "idle"]

(* A partner at hand answers, or the call is refused, before anyone else    *)
(* takes a step (from idle); several calls may be settled by one step.      *)
Moves == {<<"idle", "open">>, <<"idle", "own">>, <<"idle", "spare">>,
          <<"open", "own">>, <<"open", "spare">>}

Next == /\ DOMAIN call' = Callers
        /\ \A c \in Callers : \/ call'[c] = call[c]
                              \/ <<call[c], call'[c]>> \in Moves

Spec == Init /\ [][Next]_call

=============================================================================
