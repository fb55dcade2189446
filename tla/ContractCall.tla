---------------------------- MODULE ContractCall ----------------------------
(***************************************************************************)
(* What one contract call promises to whoever awaits it: it settles once,  *)
(* with a result if nothing it ran has failed and with an error otherwise. *)
(* A call that rejects (instead of returning an error) is possible, but    *)
(* only after a failure.  Nothing can fail any more once a call has        *)
(* returned a result.                                                      *)
(*                                                                         *)
(* The callers of callRestroom (restroomDispatch and                       *)
(* evaluateSingleInstance in packages/core/src/index.ts) rely on this and  *)
(* on nothing else; module Lifecycle is shown to implement it.             *)
(***************************************************************************)

VARIABLES
  answer,   \* what the caller's await has produced so far
  failed    \* has a hook or Zenroom failed during this call?

vars == <<answer, failed>>

Answers == {"pending", "result", "error", "rejection"}

Init == /\ answer = "pending"
        /\ failed = FALSE

\* A hook rejects, or Zenroom does.  Hooks that are still running after the
\* call has answered (they were left behind by an earlier failure) may fail
\* too: failed is TRUE already.
Fail == /\ answer = "pending" \/ failed
        /\ failed' = TRUE
        /\ UNCHANGED answer

ReturnResult == /\ answer = "pending"
                /\ ~failed
                /\ answer' = "result"
                /\ UNCHANGED failed

ReturnError == /\ answer = "pending"
               /\ failed
               /\ answer' \in {"error", "rejection"}
               /\ UNCHANGED failed

Next == Fail \/ ReturnResult \/ ReturnError

Spec == Init /\ [][Next]_vars
=============================================================================
