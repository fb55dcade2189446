------------------------------ MODULE Lifecycle ------------------------------
(***************************************************************************)
(* One contract call: callRestroom of packages/core/src/index.ts together  *)
(* with getHooks and the registration of hooks in packages/core/src        *)
(* (hooks.ts, restroom.ts).                                                *)
(*                                                                         *)
(* The middlewares of a request register their hooks in res.locals before  *)
(* the request reaches the core.  Then a call walks through phases.  Entering  *)
(* a phase starts every hook registered for it; they run concurrently and  *)
(* each settles in its own time.  The call waits on the Promise.all of the *)
(* phase: it goes on when all of them have resolved, or as soon as one has *)
(* rejected, and then the others are left running behind.                  *)
(***************************************************************************)
EXTENDS FiniteSets

CONSTANTS
  Hooks,       \* the hooks the middlewares may register
  PhaseOf,     \* the phase each hook is registered for
  Zenroom,     \* stands for Zenroom where the source of an error is named
  Arguments,   \* stands for the data of the call, likewise
  None         \* no error

HookPhases == {"onInit", "onBefore", "onSuccess", "onAfter", "onError",
               "onException", "onFinish"}

ASSUME RegistrationAssumption ==
  /\ PhaseOf \in [Hooks -> HookPhases]
  /\ Zenroom \notin Hooks
  /\ Arguments \notin Hooks \cup {Zenroom}
  /\ None \notin Hooks \cup {Zenroom, Arguments}

VARIABLES
  pc,              \* the phase the request is in, or how the call has settled
  status,          \* what each hook is doing
  rejection,       \* the first rejection among the hooks of the current phase
  caught,          \* the error travelling down the promise chain
  zenroom_result,  \* is the raw output of Zenroom recorded?
  zenroom_errors,  \* the error recorded for the answer to the client
  outcome          \* restroomResult, handed to the hooks and to the caller

vars == <<pc, status, rejection, caught, zenroom_result, zenroom_errors, outcome>>

Settled == {"returned", "rejected"}
Sources == Hooks \cup {Zenroom, Arguments}
Messages == {"none", "zenroom execution error", "unexpected exception"}

\* The list res.locals[p].
HooksOf(p) == {h \in Hooks : PhaseOf[h] = p /\ status[h] # "unregistered"}
Running    == {h \in Hooks : status[h] = "running"}
Rejected   == {h \in Hooks : status[h] = "rejected"}

TypeOK ==
  /\ pc \in {"middlewares", "zenroom"} \cup HookPhases \cup Settled
  /\ status \in [Hooks -> {"unregistered", "idle", "running", "resolved", "rejected"}]
  /\ rejection \in Hooks \cup {None}
  /\ caught \in Sources \cup {None}
  /\ zenroom_result \in BOOLEAN
  /\ zenroom_errors \in Sources \cup {None}
  /\ outcome \in [result : BOOLEAN, error : Sources \cup {None}, message : Messages]

-----------------------------------------------------------------------------
\* Entering phase p: getHooks calls every registered hook before it awaits any.
Started(p) == [h \in Hooks |-> IF h \in HooksOf(p) THEN "running" ELSE status[h]]

Enter(p) == /\ pc' = p
            /\ status' = Started(p)
            /\ rejection' = None

\* Mutant: a phase ends with the first hook that resolves.
AllResolved_First(p) ==
  pc = p /\ (HooksOf(p) = {} \/ \E h \in HooksOf(p) : status[h] = "resolved")

\* The two ways the await of a phase ends.
AllResolved(p) == pc = p /\ \A h \in HooksOf(p) : status[h] = "resolved"
PhaseRejected(p) == pc = p /\ rejection # None

Init == /\ pc = "middlewares"
        /\ status = [h \in Hooks |-> "unregistered"]
        /\ rejection = None
        /\ caught = None
        /\ zenroom_result = FALSE
        /\ zenroom_errors = None
        /\ outcome = [result |-> FALSE, error |-> None, message |-> "none"]

-----------------------------------------------------------------------------
\* Hooks.

\* rr.onInit(fn), rr.onBefore(fn), ... in a middleware.
Register(h) ==
  /\ pc = "middlewares"
  /\ status[h] = "unregistered"
  /\ status' = [status EXCEPT ![h] = "idle"]
  /\ UNCHANGED <<pc, rejection, caught, zenroom_result, zenroom_errors, outcome>>

HookResolves(h) ==
  /\ status[h] = "running"
  /\ status' = [status EXCEPT ![h] = "resolved"]
  /\ UNCHANGED <<pc, rejection, caught, zenroom_result, zenroom_errors, outcome>>

\* Mutant: the rejection is not seen by the await of the phase.
HookRejects_Unseen(h) ==
  /\ status[h] = "running"
  /\ status' = [status EXCEPT ![h] = "rejected"]
  /\ UNCHANGED <<pc, rejection, caught, zenroom_result, zenroom_errors, outcome>>

\* Promise.all keeps the first rejection.  A hook left behind by an earlier
\* phase belongs to a Promise.all that has settled: its rejection is dropped.
HookRejects(h) ==
  /\ status[h] = "running"
  /\ status' = [status EXCEPT ![h] = "rejected"]
  /\ rejection' = IF PhaseOf[h] = pc /\ rejection = None THEN h ELSE rejection
  /\ UNCHANGED <<pc, caught, zenroom_result, zenroom_errors, outcome>>

-----------------------------------------------------------------------------
\* The call.

\* The last middleware has called next(): dispatch reaches callRestroom.
Begin ==
  /\ pc = "middlewares"
  /\ Enter("onInit")
  /\ UNCHANGED <<caught, zenroom_result, zenroom_errors, outcome>>

InitDone ==
  /\ AllResolved("onInit")
  /\ Enter("onBefore")
  /\ UNCHANGED <<caught, zenroom_result, zenroom_errors, outcome>>

BeforeDone ==
  /\ AllResolved("onBefore")
  /\ pc' = "zenroom"
  /\ UNCHANGED <<status, rejection, caught, zenroom_result, zenroom_errors, outcome>>

\* A failure before Zenroom runs goes straight to the outer catch.
EarlyFailure ==
  /\ PhaseRejected("onInit") \/ PhaseRejected("onBefore")
  /\ caught' = rejection
  /\ Enter("onException")
  /\ UNCHANGED <<zenroom_result, zenroom_errors, outcome>>

\* What the hooks have made of the data has no keys or is no JSON: building
\* the arguments of zencode_exec throws, before there is a promise with a
\* .catch and a .finally.
ArgumentsFail ==
  /\ pc = "zenroom"
  /\ caught' = Arguments
  /\ Enter("onException")
  /\ UNCHANGED <<zenroom_result, zenroom_errors, outcome>>

ZenroomSucceeds ==
  /\ pc = "zenroom"
  /\ zenroom_result' = TRUE
  /\ Enter("onSuccess")
  /\ UNCHANGED <<caught, zenroom_errors, outcome>>

\* Mutant: the error is not recorded for the client.
CatchError_NotRecorded(e) ==
  /\ caught' = e
  /\ UNCHANGED zenroom_errors
  /\ Enter("onError")

\* The .catch of the promise chain: the error is recorded and the onError
\* hooks are started.
CatchError(e) ==
  /\ caught' = e
  /\ zenroom_errors' = e
  /\ Enter("onError")

\* The contract fails, or it succeeds and its output does not parse as JSON
\* (then the raw output is recorded already).
ZenroomFails ==
  /\ pc = "zenroom"
  /\ CatchError(Zenroom)
  /\ zenroom_result' \in {zenroom_result, TRUE}
  /\ UNCHANGED outcome

\* Mutant: the outcome does not get the result.
SuccessDone_NoResult ==
  /\ AllResolved("onSuccess")
  /\ Enter("onAfter")
  /\ UNCHANGED <<caught, zenroom_result, zenroom_errors, outcome>>

SuccessDone ==
  /\ AllResolved("onSuccess")
  /\ outcome' = [outcome EXCEPT !.result = TRUE]
  /\ Enter("onAfter")
  /\ UNCHANGED <<caught, zenroom_result, zenroom_errors>>

\* Mutant: the onAfter hooks are not awaited.
AfterDone_NotAwaited ==
  /\ pc = "onAfter"
  /\ Enter("onFinish")
  /\ UNCHANGED <<caught, zenroom_result, zenroom_errors, outcome>>

AfterDone ==
  /\ AllResolved("onAfter")
  /\ Enter("onFinish")
  /\ UNCHANGED <<caught, zenroom_result, zenroom_errors, outcome>>

\* A hook that fails after Zenroom has succeeded takes the same .catch.
LateFailure ==
  /\ PhaseRejected("onSuccess") \/ PhaseRejected("onAfter")
  /\ CatchError(rejection)
  /\ UNCHANGED <<zenroom_result, outcome>>

\* Mutant: the error takes the place of its message.
ErrorDone_NoMessage ==
  /\ AllResolved("onError")
  /\ outcome' = [outcome EXCEPT !.error = caught, !.message = caught]
  /\ caught' = None
  /\ Enter("onFinish")
  /\ UNCHANGED <<zenroom_result, zenroom_errors>>

ErrorDone ==
  /\ AllResolved("onError")
  /\ outcome' = [outcome EXCEPT !.error = caught, !.message = "zenroom execution error"]
  /\ caught' = None
  /\ Enter("onFinish")
  /\ UNCHANGED <<zenroom_result, zenroom_errors>>

\* Mutant: no .finally.
ErrorHookFailed_NoFinally ==
  /\ PhaseRejected("onError")
  /\ caught' = rejection
  /\ Enter("onException")
  /\ UNCHANGED <<zenroom_result, zenroom_errors, outcome>>

\* .finally runs the onFinish hooks with the rejection of an onError hook
\* still travelling.
ErrorHookFailed ==
  /\ PhaseRejected("onError")
  /\ caught' = rejection
  /\ Enter("onFinish")
  /\ UNCHANGED <<zenroom_result, zenroom_errors, outcome>>

\* Mutant: .finally swallows the error that is travelling.
FinishDone_Swallows ==
  /\ AllResolved("onFinish")
  /\ pc' = "returned"
  /\ UNCHANGED <<status, rejection, caught, zenroom_result, zenroom_errors, outcome>>

FinishDone ==
  /\ AllResolved("onFinish")
  /\ \/ /\ caught = None
        /\ pc' = "returned"
        /\ UNCHANGED <<status, rejection>>
     \/ /\ caught # None
        /\ Enter("onException")
  /\ UNCHANGED <<caught, zenroom_result, zenroom_errors, outcome>>

FinishHookFailed ==
  /\ PhaseRejected("onFinish")
  /\ caught' = rejection
  /\ Enter("onException")
  /\ UNCHANGED <<zenroom_result, zenroom_errors, outcome>>

\* Mutant: the outcome does not get the error.
ExceptionDone_NoError ==
  /\ AllResolved("onException")
  /\ outcome' = [outcome EXCEPT !.message = "unexpected exception"]
  /\ pc' = "returned"
  /\ caught' = None
  /\ UNCHANGED <<status, rejection, zenroom_result, zenroom_errors>>

ExceptionDone ==
  /\ AllResolved("onException")
  /\ outcome' = [outcome EXCEPT !.error = caught, !.message = "unexpected exception"]
  /\ pc' = "returned"
  /\ caught' = None
  /\ UNCHANGED <<status, rejection, zenroom_result, zenroom_errors>>

\* Nothing catches the rejection of an onException hook: callRestroom rejects.
ExceptionHookFailed ==
  /\ PhaseRejected("onException")
  /\ pc' = "rejected"
  /\ UNCHANGED <<status, rejection, caught, zenroom_result, zenroom_errors, outcome>>

Hook(h) == HookResolves(h) \/ HookRejects(h)

Call == \/ Begin \/ InitDone \/ BeforeDone \/ EarlyFailure
        \/ ArgumentsFail \/ ZenroomSucceeds \/ ZenroomFails
        \/ SuccessDone \/ AfterDone \/ LateFailure
        \/ ErrorDone \/ ErrorHookFailed
        \/ FinishDone \/ FinishHookFailed
        \/ ExceptionDone \/ ExceptionHookFailed

Next == Call \/ \E h \in Hooks : Register(h) \/ Hook(h)

Spec == Init /\ [][Next]_vars

\* Every hook settles and the event loop runs every continuation: what the
\* middlewares' I/O (with its timeouts) and Node promise.
Fairness == /\ WF_vars(Call)
            /\ \A h \in Hooks : WF_vars(Hook(h))

FairSpec == Spec /\ Fairness

-----------------------------------------------------------------------------
\* What has gone wrong so far, in any hook, in Zenroom or before it.
Failed == \/ Rejected # {}
          \/ zenroom_errors = Zenroom
          \/ Arguments \in {caught, outcome.error}

\* Zenroom has been given the contract.
ZenroomRan == zenroom_result \/ zenroom_errors # None

Idle(p)     == \A h \in HooksOf(p) : status[h] = "idle"
Resolved(p) == \A h \in HooksOf(p) : status[h] = "resolved"

(***************************************************************************)
(* A failure is never swallowed and never invented: when a call returns,   *)
(* it carries an error exactly if a hook rejected, Zenroom failed or could *)
(* not be called.  The code spreads this over .then, .catch, .finally and  *)
(* an outer try.                                                           *)
(***************************************************************************)
NoSilentFailure == pc = "returned" => (outcome.error # None <=> Failed)

(***************************************************************************)
(* An answer without an error means that all the work is done: the result  *)
(* is there, every hook of the normal phases has resolved, and no hook of  *)
(* the error phases was started.                                           *)
(***************************************************************************)
CleanReturn ==
  pc = "returned" /\ outcome.error = None =>
    /\ outcome.result
    /\ \A p \in {"onInit", "onBefore", "onSuccess", "onAfter", "onFinish"} : Resolved(p)
    /\ Idle("onError") /\ Idle("onException")

(***************************************************************************)
(* A hook can be running outside its phase only if it was left behind by   *)
(* the rejection of another hook of the same phase.  As long as nothing    *)
(* has rejected, hooks of two phases never overlap, and no hook runs while *)
(* Zenroom does.                                                           *)
(***************************************************************************)
PhaseBarrier ==
  \A h \in Running : \/ PhaseOf[h] = pc
                     \/ \E g \in Rejected : PhaseOf[g] = PhaseOf[h]

(***************************************************************************)
(* A middleware can count on the work of the earlier phases: no onBefore   *)
(* hook starts before every onInit hook has resolved, no onSuccess hook    *)
(* before every onBefore hook, and no onAfter hook before every onSuccess  *)
(* hook has resolved and the result is in the outcome they receive.        *)
(***************************************************************************)
PhaseOrder ==
  /\ ~Idle("onBefore")  => Resolved("onInit")
  /\ ~Idle("onSuccess") => Resolved("onBefore") /\ zenroom_result
  /\ ~Idle("onAfter")   => Resolved("onSuccess") /\ outcome.result

(***************************************************************************)
(* Once Zenroom has run, the onFinish hooks are started before the call    *)
(* settles, whatever fails after that.                                     *)
(***************************************************************************)
FinishAfterZenroom ==
  pc \in Settled /\ ZenroomRan => \A h \in HooksOf("onFinish") : status[h] # "idle"

(***************************************************************************)
(* The error a call returns is one that happened; one reported as a        *)
(* Zenroom error is the one recorded in zenroom_errors, and one reported   *)
(* as an exception is so only after every onException hook has resolved.   *)
(***************************************************************************)
ErrorIsAccurate ==
  pc = "returned" /\ outcome.error # None =>
    /\ \/ outcome.error \in Rejected \cup {Arguments}
       \/ outcome.error = zenroom_errors
    /\ outcome.message = "zenroom execution error" => outcome.error = zenroom_errors
    /\ outcome.message = "unexpected exception"    => Resolved("onException")

\* A call whose hooks settle settles itself: no phase waits for ever.
CallSettles == <>(pc \in Settled)

(***************************************************************************)
(* docs/architecture.md says of the hooks that "once they are defined,     *)
(* they will all be executed", its diagram leads every execution through   *)
(* onFinish, "fired at the very end of the execution, you may want to use  *)
(* to cleanup things".  The code does not run onFinish when an onInit or   *)
(* an onBefore hook rejects.                                               *)
(***************************************************************************)
FinishAlwaysRuns ==
  pc \in Settled => \A h \in HooksOf("onFinish") : status[h] # "idle"

-----------------------------------------------------------------------------
\* What the awaiting caller sees of the call.
Answer == CASE pc = "returned" /\ outcome.error = None -> "result"
            [] pc = "returned" /\ outcome.error # None -> "error"
            [] pc = "rejected"                         -> "rejection"
            [] OTHER                                   -> "pending"

Abstract == INSTANCE ContractCall WITH answer <- Answer, failed <- Failed

\* The life cycle implements the contract call its callers rely on.
ImplementsContractCall == Abstract!Spec
=============================================================================
