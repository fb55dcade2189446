------------------------------- MODULE Dispatch -------------------------------
(***************************************************************************)
(* One request and its answer: dispatch, restroomDispatch, sendError and   *)
(* buildEndpointResponse of packages/core/src/index.ts around a contract   *)
(* call (ContractCall) or a chain (Chain), and what Express does with an   *)
(* error that is given to next().                                          *)
(*                                                                         *)
(* Two parties answer: dispatch, and the default error handler of Express, *)
(* which runs later, on its own, for every next(e).  Hooks of some         *)
(* middlewares (http, files) call next(e) before they throw, while the     *)
(* contract call goes on, or after it if they were left behind.            *)
(*                                                                         *)
(* The check of dispatch for the URL of a favicon is left out: dispatch is *)
(* mounted with app.use on a path that takes all of the URL, so it sees    *)
(* "/" as req.url whatever was asked for.                                  *)
(***************************************************************************)
EXTENDS ChainYml, Sequences

CONSTANTS
  Ymls, MaxElements,   \* see Chain
  MaxHandOvers         \* bound: hooks that call next(e) in one request

ASSUME DispatchAssumption ==
  /\ Ymls \subseteq Yml /\ MaxElements \in Nat \ {0}
  /\ MaxHandOvers \in Nat

VARIABLES
  kind,         \* what the URL asks for
  stage,        \* where dispatch is
  result,       \* the RestroomResult: none, ok, an error, or one with code ENOENT
  response,     \* what has been sent to the client
  connection,   \* the client's connection
  errors,       \* the next(e) whose default handler has not run
  handOvers,    \* how many hooks have called next(e)
  failures,     \* history: the contract calls that failed, by block and element
  unhandled     \* the promise rejection that ended the process

VARIABLES yml, pc, block, data, context, element, elements, callAnswer, callFailed,
          debugContext, path, calls, answer

callVars  == <<callAnswer, callFailed>>
restVars  == <<pc, block, data, context, element, elements, debugContext, path, calls, answer>>
runVars   == <<callVars, restVars>>
replyVars == <<response, connection, errors>>
vars == <<kind, stage, result, replyVars, handOvers, failures, unhandled, yml, runVars>>

Run  == INSTANCE Chain
Call == INSTANCE ContractCall WITH answer <- callAnswer, failed <- callFailed

Kinds == {"contract", "chain"}
Results == {"none", "ok", "error", "enoent"}

TypeOK ==
  /\ Run!TypeOK
  /\ kind \in Kinds
  /\ stage \in {"middlewares", "running", "respond", "lookup", "done", "crashed"}
  /\ result \in Results
  /\ response \in {"none", "200", "500", "404", "default"}
  /\ connection \in {"open", "destroyed"}
  /\ errors \in 0..MaxHandOvers + 1
  /\ handOvers \in 0..MaxHandOvers
  /\ failures \subseteq (Blocks \cup {None}) \X (0..MaxElements)
  /\ unhandled \in {"none", "onException", "headers sent", "lookup"}

Init ==
  /\ Run!Init
  /\ kind \in Kinds
  /\ stage = "middlewares"
  /\ result = "none" /\ response = "none" /\ connection = "open"
  /\ errors = 0 /\ handOvers = 0 /\ failures = {} /\ unhandled = "none"

\* Nothing handles the rejection of a promise: Node ends the process.
Crash(reason) == stage' = "crashed" /\ unhandled' = reason

Respond(r) == stage' = "respond" /\ result' = r

-----------------------------------------------------------------------------
\* restroomDispatch cannot read the contract or the yml.
MissingFile ==
  /\ stage = "middlewares"
  /\ Respond("error") \/ Respond("enoent")
  /\ UNCHANGED <<kind, replyVars, handOvers, failures, unhandled, yml, runVars>>

StartRun ==
  /\ stage = "middlewares"
  /\ stage' = "running"
  /\ UNCHANGED <<kind, result, replyVars, handOvers, failures, unhandled, yml, runVars>>

\* A call fails once; a contract that is called alone is in no block.
NoteFailure ==
  failures' = IF callFailed' /\ ~callFailed THEN failures \cup {<<block, element>>} ELSE failures

ContractStep ==
  /\ stage = "running"
  /\ kind = "contract"
  /\ Call!Next
  /\ NoteFailure
  /\ UNCHANGED <<kind, stage, result, replyVars, handOvers, unhandled, yml, restVars>>

ChainStep ==
  /\ stage = "running"
  /\ kind = "chain"
  /\ Run!Next
  /\ NoteFailure
  /\ UNCHANGED <<kind, stage, result, replyVars, handOvers, unhandled>>

\* A hook calls next(e) and rejects.
HandOver ==
  /\ handOvers < MaxHandOvers
  /\ handOvers' = handOvers + 1
  /\ errors' = errors + 1

HookHandsOver ==
  /\ stage = "running"
  /\ kind = "contract" \/ pc = "call"
  /\ callAnswer = "pending"
  /\ HandOver
  /\ callFailed' = TRUE
  /\ NoteFailure
  /\ UNCHANGED <<kind, stage, result, response, connection, unhandled, yml, callAnswer, restVars>>

\* A hook left behind by the failure of another one: nobody sees it reject.
LateHandOver ==
  /\ stage # "crashed"
  /\ failures # {}
  /\ HandOver
  /\ UNCHANGED <<kind, stage, result, response, connection, failures, unhandled, yml, runVars>>

\* Mutant: an error does not count.
ContractSettled_ErrorIgnored ==
  /\ stage = "running"
  /\ kind = "contract"
  /\ \/ callAnswer \in {"result", "error"} /\ Respond("ok") /\ UNCHANGED unhandled
     \/ callAnswer = "rejection" /\ Crash("onException") /\ UNCHANGED result
  /\ UNCHANGED <<kind, replyVars, handOvers, failures, yml, runVars>>

\* restroomDispatch returns the promise of callRestroom from its try without
\* awaiting it: a rejection passes its catch and leaves dispatch.
ContractSettled ==
  /\ stage = "running"
  /\ kind = "contract"
  /\ \/ callAnswer = "result" /\ Respond("ok") /\ UNCHANGED unhandled
     \/ callAnswer = "error" /\ (Respond("error") \/ Respond("enoent")) /\ UNCHANGED unhandled
     \/ callAnswer = "rejection" /\ Crash("onException") /\ UNCHANGED result
  /\ UNCHANGED <<kind, replyVars, handOvers, failures, yml, runVars>>

\* Mutant: the kind of error is taken for the result.
ChainSettled_ErrorKind ==
  /\ stage = "running"
  /\ kind = "chain"
  /\ answer.status # "none"
  /\ Respond(answer.error)
  /\ UNCHANGED <<kind, replyVars, handOvers, failures, unhandled, yml, runVars>>

ChainSettled ==
  /\ stage = "running"
  /\ kind = "chain"
  /\ answer.status # "none"
  /\ Respond(IF answer.status = "ok" THEN "ok"
             ELSE IF answer.enoent THEN "enoent" ELSE "error")
  /\ UNCHANGED <<kind, replyVars, handOvers, failures, unhandled, yml, runVars>>

-----------------------------------------------------------------------------
\* res.status(s).json() or .send(), which throw once headers have been sent.
Send(s) ==
  \/ /\ response = "none"
     /\ response' = s
     /\ stage' = "done"
     /\ UNCHANGED unhandled
  \/ /\ response # "none"
     /\ Crash("headers sent")
     /\ UNCHANGED response

\* buildEndpointResponse
SendResult ==
  /\ stage = "respond"
  /\ result = "ok"
  /\ Send("200")
  /\ UNCHANGED <<kind, result, connection, errors, handOvers, failures, yml, runVars>>

\* Mutant: the error is given to next() and not sent.
SendError_NextOnly ==
  /\ stage = "respond"
  /\ result = "error"
  /\ stage' = "done"
  /\ errors' = errors + 1
  /\ UNCHANGED <<kind, result, response, connection, handOvers, failures, unhandled, yml, runVars>>

\* Mutant: headersSent is not looked at.
SendError_Unchecked ==
  /\ stage = "respond"
  /\ result = "error"
  /\ Send("500")
  /\ errors' = errors + 1
  /\ UNCHANGED <<kind, result, connection, handOvers, failures, yml, runVars>>

\* sendError
SendError ==
  /\ stage = "respond"
  /\ result = "error"
  /\ stage' = "done"
  /\ IF response = "none"
     THEN response' = "500" /\ errors' = errors + 1
     ELSE UNCHANGED <<response, errors>>
  /\ UNCHANGED <<kind, result, connection, handOvers, failures, unhandled, yml, runVars>>

LookUpContracts ==
  /\ stage = "respond"
  /\ result = "enoent"
  /\ stage' = "lookup"
  /\ UNCHANGED <<kind, result, replyVars, handOvers, failures, unhandled, yml, runVars>>

\* Mutant: the message is looked up and not sent.
LookedUp_NotSent ==
  /\ stage = "lookup"
  /\ \/ stage' = "done" /\ UNCHANGED unhandled
     \/ Crash("lookup")
  /\ UNCHANGED <<kind, result, replyVars, handOvers, failures, yml, runVars>>

\* getMessage resolves, or reading the contracts directory fails.
LookedUp ==
  /\ stage = "lookup"
  /\ \/ Send("404")
     \/ Crash("lookup") /\ UNCHANGED response
  /\ UNCHANGED <<kind, result, connection, errors, handOvers, failures, yml, runVars>>

\* The default error handler of Express.
DefaultHandler ==
  /\ stage # "crashed"
  /\ errors > 0
  /\ errors' = errors - 1
  /\ IF response = "none"
     THEN response' = "default" /\ UNCHANGED connection
     ELSE connection' = "destroyed" /\ UNCHANGED response
  /\ UNCHANGED <<kind, stage, result, handOvers, failures, unhandled, yml, runVars>>

Next ==
  \/ MissingFile \/ StartRun
  \/ ContractStep \/ ChainStep \/ HookHandsOver \/ LateHandOver
  \/ ContractSettled \/ ChainSettled
  \/ SendResult \/ SendError \/ LookUpContracts \/ LookedUp
  \/ DefaultHandler

Spec == Init /\ [][Next]_vars

\* Contract calls settle (Lifecycle!CallSettles), the file system answers and
\* the event loop runs what awaits them.
FairSpec == Spec /\ WF_vars(Next)

-----------------------------------------------------------------------------
(***************************************************************************)
(* A 200 hides no failure of a hook or of Zenroom, of a contract or        *)
(* anywhere in a chain, but one: the loop of a forEach forgets that the    *)
(* contract failed for one element once it has succeeded for a later one   *)
(* of the same block.  A failure in another block, or of the last element, *)
(* is never answered 200.                                                  *)
(***************************************************************************)
LaterElementSucceeded(b, e) ==
  /\ kind = "chain" /\ yml.forEach[b]
  /\ \E i \in DOMAIN calls : calls[i].block = b /\ calls[i].element > e /\ calls[i].ok

OkHidesNoFailure ==
  response = "200" => \A f \in failures : LaterElementSucceeded(f[1], f[2])

(***************************************************************************)
(* As long as no hook calls next(e) itself, the client gets what the run   *)
(* has come to: 200 exactly for a result, 404 exactly for an ENOENT, and   *)
(* never the answer of the default error handler.  Its connection is       *)
(* closed only after a 500.                                                *)
(***************************************************************************)
ClientGetsTheResult ==
  handOvers = 0 /\ response # "none" =>
    /\ response = "200" <=> result = "ok"
    /\ response = "404" <=> result = "enoent"
    /\ response # "default"
    /\ connection = "destroyed" => response = "500"

(***************************************************************************)
(* No rejection escapes and ends the process except that of an onException *)
(* hook outside a chain, that of the 404 lookup, and the answer of a       *)
(* request that a hook's next(e) has already answered.                     *)
(***************************************************************************)
OnlyKnownCrashes ==
  stage = "crashed" =>
    \/ kind = "contract" /\ callAnswer = "rejection" /\ response \in {"none", "default"}
    \/ unhandled = "lookup" /\ result = "enoent"
    \/ response = "default" /\ handOvers > 0 /\ result \in {"ok", "enoent"}

\* Every request is answered, but for those whose process has ended.
Answered == <>(response # "none" \/ stage = "crashed")

(***************************************************************************)
(* docs/packages/utils.md:64 describes the answer 404 as the "error        *)
(* message to show when hit a non existent contract".  The code sends it   *)
(* for any error with code ENOENT, from a later block of a chain and from  *)
(* hooks as well, after contracts have run.                                *)
(***************************************************************************)
NotFoundMeansNothingRan == response = "404" => path = <<>> /\ failures = {}
=============================================================================
