---------------------------- MODULE SharedInput ----------------------------
(***************************************************************************)
(* Variables that a middleware package declares outside of the function    *)
(* Express calls: one for the process. What matters of them is which       *)
(* request has set them last, and whose values a step uses.                *)
(***************************************************************************)
EXTENDS Requests

\* The first step of an onBefore hook sets the variables of the package.
ASSUME SharedAssumption ==
  \A p \in UNION Scenarios : p.mw \in {"files", "logger", "sawroom", "ethereum"} =>
    \A c \in DOMAIN p.calls :
      /\ p.calls[c].before # <<>>
      /\ \A i \in DOMAIN p.calls[c].before : p.calls[c].before[i].op = p.mw <=> i = 1

VARIABLES
  owner,   \* variable of a package -> the request that set it last
  uses     \* history: which values a step of a request has used

sharedVars == <<owner, uses>>

Shared == {"files.input", "logger.input", "sawroom.input", "sawroom.address", "ethereum.web3"}

SharedTypeOK ==
  /\ owner \in [Shared -> Requests \cup {None}]
  /\ uses \subseteq [by : Requests, call : Nat, hook : {"before", "success"},
                     of : [Shared -> Requests \cup {None}], what : SUBSET Shared,
                     met : SUBSET Requests]

SharedInit ==
  /\ owner = [v \in Shared |-> None]
  /\ uses = {}

\* A step of r uses these variables with the values they have in o.
UseOf(r, what, o) ==
  [by |-> r, call |-> call[r], hook |-> stage[r], what |-> what, met |-> met[r],
   of |-> [v \in Shared |-> IF v \in what THEN o[v] ELSE None]]

\* r sets these variables; what it has used in the same turn of the event loop
\* is its own.
Set(r, vars) == owner' = [v \in Shared |-> IF v \in vars THEN r ELSE owner[v]]

-----------------------------------------------------------------------------
\* A hook that calls a service again and again, as those of sawroom and
\* ethereum do. needs tells which variables an operation reads when its turn
\* comes; at is the number of the request that is under way.

\* A variable the operation needs is not set, or what it looks up in the data
\* of the contract is not what it should be.
Unable(step, needs, o) == ~step.valid \/ \E v \in needs[step.op] : o[v] = None

\* The hook goes on with these steps, o being the variables now.
Calls(r, steps, needs, o) ==
  \/ /\ steps = <<>>
     /\ todo' = [todo EXCEPT ![r] = <<>>] /\ at' = [at EXCEPT ![r] = 0]
     /\ UNCHANGED <<plan, call, stage, reason, met, up, uses>>
  \/ /\ steps # <<>> /\ Unable(Head(steps), needs, o)
     /\ Fail(r, "unable")
     /\ UNCHANGED uses
  \/ /\ steps # <<>> /\ ~Unable(Head(steps), needs, o)
     /\ todo' = [todo EXCEPT ![r] = steps] /\ at' = [at EXCEPT ![r] = 1]
     /\ uses' = uses \cup {UseOf(r, needs[Head(steps).op], o)}
     /\ UNCHANGED <<plan, call, stage, reason, met, up>>

StartsCalls(r, needs) ==
  /\ InHook(r, "success") /\ at[r] = 0
  /\ Calls(r, todo[r], needs, owner)
  /\ UNCHANGED <<data, owner>>

\* A request of one of these operations is under way.
Calling(r, ops) == up /\ todo[r] # <<>> /\ at[r] > 0 /\ Step(r).op \in ops

\* The answer to the request joins the data of the contract, or the result, of
\* which nothing is used again.
CallAnswered(r, needs) ==
  /\ IF stage[r] = "before" THEN data' = [data EXCEPT ![r][Step(r).name] = <<"answer", call[r]>>]
     ELSE UNCHANGED data
  /\ Calls(r, Tail(todo[r]), needs, owner)
  /\ UNCHANGED owner

\* The answer is not one the code accepts: the hook throws.
AnswerRefused(r) == Reject(r, "refused") /\ UNCHANGED sharedVars

CallFails(r, ops) ==
  /\ Calling(r, ops)
  /\ Reject(r, "service")
  /\ UNCHANGED sharedVars
=============================================================================
