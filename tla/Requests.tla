------------------------------ MODULE Requests ------------------------------
(***************************************************************************)
(* The requests one process serves, as the middlewares see them.           *)
(*                                                                         *)
(* A middleware is called once for a web request; the variables of that    *)
(* call live as long as the request, and the hooks it registers run once   *)
(* for each contract the request calls (one, or those of a chain). Between *)
(* onBefore and onSuccess Zenroom runs. This is the view of one hook that  *)
(* module Lifecycle has of all of them.                                    *)
(*                                                                         *)
(* What the contract asks a middleware for is a plan: for each contract    *)
(* call the steps of the onBefore and of the onSuccess hook, in the order  *)
(* in which the code of the hook looks for its sentences. An action of a   *)
(* middleware is what runs from one await to the next, together with the   *)
(* answer that ends it.                                                    *)
(***************************************************************************)
EXTENDS Integers, Sequences, FiniteSets

CONSTANTS
  Requests,   \* the web requests
  Scenarios,  \* sets of plans: the requests follow plans of one scenario
  Names,      \* names in the data of a contract
  None        \* no value

IsSequence(s) == s \in Seq({s[i] : i \in DOMAIN s})

\* A plan names the middleware and has at least one contract call; the hooks of
\* a call have sequences of steps.
ASSUME RequestsAssumption ==
  /\ \A s \in Scenarios : s # {}
  /\ \A p \in UNION Scenarios :
       /\ DOMAIN p = {"mw", "calls"} /\ p.calls # <<>> /\ IsSequence(p.calls)
       /\ \A c \in DOMAIN p.calls :
            IsSequence(p.calls[c].before) /\ IsSequence(p.calls[c].success)

\* What plans ask of this hook of a middleware, step by step.
Asked(mw, hook) ==
  UNION {UNION {{p.calls[c][hook][i] : i \in DOMAIN p.calls[c][hook]} : c \in DOMAIN p.calls} :
           p \in {q \in UNION Scenarios : q.mw = mw}}

VARIABLES
  plan,     \* what the contracts of the request ask for
  call,     \* the number of the current contract call
  stage,    \* waiting for its next call, in a hook, or over
  todo,     \* the steps of the current hook that are not finished
  at,       \* how many awaits of the first of them are over
  data,     \* the data of the current contract: name -> value
  reason,   \* why the request has failed
  met,      \* history: the requests that were in a contract call while r was in this one
  up        \* the process is running

frame == <<plan, call, stage, todo, at, data, reason, met, up>>

Stages == {"waiting", "before", "success", "done", "failed"}

\* Why a request fails, and "" before it does.
Reasons == {
  "", "malformed data", "zenroom", "not defined", "input missing", "missing variable",
  "not connected", "connection", "null answer", "no keys", "not an integer", "key not defined",
  "database", "duplicate", "not declared", "sql", "step missing", "invalid", "retries", "node",
  "ENOENT", "endpoint", "post", "invalid url", "lookup", "file", "folder", "download", "unable",
  "refused", "service", "clone", "no repository", "no details", "add", "commit", "no client",
  "influxdb"}

RequestsTypeOK ==
  /\ plan \in [Requests -> UNION Scenarios]
  /\ call \in [Requests -> Nat]
  /\ stage \in [Requests -> Stages]
  /\ at \in [Requests -> Nat]
  /\ \A r \in Requests : at[r] # 0 => todo[r] # <<>>
  /\ DOMAIN data = Requests /\ \A r \in Requests : DOMAIN data[r] = Names
  /\ reason \in [Requests -> Reasons]
  /\ met \in [Requests -> SUBSET Requests]
  /\ up \in BOOLEAN

RequestsInit ==
  /\ \E s \in Scenarios : plan \in [Requests -> s]
  /\ call = [r \in Requests |-> 0]
  /\ stage = [r \in Requests |-> "waiting"]
  /\ todo = [r \in Requests |-> <<>>]
  /\ at = [r \in Requests |-> 0]
  /\ data = [r \in Requests |-> [n \in Names |-> None]]
  /\ reason = [r \in Requests |-> ""]
  /\ met = [r \in Requests |-> {}]
  /\ up = TRUE

-----------------------------------------------------------------------------
\* What the middlewares build their actions from.

Uses(r, mw) == plan[r].mw = mw

Step(r) == Head(todo[r])

InHook(r, hook) == up /\ stage[r] = hook /\ todo[r] # <<>>

\* A step with this name comes next, and i of its awaits are over.
Doing(r, hook, op, i) == InHook(r, hook) /\ Step(r).op = op /\ at[r] = i

Over(r) == stage[r] \in {"done", "failed"}

\* The step is finished.
Proceed(r) ==
  /\ todo' = [todo EXCEPT ![r] = Tail(@)]
  /\ at' = [at EXCEPT ![r] = 0]
  /\ UNCHANGED <<plan, call, stage, reason, met, up>>

\* The next await of the step.
Await(r) ==
  /\ at' = [at EXCEPT ![r] = @ + 1]
  /\ UNCHANGED <<plan, call, stage, todo, data, reason, met, up>>

\* The hook rejects, which ends the contract call and the chain.
Fail(r, why) ==
  /\ stage' = [stage EXCEPT ![r] = "failed"]
  /\ reason' = [reason EXCEPT ![r] = why]
  /\ todo' = [todo EXCEPT ![r] = <<>>]
  /\ at' = [at EXCEPT ![r] = 0]
  /\ UNCHANGED <<plan, call, met, up>>

Reject(r, why) == Fail(r, why) /\ UNCHANGED data

\* A value joins the data of the contract, and the step is finished.
Receive(r, name, value) ==
  /\ data' = [data EXCEPT ![r][name] = value]
  /\ Proceed(r)

Continue(r) == Proceed(r) /\ UNCHANGED data

\* An error that no promise carries to a handler ends the process.
Crash == up' = FALSE /\ UNCHANGED <<plan, call, stage, todo, at, data, reason, met>>

\* What the current contract call of r has computed.
Output(r) == <<"output", r, call[r]>>

-----------------------------------------------------------------------------
\* callRestroom for a request with one middleware.

\* The next contract: new data, and the onBefore hook starts.
EnterBefore(r) ==
  /\ up /\ stage[r] = "waiting"
  /\ call' = [call EXCEPT ![r] = @ + 1]
  /\ stage' = [stage EXCEPT ![r] = "before"]
  /\ todo' = [todo EXCEPT ![r] = plan[r].calls[call[r] + 1].before]
  /\ data' = [data EXCEPT ![r] = [n \in Names |-> None]]
  /\ LET active == {q \in Requests : stage[q] \in {"before", "success"}}
     IN met' = [q \in Requests |-> IF q = r THEN active
                                   ELSE IF q \in active THEN met[q] \cup {r} ELSE met[q]]
  /\ UNCHANGED <<plan, at, reason, up>>

\* combineDataKeys, with which every onBefore hook but that of timestamp starts,
\* throws: data or keys are not the JSON they should be.
DataIsMalformed(r) ==
  /\ up /\ stage[r] = "waiting"
  /\ ~Uses(r, "timestamp")
  /\ Reject(r, "malformed data")

\* The onBefore hook has resolved, Zenroom runs, the onSuccess hook starts.
ZenroomRuns(r) ==
  /\ up /\ stage[r] = "before" /\ todo[r] = <<>>
  /\ stage' = [stage EXCEPT ![r] = "success"]
  /\ todo' = [todo EXCEPT ![r] = plan[r].calls[call[r]].success]
  /\ UNCHANGED <<plan, call, at, data, reason, met, up>>

ZenroomRejects(r) ==
  /\ up /\ stage[r] = "before" /\ todo[r] = <<>>
  /\ Reject(r, "zenroom")

\* The onSuccess hook has resolved: the next contract of the chain, or the end.
SuccessEnds(r) ==
  /\ up /\ stage[r] = "success" /\ todo[r] = <<>>
  /\ stage' = [stage EXCEPT ![r] = IF call[r] < Len(plan[r].calls) THEN "waiting" ELSE "done"]
  /\ UNCHANGED <<plan, call, todo, at, data, reason, met, up>>

RequestsNext ==
  \E r \in Requests :
    EnterBefore(r) \/ DataIsMalformed(r) \/ ZenroomRuns(r) \/ ZenroomRejects(r) \/ SuccessEnds(r)
=============================================================================
