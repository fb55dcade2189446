------------------------------ MODULE Identity ------------------------------
(***************************************************************************)
(* packages/identity/src/index.ts. Like the parallel sentences of http,    *)
(* but the first request that fails rejects the hook (Promise.all).        *)
(***************************************************************************)
EXTENDS Requests

\* The hook of a contract that names identities goes on to wait for them.
ASSUME IdentityAssumption ==
  \A p \in UNION Scenarios : p.mw = "identity" =>
    \A c \in DOMAIN p.calls :
      LET before == p.calls[c].before
      IN \A i \in DOMAIN before : before[i].op = "resolve" =>
           /\ before[i].name \in Names
           /\ \E j \in DOMAIN before : j > i /\ before[j].op = "lookups"

VARIABLES
  lookups,   \* promises with outputs: [call, output, state]
  awaited    \* how many of them a Promise.all waits for

identityVars == <<lookups, awaited>>

IdentityTypeOK ==
  \A r \in Requests :
    /\ \A i \in DOMAIN lookups[r] : lookups[r][i].state \in {"pending", "answered", "error"}
    /\ awaited[r] \in 0..Len(lookups[r])

IdentityInit ==
  /\ lookups = [r \in Requests |-> <<>>]
  /\ awaited = [r \in Requests |-> 0]

\* RESOLVE_DID: an address that is no URL ends the hook, after the requests
\* for the identities before it have been sent.
Resolves(r) ==
  /\ Doing(r, "before", "resolve", 0)
  /\ IF Step(r).valid
     THEN /\ lookups' = [lookups EXCEPT ![r] =
               Append(@, [call |-> call[r], output |-> Step(r).name, state |-> "pending"])]
          /\ Continue(r)
     ELSE Reject(r, "invalid url") /\ UNCHANGED lookups
  /\ UNCHANGED awaited

WaitsForLookups(r) ==
  /\ Doing(r, "before", "lookups", 0)
  /\ awaited' = [awaited EXCEPT ![r] = Len(lookups[r])]
  /\ IF lookups[r] = <<>> THEN Continue(r) ELSE Await(r)
  /\ UNCHANGED lookups

LookupAnswered(r, i) ==
  /\ up /\ lookups[r][i].state = "pending"
  /\ lookups' = [lookups EXCEPT ![r][i].state = "answered"]
  /\ UNCHANGED <<frame, awaited>>

\* The first failure rejects the hook that waits; one that no Promise.all has
\* seen ends the process.
LookupFails(r, i) ==
  /\ up /\ lookups[r][i].state = "pending"
  /\ i <= awaited[r] \/ Over(r)
  /\ lookups' = [lookups EXCEPT ![r][i].state = "error"]
  /\ IF i <= awaited[r]
     THEN IF Doing(r, "before", "lookups", 1) THEN Reject(r, "lookup") ELSE UNCHANGED frame
     ELSE up' = FALSE /\ UNCHANGED <<plan, call, stage, todo, at, data, reason, met>>
  /\ UNCHANGED awaited

\* Mutant: the answers are paired with the outputs of this call only.
LookupsDone_Shifted(r) ==
  /\ Doing(r, "before", "lookups", 1)
  /\ \A i \in DOMAIN lookups[r] : lookups[r][i].state = "answered"
  /\ LET own == SelectSeq(lookups[r], LAMBDA l : l.call = call[r])
         Last(n) == {i \in DOMAIN own : own[i].output = n}
     IN data' = [data EXCEPT ![r] = [n \in Names |->
          IF Last(n) = {} THEN @[n] ELSE <<"did", CHOOSE i \in Last(n) : \A j \in Last(n) : j <= i>>]]
  /\ Proceed(r)
  /\ UNCHANGED identityVars

\* All answers are written, those of earlier calls first.
LookupsDone(r) ==
  /\ Doing(r, "before", "lookups", 1)
  /\ \A i \in DOMAIN lookups[r] : lookups[r][i].state = "answered"
  /\ LET Last(n) == {i \in DOMAIN lookups[r] : lookups[r][i].output = n}
     IN data' = [data EXCEPT ![r] = [n \in Names |->
          IF Last(n) = {} THEN @[n] ELSE <<"did", CHOOSE i \in Last(n) : \A j \in Last(n) : j <= i>>]]
  /\ Proceed(r)
  /\ UNCHANGED identityVars

IdentityNext ==
  \E r \in Requests :
    /\ Uses(r, "identity")
    /\ \/ Resolves(r) \/ WaitsForLookups(r) \/ LookupsDone(r)
       \/ \E i \in DOMAIN lookups[r] : LookupAnswered(r, i) \/ LookupFails(r, i)

-----------------------------------------------------------------------------
\* An identity the contract sees under a name is the answer to the last
\* request this contract made for that name, whatever earlier contracts asked.
IdentitiesInPlace ==
  \A r \in Requests :
    (Uses(r, "identity") /\ stage[r] \in {"success", "done"}) =>
      \A i \in DOMAIN lookups[r] :
        (/\ lookups[r][i].call = call[r]
         /\ \A j \in DOMAIN lookups[r] : j > i => lookups[r][j].output # lookups[r][i].output) =>
          data[r][lookups[r][i].output] = <<"did", i>>
=============================================================================
