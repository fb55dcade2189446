-------------------------------- MODULE Http --------------------------------
(***************************************************************************)
(* packages/http/src/index.ts and utils.ts. The promises of the parallel   *)
(* sentences, what is to be done with their answers, and the endpoints     *)
(* declared are variables of the web request: in a chain they are still    *)
(* there when the next contract runs.                                      *)
(*                                                                         *)
(* Where an answer goes is a place <<object, name, position>>: object None *)
(* is the data itself, position -1 the whole entry, another one an element *)
(* of the array in that entry.                                             *)
(***************************************************************************)
EXTENDS Requests

\* The hook of a contract that sends requests in parallel goes on to collect.
ASSUME HttpAssumption ==
  \A p \in UNION Scenarios : p.mw = "http" =>
    \A c \in DOMAIN p.calls :
      LET before == p.calls[c].before
      IN \A i \in DOMAIN before : before[i].op = "parallel" =>
           /\ before[i].defined => IsSequence(before[i].places)
           /\ \E j \in DOMAIN before : j > i /\ before[j].op = "collect"

\* PARALLEL_POST_ARRAY and the like fill an array of the data, the others put
\* what they get into an object. No contract uses one name for both.
ASSUME HttpPlacesAssumption ==
  \A p \in UNION Scenarios : p.mw = "http" =>
    LET places == UNION {UNION {{p.calls[c].before[i].places[j] :
                                   j \in DOMAIN p.calls[c].before[i].places} :
                      i \in {k \in DOMAIN p.calls[c].before : p.calls[c].before[k].op = "parallel"}} :
                    c \in DOMAIN p.calls}
    IN \A a \in places : a[1] = None =>
         a[3] >= 0 /\ \A b \in places : b[1] # a[2]

VARIABLES
  endpoints,  \* externalSourceKeys
  promises,   \* parallel_promises with parallel_params: [call, place, state]
  handled,    \* how many of them have a catch
  cells       \* what the parallel sentences have written into the data: place -> promise

httpVars == <<endpoints, promises, handled, cells>>

HttpTypeOK ==
  /\ \A r \in Requests :
       /\ \A i \in DOMAIN promises[r] : promises[r][i].state \in {"pending", "answered", "error"}
       /\ handled[r] \in 0..Len(promises[r])
       /\ \A p \in DOMAIN cells[r] : cells[r][p] \in DOMAIN promises[r]

HttpInit ==
  /\ endpoints = [r \in Requests |-> {}]
  /\ promises = [r \in Requests |-> <<>>]
  /\ handled = [r \in Requests |-> 0]
  /\ cells = [r \in Requests |-> [p \in {} |-> 0]]

\* READ_REQUEST
ReadsRequest(r) ==
  /\ Doing(r, "before", "readRequest", 0)
  /\ Receive(r, Step(r).name, <<"request", r>>)
  /\ UNCHANGED httpVars

\* EXTERNAL_CONNECTION with checkForDuplicates, which comes after the assignment.
DeclaresEndpoints(r) ==
  /\ Doing(r, "before", "endpoints", 0)
  /\ LET keys == Step(r).names IN
       /\ endpoints' = [endpoints EXCEPT ![r] = {keys[i] : i \in DOMAIN keys}]
       /\ IF \E i, j \in DOMAIN keys : i # j /\ keys[i] = keys[j]
          THEN Reject(r, "duplicate") ELSE Continue(r)
  /\ UNCHANGED <<promises, handled, cells>>

\* The parallel sentences send their requests without waiting; a list of
\* addresses that is not in the data ends the hook after those sent before it.
SendsInParallel(r) ==
  /\ Doing(r, "before", "parallel", 0)
  /\ IF Step(r).defined
     THEN /\ promises' = [promises EXCEPT ![r] = @ \o
               [i \in DOMAIN Step(r).places |->
                  [call |-> call[r], place |-> Step(r).places[i], state |-> "pending"]]]
          /\ Continue(r)
     ELSE Reject(r, "not defined") /\ UNCHANGED promises
  /\ UNCHANGED <<endpoints, handled, cells>>

\* An answer, in any order.
Answered(r, i) ==
  /\ up /\ promises[r][i].state = "pending"
  /\ promises' = [promises EXCEPT ![r][i].state = "answered"]
  /\ UNCHANGED <<frame, endpoints, handled, cells>>

\* A request fails. If the hook was over before it could add its catch, nobody
\* handles the rejection and the process ends. (The sentences and the catch
\* are one turn of the event loop, so no rejection is seen in between.)
RequestFails(r, i) ==
  /\ up /\ promises[r][i].state = "pending"
  /\ i <= handled[r] \/ Over(r)
  /\ promises' = [promises EXCEPT ![r][i].state = "error"]
  /\ IF i <= handled[r] THEN UNCHANGED up ELSE up' = FALSE
  /\ UNCHANGED <<plan, call, stage, todo, at, data, reason, met, endpoints, handled, cells>>

\* All promises there are get a catch, those of earlier calls as well.
WaitsForAll(r) ==
  /\ Doing(r, "before", "collect", 0)
  /\ handled' = [handled EXCEPT ![r] = Len(promises[r])]
  /\ IF promises[r] = <<>> THEN Continue(r) ELSE Await(r)
  /\ UNCHANGED <<endpoints, promises, cells>>

\* Mutant: an entry that is there is not written again.
Collected_FirstWins(ps) ==
  [p \in {ps[i].place : i \in DOMAIN ps} |->
     CHOOSE i \in DOMAIN ps : ps[i].place = p /\ \A j \in DOMAIN ps : j < i => ps[j].place # p]

\* Writing an entry replaces it, or the whole array that was there.
Replaced(p, q) == p[1] = q[1] /\ p[2] = q[2] /\ (q[3] < 0 \/ p[3] = q[3])

\* The answers are written in the order of the promises: what stays is what no
\* later one replaces.
Stays(ps, i) == \A j \in DOMAIN ps : j > i => ~Replaced(ps[i].place, ps[j].place)

Collected(ps) ==
  [p \in {ps[i].place : i \in {j \in DOMAIN ps : Stays(ps, j)}} |->
     CHOOSE i \in DOMAIN ps : ps[i].place = p /\ Stays(ps, i)]

Collects(r) ==
  /\ Doing(r, "before", "collect", 1)
  /\ \A i \in DOMAIN promises[r] : promises[r][i].state # "pending"
  /\ cells' = [cells EXCEPT ![r] = Collected(promises[r])]
  /\ Continue(r)
  /\ UNCHANGED <<endpoints, promises, handled>>

\* POST_AND_SAVE_TO_VARIABLE: an error is an answer too.
PostsAndSaves(r) ==
  /\ Doing(r, "before", "post", 0)
  /\ \E status \in {"answered", "error"} : Receive(r, Step(r).name, <<"http", status>>)
  /\ UNCHANGED httpVars

\* runChecks: declared in this or an earlier contract, and in keys or data.
Checked(r) == {Step(r).urls[i] : i \in DOMAIN Step(r).urls} \subseteq endpoints[r] /\ Step(r).defined

\* EXTERNAL_OUTPUT checks all its endpoints, then gets them one by one; the
\* checks of PASS_OUTPUT are made in onBefore too.
ChecksEndpoints(r) ==
  /\ \/ Doing(r, "before", "output", 0) \/ Doing(r, "before", "checkPass", 0)
  /\ \/ ~Checked(r) /\ Reject(r, "endpoint")
     \/ Checked(r) /\ Step(r).op = "checkPass" /\ Continue(r)
     \/ Checked(r) /\ Step(r).op = "output" /\ Await(r)
  /\ UNCHANGED httpVars

GetsOutput(r) ==
  /\ at[r] > 0 /\ Doing(r, "before", "output", at[r])
  /\ \E status \in {"answered", "error"} :
       data' = [data EXCEPT ![r][Step(r).name] = <<"http", status>>]
  /\ IF at[r] = Len(Step(r).urls) THEN Proceed(r)
     ELSE at' = [at EXCEPT ![r] = @ + 1] /\ UNCHANGED <<plan, call, stage, todo, reason, met, up>>
  /\ UNCHANGED httpVars

\* PASS_OUTPUT: one post after the other. When one fails the error goes to the
\* contract call, and also to Express with next(e), which Dispatch models.
PassesOutput(r) ==
  /\ Doing(r, "success", "pass", 0)
  /\ Continue(r) \/ Reject(r, "post")
  /\ UNCHANGED httpVars

HttpNext ==
  \E r \in Requests :
    /\ Uses(r, "http")
    /\ \/ ReadsRequest(r) \/ DeclaresEndpoints(r) \/ SendsInParallel(r) \/ WaitsForAll(r)
       \/ Collects(r) \/ PostsAndSaves(r) \/ ChecksEndpoints(r) \/ GetsOutput(r) \/ PassesOutput(r)
       \/ \E i \in DOMAIN promises[r] : Answered(r, i) \/ RequestFails(r, i)

-----------------------------------------------------------------------------
\* Whatever the order of the answers and whatever earlier contracts of the
\* chain have left behind, the contract finds in the place that one of its
\* sentences names the answer to that sentence (the last one that names it).
AnswersInPlace ==
  \A r \in Requests :
    (Uses(r, "http") /\ stage[r] \in {"success", "done"}) =>
      \A i \in DOMAIN promises[r] :
        LET p == promises[r][i] IN
        (/\ p.call = call[r]
         /\ \A j \in DOMAIN promises[r] :
              LET q == promises[r][j] IN
              j > i => ~(q.place[1] = p.place[1] /\ q.place[2] = p.place[2])) =>
          /\ p.state # "pending"
          /\ p.place \in DOMAIN cells[r] /\ cells[r][p.place] = i

\* What actions.ts says of the parallel sentences: they store the results of
\* their own requests. In a chain those of an earlier contract are there too.
OnlyOwnAnswers ==
  \A r \in Requests :
    stage[r] \in {"success", "done"} =>
      \A p \in DOMAIN cells[r] : promises[r][cells[r][p]].call = call[r]
=============================================================================
