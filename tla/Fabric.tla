------------------------------- MODULE Fabric -------------------------------
(***************************************************************************)
(* packages/fabric/src/index.ts. The client, gateway, network and contract *)
(* of a connection, the step the connection is at and the input are        *)
(* variables of the module, shared by all requests. An attempt of          *)
(* submitAndRetry uses the input and the contract of the moment it starts. *)
(*                                                                         *)
(* A gateway only uses the grpc client it is given, and closing it leaves  *)
(* that client and submissions through it alone, so gateway.close at the   *)
(* end of onSuccess changes nothing here.                                  *)
(***************************************************************************)
EXTENDS Requests

Sentences == {"address", "connect", "channel", "contract"}

\* Only onSuccess looks for the sentences that submit, and the loop over the
\* lines of a contract knows the sentences of a connection.
ASSUME FabricAssumption ==
  \A step \in Asked("fabric", "before") :
    /\ step.op \notin {"submit", "store"}
    /\ step.op = "configure" => step.sentences \in Seq(Sentences)

VARIABLES
  conn,       \* the connection: the step it is at, and each object as the
              \* sequence of the requests that made what it is built on and it
  input,      \* whose input it is
  attempt,    \* the input and contract of the running attempt of a request
  count,      \* the attempts of the current call that are over
  errors,     \* how many of them have failed
  committed,  \* history: the submissions on the ledger: request, call, number of
              \* steps its hook has left, and the attempt
  cutOff      \* history: those of them whose answer was an error

fabricVars == <<conn, input, attempt, count, errors, committed, cutOff>>

NUM_RETRY == 3

\* FabricInterop
Address == 0
Connect == 1
Channel == 2
Contract == 3

FabricTypeOK ==
  /\ conn.current \in Address..Contract
  /\ Len(conn.client) \in {0, 1} /\ Len(conn.gateway) \in {0, 2}
  /\ Len(conn.network) \in {0, 3} /\ Len(conn.contract) \in {0, 4}
  /\ input \in Requests \cup {None}
  /\ count \in [Requests -> 0..(NUM_RETRY - 1)] /\ errors \in [Requests -> 0..NUM_RETRY]
  /\ cutOff \subseteq committed
  /\ \A s \in committed : s[1] \in Requests /\ s[4] \in 0..(NUM_RETRY - 1)

FabricInit ==
  /\ conn = [current |-> Address, client |-> <<>>, gateway |-> <<>>, network |-> <<>>,
             contract |-> <<>>]
  /\ input = None
  /\ attempt = [r \in Requests |-> [input |-> None, contract |-> <<>>]]
  /\ count = [r \in Requests |-> 0] /\ errors = [r \in Requests |-> 0]
  /\ committed = {} /\ cutOff = {}

-----------------------------------------------------------------------------
\* The connection sentences and the step each of them asks for.

Requested(sentence) ==
  CASE sentence = "address" -> Address [] sentence = "connect"  -> Connect
    [] sentence = "channel" -> Channel [] sentence = "contract" -> Contract

\* Mutant: a new address leaves the step where it was.
Configured_KeepsStep(c, sentence, r) ==
  CASE sentence = "address"  -> [c EXCEPT !.client = <<r>>,
                                          !.current = IF @ = Address THEN Connect ELSE @]
    [] sentence = "connect"  -> [c EXCEPT !.gateway = Append(c.client, r), !.current = Channel]
    [] sentence = "channel"  -> [c EXCEPT !.network = Append(c.gateway, r), !.current = Contract]
    [] sentence = "contract" -> [c EXCEPT !.contract = Append(c.network, r)]

Configured(c, sentence, r) ==
  CASE sentence = "address"  -> [c EXCEPT !.client = <<r>>, !.current = Connect]
    [] sentence = "connect"  -> [c EXCEPT !.gateway = Append(c.client, r), !.current = Channel]
    [] sentence = "channel"  -> [c EXCEPT !.network = Append(c.gateway, r), !.current = Contract]
    [] sentence = "contract" -> [c EXCEPT !.contract = Append(c.network, r)]

\* validateStep
Missing(step, c) == step > c.current

\* A sentence that is out of order ends the loop.
Carried(before, sentence, r) ==
  IF ~before.ok \/ Missing(Requested(sentence), before.c)
  THEN [c |-> before.c, ok |-> FALSE]
  ELSE [c |-> Configured(before.c, sentence, r), ok |-> TRUE]

\* The connection after the first i sentences.
Configuration(r, sentences) ==
  LET after[i \in 0..Len(sentences)] ==
        IF i = 0 THEN [c |-> conn, ok |-> TRUE] ELSE Carried(after[i - 1], sentences[i], r)
  IN after[Len(sentences)]

-----------------------------------------------------------------------------
\* submitAndRetry. An attempt is running when at = 1; when at = 2 it has
\* failed and the code sleeps. A RETRIEVE or STORE that names a storage other
\* than fabric ("elsewhere") is an attempt that does nothing.

\* An attempt starts with the input and the contract of the module. Without a
\* contract, and for RETRIEVE and STORE when a step is missing, it fails at once.
Attempts(r, step, tried, failed) ==
  LET fails == \/ step.op # "elsewhere" /\ conn'.contract = <<>>
               \/ step.op \in {"retrieve", "store"} /\ Missing(Contract, conn')
  IN /\ count' = [count EXCEPT ![r] = tried]
     /\ errors' = [errors EXCEPT ![r] = failed + (IF fails THEN 1 ELSE 0)]
     /\ at' = [at EXCEPT ![r] = IF fails THEN 2 ELSE 1]
     /\ attempt' = IF fails THEN attempt
                   ELSE [attempt EXCEPT ![r] = [input |-> input', contract |-> conn'.contract]]

\* The hook goes on with the calls that are left, without an await in between.
GoesOn(r, rest) ==
  /\ todo' = [todo EXCEPT ![r] = rest]
  /\ IF rest = <<>> THEN at' = [at EXCEPT ![r] = 0] /\ UNCHANGED <<attempt, count, errors>>
                    ELSE Attempts(r, Head(rest), 0, 0)
  /\ UNCHANGED <<plan, call, stage, reason, met, up>>

\* validateStep before the loop of QUERY and SUBMIT.
StepMissing(steps) ==
  steps # <<>> /\ Head(steps).op \in {"query", "submit"} /\ Missing(Contract, conn')

RejectCall(r, why) == Reject(r, why) /\ UNCHANGED <<attempt, count, errors>>

\* onBefore: the connection sentences, and on to the first call.
Configures(r) ==
  /\ Doing(r, "before", "configure", 0)
  /\ input' = r
  /\ LET result == Configuration(r, Step(r).sentences)
     IN /\ conn' = result.c
        /\ IF ~result.ok \/ StepMissing(Tail(todo[r])) THEN RejectCall(r, "step missing")
           ELSE GoesOn(r, Tail(todo[r])) /\ UNCHANGED data
  /\ UNCHANGED <<committed, cutOff>>

\* The certificate of an address or the key of an organization is not what it
\* should be: the sentences before it have been carried out.
ConfigurationFails(r) ==
  /\ Doing(r, "before", "configure", 0)
  /\ input' = r
  /\ \E i \in DOMAIN Step(r).sentences :
       /\ Step(r).sentences[i] \in {"address", "connect"}
       /\ LET result == Configuration(r, SubSeq(Step(r).sentences, 1, i - 1))
          IN result.ok /\ conn' = result.c
  /\ RejectCall(r, "invalid")
  /\ UNCHANGED <<committed, cutOff>>

\* onSuccess, up to the first call.
StartsSuccess(r) ==
  /\ InHook(r, "success") /\ at[r] = 0
  /\ UNCHANGED <<conn, input>>
  /\ IF StepMissing(todo[r]) THEN RejectCall(r, "step missing")
     ELSE GoesOn(r, todo[r]) /\ UNCHANGED data
  /\ UNCHANGED <<committed, cutOff>>

Submits(r) == Step(r).op \in {"submit", "store"}
Reads(r) == Step(r).op \in {"query", "retrieve"}
Submission(r) == <<r, call[r], Len(todo[r]), count[r]>>

\* Mutant: an attempt that has succeeded is not remembered as done.
AttemptSucceeds_GoesOn(r) ==
  /\ up /\ stage[r] \in {"before", "success"} /\ at[r] = 1
  /\ UNCHANGED <<conn, input>>
  /\ IF count[r] + 1 = NUM_RETRY THEN RejectCall(r, "retries")
     ELSE /\ Attempts(r, Step(r), count[r] + 1, errors[r])
          /\ UNCHANGED <<plan, call, stage, todo, data, reason, met, up>>
  /\ committed' = IF Submits(r) THEN committed \cup {Submission(r)} ELSE committed
  /\ UNCHANGED cutOff

\* An attempt succeeds. If it was the last one the count has reached its limit
\* all the same, and the call is reported as failed.
AttemptSucceeds(r) ==
  /\ up /\ stage[r] \in {"before", "success"} /\ at[r] = 1
  /\ UNCHANGED <<conn, input>>
  /\ IF count[r] + 1 = NUM_RETRY THEN RejectCall(r, "retries")
     ELSE /\ GoesOn(r, Tail(todo[r]))
          /\ IF ~Reads(r) THEN UNCHANGED data
             ELSE data' = [data EXCEPT ![r][Step(r).name] = <<"fabric", attempt[r]>>]
  /\ committed' = IF Submits(r) THEN committed \cup {Submission(r)} ELSE committed
  /\ UNCHANGED cutOff

\* It fails, perhaps after the ledger has taken the submission.
AttemptFails(r) ==
  /\ up /\ stage[r] \in {"before", "success"} /\ at[r] = 1
  /\ Submits(r) \/ Reads(r)
  /\ errors' = [errors EXCEPT ![r] = @ + 1]
  /\ Await(r)
  /\ \/ UNCHANGED <<committed, cutOff>>
     \/ /\ Submits(r)
        /\ committed' = committed \cup {Submission(r)}
        /\ cutOff' = cutOff \cup {Submission(r)}
  /\ UNCHANGED <<conn, input, attempt, count>>

\* Mutant: the failure of the last attempt ends the loop like a success.
Wakes_Forgets(r) ==
  /\ up /\ stage[r] \in {"before", "success"} /\ at[r] = 2
  /\ UNCHANGED <<conn, input>>
  /\ IF count[r] + 1 = NUM_RETRY THEN GoesOn(r, Tail(todo[r])) /\ UNCHANGED data
     ELSE /\ Attempts(r, Step(r), count[r] + 1, errors[r])
          /\ UNCHANGED <<plan, call, stage, todo, data, reason, met, up>>
  /\ UNCHANGED <<committed, cutOff>>

\* Mutant: one attempt too many.
Wakes_OneMore(r) ==
  /\ up /\ stage[r] \in {"before", "success"} /\ at[r] = 2
  /\ UNCHANGED <<conn, input>>
  /\ IF count[r] + 1 > NUM_RETRY THEN RejectCall(r, "retries")
     ELSE /\ Attempts(r, Step(r), count[r] + 1, errors[r])
          /\ UNCHANGED <<plan, call, stage, todo, data, reason, met, up>>
  /\ UNCHANGED <<committed, cutOff>>

\* Mutant: the attempts are not counted.
Wakes_NotCounted(r) ==
  /\ up /\ stage[r] \in {"before", "success"} /\ at[r] = 2
  /\ UNCHANGED <<conn, input>>
  /\ IF count[r] + 1 = NUM_RETRY THEN RejectCall(r, "retries")
     ELSE /\ Attempts(r, Step(r), count[r], 0)
          /\ UNCHANGED <<plan, call, stage, todo, data, reason, met, up>>
  /\ UNCHANGED <<committed, cutOff>>

\* The sleep is over: the next attempt, unless there have been enough.
Wakes(r) ==
  /\ up /\ stage[r] \in {"before", "success"} /\ at[r] = 2
  /\ UNCHANGED <<conn, input>>
  /\ IF count[r] + 1 = NUM_RETRY THEN RejectCall(r, "retries")
     ELSE /\ Attempts(r, Step(r), count[r] + 1, errors[r])
          /\ UNCHANGED <<plan, call, stage, todo, data, reason, met, up>>
  /\ UNCHANGED <<committed, cutOff>>

FabricNext ==
  \E r \in Requests :
    /\ Uses(r, "fabric")
    /\ \/ Configures(r) \/ ConfigurationFails(r) \/ StartsSuccess(r) \/ AttemptSucceeds(r) \/ AttemptFails(r) \/ Wakes(r)

-----------------------------------------------------------------------------
\* The step the connection is at tells what it has: a channel on the gateway
\* that is on the client of the last address, whichever requests have set them.
ConnectionIsWhole ==
  /\ conn.current >= Connect => conn.client # <<>>
  /\ conn.current >= Channel =>
       conn.gateway # <<>> /\ SubSeq(conn.gateway, 1, 1) = conn.client
  /\ conn.current >= Contract =>
       conn.network # <<>> /\ SubSeq(conn.network, 1, 2) = conn.gateway

\* An attempt to submit what step i of a hook asks for is on the ledger.
OnLedger(r, c, i) ==
  \E n \in 0..(NUM_RETRY - 1) :
    <<r, c, Len(plan[r].calls[c].success) - i + 1, n>> \in committed

\* A request that is done has each of its submissions on the ledger.
SubmissionsAreCommitted ==
  \A r \in Requests :
    (Uses(r, "fabric") /\ stage[r] = "done") =>
      \A c \in DOMAIN plan[r].calls : \A i \in DOMAIN plan[r].calls[c].success :
        plan[r].calls[c].success[i].op \in {"submit", "store"} => OnLedger(r, c, i)

\* Trying again puts a submission on the ledger a second time only if the
\* answer to the first one was an error.
RepeatedOnlyAfterErrors ==
  \A s, t \in committed :
    (SubSeq(s, 1, 3) = SubSeq(t, 1, 3) /\ s[4] < t[4]) => s \in cutOff

\* What the code says of its limit: NUM_RETRY errors, this call failed. It is
\* not so when the last attempt succeeds.
RetriesMeanErrors ==
  \A r \in Requests : (Uses(r, "fabric") /\ reason[r] = "retries") => errors[r] = NUM_RETRY
=============================================================================
