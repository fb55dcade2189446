--------------------------- MODULE Ledgers_proofs ----------------------------
(***************************************************************************)
(* What the middlewares that write to a ledger guarantee: fabric and       *)
(* planetmint, for any requests and plans.                                 *)
(***************************************************************************)
EXTENDS Stores_proofs

-----------------------------------------------------------------------------
(* fabric. *)

Counted(r) == count[r] \in 0..(NUM_RETRY - 1)

\* No call has submitted before its onSuccess hook. A submission of the step
\* this hook is at is one of an earlier attempt, or of the one that has just
\* failed, and its answer was an error.
Ledger(r) ==
  \A s \in committed : s[1] = r =>
    /\ s[2] <= call[r]
    /\ s[2] = call[r] => stage[r] # "before"
    /\ s[2] = call[r] /\ stage[r] = "success" =>
         /\ Len(todo[r]) <= s[3]
         /\ Len(todo[r]) = s[3] =>
              /\ at[r] # 0 /\ s \in cutOff
              /\ s[4] < count[r] \/ (s[4] = count[r] /\ at[r] = 2)

\* What passed steps submit is on the ledger.
Submitted(r) ==
  \A c \in DOMAIN plan[r].calls : \A i \in DOMAIN Success(r, c) :
    Success(r, c)[i].op \in {"submit", "store"} /\ Passed(r, c, i) => OnLedger(r, c, i)

FabricRequest(r) == Counted(r) /\ Ledger(r) /\ Submitted(r)

FabricInv ==
  /\ FrameInv
  /\ DOMAIN count = Requests /\ committed \subseteq Requests \X Nat \X Nat \X Nat
  /\ \A r \in Requests : Uses(r, "fabric") => FabricRequest(r)

\* Before any request has called a hook.
LEMMA FabricInvInit == Init => FabricInv
<1> SUFFICES ASSUME Init PROVE FabricInv
  OBVIOUS
<1>1. FrameInv
  BY FrameInvInit
<1>2. /\ stage = [r \in Requests |-> "waiting"] /\ call = [r \in Requests |-> 0]
      /\ count = [r \in Requests |-> 0] /\ committed = {}
  BY DEF Init, RequestsInit, FabricInit
<1>3. ASSUME NEW r \in Requests, NEW c \in DOMAIN plan[r].calls, NEW i PROVE ~Passed(r, c, i)
  <2>1. c \in 1..Len(plan[r].calls)
    BY <1>1, SuccessSteps
  <2> QED
    BY <1>2, <2>1 DEF Passed
<1> QED
  BY <1>1, <1>2, <1>3 DEF FabricInv, FabricRequest, Counted, Ledger, Submitted, NUM_RETRY

\* The hooks of a request stay as they are, and what goes to the ledger is
\* another's.
LEMMA FabricUnmoved ==
  ASSUME NEW r \in Requests, FabricRequest(r), plan' = plan, count'[r] = count[r],
         stage'[r] = stage[r], todo'[r] = todo[r], at'[r] = at[r], call'[r] = call[r],
         committed \subseteq committed', cutOff \subseteq cutOff',
         \A s \in committed' : s \in committed \/ s[1] # r
  PROVE  FabricRequest(r)'
<1>1. Counted(r)'
  BY DEF FabricRequest, Counted
<1>2. Ledger(r)'
  BY DEF FabricRequest, Ledger
<1>3. Submitted(r)'
  BY DEF FabricRequest, Submitted, Passed, OnLedger, Success
<1> QED
  BY <1>1, <1>2, <1>3 DEF FabricRequest

\* What a request puts on the ledger.
Submitting(q) ==
  /\ stage[q] = "success" /\ todo[q] # <<>> /\ at[q] = 1
  /\ committed' = committed \cup {Submission(q)}

\* How hooks go on, and what a step does to the ledger.
LEMMA FabricEffect ==
  ASSUME FabricInv, NEW q \in Requests, Uses(q, "fabric"), FabricActions(q)
  PROVE  /\ Steps(q) /\ todo[q] # <<>> /\ stage[q] \in HookStages
         /\ count' = count \/ \E n : count' = [count EXCEPT ![q] = n]
         /\ cutOff \subseteq cutOff'
         /\ committed' = committed \/ Submitting(q)
<1>1. FrameInv /\ FrameDoms
  BY DEF FabricInv, FrameInv
<1>2. Steps(q) /\ todo[q] # <<>>
  BY <1>1, FabricActionsKeep
<1>3. stage[q] \in HookStages
  BY DEF FabricActions, Configures, ConfigurationFails, StartsSuccess, AttemptSucceeds,
         AttemptFails, Wakes, Doing, InHook, HookStages
<1>4. Submits(q) => stage[q] = "success"
  BY <1>2, <1>3, StepIsAsked, FabricAssumption DEF FabricInv, Submits, HookStages, Uses
<1>5. committed' = committed \/ Submitting(q)
  BY <1>2, <1>3, <1>4 DEF FabricActions, Configures, ConfigurationFails, StartsSuccess,
         AttemptSucceeds, AttemptFails, Wakes, Submitting, HookStages
<1>6. count' = count \/ \E n : count' = [count EXCEPT ![q] = n]
  BY DEF FabricActions, Configures, ConfigurationFails, StartsSuccess, AttemptSucceeds,
         AttemptFails, Wakes, RejectCall, GoesOn, Attempts
<1>7. cutOff \subseteq cutOff'
  BY DEF FabricActions, Configures, ConfigurationFails, StartsSuccess, AttemptSucceeds,
         AttemptFails, Wakes
<1> QED
  BY <1>2, <1>3, <1>5, <1>6, <1>7

\* What FabricEffect says of a step.
FabricSteps(q) ==
  /\ Steps(q) /\ todo[q] # <<>> /\ stage[q] \in HookStages
  /\ committed' = committed \/ Submitting(q)
  /\ cutOff \subseteq cutOff'

\* The ledger has what passed steps submit if it has what the step that goes on
\* to the next one submits.
LEMMA SubmittedStep ==
  ASSUME FabricInv, NEW q \in Requests, Submitted(q), FabricSteps(q),
         (stage[q] = "success" /\ stage'[q] = "success" /\ todo'[q] = Tail(todo[q]) /\ Submits(q)) =>
            Submission(q) \in committed' /\ Counted(q)
  PROVE  Submitted(q)'
<1>1. plan' = plan /\ \A c : Success(q, c)' = Success(q, c)
  BY DEF FabricSteps, Steps, Works, Kept, Success
<1>2. committed \subseteq committed'
  BY DEF FabricSteps, Submitting
<1> SUFFICES ASSUME NEW c \in DOMAIN plan[q].calls, NEW i \in DOMAIN Success(q, c),
                    Success(q, c)[i].op \in {"submit", "store"}, Passed(q, c, i)'
             PROVE  OnLedger(q, c, i)'
  BY <1>1 DEF Submitted
<1>3. CASE Passed(q, c, i)
  BY <1>1, <1>2, <1>3 DEF Submitted, OnLedger
<1>4. CASE IsAt(q, c, i) /\ stage'[q] = "success" /\ todo'[q] = Tail(todo[q])
  <2>1. Submits(q) /\ stage[q] = "success"
    BY <1>4 DEF IsAt, Submits
  <2>2. Submission(q) \in committed' /\ Counted(q)
    BY <1>4, <2>1
  <2>3. Submission(q) = <<q, c, Len(plan[q].calls[c].success) - i + 1, count[q]>>
    BY <1>4 DEF IsAt, Submission, Success
  <2> QED
    BY <1>1, <2>2, <2>3 DEF OnLedger, Counted
<1> QED
  BY <1>3, <1>4, PassedByStep DEF FabricSteps, FabricInv

\* The hook goes on with its next step, or starts with its first.
LEMMA LedgerGoesOn ==
  ASSUME FabricInv, NEW q \in Requests, FabricRequest(q), FabricSteps(q),
         stage' = stage, call' = call,
         \/ todo'[q] = Tail(todo[q])
         \/ todo'[q] = todo[q] /\ at[q] = 0 /\ committed' = committed
  PROVE  Ledger(q)'
<1>1. FrameInv
  BY DEF FabricInv
<1>2. Len(todo[q]) \in Nat /\ Len(Tail(todo[q])) = Len(todo[q]) - 1
  BY <1>1, TodoFacts DEF FabricSteps
<1>3. stage'[q] = stage[q] /\ call'[q] = call[q] /\ call[q] \in Nat
  BY <1>1 DEF FrameInv, FrameDoms
<1> SUFFICES ASSUME NEW s \in committed', s[1] = q
             PROVE  /\ s[2] <= call[q]
                    /\ s[2] = call[q] => stage[q] # "before"
                    /\ s[2] = call[q] /\ stage[q] = "success" =>
                         Len(todo'[q]) <= s[3] /\ Len(todo'[q]) # s[3]
  BY <1>3 DEF Ledger
<1>4. CASE s \in committed
  <2>1. s[2] \in Nat /\ s[3] \in Nat
    BY <1>4 DEF FabricInv
  <2>2. /\ s[2] <= call[q]
        /\ s[2] = call[q] => stage[q] # "before"
        /\ s[2] = call[q] /\ stage[q] = "success" =>
             Len(todo[q]) <= s[3] /\ (Len(todo[q]) = s[3] => at[q] # 0)
    BY <1>4 DEF FabricRequest, Ledger
  <2>3. Len(todo'[q]) = Len(todo[q]) - 1 \/ (Len(todo'[q]) = Len(todo[q]) /\ at[q] = 0)
    BY <1>2
  <2> QED
    BY <1>1, <2>1, <2>2, <2>3
<1>5. CASE s \notin committed
  <2>1. Submitting(q) /\ s = Submission(q)
    BY <1>5 DEF FabricSteps, Submitting
  <2>2. s[2] = call[q] /\ s[3] = Len(todo[q]) /\ stage[q] = "success" /\ at[q] = 1
    BY <2>1 DEF Submission, Submitting
  <2>3. Len(todo'[q]) = Len(todo[q]) - 1
    BY <1>2, <1>5, <2>2
  <2> QED
    BY <1>1, <1>3, <2>2, <2>3
<1> QED
  BY <1>4, <1>5

\* The hook fails.
LEMMA FabricRejects ==
  ASSUME FabricInv, NEW q \in Requests, FabricRequest(q), FabricSteps(q),
         NEW why, RejectCall(q, why)
  PROVE  FabricRequest(q)'
<1>1. stage'[q] = "failed" /\ call' = call /\ count' = count /\ call[q] \in Nat
  BY DEF RejectCall, Reject, Fail, FabricInv, FrameInv, FrameDoms
<1>2. Counted(q)'
  BY <1>1 DEF FabricRequest, Counted
<1>3. Submitted(q)'
  BY <1>1, SubmittedStep DEF FabricRequest
<1>4. ASSUME NEW s \in committed', s[1] = q PROVE s[2] <= call[q]
  BY <1>1, <1>4 DEF FabricRequest, Ledger, FabricSteps, Submitting, Submission
<1> QED
  BY <1>1, <1>2, <1>3, <1>4 DEF FabricRequest, Ledger

\* The hook goes on with the calls that are left.
LEMMA FabricGoesOn ==
  ASSUME FabricInv, NEW q \in Requests, FabricRequest(q), FabricSteps(q),
         \/ GoesOn(q, todo[q]) /\ at[q] = 0 /\ committed' = committed
         \/ GoesOn(q, Tail(todo[q])),
         (stage[q] = "success" /\ todo'[q] = Tail(todo[q]) /\ Submits(q)) =>
            Submission(q) \in committed'
  PROVE  FabricRequest(q)'
<1>1. /\ stage' = stage /\ call' = call
      /\ todo'[q] = Tail(todo[q]) \/ (todo'[q] = todo[q] /\ at[q] = 0 /\ committed' = committed)
      /\ count' = count \/ count' = [count EXCEPT ![q] = 0]
  BY DEF GoesOn, Attempts, FabricInv, FrameInv, FrameDoms
<1>2. Counted(q)'
  BY <1>1 DEF FabricRequest, Counted, NUM_RETRY, FabricInv
<1>3. Ledger(q)'
  BY <1>1, LedgerGoesOn
<1>4. Submitted(q)'
  BY <1>1, SubmittedStep DEF FabricRequest
<1> QED
  BY <1>2, <1>3, <1>4 DEF FabricRequest

\* Every action of fabric preserves the invariant for the request that takes it.
LEMMA FabricOwnStep ==
  ASSUME FabricInv, NEW q \in Requests, Uses(q, "fabric"), FabricActions(q)
  PROVE  FabricRequest(q)'
<1>1. FabricSteps(q) /\ FabricRequest(q) /\ DOMAIN count = Requests
  BY FabricEffect DEF FabricSteps, FabricInv
<1>2. FrameDoms /\ call[q] \in Nat /\ at[q] \in Nat
  BY DEF FabricInv, FrameInv, FrameDoms
<1>0. todo[q] # Tail(todo[q])
  <2>1. Len(todo[q]) \in Nat /\ Len(Tail(todo[q])) = Len(todo[q]) - 1
    BY <1>1, TodoFacts DEF FabricSteps, FabricInv
  <2>2. todo[q] = Tail(todo[q]) => Len(todo[q]) = Len(Tail(todo[q]))
    BY Zenon
  <2>3. Len(todo[q]) # Len(todo[q]) - 1
    BY <2>1
  <2> QED
    BY <2>1, <2>2, <2>3, Zenon
<1>3. CASE Configures(q)
  <2>1. stage[q] = "before" /\ (RejectCall(q, "step missing") \/ GoesOn(q, Tail(todo[q])))
    BY <1>3 DEF Configures, Doing, InHook
  <2> QED
    BY <1>1, <2>1, FabricRejects, FabricGoesOn
<1>4. CASE ConfigurationFails(q)
  BY <1>1, <1>4, FabricRejects DEF ConfigurationFails
<1>5. CASE StartsSuccess(q)
  <2>1. at[q] = 0 /\ committed' = committed /\ (RejectCall(q, "step missing") \/ GoesOn(q, todo[q]))
    BY <1>5 DEF StartsSuccess
  <2>2. GoesOn(q, todo[q]) => todo'[q] # Tail(todo[q])
    BY <1>0 DEF GoesOn, FabricInv, FrameInv, FrameDoms
  <2> QED
    BY <1>1, <2>1, <2>2, FabricRejects, FabricGoesOn
<1>6. CASE AttemptSucceeds(q)
  <2>1. Submits(q) => Submission(q) \in committed'
    BY <1>6 DEF AttemptSucceeds
  <2>2. RejectCall(q, "retries") \/ GoesOn(q, Tail(todo[q]))
    BY <1>6 DEF AttemptSucceeds
  <2> QED
    BY <1>1, <2>1, <2>2, FabricRejects, FabricGoesOn
<1>7. CASE AttemptFails(q)
  <2>1. /\ at[q] = 1 /\ at'[q] = 2 /\ UNCHANGED <<stage, call, todo, count>>
        /\ committed' = committed \/ (Submitting(q) /\ Submission(q) \in cutOff')
    BY <1>1, <1>2, <1>7 DEF AttemptFails, Await, FrameDoms, FabricSteps
  <2>2. Ledger(q)'
    <3>1. ASSUME NEW s \in committed, s[1] = q
          PROVE  s[4] < count[q] \/ ~(s[2] = call[q] /\ stage[q] = "success" /\ Len(todo[q]) = s[3])
      BY <1>1, <2>1, <3>1 DEF FabricRequest, Ledger
    <3> QED
      BY <1>1, <1>2, <2>1, <3>1 DEF FabricRequest, Ledger, Submitting, Submission, FabricSteps
  <2>3. Submitted(q)'
    <3>1. todo'[q] # Tail(todo[q])
      BY <1>1, <1>0, <2>1
    <3> QED
      BY <1>1, <3>1, SubmittedStep DEF FabricRequest
  <2> QED
    BY <1>1, <2>1, <2>2, <2>3 DEF FabricRequest, Counted
<1>8. CASE Wakes(q)
  <2>1. CASE RejectCall(q, "retries")
    BY <1>1, <2>1, FabricRejects
  <2>2. CASE /\ Attempts(q, Step(q), count[q] + 1, errors[q]) /\ UNCHANGED <<stage, call, todo>>
             /\ count[q] + 1 # NUM_RETRY
    <3>1. /\ at'[q] \in {1, 2} /\ count'[q] = count[q] + 1 /\ count[q] \in 0..(NUM_RETRY - 1)
          /\ UNCHANGED <<committed, cutOff>>
      BY <1>1, <1>2, <1>8, <2>2 DEF Attempts, Wakes, FrameDoms, FabricRequest, Counted
    <3>2. count'[q] \in 0..(NUM_RETRY - 1) /\ count[q] < count'[q]
      BY <2>2, <3>1 DEF NUM_RETRY
    <3>3. ASSUME NEW s \in committed, s[4] < count[q] \/ s[4] = count[q]
          PROVE  s[4] < count'[q]
      BY <3>1, <3>3 DEF FabricInv, NUM_RETRY
    <3>4. Ledger(q)'
      BY <1>1, <2>2, <3>1, <3>3 DEF FabricRequest, Ledger
    <3>5. todo'[q] # Tail(todo[q])
      BY <1>1, <1>0, <2>2
    <3>6. Submitted(q)'
      BY <1>1, <3>5, SubmittedStep DEF FabricRequest
    <3> QED
      BY <3>2, <3>4, <3>6 DEF FabricRequest, Counted
  <2> QED
    BY <1>8, <2>1, <2>2 DEF Wakes
<1> QED
  BY <1>3, <1>4, <1>5, <1>6, <1>7, <1>8 DEF FabricActions

\* Starting a request, running its contract and ending a hook preserve it.
LEMMA FabricKeptByRequests ==
  ASSUME FabricInv, RequestsNext, UNCHANGED fabricVars,
         NEW r \in Requests, Uses(r, "fabric")
  PROVE  FabricRequest(r)'
<1> PICK q \in Requests : RequestStep(q)
  BY DEF RequestsNext, RequestStep
<1>1. FrameInv /\ FrameDoms /\ Kept(q) /\ FabricRequest(r) /\ OnPlan(r) /\ call[r] \in Nat
  BY RequestStepKeeps DEF FabricInv, FrameInv, FrameDoms
<1>2. CASE r # q
  BY <1>1, <1>2, FabricUnmoved DEF Kept, fabricVars, FabricInv
<1>3. CASE r = q
  <2>1. Counted(q)'
    BY <1>1, <1>3 DEF FabricRequest, Counted, fabricVars
  <2>2. Ledger(q)'
    <3> SUFFICES ASSUME NEW s \in committed, s[1] = q
                 PROVE  /\ s[2] <= call'[q]
                        /\ s[2] = call'[q] => stage'[q] # "before"
                        /\ s[2] = call'[q] /\ stage'[q] = "success" =>
                             Len(todo'[q]) <= s[3] /\ Len(todo'[q]) # s[3]
      BY DEF Ledger, fabricVars
    <3>1. s[2] \in Nat /\ s[2] <= call[q] /\ (s[2] = call[q] => stage[q] # "before")
      BY <1>1, <1>3 DEF FabricInv, FabricRequest, Ledger
    <3>2. CASE EnterBefore(q)
      <4>1. call'[q] = call[q] + 1
        BY <1>1, <3>2 DEF EnterBefore, FrameDoms
      <4> QED
        BY <1>1, <1>3, <3>1, <4>1
    <3>3. CASE DataIsMalformed(q) \/ ZenroomRejects(q)
      <4>1. call'[q] = call[q] /\ stage'[q] = "failed"
        BY <1>1, <3>3 DEF DataIsMalformed, ZenroomRejects, Reject, Fail, FrameDoms
      <4> QED
        BY <3>1, <4>1
    <3>4. CASE ZenroomRuns(q)
      <4>1. call'[q] = call[q] /\ stage[q] = "before" /\ stage'[q] = "success"
        BY <1>1, <3>4 DEF ZenroomRuns, FrameDoms
      <4> QED
        BY <3>1, <4>1
    <3>5. CASE SuccessEnds(q)
      <4>1. call'[q] = call[q] /\ stage'[q] \in {"waiting", "done"}
        BY <1>1, <3>5 DEF SuccessEnds, FrameDoms
      <4> QED
        BY <3>1, <4>1
    <3> QED
      BY <3>2, <3>3, <3>4, <3>5 DEF RequestStep
  <2>3. Submitted(q)'
    <3>1. plan' = plan /\ \A c : Success(q, c)' = Success(q, c)
      BY <1>1 DEF Kept, Success
    <3> QED
      BY <1>1, <1>3, <3>1, PassedByRequest DEF FabricRequest, Submitted, OnLedger, fabricVars
  <2> QED
    BY <1>3, <2>1, <2>2, <2>3 DEF FabricRequest
<1> QED
  BY <1>2, <1>3

\* Every action of fabric preserves the invariant.
LEMMA FabricStep ==
  ASSUME FabricInv, FabricNext
  PROVE  /\ DOMAIN count' = Requests /\ committed' \subseteq Requests \X Nat \X Nat \X Nat
         /\ \A r \in Requests : Uses(r, "fabric") => FabricRequest(r)'
<1> PICK q \in Requests : Uses(q, "fabric") /\ FabricActions(q)
  BY DEF FabricNext, FabricActions
<1>1. FabricSteps(q) /\ (count' = count \/ \E n : count' = [count EXCEPT ![q] = n])
  BY FabricEffect DEF FabricSteps
<1>2. DOMAIN count' = Requests /\ \A r \in Requests \ {q} : count'[r] = count[r]
  BY <1>1 DEF FabricInv
<1>3. Submission(q) \in Requests \X Nat \X Nat \X Nat /\ Submission(q)[1] = q
  <2>1. call[q] \in Nat /\ Len(todo[q]) \in Nat
    BY <1>1, TodoFacts DEF FabricSteps, FabricInv, FrameInv, FrameDoms
  <2>2. count[q] \in Nat
    BY DEF FabricInv, FabricRequest, Counted, NUM_RETRY
  <2> QED
    BY <2>1, <2>2 DEF Submission
<1>4. committed' \subseteq Requests \X Nat \X Nat \X Nat
  BY <1>1, <1>3 DEF FabricInv, FabricSteps, Submitting
<1>5. ASSUME NEW r \in Requests \ {q}, Uses(r, "fabric") PROVE FabricRequest(r)'
  <2>1. /\ stage'[r] = stage[r] /\ todo'[r] = todo[r] /\ at'[r] = at[r] /\ call'[r] = call[r]
        /\ plan' = plan
    BY <1>1 DEF FabricSteps, Steps, Works, Kept
  <2>2. committed \subseteq committed' /\ \A s \in committed' : s \in committed \/ s[1] # r
    BY <1>1, <1>3 DEF FabricSteps, Submitting
  <2> QED
    BY <1>1, <1>2, <1>5, <2>1, <2>2, FabricUnmoved DEF FabricInv, FabricSteps
<1> QED
  BY <1>2, <1>4, <1>5, FabricOwnStep

\* Every step of the composed system preserves the invariant.
LEMMA FabricInvStep == FabricInv /\ [Next]_vars => FabricInv'
<1> SUFFICES ASSUME FabricInv, [Next]_vars PROVE FabricInv'
  OBVIOUS
<1>1. FrameInv' /\ (FabricNext \/ Foreign("fabric", fabricVars)) /\ plan' = plan
  <2>1. FrameInv' /\ FrameDoms /\ (FabricNext \/ Foreign("fabric", fabricVars))
    BY FrameInvStep, ForeignSteps DEF FabricInv, FrameInv
  <2> QED
    BY <2>1, PlanIsKept DEF FabricInv
<1>2. \A r \in Requests : Uses(r, "fabric")' <=> Uses(r, "fabric")
  BY <1>1 DEF Uses
<1>3. CASE FabricNext
  BY <1>1, <1>2, <1>3, FabricStep DEF FabricInv
<1>4. CASE RequestsNext /\ UNCHANGED fabricVars
  BY <1>1, <1>2, <1>4, FabricKeptByRequests DEF FabricInv, fabricVars
<1>5. CASE StepElsewhere("fabric") /\ UNCHANGED fabricVars
  <2>1. ASSUME NEW r \in Requests, Uses(r, "fabric") PROVE FabricRequest(r)'
    <3>1. stage'[r] = stage[r] /\ todo'[r] = todo[r] /\ at'[r] = at[r] /\ call'[r] = call[r]
      BY <1>5, <2>1 DEF StepElsewhere, Steps, Works, Kept, frame
    <3> QED
      BY <1>1, <1>5, <2>1, <3>1, FabricUnmoved DEF FabricInv, fabricVars
  <2> QED
    BY <1>1, <1>2, <1>5, <2>1 DEF FabricInv, fabricVars
<1> QED
  BY <1>1, <1>3, <1>4, <1>5 DEF Foreign

\* A request that is done has all its submissions on the ledger.
LEMMA FabricInvMeans == FabricInv => SubmissionsAreCommitted
<1> SUFFICES ASSUME FabricInv, NEW r \in Requests, Uses(r, "fabric"), stage[r] = "done",
                    NEW c \in DOMAIN plan[r].calls, NEW i \in DOMAIN Success(r, c),
                    Success(r, c)[i].op \in {"submit", "store"}
             PROVE  OnLedger(r, c, i)
  BY DEF SubmissionsAreCommitted, Success
<1>1. FrameInv /\ Submitted(r)
  BY DEF FabricInv, FabricRequest
<1> QED
  BY <1>1, DoneIsPassed DEF Submitted

\* A submission is repeated by a step only after its answer was an error.
LEMMA RepeatedStep == FabricInv /\ RepeatedOnlyAfterErrors /\ [Next]_vars => RepeatedOnlyAfterErrors'
<1> SUFFICES ASSUME FabricInv, RepeatedOnlyAfterErrors, [Next]_vars PROVE RepeatedOnlyAfterErrors'
  OBVIOUS
<1>1. CASE UNCHANGED <<committed, cutOff>>
  BY <1>1 DEF RepeatedOnlyAfterErrors
<1>2. CASE FabricNext
  <2> PICK q \in Requests : Uses(q, "fabric") /\ FabricActions(q)
    BY <1>2 DEF FabricNext, FabricActions
  <2>1. FabricSteps(q) /\ FabricRequest(q)
    BY FabricEffect DEF FabricSteps, FabricInv
  <2>2. CASE committed' = committed
    BY <2>1, <2>2 DEF RepeatedOnlyAfterErrors, FabricSteps
  <2>3. CASE Submitting(q)
    <3> SUFFICES ASSUME NEW s \in committed', NEW t \in committed',
                        SubSeq(s, 1, 3) = SubSeq(t, 1, 3), s[4] < t[4]
                 PROVE  s \in cutOff'
      BY DEF RepeatedOnlyAfterErrors
    <3>1. s \in Requests \X Nat \X Nat \X Nat /\ t \in Requests \X Nat \X Nat \X Nat
      BY <1>2, FabricStep
    <3>2. s[1] = t[1] /\ s[2] = t[2] /\ s[3] = t[3]
      BY <3>1
    <3>3. CASE s \in committed /\ t \in committed
      BY <2>1, <3>3 DEF RepeatedOnlyAfterErrors, FabricSteps
    <3>4. CASE s \in committed /\ t = Submission(q)
      <4>1. s[1] = q /\ s[2] = call[q] /\ s[3] = Len(todo[q]) /\ stage[q] = "success"
        BY <2>3, <3>2, <3>4 DEF Submission, Submitting
      <4> QED
        BY <2>1, <3>4, <4>1 DEF FabricRequest, Ledger, FabricSteps
    <3>5. CASE s = Submission(q) /\ t \in committed
      <4>1. /\ t[1] = q /\ t[2] = call[q] /\ t[3] = Len(todo[q]) /\ s[4] = count[q]
            /\ stage[q] = "success"
        BY <2>3, <3>2, <3>5 DEF Submission, Submitting
      <4>2. t[4] < count[q] \/ t[4] = count[q]
        BY <2>1, <3>5, <4>1 DEF FabricRequest, Ledger
      <4>3. t[4] \in Nat /\ count[q] \in Nat
        BY <3>1, <4>1
      <4> QED
        BY <4>1, <4>2, <4>3
    <3>6. CASE s = t
      BY <3>1, <3>6
    <3> QED
      BY <2>3, <3>3, <3>4, <3>5, <3>6 DEF Submitting
  <2> QED
    BY <2>1, <2>2, <2>3 DEF FabricSteps
<1>3. FabricNext \/ UNCHANGED fabricVars
  BY ForeignSteps DEF FabricInv, FrameInv, Foreign
<1> QED
  BY <1>1, <1>2, <1>3 DEF fabricVars

\* Trying again puts a submission on the ledger a second time only if the answer
\* to the first one was an error: for any requests and plans.
THEOREM OnlyErrorsAreRepeated == Spec => []RepeatedOnlyAfterErrors
<1>1. Init => RepeatedOnlyAfterErrors
  BY DEF Init, FabricInit, RepeatedOnlyAfterErrors
<1> QED
  BY <1>1, FabricInvInit, FabricInvStep, RepeatedStep, PTL DEF Spec

\* A request that ends well has its transactions on the ledger and its files in
\* the last commit, whatever other requests write: for any requests and plans.
THEOREM DoneIsWritten == Spec => []DoneMeansWritten
<1>1. FabricInv /\ GitInv => DoneMeansWritten
  BY FabricInvMeans, GitInvMeans DEF DoneMeansWritten
<1> QED
  BY <1>1, FabricInvInit, FabricInvStep, GitInvInit, GitInvStep, PTL DEF Spec

-----------------------------------------------------------------------------
(* The connection of fabric. *)

\* What each object of a connection is built on: a request has made it on an
\* object that the connection has, as far as its step goes.
Linked(c) ==
  /\ c = [current |-> c.current, client |-> c.client, gateway |-> c.gateway,
          network |-> c.network, contract |-> c.contract]
  /\ c.current \in Address..Contract
  /\ c.client \in Seq(Requests) /\ Len(c.client) \in {0, 1}
  /\ c.gateway \in Seq(Requests) /\ Len(c.gateway) \in {0, 2}
  /\ c.network \in Seq(Requests) /\ Len(c.network) \in {0, 3}
  /\ c.contract \in Seq(Requests) /\ Len(c.contract) \in {0, 4}
  /\ c.current >= Connect => Len(c.client) = 1
  /\ c.current >= Channel => Len(c.gateway) = 2 /\ SubSeq(c.gateway, 1, 1) = c.client
  /\ c.current >= Contract => Len(c.network) = 3 /\ SubSeq(c.network, 1, 2) = c.gateway

\* What is built on an object remembers it.
LEMMA Built ==
  ASSUME NEW s \in Seq(Requests), NEW r \in Requests, NEW n \in Nat, Len(s) = n
  PROVE  /\ Append(s, r) \in Seq(Requests) /\ Len(Append(s, r)) = n + 1
         /\ SubSeq(Append(s, r), 1, n) = s
<1>1. /\ Append(s, r) \in Seq(Requests) /\ Len(Append(s, r)) = Len(s) + 1
      /\ \A i \in 1..Len(s) : Append(s, r)[i] = s[i]
  BY AppendProperties
<1>2. Len(s) \in Nat
  OBVIOUS
<1>3. /\ SubSeq(Append(s, r), 1, Len(s)) \in Seq(Requests)
      /\ Len(SubSeq(Append(s, r), 1, Len(s))) = Len(s)
      /\ \A i \in 1..Len(s) : SubSeq(Append(s, r), 1, Len(s))[i] = s[i]
  BY <1>1, <1>2, SubSeqProperties
<1> QED
  BY <1>1, <1>3, SeqEqual

\* A sentence that is not out of order builds on what there is.
LEMMA ConfiguredIsLinked ==
  ASSUME NEW c, Linked(c), NEW r \in Requests, NEW sentence \in Sentences,
         ~Missing(Requested(sentence), c)
  PROVE  Linked(Configured(c, sentence, r))
<1> DEFINE d == Configured(c, sentence, r)
<1> USE DEF Address, Connect, Channel, Contract
<1>1. CASE sentence = "address"
  <2>1. d = [current |-> 1, client |-> <<r>>, gateway |-> c.gateway, network |-> c.network,
             contract |-> c.contract]
    BY <1>1 DEF Configured, Linked
  <2>2. <<r>> \in Seq(Requests) /\ Len(<<r>>) = 1
    OBVIOUS
  <2> HIDE DEF d
  <2>9. Linked(d)
    BY <2>1, <2>2 DEF Linked
  <2> QED
    BY <2>9 DEF d
<1>2. CASE sentence = "connect"
  <2>1. d = [current |-> 2, client |-> c.client, gateway |-> Append(c.client, r),
             network |-> c.network, contract |-> c.contract]
    BY <1>2 DEF Configured, Linked
  <2>2. c.current >= 1
    BY <1>2 DEF Missing, Requested, Linked
  <2>3. Len(c.client) = 1 /\ c.client \in Seq(Requests)
    BY <2>2 DEF Linked
  <2>4. /\ Append(c.client, r) \in Seq(Requests) /\ Len(Append(c.client, r)) = 1 + 1
        /\ SubSeq(Append(c.client, r), 1, 1) = c.client
    BY <2>3, Built
  <2> HIDE DEF d
  <2>9. Linked(d)
    BY <2>1, <2>3, <2>4 DEF Linked
  <2> QED
    BY <2>9 DEF d
<1>3. CASE sentence = "channel"
  <2>1. d = [current |-> 3, client |-> c.client, gateway |-> c.gateway,
             network |-> Append(c.gateway, r), contract |-> c.contract]
    BY <1>3 DEF Configured, Linked
  <2>2. c.current >= 2
    BY <1>3 DEF Missing, Requested, Linked
  <2>3. /\ Len(c.client) = 1 /\ c.gateway \in Seq(Requests) /\ Len(c.gateway) = 2
        /\ SubSeq(c.gateway, 1, 1) = c.client
    BY <2>2 DEF Linked
  <2>4. /\ Append(c.gateway, r) \in Seq(Requests) /\ Len(Append(c.gateway, r)) = 2 + 1
        /\ SubSeq(Append(c.gateway, r), 1, 2) = c.gateway
    BY <2>3, Built
  <2> HIDE DEF d
  <2>9. Linked(d)
    BY <2>1, <2>3, <2>4 DEF Linked
  <2> QED
    BY <2>9 DEF d
<1>4. CASE sentence = "contract"
  <2>1. d = [current |-> c.current, client |-> c.client, gateway |-> c.gateway,
             network |-> c.network, contract |-> Append(c.network, r)]
    BY <1>4 DEF Configured, Linked
  <2>2. c.current >= 3
    BY <1>4 DEF Missing, Requested, Linked
  <2>3. Len(c.network) = 3 /\ c.network \in Seq(Requests)
    BY <2>2 DEF Linked
  <2>4. Append(c.network, r) \in Seq(Requests) /\ Len(Append(c.network, r)) = 3 + 1
    BY <2>3, Built
  <2> HIDE DEF d
  <2>9. Linked(d)
    BY <2>1, <2>4 DEF Linked
  <2> QED
    BY <2>9 DEF d
<1> QED
  BY <1>1, <1>2, <1>3, <1>4 DEF Sentences

\* The connections a configuration goes through, sentence by sentence.
RunOf(g, r, sentences, n) ==
  g = [i \in 0..n |-> IF i = 0 THEN [c |-> conn, ok |-> TRUE]
                      ELSE Carried(g[i - 1], sentences[i], r)]

\* There are such connections, however many the sentences: else there were a
\* least number of sentences without, and one more could be added to fewer.
LEMMA RunsExist ==
  ASSUME NEW r, NEW sentences, NEW n \in Nat
  PROVE  \E g : RunOf(g, r, sentences, n)
<1> DEFINE T == {m \in Nat : ~\E g : RunOf(g, r, sentences, m)}
<1> SUFFICES ASSUME T # {} PROVE FALSE
  OBVIOUS
<1>1. PICK m \in T : \A k \in T : m <= k
  BY LeastNumber
<1>2. m # 0
  <2>1. RunOf([i \in 0..0 |-> [c |-> conn, ok |-> TRUE]], r, sentences, 0)
    BY DEF RunOf
  <2> QED
    BY <2>1
<1>3. m - 1 \in Nat /\ m - 1 \notin T
  BY <1>1, <1>2
<1>4. PICK g : RunOf(g, r, sentences, m - 1)
  BY <1>3
<1> DEFINE h == [i \in 0..m |-> IF i = 0 THEN [c |-> conn, ok |-> TRUE]
                                ELSE Carried(g[i - 1], sentences[i], r)]
<1>5. ASSUME NEW i \in 0..m-1 PROVE h[i] = g[i]
  <2>1. i \in 0..m /\ i \in 0..(m - 1)
    BY <1>3
  <2>2. g[i] = IF i = 0 THEN [c |-> conn, ok |-> TRUE] ELSE Carried(g[i - 1], sentences[i], r)
    BY <1>4, <2>1 DEF RunOf
  <2> QED
    BY <2>1, <2>2
<1>6. ASSUME NEW i \in 0..m, i # 0 PROVE h[i - 1] = g[i - 1]
  <2>1. i - 1 \in 0..m-1
    BY <1>3, <1>6
  <2> QED
    BY <1>5, <2>1
<1>7. RunOf(h, r, sentences, m)
  <2>1. \A i \in 0..m : h[i] = IF i = 0 THEN [c |-> conn, ok |-> TRUE]
                               ELSE Carried(h[i - 1], sentences[i], r)
    BY <1>6, Zenon
  <2> HIDE DEF h
  <2>2. h = [i \in 0..m |-> h[i]]
    BY DEF h
  <2> QED
    BY <2>1, <2>2 DEF RunOf
<1> QED
  BY <1>1, <1>7

\* A configuration leaves a connection whose objects are built on each other.
LEMMA ConfigurationIsLinked ==
  ASSUME Linked(conn), NEW r \in Requests, NEW sentences \in Seq(Sentences)
  PROVE  Linked(Configuration(r, sentences).c)
<1> DEFINE n == Len(sentences)
<1>1. n \in Nat
  OBVIOUS
<1>2. PICK g : RunOf(g, r, sentences, n) /\ Configuration(r, sentences) = g[n]
  <2> DEFINE f == CHOOSE g : RunOf(g, r, sentences, n)
  <2>1. RunOf(f, r, sentences, n)
    BY <1>1, RunsExist
  <2>2. Configuration(r, sentences) = f[n]
    BY DEF Configuration, RunOf
  <2> QED
    BY <2>1, <2>2
<1> DEFINE T == {i \in Nat : i <= n /\ ~Linked(g[i].c)}
<1>3. T = {}
  <2> SUFFICES ASSUME T # {} PROVE FALSE
    OBVIOUS
  <2>1. PICK m \in T : \A k \in T : m <= k
    BY LeastNumber
  <2>2. m # 0
    BY <1>1, <1>2 DEF RunOf
  <2>3. m - 1 \in Nat /\ m - 1 \notin T /\ m \in 1..n
    BY <1>1, <2>1, <2>2
  <2>4. Linked(g[m - 1].c)
    BY <2>3
  <2>5. g[m] = Carried(g[m - 1], sentences[m], r)
    <3>1. m \in 0..n
      BY <2>3
    <3> QED
      BY <1>2, <2>2, <3>1 DEF RunOf
  <2>6. sentences[m] \in Sentences
    BY <2>3
  <2>7. Linked(g[m].c)
    BY <2>4, <2>5, <2>6, ConfiguredIsLinked DEF Carried
  <2> QED
    BY <2>1, <2>7
<1> QED
  BY <1>1, <1>2, <1>3

LinkedInv == FrameInv /\ Linked(conn)

\* The connection stays whole, whichever requests configure it.
LEMMA LinkedInvStep == LinkedInv /\ [Next]_vars => LinkedInv'
<1> SUFFICES ASSUME LinkedInv, [Next]_vars PROVE LinkedInv'
  OBVIOUS
<1>1. FrameInv /\ FrameInv'
  BY FrameInvStep DEF LinkedInv
<1>2. CASE UNCHANGED fabricVars
  BY <1>1, <1>2 DEF LinkedInv, Linked, fabricVars
<1>3. CASE FabricNext
  <2> PICK q \in Requests : Uses(q, "fabric") /\ FabricActions(q)
    BY <1>3 DEF FabricNext, FabricActions
  <2>1. Doing(q, "before", "configure", 0) => Step(q).sentences \in Seq(Sentences)
    BY <1>1, StepIsAsked, FabricAssumption DEF Doing, InHook, HookStages, Uses
  <2>2. CASE Configures(q)
    <3>1. conn' = Configuration(q, Step(q).sentences).c /\ Step(q).sentences \in Seq(Sentences)
      BY <2>1, <2>2 DEF Configures
    <3>2. Linked(Configuration(q, Step(q).sentences).c)
      BY <3>1, ConfigurationIsLinked DEF LinkedInv
    <3> QED
      BY <1>1, <3>1, <3>2 DEF LinkedInv, Linked
  <2>3. CASE ConfigurationFails(q)
    <3>1. Step(q).sentences \in Seq(Sentences)
      BY <2>1, <2>3 DEF ConfigurationFails
    <3>2. PICK i \in DOMAIN Step(q).sentences :
             conn' = Configuration(q, SubSeq(Step(q).sentences, 1, i - 1)).c
      BY <2>3 DEF ConfigurationFails
    <3>3. SubSeq(Step(q).sentences, 1, i - 1) \in Seq(Sentences)
      BY <3>1, <3>2
    <3>4. Linked(Configuration(q, SubSeq(Step(q).sentences, 1, i - 1)).c)
      BY <3>3, ConfigurationIsLinked DEF LinkedInv
    <3> QED
      BY <1>1, <3>2, <3>4 DEF LinkedInv, Linked
  <2>4. CASE UNCHANGED conn
    BY <1>1, <2>4 DEF LinkedInv, Linked
  <2> QED
    BY <2>2, <2>3, <2>4 DEF FabricActions, StartsSuccess, AttemptSucceeds, AttemptFails, Wakes
<1> QED
  BY <1>1, <1>2, <1>3, ForeignSteps DEF FrameInv, Foreign

\* The step the connection is at tells what it has, whichever requests have set
\* its objects, in whichever order: for any requests and plans.
THEOREM ConnectionStaysWhole == Spec => []ConnectionIsWhole
<1>1. Init => LinkedInv
  <2> SUFFICES ASSUME Init PROVE LinkedInv
    OBVIOUS
  <2>1. conn = [current |-> Address, client |-> <<>>, gateway |-> <<>>, network |-> <<>>,
                contract |-> <<>>]
    BY DEF Init, FabricInit
  <2>2. <<>> \in Seq(Requests) /\ Len(<<>>) = 0
    OBVIOUS
  <2> QED
    BY <2>1, <2>2, FrameInvInit DEF LinkedInv, Linked, Address, Connect, Channel, Contract
<1>2. LinkedInv => ConnectionIsWhole
  BY DEF LinkedInv, Linked, ConnectionIsWhole
<1> QED
  BY <1>1, <1>2, LinkedInvStep, PTL DEF Spec

-----------------------------------------------------------------------------
(* The amounts of planetmint. *)

\* The outputs of the ledger, and the units they are worth.
LedgerOK == IsSequence(ledger) /\ \A i \in DOMAIN ledger : ledger[i].amount \in Nat

Units(outputs) == UNION {{i} \X (1..ledger[i].amount) : i \in outputs}

\* The function by which Amount adds up.
Sums(sum, outputs) ==
  sum = [s \in SUBSET outputs |->
           IF s = {} THEN 0
           ELSE LET x == CHOOSE x \in s : TRUE IN ledger[x].amount + sum[s \ {x}]]

\* An output has as many units as its amount.
LEMMA UnitsOfOutput ==
  ASSUME LedgerOK, NEW i \in DOMAIN ledger
  PROVE  /\ IsFiniteSet({i} \X (1..ledger[i].amount))
         /\ Cardinality({i} \X (1..ledger[i].amount)) = ledger[i].amount
<1>1. ledger[i].amount \in Nat
  BY DEF LedgerOK
<1>2. IsFiniteSet(1..ledger[i].amount) /\ Cardinality(1..ledger[i].amount) = ledger[i].amount
  <2>1. ledger[i].amount \in Int /\ 1 \in Int
    BY <1>1
  <2>2. /\ IsFiniteSet(1..ledger[i].amount)
        /\ Cardinality(1..ledger[i].amount) =
             IF 1 > ledger[i].amount THEN 0 ELSE ledger[i].amount - 1 + 1
    BY <2>1, FS_Interval
  <2> QED
    BY <1>1, <2>2
<1>3. IsFiniteSet({i}) /\ Cardinality({i}) = 1
  BY FS_Singleton
<1>4. /\ IsFiniteSet({i} \X (1..ledger[i].amount))
      /\ Cardinality({i} \X (1..ledger[i].amount)) = 1 * ledger[i].amount
  BY <1>2, <1>3, FS_Product
<1> QED
  BY <1>1, <1>4

\* There are finitely many.
LEMMA UnitsAreFinite ==
  ASSUME LedgerOK, NEW outputs \in SUBSET DOMAIN ledger, IsFiniteSet(outputs)
  PROVE  IsFiniteSet(Units(outputs)) /\ Cardinality(Units(outputs)) \in Nat
<1>1. IsFiniteSet(Units(outputs))
  <2> DEFINE Parts == {{i} \X (1..ledger[i].amount) : i \in outputs}
             f == [i \in outputs |-> {i} \X (1..ledger[i].amount)]
  <2>1. IsFiniteSet(Parts)
    <3>1. f \in Surjection(outputs, Parts)
      BY DEF Surjection
    <3> HIDE DEF f, Parts
    <3> QED
      BY <3>1, FS_Surjection
  <2>2. \A T \in Parts : IsFiniteSet(T)
    BY UnitsOfOutput
  <2> HIDE DEF Parts
  <2>3. IsFiniteSet(UNION Parts)
    BY <2>1, <2>2, FS_UNION
  <2> QED
    BY <2>3 DEF Units, Parts
<1> QED
  BY <1>1, FS_CardinalityType

\* Another output adds its units.
LEMMA UnitsAdd ==
  ASSUME LedgerOK, NEW outputs \in SUBSET DOMAIN ledger, IsFiniteSet(outputs),
         NEW x \in DOMAIN ledger, x \notin outputs
  PROVE  Cardinality(Units(outputs \cup {x})) = ledger[x].amount + Cardinality(Units(outputs))
<1>1. IsFiniteSet(Units(outputs)) /\ Cardinality(Units(outputs)) \in Nat
  BY UnitsAreFinite
<1>2. Units(outputs \cup {x}) = Units(outputs) \cup ({x} \X (1..ledger[x].amount))
  BY DEF Units
<1>3. Units(outputs) \cap ({x} \X (1..ledger[x].amount)) = {}
  BY DEF Units
<1>4. IsFiniteSet({x} \X (1..ledger[x].amount)) /\ Cardinality({x} \X (1..ledger[x].amount)) = ledger[x].amount
  BY UnitsOfOutput
<1>5. Cardinality(Units(outputs \cup {x}))
        = Cardinality(Units(outputs)) + ledger[x].amount - Cardinality({})
  BY <1>1, <1>2, <1>3, <1>4, FS_Union
<1>6. Cardinality({}) = 0 /\ ledger[x].amount \in Nat
  BY FS_EmptySet DEF LedgerOK
<1> QED
  BY <1>1, <1>5, <1>6

\* Amount counts the units: it is the one function that adds up as Sums says,
\* in whichever order outputs are chosen. A least set of outputs on which it
\* differed from the count would have an element, without which it differs too.
LEMMA AmountCounts ==
  ASSUME LedgerOK, NEW outputs \in SUBSET DOMAIN ledger, IsFiniteSet(outputs)
  PROVE  Amount(outputs) = Cardinality(Units(outputs))
<1> DEFINE worth == [s \in SUBSET outputs |-> Cardinality(Units(s))]
<1>1. ASSUME NEW s \in SUBSET outputs, s # {}, NEW x \in s
      PROVE  /\ s \ {x} \in SUBSET outputs
             /\ Cardinality(Units(s)) = ledger[x].amount + Cardinality(Units(s \ {x}))
  <2>1. IsFiniteSet(s \ {x}) /\ s \ {x} \in SUBSET DOMAIN ledger /\ x \in DOMAIN ledger
    BY FS_Subset
  <2>2. (s \ {x}) \cup {x} = s
    OBVIOUS
  <2> QED
    BY <2>1, <2>2, UnitsAdd
<1>2. Cardinality(Units({})) = 0
  BY FS_EmptySet DEF Units
<1>3. Sums(worth, outputs)
  <2>1. \A s \in SUBSET outputs : s # {} => (CHOOSE x \in s : TRUE) \in s
    OBVIOUS
  <2>2. ASSUME NEW s \in SUBSET outputs
        PROVE  worth[s] = IF s = {} THEN 0
                          ELSE LET x == CHOOSE x \in s : TRUE IN ledger[x].amount + worth[s \ {x}]
    BY <1>1, <1>2, <2>1
  <2> QED
    BY <2>2 DEF Sums
<1>4. ASSUME NEW sum, Sums(sum, outputs) PROVE sum[outputs] = Cardinality(Units(outputs))
  <2> DEFINE T == {Cardinality(s) : s \in {s \in SUBSET outputs : sum[s] # worth[s]}}
  <2> SUFFICES ASSUME sum[outputs] # worth[outputs] PROVE FALSE
    OBVIOUS
  <2>1. \A s \in SUBSET outputs : IsFiniteSet(s) /\ Cardinality(s) \in Nat
    BY FS_Subset, FS_CardinalityType
  <2>2. T \subseteq Nat /\ T # {}
    BY <2>1
  <2>3. PICK n \in T : \A m \in T : n <= m
    BY <2>2, LeastNumber
  <2>4. PICK s \in SUBSET outputs : sum[s] # worth[s] /\ n = Cardinality(s)
    BY <2>3
  <2>5. s # {}
    <3>1. sum[{}] = 0
      BY <1>4, Zenon DEF Sums
    <3>2. worth[{}] = 0
      BY <1>2
    <3> QED
      BY <2>4, <3>1, <3>2
  <2> DEFINE x == CHOOSE x \in s : TRUE
  <2>6. x \in s
    BY <2>5
  <2>7. s \ {x} \in SUBSET outputs /\ Cardinality(s \ {x}) = n - 1 /\ n \in Nat
    BY <2>1, <2>4, <2>6, FS_RemoveElement
  <2>8. sum[s \ {x}] = worth[s \ {x}]
    <3> SUFFICES ASSUME sum[s \ {x}] # worth[s \ {x}] PROVE FALSE
      OBVIOUS
    <3>1. Cardinality(s \ {x}) \in T
      BY <2>7
    <3> QED
      BY <2>3, <2>7, <3>1
  <2>9. sum[s] = ledger[x].amount + sum[s \ {x}]
    BY <1>4, <2>5 DEF Sums
  <2>10. worth[s] = ledger[x].amount + worth[s \ {x}]
    BY <1>1, <2>5, <2>6, <2>7
  <2> QED
    BY <2>4, <2>8, <2>9, <2>10
<1>5. Amount(outputs) = (CHOOSE sum : Sums(sum, outputs))[outputs]
  BY DEF Amount, MapThenSumSet, MapThenFoldSet, Sums
<1>6. Sums(CHOOSE sum : Sums(sum, outputs), outputs)
  BY <1>3
<1> QED
  BY <1>4, <1>5, <1>6

\* What Amount is, output by output.
LEMMA AmountAdds ==
  ASSUME LedgerOK, NEW outputs \in SUBSET DOMAIN ledger, IsFiniteSet(outputs)
  PROVE  /\ Amount(outputs) \in Nat /\ Amount({}) = 0
         /\ \A x \in DOMAIN ledger \ outputs :
              Amount(outputs \cup {x}) = Amount(outputs) + ledger[x].amount
         /\ \A part \in SUBSET outputs : Amount(part) <= Amount(outputs)
<1>1. IsFiniteSet({}) /\ Cardinality(Units({})) = 0
  BY FS_EmptySet DEF Units
<1>2. /\ Amount({}) = 0 /\ Amount(outputs) = Cardinality(Units(outputs))
      /\ Cardinality(Units(outputs)) \in Nat
  BY <1>1, AmountCounts, UnitsAreFinite
<1>3. ASSUME NEW x \in DOMAIN ledger \ outputs
      PROVE  Amount(outputs \cup {x}) = Amount(outputs) + ledger[x].amount
  <2>1. IsFiniteSet(outputs \cup {x}) /\ outputs \cup {x} \in SUBSET DOMAIN ledger
    BY FS_AddElement
  <2>2. Amount(outputs \cup {x}) = Cardinality(Units(outputs \cup {x}))
    BY <2>1, AmountCounts
  <2>3. Cardinality(Units(outputs \cup {x})) = ledger[x].amount + Cardinality(Units(outputs))
    BY UnitsAdd
  <2>4. ledger[x].amount \in Nat
    BY DEF LedgerOK
  <2> QED
    BY <1>2, <2>2, <2>3, <2>4
<1>4. ASSUME NEW part \in SUBSET outputs PROVE Amount(part) <= Amount(outputs)
  <2>1. IsFiniteSet(part) /\ part \in SUBSET DOMAIN ledger
    BY FS_Subset
  <2>2. Amount(part) = Cardinality(Units(part))
    BY <2>1, AmountCounts
  <2>3. Units(part) \in SUBSET Units(outputs)
    BY DEF Units
  <2>4. Cardinality(Units(part)) <= Cardinality(Units(outputs))
    BY <2>3, UnitsAreFinite, FS_Subset
  <2> QED
    BY <1>2, <2>2, <2>4
<1> QED
  BY <1>2, <1>3, <1>4
-----------------------------------------------------------------------------
(* The selection of outputs. *)

\* A list of outputs, none of them twice.
Listed(outputs) ==
  /\ outputs \in Seq(DOMAIN ledger)
  /\ \A i, j \in DOMAIN outputs : outputs[i] = outputs[j] => i = j

\* The outputs of a coin among the first n of a list.
OfCoin(outputs, coin, n) == {outputs[i] : i \in {j \in 1..n : ledger[outputs[j]].coin = coin}}

\* The loop of Selection, output by output.
Turn(before, output, coin, amount) ==
  IF before.sum > amount \/ ledger[output].coin # coin THEN before
  ELSE [used |-> before.used \cup {output}, sum |-> before.sum + ledger[output].amount]

Loop(g, outputs, coin, amount, n) ==
  g = [i \in 0..n |-> IF i = 0 THEN [used |-> {}, sum |-> 0]
                      ELSE Turn(g[i - 1], outputs[i], coin, amount)]

\* The loop can be gone through however long the list: else there were a least
\* length at which it cannot.
LEMMA LoopsExist ==
  ASSUME NEW outputs, NEW coin, NEW amount, NEW n \in Nat
  PROVE  \E g : Loop(g, outputs, coin, amount, n)
<1> DEFINE T == {m \in Nat : ~\E g : Loop(g, outputs, coin, amount, m)}
<1> SUFFICES ASSUME T # {} PROVE FALSE
  OBVIOUS
<1>1. PICK m \in T : \A k \in T : m <= k
  BY LeastNumber
<1>2. m # 0
  <2>1. Loop([i \in 0..0 |-> [used |-> {}, sum |-> 0]], outputs, coin, amount, 0)
    BY DEF Loop
  <2> QED
    BY <2>1
<1>3. m - 1 \in Nat /\ m - 1 \notin T
  BY <1>1, <1>2
<1>4. PICK g : Loop(g, outputs, coin, amount, m - 1)
  BY <1>3
<1> DEFINE h == [i \in 0..m |-> IF i = 0 THEN [used |-> {}, sum |-> 0]
                                ELSE Turn(g[i - 1], outputs[i], coin, amount)]
<1>5. ASSUME NEW i \in 0..m-1 PROVE h[i] = g[i]
  <2>1. i \in 0..m /\ i \in 0..(m - 1)
    BY <1>3
  <2>2. g[i] = IF i = 0 THEN [used |-> {}, sum |-> 0]
               ELSE Turn(g[i - 1], outputs[i], coin, amount)
    BY <1>4, <2>1 DEF Loop
  <2> QED
    BY <2>1, <2>2
<1>6. ASSUME NEW i \in 0..m, i # 0 PROVE h[i - 1] = g[i - 1]
  <2>1. i - 1 \in 0..m-1
    BY <1>3, <1>6
  <2> QED
    BY <1>5, <2>1
<1>7. Loop(h, outputs, coin, amount, m)
  <2>1. \A i \in 0..m : h[i] = IF i = 0 THEN [used |-> {}, sum |-> 0]
                               ELSE Turn(h[i - 1], outputs[i], coin, amount)
    BY <1>6, Zenon
  <2> HIDE DEF h
  <2>2. h = [i \in 0..m |-> h[i]]
    BY DEF h
  <2> QED
    BY <2>1, <2>2 DEF Loop
<1> QED
  BY <1>1, <1>7

\* After i turns: the outputs used are of the coin, and all of those as long as
\* they are not enough; if they are, they were not without the last one.
Chosen(u, outputs, coin, amount, i) ==
  /\ u.used \subseteq OfCoin(outputs, coin, i)
  /\ u.sum = Amount(u.used)
  /\ u.sum <= amount => u.used = OfCoin(outputs, coin, i)
  /\ u.sum > amount =>
       \E last \in 1..i :
         /\ outputs[last] \in u.used
         /\ \A j \in DOMAIN outputs : outputs[j] \in u.used => j <= last
         /\ Amount(u.used \ {outputs[last]}) <= amount

\* There are finitely many outputs of a coin.
LEMMA OfCoinFinite ==
  ASSUME NEW outputs, Listed(outputs), NEW coin, NEW n \in 0..Len(outputs)
  PROVE  /\ OfCoin(outputs, coin, n) \in SUBSET DOMAIN ledger
         /\ IsFiniteSet(OfCoin(outputs, coin, n))
<1>1. \A i \in 1..n : outputs[i] \in DOMAIN ledger
  BY DEF Listed
<1> DEFINE I == {j \in 1..n : ledger[outputs[j]].coin = coin}
           f == [i \in I |-> outputs[i]]
<1>2. n \in Nat /\ IsFiniteSet(1..n) /\ I \in SUBSET (1..n)
  BY FS_Interval DEF Listed
<1>3. IsFiniteSet(I)
  BY <1>2, FS_Subset
<1>4. f \in Surjection(I, OfCoin(outputs, coin, n))
  BY DEF Surjection, OfCoin
<1>5. IsFiniteSet(OfCoin(outputs, coin, n))
  <2> HIDE DEF f, I
  <2> QED
    BY <1>3, <1>4, FS_Surjection
<1> QED
  BY <1>1, <1>5 DEF OfCoin

\* A turn keeps this.
LEMMA TurnKeeps ==
  ASSUME LedgerOK, NEW outputs, Listed(outputs), NEW coin, NEW amount \in Nat,
         NEW i \in 1..Len(outputs), NEW u, Chosen(u, outputs, coin, amount, i - 1)
  PROVE  Chosen(Turn(u, outputs[i], coin, amount), outputs, coin, amount, i)
<1> DEFINE before == OfCoin(outputs, coin, i - 1)
           after == OfCoin(outputs, coin, i)
<1>1. /\ Len(outputs) \in Nat /\ DOMAIN outputs = 1..Len(outputs) /\ i \in Nat
      /\ i - 1 \in 0..Len(outputs) /\ i \in 0..Len(outputs) /\ outputs[i] \in DOMAIN ledger
  BY DEF Listed
<1>2. after = IF ledger[outputs[i]].coin = coin THEN before \cup {outputs[i]} ELSE before
  <2>1. 1..i = (1..(i - 1)) \cup {i}
    BY <1>1
  <2>2. {j \in 1..i : ledger[outputs[j]].coin = coin}
          = {j \in 1..(i - 1) : ledger[outputs[j]].coin = coin}
              \cup (IF ledger[outputs[i]].coin = coin THEN {i} ELSE {})
    BY <2>1
  <2> QED
    BY <2>2 DEF OfCoin
<1>3. outputs[i] \notin before
  <2> SUFFICES ASSUME NEW j \in 1..(i - 1), outputs[j] = outputs[i] PROVE FALSE
    BY DEF OfCoin
  <2>1. j \in DOMAIN outputs /\ i \in DOMAIN outputs /\ j # i
    BY <1>1
  <2> QED
    BY <2>1 DEF Listed
<1>4. /\ u.used \subseteq before /\ u.sum = Amount(u.used)
      /\ u.sum <= amount => u.used = before
  BY DEF Chosen
<1>5. /\ IsFiniteSet(u.used) /\ u.used \in SUBSET DOMAIN ledger /\ outputs[i] \notin u.used
      /\ u.sum \in Nat
  <2>1. before \in SUBSET DOMAIN ledger /\ IsFiniteSet(before)
    BY <1>1, OfCoinFinite
  <2>2. IsFiniteSet(u.used) /\ u.used \in SUBSET DOMAIN ledger /\ outputs[i] \notin u.used
    BY <1>3, <1>4, <2>1, FS_Subset
  <2> QED
    BY <1>4, <2>2, AmountAdds
<1> HIDE DEF before, after
<1>6. CASE u.sum > amount
  <2>1. Turn(u, outputs[i], coin, amount) = u
    BY <1>6 DEF Turn
  <2>2. ~(u.sum <= amount)
    BY <1>5, <1>6
  <2>3. PICK last \in 1..(i - 1) :
          /\ outputs[last] \in u.used
          /\ \A j \in DOMAIN outputs : outputs[j] \in u.used => j <= last
          /\ Amount(u.used \ {outputs[last]}) <= amount
    BY <1>6 DEF Chosen
  <2>4. last \in 1..i
    BY <1>1
  <2>5. u.used \subseteq after
    BY <1>2, <1>4
  <2> QED
    BY <1>4, <2>1, <2>2, <2>3, <2>4, <2>5 DEF Chosen, after
<1>7. CASE ~(u.sum > amount) /\ ledger[outputs[i]].coin # coin
  <2>1. Turn(u, outputs[i], coin, amount) = u
    BY <1>7 DEF Turn
  <2> QED
    BY <1>2, <1>4, <1>7, <2>1 DEF Chosen, after
<1>8. CASE ~(u.sum > amount) /\ ledger[outputs[i]].coin = coin
  <2> DEFINE v == [used |-> u.used \cup {outputs[i]}, sum |-> u.sum + ledger[outputs[i]].amount]
  <2>1. Turn(u, outputs[i], coin, amount) = v
    BY <1>8 DEF Turn
  <2>2. u.sum <= amount /\ u.used = before
    BY <1>4, <1>5, <1>8
  <2>3. v.used = after
    BY <1>2, <1>8, <2>2
  <2>4. v.sum = Amount(v.used)
    <3>1. Amount(u.used \cup {outputs[i]}) = Amount(u.used) + ledger[outputs[i]].amount
      BY <1>1, <1>5, AmountAdds
    <3> QED
      BY <1>4, <3>1
  <2>5. /\ outputs[i] \in v.used /\ i \in 1..i
        /\ Amount(v.used \ {outputs[i]}) <= amount
    <3>1. v.used = u.used \cup {outputs[i]} /\ v.used \ {outputs[i]} = u.used
      BY <1>5
    <3> HIDE DEF v
    <3>2. Amount(v.used \ {outputs[i]}) = u.sum
      BY <1>4, <3>1
    <3>3. i \in 1..i
      BY <1>1
    <3> QED
      BY <2>2, <3>1, <3>2, <3>3
  <2>6. ASSUME NEW j \in DOMAIN outputs, outputs[j] \in v.used PROVE j <= i
    <3>1. PICK k \in 1..i : outputs[j] = outputs[k]
      BY <2>3, <2>6 DEF after, OfCoin
    <3>2. k \in DOMAIN outputs
      BY <1>1
    <3>3. j = k
      BY <3>1, <3>2 DEF Listed
    <3> QED
      BY <1>1, <3>3
  <2> HIDE DEF v
  <2> QED
    BY <2>1, <2>3, <2>4, <2>5, <2>6 DEF Chosen, after
<1> QED
  BY <1>6, <1>7, <1>8

\* So the selection is right at the end of the list.
LEMMA SelectionIsChosen ==
  ASSUME LedgerOK, NEW outputs, Listed(outputs), NEW coin, NEW amount \in Nat
  PROVE  Chosen(Selection(outputs, coin, amount), outputs, coin, amount, Len(outputs))
<1> DEFINE n == Len(outputs)
<1>1. n \in Nat
  BY DEF Listed
<1>2. PICK g : Loop(g, outputs, coin, amount, n) /\ Selection(outputs, coin, amount) = g[n]
  <2> DEFINE f == CHOOSE g : Loop(g, outputs, coin, amount, n)
  <2>1. Loop(f, outputs, coin, amount, n)
    BY <1>1, LoopsExist
  <2>2. Selection(outputs, coin, amount) = f[n]
    BY DEF Selection, Loop, Turn
  <2> QED
    BY <2>1, <2>2
<1> DEFINE T == {i \in Nat : i <= n /\ ~Chosen(g[i], outputs, coin, amount, i)}
<1>3. T = {}
  <2> SUFFICES ASSUME T # {} PROVE FALSE
    OBVIOUS
  <2>1. PICK m \in T : \A k \in T : m <= k
    BY LeastNumber
  <2>2. m # 0
    <3>1. g[0] = [used |-> {}, sum |-> 0]
      BY <1>1, <1>2 DEF Loop
    <3>2. Amount({}) = 0
      BY AmountAdds, FS_EmptySet
    <3>3. OfCoin(outputs, coin, 0) = {}
      BY DEF OfCoin
    <3>4. Chosen(g[0], outputs, coin, amount, 0)
      BY <3>1, <3>2, <3>3 DEF Chosen
    <3> QED
      BY <2>1, <3>4
  <2>3. m - 1 \in Nat /\ m - 1 \notin T /\ m \in 1..n
    BY <1>1, <2>1, <2>2
  <2>4. Chosen(g[m - 1], outputs, coin, amount, m - 1)
    BY <2>3
  <2>5. g[m] = Turn(g[m - 1], outputs[m], coin, amount)
    <3>1. m \in 0..n
      BY <2>3
    <3> QED
      BY <1>2, <2>2, <3>1 DEF Loop
  <2>6. Chosen(g[m], outputs, coin, amount, m)
    BY <2>3, <2>4, <2>5, TurnKeeps
  <2> QED
    BY <2>1, <2>6
<1> QED
  BY <1>1, <1>2, <1>3
-----------------------------------------------------------------------------
(* The transfers of planetmint. *)

\* What SelectionIsRight says of one transfer.
Right(t) ==
  LET own == {t.from[i] : i \in {j \in DOMAIN t.from : ledger[t.from[j]].coin = t.coin}}
  IN /\ t.used \subseteq own
     /\ t.change = Amount(t.used) - t.amount
     /\ IF Amount(own) > t.amount
        THEN /\ t.change > 0
             /\ \E last \in DOMAIN t.from :
                  /\ t.from[last] \in t.used
                  /\ \A i \in DOMAIN t.from : t.from[i] \in t.used => i <= last
                  /\ Amount(t.used \ {t.from[last]}) <= t.amount
        ELSE t.used = own

Transfer(t) ==
  /\ Listed(t.from) /\ t.amount \in Nat /\ t.change \in Int
  /\ t.used \in SUBSET DOMAIN ledger /\ Right(t)

PlanetmintInv ==
  /\ FrameInv /\ LedgerOK
  /\ DOMAIN listing = Requests /\ DOMAIN transaction = Requests
  /\ \A r \in Requests : Listed(listing[r])
  /\ \A r \in Requests : transaction[r] = NoTransfer \/ Transfer(transaction[r])
  /\ ipfs \in BOOLEAN /\ connection \subseteq Requests /\ spent \subseteq DOMAIN ledger

\* Before any request has called a hook.
LEMMA PlanetmintInvInit == Init => PlanetmintInv
<1> SUFFICES ASSUME Init PROVE PlanetmintInv
  OBVIOUS
<1>1. FrameInv
  BY FrameInvInit
<1>2. /\ listing = [r \in Requests |-> <<>>] /\ transaction = [r \in Requests |-> NoTransfer]
      /\ ledger = InitialOutputs /\ ipfs = FALSE /\ connection = {} /\ spent = {}
  BY DEF Init, PlanetmintInit
<1>3. LedgerOK
  BY <1>2, PlanetmintAssumption DEF LedgerOK
<1>4. Listed(<<>>)
  BY DEF Listed
<1> QED
  BY <1>1, <1>2, <1>3, <1>4 DEF PlanetmintInv

\* The transfer that SelectsOutputs makes is right.
LEMMA SelectedIsTransfer ==
  ASSUME LedgerOK, NEW outputs, Listed(outputs), NEW coin, NEW payer, NEW amount \in Nat,
         NEW t, t = [from |-> outputs, used |-> Selection(outputs, coin, amount).used, coin |-> coin,
                     owner |-> payer, amount |-> amount,
                     change |-> Selection(outputs, coin, amount).sum - amount]
  PROVE  Transfer(t)
<1> DEFINE u == Selection(outputs, coin, amount)
           own == OfCoin(outputs, coin, Len(outputs))
<1>1. /\ t.from = outputs /\ t.used = u.used /\ t.coin = coin /\ t.amount = amount
      /\ t.change = u.sum - amount
  OBVIOUS
<1>2. Chosen(u, outputs, coin, amount, Len(outputs))
  BY SelectionIsChosen
<1>3. Len(outputs) \in Nat /\ DOMAIN outputs = 1..Len(outputs)
  BY DEF Listed
<1>4. own \in SUBSET DOMAIN ledger /\ IsFiniteSet(own)
  BY <1>3, OfCoinFinite
<1>5. own = {t.from[i] : i \in {j \in DOMAIN t.from : ledger[t.from[j]].coin = t.coin}}
  BY <1>1, <1>3 DEF OfCoin
<1> HIDE DEF u, own
<1>6. /\ u.used \subseteq own /\ u.sum = Amount(u.used)
      /\ u.sum <= amount => u.used = own
  BY <1>2 DEF Chosen, own
<1>7. u.used \in SUBSET DOMAIN ledger /\ Amount(u.used) \in Nat /\ Amount(u.used) <= Amount(own)
      /\ Amount(own) \in Nat
  BY <1>4, <1>6, FS_Subset, AmountAdds
<1>8. t.change = Amount(t.used) - t.amount /\ t.change \in Int
  BY <1>1, <1>6, <1>7
<1>9. CASE Amount(own) > amount
  <2>1. u.sum > amount
    BY <1>6, <1>7, <1>9
  <2>2. t.change > 0
    BY <1>1, <1>6, <1>7, <2>1
  <2>3. \E last \in DOMAIN t.from :
          /\ t.from[last] \in t.used
          /\ \A i \in DOMAIN t.from : t.from[i] \in t.used => i <= last
          /\ Amount(t.used \ {t.from[last]}) <= t.amount
    BY <1>1, <1>2, <1>3, <2>1 DEF Chosen
  <2>4. Right(t)
    BY <1>1, <1>5, <1>6, <1>8, <1>9, <2>2, <2>3 DEF Right
  <2> QED
    BY <1>1, <1>7, <1>8, <2>4 DEF Transfer
<1>10. CASE ~(Amount(own) > amount)
  <2>1. u.used = own
    BY <1>6, <1>7, <1>10
  <2>2. Right(t)
    BY <1>1, <1>5, <1>6, <1>8, <1>10, <2>1 DEF Right
  <2> QED
    BY <1>1, <1>7, <1>8, <2>2 DEF Transfer
<1> QED
  BY <1>9, <1>10

\* The ledger only grows.
Grows ==
  /\ LedgerOK' /\ DOMAIN ledger \subseteq DOMAIN ledger'
  /\ \A i \in DOMAIN ledger : ledger'[i] = ledger[i]

\* AmountCounts in the next state.
LEMMA AmountCountsNext ==
  LedgerOK' => (\A outputs : outputs \in SUBSET DOMAIN ledger /\ IsFiniteSet(outputs) =>
                Amount(outputs) = Cardinality(Units(outputs)))'
<1>1. LedgerOK => \A outputs : outputs \in SUBSET DOMAIN ledger /\ IsFiniteSet(outputs) =>
                  Amount(outputs) = Cardinality(Units(outputs))
  BY AmountCounts
<1> QED
  BY <1>1, PTL

\* What is listed stays worth what it was.
LEMMA AmountStays ==
  ASSUME LedgerOK, Grows, NEW outputs \in SUBSET DOMAIN ledger, IsFiniteSet(outputs)
  PROVE  Amount(outputs)' = Amount(outputs)
<1>1. Units(outputs)' = Units(outputs)
  BY DEF Units, Grows
<1>2. Amount(outputs)' = Cardinality(Units(outputs))'
  BY AmountCountsNext DEF Grows
<1>3. Amount(outputs) = Cardinality(Units(outputs))
  BY AmountCounts
<1> QED
  BY <1>1, <1>2, <1>3

\* As the ledger grows, lists and transfers stay what they are.
LEMMA TransfersStay ==
  ASSUME LedgerOK, Grows
  PROVE  (\A o : Listed(o) => Listed(o)') /\ (\A t : Transfer(t) => Transfer(t)')
<1>1. ASSUME NEW o, Listed(o) PROVE Listed(o)'
  <2>1. /\ Len(o) \in Nat /\ o \in [1..Len(o) -> DOMAIN ledger]
        /\ \A i, j \in DOMAIN o : o[i] = o[j] => i = j
    BY <1>1 DEF Listed
  <2>2. o \in [1..Len(o) -> DOMAIN ledger']
    BY <2>1 DEF Grows
  <2>3. o \in Seq(DOMAIN ledger')
    BY <2>1, <2>2
  <2> QED
    BY <2>1, <2>3 DEF Listed
<1>2. ASSUME NEW t, Transfer(t) PROVE Transfer(t)'
  <2>1. Listed(t.from) /\ Listed(t.from)' /\ Right(t)
    BY <1>1, <1>2 DEF Transfer
  <2>2. Len(t.from) \in Nat /\ DOMAIN t.from = 1..Len(t.from)
        /\ \A j \in DOMAIN t.from : t.from[j] \in DOMAIN ledger
    BY <2>1 DEF Listed
  <2>3. PICK own : own = {t.from[i] : i \in {j \in DOMAIN t.from : ledger[t.from[j]].coin = t.coin}}
    OBVIOUS
  <2>4. own = {t.from[i] : i \in {j \in DOMAIN t.from : ledger'[t.from[j]].coin = t.coin}}
    BY <2>2, <2>3 DEF Grows
  <2>5. IsFiniteSet(own) /\ own \in SUBSET DOMAIN ledger
    <3>1. own = OfCoin(t.from, t.coin, Len(t.from))
      BY <2>2, <2>3 DEF OfCoin
    <3> QED
      BY <2>1, <2>2, <3>1, OfCoinFinite
  <2>6. /\ t.used \subseteq own
        /\ t.change = Amount(t.used) - t.amount
        /\ IF Amount(own) > t.amount
           THEN /\ t.change > 0
                /\ \E last \in DOMAIN t.from :
                     /\ t.from[last] \in t.used
                     /\ \A i \in DOMAIN t.from : t.from[i] \in t.used => i <= last
                     /\ Amount(t.used \ {t.from[last]}) <= t.amount
           ELSE t.used = own
    BY <2>1, <2>3 DEF Right
  <2>7. \A part \in SUBSET own : Amount(part)' = Amount(part)
    BY <2>5, FS_Subset, AmountStays
  <2>8. /\ Amount(t.used)' = Amount(t.used) /\ Amount(own)' = Amount(own)
        /\ \A x : Amount(t.used \ {x})' = Amount(t.used \ {x})
    BY <2>6, <2>7
  <2>9. Right(t)'
    BY <2>4, <2>6, <2>8 DEF Right
  <2> QED
    BY <1>2, <2>1, <2>9 DEF Transfer, Grows
<1> QED
  BY <1>1, <1>2

\* The middleware of planetmint keeps its invariant.
LEMMA PlanetmintStep ==
  ASSUME PlanetmintInv, FrameInv', PlanetmintNext
  PROVE  PlanetmintInv'
<1> PICK q \in Requests :
      /\ Uses(q, "planetmint")
      /\ \/ Arrives(q) \/ CreatesNode(q) \/ ConnectsToNode(q) \/ NodeFails(q)
         \/ RetrievesTransaction(q) \/ ChecksAsset(q) \/ FileIsStored(q)
         \/ TransfersAsset(q) \/ ChecksTransfer(q) \/ ListsOutputs(q)
         \/ SelectsOutputs(q) \/ Signs(q) \/ Broadcasts(q)
  BY DEF PlanetmintNext
<1>1. /\ LedgerOK /\ DOMAIN listing = Requests /\ DOMAIN transaction = Requests
      /\ \A r \in Requests : Listed(listing[r])
      /\ \A r \in Requests : transaction[r] = NoTransfer \/ Transfer(transaction[r])
      /\ ipfs \in BOOLEAN /\ connection \subseteq Requests /\ spent \subseteq DOMAIN ledger
  BY DEF PlanetmintInv
<1>2. CASE ledger' = ledger
  <2>1. LedgerOK' /\ (\A o : Listed(o) => Listed(o)') /\ (\A t : Transfer(t) => Transfer(t)')
    <3>1. Grows
      BY <1>1, <1>2 DEF Grows, LedgerOK
    <3> QED
      BY <1>1, <3>1, TransfersStay DEF Grows
  <2>2. CASE UNCHANGED planetmintVars
    BY <1>1, <2>1, <2>2 DEF PlanetmintInv, planetmintVars
  <2>3. CASE CreatesNode(q) \/ ConnectsToNode(q)
    <3>1. /\ UNCHANGED <<listing, transaction, spent>>
          /\ ipfs' \in BOOLEAN /\ connection' \subseteq Requests
      BY <1>1, <2>3 DEF CreatesNode, ConnectsToNode
    <3> QED
      BY <1>1, <1>2, <2>1, <3>1 DEF PlanetmintInv
  <2>4. CASE ListsOutputs(q)
    <3> DEFINE outputs == Unspent(Step(q).sender)
    <3>1. PICK order \in Bijection(1..Cardinality(outputs), outputs) :
             listing' = [listing EXCEPT ![q] = order]
      BY <2>4 DEF ListsOutputs
    <3>2. Cardinality(outputs) \in Nat /\ outputs \subseteq DOMAIN ledger
      <4>1. DOMAIN ledger = 1..Len(ledger) /\ Len(ledger) \in Nat
        BY <1>1, SequenceFacts DEF LedgerOK
      <4>2. IsFiniteSet(DOMAIN ledger)
        BY <4>1, FS_Interval
      <4>3. outputs \subseteq DOMAIN ledger
        BY DEF Unspent
      <4> QED
        BY <4>2, <4>3, FS_Subset, FS_CardinalityType
    <3> HIDE DEF outputs
    <3>3. order \in [1..Cardinality(outputs) -> DOMAIN ledger]
      BY <3>1, <3>2 DEF Bijection, Injection
    <3>4. Listed(order)
      <4>1. order \in Seq(DOMAIN ledger)
        BY <3>2, <3>3
      <4>2. \A i, j \in DOMAIN order : order[i] = order[j] => i = j
        BY <3>1 DEF Bijection, Injection, IsInjective
      <4> QED
        BY <4>1, <4>2 DEF Listed
    <3>5. UNCHANGED <<ipfs, connection, transaction, spent>>
      BY <2>4 DEF ListsOutputs
    <3>6. \A r \in Requests : Listed(listing'[r])
      BY <1>1, <3>1, <3>4
    <3> QED
      BY <1>1, <1>2, <2>1, <3>1, <3>5, <3>6 DEF PlanetmintInv
  <2>5. CASE SelectsOutputs(q)
    <3> DEFINE s == Selection(listing[q], Step(q).coin, Step(q).amount)
               t == [from |-> listing[q], used |-> s.used, coin |-> Step(q).coin,
                     owner |-> Step(q).sender, amount |-> Step(q).amount,
                     change |-> s.sum - Step(q).amount]
    <3>1. Step(q).amount \in Nat
      <4>1. Step(q) \in Asked("planetmint", "before")
        BY <2>5, StepIsAsked DEF SelectsOutputs, Doing, InHook, HookStages, PlanetmintInv, Uses
      <4> QED
        BY <2>5, <4>1, PlanetmintAssumption DEF SelectsOutputs, Doing
    <3>2. Transfer(t)
      BY <1>1, <3>1, SelectedIsTransfer
    <3>3. transaction' = [transaction EXCEPT ![q] = t] /\ UNCHANGED <<ipfs, connection, listing, spent>>
      BY <2>5 DEF SelectsOutputs
    <3> HIDE DEF t
    <3>4. \A r \in Requests : transaction'[r] = NoTransfer \/ Transfer(transaction'[r])
      BY <1>1, <3>2, <3>3
    <3> QED
      BY <1>1, <1>2, <2>1, <3>3, <3>4 DEF PlanetmintInv
  <2>6. CASE Broadcasts(q) /\ transaction' = transaction
    <3>1. transaction[q].used \in SUBSET DOMAIN ledger
      BY <1>1 DEF NoTransfer, Transfer
    <3>2. spent' \subseteq DOMAIN ledger /\ UNCHANGED <<ipfs, connection, listing, transaction>>
      BY <1>1, <2>6, <3>1 DEF Broadcasts
    <3> QED
      BY <1>1, <1>2, <2>1, <3>2 DEF PlanetmintInv
  <2> QED
    BY <2>2, <2>3, <2>4, <2>5, <2>6
       DEF Arrives, NodeFails, RetrievesTransaction, ChecksAsset, FileIsStored, TransfersAsset,
           ChecksTransfer, Signs, Broadcasts
<1>3. CASE Broadcasts(q)
  <2> DEFINE t == transaction[q]
             new == IF t = NoTransfer THEN <<>>
                    ELSE <<[coin |-> t.coin, owner |-> t.owner, amount |-> t.change],
                           [coin |-> t.coin, owner |-> "recipient", amount |-> t.amount]>>
  <2>1. /\ ledger' = ledger \o new /\ spent' = spent \cup t.used /\ t.change >= 0
        /\ UNCHANGED <<ipfs, connection, listing, transaction>>
    BY <1>3 DEF Broadcasts
  <2>2. IsSequence(new) /\ \A i \in DOMAIN new : new[i].amount \in Nat
    <3>1. CASE t = NoTransfer
      BY <3>1 DEF IsSequence
    <3>2. CASE t # NoTransfer
      <4> DEFINE a == [coin |-> t.coin, owner |-> t.owner, amount |-> t.change]
                 b == [coin |-> t.coin, owner |-> "recipient", amount |-> t.amount]
      <4>1. new = <<a, b>>
        BY <3>2
      <4>2. a.amount \in Nat /\ b.amount \in Nat
        BY <1>1, <2>1, <3>2 DEF Transfer
      <4> HIDE DEF a, b, new
      <4>3. new \in Seq({a, b}) /\ DOMAIN new = {1, 2} /\ new[1] = a /\ new[2] = b
        BY <4>1
      <4> QED
        BY <4>2, <4>3, ElementsOf
    <3> QED
      BY <3>1, <3>2
  <2> HIDE DEF new
  <2>3. Grows
    <3>1. /\ IsSequence(ledger') /\ DOMAIN ledger \subseteq DOMAIN ledger'
          /\ \A i \in DOMAIN ledger : ledger'[i] = ledger[i]
          /\ \A i \in DOMAIN ledger' :
               ledger'[i] \in {ledger[j] : j \in DOMAIN ledger} \cup {new[j] : j \in DOMAIN new}
      BY <1>1, <2>1, <2>2, ConcatenationElements DEF LedgerOK
    <3>2. \A i \in DOMAIN ledger' : ledger'[i].amount \in Nat
      BY <1>1, <2>2, <3>1 DEF LedgerOK
    <3> QED
      BY <3>1, <3>2 DEF Grows, LedgerOK
  <2>4. (\A o : Listed(o) => Listed(o)') /\ (\A u : Transfer(u) => Transfer(u)')
    BY <1>1, <2>3, TransfersStay
  <2>5. t.used \in SUBSET DOMAIN ledger
    BY <1>1 DEF NoTransfer, Transfer
  <2>6. spent' \subseteq DOMAIN ledger'
    BY <1>1, <2>1, <2>3, <2>5 DEF Grows
  <2> QED
    BY <1>1, <2>1, <2>3, <2>4, <2>6 DEF PlanetmintInv, Grows
<1>4. ledger' = ledger \/ Broadcasts(q)
  BY DEF Arrives, CreatesNode, ConnectsToNode, NodeFails, RetrievesTransaction, ChecksAsset,
         FileIsStored, TransfersAsset, ChecksTransfer, ListsOutputs, SelectsOutputs, Signs, planetmintVars
<1> QED
  BY <1>2, <1>3, <1>4

LEMMA PlanetmintInvStep == PlanetmintInv /\ [Next]_vars => PlanetmintInv'
<1> SUFFICES ASSUME PlanetmintInv, [Next]_vars PROVE PlanetmintInv'
  OBVIOUS
<1>1. FrameInv /\ FrameInv'
  BY FrameInvStep DEF PlanetmintInv
<1>2. CASE PlanetmintNext
  BY <1>1, <1>2, PlanetmintStep
<1>3. CASE UNCHANGED planetmintVars
  <2>1. LedgerOK /\ Grows
    BY <1>3 DEF PlanetmintInv, planetmintVars, Grows, LedgerOK
  <2>2. LedgerOK' /\ (\A o : Listed(o) => Listed(o)') /\ (\A t : Transfer(t) => Transfer(t)')
    BY <2>1, TransfersStay DEF Grows
  <2> QED
    BY <1>1, <1>3, <2>2 DEF PlanetmintInv, planetmintVars
<1> QED
  BY <1>1, <1>2, <1>3, ForeignSteps DEF FrameInv, Foreign

\* A transfer of an amount takes what it should: for any requests and plans, any
\* ledger and any order in which its outputs are listed.
THEOREM TransfersAreRight == Spec => []SelectionIsRight
<1>1. PlanetmintInv => SelectionIsRight
  BY DEF PlanetmintInv, Transfer, Right, SelectionIsRight
<1> QED
  BY <1>1, PlanetmintInvInit, PlanetmintInvStep, PTL DEF Spec

=============================================================================
