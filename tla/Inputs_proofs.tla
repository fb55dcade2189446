---------------------------- MODULE Inputs_proofs ----------------------------
(***************************************************************************)
(* What contracts get to see: the answers that http and identity collect,  *)
(* and the values that requests leave in the variables of the packages     *)
(* files, logger, sawroom and ethereum. With that the types of all         *)
(* variables of the composed system can be proved as well.                 *)
(***************************************************************************)
EXTENDS Ledgers_proofs

-----------------------------------------------------------------------------
(* Steps that an onBefore hook still has before it. *)

Before(r) == plan[r].calls[call[r]].before

\* A step with this name is left.
Ahead(r, op) == stage[r] = "before" /\ \E k \in DOMAIN todo[r] : todo[r][k].op = op

\* What is left of an onBefore hook is the end of its steps.
LEMMA BeforeLeft ==
  ASSUME FrameInv, NEW q \in Requests, stage[q] = "before"
  PROVE  /\ call[q] \in DOMAIN plan[q].calls /\ IsSequence(Before(q)) /\ IsRest(todo[q], Before(q))
         /\ Len(Before(q)) \in Nat /\ DOMAIN Before(q) = 1..Len(Before(q))
         /\ Len(todo[q]) \in 0..Len(Before(q)) /\ DOMAIN todo[q] = 1..Len(todo[q])
         /\ todo[q] # <<>> =>
              Len(todo[q]) >= 1 /\ Step(q) = Before(q)[Len(Before(q)) - Len(todo[q]) + 1]
<1>1. call[q] \in 1..Len(plan[q].calls) /\ IsRest(todo[q], Before(q))
  BY PlanFacts DEF FrameInv, OnPlan, HookStages, Before
<1>2. IsSequence(Before(q)) /\ DOMAIN plan[q].calls = 1..Len(plan[q].calls)
  BY <1>1, PlanFacts DEF FrameInv, HookStages, Before
<1>3. Len(Before(q)) \in Nat /\ DOMAIN Before(q) = 1..Len(Before(q))
  BY <1>2, SequenceFacts
<1>4. IsSequence(todo[q]) /\ Len(todo[q]) <= Len(Before(q))
  BY <1>1 DEF IsRest
<1>5. Len(todo[q]) \in Nat /\ DOMAIN todo[q] = 1..Len(todo[q])
  BY <1>4, SequenceFacts
<1>6. todo[q] # <<>> =>
        Len(todo[q]) >= 1 /\ Step(q) = Before(q)[Len(Before(q)) - Len(todo[q]) + 1]
  BY <1>1, <1>2, <1>4, SequenceFacts, RestOfRest DEF Step
<1>7. Len(todo[q]) \in 0..Len(Before(q))
  BY <1>3, <1>4, <1>5
<1> QED
  BY <1>1, <1>2, <1>3, <1>5, <1>6, <1>7

\* A step that comes later is not the one that is taken.
LEMMA StaysAhead ==
  ASSUME FrameInv, NEW q \in Requests, todo[q] # <<>>, NEW op, Ahead(q, op), Step(q).op # op
  PROVE  \E k \in DOMAIN Tail(todo[q]) : Tail(todo[q])[k].op = op
<1>1. PICK k \in DOMAIN todo[q] : todo[q][k].op = op
  BY DEF Ahead
<1>2. /\ IsSequence(todo[q]) /\ Len(todo[q]) \in Nat /\ DOMAIN todo[q] = 1..Len(todo[q])
      /\ Step(q) = todo[q][1]
  BY BeforeLeft, SequenceFacts DEF Ahead, IsRest, Step
<1>3. k \in 1..Len(todo[q]) /\ k # 1
  BY <1>1, <1>2
<1>4. Len(Tail(todo[q])) = Len(todo[q]) - 1
  BY TodoFacts DEF Ahead, HookStages
<1>5. IsRest(Tail(todo[q]), Before(q))
  BY BeforeLeft, RestOfRest DEF Ahead
<1>6. DOMAIN Tail(todo[q]) = 1..Len(Tail(todo[q]))
  BY <1>5, SequenceFacts DEF IsRest
<1>7. k - 1 \in 1..Len(Tail(todo[q])) /\ (k - 1) + 1 = k
  BY <1>2, <1>3, <1>4
<1>8. Tail(todo[q])[k - 1] = todo[q][(k - 1) + 1]
  BY <1>2, <1>6, <1>7, TailElements
<1> QED
  BY <1>1, <1>6, <1>7, <1>8

\* If every step of one kind has one of another kind after it, the latter is
\* left when the former is taken.
LEMMA ComesLater ==
  ASSUME FrameInv, NEW q \in Requests, todo[q] # <<>>, stage[q] = "before", NEW op,
         \A i \in DOMAIN Before(q) : Before(q)[i].op = Step(q).op =>
           \E j \in DOMAIN Before(q) : j > i /\ Before(q)[j].op = op
  PROVE  \E k \in DOMAIN Tail(todo[q]) : Tail(todo[q])[k].op = op
<1> DEFINE n == Len(Before(q))
           m == Len(todo[q])
<1>1. /\ n \in Nat /\ DOMAIN Before(q) = 1..n /\ m \in 0..n /\ m >= 1
      /\ IsRest(todo[q], Before(q)) /\ IsSequence(Before(q)) /\ Step(q) = Before(q)[n - m + 1]
  BY BeforeLeft
<1>2. IsRest(Tail(todo[q]), Before(q)) /\ Len(Tail(todo[q])) = m - 1
  BY <1>1, RestOfRest
<1>3. DOMAIN Tail(todo[q]) = 1..(m - 1)
  BY <1>2, SequenceFacts DEF IsRest
<1>4. \A i \in 1..(m - 1) : Tail(todo[q])[i] = Before(q)[n - (m - 1) + i]
  BY <1>2 DEF IsRest
<1> HIDE DEF n, m
<1>5. n - m + 1 \in 1..n
  BY <1>1
<1>6. PICK j \in 1..n : j > n - m + 1 /\ Before(q)[j].op = op
  BY <1>1, <1>5
<1>7. j - (n - m + 1) \in 1..(m - 1) /\ n - (m - 1) + (j - (n - m + 1)) = j
  BY <1>1, <1>6
<1> QED
  BY <1>3, <1>4, <1>6, <1>7

-----------------------------------------------------------------------------
(* The parallel sentences of http. *)

PromiseStates == {"pending", "answered", "error"}

IsPromise(p, r) ==
  /\ DOMAIN p = {"call", "place", "state"}
  /\ p.call \in 0..call[r] /\ p.state \in PromiseStates

\* The promises, and what is kept about them.
Promises(r) ==
  /\ IsSequence(promises[r])
  /\ \A i \in DOMAIN promises[r] : IsPromise(promises[r][i], r)
  /\ handled[r] \in 0..Len(promises[r])
  /\ \A p \in DOMAIN cells[r] : cells[r][p] \in DOMAIN promises[r]
  /\ Uses(r, "http") \/ promises[r] = <<>>

\* The answers are there and written.
Settled(r) ==
  /\ \A i \in DOMAIN promises[r] : promises[r][i].state # "pending"
  /\ cells[r] = Collected(promises[r])

\* The current call has sent requests.
Sent(r) == \E i \in DOMAIN promises[r] : promises[r][i].call = call[r]

\* Then it has collected their answers, or is still to do so.
AnswersAwaited(r) ==
  (stage[r] \in {"before", "success", "done"} /\ Sent(r)) => Settled(r) \/ Ahead(r, "collect")

HttpDoms == DOMAIN promises = Requests /\ DOMAIN handled = Requests /\ DOMAIN cells = Requests

HttpInv ==
  /\ FrameInv /\ HttpDoms
  /\ \A r \in Requests : Promises(r) /\ AnswersAwaited(r)

\* Before any request has called a hook.
LEMMA HttpInvInit == Init => HttpInv
<1> SUFFICES ASSUME Init PROVE HttpInv
  OBVIOUS
<1>1. FrameInv
  BY FrameInvInit
<1>2. /\ promises = [r \in Requests |-> <<>>] /\ handled = [r \in Requests |-> 0]
      /\ cells = [r \in Requests |-> [p \in {} |-> 0]]
  BY DEF Init, HttpInit
<1>3. IsSequence(<<>>) /\ Len(<<>>) = 0 /\ \A i \in DOMAIN <<>> : FALSE
  BY DEF IsSequence
<1>4. ASSUME NEW r \in Requests PROVE Promises(r) /\ AnswersAwaited(r)
  <2>1. promises[r] = <<>> /\ handled[r] = 0 /\ DOMAIN cells[r] = {}
    BY <1>2
  <2> QED
    BY <1>3, <2>1 DEF Promises, AnswersAwaited, Sent
<1> QED
  BY <1>1, <1>2, <1>4 DEF HttpInv, HttpDoms

\* Writing the answers in their order leaves each in its place, unless a later
\* one goes to the same entry.
LEMMA LastAnswerStays ==
  ASSUME NEW ps, IsSequence(ps), NEW i \in DOMAIN ps,
         \A j \in DOMAIN ps : j > i =>
           ~(ps[j].place[1] = ps[i].place[1] /\ ps[j].place[2] = ps[i].place[2])
  PROVE  ps[i].place \in DOMAIN Collected(ps) /\ Collected(ps)[ps[i].place] = i
<1>1. DOMAIN ps \subseteq Int
  BY SequenceFacts
<1>2. Stays(ps, i)
  BY DEF Stays, Replaced
<1>3. \A j \in DOMAIN ps : ps[j].place = ps[i].place /\ Stays(ps, j) => j = i
  BY <1>1, <1>2 DEF Stays, Replaced
<1>4. ps[i].place \in DOMAIN Collected(ps)
  BY <1>2 DEF Collected
<1>5. Collected(ps)[ps[i].place]
        = CHOOSE j \in DOMAIN ps : ps[j].place = ps[i].place /\ Stays(ps, j)
  BY <1>4 DEF Collected
<1>6. (CHOOSE j \in DOMAIN ps : ps[j].place = ps[i].place /\ Stays(ps, j)) = i
  BY <1>2, <1>3
<1> QED
  BY <1>4, <1>5, <1>6

\* What is written is an answer to one of the promises.
LEMMA CollectedIsAnswer ==
  ASSUME NEW ps, NEW p \in DOMAIN Collected(ps)
  PROVE  Collected(ps)[p] \in DOMAIN ps
<1>1. \E i \in DOMAIN ps : ps[i].place = p /\ Stays(ps, i)
  BY DEF Collected
<1>2. Collected(ps)[p] = CHOOSE i \in DOMAIN ps : ps[i].place = p /\ Stays(ps, i)
  BY DEF Collected
<1> QED
  BY <1>1, <1>2

\* The step that sends requests is followed by one that collects.
LEMMA CollectComes ==
  ASSUME FrameInv, NEW q \in Requests, Uses(q, "http"), stage[q] = "before", todo[q] # <<>>,
         Step(q).op = "parallel"
  PROVE  /\ Step(q).defined => IsSequence(Step(q).places)
         /\ \E k \in DOMAIN Tail(todo[q]) : Tail(todo[q])[k].op = "collect"
<1>1. plan[q] \in UNION Scenarios /\ plan[q].mw = "http" /\ call[q] \in DOMAIN plan[q].calls
  BY BeforeLeft DEF FrameInv, Uses
<1>2. \A i \in DOMAIN Before(q) : Before(q)[i].op = "parallel" =>
        /\ Before(q)[i].defined => IsSequence(Before(q)[i].places)
        /\ \E j \in DOMAIN Before(q) : j > i /\ Before(q)[j].op = "collect"
  BY <1>1, HttpAssumption DEF Before
<1>3. \E i \in DOMAIN Before(q) : Step(q) = Before(q)[i]
  BY StepIsAsked DEF Before, HookStages
<1>4. Step(q).defined => IsSequence(Step(q).places)
  BY <1>2, <1>3
<1>5. \A i \in DOMAIN Before(q) : Before(q)[i].op = Step(q).op =>
        \E j \in DOMAIN Before(q) : j > i /\ Before(q)[j].op = "collect"
  BY <1>2
<1>6. \E k \in DOMAIN Tail(todo[q]) : Tail(todo[q])[k].op = "collect"
  BY <1>5, ComesLater
<1> QED
  BY <1>4, <1>6

\* What an action of http does, to the promises of its request only.
Sends(q) ==
  /\ stage[q] = "before" /\ todo[q] # <<>> /\ Step(q).op = "parallel"
  /\ \E new : /\ promises' = [promises EXCEPT ![q] = @ \o new]
              /\ IsSequence(new)
              /\ \A i \in DOMAIN new : IsPromise(new[i], q)
  /\ todo' = [todo EXCEPT ![q] = Tail(@)] /\ UNCHANGED <<handled, cells>>

Settles(q, i) ==
  /\ promises[q][i].state = "pending"
  /\ \E new \in PromiseStates \ {"pending"} : promises' = [promises EXCEPT ![q][i].state = new]
  /\ UNCHANGED <<handled, cells, stage, todo, call>>

CollectsAll(q) ==
  /\ \A i \in DOMAIN promises[q] : promises[q][i].state # "pending"
  /\ cells' = [cells EXCEPT ![q] = Collected(promises[q])]
  /\ UNCHANGED <<promises, handled>>

HooksOn(q) ==
  /\ UNCHANGED <<promises, cells>>
  /\ handled' = handled \/ handled' = [handled EXCEPT ![q] = Len(promises[q])]
  /\ \/ todo'[q] = todo[q]
     \/ stage'[q] = "failed"
     \/ /\ todo[q] # <<>> /\ todo'[q] = Tail(todo[q])
        /\ Step(q).op # "collect" \/ promises[q] = <<>>

HttpSteps(q) ==
  /\ Steps(q)
  /\ Sends(q) \/ (\E i \in DOMAIN promises[q] : Settles(q, i)) \/ CollectsAll(q) \/ HooksOn(q)

\* Where the blocks take a hook.
LEMMA BlocksGoOn ==
  ASSUME FrameDoms, NEW q \in Requests
  PROVE  /\ Proceed(q) => todo'[q] = Tail(todo[q])
         /\ Await(q) => todo'[q] = todo[q]
         /\ \A name, value : Receive(q, name, value) => todo'[q] = Tail(todo[q])
         /\ Continue(q) => todo'[q] = Tail(todo[q])
         /\ \A why : Reject(q, why) => stage'[q] = "failed"
BY DEF FrameDoms, Proceed, Await, Receive, Continue, Reject, Fail

\* The steps of http that send or collect nothing.
LEMMA HttpGoesOn ==
  ASSUME FrameDoms, NEW q \in Requests,
         \/ ReadsRequest(q) \/ DeclaresEndpoints(q) \/ WaitsForAll(q)
         \/ PostsAndSaves(q) \/ ChecksEndpoints(q) \/ GetsOutput(q) \/ PassesOutput(q)
  PROVE  HooksOn(q)
<1> USE BlocksGoOn DEF HooksOn, Doing, InHook, httpVars
<1>1. CASE ReadsRequest(q)        BY <1>1 DEF ReadsRequest
<1>2. CASE DeclaresEndpoints(q)   BY <1>2 DEF DeclaresEndpoints
<1>3. CASE WaitsForAll(q)         BY <1>3 DEF WaitsForAll
<1>4. CASE PostsAndSaves(q)       BY <1>4 DEF PostsAndSaves
<1>5. CASE ChecksEndpoints(q)     BY <1>5 DEF ChecksEndpoints
<1>6. CASE GetsOutput(q)          BY <1>6 DEF GetsOutput
<1>7. CASE PassesOutput(q)        BY <1>7 DEF PassesOutput
<1> QED
  BY <1>1, <1>2, <1>3, <1>4, <1>5, <1>6, <1>7

\* Every action of http is such a step.
LEMMA HttpEffect ==
  ASSUME HttpInv, NEW q \in Requests, Uses(q, "http"), HttpActions(q)
  PROVE  HttpSteps(q)
<1>1. FrameInv /\ FrameDoms /\ HttpDoms
  BY DEF HttpInv, FrameInv
<1>5. Steps(q)
  BY <1>1, HttpActionsKeep
<1>2. CASE SendsInParallel(q)
  <2>1. stage[q] = "before" /\ todo[q] # <<>> /\ Step(q).op = "parallel"
    BY <1>2 DEF SendsInParallel, Doing, InHook
  <2>2. CASE Step(q).defined
    <3> DEFINE new == [i \in DOMAIN Step(q).places |->
                         [call |-> call[q], place |-> Step(q).places[i], state |-> "pending"]]
    <3>1. IsSequence(Step(q).places)
      BY <1>1, <2>1, <2>2, CollectComes
    <3>2. Len(Step(q).places) \in Nat /\ DOMAIN Step(q).places = 1..Len(Step(q).places)
      BY <3>1, SequenceFacts
    <3>3. IsSequence(new)
      <4>1. new = [i \in 1..Len(Step(q).places) |-> new[i]]
        BY <3>2
      <4> HIDE DEF new
      <4> QED
        BY <3>2, <4>1, FunctionIsSequence
    <3>4. \A i \in DOMAIN new : IsPromise(new[i], q)
      BY <1>1 DEF IsPromise, PromiseStates, FrameDoms
    <3>5. promises' = [promises EXCEPT ![q] = @ \o new] /\ Continue(q) /\ UNCHANGED <<handled, cells>>
      BY <1>2, <2>2 DEF SendsInParallel
    <3> HIDE DEF new
    <3> QED
      BY <1>5, <2>1, <3>3, <3>4, <3>5 DEF HttpSteps, Sends, Continue, Proceed
  <2>3. CASE ~Step(q).defined
    <3>1. stage'[q] = "failed" /\ UNCHANGED <<promises, handled, cells>>
      BY <1>1, <1>2, <2>3, BlocksGoOn DEF SendsInParallel
    <3> QED
      BY <1>5, <3>1 DEF HttpSteps, HooksOn
  <2> QED
    BY <2>2, <2>3
<1>3. CASE \E i \in DOMAIN promises[q] : Answered(q, i) \/ RequestFails(q, i)
  <2> PICK i \in DOMAIN promises[q] : Answered(q, i) \/ RequestFails(q, i)
    BY <1>3
  <2>1. Settles(q, i)
    BY DEF Answered, RequestFails, Settles, PromiseStates, frame
  <2> QED
    BY <1>5, <2>1 DEF HttpSteps
<1>4. CASE Collects(q)
  BY <1>4, <1>5 DEF Collects, HttpSteps, CollectsAll
<1> QED
  BY <1>1, <1>2, <1>3, <1>4, <1>5, HttpGoesOn DEF HttpActions, HttpSteps

\* A request of which neither the promises nor the hooks have changed.
LEMMA HttpUnmoved ==
  ASSUME NEW r \in Requests, Promises(r), AnswersAwaited(r),
         promises'[r] = promises[r], handled'[r] = handled[r], cells'[r] = cells[r],
         plan' = plan, stage'[r] = stage[r], todo'[r] = todo[r], call'[r] = call[r]
  PROVE  Promises(r)' /\ AnswersAwaited(r)'
<1>1. Promises(r)'
  BY DEF Promises, IsPromise, Uses
<1>2. AnswersAwaited(r)'
  BY DEF AnswersAwaited, Sent, Settled, Ahead
<1> QED
  BY <1>1, <1>2

\* A step of http keeps what is known about the promises of its request.
LEMMA HttpPromisesStep ==
  ASSUME HttpInv, NEW q \in Requests, HttpSteps(q), Uses(q, "http")
  PROVE  Promises(q)'
<1>1. Promises(q) /\ HttpDoms /\ call'[q] = call[q] /\ Uses(q, "http")'
  BY DEF HttpInv, HttpSteps, Steps, Works, Kept, Uses
<1>2. Len(promises[q]) \in Nat /\ DOMAIN promises[q] = 1..Len(promises[q])
  BY <1>1, SequenceFacts DEF Promises
<1>3. CASE Sends(q)
  <2> PICK new : /\ promises' = [promises EXCEPT ![q] = @ \o new] /\ IsSequence(new)
                 /\ \A i \in DOMAIN new : IsPromise(new[i], q)
    BY <1>3 DEF Sends
  <2> DEFINE all == promises[q] \o new
  <2>1. promises'[q] = all /\ handled'[q] = handled[q] /\ cells'[q] = cells[q]
    BY <1>1, <1>3 DEF Sends, HttpDoms
  <2>2. /\ IsSequence(all) /\ Len(new) \in Nat /\ Len(all) = Len(promises[q]) + Len(new)
        /\ \A i \in DOMAIN promises[q] : i \in DOMAIN all /\ all[i] = promises[q][i]
        /\ \A i \in DOMAIN all :
             all[i] \in {promises[q][j] : j \in DOMAIN promises[q]} \cup {new[j] : j \in DOMAIN new}
    <3>1. IsSequence(promises[q]) /\ IsSequence(new)
      BY <1>1 DEF Promises
    <3>2. /\ IsSequence(all) /\ Len(new) \in Nat /\ Len(all) = Len(promises[q]) + Len(new)
      BY <3>1, ConcatenationElements
    <3>3. \A i \in DOMAIN promises[q] : i \in DOMAIN all /\ all[i] = promises[q][i]
      BY <3>1, ConcatenationElements
    <3>4. \A i \in DOMAIN all :
            all[i] \in {promises[q][j] : j \in DOMAIN promises[q]} \cup {new[j] : j \in DOMAIN new}
      BY <3>1, ConcatenationElements
    <3> QED
      BY <3>2, <3>3, <3>4
  <2> HIDE DEF all
  <2>3. \A i \in DOMAIN all : IsPromise(all[i], q)
    BY <1>1, <2>2 DEF Promises
  <2>4. \A i \in DOMAIN promises'[q] : IsPromise(promises[q][i], q)'
    BY <1>1, <2>1, <2>3 DEF IsPromise
  <2>5. handled[q] \in 0..Len(all)
    <3>1. handled[q] \in 0..Len(promises[q])
      BY <1>1 DEF Promises
    <3> QED
      BY <1>2, <2>2, <3>1
  <2> QED
    BY <1>1, <2>1, <2>2, <2>4, <2>5 DEF Promises
<1>4. CASE \E i \in DOMAIN promises[q] : Settles(q, i)
  <2> PICK i \in DOMAIN promises[q], new \in PromiseStates :
        /\ promises' = [promises EXCEPT ![q][i].state = new]
        /\ UNCHANGED <<handled, cells, stage, todo, call>>
    BY <1>4 DEF Settles
  <2>1. promises'[q] = [promises[q] EXCEPT ![i].state = new]
    BY <1>1 DEF HttpDoms
  <2>2. DOMAIN promises'[q] = 1..Len(promises[q])
    BY <1>2, <2>1
  <2>3. promises'[q] = [j \in 1..Len(promises[q]) |-> promises'[q][j]]
    BY <1>2, <2>1
  <2>4. IsSequence(promises'[q]) /\ Len(promises'[q]) = Len(promises[q])
    BY <1>2, <2>3, FunctionIsSequence
  <2>5. \A j \in DOMAIN promises[q] : IsPromise(promises'[q][j], q)
    BY <1>1, <2>1 DEF Promises, IsPromise
  <2>6. \A j \in DOMAIN promises'[q] : IsPromise(promises[q][j], q)'
    BY <1>1, <1>2, <2>2, <2>5 DEF IsPromise
  <2> QED
    BY <1>1, <1>2, <2>2, <2>4, <2>6 DEF Promises
<1>5. CASE CollectsAll(q) \/ HooksOn(q)
  <2>1. promises' = promises /\ handled'[q] \in 0..Len(promises[q])
    BY <1>1, <1>2, <1>5 DEF CollectsAll, HooksOn, HttpDoms, Promises
  <2>2. \A p \in DOMAIN cells'[q] : cells'[q][p] \in DOMAIN promises[q]
    BY <1>1, <1>5, CollectedIsAnswer DEF CollectsAll, HooksOn, HttpDoms, Promises
  <2> QED
    BY <1>1, <2>1, <2>2 DEF Promises, IsPromise
<1> QED
  BY <1>3, <1>4, <1>5 DEF HttpSteps

\* Its answers stay settled, or the step that collects them stays ahead.
LEMMA HttpAnswersStep ==
  ASSUME HttpInv, NEW q \in Requests, HttpSteps(q), Uses(q, "http")
  PROVE  AnswersAwaited(q)'
<1> SUFFICES ASSUME stage'[q] \in {"before", "success", "done"}, Sent(q)'
             PROVE  Settled(q)' \/ Ahead(q, "collect")'
  BY DEF AnswersAwaited
<1>1. /\ FrameInv /\ FrameDoms /\ Promises(q) /\ HttpDoms /\ AnswersAwaited(q)
      /\ call'[q] = call[q] /\ stage'[q] = stage[q]
  BY DEF HttpInv, FrameInv, HttpSteps, Steps, Works
<1>2. CASE Sends(q)
  <2>1. stage[q] = "before" /\ todo[q] # <<>> /\ Step(q).op = "parallel" /\ todo'[q] = Tail(todo[q])
    BY <1>1, <1>2 DEF Sends, FrameDoms
  <2> QED
    BY <1>1, <2>1, CollectComes DEF Ahead
<1>3. CASE \E i \in DOMAIN promises[q] : Settles(q, i)
  <2> PICK i \in DOMAIN promises[q], new \in PromiseStates :
        /\ promises[q][i].state = "pending"
        /\ promises' = [promises EXCEPT ![q][i].state = new]
        /\ UNCHANGED <<handled, cells, stage, todo, call>>
    BY <1>3 DEF Settles
  <2>1. promises'[q] = [promises[q] EXCEPT ![i].state = new]
    BY <1>1 DEF HttpDoms
  <2>2. \A j \in DOMAIN promises[q] : promises'[q][j].call = promises[q][j].call
    BY <1>1, <2>1 DEF Promises, IsPromise
  <2>3. Sent(q)
    BY <1>1, <2>1, <2>2 DEF Sent
  <2>4. ~Settled(q)
    BY DEF Settled
  <2> QED
    BY <1>1, <2>3, <2>4 DEF AnswersAwaited, Ahead
<1>4. CASE CollectsAll(q)
  BY <1>1, <1>4 DEF CollectsAll, Settled, HttpDoms
<1>5. CASE HooksOn(q)
  <2>1. Sent(q) /\ promises'[q] = promises[q] /\ cells'[q] = cells[q]
    BY <1>1, <1>5 DEF HooksOn, Sent
  <2>2. CASE Settled(q)
    BY <2>1, <2>2 DEF Settled
  <2>3. CASE Ahead(q, "collect")
    <3>1. promises[q] # <<>>
      <4>1. \A i \in DOMAIN <<>> : FALSE
        OBVIOUS
      <4> QED
        BY <2>1, <4>1 DEF Sent
    <3>2. CASE todo'[q] = todo[q]
      BY <1>1, <2>3, <3>2 DEF Ahead
    <3>3. CASE todo[q] # <<>> /\ todo'[q] = Tail(todo[q]) /\ Step(q).op # "collect"
      BY <1>1, <2>3, <3>3, StaysAhead DEF Ahead
    <3> QED
      BY <1>1, <1>5, <3>1, <3>2, <3>3 DEF HooksOn
  <2> QED
    BY <1>1, <2>1, <2>2, <2>3 DEF AnswersAwaited
<1> QED
  BY <1>2, <1>3, <1>4, <1>5 DEF HttpSteps

\* A step of callRestroom keeps the answers: the next call has not asked yet.
LEMMA HttpKeptByRequests ==
  ASSUME HttpInv, FrameInv', RequestsNext, UNCHANGED httpVars, NEW r \in Requests
  PROVE  Promises(r)' /\ AnswersAwaited(r)'
<1> PICK q \in Requests : RequestStep(q)
  BY DEF RequestsNext, RequestStep
<1>1. /\ FrameInv /\ FrameDoms /\ Promises(r) /\ AnswersAwaited(r)
      /\ promises' = promises /\ handled' = handled /\ cells' = cells
      /\ plan' = plan /\ (Uses(r, "http")' <=> Uses(r, "http"))
  BY RequestStepKeeps DEF HttpInv, FrameInv, httpVars, Kept, Uses
<1>2. CASE r # q
  <2>1. stage'[r] = stage[r] /\ todo'[r] = todo[r] /\ call'[r] = call[r]
    BY <1>1, <1>2, RequestStepKeeps DEF Kept
  <2> QED
    BY <1>1, <2>1, HttpUnmoved
<1>3. CASE r = q
  <2>1. CASE EnterBefore(q)
    <3>1. call'[q] = call[q] + 1 /\ call[q] \in Nat
      BY <1>1, <2>1 DEF EnterBefore, FrameDoms
    <3>2. \A i \in DOMAIN promises[q] :
            promises[q][i].call \in 0..call'[q] /\ promises[q][i].call # call'[q]
      <4>1. \A n \in 0..call[q] : n \in 0..(call[q] + 1) /\ n # call[q] + 1
        BY <3>1
      <4> QED
        BY <1>1, <1>3, <3>1, <4>1 DEF Promises, IsPromise
    <3>3. Promises(r)'
      BY <1>1, <1>3, <3>2 DEF Promises, IsPromise
    <3>4. ~Sent(r)'
      BY <1>1, <1>3, <3>2 DEF Sent
    <3> QED
      BY <3>3, <3>4 DEF AnswersAwaited
  <2>2. CASE DataIsMalformed(q) \/ ZenroomRejects(q)
    <3>1. call' = call /\ stage'[q] = "failed"
      BY <1>1, <2>2 DEF DataIsMalformed, ZenroomRejects, Reject, Fail, FrameDoms
    <3>2. Promises(r)'
      BY <1>1, <1>3, <3>1 DEF Promises, IsPromise
    <3> QED
      BY <1>3, <3>1, <3>2 DEF AnswersAwaited
  <2>3. CASE ZenroomRuns(q) \/ SuccessEnds(q)
    <3>1. call' = call /\ todo[q] = <<>> /\ stage[q] \in {"before", "success"}
      BY <2>3 DEF ZenroomRuns, SuccessEnds
    <3>2. Promises(r)'
      BY <1>1, <1>3, <3>1 DEF Promises, IsPromise
    <3>3. ~Ahead(r, "collect")
      <4>1. \A i \in DOMAIN <<>> : FALSE
        OBVIOUS
      <4> QED
        BY <1>3, <3>1, <4>1 DEF Ahead
    <3>4. Sent(r)' => Settled(r)'
      BY <1>1, <1>3, <3>1, <3>3 DEF AnswersAwaited, Sent, Settled
    <3> QED
      BY <3>2, <3>4 DEF AnswersAwaited
  <2> QED
    BY <2>1, <2>2, <2>3 DEF RequestStep
<1> QED
  BY <1>2, <1>3

\* Every step of the composed system preserves the invariant.
LEMMA HttpInvStep == HttpInv /\ [Next]_vars => HttpInv'
<1> SUFFICES ASSUME HttpInv, [Next]_vars PROVE HttpInv'
  OBVIOUS
<1>1. FrameInv /\ FrameDoms /\ FrameInv' /\ HttpDoms /\ (HttpNext \/ Foreign("http", httpVars))
  <2>1. FrameInv /\ FrameDoms
    BY DEF HttpInv, FrameInv
  <2> QED
    BY <2>1, FrameInvStep, ForeignSteps DEF HttpInv
<1>2. CASE HttpNext
  <2> PICK q \in Requests : Uses(q, "http") /\ HttpActions(q)
    BY <1>2 DEF HttpNext, HttpActions
  <2>1. HttpSteps(q)
    BY HttpEffect
  <2>2. HttpDoms'
    BY <1>1, <2>1 DEF HttpDoms, HttpSteps, Sends, Settles, CollectsAll, HooksOn
  <2>3. ASSUME NEW r \in Requests, r # q PROVE Promises(r)' /\ AnswersAwaited(r)'
    <3>1. plan' = plan /\ stage'[r] = stage[r] /\ todo'[r] = todo[r] /\ call'[r] = call[r]
      BY <2>1, <2>3 DEF HttpSteps, Steps, Works, Kept
    <3>2. promises'[r] = promises[r] /\ handled'[r] = handled[r] /\ cells'[r] = cells[r]
      BY <1>1, <2>1, <2>3 DEF HttpDoms, HttpSteps, Sends, Settles, CollectsAll, HooksOn
    <3> QED
      BY <3>1, <3>2, HttpUnmoved DEF HttpInv
  <2>4. Promises(q)' /\ AnswersAwaited(q)'
    BY <2>1, HttpPromisesStep, HttpAnswersStep
  <2> QED
    BY <1>1, <2>2, <2>3, <2>4 DEF HttpInv
<1>3. CASE UNCHANGED httpVars
  <2>1. HttpDoms'
    BY <1>1, <1>3 DEF HttpDoms, httpVars
  <2>2. CASE RequestsNext
    BY <1>1, <1>3, <2>1, <2>2, HttpKeptByRequests DEF HttpInv
  <2>3. CASE StepElsewhere("http")
    <3>1. ASSUME NEW r \in Requests PROVE Promises(r)' /\ AnswersAwaited(r)'
      <4>1. /\ promises' = promises /\ handled' = handled /\ cells' = cells
            /\ plan' = plan /\ call' = call
        BY <1>3, <2>3 DEF httpVars, StepElsewhere, Steps, Works, Kept, frame
      <4>2. CASE Uses(r, "http")
        <5>1. stage'[r] = stage[r] /\ todo'[r] = todo[r]
          BY <2>3, <4>2 DEF StepElsewhere, Steps, Works, Kept, frame
        <5> QED
          BY <4>1, <5>1, HttpUnmoved DEF HttpInv
      <4>3. CASE promises[r] = <<>>
        <5>1. Promises(r)'
          BY <4>1 DEF HttpInv, Promises, IsPromise, Uses
        <5>2. ~Sent(r)'
          <6>1. \A i \in DOMAIN <<>> : FALSE
            OBVIOUS
          <6> QED
            BY <4>1, <4>3, <6>1 DEF Sent
        <5> QED
          BY <5>1, <5>2 DEF AnswersAwaited
      <4> QED
        BY <4>2, <4>3 DEF HttpInv, Promises
    <3> QED
      BY <1>1, <2>1, <3>1 DEF HttpInv
  <2> QED
    BY <1>1, <2>2, <2>3, <1>2 DEF Foreign
<1> QED
  BY <1>1, <1>2, <1>3 DEF Foreign

\* Then every answer is where its sentence wants it.
LEMMA HttpInvMeans == HttpInv => AnswersInPlace
<1> SUFFICES ASSUME HttpInv, NEW r \in Requests, stage[r] \in {"success", "done"},
                    NEW i \in DOMAIN promises[r], promises[r][i].call = call[r],
                    \A j \in DOMAIN promises[r] : j > i =>
                      ~(/\ promises[r][j].place[1] = promises[r][i].place[1]
                        /\ promises[r][j].place[2] = promises[r][i].place[2])
             PROVE  /\ promises[r][i].state # "pending"
                    /\ promises[r][i].place \in DOMAIN cells[r]
                    /\ cells[r][promises[r][i].place] = i
  BY DEF AnswersInPlace
<1>1. Settled(r) /\ IsSequence(promises[r])
  BY DEF HttpInv, AnswersAwaited, Sent, Ahead, Promises
<1>2. /\ promises[r][i].place \in DOMAIN Collected(promises[r])
      /\ Collected(promises[r])[promises[r][i].place] = i
  BY <1>1, LastAnswerStays
<1> QED
  BY <1>1, <1>2 DEF Settled

-----------------------------------------------------------------------------
(* The identities of identity. *)

\* The elements of a sequence and one more.
LEMMA AppendElements ==
  ASSUME NEW s, NEW e, IsSequence(s)
  PROVE  /\ IsSequence(Append(s, e)) /\ Len(s) \in Nat /\ Len(Append(s, e)) = Len(s) + 1
         /\ \A i \in DOMAIN Append(s, e) : Append(s, e)[i] \in {s[j] : j \in DOMAIN s} \cup {e}
<1> DEFINE S == {s[j] : j \in DOMAIN s} \cup {e}
<1>1. s \in Seq(S)
  <2> DEFINE U == {s[j] : j \in DOMAIN s}
  <2>1. s \in Seq(U)
    BY DEF IsSequence
  <2> HIDE DEF U, S
  <2>2. Len(s) \in Nat /\ DOMAIN s = 1..Len(s) /\ s \in [1..Len(s) -> U]
    BY <2>1
  <2>3. s \in [1..Len(s) -> S]
    BY <2>2 DEF U, S
  <2> QED
    BY <2>2, <2>3
<1>2. e \in S
  OBVIOUS
<1> HIDE DEF S
<1>3. Append(s, e) \in Seq(S) /\ Len(s) \in Nat /\ Len(Append(s, e)) = Len(s) + 1
  BY <1>1, <1>2
<1>4. \A i \in DOMAIN Append(s, e) : Append(s, e)[i] \in S
  BY <1>3
<1> QED
  BY <1>3, <1>4, ElementsOf DEF S

IsLookup(l, r) ==
  /\ DOMAIN l = {"call", "output", "state"}
  /\ l.call \in 0..call[r] /\ l.output \in Names /\ l.state \in PromiseStates

\* The lookups, and what is kept about them.
Lookups(r) ==
  /\ IsSequence(lookups[r])
  /\ \A i \in DOMAIN lookups[r] : IsLookup(lookups[r][i], r)
  /\ awaited[r] \in 0..Len(lookups[r])
  /\ Uses(r, "identity") \/ lookups[r] = <<>>

\* Under each name there is the identity that was looked up last for it.
Named(r) ==
  \A i \in DOMAIN lookups[r] :
    (\A j \in DOMAIN lookups[r] : j > i => lookups[r][j].output # lookups[r][i].output) =>
      data[r][lookups[r][i].output] = <<"did", i>>

\* The current call has looked something up.
Looked(r) == \E i \in DOMAIN lookups[r] : lookups[r][i].call = call[r]

\* Then it has the identities, or is still to wait for them.
IdentitiesAwaited(r) ==
  (stage[r] \in {"before", "success", "done"} /\ Looked(r)) => Named(r) \/ Ahead(r, "lookups")

IdentityDoms == DOMAIN lookups = Requests /\ DOMAIN awaited = Requests

IdentityInv ==
  /\ FrameInv /\ IdentityDoms
  /\ \A r \in Requests : Lookups(r) /\ IdentitiesAwaited(r)

\* Before any request has called a hook.
LEMMA IdentityInvInit == Init => IdentityInv
<1> SUFFICES ASSUME Init PROVE IdentityInv
  OBVIOUS
<1>1. FrameInv
  BY FrameInvInit
<1>2. lookups = [r \in Requests |-> <<>>] /\ awaited = [r \in Requests |-> 0]
  BY DEF Init, IdentityInit
<1>3. IsSequence(<<>>) /\ Len(<<>>) = 0 /\ \A i \in DOMAIN <<>> : FALSE
  BY DEF IsSequence
<1>4. ASSUME NEW r \in Requests PROVE Lookups(r) /\ IdentitiesAwaited(r)
  <2>1. lookups[r] = <<>> /\ awaited[r] = 0
    BY <1>2
  <2> QED
    BY <1>3, <2>1 DEF Lookups, IdentitiesAwaited, Looked
<1> QED
  BY <1>1, <1>2, <1>4 DEF IdentityInv, IdentityDoms

\* What a lookup needs of the plan.
LEMMA LookupsCome ==
  ASSUME FrameInv, NEW q \in Requests, Uses(q, "identity"), stage[q] = "before", todo[q] # <<>>,
         Step(q).op = "resolve"
  PROVE  /\ Step(q).name \in Names
         /\ \E k \in DOMAIN Tail(todo[q]) : Tail(todo[q])[k].op = "lookups"
<1>1. plan[q] \in UNION Scenarios /\ plan[q].mw = "identity" /\ call[q] \in DOMAIN plan[q].calls
  BY BeforeLeft DEF FrameInv, Uses
<1>2. \A i \in DOMAIN Before(q) : Before(q)[i].op = "resolve" =>
        /\ Before(q)[i].name \in Names
        /\ \E j \in DOMAIN Before(q) : j > i /\ Before(q)[j].op = "lookups"
  BY <1>1, IdentityAssumption DEF Before
<1>3. \E i \in DOMAIN Before(q) : Step(q) = Before(q)[i]
  BY StepIsAsked DEF Before, HookStages
<1>4. Step(q).name \in Names
  BY <1>2, <1>3
<1>5. \A i \in DOMAIN Before(q) : Before(q)[i].op = Step(q).op =>
        \E j \in DOMAIN Before(q) : j > i /\ Before(q)[j].op = "lookups"
  BY <1>2
<1>6. \E k \in DOMAIN Tail(todo[q]) : Tail(todo[q])[k].op = "lookups"
  BY <1>5, ComesLater
<1> QED
  BY <1>4, <1>6

\* What an action of identity does, to the lookups of its request only.
Looks(q) ==
  /\ stage[q] = "before" /\ todo[q] # <<>> /\ Step(q).op = "resolve"
  /\ \E new : lookups' = [lookups EXCEPT ![q] = Append(@, new)] /\ IsLookup(new, q)
  /\ todo' = [todo EXCEPT ![q] = Tail(@)] /\ UNCHANGED awaited

LookupSettles(q, i) ==
  /\ \E new \in PromiseStates : lookups' = [lookups EXCEPT ![q][i].state = new]
  /\ UNCHANGED <<awaited, data>>
  /\ stage'[q] = "failed" \/ todo'[q] = todo[q]

IdentityGoesOn(q) ==
  /\ UNCHANGED <<lookups, data>>
  /\ awaited' = awaited \/ awaited' = [awaited EXCEPT ![q] = Len(lookups[q])]
  /\ \/ todo'[q] = todo[q]
     \/ stage'[q] = "failed"
     \/ todo[q] # <<>> /\ todo'[q] = Tail(todo[q]) /\ lookups[q] = <<>>

IdentitySteps(q) ==
  /\ Steps(q)
  /\ \/ Looks(q) \/ IdentityGoesOn(q)
     \/ \E i \in DOMAIN lookups[q] : LookupSettles(q, i)
     \/ UNCHANGED <<lookups, awaited>> /\ Named(q)'

\* Every action of identity is such a step.
LEMMA IdentityEffect ==
  ASSUME IdentityInv, NEW q \in Requests, Uses(q, "identity"), IdentityActions(q)
  PROVE  IdentitySteps(q)
<1>1. FrameInv /\ FrameDoms /\ IdentityDoms /\ Lookups(q)
  BY DEF IdentityInv, FrameInv
<1>2. Steps(q)
  BY <1>1, IdentityActionsKeep
<1>3. CASE Resolves(q)
  <2>1. stage[q] = "before" /\ todo[q] # <<>> /\ Step(q).op = "resolve"
    BY <1>3 DEF Resolves, Doing, InHook
  <2>2. CASE Step(q).valid
    <3> DEFINE new == [call |-> call[q], output |-> Step(q).name, state |-> "pending"]
    <3>1. IsLookup(new, q)
      BY <1>1, <2>1, LookupsCome DEF IsLookup, PromiseStates, FrameDoms
    <3>2. /\ lookups' = [lookups EXCEPT ![q] = Append(@, new)] /\ UNCHANGED awaited
          /\ todo' = [todo EXCEPT ![q] = Tail(@)]
      BY <1>3, <2>2 DEF Resolves, Continue, Proceed
    <3> HIDE DEF new
    <3> QED
      BY <1>2, <2>1, <3>1, <3>2 DEF IdentitySteps, Looks
  <2>3. CASE ~Step(q).valid
    <3>1. stage'[q] = "failed" /\ UNCHANGED <<lookups, awaited, data>>
      BY <1>1, <1>3, <2>3, BlocksGoOn DEF Resolves, Reject
    <3> QED
      BY <1>2, <3>1 DEF IdentitySteps, IdentityGoesOn
  <2> QED
    BY <2>2, <2>3
<1>4. CASE WaitsForLookups(q)
  <2>1. IdentityGoesOn(q)
    BY <1>1, <1>4, BlocksGoOn
    DEF WaitsForLookups, IdentityGoesOn, Doing, InHook, Continue, Await
  <2> QED
    BY <1>2, <2>1 DEF IdentitySteps
<1>5. CASE \E i \in DOMAIN lookups[q] : LookupAnswered(q, i) \/ LookupFails(q, i)
  <2> PICK i \in DOMAIN lookups[q] : LookupAnswered(q, i) \/ LookupFails(q, i)
    BY <1>5
  <2>1. UNCHANGED data /\ (stage'[q] = "failed" \/ todo'[q] = todo[q])
    BY <1>1, BlocksGoOn DEF LookupAnswered, LookupFails, Reject, frame
  <2>2. LookupSettles(q, i)
    BY <2>1 DEF LookupAnswered, LookupFails, LookupSettles, PromiseStates
  <2> QED
    BY <1>2, <2>2 DEF IdentitySteps
<1>6. CASE LookupsDone(q)
  <2> DEFINE Last(n) == {i \in DOMAIN lookups[q] : lookups[q][i].output = n}
             Latest(n) == CHOOSE i \in Last(n) : \A j \in Last(n) : j <= i
  <2>1. /\ UNCHANGED <<lookups, awaited>>
        /\ data' = [data EXCEPT ![q] = [n \in Names |->
                       IF Last(n) = {} THEN @[n] ELSE <<"did", Latest(n)>>]]
    BY <1>6 DEF LookupsDone, identityVars
  <2>2. DOMAIN lookups[q] \subseteq Int /\ DOMAIN data = Requests
    BY <1>1, SequenceFacts DEF Lookups, FrameInv
  <2>3. ASSUME NEW i \in DOMAIN lookups[q],
               \A j \in DOMAIN lookups[q] : j > i => lookups[q][j].output # lookups[q][i].output
        PROVE  data'[q][lookups[q][i].output] = <<"did", i>>
    <3> DEFINE n == lookups[q][i].output
    <3>1. n \in Names /\ i \in Last(n)
      BY <1>1 DEF Lookups, IsLookup
    <3>2. \A j \in Last(n) : j <= i
      BY <2>2, <2>3
    <3>3. \A k \in Last(n) : (\A j \in Last(n) : j <= k) => k = i
      BY <2>2, <3>1, <3>2
    <3>4. Latest(n) = i
      <4> HIDE DEF Last, n
      <4> QED
        BY <3>1, <3>2, <3>3
    <3>5. Last(n) # {}
      BY <3>1
    <3> HIDE DEF Last, Latest, n
    <3>6. data'[q][n] = <<"did", Latest(n)>>
      BY <2>1, <2>2, <3>1, <3>5
    <3> QED
      BY <3>4, <3>6 DEF n
  <2>4. Named(q)'
    BY <2>1, <2>3 DEF Named
  <2> QED
    BY <1>2, <2>1, <2>4 DEF IdentitySteps
<1> QED
  BY <1>3, <1>4, <1>5, <1>6 DEF IdentityActions

\* A request of which neither the lookups nor the hooks have changed.
LEMMA IdentityUnmoved ==
  ASSUME NEW r \in Requests, Lookups(r), IdentitiesAwaited(r),
         lookups'[r] = lookups[r], awaited'[r] = awaited[r], data'[r] = data[r],
         plan' = plan, stage'[r] = stage[r], todo'[r] = todo[r], call'[r] = call[r]
  PROVE  Lookups(r)' /\ IdentitiesAwaited(r)'
<1>1. Lookups(r)'
  BY DEF Lookups, IsLookup, Uses
<1>2. IdentitiesAwaited(r)'
  BY DEF IdentitiesAwaited, Looked, Named, Ahead
<1> QED
  BY <1>1, <1>2

\* A step of identity keeps what is known about the lookups of its request.
LEMMA LookupsStep ==
  ASSUME IdentityInv, NEW q \in Requests, IdentitySteps(q), Uses(q, "identity")
  PROVE  Lookups(q)'
<1>1. Lookups(q) /\ IdentityDoms /\ call'[q] = call[q] /\ Uses(q, "identity")'
  BY DEF IdentityInv, IdentitySteps, Steps, Works, Kept, Uses
<1>2. Len(lookups[q]) \in Nat /\ DOMAIN lookups[q] = 1..Len(lookups[q])
  BY <1>1, SequenceFacts DEF Lookups
<1>3. CASE Looks(q)
  <2> PICK new : lookups' = [lookups EXCEPT ![q] = Append(@, new)] /\ IsLookup(new, q)
    BY <1>3 DEF Looks
  <2> DEFINE all == Append(lookups[q], new)
  <2>1. lookups'[q] = all /\ awaited'[q] = awaited[q]
    BY <1>1, <1>3 DEF Looks, IdentityDoms
  <2>2. /\ IsSequence(all) /\ Len(all) = Len(lookups[q]) + 1
        /\ \A i \in DOMAIN all : all[i] \in {lookups[q][j] : j \in DOMAIN lookups[q]} \cup {new}
    <3>1. IsSequence(lookups[q])
      BY <1>1 DEF Lookups
    <3>2. IsSequence(all) /\ Len(all) = Len(lookups[q]) + 1
      BY <3>1, AppendElements
    <3>3. \A i \in DOMAIN all : all[i] \in {lookups[q][j] : j \in DOMAIN lookups[q]} \cup {new}
      BY <3>1, AppendElements
    <3> QED
      BY <3>2, <3>3
  <2> HIDE DEF all
  <2>3. \A i \in DOMAIN all : IsLookup(all[i], q)
    BY <1>1, <2>2 DEF Lookups
  <2>4. \A i \in DOMAIN lookups'[q] : IsLookup(lookups[q][i], q)'
    BY <1>1, <2>1, <2>3 DEF IsLookup
  <2>5. awaited[q] \in 0..Len(all)
    <3>1. awaited[q] \in 0..Len(lookups[q])
      BY <1>1 DEF Lookups
    <3> QED
      BY <1>2, <2>2, <3>1
  <2> QED
    BY <1>1, <2>1, <2>2, <2>4, <2>5 DEF Lookups
<1>4. CASE \E i \in DOMAIN lookups[q] : LookupSettles(q, i)
  <2> PICK i \in DOMAIN lookups[q], new \in PromiseStates :
        lookups' = [lookups EXCEPT ![q][i].state = new] /\ UNCHANGED awaited
    BY <1>4 DEF LookupSettles
  <2>1. lookups'[q] = [lookups[q] EXCEPT ![i].state = new]
    BY <1>1 DEF IdentityDoms
  <2>2. DOMAIN lookups'[q] = 1..Len(lookups[q])
    BY <1>2, <2>1
  <2>3. lookups'[q] = [j \in 1..Len(lookups[q]) |-> lookups'[q][j]]
    BY <1>2, <2>1
  <2>4. IsSequence(lookups'[q]) /\ Len(lookups'[q]) = Len(lookups[q])
    BY <1>2, <2>3, FunctionIsSequence
  <2>5. \A j \in DOMAIN lookups[q] : IsLookup(lookups'[q][j], q)
    BY <1>1, <2>1 DEF Lookups, IsLookup
  <2>6. \A j \in DOMAIN lookups'[q] : IsLookup(lookups[q][j], q)'
    BY <1>1, <1>2, <2>2, <2>5 DEF IsLookup
  <2> QED
    BY <1>1, <1>2, <2>2, <2>4, <2>6 DEF Lookups
<1>5. CASE lookups' = lookups /\ (awaited' = awaited \/ awaited' = [awaited EXCEPT ![q] = Len(lookups[q])])
  <2>1. awaited'[q] \in 0..Len(lookups[q])
    BY <1>1, <1>2, <1>5 DEF IdentityDoms, Lookups
  <2> QED
    BY <1>1, <1>5, <2>1 DEF Lookups, IsLookup
<1> QED
  BY <1>3, <1>4, <1>5 DEF IdentitySteps, IdentityGoesOn

\* Its identities stay under their names, or the wait for them stays ahead.
LEMMA IdentitiesStep ==
  ASSUME IdentityInv, NEW q \in Requests, IdentitySteps(q), Uses(q, "identity")
  PROVE  IdentitiesAwaited(q)'
<1> SUFFICES ASSUME stage'[q] \in {"before", "success", "done"}, Looked(q)'
             PROVE  Named(q)' \/ Ahead(q, "lookups")'
  BY DEF IdentitiesAwaited
<1>1. /\ FrameInv /\ FrameDoms /\ Lookups(q) /\ IdentityDoms /\ IdentitiesAwaited(q)
      /\ call'[q] = call[q] /\ stage'[q] = stage[q]
  BY DEF IdentityInv, FrameInv, IdentitySteps, Steps, Works
<1>2. CASE Looks(q)
  <2>1. stage[q] = "before" /\ todo[q] # <<>> /\ Step(q).op = "resolve" /\ todo'[q] = Tail(todo[q])
    BY <1>1, <1>2 DEF Looks, FrameDoms
  <2> QED
    BY <1>1, <2>1, LookupsCome DEF Ahead
<1>3. CASE \E i \in DOMAIN lookups[q] : LookupSettles(q, i)
  <2> PICK i \in DOMAIN lookups[q], new \in PromiseStates :
        lookups' = [lookups EXCEPT ![q][i].state = new] /\ UNCHANGED data /\ todo'[q] = todo[q]
    BY <1>1, <1>3 DEF LookupSettles
  <2>1. lookups'[q] = [lookups[q] EXCEPT ![i].state = new]
    BY <1>1 DEF IdentityDoms
  <2>2. \A j \in DOMAIN lookups[q] :
          lookups'[q][j].call = lookups[q][j].call /\ lookups'[q][j].output = lookups[q][j].output
    BY <1>1, <2>1 DEF Lookups, IsLookup
  <2>3. DOMAIN lookups'[q] = DOMAIN lookups[q]
    BY <2>1
  <2>4. Looked(q)
    BY <1>1, <2>2, <2>3 DEF Looked
  <2>5. Named(q) => Named(q)'
    BY <2>2, <2>3 DEF Named
  <2> QED
    BY <1>1, <2>4, <2>5 DEF IdentitiesAwaited, Ahead
<1>4. CASE IdentityGoesOn(q)
  <2>1. Looked(q) /\ lookups' = lookups /\ data' = data
    BY <1>1, <1>4 DEF IdentityGoesOn, Looked
  <2>2. lookups[q] # <<>>
    <3>1. \A i \in DOMAIN <<>> : FALSE
      OBVIOUS
    <3> QED
      BY <2>1, <3>1 DEF Looked
  <2>3. todo'[q] = todo[q]
    BY <1>1, <1>4, <2>2 DEF IdentityGoesOn
  <2> QED
    BY <1>1, <2>1, <2>3 DEF IdentitiesAwaited, Ahead, Named
<1> QED
  BY <1>2, <1>3, <1>4 DEF IdentitySteps

\* A step of callRestroom keeps the identities: the next call has not asked yet.
LEMMA IdentityKeptByRequests ==
  ASSUME IdentityInv, FrameInv', RequestsNext, UNCHANGED identityVars, NEW r \in Requests
  PROVE  Lookups(r)' /\ IdentitiesAwaited(r)'
<1> PICK q \in Requests : RequestStep(q)
  BY DEF RequestsNext, RequestStep
<1>1. /\ FrameInv /\ FrameDoms /\ Lookups(r) /\ IdentitiesAwaited(r)
      /\ lookups' = lookups /\ awaited' = awaited
      /\ plan' = plan /\ (Uses(r, "identity")' <=> Uses(r, "identity"))
  BY RequestStepKeeps DEF IdentityInv, FrameInv, identityVars, Kept, Uses
<1>2. CASE r # q
  <2>1. stage'[r] = stage[r] /\ todo'[r] = todo[r] /\ call'[r] = call[r]
    BY <1>1, <1>2, RequestStepKeeps DEF Kept
  <2>2. data'[r] = data[r]
    BY <1>1, <1>2 DEF RequestStep, EnterBefore, DataIsMalformed, ZenroomRuns, ZenroomRejects,
                      SuccessEnds, Reject, FrameInv
  <2> QED
    BY <1>1, <2>1, <2>2, IdentityUnmoved
<1>3. CASE r = q
  <2>1. CASE EnterBefore(q)
    <3>1. call'[q] = call[q] + 1 /\ call[q] \in Nat
      BY <1>1, <2>1 DEF EnterBefore, FrameDoms
    <3>2. \A i \in DOMAIN lookups[q] :
            lookups[q][i].call \in 0..call'[q] /\ lookups[q][i].call # call'[q]
      <4>1. \A n \in 0..call[q] : n \in 0..(call[q] + 1) /\ n # call[q] + 1
        BY <3>1
      <4> QED
        BY <1>1, <1>3, <3>1, <4>1 DEF Lookups, IsLookup
    <3>3. Lookups(r)'
      BY <1>1, <1>3, <3>2 DEF Lookups, IsLookup
    <3>4. ~Looked(r)'
      BY <1>1, <1>3, <3>2 DEF Looked
    <3> QED
      BY <3>3, <3>4 DEF IdentitiesAwaited
  <2>2. CASE DataIsMalformed(q) \/ ZenroomRejects(q)
    <3>1. call' = call /\ stage'[q] = "failed"
      BY <1>1, <2>2 DEF DataIsMalformed, ZenroomRejects, Reject, Fail, FrameDoms
    <3>2. Lookups(r)'
      BY <1>1, <1>3, <3>1 DEF Lookups, IsLookup
    <3> QED
      BY <1>3, <3>1, <3>2 DEF IdentitiesAwaited
  <2>3. CASE ZenroomRuns(q) \/ SuccessEnds(q)
    <3>1. call' = call /\ data' = data /\ todo[q] = <<>> /\ stage[q] \in {"before", "success"}
      BY <2>3 DEF ZenroomRuns, SuccessEnds
    <3>2. Lookups(r)'
      BY <1>1, <1>3, <3>1 DEF Lookups, IsLookup
    <3>3. ~Ahead(r, "lookups")
      <4>1. \A i \in DOMAIN <<>> : FALSE
        OBVIOUS
      <4> QED
        BY <1>3, <3>1, <4>1 DEF Ahead
    <3>4. Looked(r)' => Named(r)'
      BY <1>1, <1>3, <3>1, <3>3 DEF IdentitiesAwaited, Looked, Named
    <3> QED
      BY <3>2, <3>4 DEF IdentitiesAwaited
  <2> QED
    BY <2>1, <2>2, <2>3 DEF RequestStep
<1> QED
  BY <1>2, <1>3

\* Every step of the composed system preserves the invariant.
LEMMA IdentityInvStep == IdentityInv /\ [Next]_vars => IdentityInv'
<1> SUFFICES ASSUME IdentityInv, [Next]_vars PROVE IdentityInv'
  OBVIOUS
<1>1. /\ FrameInv /\ FrameDoms /\ FrameInv' /\ IdentityDoms
      /\ IdentityNext \/ Foreign("identity", identityVars)
  <2>1. FrameInv /\ FrameDoms
    BY DEF IdentityInv, FrameInv
  <2> QED
    BY <2>1, FrameInvStep, ForeignSteps DEF IdentityInv
<1>2. CASE IdentityNext
  <2> PICK q \in Requests : Uses(q, "identity") /\ IdentityActions(q)
    BY <1>2 DEF IdentityNext, IdentityActions
  <2>1. IdentitySteps(q)
    BY IdentityEffect
  <2>2. IdentityDoms'
    BY <1>1, <2>1 DEF IdentityDoms, IdentitySteps, Looks, LookupSettles, IdentityGoesOn
  <2>3. ASSUME NEW r \in Requests, r # q PROVE Lookups(r)' /\ IdentitiesAwaited(r)'
    <3>1. plan' = plan /\ stage'[r] = stage[r] /\ todo'[r] = todo[r] /\ call'[r] = call[r]
      BY <2>1, <2>3 DEF IdentitySteps, Steps, Works, Kept
    <3>2. lookups'[r] = lookups[r] /\ awaited'[r] = awaited[r]
      BY <1>1, <2>1, <2>3 DEF IdentityDoms, IdentitySteps, Looks, LookupSettles, IdentityGoesOn
    <3>3. data'[r] = data[r]
      BY <1>1, <2>1, <2>3 DEF IdentitySteps, Steps, DataKept, FrameInv
    <3> QED
      BY <3>1, <3>2, <3>3, IdentityUnmoved DEF IdentityInv
  <2>4. Lookups(q)' /\ IdentitiesAwaited(q)'
    BY <2>1, LookupsStep, IdentitiesStep
  <2> QED
    BY <1>1, <2>2, <2>3, <2>4 DEF IdentityInv
<1>3. CASE UNCHANGED identityVars
  <2>1. IdentityDoms'
    BY <1>1, <1>3 DEF IdentityDoms, identityVars
  <2>2. CASE RequestsNext
    BY <1>1, <1>3, <2>1, <2>2, IdentityKeptByRequests DEF IdentityInv
  <2>3. CASE StepElsewhere("identity")
    <3>1. ASSUME NEW r \in Requests PROVE Lookups(r)' /\ IdentitiesAwaited(r)'
      <4>1. lookups' = lookups /\ awaited' = awaited /\ plan' = plan /\ call' = call
        BY <1>3, <2>3 DEF identityVars, StepElsewhere, Steps, Works, Kept, frame
      <4>2. CASE Uses(r, "identity")
        <5>1. stage'[r] = stage[r] /\ todo'[r] = todo[r] /\ data'[r] = data[r]
          BY <1>1, <2>3, <4>2 DEF StepElsewhere, Steps, Works, Kept, DataKept, FrameInv, frame
        <5> QED
          BY <4>1, <5>1, IdentityUnmoved DEF IdentityInv
      <4>3. CASE lookups[r] = <<>>
        <5>1. Lookups(r)'
          BY <4>1 DEF IdentityInv, Lookups, IsLookup, Uses
        <5>2. ~Looked(r)'
          <6>1. \A i \in DOMAIN <<>> : FALSE
            OBVIOUS
          <6> QED
            BY <4>1, <4>3, <6>1 DEF Looked
        <5> QED
          BY <5>1, <5>2 DEF IdentitiesAwaited
      <4> QED
        BY <4>2, <4>3 DEF IdentityInv, Lookups
    <3> QED
      BY <1>1, <2>1, <3>1 DEF IdentityInv
  <2> QED
    BY <1>1, <2>2, <2>3, <1>2 DEF Foreign
<1> QED
  BY <1>1, <1>2, <1>3 DEF Foreign

\* What http and identity collect is paired with its names, whatever the order
\* of the answers and whatever earlier contracts have asked: for any requests
\* and plans.
THEOREM AnswersAreInPlace == Spec => []AnswersReachTheirNames
<1>1. HttpInv /\ IdentityInv => AnswersReachTheirNames
  <2>1. IdentityInv => IdentitiesInPlace
    BY DEF IdentityInv, IdentitiesAwaited, Looked, Named, Ahead, IdentitiesInPlace
  <2> QED
    BY <2>1, HttpInvMeans DEF AnswersReachTheirNames
<1> QED
  BY <1>1, HttpInvInit, HttpInvStep, IdentityInvInit, IdentityInvStep, PTL DEF Spec

-----------------------------------------------------------------------------
(* The variables of files, logger, sawroom and ethereum. *)

SharedMiddlewares == {"files", "logger", "sawroom", "ethereum"}

ConnectsNow(r) == Connects([by |-> r, call |-> call[r]])

\* The current call of r sets this variable.
Takes(r, v) ==
  \/ Uses(r, "files") /\ v \in Input
  \/ Uses(r, "logger") /\ v \in LogInput
  \/ Uses(r, "sawroom") /\ v \in AddressAndInput
  \/ Uses(r, "ethereum") /\ v = "ethereum.web3" /\ ConnectsNow(r)

\* It has done so: the first step of its onBefore hook is over.
Started(r) ==
  \/ stage[r] = "success"
  \/ stage[r] = "before" /\ Len(todo[r]) < Len(Before(r))

\* The value is that of r or of a request it has met, or there is no address.
Near(r, v, o) == o[v] \in {r} \cup met[r] \/ (v = "sawroom.address" /\ o[v] = None)

Owned(r) == Started(r) => \A v \in Shared : Takes(r, v) => Near(r, v, owner)

\* Requests that are in a contract call at the same time have met.
Met(r) ==
  \A q \in Requests \ {r} :
    stage[r] \in HookStages /\ stage[q] \in HookStages => q \in met[r]

OnShared(o) == o = [v \in Shared |-> o[v]]

\* The address is that of the input, if there is one.
Paired(o) == o["sawroom.address"] = None \/ o["sawroom.address"] = o["sawroom.input"]

UseRecords ==
  [by : Requests, call : Nat, hook : {"before", "success"}, of : [Shared -> Requests \cup {None}],
   what : SUBSET Shared, met : SUBSET Requests]

GoodUse(u) ==
  /\ u \in UseRecords
  /\ AddressAndInput \subseteq u.what => u.of["sawroom.input"] = u.of["sawroom.address"]
  /\ \A v \in u.what : (v # "ethereum.web3" \/ Connects(u)) => u.of[v] \in {u.by} \cup u.met

SharedInv ==
  /\ FrameInv /\ owner \in [Shared -> Requests \cup {None}] /\ Paired(owner)
  /\ \A r \in Requests : Met(r) /\ Owned(r)
  /\ \A u \in uses : GoodUse(u)

\* Before any request has called a hook.
LEMMA SharedInvInit == Init => SharedInv
<1> SUFFICES ASSUME Init PROVE SharedInv
  OBVIOUS
<1>1. FrameInv
  BY FrameInvInit
<1>2. owner = [v \in Shared |-> None] /\ uses = {} /\ stage = [r \in Requests |-> "waiting"]
  BY DEF Init, SharedInit, RequestsInit
<1>3. Paired(owner)
  BY <1>2 DEF Paired, Shared
<1> QED
  BY <1>1, <1>2, <1>3 DEF SharedInv, Met, Owned, Started, HookStages

\* The first step of an onBefore hook, and those that come after it.
LEMMA FirstStep ==
  ASSUME FrameInv, NEW q \in Requests, stage[q] = "before", plan[q].mw \in SharedMiddlewares
  PROVE  /\ todo[q] = <<>> => Started(q)
         /\ todo[q] # <<>> /\ Step(q).op # plan[q].mw => Started(q)
         /\ todo[q] # <<>> /\ Step(q).op = plan[q].mw => Step(q) = Before(q)[1]
         /\ todo[q] # <<>> /\ Tail(todo[q]) # <<>> => Head(Tail(todo[q])).op # plan[q].mw
         /\ \A i \in DOMAIN Before(q) : Before(q)[i].op = plan[q].mw => i = 1
<1> DEFINE n == Len(Before(q))
           m == Len(todo[q])
<1>1. /\ n \in Nat /\ DOMAIN Before(q) = 1..n /\ m \in 0..n /\ call[q] \in DOMAIN plan[q].calls
      /\ IsRest(todo[q], Before(q)) /\ IsSequence(Before(q))
      /\ todo[q] # <<>> => m >= 1 /\ Step(q) = Before(q)[n - m + 1]
  BY BeforeLeft
<1>2. plan[q] \in UNION Scenarios
  BY DEF FrameInv
<1>3. Before(q) # <<>> /\ \A i \in DOMAIN Before(q) : Before(q)[i].op = plan[q].mw <=> i = 1
  BY <1>1, <1>2, SharedAssumption DEF Before, SharedMiddlewares
<1>4. n >= 1
  BY <1>1, <1>3, SequenceFacts
<1>5. todo[q] = <<>> => Started(q)
  <2>1. Len(<<>>) = 0
    OBVIOUS
  <2> QED
    BY <1>4, <2>1 DEF Started
<1>6. ASSUME todo[q] # <<>>
      PROVE  /\ Step(q).op # plan[q].mw => m < n
             /\ Step(q).op = plan[q].mw => Step(q) = Before(q)[1]
             /\ Tail(todo[q]) # <<>> => Head(Tail(todo[q])).op # plan[q].mw
  <2> HIDE DEF n, m
  <2>1. n - m + 1 \in 1..n
    BY <1>1, <1>6
  <2>2. Step(q).op = plan[q].mw <=> n - m + 1 = 1
    BY <1>1, <1>3, <1>6, <2>1
  <2>3. IsRest(Tail(todo[q]), Before(q)) /\ Len(Tail(todo[q])) = m - 1
    BY <1>1, <1>6, RestOfRest DEF m
  <2>4. ASSUME Tail(todo[q]) # <<>>
        PROVE  Head(Tail(todo[q])) = Before(q)[n - (m - 1) + 1] /\ m - 1 \in 1..n
    BY <1>1, <2>3, <2>4, RestOfRest DEF n
  <2>5. ASSUME m - 1 \in 1..n PROVE n - (m - 1) + 1 \in 1..n /\ n - (m - 1) + 1 # 1
    BY <1>1, <2>5
  <2>6. Tail(todo[q]) # <<>> => Head(Tail(todo[q])).op # plan[q].mw
    BY <1>1, <1>3, <2>4, <2>5
  <2>7. n - m + 1 # 1 => m < n
    BY <1>1
  <2>8. n - m + 1 = 1 => Step(q) = Before(q)[1]
    BY <1>1, <1>6
  <2> QED
    BY <2>2, <2>6, <2>7, <2>8
<1> QED
  BY <1>1, <1>3, <1>5, <1>6 DEF Started

\* What an action of these middlewares does to the variables. It sets all that
\* its call takes before its first step is over.
Took(q) ==
  \A v \in Shared : Takes(q, v) => owner'[v] = q \/ (v = "sawroom.address" /\ owner'[v] = None)

SharedSteps(q) ==
  /\ Steps(q) /\ stage[q] \in HookStages
  /\ OnShared(owner')
  /\ \A v \in Shared :
       owner'[v] \in {owner[v], q} \/ (v = "sawroom.address" /\ owner'[v] = None)
  /\ Paired(owner')
  /\ Started(q) \/ Took(q) \/ todo'[q] = todo[q] \/ stage'[q] = "failed"
  /\ \A u \in uses' : u \in uses \/ GoodUse(u)

\* What the use of a step must be to be a good one.
LEMMA UseIsGood ==
  ASSUME FrameInv, NEW q \in Requests, stage[q] \in HookStages,
         NEW what, NEW o, what \subseteq Shared, \A v \in what : o[v] \in Requests \cup {None},
         AddressAndInput \subseteq what => o["sawroom.input"] = o["sawroom.address"],
         \A v \in what : (v # "ethereum.web3" \/ ConnectsNow(q)) => o[v] \in {q} \cup met[q]
  PROVE  GoodUse(UseOf(q, what, o))
<1> DEFINE u == UseOf(q, what, o)
<1>1. /\ u.by = q /\ u.call = call[q] /\ u.hook = stage[q] /\ u.what = what /\ u.met = met[q]
      /\ \A v \in what : u.of[v] = o[v]
  BY DEF UseOf
<1>2. Connects(u) <=> ConnectsNow(q)
  BY <1>1 DEF Connects, ConnectsNow
<1>3. AddressAndInput \subseteq u.what => u.of["sawroom.input"] = u.of["sawroom.address"]
  BY <1>1 DEF AddressAndInput
<1>4. \A v \in u.what : (v # "ethereum.web3" \/ Connects(u)) => u.of[v] \in {u.by} \cup u.met
  BY <1>1, <1>2
<1>5. u \in UseRecords
  <2>1. u.of \in [Shared -> Requests \cup {None}]
    BY DEF UseOf
  <2>2. call[q] \in Nat /\ met[q] \in SUBSET Requests /\ stage[q] \in {"before", "success"}
    BY DEF FrameInv, FrameDoms, HookStages
  <2> QED
    BY <2>1, <2>2 DEF UseOf, UseRecords
<1> QED
  BY <1>3, <1>4, <1>5 DEF GoodUse

\* A step that sets and uses nothing, once the call has set its variables.
LEMMA NothingShared ==
  ASSUME SharedInv, NEW q \in Requests, Steps(q), stage[q] \in HookStages, UNCHANGED sharedVars,
         Started(q) \/ todo'[q] = todo[q] \/ stage'[q] = "failed"
  PROVE  SharedSteps(q)
BY DEF SharedSteps, SharedInv, sharedVars, OnShared

\* Setting variables of a package for q.
LEMMA SettingTakes ==
  ASSUME SharedInv, NEW q \in Requests, Set(q, Input) \/ Set(q, LogInput) \/ Set(q, {"ethereum.web3"})
  PROVE  /\ OnShared(owner') /\ Paired(owner')
         /\ \A v \in Shared : owner'[v] \in {owner[v], q}
         /\ Set(q, Input) => owner'["files.input"] = q
         /\ Set(q, LogInput) => owner'["logger.input"] = q
         /\ Set(q, {"ethereum.web3"}) => owner'["ethereum.web3"] = q
<1>1. OnShared(owner) /\ Paired(owner)
  BY DEF SharedInv, OnShared
<1>2. /\ "files.input" \in Shared /\ "logger.input" \in Shared /\ "ethereum.web3" \in Shared
      /\ "sawroom.input" \in Shared /\ "sawroom.address" \in Shared
  BY DEF Shared
<1>3. OnShared(owner') /\ \A v \in Shared : owner'[v] \in {owner[v], q}
  BY DEF Set, OnShared
<1>4. owner'["sawroom.input"] = owner["sawroom.input"] /\ owner'["sawroom.address"] = owner["sawroom.address"]
  BY <1>2 DEF Set, Input, LogInput
<1>5. Paired(owner')
  BY <1>1, <1>4 DEF Paired
<1> QED
  BY <1>2, <1>3, <1>5 DEF Set, Input, LogInput

\* A use of the input by a request of files or logger.
LEMMA InputUse ==
  ASSUME FrameInv, NEW q \in Requests, stage[q] \in HookStages,
         NEW what \in {Input, LogInput}, NEW o,
         \A v \in what : o[v] \in {q} \cup met[q]
  PROVE  GoodUse(UseOf(q, what, o))
<1>1. what \subseteq Shared /\ ~(AddressAndInput \subseteq what)
  BY DEF Input, LogInput, Shared, AddressAndInput
<1>2. \A v \in what : o[v] \in Requests \cup {None}
  BY DEF FrameInv
<1> QED
  BY <1>1, <1>2, UseIsGood

\* Every action of files is such a step.
LEMMA FilesEffect ==
  ASSUME SharedInv, NEW q \in Requests, Uses(q, "files"), FilesActions(q)
  PROVE  SharedSteps(q)
<1>1. FrameInv /\ FrameDoms /\ Owned(q) /\ OnShared(owner) /\ Paired(owner)
  BY DEF SharedInv, FrameInv, OnShared
<1>2. Steps(q)
  BY <1>1, FilesActionsKeep
<1>3. \A v \in Shared : Takes(q, v) <=> v = "files.input"
  BY DEF Takes, Uses, Input
<1>4. Set(q, Input) => Took(q)
  BY <1>3, SettingTakes DEF Took
<1>5. "files.input" \in Shared
  BY DEF Shared
<1>6. CASE StartsFiles(q)
  <2>1. stage[q] = "before" /\ Set(q, Input) /\ uses' = uses \cup {UseOf(q, Input, owner')}
    BY <1>6 DEF StartsFiles, Doing, InHook
  <2>2. GoodUse(UseOf(q, Input, owner'))
    BY <1>1, <2>1, InputUse, SettingTakes DEF Input, HookStages
  <2> QED
    BY <1>2, <1>4, <2>1, <2>2, SettingTakes DEF SharedSteps, HookStages
<1>7. CASE ReadsFolders(q)
  <2>1. stage[q] = "before" /\ UNCHANGED sharedVars
    BY <1>7 DEF ReadsFolders, Doing, InHook
  <2>2. todo'[q] = todo[q] \/ stage'[q] = "failed"
    BY <1>1, <1>7, BlocksGoOn DEF ReadsFolders
  <2> QED
    BY <1>2, <2>1, <2>2, NothingShared DEF HookStages
<1>8. CASE StatsFiles(q)
  <2>1. stage[q] = "before" /\ uses' = uses
    BY <1>8 DEF StatsFiles, Doing, InHook
  <2>2. CASE Set(q, Input)
    BY <1>2, <1>4, <2>1, <2>2, SettingTakes DEF SharedSteps, HookStages
  <2>3. CASE Reject(q, "ENOENT") /\ UNCHANGED owner
    BY <1>1, <1>2, <2>1, <2>3, BlocksGoOn, NothingShared DEF HookStages, sharedVars
  <2> QED
    BY <1>8, <2>2, <2>3 DEF StatsFiles
<1>9. CASE StartsDownload(q) \/ Downloads(q) \/ StoresResult(q)
  <2>1. stage[q] = "success" /\ Started(q)
    BY <1>9 DEF StartsDownload, Downloads, StoresResult, Doing, InHook, Started
  <2>2. owner["files.input"] \in {q} \cup met[q]
    BY <1>1, <1>3, <1>5, <2>1 DEF Owned, Near
  <2>3. GoodUse(UseOf(q, Input, owner))
    BY <1>1, <2>1, <2>2, InputUse DEF Input, HookStages
  <2>4. owner' = owner /\ (uses' = uses \/ uses' = uses \cup {UseOf(q, Input, owner)})
    BY <1>9 DEF StartsDownload, Downloads, StoresResult, LooksUp, sharedVars
  <2> QED
    BY <1>1, <1>2, <2>1, <2>3, <2>4 DEF SharedSteps, HookStages
<1> QED
  BY <1>6, <1>7, <1>8, <1>9 DEF FilesActions

\* Every action of logger is such a step.
LEMMA LoggerEffect ==
  ASSUME SharedInv, NEW q \in Requests, Uses(q, "logger"), LoggerActions(q)
  PROVE  SharedSteps(q)
<1>1. FrameInv /\ FrameDoms /\ Owned(q) /\ OnShared(owner) /\ Paired(owner)
  BY DEF SharedInv, FrameInv, OnShared
<1>2. Steps(q)
  BY <1>1, LoggerActionsKeep
<1>3. \A v \in Shared : Takes(q, v) <=> v = "logger.input"
  BY DEF Takes, Uses, LogInput
<1>4. Set(q, LogInput) => Took(q)
  BY <1>3, SettingTakes DEF Took
<1>5. "logger.input" \in Shared /\ LogInput # Input
  BY DEF Shared, LogInput, Input
<1>6. CASE StartsLogger(q)
  <2>1. stage[q] = "before" /\ Set(q, LogInput) /\ uses' = uses
    BY <1>6 DEF StartsLogger, Doing, InHook
  <2> QED
    BY <1>2, <1>4, <2>1, SettingTakes DEF SharedSteps, HookStages
<1>7. CASE StartsLog(q) \/ LogIsWritten(q) \/ LogFails(q)
  <2>1. stage[q] = "success" /\ Started(q)
    BY <1>7 DEF StartsLog, LogIsWritten, LogFails, Doing, InHook, Started
  <2>2. owner["logger.input"] \in {q} \cup met[q]
    BY <1>1, <1>3, <1>5, <2>1 DEF Owned, Near
  <2>3. GoodUse(UseOf(q, LogInput, owner))
    BY <1>1, <1>5, <2>1, <2>2, InputUse DEF LogInput, HookStages
  <2>4. owner' = owner /\ (uses' = uses \/ uses' = uses \cup {UseOf(q, LogInput, owner)})
    BY <1>7 DEF StartsLog, LogIsWritten, LogFails, sharedVars
  <2> QED
    BY <1>1, <1>2, <2>1, <2>3, <2>4 DEF SharedSteps, HookStages
<1> QED
  BY <1>6, <1>7 DEF LoggerActions

\* A hook that goes on with its calls uses what the next of them needs, and all
\* of it is set.
LEMMA CallsUse ==
  ASSUME NEW q, NEW steps, NEW needs, NEW o, Calls(q, steps, needs, o), NEW u \in uses', u \notin uses
  PROVE  /\ steps # <<>> /\ u = UseOf(q, needs[Head(steps).op], o)
         /\ \A v \in needs[Head(steps).op] : o[v] # None
BY DEF Calls, Unable

\* What calls to sawroom need.
LEMMA SawroomUses ==
  ASSUME FrameInv, NEW q \in Requests, stage[q] \in HookStages,
         NEW steps, NEW o, Calls(q, steps, SawroomNeeds, o), Paired(o),
         steps # <<>> => Head(steps).op \in SawroomReads \cup SawroomWrites,
         \A v \in AddressAndInput : Near(q, v, o)
  PROVE  \A u \in uses' : u \in uses \/ GoodUse(u)
<1> SUFFICES ASSUME NEW u \in uses', u \notin uses PROVE GoodUse(u)
  OBVIOUS
<1> DEFINE what == SawroomNeeds[Head(steps).op]
<1>1. steps # <<>> /\ u = UseOf(q, what, o) /\ \A v \in what : o[v] # None
  BY CallsUse
<1>2. what \in {{}, SawroomAddress, AddressAndInput}
  BY <1>1 DEF SawroomNeeds
<1> HIDE DEF what
<1>3. what \subseteq AddressAndInput
  BY <1>2 DEF SawroomAddress, AddressAndInput
<1>4. what \subseteq Shared
  BY <1>3 DEF AddressAndInput, Shared
<1>5. AddressAndInput \subseteq what => o["sawroom.input"] = o["sawroom.address"]
  BY <1>1 DEF AddressAndInput, Paired
<1>6. \A v \in what : o[v] \in {q} \cup met[q]
  BY <1>1, <1>3 DEF Near
<1>7. \A v \in what : o[v] \in Requests \cup {None}
  BY <1>6 DEF FrameInv
<1> QED
  BY <1>1, <1>4, <1>5, <1>6, <1>7, UseIsGood

\* What calls to ethereum need.
LEMMA EthereumUses ==
  ASSUME FrameInv, NEW q \in Requests, stage[q] \in HookStages,
         NEW steps, NEW o, Calls(q, steps, EthereumNeeds, o),
         steps # <<>> => Head(steps).op \in EthereumOps, o["ethereum.web3"] \in Requests \cup {None},
         ConnectsNow(q) => Near(q, "ethereum.web3", o)
  PROVE  \A u \in uses' : u \in uses \/ GoodUse(u)
<1> SUFFICES ASSUME NEW u \in uses', u \notin uses PROVE GoodUse(u)
  OBVIOUS
<1> DEFINE what == EthereumNeeds[Head(steps).op]
<1>1. steps # <<>> /\ u = UseOf(q, what, o)
  BY CallsUse
<1>2. what = {"ethereum.web3"}
  BY <1>1 DEF EthereumNeeds
<1> HIDE DEF what
<1>3. what \subseteq Shared /\ ~(AddressAndInput \subseteq what)
  BY <1>2 DEF AddressAndInput, Shared
<1>4. \A v \in what : (v # "ethereum.web3" \/ ConnectsNow(q)) => o[v] \in {q} \cup met[q]
  BY <1>2 DEF Near
<1>5. \A v \in what : o[v] \in Requests \cup {None}
  BY <1>2
<1> QED
  BY <1>1, <1>3, <1>4, <1>5, UseIsGood

\* A hook at work has a step that its middleware knows, and the next one is
\* such a step too, but not the first of a hook.
LEMMA CallsAreKnown ==
  ASSUME FrameInv, NEW q \in Requests, todo[q] # <<>>, NEW mw \in SharedMiddlewares, Uses(q, mw)
  PROVE  /\ stage[q] \in HookStages
         /\ Step(q) \in Asked(mw, stage[q])
         /\ Tail(todo[q]) # <<>> => Head(Tail(todo[q])) \in Asked(mw, stage[q])
         /\ stage[q] = "before" /\ Tail(todo[q]) # <<>> => Head(Tail(todo[q])).op # mw
         /\ stage[q] = "success" \/ Step(q).op # mw => Started(q)
<1>1. stage[q] \in HookStages
  BY DEF FrameInv, OnPlan
<1>2. IsRest(todo[q], plan[q].calls[call[q]][stage[q]])
  BY <1>1 DEF FrameInv, OnPlan
<1>3. IsRest(Tail(todo[q]), plan[q].calls[call[q]][stage[q]])
  <2>1. IsSequence(plan[q].calls[call[q]][stage[q]])
    BY <1>1, PlanFacts DEF FrameInv, OnPlan
  <2> QED
    BY <1>2, <2>1, RestOfRest
<1>4. plan[q].mw = mw
  BY DEF Uses
<1>5. Tail(todo[q]) # <<>> => Head(Tail(todo[q])) \in Asked(mw, stage[q])
  BY <1>1, <1>3, <1>4, RestIsAsked
<1>6. Step(q) \in Asked(mw, stage[q])
  BY <1>1, <1>4, StepIsAsked
<1>7. stage[q] = "success" => Started(q)
  BY DEF Started
<1>8. stage[q] = "before" =>
        /\ Tail(todo[q]) # <<>> => Head(Tail(todo[q])).op # mw
        /\ Step(q).op # mw => Started(q)
  BY <1>4, FirstStep
<1> QED
  BY <1>1, <1>5, <1>6, <1>7, <1>8 DEF HookStages

SawroomOps == SawroomReads \cup SawroomWrites

\* Every action of sawroom is such a step.
LEMMA SawroomEffect ==
  ASSUME SharedInv, NEW q \in Requests, Uses(q, "sawroom"), SawroomActions(q)
  PROVE  SharedSteps(q)
<1>1. FrameInv /\ FrameDoms /\ Owned(q) /\ OnShared(owner) /\ Paired(owner)
  BY DEF SharedInv, FrameInv, OnShared
<1>2. Steps(q)
  BY <1>1, SawroomActionsKeep
<1>3. todo[q] # <<>>
  BY DEF SawroomActions, StartsSawroom, ReadsSawroom, GetStateGoesOn, GetStateEnds, StartsCalls,
         ExecutesOnSawroom, StoresInSawroom, MovesTokens, CallFails, Calling, Doing, InHook
<1>4. /\ stage[q] \in HookStages
      /\ Step(q) \in Asked("sawroom", stage[q])
      /\ Tail(todo[q]) # <<>> => Head(Tail(todo[q])) \in Asked("sawroom", stage[q])
      /\ stage[q] = "before" /\ Tail(todo[q]) # <<>> => Head(Tail(todo[q])).op # "sawroom"
      /\ stage[q] = "success" \/ Step(q).op # "sawroom" => Started(q)
  BY <1>1, <1>3, CallsAreKnown DEF SharedMiddlewares
<1>5. Tail(todo[q]) # <<>> => Head(Tail(todo[q])).op \in SawroomOps
  BY <1>4, SawroomAssumption DEF SawroomOps, HookStages
<1>6. stage[q] = "success" => Step(q).op \in SawroomOps
  BY <1>4, SawroomAssumption DEF SawroomOps
<1>7. AddressAndInput \subseteq Shared /\ \A v \in Shared : Takes(q, v) <=> v \in AddressAndInput
  BY DEF AddressAndInput, Shared, Takes, Uses
<1>8. "sawroom" \notin SawroomOps
  BY DEF SawroomOps, SawroomReads, SawroomWrites
<1>9. ASSUME Started(q), UNCHANGED owner,
             NEW steps, Calls(q, steps, SawroomNeeds, owner),
             steps # <<>> => Head(steps).op \in SawroomOps
      PROVE  SharedSteps(q)
  <2>1. \A v \in AddressAndInput : Near(q, v, owner)
    BY <1>1, <1>7, <1>9 DEF Owned
  <2>2. \A u \in uses' : u \in uses \/ GoodUse(u)
    BY <1>1, <1>4, <1>9, <2>1, SawroomUses DEF SawroomOps
  <2> QED
    BY <1>1, <1>2, <1>4, <1>9, <2>2 DEF SharedSteps
<1>10. CASE StartsSawroom(q)
  <2>1. /\ owner' = [owner EXCEPT !["sawroom.input"] = q,
                                  !["sawroom.address"] = IF Step(q).address THEN q ELSE None]
        /\ Calls(q, Tail(todo[q]), SawroomNeeds, owner')
    BY <1>10 DEF StartsSawroom
  <2>2. OnShared(owner') /\ owner'["sawroom.input"] = q /\ owner'["sawroom.address"] \in {q, None}
    BY <1>1, <2>1 DEF Shared, OnShared
  <2>3. Paired(owner') /\ Took(q) /\ \A v \in AddressAndInput : Near(q, v, owner')
    BY <1>7, <2>2 DEF Paired, Took, Near, AddressAndInput
  <2>4. \A u \in uses' : u \in uses \/ GoodUse(u)
    BY <1>1, <1>4, <1>5, <2>1, <2>3, SawroomUses DEF SawroomOps
  <2>5. \A v \in Shared :
          owner'[v] \in {owner[v], q} \/ (v = "sawroom.address" /\ owner'[v] = None)
    BY <1>1, <2>1, <2>2 DEF OnShared
  <2> QED
    BY <1>2, <1>4, <2>2, <2>3, <2>4, <2>5 DEF SharedSteps
<1>11. CASE GetStateGoesOn(q) \/ CallFails(q, SawroomReads \cup SawroomWrites)
  <2>1. UNCHANGED sharedVars
    BY <1>11 DEF GetStateGoesOn, CallFails
  <2>2. todo'[q] = todo[q] \/ stage'[q] = "failed"
    BY <1>1, <1>11, BlocksGoOn DEF GetStateGoesOn, CallFails
  <2> QED
    BY <1>2, <1>4, <2>1, <2>2, NothingShared
<1>12. CASE StartsCalls(q, SawroomNeeds)
  <2>1. /\ stage[q] = "success" /\ UNCHANGED owner
        /\ Calls(q, todo[q], SawroomNeeds, owner)
    BY <1>12 DEF StartsCalls, InHook
  <2>2. Head(todo[q]).op \in SawroomOps
    BY <1>6, <2>1 DEF Step
  <2> QED
    BY <1>4, <1>9, <2>1, <2>2
<1>13. CASE \/ ReadsSawroom(q) \/ GetStateEnds(q) \/ ExecutesOnSawroom(q)
            \/ StoresInSawroom(q) \/ MovesTokens(q)
  <2>1. Step(q).op \in SawroomOps /\ CallAnswered(q, SawroomNeeds)
    BY <1>13 DEF ReadsSawroom, GetStateEnds, ExecutesOnSawroom, StoresInSawroom, MovesTokens, Calling,
                 SawroomOps, SawroomReads, SawroomWrites
  <2>2. Started(q)
    BY <1>4, <1>8, <2>1
  <2>3. UNCHANGED owner /\ Calls(q, Tail(todo[q]), SawroomNeeds, owner)
    BY <2>1 DEF CallAnswered
  <2> QED
    BY <1>5, <1>9, <2>2, <2>3
<1> QED
  BY <1>10, <1>11, <1>12, <1>13 DEF SawroomActions

\* Every action of ethereum is such a step.
LEMMA EthereumEffect ==
  ASSUME SharedInv, NEW q \in Requests, Uses(q, "ethereum"), EthereumActions(q)
  PROVE  SharedSteps(q)
<1>1. FrameInv /\ FrameDoms /\ Owned(q) /\ OnShared(owner) /\ Paired(owner)
  BY DEF SharedInv, FrameInv, OnShared
<1>2. Steps(q)
  BY <1>1, EthereumActionsKeep
<1>3. todo[q] # <<>>
  BY DEF EthereumActions, StartsEthereum, ReadsAccount, ReadsTransaction, ReadsErc20, ReadsBlock,
         ReadsBalance, ReadsTokenId, ReadsToken, BroadcastsTransaction, StartsCalls, CallFails,
         Calling, Doing, InHook
<1>4. /\ stage[q] \in HookStages
      /\ Step(q) \in Asked("ethereum", stage[q])
      /\ Tail(todo[q]) # <<>> => Head(Tail(todo[q])) \in Asked("ethereum", stage[q])
      /\ stage[q] = "before" /\ Tail(todo[q]) # <<>> => Head(Tail(todo[q])).op # "ethereum"
      /\ stage[q] = "success" \/ Step(q).op # "ethereum" => Started(q)
  BY <1>1, <1>3, CallsAreKnown DEF SharedMiddlewares
<1>5. Tail(todo[q]) # <<>> => Head(Tail(todo[q])).op \in EthereumOps
  <2>1. "broadcast" \in EthereumOps
    BY DEF EthereumOps
  <2> QED
    BY <1>4, <2>1, EthereumAssumption DEF HookStages
<1>6. stage[q] = "success" => Step(q).op \in EthereumOps
  BY <1>4, EthereumAssumption DEF EthereumOps
<1>7. /\ "ethereum.web3" \in Shared
      /\ \A v \in Shared : Takes(q, v) <=> (v = "ethereum.web3" /\ ConnectsNow(q))
  BY DEF Shared, Takes, Uses
<1>8. "ethereum" \notin EthereumOps
  BY DEF EthereumOps
<1>9. ASSUME Started(q), UNCHANGED owner,
             NEW steps, Calls(q, steps, EthereumNeeds, owner),
             steps # <<>> => Head(steps).op \in EthereumOps
      PROVE  SharedSteps(q)
  <2>1. ConnectsNow(q) => Near(q, "ethereum.web3", owner)
    BY <1>1, <1>7, <1>9 DEF Owned
  <2>2. \A u \in uses' : u \in uses \/ GoodUse(u)
    BY <1>1, <1>4, <1>7, <1>9, <2>1, EthereumUses DEF SharedInv
  <2> QED
    BY <1>1, <1>2, <1>4, <1>9, <2>2 DEF SharedSteps
<1>10. CASE StartsEthereum(q)
  <2>1. /\ stage[q] = "before" /\ Step(q).op = "ethereum"
        /\ IF Step(q).connect THEN Set(q, {"ethereum.web3"}) ELSE UNCHANGED owner
        /\ Calls(q, Tail(todo[q]), EthereumNeeds, owner')
    BY <1>10 DEF StartsEthereum, Doing, InHook
  <2>2. OnShared(owner') /\ Paired(owner') /\ \A v \in Shared : owner'[v] \in {owner[v], q}
    BY <1>1, <2>1, SettingTakes
  <2>3. ConnectsNow(q) => Step(q).connect
    <3>1. /\ Step(q) = Before(q)[1]
          /\ \A i \in DOMAIN Before(q) : Before(q)[i].op = "ethereum" => i = 1
      BY <1>1, <1>3, <2>1, FirstStep DEF Uses, SharedMiddlewares
    <3> QED
      BY <3>1 DEF ConnectsNow, Connects, Before
  <2>4. ConnectsNow(q) => owner'["ethereum.web3"] = q
    BY <2>1, <2>3, SettingTakes
  <2>5. Took(q) /\ (ConnectsNow(q) => Near(q, "ethereum.web3", owner'))
    BY <1>7, <2>4 DEF Took, Near
  <2>6. \A u \in uses' : u \in uses \/ GoodUse(u)
    BY <1>1, <1>4, <1>5, <1>7, <2>1, <2>2, <2>5, EthereumUses DEF SharedInv
  <2> QED
    BY <1>2, <1>4, <2>2, <2>5, <2>6 DEF SharedSteps
<1>11. CASE UNCHANGED sharedVars /\ stage'[q] = "failed"
  BY <1>2, <1>4, <1>11, NothingShared
<1>12. CASE StartsCalls(q, EthereumNeeds)
  <2>1. /\ stage[q] = "success" /\ UNCHANGED owner
        /\ Calls(q, todo[q], EthereumNeeds, owner)
    BY <1>12 DEF StartsCalls, InHook
  <2>2. Head(todo[q]).op \in EthereumOps
    BY <1>6, <2>1 DEF Step
  <2> QED
    BY <1>4, <1>9, <2>1, <2>2
<1>13. CASE Step(q).op \in EthereumOps /\ CallAnswered(q, EthereumNeeds)
  <2>1. Started(q)
    BY <1>4, <1>8, <1>13
  <2>2. UNCHANGED owner /\ Calls(q, Tail(todo[q]), EthereumNeeds, owner)
    BY <1>13 DEF CallAnswered
  <2> QED
    BY <1>5, <1>9, <2>1, <2>2
<1>14. AnswerRefused(q) => UNCHANGED sharedVars /\ stage'[q] = "failed"
  BY <1>1, BlocksGoOn DEF AnswerRefused
<1>15. CallFails(q, EthereumOps) => UNCHANGED sharedVars /\ stage'[q] = "failed"
  BY <1>1, BlocksGoOn DEF CallFails
<1>16. CASE \/ ReadsAccount(q) \/ ReadsTransaction(q) \/ ReadsErc20(q) \/ ReadsBlock(q)
            \/ ReadsBalance(q) \/ ReadsTokenId(q) \/ ReadsToken(q) \/ BroadcastsTransaction(q)
  <2>1. Step(q).op \in EthereumOps /\ (CallAnswered(q, EthereumNeeds) \/ AnswerRefused(q))
    BY <1>16 DEF ReadsAccount, ReadsTransaction, ReadsErc20, ReadsBlock, ReadsBalance, ReadsTokenId,
                 ReadsToken, BroadcastsTransaction, Calling, EthereumOps
  <2> QED
    BY <1>11, <1>13, <1>14, <2>1
<1> QED
  BY <1>10, <1>11, <1>12, <1>15, <1>16 DEF EthereumActions

\* A step of one of these middlewares preserves the invariant: whoever sets a
\* variable has met all requests that have started.
LEMMA SharedOwnStep ==
  ASSUME SharedInv, FrameInv', NEW q \in Requests, SharedSteps(q)
  PROVE  SharedInv'
<1>1. /\ FrameInv /\ plan' = plan /\ call' = call /\ met' = met /\ stage[q] \in HookStages
      /\ \A r \in Requests \ {q} : stage'[r] = stage[r] /\ todo'[r] = todo[r]
      /\ stage'[q] = stage[q] \/ stage'[q] = "failed"
  BY DEF SharedInv, SharedSteps, Steps, Works, Kept
<1>2. owner' \in [Shared -> Requests \cup {None}] /\ Paired(owner')
  <2>1. \A v \in Shared : owner'[v] \in Requests \cup {None}
    BY DEF SharedInv, SharedSteps
  <2>2. owner' = [v \in Shared |-> owner'[v]]
    BY DEF SharedSteps, OnShared
  <2> QED
    BY <2>1, <2>2 DEF SharedSteps
<1>3. \A u \in uses' : GoodUse(u)'
  <2>1. \A u : GoodUse(u)' <=> GoodUse(u)
    BY <1>1 DEF GoodUse, Connects
  <2> QED
    BY <2>1 DEF SharedInv, SharedSteps
<1>4. \A r, v : Takes(r, v)' <=> Takes(r, v)
  BY <1>1 DEF Takes, Uses, ConnectsNow, Connects
<1>5. ASSUME NEW r \in Requests PROVE Met(r)'
  <2>1. Met(r)
    BY DEF SharedInv
  <2>2. \A p \in Requests : stage'[p] \in HookStages => stage[p] \in HookStages
    BY <1>1 DEF HookStages
  <2> QED
    BY <1>1, <2>1, <2>2 DEF Met
<1>6. ASSUME NEW r \in Requests PROVE Owned(r)'
  <2> SUFFICES ASSUME Started(r)', NEW v \in Shared, Takes(r, v)
               PROVE  Near(r, v, owner')
    BY <1>1, <1>4 DEF Owned, Near
  <2>1. Near(r, v, owner) /\ q \in {r} \cup met[r] => Near(r, v, owner')
    BY DEF Near, SharedSteps
  <2>2. CASE r # q
    <3>1. Started(r)
      BY <1>1, <2>2 DEF Started, Before
    <3>2. q \in met[r]
      BY <1>1, <2>2, <3>1 DEF Started, SharedInv, Met, HookStages
    <3> QED
      BY <2>1, <3>1, <3>2 DEF SharedInv, Owned
  <2>3. CASE r = q
    <3>1. CASE Started(q)
      BY <2>1, <2>3, <3>1 DEF SharedInv, Owned
    <3>2. CASE Took(q)
      BY <2>3, <3>2 DEF Took, Near
    <3>3. CASE todo'[q] = todo[q] /\ stage'[q] = stage[q]
      <4>1. Started(q)
        BY <1>1, <2>3, <3>3 DEF Started, Before
      <4> QED
        BY <3>1, <4>1
    <3>4. stage'[q] # "failed"
      BY <2>3 DEF Started
    <3> QED
      BY <1>1, <3>1, <3>2, <3>3, <3>4 DEF SharedSteps
  <2> QED
    BY <2>2, <2>3
<1> QED
  BY <1>2, <1>3, <1>5, <1>6 DEF SharedInv

\* So does a step of callRestroom: a request that comes meets all that are there.
LEMMA SharedKeptByRequests ==
  ASSUME SharedInv, FrameInv', RequestsNext, UNCHANGED sharedVars
  PROVE  SharedInv'
<1> PICK q \in Requests : RequestStep(q)
  BY DEF RequestsNext, RequestStep
<1>1. /\ FrameInv /\ FrameDoms /\ plan' = plan /\ owner' = owner /\ uses' = uses
      /\ \A r \in Requests \ {q} : stage'[r] = stage[r] /\ todo'[r] = todo[r] /\ call'[r] = call[r]
      /\ DOMAIN met = Requests
  BY RequestStepKeeps DEF SharedInv, FrameInv, sharedVars, Kept
<1>2. \A u \in uses' : GoodUse(u)'
  <2>1. \A u : GoodUse(u)' <=> GoodUse(u)
    BY <1>1 DEF GoodUse, Connects
  <2> QED
    BY <1>1, <2>1 DEF SharedInv
<1>3. CASE EnterBefore(q)
  <2> DEFINE active == {p \in Requests : stage[p] \in {"before", "success"}}
  <2>1. /\ stage[q] = "waiting" /\ stage'[q] = "before" /\ call'[q] = call[q] + 1
        /\ todo'[q] = plan[q].calls[call[q] + 1].before
        /\ met' = [p \in Requests |-> IF p = q THEN active
                                      ELSE IF p \in active THEN met[p] \cup {q} ELSE met[p]]
    BY <1>1, <1>3 DEF EnterBefore, FrameDoms
  <2>2. ASSUME NEW r \in Requests PROVE Met(r)'
    <3> SUFFICES ASSUME NEW p \in Requests, p # r, stage'[r] \in HookStages, stage'[p] \in HookStages
                 PROVE  p \in met'[r]
      BY DEF Met
    <3>1. \A x \in Requests : x # q /\ stage'[x] \in HookStages => x \in active
      BY <1>1 DEF HookStages
    <3>2. CASE r = q
      BY <2>1, <3>1, <3>2
    <3>3. CASE r # q /\ p = q
      BY <2>1, <3>1, <3>3
    <3>4. CASE r # q /\ p # q
      <4>1. p \in met[r]
        BY <1>1, <3>4 DEF SharedInv, Met
      <4> QED
        BY <2>1, <3>4, <4>1
    <3> QED
      BY <3>2, <3>3, <3>4
  <2>3. ASSUME NEW r \in Requests PROVE Owned(r)'
    <3>1. CASE r = q
      <4>1. todo'[q] = Before(q)'
        BY <1>1, <2>1 DEF Before
      <4>2. FrameInv' /\ stage'[q] = "before"
        BY <2>1
      <4>3. Len(todo'[q]) \in Nat
        BY <4>2, SequenceFacts DEF FrameInv, OnPlan, IsRest, HookStages
      <4>4. ~(Len(todo'[q]) < Len(Before(q)'))
        BY <4>1, <4>3
      <4>5. ~Started(q)'
        BY <4>2, <4>4 DEF Started
      <4> QED
        BY <3>1, <4>5 DEF Owned
    <3>2. CASE r # q
      <4>1. met[r] \subseteq met'[r]
        BY <2>1, <3>2
      <4>2. Started(r)' => Started(r)
        BY <1>1, <3>2 DEF Started, Before
      <4>3. \A v : Takes(r, v)' => Takes(r, v)
        <5>1. plan' = plan /\ call'[r] = call[r]
          BY <1>1, <3>2
        <5>2. ConnectsNow(r)' <=> ConnectsNow(r)
          BY <5>1 DEF ConnectsNow, Connects
        <5>3. \A mw : Uses(r, mw)' <=> Uses(r, mw)
          BY <5>1 DEF Uses
        <5> QED
          BY <5>2, <5>3 DEF Takes
      <4> QED
        BY <1>1, <4>1, <4>2, <4>3 DEF SharedInv, Owned, Near
    <3> QED
      BY <3>1, <3>2
  <2> QED
    BY <1>1, <1>2, <2>2, <2>3 DEF SharedInv
<1>4. CASE ~EnterBefore(q)
  <2>1. met' = met /\ call' = call
    BY <1>4 DEF RequestStep, DataIsMalformed, ZenroomRuns, ZenroomRejects, SuccessEnds, Reject, Fail
  <2>2. \/ stage'[q] \notin HookStages
        \/ stage[q] = "before" /\ todo[q] = <<>> /\ stage'[q] = "success"
    BY <1>1, <1>4 DEF RequestStep, DataIsMalformed, ZenroomRuns, ZenroomRejects, SuccessEnds, Reject,
                      Fail, FrameDoms, HookStages
  <2>3. \A p \in Requests : stage'[p] \in HookStages => stage[p] \in HookStages
    BY <1>1, <2>2 DEF HookStages
  <2>4. \A r \in Requests : Met(r)'
    BY <2>1, <2>3 DEF SharedInv, Met
  <2>5. ASSUME NEW r \in Requests PROVE Owned(r)'
    <3> SUFFICES ASSUME Started(r)', NEW v \in Shared, Takes(r, v)
                 PROVE  Near(r, v, owner)
      BY <1>1, <2>1 DEF Owned, Near, Takes, Uses, ConnectsNow, Connects
    <3>1. Started(r)
      <4>1. CASE r # q
        BY <1>1, <4>1 DEF Started, Before
      <4>2. CASE r = q
        <5>1. stage[q] = "before" /\ todo[q] = <<>>
          BY <2>2, <4>2 DEF Started, HookStages
        <5>2. plan[q].mw \in SharedMiddlewares
          BY <4>2 DEF Takes, Uses, SharedMiddlewares
        <5> QED
          BY <1>1, <4>2, <5>1, <5>2, FirstStep
      <4> QED
        BY <4>1, <4>2
    <3> QED
      BY <3>1 DEF SharedInv, Owned
  <2> QED
    BY <1>1, <1>2, <2>4, <2>5 DEF SharedInv
<1> QED
  BY <1>3, <1>4

\* So does a step of any other middleware.
LEMMA SharedElsewhere ==
  ASSUME SharedInv, FrameInv', UNCHANGED sharedVars,
         \A mw \in SharedMiddlewares : StepElsewhere(mw)
  PROVE  SharedInv'
<1>1. /\ FrameInv /\ plan' = plan /\ call' = call /\ met' = met /\ owner' = owner /\ uses' = uses
      /\ \A r \in Requests : stage'[r] = stage[r] \/ stage'[r] = "failed"
  <2>1. StepElsewhere("files")
    BY DEF SharedMiddlewares
  <2> QED
    BY <2>1 DEF SharedInv, sharedVars, StepElsewhere, Steps, Works, Kept, frame
<1>2. \A u \in uses' : GoodUse(u)'
  <2>1. \A u : GoodUse(u)' <=> GoodUse(u)
    BY <1>1 DEF GoodUse, Connects
  <2> QED
    BY <1>1, <2>1 DEF SharedInv
<1>3. \A r \in Requests : Met(r)'
  <2>1. \A p \in Requests : stage'[p] \in HookStages => stage[p] \in HookStages
    BY <1>1 DEF HookStages
  <2> QED
    BY <1>1, <2>1 DEF SharedInv, Met
<1>4. ASSUME NEW r \in Requests PROVE Owned(r)'
  <2> SUFFICES ASSUME Started(r)', NEW v \in Shared, Takes(r, v)
               PROVE  Near(r, v, owner)
    BY <1>1 DEF Owned, Near, Takes, Uses, ConnectsNow, Connects
  <2>1. PICK mw \in SharedMiddlewares : Uses(r, mw)
    BY DEF Takes, SharedMiddlewares
  <2>2. stage'[r] = stage[r] /\ todo'[r] = todo[r]
    BY <2>1 DEF StepElsewhere, Steps, Works, Kept, frame
  <2>3. Started(r)
    BY <1>1, <2>2 DEF Started, Before
  <2> QED
    BY <2>3 DEF SharedInv, Owned
<1> QED
  BY <1>1, <1>2, <1>3, <1>4 DEF SharedInv

\* Every step of the composed system preserves the invariant.
LEMMA SharedInvStep == SharedInv /\ [Next]_vars => SharedInv'
<1> SUFFICES ASSUME SharedInv, [Next]_vars PROVE SharedInv'
  OBVIOUS
<1>1. FrameInv'
  BY FrameInvStep DEF SharedInv
<1>2. \/ FilesNext \/ LoggerNext \/ SawroomNext \/ EthereumNext
      \/ \A mw \in SharedMiddlewares : Foreign(mw, sharedVars)
  BY ForeignSteps DEF SharedInv, FrameInv, SharedMiddlewares
<1>3. CASE FilesNext \/ LoggerNext \/ SawroomNext \/ EthereumNext
  <2>1. \E q \in Requests : SharedSteps(q)
    BY <1>3, FilesEffect, LoggerEffect, SawroomEffect, EthereumEffect
    DEF FilesNext, FilesActions, LoggerNext, LoggerActions, SawroomNext, SawroomActions,
        EthereumNext, EthereumActions
  <2> QED
    BY <1>1, <2>1, SharedOwnStep
<1>4. CASE \A mw \in SharedMiddlewares : Foreign(mw, sharedVars)
  <2>1. UNCHANGED sharedVars
    BY <1>4 DEF Foreign, SharedMiddlewares
  <2>2. RequestsNext \/ \A mw \in SharedMiddlewares : StepElsewhere(mw)
    BY <1>4 DEF Foreign
  <2> QED
    BY <1>1, <2>1, <2>2, SharedKeptByRequests, SharedElsewhere
<1> QED
  BY <1>2, <1>3, <1>4

\* sawroom sends what it takes from the shared input to the address that came
\* with that input, whichever requests overlap: for any requests and plans.
THEOREM InputsReachTheirAddress == Spec => []InputGoesToItsAddress
<1>1. SharedInv => InputGoesToItsAddress
  BY DEF SharedInv, GoodUse, InputGoesToItsAddress
<1> QED
  BY <1>1, SharedInvInit, SharedInvStep, PTL DEF Spec

\* Requests that never meet do not use each other's values: for any requests
\* and plans.
THEOREM SequentialRequestsDoNotMix == Spec => []SequentialRequestsAreIsolated
<1>1. SharedInv => SequentialRequestsAreIsolated
  BY DEF SharedInv, GoodUse, SequentialRequestsAreIsolated
<1> QED
  BY <1>1, SharedInvInit, SharedInvStep, PTL DEF Spec

-----------------------------------------------------------------------------
(* The types of all variables. *)

\* A step of a middleware, or one that leaves its variables alone.
LEMMA OwnOrForeign ==
  ASSUME FrameInv, [Next]_vars
  PROVE  /\ RedisNext \/ UNCHANGED redisVars
         /\ DbNext \/ UNCHANGED dbVars
         /\ FabricNext \/ UNCHANGED fabricVars
         /\ GitNext \/ UNCHANGED gitVars
         /\ InfluxdbNext \/ UNCHANGED fluxClient
BY ForeignSteps DEF FrameInv, Foreign

\* What redis remembers of numbers and objects.
RedisHistory ==
  /\ \A d \in drawn : d[1] \in Servers /\ d[2] \in Keys /\ d[3] \in Requests
  /\ \A o \in objects : o[1] \in Requests /\ o[3] \in Keys

\* It stays so: commands go to a server there is, with keys there are.
LEMMA RedisHistoryStep ==
  ASSUME RedisInv, RedisHistory, [Next]_vars
  PROVE  RedisHistory'
<1>1. FrameInv /\ RedisDoms
  BY DEF RedisInv
<1>2. CASE UNCHANGED redisVars
  BY <1>2 DEF RedisHistory, redisVars
<1>3. ASSUME NEW q \in Requests, Uses(q, "redis"), RedisActions(q)
      PROVE  RedisHistory'
  <2>1. RedisSteps(q)
    BY <1>3, RedisEffect
  <2>2. \A o \in objects' : o[1] \in Requests /\ o[3] \in Keys
    BY <2>1 DEF RedisSteps, WritesObject, RedisHistory
  <2>3. ASSUME NEW d \in drawn', d \notin drawn
        PROVE  d[1] \in Servers /\ d[2] \in Keys /\ d[3] \in Requests
    <3>1. \/ ConnectsTo(q) \/ OpensClient(q) \/ CommandFails(q)
          \/ SetsEmpty(q) \/ Gets(q) \/ GetsKeysContaining(q) \/ Increments(q)
          \/ SetsOutput(q) \/ SetsObjects(q) \/ Deletes(q)
      BY <1>3 DEF RedisActions
    <3>2. Increments(q) /\ \E n : d = <<client[q], Step(q).key, q, n>>
      BY <2>3, <3>1 DEF ConnectsTo, OpensClient, CommandFails, SetsEmpty, Gets, GetsKeysContaining,
           Increments, SetsOutput, SetsObjects, SetsObject, Deletes, Write, redisVars
    <3>3. client[q] \in Servers /\ Step(q).key \in Keys
      BY <1>1, <1>3, <3>2, RedisStepIsPlanned DEF Increments, Command, Doing, InHook, RedisDoms
    <3> QED
      BY <3>2, <3>3
  <2> QED
    BY <2>2, <2>3 DEF RedisHistory
<1> QED
  BY <1>1, <1>2, <1>3, OwnOrForeign DEF RedisNext, RedisActions, ConnectionBreaks

\* A turn of the loop over the queries of db.
LEMMA NextQueryTypes ==
  ASSUME DbTypeOK, NEW q \in Requests, NEW i, NEW kept \in SUBSET open, NextQuery(q, i, kept)
  PROVE  /\ DOMAIN binding' = {"conn", "place"} /\ opened' \in [Requests -> Nat]
         /\ \A c \in open' : c[1] \in Requests /\ c[2] \in 1..opened'[c[1]]
<1>1. CASE open' = kept /\ UNCHANGED <<binding, opened>>
  BY <1>1 DEF DbTypeOK
<1>2. CASE Bind(q, Step(q).queries[i].place, kept)
  <2>1. /\ opened' = [opened EXCEPT ![q] = @ + 1]
        /\ open' = kept \cup {<<q, opened[q] + 1>>}
        /\ binding' = [conn |-> <<q, opened[q] + 1>>, place |-> Step(q).queries[i].place]
    BY <1>2 DEF Bind
  <2>2. opened' \in [Requests -> Nat] /\ \A r \in Requests : opened'[r] >= opened[r]
    BY <2>1 DEF DbTypeOK
  <2>3. opened'[q] = opened[q] + 1 /\ opened[q] \in Nat
    BY <2>1 DEF DbTypeOK
  <2>4. \A c \in open' : c[1] \in Requests /\ c[2] \in 1..opened'[c[1]]
    BY <2>1, <2>2, <2>3 DEF DbTypeOK
  <2> QED
    BY <2>1, <2>2, <2>4
<1> QED
  BY <1>1, <1>2 DEF NextQuery

\* The variables of db keep their types.
LEMMA DbTypesStep ==
  ASSUME DbInv, DbTypeOK, [Next]_vars
  PROVE  DbTypeOK'
<1>1. FrameInv /\ DOMAIN sql = Requests
  BY DEF DbInv, DbParts
<1>2. CASE UNCHANGED dbVars
  BY <1>2 DEF DbTypeOK, dbVars
<1>3. ASSUME NEW q \in Requests, Uses(q, "db"),
             \/ Validates(q) \/ Accesses(q) \/ AccessFails(q) \/ CloseFails(q) \/ StartsSql(q)
             \/ SqlDone(q)
             \/ \E i \in DOMAIN sql[q] : SqlExecutes(q, i) \/ SqlCommits(q, i) \/ SqlFails(q, i)
      PROVE  DbTypeOK'
  <2>1. CASE Validates(q) \/ Accesses(q)
    <3>1. sql' = sql
      BY <2>1 DEF Validates, Accesses
    <3>2. \/ UNCHANGED <<binding, opened, open>>
          \/ \E i : \E kept \in SUBSET open : NextQuery(q, i, kept)
      BY <2>1 DEF Validates, Accesses
    <3> QED
      BY <3>1, <3>2, NextQueryTypes DEF DbTypeOK
  <2>2. CASE StartsSql(q)
    <3> DEFINE n == Len(Step(q).names)
    <3>1. Step(q) \in Asked("db", "before") /\ Step(q).op = "sql"
      BY <1>1, <1>3, <2>2, StepIsAsked DEF StartsSql, Doing, InHook, HookStages, Uses
    <3>2. n \in Nat
      BY <3>1, DbAssumption, SequenceFacts
    <3>3. /\ sql' = [sql EXCEPT ![q] = [i \in 1..n |-> "begun"]]
          /\ opened' = [opened EXCEPT ![q] = @ + n]
          /\ open' = open \cup {<<q, opened[q] + i>> : i \in 1..n}
          /\ binding' = binding
      BY <2>2 DEF StartsSql
    <3> HIDE DEF n
    <3>4. opened' \in [Requests -> Nat] /\ opened'[q] = opened[q] + n /\ opened[q] \in Nat
          /\ \A r \in Requests : opened'[r] >= opened[r] /\ opened[r] \in Nat
      BY <3>2, <3>3 DEF DbTypeOK
    <3>5. \A i \in 1..n : opened[q] + i \in 1..opened'[q]
      BY <3>2, <3>4
    <3>6. \A c \in open' : c[1] \in Requests /\ c[2] \in 1..opened'[c[1]]
      BY <3>3, <3>4, <3>5 DEF DbTypeOK
    <3>7. \A r \in Requests : \A i \in DOMAIN sql'[r] :
             sql'[r][i] \in {"begun", "executed", "committed", "failed"}
      BY <1>1, <3>3 DEF DbTypeOK
    <3> QED
      BY <3>3, <3>4, <3>6, <3>7 DEF DbTypeOK
  <2>3. CASE AccessFails(q) \/ CloseFails(q) \/ SqlDone(q)
    BY <1>2, <2>3 DEF AccessFails, CloseFails, SqlDone
  <2>4. CASE \E i \in DOMAIN sql[q] : SqlExecutes(q, i) \/ SqlCommits(q, i) \/ SqlFails(q, i)
    <3>1. PICK i \in DOMAIN sql[q] : \E s \in {"executed", "committed", "failed"} :
            sql' = [sql EXCEPT ![q][i] = s] /\ UNCHANGED <<binding, opened, open>>
      BY <2>4 DEF SqlExecutes, SqlCommits, SqlFails
    <3>2. \A r \in Requests : \A j \in DOMAIN sql'[r] :
             sql'[r][j] \in {"begun", "executed", "committed", "failed"}
      BY <1>1, <3>1 DEF DbTypeOK
    <3> QED
      BY <3>1, <3>2 DEF DbTypeOK
  <2> QED
    BY <1>3, <2>1, <2>2, <2>3, <2>4
<1> QED
  BY <1>1, <1>2, <1>3, OwnOrForeign DEF DbNext

\* The attempts that have failed are among those that are over, or the one that
\* has just ended is another.
FabricCounts ==
  /\ count \in [Requests -> 0..(NUM_RETRY - 1)] /\ errors \in [Requests -> 0..NUM_RETRY]
  /\ \A r \in Requests : Uses(r, "fabric") =>
       /\ at[r] = 1 => errors[r] <= count[r]
       /\ at[r] = 2 => errors[r] <= count[r] + 1
  /\ input \in Requests \cup {None}
  /\ cutOff \subseteq committed /\ \A s \in committed : s[1] \in Requests /\ s[4] \in 0..(NUM_RETRY - 1)

\* The counters of one request that starts an attempt.
LEMMA AttemptCounts ==
  ASSUME FabricCounts, FrameDoms, NEW q \in Requests, NEW step,
         NEW tried \in 0..(NUM_RETRY - 1), NEW failed \in 0..NUM_RETRY, failed <= tried,
         Attempts(q, step, tried, failed)
  PROVE  /\ count' \in [Requests -> 0..(NUM_RETRY - 1)] /\ errors' \in [Requests -> 0..NUM_RETRY]
         /\ \A r \in Requests \ {q} :
              count'[r] = count[r] /\ errors'[r] = errors[r] /\ at'[r] = at[r]
         /\ at'[q] = 1 => errors'[q] <= count'[q]
         /\ at'[q] = 2 => errors'[q] <= count'[q] + 1
<1>1. PICK one \in {0, 1} :
        /\ count' = [count EXCEPT ![q] = tried]
        /\ errors' = [errors EXCEPT ![q] = failed + one]
        /\ at' = [at EXCEPT ![q] = one + 1]
  <2> DEFINE fails == \/ step.op # "elsewhere" /\ conn'.contract = <<>>
                      \/ step.op \in {"retrieve", "store"} /\ Missing(Contract, conn')
  <2>1. /\ count' = [count EXCEPT ![q] = tried]
        /\ errors' = [errors EXCEPT ![q] = failed + (IF fails THEN 1 ELSE 0)]
        /\ at' = [at EXCEPT ![q] = IF fails THEN 2 ELSE 1]
    BY DEF Attempts
  <2> HIDE DEF fails
  <2>2. CASE fails
    BY <2>1, <2>2
  <2>3. CASE ~fails
    BY <2>1, <2>3
  <2> QED
    BY <2>2, <2>3
<1>2. failed + one \in 0..NUM_RETRY /\ failed + one <= tried + one
  BY DEF NUM_RETRY
<1>3. count \in [Requests -> 0..(NUM_RETRY - 1)] /\ errors \in [Requests -> 0..NUM_RETRY]
      /\ at \in [Requests -> Nat]
  BY DEF FabricCounts, FrameDoms
<1>4. count'[q] = tried /\ errors'[q] = failed + one /\ at'[q] = one + 1
  BY <1>1, <1>3
<1> QED
  BY <1>1, <1>2, <1>3, <1>4


\* What a step of fabric does to the counters.
CountsStay(q) ==
  /\ count' \in [Requests -> 0..(NUM_RETRY - 1)] /\ errors' \in [Requests -> 0..NUM_RETRY]
  /\ \A r \in Requests \ {q} : count'[r] = count[r] /\ errors'[r] = errors[r]
  /\ at'[q] = 1 => errors'[q] <= count'[q]
  /\ at'[q] = 2 => errors'[q] <= count'[q] + 1

\* Each action of fabric keeps them in step.
LEMMA FabricActionCounts ==
  ASSUME FabricCounts, FrameInv, NEW q \in Requests, Uses(q, "fabric"), FabricActions(q)
  PROVE  CountsStay(q)
<1>1. /\ FrameDoms
      /\ count \in [Requests -> 0..(NUM_RETRY - 1)] /\ errors \in [Requests -> 0..NUM_RETRY]
      /\ at[q] = 1 => errors[q] <= count[q]
      /\ at[q] = 2 => errors[q] <= count[q] + 1
  BY DEF FabricCounts, FrameInv
<1>2. at \in [Requests -> Nat]
  BY <1>1 DEF FrameDoms
<1>3. CASE at'[q] = 0 /\ UNCHANGED <<count, errors>>
  BY <1>1, <1>3 DEF CountsStay
<1>4. \A why : RejectCall(q, why) => at'[q] = 0 /\ UNCHANGED <<count, errors>>
  BY <1>2 DEF RejectCall, Reject, Fail
<1>5. ASSUME NEW rest, GoesOn(q, rest) PROVE CountsStay(q)
  <2>1. CASE rest = <<>>
    <3>1. at'[q] = 0 /\ UNCHANGED <<count, errors>>
      BY <1>2, <1>5, <2>1 DEF GoesOn
    <3> QED
      BY <1>3, <3>1
  <2>2. CASE rest # <<>>
    <3>1. Attempts(q, Head(rest), 0, 0)
      BY <1>5, <2>2 DEF GoesOn
    <3>2. 0 \in 0..(NUM_RETRY - 1) /\ 0 \in 0..NUM_RETRY
      BY DEF NUM_RETRY
    <3> QED
      BY <1>1, <3>1, <3>2, AttemptCounts DEF CountsStay
  <2> QED
    BY <2>1, <2>2
<1>6. CASE AttemptFails(q)
  <2>1. at[q] = 1 /\ at'[q] = 2 /\ count' = count /\ errors' = [errors EXCEPT ![q] = @ + 1]
    BY <1>2, <1>6 DEF AttemptFails, Await
  <2>2. errors[q] + 1 \in 0..NUM_RETRY /\ errors[q] + 1 <= count[q] + 1
    BY <1>1, <2>1 DEF NUM_RETRY
  <2> QED
    BY <1>1, <2>1, <2>2 DEF CountsStay
<1>7. CASE at[q] = 2 /\ count[q] + 1 # NUM_RETRY /\ Attempts(q, Step(q), count[q] + 1, errors[q])
  <2>1. count[q] + 1 \in 0..(NUM_RETRY - 1) /\ errors[q] <= count[q] + 1 /\ errors[q] \in 0..NUM_RETRY
    BY <1>1, <1>7 DEF NUM_RETRY
  <2> QED
    BY <1>1, <1>7, <2>1, AttemptCounts DEF CountsStay
<1>8. \/ AttemptFails(q) \/ (\E why : RejectCall(q, why)) \/ (\E rest : GoesOn(q, rest))
      \/ at[q] = 2 /\ count[q] + 1 # NUM_RETRY /\ Attempts(q, Step(q), count[q] + 1, errors[q])
  BY DEF FabricActions, Configures, ConfigurationFails, StartsSuccess, AttemptSucceeds, Wakes
<1> QED
  BY <1>3, <1>4, <1>5, <1>6, <1>7, <1>8

\* The types of fabric, but for the connection.
LEMMA FabricCountsStep ==
  ASSUME FabricInv, FabricCounts, [Next]_vars
  PROVE  FabricCounts'
<1>1. FrameInv /\ FrameDoms /\ plan' = plan
  BY PlanIsKept DEF FabricInv, FrameInv
<1>2. \A r : Uses(r, "fabric")' <=> Uses(r, "fabric")
  BY <1>1 DEF Uses
<1>3. CASE Foreign("fabric", fabricVars)
  <2>1. ASSUME NEW r \in Requests, Uses(r, "fabric") PROVE at'[r] \in {at[r], 0}
    <3>1. CASE RequestsNext
      <4>1. at' = at \/ \E q \in Requests : at' = [at EXCEPT ![q] = 0]
        BY <3>1 DEF RequestsNext, EnterBefore, DataIsMalformed, ZenroomRuns, ZenroomRejects,
             SuccessEnds, Reject, Fail
      <4> QED
        BY <1>1, <4>1 DEF FrameDoms
    <3>2. CASE StepElsewhere("fabric")
      BY <2>1, <3>2 DEF StepElsewhere, Steps, Works, Kept, frame
    <3> QED
      BY <1>3, <3>1, <3>2 DEF Foreign
  <2> QED
    BY <1>2, <1>3, <2>1 DEF FabricCounts, Foreign, fabricVars
<1>4. ASSUME NEW q \in Requests, Uses(q, "fabric"), FabricActions(q) PROVE FabricCounts'
  <2>1. CountsStay(q) /\ Steps(q)
    BY <1>1, <1>4, FabricActionCounts, FabricActionsKeep
  <2>2. \A r \in Requests : Uses(r, "fabric") =>
          /\ at'[r] = 1 => errors'[r] <= count'[r]
          /\ at'[r] = 2 => errors'[r] <= count'[r] + 1
    BY <2>1 DEF FabricCounts, CountsStay, Steps, Works, Kept
  <2>3. input' \in {input, q}
    BY <1>4 DEF FabricActions, Configures, ConfigurationFails, StartsSuccess, AttemptSucceeds,
         AttemptFails, Wakes
  <2>4. /\ committed' \in {committed, committed \cup {Submission(q)}}
        /\ cutOff' = cutOff \/ (cutOff' = cutOff \cup {Submission(q)} /\ Submission(q) \in committed')
    BY <1>4 DEF FabricActions, Configures, ConfigurationFails, StartsSuccess, AttemptSucceeds,
         AttemptFails, Wakes
  <2>5. Submission(q)[1] = q /\ Submission(q)[4] \in 0..(NUM_RETRY - 1)
    BY DEF Submission, FabricCounts
  <2>6. cutOff' \subseteq committed' /\ \A s \in committed' : s[1] \in Requests /\ s[4] \in 0..(NUM_RETRY - 1)
    BY <2>4, <2>5 DEF FabricCounts
  <2> QED
    BY <1>2, <2>1, <2>2, <2>3, <2>6 DEF FabricCounts, CountsStay
<1> QED
  BY <1>1, <1>3, <1>4, ForeignSteps DEF FabricNext, FabricActions

\* The types of git and influxdb.
LEMMA GitTypesStep ==
  ASSUME FrameInv, GitTypeOK, [Next]_vars
  PROVE  GitTypeOK'
<1>1. CASE UNCHANGED gitVars
  BY <1>1 DEF GitTypeOK, gitVars
<1>2. ASSUME NEW q \in Requests,
             \/ Clones(q) \/ Verifies(q) \/ StartsCommit(q) \/ Commits(q)
             \/ \E f \in adding[q] : Adds(q, f) \/ AddFails(q, f)
      PROVE  GitTypeOK'
  BY <1>2 DEF GitTypeOK, Clones, Verifies, StartsCommit, Commits, Adds, AddFails, Of, gitVars
<1> QED
  BY <1>1, <1>2, OwnOrForeign DEF GitNext

LEMMA InfluxdbTypesStep ==
  ASSUME FrameInv, InfluxdbTypeOK, [Next]_vars
  PROVE  InfluxdbTypeOK'
<1>1. call \in [Requests -> Nat]
  BY DEF FrameInv, FrameDoms
<1>2. CASE InfluxdbNext
  BY <1>1, <1>2 DEF InfluxdbNext, InfluxdbTypeOK, FluxConnects, FluxHasNoClient, FluxQueries,
       FluxRowsRead, FluxFails
<1> QED
  BY <1>2, OwnOrForeign DEF InfluxdbTypeOK

\* All that the types rest on.
TypesInv ==
  /\ RedisInv /\ RedisHistory /\ DbInv /\ DbTypeOK /\ FabricInv /\ FabricCounts /\ LinkedInv
  /\ PlanetmintInv /\ HttpInv /\ IdentityInv /\ SharedInv /\ GitTypeOK /\ InfluxdbTypeOK

LEMMA TypesInvInit == Init => TypesInv
<1> SUFFICES ASSUME Init PROVE TypesInv
  OBVIOUS
<1>1. /\ RedisInv /\ DbInv /\ FabricInv /\ PlanetmintInv /\ HttpInv /\ IdentityInv /\ SharedInv
      /\ FrameInv
  BY RedisInvInit, DbInvInit, FabricInvInit, PlanetmintInvInit, HttpInvInit, IdentityInvInit,
     SharedInvInit, FrameInvInit
<1>2. RedisHistory
  BY DEF Init, RedisInit, RedisHistory
<1>3. DbTypeOK
  BY DEF Init, DbInit, DbTypeOK
<1>4. FabricCounts
  <2>1. /\ count = [r \in Requests |-> 0] /\ errors = [r \in Requests |-> 0] /\ input = None
        /\ at = [r \in Requests |-> 0] /\ committed = {} /\ cutOff = {}
    BY DEF Init, FabricInit, RequestsInit
  <2> QED
    BY <2>1 DEF FabricCounts, NUM_RETRY
<1>5. LinkedInv
  BY <1>1 DEF Init, FabricInit, LinkedInv, Linked, Address, Connect, Channel, Contract
<1>6. GitTypeOK /\ InfluxdbTypeOK
  BY DEF Init, GitInit, InfluxdbInit, GitTypeOK, InfluxdbTypeOK
<1> QED
  BY <1>1, <1>2, <1>3, <1>4, <1>5, <1>6 DEF TypesInv

LEMMA TypesInvStep == TypesInv /\ [Next]_vars => TypesInv'
<1> SUFFICES ASSUME TypesInv, [Next]_vars PROVE TypesInv'
  OBVIOUS
<1>1. FrameInv
  BY DEF TypesInv, RedisInv
<1>2. /\ RedisInv' /\ DbInv' /\ FabricInv' /\ LinkedInv' /\ PlanetmintInv' /\ HttpInv'
      /\ IdentityInv' /\ SharedInv'
  BY RedisInvStep, DbInvIsInductive, FabricInvStep, LinkedInvStep, PlanetmintInvStep, HttpInvStep,
     IdentityInvStep, SharedInvStep DEF TypesInv
<1>3. RedisHistory' /\ DbTypeOK' /\ FabricCounts' /\ GitTypeOK' /\ InfluxdbTypeOK'
  BY <1>1, RedisHistoryStep, DbTypesStep, FabricCountsStep, GitTypesStep, InfluxdbTypesStep DEF TypesInv
<1> QED
  BY <1>2, <1>3 DEF TypesInv

LEMMA TypesInvMeans == TypesInv => MwTypeOK
<1> SUFFICES ASSUME TypesInv PROVE MwTypeOK
  OBVIOUS
<1> USE DEF TypesInv
<1>1. FrameInv /\ FrameDoms
  BY DEF RedisInv, FrameInv
<1>2. RequestsTypeOK
  BY <1>1 DEF FrameInv, FrameDoms, RequestsTypeOK
<1>3. RedisTypeOK
  BY DEF RedisInv, RedisDoms, RedisHistory, RedisTypeOK
<1>4. FabricTypeOK
  BY DEF LinkedInv, Linked, FabricCounts, FabricTypeOK
<1>5. PlanetmintTypeOK
  BY DEF PlanetmintInv, NoTransfer, Transfer, PlanetmintTypeOK
<1>6. HttpTypeOK
  BY DEF HttpInv, Promises, IsPromise, PromiseStates, HttpTypeOK
<1>7. IdentityTypeOK
  BY DEF IdentityInv, Lookups, IsLookup, PromiseStates, IdentityTypeOK
<1>8. SharedTypeOK
  BY DEF SharedInv, GoodUse, UseRecords, SharedTypeOK
<1> QED
  BY <1>2, <1>3, <1>4, <1>5, <1>6, <1>7, <1>8 DEF MwTypeOK

\* Every variable of the composed system has the type it should have, for any
\* requests and plans.
THEOREM TypesAreRight == Spec => []MwTypeOK
BY TypesInvInit, TypesInvStep, TypesInvMeans, PTL DEF Spec

=============================================================================
