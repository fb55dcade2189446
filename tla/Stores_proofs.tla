---------------------------- MODULE Stores_proofs ----------------------------
(***************************************************************************)
(* What the middlewares that write to a store of many requests guarantee:  *)
(* git, redis and db, for any requests and plans.                          *)
(***************************************************************************)
EXTENDS Middlewares_proofs

-----------------------------------------------------------------------------
(* What is over. *)

Success(r, c) == plan[r].calls[c].success

\* The onSuccess hook of call c is past its step i.
Passed(r, c, i) ==
  \/ c < call[r]
  \/ /\ c = call[r]
     /\ \/ stage[r] \in {"waiting", "done"}
        \/ stage[r] = "success" /\ Len(Success(r, c)) - i + 1 > Len(todo[r])

\* Step i is the one that onSuccess is at.
IsAt(r, c, i) ==
  /\ stage[r] = "success" /\ todo[r] # <<>>
  /\ c = call[r] /\ Step(r) = Success(r, c)[i]
  /\ Len(Success(r, c)) - i + 1 = Len(todo[r])

\* The steps of all hooks are numbered from 1.
LEMMA SuccessSteps ==
  ASSUME FrameInv, NEW r \in Requests, NEW c \in DOMAIN plan[r].calls
  PROVE  /\ c \in 1..Len(plan[r].calls) /\ Len(plan[r].calls) \in Nat
         /\ Len(Success(r, c)) \in Nat /\ DOMAIN Success(r, c) = 1..Len(Success(r, c))
         /\ call[r] \in Nat /\ OnPlan(r) /\ IsSequence(Success(r, c))
<1>1. c \in 1..Len(plan[r].calls) /\ Len(plan[r].calls) \in Nat
  BY PlanFacts DEF FrameInv
<1>2. IsSequence(Success(r, c))
  BY <1>1, PlanFacts DEF FrameInv, HookStages, Success
<1> QED
  BY <1>1, <1>2, SequenceFacts DEF FrameInv, FrameDoms

\* What is left of an onSuccess hook at work.
LEMMA SuccessLeft ==
  ASSUME FrameInv, NEW r \in Requests, stage[r] = "success", todo[r] # <<>>
  PROVE  /\ call[r] \in DOMAIN plan[r].calls /\ IsRest(todo[r], Success(r, call[r]))
         /\ Len(todo[r]) \in 1..Len(Success(r, call[r]))
         /\ Len(Tail(todo[r])) = Len(todo[r]) - 1
         /\ Step(r) = Success(r, call[r])[Len(Success(r, call[r])) - Len(todo[r]) + 1]
<1>1. call[r] \in 1..Len(plan[r].calls) /\ DOMAIN plan[r].calls = 1..Len(plan[r].calls)
  BY PlanFacts, StepIsAsked DEF FrameInv, HookStages
<1>2. IsRest(todo[r], Success(r, call[r]))
  BY DEF FrameInv, OnPlan, HookStages, Success
<1>3. IsSequence(Success(r, call[r]))
  BY <1>1, SuccessSteps
<1> QED
  BY <1>1, <1>2, <1>3, RestOfRest DEF Step

\* A step of a middleware passes at most the step it is at.
LEMMA PassedByStep ==
  ASSUME FrameInv, NEW q \in Requests, Steps(q),
         NEW r \in Requests, NEW c \in DOMAIN plan[r].calls, NEW i \in DOMAIN Success(r, c),
         Passed(r, c, i)'
  PROVE  \/ Passed(r, c, i)
         \/ r = q /\ IsAt(q, c, i) /\ stage'[q] = "success" /\ todo'[q] = Tail(todo[q])
<1>1. /\ i \in 1..Len(Success(r, c)) /\ Len(Success(r, c)) \in Nat /\ plan' = plan /\ call' = call
      /\ Success(r, c)' = Success(r, c) /\ call[r] \in Nat /\ c \in Nat
  BY SuccessSteps DEF Steps, Works, Kept, Success
<1>2. CASE stage'[r] = stage[r] /\ todo'[r] = todo[r]
  BY <1>1, <1>2 DEF Passed
<1>3. CASE stage'[r] = "failed"
  BY <1>1, <1>3 DEF Passed
<1>4. CASE r = q /\ stage'[q] = stage[q] /\ todo[q] # <<>> /\ todo'[q] = Tail(todo[q])
  <2>1. CASE stage[q] = "success" /\ c = call[q]
    <3>1. /\ Len(todo[q]) \in 1..Len(Success(q, c)) /\ Len(todo'[q]) = Len(todo[q]) - 1
          /\ Step(q) = Success(q, c)[Len(Success(q, c)) - Len(todo[q]) + 1]
      BY <1>4, <2>1, SuccessLeft
    <3>2. Len(Success(q, c)) - i + 1 > Len(todo'[q])
      BY <1>1, <1>4, <2>1 DEF Passed
    <3>3. Len(todo[q]) \in Int /\ i \in Int /\ Len(Success(q, c)) \in Int
      BY <1>1, <1>4, <3>1
    <3>4. \/ Len(Success(q, c)) - i + 1 > Len(todo[q])
          \/ /\ i = Len(Success(q, c)) - Len(todo[q]) + 1
             /\ Len(Success(q, c)) - i + 1 = Len(todo[q])
      <4> HIDE <1>1, <1>4, <2>1
      <4> QED
        BY <3>1, <3>2, <3>3
    <3> QED
      BY <1>4, <2>1, <3>1, <3>4 DEF Passed, IsAt
  <2>2. CASE stage[q] # "success" \/ c # call[q]
    BY <1>1, <1>4, <2>2 DEF Passed
  <2> QED
    BY <2>1, <2>2
<1> QED
  BY <1>2, <1>3, <1>4 DEF Steps, Works, Kept

\* A step of callRestroom passes none.
LEMMA PassedByRequest ==
  ASSUME FrameInv, NEW q \in Requests, RequestStep(q),
         NEW r \in Requests, NEW c \in DOMAIN plan[r].calls, NEW i \in DOMAIN Success(r, c),
         Passed(r, c, i)'
  PROVE  Passed(r, c, i)
<1>1. /\ i \in 1..Len(Success(r, c)) /\ Len(Success(r, c)) \in Nat
      /\ call[r] \in Nat /\ c \in Nat /\ OnPlan(r)
  BY SuccessSteps
<1>2. Kept(q) /\ plan' = plan /\ Success(r, c)' = Success(r, c)
  BY RequestStepKeeps DEF Kept, Success
<1>3. CASE r # q
  BY <1>2, <1>3 DEF Passed, Kept
<1>4. CASE r = q
  <2>1. CASE EnterBefore(q)
    <3>1. stage[q] = "waiting" /\ stage'[q] = "before" /\ call'[q] = call[q] + 1
      BY <2>1 DEF EnterBefore, FrameInv, FrameDoms
    <3> QED
      BY <1>1, <1>4, <3>1 DEF Passed
  <2>2. CASE DataIsMalformed(q) \/ ZenroomRejects(q)
    <3>1. stage'[q] = "failed" /\ call'[q] = call[q]
      BY <2>2 DEF DataIsMalformed, ZenroomRejects, Reject, Fail, FrameInv, FrameDoms
    <3> QED
      BY <1>1, <1>4, <3>1 DEF Passed
  <2>3. CASE ZenroomRuns(q)
    <3>1. /\ stage'[q] = "success" /\ call'[q] = call[q]
          /\ c = call[q] => todo'[q] = Success(q, c)
      BY <2>3 DEF ZenroomRuns, FrameInv, FrameDoms, Success
    <3> QED
      BY <1>1, <1>2, <1>4, <3>1 DEF Passed
  <2>4. CASE SuccessEnds(q)
    <3>1. stage[q] = "success" /\ todo[q] = <<>> /\ call'[q] = call[q]
      BY <2>4 DEF SuccessEnds
    <3>2. Len(Success(r, c)) - i + 1 > 0 /\ Len(<<>>) = 0
      BY <1>1
    <3> QED
      BY <1>1, <1>4, <3>1, <3>2 DEF Passed
  <2> QED
    BY <2>1, <2>2, <2>3, <2>4 DEF RequestStep
<1> QED
  BY <1>3, <1>4

\* All steps of a request that is done are passed.
LEMMA DoneIsPassed ==
  ASSUME FrameInv, NEW r \in Requests, stage[r] = "done",
         NEW c \in DOMAIN plan[r].calls, NEW i \in DOMAIN Success(r, c)
  PROVE  Passed(r, c, i)
<1>1. c \in 1..Len(plan[r].calls) /\ Len(plan[r].calls) \in Nat /\ OnPlan(r)
  BY SuccessSteps
<1>2. c < call[r] \/ c = call[r]
  BY <1>1 DEF OnPlan
<1> QED
  BY <1>2 DEF Passed

-----------------------------------------------------------------------------
(* git. *)

\* Files that onSuccess still adds to the index, or has added.
Staged(r) ==
  (stage[r] = "success" /\ todo[r] # <<>> /\ at[r] = 1) =>
    Step(r).op = "commit" /\ Files(Step(r)) \subseteq adding[r] \cup index

\* The files of all commits that are passed are in the repositories.
InHead(r) ==
  \A c \in DOMAIN plan[r].calls : \A i \in DOMAIN Success(r, c) :
    Passed(r, c, i) => Files(Success(r, c)[i]) \subseteq head

GitRequest(r) == Staged(r) /\ InHead(r)

GitInv ==
  /\ FrameInv
  /\ DOMAIN adding = Requests
  /\ \A r \in Requests : Uses(r, "git") => GitRequest(r)

\* Before any request has called a hook.
LEMMA GitInvInit == Init => GitInv
<1> SUFFICES ASSUME Init PROVE GitInv
  OBVIOUS
<1>1. FrameInv
  BY FrameInvInit
<1>2. /\ stage = [r \in Requests |-> "waiting"] /\ call = [r \in Requests |-> 0]
      /\ adding = [r \in Requests |-> {}]
  BY DEF Init, RequestsInit, GitInit
<1>3. ASSUME NEW r \in Requests, NEW c \in DOMAIN plan[r].calls, NEW i PROVE ~Passed(r, c, i)
  <2>1. c \in 1..Len(plan[r].calls)
    BY <1>1, SuccessSteps
  <2> QED
    BY <1>2, <2>1 DEF Passed
<1> QED
  BY <1>1, <1>2, <1>3 DEF GitInv, GitRequest, Staged, InHead

\* The hooks of a request stay as they are, nothing leaves the index or the
\* repositories, and what leaves its queue goes to the index.
LEMMA GitUnmoved ==
  ASSUME NEW r \in Requests, GitRequest(r), plan' = plan,
         stage'[r] = stage[r], todo'[r] = todo[r], at'[r] = at[r], call'[r] = call[r],
         head \subseteq head', adding[r] \cup index \subseteq adding'[r] \cup index'
  PROVE  GitRequest(r)'
<1>1. Staged(r)'
  BY DEF GitRequest, Staged, Step
<1>2. InHead(r)'
  BY DEF GitRequest, InHead, Passed, Success
<1> QED
  BY <1>1, <1>2 DEF GitRequest

\* Every action of git preserves the invariant.
LEMMA GitStep ==
  ASSUME GitInv, GitNext
  PROVE  DOMAIN adding' = Requests /\ \A r \in Requests : Uses(r, "git") => GitRequest(r)'
<1> PICK q \in Requests :
      /\ Uses(q, "git")
      /\ \/ Clones(q) \/ Verifies(q) \/ StartsCommit(q) \/ Commits(q)
         \/ \E f \in adding[q] : Adds(q, f) \/ AddFails(q, f)
  BY DEF GitNext
<1>1. FrameInv /\ FrameDoms /\ GitRequest(q) /\ DOMAIN adding = Requests
  BY DEF GitInv, FrameInv
<1>2. BlocksStep(q) /\ StepIsThere(q)
  BY <1>1, BlocksKeep
<1>3. Steps(q)
  BY <1>2 DEF BlocksStep, StepIsThere, Reasons, Clones, Verifies, StartsCommit, Commits, Adds, AddFails
<1>4. head \subseteq head' /\ index \subseteq index' /\ DOMAIN adding' = Requests
      /\ \A r \in Requests \ {q} : adding'[r] = adding[r]
  BY <1>1 DEF Clones, Verifies, StartsCommit, Commits, Adds, AddFails, gitVars
<1>5. ASSUME NEW r \in Requests \ {q}, Uses(r, "git") PROVE GitRequest(r)'
  <2>1. GitRequest(r) /\ adding[r] \cup index \subseteq adding'[r] \cup index'
    BY <1>4, <1>5 DEF GitInv
  <2>2. /\ stage'[r] = stage[r] /\ todo'[r] = todo[r] /\ at'[r] = at[r] /\ call'[r] = call[r]
        /\ plan' = plan
    BY <1>3 DEF Steps, Works, Kept
  <2> QED
    BY <1>4, <2>1, <2>2, GitUnmoved
<1>6. Staged(q)'
  <2>1. CASE StartsCommit(q)
    <3>1. CASE adding' = [adding EXCEPT ![q] = Files(Step(q))] /\ todo' = todo
      BY <1>1, <2>1, <3>1 DEF StartsCommit, Doing, Staged, Step
    <3>2. CASE Reject(q, "no details")
      BY <1>1, <3>2 DEF Reject, Fail, Staged, FrameDoms
    <3> QED
      BY <2>1, <3>1, <3>2 DEF StartsCommit, Await
  <2>2. CASE Clones(q) \/ Verifies(q) \/ Commits(q)
    <3>1. Continue(q) \/ \E why : Reject(q, why)
      BY <2>2 DEF Clones, Verifies, Commits
    <3>2. at'[q] = 0
      BY <1>1, <3>1 DEF Continue, Proceed, Reject, Fail, FrameDoms
    <3> QED
      BY <3>2 DEF Staged
  <2>3. CASE \E f \in adding[q] : Adds(q, f)
    BY <1>1, <2>3 DEF Adds, frame, GitRequest, Staged, Step
  <2>4. CASE \E f \in adding[q] : AddFails(q, f)
    <3>1. CASE Reject(q, "add")
      BY <1>1, <3>1 DEF Reject, Fail, Staged, FrameDoms
    <3>2. CASE ~Doing(q, "success", "commit", 1) /\ UNCHANGED frame /\ up
      BY <1>1, <3>2 DEF GitRequest, Staged, Doing, InHook, frame, Step
    <3> QED
      BY <2>4, <3>1, <3>2 DEF AddFails
  <2> QED
    BY <2>1, <2>2, <2>3, <2>4
<1>7. InHead(q)'
  <2>1. plan' = plan /\ \A c : Success(q, c)' = Success(q, c)
    BY <1>3 DEF Steps, Works, Kept, Success
  <2> SUFFICES ASSUME NEW c \in DOMAIN plan[q].calls, NEW i \in DOMAIN Success(q, c),
                      Passed(q, c, i)'
               PROVE  Files(Success(q, c)[i]) \subseteq head'
    BY <2>1 DEF InHead
  <2>2. CASE Passed(q, c, i)
    BY <1>1, <1>4, <2>2 DEF GitRequest, InHead
  <2>3. CASE IsAt(q, c, i) /\ stage'[q] = "success" /\ todo'[q] = Tail(todo[q])
    <3>1. stage[q] = "success" /\ todo[q] # <<>> /\ Step(q) = Success(q, c)[i] /\ Len(todo'[q]) = Len(todo[q]) - 1
          /\ Len(todo[q]) \in Nat
      BY <1>1, <2>3, SuccessLeft DEF IsAt
    <3>2. todo' # todo
      BY <3>1
    <3>3. Commits(q) /\ Continue(q)
      <4>1. stage' # [stage EXCEPT ![q] = "failed"]
        BY <1>1, <2>3 DEF FrameDoms
      <4>2. ~Await(q) /\ ~UNCHANGED frame /\ \A why : ~Reject(q, why)
        BY <3>2, <4>1 DEF Await, frame, Reject, Fail
      <4> QED
        BY <3>1, <4>2 DEF Clones, Verifies, StartsCommit, Commits, Adds, AddFails, Doing, InHook
    <3>4. /\ head' = head \cup Of(Step(q).repo, index) /\ adding[q] = {} /\ at[q] = 1
      BY <3>1, <3>3, <2>3, <1>1 DEF Commits, Doing, Reject, Fail, FrameDoms
    <3>5. Files(Step(q)) \subseteq index
      BY <1>1, <3>1, <3>4 DEF GitRequest, Staged
    <3> QED
      BY <3>1, <3>4, <3>5 DEF Files, Of
  <2> QED
    BY <1>1, <1>3, <2>2, <2>3, PassedByStep
<1> QED
  BY <1>4, <1>5, <1>6, <1>7 DEF GitRequest

\* Starting a request, running its contract and ending a hook preserve it.
LEMMA GitKeptByRequests ==
  ASSUME GitInv, RequestsNext, UNCHANGED gitVars,
         NEW r \in Requests, Uses(r, "git")
  PROVE  GitRequest(r)'
<1> PICK q \in Requests : RequestStep(q)
  BY DEF RequestsNext, RequestStep
<1>1. FrameInv /\ Kept(q) /\ GitRequest(r)
  BY RequestStepKeeps DEF GitInv
<1>2. CASE r # q
  BY <1>1, <1>2, GitUnmoved DEF Kept, gitVars
<1>3. CASE r = q
  <2>1. at'[q] = 0
    <3>1. todo[q] = <<>>
      BY <1>1 DEF RequestStep, EnterBefore, DataIsMalformed, ZenroomRuns, ZenroomRejects,
                  SuccessEnds, FrameInv, OnPlan, HookStages
    <3> QED
      BY <1>1, <3>1 DEF RequestStep, EnterBefore, DataIsMalformed, ZenroomRuns, ZenroomRejects,
                        SuccessEnds, Reject, Fail, FrameInv, FrameDoms
  <2>2. Staged(q)'
    BY <2>1 DEF Staged
  <2>3. InHead(q)'
    <3>1. plan' = plan /\ \A c : Success(q, c)' = Success(q, c)
      BY <1>1 DEF Kept, Success
    <3> QED
      BY <1>1, <1>3, <3>1, PassedByRequest DEF GitRequest, InHead, gitVars
  <2> QED
    BY <1>3, <2>2, <2>3 DEF GitRequest
<1> QED
  BY <1>2, <1>3

\* Every step of the composed system preserves the invariant.
LEMMA GitInvStep == GitInv /\ [Next]_vars => GitInv'
<1> SUFFICES ASSUME GitInv, [Next]_vars PROVE GitInv'
  OBVIOUS
<1>1. FrameInv' /\ (GitNext \/ Foreign("git", gitVars)) /\ plan' = plan
  <2>1. FrameInv' /\ FrameDoms /\ (GitNext \/ Foreign("git", gitVars))
    BY FrameInvStep, ForeignSteps DEF GitInv, FrameInv
  <2> QED
    BY <2>1, PlanIsKept DEF GitInv
<1>2. \A r \in Requests : Uses(r, "git")' <=> Uses(r, "git")
  BY <1>1 DEF Uses
<1>3. CASE GitNext
  BY <1>1, <1>2, <1>3, GitStep DEF GitInv
<1>4. CASE RequestsNext /\ UNCHANGED gitVars
  BY <1>1, <1>2, <1>4, GitKeptByRequests DEF GitInv, gitVars
<1>5. CASE StepElsewhere("git") /\ UNCHANGED gitVars
  <2>1. ASSUME NEW r \in Requests, Uses(r, "git") PROVE GitRequest(r)'
    <3>1. stage'[r] = stage[r] /\ todo'[r] = todo[r] /\ at'[r] = at[r] /\ call'[r] = call[r]
      BY <1>5, <2>1 DEF StepElsewhere, Steps, Works, Kept, frame
    <3> QED
      BY <1>1, <1>5, <2>1, <3>1, GitUnmoved DEF GitInv, gitVars
  <2> QED
    BY <1>1, <1>2, <1>5, <2>1 DEF GitInv, gitVars
<1> QED
  BY <1>1, <1>3, <1>4, <1>5 DEF Foreign

\* The files of a request that is done are in the last commit.
LEMMA GitInvMeans == GitInv => CommitsAreComplete
<1> SUFFICES ASSUME GitInv, NEW r \in Requests, Uses(r, "git"), stage[r] = "done",
                    NEW c \in DOMAIN plan[r].calls, NEW i \in DOMAIN Success(r, c)
             PROVE  Files(Success(r, c)[i]) \subseteq head
  BY DEF CommitsAreComplete, Success
<1>1. FrameInv /\ InHead(r)
  BY DEF GitInv, GitRequest
<1> QED
  BY <1>1, DoneIsPassed DEF InHead

-----------------------------------------------------------------------------
(* redis. *)

\* Between its SETNX and its GET.
Getting(r) == stage[r] = "before" /\ todo[r] # <<>> /\ Step(r).op = "get" /\ at[r] = 1

\* No step that ends or begins is there.
LEMMA NotAtTheGet == ASSUME NEW q, at'[q] = 0 PROVE ~Getting(q)'
BY DEF Getting

\* Another request has deleted the key since the SETNX.
Deleted(r) == \E q \in Requests \ {r} : q \in deleters[r]

\* The SETNX of a GET has left something to get, unless it has been deleted.
GetIsSafe(r) ==
  Getting(r) => client[r] # None /\ (store[client[r]][Step(r).key] # Absent \/ Deleted(r))

NullAnswer(r) == reason[r] = "null answer" => stage[r] = "failed" /\ Deleted(r)

\* A loop over pairs has a pair to go on with.
PairIsThere(r) ==
  (stage[r] = "success" /\ todo[r] # <<>> /\ Step(r).op \in {"setObjects", "del"}) =>
    at[r] + 1 \in DOMAIN Step(r).pairs

\* The current call has written objects.
Wrote(r) == \E k \in Keys : <<r, call[r], k>> \in objects

\* The step that writes them is under way or over.
Objects(r) ==
  /\ \A c \in Nat, k \in Keys : <<r, c, k>> \in objects => c <= call[r]
  /\ Wrote(r) =>
       /\ stage[r] # "before"
       /\ \A i \in DOMAIN todo[r] : todo[r][i].op = "setObjects" => i = 1 /\ at[r] # 0
  /\ reason[r] = "not defined" => stage[r] = "failed" /\ ~Wrote(r)

RedisRequest(r) == GetIsSafe(r) /\ NullAnswer(r) /\ PairIsThere(r) /\ Objects(r)

RedisDoms ==
  /\ DOMAIN store = Servers /\ \A s \in Servers : DOMAIN store[s] = Keys
  /\ url \in [Requests -> Servers \cup {None}]
  /\ client \in [Requests -> Servers \cup {None}]
  /\ deleters \in [Requests -> SUBSET Requests]

RedisInv ==
  /\ FrameInv /\ RedisDoms
  /\ \A r \in Requests : Uses(r, "redis") => RedisRequest(r)

\* Before any request has called a hook.
LEMMA RedisInvInit == Init => RedisInv
<1> SUFFICES ASSUME Init PROVE RedisInv
  OBVIOUS
<1>1. FrameInv
  BY FrameInvInit
<1>2. /\ stage = [r \in Requests |-> "waiting"] /\ call = [r \in Requests |-> 0]
      /\ reason = [r \in Requests |-> ""] /\ todo = [r \in Requests |-> <<>>]
      /\ objects = {}
  BY DEF Init, RequestsInit, RedisInit
<1>3. RedisDoms
  BY DEF Init, RedisInit, RedisDoms
<1> QED
  BY <1>1, <1>2, <1>3
  DEF RedisInv, RedisRequest, Getting, GetIsSafe, NullAnswer, PairIsThere, Objects, Wrote

\* What a step may do to the servers: put something at a key, or delete it, which
\* is remembered of those that are getting it.
Puts(q, key, value) ==
  /\ client[q] \in Servers /\ key \in Keys
  /\ store' = [store EXCEPT ![client[q]][key] = value]
  /\ value = Absent =>
       \A r \in Requests \ {q} :
         Getting(r) /\ client[r] = client[q] /\ Step(r).key = key => q \in deleters'[r]

\* And to the history of objects.
WritesObject(q) ==
  /\ stage[q] = "success" /\ todo[q] # <<>> /\ Step(q).op = "setObjects"
  /\ \E key \in Keys : objects' = objects \cup {<<q, call[q], key>>}

\* A step of redis leaves the variables of redis as they are, but for what its
\* request may do to them.
RedisSteps(q) ==
  /\ Steps(q) /\ todo[q] # <<>> /\ stage[q] \in HookStages
  /\ client' = client \/ (client[q] = None /\ client' = [client EXCEPT ![q] = url[q]])
  /\ url' = url \/ \E s \in Servers : url' = [url EXCEPT ![q] = s]
  /\ store' = store \/ \E key \in Keys : \E value : Puts(q, key, value)
  /\ deleters' \in [Requests -> SUBSET Requests]
  /\ \A r \in Requests \ {q} : deleters[r] \subseteq deleters'[r]
  /\ objects' = objects \/ WritesObject(q)

\* The step that comes next names keys and servers that there are.
LEMMA RedisStepIsPlanned ==
  ASSUME FrameInv, NEW q \in Requests, Uses(q, "redis"), todo[q] # <<>>
  PROVE  /\ stage[q] = "before" =>
              /\ Step(q).op = "connect" => Step(q).server \in Servers
              /\ Step(q).op \in {"get", "incr"} => Step(q).key \in Keys
         /\ stage[q] = "success" =>
              /\ Step(q).op = "set" => Step(q).key \in Keys
              /\ Step(q).op \in {"setObjects", "del"} =>
                   /\ Step(q).pairs # <<>> /\ IsSequence(Step(q).pairs)
                   /\ \A i \in DOMAIN Step(q).pairs : Step(q).pairs[i].key \in Keys
<1>1. stage[q] \in HookStages => Step(q) \in Asked("redis", stage[q])
  BY StepIsAsked DEF Uses
<1> QED
  BY <1>1, RedisAssumption DEF HookStages

\* The loops of DEL and SET_OBJECT_NAMED start with a pair.
FreshPairs == \A r \in Requests : (Uses(r, "redis") /\ at[r] = 0) => PairIsThere(r)
LEMMA LoopsHavePairs == FrameInv => FreshPairs
<1> SUFFICES ASSUME FrameInv, NEW r \in Requests, Uses(r, "redis"), at[r] = 0,
                    stage[r] = "success", todo[r] # <<>>, Step(r).op \in {"setObjects", "del"}
             PROVE  at[r] + 1 \in DOMAIN Step(r).pairs
  BY DEF FreshPairs, PairIsThere
<1>1. Step(r).pairs # <<>> /\ IsSequence(Step(r).pairs)
  BY RedisStepIsPlanned
<1> QED
  BY <1>1, SequenceFacts

\* Also after a step.
LEMMA LoopsHavePairsNext == FrameInv' => FreshPairs'
BY LoopsHavePairs, PTL

\* No other step of the hook writes objects.
LEMMA OneStepWritesObjects ==
  ASSUME FrameInv, NEW q \in Requests, Uses(q, "redis"), todo[q] # <<>>, stage[q] = "success",
         Step(q).op = "setObjects", NEW i \in DOMAIN todo[q], todo[q][i].op = "setObjects"
  PROVE  i = 1
<1> DEFINE steps == Success(q, call[q])
<1>1. /\ call[q] \in DOMAIN plan[q].calls /\ IsRest(todo[q], steps)
      /\ Len(todo[q]) \in 1..Len(steps) /\ Step(q) = steps[Len(steps) - Len(todo[q]) + 1]
  BY SuccessLeft
<1>2. Len(steps) \in Nat /\ DOMAIN steps = 1..Len(steps)
  BY <1>1, SuccessSteps
<1>3. i \in 1..Len(todo[q]) /\ todo[q][i] = steps[Len(steps) - Len(todo[q]) + i]
  BY <1>1, SequenceFacts DEF IsRest
<1>4. \A m, n \in DOMAIN steps : steps[m].op = "setObjects" /\ steps[n].op = "setObjects" => m = n
  <2>1. plan[q] \in UNION Scenarios /\ plan[q].mw = "redis"
    BY DEF FrameInv, Uses
  <2> QED
    BY <1>1, <2>1, RedisAssumption DEF Success
<1> HIDE DEF steps
<1>5. Len(steps) - Len(todo[q]) + 1 \in DOMAIN steps /\ Len(steps) - Len(todo[q]) + i \in DOMAIN steps
  BY <1>1, <1>2, <1>3
<1>6. Len(steps) - Len(todo[q]) + 1 = Len(steps) - Len(todo[q]) + i
  BY <1>1, <1>3, <1>4, <1>5
<1>7. Len(steps) \in Int /\ Len(todo[q]) \in Int /\ i \in Int
  BY <1>1, <1>2, <1>3
<1>8. \A a, b, c \in Int : a - b + 1 = a - b + c => c = 1
  OBVIOUS
<1> QED
  BY <1>6, <1>7, <1>8

\* Every action of redis is such a step.
LEMMA RedisEffect ==
  ASSUME RedisInv, NEW q \in Requests, Uses(q, "redis"), RedisActions(q)
  PROVE  RedisSteps(q)
<1>1. FrameInv /\ FrameDoms /\ RedisDoms /\ PairIsThere(q)
  BY DEF RedisInv, FrameInv, RedisRequest
<1>2. Steps(q)
  BY <1>1, RedisActionsKeep
<1>3. todo[q] # <<>> /\ stage[q] \in HookStages
  BY DEF RedisActions, ConnectsTo, OpensClient, CommandFails, SetsEmpty, Gets,
         GetsKeysContaining, Increments, SetsOutput, SetsObjects, Deletes, Command, Doing, InHook,
         HookStages
<1>4. client[q] # None => client[q] \in Servers
  BY <1>1 DEF RedisDoms
<1>5. client' = client \/ (client[q] = None /\ client' = [client EXCEPT ![q] = url[q]])
  BY DEF RedisActions, ConnectsTo, OpensClient, CommandFails, SetsEmpty, Gets,
         GetsKeysContaining, Increments, SetsOutput, SetsObjects, Deletes, redisVars
<1>6. url' = url \/ \E s \in Servers : url' = [url EXCEPT ![q] = s]
  <2>1. CASE ConnectsTo(q)
    <3>1. Step(q).server \in Servers
      BY <1>1, <1>3, <2>1, RedisStepIsPlanned DEF ConnectsTo, Doing, InHook
    <3> QED
      BY <2>1, <3>1 DEF ConnectsTo
  <2> QED
    BY <2>1 DEF RedisActions, OpensClient, CommandFails, SetsEmpty, Gets,
                GetsKeysContaining, Increments, SetsOutput, SetsObjects, Deletes, redisVars
<1>7. store' = store \/ \E key \in Keys : \E value : Puts(q, key, value)
  <2>1. CASE SetsEmpty(q)
    <3>1. client[q] # None /\ Step(q).key \in Keys
      BY <1>1, <1>3, <2>1, RedisStepIsPlanned DEF SetsEmpty, Command, Doing, InHook
    <3>2. EmptyObject # Absent
      BY DEF EmptyObject, Absent
    <3>3. store' = store \/ Puts(q, Step(q).key, EmptyObject)
      BY <1>4, <2>1, <3>1, <3>2 DEF SetsEmpty, Write, Puts
    <3> QED
      BY <3>1, <3>3
  <2>2. CASE Increments(q)
    <3>1. client[q] # None /\ Step(q).key \in Keys
      BY <1>1, <1>3, <2>2, RedisStepIsPlanned DEF Increments, Command, Doing, InHook
    <3>2. \A n : Number(n) # Absent
      BY DEF Number, Absent
    <3> QED
      BY <1>4, <2>2, <3>1, <3>2 DEF Increments, Puts
  <2>3. CASE SetsOutput(q)
    <3>1. client[q] # None /\ Step(q).key \in Keys
      BY <1>1, <1>3, <2>3, RedisStepIsPlanned DEF SetsOutput, Command, Doing, InHook
    <3>2. Output(q) # Absent
      BY DEF Output, Absent
    <3>3. Puts(q, Step(q).key, Output(q))
      BY <1>4, <2>3, <3>1, <3>2 DEF SetsOutput, Write, Puts
    <3> QED
      BY <3>1, <3>3
  <2>4. CASE SetsObjects(q)
    <3>1. client[q] # None /\ Step(q).pairs[at[q] + 1].key \in Keys
      BY <1>1, <1>3, <2>4, RedisStepIsPlanned DEF SetsObjects, Command, Doing, InHook, PairIsThere
    <3>2. \A key : <<"object", q, call[q], key>> # Absent
      BY DEF Absent
    <3> QED
      BY <1>4, <2>4, <3>1, <3>2 DEF SetsObjects, SetsObject, Write, Puts
  <2>5. CASE Deletes(q)
    <3> DEFINE pair == Step(q).pairs[at[q] + 1]
    <3>1. client[q] # None /\ pair.key \in Keys /\ up
      BY <1>1, <1>3, <2>5, RedisStepIsPlanned DEF Deletes, Command, Doing, InHook, PairIsThere
    <3>2. CASE store' = store
      BY <3>2
    <3>3. CASE /\ Write(q, pair.key, Absent)
               /\ deleters' = [r \in Requests |-> IF AwaitsGet(r, client[q], pair.key)
                                                 THEN deleters[r] \cup {q} ELSE deleters[r]]
      <4>1. \A r \in Requests :
              Getting(r) /\ client[r] = client[q] /\ Step(r).key = pair.key => q \in deleters'[r]
        BY <3>1, <3>3 DEF Getting, AwaitsGet, Doing, InHook
      <4> HIDE DEF pair
      <4> QED
        BY <1>4, <3>1, <3>3, <4>1 DEF Write, Puts
    <3> QED
      BY <2>5, <3>2, <3>3 DEF Deletes
  <2>6. CASE ConnectsTo(q) \/ OpensClient(q) \/ CommandFails(q) \/ Gets(q) \/ GetsKeysContaining(q)
    BY <2>6 DEF ConnectsTo, OpensClient, CommandFails, Gets, GetsKeysContaining, redisVars
  <2> QED
    BY <2>1, <2>2, <2>3, <2>4, <2>5, <2>6 DEF RedisActions
<1>8. objects' = objects \/ WritesObject(q)
  <2>1. CASE SetsObjects(q)
    <3>1. stage[q] = "success" /\ Step(q).op = "setObjects" /\ Step(q).pairs[at[q] + 1].key \in Keys
      BY <1>1, <1>3, <2>1, RedisStepIsPlanned DEF SetsObjects, Command, Doing, InHook, PairIsThere
    <3> QED
      BY <1>3, <2>1, <3>1 DEF SetsObjects, SetsObject, WritesObject
  <2> QED
    BY <2>1 DEF RedisActions, ConnectsTo, OpensClient, CommandFails, SetsEmpty, Gets,
                GetsKeysContaining, Increments, SetsOutput, Deletes, redisVars
<1>9. /\ deleters' \in [Requests -> SUBSET Requests]
      /\ \A r \in Requests \ {q} : deleters[r] \subseteq deleters'[r]
  <2>1. deleters \in [Requests -> SUBSET Requests]
    BY <1>1 DEF RedisDoms
  <2>2. CASE SetsEmpty(q)
    BY <2>1, <2>2 DEF SetsEmpty
  <2>3. CASE Deletes(q)
    <3>1. \/ deleters' = deleters
          \/ deleters' = [r \in Requests |->
                IF AwaitsGet(r, client[q], Step(q).pairs[at[q] + 1].key)
                THEN deleters[r] \cup {q} ELSE deleters[r]]
      BY <2>3 DEF Deletes
    <3> QED
      BY <2>1, <3>1
  <2>4. CASE deleters' = deleters
    BY <2>1, <2>4
  <2> QED
    BY <2>2, <2>3, <2>4
    DEF RedisActions, ConnectsTo, OpensClient, CommandFails, Gets, GetsKeysContaining, Increments,
        SetsOutput, SetsObjects, redisVars
<1> QED
  BY <1>2, <1>3, <1>5, <1>6, <1>7, <1>8, <1>9 DEF RedisSteps

\* The domains are kept.
LEMMA RedisDomsStep ==
  ASSUME RedisInv, NEW q \in Requests, RedisSteps(q)
  PROVE  RedisDoms'
<1>1. RedisDoms
  BY DEF RedisInv
<1>2. DOMAIN store' = Servers /\ \A s \in Servers : DOMAIN store'[s] = Keys
  <2>1. CASE \E key \in Keys : \E value : Puts(q, key, value)
    BY <1>1, <2>1 DEF RedisDoms, Puts
  <2> QED
    BY <1>1, <2>1 DEF RedisDoms, RedisSteps
<1>3. client' \in [Requests -> Servers \cup {None}] /\ url' \in [Requests -> Servers \cup {None}]
  BY <1>1 DEF RedisDoms, RedisSteps
<1> QED
  BY <1>2, <1>3 DEF RedisDoms, RedisSteps

\* A client that is open stays the same.
LEMMA ClientsStay ==
  ASSUME RedisInv, NEW q \in Requests, RedisSteps(q), NEW r \in Requests, client[r] # None
  PROVE  client'[r] = client[r]
BY DEF RedisSteps, RedisInv, RedisDoms

\* A step of another request preserves the invariant for r.
LEMMA RedisOthers ==
  ASSUME RedisInv, NEW q \in Requests, RedisSteps(q),
         NEW r \in Requests, r # q, Uses(r, "redis")
  PROVE  RedisRequest(r)'
<1>1. /\ RedisRequest(r) /\ plan' = plan /\ stage'[r] = stage[r] /\ todo'[r] = todo[r]
      /\ at'[r] = at[r] /\ call'[r] = call[r] /\ reason'[r] = reason[r] /\ Step(r)' = Step(r)
  BY DEF RedisInv, RedisSteps, Steps, Works, Kept, Step
<1>2. \A p \in Requests : client[p] # None => client'[p] = client[p]
  BY ClientsStay
<1>3. Getting(r)' <=> Getting(r)
  BY <1>1 DEF Getting
<1>4. Deleted(r) => Deleted(r)'
  BY DEF Deleted, RedisSteps
<1>5. GetIsSafe(r)'
  <2> SUFFICES ASSUME Getting(r)
               PROVE  client'[r] # None /\ (store'[client'[r]][Step(r).key] # Absent \/ Deleted(r)')
    BY <1>1, <1>3 DEF GetIsSafe
  <2>1. /\ client[r] # None /\ client'[r] = client[r]
        /\ store[client[r]][Step(r).key] # Absent \/ Deleted(r)'
    BY <1>1, <1>2, <1>4 DEF RedisRequest, GetIsSafe
  <2>2. ASSUME NEW key \in Keys, NEW value, Puts(q, key, value), ~Deleted(r)'
        PROVE  store'[client[r]][Step(r).key] # Absent
    <3>1. CASE client[r] = client[q] /\ Step(r).key = key
      <4>1. q \notin deleters'[r]
        BY <2>2 DEF Deleted
      <4>2. value # Absent
        BY <2>2, <3>1, <4>1 DEF Puts
      <4> QED
        BY <2>2, <3>1, <4>2 DEF Puts, RedisInv, RedisDoms
    <3>2. CASE ~(client[r] = client[q] /\ Step(r).key = key)
      <4>1. client[r] \in Servers
        BY <2>1 DEF RedisInv, RedisDoms
      <4> QED
        BY <2>1, <2>2, <3>2, <4>1 DEF Puts, RedisInv, RedisDoms
    <3> QED
      BY <3>1, <3>2
  <2> QED
    BY <2>1, <2>2 DEF RedisSteps
<1>6. NullAnswer(r)'
  BY <1>1, <1>4 DEF RedisRequest, NullAnswer
<1>7. PairIsThere(r)'
  BY <1>1 DEF RedisRequest, PairIsThere
<1>8. Objects(r)'
  <2>1. \A c, k : <<r, c, k>> \in objects' => <<r, c, k>> \in objects
    BY DEF RedisSteps, WritesObject
  <2> QED
    BY <1>1, <2>1 DEF RedisRequest, Objects, Wrote, RedisSteps
<1> QED
  BY <1>5, <1>6, <1>7, <1>8 DEF RedisRequest

\* A hook with no steps left.
LEMMA EmptyDomain == \A i \in DOMAIN <<>> : FALSE
<1>1. DOMAIN <<>> = {}
  OBVIOUS
<1> QED
  BY <1>1

\* A loop over pairs that is not at its last pair.
LEMMA MorePairs ==
  ASSUME FrameInv, NEW q \in Requests, Uses(q, "redis"), stage[q] = "success", todo[q] # <<>>,
         Step(q).op \in {"setObjects", "del"}, at[q] + 1 < Len(Step(q).pairs)
  PROVE  at[q] + 2 \in DOMAIN Step(q).pairs
<1>1. IsSequence(Step(q).pairs) /\ at[q] \in Nat
  BY RedisStepIsPlanned DEF FrameInv, FrameDoms
<1>2. Len(Step(q).pairs) \in Nat /\ DOMAIN Step(q).pairs = 1..Len(Step(q).pairs)
  BY <1>1, SequenceFacts
<1> QED
  BY <1>1, <1>2

\* The objects of a request are those of calls it has started.
LEMMA ObjectsOfCalls ==
  ASSUME RedisInv, NEW q \in Requests, Uses(q, "redis"), RedisSteps(q)
  PROVE  \A c \in Nat, k \in Keys : <<q, c, k>> \in objects' => c <= call[q]
<1>1. call[q] \in Nat
  BY DEF RedisInv, FrameInv, FrameDoms
<1>2. \A c \in Nat, k \in Keys : <<q, c, k>> \in objects => c <= call[q]
  BY DEF RedisInv, RedisRequest, Objects
<1>3. \A c, k : <<q, c, k>> \in objects' => <<q, c, k>> \in objects \/ c = call[q]
  <2>1. CASE WritesObject(q)
    BY <2>1 DEF WritesObject
  <2> QED
    BY <2>1 DEF RedisSteps
<1> QED
  BY <1>1, <1>2, <1>3

\* What follows when the hook goes on with its next step, or ends.
LEMMA RedisNextStep ==
  ASSUME RedisInv, FrameInv', NEW q \in Requests, Uses(q, "redis"), RedisSteps(q),
         at'[q] = 0, call'[q] = call[q], reason'[q] \notin {"null answer", "not defined"},
         todo'[q] = <<>> \/ (todo'[q] = Tail(todo[q]) /\ stage'[q] = stage[q])
  PROVE  RedisRequest(q)'
<1>1. RedisRequest(q) /\ FrameInv /\ plan' = plan
  BY DEF RedisInv, RedisSteps, Steps, Works, Kept
<1>2. GetIsSafe(q)' /\ NullAnswer(q)'
  <2>1. ~Getting(q)'
    BY NotAtTheGet
  <2>2. GetIsSafe(q)'
    BY <2>1 DEF GetIsSafe
  <2>3. NullAnswer(q)'
    BY DEF NullAnswer
  <2> QED
    BY <2>2, <2>3
<1>3. PairIsThere(q)'
  BY <1>1, LoopsHavePairsNext DEF FreshPairs, Uses
<1>4. Objects(q)'
  <2>1. \A c \in Nat, k \in Keys : <<q, c, k>> \in objects' => c <= call[q]
    BY ObjectsOfCalls
  <2>2. ASSUME Wrote(q)'
        PROVE  /\ stage'[q] # "before"
               /\ \A i \in DOMAIN todo'[q] : todo'[q][i].op # "setObjects"
    <3>1. stage[q] \in HookStages /\ Len(todo[q]) \in Nat
      BY <1>1, TodoFacts DEF RedisSteps
    <3>2. Wrote(q) \/ WritesObject(q)
      BY <2>2 DEF Wrote, RedisSteps
    <3>3. stage[q] = "success"
      BY <1>1, <3>1, <3>2 DEF WritesObject, RedisRequest, Objects, HookStages
    <3>4. \A i \in DOMAIN todo[q] : todo[q][i].op = "setObjects" => i = 1
      BY <1>1, <3>2, OneStepWritesObjects DEF WritesObject, RedisRequest, Objects
    <3>5. \A i \in DOMAIN Tail(todo[q]) : Tail(todo[q])[i].op # "setObjects"
      <4>1. IsSequence(todo[q])
        BY <1>1 DEF FrameInv, OnPlan, HookStages, IsRest, RedisSteps
      <4>2. \A i \in DOMAIN Tail(todo[q]) :
              Tail(todo[q])[i] = todo[q][i + 1] /\ i + 1 \in DOMAIN todo[q] /\ i + 1 # 1
        BY <4>1, TailElements DEF RedisSteps
      <4> QED
        BY <3>4, <4>2
    <3>6. stage'[q] # "before"
      BY <3>3, <1>1 DEF RedisSteps, Steps, Works
    <3> QED
      BY <3>5, <3>6, EmptyDomain
  <2> QED
    BY <2>1, <2>2 DEF Objects
<1> QED
  BY <1>2, <1>3, <1>4 DEF RedisRequest

\* Every action of redis preserves the invariant for the request that takes it.
LEMMA RedisOwnStep ==
  ASSUME RedisInv, FrameInv', NEW q \in Requests, Uses(q, "redis"), RedisActions(q)
  PROVE  RedisRequest(q)'
<1>1. /\ RedisSteps(q) /\ RedisRequest(q) /\ FrameInv /\ FrameDoms
      /\ plan' = plan /\ call' = call /\ at[q] \in Nat
  BY RedisEffect DEF RedisSteps, RedisInv, FrameInv, FrameDoms, Steps, Works, Kept
<1>2. reason[q] \notin {"null answer", "not defined"}
  BY <1>1 DEF RedisRequest, NullAnswer, Objects, RedisSteps, HookStages
<1>3. \A c \in Nat, k \in Keys : <<q, c, k>> \in objects' => c <= call'[q]
  BY <1>1, ObjectsOfCalls
\* The hook goes on with its next step, or rejects for a reason that does not matter here.
<1>a. ASSUME \/ Continue(q) \/ \E name, value : Receive(q, name, value)
             \/ \E why \in {"not connected", "connection", "no keys", "not an integer", "key not defined"} :
                  Reject(q, why)
      PROVE  RedisRequest(q)'
  <2>1. /\ at'[q] = 0
        /\ todo'[q] = <<>> \/ (todo'[q] = Tail(todo[q]) /\ stage'[q] = stage[q])
        /\ \/ reason' = reason
           \/ \E why \in {"not connected", "connection", "no keys", "not an integer", "key not defined"} :
                reason'[q] = why
    <3>1. CASE Proceed(q)
      BY <1>1, <3>1 DEF Proceed, FrameDoms
    <3>2. CASE \E why \in {"not connected", "connection", "no keys", "not an integer", "key not defined"} :
                 Fail(q, why)
      BY <1>1, <3>2 DEF Fail, FrameDoms
    <3> QED
      BY <1>a, <3>1, <3>2 DEF Continue, Receive, Reject
  <2>2. reason'[q] \notin {"null answer", "not defined"}
    BY <1>2, <2>1
  <2> QED
    BY <1>1, <2>1, <2>2, RedisNextStep
\* It waits for another answer of a loop over pairs.
<1>b. ASSUME Await(q), stage[q] = "success", at[q] + 2 \in DOMAIN Step(q).pairs
      PROVE  RedisRequest(q)'
  <2>1. /\ at'[q] = at[q] + 1 /\ UNCHANGED <<stage, todo, reason>> /\ Step(q)' = Step(q)
        /\ at'[q] # 0 /\ at'[q] + 1 = at[q] + 2
    BY <1>1, <1>b DEF Await, FrameDoms, Step
  <2>2. GetIsSafe(q)' /\ NullAnswer(q)' /\ PairIsThere(q)'
    BY <1>2, <1>b, <2>1 DEF Getting, GetIsSafe, NullAnswer, PairIsThere
  <2>3. Wrote(q)' => \A i \in DOMAIN todo[q] : todo[q][i].op = "setObjects" => i = 1
    <3>1. Wrote(q)' => Wrote(q) \/ WritesObject(q)
      BY <1>1 DEF Wrote, RedisSteps
    <3> QED
      BY <1>1, <3>1, OneStepWritesObjects DEF WritesObject, RedisRequest, Objects
  <2> QED
    BY <1>2, <1>3, <1>b, <2>1, <2>2, <2>3 DEF RedisRequest, Objects
<1>4. CASE ConnectsTo(q)
  BY <1>4, <1>a DEF ConnectsTo
<1>5. CASE OpensClient(q)
  <2>1. CASE \E why \in {"not connected", "connection"} : Reject(q, why)
    BY <1>a, <2>1
  <2>2. CASE UNCHANGED frame
    <3>1. UNCHANGED <<stage, todo, at, reason, call>> /\ Step(q)' = Step(q) /\ objects' = objects
      BY <1>5, <2>2 DEF frame, Step, OpensClient
    <3>2. ~Getting(q)
      BY <1>1, <1>5 DEF OpensClient, RedisRequest, GetIsSafe
    <3>3. GetIsSafe(q)' /\ NullAnswer(q)' /\ PairIsThere(q)'
      BY <1>1, <1>2, <3>1, <3>2 DEF Getting, GetIsSafe, NullAnswer, PairIsThere, RedisRequest
    <3>4. Objects(q)'
      BY <1>1, <3>1 DEF RedisRequest, Objects, Wrote
    <3> QED
      BY <3>3, <3>4 DEF RedisRequest
  <2> QED
    BY <1>5, <2>1, <2>2 DEF OpensClient
<1>6. CASE CommandFails(q)
  BY <1>6, <1>a DEF CommandFails
<1>7. CASE SetsEmpty(q)
  <2>1. /\ client[q] # None /\ stage[q] = "before" /\ todo[q] # <<>> /\ Step(q).op = "get"
        /\ client' = client /\ objects' = objects
    BY <1>7 DEF SetsEmpty, Command, Doing, InHook
  <2>2. CASE Await(q)
    <3>1. UNCHANGED <<stage, todo, reason>> /\ Step(q)' = Step(q)
      BY <2>2 DEF Await, Step
    <3>2. store'[client[q]][Step(q).key] # Absent
      <4>1. client[q] \in Servers /\ Step(q).key \in Keys /\ RedisDoms
        BY <1>1, <2>1, RedisStepIsPlanned DEF RedisInv, RedisDoms
      <4>2. EmptyObject # Absent
        BY DEF EmptyObject, Absent
      <4> QED
        BY <1>7, <4>1, <4>2 DEF SetsEmpty, Write, At, RedisDoms
    <3>3. GetIsSafe(q)' /\ NullAnswer(q)' /\ PairIsThere(q)'
      BY <1>2, <2>1, <3>1, <3>2 DEF Getting, GetIsSafe, NullAnswer, PairIsThere
    <3>4. Objects(q)'
      BY <1>1, <1>2, <1>3, <2>1, <3>1 DEF RedisRequest, Objects, Wrote
    <3> QED
      BY <3>3, <3>4 DEF RedisRequest
  <2>3. CASE Lost(q)
    BY <1>a, <2>3 DEF Lost
  <2> QED
    BY <1>7, <2>2, <2>3 DEF SetsEmpty
<1>8. CASE Gets(q)
  <2>1. CASE \E name, value : Receive(q, name, value)
    BY <1>a, <2>1
  <2>2. CASE Reject(q, "null answer") /\ At(q, Step(q).key) = Absent
    <3>1. Getting(q) /\ UNCHANGED <<client, objects, deleters>>
      BY <1>8 DEF Gets, Command, Doing, InHook, Getting, redisVars
    <3>2. stage'[q] = "failed" /\ todo'[q] = <<>> /\ reason'[q] = "null answer"
      BY <1>1, <2>2 DEF Reject, Fail, FrameDoms
    <3>3. Deleted(q)
      BY <1>1, <2>2, <3>1 DEF RedisRequest, GetIsSafe, At
    <3>4. NullAnswer(q)'
      BY <3>1, <3>2, <3>3 DEF NullAnswer, Deleted
    <3>5. GetIsSafe(q)' /\ PairIsThere(q)'
      BY <3>2 DEF Getting, GetIsSafe, PairIsThere
    <3>6. Objects(q)'
      <4>1. \A i \in DOMAIN <<>> : FALSE
        BY EmptyDomain
      <4> QED
        BY <1>3, <3>2, <4>1 DEF Objects
    <3> QED
      BY <3>4, <3>5, <3>6 DEF RedisRequest
  <2> QED
    BY <1>8, <2>1, <2>2 DEF Gets
<1>9. CASE GetsKeysContaining(q)
  BY <1>9, <1>a DEF GetsKeysContaining
<1>10. CASE Increments(q)
  BY <1>10, <1>a DEF Increments, Lost
<1>11. CASE SetsOutput(q)
  BY <1>11, <1>a DEF SetsOutput, Lost
<1>12. CASE SetsObjects(q)
  <2>1. stage[q] = "success" /\ todo[q] # <<>> /\ Step(q).op = "setObjects"
    BY <1>12 DEF SetsObjects, Command, Doing, InHook
  <2>2. CASE Reject(q, "not defined") /\ at[q] = 0 /\ objects' = objects
    <3>1. stage'[q] = "failed" /\ todo'[q] = <<>> /\ reason'[q] = "not defined"
      BY <1>1, <2>2 DEF Reject, Fail, FrameDoms
    <3>2. ~Wrote(q)
      <4>1. 1 \in DOMAIN todo[q] /\ todo[q][1].op = "setObjects"
        <5>1. IsSequence(todo[q])
          BY <1>1, <2>1 DEF FrameInv, OnPlan, HookStages, IsRest
        <5> QED
          BY <2>1, <5>1, SequenceFacts DEF Step
      <4> QED
        BY <1>1, <2>2, <4>1 DEF RedisRequest, Objects
    <3>3. GetIsSafe(q)' /\ NullAnswer(q)' /\ PairIsThere(q)'
      BY <3>1 DEF Getting, GetIsSafe, NullAnswer, PairIsThere
    <3>4. Objects(q)'
      BY <1>1, <1>3, <2>2, <3>1, <3>2 DEF Objects, Wrote
    <3> QED
      BY <3>3, <3>4 DEF RedisRequest
  <2>3. CASE SetsObject(q, Step(q).pairs[at[q] + 1])
    <3>1. ASSUME Await(q), at[q] + 1 < Len(Step(q).pairs)
          PROVE  RedisRequest(q)'
      <4>1. at[q] + 2 \in DOMAIN Step(q).pairs
        BY <1>1, <2>1, <3>1, MorePairs
      <4> QED
        BY <1>b, <2>1, <3>1, <4>1
    <3> QED
      BY <1>a, <2>3, <3>1 DEF SetsObject, Lost
  <2> QED
    BY <1>12, <2>2, <2>3 DEF SetsObjects
<1>13. CASE Deletes(q)
  <2>1. stage[q] = "success" /\ todo[q] # <<>> /\ Step(q).op = "del"
    BY <1>13 DEF Deletes, Command, Doing, InHook
  <2>2. ASSUME Await(q), at[q] + 1 < Len(Step(q).pairs)
        PROVE  RedisRequest(q)'
    <3>1. at[q] + 2 \in DOMAIN Step(q).pairs
      BY <1>1, <2>1, <2>2, MorePairs
    <3> QED
      BY <1>b, <2>1, <2>2, <3>1
  <2> QED
    BY <1>13, <1>a, <2>2 DEF Deletes, Lost
<1> QED
  BY <1>4, <1>5, <1>6, <1>7, <1>8, <1>9, <1>10, <1>11, <1>12, <1>13 DEF RedisActions

\* What leaves the variables of redis and the hooks of a request alone preserves
\* the invariant for it.
LEMMA RedisUnmoved ==
  ASSUME NEW r \in Requests, RedisRequest(r), UNCHANGED redisVars, plan' = plan,
         stage'[r] = stage[r], todo'[r] = todo[r], at'[r] = at[r], call'[r] = call[r],
         reason'[r] = reason[r]
  PROVE  RedisRequest(r)'
<1>1. Step(r)' = Step(r)
  BY DEF Step
<1>2. GetIsSafe(r)' /\ PairIsThere(r)'
  BY <1>1 DEF RedisRequest, Getting, Deleted, GetIsSafe, PairIsThere, redisVars
<1>3. NullAnswer(r)'
  BY DEF RedisRequest, NullAnswer, Deleted, redisVars
<1>4. Objects(r)'
  BY DEF RedisRequest, Objects, Wrote, redisVars
<1> QED
  BY <1>2, <1>3, <1>4 DEF RedisRequest

\* Starting a request, running its contract and ending a hook preserve it.
LEMMA RedisKeptByRequests ==
  ASSUME RedisInv, FrameInv', RequestsNext, UNCHANGED redisVars,
         NEW r \in Requests, Uses(r, "redis")
  PROVE  RedisRequest(r)'
<1> PICK q \in Requests : RequestStep(q)
  BY DEF RequestsNext, RequestStep
<1>1. /\ FrameInv /\ FrameDoms /\ Kept(q) /\ RedisRequest(r) /\ OnPlan(r) /\ plan' = plan
      /\ call[r] \in Nat
  BY RequestStepKeeps DEF RedisInv, FrameInv, FrameDoms, Kept
<1>2. CASE r # q
  BY <1>1, <1>2, RedisUnmoved DEF Kept
<1>3. CASE r = q
  <2>1. todo[q] = <<>> /\ stage[q] # "failed"
    BY <1>1, <1>3 DEF RequestStep, EnterBefore, DataIsMalformed, ZenroomRuns, ZenroomRejects,
                      SuccessEnds, OnPlan, HookStages
  <2>2. at'[q] = 0
    <3>1. at[q] = 0
      BY <1>1, <2>1 DEF FrameDoms
    <3> QED
      BY <1>1, <3>1 DEF RequestStep, EnterBefore, DataIsMalformed, ZenroomRuns, ZenroomRejects,
                        SuccessEnds, Reject, Fail, FrameDoms
  <2>3. reason'[q] \notin {"null answer", "not defined"}
    <3>1. reason[q] \notin {"null answer", "not defined"}
      BY <1>1, <1>3, <2>1 DEF RedisRequest, NullAnswer, Objects
    <3> QED
      BY <1>1, <3>1 DEF RequestStep, EnterBefore, DataIsMalformed, ZenroomRuns, ZenroomRejects,
                        SuccessEnds, Reject, Fail, FrameDoms
  <2>4. GetIsSafe(q)' /\ NullAnswer(q)'
    <3>1. ~Getting(q)'
      BY <2>2, NotAtTheGet
    <3>2. GetIsSafe(q)'
      BY <3>1 DEF GetIsSafe
    <3>3. NullAnswer(q)'
      BY <2>3 DEF NullAnswer
    <3> QED
      BY <3>2, <3>3
  <2>5. PairIsThere(q)'
    BY <1>1, <1>3, <2>2, LoopsHavePairsNext DEF FreshPairs, Uses
  <2>6. Objects(q)'
    <3>1. \A c \in Nat, k \in Keys : <<q, c, k>> \in objects' => c <= call[q]
      BY <1>1, <1>3 DEF RedisRequest, Objects, redisVars
    <3>2. Wrote(q) => stage[q] # "before"
      BY <1>1, <1>3 DEF RedisRequest, Objects
    <3>3. CASE EnterBefore(q)
      <4>1. call'[q] = call[q] + 1
        BY <1>1, <3>3 DEF EnterBefore, FrameDoms
      <4>2. \A c \in Nat, k \in Keys : <<q, c, k>> \in objects' => c < call'[q]
        BY <1>1, <1>3, <3>1, <4>1
      <4>3. call'[q] \in Nat /\ ~(call'[q] < call'[q])
        BY <1>1, <1>3, <4>1
      <4>4. ~Wrote(q)'
        BY <4>2, <4>3 DEF Wrote
      <4>5. \A c \in Nat, k \in Keys : <<q, c, k>> \in objects' => c <= call'[q]
        BY <4>2, <4>3
      <4> QED
        BY <2>3, <4>4, <4>5 DEF Objects
    <3>4. CASE ZenroomRuns(q)
      <4>1. stage[q] = "before" /\ call' = call
        BY <3>4 DEF ZenroomRuns
      <4>2. ~Wrote(q)'
        BY <3>2, <4>1 DEF Wrote, redisVars
      <4> QED
        BY <2>3, <3>1, <4>1, <4>2 DEF Objects
    <3>5. CASE DataIsMalformed(q) \/ ZenroomRejects(q) \/ SuccessEnds(q)
      <4>1. call' = call /\ todo'[q] = <<>> /\ stage'[q] # "before"
        BY <1>1, <2>1, <3>5 DEF DataIsMalformed, ZenroomRejects, SuccessEnds, Reject, Fail, FrameDoms
      <4> QED
        BY <2>3, <3>1, <4>1, EmptyDomain DEF Objects
    <3> QED
      BY <3>3, <3>4, <3>5 DEF RequestStep
  <2> QED
    BY <1>3, <2>4, <2>5, <2>6 DEF RedisRequest
<1> QED
  BY <1>2, <1>3

\* Every step of the composed system preserves the invariant.
LEMMA RedisInvStep == RedisInv /\ [Next]_vars => RedisInv'
<1> SUFFICES ASSUME RedisInv, [Next]_vars PROVE RedisInv'
  OBVIOUS
<1>1. FrameInv' /\ (RedisNext \/ Foreign("redis", redisVars)) /\ plan' = plan
  <2>1. FrameInv' /\ FrameDoms /\ (RedisNext \/ Foreign("redis", redisVars))
    BY FrameInvStep, ForeignSteps DEF RedisInv, FrameInv
  <2> QED
    BY <2>1, PlanIsKept DEF RedisInv
<1>2. \A r \in Requests : Uses(r, "redis")' <=> Uses(r, "redis")
  BY <1>1 DEF Uses
<1>3. CASE RedisNext
  <2> PICK q \in Requests : Uses(q, "redis") /\ (RedisActions(q) \/ ConnectionBreaks(q))
    BY <1>3 DEF RedisNext, RedisActions
  <2>1. CASE RedisActions(q)
    <3>1. RedisSteps(q)
      BY <2>1, RedisEffect
    <3> QED
      BY <1>1, <1>2, <2>1, <3>1, RedisDomsStep, RedisOthers, RedisOwnStep DEF RedisInv
  <2>2. CASE ConnectionBreaks(q)
    <3>1. UNCHANGED <<redisVars, plan, stage, todo, at, call, reason>>
      BY <2>2 DEF ConnectionBreaks, Crash
    <3>2. RedisDoms'
      BY <3>1 DEF RedisInv, RedisDoms, redisVars
    <3> QED
      BY <1>1, <1>2, <3>1, <3>2, RedisUnmoved DEF RedisInv
  <2> QED
    BY <2>1, <2>2
<1>4. CASE UNCHANGED redisVars
  <2>1. RedisDoms'
    BY <1>4 DEF RedisInv, RedisDoms, redisVars
  <2>2. CASE RequestsNext
    BY <1>1, <1>2, <1>4, <2>1, <2>2, RedisKeptByRequests DEF RedisInv
  <2>3. CASE StepElsewhere("redis")
    <3>1. ASSUME NEW r \in Requests, Uses(r, "redis") PROVE RedisRequest(r)'
      <4>1. /\ stage'[r] = stage[r] /\ todo'[r] = todo[r] /\ at'[r] = at[r] /\ call'[r] = call[r]
            /\ reason'[r] = reason[r]
        BY <2>3, <3>1 DEF StepElsewhere, Steps, Works, Kept, frame
      <4> QED
        BY <1>1, <1>4, <3>1, <4>1, RedisUnmoved DEF RedisInv
    <3> QED
      BY <1>1, <1>2, <2>1, <3>1 DEF RedisInv
  <2> QED
    BY <1>1, <2>2, <2>3, <1>3 DEF Foreign
<1> QED
  BY <1>1, <1>3, <1>4 DEF Foreign

\* A GET finds nothing only if another request has deleted its key, on its server,
\* since its SETNX: for any requests and plans.
THEOREM OnlyDeletedKeysAreMissed == Spec => []GetFailsOnlyAfterDel
<1>1. RedisInv => GetFailsOnlyAfterDel
  BY DEF RedisInv, RedisRequest, NullAnswer, Deleted, GetFailsOnlyAfterDel
<1> QED
  BY <1>1, RedisInvInit, RedisInvStep, PTL DEF Spec

\* SET_OBJECT_NAMED writes all its objects or finds one missing first: for any
\* requests and plans.
THEOREM NoHalfObjects == Spec => []ObjectsAllOrNothing
<1>1. RedisInv => ObjectsAllOrNothing
  BY DEF RedisInv, RedisRequest, Objects, Wrote, ObjectsAllOrNothing
<1> QED
  BY <1>1, RedisInvInit, RedisInvStep, PTL DEF Spec

-----------------------------------------------------------------------------
(* The keys of redis are dispensers of numbers. *)

\* Of this key of this server a step draws a ticket, loses one or puts a new
\* roll in, or it leaves the roll alone.
Ticket(s, k) == Roll(s, k)!Next \/ UNCHANGED <<NextNumber(s, k), DrawnFrom(s, k)>>

\* All rolls are new at first.
LEMMA RollsInit == Init => \A s \in Servers, k \in Keys : Roll(s, k)!Init
<1> SUFFICES ASSUME Init, NEW s \in Servers, NEW k \in Keys
             PROVE  NextNumber(s, k) = 0 /\ DrawnFrom(s, k) = {}
  BY DEF Roll!Init
<1>1. store[s][k] = <<"absent">> /\ drawn = {}
  BY DEF Init, RedisInit, Absent
<1> QED
  BY <1>1 DEF NextNumber, DrawnFrom

\* Writing anything but a number puts a new roll in.
LEMMA WriteIsNewRoll ==
  ASSUME RedisDoms, NEW q \in Requests, client[q] \in Servers, NEW key \in Keys,
         NEW value, value[1] # "number", Write(q, key, value),
         NEW s \in Servers, NEW k \in Keys
  PROVE  Ticket(s, k)
<1>1. CASE s = client[q] /\ k = key
  <2>1. NextNumber(s, k)' = 0
    BY <1>1 DEF Write, NextNumber, RedisDoms
  <2>2. DrawnFrom(s, k)' = {}
    BY <1>1 DEF Write, DrawnFrom
  <2> QED
    BY <2>1, <2>2 DEF Ticket, Roll!Next, Roll!NewRoll
<1>2. CASE ~(s = client[q] /\ k = key)
  <2>1. store'[s][k] = store[s][k]
    BY <1>2 DEF Write, RedisDoms
  <2>2. {e \in drawn' : e[1] = s /\ e[2] = k} = {e \in drawn : e[1] = s /\ e[2] = k}
    BY <1>2 DEF Write
  <2> QED
    BY <2>1, <2>2 DEF Ticket, NextNumber, DrawnFrom
<1> QED
  BY <1>1, <1>2

\* INCREMENT draws a ticket or loses one.
LEMMA IncrementIsTicket ==
  ASSUME RedisDoms, NEW q \in Requests, client[q] \in Servers, Step(q).key \in Keys,
         Increments(q), NEW s \in Servers, NEW k \in Keys
  PROVE  Ticket(s, k)
<1> DEFINE key == Step(q).key
           old == At(q, key)
           n   == IF old = Absent THEN 0 ELSE old[2]
           draws == {<<client[q], key, q, n>>}
<1>1. CASE UNCHANGED <<store, drawn>>
  BY <1>1 DEF Ticket, NextNumber, DrawnFrom
<1>2. CASE /\ old = Absent \/ old[1] = "number"
           /\ store' = [store EXCEPT ![client[q]][key] = Number(n + 1)]
           /\ drawn' = drawn \cup draws \/ drawn' = drawn
  <2> HIDE DEF n
  <2>1. CASE s = client[q] /\ k = key
    <3>1. NextNumber(s, k) = n
      BY <1>2, <2>1 DEF NextNumber, At, Absent, n
    <3>2. store'[s][k] = Number(n + 1)
      BY <1>2, <2>1 DEF RedisDoms
    <3>3. NextNumber(s, k)' = n + 1
      BY <3>2 DEF NextNumber, Number
    <3>4. drawn' = drawn => DrawnFrom(s, k)' = DrawnFrom(s, k)
      BY DEF DrawnFrom
    <3>5. ASSUME drawn' = drawn \cup draws
          PROVE  DrawnFrom(s, k)' = DrawnFrom(s, k) \cup {<<q, n>>}
      <4> DEFINE of == {e \in drawn : e[1] = s /\ e[2] = k}
                 ofNext == {e \in drawn' : e[1] = s /\ e[2] = k}
      <4>1. ofNext = of \cup draws
        BY <2>1, <3>5
      <4>2. \A d \in draws : <<d[3], d[4]>> = <<q, n>>
        OBVIOUS
      <4>3. draws # {}
        OBVIOUS
      <4> HIDE DEF of, ofNext, draws
      <4>4. {<<d[3], d[4]>> : d \in ofNext} = {<<d[3], d[4]>> : d \in of} \cup {<<q, n>>}
        BY <4>1, <4>2, <4>3
      <4> QED
        BY <4>4 DEF DrawnFrom, of, ofNext
    <3> HIDE DEF draws
    <3> QED
      BY <1>2, <3>1, <3>3, <3>4, <3>5 DEF Ticket, Roll!Next, Roll!Draw, Roll!Lose
  <2>2. CASE ~(s = client[q] /\ k = key)
    <3>1. store'[s][k] = store[s][k]
      BY <1>2, <2>2 DEF RedisDoms
    <3>2. \A e \in draws : ~(e[1] = s /\ e[2] = k)
      BY <2>2
    <3> HIDE DEF draws
    <3>3. {e \in drawn' : e[1] = s /\ e[2] = k} = {e \in drawn : e[1] = s /\ e[2] = k}
      BY <1>2, <3>2
    <3> QED
      BY <3>1, <3>3 DEF Ticket, NextNumber, DrawnFrom
  <2> QED
    BY <2>1, <2>2
<1> QED
  BY <1>1, <1>2 DEF Increments

\* So every step of redis is one of each dispenser.
LEMMA RedisStepIsTicket ==
  ASSUME RedisInv, NEW q \in Requests, Uses(q, "redis"), RedisActions(q),
         NEW s \in Servers, NEW k \in Keys
  PROVE  Ticket(s, k)
<1>1. FrameInv /\ RedisDoms /\ PairIsThere(q)
  BY DEF RedisInv, RedisRequest
<1>2. todo[q] # <<>> /\ stage[q] \in HookStages
  BY DEF RedisActions, ConnectsTo, OpensClient, CommandFails, SetsEmpty, Gets,
         GetsKeysContaining, Increments, SetsOutput, SetsObjects, Deletes, Command, Doing, InHook,
         HookStages
<1>3. client[q] # None => client[q] \in Servers
  BY <1>1 DEF RedisDoms
<1>4. UNCHANGED <<store, drawn>> => Ticket(s, k)
  BY DEF Ticket, NextNumber, DrawnFrom
<1>5. CASE ConnectsTo(q) \/ OpensClient(q) \/ CommandFails(q) \/ Gets(q) \/ GetsKeysContaining(q)
  BY <1>4, <1>5 DEF ConnectsTo, OpensClient, CommandFails, Gets, GetsKeysContaining, redisVars
<1>6. CASE SetsEmpty(q)
  <2>1. client[q] # None /\ Step(q).key \in Keys
    BY <1>1, <1>2, <1>6, RedisStepIsPlanned DEF SetsEmpty, Command, Doing, InHook
  <2>2. EmptyObject[1] # "number"
    BY DEF EmptyObject
  <2>3. CASE Write(q, Step(q).key, EmptyObject)
    BY <1>1, <1>3, <2>1, <2>2, <2>3, WriteIsNewRoll
  <2> QED
    BY <1>4, <1>6, <2>3 DEF SetsEmpty
<1>7. CASE Increments(q)
  <2>1. client[q] # None /\ Step(q).key \in Keys
    BY <1>1, <1>2, <1>7, RedisStepIsPlanned DEF Increments, Command, Doing, InHook
  <2> QED
    BY <1>1, <1>3, <1>7, <2>1, IncrementIsTicket
<1>8. CASE SetsOutput(q)
  <2>1. client[q] # None /\ Step(q).key \in Keys /\ Write(q, Step(q).key, Output(q))
    BY <1>1, <1>2, <1>8, RedisStepIsPlanned DEF SetsOutput, Command, Doing, InHook
  <2>2. Output(q)[1] # "number"
    BY DEF Output
  <2> QED
    BY <1>1, <1>3, <2>1, <2>2, WriteIsNewRoll
<1>9. CASE SetsObjects(q)
  <2> DEFINE key == Step(q).pairs[at[q] + 1].key
  <2>1. client[q] # None /\ key \in Keys
    BY <1>1, <1>2, <1>9, RedisStepIsPlanned DEF SetsObjects, Command, Doing, InHook, PairIsThere
  <2>2. UNCHANGED <<store, drawn>> \/ Write(q, key, <<"object", q, call[q], key>>)
    BY <1>9 DEF SetsObjects, SetsObject
  <2>3. <<"object", q, call[q], key>>[1] # "number"
    OBVIOUS
  <2> HIDE DEF key
  <2> QED
    BY <1>1, <1>3, <1>4, <2>1, <2>2, <2>3, WriteIsNewRoll
<1>10. CASE Deletes(q)
  <2> DEFINE key == Step(q).pairs[at[q] + 1].key
  <2>1. client[q] # None /\ key \in Keys
    BY <1>1, <1>2, <1>10, RedisStepIsPlanned DEF Deletes, Command, Doing, InHook, PairIsThere
  <2>2. UNCHANGED <<store, drawn>> \/ Write(q, key, Absent)
    BY <1>10 DEF Deletes
  <2>3. Absent[1] # "number"
    BY DEF Absent
  <2> HIDE DEF key
  <2> QED
    BY <1>1, <1>3, <1>4, <2>1, <2>2, <2>3, WriteIsNewRoll
<1> QED
  BY <1>5, <1>6, <1>7, <1>8, <1>9, <1>10 DEF RedisActions

\* And every step of the system that changes something of redis.
LEMMA StepIsTicket ==
  RedisInv /\ [Next]_vars => [\A s \in Servers, k \in Keys : Ticket(s, k)]_redisVars
<1> SUFFICES ASSUME RedisInv, [Next]_vars, ~UNCHANGED redisVars, NEW s \in Servers, NEW k \in Keys
             PROVE  Ticket(s, k)
  OBVIOUS
<1>1. FrameDoms
  BY DEF RedisInv, FrameInv
<1>2. RedisNext
  BY <1>1, ForeignSteps DEF Foreign
<1>3. PICK q \in Requests : Uses(q, "redis") /\ RedisActions(q)
  BY <1>2 DEF RedisNext, RedisActions, ConnectionBreaks
<1> QED
  BY <1>3, RedisStepIsTicket

\* INCREMENT gives each number of a key to one request and skips only those
\* whose answer is lost: the keys of redis implement Tickets, for any requests,
\* servers and keys.
THEOREM CountersGiveTickets == Spec => CountersAreTickets
<1>1. RedisInv /\ [Next]_vars =>
        [\A s \in Servers, k \in Keys :
           Roll(s, k)!Next \/ UNCHANGED <<NextNumber(s, k), DrawnFrom(s, k)>>]_redisVars
  BY StepIsTicket DEF Ticket
<1> QED
  BY <1>1, RollsInit, RedisInvInit, RedisInvStep, PTL DEF Spec, CountersAreTickets

-----------------------------------------------------------------------------
(* The inductive invariant, for each request that uses db. *)

DbOps == {"getRecord", "saveOutput", "saveVar"}

\* A query is under way.
Queries(r) == todo[r] # <<>> /\ Step(r).op \in DbOps /\ at[r] # 0

\* While a query is under way Result points where the query wants it, or it has
\* been bound by another request.
Bound(r) == Queries(r) => binding.place = Query(r).place \/ binding.conn[1] # r

Committed(r) == \A i \in DOMAIN sql[r] : sql[r][i] = "committed"

\* Transactions are open only while the hook waits for them or after it failed.
StatementsSettled(r) ==
  \/ Committed(r)
  \/ stage[r] = "failed"
  \/ stage[r] = "before" /\ todo[r] # <<>> /\ Step(r).op = "sql" /\ at[r] = 1

\* Before it fails or executes SQL a request has one connection at most, that
\* of the query under way.
Held(r) ==
  \A c \in open :
    c[1] = r => sql[r] # <<>> \/ stage[r] = "failed" \/ (Queries(r) /\ c = <<r, opened[r]>>)

DbRequest(r) == Bound(r) /\ StatementsSettled(r) /\ Held(r)

DbParts ==
  /\ DOMAIN sql = Requests /\ opened \in [Requests -> Nat]
  /\ \A c \in open : c[1] \in Requests /\ Uses(c[1], "db")
  /\ \A r \in Requests : Uses(r, "db") => DbRequest(r)

DbInv == FrameInv /\ DbParts

\* The invariant holds before any request has called a hook.
LEMMA DbInvInit == Init => DbInv
<1> SUFFICES ASSUME Init PROVE DbParts
  BY FrameInvInit DEF DbInv
<1>1. /\ at = [r \in Requests |-> 0] /\ sql = [r \in Requests |-> <<>>]
      /\ opened = [r \in Requests |-> 0] /\ open = {}
  BY DEF Init, RequestsInit, DbInit
<1> QED
  BY <1>1 DEF DbParts, DbRequest, Bound, Queries, StatementsSettled, Committed, Held

\* A step leaves the variables of db as they are, but for what is q's.
DbOnlyOf(q) ==
  /\ binding' = binding \/ binding'.conn[1] = q
  /\ DOMAIN sql' = Requests /\ opened' \in [Requests -> Nat]
  /\ \A r \in Requests \ {q} : sql'[r] = sql[r] /\ opened'[r] = opened[r]
  /\ \A c \in open' : c \in open \/ c[1] = q

\* Such a step preserves the invariant for all other requests.
LEMMA OthersKeepDbInv ==
  ASSUME DbInv, NEW q \in Requests, Kept(q), DbOnlyOf(q),
         NEW r \in Requests, r # q, Uses(r, "db")
  PROVE  DbRequest(r)'
<1>1. /\ DbRequest(r) /\ plan' = plan /\ stage'[r] = stage[r] /\ todo'[r] = todo[r] /\ at'[r] = at[r]
      /\ sql'[r] = sql[r] /\ opened'[r] = opened[r]
  BY DEF DbInv, DbParts, Kept, DbOnlyOf
<1>2. Step(r)' = Step(r) /\ Query(r)' = Query(r) /\ Queries(r)' = Queries(r)
  BY <1>1 DEF Step, Query, Queries
<1>3. Bound(r)'
  <2>1. CASE binding' = binding
    BY <1>1, <1>2, <2>1 DEF DbRequest, Bound
  <2>2. CASE binding'.conn[1] = q
    BY <2>2 DEF Bound
  <2> QED
    BY <2>1, <2>2 DEF DbOnlyOf
<1>4. StatementsSettled(r)'
  BY <1>1, <1>2 DEF DbRequest, StatementsSettled, Committed
<1>5. Held(r)'
  BY <1>1, <1>2 DEF DbRequest, Held, DbOnlyOf
<1> QED
  BY <1>3, <1>4, <1>5 DEF DbRequest

\* What has to be shown of the request that takes the step.
LEMMA DbInvStep ==
  ASSUME DbInv, NEW q \in Requests, Kept(q), DbOnlyOf(q), Uses(q, "db"), DbRequest(q)'
  PROVE  DbParts'
<1>1. \A r \in Requests : Uses(r, "db")' <=> Uses(r, "db")
  BY DEF Kept, Uses
<1>2. \A c \in open' : c[1] \in Requests /\ Uses(c[1], "db")
  BY DEF DbOnlyOf, DbInv, DbParts
<1> QED
  BY <1>1, <1>2, OthersKeepDbInv DEF DbParts, DbOnlyOf

\* The invariant says nothing of a request but for its own hooks: what leaves
\* the variables of db and the hooks of q alone preserves it for q.
LEMMA DbRequestUnmoved ==
  ASSUME NEW q \in Requests, DbRequest(q), UNCHANGED dbVars,
         stage'[q] = stage[q], todo'[q] = todo[q], at'[q] = at[q]
  PROVE  DbRequest(q)'
  BY DEF DbRequest, Bound, Queries, Query, StatementsSettled, Committed, Held, Step, dbVars

-----------------------------------------------------------------------------
(* The steps of db. *)

\* One turn of the loop over the queries, when none of the connections kept is
\* that of an earlier query.
LEMMA NextQueryKeeps ==
  ASSUME DbInv, NEW q \in Requests, Uses(q, "db"), Kept(q),
         stage[q] \in HookStages, todo[q] # <<>>, Step(q).op \in DbOps,
         NEW i \in Nat \ {0}, NEW kept \in SUBSET open, NextQuery(q, i, kept), sql' = sql,
         \A c \in kept : c[1] = q => sql[q] # <<>>
  PROVE  DbParts'
<1>1. /\ DbRequest(q) /\ DOMAIN sql = Requests /\ opened \in [Requests -> Nat] /\ FrameDoms
  BY DEF DbInv, DbParts, FrameInv
<1>2. Committed(q)' /\ StatementsSettled(q)'
  BY <1>1 DEF DbRequest, StatementsSettled, Committed, DbOps, HookStages
<1>3. CASE Proceed(q) /\ open' = kept /\ UNCHANGED <<binding, opened>>
  <2>1. ~Queries(q)'
    BY <1>1, <1>3 DEF Proceed, Queries, FrameDoms
  <2>2. Bound(q)' /\ Held(q)'
    BY <1>3, <2>1 DEF Bound, Held
  <2>3. DbOnlyOf(q)
    BY <1>1, <1>3 DEF DbOnlyOf
  <2> QED
    BY <1>2, <2>2, <2>3, DbInvStep DEF DbRequest
<1>4. CASE Fail(q, "missing variable") /\ open' = kept /\ UNCHANGED <<binding, opened>>
  <2>1. ~Queries(q)' /\ stage'[q] = "failed"
    BY <1>1, <1>4 DEF Fail, Queries, FrameDoms
  <2>2. Bound(q)' /\ Held(q)'
    BY <2>1 DEF Bound, Held
  <2>3. DbOnlyOf(q)
    BY <1>1, <1>4 DEF DbOnlyOf
  <2> QED
    BY <1>2, <2>2, <2>3, DbInvStep DEF DbRequest
<1>5. CASE /\ Bind(q, Step(q).queries[i].place, kept)
           /\ at' = [at EXCEPT ![q] = i]
           /\ UNCHANGED <<plan, stage, todo>>
  <2>1. at'[q] = i /\ opened'[q] = opened[q] + 1
    BY <1>1, <1>5 DEF Bind, FrameDoms
  <2>2. /\ binding' = [conn |-> <<q, opened[q] + 1>>, place |-> Step(q).queries[i].place]
        /\ open' = kept \cup {<<q, opened[q] + 1>>}
    BY <1>5 DEF Bind
  <2>3. Step(q)' = Step(q) /\ Query(q)' = Step(q).queries[i] /\ Queries(q)'
    BY <1>5, <2>1 DEF Query, Step, Queries
  <2>4. Bound(q)' /\ Held(q)'
    BY <2>1, <2>2, <2>3 DEF Bound, Held
  <2>5. DbOnlyOf(q)
    BY <1>1, <1>5, <2>2 DEF DbOnlyOf, Bind
  <2> QED
    BY <1>2, <2>4, <2>5, DbInvStep DEF DbRequest
<1> QED
  BY <1>3, <1>4, <1>5 DEF NextQuery

\* A hook of a request that uses db ends.
LEMMA FailKeeps ==
  ASSUME DbInv, NEW q \in Requests, Uses(q, "db"), NEW why \in Reasons, Fail(q, why),
         UNCHANGED <<binding, opened, open>>,
         DOMAIN sql' = Requests, \A r \in Requests \ {q} : sql'[r] = sql[r]
  PROVE  DbParts'
<1>1. Kept(q) /\ at'[q] = 0 /\ todo'[q] = <<>> /\ stage'[q] = "failed"
  BY BlocksKeep DEF BlocksStep, Works, Fail, FrameInv, FrameDoms, DbInv
<1>2. DbRequest(q)'
  BY <1>1 DEF DbRequest, Bound, Queries, StatementsSettled, Held
<1>3. DbOnlyOf(q)
  BY DEF DbOnlyOf, DbInv, DbParts
<1> QED
  BY <1>1, <1>2, <1>3, DbInvStep

\* Every action of db preserves the invariant.
LEMMA DbStep == ASSUME DbInv, DbNext PROVE DbParts'
<1> PICK q \in Requests :
      /\ Uses(q, "db")
      /\ \/ Validates(q) \/ Accesses(q) \/ AccessFails(q) \/ CloseFails(q) \/ StartsSql(q)
         \/ SqlDone(q)
         \/ \E i \in DOMAIN sql[q] : SqlExecutes(q, i) \/ SqlCommits(q, i) \/ SqlFails(q, i)
  BY DEF DbNext
<1>1. /\ DbRequest(q) /\ FrameDoms /\ DOMAIN sql = Requests /\ opened \in [Requests -> Nat]
      /\ at[q] \in Nat
  BY DEF DbInv, DbParts, FrameInv, FrameDoms
<1>2. BlocksStep(q) /\ StepIsThere(q)
  BY <1>1, BlocksKeep
<1>3. CASE Validates(q)
  <2>1. stage[q] \in HookStages /\ todo[q] # <<>> /\ Step(q).op \in DbOps /\ at[q] = 0 /\ sql' = sql
    BY <1>3 DEF Validates, OnResult, InHook, DbOps, HookStages
  <2>2. CASE Reject(q, "not declared") /\ UNCHANGED <<binding, opened, open>>
    BY <1>1, <2>1, <2>2, FailKeeps DEF Reject, Reasons
  <2>3. CASE NextQuery(q, 1, open)
    <3>1. Kept(q)
      BY <1>1, <2>1, <2>3, NextQueryWorks DEF Works
    <3>2. \A c \in open : c[1] = q => sql[q] # <<>>
      BY <1>1, <2>1 DEF DbRequest, Held, Queries, HookStages
    <3>3. 1 \in Nat \ {0}
      OBVIOUS
    <3> QED
      BY <2>1, <2>3, <3>1, <3>2, <3>3, NextQueryKeeps
  <2> QED
    BY <1>3, <2>2, <2>3 DEF Validates
<1>4. CASE Accesses(q)
  <2>1. /\ stage[q] \in HookStages /\ todo[q] # <<>> /\ Step(q).op \in DbOps /\ at[q] > 0
        /\ NextQuery(q, at[q] + 1, open \ {<<q, opened[q]>>}) /\ sql' = sql
    BY <1>4 DEF Accesses, OnResult, InHook, DbOps, HookStages
  <2>2. at[q] + 1 \in Nat \ {0}
    BY <1>1
  <2>3. Kept(q)
    BY <1>1, <2>1, <2>2, NextQueryWorks DEF Works
  <2>4. \A c \in open \ {<<q, opened[q]>>} : c[1] = q => sql[q] # <<>>
    BY <1>1, <2>1 DEF DbRequest, Held, HookStages
  <2>5. open \ {<<q, opened[q]>>} \in SUBSET open
    OBVIOUS
  <2> QED
    BY <2>1, <2>2, <2>3, <2>4, <2>5, NextQueryKeeps
<1>5. CASE AccessFails(q)
  BY <1>1, <1>5, FailKeeps DEF AccessFails, Reject, Reasons, dbVars
<1>6. CASE StartsSql(q)
  <2>1. /\ stage[q] = "before" /\ todo[q] # <<>> /\ Step(q).op = "sql" /\ at[q] = 0
        /\ at' = [at EXCEPT ![q] = @ + 1] /\ UNCHANGED <<plan, stage, todo, binding>>
    BY <1>6 DEF StartsSql, Doing, InHook, Await
  <2>2. Kept(q) /\ at'[q] = 1 /\ Step(q)' = Step(q)
    BY <1>1, <1>2, <1>6, <2>1 DEF StartsSql, BlocksStep, Steps, Works, FrameDoms, Step
  <2>3. PICK n : /\ n = Len(Step(q).names)
                 /\ sql' = [sql EXCEPT ![q] = [i \in 1..n |-> "begun"]]
                 /\ opened' = [opened EXCEPT ![q] = @ + n]
                 /\ open' = open \cup {<<q, opened[q] + i>> : i \in 1..n}
    BY <1>6 DEF StartsSql
  <2>4. n \in Nat /\ n >= 1
    <3>1. Step(q) \in Asked("db", "before")
      BY <2>1, StepIsAsked DEF DbInv, HookStages, Uses
    <3> QED
      BY <2>1, <2>3, <3>1, DbAssumption, SequenceFacts
  <2>5. DbOnlyOf(q)
    BY <1>1, <2>1, <2>3, <2>4 DEF DbOnlyOf
  <2>6. Bound(q)' /\ StatementsSettled(q)'
    BY <2>1, <2>2 DEF Bound, Queries, StatementsSettled, DbOps
  <2>7. sql'[q] # <<>>
    <3>1. sql'[q] = [i \in 1..n |-> "begun"] /\ 1 \in 1..n
      BY <1>1, <2>3, <2>4
    <3>2. 1 \in DOMAIN sql'[q] /\ DOMAIN <<>> = {}
      BY <3>1
    <3> QED
      BY <3>2
  <2> QED
    BY <2>2, <2>5, <2>6, <2>7, DbInvStep DEF DbRequest, Held
<1>7. CASE SqlDone(q)
  <2>1. stage[q] = "before" /\ todo[q] # <<>> /\ at[q] = 1 /\ Step(q).op = "sql"
    BY <1>7 DEF SqlDone, Doing, InHook
  <2>2. Kept(q) /\ at'[q] = 0 /\ stage' = stage
    BY <1>1, <1>2, <1>7, <2>1 DEF SqlDone, Continue, Proceed, BlocksStep, Steps, Works, FrameDoms
  <2>3. Bound(q)' /\ StatementsSettled(q)' /\ DbOnlyOf(q)
    BY <1>1, <1>7, <2>2 DEF SqlDone, dbVars, Bound, Queries, StatementsSettled, Committed, DbOnlyOf
  <2>4. ~Queries(q)
    BY <2>1 DEF Queries, DbOps
  <2>5. Held(q)'
    BY <1>1, <1>7, <2>2, <2>4 DEF SqlDone, dbVars, DbRequest, Held
  <2> QED
    BY <2>2, <2>3, <2>5, DbInvStep DEF DbRequest
<1>8. ASSUME NEW i \in DOMAIN sql[q], SqlExecutes(q, i) \/ SqlCommits(q, i)
      PROVE  DbParts'
  <2>1. ~Committed(q)
    BY <1>8 DEF SqlExecutes, SqlCommits, Committed
  <2>2. UNCHANGED <<plan, stage, todo, at, binding, opened, open>>
    BY <1>8 DEF SqlExecutes, SqlCommits, frame
  <2>3. Kept(q)
    BY <1>1, <1>2, <1>8 DEF SqlExecutes, SqlCommits, BlocksStep, Steps, Works
  <2>4. DbOnlyOf(q) /\ sql'[q] # <<>>
    <3>1. \E v : sql' = [sql EXCEPT ![q][i] = v]
      BY <1>8 DEF SqlExecutes, SqlCommits
    <3>2. i \in DOMAIN sql'[q] /\ DOMAIN <<>> = {}
      BY <1>1, <3>1
    <3>3. sql'[q] # <<>>
      BY <3>2
    <3> QED
      BY <1>1, <2>2, <3>1, <3>3 DEF DbOnlyOf
  <2>5. Bound(q)' /\ StatementsSettled(q)'
    BY <1>1, <2>1, <2>2 DEF DbRequest, Bound, Queries, StatementsSettled, Step, Query
  <2> QED
    BY <2>3, <2>4, <2>5, DbInvStep DEF DbRequest, Held
<1>9. ASSUME NEW i \in DOMAIN sql[q], SqlFails(q, i)
      PROVE  DbParts'
  <2>1. ~Committed(q)
    BY <1>9 DEF SqlFails, Committed
  <2>2. /\ sql' = [sql EXCEPT ![q][i] = "failed"] /\ DOMAIN sql' = Requests
        /\ UNCHANGED <<binding, opened, open>>
        /\ \A r \in Requests \ {q} : sql'[r] = sql[r]
    BY <1>1, <1>9 DEF SqlFails
  <2>3. CASE Reject(q, "sql")
    BY <2>2, <2>3, FailKeeps DEF Reject, Reasons
  <2>4. CASE UNCHANGED frame
    <3>1. Kept(q) /\ UNCHANGED <<plan, stage, todo, at>>
      BY <1>1, <1>2, <2>4 DEF BlocksStep, Steps, Works, frame
    <3>2. i \in DOMAIN sql'[q] /\ DOMAIN <<>> = {}
      BY <1>1, <2>2
    <3>3. sql'[q] # <<>>
      BY <3>2
    <3>4. Bound(q)' /\ StatementsSettled(q)'
      BY <1>1, <2>1, <2>2, <3>1 DEF DbRequest, Bound, Queries, StatementsSettled, Step, Query
    <3>5. DbOnlyOf(q)
      BY <1>1, <2>2 DEF DbOnlyOf
    <3> QED
      BY <3>1, <3>3, <3>4, <3>5, DbInvStep DEF DbRequest, Held
  <2> QED
    BY <1>9, <2>3, <2>4 DEF SqlFails
<1>10. CASE CloseFails(q)
  <2>1. UNCHANGED <<plan, stage, todo, at>> /\ UNCHANGED dbVars
    BY <1>10 DEF CloseFails, Crash
  <2>2. \A r \in Requests : Uses(r, "db")' <=> Uses(r, "db")
    BY <2>1 DEF Uses
  <2>3. \A r \in Requests : Uses(r, "db") => DbRequest(r)'
    BY <2>1, DbRequestUnmoved DEF DbInv, DbParts
  <2>4. \A c \in open : c[1] \in Requests /\ Uses(c[1], "db")'
    BY <2>2 DEF DbInv, DbParts
  <2> QED
    BY <2>1, <2>2, <2>3, <2>4 DEF DbInv, DbParts, dbVars
<1> QED
  BY <1>3, <1>4, <1>5, <1>6, <1>7, <1>8, <1>9, <1>10

-----------------------------------------------------------------------------
(* The steps of all others. *)

\* Starting a request, running its contract and ending a hook preserve the invariant.
LEMMA DbKeptByRequests == ASSUME DbInv, RequestsNext, UNCHANGED dbVars PROVE DbParts'
<1> PICK q \in Requests : RequestStep(q)
  BY DEF RequestsNext, RequestStep
<1>1. FrameInv /\ Kept(q) /\ OnPlan(q)
  BY RequestStepKeeps DEF DbInv, FrameInv
<1>2. CASE ~Uses(q, "db")
  <2>1. \A r \in Requests : Uses(r, "db")' <=> Uses(r, "db")
    BY <1>1 DEF Kept, Uses
  <2>2. \A r \in Requests : Uses(r, "db") => DbRequest(r)'
    BY <1>1, <1>2, DbRequestUnmoved DEF Kept, DbInv, DbParts
  <2>3. \A c \in open : c[1] \in Requests /\ Uses(c[1], "db")'
    BY <2>1 DEF DbInv, DbParts
  <2> QED
    BY <2>1, <2>2, <2>3 DEF DbInv, DbParts, dbVars
<1>3. CASE Uses(q, "db")
  <2>1. DbRequest(q) /\ DbOnlyOf(q)
    BY <1>3 DEF DbInv, DbParts, DbOnlyOf, dbVars
  <2>2. todo[q] = <<>> /\ at[q] = 0
    BY <1>1 DEF RequestStep, EnterBefore, DataIsMalformed, ZenroomRuns, ZenroomRejects,
                SuccessEnds, OnPlan, HookStages, FrameInv, FrameDoms
  <2>3. stage[q] # "failed"
    BY DEF RequestStep, EnterBefore, DataIsMalformed, ZenroomRuns, ZenroomRejects, SuccessEnds
  <2>4. at'[q] = 0
    BY <1>1, <2>2 DEF RequestStep, EnterBefore, DataIsMalformed, ZenroomRuns, ZenroomRejects,
                      SuccessEnds, Reject, Fail, FrameInv, FrameDoms
  <2>5. DbRequest(q)'
    <3>1. ~Queries(q)' /\ ~Queries(q)
      BY <2>2, <2>4 DEF Queries
    <3>2. Committed(q)'
      BY <2>1, <2>2, <2>3 DEF DbRequest, StatementsSettled, Committed, dbVars
    <3>3. Held(q)'
      BY <2>1, <2>3, <3>1 DEF DbRequest, Held, dbVars
    <3> QED
      BY <3>1, <3>2, <3>3 DEF DbRequest, Bound, StatementsSettled
  <2> QED
    BY <1>1, <1>3, <2>1, <2>5, DbInvStep
<1> QED
  BY <1>2, <1>3

\* So do the steps of other middlewares.
LEMMA DbKeptElsewhere == ASSUME DbInv, StepElsewhere("db"), UNCHANGED dbVars PROVE DbParts'
<1>1. ASSUME NEW r \in Requests, Uses(r, "db")
      PROVE  stage'[r] = stage[r] /\ todo'[r] = todo[r] /\ at'[r] = at[r]
  BY <1>1 DEF StepElsewhere, Steps, Works, Kept, frame
<1>2. plan' = plan
  BY DEF StepElsewhere, Steps, Works, Kept, frame
<1>3. \A r \in Requests : Uses(r, "db")' <=> Uses(r, "db")
  BY <1>2 DEF Uses
<1>4. \A r \in Requests : Uses(r, "db") => DbRequest(r)'
  BY <1>1, DbRequestUnmoved DEF DbInv, DbParts
<1>5. \A c \in open : c[1] \in Requests /\ Uses(c[1], "db")'
  BY <1>3 DEF DbInv, DbParts
<1> QED
  BY <1>3, <1>4, <1>5 DEF DbInv, DbParts, dbVars

\* Every step of the composed system preserves the invariant.
LEMMA DbInvIsInductive == DbInv /\ [Next]_vars => DbInv'
<1> SUFFICES ASSUME DbInv, [Next]_vars PROVE DbInv'
  OBVIOUS
<1>1. FrameInv' /\ (DbNext \/ Foreign("db", dbVars))
  BY FrameInvStep, ForeignSteps DEF DbInv, FrameInv
<1> QED
  BY <1>1, DbStep, DbKeptByRequests, DbKeptElsewhere DEF Foreign, DbInv

-----------------------------------------------------------------------------
(* The theorems. *)

\* No contract runs, and no request that uses db is done, while a transaction
\* of its SQL sentence is not committed: for any requests and plans.
THEOREM SqlIsAlwaysCommitted == Spec => []SqlIsCommitted
<1>1. DbInv => SqlIsCommitted
  BY DEF DbInv, DbParts, DbRequest, StatementsSettled, Committed, SqlIsCommitted
<1> QED
  BY <1>1, DbInvInit, DbInvIsInductive, PTL DEF Spec

\* A record strays by a step only if its query found Result bound by another request.
LEMMA StraysStep == DbInv /\ StraysOnlyIfRebound /\ [Next]_vars => StraysOnlyIfRebound'
<1> SUFFICES ASSUME DbInv, StraysOnlyIfRebound, [Next]_vars PROVE StraysOnlyIfRebound'
  OBVIOUS
<1>1. CASE UNCHANGED accesses
  BY <1>1 DEF StraysOnlyIfRebound
<1>2. ASSUME NEW q \in Requests, Uses(q, "db"), Accesses(q)
      PROVE  StraysOnlyIfRebound'
  <2>1. Bound(q) /\ Queries(q)
    BY <1>2 DEF DbInv, DbParts, DbRequest, Queries, Accesses, OnResult, InHook, DbOps, FrameInv,
                FrameDoms
  <2>2. Query(q).place = binding.place \/ binding.conn[1] # q
    BY <2>1 DEF Bound
  <2>3. accesses' = accesses \cup {[by |-> q, op |-> Step(q).op, want |-> Query(q).place,
                                    got |-> binding.place, boundBy |-> binding.conn[1]]}
    BY <1>2 DEF Accesses
  <2> QED
    BY <2>2, <2>3 DEF StraysOnlyIfRebound
<1>3. ASSUME DbNext, UNCHANGED accesses \/ \A q \in Requests : ~(Uses(q, "db") /\ Accesses(q))
      PROVE  UNCHANGED accesses
  BY <1>3 DEF DbNext, Validates, AccessFails, CloseFails, StartsSql, SqlDone, SqlExecutes, SqlCommits, SqlFails,
              dbVars
<1>4. CASE ~DbNext
  BY <1>1, <1>4 DEF Next, vars, dbVars
<1> QED
  BY <1>1, <1>2, <1>3, <1>4

\* A record of db is read from, or saved to, another table than the one named
\* only if another request has pointed Result there: for any requests and plans.
THEOREM RecordsStrayOnlyIfRebound == Spec => []StraysOnlyIfRebound
<1>1. Init => StraysOnlyIfRebound
  BY DEF Init, DbInit, StraysOnlyIfRebound
<1> QED
  BY <1>1, DbInvInit, DbInvIsInductive, StraysStep, PTL DEF Spec

\* Connections stay open for requests that go on, have failed or have executed
\* SQL, and for no others: for any requests and plans.
THEOREM OnlyFailuresAndSqlLeak == Spec => []LeaksOnlyFromFailuresAndSql
<1>1. ASSUME DbInv PROVE LeaksOnlyFromFailuresAndSql
  <2> SUFFICES ASSUME NEW c \in open, stage[c[1]] = "done" PROVE sql[c[1]] # <<>>
    BY DEF LeaksOnlyFromFailuresAndSql
  <2>1. c[1] \in Requests /\ Held(c[1]) /\ OnPlan(c[1])
    BY <1>1 DEF DbInv, DbParts, DbRequest, FrameInv
  <2>2. ~Queries(c[1])
    BY <2>1 DEF OnPlan, HookStages, Queries
  <2> QED
    BY <2>1, <2>2 DEF Held
<1> QED
  BY <1>1, DbInvInit, DbInvIsInductive, PTL DEF Spec

=============================================================================
