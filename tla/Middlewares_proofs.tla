-------------------------- MODULE Middlewares_proofs --------------------------
(***************************************************************************)
(* What the proofs about any one middleware need of the others: a step of  *)
(* a request leaves the hooks of all other requests alone, and all hooks   *)
(* follow their plans.                                                     *)
(***************************************************************************)
EXTENDS Middlewares, FiniteSetTheorems, SequenceTheorems, WellFoundedInduction, TLAPS

-----------------------------------------------------------------------------
\* What is known of the frame wherever a proof starts.
FrameDoms ==
  /\ stage \in [Requests -> Stages] /\ DOMAIN todo = Requests
  /\ reason \in [Requests -> Reasons] /\ up \in BOOLEAN
  /\ call \in [Requests -> Nat] /\ at \in [Requests -> Nat]
  /\ \A r \in Requests : todo[r] = <<>> => at[r] = 0

\* A step that concerns the hooks of q alone.
Kept(q) ==
  /\ FrameDoms'
  /\ plan' = plan
  /\ \A r \in Requests \ {q} :
       /\ stage'[r] = stage[r] /\ todo'[r] = todo[r] /\ at'[r] = at[r]
       /\ call'[r] = call[r] /\ reason'[r] = reason[r]

\* In a step of a middleware the hook of q stays at the same await, fails, or
\* goes on: to another await or to the next of its steps.
Works(q) ==
  /\ Kept(q) /\ call' = call /\ met' = met
  /\ \/ /\ stage'[q] = stage[q] /\ reason'[q] = reason[q]
        /\ todo'[q] = todo[q] /\ at'[q] = at[q]
     \/ stage'[q] = "failed" /\ todo'[q] = <<>> /\ at'[q] = 0
     \/ /\ stage'[q] = stage[q] /\ reason'[q] = reason[q] /\ todo[q] # <<>>
        /\ \/ todo'[q] = todo[q]
           \/ todo'[q] = Tail(todo[q])

\* It writes to the data of q only, under names that are there.
DataKept(q) ==
  (DOMAIN data = Requests /\ \A r \in Requests : DOMAIN data[r] = Names) =>
    /\ DOMAIN data' = Requests
    /\ \A r \in Requests : DOMAIN data'[r] = Names
    /\ \A r \in Requests \ {q} : data'[r] = data[r]

Steps(q) == Works(q) /\ DataKept(q)

\* What the actions of all middlewares are built from steps q.
BlocksStep(q) ==
  /\ Proceed(q) /\ todo[q] # <<>> => Works(q)
  /\ Await(q) /\ todo[q] # <<>> => Steps(q)
  /\ \A why \in Reasons : Fail(q, why) => Works(q)
  /\ \A why \in Reasons : Reject(q, why) => Steps(q)
  /\ \A name, value : Receive(q, name, value) /\ todo[q] # <<>> => Steps(q)
  /\ Continue(q) /\ todo[q] # <<>> => Steps(q)
  /\ Crash => Steps(q)
  /\ UNCHANGED frame => Steps(q)
  /\ UNCHANGED <<plan, call, stage, todo, at, reason, met>> /\ up' \in BOOLEAN => Works(q)
  /\ UNCHANGED data => DataKept(q)
  /\ \A name, value : data' = [data EXCEPT ![q][name] = value] => DataKept(q)

\* A step of a hook is taken only while the hook has steps left.
StepIsThere(q) ==
  /\ \A hook : InHook(q, hook) => todo[q] # <<>>
  /\ \A hook, op, i : Doing(q, hook, op, i) => todo[q] # <<>>
  /\ \A hook, op, i : Command(q, hook, op, i) => todo[q] # <<>>
  /\ \A ops : Calling(q, ops) => todo[q] # <<>>
  /\ OnResult(q) => todo[q] # <<>>

\* The next await of a step that is there.
LEMMA AwaitKeeps ==
  ASSUME FrameDoms, NEW q \in Requests, todo[q] # <<>>,
         at' = [at EXCEPT ![q] = @ + 1], UNCHANGED <<plan, call, stage, todo, reason, met, up>>
  PROVE  Works(q)
<1>1. at' \in [Requests -> Nat] /\ \A r \in Requests \ {q} : at'[r] = at[r]
  BY DEF FrameDoms
<1>2. Kept(q)
  BY <1>1 DEF Kept, FrameDoms
<1> QED
  BY <1>2 DEF Works, FrameDoms

\* The blocks step q, and only a step that is there, whoever q is.
LEMMA BlocksKeep ==
  ASSUME FrameDoms, NEW q \in Requests PROVE BlocksStep(q) /\ StepIsThere(q)
<1>1. Proceed(q) /\ todo[q] # <<>> => Works(q)
  <2> SUFFICES ASSUME Proceed(q), todo[q] # <<>> PROVE Works(q)
    OBVIOUS
  <2>1. Kept(q)
    BY DEF Proceed, Kept, FrameDoms
  <2> QED
    BY <2>1 DEF Proceed, Works, FrameDoms
<1>2. Await(q) /\ todo[q] # <<>> => Works(q)
  BY AwaitKeeps DEF Await
<1>3. ASSUME NEW why \in Reasons, Fail(q, why) PROVE Works(q)
  <2>1. Kept(q)
    BY <1>3 DEF Fail, Kept, FrameDoms, Stages
  <2> QED
    BY <1>3, <2>1 DEF Fail, Works, FrameDoms
<1>4. UNCHANGED <<plan, call, stage, todo, at, reason, met>> /\ up' \in BOOLEAN => Works(q)
  BY DEF Works, Kept, FrameDoms
<1>5. UNCHANGED data => DataKept(q)
  BY DEF DataKept
<1>6. ASSUME NEW name, NEW value, data' = [data EXCEPT ![q][name] = value] PROVE DataKept(q)
  BY <1>6 DEF DataKept
<1>7. StepIsThere(q)
  BY DEF StepIsThere, InHook, Doing, Command, Calling, OnResult
<1> QED
  BY <1>1, <1>2, <1>3, <1>4, <1>5, <1>6, <1>7
  DEF BlocksStep, Steps, Await, Reject, Receive, Continue, Crash, frame, FrameDoms

RedisActions(q) ==
  \/ ConnectsTo(q) \/ OpensClient(q) \/ CommandFails(q)
  \/ SetsEmpty(q) \/ Gets(q) \/ GetsKeysContaining(q) \/ Increments(q)
  \/ SetsOutput(q) \/ SetsObjects(q) \/ Deletes(q)

\* A hook, an await or an answer of redis steps the hooks of its request only.
LEMMA RedisActionsKeep ==
  ASSUME FrameDoms, NEW q \in Requests, RedisActions(q)
  PROVE  Steps(q)
<1>0. BlocksStep(q) /\ StepIsThere(q)
  BY BlocksKeep
<1> USE <1>0 DEF BlocksStep, StepIsThere, Reasons
<1>1. CASE ConnectsTo(q)            BY <1>1 DEF ConnectsTo
<1>2. CASE OpensClient(q)           BY <1>2 DEF OpensClient
<1>3. CASE CommandFails(q)          BY <1>3 DEF CommandFails
<1>4. CASE SetsEmpty(q)             BY <1>4 DEF SetsEmpty, Lost
<1>5. CASE Gets(q)                  BY <1>5 DEF Gets
<1>6. CASE GetsKeysContaining(q)    BY <1>6 DEF GetsKeysContaining
<1>7. CASE Increments(q)            BY <1>7 DEF Increments, Lost
<1>8. CASE SetsOutput(q)            BY <1>8 DEF SetsOutput, Lost
<1>9. CASE SetsObjects(q)           BY <1>9 DEF SetsObjects, SetsObject, Lost
<1>10. CASE Deletes(q)              BY <1>10 DEF Deletes, Lost
<1> QED
  BY <1>1, <1>2, <1>3, <1>4, <1>5, <1>6, <1>7, <1>8, <1>9, <1>10 DEF RedisActions

\* So does every step of redis. A connection that breaks ends the process.
LEMMA RedisKeeps ==
  ASSUME FrameDoms, RedisNext
  PROVE  \E q \in Requests : Uses(q, "redis") /\ Steps(q)
<1> PICK q \in Requests : Uses(q, "redis") /\ (RedisActions(q) \/ ConnectionBreaks(q))
  BY DEF RedisNext, RedisActions
<1>1. CASE RedisActions(q)
  BY <1>1, RedisActionsKeep
<1>2. CASE ConnectionBreaks(q)
  BY <1>2, BlocksKeep DEF ConnectionBreaks, BlocksStep
<1> QED
  BY <1>1, <1>2

\* Opening, using and leaving a connection of fabric steps one request only.
LEMMA FabricBlocksKeep ==
  ASSUME FrameDoms, NEW q \in Requests, todo[q] # <<>>
  PROVE  /\ \A why \in Reasons : RejectCall(q, why) => Steps(q)
         /\ \A rest \in {todo[q], Tail(todo[q])} : GoesOn(q, rest) => Works(q)
         /\ \A step, n, m :
              Attempts(q, step, n, m) /\ UNCHANGED <<plan, call, stage, todo, data, reason, met, up>>
                => Steps(q)
<1>1. \A why \in Reasons : RejectCall(q, why) => Steps(q)
  BY BlocksKeep DEF RejectCall, BlocksStep
<1>2. ASSUME NEW step, NEW n, NEW m, Attempts(q, step, n, m)
      PROVE  \E i \in {1, 2} : at' = [at EXCEPT ![q] = i]
  BY <1>2 DEF Attempts
<1>3. ASSUME NEW rest \in {todo[q], Tail(todo[q])}, GoesOn(q, rest)
      PROVE  Works(q)
  <2>1. UNCHANGED <<plan, call, stage, reason, met, up>> /\ todo' = [todo EXCEPT ![q] = rest]
    BY <1>3 DEF GoesOn
  <2>2. \E i \in {0, 1, 2} : at' = [at EXCEPT ![q] = i] /\ (rest = <<>> => i = 0)
    BY <1>2, <1>3 DEF GoesOn
  <2>3. Kept(q)
    BY <2>1, <2>2 DEF Kept, FrameDoms
  <2> QED
    BY <2>1, <2>3 DEF Works, FrameDoms
<1>4. ASSUME NEW step, NEW n, NEW m, Attempts(q, step, n, m),
             UNCHANGED <<plan, call, stage, todo, data, reason, met, up>>
      PROVE  Steps(q)
  <2>1. Kept(q)
    BY <1>2, <1>4 DEF Kept, FrameDoms
  <2> QED
    BY <1>4, <2>1 DEF Steps, Works, DataKept
<1> QED
  BY <1>1, <1>3, <1>4

FabricActions(q) ==
  \/ Configures(q) \/ ConfigurationFails(q) \/ StartsSuccess(q)
  \/ AttemptSucceeds(q) \/ AttemptFails(q) \/ Wakes(q)

\* Every action of fabric steps the hooks of its request only.
LEMMA FabricActionsKeep ==
  ASSUME FrameDoms, NEW q \in Requests, FabricActions(q)
  PROVE  Steps(q) /\ todo[q] # <<>>
<1>0. BlocksStep(q) /\ StepIsThere(q)
  BY BlocksKeep
<1> USE <1>0 DEF BlocksStep, StepIsThere, Reasons
<1>a. todo[q] # <<>>
  <2> HIDE DEF Reasons
  <2>1. at[q] \in {1, 2} => todo[q] # <<>>
    BY DEF FrameDoms
  <2>2. CASE AttemptSucceeds(q) \/ AttemptFails(q) \/ Wakes(q)
    BY <2>1, <2>2 DEF AttemptSucceeds, AttemptFails, Wakes
  <2>3. CASE Configures(q) \/ ConfigurationFails(q) \/ StartsSuccess(q)
    BY <2>3 DEF Configures, ConfigurationFails, StartsSuccess
  <2> QED
    BY <2>2, <2>3 DEF FabricActions
<1> SUFFICES Steps(q)
  BY <1>a
<1>b. \A rest \in {todo[q], Tail(todo[q])} :
         GoesOn(q, rest) /\ DataKept(q) => Steps(q)
  BY <1>a, FabricBlocksKeep DEF Steps
<1>c. /\ GoesOn(q, todo[q]) /\ DataKept(q) => Steps(q)
      /\ GoesOn(q, Tail(todo[q])) /\ DataKept(q) => Steps(q)
      /\ \A why \in Reasons : RejectCall(q, why) => Steps(q)
  BY <1>a, <1>b, FabricBlocksKeep
<1>d. \A step, n, m :
         Attempts(q, step, n, m) /\ UNCHANGED <<plan, call, stage, todo, data, reason, met, up>>
           => Steps(q)
  BY <1>a, FabricBlocksKeep
<1>1. CASE Configures(q)
  BY <1>1, <1>c DEF Configures
<1>2. CASE ConfigurationFails(q)
  BY <1>2, <1>c DEF ConfigurationFails
<1>3. CASE StartsSuccess(q)
  BY <1>3, <1>c DEF StartsSuccess
<1>4. CASE AttemptSucceeds(q)
  <2>1. CASE RejectCall(q, "retries")
    BY <2>1, <1>c
  <2>2. CASE GoesOn(q, Tail(todo[q])) /\ DataKept(q)
    BY <2>2, <1>c
  <2>3. UNCHANGED data \/ data' = [data EXCEPT ![q][Step(q).name] = <<"fabric", attempt[q]>>] => DataKept(q)
    BY DEF BlocksStep
  <2> QED
    BY <1>4, <2>1, <2>2, <2>3 DEF AttemptSucceeds
<1>5. CASE AttemptFails(q)
  BY <1>5, <1>a DEF AttemptFails
<1>6. CASE Wakes(q)
  BY <1>6, <1>c, <1>d DEF Wakes
<1> QED
  BY <1>1, <1>2, <1>3, <1>4, <1>5, <1>6 DEF FabricActions

\* So does every step of fabric.
LEMMA FabricKeeps ==
  ASSUME FrameDoms, FabricNext
  PROVE  \E q \in Requests : Uses(q, "fabric") /\ Steps(q)
BY FabricActionsKeep DEF FabricNext, FabricActions

\* A turn of the loop over the queries of db steps one request only.
LEMMA NextQueryWorks ==
  ASSUME FrameDoms, NEW q \in Requests, todo[q] # <<>>,
         NEW i \in Nat, NEW kept, NextQuery(q, i, kept)
  PROVE  Works(q)
<1>1. CASE Proceed(q)
  BY <1>1, BlocksKeep DEF BlocksStep
<1>2. CASE Fail(q, "missing variable")
  BY <1>2, BlocksKeep DEF BlocksStep, Reasons
<1>3. CASE at' = [at EXCEPT ![q] = i] /\ UNCHANGED <<plan, call, stage, todo, reason, met, up>>
  <2>1. Kept(q)
    BY <1>3 DEF Kept, FrameDoms
  <2> QED
    BY <1>3, <2>1 DEF Works
<1> QED
  BY <1>1, <1>2, <1>3 DEF NextQuery

\* Every action of db steps the hooks of its request only.
LEMMA DbKeeps ==
  ASSUME FrameDoms, DbNext
  PROVE  \E q \in Requests : Uses(q, "db") /\ Steps(q)
<1> PICK q \in Requests :
      /\ Uses(q, "db")
      /\ \/ Validates(q) \/ Accesses(q) \/ AccessFails(q) \/ CloseFails(q) \/ StartsSql(q)
         \/ SqlDone(q)
         \/ \E i \in DOMAIN sql[q] : SqlExecutes(q, i) \/ SqlCommits(q, i) \/ SqlFails(q, i)
  BY DEF DbNext
<1> SUFFICES Steps(q)
  OBVIOUS
<1>0. BlocksStep(q) /\ StepIsThere(q)
  BY BlocksKeep
<1> USE <1>0 DEF BlocksStep, StepIsThere, Reasons
<1>1. CASE Validates(q)
  BY <1>1, NextQueryWorks DEF Validates, Steps
<1>2. CASE Accesses(q)
  <2> HIDE DEF Reasons
  <2>1. at[q] + 1 \in Nat /\ todo[q] # <<>>
    BY <1>2 DEF Accesses, FrameDoms
  <2>2. Works(q)
    BY <1>2, NextQueryWorks, <2>1 DEF Accesses
  <2>3. DataKept(q)
    BY <1>2 DEF Accesses
  <2> QED
    BY <2>2, <2>3 DEF Steps
<1>3. CASE AccessFails(q)
  BY <1>3 DEF AccessFails
<1>4. CASE StartsSql(q)
  BY <1>4 DEF StartsSql
<1>5. CASE SqlDone(q)
  BY <1>5 DEF SqlDone
<1>6. CASE \E i \in DOMAIN sql[q] : SqlExecutes(q, i) \/ SqlCommits(q, i) \/ SqlFails(q, i)
  BY <1>6 DEF SqlExecutes, SqlCommits, SqlFails, Steps
<1>7. CASE CloseFails(q)
  BY <1>7 DEF CloseFails
<1> QED
  BY <1>1, <1>2, <1>3, <1>4, <1>5, <1>6, <1>7

\* Every action of planetmint steps the hooks of its request only.
LEMMA PlanetmintKeeps ==
  ASSUME FrameDoms, PlanetmintNext
  PROVE  \E q \in Requests : Uses(q, "planetmint") /\ Steps(q)
<1> PICK q \in Requests :
      /\ Uses(q, "planetmint")
      /\ \/ Arrives(q) \/ CreatesNode(q) \/ ConnectsToNode(q) \/ NodeFails(q)
         \/ RetrievesTransaction(q) \/ ChecksAsset(q) \/ FileIsStored(q)
         \/ TransfersAsset(q) \/ ChecksTransfer(q) \/ ListsOutputs(q)
         \/ SelectsOutputs(q) \/ Signs(q) \/ Broadcasts(q)
  BY DEF PlanetmintNext
<1> SUFFICES Steps(q)
  OBVIOUS
<1>0. BlocksStep(q) /\ StepIsThere(q)
  BY BlocksKeep
<1> USE <1>0 DEF BlocksStep, StepIsThere, Reasons
<1>1. CASE Arrives(q)
  BY <1>1 DEF Arrives
<1>2. CASE CreatesNode(q)
  BY <1>2 DEF CreatesNode
<1>3. CASE ConnectsToNode(q)
  BY <1>3 DEF ConnectsToNode
<1>4. CASE NodeFails(q)
  BY <1>4 DEF NodeFails
<1>5. CASE RetrievesTransaction(q)
  BY <1>5 DEF RetrievesTransaction
<1>6. CASE ChecksAsset(q)
  BY <1>6 DEF ChecksAsset, StoreAsset
<1>7. CASE FileIsStored(q)
  BY <1>7 DEF FileIsStored, StoreAsset
<1>8. CASE TransfersAsset(q)
  BY <1>8 DEF TransfersAsset
<1>9. CASE ChecksTransfer(q)
  BY <1>9 DEF ChecksTransfer
<1>10. CASE ListsOutputs(q)
  BY <1>10 DEF ListsOutputs
<1>11. CASE SelectsOutputs(q)
  BY <1>11 DEF SelectsOutputs
<1>12. CASE Signs(q)
  BY <1>12 DEF Signs
<1>13. CASE Broadcasts(q)
  BY <1>13 DEF Broadcasts
<1> QED
  BY <1>1, <1>2, <1>3, <1>4, <1>5, <1>6, <1>7, <1>8, <1>9, <1>10, <1>11, <1>12, <1>13

HttpActions(q) ==
  \/ ReadsRequest(q) \/ DeclaresEndpoints(q) \/ SendsInParallel(q)
  \/ WaitsForAll(q) \/ Collects(q) \/ PostsAndSaves(q) \/ ChecksEndpoints(q)
  \/ GetsOutput(q) \/ PassesOutput(q)
  \/ \E i \in DOMAIN promises[q] : Answered(q, i) \/ RequestFails(q, i)

\* Every action of http, the answers to its calls included, steps the hooks of
\* the request that asked only.
LEMMA HttpActionsKeep ==
  ASSUME FrameDoms, NEW q \in Requests, HttpActions(q)
  PROVE  Steps(q)
<1>0. BlocksStep(q) /\ StepIsThere(q)
  BY BlocksKeep
<1> USE <1>0 DEF BlocksStep, StepIsThere, Reasons
<1>1. CASE ReadsRequest(q)
  BY <1>1 DEF ReadsRequest
<1>2. CASE DeclaresEndpoints(q)
  BY <1>2 DEF DeclaresEndpoints
<1>3. CASE SendsInParallel(q)
  BY <1>3 DEF SendsInParallel
<1>4. CASE WaitsForAll(q)
  BY <1>4 DEF WaitsForAll
<1>5. CASE Collects(q)
  BY <1>5 DEF Collects
<1>6. CASE PostsAndSaves(q)
  BY <1>6 DEF PostsAndSaves
<1>7. CASE ChecksEndpoints(q)
  BY <1>7 DEF ChecksEndpoints
<1>8. CASE GetsOutput(q)
  <2>1. CASE Proceed(q)
    BY <1>8, <2>1 DEF GetsOutput, Steps
  <2>2. CASE at' = [at EXCEPT ![q] = @ + 1] /\ UNCHANGED <<plan, call, stage, todo, reason, met, up>>
    BY <1>8, <2>2, AwaitKeeps DEF GetsOutput, Steps
  <2> QED
    BY <1>8, <2>1, <2>2 DEF GetsOutput
<1>9. CASE PassesOutput(q)
  BY <1>9 DEF PassesOutput
<1>10. CASE \E i \in DOMAIN promises[q] : Answered(q, i) \/ RequestFails(q, i)
  <2>1. up' \in BOOLEAN
    <3> HIDE DEF Reasons
    <3>1. ASSUME NEW i, RequestFails(q, i) PROVE up' \in BOOLEAN
      BY <3>1 DEF RequestFails, FrameDoms
    <3>2. ASSUME NEW i, Answered(q, i) PROVE up' \in BOOLEAN
      BY <3>2 DEF Answered, FrameDoms, frame
    <3> QED
      BY <1>10, <3>1, <3>2
  <2> QED
    BY <1>10, <2>1 DEF Answered, RequestFails, Steps
<1> QED
  BY <1>1, <1>2, <1>3, <1>4, <1>5, <1>6, <1>7, <1>8, <1>9, <1>10 DEF HttpActions

\* So does every step of http.
LEMMA HttpKeeps ==
  ASSUME FrameDoms, HttpNext
  PROVE  \E q \in Requests : Uses(q, "http") /\ Steps(q)
BY HttpActionsKeep DEF HttpNext, HttpActions

IdentityActions(q) ==
  \/ Resolves(q) \/ WaitsForLookups(q) \/ LookupsDone(q)
  \/ \E i \in DOMAIN lookups[q] : LookupAnswered(q, i) \/ LookupFails(q, i)

\* Every action of identity steps the hooks of its request only.
LEMMA IdentityActionsKeep ==
  ASSUME FrameDoms, NEW q \in Requests, IdentityActions(q)
  PROVE  Steps(q)
<1>0. BlocksStep(q) /\ StepIsThere(q)
  BY BlocksKeep
<1> USE <1>0 DEF BlocksStep, StepIsThere, Reasons
<1>1. CASE Resolves(q)
  BY <1>1 DEF Resolves
<1>2. CASE WaitsForLookups(q)
  BY <1>2 DEF WaitsForLookups
<1>3. CASE LookupsDone(q)
  BY <1>3 DEF LookupsDone, Steps, DataKept
<1>4. CASE \E i \in DOMAIN lookups[q] : LookupAnswered(q, i) \/ LookupFails(q, i)
  BY <1>4 DEF LookupAnswered, LookupFails, Steps
<1> QED
  BY <1>1, <1>2, <1>3, <1>4 DEF IdentityActions

\* So does every step of identity.
LEMMA IdentityKeeps ==
  ASSUME FrameDoms, IdentityNext
  PROVE  \E q \in Requests : Uses(q, "identity") /\ Steps(q)
BY IdentityActionsKeep DEF IdentityNext, IdentityActions

\* A hook that goes on with its calls.
LEMMA CallsKeep ==
  ASSUME FrameDoms, NEW q \in Requests, todo[q] # <<>>,
         NEW steps \in {todo[q], Tail(todo[q])}, NEW needs, NEW o, Calls(q, steps, needs, o)
  PROVE  Works(q)
<1>1. CASE Fail(q, "unable")
  BY <1>1, BlocksKeep DEF BlocksStep, Reasons
<1>2. CASE ~Fail(q, "unable")
  <2>1. /\ UNCHANGED <<plan, call, stage, reason, met, up>>
        /\ todo' = [todo EXCEPT ![q] = steps]
        /\ \E i \in {0, 1} : at' = [at EXCEPT ![q] = i] /\ (steps = <<>> => i = 0)
    BY <1>2 DEF Calls
  <2>2. Kept(q)
    BY <2>1 DEF Kept, FrameDoms
  <2> QED
    BY <2>1, <2>2 DEF Works, FrameDoms
<1> QED
  BY <1>1, <1>2

\* Starting calls, and an answer to one of them.
CallsStep(q) ==
  /\ \A needs : StartsCalls(q, needs) => Steps(q)
  /\ \A needs : CallAnswered(q, needs) /\ todo[q] # <<>> => Steps(q)
  /\ \A needs, o : Calls(q, Tail(todo[q]), needs, o) /\ UNCHANGED data /\ todo[q] # <<>> => Steps(q)

\* They step one request only.
LEMMA CallBlocksKeep == ASSUME FrameDoms, NEW q \in Requests PROVE CallsStep(q)
<1>1. BlocksStep(q) /\ StepIsThere(q)
  BY BlocksKeep
<1>2. ASSUME NEW steps \in {todo[q], Tail(todo[q])}, NEW needs, NEW o, Calls(q, steps, needs, o),
             todo[q] # <<>>, DataKept(q)
      PROVE  Steps(q)
  BY <1>2, CallsKeep DEF Steps
<1>3. ASSUME NEW needs, StartsCalls(q, needs) PROVE Steps(q)
  <2>1. todo[q] # <<>> /\ DataKept(q) /\ Calls(q, todo[q], needs, owner)
    BY <1>1, <1>3 DEF StartsCalls, BlocksStep, StepIsThere
  <2> QED
    BY <1>2, <2>1
<1>4. ASSUME NEW needs, CallAnswered(q, needs), todo[q] # <<>> PROVE Steps(q)
  <2>1. DataKept(q) /\ Calls(q, Tail(todo[q]), needs, owner)
    BY <1>1, <1>4 DEF CallAnswered, BlocksStep
  <2> QED
    BY <1>2, <1>4, <2>1
<1>5. ASSUME NEW needs, NEW o, Calls(q, Tail(todo[q]), needs, o), UNCHANGED data, todo[q] # <<>>
      PROVE  Steps(q)
  BY <1>1, <1>2, <1>5 DEF BlocksStep
<1> QED
  BY <1>3, <1>4, <1>5 DEF CallsStep

FilesActions(q) ==
  \/ StartsFiles(q) \/ ReadsFolders(q) \/ StatsFiles(q) \/ StartsDownload(q)
  \/ Downloads(q) \/ StoresResult(q)

\* Every action of files, which writes the input all requests share, steps the
\* hooks of its request only.
LEMMA FilesActionsKeep ==
  ASSUME FrameDoms, NEW q \in Requests, FilesActions(q)
  PROVE  Steps(q)
<1>0. BlocksStep(q) /\ StepIsThere(q)
  BY BlocksKeep
<1> USE <1>0 DEF BlocksStep, StepIsThere, Reasons
<1>1. CASE StartsFiles(q)
  BY <1>1 DEF StartsFiles
<1>2. CASE ReadsFolders(q)
  BY <1>2 DEF ReadsFolders
<1>3. CASE StatsFiles(q)
  BY <1>3 DEF StatsFiles
<1>4. CASE StartsDownload(q)
  BY <1>4 DEF StartsDownload, LooksUp
<1>5. CASE Downloads(q)
  BY <1>5 DEF Downloads
<1>6. CASE StoresResult(q)
  BY <1>6 DEF StoresResult, LooksUp
<1> QED
  BY <1>1, <1>2, <1>3, <1>4, <1>5, <1>6 DEF FilesActions

\* So does every step of files.
LEMMA FilesKeep ==
  ASSUME FrameDoms, FilesNext
  PROVE  \E q \in Requests : Uses(q, "files") /\ Steps(q)
BY FilesActionsKeep DEF FilesNext, FilesActions

LoggerActions(q) ==
  \/ StartsLogger(q) \/ StartsLog(q) \/ LogIsWritten(q) \/ LogFails(q)

\* Every action of logger steps the hooks of its request only.
LEMMA LoggerActionsKeep ==
  ASSUME FrameDoms, NEW q \in Requests, LoggerActions(q)
  PROVE  Steps(q)
<1>0. BlocksStep(q) /\ StepIsThere(q)
  BY BlocksKeep
<1> USE <1>0 DEF BlocksStep, StepIsThere, Reasons
<1>1. CASE StartsLogger(q)
  BY <1>1 DEF StartsLogger
<1>2. CASE StartsLog(q)
  BY <1>2 DEF StartsLog
<1>3. CASE LogIsWritten(q)
  BY <1>3 DEF LogIsWritten
<1>4. CASE LogFails(q)
  BY <1>4 DEF LogFails
<1> QED
  BY <1>1, <1>2, <1>3, <1>4 DEF LoggerActions

\* So does every step of logger.
LEMMA LoggerKeeps ==
  ASSUME FrameDoms, LoggerNext
  PROVE  \E q \in Requests : Uses(q, "logger") /\ Steps(q)
BY LoggerActionsKeep DEF LoggerNext, LoggerActions

SawroomActions(q) ==
  \/ StartsSawroom(q) \/ ReadsSawroom(q) \/ GetStateGoesOn(q)
  \/ GetStateEnds(q) \/ StartsCalls(q, SawroomNeeds) \/ ExecutesOnSawroom(q)
  \/ StoresInSawroom(q) \/ MovesTokens(q)
  \/ CallFails(q, SawroomReads \cup SawroomWrites)

\* Every action of sawroom steps the hooks of its request only.
LEMMA SawroomActionsKeep ==
  ASSUME FrameDoms, NEW q \in Requests, SawroomActions(q)
  PROVE  Steps(q)
<1>0. BlocksStep(q) /\ StepIsThere(q) /\ CallsStep(q)
  BY BlocksKeep, CallBlocksKeep
<1> USE <1>0 DEF BlocksStep, StepIsThere, CallsStep, Reasons
<1>1. CASE StartsSawroom(q)
  BY <1>1 DEF StartsSawroom
<1>2. CASE ReadsSawroom(q)
  BY <1>2 DEF ReadsSawroom
<1>3. CASE GetStateGoesOn(q)
  BY <1>3 DEF GetStateGoesOn
<1>4. CASE GetStateEnds(q)
  BY <1>4 DEF GetStateEnds
<1>5. CASE StartsCalls(q, SawroomNeeds)
  BY <1>5
<1>6. CASE ExecutesOnSawroom(q)
  BY <1>6 DEF ExecutesOnSawroom
<1>7. CASE StoresInSawroom(q)
  BY <1>7 DEF StoresInSawroom
<1>8. CASE MovesTokens(q)
  BY <1>8 DEF MovesTokens
<1>9. CASE CallFails(q, SawroomReads \cup SawroomWrites)
  BY <1>9 DEF CallFails
<1> QED
  BY <1>1, <1>2, <1>3, <1>4, <1>5, <1>6, <1>7, <1>8, <1>9 DEF SawroomActions

\* So does every step of sawroom.
LEMMA SawroomKeeps ==
  ASSUME FrameDoms, SawroomNext
  PROVE  \E q \in Requests : Uses(q, "sawroom") /\ Steps(q)
BY SawroomActionsKeep DEF SawroomNext, SawroomActions

EthereumActions(q) ==
  \/ StartsEthereum(q) \/ ReadsAccount(q) \/ ReadsTransaction(q)
  \/ ReadsErc20(q) \/ ReadsBlock(q) \/ ReadsBalance(q) \/ ReadsTokenId(q)
  \/ ReadsToken(q) \/ BroadcastsTransaction(q)
  \/ StartsCalls(q, EthereumNeeds) \/ CallFails(q, EthereumOps)

\* Every action of ethereum steps the hooks of its request only.
LEMMA EthereumActionsKeep ==
  ASSUME FrameDoms, NEW q \in Requests, EthereumActions(q)
  PROVE  Steps(q)
<1>0. BlocksStep(q) /\ StepIsThere(q) /\ CallsStep(q)
  BY BlocksKeep, CallBlocksKeep
<1> USE <1>0 DEF BlocksStep, StepIsThere, CallsStep, Reasons
<1>1. CASE StartsEthereum(q)
  BY <1>1 DEF StartsEthereum
<1>2. CASE ReadsAccount(q)
  BY <1>2 DEF ReadsAccount, AnswerRefused
<1>3. CASE ReadsTransaction(q)
  BY <1>3 DEF ReadsTransaction, AnswerRefused
<1>4. CASE ReadsErc20(q)
  BY <1>4 DEF ReadsErc20, AnswerRefused
<1>5. CASE ReadsBlock(q)
  BY <1>5 DEF ReadsBlock, AnswerRefused
<1>6. CASE ReadsBalance(q)
  BY <1>6 DEF ReadsBalance, AnswerRefused
<1>7. CASE ReadsTokenId(q)
  BY <1>7 DEF ReadsTokenId, AnswerRefused
<1>8. CASE ReadsToken(q)
  BY <1>8 DEF ReadsToken, AnswerRefused
<1>9. CASE BroadcastsTransaction(q)
  BY <1>9 DEF BroadcastsTransaction, AnswerRefused
<1>10. CASE StartsCalls(q, EthereumNeeds)
  BY <1>10
<1>11. CASE CallFails(q, EthereumOps)
  BY <1>11 DEF CallFails
<1> QED
  BY <1>1, <1>2, <1>3, <1>4, <1>5, <1>6, <1>7, <1>8, <1>9, <1>10, <1>11 DEF EthereumActions

\* So does every step of ethereum.
LEMMA EthereumKeeps ==
  ASSUME FrameDoms, EthereumNext
  PROVE  \E q \in Requests : Uses(q, "ethereum") /\ Steps(q)
BY EthereumActionsKeep DEF EthereumNext, EthereumActions

\* Every action of git steps the hooks of its request only.
LEMMA GitKeeps ==
  ASSUME FrameDoms, GitNext
  PROVE  \E q \in Requests : Uses(q, "git") /\ Steps(q)
<1> PICK q \in Requests :
      /\ Uses(q, "git")
      /\ \/ Clones(q) \/ Verifies(q) \/ StartsCommit(q) \/ Commits(q)
         \/ \E f \in adding[q] : Adds(q, f) \/ AddFails(q, f)
  BY DEF GitNext
<1> SUFFICES Steps(q)
  OBVIOUS
<1>0. BlocksStep(q) /\ StepIsThere(q)
  BY BlocksKeep
<1> USE <1>0 DEF BlocksStep, StepIsThere, Reasons
<1>1. CASE Clones(q)
  BY <1>1 DEF Clones
<1>2. CASE Verifies(q)
  BY <1>2 DEF Verifies
<1>3. CASE StartsCommit(q)
  BY <1>3 DEF StartsCommit
<1>4. CASE Commits(q)
  BY <1>4 DEF Commits
<1>5. CASE \E f \in adding[q] : Adds(q, f) \/ AddFails(q, f)
  BY <1>5 DEF Adds, AddFails
<1> QED
  BY <1>1, <1>2, <1>3, <1>4, <1>5

\* Every action of influxdb steps the hooks of its request only.
LEMMA InfluxdbKeeps ==
  ASSUME FrameDoms, InfluxdbNext
  PROVE  \E q \in Requests : Uses(q, "influxdb") /\ Steps(q)
<1> PICK q \in Requests :
      /\ Uses(q, "influxdb")
      /\ \/ FluxConnects(q) \/ FluxHasNoClient(q) \/ FluxQueries(q)
         \/ FluxRowsRead(q) \/ FluxFails(q)
  BY DEF InfluxdbNext
<1> SUFFICES Steps(q)
  OBVIOUS
<1>0. BlocksStep(q) /\ StepIsThere(q)
  BY BlocksKeep
<1> USE <1>0 DEF BlocksStep, StepIsThere, Reasons
<1>1. CASE FluxConnects(q)
  BY <1>1 DEF FluxConnects
<1>2. CASE FluxHasNoClient(q)
  BY <1>2 DEF FluxHasNoClient
<1>3. CASE FluxQueries(q)
  BY <1>3 DEF FluxQueries
<1>4. CASE FluxRowsRead(q)
  BY <1>4 DEF FluxRowsRead
<1>5. CASE FluxFails(q)
  BY <1>5 DEF FluxFails
<1> QED
  BY <1>1, <1>2, <1>3, <1>4, <1>5

-----------------------------------------------------------------------------
(* The steps of the composed system, as each middleware sees them. *)

\* A step of a hook of this middleware.
MiddlewareStep(mw) == \E q \in Requests : Uses(q, mw) /\ Steps(q)

\* A step of another middleware, or none at all.
StepElsewhere(mw) == UNCHANGED frame \/ \E q \in Requests : ~Uses(q, mw) /\ Steps(q)

\* Every step is one of callRestroom or of the hook of one request, or none.
LEMMA NextSteps ==
  ASSUME FrameDoms, [Next]_vars
  PROVE  RequestsNext \/ (\E q \in Requests : Steps(q)) \/ UNCHANGED frame
<1>1. (\E r \in Requests : TakesTimestamp(r)) => \E q \in Requests : Steps(q)
  BY BlocksKeep DEF TakesTimestamp, BlocksStep, StepIsThere
<1>2. CASE UNCHANGED vars
  BY <1>2 DEF vars
<1>3. CASE Next
  BY <1>1, <1>3, RedisKeeps, DbKeeps, FabricKeeps, PlanetmintKeeps, HttpKeeps, IdentityKeeps,
     FilesKeep, LoggerKeeps, SawroomKeeps, EthereumKeeps, GitKeeps, InfluxdbKeeps DEF Next
<1> QED
  BY <1>2, <1>3

\* A step that leaves the variables of a middleware alone, and its hooks if it
\* is not one of callRestroom.
Foreign(mw, mwVars) == UNCHANGED mwVars /\ (RequestsNext \/ StepElsewhere(mw))

\* Every step is one of this middleware, or leaves its variables and its hooks
\* alone, or is one of callRestroom.
LEMMA ForeignSteps ==
  ASSUME FrameDoms, [Next]_vars
  PROVE  /\ RedisNext \/ Foreign("redis", redisVars)
         /\ DbNext \/ Foreign("db", dbVars)
         /\ FabricNext \/ Foreign("fabric", fabricVars)
         /\ PlanetmintNext \/ Foreign("planetmint", planetmintVars)
         /\ HttpNext \/ Foreign("http", httpVars)
         /\ IdentityNext \/ Foreign("identity", identityVars)
         /\ GitNext \/ Foreign("git", gitVars)
         /\ InfluxdbNext \/ Foreign("influxdb", fluxClient)
         /\ \/ FilesNext \/ LoggerNext \/ SawroomNext \/ EthereumNext
            \/ \A mw \in {"files", "logger", "sawroom", "ethereum"} : Foreign(mw, sharedVars)
<1> USE DEF Foreign
<1>1. \A m, n : m # n /\ MiddlewareStep(m) => StepElsewhere(n)
  BY DEF MiddlewareStep, StepElsewhere, Uses
<1>2. CASE RequestsNext /\ UNCHANGED <<redisVars, dbVars, fabricVars, planetmintVars, httpVars, identityVars, sharedVars, gitVars, fluxClient>>
  BY <1>2
<1>3. CASE UNCHANGED vars
  BY <1>3 DEF vars, StepElsewhere
<1>4. CASE RedisNext /\ UNCHANGED <<dbVars, fabricVars, planetmintVars, httpVars, identityVars, sharedVars, gitVars, fluxClient>>
  BY <1>4, <1>1, RedisKeeps DEF MiddlewareStep
<1>5. CASE DbNext /\ UNCHANGED <<redisVars, fabricVars, planetmintVars, httpVars, identityVars, sharedVars, gitVars, fluxClient>>
  BY <1>5, <1>1, DbKeeps DEF MiddlewareStep
<1>6. CASE FabricNext /\ UNCHANGED <<redisVars, dbVars, planetmintVars, httpVars, identityVars, sharedVars, gitVars, fluxClient>>
  BY <1>6, <1>1, FabricKeeps DEF MiddlewareStep
<1>7. CASE PlanetmintNext /\ UNCHANGED <<redisVars, dbVars, fabricVars, httpVars, identityVars, sharedVars, gitVars, fluxClient>>
  BY <1>7, <1>1, PlanetmintKeeps DEF MiddlewareStep
<1>8. CASE HttpNext /\ UNCHANGED <<redisVars, dbVars, fabricVars, planetmintVars, identityVars, sharedVars, gitVars, fluxClient>>
  BY <1>8, <1>1, HttpKeeps DEF MiddlewareStep
<1>9. CASE IdentityNext /\ UNCHANGED <<redisVars, dbVars, fabricVars, planetmintVars, httpVars, sharedVars, gitVars, fluxClient>>
  BY <1>9, <1>1, IdentityKeeps DEF MiddlewareStep
<1>10. CASE GitNext /\ UNCHANGED <<redisVars, dbVars, fabricVars, planetmintVars, httpVars, identityVars, sharedVars, fluxClient>>
  BY <1>10, <1>1, GitKeeps DEF MiddlewareStep
<1>11. CASE (FilesNext \/ LoggerNext \/ SawroomNext \/ EthereumNext) /\ UNCHANGED <<redisVars, dbVars, fabricVars, planetmintVars, httpVars, identityVars, gitVars, fluxClient>>
  <2>1. MiddlewareStep("files") \/ MiddlewareStep("logger") \/ MiddlewareStep("sawroom") \/ MiddlewareStep("ethereum")
    BY <1>11, FilesKeep, LoggerKeeps, SawroomKeeps, EthereumKeeps DEF MiddlewareStep
  <2> QED
    BY <1>11, <1>1, <2>1
<1>12. CASE InfluxdbNext /\ UNCHANGED <<redisVars, dbVars, fabricVars, planetmintVars, httpVars, identityVars, sharedVars, gitVars>>
  BY <1>12, <1>1, InfluxdbKeeps DEF MiddlewareStep
<1>13. CASE (\E r \in Requests : TakesTimestamp(r)) /\ UNCHANGED <<redisVars, dbVars, fabricVars, planetmintVars, httpVars, identityVars, sharedVars, gitVars>>
  <2>1. MiddlewareStep("timestamp")
    BY <1>13, BlocksKeep DEF TakesTimestamp, MiddlewareStep, BlocksStep, StepIsThere
  <2>2. UNCHANGED fluxClient
    BY <1>13 DEF TakesTimestamp
  <2> QED
    BY <1>13, <1>1, <2>1, <2>2
<1> QED
  BY <1>2, <1>3, <1>4, <1>5, <1>6, <1>7, <1>8, <1>9, <1>10, <1>11, <1>12, <1>13 DEF Next

-----------------------------------------------------------------------------
(* The hooks follow the plan of their request. *)

\* These steps are the end of those.
IsRest(rest, steps) ==
  /\ IsSequence(rest) /\ Len(rest) <= Len(steps)
  /\ \A i \in 1..Len(rest) : rest[i] = steps[Len(steps) - Len(rest) + i]

HookStages == {"before", "success"}

OnPlan(r) ==
  /\ call[r] \in 0..Len(plan[r].calls)
  /\ stage[r] = "waiting" => call[r] < Len(plan[r].calls)
  /\ stage[r] = "done" => call[r] = Len(plan[r].calls)
  /\ stage[r] \in HookStages =>
       call[r] >= 1 /\ IsRest(todo[r], plan[r].calls[call[r]][stage[r]])
  /\ stage[r] \notin HookStages => todo[r] = <<>>

FrameInv ==
  /\ FrameDoms
  /\ plan \in [Requests -> UNION Scenarios]
  /\ met \in [Requests -> SUBSET Requests]
  /\ DOMAIN data = Requests /\ \A r \in Requests : DOMAIN data[r] = Names
  /\ \A r \in Requests : OnPlan(r)

\* A sequence is one of its elements.
LEMMA SequenceFacts ==
  ASSUME NEW s, IsSequence(s)
  PROVE  /\ Len(s) \in Nat /\ DOMAIN s = 1..Len(s)
         /\ s # <<>> => Len(s) >= 1 /\ Head(s) = s[1]
         /\ s = <<>> => Len(s) = 0
<1> DEFINE S == {s[i] : i \in DOMAIN s}
<1>1. s \in Seq(S)
  BY DEF IsSequence
<1> HIDE DEF S
<1> QED
  BY <1>1

\* A sequence of any elements is one of its own.
LEMMA ElementsOf == ASSUME NEW S, NEW s \in Seq(S) PROVE IsSequence(s)
<1> DEFINE T == {s[i] : i \in DOMAIN s}
<1>1. Len(s) \in Nat /\ DOMAIN s = 1..Len(s) /\ s = [i \in 1..Len(s) |-> s[i]]
  OBVIOUS
<1>2. \A i \in 1..Len(s) : s[i] \in T
  BY <1>1
<1>3. s \in Seq(T)
  <2> HIDE DEF T
  <2>1. s \in [1..Len(s) -> T]
    BY <1>1, <1>2
  <2> QED
    BY <1>1, <2>1
<1> QED
  BY <1>3 DEF IsSequence

\* Every set of natural numbers but the empty one has a least element.
LEMMA LeastNumber ==
  ASSUME NEW T, T \subseteq Nat, T # {}
  PROVE  \E x \in T : \A y \in T : x <= y
<1> DEFINE R == {ss \in Nat \X Nat : ss[1] < ss[2]}
<1>1. IsWellFoundedOn(R, Nat)
  BY NatLessThanWellFounded, Zenon DEF OpToRel
<1>2. PICK x \in T : \A y \in T : ~(<<y, x>> \in R)
  <2> HIDE DEF R
  <2> QED
    BY <1>1, WFMin
<1>3. \A y \in T : ~(y < x)
  BY <1>2
<1> QED
  BY <1>3

\* A function on the first numbers is a sequence.
LEMMA FunctionIsSequence ==
  ASSUME NEW n \in Nat, NEW f, f = [i \in 1..n |-> f[i]]
  PROVE  IsSequence(f) /\ Len(f) = n /\ DOMAIN f = 1..n
<1> DEFINE S == {f[i] : i \in DOMAIN f}
<1>1. f \in [1..n -> S]
  OBVIOUS
<1> HIDE DEF S
<1>2. f \in Seq(S) /\ Len(f) = n
  BY <1>1
<1> QED
  BY <1>1, <1>2 DEF IsSequence, S

\* The elements of two sequences in one.
LEMMA ConcatenationElements ==
  ASSUME NEW s, NEW t, IsSequence(s), IsSequence(t)
  PROVE  /\ IsSequence(s \o t) /\ Len(s) \in Nat /\ Len(t) \in Nat
         /\ Len(s \o t) = Len(s) + Len(t) /\ DOMAIN (s \o t) = 1..(Len(s) + Len(t))
         /\ \A i \in DOMAIN s : i \in DOMAIN (s \o t) /\ (s \o t)[i] = s[i]
         /\ \A i \in DOMAIN (s \o t) :
              (s \o t)[i] \in {s[j] : j \in DOMAIN s} \cup {t[j] : j \in DOMAIN t}
<1> DEFINE S == {s[i] : i \in DOMAIN s} \cup {t[i] : i \in DOMAIN t}
<1>1. s \in Seq(S) /\ t \in Seq(S)
  <2>1. ASSUME NEW u, IsSequence(u), \A i \in DOMAIN u : u[i] \in S PROVE u \in Seq(S)
    <3> DEFINE U == {u[i] : i \in DOMAIN u}
    <3>1. u \in Seq(U)
      BY <2>1 DEF IsSequence
    <3> HIDE DEF U, S
    <3>2. Len(u) \in Nat /\ u \in [1..Len(u) -> U] /\ DOMAIN u = 1..Len(u)
      BY <3>1
    <3>3. u \in [1..Len(u) -> S]
      BY <2>1, <3>2
    <3> QED
      BY <3>2, <3>3
  <2> QED
    BY <2>1
<1> HIDE DEF S
<1>2. /\ s \o t \in Seq(S) /\ Len(s) \in Nat /\ Len(t) \in Nat /\ Len(s \o t) = Len(s) + Len(t)
      /\ DOMAIN s = 1..Len(s) /\ DOMAIN t = 1..Len(t) /\ DOMAIN (s \o t) = 1..(Len(s) + Len(t))
  BY <1>1
<1>3. \A i \in 1..Len(s) : (s \o t)[i] = s[i]
  BY <1>1, <1>2
<1>4. ASSUME NEW i \in 1..(Len(s) + Len(t)), i \notin 1..Len(s)
      PROVE  \E j \in 1..Len(t) : (s \o t)[i] = t[j]
  <2>1. i - Len(s) \in 1..Len(t)
    BY <1>2, <1>4
  <2>2. (s \o t)[i] = t[i - Len(s)]
    BY <1>1, <1>2, <1>4
  <2> QED
    BY <2>1, <2>2
<1>5. \A i \in 1..Len(s) : i \in 1..(Len(s) + Len(t))
  BY <1>2
<1> QED
  BY <1>2, <1>3, <1>4, <1>5, ElementsOf

\* The elements of the tail of a sequence.
LEMMA TailElements ==
  ASSUME NEW s, IsSequence(s), s # <<>>
  PROVE  \A i \in DOMAIN Tail(s) : Tail(s)[i] = s[i + 1] /\ i + 1 \in DOMAIN s /\ i + 1 # 1
<1> DEFINE S == {s[i] : i \in DOMAIN s}
<1>1. s \in Seq(S)
  BY DEF IsSequence
<1> HIDE DEF S
<1>2. /\ Len(s) \in Nat /\ DOMAIN s = 1..Len(s) /\ DOMAIN Tail(s) = 1..(Len(s) - 1)
      /\ \A i \in 1..(Len(s) - 1) : Tail(s)[i] = s[i + 1]
  BY <1>1
<1> QED
  BY <1>2

\* What is left of a hook after its next step.
LEMMA RestOfRest ==
  ASSUME NEW rest, NEW steps, IsSequence(steps), IsRest(rest, steps), rest # <<>>
  PROVE  /\ IsRest(Tail(rest), steps) /\ Len(Tail(rest)) = Len(rest) - 1
         /\ Len(rest) \in 1..Len(steps)
         /\ Head(rest) = steps[Len(steps) - Len(rest) + 1]
<1> DEFINE S == {rest[i] : i \in DOMAIN rest}
<1>1. rest \in Seq(S)
  BY DEF IsRest, IsSequence
<1>2. /\ Len(rest) \in Nat /\ Len(rest) >= 1 /\ Head(rest) = rest[1] /\ Tail(rest) \in Seq(S)
      /\ Len(Tail(rest)) = Len(rest) - 1 /\ \A i \in 1..Len(rest) - 1 : Tail(rest)[i] = rest[i + 1]
  <2> HIDE DEF S
  <2> QED
    BY <1>1
<1>3. IsSequence(Tail(rest))
  BY <1>2, ElementsOf
<1>4. Len(steps) \in Nat /\ Len(rest) <= Len(steps)
  BY SequenceFacts DEF IsRest
<1>5. \A i \in 1..Len(rest) : rest[i] = steps[Len(steps) - Len(rest) + i]
  BY DEF IsRest
<1>6. Head(rest) = steps[Len(steps) - Len(rest) + 1]
  BY <1>2, <1>5
<1>7. \A i \in 1..Len(Tail(rest)) : Tail(rest)[i] = steps[Len(steps) - Len(Tail(rest)) + i]
  <2> HIDE DEF S
  <2> SUFFICES ASSUME NEW i \in 1..Len(Tail(rest))
               PROVE  Tail(rest)[i] = steps[Len(steps) - Len(Tail(rest)) + i]
    OBVIOUS
  <2>1. i \in Nat /\ i + 1 \in 1..Len(rest) /\ i \in 1..Len(rest) - 1
    BY <1>2
  <2>2. Len(steps) - Len(rest) + (i + 1) = Len(steps) - Len(Tail(rest)) + i
    BY <1>2, <1>4, <2>1
  <2>3. Tail(rest)[i] = rest[i + 1] /\ rest[i + 1] = steps[Len(steps) - Len(rest) + (i + 1)]
    BY <1>2, <1>5, <2>1
  <2> QED
    BY <2>2, <2>3
<1> HIDE DEF S
<1>8. Len(Tail(rest)) <= Len(steps) /\ Len(rest) \in 1..Len(steps)
  BY <1>2, <1>4
<1> QED
  BY <1>2, <1>3, <1>6, <1>7, <1>8 DEF IsRest

\* The whole of a hook is left at first, and nothing at last.
LEMMA WholeIsRest == ASSUME NEW steps, IsSequence(steps) PROVE IsRest(steps, steps)
<1>1. Len(steps) \in Nat
  BY SequenceFacts
<1> QED
  BY <1>1 DEF IsRest

\* Plans have contract calls whose hooks are sequences of steps.
LEMMA PlanFacts ==
  ASSUME plan \in [Requests -> UNION Scenarios], NEW r \in Requests
  PROVE  /\ Len(plan[r].calls) \in Nat /\ Len(plan[r].calls) >= 1
         /\ DOMAIN plan[r].calls = 1..Len(plan[r].calls)
         /\ \A c \in 1..Len(plan[r].calls) : \A hook \in HookStages :
              IsSequence(plan[r].calls[c][hook])
<1>1. plan[r] \in UNION Scenarios
  OBVIOUS
<1>2. plan[r].calls # <<>> /\ IsSequence(plan[r].calls)
  BY <1>1, RequestsAssumption
<1>3. \A c \in DOMAIN plan[r].calls :
        IsSequence(plan[r].calls[c].before) /\ IsSequence(plan[r].calls[c].success)
  BY <1>1, RequestsAssumption
<1> QED
  BY <1>2, <1>3, SequenceFacts DEF HookStages

\* The next step of any rest of a hook is one that plans ask of that hook.
LEMMA RestIsAsked ==
  ASSUME FrameInv, NEW q \in Requests, stage[q] \in HookStages,
         NEW rest, rest # <<>>, IsRest(rest, plan[q].calls[call[q]][stage[q]])
  PROVE  /\ Head(rest) \in Asked(plan[q].mw, stage[q])
         /\ \E i \in DOMAIN plan[q].calls[call[q]][stage[q]] :
              Head(rest) = plan[q].calls[call[q]][stage[q]][i]
<1> DEFINE steps == plan[q].calls[call[q]][stage[q]]
<1>1. plan[q] \in {p \in UNION Scenarios : p.mw = plan[q].mw}
  BY DEF FrameInv
<1>2. call[q] \in 1..Len(plan[q].calls)
  BY PlanFacts DEF FrameInv, OnPlan
<1>3. IsSequence(steps) /\ DOMAIN plan[q].calls = 1..Len(plan[q].calls)
  BY <1>2, PlanFacts DEF FrameInv
<1>4. PICK i \in DOMAIN steps : Head(rest) = steps[i]
  <2> HIDE DEF steps
  <2>1. /\ Len(rest) \in 1..Len(steps) /\ Len(steps) \in Nat /\ DOMAIN steps = 1..Len(steps)
        /\ Head(rest) = steps[Len(steps) - Len(rest) + 1]
    BY <1>3, RestOfRest, SequenceFacts DEF steps
  <2>2. Len(steps) - Len(rest) + 1 \in 1..Len(steps)
    BY <2>1
  <2> QED
    BY <2>1, <2>2
<1> DEFINE OfCall(p, c) == {p.calls[c][stage[q]][j] : j \in DOMAIN p.calls[c][stage[q]]}
           OfPlan(p) == UNION {OfCall(p, c) : c \in DOMAIN p.calls}
<1>5. Head(rest) \in OfPlan(plan[q])
  <2>1. Head(rest) \in OfCall(plan[q], call[q]) /\ call[q] \in DOMAIN plan[q].calls
    BY <1>2, <1>3, <1>4
  <2> HIDE DEF OfCall
  <2> QED
    BY <2>1
<1>6. Head(rest) \in Asked(plan[q].mw, stage[q])
  <2>1. Asked(plan[q].mw, stage[q])
          = UNION {OfPlan(p) : p \in {o \in UNION Scenarios : o.mw = plan[q].mw}}
    BY DEF Asked
  <2> HIDE DEF OfPlan
  <2> QED
    BY <1>1, <1>5, <2>1
<1> QED
  BY <1>4, <1>6

\* Every step of a hook that is left is one that plans ask of that hook.
LEMMA StepIsAsked ==
  ASSUME FrameInv, NEW q \in Requests, stage[q] \in HookStages, todo[q] # <<>>
  PROVE  /\ Step(q) \in Asked(plan[q].mw, stage[q])
         /\ call[q] \in 1..Len(plan[q].calls)
         /\ \E i \in DOMAIN plan[q].calls[call[q]][stage[q]] :
              Step(q) = plan[q].calls[call[q]][stage[q]][i]
<1>1. call[q] \in 1..Len(plan[q].calls) /\ IsRest(todo[q], plan[q].calls[call[q]][stage[q]])
  BY PlanFacts DEF FrameInv, OnPlan
<1> QED
  BY <1>1, RestIsAsked DEF Step

\* What is left of a hook at work.
LEMMA TodoFacts ==
  ASSUME FrameInv, NEW q \in Requests, stage[q] \in HookStages, todo[q] # <<>>
  PROVE  /\ Len(todo[q]) \in Nat /\ Len(todo[q]) >= 1
         /\ Len(Tail(todo[q])) = Len(todo[q]) - 1
<1> DEFINE steps == plan[q].calls[call[q]][stage[q]]
<1>1. IsSequence(steps) /\ IsRest(todo[q], steps)
  <2>1. call[q] \in 1..Len(plan[q].calls)
    BY PlanFacts DEF FrameInv, OnPlan
  <2> QED
    BY <2>1, PlanFacts DEF FrameInv, OnPlan
<1> HIDE DEF steps
<1>2. Len(steps) \in Nat
  BY <1>1, SequenceFacts
<1> QED
  BY <1>1, <1>2, RestOfRest

\* Before any request has called a hook.
LEMMA FrameInvInit == Init => FrameInv
<1> SUFFICES ASSUME Init PROVE FrameInv
  OBVIOUS
<1>1. RequestsInit
  BY DEF Init
<1>2. plan \in [Requests -> UNION Scenarios]
  BY <1>1 DEF RequestsInit
<1>3. FrameDoms
  BY <1>1 DEF RequestsInit, FrameDoms, Stages, Reasons
<1>4. ASSUME NEW r \in Requests PROVE OnPlan(r)
  <2>1. call[r] = 0 /\ stage[r] = "waiting" /\ todo[r] = <<>>
    BY <1>1 DEF RequestsInit
  <2>2. 0 \in 0..Len(plan[r].calls) /\ 0 < Len(plan[r].calls)
    BY <1>2, PlanFacts
  <2> QED
    BY <2>1, <2>2 DEF OnPlan, HookStages
<1>5. met \in [Requests -> SUBSET Requests]
  BY <1>1 DEF RequestsInit
<1>6. DOMAIN data = Requests /\ \A r \in Requests : DOMAIN data[r] = Names
  BY <1>1 DEF RequestsInit
<1> QED
  BY <1>2, <1>3, <1>4, <1>5, <1>6 DEF FrameInv

\* A step of a middleware keeps a request on its plan.
LEMMA StepsKeepPlan ==
  ASSUME FrameInv, NEW q \in Requests, Steps(q)
  PROVE  FrameInv'
<1>1. /\ FrameDoms' /\ plan' = plan /\ call' = call /\ met' = met
      /\ \A r \in Requests \ {q} : stage'[r] = stage[r] /\ todo'[r] = todo[r]
  BY DEF Steps, Works, Kept
<1>2. DOMAIN data' = Requests /\ \A r \in Requests : DOMAIN data'[r] = Names
  BY DEF Steps, DataKept, FrameInv
<1>3. OnPlan(q)'
  <2>1. OnPlan(q) /\ call[q] \in Nat
    BY DEF FrameInv, FrameDoms
  <2>2. CASE stage'[q] = stage[q] /\ todo'[q] = todo[q]
    BY <1>1, <2>1, <2>2 DEF OnPlan
  <2>3. CASE stage'[q] = "failed" /\ todo'[q] = <<>>
    BY <1>1, <2>1, <2>3 DEF OnPlan, HookStages
  <2>4. CASE stage'[q] = stage[q] /\ todo[q] # <<>> /\ todo'[q] = Tail(todo[q])
    <3>1. stage[q] \in HookStages /\ IsRest(todo[q], plan[q].calls[call[q]][stage[q]])
      BY <2>1, <2>4 DEF OnPlan
    <3>2. call[q] \in 1..Len(plan[q].calls)
      BY <2>1, <3>1, PlanFacts DEF OnPlan, FrameInv
    <3>3. IsSequence(plan[q].calls[call[q]][stage[q]])
      BY <3>1, <3>2, PlanFacts DEF FrameInv
    <3>4. IsRest(Tail(todo[q]), plan[q].calls[call[q]][stage[q]])
      BY <2>4, <3>1, <3>3, RestOfRest
    <3> QED
      BY <1>1, <2>1, <2>4, <3>1, <3>4 DEF OnPlan
  <2> QED
    BY <2>2, <2>3, <2>4 DEF Steps, Works
<1>4. \A r \in Requests : OnPlan(r)'
  BY <1>1, <1>3 DEF FrameInv, OnPlan
<1> QED
  BY <1>1, <1>2, <1>4 DEF FrameInv

\* A step of callRestroom, which starts or ends a hook.
RequestStep(q) ==
  EnterBefore(q) \/ DataIsMalformed(q) \/ ZenroomRuns(q) \/ ZenroomRejects(q) \/ SuccessEnds(q)

\* It touches one request only.
LEMMA RequestStepKeeps ==
  ASSUME FrameInv, NEW q \in Requests, RequestStep(q)
  PROVE  Kept(q)
<1> USE DEF Kept, FrameDoms, FrameInv, Stages
<1>1. CASE EnterBefore(q)
  <2>1. at[q] = 0
    BY <1>1 DEF EnterBefore, OnPlan, HookStages
  <2>2. call' \in [Requests -> Nat]
    BY <1>1 DEF EnterBefore
  <2> QED
    BY <1>1, <2>1, <2>2 DEF EnterBefore
<1>2. CASE DataIsMalformed(q) \/ ZenroomRejects(q)
  BY <1>2, BlocksKeep DEF DataIsMalformed, ZenroomRejects, BlocksStep, Steps, Works, Reasons
<1>3. CASE ZenroomRuns(q)
  BY <1>3 DEF ZenroomRuns
<1>4. CASE SuccessEnds(q)
  BY <1>4 DEF SuccessEnds
<1> QED
  BY <1>1, <1>2, <1>3, <1>4 DEF RequestStep

\* It keeps the request on its plan: the next hook starts with all its steps.
LEMMA RequestStepKeepsPlan ==
  ASSUME FrameInv, NEW q \in Requests, RequestStep(q)
  PROVE  FrameInv'
<1>1. Kept(q)
  BY RequestStepKeeps
<1>2. met' \in [Requests -> SUBSET Requests]
  <2>1. CASE EnterBefore(q)
    <3> DEFINE active == {p \in Requests : stage[p] \in {"before", "success"}}
    <3>1. met' = [p \in Requests |-> IF p = q THEN active
                                      ELSE IF p \in active THEN met[p] \cup {q} ELSE met[p]]
      BY <2>1 DEF EnterBefore
    <3>2. \A p \in Requests : met[p] \subseteq Requests
      BY DEF FrameInv
    <3> QED
      BY <3>1, <3>2
  <2>2. CASE met' = met
    BY <2>2 DEF FrameInv
  <2> QED
    BY <2>1, <2>2 DEF RequestStep, DataIsMalformed, ZenroomRuns, ZenroomRejects, SuccessEnds,
                      Reject, Fail
<1>3. DOMAIN data' = Requests /\ \A r \in Requests : DOMAIN data'[r] = Names
  <2>1. data' = data \/ data' = [data EXCEPT ![q] = [n \in Names |-> None]]
    BY DEF RequestStep, EnterBefore, DataIsMalformed, ZenroomRuns, ZenroomRejects, SuccessEnds,
           Reject
  <2> QED
    BY <2>1 DEF FrameInv
<1>4. OnPlan(q)'
  <2>1. /\ OnPlan(q) /\ call[q] \in Nat /\ call'[q] \in Nat /\ plan' = plan
        /\ Len(plan[q].calls) \in Nat
    BY <1>1, PlanFacts DEF FrameInv, FrameDoms, Kept
  <2>2. \A c \in 1..Len(plan[q].calls) : \A hook \in HookStages :
          IsRest(plan[q].calls[c][hook], plan[q].calls[c][hook])
    BY PlanFacts, WholeIsRest DEF FrameInv
  <2>3. CASE EnterBefore(q)
    <3>1. /\ call'[q] = call[q] + 1 /\ stage'[q] = "before" /\ stage[q] = "waiting"
          /\ todo'[q] = plan[q].calls[call[q] + 1].before
      BY <2>3 DEF EnterBefore, FrameInv, FrameDoms
    <3>2. call'[q] \in 1..Len(plan[q].calls)
      BY <2>1, <3>1 DEF OnPlan
    <3>3. IsRest(todo'[q], plan[q].calls[call'[q]]["before"])
      BY <2>2, <3>1, <3>2 DEF HookStages
    <3> QED
      BY <2>1, <3>1, <3>2, <3>3 DEF OnPlan, HookStages
  <2>4. CASE DataIsMalformed(q) \/ ZenroomRejects(q)
    <3>1. stage'[q] = "failed" /\ todo'[q] = <<>> /\ call' = call
      BY <2>4 DEF DataIsMalformed, ZenroomRejects, Reject, Fail, FrameInv, FrameDoms
    <3> QED
      BY <2>1, <3>1 DEF OnPlan, HookStages
  <2>5. CASE ZenroomRuns(q)
    <3>1. /\ stage[q] = "before" /\ stage'[q] = "success" /\ call' = call
          /\ todo'[q] = plan[q].calls[call[q]].success
      BY <2>5 DEF ZenroomRuns, FrameInv, FrameDoms
    <3>2. call[q] \in 1..Len(plan[q].calls)
      BY <2>1, <3>1 DEF OnPlan, HookStages
    <3>3. IsRest(todo'[q], plan[q].calls[call[q]]["success"])
      BY <2>2, <3>1, <3>2 DEF HookStages
    <3> QED
      BY <2>1, <3>1, <3>2, <3>3 DEF OnPlan, HookStages
  <2>6. CASE SuccessEnds(q)
    <3>1. /\ stage[q] = "success" /\ todo'[q] = <<>> /\ call' = call
          /\ stage'[q] = IF call[q] < Len(plan[q].calls) THEN "waiting" ELSE "done"
      BY <2>6 DEF SuccessEnds, FrameInv, FrameDoms
    <3> QED
      BY <2>1, <3>1 DEF OnPlan, HookStages
  <2> QED
    BY <2>3, <2>4, <2>5, <2>6 DEF RequestStep
<1>5. \A r \in Requests : OnPlan(r)'
  BY <1>1, <1>4 DEF FrameInv, OnPlan, Kept
<1> QED
  BY <1>1, <1>2, <1>3, <1>5 DEF FrameInv, Kept

\* Every step of the composed system keeps all requests on their plans.
LEMMA FrameInvStep == FrameInv /\ [Next]_vars => FrameInv'
<1> SUFFICES ASSUME FrameInv, [Next]_vars PROVE FrameInv'
  OBVIOUS
<1>1. CASE RequestsNext
  BY <1>1, RequestStepKeepsPlan DEF RequestsNext, RequestStep
<1>2. CASE \E q \in Requests : Steps(q)
  BY <1>2, StepsKeepPlan
<1>3. CASE UNCHANGED frame
  BY <1>3 DEF frame, FrameInv, FrameDoms, OnPlan
<1> QED
  BY <1>1, <1>2, <1>3, NextSteps DEF FrameInv

\* No step changes what requests ask for.
LEMMA PlanIsKept == ASSUME FrameInv, [Next]_vars PROVE plan' = plan
<1>1. RequestsNext => plan' = plan
  BY DEF RequestsNext, EnterBefore, DataIsMalformed, ZenroomRuns, ZenroomRejects, SuccessEnds,
         Reject, Fail
<1>2. (\E q \in Requests : Steps(q)) => plan' = plan
  BY DEF Steps, Works, Kept
<1> QED
  BY <1>1, <1>2, NextSteps DEF FrameInv, frame

\* Whatever requests do, each of them works off its plan, step by step.
THEOREM HooksFollowThePlan == Spec => []FrameInv
  BY FrameInvInit, FrameInvStep, PTL DEF Spec
=============================================================================
