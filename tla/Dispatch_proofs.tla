--------------------------- MODULE Dispatch_proofs ---------------------------
(***************************************************************************)
(* The safety properties of one request, for any chains, any number of     *)
(* elements and any number of hooks that call next(e) themselves.          *)
(***************************************************************************)
EXTENDS Dispatch, SequenceTheorems, TLAPS

-----------------------------------------------------------------------------
(* The inductive invariant. *)

InBlock == {"block", "instance", "call", "blockEnd"}
Entered == {path[i] : i \in DOMAIN path}

\* A block that is not iterated has one instance.
BlockInv ==
  /\ pc \in InBlock => block \in Entered
  /\ pc \in {"instance", "call"} /\ ~yml.forEach[block] => element = 1 /\ elements = 1
  /\ pc # "done" => answer.status = "none"

\* The failure for element e of block b may yet be followed by a success for
\* a later element, or by the end of the call it happened in.
UnderWay(b, e) ==
  /\ b = block
  /\ \/ pc \in {"instance", "call"} /\ yml.forEach[b] /\ e < element
     \/ pc = "call" /\ callFailed /\ e = element

\* A failure is forgotten only where a later element has succeeded: before
\* that it is under way, or the chain is about to answer an error.
FailureInv ==
  /\ callAnswer = "result" => ~callFailed
  /\ kind = "contract" /\ failures # {} => callFailed
  /\ kind = "chain" =>
       \/ answer.status = "error"
       \/ pc = "blockEnd" /\ callAnswer = "error"
       \/ \A f \in failures : LaterElementSucceeded(f[1], f[2]) \/ UnderWay(f[1], f[2])

\* What dispatch goes by is what the run has come to.
ResultInv ==
  /\ stage \in {"middlewares", "running"} => result = "none"
  /\ stage = "lookup" => result = "enoent"
  /\ result = "ok" => \/ kind = "contract" /\ callAnswer = "result"
                      \/ kind = "chain" /\ answer.status = "ok"

Unanswered == {"middlewares", "running", "respond", "lookup"}

\* dispatch answers once, with what it goes by; the default error handler may
\* have been there before it.
ResponseInv ==
  /\ stage \in Unanswered => response \in {"none", "default"}
  /\ response = "200" => result = "ok"
  /\ response = "404" => result = "enoent"
  /\ response = "500" => result = "error"

\* Without next(e) of a hook, only sendError's reaches the default handler,
\* and that after the 500.
ErrorsInv ==
  /\ errors <= handOvers + 1 /\ (stage # "done" => errors <= handOvers)
  /\ handOvers = 0 =>
       /\ response # "default"
       /\ errors > 0 \/ connection = "destroyed" => response = "500"

IInv == TypeOK /\ BlockInv /\ FailureInv /\ ResultInv /\ ResponseInv /\ ErrorsInv /\ OnlyKnownCrashes

-----------------------------------------------------------------------------
(* The steps, by what they do to the run. *)

\* Only the contract call, the chain and a hook touch the state of the run.
LEMMA RunSteps ==
  ASSUME [Next]_vars
  PROVE  /\ kind' = kind
         /\ \/ ContractStep \/ ChainStep \/ HookHandsOver
            \/ UNCHANGED <<failures, yml, runVars>>
<1> USE DEF vars
<1>1. CASE MissingFile \/ StartRun \/ LateHandOver \/ DefaultHandler
  BY <1>1 DEF MissingFile, StartRun, LateHandOver, DefaultHandler
<1>2. CASE ContractStep \/ ChainStep \/ HookHandsOver
  BY <1>2 DEF ContractStep, ChainStep, HookHandsOver
<1>3. CASE ContractSettled \/ ChainSettled
  BY <1>3 DEF ContractSettled, ChainSettled
<1>4. CASE SendResult \/ SendError \/ LookUpContracts \/ LookedUp
  BY <1>4 DEF SendResult, SendError, LookUpContracts, LookedUp
<1>5. CASE UNCHANGED vars
  BY <1>5
<1> QED
  BY <1>1, <1>2, <1>3, <1>4, <1>5 DEF Next

\* Out of a step of the chain itself, its variables stay but for the call's.
LEMMA RestSteps ==
  ASSUME [Next]_vars, ~ChainStep
  PROVE  UNCHANGED <<yml, pc, block, data, context, element, elements, debugContext, path,
                     calls, answer>>
BY RunSteps DEF ContractStep, HookHandsOver, runVars, restVars

\* A path that grows keeps the blocks entered, and the new one is among them.
LEMMA EnteredGrows ==
  ASSUME path \in Seq(Blocks), NEW b \in Blocks, path' = Append(path, b)
  PROVE  path' \in Seq(Blocks) /\ Entered' = Entered \cup {b}
<1>1. /\ path' \in Seq(Blocks) /\ Len(path') = Len(path) + 1 /\ path'[Len(path) + 1] = b
      /\ \A i \in 1..Len(path) : path'[i] = path[i]
  OBVIOUS
<1>2. DOMAIN path = 1..Len(path) /\ DOMAIN path' = 1..Len(path) + 1
  BY <1>1
<1>3. Len(path) \in Nat
  OBVIOUS
<1>4. 1..Len(path) + 1 = 1..Len(path) \cup {Len(path) + 1}
  BY <1>3
<1> QED
  BY <1>1, <1>2, <1>4 DEF Entered

\* Within a block there is a current one.
LEMMA BlocksInBlock ==
  ASSUME TypeOK, BlockInv, pc \in InBlock
  PROVE  block \in Blocks /\ block \in Entered
<1>1. path \in Seq(Blocks)
  BY DEF TypeOK, Run!TypeOK
<1>2. Entered \subseteq Blocks
  BY <1>1 DEF Entered
<1> QED
  BY <1>2 DEF BlockInv

\* The next block to enter, if there is one, is a block of the yml.
LEMMA EnterStep ==
  ASSUME TypeOK, BlockInv, Run!StartChain \/ Run!NextBlock
  PROVE  /\ \E b \in Blocks : path' = Append(path, b) /\ block' = b
         /\ pc' = "block" /\ yml' = yml /\ data' \in SUBSET Run!Entries
         /\ context' = {} /\ element' = 0 /\ elements' = 0
         /\ UNCHANGED <<callAnswer, callFailed, calls, answer>>
<1>1. yml \in Yml /\ block \in Blocks \cup {None}
  BY DispatchAssumption DEF TypeOK, Run!TypeOK
<1>2. yml.next \in [Blocks -> Blocks \cup {None}] /\ yml.blocks \subseteq Blocks
  BY <1>1 DEF Yml
<1>3. Run!Request \in Run!Entries /\ \A b \in Blocks : Run!OutputOf(b) \in Run!Entries
  BY DEF Run!Entries, Run!Request, Run!OutputOf
<1>4. CASE Run!StartChain
  BY <1>2, <1>3, <1>4 DEF Run!StartChain, Run!EnterBlock, Run!Valid, Run!StartOk, Run!callVars
<1>5. CASE Run!NextBlock
  <2>1. Run!OutputOf(block) \in Run!Entries
    BY <1>3, <1>5, BlocksInBlock DEF Run!NextBlock, InBlock
  <2>2. yml.next[block] \in Blocks /\ Run!EnterBlock(yml.next[block], {Run!OutputOf(block)})
    BY <1>2, <1>5 DEF Run!NextBlock
  <2>3. UNCHANGED <<yml, callAnswer, callFailed, calls, answer>>
    BY <1>5 DEF Run!NextBlock, Run!callVars
  <2> QED
    BY <2>1, <2>2, <2>3 DEF Run!EnterBlock
<1> QED
  BY <1>4, <1>5

-----------------------------------------------------------------------------
(* Types of the run. *)

DataTypes ==
  /\ yml \in Ymls
  /\ pc \in InBlock \cup {"load", "done"}
  /\ block \in Blocks \cup {None}
  /\ data \subseteq Run!Entries /\ context \subseteq Run!Entries
  /\ element \in 0..elements /\ elements \in 0..MaxElements

HistoryTypes ==
  /\ debugContext \in [blocks : SUBSET Blocks, outputs : SUBSET Blocks]
  /\ path \in Seq(Blocks)
  /\ calls \in Seq([block : Blocks, element : Nat, ok : BOOLEAN])

AnswerTypes ==
  /\ callAnswer \in Call!Answers /\ callFailed \in BOOLEAN
  /\ answer \in Run!Answers

\* The three are the types of Chain.
LEMMA RunTypes == Run!TypeOK <=> DataTypes /\ HistoryTypes /\ AnswerTypes
BY DEF Run!TypeOK, DataTypes, HistoryTypes, AnswerTypes, InBlock, Run!Call!Answers, Call!Answers

\* The data of a chain keeps to its types.
LEMMA DataTypesStep == TypeOK /\ BlockInv /\ Run!Next => DataTypes'
<1> SUFFICES ASSUME TypeOK, BlockInv, Run!Next
             PROVE  DataTypes'
  OBVIOUS
<1>0. DataTypes
  BY RunTypes DEF TypeOK
<1>1. pc \in InBlock => block \in Blocks
  BY BlocksInBlock
<1>2. \A b \in Blocks : Run!ElementOf(b) \in Run!Entries /\ Run!HookOf(b) \in Run!Entries
  BY DEF Run!Entries, Run!ElementOf, Run!HookOf
<1>3. pc = "instance" /\ Run!JoinElement => data' \subseteq Run!Entries
  BY <1>0, <1>1, <1>2 DEF Run!JoinElement, InBlock, DataTypes
<1> USE <1>0 DEF DataTypes, InBlock, Run!blockVars, Run!Answer, Run!BlockError
<1>4. CASE Run!StartChain \/ Run!NextBlock
  BY <1>4, EnterStep, DispatchAssumption
<1>5. CASE Run!SingleInstance \/ Run!MultipleInstances
  BY <1>5, DispatchAssumption DEF Run!SingleInstance, Run!MultipleInstances
<1>6. CASE Run!BadKeys \/ Run!BadZen \/ Run!MissingContract \/ Run!StartCall
  BY <1>3, <1>6 DEF Run!BadKeys, Run!BadZen, Run!MissingContract, Run!StartCall, Run!PrepareInstance
<1>7. CASE Run!HookWrites
  BY <1>1, <1>2, <1>7 DEF Run!HookWrites
<1>8. CASE Run!InstanceDone
  BY <1>8 DEF Run!InstanceDone
<1>9. CASE Run!CallStep \/ Run!CallThrows
  BY <1>9 DEF Run!CallStep, Run!CallThrows
<1>10. CASE \/ Run!RejectYml \/ Run!NothingToIterate \/ Run!BlockFailed \/ Run!LastBlockDone
            \/ Run!NextPointsNowhere
  BY <1>10 DEF Run!RejectYml, Run!NothingToIterate, Run!BlockFailed, Run!LastBlockDone,
               Run!NextPointsNowhere
<1> QED
  BY <1>4, <1>5, <1>6, <1>7, <1>8, <1>9, <1>10 DEF Run!Next

\* So do its histories.
LEMMA HistoryTypesStep == TypeOK /\ BlockInv /\ Run!Next => HistoryTypes'
<1> SUFFICES ASSUME TypeOK, BlockInv, Run!Next
             PROVE  HistoryTypes'
  OBVIOUS
<1>0. HistoryTypes /\ element \in Nat
  <2>1. HistoryTypes /\ element \in 0..elements
    BY RunTypes DEF TypeOK, DataTypes
  <2> QED
    BY <2>1
<1>1. pc \in InBlock => block \in Blocks
  BY BlocksInBlock
<1> USE DEF HistoryTypes, InBlock
<1>2. ASSUME pc = "instance", Run!PrepareInstance
      PROVE  HistoryTypes'
  <2>1. debugContext' = [debugContext EXCEPT !.blocks = @ \cup {block}]
    BY <1>2 DEF Run!PrepareInstance
  <2>2. debugContext' \in [blocks : SUBSET Blocks, outputs : SUBSET Blocks]
    BY <1>0, <1>1, <1>2, <2>1
  <2>3. UNCHANGED <<path, calls>>
    BY <1>2 DEF Run!PrepareInstance
  <2> QED
    BY <1>0, <2>2, <2>3
<1>3. pc = "blockEnd" /\ Run!RecordOutput =>
        debugContext' \in [blocks : SUBSET Blocks, outputs : SUBSET Blocks]
  BY <1>0, <1>1 DEF Run!RecordOutput
<1>4. CASE Run!StartChain \/ Run!NextBlock
  <2>1. debugContext' \in [blocks : SUBSET Blocks, outputs : SUBSET Blocks]
    BY <1>0, <1>3, <1>4 DEF Run!StartChain, Run!NextBlock
  <2>2. path' \in Seq(Blocks) /\ calls' = calls
    BY <1>0, <1>4, EnterStep, EnteredGrows
  <2> QED
    BY <1>0, <2>1, <2>2
<1>5. CASE Run!SingleInstance \/ Run!MultipleInstances \/ Run!NothingToIterate \/ Run!RejectYml
  BY <1>0, <1>5 DEF Run!SingleInstance, Run!MultipleInstances, Run!NothingToIterate, Run!RejectYml,
                    Run!blockVars
<1>6. CASE Run!BadKeys
  BY <1>0, <1>6 DEF Run!BadKeys
<1>7. CASE Run!BadZen \/ Run!MissingContract \/ Run!StartCall
  BY <1>2, <1>7 DEF Run!BadZen, Run!MissingContract, Run!StartCall
<1>8. CASE Run!CallStep \/ Run!HookWrites \/ Run!CallThrows
  BY <1>0, <1>8 DEF Run!CallStep, Run!HookWrites, Run!CallThrows
<1>9. CASE Run!InstanceDone
  <2> DEFINE c == [block |-> block, element |-> element, ok |-> callAnswer = "result"]
  <2>1. c \in [block : Blocks, element : Nat, ok : BOOLEAN]
    BY <1>0, <1>1, <1>9 DEF Run!InstanceDone
  <2>2. calls' = Append(calls, c) /\ UNCHANGED <<debugContext, path>>
    BY <1>9 DEF Run!InstanceDone
  <2> HIDE DEF c
  <2> QED
    BY <1>0, <2>1, <2>2
<1>10. CASE Run!BlockFailed \/ Run!LastBlockDone \/ Run!NextPointsNowhere
  BY <1>0, <1>3, <1>10 DEF Run!BlockFailed, Run!LastBlockDone, Run!NextPointsNowhere
<1> QED
  BY <1>4, <1>5, <1>6, <1>7, <1>8, <1>9, <1>10 DEF Run!Next

\* And the answers of its calls and its own.
LEMMA AnswerTypesStep == TypeOK /\ BlockInv /\ Run!Next => AnswerTypes'
<1> SUFFICES ASSUME TypeOK, BlockInv, Run!Next
             PROVE  AnswerTypes'
  OBVIOUS
<1>0. AnswerTypes
  BY RunTypes DEF TypeOK
<1> USE <1>0 DEF AnswerTypes, Call!Answers, Run!callVars
<1>1. yml.debug \in BOOLEAN /\ yml.parses \in BOOLEAN
  <2>1. yml \in Yml
    BY DispatchAssumption, RunTypes DEF TypeOK, DataTypes
  <2> QED
    BY <2>1 DEF Yml
<1>2. ASSUME NEW s, NEW e, NEW n, NEW d, Run!Answer(s, e, n, d),
             s \in {"none", "ok", "error"}, e \in {"none", "yml", "block", "contract"},
             n \in BOOLEAN, d \in BOOLEAN
      PROVE  answer' \in Run!Answers
  BY <1>2 DEF Run!Answer, Run!Answers
<1>3. ASSUME NEW n \in BOOLEAN, Run!BlockError(n) PROVE answer' \in Run!Answers
  BY <1>1, <1>2, <1>3 DEF Run!BlockError
<1>4. CASE Run!RejectYml
  BY <1>1, <1>2, <1>4 DEF Run!RejectYml
<1>5. CASE Run!NothingToIterate \/ Run!BadKeys \/ Run!BadZen \/ Run!MissingContract \/ Run!CallThrows
  BY <1>3, <1>5 DEF Run!NothingToIterate, Run!BadKeys, Run!BadZen, Run!MissingContract, Run!CallThrows
<1>6. CASE Run!BlockFailed \/ Run!LastBlockDone \/ Run!NextPointsNowhere
  BY <1>1, <1>2, <1>6 DEF Run!BlockFailed, Run!LastBlockDone, Run!NextPointsNowhere
<1>7. CASE Run!StartChain \/ Run!NextBlock
  BY <1>7 DEF Run!StartChain, Run!NextBlock
<1>8. CASE Run!SingleInstance \/ Run!MultipleInstances \/ Run!HookWrites \/ Run!InstanceDone
  BY <1>8 DEF Run!SingleInstance, Run!MultipleInstances, Run!HookWrites, Run!InstanceDone
<1>9. CASE Run!StartCall
  BY <1>9 DEF Run!StartCall
<1>10. CASE Run!CallStep
  BY <1>10 DEF Run!CallStep, Run!Call!Next, Run!Call!Fail, Run!Call!ReturnResult, Run!Call!ReturnError
<1> QED
  BY <1>4, <1>5, <1>6, <1>7, <1>8, <1>9, <1>10 DEF Run!Next

\* The types of the run hold after every step of the request.
LEMMA RunTypesStep == TypeOK /\ BlockInv /\ [Next]_vars => Run!TypeOK'
<1> SUFFICES ASSUME TypeOK, BlockInv, [Next]_vars
             PROVE  Run!TypeOK'
  OBVIOUS
<1>1. DataTypes /\ HistoryTypes /\ AnswerTypes
  BY RunTypes DEF TypeOK
<1>2. (DataTypes /\ HistoryTypes /\ AnswerTypes)' => Run!TypeOK'
  BY DEF Run!TypeOK, DataTypes, HistoryTypes, AnswerTypes, InBlock, Run!Call!Answers, Call!Answers
<1>3. CASE ChainStep
  BY <1>2, <1>3, DataTypesStep, HistoryTypesStep, AnswerTypesStep DEF ChainStep
<1>4. CASE ~ChainStep
  <2>1. DataTypes' /\ HistoryTypes'
    BY <1>1, <1>4, RestSteps DEF DataTypes, HistoryTypes, Run!Entries
  <2>2. AnswerTypes'
    <3>1. answer' = answer
      BY <1>4, RestSteps
    <3> USE <1>1, <3>1 DEF AnswerTypes
    <3>2. CASE ContractStep
      BY <3>2 DEF ContractStep, Call!Next, Call!Fail, Call!ReturnResult, Call!ReturnError, Call!Answers
    <3>3. CASE HookHandsOver
      BY <3>3 DEF HookHandsOver
    <3>4. CASE UNCHANGED <<failures, yml, runVars>>
      BY <3>4 DEF runVars, callVars
    <3> QED
      BY <1>4, <3>2, <3>3, <3>4, RunSteps
  <2> QED
    BY <1>2, <2>1, <2>2
<1> QED
  BY <1>3, <1>4

-----------------------------------------------------------------------------
(* Failures. *)

\* A block is among those entered, and has one instance if it is not iterated.
LEMMA BlockInvStep == TypeOK /\ BlockInv /\ [Next]_vars => BlockInv'
<1> SUFFICES ASSUME TypeOK, BlockInv, [Next]_vars
             PROVE  BlockInv'
  OBVIOUS
<1>1. CASE ~ChainStep
  BY <1>1, RestSteps DEF BlockInv, Entered
<1>2. CASE ChainStep
  <2>1. Run!Next
    BY <1>2 DEF ChainStep
  <2> USE DEF BlockInv, InBlock, Run!blockVars, Run!Answer, Run!BlockError
  <2>2. CASE Run!StartChain \/ Run!NextBlock
    <3>1. PICK b \in Blocks : path' = Append(path, b) /\ block' = b
      BY <2>2, EnterStep
    <3>2. path \in Seq(Blocks)
      BY DEF TypeOK, Run!TypeOK
    <3>3. block' \in Entered'
      BY <3>1, <3>2, EnteredGrows
    <3>4. pc' = "block" /\ answer' = answer /\ pc # "done"
      BY <2>2, EnterStep DEF Run!StartChain, Run!NextBlock
    <3> QED
      BY <3>3, <3>4
  <2>3. CASE Run!SingleInstance \/ Run!MultipleInstances
    BY <2>3 DEF Run!SingleInstance, Run!MultipleInstances, Entered
  <2>4. CASE Run!StartCall
    BY <2>4 DEF Run!StartCall, Run!PrepareInstance, Entered
  <2>5. CASE Run!CallStep \/ Run!HookWrites
    BY <2>5 DEF Run!CallStep, Run!HookWrites, Entered
  <2>6. CASE Run!InstanceDone
    <3>1. element \in 0..elements /\ elements \in Nat
      <4>1. element \in 0..elements /\ elements \in 0..MaxElements
        BY RunTypes DEF TypeOK, DataTypes
      <4> QED
        BY <4>1, DispatchAssumption
    <3> QED
      BY <2>6, <3>1 DEF Run!InstanceDone, Entered
  <2>7. CASE \/ Run!RejectYml \/ Run!NothingToIterate \/ Run!BadKeys \/ Run!BadZen
             \/ Run!MissingContract \/ Run!CallThrows
             \/ Run!BlockFailed \/ Run!LastBlockDone \/ Run!NextPointsNowhere
    <3>1. pc' = "done"
      BY <2>7 DEF Run!RejectYml, Run!NothingToIterate, Run!BadKeys, Run!BadZen,
           Run!MissingContract, Run!CallThrows, Run!BlockFailed, Run!LastBlockDone,
           Run!NextPointsNowhere
    <3> QED
      BY <3>1
  <2> QED
    BY <2>1, <2>2, <2>3, <2>4, <2>5, <2>6, <2>7 DEF Run!Next
<1> QED
  BY <1>1, <1>2

\* What a step of the run adds to the failures.
LEMMA Noted ==
  ASSUME TypeOK, NoteFailure
  PROVE  /\ \A f \in failures' : f \in failures \/ (callFailed' /\ f = <<block, element>>)
         /\ ~callFailed' => failures' = failures
         /\ (callFailed => failures' = failures)
         /\ failures' \subseteq (Blocks \cup {None}) \X (0..MaxElements)
<1>1. block \in Blocks \cup {None} /\ element \in 0..elements /\ elements \in 0..MaxElements
  BY RunTypes DEF TypeOK, DataTypes
<1>2. element \in 0..MaxElements
  BY <1>1, DispatchAssumption
<1>3. failures \subseteq (Blocks \cup {None}) \X (0..MaxElements)
  BY DEF TypeOK
<1>4. <<block, element>> \in (Blocks \cup {None}) \X (0..MaxElements)
  BY <1>1, <1>2
<1> QED
  BY <1>3, <1>4 DEF NoteFailure

\* A success that has been recorded stays so.
LEMMA LaterStays ==
  ASSUME TypeOK, kind' = kind, yml' = yml,
         calls' = calls \/ \E c \in [block : Blocks, element : Nat, ok : BOOLEAN] :
                             calls' = Append(calls, c),
         NEW b, NEW e, LaterElementSucceeded(b, e)
  PROVE  LaterElementSucceeded(b, e)'
<1> DEFINE C == [block : Blocks, element : Nat, ok : BOOLEAN]
<1>1. calls \in Seq(C)
  BY RunTypes DEF TypeOK, HistoryTypes
<1>2. PICK i \in DOMAIN calls : calls[i].block = b /\ calls[i].element > e /\ calls[i].ok
  BY DEF LaterElementSucceeded
<1>3. i \in DOMAIN calls' /\ calls'[i] = calls[i]
  <2>1. CASE calls' = calls
    BY <1>2, <2>1
  <2>2. CASE \E c \in C : calls' = Append(calls, c)
    <3>1. PICK c \in C : calls' = Append(calls, c)
      BY <2>2
    <3> HIDE DEF C
    <3> QED
      BY <1>1, <1>2, <3>1
  <2> QED
    BY <2>1, <2>2
<1> QED
  BY <1>2, <1>3 DEF LaterElementSucceeded

\* Once the run of the instances is left without an error, no failure is
\* under way any more.
LEMMA AllLater ==
  ASSUME FailureInv, kind = "chain", answer.status = "none",
         pc \notin {"instance", "call"}, pc = "blockEnd" => callAnswer = "result"
  PROVE  \A f \in failures : LaterElementSucceeded(f[1], f[2])
BY DEF FailureInv, UnderWay

\* The call for one element has ended: with its failures a later element
\* deals, or the end of the block.
LEMMA InstanceDoneStep ==
  ASSUME TypeOK, BlockInv, FailureInv, kind = "chain", kind' = kind,
         Run!InstanceDone, NoteFailure
  PROVE  FailureInv'
<1> DEFINE c == [block |-> block, element |-> element, ok |-> callAnswer = "result"]
<1>1. /\ pc = "call" /\ callAnswer \in {"result", "error"} /\ answer.status = "none"
      /\ calls' = Append(calls, c)
      /\ UNCHANGED <<yml, block, elements, callAnswer, callFailed, answer>>
      /\ \/ element < elements /\ pc' = "instance" /\ element' = element + 1
         \/ element >= elements /\ pc' = "blockEnd"
  <2>1. element \in Nat /\ elements \in Nat
    <3>1. element \in 0..elements /\ elements \in 0..MaxElements
      BY RunTypes DEF TypeOK, DataTypes
    <3> QED
      BY <3>1, DispatchAssumption
  <2> QED
    BY <2>1 DEF Run!InstanceDone, Run!callVars, BlockInv
<1>2. element \in Nat /\ elements \in Nat /\ calls \in Seq([block : Blocks, element : Nat, ok : BOOLEAN])
  <2>1. element \in 0..elements /\ elements \in 0..MaxElements
    BY RunTypes DEF TypeOK, DataTypes
  <2>2. calls \in Seq([block : Blocks, element : Nat, ok : BOOLEAN])
    BY RunTypes DEF TypeOK, HistoryTypes
  <2>3. element \in Nat /\ elements \in Nat
    BY <2>1, DispatchAssumption
  <2> QED
    BY <2>2, <2>3
<1>3. c \in [block : Blocks, element : Nat, ok : BOOLEAN]
  BY <1>1, <1>2, BlocksInBlock DEF InBlock
<1>4. failures' = failures
  BY <1>1, Noted
<1>5. \A f \in failures : LaterElementSucceeded(f[1], f[2]) \/ UnderWay(f[1], f[2])
  BY <1>1 DEF FailureInv
<1>6. \A f \in failures : LaterElementSucceeded(f[1], f[2]) => LaterElementSucceeded(f[1], f[2])'
  <2> HIDE DEF c
  <2>1. \E d \in [block : Blocks, element : Nat, ok : BOOLEAN] : calls' = Append(calls, d)
    BY <1>1, <1>3
  <2> QED
    BY <1>1, <2>1, LaterStays
<1>7. \A f \in failures : f[2] \in Nat
  <2>1. failures \subseteq (Blocks \cup {None}) \X (0..MaxElements)
    BY DEF TypeOK
  <2> QED
    BY <2>1
<1>8. CASE element < elements /\ pc' = "instance" /\ element' = element + 1
  <2>1. yml.forEach[block]
    BY <1>1, <1>2, <1>8 DEF BlockInv
  <2>2. ASSUME NEW f \in failures, UnderWay(f[1], f[2])
        PROVE  UnderWay(f[1], f[2])'
    <3>1. f[1] = block /\ f[2] <= element
      BY <1>2, <1>7, <2>2 DEF UnderWay
    <3>2. f[2] < element'
      BY <1>2, <1>7, <1>8, <3>1
    <3> QED
      BY <1>1, <1>8, <2>1, <3>1, <3>2 DEF UnderWay
  <2> QED
    BY <1>1, <1>4, <1>5, <1>6, <1>8, <2>2 DEF FailureInv
<1>9. CASE pc' = "blockEnd" /\ callAnswer = "error"
  BY <1>1, <1>9 DEF FailureInv
<1>10. CASE pc' = "blockEnd" /\ callAnswer = "result"
  <2>1. ~callFailed
    BY <1>10 DEF FailureInv
  <2>2. c.ok /\ c.block = block /\ c.element = element
    BY <1>10
  <2>3. Len(calls) + 1 \in DOMAIN calls' /\ calls'[Len(calls) + 1] = c
    <3> HIDE DEF c
    <3> QED
      BY <1>1, <1>2, <1>3
  <2>4. ASSUME NEW f \in failures, UnderWay(f[1], f[2])
        PROVE  LaterElementSucceeded(f[1], f[2])'
    <3>1. f[1] = block /\ yml.forEach[block] /\ f[2] < element
      BY <2>1, <2>4 DEF UnderWay
    <3>2. element > f[2]
      BY <1>2, <1>7, <3>1
    <3> HIDE DEF c
    <3> QED
      BY <1>1, <2>2, <2>3, <3>1, <3>2 DEF LaterElementSucceeded
  <2> QED
    BY <1>1, <1>4, <1>5, <1>6, <2>1, <2>4 DEF FailureInv
<1> QED
  BY <1>1, <1>8, <1>9, <1>10

\* The last step of a chain, or of a block, leaves no failure behind unless
\* the chain answers an error or a later element has succeeded.
LEMMA ChainFailureStep ==
  ASSUME TypeOK, BlockInv, FailureInv, ChainStep
  PROVE  FailureInv'
<1>0. Run!Next /\ kind = "chain" /\ kind' = kind /\ NoteFailure
  BY DEF ChainStep
<1>1. pc # "done" => answer.status = "none"
  BY DEF BlockInv
<1>2. callFailed' = callFailed \/ ~callFailed' => failures' = failures
  BY <1>0, Noted
<1>3. ASSUME yml' = yml, calls' = calls, NEW f \in failures, LaterElementSucceeded(f[1], f[2])
      PROVE  LaterElementSucceeded(f[1], f[2])'
  BY <1>0, <1>3 DEF LaterElementSucceeded
<1> USE DEF InBlock, Run!callVars, Run!blockVars, Run!Answer, Run!BlockError
<1>4. CASE Run!StartChain \/ Run!NextBlock \/ Run!SingleInstance \/ Run!MultipleInstances
  <2>1. UNCHANGED <<yml, callAnswer, callFailed, calls>>
    BY <1>4, EnterStep DEF Run!SingleInstance, Run!MultipleInstances
  <2>2. /\ pc \notin {"instance", "call", "done"}
        /\ pc = "blockEnd" => callAnswer = "result"
    BY <1>4 DEF Run!StartChain, Run!NextBlock, Run!SingleInstance, Run!MultipleInstances
  <2>3. \A f \in failures : LaterElementSucceeded(f[1], f[2])'
    BY <1>0, <1>1, <1>3, <2>1, <2>2, AllLater
  <2> QED
    BY <1>0, <1>2, <2>1, <2>3 DEF FailureInv
<1>5. CASE Run!StartCall
  <2>1. /\ pc = "instance" /\ pc' = "call" /\ callAnswer' = "pending" /\ callFailed' = FALSE
        /\ UNCHANGED <<yml, block, element, calls>>
    BY <1>5 DEF Run!StartCall, Run!PrepareInstance
  <2>2. \A f \in failures : LaterElementSucceeded(f[1], f[2]) \/ UnderWay(f[1], f[2])
    BY <1>0, <1>1, <2>1 DEF FailureInv
  <2>3. \A f \in failures : UnderWay(f[1], f[2]) => UnderWay(f[1], f[2])'
    BY <2>1 DEF UnderWay
  <2> QED
    BY <1>0, <1>2, <1>3, <2>1, <2>2, <2>3 DEF FailureInv
<1>6. CASE Run!CallStep \/ Run!HookWrites
  <2>1. /\ pc = "call" /\ pc' = "call" /\ (callFailed => callFailed')
        /\ callAnswer' = "result" => ~callFailed'
        /\ UNCHANGED <<yml, block, element, calls>>
    BY <1>6 DEF FailureInv, Run!CallStep, Run!HookWrites, Run!Call!Next, Run!Call!Fail,
                Run!Call!ReturnResult, Run!Call!ReturnError
  <2>2. \A f \in failures : LaterElementSucceeded(f[1], f[2]) \/ UnderWay(f[1], f[2])
    BY <1>0, <1>1, <2>1 DEF FailureInv
  <2>3. \A f \in failures : UnderWay(f[1], f[2]) => UnderWay(f[1], f[2])'
    BY <2>1 DEF UnderWay
  <2>4. callFailed' => UnderWay(block, element)'
    BY <2>1 DEF UnderWay
  <2>5. \A f \in failures' : f \in failures \/ (callFailed' /\ f = <<block, element>>)
    BY <1>0, Noted
  <2>6. \A f \in failures' : LaterElementSucceeded(f[1], f[2])' \/ UnderWay(f[1], f[2])'
    <3> SUFFICES ASSUME NEW f \in failures'
                 PROVE  LaterElementSucceeded(f[1], f[2])' \/ UnderWay(f[1], f[2])'
      OBVIOUS
    <3>1. CASE f \in failures
      BY <1>3, <2>1, <2>2, <2>3, <3>1
    <3>2. CASE callFailed' /\ f = <<block, element>>
      BY <2>1, <3>2 DEF UnderWay
    <3> QED
      BY <2>5, <3>1, <3>2
  <2> QED
    BY <1>0, <2>1, <2>6 DEF FailureInv
<1>7. CASE Run!InstanceDone
  BY <1>0, <1>7, InstanceDoneStep
<1>8. CASE Run!LastBlockDone
  <2>1. /\ pc = "blockEnd" /\ callAnswer = "result"
        /\ UNCHANGED <<yml, callAnswer, callFailed, calls>>
    BY <1>8 DEF Run!LastBlockDone
  <2>2. \A f \in failures : LaterElementSucceeded(f[1], f[2])'
    BY <1>0, <1>1, <1>3, <2>1, AllLater
  <2> QED
    BY <1>0, <1>2, <2>1, <2>2 DEF FailureInv
<1>9. CASE \/ Run!RejectYml \/ Run!NothingToIterate \/ Run!BadKeys \/ Run!BadZen
           \/ Run!MissingContract \/ Run!CallThrows \/ Run!BlockFailed \/ Run!NextPointsNowhere
  <2>1. UNCHANGED <<callAnswer, callFailed>>
    BY <1>9 DEF Run!RejectYml, Run!NothingToIterate, Run!BadKeys, Run!BadZen, Run!MissingContract,
                Run!CallThrows, Run!BlockFailed, Run!NextPointsNowhere
  <2>2. answer'.status = "error"
    BY <1>9 DEF Run!RejectYml, Run!NothingToIterate, Run!BadKeys, Run!BadZen, Run!MissingContract,
                Run!CallThrows, Run!BlockFailed, Run!NextPointsNowhere
  <2> QED
    BY <1>0, <2>1, <2>2 DEF FailureInv
<1> QED
  BY <1>0, <1>4, <1>5, <1>6, <1>7, <1>8, <1>9 DEF Run!Next

\* So it is for the other steps of a request: only a contract call and a hook
\* that calls next(e) add a failure.
LEMMA FailureInvStep == TypeOK /\ BlockInv /\ FailureInv /\ [Next]_vars => FailureInv'
<1> SUFFICES ASSUME TypeOK, BlockInv, FailureInv, [Next]_vars
             PROVE  FailureInv'
  OBVIOUS
<1>1. CASE ChainStep
  BY <1>1, ChainFailureStep
<1>2. CASE ContractStep
  <2>1. kind = "contract" /\ kind' = kind /\ NoteFailure
    BY <1>2 DEF ContractStep
  <2>2. (callFailed => callFailed') /\ (callAnswer' = "result" => ~callFailed')
    BY <1>2 DEF FailureInv, ContractStep, Call!Next, Call!Fail, Call!ReturnResult,
                Call!ReturnError
  <2>3. failures' # {} => callFailed'
    BY <2>1, <2>2, Noted DEF FailureInv
  <2> QED
    BY <2>1, <2>2, <2>3 DEF FailureInv
<1>3. CASE HookHandsOver
  <2>1. /\ kind' = kind /\ (kind = "contract" \/ pc = "call") /\ NoteFailure
        /\ callAnswer' = "pending" /\ callFailed' = TRUE
        /\ UNCHANGED <<yml, pc, block, element, calls, answer>>
    BY <1>3 DEF HookHandsOver, restVars
  <2>2. CASE kind = "contract"
    BY <2>1, <2>2 DEF FailureInv
  <2>3. CASE kind = "chain" /\ pc = "call"
    <3>1. \A f \in failures : LaterElementSucceeded(f[1], f[2]) \/ UnderWay(f[1], f[2])
      BY <2>3 DEF FailureInv, BlockInv
    <3>2. ASSUME NEW f \in failures'
          PROVE  LaterElementSucceeded(f[1], f[2])' \/ UnderWay(f[1], f[2])'
      <4>1. CASE f \in failures
        BY <2>1, <3>1, <4>1 DEF LaterElementSucceeded, UnderWay
      <4>2. CASE f = <<block, element>>
        BY <2>1, <2>3, <4>2 DEF UnderWay
      <4> QED
        BY <2>1, <4>1, <4>2, Noted
    <3> QED
      BY <2>1, <2>3, <3>2 DEF FailureInv
  <2> QED
    BY <2>1, <2>2, <2>3 DEF TypeOK, Kinds
<1>4. CASE UNCHANGED <<failures, yml, runVars>>
  <2>1. UNCHANGED <<kind, failures, yml, callAnswer, callFailed, pc, block, element, calls, answer>>
    BY <1>4, RunSteps DEF runVars, callVars, restVars
  <2> QED
    BY <2>1 DEF FailureInv, LaterElementSucceeded, UnderWay
<1> QED
  BY <1>1, <1>2, <1>3, <1>4, RunSteps

-----------------------------------------------------------------------------
(* The answer. *)

\* What each step does to the answer, given the part of the invariant that
\* says where it may come from.
Replies == TypeOK /\ ResultInv /\ ResponseInv /\ ErrorsInv /\ OnlyKnownCrashes

\* The types of what dispatch itself keeps.
OwnTypes ==
  /\ kind \in Kinds
  /\ stage \in Unanswered \cup {"done", "crashed"}
  /\ result \in Results
  /\ response \in {"none", "200", "500", "404", "default"}
  /\ connection \in {"open", "destroyed"}
  /\ errors \in Nat
  /\ handOvers \in 0..MaxHandOvers
  /\ failures \subseteq (Blocks \cup {None}) \X (0..MaxElements)
  /\ unhandled \in {"none", "onException", "headers sent", "lookup"}

\* They and those of the run are all the types, as the errors are bounded.
LEMMA AllTypes ==
  /\ TypeOK => Run!TypeOK /\ OwnTypes
  /\ Run!TypeOK /\ OwnTypes /\ ErrorsInv => TypeOK
<1>1. ASSUME TypeOK
      PROVE  Run!TypeOK /\ OwnTypes
  <2>1. errors \in Nat
    <3>1. errors \in 0..MaxHandOvers + 1
      BY <1>1 DEF TypeOK
    <3> QED
      BY <3>1, DispatchAssumption
  <2> QED
    BY <1>1, <2>1 DEF TypeOK, OwnTypes, Unanswered
<1>2. ASSUME OwnTypes, ErrorsInv
      PROVE  errors \in 0..MaxHandOvers + 1
  <2>1. errors \in Nat /\ handOvers \in 0..MaxHandOvers /\ errors <= handOvers + 1
    BY <1>2 DEF OwnTypes, ErrorsInv
  <2> QED
    BY <2>1, DispatchAssumption
<1>3. Run!TypeOK /\ OwnTypes /\ ErrorsInv => TypeOK
  BY <1>2 DEF TypeOK, OwnTypes, Unanswered
<1> QED
  BY <1>1, <1>3

\* The counters are natural numbers.
LEMMA Counters ==
  ASSUME Replies
  PROVE  /\ errors \in Nat /\ handOvers \in Nat /\ MaxHandOvers \in Nat
         /\ errors <= handOvers + 1 /\ (stage # "done" => errors <= handOvers)
<1>1. errors \in Nat /\ handOvers \in 0..MaxHandOvers
  BY AllTypes DEF Replies, OwnTypes
<1>2. errors <= handOvers + 1 /\ (stage # "done" => errors <= handOvers)
  BY DEF Replies, ErrorsInv
<1> QED
  BY <1>1, <1>2, DispatchAssumption

\* The run goes on behind an answer that is still open: what the run has come
\* to is looked at once it has settled, and does not change after that.
LEMMA RunningStep ==
  ASSUME Replies, AnswerTypes', ContractStep \/ ChainStep \/ HookHandsOver
  PROVE  OwnTypes' /\ ResultInv' /\ ResponseInv' /\ ErrorsInv' /\ OnlyKnownCrashes'
<1>0. OwnTypes
  BY AllTypes DEF Replies
<1>1. /\ stage = "running" /\ UNCHANGED <<kind, stage, result, response, connection, unhandled>>
      /\ NoteFailure
  BY DEF ContractStep, ChainStep, HookHandsOver, replyVars
<1>2. \/ UNCHANGED <<errors, handOvers>>
      \/ errors' = errors + 1 /\ handOvers' = handOvers + 1 /\ handOvers < MaxHandOvers
  BY DEF ContractStep, ChainStep, HookHandsOver, HandOver, replyVars
<1>3. errors \in Nat /\ handOvers \in Nat /\ MaxHandOvers \in Nat /\ handOvers \in 0..MaxHandOvers
  BY <1>0, Counters DEF OwnTypes
<1>4. errors' \in Nat /\ handOvers' \in 0..MaxHandOvers
  BY <1>2, <1>3
<1>5. OwnTypes'
  <2>1. failures' \subseteq (Blocks \cup {None}) \X (0..MaxElements)
    BY <1>1, Noted DEF Replies
  <2> QED
    BY <1>0, <1>1, <1>4, <2>1 DEF OwnTypes
<1>6. ResultInv' /\ ResponseInv' /\ OnlyKnownCrashes'
  BY <1>1 DEF Replies, ResultInv, ResponseInv, OnlyKnownCrashes
<1>7. ErrorsInv'
  BY <1>1, <1>2, <1>3 DEF Replies, ErrorsInv
<1> QED
  BY <1>5, <1>6, <1>7

\* A hook that was left behind may still call next(e).
LEMMA LateStep ==
  ASSUME Replies, LateHandOver
  PROVE  OwnTypes' /\ ResultInv' /\ ResponseInv' /\ ErrorsInv' /\ OnlyKnownCrashes'
<1>0. OwnTypes
  BY AllTypes DEF Replies
<1>1. /\ UNCHANGED <<kind, stage, result, response, connection, unhandled, failures, answer, callAnswer>>
      /\ errors' = errors + 1 /\ handOvers' = handOvers + 1 /\ handOvers < MaxHandOvers
      /\ stage # "crashed"
  BY DEF LateHandOver, HandOver, runVars, callVars, restVars
<1>2. errors \in Nat /\ handOvers \in Nat /\ MaxHandOvers \in Nat
  BY Counters
<1>3. errors' \in Nat /\ handOvers' \in 0..MaxHandOvers
  BY <1>1, <1>2
<1>4. OwnTypes'
  BY <1>0, <1>1, <1>3 DEF OwnTypes
<1>5. ResultInv' /\ ResponseInv' /\ OnlyKnownCrashes'
  BY <1>1 DEF Replies, ResultInv, ResponseInv, OnlyKnownCrashes
<1>6. ErrorsInv'
  BY <1>1, <1>2 DEF Replies, ErrorsInv
<1> QED
  BY <1>4, <1>5, <1>6

\* The default error handler answers only if nobody has, and closes the
\* connection otherwise.
LEMMA HandlerStep ==
  ASSUME Replies, DefaultHandler
  PROVE  OwnTypes' /\ ResultInv' /\ ResponseInv' /\ ErrorsInv' /\ OnlyKnownCrashes'
<1>0. OwnTypes
  BY AllTypes DEF Replies
<1>1. /\ UNCHANGED <<kind, stage, result, handOvers, unhandled, failures, answer, callAnswer>>
      /\ errors > 0 /\ errors' = errors - 1 /\ stage # "crashed"
      /\ \/ response = "none" /\ response' = "default" /\ connection' = connection
         \/ response # "none" /\ connection' = "destroyed" /\ response' = response
  BY DEF DefaultHandler, runVars, callVars, restVars
<1>2. errors \in Nat /\ handOvers \in Nat
  BY Counters
<1>3. errors' \in Nat
  BY <1>1, <1>2
<1>4. OwnTypes'
  BY <1>0, <1>1, <1>3 DEF OwnTypes
<1>5. ResultInv' /\ ResponseInv' /\ OnlyKnownCrashes'
  BY <1>1 DEF Replies, ResultInv, ResponseInv, OnlyKnownCrashes
<1>6. ErrorsInv'
  BY <1>1, <1>2 DEF Replies, ErrorsInv
<1> QED
  BY <1>4, <1>5, <1>6

\* dispatch goes on: what the other actions have in common.
LEMMA DispatchStep ==
  ASSUME Replies,
         \/ MissingFile \/ StartRun \/ ContractSettled \/ ChainSettled
         \/ SendResult \/ SendError \/ LookUpContracts \/ LookedUp
  PROVE  OwnTypes' /\ ResultInv' /\ ResponseInv' /\ ErrorsInv' /\ OnlyKnownCrashes'
<1>0. OwnTypes
  BY AllTypes DEF Replies
<1>1. /\ UNCHANGED <<kind, connection, handOvers, failures, answer, callAnswer>>
      /\ stage \in Unanswered
  BY DEF MissingFile, StartRun, ContractSettled, ChainSettled, SendResult, SendError,
         LookUpContracts, LookedUp, replyVars, runVars, callVars, restVars, Unanswered
<1>2. response \in {"none", "default"} /\ (handOvers = 0 => response = "none")
  BY <1>1 DEF Replies, ResponseInv, ErrorsInv
<1>3. errors \in Nat /\ handOvers \in Nat /\ errors <= handOvers
  BY <1>1, Counters DEF Unanswered
<1>4. response # "none" => response = "default" /\ handOvers > 0
  BY <1>2, <1>3
<1>5. CASE StartRun \/ LookUpContracts
  <2>1. /\ UNCHANGED <<response, errors, unhandled, result>>
        /\ stage' \in {"running", "lookup"}
        /\ stage' = "running" => result = "none"
        /\ stage' = "lookup" => result = "enoent"
    BY <1>5 DEF StartRun, LookUpContracts, replyVars, Replies, ResultInv
  <2> QED
    BY <1>0, <1>1, <1>2, <1>3, <2>1 DEF OwnTypes, ResultInv, ResponseInv, ErrorsInv, OnlyKnownCrashes, Replies,
       Unanswered, Results
<1>6. CASE MissingFile
  <2>1. /\ UNCHANGED <<response, errors, unhandled>>
        /\ stage' = "respond" /\ result' \in {"error", "enoent"}
    BY <1>6 DEF MissingFile, Respond, replyVars
  <2> QED
    BY <1>0, <1>1, <1>2, <1>3, <2>1 DEF OwnTypes, ResultInv, ResponseInv, ErrorsInv, OnlyKnownCrashes, Replies,
       Unanswered, Results
<1>7. CASE ContractSettled
  <2>1. UNCHANGED <<response, errors>> /\ kind = "contract"
    BY <1>7 DEF ContractSettled, replyVars
  <2>2. \/ stage' = "respond" /\ result' = "ok" /\ callAnswer = "result" /\ UNCHANGED unhandled
        \/ stage' = "respond" /\ result' \in {"error", "enoent"} /\ UNCHANGED unhandled
        \/ stage' = "crashed" /\ unhandled' = "onException" /\ callAnswer = "rejection"
             /\ UNCHANGED result
    BY <1>7 DEF ContractSettled, Respond, Crash
  <2> QED
    BY <1>0, <1>1, <1>2, <1>3, <2>1, <2>2 DEF OwnTypes, ResultInv, ResponseInv, ErrorsInv, OnlyKnownCrashes, Replies,
       Unanswered, Results
<1>8. CASE ChainSettled
  <2>1. /\ UNCHANGED <<response, errors, unhandled>> /\ kind = "chain"
        /\ stage' = "respond" /\ result' \in {"ok", "error", "enoent"}
        /\ result' = "ok" => answer.status = "ok"
    BY <1>8 DEF ChainSettled, Respond, replyVars
  <2> QED
    BY <1>0, <1>1, <1>2, <1>3, <2>1 DEF OwnTypes, ResultInv, ResponseInv, ErrorsInv, OnlyKnownCrashes, Replies,
       Unanswered, Results
<1>9. CASE SendError
  <2>1. /\ UNCHANGED <<result, unhandled>> /\ result = "error" /\ stage' = "done"
        /\ \/ response' = "500" /\ errors' = errors + 1
           \/ response # "none" /\ UNCHANGED <<response, errors>>
    BY <1>9 DEF SendError
  <2>2. OwnTypes'
    <3>1. errors' \in Nat
      BY <1>3, <2>1
    <3> QED
      BY <1>0, <1>1, <2>1, <3>1 DEF OwnTypes, Unanswered
  <2>3. ResultInv' /\ ResponseInv'
    BY <1>1, <1>2, <2>1 DEF ResultInv, ResponseInv, Replies, Unanswered
  <2>4. ErrorsInv'
    BY <1>1, <1>2, <1>3, <2>1 DEF ErrorsInv, Replies, Unanswered
  <2>5. OnlyKnownCrashes'
    BY <1>1, <1>4, <2>1 DEF OnlyKnownCrashes, ResultInv, Replies, Unanswered
  <2> QED
    BY <2>2, <2>3, <2>4, <2>5
<1>10. CASE SendResult
  <2>1. /\ UNCHANGED <<result, errors>> /\ result = "ok"
        /\ \/ response = "none" /\ response' = "200" /\ stage' = "done" /\ UNCHANGED unhandled
           \/ response # "none" /\ UNCHANGED response /\ stage' = "crashed"
                /\ unhandled' = "headers sent"
    BY <1>10 DEF SendResult, Send, Crash
  <2>2. OwnTypes'
    BY <1>0, <1>1, <1>3, <2>1 DEF OwnTypes, Unanswered, Results
  <2>3. ResultInv' /\ ResponseInv'
    BY <1>1, <1>2, <2>1 DEF ResultInv, ResponseInv, Replies, Unanswered
  <2>4. ErrorsInv'
    BY <1>1, <1>2, <1>3, <2>1 DEF ErrorsInv, Replies, Unanswered
  <2>5. OnlyKnownCrashes'
    BY <1>1, <1>4, <2>1 DEF OnlyKnownCrashes, ResultInv, Replies, Unanswered
  <2> QED
    BY <2>2, <2>3, <2>4, <2>5
<1>11. CASE LookedUp
  <2>1. /\ UNCHANGED <<result, errors>> /\ stage = "lookup"
        /\ \/ response = "none" /\ response' = "404" /\ stage' = "done" /\ UNCHANGED unhandled
           \/ response # "none" /\ UNCHANGED response /\ stage' = "crashed"
                /\ unhandled' = "headers sent"
           \/ UNCHANGED response /\ stage' = "crashed" /\ unhandled' = "lookup"
    BY <1>11 DEF LookedUp, Send, Crash
  <2>2. OwnTypes'
    BY <1>0, <1>1, <1>3, <2>1 DEF OwnTypes, Unanswered, Results
  <2>3. ResultInv' /\ ResponseInv'
    BY <1>1, <1>2, <2>1 DEF ResultInv, ResponseInv, Replies, Unanswered
  <2>4. ErrorsInv'
    BY <1>1, <1>2, <1>3, <2>1 DEF ErrorsInv, Replies, Unanswered
  <2>5. OnlyKnownCrashes'
    BY <1>1, <1>4, <2>1 DEF OnlyKnownCrashes, ResultInv, Replies, Unanswered
  <2> QED
    BY <2>2, <2>3, <2>4, <2>5
<1> QED
  BY <1>5, <1>6, <1>7, <1>8, <1>9, <1>10, <1>11

-----------------------------------------------------------------------------
(* The theorems. *)

\* The invariant holds before the first middleware is called.
LEMMA InvInit == Init => IInv
<1> SUFFICES ASSUME Init
             PROVE  IInv
  OBVIOUS
<1> USE DEF Init, Run!Init, Run!Call!Init
<1>1. Run!TypeOK
  <2>1. DataTypes
    BY DispatchAssumption DEF DataTypes
  <2>2. HistoryTypes
    BY DEF HistoryTypes
  <2>3. AnswerTypes
    BY DEF AnswerTypes, Call!Answers, Run!Answers
  <2> QED
    BY <2>1, <2>2, <2>3, RunTypes
<1>2. OwnTypes /\ ErrorsInv
  <2>1. 0 \in 0..MaxHandOvers
    BY DispatchAssumption
  <2>2. OwnTypes
    BY <2>1 DEF OwnTypes, Unanswered, Results
  <2> QED
    BY <2>2 DEF ErrorsInv
<1>3. TypeOK
  BY <1>1, <1>2, AllTypes
<1>4. BlockInv /\ FailureInv
  BY DEF BlockInv, FailureInv, InBlock
<1>5. ResultInv /\ ResponseInv /\ OnlyKnownCrashes
  BY DEF ResultInv, ResponseInv, OnlyKnownCrashes
<1> QED
  BY <1>2, <1>3, <1>4, <1>5 DEF IInv

\* Every step of the request preserves all its parts together.
LEMMA InvStep == IInv /\ [Next]_vars => IInv'
<1> SUFFICES ASSUME IInv, [Next]_vars
             PROVE  IInv'
  OBVIOUS
<1>1. Replies /\ TypeOK /\ BlockInv /\ FailureInv
  BY DEF IInv, Replies
<1>2. Run!TypeOK' /\ BlockInv' /\ FailureInv'
  BY <1>1, RunTypesStep, BlockInvStep, FailureInvStep
<1>3. OwnTypes' /\ ResultInv' /\ ResponseInv' /\ ErrorsInv' /\ OnlyKnownCrashes'
  <2>1. AnswerTypes'
    BY <1>2 DEF Run!TypeOK, AnswerTypes, Run!Call!Answers, Call!Answers
  <2>2. CASE UNCHANGED vars
    <3>1. OwnTypes
      BY <1>1, AllTypes
    <3> QED
      BY <1>1, <2>2, <3>1 DEF vars, replyVars, runVars, callVars, restVars, OwnTypes, Replies,
         ResultInv, ResponseInv, ErrorsInv, OnlyKnownCrashes
  <2> QED
    BY <1>1, <2>1, <2>2, RunningStep, LateStep, HandlerStep, DispatchStep DEF Next
<1>4. TypeOK'
  BY <1>2, <1>3, AllTypes, PTL
<1> QED
  BY <1>2, <1>3, <1>4 DEF IInv

\* The inductive invariant holds in every state of every request.
THEOREM DispatchInductive == Spec => []IInv
BY InvInit, InvStep, PTL DEF Spec

\* Every state of a request, and of the contract or chain it runs, is of the
\* declared types.
THEOREM DispatchTypeCorrect == Spec => []TypeOK
BY DispatchInductive, PTL DEF IInv

\* For any chain: a 200 hides no failure of a hook or of Zenroom, except that
\* of an element in a forEach after which a later one has succeeded.
THEOREM NoHiddenFailures == Spec => []OkHidesNoFailure
<1>1. ASSUME IInv, response = "200", NEW f \in failures
      PROVE  LaterElementSucceeded(f[1], f[2])
  <2>1. \/ kind = "contract" /\ callAnswer = "result"
        \/ kind = "chain" /\ answer.status = "ok"
    BY <1>1 DEF IInv, ResponseInv, ResultInv
  <2>2. kind = "chain" /\ answer.status = "ok"
    BY <1>1, <2>1 DEF IInv, FailureInv
  <2>3. pc = "done"
    BY <1>1, <2>2 DEF IInv, BlockInv
  <2> QED
    BY <1>1, <2>2, <2>3 DEF IInv, FailureInv, UnderWay
<1>2. IInv => OkHidesNoFailure
  BY <1>1 DEF OkHidesNoFailure
<1> QED
  BY <1>2, DispatchInductive, PTL

\* As long as no hook calls next(e) itself, the client gets what the run has
\* come to.
THEOREM ClientsGetTheResult == Spec => []ClientGetsTheResult
<1>1. IInv => ClientGetsTheResult
  BY DEF IInv, TypeOK, Results, ResponseInv, ErrorsInv, ClientGetsTheResult
<1> QED
  BY <1>1, DispatchInductive, PTL

\* No rejection ends the process but those of the three known kinds.
THEOREM CrashesAreKnown == Spec => []OnlyKnownCrashes
BY DispatchInductive, PTL DEF IInv
=============================================================================
