----------------------------- MODULE Chain_proofs -----------------------------
(***************************************************************************)
(* The safety properties of Chain, for any blocks, any chains and any      *)
(* number of elements.                                                     *)
(***************************************************************************)
EXTENDS Chain, WellFoundedInduction, TLAPS

-----------------------------------------------------------------------------
(* The inductive invariant.  Each part is named for what it keeps track of. *)

InBlock == {"block", "instance", "call", "blockEnd"}
AllPcs  == InBlock \cup {"load", "done"}

\* The path is a walk through a valid yml that has come to the current block.
PathInv ==
  /\ pc \in AllPcs /\ yml \in Yml
  /\ path \in Seq(Blocks) /\ IsPath
  /\ path # <<>> => Valid(yml)
  /\ pc \in InBlock => path # <<>> /\ block = path[Len(path)]
  /\ pc = "load" => path = <<>>

\* What the contracts of the current block are called with.
Input == InputOf(Len(path)) \cup (IF yml.forEach[block] THEN {ElementOf(block)} ELSE {})

\* The data grows from the input of the block to that of its instances, and
\* the context of the block holds no more than that and what its hooks wrote.
DataInv ==
  /\ pc = "block" => data = InputOf(Len(path)) /\ context = {}
  /\ pc \in {"instance", "call"} =>
       /\ InputOf(Len(path)) \subseteq data /\ data \subseteq Input
       /\ context \subseteq Input \cup {HookOf(block)}
  /\ pc = "call" => Input \subseteq context

CallRecords == [block : Blocks, element : Nat, ok : BOOLEAN]
LastOk == calls = <<>> \/ calls[Len(calls)].ok

\* What the last call tells of the current block, in each place of the code.
CallInv ==
  /\ calls \in Seq(CallRecords) /\ element \in Nat
  /\ pc = "load" => calls = <<>>
  /\ pc = "block" => LastOk
  /\ pc \in {"instance", "call"} /\ ~LastOk =>
       calls[Len(calls)].block = block /\ element = calls[Len(calls)].element + 1
  /\ pc = "blockEnd" =>
       /\ calls # <<>> /\ calls[Len(calls)].block = block
       /\ callAnswer \in {"result", "error"}
       /\ calls[Len(calls)].ok <=> callAnswer = "result"

\* The last contract called in block b has succeeded.
LastCallIsOk(b) ==
  \E i \in CallsOf(b) : calls[i].ok /\ \A j \in CallsOf(b) : j <= i

\* The blocks behind the current one have been done.
DoneInv ==
  /\ \A i \in 1..Len(path) - 1 : LastCallIsOk(path[i])
  /\ pc # "done" => answer.status = "none"
  /\ answer.status = "ok" =>
       path # <<>> /\ yml.next[path[Len(path)]] = None /\ LastCallIsOk(path[Len(path)])

Entered == {path[i] : i \in DOMAIN path}

\* What the global context has recorded.
DebugInv ==
  /\ debugContext \in [blocks : SUBSET Blocks, outputs : SUBSET Blocks]
  /\ debugContext.blocks \subseteq Entered /\ debugContext.outputs \subseteq Entered
  /\ \A i \in 1..Len(path) - 1 : path[i] \in debugContext.blocks /\ path[i] \in debugContext.outputs
  /\ pc \in {"call", "blockEnd"} => block \in debugContext.blocks
  /\ answer.status = "ok" => debugContext.outputs = Entered

IInv == PathInv /\ DataInv /\ CallInv /\ StopsAtFailure /\ DoneInv /\ DebugInv

-----------------------------------------------------------------------------
(* The steps, by what they do to the path. *)

\* A step stays in its block unless the chain starts or goes on to the next.
Stays ==
  /\ UNCHANGED <<yml, block, path>>
  /\ pc' \in AllPcs
  /\ pc' \in InBlock \ {"block"} => pc \in InBlock
  /\ pc' \in {"load", "block"} => pc' = pc

Enters(b) ==
  /\ b \in yml.blocks
  /\ pc' = "block" /\ block' = b /\ path' = Append(path, b)
  /\ context' = {}
  /\ UNCHANGED <<yml, calls, answer>>

\* The block the chain goes on to is the start block or the next of the current.
GoesOn(b) ==
  \/ pc = "load" /\ Valid(yml) /\ b = yml.start /\ data' = {Request} /\ UNCHANGED debugContext
  \/ /\ pc = "blockEnd" /\ callAnswer = "result" /\ b = yml.next[block]
     /\ data' = {OutputOf(block)}
     /\ RecordOutput

\* Every step does one or the other.
LEMMA StaysOrEnters ==
  ASSUME pc \in AllPcs, [Next]_vars
  PROVE  Stays \/ \E b : Enters(b) /\ GoesOn(b)
<1> USE DEF Stays, AllPcs, InBlock
<1>1. CASE StartChain
  BY <1>1 DEF StartChain, EnterBlock, Enters, GoesOn, Valid, StartOk
<1>2. CASE NextBlock
  BY <1>2 DEF NextBlock, EnterBlock, Enters, GoesOn
<1>3. CASE RejectYml \/ SingleInstance \/ MultipleInstances \/ NothingToIterate
  BY <1>3 DEF RejectYml, SingleInstance, MultipleInstances, NothingToIterate, BlockError,
              Answer, blockVars
<1>4. CASE BadKeys \/ BadZen \/ MissingContract \/ StartCall
  BY <1>4 DEF BadKeys, BadZen, MissingContract, StartCall, PrepareInstance, BlockError, Answer
<1>5. CASE CallStep \/ HookWrites \/ CallThrows \/ InstanceDone
  BY <1>5 DEF CallStep, HookWrites, CallThrows, InstanceDone, BlockError, Answer, blockVars
<1>6. CASE BlockFailed \/ LastBlockDone \/ NextPointsNowhere
  BY <1>6 DEF BlockFailed, LastBlockDone, NextPointsNowhere, Answer, blockVars
<1>7. CASE UNCHANGED vars
  BY <1>7 DEF vars, blockVars
<1> QED
  BY <1>1, <1>2, <1>3, <1>4, <1>5, <1>6, <1>7 DEF Next

\* The path grows along the yml.
LEMMA PathInvStep == PathInv /\ [Next]_vars => PathInv'
<1> SUFFICES ASSUME PathInv, [Next]_vars
             PROVE  PathInv'
  OBVIOUS
<1>1. CASE Stays
  BY <1>1 DEF Stays, PathInv, IsPath, AllPcs, InBlock
<1>2. ASSUME NEW b, Enters(b), GoesOn(b)
      PROVE  PathInv'
  <2>1. b \in Blocks /\ yml' = yml /\ yml \in Yml /\ path \in Seq(Blocks) /\ IsPath
    BY <1>2 DEF Enters, PathInv, Yml
  <2>2. path' = Append(path, b) /\ path' \in Seq(Blocks) /\ Len(path') = Len(path) + 1
    BY <1>2, <2>1 DEF Enters
  <2>3. /\ \A i \in DOMAIN path : path'[i] = path[i]
        /\ path'[Len(path) + 1] = b /\ path' # <<>>
        /\ DOMAIN path' = 1..Len(path) + 1 /\ DOMAIN path = 1..Len(path)
    BY <2>1, <2>2
  <2>4. path # <<>> => b = yml.next[path[Len(path)]]
    BY <1>2 DEF GoesOn, PathInv, InBlock
  <2>5. path = <<>> => b = yml.start
    BY <1>2 DEF GoesOn, PathInv, InBlock
  <2>6. b \in yml.blocks /\ \A i \in DOMAIN path : path[i] \in yml.blocks
    BY <1>2, <2>1 DEF Enters, IsPath
  <2>7. IsPath'
    <3>1. path'[1] = yml.start
      BY <2>1, <2>2, <2>3, <2>5 DEF IsPath
    <3>2. ASSUME NEW i \in 1..Len(path')-1 PROVE path'[i+1] = yml.next[path'[i]]
      <4>1. CASE i = Len(path)
        BY <2>1, <2>2, <2>3, <2>4, <4>1
      <4>2. CASE i < Len(path)
        BY <2>1, <2>2, <2>3, <4>2 DEF IsPath
      <4> QED
        BY <2>1, <2>2, <4>1, <4>2
    <3>3. \A i \in DOMAIN path' : path'[i] \in yml.blocks
      BY <2>3, <2>6
    <3> QED
      BY <2>1, <3>1, <3>2, <3>3 DEF IsPath
  <2>8. Valid(yml)'
    BY <1>2, <2>1 DEF GoesOn, PathInv, InBlock
  <2> QED
    BY <1>2, <2>1, <2>2, <2>3, <2>7, <2>8 DEF Enters, PathInv, AllPcs, InBlock
<1> QED
  BY <1>1, <1>2, StaysOrEnters DEF PathInv

-----------------------------------------------------------------------------
(* The data of the blocks. *)

\* The contracts of a block get its input, and no data of other blocks.
LEMMA DataInvStep == PathInv /\ DataInv /\ [Next]_vars => DataInv'
<1> SUFFICES ASSUME PathInv, DataInv, [Next]_vars
             PROVE  DataInv'
  OBVIOUS
<1>1. ASSUME NEW b, Enters(b), GoesOn(b)
      PROVE  DataInv'
  <2>1. path \in Seq(Blocks) /\ path' = Append(path, b) /\ b \in Blocks
    BY <1>1 DEF Enters, PathInv, Yml
  <2>2. pc = "load" => Len(path') = 1
    BY <2>1 DEF PathInv
  <2>3. pc = "blockEnd" => Len(path') # 1 /\ path'[Len(path') - 1] = block
    BY <2>1 DEF PathInv, InBlock
  <2>4. data' = InputOf(Len(path))'
    BY <1>1, <2>2, <2>3 DEF GoesOn, InputOf
  <2> QED
    BY <1>1, <2>4 DEF Enters, DataInv
<1>2. ASSUME Stays
      PROVE  DataInv'
  <2>1. Input' = Input /\ InputOf(Len(path))' = InputOf(Len(path)) /\ block' = block
    BY <1>2 DEF Stays, Input, InputOf
  <2>2. InputOf(Len(path)) \subseteq Input
    BY DEF Input
  <2>3. pc \in {"instance", "call"} /\ JoinElement =>
          data' = Input /\ InputOf(Len(path)) \subseteq data'
    BY DEF JoinElement, DataInv, Input
  <2> USE <2>1, <2>2 DEF DataInv
  <2>4. CASE SingleInstance \/ MultipleInstances
    BY <2>4 DEF SingleInstance, MultipleInstances
  <2>5. CASE StartCall
    BY <2>3, <2>5 DEF StartCall, PrepareInstance
  <2>6. CASE CallStep \/ HookWrites
    BY <2>6 DEF CallStep, HookWrites, blockVars
  <2>7. CASE InstanceDone
    BY <2>7 DEF InstanceDone
  <2>8. CASE pc' = "done"
    BY <2>8
  <2>9. CASE UNCHANGED vars
    BY <2>9 DEF vars, blockVars
  <2>10. CASE StartChain \/ NextBlock
    BY <1>2, <2>10 DEF StartChain, NextBlock, EnterBlock, Stays
  <2>11. RejectYml \/ NothingToIterate \/ BadKeys \/ BadZen \/ MissingContract \/ CallThrows
           \/ BlockFailed \/ LastBlockDone \/ NextPointsNowhere => pc' = "done"
    BY DEF RejectYml, NothingToIterate, BadKeys, BadZen, MissingContract, CallThrows, BlockFailed,
           LastBlockDone, NextPointsNowhere, BlockError, Answer
  <2> QED
    BY <2>4, <2>5, <2>6, <2>7, <2>8, <2>9, <2>10, <2>11 DEF Next
<1> QED
  BY <1>1, <1>2, StaysOrEnters DEF PathInv

-----------------------------------------------------------------------------
(* The contract calls. *)

\* Only the end of an instance adds a call, and it adds one of the current block.
LEMMA CallsGrow ==
  ASSUME [Next]_vars
  PROVE  calls' = calls \/ InstanceDone
<1> USE DEF blockVars
<1>1. CASE RejectYml \/ StartChain \/ SingleInstance \/ MultipleInstances \/ NothingToIterate
  BY <1>1 DEF RejectYml, StartChain, SingleInstance, MultipleInstances, NothingToIterate
<1>2. CASE BadKeys \/ BadZen \/ MissingContract \/ StartCall
  BY <1>2 DEF BadKeys, BadZen, MissingContract, StartCall, PrepareInstance
<1>3. CASE CallStep \/ HookWrites \/ CallThrows
  BY <1>3 DEF CallStep, HookWrites, CallThrows
<1>4. CASE BlockFailed \/ LastBlockDone \/ NextPointsNowhere \/ NextBlock
  BY <1>4 DEF BlockFailed, LastBlockDone, NextPointsNowhere, NextBlock
<1>5. CASE UNCHANGED vars
  BY <1>5 DEF vars
<1> QED
  BY <1>1, <1>2, <1>3, <1>4, <1>5 DEF Next

\* A call that is answered is recorded behind the others.
LEMMA CallRecorded ==
  ASSUME PathInv, CallInv, InstanceDone
  PROVE  /\ calls' \in Seq(CallRecords)
         /\ Len(calls') = Len(calls) + 1
         /\ \A i \in DOMAIN calls : calls'[i] = calls[i]
         /\ calls'[Len(calls')].block = block
         /\ calls'[Len(calls')].element = element
         /\ calls'[Len(calls')].ok <=> callAnswer = "result"
         /\ DOMAIN calls = 1..Len(calls) /\ Len(calls) \in Nat
<1> DEFINE c == [block |-> block, element |-> element, ok |-> callAnswer = "result"]
<1>1. block \in Blocks
  BY DEF PathInv, InstanceDone, InBlock
<1>2. c \in CallRecords
  BY <1>1 DEF CallInv, CallRecords
<1>3. calls' = Append(calls, c)
  BY DEF InstanceDone
<1>4. c.block = block /\ c.element = element /\ (c.ok <=> callAnswer = "result")
  OBVIOUS
<1> HIDE DEF c
<1>5. calls \in Seq(CallRecords)
  BY DEF CallInv
<1>6. Len(calls') = Len(calls) + 1 /\ calls'[Len(calls) + 1] = c /\ calls' \in Seq(CallRecords)
      /\ \A i \in 1..Len(calls) : calls'[i] = calls[i]
  BY <1>2, <1>3, <1>5
<1> QED
  BY <1>4, <1>5, <1>6

\* The last call belongs to the current block and tells how it went.
LEMMA CallInvStep == PathInv /\ CallInv /\ [Next]_vars => CallInv'
<1> SUFFICES ASSUME PathInv, CallInv, [Next]_vars
             PROVE  CallInv'
  OBVIOUS
<1>1. CASE InstanceDone
  <2>1. calls' # <<>>
    BY <1>1, CallRecorded DEF CallInv
  <2>2. \/ pc' = "blockEnd" /\ UNCHANGED element
        \/ pc' = "instance" /\ element' = element + 1
    BY <1>1 DEF InstanceDone
  <2>3. block' = block /\ callAnswer' = callAnswer /\ callAnswer \in {"result", "error"}
    BY <1>1 DEF InstanceDone, callVars
  <2> QED
    BY <1>1, <2>1, <2>2, <2>3, CallRecorded DEF CallInv, LastOk
<1>2. ASSUME calls' = calls, ~InstanceDone
      PROVE  CallInv'
  <2>1. LastOk' = LastOk
    BY <1>2 DEF LastOk
  <2> USE <1>2, <2>1 DEF CallInv, blockVars
  <2>2. CASE StartChain \/ NextBlock
    <3>1. CASE StartChain
      BY <3>1 DEF StartChain, EnterBlock, LastOk
    <3>2. CASE NextBlock
      BY <3>2 DEF NextBlock, EnterBlock, LastOk
    <3> QED
      BY <2>2, <3>1, <3>2
  <2>3. CASE SingleInstance \/ MultipleInstances
    BY <2>3 DEF SingleInstance, MultipleInstances
  <2>4. CASE StartCall
    BY <2>4 DEF StartCall, PrepareInstance
  <2>5. CASE CallStep \/ HookWrites
    BY <2>5 DEF CallStep, HookWrites, callVars
  <2>6. CASE UNCHANGED vars
    BY <2>6 DEF vars, callVars
  <2>7. CASE RejectYml \/ NothingToIterate \/ BadKeys \/ BadZen \/ MissingContract \/ CallThrows
           \/ BlockFailed \/ LastBlockDone \/ NextPointsNowhere
    <3>1. pc' = "done" /\ UNCHANGED element
      BY <2>7 DEF RejectYml, NothingToIterate, BadKeys, BadZen, MissingContract, CallThrows,
                  BlockFailed, LastBlockDone, NextPointsNowhere, BlockError, Answer, PrepareInstance
    <3> QED
      BY <3>1
  <2> QED
    BY <2>2, <2>3, <2>4, <2>5, <2>6, <2>7 DEF Next
<1> QED
  BY <1>1, <1>2, CallsGrow

\* Before the chain enters a block no call, or the last one with success.
LEMMA EnteredAfterSuccess ==
  ASSUME CallInv, NEW b, GoesOn(b)
  PROVE  LastOk
BY DEF CallInv, GoesOn, LastOk

\* Nothing but the next element follows a failure.
LEMMA StopsAtFailureStep ==
  PathInv /\ CallInv /\ StopsAtFailure /\ [Next]_vars => StopsAtFailure'
<1> SUFFICES ASSUME PathInv, CallInv, StopsAtFailure, [Next]_vars
             PROVE  StopsAtFailure'
  OBVIOUS
<1>0. calls \in Seq(CallRecords) /\ path \in Seq(Blocks)
  BY DEF CallInv, PathInv
<1>1. CASE InstanceDone
  <2>1. path' = path /\ pc = "call" /\ block = path[Len(path)]
    BY <1>1 DEF InstanceDone, PathInv, InBlock
  <2>2. SUFFICES ASSUME NEW i \in DOMAIN calls', ~calls'[i].ok
                 PROVE  \/ i = Len(calls') /\ calls'[i].block = path'[Len(path')]
                        \/ /\ i < Len(calls')
                           /\ calls'[i+1].block = calls'[i].block
                           /\ calls'[i+1].element = calls'[i].element + 1
    BY DEF StopsAtFailure
  <2>3. CASE i = Len(calls')
    BY <1>1, <2>1, <2>3, CallRecorded
  <2>4. CASE i < Len(calls)
    <3>1. i \in DOMAIN calls /\ i + 1 \in DOMAIN calls /\ ~calls[i].ok
      BY <1>0, <1>1, <2>2, <2>4, CallRecorded
    <3> QED
      BY <1>0, <1>1, <2>4, <3>1, CallRecorded DEF StopsAtFailure
  <2>5. CASE i = Len(calls)
    <3>1. i \in DOMAIN calls /\ ~calls[i].ok /\ calls # <<>>
      BY <1>0, <1>1, <2>2, <2>5, CallRecorded
    <3>2. calls[i].block = block /\ element = calls[i].element + 1
      BY <2>1, <2>5, <3>1 DEF CallInv, LastOk
    <3> QED
      BY <1>1, <2>5, <3>1, <3>2, CallRecorded
  <2> QED
    BY <1>0, <1>1, <2>3, <2>4, <2>5, CallRecorded
<1>2. CASE calls' = calls /\ Stays
  BY <1>2 DEF Stays, StopsAtFailure
<1>3. ASSUME calls' = calls, NEW b, Enters(b), GoesOn(b)
      PROVE  StopsAtFailure'
  <2>1. LastOk
    BY <1>3, EnteredAfterSuccess
  <2> QED
    BY <1>0, <1>3, <2>1 DEF StopsAtFailure, LastOk
<1> QED
  BY <1>1, <1>2, <1>3, CallsGrow, StaysOrEnters DEF PathInv

-----------------------------------------------------------------------------
(* The blocks that are done, and the answer. *)

\* The answers of a chain: what each step does to the answer.
LEMMA AnswerStep ==
  ASSUME pc # "done" => answer.status = "none", [Next]_vars
  PROVE  /\ pc' # "done" => answer'.status = "none"
         /\ answer'.status = "ok" =>
              UNCHANGED <<answer, path, calls, yml, debugContext>> \/ LastBlockDone
<1> USE DEF blockVars, Answer, BlockError
<1>1. CASE RejectYml \/ StartChain \/ SingleInstance \/ MultipleInstances \/ NothingToIterate
  BY <1>1 DEF RejectYml, StartChain, SingleInstance, MultipleInstances, NothingToIterate, EnterBlock
<1>2. CASE BadKeys \/ BadZen \/ MissingContract \/ StartCall
  BY <1>2 DEF BadKeys, BadZen, MissingContract, StartCall, PrepareInstance
<1>3. CASE CallStep \/ HookWrites \/ CallThrows \/ InstanceDone
  BY <1>3 DEF CallStep, HookWrites, CallThrows, InstanceDone
<1>4. CASE BlockFailed \/ NextPointsNowhere \/ NextBlock
  BY <1>4 DEF BlockFailed, NextPointsNowhere, NextBlock, EnterBlock
<1>5. CASE LastBlockDone
  BY <1>5 DEF LastBlockDone
<1>6. CASE UNCHANGED vars
  BY <1>6 DEF vars
<1> QED
  BY <1>1, <1>2, <1>3, <1>4, <1>5, <1>6 DEF Next

\* Every set of natural numbers but the empty one has a least element.
LEMMA LeastNumber ==
  ASSUME NEW T, T \subseteq Nat, T # {}
  PROVE  \E x \in T : \A y \in T : x <= y
<1> DEFINE R == {ss \in Nat \X Nat : ss[1] < ss[2]}
<1>1. IsWellFoundedOn(R, Nat)
  BY NatLessThanWellFounded, Zenon DEF OpToRel
<1>2. PICK x \in T : \A y \in T : ~(<<y, x>> \in R)
  <2> HIDE DEF R
  <2> QED
    BY <1>1, WFMin
<1>3. \A y \in T : ~(y < x)
  BY <1>2
<1> QED
  BY <1>3

\* A walk that comes to its end has not been anywhere twice: it would go round
\* for ever.
LEMMA WalksDoNotRepeat ==
  ASSUME NEW y, NEW n \in Nat, NEW w, IsWalk(y, w, n), w[n] = None,
         NEW i \in 0..n, NEW j \in 0..n, i < j
  PROVE  w[i] # w[j]
<1> SUFFICES ASSUME w[i] = w[j] PROVE FALSE
  OBVIOUS
<1> DEFINE Apart == {k \in Nat : j + k <= n /\ w[i + k] # w[j + k]}
<1>1. n - j \in Apart
  <2>1. i + (n - j) \in 0..n-1 /\ j + (n - j) = n
    OBVIOUS
  <2> QED
    BY <2>1 DEF IsWalk
<1>2. PICK k \in Apart : \A l \in Apart : k <= l
  <2> HIDE DEF Apart
  <2>1. Apart \subseteq Nat
    BY DEF Apart
  <2> QED
    BY <1>1, <2>1, LeastNumber
<1>3. k # 0
  OBVIOUS
<1>4. w[i + (k - 1)] = w[j + (k - 1)]
  BY <1>2, <1>3
<1>5. /\ i + (k - 1) \in 0..n-1 /\ j + (k - 1) \in 0..n-1
      /\ (i + (k - 1)) + 1 = i + k /\ (j + (k - 1)) + 1 = j + k
  BY <1>3
<1>6. w[i + k] = w[j + k]
  BY <1>4, <1>5 DEF IsWalk
<1> QED
  BY <1>6

\* The path of a chain is the beginning of the walk validateNoLoopInChain takes.
LEMMA PathFollowsWalk ==
  ASSUME PathInv, NEW n \in Nat, NEW w, IsWalk(yml, w, n), w[n] = None,
         NEW i \in 1..Len(path)
  PROVE  i - 1 <= n /\ w[i - 1] = path[i]
<1>0. path \in Seq(Blocks) /\ IsPath /\ Len(path) \in Nat /\ DOMAIN path = 1..Len(path)
  BY DEF PathInv
<1> DEFINE Off == {k \in Nat : k \in 1..Len(path) /\ ~(k - 1 <= n /\ w[k - 1] = path[k])}
<1> SUFFICES ASSUME Off # {} PROVE FALSE
  BY <1>0
<1>1. PICK k \in Off : \A l \in Off : k <= l
  <2>1. Off \subseteq Nat
    OBVIOUS
  <2> HIDE DEF Off
  <2> QED
    BY <2>1, LeastNumber
<1>2. k # 1
  BY <1>0 DEF IsPath, IsWalk
<1>3. k - 1 \in 1..Len(path) - 1 /\ k - 1 \in DOMAIN path /\ (k - 1) + 1 = k
  BY <1>0, <1>2
<1>4. (k - 1) - 1 <= n /\ w[(k - 1) - 1] = path[k - 1]
  BY <1>0, <1>1, <1>3
<1>5. path[k - 1] \in Blocks /\ path[k - 1] \in yml.blocks /\ path[k] = yml.next[path[k - 1]]
  BY <1>0, <1>3 DEF IsPath
<1>6. (k - 1) - 1 # n
  BY <1>4, <1>5, NoneAssumption
<1>7. (k - 1) - 1 \in 0..n-1 /\ ((k - 1) - 1) + 1 = k - 1
  BY <1>0, <1>3, <1>4, <1>6
<1>8. w[k - 1] = NextOf(yml, path[k - 1])
  BY <1>4, <1>7 DEF IsWalk
<1>9. w[k - 1] = path[k] /\ k - 1 <= n
  BY <1>5, <1>7, <1>8 DEF NextOf
<1> QED
  BY <1>9

\* The check for loops makes a chain enter no block twice.
LEMMA NoBlockTwiceHolds == PathInv => NoBlockTwice
<1> SUFFICES ASSUME PathInv, NEW i \in DOMAIN path, NEW j \in DOMAIN path, i < j
             PROVE  path[i] # path[j]
  <2>1. DOMAIN path = 1..Len(path) /\ Len(path) \in Nat
    BY DEF PathInv
  <2> QED
    BY <2>1 DEF NoBlockTwice
<1>0. DOMAIN path = 1..Len(path) /\ Len(path) \in Nat /\ path # <<>>
  BY DEF PathInv
<1>1. PICK n \in 0..Cardinality(yml.blocks) : EndsAfter(yml, n)
  BY <1>0 DEF PathInv, Valid, NoLoopInChain
<1>2. PICK w \in [0..n -> Blocks \cup {None}] : IsWalk(yml, w, n) /\ w[n] = None
  BY <1>1 DEF EndsAfter
<1>3. n \in Nat
  OBVIOUS
<1>4. /\ i - 1 \in 0..n /\ w[i - 1] = path[i]
      /\ j - 1 \in 0..n /\ w[j - 1] = path[j]
  BY <1>0, <1>2, <1>3, PathFollowsWalk
<1>5. w[i - 1] # w[j - 1]
  BY <1>0, <1>2, <1>3, <1>4, WalksDoNotRepeat
<1> QED
  BY <1>4, <1>5

\* A call of another block leaves the last call of b what it was.
LEMMA LastCallKept ==
  ASSUME PathInv, CallInv, InstanceDone, NEW b, b # block, LastCallIsOk(b)
  PROVE  LastCallIsOk(b)'
<1>1. PICK i \in CallsOf(b) : calls[i].ok /\ \A j \in CallsOf(b) : j <= i
  BY DEF LastCallIsOk
<1>2. DOMAIN calls' = 1..Len(calls')
  BY CallRecorded
<1>3. CallsOf(b)' = CallsOf(b)
  <2>1. \A k \in DOMAIN calls' : calls'[k].block = b => k \in CallsOf(b)
    BY <1>2, CallRecorded DEF CallsOf
  <2>2. \A k \in CallsOf(b) : k \in DOMAIN calls' /\ calls'[k].block = b
    BY <1>2, CallRecorded DEF CallsOf
  <2> QED
    BY <2>1, <2>2 DEF CallsOf
<1>4. calls'[i].ok
  BY <1>1, CallRecorded DEF CallsOf
<1> QED
  BY <1>1, <1>3, <1>4 DEF LastCallIsOk

\* At the end of a block that went well its last call is the last of all.
LEMMA BlockIsOk ==
  ASSUME CallInv, pc = "blockEnd", callAnswer = "result"
  PROVE  LastCallIsOk(block)
<1>1. calls \in Seq(CallRecords) /\ calls # <<>> /\ calls[Len(calls)].ok
      /\ calls[Len(calls)].block = block
  BY DEF CallInv
<1>2. Len(calls) \in CallsOf(block) /\ \A j \in CallsOf(block) : j <= Len(calls)
  BY <1>1 DEF CallsOf
<1> QED
  BY <1>1, <1>2 DEF LastCallIsOk

\* The blocks behind the current one stay done, and the last one is when a
\* chain answers 200.
LEMMA DoneInvStep == PathInv /\ CallInv /\ DoneInv /\ [Next]_vars => DoneInv'
<1> SUFFICES ASSUME PathInv, CallInv, DoneInv, [Next]_vars
             PROVE  DoneInv'
  OBVIOUS
<1>0. path \in Seq(Blocks) /\ Len(path) \in Nat /\ DOMAIN path = 1..Len(path)
  BY DEF PathInv
<1>1. /\ pc' # "done" => answer'.status = "none"
      /\ answer'.status = "ok" => UNCHANGED <<answer, path, calls, yml, debugContext>> \/ LastBlockDone
  BY AnswerStep DEF DoneInv
<1>2. ASSUME answer'.status = "ok"
      PROVE  /\ path' # <<>> /\ yml'.next[path'[Len(path')]] = None
             /\ LastCallIsOk(path[Len(path)])'
  <2>1. CASE UNCHANGED <<answer, path, calls, yml, debugContext>>
    BY <1>2, <2>1 DEF DoneInv, LastCallIsOk, CallsOf
  <2>2. CASE LastBlockDone
    <3>1. /\ pc = "blockEnd" /\ callAnswer = "result" /\ yml.next[block] = None
          /\ UNCHANGED <<path, calls, yml>>
      BY <2>2 DEF LastBlockDone
    <3>2. path # <<>> /\ block = path[Len(path)]
      BY <3>1 DEF PathInv, InBlock
    <3>3. LastCallIsOk(block)
      BY <3>1, BlockIsOk
    <3> QED
      BY <3>1, <3>2, <3>3 DEF LastCallIsOk, CallsOf
  <2> QED
    BY <1>1, <1>2, <2>1, <2>2
<1>3. ASSUME NEW i \in 1..Len(path') - 1
      PROVE  LastCallIsOk(path[i])'
  <2>1. CASE InstanceDone
    <3>1. path' = path /\ pc = "call"
      BY <2>1 DEF InstanceDone
    <3>2. path[i] # block
      BY <1>0, <1>3, <3>1, NoBlockTwiceHolds DEF PathInv, InBlock, NoBlockTwice
    <3>3. LastCallIsOk(path[i])
      BY <1>3, <3>1 DEF DoneInv
    <3>4. ASSUME NEW b, b # block, LastCallIsOk(b) PROVE LastCallIsOk(b)'
      BY <2>1, <3>4, LastCallKept
    <3> QED
      BY <3>1, <3>2, <3>3, <3>4 DEF LastCallIsOk, CallsOf
  <2>2. CASE calls' = calls /\ Stays
    BY <1>3, <2>2 DEF Stays, DoneInv, LastCallIsOk, CallsOf
  <2>3. ASSUME calls' = calls, NEW b, Enters(b), GoesOn(b)
        PROVE  LastCallIsOk(path[i])'
    <3>0. path' = Append(path, b) /\ b \in Blocks
      BY <2>3 DEF Enters, PathInv, Yml
    <3>1. i \in 1..Len(path)
      BY <1>0, <3>0
    <3>2. path'[i] = path[i]
      BY <1>0, <3>0, <3>1
    <3>3. i # Len(path) => LastCallIsOk(path[i])
      <4>1. Len(path) \in Nat
        BY <1>0
      <4>2. i # Len(path) => i \in 1..Len(path) - 1
        BY <3>1, <4>1
      <4> QED
        BY <4>2 DEF DoneInv
    <3>4. i = Len(path) => LastCallIsOk(path[i])
      <4>1. path # <<>> => pc = "blockEnd" /\ callAnswer = "result" /\ block = path[Len(path)]
        BY <2>3 DEF GoesOn, PathInv, InBlock
      <4> QED
        BY <1>0, <3>1, <4>1, BlockIsOk
    <3> QED
      BY <2>3, <3>2, <3>3, <3>4 DEF LastCallIsOk, CallsOf
  <2> QED
    BY <2>1, <2>2, <2>3, CallsGrow, StaysOrEnters DEF PathInv
<1> QED
  BY <1>1, <1>2, <1>3 DEF DoneInv

-----------------------------------------------------------------------------
(* The global context. *)

DebugContexts == [blocks : SUBSET Blocks, outputs : SUBSET Blocks]

\* Recording a block or its output adds it and leaves the rest.
LEMMA Recording ==
  ASSUME debugContext \in DebugContexts, block \in Blocks
  PROVE  /\ PrepareInstance => /\ debugContext' \in DebugContexts
                               /\ debugContext'.blocks = debugContext.blocks \cup {block}
                               /\ debugContext'.outputs = debugContext.outputs
         /\ RecordOutput => /\ debugContext' \in DebugContexts
                            /\ debugContext'.blocks = debugContext.blocks
                            /\ debugContext'.outputs = debugContext.outputs \cup {block}
BY DEF DebugContexts, PrepareInstance, RecordOutput

\* Within a block the global context changes in these ways only.
LEMMA ContextStep ==
  ASSUME Stays, [Next]_vars
  PROVE  \/ debugContext' = debugContext /\ (pc' \in {"call", "blockEnd"} => pc \in {"call", "blockEnd"})
         \/ PrepareInstance /\ pc = "instance"
         \/ RecordOutput /\ pc = "blockEnd" /\ pc' = "done"
<1> USE DEF blockVars, Answer, BlockError
<1>1. CASE RejectYml \/ SingleInstance \/ MultipleInstances \/ NothingToIterate
  BY <1>1 DEF RejectYml, SingleInstance, MultipleInstances, NothingToIterate
<1>2. CASE BadKeys \/ BadZen \/ MissingContract \/ StartCall
  BY <1>2 DEF BadKeys, BadZen, MissingContract, StartCall
<1>3. CASE CallStep \/ HookWrites \/ CallThrows \/ InstanceDone
  BY <1>3 DEF CallStep, HookWrites, CallThrows, InstanceDone
<1>4. CASE BlockFailed \/ LastBlockDone \/ NextPointsNowhere
  BY <1>4 DEF BlockFailed, LastBlockDone, NextPointsNowhere
<1>5. CASE StartChain \/ NextBlock
  BY <1>5 DEF StartChain, NextBlock, EnterBlock, Stays
<1>6. CASE UNCHANGED vars
  BY <1>6 DEF vars
<1> QED
  BY <1>1, <1>2, <1>3, <1>4, <1>5, <1>6 DEF Next

\* The global context knows the blocks that were entered, and their outputs.
LEMMA DebugInvStep == PathInv /\ DoneInv /\ DebugInv /\ [Next]_vars => DebugInv'
<1> SUFFICES ASSUME PathInv, DoneInv, DebugInv, [Next]_vars
             PROVE  DebugInv'
  OBVIOUS
<1>0. path \in Seq(Blocks) /\ DOMAIN path = 1..Len(path)
  BY DEF PathInv
<1>1. Len(path) \in Nat /\ debugContext \in DebugContexts
  BY DEF PathInv, DebugInv, DebugContexts
<1>2. pc \in InBlock => block \in Blocks /\ block \in Entered /\ block = path[Len(path)]
  <2>1. path # <<>> => Len(path) \in DOMAIN path
    BY <1>0
  <2> QED
    BY <1>0, <2>1 DEF PathInv, Entered
<1>3. ASSUME NEW b, Enters(b), GoesOn(b)
      PROVE  DebugInv'
  <2>1. path' = Append(path, b) /\ b \in Blocks
    BY <1>3 DEF Enters, PathInv, Yml
  <2>2. Len(path') = Len(path) + 1 /\ \A i \in 1..Len(path) : path'[i] = path[i]
    BY <1>0, <2>1
  <2>3. \A i \in 1..Len(path) : i \in DOMAIN path'
    BY <1>0, <2>1
  <2>4. Entered \subseteq Entered'
    BY <1>0, <2>2, <2>3 DEF Entered
  <2>5. /\ debugContext' \in DebugContexts
        /\ debugContext'.blocks \subseteq Entered /\ debugContext'.outputs \subseteq Entered
        /\ debugContext.blocks \subseteq debugContext'.blocks
        /\ debugContext.outputs \subseteq debugContext'.outputs
        /\ pc = "blockEnd" => block \in debugContext'.blocks /\ block \in debugContext'.outputs
        /\ pc \in {"load", "blockEnd"}
    BY <1>1, <1>2, <1>3, Recording DEF GoesOn, DebugInv, InBlock
  <2>6. ASSUME NEW i \in 1..Len(path') - 1
        PROVE  path'[i] \in debugContext'.blocks /\ path'[i] \in debugContext'.outputs
    <3>1. i \in 1..Len(path)
      BY <1>1, <2>2
    <3>2. i # Len(path) => i \in 1..Len(path) - 1
      BY <1>1, <3>1
    <3>3. i # Len(path) => path[i] \in debugContext.blocks /\ path[i] \in debugContext.outputs
      BY <3>2 DEF DebugInv
    <3>4. i = Len(path) => pc = "blockEnd" /\ path[i] = block
      <4>1. Len(path) # 0 => path # <<>>
        BY <1>0
      <4>2. i # 0
        BY <1>1, <3>1
      <4> QED
        BY <1>2, <2>5, <4>1, <4>2 DEF PathInv, InBlock
    <3>5. path'[i] = path[i]
      BY <2>2, <3>1
    <3> QED
      BY <2>5, <3>3, <3>4, <3>5
  <2>7. answer'.status # "ok"
    BY <1>3, <2>5 DEF Enters, DoneInv
  <2> QED
    BY <1>3, <2>4, <2>5, <2>6, <2>7 DEF DebugInv, DebugContexts, Enters
<1>4. ASSUME Stays
      PROVE  DebugInv'
  <2>1. path' = path /\ block' = block /\ Entered' = Entered
    BY <1>4 DEF Stays, Entered
  <2>2. answer'.status = "ok" =>
          UNCHANGED <<answer, path, calls, yml, debugContext>> \/ LastBlockDone
    BY AnswerStep DEF DoneInv
  <2>3. ASSUME LastBlockDone PROVE debugContext'.outputs = Entered
    <3>1. debugContext'.outputs = debugContext.outputs \cup {block} /\ block = path[Len(path)]
          /\ block \in Entered /\ debugContext.outputs \subseteq Entered
      BY <1>1, <1>2, <2>3, Recording DEF LastBlockDone, InBlock, DebugInv
    <3>2. ASSUME NEW i \in DOMAIN path PROVE path[i] \in debugContext.outputs \cup {block}
      <4>1. i \in 1..Len(path)
        BY <1>0
      <4>2. i = Len(path) \/ i \in 1..Len(path) - 1
        BY <1>1, <4>1
      <4> QED
        BY <3>1, <4>2 DEF DebugInv
    <3> QED
      BY <3>1, <3>2 DEF Entered
  <2>4. answer'.status = "ok" => debugContext'.outputs = Entered
    BY <2>2, <2>3 DEF DebugInv
  <2>5. CASE debugContext' = debugContext /\ (pc' \in {"call", "blockEnd"} => pc \in {"call", "blockEnd"})
    BY <2>1, <2>4, <2>5 DEF DebugInv
  <2>6. CASE PrepareInstance /\ pc = "instance"
    <3>1. /\ debugContext' \in DebugContexts
          /\ debugContext'.blocks = debugContext.blocks \cup {block}
          /\ debugContext'.outputs = debugContext.outputs
          /\ block \in Entered
      BY <1>1, <1>2, <2>6, Recording DEF InBlock
    <3> QED
      BY <2>1, <2>4, <3>1 DEF DebugInv, DebugContexts
  <2>7. CASE RecordOutput /\ pc = "blockEnd" /\ pc' = "done"
    <3>1. /\ debugContext' \in DebugContexts
          /\ debugContext'.blocks = debugContext.blocks
          /\ debugContext'.outputs = debugContext.outputs \cup {block}
          /\ block \in Entered
      BY <1>1, <1>2, <2>7, Recording DEF InBlock
    <3> QED
      BY <2>1, <2>4, <2>7, <3>1 DEF DebugInv, DebugContexts
  <2> QED
    BY <1>4, <2>5, <2>6, <2>7, ContextStep
<1> QED
  BY <1>3, <1>4, StaysOrEnters DEF PathInv

-----------------------------------------------------------------------------
(* The theorems. *)

\* The invariant holds before the yml is read.
LEMMA InvInit == Init => IInv
<1> SUFFICES ASSUME Init PROVE IInv
  OBVIOUS
<1> USE DEF Init, InBlock
<1>1. PathInv
  BY ChainAssumption DEF PathInv, AllPcs, IsPath
<1>2. DataInv
  BY DEF DataInv
<1>3. CallInv /\ StopsAtFailure
  BY DEF CallInv, StopsAtFailure, LastOk
<1>4. DoneInv
  BY DEF DoneInv
<1>5. DebugInv
  BY DEF DebugInv
<1> QED
  BY <1>1, <1>2, <1>3, <1>4, <1>5 DEF IInv

\* Every step preserves all parts of the invariant together.
LEMMA InvStep == IInv /\ [Next]_vars => IInv'
BY PathInvStep, DataInvStep, CallInvStep, StopsAtFailureStep, DoneInvStep, DebugInvStep DEF IInv

\* The inductive invariant holds in every state of every chain.
THEOREM ChainInductive == Spec => []IInv
BY InvInit, InvStep, PTL DEF Spec

\* A chain that is run enters no block twice, however many blocks the yml has
\* and however they point at each other: the check for loops does its job.
THEOREM ChainsDoNotLoop == Spec => []NoBlockTwice
<1>1. IInv => NoBlockTwice
  BY NoBlockTwiceHolds DEF IInv
<1> QED
  BY <1>1, ChainInductive, PTL

\* Every contract of any chain is called with all the data of its block and
\* nothing but that and what hooks wrote for the same block.
THEOREM DataStaysInItsBlock == Spec => []DataFlow
<1>1. IInv => DataFlow
  BY DEF IInv, DataInv, DataFlow, Input
<1> QED
  BY <1>1, ChainInductive, PTL

\* After a contract has failed, a chain calls no other one but for the next
\* element of the same forEach.
THEOREM ChainsStopAtFailure == Spec => []StopsAtFailure
<1>1. IInv => StopsAtFailure
  BY DEF IInv
<1> QED
  BY <1>1, ChainInductive, PTL

\* The last call of a block is the one LastCallOf chooses.
LEMMA LastCall ==
  ASSUME CallInv, NEW b, LastCallIsOk(b)
  PROVE  CallsOf(b) # {} /\ calls[LastCallOf(b)].ok
<1>1. PICK i \in CallsOf(b) : calls[i].ok /\ \A j \in CallsOf(b) : j <= i
  BY DEF LastCallIsOk
<1>2. CallsOf(b) \subseteq Nat
  BY DEF CallsOf, CallInv
<1>3. LastCallOf(b) \in CallsOf(b) /\ \A j \in CallsOf(b) : j <= LastCallOf(b)
  BY <1>1 DEF LastCallOf
<1>4. LastCallOf(b) = i
  BY <1>1, <1>2, <1>3
<1> QED
  BY <1>1, <1>4

\* A chain answers 200 only after it has gone all the way from the start block
\* to one without next, and the last contract of each block has succeeded.
THEOREM OkIsTheWholePath == Spec => []OkMeansWholePath
<1>1. ASSUME IInv, answer.status = "ok"
      PROVE  /\ IsPath /\ path # <<>> /\ yml.next[path[Len(path)]] = None
             /\ \A i \in DOMAIN path : CallsOf(path[i]) # {} /\ calls[LastCallOf(path[i])].ok
  <2>1. DOMAIN path = 1..Len(path)
    BY DEF IInv, PathInv
  <2>2. Len(path) \in Nat
    BY DEF IInv, PathInv
  <2>3. ASSUME NEW i \in DOMAIN path PROVE LastCallIsOk(path[i])
    <3>1. i \in 1..Len(path)
      BY <2>1
    <3>2. i = Len(path) \/ i \in 1..Len(path) - 1
      BY <2>2, <3>1
    <3> QED
      BY <1>1, <3>2 DEF IInv, DoneInv
  <2> QED
    BY <1>1, <2>3, LastCall DEF IInv, PathInv, DoneInv
<1>2. IInv => OkMeansWholePath
  BY <1>1 DEF OkMeansWholePath
<1> QED
  BY <1>2, ChainInductive, PTL

\* The context a debug chain answers with shows the blocks that were entered
\* and the output of every block that got to its end.
THEOREM DebugTracesChains == Spec => []DebugTrace
<1>1. IInv => DebugTrace
  BY DEF IInv, DebugInv, DebugTrace, Entered
<1> QED
  BY <1>1, ChainInductive, PTL

-----------------------------------------------------------------------------
(* Types.  The invariant gives those of pc, path, calls and debugContext. *)

DataTypes ==
  /\ yml \in Ymls
  /\ block \in Blocks \cup {None}
  /\ data \subseteq Entries /\ context \subseteq Entries
  /\ element \in 0..elements /\ elements \in 0..MaxElements

AnswerTypes ==
  /\ callAnswer \in Call!Answers /\ callFailed \in BOOLEAN
  /\ answer \in Answers

\* The data stays within the entries there are.
LEMMA DataTypesStep == PathInv /\ DataTypes /\ [Next]_vars => DataTypes'
<1> SUFFICES ASSUME PathInv, DataTypes, [Next]_vars
             PROVE  DataTypes'
  OBVIOUS
<1> USE DEF DataTypes
<1>1. pc \in InBlock => block \in Blocks
  BY DEF PathInv
<1>2. /\ Request \in Entries
      /\ \A b \in Blocks : OutputOf(b) \in Entries /\ ElementOf(b) \in Entries /\ HookOf(b) \in Entries
  BY DEF Entries, Request, OutputOf, ElementOf, HookOf
<1>3. pc = "instance" /\ JoinElement => data' \subseteq Entries
  BY <1>1, <1>2 DEF JoinElement, InBlock
<1>4. yml.next \in [Blocks -> Blocks \cup {None}] /\ yml.blocks \subseteq Blocks
  BY DEF PathInv, Yml
<1>5. CASE StartChain \/ NextBlock
  BY <1>1, <1>2, <1>4, <1>5, ChainAssumption
     DEF StartChain, NextBlock, EnterBlock, Valid, StartOk, InBlock
<1>6. CASE SingleInstance \/ MultipleInstances
  BY <1>6, ChainAssumption DEF SingleInstance, MultipleInstances
<1>7. CASE BadKeys \/ BadZen \/ MissingContract \/ StartCall
  BY <1>3, <1>7 DEF BadKeys, BadZen, MissingContract, StartCall, PrepareInstance
<1>8. CASE HookWrites
  BY <1>1, <1>2, <1>8 DEF HookWrites, InBlock
<1>9. CASE InstanceDone
  BY <1>9 DEF InstanceDone
<1>10. CASE CallStep \/ CallThrows
  BY <1>10 DEF CallStep, CallThrows, blockVars
<1>11. CASE RejectYml \/ NothingToIterate \/ BlockFailed \/ LastBlockDone \/ NextPointsNowhere
  BY <1>11 DEF RejectYml, NothingToIterate, BlockFailed, LastBlockDone, NextPointsNowhere, blockVars
<1>12. CASE UNCHANGED vars
  BY <1>12 DEF vars, blockVars
<1> QED
  BY <1>5, <1>6, <1>7, <1>8, <1>9, <1>10, <1>11, <1>12 DEF Next

\* So do the answers of the calls and of the chain.
LEMMA AnswerTypesStep == PathInv /\ AnswerTypes /\ [Next]_vars => AnswerTypes'
<1> SUFFICES ASSUME PathInv, AnswerTypes, [Next]_vars
             PROVE  AnswerTypes'
  OBVIOUS
<1> USE DEF AnswerTypes, Call!Answers, callVars
<1>1. yml.debug \in BOOLEAN /\ yml.parses \in BOOLEAN
  BY DEF PathInv, Yml
<1>2. ASSUME NEW s, NEW e, NEW n, NEW d, Answer(s, e, n, d),
             s \in {"none", "ok", "error"}, e \in {"none", "yml", "block", "contract"},
             n \in BOOLEAN, d \in BOOLEAN
      PROVE  answer' \in Answers
  BY <1>2 DEF Answer, Answers
<1>3. ASSUME NEW n \in BOOLEAN, BlockError(n) PROVE answer' \in Answers
  BY <1>1, <1>2, <1>3 DEF BlockError
<1>4. CASE RejectYml
  BY <1>1, <1>2, <1>4 DEF RejectYml
<1>5. CASE NothingToIterate \/ BadKeys \/ BadZen \/ MissingContract \/ CallThrows
  BY <1>3, <1>5 DEF NothingToIterate, BadKeys, BadZen, MissingContract, CallThrows
<1>6. CASE BlockFailed \/ LastBlockDone \/ NextPointsNowhere
  BY <1>1, <1>2, <1>6 DEF BlockFailed, LastBlockDone, NextPointsNowhere
<1>7. CASE StartChain \/ NextBlock
  BY <1>7 DEF StartChain, NextBlock
<1>8. CASE SingleInstance \/ MultipleInstances \/ HookWrites \/ InstanceDone
  BY <1>8 DEF SingleInstance, MultipleInstances, HookWrites, InstanceDone
<1>9. CASE StartCall
  BY <1>9 DEF StartCall
<1>10. CASE CallStep
  BY <1>10 DEF CallStep, Call!Next, Call!Fail, Call!ReturnResult, Call!ReturnError
<1>11. CASE UNCHANGED vars
  BY <1>11 DEF vars
<1> QED
  BY <1>4, <1>5, <1>6, <1>7, <1>8, <1>9, <1>10, <1>11 DEF Next

\* Every state of a chain is of the declared types, for any yml.
THEOREM ChainTypeCorrect == Spec => []TypeOK
<1>1. Init => DataTypes /\ AnswerTypes
  <2>1. Init => DataTypes
    BY ChainAssumption DEF Init, DataTypes
  <2>2. Init => callAnswer \in Call!Answers /\ callFailed \in BOOLEAN
    BY DEF Init, Call!Init, Call!Answers
  <2>3. Init => answer \in Answers
    BY DEF Init, Answers
  <2> QED
    BY <2>1, <2>2, <2>3 DEF AnswerTypes
<1>2. IInv /\ DataTypes /\ AnswerTypes => TypeOK
  BY DEF IInv, PathInv, CallInv, DebugInv, CallRecords, AllPcs, InBlock, DataTypes, AnswerTypes, TypeOK
<1>3. IInv /\ DataTypes /\ AnswerTypes /\ [Next]_vars => DataTypes' /\ AnswerTypes'
  BY DataTypesStep, AnswerTypesStep DEF IInv
<1> QED
  BY <1>1, <1>2, <1>3, ChainInductive, PTL DEF Spec
=============================================================================
