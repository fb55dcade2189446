-------------------------------- MODULE Chain --------------------------------
(***************************************************************************)
(* The execution of a contract chain: executeChain and the functions it    *)
(* calls in packages/core/src/index.ts (handleBlockResult,                 *)
(* evaluateBlockResult, evaluateSingleInstance, evaluateMultipleInstances) *)
(* with the contexts of context.ts and the checks of validations.ts.       *)
(*                                                                         *)
(* Each contract the chain calls is a ContractCall, the abstract call that *)
(* module Lifecycle implements.                                            *)
(*                                                                         *)
(* Data is abstracted to where it comes from: an entry is the request, the *)
(* output of a block, the current element of a forEach, or something a     *)
(* hook wrote while a block ran.                                           *)
(***************************************************************************)
EXTENDS ChainYml, Sequences

CONSTANTS
  Ymls,          \* the chains considered
  MaxElements    \* bound: elements of the object a forEach iterates over

ASSUME ChainAssumption == Ymls \subseteq Yml /\ MaxElements \in Nat \ {0}

VARIABLES
  yml,          \* the chain being executed
  pc,           \* where handleBlockResult is
  block,        \* the current block
  data,         \* the data given to the current block
  context,      \* the data in the single context of the current block
  element,      \* the number of the current instance of the block
  elements,     \* how many instances the block has
  callAnswer, callFailed,   \* the current contract call
  debugContext, \* the global context: the blocks recorded in it
  path,         \* history: the blocks entered
  calls,        \* history: the calls answered, with block and success
  answer        \* the RestroomResult of the chain

callVars == <<callAnswer, callFailed>>
blockVars == <<block, data, context, element, elements>>
vars == <<yml, pc, blockVars, callVars, debugContext, path, calls, answer>>

Call == INSTANCE ContractCall WITH answer <- callAnswer, failed <- callFailed

\* Where an entry of the data comes from.
Request      == <<"request", None>>
OutputOf(b)  == <<"output", b>>
ElementOf(b) == <<"element", b>>
HookOf(b)    == <<"hook", b>>
Entries == {Request} \cup ({"output", "element", "hook"} \X Blocks)

Answers == [status : {"none", "ok", "error"},
            error  : {"none", "yml", "block", "contract"},
            enoent : BOOLEAN,
            debug  : BOOLEAN]

TypeOK ==
  /\ yml \in Ymls
  /\ pc \in {"load", "block", "instance", "call", "blockEnd", "done"}
  /\ block \in Blocks \cup {None}
  /\ data \subseteq Entries /\ context \subseteq Entries
  /\ element \in 0..elements /\ elements \in 0..MaxElements
  /\ callAnswer \in Call!Answers /\ callFailed \in BOOLEAN
  /\ debugContext \in [blocks : SUBSET Blocks, outputs : SUBSET Blocks]
  /\ path \in Seq(Blocks)
  /\ calls \in Seq([block : Blocks, element : Nat, ok : BOOLEAN])
  /\ answer \in Answers

Init ==
  /\ yml \in Ymls
  /\ pc = "load"
  /\ block = None /\ data = {} /\ context = {} /\ element = 0 /\ elements = 0
  /\ Call!Init
  /\ debugContext = [blocks |-> {}, outputs |-> {}]
  /\ path = <<>> /\ calls = <<>>
  /\ answer = [status |-> "none", error |-> "none", enoent |-> FALSE, debug |-> FALSE]

-----------------------------------------------------------------------------
\* resolveRestroomResult: the chain answers; the global context is attached
\* if debug is enabled in it.
Answer(status, error, enoent, debug) ==
  /\ pc' = "done"
  /\ answer' = [status |-> status, error |-> error, enoent |-> enoent, debug |-> debug]

\* The catch of handleBlockResult.
BlockError(enoent) == Answer("error", "block", enoent, yml.debug)

\* Mutant: the blocks share one context.
EnterBlock_KeepsContext(b, d) ==
  /\ pc' = "block"
  /\ block' = b /\ data' = d /\ UNCHANGED context
  /\ element' = 0 /\ elements' = 0
  /\ path' = Append(path, b)

\* handleBlockResult starts on a block with a fresh single context.
EnterBlock(b, d) ==
  /\ pc' = "block"
  /\ block' = b /\ data' = d /\ context' = {}
  /\ element' = 0 /\ elements' = 0
  /\ path' = Append(path, b)

-----------------------------------------------------------------------------
\* executeChain.

\* Debug mode is known only once the yml has been parsed.
RejectYml ==
  /\ pc = "load"
  /\ ~Valid(yml)
  /\ Answer("error", "yml", FALSE, yml.parses /\ yml.debug)
  /\ UNCHANGED <<yml, blockVars, callVars, debugContext, path, calls>>

\* Mutant: loops are not looked for.
StartChain_NoLoopCheck ==
  /\ pc = "load"
  /\ yml.parses /\ StartOk(yml) /\ yml.samePaths
  /\ EnterBlock(yml.start, {Request})
  /\ UNCHANGED <<yml, callVars, debugContext, calls, answer>>

StartChain ==
  /\ pc = "load"
  /\ Valid(yml)
  /\ EnterBlock(yml.start, {Request})
  /\ UNCHANGED <<yml, callVars, debugContext, calls, answer>>

-----------------------------------------------------------------------------
\* evaluateBlockResult: one instance, or one for each element.

SingleInstance ==
  /\ pc = "block"
  /\ ~yml.forEach[block]
  /\ pc' = "instance" /\ element' = 1 /\ elements' = 1
  /\ UNCHANGED <<yml, block, data, context, callVars, debugContext, path, calls, answer>>

MultipleInstances ==
  /\ pc = "block"
  /\ yml.forEach[block]
  /\ \E n \in 1..MaxElements : elements' = n
  /\ pc' = "instance" /\ element' = 1
  /\ UNCHANGED <<yml, block, data, context, callVars, debugContext, path, calls, answer>>

\* validateForEach or validateIterable throws; or there is no element, and
\* then there is no instance whose global context could be updated.
NothingToIterate ==
  /\ pc = "block"
  /\ yml.forEach[block]
  /\ BlockError(FALSE)
  /\ UNCHANGED <<yml, blockVars, callVars, debugContext, path, calls>>

-----------------------------------------------------------------------------
\* evaluateSingleInstance.

\* The element of this instance joins the data of the block.
JoinElement == data' = IF yml.forEach[block] THEN data \cup {ElementOf(block)} ELSE data

\* The keys file of the block is not JSON.
BadKeys ==
  /\ pc = "instance"
  /\ JoinElement
  /\ BlockError(FALSE)
  /\ UNCHANGED <<yml, block, context, element, elements, callVars, debugContext, path, calls>>

\* All the data is added to what the single context holds already, and the
\* global context records the block.
PrepareInstance ==
  /\ JoinElement
  /\ context' = context \cup data'
  /\ debugContext' = [debugContext EXCEPT !.blocks = @ \cup {block}]
  /\ UNCHANGED <<yml, block, element, elements, path, calls>>

\* validateZen throws.
BadZen ==
  /\ pc = "instance"
  /\ ~ZenOk(yml, block)
  /\ PrepareInstance
  /\ BlockError(FALSE)
  /\ UNCHANGED callVars

\* The zenFile cannot be read.
MissingContract ==
  /\ pc = "instance"
  /\ yml.zen[block] = "zenFile"
  /\ PrepareInstance
  /\ BlockError(TRUE)
  /\ UNCHANGED callVars

StartCall ==
  /\ pc = "instance"
  /\ ZenOk(yml, block)
  /\ PrepareInstance
  /\ pc' = "call"
  /\ callAnswer' = "pending" /\ callFailed' = FALSE
  /\ UNCHANGED answer

\* callRestroom is running; its hooks may write to the data they are given,
\* which is the data of the single context.
CallStep ==
  /\ pc = "call"
  /\ Call!Next
  /\ UNCHANGED <<yml, pc, blockVars, debugContext, path, calls, answer>>

HookWrites ==
  /\ pc = "call"
  /\ callAnswer = "pending"
  /\ context' = context \cup {HookOf(block)}
  /\ UNCHANGED <<yml, pc, block, data, element, elements, callVars, debugContext, path,
                 calls, answer>>

\* Mutant: handleBlockResult has no catch.
CallThrows_Uncaught ==
  /\ pc = "call"
  /\ callAnswer = "rejection"
  /\ pc' = "done"
  /\ UNCHANGED <<yml, blockVars, callVars, debugContext, path, calls, answer>>

\* callRestroom rejects.
CallThrows ==
  /\ pc = "call"
  /\ callAnswer = "rejection"
  /\ BlockError(FALSE) \/ BlockError(TRUE)
  /\ UNCHANGED <<yml, blockVars, callVars, debugContext, path, calls>>

\* Mutant: the loop takes one element too many.
InstanceDone_OneMore ==
  /\ pc = "call"
  /\ callAnswer \in {"result", "error"}
  /\ calls' = Append(calls, [block |-> block, element |-> element,
                             ok |-> callAnswer = "result"])
  /\ IF element <= elements
     THEN pc' = "instance" /\ element' = element + 1
     ELSE pc' = "blockEnd" /\ UNCHANGED element
  /\ UNCHANGED <<yml, block, data, context, elements, callVars, debugContext, path, answer>>

\* The loop over the elements looks at no error: it goes on with the next
\* element, and only the answer of the last instance leaves the loop.
InstanceDone ==
  /\ pc = "call"
  /\ callAnswer \in {"result", "error"}
  /\ calls' = Append(calls, [block |-> block, element |-> element,
                             ok |-> callAnswer = "result"])
  /\ IF element < elements
     THEN pc' = "instance" /\ element' = element + 1
     ELSE pc' = "blockEnd" /\ UNCHANGED element
  /\ UNCHANGED <<yml, block, data, context, elements, callVars, debugContext, path, answer>>

-----------------------------------------------------------------------------
\* handleBlockResult, once the block has been evaluated.

RecordOutput == debugContext' = [debugContext EXCEPT !.outputs = @ \cup {block}]

BlockFailed ==
  /\ pc = "blockEnd"
  /\ callAnswer = "error"
  /\ RecordOutput
  /\ \E enoent \in BOOLEAN : Answer("error", "contract", enoent, yml.debug)
  /\ UNCHANGED <<yml, blockVars, callVars, path, calls>>

\* Mutant: the last block is recognised before an error is.
LastBlockDone_BeforeError ==
  /\ pc = "blockEnd"
  /\ callAnswer \in {"result", "error"}
  /\ yml.next[block] = None
  /\ RecordOutput
  /\ Answer("ok", "none", FALSE, yml.debug)
  /\ UNCHANGED <<yml, blockVars, callVars, path, calls>>

\* Mutant: the output of the last block is not recorded.
LastBlockDone_NoOutput ==
  /\ pc = "blockEnd"
  /\ callAnswer = "result"
  /\ yml.next[block] = None
  /\ Answer("ok", "none", FALSE, yml.debug)
  /\ UNCHANGED <<yml, blockVars, callVars, debugContext, path, calls>>

LastBlockDone ==
  /\ pc = "blockEnd"
  /\ callAnswer = "result"
  /\ yml.next[block] = None
  /\ RecordOutput
  /\ Answer("ok", "none", FALSE, yml.debug)
  /\ UNCHANGED <<yml, blockVars, callVars, path, calls>>

\* validateNextBlock throws, outside the try of handleBlockResult: the catch
\* of executeChain answers.
NextPointsNowhere ==
  /\ pc = "blockEnd"
  /\ callAnswer = "result"
  /\ yml.next[block] \notin yml.blocks \cup {None}
  /\ RecordOutput
  /\ Answer("error", "yml", FALSE, yml.debug)
  /\ UNCHANGED <<yml, blockVars, callVars, path, calls>>

\* Mutant: errors do not stop the chain.
NextBlock_DespiteError ==
  /\ pc = "blockEnd"
  /\ callAnswer \in {"result", "error"}
  /\ yml.next[block] \in yml.blocks
  /\ RecordOutput
  /\ EnterBlock(yml.next[block], {OutputOf(block)})
  /\ UNCHANGED <<yml, callVars, calls, answer>>

NextBlock ==
  /\ pc = "blockEnd"
  /\ callAnswer = "result"
  /\ yml.next[block] \in yml.blocks
  /\ RecordOutput
  /\ EnterBlock(yml.next[block], {OutputOf(block)})
  /\ UNCHANGED <<yml, callVars, calls, answer>>

Next ==
  \/ RejectYml \/ StartChain
  \/ SingleInstance \/ MultipleInstances \/ NothingToIterate
  \/ BadKeys \/ BadZen \/ MissingContract \/ StartCall
  \/ CallStep \/ HookWrites \/ CallThrows \/ InstanceDone
  \/ BlockFailed \/ LastBlockDone \/ NextPointsNowhere \/ NextBlock

Spec == Init /\ [][Next]_vars

\* A contract call settles (Lifecycle!CallSettles) and the event loop runs
\* what awaits it.
FairSpec == Spec /\ WF_vars(Next)

-----------------------------------------------------------------------------
\* The blocks of path follow each other in the yml, from the start block on.
IsPath == /\ path # <<>> => path[1] = yml.start
          /\ \A i \in 1..Len(path)-1 : path[i+1] = yml.next[path[i]]
          /\ \A i \in DOMAIN path : path[i] \in yml.blocks

CallsOf(b) == {i \in DOMAIN calls : calls[i].block = b}
LastCallOf(b) == CHOOSE i \in CallsOf(b) : \A j \in CallsOf(b) : j <= i

(***************************************************************************)
(* A chain answers 200 only after it has gone all the way: from the start  *)
(* block along next to a block without next, and the last contract called  *)
(* in each of these blocks succeeded.                                      *)
(***************************************************************************)
OkMeansWholePath ==
  answer.status = "ok" =>
    /\ IsPath
    /\ path # <<>> /\ yml.next[path[Len(path)]] = None
    /\ \A i \in DOMAIN path : CallsOf(path[i]) # {} /\ calls[LastCallOf(path[i])].ok

(***************************************************************************)
(* The check for loops does its job: a chain that is run enters no block   *)
(* twice, so no more blocks than the yml has.                              *)
(***************************************************************************)
NoBlockTwice == \A i, j \in DOMAIN path : path[i] = path[j] => i = j

(***************************************************************************)
(* A contract is called with all the data of its block and nothing but     *)
(* that and what hooks wrote for the same block: the request for the first *)
(* block, the output of the block before for the others, and the element   *)
(* in a forEach.  No data skips a block or leaks into a later one.         *)
(***************************************************************************)
InputOf(i) == IF i = 1 THEN {Request} ELSE {OutputOf(path[i-1])}

DataFlow ==
  pc = "call" =>
    LET input == InputOf(Len(path))
                   \cup (IF yml.forEach[block] THEN {ElementOf(block)} ELSE {})
    IN  input \subseteq context /\ context \subseteq input \cup {HookOf(block)}

(***************************************************************************)
(* After a contract has failed the chain enters no other block and calls   *)
(* no other contract, except for the next element of the same forEach.     *)
(***************************************************************************)
StopsAtFailure ==
  \A i \in DOMAIN calls : ~calls[i].ok =>
    \/ /\ i = Len(calls)
       /\ calls[i].block = path[Len(path)]
    \/ /\ i < Len(calls)
       /\ calls[i+1].block = calls[i].block
       /\ calls[i+1].element = calls[i].element + 1

(***************************************************************************)
(* The context a debug chain answers with shows every block that was       *)
(* entered, at most the last one missing, and the output of every block    *)
(* that got to its end.                                                    *)
(***************************************************************************)
DebugTrace ==
  answer.status # "none" /\ answer.debug =>
    /\ debugContext.blocks \subseteq {path[i] : i \in DOMAIN path}
    /\ \A i \in 1..Len(path)-1 : /\ path[i] \in debugContext.blocks
                                 /\ path[i] \in debugContext.outputs
    /\ answer.status = "ok" => debugContext.outputs = {path[i] : i \in DOMAIN path}

\* Every request for a chain gets an answer.
ChainAnswers == <>(answer.status # "none")
=============================================================================
