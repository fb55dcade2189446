--------------------------- MODULE ChainValidation ---------------------------
(***************************************************************************)
(* The checks executeChain makes on a parsed yml before it runs a block,   *)
(* in their order and turn by turn: validateStartBlock,                    *)
(* validateNoLoopInChain and validatePathsInYml of                         *)
(* packages/core/src/validations.ts.  Module Chain takes them as one step, *)
(* by their meaning (ChainYml); here the code is compared with it.         *)
(***************************************************************************)
EXTENDS ChainYml, Sequences

CONSTANTS
  Ymls,       \* the parsed yml files considered
  Folders,    \* folders below the contracts directory
  MaxPaths    \* bound: properties of the yml that hold a path with a folder

ASSUME ValidationAssumption ==
  /\ Ymls \subseteq {y \in Yml : y.parses /\ IsFiniteSet(y.blocks)}
  /\ None \notin Folders
  /\ MaxPaths \in Nat

VARIABLES
  yml,
  ymlFolder,    \* the folder in the name of the chain
  allFolders,   \* the folders of the paths in the yml, in their order
  pc,           \* the check being made, or the verdict
  nextStep, counter,
  message       \* the error thrown

vars == <<yml, ymlFolder, allFolders, pc, nextStep, counter, message>>

FolderLists == UNION {[1..n -> Folders] : n \in 0..MaxPaths}
Messages == {"none", "start missing", "start nowhere", "loop", "different paths",
             "different from the chain"}

\* contractNumbers
BlockCount == Cardinality(yml.blocks)

TypeOK ==
  /\ yml \in Ymls
  /\ ymlFolder \in Folders \cup {None}
  /\ allFolders \in FolderLists
  /\ pc \in {"start", "loop", "paths", "passed", "failed"}
  /\ nextStep \in Blocks \cup {None}
  /\ counter \in 0..BlockCount + 1
  /\ message \in Messages

Init ==
  /\ yml \in Ymls
  /\ ymlFolder \in Folders \cup {None}
  /\ allFolders \in FolderLists
  /\ pc = "start"
  /\ nextStep = yml.start
  /\ counter = 0
  /\ message = "none"

Throw(m) == pc' = "failed" /\ message' = m

-----------------------------------------------------------------------------
\* validateStartBlock
StartMissing ==
  /\ pc = "start"
  /\ yml.start = None
  /\ Throw("start missing")
  /\ UNCHANGED <<yml, ymlFolder, allFolders, nextStep, counter>>

StartNowhere ==
  /\ pc = "start"
  /\ yml.start \notin yml.blocks \cup {None}
  /\ Throw("start nowhere")
  /\ UNCHANGED <<yml, ymlFolder, allFolders, nextStep, counter>>

StartFound ==
  /\ pc = "start"
  /\ yml.start \in yml.blocks
  /\ pc' = "loop"
  /\ UNCHANGED <<yml, ymlFolder, allFolders, nextStep, counter, message>>

\* Mutant: the counter has no limit.
FollowNext_NoLimit ==
  /\ pc = "loop"
  /\ nextStep # None
  /\ counter' = counter + 1
  /\ nextStep' = NextOf(yml, nextStep)
  /\ UNCHANGED <<yml, ymlFolder, allFolders, pc, message>>

\* Mutant: at the limit the loop is left, and nothing thrown.
FollowNext_Breaks ==
  /\ pc = "loop"
  /\ nextStep # None
  /\ counter' = counter + 1
  /\ nextStep' = NextOf(yml, nextStep)
  /\ pc' = IF counter' > BlockCount THEN "paths" ELSE pc
  /\ UNCHANGED <<yml, ymlFolder, allFolders, message>>

\* Mutant: the limit is one turn too low.
FollowNext_LowLimit ==
  /\ pc = "loop"
  /\ nextStep # None
  /\ counter' = counter + 1
  /\ nextStep' = NextOf(yml, nextStep)
  /\ IF counter' >= BlockCount
     THEN Throw("loop")
     ELSE UNCHANGED <<pc, message>>
  /\ UNCHANGED <<yml, ymlFolder, allFolders>>

\* Mutant: the turns are not counted.
FollowNext_NoCounter ==
  /\ pc = "loop"
  /\ nextStep # None
  /\ nextStep' = NextOf(yml, nextStep)
  /\ UNCHANGED <<yml, ymlFolder, allFolders, pc, counter, message>>

\* validateNoLoopInChain: one turn of the while, and its end.
FollowNext ==
  /\ pc = "loop"
  /\ nextStep # None
  /\ counter' = counter + 1
  /\ nextStep' = NextOf(yml, nextStep)
  /\ IF counter' > BlockCount
     THEN Throw("loop")
     ELSE UNCHANGED <<pc, message>>
  /\ UNCHANGED <<yml, ymlFolder, allFolders>>

NoLoop ==
  /\ pc = "loop"
  /\ nextStep = None
  /\ pc' = "paths"
  /\ UNCHANGED <<yml, ymlFolder, allFolders, nextStep, counter, message>>

\* validatePathsInYml.  A path that is alone in the yml is not looked at.
PathsDiffer == Len(allFolders) > 1 /\ \E i \in DOMAIN allFolders : allFolders[i] # allFolders[1]
PropFolder  == IF Len(allFolders) > 1 THEN allFolders[1] ELSE None

DifferentPaths ==
  /\ pc = "paths"
  /\ PathsDiffer
  /\ Throw("different paths")
  /\ UNCHANGED <<yml, ymlFolder, allFolders, nextStep, counter>>

DifferentFromChain ==
  /\ pc = "paths"
  /\ ~PathsDiffer
  /\ ymlFolder # PropFolder
  /\ Throw("different from the chain")
  /\ UNCHANGED <<yml, ymlFolder, allFolders, nextStep, counter>>

SamePaths ==
  /\ pc = "paths"
  /\ ~PathsDiffer
  /\ ymlFolder = PropFolder
  /\ pc' = "passed"
  /\ UNCHANGED <<yml, ymlFolder, allFolders, nextStep, counter, message>>

Next == \/ StartMissing \/ StartNowhere \/ StartFound
        \/ FollowNext \/ NoLoop
        \/ DifferentPaths \/ DifferentFromChain \/ SamePaths

Spec == Init /\ [][Next]_vars

\* The checks are synchronous code: nothing suspends them.
FairSpec == Spec /\ WF_vars(Next)

-----------------------------------------------------------------------------
\* The blocks reached from the start along next, and the chains that never
\* leave them: the least set that holds the start and is closed under next.
Closed(S)  == \A b \in S : NextOf(yml, b) \in S \cup {None}
Reached    == {b \in Blocks : \A S \in SUBSET Blocks : yml.start \in S /\ Closed(S) => b \in S}
NeverEnds  == \A b \in Reached : NextOf(yml, b) # None

(***************************************************************************)
(* Counting turns is as good as looking for a cycle: a chain that never    *)
(* ends is never accepted, and one that ends is not accepted only if its   *)
(* last next points at no block.                                           *)
(***************************************************************************)
LoopsAreFound ==
  /\ pc \in {"paths", "passed"} => ~NeverEnds
  /\ message = "loop" => NeverEnds \/ \E b \in Reached : b \notin yml.blocks

(***************************************************************************)
(* The checks mean what module Chain takes them for: a yml passes them all *)
(* exactly if it is Valid.                                                 *)
(***************************************************************************)
FolderIsRight ==
  IF Len(allFolders) > 1 THEN {ymlFolder} = {allFolders[i] : i \in DOMAIN allFolders}
                         ELSE ymlFolder = None

ChecksMeanValid ==
  pc \in {"passed", "failed"} =>
    (pc = "passed" <=> Valid([yml EXCEPT !.samePaths = FolderIsRight]))

\* The checks end, on a yml with loops too.
ChecksEnd == <>(pc \in {"passed", "failed"})

(***************************************************************************)
(* packages/core/src/validations.ts:76 documents validateNoLoopInChain as  *)
(* "responsible to detect if the chain has an infinite loop", and the      *)
(* tests expect "Next (next:) is pointing nowhere" of a chain whose next   *)
(* is no block.  The code reports a loop when such a chain goes through    *)
(* all the blocks of the yml.                                              *)
(***************************************************************************)
LoopReportedOnlyForLoops == message = "loop" => NeverEnds
=============================================================================
