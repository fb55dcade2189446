------------------------ MODULE ChainValidation_proofs ------------------------
(***************************************************************************)
(* The checks executeChain makes before it runs anything, for any yml with *)
(* finitely many blocks and any folders: they accept and reject what they  *)
(* are meant to.                                                           *)
(***************************************************************************)
EXTENDS ChainValidation, FiniteSetTheorems, SequenceTheorems, TLAPS

-----------------------------------------------------------------------------
(* The inductive invariant. *)

\* How far the checks have come, and why they have failed.
VerdictInv ==
  /\ TypeOK
  /\ pc = "failed" <=> message # "none"
  /\ pc = "start" => nextStep = yml.start /\ counter = 0
  /\ pc \in {"loop", "paths", "passed"} => StartOk(yml)
  /\ message \in {"start missing", "start nowhere"} => ~StartOk(yml)

\* The loop has taken a walk through blocks that the chain reaches, ...
Walked ==
  \E w \in [0..counter -> Reached \cup {None}] : IsWalk(yml, w, counter) /\ w[counter] = nextStep

\* ... there is no other one, and it has not come to an end before.
OnlyWalk ==
  \A n \in Nat : \A w : IsWalk(yml, w, n) =>
    /\ n < counter => w[n] # None
    /\ counter <= n => w[counter] = nextStep

\* The limit is exceeded exactly when the loop is left with an error.
LimitInv ==
  /\ message # "loop" => counter <= BlockCount
  /\ message = "loop" => counter = BlockCount + 1
  /\ pc \in {"paths", "passed"} => nextStep = None

FoldersInv ==
  /\ pc = "passed" => FolderIsRight
  /\ message \in {"different paths", "different from the chain"} => ~FolderIsRight

IInv == VerdictInv /\ Walked /\ OnlyWalk /\ LimitInv /\ FoldersInv

-----------------------------------------------------------------------------
\* What the assumption says of a yml.
LEMMA YmlFacts ==
  ASSUME yml \in Ymls
  PROVE  /\ yml.parses /\ yml \in Yml
         /\ yml.start \in Blocks \cup {None} /\ yml.blocks \subseteq Blocks
         /\ \A b \in Blocks : NextOf(yml, b) \in Blocks \cup {None}
         /\ IsFiniteSet(yml.blocks) /\ BlockCount \in Nat
<1>1. yml \in Yml /\ yml.parses /\ IsFiniteSet(yml.blocks)
  BY ValidationAssumption
<1>2. BlockCount \in Nat
  BY <1>1, FS_CardinalityType DEF BlockCount
<1> QED
  BY <1>1, <1>2 DEF Yml, NextOf

\* The set of blocks reached holds the start block and is closed under next.
LEMMA ReachedIsClosed ==
  ASSUME yml \in Ymls
  PROVE  /\ yml.start \in Reached \cup {None}
         /\ \A b \in Reached : NextOf(yml, b) \in Reached \cup {None}
<1>1. yml.start \in Reached \cup {None}
  BY YmlFacts DEF Reached
<1>2. ASSUME NEW b \in Reached, NextOf(yml, b) # None
      PROVE  NextOf(yml, b) \in Reached
  <2>1. b \in Blocks /\ NextOf(yml, b) \in Blocks
    BY <1>2, YmlFacts DEF Reached
  <2>2. ASSUME NEW S \in SUBSET Blocks, yml.start \in S, Closed(S)
        PROVE  NextOf(yml, b) \in S
    BY <1>2, <2>2 DEF Reached, Closed
  <2> QED
    BY <2>1, <2>2 DEF Reached
<1> QED
  BY <1>1, <1>2

\* The checks keep to their types and their order.
LEMMA VerdictInvStep == VerdictInv /\ LimitInv /\ [Next]_vars => VerdictInv'
<1> SUFFICES ASSUME VerdictInv, LimitInv, [Next]_vars
             PROVE  VerdictInv'
  OBVIOUS
<1>0. /\ \A b \in Blocks : NextOf(yml, b) \in Blocks \cup {None}
      /\ BlockCount \in Nat
      /\ yml.blocks \subseteq Blocks
  BY YmlFacts DEF VerdictInv, TypeOK
<1> USE DEF VerdictInv, TypeOK, BlockCount, Messages, Throw, StartOk
<1>1. CASE StartMissing \/ StartNowhere \/ StartFound
  BY <1>0, <1>1, NoneAssumption DEF StartMissing, StartNowhere, StartFound
<1>2. CASE FollowNext
  <2>1. /\ pc = "loop" /\ message = "none" /\ UNCHANGED <<yml, ymlFolder, allFolders>>
        /\ counter' = counter + 1 /\ nextStep' = NextOf(yml, nextStep) /\ nextStep # None
    BY <1>2 DEF FollowNext
  <2>2. counter \in Nat /\ counter <= BlockCount
    BY <1>0, <2>1 DEF LimitInv
  <2>3. counter' \in 0..BlockCount + 1 /\ BlockCount' = BlockCount
    BY <1>0, <2>1, <2>2
  <2>4. nextStep' \in Blocks \cup {None}
    BY <1>0, <2>1
  <2>5. \/ pc' = "failed" /\ message' = "loop"
        \/ pc' = "loop" /\ message' = "none"
    BY <1>2, <2>1 DEF FollowNext
  <2>6. FolderLists' = FolderLists
    BY DEF FolderLists
  <2>7. TypeOK'
    BY <2>1, <2>3, <2>4, <2>5, <2>6
  <2> QED
    BY <2>1, <2>5, <2>7
<1>3. CASE NoLoop
  BY <1>3 DEF NoLoop
<1>4. CASE DifferentPaths \/ DifferentFromChain \/ SamePaths
  BY <1>4 DEF DifferentPaths, DifferentFromChain, SamePaths
<1>5. CASE UNCHANGED vars
  BY <1>5 DEF vars
<1> QED
  BY <1>1, <1>2, <1>3, <1>4, <1>5 DEF Next

\* The turns of the loop, and all the rest.
LEMMA LoopOrNot ==
  ASSUME [Next]_vars
  PROVE  FollowNext \/ UNCHANGED <<yml, ymlFolder, allFolders, nextStep, counter>>
BY DEF Next, StartMissing, StartNowhere, StartFound, NoLoop, DifferentPaths, DifferentFromChain,
       SamePaths, vars

\* A turn of the loop prolongs the walk.
LEMMA WalkedStep == VerdictInv /\ Walked /\ [Next]_vars => Walked'
<1> SUFFICES ASSUME VerdictInv, Walked, [Next]_vars
             PROVE  Walked'
  OBVIOUS
<1>1. CASE FollowNext
  <2>1. /\ nextStep # None /\ counter' = counter + 1 /\ nextStep' = NextOf(yml, nextStep)
        /\ yml' = yml /\ counter \in Nat
    BY <1>1 DEF FollowNext, VerdictInv, TypeOK
  <2>2. PICK w \in [0..counter -> Reached \cup {None}] :
          IsWalk(yml, w, counter) /\ w[counter] = nextStep
    BY DEF Walked
  <2>3. nextStep' \in Reached \cup {None}
    <3>1. nextStep \in Reached
      BY <2>1, <2>2
    <3> QED
      BY <2>1, <3>1, ReachedIsClosed DEF VerdictInv, TypeOK
  <2> DEFINE v == [i \in 0..counter + 1 |-> IF i = counter + 1 THEN nextStep' ELSE w[i]]
  <2>4. v \in [0..counter + 1 -> Reached \cup {None}]
    BY <2>1, <2>2, <2>3
  <2>5. \A i \in 0..counter : v[i] = w[i]
    BY <2>1
  <2>6. v[counter + 1] = nextStep'
    BY <2>1
  <2>7. IsWalk(yml, v, counter + 1)
    <3>1. v \in [0..counter + 1 -> Blocks \cup {None}]
      BY <2>4 DEF Reached
    <3>2. v[0] = yml.start
      BY <2>1, <2>2, <2>5 DEF IsWalk
    <3>3. ASSUME NEW i \in 0..(counter + 1) - 1
          PROVE  v[i] # None /\ v[i+1] = NextOf(yml, v[i])
      <4>1. CASE i = counter
        BY <2>1, <2>2, <2>5, <2>6, <4>1
      <4>2. CASE i < counter
        BY <2>1, <2>2, <2>5, <4>2 DEF IsWalk
      <4> QED
        BY <2>1, <4>1, <4>2
    <3> QED
      BY <3>1, <3>2, <3>3 DEF IsWalk
  <2>8. Reached' = Reached
    BY <2>1 DEF Reached, Closed
  <2> HIDE DEF v
  <2> QED
    BY <2>1, <2>4, <2>6, <2>7, <2>8 DEF Walked
<1>2. CASE UNCHANGED <<yml, ymlFolder, allFolders, nextStep, counter>>
  BY <1>2 DEF Walked, Reached, Closed
<1> QED
  BY <1>1, <1>2, LoopOrNot

\* The walk is the only one.
LEMMA OnlyWalkStep == VerdictInv /\ OnlyWalk /\ [Next]_vars => OnlyWalk'
<1> SUFFICES ASSUME VerdictInv, OnlyWalk, [Next]_vars
             PROVE  OnlyWalk'
  OBVIOUS
<1>1. CASE FollowNext
  <2>1. /\ nextStep # None /\ counter' = counter + 1 /\ nextStep' = NextOf(yml, nextStep)
        /\ yml' = yml /\ counter \in Nat
    BY <1>1 DEF FollowNext, VerdictInv, TypeOK
  <2>2. ASSUME NEW n \in Nat, NEW w, IsWalk(yml, w, n)
        PROVE  /\ n < counter + 1 => w[n] # None
               /\ counter + 1 <= n => w[counter + 1] = nextStep'
    <3>1. CASE n < counter
      BY <2>1, <2>2, <3>1 DEF OnlyWalk
    <3>2. CASE n >= counter
      <4>1. w[counter] = nextStep
        BY <2>1, <2>2, <3>2 DEF OnlyWalk
      <4>2. counter + 1 <= n => w[counter + 1] = NextOf(yml, w[counter])
        BY <2>1, <2>2 DEF IsWalk
      <4> QED
        BY <2>1, <2>2, <3>2, <4>1, <4>2
    <3> QED
      BY <2>1, <2>2, <3>1, <3>2
  <2> QED
    BY <2>1, <2>2 DEF OnlyWalk
<1>2. CASE UNCHANGED <<yml, ymlFolder, allFolders, nextStep, counter>>
  BY <1>2 DEF OnlyWalk
<1> QED
  BY <1>1, <1>2, LoopOrNot

\* The loop is left with an error at the limit, or at the end of the chain.
LEMMA LimitInvStep == VerdictInv /\ LimitInv /\ [Next]_vars => LimitInv'
<1> SUFFICES ASSUME VerdictInv, LimitInv, [Next]_vars
             PROVE  LimitInv'
  OBVIOUS
<1>1. BlockCount \in Nat /\ counter \in Nat
  <2>1. yml \in Ymls /\ counter \in 0..BlockCount + 1
    BY DEF VerdictInv, TypeOK
  <2>2. BlockCount \in Nat
    BY <2>1, YmlFacts
  <2> QED
    BY <2>1, <2>2
<1>2. pc # "failed" => message = "none"
  BY DEF VerdictInv
<1>3. CASE FollowNext
  <2>1. /\ pc = "loop" /\ counter' = counter + 1 /\ BlockCount' = BlockCount
        /\ IF counter' > BlockCount
           THEN pc' = "failed" /\ message' = "loop"
           ELSE pc' = "loop" /\ message' = "none"
    BY <1>2, <1>3 DEF FollowNext, Throw, BlockCount
  <2>2. counter <= BlockCount
    BY <1>2, <2>1 DEF LimitInv
  <2> QED
    BY <1>1, <2>1, <2>2 DEF LimitInv
<1>4. CASE StartMissing \/ StartNowhere \/ StartFound \/ NoLoop
  BY <1>2, <1>4 DEF StartMissing, StartNowhere, StartFound, NoLoop, Throw, LimitInv, BlockCount
<1>5. CASE DifferentPaths \/ DifferentFromChain \/ SamePaths
  BY <1>2, <1>5 DEF DifferentPaths, DifferentFromChain, SamePaths, Throw, LimitInv, BlockCount
<1>6. CASE UNCHANGED vars
  BY <1>6 DEF vars, LimitInv, BlockCount
<1> QED
  BY <1>3, <1>4, <1>5, <1>6 DEF Next

\* The lists of folders are sequences.
LEMMA FolderListsAreSeqs ==
  ASSUME allFolders \in FolderLists
  PROVE  /\ allFolders \in Seq(Folders) /\ Len(allFolders) \in Nat
         /\ DOMAIN allFolders = 1..Len(allFolders)
<1>1. PICK n \in Nat : allFolders \in [1..n -> Folders]
  BY ValidationAssumption DEF FolderLists
<1>2. allFolders \in Seq(Folders)
  BY <1>1
<1> QED
  BY <1>2

\* What the comparison of the folders finds out.
LEMMA FoldersCompared ==
  ASSUME allFolders \in FolderLists
  PROVE  FolderIsRight <=> ~PathsDiffer /\ ymlFolder = PropFolder
<1>1. Len(allFolders) \in Nat /\ DOMAIN allFolders = 1..Len(allFolders)
  BY FolderListsAreSeqs
<1>2. CASE Len(allFolders) > 1
  <2>1. 1 \in DOMAIN allFolders
    BY <1>1, <1>2
  <2>2. ASSUME FolderIsRight
        PROVE  ~PathsDiffer /\ ymlFolder = PropFolder
    <3>1. \A i \in DOMAIN allFolders : allFolders[i] = ymlFolder
      BY <1>2, <2>2 DEF FolderIsRight
    <3> QED
      BY <1>2, <2>1, <3>1 DEF PathsDiffer, PropFolder
  <2>3. ASSUME ~PathsDiffer, ymlFolder = PropFolder
        PROVE  FolderIsRight
    <3>1. ymlFolder = allFolders[1] /\ \A i \in DOMAIN allFolders : allFolders[i] = allFolders[1]
      BY <1>2, <2>3 DEF PathsDiffer, PropFolder
    <3> QED
      BY <1>2, <2>1, <3>1 DEF FolderIsRight
  <2> QED
    BY <2>2, <2>3
<1>3. CASE ~(Len(allFolders) > 1)
  BY <1>3 DEF FolderIsRight, PathsDiffer, PropFolder
<1> QED
  BY <1>2, <1>3

\* The verdict on the folders is the one that is meant.
LEMMA FoldersInvStep == VerdictInv /\ FoldersInv /\ [Next]_vars => FoldersInv'
<1> SUFFICES ASSUME VerdictInv, FoldersInv, [Next]_vars
             PROVE  FoldersInv'
  OBVIOUS
<1>1. FolderIsRight <=> ~PathsDiffer /\ ymlFolder = PropFolder
  BY FoldersCompared DEF VerdictInv, TypeOK
<1>2. UNCHANGED <<ymlFolder, allFolders>>
  BY LoopOrNot DEF FollowNext
<1>3. FolderIsRight' <=> FolderIsRight
  BY <1>2 DEF FolderIsRight
<1>4. pc # "failed" => message = "none"
  BY DEF VerdictInv
<1>5. CASE StartMissing \/ StartNowhere \/ StartFound \/ NoLoop
  BY <1>4, <1>5 DEF StartMissing, StartNowhere, StartFound, NoLoop, Throw, FoldersInv
<1>6. CASE FollowNext
  BY <1>4, <1>6 DEF FollowNext, Throw, FoldersInv
<1>7. CASE DifferentPaths \/ DifferentFromChain \/ SamePaths
  BY <1>1, <1>3, <1>4, <1>7 DEF DifferentPaths, DifferentFromChain, SamePaths, Throw, FoldersInv
<1>8. CASE UNCHANGED vars
  BY <1>3, <1>8 DEF vars, FoldersInv
<1> QED
  BY <1>5, <1>6, <1>7, <1>8 DEF Next

\* Before the first check there is nothing but the start.
LEMMA InitIInv == Init => IInv
<1> SUFFICES ASSUME Init
             PROVE  IInv
  OBVIOUS
<1> USE DEF Init
<1>1. /\ yml.start \in Blocks \cup {None} /\ BlockCount \in Nat
      /\ yml.start \in Reached \cup {None}
  BY YmlFacts, ReachedIsClosed
<1>2. VerdictInv
  BY <1>1 DEF VerdictInv, TypeOK, Messages
<1>3. Walked
  <2> DEFINE w == [i \in 0..0 |-> yml.start]
  <2>1. w \in [0..0 -> Reached \cup {None}] /\ w[0] = yml.start
    BY <1>1
  <2>2. w \in [0..0 -> Blocks \cup {None}] /\ 0..0-1 = {}
    BY <1>1
  <2>3. IsWalk(yml, w, 0)
    BY <2>1, <2>2 DEF IsWalk
  <2> HIDE DEF w
  <2> QED
    BY <2>1, <2>3 DEF Walked
<1>4. OnlyWalk
  BY DEF OnlyWalk, IsWalk
<1>5. LimitInv /\ FoldersInv
  BY <1>1 DEF LimitInv, FoldersInv
<1> QED
  BY <1>2, <1>3, <1>4, <1>5 DEF IInv

\* The five parts hold of every state the checks reach.
THEOREM ChecksInductive == Spec => []IInv
<1>1. IInv /\ [Next]_vars => IInv'
  BY VerdictInvStep, WalkedStep, OnlyWalkStep, LimitInvStep, FoldersInvStep DEF IInv
<1> QED
  BY InitIInv, <1>1, PTL DEF Spec

\* Every variable keeps to its type.
THEOREM ChecksTypeCorrect == Spec => []TypeOK
BY ChecksInductive, PTL DEF IInv, VerdictInv

-----------------------------------------------------------------------------
(* What the checks accept and reject. *)

\* Valid, of a yml that parses, is the conjunction of the three checks.
LEMMA ValidMeans ==
  ASSUME yml \in Ymls
  PROVE  Valid([yml EXCEPT !.samePaths = FolderIsRight])
           <=> StartOk(yml) /\ NoLoopInChain(yml) /\ FolderIsRight
<1> DEFINE y == [yml EXCEPT !.samePaths = FolderIsRight]
<1>1. yml \in Yml /\ yml.parses
  BY YmlFacts
<1>2. /\ y.parses = yml.parses /\ y.start = yml.start
      /\ y.blocks = yml.blocks /\ y.next = yml.next
  BY <1>1 DEF Yml
<1>3. y.samePaths <=> FolderIsRight
  BY <1>1 DEF Yml
<1> HIDE DEF y
<1>4. NoLoopInChain(y) <=> NoLoopInChain(yml)
  BY <1>2 DEF NoLoopInChain, EndsAfter, IsWalk, NextOf
<1>5. Valid(y) <=> StartOk(yml) /\ NoLoopInChain(yml) /\ FolderIsRight
  BY <1>1, <1>2, <1>3, <1>4 DEF Valid, StartOk
<1> QED
  BY <1>5 DEF y

\* A loop that has come to no next has seen the chain end.
LEMMA EndIsSeen ==
  ASSUME IInv, nextStep = None, message # "loop"
  PROVE  NoLoopInChain(yml)
<1>1. BlockCount \in Nat
  BY YmlFacts DEF IInv, VerdictInv, TypeOK
<1>2. counter \in 0..BlockCount
  <2>1. counter \in 0..BlockCount + 1 /\ counter <= BlockCount
    BY DEF IInv, VerdictInv, LimitInv, TypeOK
  <2> QED
    BY <1>1, <2>1
<1>3. PICK w \in [0..counter -> Reached \cup {None}] :
        IsWalk(yml, w, counter) /\ w[counter] = nextStep
  BY DEF IInv, Walked
<1>4. EndsAfter(yml, counter)
  BY <1>3 DEF EndsAfter, IsWalk
<1> QED
  BY <1>2, <1>4 DEF NoLoopInChain, BlockCount

\* A loop that is left with an error has seen no end within the limit.
LEMMA NoEndIsSeen ==
  ASSUME IInv, message = "loop"
  PROVE  ~NoLoopInChain(yml)
<1>1. BlockCount \in Nat /\ counter = BlockCount + 1
  BY YmlFacts DEF IInv, VerdictInv, TypeOK, LimitInv
<1>2. ASSUME NEW n \in 0..BlockCount, NEW w, IsWalk(yml, w, n)
      PROVE  w[n] # None
  BY <1>1, <1>2 DEF IInv, OnlyWalk
<1> QED
  BY <1>2 DEF NoLoopInChain, EndsAfter, BlockCount

(***************************************************************************)
(* For any yml: the checks of validations.ts pass exactly the files that   *)
(* module Chain takes for Valid.                                           *)
(***************************************************************************)
THEOREM ChecksAreExact == Spec => []ChecksMeanValid
<1>1. ASSUME IInv
      PROVE  ChecksMeanValid
  <2>1. Valid([yml EXCEPT !.samePaths = FolderIsRight])
          <=> StartOk(yml) /\ NoLoopInChain(yml) /\ FolderIsRight
    BY <1>1, ValidMeans DEF IInv, VerdictInv, TypeOK
  <2>2. CASE pc = "passed"
    <3>1. message = "none" /\ nextStep = None /\ StartOk(yml) /\ FolderIsRight
      BY <1>1, <2>2 DEF IInv, VerdictInv, LimitInv, FoldersInv
    <3>2. NoLoopInChain(yml)
      BY <1>1, <3>1, EndIsSeen
    <3> QED
      BY <2>1, <2>2, <3>1, <3>2 DEF ChecksMeanValid
  <2>3. CASE pc = "failed"
    <3>1. message \in Messages \ {"none"}
      BY <1>1, <2>3 DEF IInv, VerdictInv, TypeOK
    <3>2. message \in {"start missing", "start nowhere"} => ~StartOk(yml)
      BY <1>1 DEF IInv, VerdictInv
    <3>3. message = "loop" => ~NoLoopInChain(yml)
      BY <1>1, NoEndIsSeen
    <3>4. message \in {"different paths", "different from the chain"} => ~FolderIsRight
      BY <1>1 DEF IInv, FoldersInv
    <3> QED
      BY <2>1, <2>3, <3>1, <3>2, <3>3, <3>4 DEF ChecksMeanValid, Messages
  <2> QED
    BY <2>2, <2>3 DEF ChecksMeanValid
<1> QED
  BY <1>1, ChecksInductive, PTL

\* A chain that has been walked to a block without a next has an end.
LEMMA WalkedChainsEnd ==
  ASSUME IInv, nextStep = None, StartOk(yml)
  PROVE  ~NeverEnds
<1>1. PICK w \in [0..counter -> Reached \cup {None}] :
        IsWalk(yml, w, counter) /\ w[counter] = nextStep
  BY DEF IInv, Walked
<1>2. yml.start # None /\ counter \in Nat
  <2>1. yml \in Ymls /\ counter \in 0..BlockCount + 1
    BY DEF IInv, VerdictInv, TypeOK
  <2>2. BlockCount \in Nat /\ yml.blocks \subseteq Blocks
    BY <2>1, YmlFacts
  <2> QED
    BY <2>1, <2>2, NoneAssumption DEF StartOk
<1>3. counter # 0
  BY <1>1, <1>2 DEF IsWalk
<1>4. counter - 1 \in 0..counter - 1 /\ (counter - 1) + 1 = counter
  BY <1>2, <1>3
<1>5. w[counter - 1] # None /\ NextOf(yml, w[counter - 1]) = None
  BY <1>1, <1>4 DEF IsWalk
<1>6. w[counter - 1] \in Reached
  BY <1>1, <1>2, <1>4, <1>5
<1> QED
  BY <1>5, <1>6 DEF NeverEnds

(***************************************************************************)
(* A walk through one block more than there are comes to a block twice,    *)
(* so that the blocks before the second time are closed under next: they   *)
(* are all the chain reaches, and each of them has a next.                 *)
(***************************************************************************)
LEMMA LongWalksNeverEnd ==
  ASSUME IInv, message = "loop", Reached \subseteq yml.blocks
  PROVE  NeverEnds
<1>1. /\ yml \in Ymls /\ IsFiniteSet(yml.blocks) /\ BlockCount \in Nat
      /\ counter = BlockCount + 1
  BY YmlFacts DEF IInv, VerdictInv, TypeOK, LimitInv
<1>2. PICK w \in [0..counter -> Reached \cup {None}] :
        IsWalk(yml, w, counter) /\ w[counter] = nextStep
  BY DEF IInv, Walked
<1>3. \A i \in 0..BlockCount : w[i] \in Reached /\ w[i+1] = NextOf(yml, w[i])
  BY <1>1, <1>2 DEF IsWalk
<1> DEFINE f == [i \in 0..BlockCount |-> w[i]]
<1>4. f \in [0..BlockCount -> yml.blocks]
  BY <1>3
<1>5. IsFiniteSet(0..BlockCount) /\ Cardinality(0..BlockCount) = BlockCount + 1
  BY <1>1, FS_Interval
<1>6. \E x, y \in 0..BlockCount : x # y /\ f[x] = f[y]
  <2> HIDE DEF f
  <2>1. Cardinality(yml.blocks) < Cardinality(0..BlockCount)
    BY <1>1, <1>5 DEF BlockCount
  <2> QED
    BY <1>1, <1>4, <1>5, <2>1, FS_PigeonHole
<1>7. PICK i \in 0..BlockCount, j \in 0..BlockCount : i < j /\ w[i] = w[j]
  <2>1. PICK x \in 0..BlockCount, y \in 0..BlockCount : x # y /\ w[x] = w[y]
    BY <1>6
  <2>2. x < y \/ y < x
    BY <1>1, <2>1
  <2> QED
    BY <2>1, <2>2
<1> DEFINE S == {w[k] : k \in 0..j-1}
<1>8. S \in SUBSET Blocks /\ yml.start \in S
  <2>1. \A k \in 0..j-1 : w[k] \in Blocks
    BY <1>1, <1>3, <1>7 DEF Reached
  <2>2. w[0] = yml.start /\ 0 \in 0..j-1
    BY <1>1, <1>2, <1>7 DEF IsWalk
  <2> QED
    BY <2>1, <2>2
<1>9. \A k \in 0..j-1 : NextOf(yml, w[k]) \in S
  <2> SUFFICES ASSUME NEW k \in 0..j-1
               PROVE  NextOf(yml, w[k]) \in S
    OBVIOUS
  <2>1. NextOf(yml, w[k]) = w[k+1]
    BY <1>1, <1>3, <1>7
  <2>2. CASE k = j - 1
    <3>1. w[k+1] = w[i] /\ i \in 0..j-1
      BY <1>1, <1>7, <2>2
    <3> QED
      BY <2>1, <3>1
  <2>3. CASE k # j - 1
    <3>1. k + 1 \in 0..j-1
      BY <1>1, <1>7, <2>3
    <3> QED
      BY <2>1, <3>1
  <2> QED
    BY <2>2, <2>3
<1>10. Closed(S)
  BY <1>9 DEF Closed
<1>11. Reached \subseteq S
  BY <1>8, <1>10 DEF Reached
<1>12. None \notin S
  BY <1>8, NoneAssumption
<1>13. \A b \in S : NextOf(yml, b) # None
  BY <1>9, <1>12
<1> QED
  BY <1>11, <1>13 DEF NeverEnds

(***************************************************************************)
(* For any yml: a chain that never ends is not accepted, and one that ends *)
(* is reported as a loop only if a next of it points at no block.          *)
(***************************************************************************)
THEOREM LoopsAreAlwaysFound == Spec => []LoopsAreFound
<1>1. ASSUME IInv
      PROVE  LoopsAreFound
  <2>1. pc \in {"paths", "passed"} => ~NeverEnds
    BY <1>1, WalkedChainsEnd DEF IInv, VerdictInv, LimitInv
  <2>2. message = "loop" => NeverEnds \/ ~(Reached \subseteq yml.blocks)
    BY <1>1, LongWalksNeverEnd
  <2> QED
    BY <2>1, <2>2 DEF LoopsAreFound
<1> QED
  BY <1>1, ChecksInductive, PTL
=============================================================================
