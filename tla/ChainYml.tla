------------------------------ MODULE ChainYml ------------------------------
(***************************************************************************)
(* The yml of a contract chain, as packages/core/src reads it: a start     *)
(* block and, for each block, the next one, where its Zencode comes from   *)
(* and whether it runs once for each element of a list.  The operators are *)
(* the checks of validations.ts that executeChain makes before it runs     *)
(* anything.                                                               *)
(***************************************************************************)
EXTENDS Naturals, FiniteSets

CONSTANTS
  Blocks,   \* block names
  None      \* an absent (falsy) property of the yml

ASSUME NoneAssumption == None \notin Blocks

ZenKinds == {"zenFile", "zenContent", "both", "neither"}

\* parses: yaml.load succeeds.  A yml without a "blocks" map has no block.
\* samePaths: the verdict of validatePathsInYml (module ChainValidation).
Yml == [parses    : BOOLEAN,
        debug     : BOOLEAN,
        start     : Blocks \cup {None},
        blocks    : SUBSET Blocks,
        next      : [Blocks -> Blocks \cup {None}],
        zen       : [Blocks -> ZenKinds],
        forEach   : [Blocks -> BOOLEAN],
        samePaths : BOOLEAN]

\* ymlContent?.blocks[b]?.next
NextOf(y, b) == IF b \in y.blocks THEN y.next[b] ELSE None

StartOk(y) == y.start \in y.blocks

(***************************************************************************)
(* validateNoLoopInChain follows next from the start block, counting its   *)
(* turns; it throws when the count exceeds the number of blocks.  So it    *)
(* passes exactly when the values nextStep takes are a walk that comes to  *)
(* a falsy one within that many turns.                                     *)
(***************************************************************************)
IsWalk(y, w, n) == /\ w \in [0..n -> Blocks \cup {None}]
                   /\ w[0] = y.start
                   /\ \A i \in 0..n-1 : w[i] # None /\ w[i+1] = NextOf(y, w[i])

EndsAfter(y, n) == \E w \in [0..n -> Blocks \cup {None}] : IsWalk(y, w, n) /\ w[n] = None

NoLoopInChain(y) == \E n \in 0..Cardinality(y.blocks) : EndsAfter(y, n)

Valid(y) == y.parses /\ StartOk(y) /\ NoLoopInChain(y) /\ y.samePaths

\* validateZen: exactly one of zenFile and zenContent.
ZenOk(y, b) == y.zen[b] \in {"zenFile", "zenContent"}
=============================================================================
