------------------------------ MODULE MCChain ------------------------------
\* Chains of up to three blocks: every start and every next (loops, dangling
\* and missing ones among them), one block possibly a forEach or with a wrong
\* or inline Zencode.
EXTENDS Chain

CONSTANTS b1, b2, b3

MCBlocks == {b1, b2, b3}

Variant == [zen : ZenKinds, forEach : BOOLEAN]

MCYml(blocks, start, next, v, x, debug) ==
  [parses |-> TRUE, samePaths |-> TRUE, debug |-> debug,
   start |-> start, blocks |-> blocks, next |-> next,
   zen     |-> [b \in MCBlocks |-> IF b = x THEN v.zen ELSE "zenFile"],
   forEach |-> [b \in MCBlocks |-> IF b = x THEN v.forEach ELSE FALSE]]

AnyNext == [MCBlocks -> MCBlocks \cup {None}]
Straight == [b \in MCBlocks |-> IF b = b1 THEN b2 ELSE IF b = b2 THEN b3 ELSE None]

\* All shapes of a chain, its second block a forEach.
Shapes == {MCYml(bs, b1, n, [zen |-> "zenFile", forEach |-> TRUE], b2, TRUE) :
             bs \in {{b1, b2}, {b1, b2, b3}}, n \in AnyNext}

\* All variants of a block, in a straight chain of three.
Kinds == {MCYml(MCBlocks, b1, Straight, v, x, d) :
            v \in Variant, x \in MCBlocks, d \in BOOLEAN}

\* Yml files that are rejected before anything runs.
Malformed == {MCYml({b2, b3}, s, Straight, [zen |-> "zenFile", forEach |-> FALSE], b2, TRUE) :
                s \in {b1, None}}
             \cup {[y EXCEPT !.parses = FALSE] : y \in Kinds}
             \cup {[y EXCEPT !.samePaths = FALSE] : y \in Kinds}

MCYmls == Shapes \cup Kinds \cup Malformed
=============================================================================
