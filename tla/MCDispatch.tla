----------------------------- MODULE MCDispatch -----------------------------
\* One request for a contract or one of five chains of two blocks: a plain
\* one, one whose first and one whose last block is a forEach, one whose next
\* points nowhere and one that is a loop.
EXTENDS Dispatch

CONSTANTS b1, b2, b3

MCBlocks == {b1, b2, b3}

MCYml(next1, forEach) ==
  [parses |-> TRUE, samePaths |-> TRUE, debug |-> FALSE,
   start |-> b1, blocks |-> {b1, b2},
   next |-> [b \in MCBlocks |-> IF b = b1 THEN next1 ELSE None],
   zen  |-> [b \in MCBlocks |-> "zenFile"],
   forEach |-> [b \in MCBlocks |-> b \in forEach]]

MCYmls == {MCYml(b2, {}), MCYml(b2, {b1}), MCYml(b2, {b2}), MCYml(b3, {}), MCYml(b1, {})}
=============================================================================
