-------------------------- MODULE MCChainValidation --------------------------
\* Every start and every next over three block names, of which two or three
\* are blocks of the yml: loops of every length, chains that end and chains
\* that point nowhere, with up to three paths.
EXTENDS ChainValidation

CONSTANTS b1, b2, b3, f1, f2

MCBlocks == {b1, b2, b3}
MCFolders == {f1, f2}

MCYmls == {[parses |-> TRUE, debug |-> FALSE, samePaths |-> TRUE,
            start |-> s, blocks |-> bs, next |-> n,
            zen |-> [b \in MCBlocks |-> "zenFile"],
            forEach |-> [b \in MCBlocks |-> FALSE]] :
             s  \in {b1, b3, None},
             bs \in {{b1, b2}, MCBlocks},
             n  \in [MCBlocks -> MCBlocks \cup {None}]}
=============================================================================
