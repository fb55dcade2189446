------------------------------ MODULE Tickets ------------------------------
(***************************************************************************)
(* What the sentence "increment" of the redis middleware promises of a     *)
(* key: a dispenser of numbers. Nobody draws the number of another one,    *)
(* and none is skipped unless a drawing client was cut off. The dispenser  *)
(* may be given a new roll.                                                *)
(***************************************************************************)
EXTENDS Naturals

CONSTANT Clients

VARIABLES
  next,    \* the number on the next ticket
  drawn    \* who has drawn which number from this roll

Init == next = 0 /\ drawn = {}

Draw(c) == next' = next + 1 /\ drawn' = drawn \cup {<<c, next>>}

Lose == next' = next + 1 /\ UNCHANGED drawn

NewRoll == next' = 0 /\ drawn' = {}

Next == (\E c \in Clients : Draw(c)) \/ Lose \/ NewRoll

Spec == Init /\ [][Next]_<<next, drawn>>
=============================================================================
