------------------------------ MODULE Sawroom ------------------------------
(***************************************************************************)
(* packages/sawroom/src/index.ts and lib.ts. Address and input are         *)
(* variables of the package that each onBefore hook sets before its first  *)
(* await; the operations read them again, each when its turn comes.        *)
(***************************************************************************)
EXTENDS SharedInput

SawroomAddress == {"sawroom.address"}
AddressAndInput == {"sawroom.address", "sawroom.input"}

SawroomReads == {"token", "read", "retrieve", "balance"}
SawroomWrites == {"execute", "storeOutput", "store", "save", "deposit", "withdraw", "transfer"}

ASSUME SawroomAssumption ==
  /\ \A step \in Asked("sawroom", "before") : step.op \in {"sawroom"} \cup SawroomReads
  /\ \A step \in Asked("sawroom", "success") : step.op \in SawroomWrites

\* READ brings its own endpoint. EXECUTE does not check the address: without
\* one its request goes nowhere.
SawroomNeeds ==
  [op \in SawroomReads \cup SawroomWrites |->
     CASE op = "read" -> {}
       [] op \in {"token", "retrieve", "balance", "storeOutput", "store"} -> SawroomAddress
       [] OTHER -> AddressAndInput]

\* Mutant: a contract without an address sentence keeps the address that is set.
StartsSawroom_KeepsAddress(r) ==
  /\ Doing(r, "before", "sawroom", 0)
  /\ owner' = [owner EXCEPT !["sawroom.input"] = r,
                            !["sawroom.address"] = IF Step(r).address THEN r ELSE @]
  /\ Calls(r, Tail(todo[r]), SawroomNeeds, owner')
  /\ UNCHANGED data

\* A contract without an address sentence unsets the address.
StartsSawroom(r) ==
  /\ Doing(r, "before", "sawroom", 0)
  /\ owner' = [owner EXCEPT !["sawroom.input"] = r,
                            !["sawroom.address"] = IF Step(r).address THEN r ELSE None]
  /\ Calls(r, Tail(todo[r]), SawroomNeeds, owner')
  /\ UNCHANGED data

\* TOKEN, RETRIEVE and BALANCE: one request each.
ReadsSawroom(r) ==
  /\ Calling(r, SawroomReads \ {"read"})
  /\ CallAnswered(r, SawroomNeeds)

\* READ: the batch, then the receipt of each of its transactions.
GetStateGoesOn(r) ==
  /\ Calling(r, {"read"}) /\ at[r] <= Step(r).transactions
  /\ Await(r)
  /\ UNCHANGED sharedVars

GetStateEnds(r) ==
  /\ Calling(r, {"read"}) /\ at[r] = Step(r).transactions + 1
  /\ CallAnswered(r, SawroomNeeds)

\* EXECUTE and each pair of SAVE: a contract that Sawroom runs.
ExecutesOnSawroom(r) ==
  /\ Calling(r, {"execute", "save"})
  /\ CallAnswered(r, SawroomNeeds)

\* STORE_OUTPUT and each pair of STORE: values of the result.
StoresInSawroom(r) ==
  /\ Calling(r, {"storeOutput", "store"})
  /\ CallAnswered(r, SawroomNeeds)

\* DEPOSIT, WITHDRAW and TRANSFER, with keys from the input.
MovesTokens(r) ==
  /\ Calling(r, {"deposit", "withdraw", "transfer"})
  /\ CallAnswered(r, SawroomNeeds)

SawroomNext ==
  \E r \in Requests :
    /\ Uses(r, "sawroom")
    /\ \/ StartsSawroom(r) \/ ReadsSawroom(r) \/ GetStateGoesOn(r) \/ GetStateEnds(r)
       \/ StartsCalls(r, SawroomNeeds) \/ ExecutesOnSawroom(r) \/ StoresInSawroom(r) \/ MovesTokens(r)
       \/ CallFails(r, SawroomReads \cup SawroomWrites)

-----------------------------------------------------------------------------
\* What is looked up in the input of a request is sent to the address that came
\* with this input, even when both have become another request's between the two
\* hooks, or between two pairs of a sentence.
InputGoesToItsAddress ==
  \A u \in uses :
    AddressAndInput \subseteq u.what => u.of["sawroom.input"] = u.of["sawroom.address"]
=============================================================================
