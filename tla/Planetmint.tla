----------------------------- MODULE Planetmint -----------------------------
(***************************************************************************)
(* packages/planetmint/src/index.ts. A request that arrives while there is *)
(* no IPFS node creates one. A contract call builds a transaction in       *)
(* onBefore and has it signed and broadcast in onSuccess; a transfer of an *)
(* amount adds up unspent outputs of the ledger until there are enough.    *)
(* Of the ledger the code relies on this: an output is spent once.         *)
(***************************************************************************)
EXTENDS Requests, FiniteSetsExt, Functions

CONSTANT InitialOutputs   \* the ledger: a sequence of outputs [coin, owner, amount]

\* An output is of some amount, and so is a transfer.
ASSUME PlanetmintAssumption ==
  /\ IsSequence(InitialOutputs)
  /\ \A i \in DOMAIN InitialOutputs : InitialOutputs[i].amount \in Nat
  /\ \A step \in Asked("planetmint", "before") :
       step.op = "transferAmount" => step.amount \in Nat

VARIABLES
  ipfs,        \* there is an IPFS node
  connection,  \* the requests that have a connection
  listing,     \* the unspent outputs a request has listed, as numbers of outputs
  transaction, \* the transfer in data.planetmint_transaction
  ledger,      \* all outputs
  spent        \* the numbers of the spent ones

planetmintVars == <<ipfs, connection, listing, transaction, ledger, spent>>

NoTransfer == [from |-> <<>>, used |-> {}, coin |-> None, owner |-> None,
               amount |-> 0, change |-> 0]

PlanetmintTypeOK ==
  /\ ipfs \in BOOLEAN
  /\ connection \subseteq Requests
  /\ \A r \in Requests : transaction[r].used \subseteq DOMAIN ledger
  /\ spent \subseteq DOMAIN ledger

PlanetmintInit ==
  /\ ipfs = FALSE
  /\ connection = {}
  /\ listing = [r \in Requests |-> <<>>]
  /\ transaction = [r \in Requests |-> NoTransfer]
  /\ ledger = InitialOutputs
  /\ spent = {}

\* The middleware itself is async: what it awaits before it registers its
\* hooks is outside of its try, and a failure is handled by nobody.
Arrives(r) ==
  /\ Doing(r, "before", "arrive", 0)
  /\ IF ipfs THEN Continue(r) ELSE Await(r)
  /\ UNCHANGED planetmintVars

CreatesNode(r) ==
  /\ Doing(r, "before", "arrive", 1)
  /\ \/ ipfs' = TRUE /\ Continue(r)
     \/ Crash /\ UNCHANGED ipfs
  /\ UNCHANGED <<connection, listing, transaction, ledger, spent>>

\* CONNECT: new Connection performs no request.
ConnectsToNode(r) ==
  /\ Doing(r, "before", "connect", 0)
  /\ connection' = connection \cup {r}
  /\ Continue(r)
  /\ UNCHANGED <<ipfs, listing, transaction, ledger, spent>>

\* Without a connection, or when the node or IPFS does not answer, a step that
\* waits for them rejects.
NodeFails(r) ==
  /\ \/ \E i \in 0..2 : Doing(r, "before", "retrieve", i) \/ Doing(r, "before", "transferAmount", i)
     \/ Doing(r, "before", "transfer", 0)
     \/ at[r] > 0 /\ Doing(r, "before", "asset", at[r])
     \/ Doing(r, "success", "broadcast", 0)
  /\ Reject(r, "node")
  /\ UNCHANGED planetmintVars

\* RETRIEVE: the asset of a CREATE transaction is read from IPFS.
RetrievesTransaction(r) ==
  /\ r \in connection
  /\ \/ Doing(r, "before", "retrieve", 0) /\ Await(r)
     \/ /\ Doing(r, "before", "retrieve", 0) \/ Doing(r, "before", "retrieve", 1)
        /\ Receive(r, Step(r).name, <<"asset">>)
  /\ UNCHANGED planetmintVars

\* storeAsset has no await in it, but its promise is not awaited either: when
\* the public key is missing the rejection is handled by nobody.
StoreAsset(r) ==
  \/ Step(r).signer /\ Receive(r, Step(r).name, <<"create">>)
  \/ ~Step(r).signer /\ Crash

\* ASSET, ASSET_METADATA, ASSET_AMOUNT: the asset and its metadata go to IPFS
\* first. ASSET_AMOUNT_METADATA takes them as they are (no parts).
ChecksAsset(r) ==
  /\ Doing(r, "before", "asset", 0)
  /\ \/ ~Step(r).present /\ Reject(r, "input missing")
     \/ Step(r).present /\ Step(r).parts > 0 /\ Await(r)
     \/ Step(r).present /\ Step(r).parts = 0 /\ StoreAsset(r)
  /\ UNCHANGED planetmintVars

FileIsStored(r) ==
  /\ at[r] > 0 /\ Doing(r, "before", "asset", at[r])
  /\ IF at[r] < Step(r).parts THEN Await(r) ELSE StoreAsset(r)
  /\ UNCHANGED planetmintVars

\* TRANSFER: output 0 of a transaction.
TransfersAsset(r) ==
  /\ Doing(r, "before", "transfer", 0)
  /\ \/ ~Step(r).present /\ Reject(r, "input missing")
     \/ Step(r).present /\ r \in connection /\ Receive(r, Step(r).name, <<"transfer">>)
  /\ UNCHANGED planetmintVars

ChecksTransfer(r) ==
  /\ Doing(r, "before", "transferAmount", 0)
  /\ IF Step(r).present /\ r \in connection THEN Await(r) ELSE Reject(r, "input missing")
  /\ UNCHANGED planetmintVars

Unspent(owner) == {i \in DOMAIN ledger : i \notin spent /\ ledger[i].owner = owner}

\* listOutputs(senderPublicKey, false), in whatever order the node has them,
\* then getTransaction for each of them.
ListsOutputs(r) ==
  /\ Doing(r, "before", "transferAmount", 1)
  /\ LET outputs == Unspent(Step(r).sender)
     IN \E order \in Bijection(1..Cardinality(outputs), outputs) :
          listing' = [listing EXCEPT ![r] = order]
  /\ Await(r)
  /\ UNCHANGED <<ipfs, connection, transaction, ledger, spent>>

\* Mutant: an amount that is just reached is taken for enough.
Selection_Reached(outputs, coin, amount) ==
  LET after[i \in 0..Len(outputs)] ==
        IF i = 0 THEN [used |-> {}, sum |-> 0]
        ELSE IF after[i - 1].sum >= amount \/ ledger[outputs[i]].coin # coin THEN after[i - 1]
        ELSE [used |-> after[i - 1].used \cup {outputs[i]},
              sum  |-> after[i - 1].sum + ledger[outputs[i]].amount]
  IN after[Len(outputs)]

\* The loop over the outputs: those of the coin are added up until the sum
\* is more than the amount.
Selection(outputs, coin, amount) ==
  LET after[i \in 0..Len(outputs)] ==
        IF i = 0 THEN [used |-> {}, sum |-> 0]
        ELSE IF after[i - 1].sum > amount \/ ledger[outputs[i]].coin # coin THEN after[i - 1]
        ELSE [used |-> after[i - 1].used \cup {outputs[i]},
              sum  |-> after[i - 1].sum + ledger[outputs[i]].amount]
  IN after[Len(outputs)]

\* The rest goes back to the sender. A sum that is too small is not noticed.
SelectsOutputs(r) ==
  /\ Doing(r, "before", "transferAmount", 2)
  /\ LET s == Selection(listing[r], Step(r).coin, Step(r).amount)
     IN transaction' = [transaction EXCEPT ![r] =
          [from |-> listing[r], used |-> s.used, coin |-> Step(r).coin, owner |-> Step(r).sender,
           amount |-> Step(r).amount, change |-> s.sum - Step(r).amount]]
  /\ Receive(r, Step(r).name, <<"transfer">>)
  /\ UNCHANGED <<ipfs, connection, listing, ledger, spent>>

\* SIGNATURE runs without an await.
Signs(r) ==
  /\ Doing(r, "success", "sign", 0)
  /\ IF Step(r).present THEN Continue(r) ELSE Reject(r, "input missing")
  /\ UNCHANGED planetmintVars

\* BROADCAST: the node takes a transaction that spends unspent outputs and
\* leaves nothing negative. Its answer may be lost.
Broadcasts(r) ==
  /\ Doing(r, "success", "broadcast", 0)
  /\ Step(r).present /\ r \in connection
  /\ transaction[r].used \cap spent = {} /\ transaction[r].change >= 0
  /\ LET t == transaction[r] IN
       /\ spent' = spent \cup t.used
       /\ ledger' = ledger \o
            (IF t = NoTransfer THEN <<>>
             ELSE <<[coin |-> t.coin, owner |-> t.owner, amount |-> t.change],
                    [coin |-> t.coin, owner |-> "recipient", amount |-> t.amount]>>)
  /\ Continue(r) \/ Reject(r, "node")
  /\ UNCHANGED <<ipfs, connection, listing, transaction>>

PlanetmintNext ==
  \E r \in Requests :
    /\ Uses(r, "planetmint")
    /\ \/ Arrives(r) \/ CreatesNode(r) \/ ConnectsToNode(r) \/ NodeFails(r)
       \/ RetrievesTransaction(r) \/ ChecksAsset(r) \/ FileIsStored(r) \/ TransfersAsset(r)
       \/ ChecksTransfer(r) \/ ListsOutputs(r) \/ SelectsOutputs(r) \/ Signs(r) \/ Broadcasts(r)

-----------------------------------------------------------------------------
Amount(outputs) == MapThenSumSet(LAMBDA i : ledger[i].amount, outputs)

\* A transfer of an amount spends outputs of that coin of the sender only,
\* gives back what it takes too much, and, if the sender has more than the
\* amount, takes enough and nothing after that; if not, it takes all there is.
SelectionIsRight ==
  \A r \in Requests :
    LET t   == transaction[r]
        own == {t.from[i] : i \in {j \in DOMAIN t.from : ledger[t.from[j]].coin = t.coin}}
    IN t # NoTransfer =>
         /\ t.used \subseteq own
         /\ t.change = Amount(t.used) - t.amount
         /\ IF Amount(own) > t.amount
            THEN /\ t.change > 0
                 /\ \E last \in DOMAIN t.from :
                      /\ t.from[last] \in t.used
                      /\ \A i \in DOMAIN t.from : t.from[i] \in t.used => i <= last
                      /\ Amount(t.used \ {t.from[last]}) <= t.amount
            ELSE t.used = own
=============================================================================
