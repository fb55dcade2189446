------------------------------ MODULE Ethereum ------------------------------
(***************************************************************************)
(* packages/ethereum/src/index.ts. web3 is a variable of the package that  *)
(* CONNECT sets and nothing unsets: a contract without CONNECT goes on     *)
(* with the client of an earlier one, and each operation uses the client   *)
(* there is when its turn comes.                                           *)
(***************************************************************************)
EXTENDS SharedInput

EthereumOps == {"nonce", "gasPrice", "retrieve", "erc20", "block", "balance", "balances",
                "tokenId", "owner", "asset", "broadcast"}

ASSUME EthereumAssumption ==
  /\ \A step \in Asked("ethereum", "before") : step.op \in {"ethereum"} \cup EthereumOps
  /\ \A step \in Asked("ethereum", "success") : step.op = "broadcast"

\* Without a client an operation fails, by validateWeb3 or when it uses it.
EthereumNeeds == [op \in EthereumOps |-> {"ethereum.web3"}]

\* Mutant: only the first CONNECT makes a client.
StartsEthereum_Once(r) ==
  /\ Doing(r, "before", "ethereum", 0)
  /\ IF Step(r).connect /\ owner["ethereum.web3"] = None THEN Set(r, {"ethereum.web3"})
     ELSE UNCHANGED owner
  /\ Calls(r, Tail(todo[r]), EthereumNeeds, owner')
  /\ UNCHANGED data

\* CONNECT makes no request.
StartsEthereum(r) ==
  /\ Doing(r, "before", "ethereum", 0)
  /\ IF Step(r).connect THEN Set(r, {"ethereum.web3"}) ELSE UNCHANGED owner
  /\ Calls(r, Tail(todo[r]), EthereumNeeds, owner')
  /\ UNCHANGED data

\* NONCE and GAS_PRICE.
ReadsAccount(r) ==
  /\ Calling(r, {"nonce", "gasPrice"})
  /\ CallAnswered(r, EthereumNeeds)

\* RETRIEVE: no receipt, a failed or an empty transaction.
ReadsTransaction(r) ==
  /\ Calling(r, {"retrieve"})
  /\ CallAnswered(r, EthereumNeeds) \/ AnswerRefused(r)

\* The ERC20 sentences. callErc20 checks the address and the function first.
ReadsErc20(r) ==
  /\ Calling(r, {"erc20"})
  /\ CallAnswered(r, EthereumNeeds)

\* READ_HEAD and READ_PREVIOUS. A pair for another storage is no step.
ReadsBlock(r) ==
  /\ Calling(r, {"block"})
  /\ CallAnswered(r, EthereumNeeds)

\* READ_BALANCE, and READ_BALANCE_ARRAY: one request for each address of an
\* array, all sent at once.
ReadsBalance(r) ==
  /\ Calling(r, {"balance", "balances"})
  /\ CallAnswered(r, EthereumNeeds)

\* READ_TOKEN_ID: the receipt may have no transfer in it.
ReadsTokenId(r) ==
  /\ Calling(r, {"tokenId"})
  /\ CallAnswered(r, EthereumNeeds) \/ AnswerRefused(r)

\* READ_OWNER and READ_ASSET.
ReadsToken(r) ==
  /\ Calling(r, {"owner", "asset"})
  /\ CallAnswered(r, EthereumNeeds)

\* BROADCAST, one transaction after the other; the ones before a transaction
\* that fails have been sent. A pair that is not in the result is no step (there
\* must be a client all the same: plans leave such pairs to contracts that connect).
BroadcastsTransaction(r) ==
  /\ Calling(r, {"broadcast"})
  /\ CallAnswered(r, EthereumNeeds) \/ AnswerRefused(r)

EthereumNext ==
  \E r \in Requests :
    /\ Uses(r, "ethereum")
    /\ \/ StartsEthereum(r) \/ ReadsAccount(r) \/ ReadsTransaction(r) \/ ReadsErc20(r)
       \/ ReadsBlock(r) \/ ReadsBalance(r) \/ ReadsTokenId(r) \/ ReadsToken(r)
       \/ StartsCalls(r, EthereumNeeds) \/ BroadcastsTransaction(r)
       \/ CallFails(r, EthereumOps)
=============================================================================
