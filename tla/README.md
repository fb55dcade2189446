# restroom-mw in TLA+

RESTroom exposes Zencode contracts as HTTP endpoints. A request passes the
middlewares, which register hooks, and reaches `dispatch` of
`packages/core`, which runs one contract or a chain of contracts in Zenroom,
calls the hooks around each contract and answers. This directory holds a TLA+
model of that, its TLC runs and its TLAPS proofs.

Everything runs on one JavaScript thread. What makes it hard is what lies
between two awaits: hooks of one phase run concurrently, some are left running
when another one fails, errors travel through `.then`, `.catch`, `.finally` and
an outer `try`, two parties may answer the same request, and several
middlewares keep state longer than one contract call, or longer than one request.

## Inventory

| part | state | operations | interacts with |
|---|---|---|---|
| contract call (`core/src/index.ts` `callRestroom`, `hooks.ts`, `restroom.ts`) | hooks in `res.locals`, the outcome, `zenroom_result` and `zenroom_errors` of the request | register, start a phase, wait for it, run Zenroom, catch, finish | calls the hooks of the middlewares and Zenroom |
| chain (`executeChain` to `evaluateSingleInstance`, `context.ts`) | the yml, the current block, the single context of the block, the global context | check the yml, enter a block, iterate a forEach, call a contract, go on or answer | awaits contract calls |
| chain validation (`validations.ts`) | the block reached and a counter | check start, next, loops, paths | called by the chain |
| dispatch (`dispatch`, `restroomDispatch`, `sendError`, `buildEndpointResponse`, `utils.ts`) | the result, the response | read the contract, run it, answer, look up contracts for the 404 page | runs contracts and chains, shares the response with Express |
| loading (`addMiddlewares`) | none | mount the middlewares | start-up only |
| zencode, utils | none | match sentences, take and chunk parameters, combine data and keys | used by all middlewares |
| redis, db, fabric, planetmint, ethereum, sawroom | stores outside; clients, models and connections, of a request or of the module | read before the contract, write after it | hooks onBefore and onSuccess |
| http, identity | lists of promises that live as long as the web request | requests before the contract, posts after it | hooks; http calls `next(e)` |
| files, logger, git | file system; `input` in a module variable (files, logger) | read, list, download, store, append, commit | hooks; files calls `next(e)` |
| influxdb, timestamp | none beyond the request | read | hook onBefore |
| ui, create-restroom, types | none | documentation, generator, declarations | not part of running a contract |

What makes each part correct:

- *contract call*: an error is reported exactly if there was one, an answer
  without error means that all hooks have done their work, phases follow each
  other, cleanup hooks run, the call settles.
- *chain*: 200 only at the end of the whole path, no block twice, each contract
  gets the data of its own block, a failure stops the chain, the debug context
  tells what happened, there is always an answer.
- *validation*: no loop is accepted and no good chain rejected.
- *dispatch*: every request is answered once, with what the run has come to, and
  a failure never ends the process.
- *middlewares*: a request sees its own data only, what is read, changed and
  written again is not torn apart by another request, a retry does nothing twice
  and reports what happened.

The hazards, each at its line and with the properties that cover it, are in
`PROJECT.json`. A few without a property are not listed there, because the code
promises nothing about them: `zenroom_errors` of an earlier block on an error
page (`core/src/index.ts:457`), a DEL that stops in the middle
(`redis/src/index.ts:109`), a retry of fabric with the input of another request
(`fabric/src/index.ts:161`), a temporary directory that stays
(`files/src/index.ts:135`), a BROADCAST that stops in the middle
(`ethereum/src/index.ts:268`). The models of redis, fabric and ethereum have
this behaviour, and their properties hold in spite of it. Others are listed with
a note and no property, as the models have them and no property forbids them: a
second connection to redis in a chain is ignored; a redis connection that breaks, a
`close` of db that fails, a rejected `storeAsset` or a failed creation of the IPFS
node of planetmint, and a request of http that fails after a later sentence has
thrown end the process; planetmint selects one output too many for an exact sum and
too few for a sum that is not there.

## Modules

| module | models | state and actions |
|---|---|---|
| `ContractCall` | what one contract call promises to its caller | `answer`, `failed`; `Fail`, `ReturnResult`, `ReturnError` |
| `Lifecycle` | `callRestroom`, `getHooks`, registration | `pc` is the phase whose `Promise.all` is awaited, `status` what each hook does, `rejection` what the `Promise.all` of the phase has seen, `caught` the error in the promise chain, `outcome` the `restroomResult`. One action per continuation: `InitDone` is the code after `await runHook(hook.INIT)`, `LateFailure` the entry of `.catch`, `ErrorHookFailed` a rejection on its way through `.finally`, and so on. `ArgumentsFail` is a throw while the arguments of `zencode_exec` are built, before there is a promise: it goes to the outer `catch`. The constants `Zenroom` and `Arguments` are the two sources of an error that are no hook |
| `Lifecycle_proofs` | theorems about `Lifecycle` | |
| `ChainYml` | the yml and the checks of `validations.ts` by their meaning | operators only |
| `Chain` | `executeChain`, `handleBlockResult`, `evaluate*`, `context.ts` | `pc` is where `handleBlockResult` is; `context` is the data of the single context; `path` and `calls` are histories. The contract call is an instance of `ContractCall` |
| `Chain_proofs` | theorems about `Chain` | |
| `ChainValidation` | the checks of `validations.ts` turn by turn | `nextStep` and `counter` are the variables of the loop |
| `ChainValidation_proofs` | theorems about `ChainValidation` | |
| `Dispatch` | `dispatch` and its answer; composes `Chain` and `ContractCall` | `stage` is where `dispatch` is, `response` what was sent, `errors` the `next(e)` that the default error handler of Express has still to see; `failures` is the history of the blocks and elements whose contract failed |
| `Dispatch_proofs` | theorems about `Dispatch` | |
| `Requests` | what all middlewares build on: requests that go from contract call to contract call, with one onBefore and one onSuccess hook each | `stage` is where the request is, `todo` the steps of its current hook, `at` the awaits of the first of them that are over, `up` the process, `reason` why it failed (one of `Reasons`). `EnterBefore` to `SuccessEnds` are `callRestroom` as one middleware sees it |
| `Redis` | redis | `store` is the servers, `client` the client of the web request. One action per command: `SetsEmpty` (SETNX) and `Gets`, `Increments`, `SetsObjects`, `Deletes`. A command may be refused (`CommandFails`) or executed with its answer lost (`Lost`), both a rejection of the hook; `ConnectionBreaks` is the `error` event of the client, which has no listener and ends the process, during the request or after it. `deleters` is the history of who has deleted a key that a request is getting |
| `Tickets` | what INCREMENT promises of a key | `Draw`, `Lose`, `NewRoll` |
| `Db` | db | `binding` is what the shared model `Result` points at, `open` the connections, `sql` the transactions. `NextQuery` is one turn of the loop up to `Result.sync`, `Accesses` the rest of it; `CloseFails` is the rejection of a `db.close` that is not awaited |
| `Fabric` | fabric | `conn` is the connection all requests share with the step it is at, `count` the attempts of `submitAndRetry`, `committed` what the ledger has, each submission named by its request, call, number of steps its hook has left, and attempt. `AttemptSucceeds`, `AttemptFails`, `Wakes` (after the sleep) |
| `Planetmint` | planetmint | `ipfs` is the node of the process, `ledger` and `spent` the outputs. `Selection` is the loop that adds up unspent outputs, which the node lists in any order (`Unspent`) |
| `Http` | http | `promises` is `parallel_promises` with `parallel_params`, `handled` how many have a catch, `cells` who wrote which place of the data; `Collected` is what the loop over the answers comes to: the last promise for a place wins. A place is `<<object, name, position>>`, without a position for a single GET or POST, which always has an object. A list of answers with the name of an object of another sentence is excluded (`HttpPlacesAssumption`) |
| `Identity` | identity | `lookups` is `promises` with `outputs` |
| `SharedInput` | variables of a package (files, logger, sawroom, ethereum) | `owner` is the request that has set a variable last, `uses` the history of what a step has used. `Calling` and what follows is a hook that calls a service again and again |
| `Files`, `Logger`, `Sawroom`, `Ethereum` | these middlewares, on `SharedInput` | one action per stretch of a hook between two awaits. In `Files` a sentence names which of its two values (`Values`) the result lacks; these are looked up in `input`, each on its own (`LooksUp`) |
| `Git` | git | `index`, `head`, and `adding`, the `git.add` under way |
| `Influxdb` | influxdb, timestamp | `fluxClient` |
| `Middlewares` | all of these in one process | `Next` is a disjunct for each |
| `Middlewares_proofs` | lemmas about the steps of all middlewares | |
| `Stores_proofs` | theorems about git, redis and db in the composed process | |
| `Ledgers_proofs` | theorems about fabric and planetmint | |
| `Inputs_proofs` | theorems about http, identity, the variables of packages, and types | |
| `MC*` | instances for TLC | |

`Dispatch` contains `Chain` (all its variables, through INSTANCE) and
`ContractCall` for single contracts; `Chain` contains `ContractCall`;
`Lifecycle` implements `ContractCall` (property `ImplementsContractCall`, proved
as well), so what is shown of the callers holds for the real life cycle. In the
same way `ChainValidation` justifies that `Chain` takes the checks of a yml as
one step (`ChecksMeanValid`). `Middlewares` composes the middleware modules over
the frame of `Requests`: each changes the frame through its requests and its own
variables, and what one of them does to the process (`up`) is done to all. Each
key of each redis server implements `Tickets` (`CountersAreTickets`).

How a middleware is modelled. The hook of a middleware looks for its sentences
in a fixed order and carries out those it finds. A *plan* is what it finds: for
each contract call the steps of onBefore and of onSuccess, in the order of the
code, with what the sentences name. An action is what runs from one await to the
next, the answer to the first included, so that everything that can happen
between two requests happens between two actions and nothing else does. A lookup that
finds nothing, a path that is refused, an address that is invalid are in the
plan (`defined`, `valid`, `"wrong"`); whether a service answers, fails, or does
the work and loses the answer, is a free choice. A request has one middleware,
as what two middlewares do to each other in a contract call is in `Lifecycle`
and `Dispatch`. A variable of the function Express calls is a function of the
request, a variable of the package is not. Variables marked *history* are read
by properties only.

Abstractions. Data is the set of its origins (`Request`, `OutputOf(b)`,
`ElementOf(b)`, `HookOf(b)`), as the properties ask where data comes from and
not what it is. An error is its source in `Lifecycle` and a kind in `Chain` and
`Dispatch`; whether it has the code ENOENT is a free choice, since hooks and the
file system make it. The result of a hook and of Zenroom is a free choice. File
contents, wording of messages and conversion of data are left out. The order in
which the properties of a yml are read is the list `allFolders`.

Operators named `X_Something` and marked *Mutant* are wrong versions of `X`:
with `X` replaced by one of them TLC finds the property violated that
`PROJECT.json` names, so that each property is known to say something about the
code.

## Runs

| run | what it shows | bounds |
|---|---|---|
| `lifecycle` | the properties of `Lifecycle`, `CallSettles` and the refinement | ten hooks, any of them registered: two for onBefore, onSuccess and onFinish, so that one can be left behind before, after and at the end of the Zenroom run, one for each other phase |
| `lifecycle_finish` (violated) | the documentation's claim that all hooks run, through onFinish, fails when an onInit or onBefore hook rejects | the same |
| `chain` | the properties of `Chain` | three block names, two or three of them in the yml, every `next` among them (loops, pointing nowhere), the second block a forEach; and a straight chain of three with every variant of each block; at most two elements (`MaxElements`), enough for one instance that is not the last |
| `validation` | the properties of `ChainValidation` | every start and next over three names; up to three paths (`MaxPaths`) in two folders, so that the third may be the one that differs |
| `validation_loop` (violated) | a chain through all blocks that then points nowhere is reported as a loop | the same |
| `dispatch` | the properties of `Dispatch` | a contract and five chains of two blocks: with every `next`, a forEach first, and a forEach last, of two elements each; two hooks that call `next(e)` (`MaxHandOvers`): one during the run and one left behind |
| `dispatch_not_found` (violated) | "404: This contract does not exists" is sent after contracts have run | the same |
| `middlewares` | the properties of the middlewares, `HooksEnd` and the refinement of `Tickets` | two requests that follow any two plans of one scenario; a scenario is made for a hazard (see *The bounds of `middlewares`*) |
| `fabric_retries` (violated) | a call whose third attempt succeeds is reported as failed | the same |
| `db_records` (violated) | a record is read from the table of another request | the same |
| `http_answers` (violated) | answers of an earlier contract are in the data of a later one | the same |
| `hook_failures` (violated) | an error of the log stream ends the process and reaches no onException hook | one scenario with logger and git |

The bounds of `middlewares`. Two requests are enough for each hazard between
requests, as it takes one that leaves something behind or changes it and one that
finds it; both may follow the same plan. Two contract calls in a chain are
enough for what outlives a contract. The plans have two of what a loop goes
through (queries, pairs, statements, promises, files), so that one can fail after
another has succeeded; two redis servers and two keys; three attempts
(`NUM_RETRY`, the value in the code); for planetmint four outputs in two coins of two
owners, listed in every order, and amounts below the smallest output, above the
sum of all, and equal to a partial sum. Most of the 400,000 states of this run,
which takes one to two minutes, are of planetmint, because of the orders.
`MCMiddlewares.tla` has the plans, by middleware.

Deadlock is not checked: every one of these systems stops when its call, chain
or request is over.

What the runs say, in short. Inside a contract call no failure is lost and no
phase is entered early. A chain runs each block at most once, with its own data
only, and stops at a failure; the one exception is a forEach, which forgets the
failure for an element when the contract succeeds for a later one, so that a
chain can answer 200 although a contract has failed. `OkHidesNoFailure` relates
each failure on the way to a 200 (`failures`) to such a later success in the same
block: a failure of an ordinary block, or of the last element, in a chain with a
forEach is no exception. At the
level of a request, a rejecting onException hook of a single contract, a failing
lookup for the 404 page, and an answer after a hook's `next(e)` reject a promise
that nobody handles (`OnlyKnownCrashes` states that there is no other case).

Of the middlewares: a key that is counted with in redis gives each number out
once, whatever other requests do to it, and `GET` after `SETNX` finds nothing
only if a `DEL` of another request for this key on this server was executed in
between. A record of db is read from, or
saved to, another table than the one named only if another request has pointed
the shared model there at that moment; no contract runs on data of a transaction
that is not committed. In fabric the step the connection is at is always true of
the shared objects, whichever requests have set them in whichever order, and
nothing is submitted twice unless an answer was an error. The outputs that
planetmint selects are enough, and no more than one too many. In http and
identity every answer reaches the name it was asked for, with the leftovers of
earlier contracts around. What sawroom takes from its input goes to the address
that came with it. Apart from the connection of fabric and of ethereum,
which are kept on purpose, a request uses what another has left in a package
only if both were at work at the same time. If they were, files can write what comes
from the result of one request to a path from the input of the other, as it looks
up the two values one by one: the model has that, and no property forbids it. A request that ends well has written
what it was asked to write, and each comes to an end.

The seven violated runs are described under "findings" in `PROJECT.json`.

### Fairness

`Lifecycle` has weak fairness of each hook and of the call: a hook settles (its
I/O answers or times out) and the event loop runs continuations that are ready.
The other specifications have weak fairness of their next-state relation: they
have one thread of control, awaiting things of which the models below them say
that they settle. `Middlewares` has the same: weak fairness of `Next` says that
services answer or fail (all clients have timeouts or report a broken connection)
and that the event loop runs what is ready. It is not assumed which request gets
its turn; that `HooksEnd` holds all the same is because every request takes
finitely many steps (the attempts of fabric are counted, loops go through lists).
No strong fairness is assumed, and no safety property or
refinement depends on fairness.

## Proofs

`Lifecycle_proofs` is about any set of hooks, any assignment of phases and any
registration, from `RegistrationAssumption` alone (the phases exist, and the
values for Zenroom, its arguments and "no error" are not hooks).

`TypeOK` is inductive. The other properties are not, so they are proved from
`IInv`, whose parts say for each value of `pc` what has happened before:

- `RejectionInv`: what `rejection` names is a hook of the current phase that
  rejected, and no hook of the phase has rejected as long as it is `None`;
- `AheadInv`: hooks of phases that cannot have been entered are idle;
- `BehindInv`: getting past a normal phase means that all of its hooks have
  resolved, and getting past Zenroom that `zenroom_result` is set;
- `UncaughtInv`: until something is caught there is no error anywhere;
- `ErrorInv`: every error in `caught`, `zenroom_errors` or `outcome` is one that
  happened, and the right one for the point the call is at;
- `CleanInv`: a call on its way out without an error has done all of its work;
- `FinishInv`: after Zenroom has run, onFinish hooks are not idle once their
  phase has passed.

Each part is shown to be preserved in a lemma of its own, by cases of the
actions, and `PhaseOrder` and `PhaseBarrier` are carried along. From `IInv`
follow `ErrorsAreReported`, `CleanReturns`, `PhasesAreOrdered`,
`PhasesDoNotOverlap`, `FinishRunsAfterZenroom` and `ErrorsAreAccurate`. For
`LifecycleImplementsContractCall` each action is mapped: a rejecting hook and a
failing Zenroom to `Fail`, the returning actions to `ReturnResult` or
`ReturnError`, all others to stuttering; that a failure is never undone
(`FailedGrows`) and that the outcome is settled when the call is make the
mapping work.

`Chain_proofs` is about any set of ymls over any blocks, and any number of
elements; nothing is assumed but that `None` is no block and that a forEach may
go on for at least one element. It proves type
correctness and the five safety properties of the run `chain` from an `IInv`:

- `PathInv`: the path is a walk along `next`, of a yml that has passed the
  checks, and ends in the current block;
- `DataInv`: what the data and the single context of the block hold at each
  point, between the input of the block and the elements and outputs added to it;
- `CallInv`: what the last contract called tells of the current block. After a
  failure the chain is between two elements of the same forEach, or at the end
  of the block with an answer that is an error. `StopsAtFailure`, itself a part
  of `IInv`, needs it;
- `DoneInv`: the blocks left behind ended with a contract that succeeded, and so
  did the last one if the answer is 200;
- `DebugInv`: what the debug context has of the blocks entered.

That no block is entered twice is not a matter of what a step does. The
checks say that the walk from the start comes to an end (`NoLoopInChain`). The
path is the beginning of that walk (`PathFollowsWalk`), and a walk that ends has
no block at two places (`WalksDoNotRepeat`): from such places on it would
go the same way, and there would be a least number of steps after which it does
not.

`ChainValidation_proofs` assumes finitely many blocks in a yml (a yml is a file;
the limit the code counts up to is their number) and proves that the loop is
exact. `Walked` and `OnlyWalk` say that the blocks reached are the one walk
there is from the start, `LimitInv` how far the counter is. A counter that has
passed the number of blocks then has a walk with more places than blocks,
which repeats one (the pigeonhole theorem of the library), and a walk that
repeats does not end; a walk that ends has been followed to its end. So
`ChecksMeanValid` and `LoopsAreFound` hold for any yml, and `Chain` may
take the checks as one step.

`Dispatch_proofs` is about any chains, endpoints and number of hooks that call
`next(e)`. `BlockInv`, `FailureInv` and `ResultInv` connect the run with what
`dispatch` goes by: a failure is that of the current call, or has become the
answer, or is that of an element after which a later one has succeeded.
`ResponseInv` and `ErrorsInv` connect that with what has been sent, by
`dispatch` or by the default error handler. `OnlyKnownCrashes` is a part of the
invariant, as the crash of a request and its answer are decided together.

### The middlewares

The other four modules are about `Middlewares`: any number of requests, each
with any middleware and any plan. Their theorems concern one middleware while
all others take their steps too, so `Middlewares_proofs` first shows, middleware
by middleware, that a step of request `q` leaves the hooks and the data of all
other requests alone, and either stays, goes on to an await or a step, or fails
(`Steps(q)`, `Works(q)`). From that follows `HooksFollowThePlan`: what a
hook has to do is the rest of the steps its plan lists. Each proof about
a middleware then has three parts: what its own actions do to its
variables (`RedisSteps`, `DbOnlyOf`, `FabricSteps`, ...), that this keeps the part
of the invariant about `q`, and that it keeps the part about every other
request. The invariants, beyond the properties themselves:

| middleware | invariant | why it is needed |
|---|---|---|
| git | `Staged`, `InHead` | a commit writes the index, which another request can have committed first: the files of a request are in `adding` or in the index until they are in `head` |
| redis | `GetIsSafe`, `NullAnswer` | between SETNX and GET the key is there, unless another request has deleted it since (`Deleted`); a hook that got a null answer is one of which this is true |
| | `PairIsThere`, `Objects` | a loop over pairs has one left; objects are written by the one step that was checked as a whole before |
| db | `Bound` | while a query is under way `Result` points where it wants it, or was bound last by another request; nothing else relates a record that strays to the request that made it stray |
| | `StatementsSettled`, `Held` | a transaction is open only while the hook waits for it or after it failed; before that a request has one connection at most |
| fabric | `Counted`, `Ledger`, `Submitted` | a submission of the step that a hook is at is of an attempt that is over, and all of those were cut off; what is passed is on the ledger |
| | `Linked` | each object of the connection was made on one it has, up to its step, whoever sets it; the objects beyond that may be of an earlier connection |
| planetmint | `Transfer`, `LedgerOK` | the ledger grows and outputs keep their amounts, so what was right of a transfer when it was made stays right |
| http | `Promises`, `AnswersAwaited` | the answers are in place, or the step that collects them is ahead |
| identity | `Lookups`, `IdentitiesAwaited` | the same |
| files, logger, sawroom, ethereum | `Owned`, `Met`, `Paired` | after the first step of its hook a request finds in a variable what it has set itself, or what a request has set that was at work at the same time |

From them follow the safety properties of `middlewares`, each for any
requests and plans. That the keys of redis implement `Tickets` is shown step
by step: every step of the composed system draws a ticket of a key, loses one,
puts in a new roll, or leaves the roll alone.

Two arguments are about what a loop computes. The existence of the recursive
functions behind `Configuration`, `Selection` and `Amount` cannot be had by
induction here (see below); the proofs take a least number for which there is no
such function, and extend the one for the number before. `SelectionIsRight` also
needs that `Amount` adds up the same in every order. It is shown to be the
number of units (`Units`: an output of amount n is n pairs), so the library's
theorems about cardinalities apply. The invariant of the loop is `Chosen`: the
outputs used are of the coin, they are all of those seen as long as they are not
enough, and once they are enough they are not without the last.

`TypesAreRight` collects the types (`MwTypeOK`). Most are the shape of an
assignment; those that are not rest on the invariants above, and on
`FabricCounts`: the failed attempts are not more than those that are over, which
bounds both counters by `NUM_RETRY`.

### What is assumed

Each assumption is named in the module that declares its constants, is
evaluated by TLC on the plans of the runs, and says what the code makes sure of:

- `RequestsAssumption`: a plan is a sequence of calls, each with a sequence
  of steps for each hook, and a scenario has a plan. `Asked` is the set of steps
  in such plans.
- `HttpPlacesAssumption`: a top-level array of answers has no name that is also
  the name of an object.
- `FilesAssumption`: a sentence of files names which of its two values the
  result lacks, and is defined if it lacks none.
- `HttpAssumption`, `IdentityAssumption`: a hook that sends collects afterwards.
  In both the wait for all promises stands in onBefore behind the sentences that
  send, under the condition that there are any promises
  (`http/src/index.ts:133`, `identity/src/index.ts:41`).
- `FabricAssumption`: only onSuccess submits, and a configuration consists of
  the four sentences that the loop over the lines knows.
- `RedisAssumption`: steps name the servers and keys of the model; a hook looks
  for the sentence with objects once, and a loop has something to loop over.
- `DbAssumption`: the SQL sentence has statements, in order.
- `PlanetmintAssumption`: amounts are not negative. The middleware does not check
  this, but a ledger has no outputs of negative amount, and takes no transfer to one.
- `SharedAssumption`, `SawroomAssumption`, `EthereumAssumption`: the first step of
  onBefore, and only that, sets the variables of the package; the steps are the
  sentences that the hook looks for.

### What is not proved

Liveness (`CallSettles`, `ChainAnswers`, `ChecksEnd`, `Answered`, `HooksEnd`) is
only model-checked: the prover has no rule for fairness and ENABLED. All safety
properties, the action properties and both refinements that the passing runs
check are theorems.

The theorems of the library that state induction have an operator as a
parameter and cannot be instantiated here, so induction over numbers and sequences
is done by least counterexamples throughout: `NatLessThanWellFounded` gives a least
element of a set of numbers, and no more is needed. For the same reason there is
no RECURSIVE operator in the modules, only recursive functions. That a string is
one at all is not known to the prover, so `reason` has the explicit set
`Reasons` for a type.

## Plan

1. *Done*: `ContractCall`, `Lifecycle`, `Lifecycle_proofs`, `ChainYml`, `Chain`,
   `ChainValidation`, `Dispatch`.
2. *Done*: `Requests`, the modules of the middlewares, `Tickets`, `Middlewares`.
3. *Done*: proofs about the core, for any hooks, ymls and endpoints: the safety of
   `Chain`, `ChainValidation` and `Dispatch`.
4. *Done*: proofs about the middlewares, for any requests and plans: all safety
   properties of `middlewares`, the refinement of `Tickets`, all types.
5. Next: that what `Requests` has of a contract call is what `Lifecycle` does with
   one hook for onBefore and one for onSuccess, as a refinement checked by TLC
   and then proved; shorter proofs where several actions are argued alike.

## Not modelled

- *ui*, *create-restroom*, *types*: documentation pages, a generator and
  declarations; nothing of them runs with a contract.
- *Loading of middlewares* (`addMiddlewares`): start-up configuration, done
  before the server listens.
- *zencode*: which sentences a contract has is the plan. `parse` keys lines by their
  text without parameters, `{}` in their place, so the lines of one key have
  the same number of parameters (unless a `{}` was written there) and cutting the list into chunks gives the parameters line by
  line; what remains is regular expressions over text.
- *utils*: helpers on strings and objects without state. Where they throw
  (`combineDataKeys`, `validateSubdir`, named parameters) the model has a step
  that fails (`DataIsMalformed`, `"wrong"`, `defined`).
- *getData* and the wording of answers: conversions no property is about.

External, and modelled by what the code relies on: Zenroom, Express and Node (a
rejection nobody handles ends the process); redis executes commands one at a time;
a database commits or fails a transaction; a fabric or planetmint ledger may
have taken what it answers an error to, and a planetmint output is spent once; closing a
fabric gateway leaves the grpc client and submissions through it alone; git adds and commits
under a lock of the index, and a clone that fails leaves the repositories that
are there alone; axios and the other clients answer or fail.
