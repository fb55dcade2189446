---------------------------- MODULE Middlewares ----------------------------
(***************************************************************************)
(* The middlewares in one process. Requests with plans for different       *)
(* middlewares share the process: what ends it ends all of them.           *)
(***************************************************************************)
EXTENDS Redis, Db, Fabric, Planetmint, Http, Identity, Files, Logger, Sawroom, Ethereum, Git, Influxdb

vars == <<frame, redisVars, dbVars, fabricVars, planetmintVars, httpVars, identityVars,
          sharedVars, gitVars, fluxClient>>

MwTypeOK ==
  /\ RequestsTypeOK /\ RedisTypeOK /\ DbTypeOK /\ FabricTypeOK /\ PlanetmintTypeOK
  /\ HttpTypeOK /\ IdentityTypeOK /\ SharedTypeOK /\ GitTypeOK /\ InfluxdbTypeOK

Init ==
  /\ RequestsInit /\ RedisInit /\ DbInit /\ FabricInit /\ PlanetmintInit
  /\ HttpInit /\ IdentityInit /\ SharedInit /\ GitInit /\ InfluxdbInit

Next ==
  \/ /\ RequestsNext
     /\ UNCHANGED <<redisVars, dbVars, fabricVars, planetmintVars, httpVars, identityVars,
                    sharedVars, gitVars, fluxClient>>
  \/ /\ RedisNext
     /\ UNCHANGED <<dbVars, fabricVars, planetmintVars, httpVars, identityVars, sharedVars,
                    gitVars, fluxClient>>
  \/ /\ DbNext
     /\ UNCHANGED <<redisVars, fabricVars, planetmintVars, httpVars, identityVars, sharedVars,
                    gitVars, fluxClient>>
  \/ /\ FabricNext
     /\ UNCHANGED <<redisVars, dbVars, planetmintVars, httpVars, identityVars, sharedVars,
                    gitVars, fluxClient>>
  \/ /\ PlanetmintNext
     /\ UNCHANGED <<redisVars, dbVars, fabricVars, httpVars, identityVars, sharedVars,
                    gitVars, fluxClient>>
  \/ /\ HttpNext
     /\ UNCHANGED <<redisVars, dbVars, fabricVars, planetmintVars, identityVars, sharedVars,
                    gitVars, fluxClient>>
  \/ /\ IdentityNext
     /\ UNCHANGED <<redisVars, dbVars, fabricVars, planetmintVars, httpVars, sharedVars,
                    gitVars, fluxClient>>
  \/ /\ FilesNext \/ LoggerNext \/ SawroomNext \/ EthereumNext
     /\ UNCHANGED <<redisVars, dbVars, fabricVars, planetmintVars, httpVars, identityVars,
                    gitVars, fluxClient>>
  \/ /\ GitNext
     /\ UNCHANGED <<redisVars, dbVars, fabricVars, planetmintVars, httpVars, identityVars,
                    sharedVars, fluxClient>>
  \/ /\ InfluxdbNext \/ (\E r \in Requests : TakesTimestamp(r))
     /\ UNCHANGED <<redisVars, dbVars, fabricVars, planetmintVars, httpVars, identityVars,
                    sharedVars, gitVars>>

\* Hooks settle: services answer or fail, the event loop runs what is ready.
Spec == Init /\ [][Next]_vars /\ WF_vars(Next)

-----------------------------------------------------------------------------
\* The contract of this use makes a client of ethereum of its own.
Connects(u) ==
  LET before == plan[u.by].calls[u.call].before
  IN \E i \in DOMAIN before : before[i].op = "ethereum" /\ before[i].connect

\* A request uses what another one has left in the variables of a package only
\* if the two were in a contract call at the same time. (Not so for the
\* connection of fabric, and not for the client of ethereum in a contract
\* without a connect sentence: these outlive requests.)
SequentialRequestsAreIsolated ==
  \A u \in uses : \A v \in u.what :
    v # "ethereum.web3" \/ Connects(u) => u.of[v] \in {u.by} \cup u.met

\* The answers that http and identity collect are paired with their names.
AnswersReachTheirNames == AnswersInPlace /\ IdentitiesInPlace

\* A request that ends well has written what its contract asked for: its
\* transactions are on the ledger, its files in the repository.
DoneMeansWritten == SubmissionsAreCommitted /\ CommitsAreComplete

\* Every request comes to an end, unless the process does.
HooksEnd == \A r \in Requests : <>(Over(r) \/ ~up)

\* What the documentation says of onException, that it is fired when something
\* bad happens: a failure in a hook is the failure of its contract call. It is
\* not so for promises and event handlers that no hook waits for.
FailuresStayLocal == up
=============================================================================
