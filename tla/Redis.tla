------------------------------- MODULE Redis -------------------------------
(***************************************************************************)
(* packages/redis/src/index.ts. The servers are shared by all requests and *)
(* execute one command at a time; the client belongs to the web request    *)
(* and is opened by the first command.                                     *)
(***************************************************************************)
EXTENDS Requests

CONSTANTS Servers, Keys

\* All SET_OBJECT_NAMED of a contract are one step, with a pair for each of
\* them, and all DEL are one; the steps name servers and keys that there are.
ASSUME RedisAssumption ==
  /\ \A step \in Asked("redis", "before") :
       /\ step.op = "connect" => step.server \in Servers
       /\ step.op \in {"get", "incr"} => step.key \in Keys
  /\ \A step \in Asked("redis", "success") :
       /\ step.op = "set" => step.key \in Keys
       /\ step.op \in {"setObjects", "del"} =>
            /\ step.pairs # <<>> /\ IsSequence(step.pairs)
            /\ \A i \in DOMAIN step.pairs : step.pairs[i].key \in Keys
  /\ \A p \in UNION Scenarios : p.mw = "redis" =>
       \A c \in DOMAIN p.calls : \A i, j \in DOMAIN p.calls[c].success :
         p.calls[c].success[i].op = "setObjects" /\ p.calls[c].success[j].op = "setObjects" => i = j

VARIABLES
  store,       \* the servers: server -> key -> value
  url,         \* the server getRedisClient connects to
  client,      \* the server the client of the request is connected to
  drawn,       \* history: the numbers read by INCREMENT since the key was set or deleted
  objects,     \* history: the keys SET_OBJECT_NAMED has written, with request and call
  deleters     \* history: who has deleted the key r is getting since its SETNX

redisVars == <<store, url, client, drawn, objects, deleters>>

Absent == <<"absent">>
EmptyObject == <<"empty">>
Number(n) == <<"number", n>>

RedisTypeOK ==
  /\ DOMAIN store = Servers /\ \A s \in Servers : DOMAIN store[s] = Keys
  /\ url \in [Requests -> Servers \cup {None}]
  /\ client \in [Requests -> Servers \cup {None}]
  /\ \A d \in drawn : d[1] \in Servers /\ d[2] \in Keys /\ d[3] \in Requests
  /\ \A o \in objects : o[1] \in Requests /\ o[3] \in Keys
  /\ deleters \in [Requests -> SUBSET Requests]

RedisInit ==
  /\ store = [s \in Servers |-> [k \in Keys |-> Absent]]
  /\ url = [r \in Requests |-> None]
  /\ client = [r \in Requests |-> None]
  /\ drawn = {} /\ objects = {}
  /\ deleters = [r \in Requests |-> {}]

At(r, key) == store[client[r]][key]

\* The key gets a value that is no number: counting starts anew.
Write(r, key, value) ==
  /\ store' = [store EXCEPT ![client[r]][key] = value]
  /\ drawn' = {d \in drawn : ~(d[1] = client[r] /\ d[2] = key)}

ConnectsTo(r) ==
  /\ Doing(r, "before", "connect", 0)
  /\ url' = [url EXCEPT ![r] = Step(r).server]
  /\ Continue(r)
  /\ UNCHANGED <<store, client, drawn, objects, deleters>>

\* client = client || (await getRedisClient()): the first client is kept.
OpensClient(r) ==
  /\ InHook(r, "before") \/ InHook(r, "success")
  /\ Step(r).op # "connect"
  /\ client[r] = None
  /\ IF url[r] = None THEN Reject(r, "not connected")
     ELSE UNCHANGED frame \/ Reject(r, "connection")
  /\ client' = [client EXCEPT ![r] = url[r]]
  /\ UNCHANGED <<store, url, drawn, objects, deleters>>

Command(r, hook, op, i) == client[r] # None /\ Doing(r, hook, op, i)

\* The server has executed the command, but its answer is lost.
Lost(r) == Reject(r, "connection")

\* The command is rejected without being executed: the server refuses it.
CommandFails(r) ==
  /\ InHook(r, "before") \/ InHook(r, "success")
  /\ Step(r).op # "connect" /\ client[r] # None
  /\ Reject(r, "connection")
  /\ UNCHANGED redisVars

\* Mutant: GET without SETNX.
SetsEmpty_Skipped(r) ==
  /\ Command(r, "before", "get", 0)
  /\ Await(r)
  /\ UNCHANGED redisVars

\* getFromRedis: SETNX, then GET.
SetsEmpty(r) ==
  /\ Command(r, "before", "get", 0)
  /\ IF At(r, Step(r).key) = Absent THEN Write(r, Step(r).key, EmptyObject)
                                    ELSE UNCHANGED <<store, drawn>>
  /\ deleters' = [deleters EXCEPT ![r] = {}]
  /\ Await(r) \/ Lost(r)
  /\ UNCHANGED <<url, client, objects>>

\* A null answer becomes {} before it is parsed, which JSON.parse rejects.
Gets(r) ==
  /\ Command(r, "before", "get", 1)
  /\ IF At(r, Step(r).key) = Absent THEN Reject(r, "null answer")
     ELSE Receive(r, Step(r).name, At(r, Step(r).key))
  /\ UNCHANGED redisVars

\* KEYS and MGET in one script; MGET without keys is an error.
GetsKeysContaining(r) ==
  /\ Command(r, "before", "keys", 0)
  /\ LET found == {k \in Step(r).keys : At(r, k) # Absent}
     IN IF found = {} THEN Reject(r, "no keys")
        ELSE Receive(r, Step(r).name, <<"values", [k \in found |-> At(r, k)]>>)
  /\ UNCHANGED redisVars

\* Mutant: the number is read and written back with two commands.
Increments_ReadThenWrite(r) ==
  LET key == Step(r).key
      n   == IF At(r, key) = Absent THEN 0 ELSE At(r, key)[2]
      old == data[r][Step(r).name]
  IN \/ /\ Command(r, "before", "incr", 0)
        /\ data' = [data EXCEPT ![r][Step(r).name] = Number(n)]
        /\ at' = [at EXCEPT ![r] = 1]
        /\ UNCHANGED <<plan, call, stage, todo, reason, met, up, redisVars>>
     \/ /\ Command(r, "before", "incr", 1)
        /\ store' = [store EXCEPT ![client[r]][key] = Number(old[2] + 1)]
        /\ drawn' = drawn \cup {<<client[r], key, r, old[2]>>}
        /\ Continue(r)
        /\ UNCHANGED <<url, client, objects, deleters>>

\* INCR answers the new number, the contract sees the one before.
Increments(r) ==
  /\ Command(r, "before", "incr", 0)
  /\ LET key == Step(r).key
         old == At(r, key)
         n   == IF old = Absent THEN 0 ELSE old[2]
     IN IF old # Absent /\ old[1] # "number"
        THEN Reject(r, "not an integer") /\ UNCHANGED <<store, drawn>>
        ELSE /\ store' = [store EXCEPT ![client[r]][key] = Number(n + 1)]
             /\ \/ /\ Receive(r, Step(r).name, Number(n))
                   /\ drawn' = drawn \cup {<<client[r], key, r, n>>}
                \/ Lost(r) /\ UNCHANGED drawn
  /\ UNCHANGED <<url, client, objects, deleters>>

\* SET and SET_NAMED.
SetsOutput(r) ==
  /\ Command(r, "success", "set", 0)
  /\ Write(r, Step(r).key, Output(r))
  /\ Continue(r) \/ Lost(r)
  /\ UNCHANGED <<url, client, objects, deleters>>

SetsObject(r, pair) ==
  /\ Write(r, pair.key, <<"object", r, call[r], pair.key>>)
  /\ objects' = objects \cup {<<r, call[r], pair.key>>}
  /\ \/ IF at[r] + 1 < Len(Step(r).pairs) THEN Await(r) ELSE Continue(r)
     \/ Lost(r)

\* Mutant: a pair is checked when it is its turn.
SetsObjects_OneByOne(r) ==
  /\ Command(r, "success", "setObjects", at[r])
  /\ IF ~Step(r).pairs[at[r] + 1].defined
     THEN Reject(r, "not defined") /\ UNCHANGED <<store, drawn, objects>>
     ELSE SetsObject(r, Step(r).pairs[at[r] + 1])
  /\ UNCHANGED <<url, client, deleters>>

\* SET_OBJECT_NAMED: all pairs are checked, then written one by one.
SetsObjects(r) ==
  /\ Command(r, "success", "setObjects", at[r])
  /\ IF at[r] = 0 /\ \E i \in DOMAIN Step(r).pairs : ~Step(r).pairs[i].defined
     THEN Reject(r, "not defined") /\ UNCHANGED <<store, drawn, objects>>
     ELSE SetsObject(r, Step(r).pairs[at[r] + 1])
  /\ UNCHANGED <<url, client, deleters>>

\* The request waits for its GET: the SETNX of this key is over.
AwaitsGet(r, server, key) ==
  Doing(r, "before", "get", 1) /\ client[r] = server /\ Step(r).key = key

\* DEL checks each key when it is its turn.
Deletes(r) ==
  /\ Command(r, "success", "del", at[r])
  /\ LET pair == Step(r).pairs[at[r] + 1]
     IN IF ~pair.defined
        THEN Reject(r, "key not defined") /\ UNCHANGED <<store, drawn, deleters>>
        ELSE /\ Write(r, pair.key, Absent)
             /\ deleters' = [q \in Requests |-> IF AwaitsGet(q, client[r], pair.key)
                                                THEN deleters[q] \cup {r} ELSE deleters[q]]
             /\ \/ IF at[r] + 1 < Len(Step(r).pairs) THEN Await(r) ELSE Continue(r)
                \/ Lost(r)
  /\ UNCHANGED <<url, client, objects>>

\* A client emits "error" when its connection breaks, whatever the request is
\* doing or whether it is over: no client is ever closed. Nobody listens.
ConnectionBreaks(r) ==
  /\ up /\ client[r] # None
  /\ Crash
  /\ UNCHANGED redisVars

RedisNext ==
  \E r \in Requests :
    /\ Uses(r, "redis")
    /\ \/ ConnectsTo(r) \/ OpensClient(r) \/ CommandFails(r)
       \/ SetsEmpty(r) \/ Gets(r) \/ GetsKeysContaining(r) \/ Increments(r)
       \/ SetsOutput(r) \/ SetsObjects(r) \/ Deletes(r) \/ ConnectionBreaks(r)

-----------------------------------------------------------------------------
\* A key that is counted with, as a dispenser of numbers.
NextNumber(s, k) == IF store[s][k][1] = "number" THEN store[s][k][2] ELSE 0
DrawnFrom(s, k) == {<<d[3], d[4]>> : d \in {e \in drawn : e[1] = s /\ e[2] = k}}
Roll(s, k) == INSTANCE Tickets WITH
  Clients <- Requests, next <- NextNumber(s, k), drawn <- DrawnFrom(s, k)

\* INCREMENT gives each number of a key to one request only and skips none
\* but those whose answer was lost, whatever other requests get, set or delete:
\* each key of each server implements Tickets.
CountersAreTickets ==
  /\ \A s \in Servers, k \in Keys : Roll(s, k)!Init
  /\ [][\A s \in Servers, k \in Keys :
          Roll(s, k)!Next \/ UNCHANGED <<NextNumber(s, k), DrawnFrom(s, k)>>]_redisVars

\* GET of a key that was never set is no failure of its own: it finds nothing
\* only if another request has deleted this key, on the same server, between the
\* SETNX and the GET.
GetFailsOnlyAfterDel ==
  \A r \in Requests :
    (Uses(r, "redis") /\ reason[r] = "null answer") => deleters[r] \ {r} # {}

\* SET_OBJECT_NAMED that finds something undefined has written no object.
ObjectsAllOrNothing ==
  \A r \in Requests :
    (Uses(r, "redis") /\ reason[r] = "not defined") => ~\E k \in Keys : <<r, call[r], k>> \in objects
=============================================================================
