------------------------------ MODULE Influxdb ------------------------------
(***************************************************************************)
(* packages/influxdb/src/index.ts and packages/timestamp/src/index.ts. The *)
(* client is a variable of the request: the contracts of a chain share it. *)
(***************************************************************************)
EXTENDS Requests

VARIABLE fluxClient  \* request -> the contract call that made its client, or 0

InfluxdbTypeOK == fluxClient \in [Requests -> Nat]

InfluxdbInit == fluxClient = [r \in Requests |-> 0]

\* FLUX_CONNECT makes no request.
FluxConnects(r) ==
  /\ Doing(r, "before", "fluxConnect", 0)
  /\ fluxClient' = [fluxClient EXCEPT ![r] = call[r]]
  /\ Continue(r)

\* FLUX_QUERY and FLUX_QUERY_ARRAY look for a client before the first query.
FluxHasNoClient(r) ==
  /\ Doing(r, "before", "fluxQuery", 0)
  /\ fluxClient[r] = 0
  /\ Reject(r, "no client")
  /\ UNCHANGED fluxClient

\* One query after the other; FLUX_QUERY has one for each output, and
\* FLUX_QUERY_ARRAY the queries of an array, whose rows go to one output.
FluxQueries(r) ==
  /\ InHook(r, "before") /\ Step(r).op = "fluxQuery"
  /\ fluxClient[r] # 0
  /\ at[r] < Step(r).queries
  /\ Await(r)
  /\ UNCHANGED fluxClient

FluxRowsRead(r) ==
  /\ Doing(r, "before", "fluxQuery", Step(r).queries)
  /\ fluxClient[r] # 0
  /\ Receive(r, Step(r).name, <<"rows", fluxClient[r]>>)
  /\ UNCHANGED fluxClient

FluxFails(r) ==
  /\ InHook(r, "before") /\ Step(r).op = "fluxQuery"
  /\ fluxClient[r] # 0
  /\ at[r] < Step(r).queries
  /\ Reject(r, "influxdb")
  /\ UNCHANGED fluxClient

InfluxdbNext ==
  \E r \in Requests :
    /\ Uses(r, "influxdb")
    /\ FluxConnects(r) \/ FluxHasNoClient(r) \/ FluxQueries(r) \/ FluxRowsRead(r) \/ FluxFails(r)

\* The timestamp middleware: the time joins the data.
TakesTimestamp(r) ==
  /\ Uses(r, "timestamp")
  /\ Doing(r, "before", "timestamp", 0)
  /\ Receive(r, Step(r).name, "now")
  /\ UNCHANGED fluxClient
=============================================================================
