--------------------------------- MODULE Db ---------------------------------
(***************************************************************************)
(* packages/db/src/index.ts. A query opens a connection (new Sequelize) of *)
(* its own, but all requests share one model, Result: Result.init points   *)
(* it at a table of a connection, and the operations on it go where it     *)
(* points when they are called. The statements of an SQL sentence run in   *)
(* parallel, each in a transaction on a connection of its own.             *)
(***************************************************************************)
EXTENDS Requests

\* The sentences of EXECUTE_SQL have at least one statement, and an output each.
ASSUME DbAssumption ==
  \A step \in Asked("db", "before") :
    step.op = "sql" => step.names # <<>> /\ IsSequence(step.names)

VARIABLES
  binding,   \* Result: the connection and the place (database and table) it points at
  opened,    \* how many connections the request has opened
  open,      \* the connections that are open
  sql,       \* request -> the transactions of its SQL sentence
  accesses   \* history: where the operations on Result were meant to go and went

dbVars == <<binding, opened, open, sql, accesses>>

DbTypeOK ==
  /\ DOMAIN binding = {"conn", "place"}
  /\ opened \in [Requests -> Nat]
  /\ \A c \in open : c[1] \in Requests /\ c[2] \in 1..opened[c[1]]
  /\ \A r \in Requests : \A i \in DOMAIN sql[r] : sql[r][i] \in {"begun", "executed", "committed", "failed"}

DbInit ==
  /\ binding = [conn |-> None, place |-> None]
  /\ opened = [r \in Requests |-> 0]
  /\ open = {}
  /\ sql = [r \in Requests |-> <<>>]
  /\ accesses = {}

-----------------------------------------------------------------------------
\* GET_RECORD, SAVE_OUTPUT, SAVE_VAR: a loop over the queries of the sentence.

OnResult(r) ==
  /\ InHook(r, "before") \/ InHook(r, "success")
  /\ Step(r).op \in {"getRecord", "saveOutput", "saveVar"}

Query(r) == Step(r).queries[at[r]]

\* Mutant: a model that is defined is not defined again.
Bind_Once(r, place, kept) ==
  LET conn == <<r, opened[r] + 1>>
  IN /\ opened' = [opened EXCEPT ![r] = @ + 1]
     /\ open' = kept \cup {conn}
     /\ binding' = IF binding.conn = None THEN [conn |-> conn, place |-> place]
                   ELSE [binding EXCEPT !.conn = conn]

\* new Sequelize and Result.init.
Bind(r, place, kept) ==
  LET conn == <<r, opened[r] + 1>>
  IN /\ opened' = [opened EXCEPT ![r] = @ + 1]
     /\ open' = kept \cup {conn}
     /\ binding' = [conn |-> conn, place |-> place]

\* The loop goes on with query i and runs up to its Result.sync. SAVE_VAR
\* looks for its variable first.
NextQuery(r, i, kept) ==
  \/ /\ i > Len(Step(r).queries)
     /\ Proceed(r)
     /\ open' = kept /\ UNCHANGED <<binding, opened>>
  \/ /\ i <= Len(Step(r).queries)
     /\ ~Step(r).queries[i].defined
     /\ Fail(r, "missing variable")
     /\ open' = kept /\ UNCHANGED <<binding, opened>>
  \/ /\ i <= Len(Step(r).queries)
     /\ Step(r).queries[i].defined
     /\ Bind(r, Step(r).queries[i].place, kept)
     /\ at' = [at EXCEPT ![r] = i]
     /\ UNCHANGED <<plan, call, stage, todo, reason, met, up>>

\* validate (runChecks): one query that names an undeclared or undefined
\* database or table fails the sentence before any of its queries runs.
Validates(r) ==
  /\ OnResult(r) /\ at[r] = 0
  /\ \/ /\ \E i \in DOMAIN Step(r).queries : ~Step(r).queries[i].declared
        /\ Reject(r, "not declared")
        /\ UNCHANGED <<binding, opened, open>>
     \/ /\ \A i \in DOMAIN Step(r).queries : Step(r).queries[i].declared
        /\ NextQuery(r, 1, open)
        /\ UNCHANGED data
  /\ UNCHANGED <<sql, accesses>>

\* Mutant: the connection of a query is not closed.
Accesses_NotClosed(r) ==
  /\ OnResult(r) /\ at[r] > 0
  /\ binding.conn \in open
  /\ accesses' = accesses \cup {[by |-> r, op |-> Step(r).op, want |-> Query(r).place,
                                 got |-> binding.place, boundBy |-> binding.conn[1]]}
  /\ UNCHANGED data
  /\ NextQuery(r, at[r] + 1, open)
  /\ UNCHANGED sql

\* Result.sync has answered: findByPk or create where Result points now, then
\* db.close on the connection of this query.
Accesses(r) ==
  /\ OnResult(r) /\ at[r] > 0
  /\ binding.conn \in open
  /\ accesses' = accesses \cup {[by |-> r, op |-> Step(r).op, want |-> Query(r).place,
                                 got |-> binding.place, boundBy |-> binding.conn[1]]}
  /\ IF Step(r).op = "getRecord"
     THEN data' = [data EXCEPT ![r][Query(r).name] = <<"row", binding.place>>]
     ELSE UNCHANGED data
  /\ NextQuery(r, at[r] + 1, open \ {<<r, opened[r]>>})
  /\ UNCHANGED sql

\* No such record, a record that is not JSON, an error of the database, or
\* another request has closed the connection Result points at: the hook
\* rejects and the connection of the query is not closed.
AccessFails(r) ==
  /\ OnResult(r) /\ at[r] > 0
  /\ Reject(r, "database")
  /\ UNCHANGED dbVars

\* The promise of db.close is awaited nowhere: its rejection is nobody's. It may
\* come at any time after the query is over.
CloseFails(r) ==
  /\ up /\ \E n \in 1..opened[r] : <<r, n>> \notin open
  /\ Crash
  /\ UNCHANGED dbVars

-----------------------------------------------------------------------------
\* EXECUTE_SQL and EXECUTE_SQL_WITH_PARAMS.

StartsSql(r) ==
  /\ Doing(r, "before", "sql", 0)
  /\ LET n == Len(Step(r).names)
     IN /\ sql' = [sql EXCEPT ![r] = [i \in 1..n |-> "begun"]]
        /\ opened' = [opened EXCEPT ![r] = @ + n]
        /\ open' = open \cup {<<r, opened[r] + i>> : i \in 1..n}
  /\ Await(r)
  /\ UNCHANGED <<binding, accesses>>

\* A transaction goes on whether or not the hook still waits for it.
SqlExecutes(r, i) ==
  /\ up /\ sql[r][i] = "begun"
  /\ sql' = [sql EXCEPT ![r][i] = "executed"]
  /\ UNCHANGED <<frame, binding, opened, open, accesses>>

SqlCommits(r, i) ==
  /\ up /\ sql[r][i] = "executed"
  /\ sql' = [sql EXCEPT ![r][i] = "committed"]
  /\ IF Doing(r, "before", "sql", 1)
     THEN data' = [data EXCEPT ![r][Step(r).names[i]] = <<"sql", i>>]
     ELSE UNCHANGED data
  /\ UNCHANGED <<plan, call, stage, todo, at, reason, met, up, binding, opened, open, accesses>>

\* The transaction is neither committed nor rolled back. Promise.all rejects
\* with the first failure and leaves the other transactions running.
SqlFails(r, i) ==
  /\ up /\ sql[r][i] \in {"begun", "executed"}
  /\ sql' = [sql EXCEPT ![r][i] = "failed"]
  /\ IF Doing(r, "before", "sql", 1) THEN Reject(r, "sql") ELSE UNCHANGED frame
  /\ UNCHANGED <<binding, opened, open, accesses>>

\* Mutant: the hook waits for the first statement only (Promise.race).
SqlDone_First(r) ==
  /\ Doing(r, "before", "sql", 1)
  /\ \E i \in DOMAIN sql[r] : sql[r][i] = "committed"
  /\ Continue(r)
  /\ UNCHANGED dbVars

SqlDone(r) ==
  /\ Doing(r, "before", "sql", 1)
  /\ \A i \in DOMAIN sql[r] : sql[r][i] = "committed"
  /\ Continue(r)
  /\ UNCHANGED dbVars

DbNext ==
  \E r \in Requests :
    /\ Uses(r, "db")
    /\ \/ Validates(r) \/ Accesses(r) \/ AccessFails(r) \/ CloseFails(r) \/ StartsSql(r) \/ SqlDone(r)
       \/ \E i \in DOMAIN sql[r] : SqlExecutes(r, i) \/ SqlCommits(r, i) \/ SqlFails(r, i)

-----------------------------------------------------------------------------
\* A record is read from and saved to the table its sentence names, or else
\* to one that another request, at work at the same time, has pointed Result at.
StraysOnlyIfRebound == \A a \in accesses : a.want # a.got => a.boundBy # a.by

\* The process keeps a connection only for a request that goes on, has failed
\* or has executed SQL (whose connections no code closes).
LeaksOnlyFromFailuresAndSql ==
  \A c \in open : stage[c[1]] = "done" => sql[c[1]] # <<>>

\* No contract runs while a transaction its data comes from is open, and what
\* it sees of the database has been committed.
SqlIsCommitted ==
  \A r \in Requests :
    (Uses(r, "db") /\ stage[r] \in {"success", "done"}) =>
      \A i \in DOMAIN sql[r] : sql[r][i] = "committed"

\* What the comment on GET_RECORD says: the record read is the one of the
\* table and the database named. It is not so with two requests.
RecordsComeFromTheirTable ==
  \A a \in accesses : a.op = "getRecord" => a.got = a.want
=============================================================================
