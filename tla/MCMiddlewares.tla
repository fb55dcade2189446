--------------------------- MODULE MCMiddlewares ---------------------------
(***************************************************************************)
(* Plans for TLC, by middleware: what two requests ask for at the same     *)
(* time. Every scenario is about one hazard.                               *)
(***************************************************************************)
EXTENDS Middlewares

Plan(mw, calls) == [mw |-> mw, calls |-> calls]
Call(before, success) == [before |-> before, success |-> success]
Single(mw, before, success) == Plan(mw, <<Call(before, success)>>)

\* redis
Named(key, defined) == [key |-> key, defined |-> defined]
At1 == [op |-> "connect", server |-> "s1"]
At2 == [op |-> "connect", server |-> "s2"]
GetK1 == [op |-> "get", key |-> "k1", name |-> "a"]
IncrK2 == [op |-> "incr", key |-> "k2", name |-> "b"]
KeysOf == [op |-> "keys", keys |-> {"k1", "k2"}, name |-> "a"]
SetK1 == [op |-> "set", key |-> "k1"]
SetBoth(second) == [op |-> "setObjects", pairs |-> <<Named("k1", TRUE), Named("k2", second)>>]
DelBoth(second) == [op |-> "del", pairs |-> <<Named("k1", TRUE), Named("k2", second)>>]

RedisScenarios == {
  {Single("redis", <<At1, GetK1, IncrK2>>, <<SetK1>>), Single("redis", <<GetK1>>, <<>>)},
  {Plan("redis", <<Call(<<At1, IncrK2>>, <<SetBoth(TRUE)>>), Call(<<At2, IncrK2>>, <<>>)>>),
   Single("redis", <<At1, IncrK2>>, <<DelBoth(TRUE)>>)},
  {Single("redis", <<At1, GetK1>>, <<SetBoth(FALSE)>>), Single("redis", <<At1, KeysOf>>, <<DelBoth(FALSE)>>)}}

\* db
Rec(place, declared) == [place |-> place, name |-> "a", defined |-> TRUE, declared |-> declared]
Read(p, q) == [op |-> "getRecord", queries |-> <<Rec(p, TRUE), Rec(q, TRUE)>>]
SaveOutput(p) == [op |-> "saveOutput", queries |-> <<Rec(p, TRUE)>>]
SaveVar(p, q, second) ==
  [op |-> "saveVar", queries |-> <<Rec(p, TRUE), [Rec(q, TRUE) EXCEPT !.defined = second]>>]
Sql == [op |-> "sql", names |-> <<"a", "b">>]

DbScenarios == {
  {Single("db", <<Read("p1", "p2")>>, <<SaveOutput("p3")>>),
   Single("db", <<>>, <<SaveOutput("p4"), SaveVar("p5", "p6", TRUE)>>)},
  {Single("db", <<Sql>>, <<SaveVar("p1", "p2", FALSE)>>),
   Single("db", <<[op |-> "getRecord", queries |-> <<Rec("p1", TRUE), Rec("p2", FALSE)>>]>>, <<>>)},
  {Single("db", <<>>, <<[op |-> "saveVar", queries |-> <<[Rec("p1", TRUE) EXCEPT !.defined = FALSE]>>]>>)}}

\* fabric
Configure(sentences) == [op |-> "configure", sentences |-> sentences]
Whole == Configure(<<"address", "connect", "channel", "contract">>)
Tx(op, name) == [op |-> op, name |-> name]

FabricScenarios == {
  {Single("fabric", <<Whole, Tx("query", "a")>>, <<Tx("submit", "b")>>),
   Single("fabric", <<Configure(<<"address", "connect">>), Tx("retrieve", "a")>>, <<Tx("store", "b")>>)},
  {Plan("fabric", <<Call(<<Whole>>, <<Tx("submit", "a"), Tx("submit", "b")>>)>>),
   Single("fabric", <<Configure(<<"address">>)>>, <<>>)},
  {Single("fabric", <<Configure(<<"channel">>), Tx("retrieve", "a")>>, <<>>),
   Single("fabric", <<Whole>>, <<Tx("elsewhere", "a"), Tx("store", "b")>>)}}

\* planetmint
Outputs == <<[coin |-> "gold", owner |-> "alice", amount |-> 2],
             [coin |-> "tin", owner |-> "alice", amount |-> 5],
             [coin |-> "gold", owner |-> "alice", amount |-> 3],
             [coin |-> "gold", owner |-> "bob", amount |-> 4]>>
Arrive == [op |-> "arrive"]
ToNode == [op |-> "connect"]
Asset(parts, present, signer) ==
  [op |-> "asset", name |-> "a", parts |-> parts, present |-> present, signer |-> signer]
Transfer(amount) == [op |-> "transferAmount", name |-> "a", coin |-> "gold", sender |-> "alice",
                     amount |-> amount, present |-> TRUE]
Sign == [op |-> "sign", present |-> TRUE]
Broadcast == [op |-> "broadcast", present |-> TRUE]

PlanetmintScenarios ==
  {{Single("planetmint", <<Arrive, ToNode, Transfer(n)>>, <<Sign, Broadcast>>),
    Single("planetmint", <<Arrive, ToNode, Transfer(m)>>, <<Sign, Broadcast>>)} :
      n \in {2, 5}, m \in {1, 7}}
  \cup
  {{Single("planetmint", <<Arrive, ToNode, [op |-> "retrieve", name |-> "b"], Asset(2, TRUE, TRUE)>>,
           <<Sign, Broadcast>>),
    Plan("planetmint", <<Call(<<Arrive, Asset(0, TRUE, TRUE)>>, <<>>),
                         Call(<<Asset(1, TRUE, FALSE)>>, <<>>)>>)},
   {Single("planetmint", <<Arrive, ToNode, [op |-> "transfer", name |-> "a", present |-> TRUE]>>,
           <<[op |-> "sign", present |-> FALSE]>>),
    Single("planetmint", <<Arrive, Asset(1, FALSE, TRUE)>>, <<>>),
    Single("planetmint", <<Arrive, Asset(0, TRUE, FALSE)>>, <<>>)}}

\* http
Parallel(places, defined) == [op |-> "parallel", places |-> places, defined |-> defined]
Collect == [op |-> "collect"]
Gets2 == Parallel(<<<<"a", "x", 0>>, <<"a", "x", 1>>>>, TRUE)
Gets1 == Parallel(<<<<"a", "x", 0>>, <<"b", "y", -1>>>>, TRUE)
Posts == Parallel(<<<<None, "c", 0>>, <<None, "c", 1>>>>, TRUE)
Endpoints(names) == [op |-> "endpoints", names |-> names]

HttpScenarios == {
  {Plan("http", <<Call(<<Gets2, Collect>>, <<>>), Call(<<Gets1, Collect>>, <<>>)>>)},
  {Plan("http", <<Call(<<[op |-> "readRequest", name |-> "b"], Endpoints(<<"u", "v">>), Collect,
                         [op |-> "post", name |-> "a"]>>, <<>>),
                  Call(<<Collect, [op |-> "output", urls |-> <<"u", "v">>, name |-> "a", defined |-> TRUE],
                         [op |-> "checkPass", urls |-> <<"u">>, defined |-> TRUE]>>,
                       <<[op |-> "pass"], [op |-> "pass"]>>)>>),
   Single("http", <<Endpoints(<<"u", "u">>)>>, <<>>)},
  {Single("http", <<Gets2, Parallel(<<>>, FALSE), Collect>>, <<>>),
   Single("http", <<Posts, Collect, [op |-> "output", urls |-> <<"u">>, name |-> "a", defined |-> TRUE]>>,
          <<>>)}}

\* identity
Did(name, valid) == [op |-> "resolve", name |-> name, valid |-> valid]
Lookups == [op |-> "lookups"]

IdentityScenarios == {
  {Plan("identity", <<Call(<<Did("a", TRUE), Did("b", TRUE), Lookups>>, <<>>),
                      Call(<<Did("b", TRUE), Lookups>>, <<>>)>>),
   Single("identity", <<Did("a", TRUE), Did("b", FALSE), Lookups>>, <<>>)},
  {Single("identity", <<Lookups>>, <<>>)}}

\* files, logger, sawroom, ethereum
FilesStart(files, folders) == [op |-> "files", files |-> files, folders |-> folders, name |-> "a"]
Store(lacks, defined) == [op |-> "store", lacks |-> lacks, defined |-> defined]
Download(lacks, defined) == [op |-> "download", lacks |-> lacks, defined |-> defined]
Log(defined) == [op |-> "log", defined |-> defined]
Service(op) == [op |-> op, name |-> "a", valid |-> TRUE, transactions |-> 1]
Invalid(op) == [Service(op) EXCEPT !.valid = FALSE]
SawroomStart(address) == [op |-> "sawroom", address |-> address]
EthereumStart(connect) == [op |-> "ethereum", connect |-> connect]

SharedScenarios == {
  {Single("files", <<FilesStart({"right"}, {"right"})>>, <<Download(Values, TRUE), Store({"path"}, TRUE)>>),
   Single("files", <<FilesStart({"right"}, {})>>, <<Store({}, TRUE), Download({"content"}, FALSE)>>)},
  {Single("files", <<FilesStart({}, {"wrong"})>>, <<>>),
   Single("files", <<FilesStart({"wrong"}, {})>>, <<>>),
   Single("files", <<FilesStart({}, {})>>, <<Store(Values, FALSE)>>)},
  {Plan("logger", <<Call(<<[op |-> "logger"]>>, <<Log(TRUE)>>), Call(<<[op |-> "logger"]>>, <<Log(TRUE)>>)>>),
   Single("logger", <<[op |-> "logger"]>>, <<Log(TRUE), Log(FALSE)>>)},
  {Single("sawroom", <<SawroomStart(TRUE), Service("token"), Service("read"), Service("balance")>>,
          <<Service("execute"), Service("storeOutput"), Service("transfer")>>),
   Single("sawroom", <<SawroomStart(FALSE), Service("read")>>, <<Service("save")>>)},
  {Single("sawroom", <<SawroomStart(TRUE), Service("retrieve")>>, <<Service("store"), Service("save")>>),
   Plan("sawroom", <<Call(<<SawroomStart(TRUE)>>, <<Service("deposit")>>),
                     Call(<<SawroomStart(FALSE)>>, <<Service("withdraw")>>)>>)},
  {Single("ethereum", <<EthereumStart(TRUE), Service("nonce"), Service("retrieve"), Service("block")>>,
          <<Service("broadcast"), Service("broadcast")>>),
   Single("ethereum", <<EthereumStart(FALSE), Service("gasPrice")>>, <<>>)},
  {Single("ethereum", <<EthereumStart(TRUE), Service("balance"), Service("balances"), Invalid("erc20")>>, <<>>),
   Plan("ethereum", <<Call(<<EthereumStart(TRUE), Service("tokenId"), Service("owner"), Service("asset")>>, <<>>),
                      Call(<<EthereumStart(FALSE), Service("erc20")>>, <<Service("broadcast")>>)>>)}}

\* git
Commit(repo, files, defined) == [op |-> "commit", repo |-> repo, files |-> files, defined |-> defined]
Clone(repo) == [op |-> "clone", repo |-> repo]
Verify(repos) == [op |-> "verify", repos |-> repos]

GitScenarios == {
  {Single("git", <<Clone("one")>>, <<Commit("one", {"f", "g"}, TRUE)>>),
   Plan("git", <<Call(<<Verify({"one"})>>, <<Commit("one", {"g", "h"}, TRUE)>>),
                 Call(<<>>, <<Commit("one", {"f"}, FALSE)>>)>>)},
  {Single("git", <<Clone("one"), Clone("two")>>, <<Commit("two", {"f"}, TRUE)>>),
   Single("git", <<Verify({"one", "two"})>>, <<Commit("one", {"f", "g"}, TRUE)>>)}}

\* influxdb, timestamp
FluxConnect == [op |-> "fluxConnect"]
FluxQuery(n) == [op |-> "fluxQuery", queries |-> n, name |-> "a"]

SmallScenarios == {
  {Plan("influxdb", <<Call(<<FluxConnect, FluxQuery(2)>>, <<>>), Call(<<FluxQuery(1)>>, <<>>)>>),
   Single("influxdb", <<FluxQuery(1)>>, <<>>),
   Single("timestamp", <<[op |-> "timestamp", name |-> "a"]>>, <<>>)}}

\* Different middlewares in one process: the end of one request's is the end of
\* the other's.
MixedScenarios == {
  {Single("logger", <<[op |-> "logger"]>>, <<Log(TRUE)>>),
   Single("git", <<Clone("one")>>, <<Commit("one", {"f"}, TRUE)>>)}}

AllScenarios ==
  RedisScenarios \cup DbScenarios \cup FabricScenarios \cup PlanetmintScenarios \cup HttpScenarios
  \cup IdentityScenarios \cup SharedScenarios \cup GitScenarios \cup SmallScenarios \cup MixedScenarios
=============================================================================
