------------------------------- MODULE Lifecycle -------------------------------
(* How the two services start and stop: cmd/server with internal/app/server.go *)
(* and the gRPC and HTTP servers of api, and cmd/consumer with                  *)
(* internal/app/consumer.go.  Their clients and resilience components are       *)
(* opened by internal/app/services.go and closed when main returns.             *)
EXTENDS FiniteSets, Integers

CONSTANTS
  Work,      \* what is served: HTTP requests, RPCs, or the consumer's shards
  None,
  MaxSignals \* bound: SIGINT and SIGTERM sent

LifecycleAssumption ==
  MaxSignals \in Nat /\ None \notin {"closed", "fatal", "killed"}

VARIABLES
  program,   \* "server" or "consumer"
  main,      \* the next step of main's goroutine
  open,      \* the components that were opened and not closed
  server,    \* per server: the state of the goroutine that runs it
  work,      \* per piece of work: where it is served, "running", "cut" or "done"
  cancelled, \* the application's context was cancelled
  overdue,   \* the servers whose time to stop ran out
  signals,
  exit,      \* how the process ended: "closed", "fatal" or "killed"
  waits      \* whether gRPC, told to stop by force, still waits for its handlers

vars == <<program, main, open, server, work, cancelled, overdue, signals, exit, waits>>

Servers == {"http", "grpc", "consumer"}
Running(s) == {w \in Work : work[w].server = s /\ work[w].state \in {"running", "cut"}}

\* A call that takes its turn in main; when it fails main logs the error with
\* Fatal, which ends the process and runs none of its deferred calls.
Goto(l) == main' = l /\ UNCHANGED exit
Fatal   == main' = "exited" /\ exit' = "fatal"

-----------------------------------------------------------------------------
(* Start.                                                                  *)

\* What InitializeAPIServices and InitializeConsumerServices open, in order.
After(c) ==
  CASE c = "clickhouse" -> "kinesis"
    [] c = "kinesis"    -> IF program = "server" THEN "s3" ELSE "start consumer"
    [] c = "s3"         -> "resilience"
    [] c = "resilience" -> "start http"

\* The S3 client needs no closing; without a region it is not made.
Initialize ==
  /\ main \in {"clickhouse", "kinesis", "s3", "resilience"}
  /\ \/ Goto(After(main)) /\ open' = IF main = "s3" THEN open ELSE open \cup {main}
     \/ Fatal /\ UNCHANGED open
  /\ UNCHANGED <<program, server, work, cancelled, overdue, signals, waits>>

\* startHTTPServer and startGRPCServer make a server and leave it to a goroutine;
\* an error of the second is fatal while the first one may already serve.
StartServer(s) ==
  /\ main = (CASE s = "http" -> "start http" [] s = "grpc" -> "start grpc" [] s = "consumer" -> "start consumer")
  /\ \/ /\ Goto(IF s = "http" THEN "start grpc" ELSE "await")
        /\ server' = [server EXCEPT ![s] = "starting"]
     \/ Fatal /\ UNCHANGED server
  /\ UNCHANGED <<program, open, work, cancelled, overdue, signals, waits>>

Stopping(s) == IF s = "http" THEN main \in {"stop http", "stop grpc", "wait"} ELSE cancelled

\* The goroutine listens and serves; an error is only logged, and the process
\* goes on with what it has.
Listen(s) ==
  /\ server[s] = "starting"
  /\ \E state \in IF Stopping(s) THEN {"stopped"} ELSE {"serving", "failed"} :
       server' = [server EXCEPT ![s] = state]
  /\ UNCHANGED <<program, main, open, work, cancelled, overdue, signals, exit, waits>>

-----------------------------------------------------------------------------
(* Work.                                                                   *)

Accept(w, s) ==
  /\ main # "exited"
  /\ work[w].state = "none" /\ server[s] = "serving"
  /\ work' = [work EXCEPT ![w] = [server |-> s, state |-> "running"]]
  /\ UNCHANGED <<program, main, open, server, cancelled, overdue, signals, exit, waits>>

Finish(w) ==
  /\ main # "exited"
  /\ work[w].state \in {"running", "cut"}
  /\ work' = [work EXCEPT ![w].state = "done"]
  /\ UNCHANGED <<program, main, open, server, cancelled, overdue, signals, exit, waits>>

\* Its connection is closed and its context cancelled; the handler is not stopped.
Cut(s) == [w \in Work |-> IF w \in Running(s) THEN [work[w] EXCEPT !.state = "cut"] ELSE work[w]]

-----------------------------------------------------------------------------
(* Stop.                                                                   *)

\* Only waitForShutdown listens for signals, and for the first one only: earlier
\* or later ones kill the process.
Signal ==
  /\ main # "exited" /\ signals < MaxSignals
  /\ signals' = signals + 1
  /\ IF main = "await" THEN Goto(IF program = "server" THEN "shutdown" ELSE "stop consumer")
                       ELSE main' = "exited" /\ exit' = "killed"
  /\ UNCHANGED <<program, open, server, work, cancelled, overdue, waits>>

\* shutdown cancels the context, which has the gRPC server stop, and then shuts
\* the HTTP server down.
Shutdown ==
  /\ main = "shutdown"
  /\ Goto("stop http")
  /\ cancelled' = TRUE
  /\ server' = [server EXCEPT !["http"] = IF @ = "serving" THEN "draining" ELSE @]
  /\ UNCHANGED <<program, open, work, overdue, signals, waits>>

\* Mutated form: http.Server.Close, which waits for no request.
HTTPIdle_Close == TRUE

HTTPIdle == Running("http") = {}

\* http.Server.Shutdown returns when no request runs, or after ShutdownTimeout;
\* ListenAndServe has returned by then.
StopHTTP ==
  /\ main = "stop http"
  /\ Goto("stop grpc")
  /\ server' = [server EXCEPT !["http"] = IF @ = "draining" THEN "stopped" ELSE @]
  /\ \/ HTTPIdle /\ UNCHANGED overdue
     \/ overdue' = overdue \cup {"http"}
  /\ UNCHANGED <<program, open, work, cancelled, signals, waits>>

\* The context is done: Server.Start stops its server, and takes all the time
\* that takes.
GracefulStop ==
  /\ cancelled /\ server["grpc"] = "serving"
  /\ server' = [server EXCEPT !["grpc"] = "draining"]
  /\ UNCHANGED <<program, main, open, work, cancelled, overdue, signals, exit, waits>>

\* Every RPC has returned, or the server was stopped by force.
Drained(s) == Running(s) = {} \/ (s \in overdue /\ ~waits)

GracefulStopReturns ==
  /\ server["grpc"] = "draining" /\ Drained("grpc")
  /\ server' = [server EXCEPT !["grpc"] = "stopped"]
  /\ UNCHANGED <<program, main, open, work, cancelled, overdue, signals, exit, waits>>

\* Mutated form: the second stop waits for its goroutine without a limit.
TimedOut_Never(s) == FALSE

\* The context with the stop's timeout may be done before the stop is.
TimedOut(s) == TRUE

\* Server.Stop: its services have nothing to stop; its GracefulStop has 10
\* seconds before the server is stopped by force.
StopGRPC ==
  /\ main = "stop grpc"
  /\ Goto("wait")
  /\ \/ Running("grpc") = {} /\ UNCHANGED <<overdue, work>>
     \/ TimedOut("grpc") /\ overdue' = overdue \cup {"grpc"} /\ work' = Cut("grpc")
  /\ server' = [server EXCEPT !["grpc"] = IF @ = "serving" THEN "draining" ELSE @]
  /\ UNCHANGED <<program, open, cancelled, signals, waits>>

\* KinesisConsumer.Stop has 30 seconds; then the context is cancelled.
StopConsumer ==
  /\ main = "stop consumer"
  /\ Goto("close buffer")
  /\ cancelled' = TRUE
  /\ \/ Running("consumer") = {} /\ UNCHANGED <<overdue, work>>
     \/ TimedOut("consumer") /\ overdue' = overdue \cup {"consumer"} /\ work' = Cut("consumer")
  /\ server' = [server EXCEPT !["consumer"] = "stopped"]
  /\ UNCHANGED <<program, open, signals, waits>>

\* The WaitGroup counts the goroutines of both servers.
WaitServers ==
  /\ main = "wait"
  /\ \A s \in {"http", "grpc"} : server[s] \in {"stopped", "failed"}
  /\ Goto("close buffer")
  /\ UNCHANGED <<program, open, server, work, cancelled, overdue, signals, waits>>

\* Services.Close, deferred by main: the buffer, which flushes what it holds
\* through the Kinesis client, and the limiter first.
CloseResilience ==
  /\ main = "close buffer"
  /\ open' = open \ {"resilience"}
  /\ Goto("close clients")
  /\ UNCHANGED <<program, server, work, cancelled, overdue, signals, waits>>

CloseClients ==
  /\ main = "close clients"
  /\ open' = {}
  /\ main' = "exited" /\ exit' = "closed"
  /\ UNCHANGED <<program, server, work, cancelled, overdue, signals, waits>>

-----------------------------------------------------------------------------

Init ==
  /\ program \in {"server", "consumer"} /\ main = "clickhouse"
  /\ open = {} /\ server = [s \in Servers |-> "none"]
  /\ work = [w \in Work |-> [server |-> None, state |-> "none"]]
  /\ cancelled = FALSE /\ overdue = {} /\ signals = 0 /\ exit = None
  /\ waits \in BOOLEAN

Main ==
  \/ Initialize \/ \E s \in Servers : StartServer(s)
  \/ Shutdown \/ StopHTTP \/ StopGRPC \/ StopConsumer \/ WaitServers
  \/ CloseResilience \/ CloseClients

Goroutines == (\E s \in Servers : Listen(s)) \/ GracefulStop \/ GracefulStopReturns

Next ==
  \/ Main
  \/ main # "exited" /\ Goroutines
  \/ Signal
  \/ \E w \in Work : Finish(w) \/ \E s \in Servers : Accept(w, s)

\* The process runs its goroutines, a timeout passes, and a handler whose
\* context was cancelled returns; nothing else makes work end.
Fairness ==
  /\ WF_vars(Main) /\ WF_vars(main # "exited" /\ Goroutines)
  /\ \A w \in Work : WF_vars(Finish(w) /\ work[w].state = "cut")

Spec == Init /\ [][Next]_vars

FairSpec == Spec /\ Fairness

-----------------------------------------------------------------------------
(* Properties.                                                             *)

TypeOK ==
  /\ open \subseteq {"clickhouse", "kinesis", "resilience"}
  /\ server \in [Servers -> {"none", "starting", "serving", "failed", "draining", "stopped"}]
  /\ overdue \subseteq Servers
  /\ exit = None <=> main # "exited"

\* Nothing is closed under work that uses it, unless its server ran out of time:
\* the order of Shutdown, Stop, the WaitGroup and the deferred Close sees to it
\* that each request and shard still finds the buffer and the clients open.
OpenWhileServed ==
  main \in {"close clients", "exited"} /\ exit \in {None, "closed"} =>
    \A s \in Servers \ overdue : Running(s) = {}

\* A process that was asked to stop ends, even if requests never do: two stops
\* of the gRPC server run at once, one of them without a limit.
ShutdownCompletes == (main \in {"shutdown", "stop consumer"}) ~> (main = "exited")
=============================================================================
