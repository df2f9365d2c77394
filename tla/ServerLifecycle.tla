--------------------------- MODULE ServerLifecycle ---------------------------
(***************************************************************************)
(* One process from main.go to its end: NewServer, Start and Shutdown of   *)
(* internal/server/server.go, with the streams that are open meanwhile.    *)
(*                                                                         *)
(* Goroutines: main, which builds the server, starts it and ends the       *)
(* process when Start returns; the two servers of Start's errgroup; the    *)
(* one that waits for a signal and calls Shutdown; the helper Shutdown     *)
(* starts to stop both servers gracefully; and a handler for each stream,  *)
(* which runs on for a while when the stream has ended.                    *)
(***************************************************************************)
EXTENDS Naturals, Sequences

CONSTANTS
    Stream,    \* JoinLobby streams, which end only when their clients leave
    Registry   \* what prometheus may say to a collector it has already

\* The program as it is gets "refuses"; "accepts" is for all that comes after.
ASSUME RegistryAssumption == Registry \subseteq {"refuses", "accepts"}

\* What NewServer pushes on the closer, in its order.
Resources == <<"logger", "consul", "telemetry", "redis", "nats", "health">>
Servers == {"http", "grpc"}

VARIABLES
    process,   \* up, exited (main returned), killed (by a signal), panicked
    main,
    built,     \* how many of Resources are there
    serving,   \* the goroutine of each server
    listener,  \* s.httpListener and s.grpcListener
    handler,   \* the goroutine that handles the signal, inside Shutdown too
    helper,    \* the goroutine Shutdown starts
    expired,   \* is Shutdown's context done?
    stopping,  \* of each server: no, draining (Shutdown, GracefulStop), stopped
    streams,   \* open; left by its client or cut by the server; or ended, as
               \* its handler has returned
    closed     \* the resources that closer.Close has closed

vars == <<process, main, built, serving, listener, handler, helper, expired,
          stopping, streams, closed>>

Built == {Resources[i] : i \in 1 .. built}
Open == {s \in Stream : streams[s] = "open"}
Handling == {s \in Stream : streams[s] \in {"open", "left", "cut"}}

Init ==
    /\ process = "up"
    /\ main = "build"
    /\ built = 0
    /\ serving = [s \in Servers |-> "off"]
    /\ listener = [s \in Servers |-> "nil"]
    /\ handler = "off"
    /\ helper = "off"
    /\ expired = FALSE
    /\ stopping = [s \in Servers |-> "no"]
    /\ streams = [s \in Stream |-> "none"]
    /\ closed = {}

\* The process ends, and takes every goroutine with it.
Ends(how) ==
    /\ process' = how
    /\ UNCHANGED <<main, built, serving, listener, handler, helper, expired,
                   stopping, streams, closed>>

-----------------------------------------------------------------------------
(* main: NewServer, then Start *)

\* Without telemetry NewServer goes on; without one of these it returns.
Build ==
    /\ main = "build"
    /\ built < Len(Resources)
    /\ \/ /\ built' = built + 1
          /\ UNCHANGED <<process, main, serving, listener, handler, helper, expired,
                         stopping, streams, closed>>
       \/ /\ Resources[built + 1] \in {"consul", "redis", "nats"}
          /\ Ends("exited")

\* metrics.Initialize registers what promauto has registered when the package
\* was loaded.  Then main starts the goroutine that waits for a signal.
Initialize ==
    /\ main = "build"
    /\ built = Len(Resources)
    /\ \/ "refuses" \in Registry /\ Ends("panicked")
       \/ /\ "accepts" \in Registry
          /\ main' = "start"
          /\ handler' = "spawned"
          /\ UNCHANGED <<process, built, serving, listener, helper, expired,
                         stopping, streams, closed>>

StartServers ==
    /\ main = "start"
    /\ main' = "register"
    /\ serving' = [s \in Servers |-> "spawned"]
    /\ UNCHANGED <<process, built, listener, handler, helper, expired, stopping,
                   streams, closed>>

\* RegisterService: on an error Start returns, whatever is being served.
Register ==
    /\ main = "register"
    /\ \/ /\ main' = "wait"
          /\ UNCHANGED <<process, built, serving, listener, handler, helper, expired,
                         stopping, streams, closed>>
       \/ Ends("exited")

\* group.Wait waits for both: the first error stops nobody.
StartReturns ==
    /\ main = "wait"
    /\ \A s \in Servers : serving[s] = "returned"
    /\ Ends("exited")

-----------------------------------------------------------------------------
(* The servers *)

\* Mutant: the return of server.go:168 and 183 left out.
ListenAnyway(s) ==
    /\ serving[s] = "spawned"
    /\ serving' = [serving EXCEPT ![s] = "serving"]
    /\ listener' \in {listener, [listener EXCEPT ![s] = "open"]}
    /\ UNCHANGED <<process, main, built, handler, helper, expired, stopping, streams,
                   closed>>

\* A listener that cannot be had is left nil.
Listen(s) ==
    /\ serving[s] = "spawned"
    /\ \/ /\ serving' = [serving EXCEPT ![s] = "serving"]
          /\ listener' = [listener EXCEPT ![s] = "open"]
       \/ /\ serving' = [serving EXCEPT ![s] = "returned"]
          /\ UNCHANGED listener
    /\ UNCHANGED <<process, main, built, handler, helper, expired, stopping, streams,
                   closed>>

\* http.Server.Serve returns as soon as Shutdown begins, grpc's when Stop or
\* GracefulStop is done; both close their listener.
ServeReturns(s) ==
    /\ serving[s] = "serving"
    /\ stopping[s] = "stopped" \/ (s = "http" /\ stopping[s] = "draining")
    /\ serving' = [serving EXCEPT ![s] = "returned"]
    /\ listener' = [listener EXCEPT ![s] = "closed"]
    /\ UNCHANGED <<process, main, built, handler, helper, expired, stopping, streams,
                   closed>>

OpenStream(s) ==
    /\ streams[s] = "none"
    /\ serving["grpc"] = "serving"
    /\ stopping["grpc"] = "no"
    /\ streams' = [streams EXCEPT ![s] = "open"]
    /\ UNCHANGED <<process, main, built, serving, listener, handler, helper, expired,
                   stopping, closed>>

ClientLeaves(s) ==
    /\ streams[s] = "open"
    /\ streams' = [streams EXCEPT ![s] = "left"]
    /\ UNCHANGED <<process, main, built, serving, listener, handler, helper, expired,
                   stopping, closed>>

\* JoinLobby returns some time after its stream's context is done.
HandlerReturns(s) ==
    /\ streams[s] \in {"left", "cut"}
    /\ streams' = [streams EXCEPT ![s] = "ended"]
    /\ UNCHANGED <<process, main, built, serving, listener, handler, helper, expired,
                   stopping, closed>>

-----------------------------------------------------------------------------
(* The signal and Shutdown *)

Notify ==
    /\ handler = "spawned"
    /\ handler' = "armed"
    /\ UNCHANGED <<process, main, built, serving, listener, helper, expired, stopping,
                   streams, closed>>

\* Before signal.Notify the signal has its default effect.
Signal ==
    \/ /\ handler = "armed"
       /\ handler' = "select"
       /\ helper' = "http"
       /\ UNCHANGED <<process, main, built, serving, listener, expired, stopping,
                      streams, closed>>
    \/ handler \in {"off", "spawned"} /\ Ends("killed")

Deadline ==
    /\ handler = "select"
    /\ ~expired
    /\ expired' = TRUE
    /\ UNCHANGED <<process, main, built, serving, listener, handler, helper, stopping,
                   streams, closed>>

\* The helper: httpServer.Shutdown, which may wait for a scrape to end, ...
StopHttp ==
    /\ \/ helper = "http" /\ helper' = "http_wait"
          /\ stopping' = [stopping EXCEPT !["http"] = "draining"]
       \/ helper = "http_wait" /\ helper' = "grpc"
          /\ stopping' = [stopping EXCEPT !["http"] = "stopped"]
    /\ UNCHANGED <<process, main, built, serving, listener, handler, expired, streams,
                   closed>>

\* Mutant: Stop in place of GracefulStop (server.go:212).
StopGrpcAtOnce ==
    /\ \/ /\ helper = "grpc"
          /\ helper' = "grpc_done"
          /\ stopping' = [stopping EXCEPT !["grpc"] = "stopped"]
          /\ streams' = [s \in Stream |-> IF s \in Open THEN "cut" ELSE streams[s]]
       \/ helper = "grpc_done" /\ helper' = "done" /\ UNCHANGED <<stopping, streams>>
    /\ UNCHANGED <<process, main, built, serving, listener, handler, expired, closed>>

\* ... then GracefulStop, which waits for every handler, then close(stopChan).
StopGrpc ==
    /\ \/ /\ helper = "grpc"
          /\ helper' = "grpc_wait"
          /\ stopping' = [stopping EXCEPT !["grpc"] = IF @ = "no" THEN "draining" ELSE @]
       \/ /\ helper = "grpc_wait"
          /\ Handling = {}
          /\ helper' = "grpc_done"
          /\ stopping' = [stopping EXCEPT !["grpc"] = "stopped"]
       \/ helper = "grpc_done" /\ helper' = "done" /\ UNCHANGED stopping
    /\ UNCHANGED <<process, main, built, serving, listener, handler, expired, streams,
                   closed>>

\* Mutant: the case <-stopChan entered without waiting (a default case).
SelectAtOnce ==
    /\ handler = "select"
    /\ handler' = "grpc_listener"
    /\ UNCHANGED <<process, main, built, serving, listener, helper, expired, stopping,
                   streams, closed>>

\* Mutant: the Stop of server.go:220 left out.
SelectNoStop ==
    /\ handler = "select"
    /\ helper = "done" \/ expired
    /\ handler' = "grpc_listener"
    /\ UNCHANGED <<process, main, built, serving, listener, helper, expired, stopping,
                   streams, closed>>

\* The select of Shutdown: all has stopped, or the deadline forces it.  Stop
\* cuts the streams and, as NewServer does not ask for WaitForHandlers, may
\* return before their handlers do.
Select ==
    /\ handler = "select"
    /\ \/ helper = "done" /\ UNCHANGED <<stopping, streams>>
       \/ /\ expired
          /\ stopping' = [stopping EXCEPT !["grpc"] = "stopped"]
          /\ streams' = [s \in Stream |-> IF s \in Open THEN "cut" ELSE streams[s]]
    /\ handler' = "grpc_listener"
    /\ UNCHANGED <<process, main, built, serving, listener, helper, expired, closed>>

\* Closing a listener that is closed is no error; one that is nil panics.
CloseListener(s) ==
    /\ handler = IF s = "grpc" THEN "grpc_listener" ELSE "http_listener"
    /\ \/ listener[s] = "nil" /\ Ends("panicked")
       \/ /\ listener[s] # "nil"
          /\ listener' = [listener EXCEPT ![s] = "closed"]
          /\ handler' = IF s = "grpc" THEN "http_listener" ELSE "logger"
          /\ UNCHANGED <<process, main, built, serving, helper, expired, stopping,
                         streams, closed>>

\* The logger's Close syncs standard output; its error skips the closer.
CloseLogger ==
    /\ handler = "logger"
    /\ handler' \in {"closer", "returned"}
    /\ UNCHANGED <<process, main, built, serving, listener, helper, expired, stopping,
                   streams, closed>>

\* closer.Close, in any order.
CloseResource(r) ==
    /\ handler = "closer"
    /\ r \in Built \ closed
    /\ closed' = closed \cup {r}
    /\ handler' = IF closed' = Built THEN "returned" ELSE handler
    /\ UNCHANGED <<process, main, built, serving, listener, helper, expired, stopping,
                   streams>>

-----------------------------------------------------------------------------
MainStep == Build \/ Initialize \/ StartServers \/ Register \/ StartReturns
ServerStep(s) == Listen(s) \/ ServeReturns(s)
HelperStep == StopHttp \/ StopGrpc
ShutdownStep ==
    \/ Notify
    \/ Deadline
    \/ Select
    \/ \E s \in Servers : CloseListener(s)
    \/ CloseLogger
    \/ \E i \in 1 .. built : CloseResource(Resources[i])

Next ==
    /\ process = "up"
    /\ \/ MainStep
       \/ \E s \in Servers : ServerStep(s)
       \/ HelperStep
       \/ ShutdownStep
       \/ Signal
       \/ \E s \in Stream : OpenStream(s) \/ ClientLeaves(s) \/ HandlerReturns(s)

Spec == Init /\ [][Next]_vars

\* Goroutines run and Shutdown's deadline comes.  No client is obliged to
\* leave, no handler to return, and no signal to be sent.
Fairness ==
    /\ WF_vars(process = "up" /\ MainStep)
    /\ \A s \in Servers : WF_vars(process = "up" /\ ServerStep(s))
    /\ WF_vars(process = "up" /\ HelperStep)
    /\ WF_vars(process = "up" /\ ShutdownStep)

FairSpec == Spec /\ Fairness

-----------------------------------------------------------------------------
LifecycleTypeOK ==
    /\ process \in {"up", "exited", "killed", "panicked"}
    /\ main \in {"build", "start", "register", "wait"}
    /\ built \in 0 .. Len(Resources)
    /\ serving \in [Servers -> {"off", "spawned", "serving", "returned"}]
    /\ listener \in [Servers -> {"nil", "open", "closed"}]
    /\ handler \in {"off", "spawned", "armed", "select", "grpc_listener",
                    "http_listener", "logger", "closer", "returned"}
    /\ helper \in {"off", "http", "http_wait", "grpc", "grpc_wait", "grpc_done", "done"}
    /\ expired \in BOOLEAN
    /\ stopping \in [Servers -> {"no", "draining", "stopped"}]
    /\ streams \in [Stream -> {"none", "open", "left", "cut", "ended"}]
    /\ closed \subseteq Built
    /\ \A s \in Servers : serving[s] = "serving" => listener[s] # "nil"

\* A signal that main handles ends the process, although GracefulStop waits
\* for streams whose clients never leave (server.go:212-221, main.go:40-57).
SignalEndsProcess == (handler = "select") ~> (process # "up")

\* A server that has registered drops no player before the deadline of its
\* shutdown, neither by stopping nor by ending (server.go:197, 212, 216).
NoStreamDroppedEarly ==
    [][main = "wait" =>
        \A s \in Open :
            streams'[s] = "cut" \/ process' \in {"exited", "panicked"} => expired]_vars

\* Redis and NATS are closed under no open stream, and under a handler that
\* still runs only if the deadline forced the stop: then its stream was left
\* or cut, and what it still asks of them fails (server.go:109, 216-235).  It
\* says nothing of the waiters, for whose goroutines nobody waits.
StoreOutlivesStreams ==
    closed \cap {"redis", "nats"} # {} =>
        Open = {} /\ (Handling = {} \/ expired)

\* Startup and shutdown report what goes wrong and return: the process never
\* panics (main.go:37 "Error starting server: ", main.go:52 "Server forced to
\* shutdown").
NeverPanics == process # "panicked"
=============================================================================
