------------------------- MODULE ServerLifecycleProofs -------------------------
(***************************************************************************)
(* What the order of Shutdown is good for, for any number of streams and   *)
(* whatever fails on the way.                                              *)
(***************************************************************************)
EXTENDS ServerLifecycle, TLAPS

\* Shutdown has left its select.
PastSelect == handler \in {"grpc_listener", "http_listener", "logger", "closer", "returned"}

\* Until main starts them nobody serves and nobody waits for a signal.  Then: a
\* gRPC server that does not serve has no stream, one that is stopped keeps none,
\* one that was stopped gracefully has no handler either, and nothing is closed
\* before it is stopped.
StopInv ==
    /\ streams \in [Stream -> {"none", "open", "left", "cut", "ended"}]
    /\ stopping \in [Servers -> {"no", "draining", "stopped"}]
    /\ serving \in [Servers -> {"off", "spawned", "serving", "returned"}]
    /\ main = "build" => handler = "off"
    /\ main \in {"build", "start"} => serving["grpc"] = "off"
    /\ stopping["grpc"] = "stopped" \/ serving["grpc"] # "serving" => Open = {}
    /\ helper \in {"grpc_done", "done"} \/ PastSelect => stopping["grpc"] = "stopped"
    /\ helper \in {"grpc_done", "done"} => Handling = {}
    /\ PastSelect => Handling = {} \/ expired
    /\ closed # {} => PastSelect

LEMMA StopInvInit == Init => StopInv
  BY DEF Init, StopInv, Open, Handling, PastSelect, Servers

\* What a step can do to the streams.
LEMMA StreamSteps ==
  ASSUME StopInv, Next
  PROVE  \/ streams' = streams
         \/ \E s \in Stream : OpenStream(s) \/ ClientLeaves(s) \/ HandlerReturns(s)
         \/ Select /\ expired /\ stopping'["grpc"] = "stopped" /\ Open' = {}
<1>1. CASE Select
  BY <1>1 DEF Select, StopInv, Servers, Open
<1>2. CASE MainStep
  BY <1>2 DEF MainStep, Build, Initialize, StartServers, Register, StartReturns, Ends
<1>3. ASSUME NEW s \in Servers, ServerStep(s)
      PROVE  streams' = streams
  BY <1>3 DEF ServerStep, Listen, ServeReturns
<1>4. CASE HelperStep
  BY <1>4 DEF HelperStep, StopHttp, StopGrpc
<1>5. CASE ShutdownStep
  BY <1>1, <1>5 DEF ShutdownStep, Notify, Deadline, CloseListener, CloseLogger,
                    CloseResource, Ends
<1>6. CASE Signal
  BY <1>6 DEF Signal, Ends
<1> QED
  BY <1>1, <1>2, <1>3, <1>4, <1>5, <1>6 DEF Next

LEMMA StopInvNext == StopInv /\ [Next]_vars => StopInv'
<1> SUFFICES ASSUME StopInv, [Next]_vars
             PROVE  StopInv'
  OBVIOUS
<1> USE DEF StopInv, PastSelect, Open, Handling, Servers
<1>1. CASE MainStep
  <2>1. CASE Build \/ Register \/ StartReturns
    BY <2>1 DEF Build, Register, StartReturns, Ends
  <2>2. CASE Initialize
    BY <2>2 DEF Initialize, Ends
  <2>3. CASE StartServers
    BY <2>3 DEF StartServers
  <2> QED
    BY <1>1, <2>1, <2>2, <2>3 DEF MainStep
<1>2. ASSUME NEW s \in Servers, ServerStep(s)
      PROVE  StopInv'
  BY <1>2 DEF ServerStep, Listen, ServeReturns
<1>3. CASE HelperStep
  BY <1>3 DEF HelperStep, StopHttp, StopGrpc
<1>4. CASE Notify \/ Deadline \/ CloseLogger \/ Select
  BY <1>4 DEF Notify, Deadline, CloseLogger, Select
<1>5. ASSUME NEW s \in Servers, CloseListener(s)
      PROVE  StopInv'
  BY <1>5 DEF CloseListener, Ends
<1>6. ASSUME NEW r, CloseResource(r)
      PROVE  StopInv'
  BY <1>6 DEF CloseResource
<1>7. CASE Signal
  BY <1>7 DEF Signal, Ends
<1>8. ASSUME NEW s \in Stream, OpenStream(s) \/ ClientLeaves(s) \/ HandlerReturns(s)
      PROVE  StopInv'
  <2>1. CASE OpenStream(s)
    BY <2>1 DEF OpenStream
  <2>2. CASE ClientLeaves(s)
    BY <2>2 DEF ClientLeaves
  <2>3. CASE HandlerReturns(s)
    BY <2>3 DEF HandlerReturns
  <2> QED
    BY <1>8, <2>1, <2>2, <2>3
<1>9. CASE UNCHANGED vars
  BY <1>9 DEF vars
<1> QED
  BY <1>1, <1>2, <1>3, <1>4, <1>5, <1>6, <1>7, <1>8, <1>9 DEF Next, ShutdownStep

\* Redis and NATS outlive every open stream, whichever of the helper and the
\* deadline ends the select first: past it the gRPC server is stopped, which
\* cuts what was left and admits no more.  They outlive every handler as well
\* unless the deadline forced the stop (server.go:109, 216-235).
THEOREM StreamsEndFirst == Spec => []StoreOutlivesStreams
<1>1. StopInv => StoreOutlivesStreams
  BY DEF StopInv, StoreOutlivesStreams
<1> QED
  BY StopInvInit, StopInvNext, <1>1, PTL DEF Spec

\* Between registration and the deadline of the shutdown no step drops a
\* player: not the end of Start either, because its group waits for a gRPC
\* server that stops when its streams have ended (server.go:197, 212).
THEOREM PlayersHaveTheirTime == Spec => NoStreamDroppedEarly
<1> DEFINE Kept ==
      main = "wait" =>
        \A s \in Open :
          streams'[s] = "cut" \/ process' \in {"exited", "panicked"} => expired
<1>1. ASSUME StopInv, Next, ~UNCHANGED vars
      PROVE  Kept
  <2> SUFFICES ASSUME main = "wait", NEW s \in Open,
                      streams'[s] = "cut" \/ process' \in {"exited", "panicked"}
               PROVE  expired
    OBVIOUS
  <2>1. CASE streams'[s] = "cut"
    <3>1. streams \in [Stream -> {"none", "open", "left", "cut", "ended"}] /\ streams[s] = "open"
      BY <1>1 DEF StopInv, Open
    <3>2. ~(\E t \in Stream : OpenStream(t) \/ ClientLeaves(t) \/ HandlerReturns(t))
      BY <2>1, <3>1 DEF OpenStream, ClientLeaves, HandlerReturns, Open
    <3> QED
      BY <1>1, <2>1, <3>1, <3>2, StreamSteps
  <2>2. CASE process' \in {"exited", "panicked"}
    <3>1. process = "up" /\ serving["grpc"] = "serving" /\ ~PastSelect
      BY <1>1 DEF StopInv, Next
    <3>2. ~MainStep
      BY <2>2, <3>1
         DEF MainStep, Build, Initialize, StartServers, Register, StartReturns, Servers
    <3> QED
      BY <1>1, <2>2, <3>1, <3>2
         DEF Next, ServerStep, Listen, ServeReturns, HelperStep, StopHttp, StopGrpc,
             ShutdownStep, Notify, Deadline, Select, CloseListener, CloseLogger,
             CloseResource, PastSelect, Signal, Ends, OpenStream, ClientLeaves,
             HandlerReturns
  <2> QED
    BY <2>1, <2>2
<1>2. StopInv /\ [Next]_vars => [Kept]_vars
  BY <1>1
<1> QED
  BY StopInvInit, StopInvNext, <1>2, PTL DEF Spec, NoStreamDroppedEarly

-----------------------------------------------------------------------------
(* Types *)

LEMMA TypesInit == Init => LifecycleTypeOK
<1> SUFFICES ASSUME Init
             PROVE  LifecycleTypeOK
  OBVIOUS
<1>1. built \in 0 .. Len(Resources) /\ closed \subseteq Built
  BY DEF Init, Resources
<1>2. /\ serving \in [Servers -> {"off", "spawned", "serving", "returned"}]
      /\ listener \in [Servers -> {"nil", "open", "closed"}]
      /\ stopping \in [Servers -> {"no", "draining", "stopped"}]
      /\ streams \in [Stream -> {"none", "open", "left", "cut", "ended"}]
  BY DEF Init
<1>3. \A s \in Servers : serving[s] = "serving" => listener[s] # "nil"
  BY DEF Init
<1> QED
  BY <1>1, <1>2, <1>3 DEF Init, LifecycleTypeOK

LEMMA TypesNext == StopInv /\ LifecycleTypeOK /\ [Next]_vars => LifecycleTypeOK'
<1> SUFFICES ASSUME StopInv, LifecycleTypeOK, [Next]_vars
             PROVE  LifecycleTypeOK'
  OBVIOUS
<1> USE DEF LifecycleTypeOK, Servers
<1>1. Len(Resources) = 6
  BY DEF Resources
<1>2. ASSUME built' = built
      PROVE  Built' = Built
  BY <1>2 DEF Built
<1>3. CASE Build
  <2>1. closed = {}
    BY <1>3 DEF Build, StopInv, PastSelect
  <2>2. CASE built' = built + 1 /\ UNCHANGED <<process, main, serving, listener, handler,
                                              helper, expired, stopping, streams, closed>>
    <3>1. built' \in 0 .. Len(Resources)
      BY <1>1, <1>3, <2>2 DEF Build
    <3> QED
      BY <2>1, <2>2, <3>1
  <2>3. CASE Ends("exited")
    BY <1>2, <2>3 DEF Ends
  <2> QED
    BY <1>3, <2>2, <2>3 DEF Build
<1>4. CASE Initialize
  BY <1>2, <1>4 DEF Initialize, Ends
<1>5. CASE StartServers \/ Register \/ StartReturns
  BY <1>2, <1>5 DEF StartServers, Register, StartReturns, Ends
<1>6. ASSUME NEW s \in Servers, ServerStep(s)
      PROVE  LifecycleTypeOK'
  BY <1>2, <1>6 DEF ServerStep, Listen, ServeReturns
<1>7. CASE StopHttp
  BY <1>2, <1>7 DEF StopHttp
<1>8. CASE StopGrpc
  BY <1>2, <1>8 DEF StopGrpc
<1>9. CASE Notify \/ Deadline \/ CloseLogger
  <2>1. CASE Notify
    BY <1>2, <2>1 DEF Notify
  <2>2. CASE Deadline
    BY <1>2, <2>2 DEF Deadline
  <2>3. CASE CloseLogger
    BY <1>2, <2>3 DEF CloseLogger
  <2> QED
    BY <1>9, <2>1, <2>2, <2>3
<1>10. CASE Select
  BY <1>2, <1>10 DEF Select
<1>11. ASSUME NEW s \in Servers, CloseListener(s)
       PROVE  LifecycleTypeOK'
  BY <1>2, <1>11 DEF CloseListener, Ends
<1>12. ASSUME NEW r, CloseResource(r)
       PROVE  LifecycleTypeOK'
  BY <1>2, <1>12 DEF CloseResource
<1>13. CASE Signal
  BY <1>2, <1>13 DEF Signal, Ends
<1>14. ASSUME NEW s \in Stream, OpenStream(s) \/ ClientLeaves(s) \/ HandlerReturns(s)
       PROVE  LifecycleTypeOK'
  BY <1>2, <1>14 DEF OpenStream, ClientLeaves, HandlerReturns
<1>15. CASE UNCHANGED vars
  BY <1>2, <1>15 DEF vars
<1> QED
  BY <1>3, <1>4, <1>5, <1>6, <1>7, <1>8, <1>9, <1>10, <1>11, <1>12, <1>13, <1>14, <1>15
     DEF Next, MainStep, HelperStep, ShutdownStep

\* Only what NewServer has built is closed, although Shutdown runs beside main,
\* and no server serves without a listener (server.go:161-189, 235).
THEOREM LifecycleTypeCorrect == Spec => []LifecycleTypeOK
<1>1. StopInv /\ LifecycleTypeOK /\ [Next]_vars => (StopInv /\ LifecycleTypeOK)'
  BY StopInvNext, TypesNext
<1> QED
  BY StopInvInit, TypesInit, <1>1, PTL DEF Spec
=============================================================================
