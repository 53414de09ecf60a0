----------------------------- MODULE ServerProofs -----------------------------
(***************************************************************************)
(* Proofs about module Server, for any messages, requests and channel.     *)
(***************************************************************************)
EXTENDS Server, TLAPS

-----------------------------------------------------------------------------
(* Type correctness                                                        *)

\* Every step of the router keeps its types.
LEMMA RouterLoopTypes ==
    ASSUME RouterTypeOK, RouterLoop
    PROVE  RouterTypeOK'
<1> USE RouterAssumption DEF RouterTypeOK, Kinds
<1>1. CASE Receive
  <2>1. feed' \in Seq(Messages) /\ Len(feed') =< ChannelSize
    BY <1>1 DEF Receive, Rest
  <2>2. current' \in Messages
    BY <1>1 DEF Receive
  <2> QED BY <1>1, <2>1, <2>2 DEF Receive
<1>2. CASE Skip
  BY <1>2 DEF Skip, Continue
<1>3. CASE Dispatch
  BY <1>3 DEF Dispatch
<1>4. CASE HandlerReturns
  BY <1>4 DEF HandlerReturns
<1>5. CASE CloseSubscription
  BY <1>5 DEF CloseSubscription
<1> QED BY <1>1, <1>2, <1>3, <1>4, <1>5 DEF RouterLoop

\* So does every message another process publishes.
LEMMA PublishTypes ==
    ASSUME RouterTypeOK, NEW m \in Messages, Publish(m)
    PROVE  RouterTypeOK'
<1>1. feed' \in Seq(Messages) /\ Len(feed') =< ChannelSize
  BY RouterAssumption DEF Publish, HasRoom, RouterTypeOK
<1> QED BY <1>1 DEF Publish, RouterTypeOK

\* The end of the process keeps the types of the requests.
LEMMA ExitTypes ==
    ASSUME ServerTypeOK, NEW status \in {"fatal", "timeout", "returned"}, Exit(status)
    PROVE  /\ main' = "ended" /\ exit' = status
           /\ request' \in [Requests -> InProgress \cup {"none", "answered", "failed", "cut"}]
BY DEF Exit, ServerTypeOK, InProgress

THEOREM ServerTypes == ServerSpec => []ServerTypeOK
<1>1. ServerInit => ServerTypeOK
  <2> SUFFICES ASSUME ServerInit PROVE ServerTypeOK
    OBVIOUS
  <2>1. RouterTypeOK
    <3>1. stopped \in BOOLEAN
      BY Zenon DEF ServerInit, RouterInit
    <3>2. feed \in Seq(Messages) /\ Len(feed) =< ChannelSize
      BY RouterAssumption DEF ServerInit, RouterInit
    <3> QED BY <3>1, <3>2 DEF ServerInit, RouterInit, RouterTypeOK
  <2>2. request \in [Requests -> InProgress \cup {"none", "answered", "failed", "cut"}]
    BY DEF ServerInit
  <2>3. quit \in BOOLEAN
    BY Zenon DEF ServerInit
  <2> QED BY <2>1, <2>2, <2>3 DEF ServerInit, ServerTypeOK, Booting
<1>2. ASSUME ServerTypeOK, [Next]_vars
      PROVE  ServerTypeOK'
  <2> USE <1>2 DEF ServerTypeOK, Booting
  <2>1. CASE Connect
    BY <2>1 DEF Connect, routerVars, RouterTypeOK
  <2>2. CASE Subscribe
    BY <2>2 DEF Subscribe, NewRouter, RouterTypeOK
  <2>3. CASE NewSessionsManager
    BY <2>3 DEF NewSessionsManager, RegisterCallbacks, SetCallbacks, RouterTypeOK
  <2>4. CASE Start
    BY <2>4 DEF Start, StartRouter, RouterTypeOK
  <2>5. CASE ListenAndServe
    BY <2>5 DEF ListenAndServe, routerVars, RouterTypeOK
  <2>6. CASE Shutdown
    <3>1. quit' \in BOOLEAN
      BY <2>6, Zenon DEF Shutdown
    <3> QED BY <2>6, <3>1 DEF Shutdown, routerVars, RouterTypeOK
  <2>7. CASE ServeReturns
    BY <2>7 DEF ServeReturns, routerVars, RouterTypeOK
  <2>8. CASE MainReturns
    BY <2>8, ExitTypes DEF MainReturns, routerVars, RouterTypeOK
  <2>9. CASE HookStep
    BY <2>9 DEF HookStep, HookClosesManager, HookSeesStopped, HookClosesRedis,
                HookClosesDb, HookAt, ShutdownOrder, routerVars, RouterTypeOK
  <2>10. CASE HookSendsStop
    BY <2>10 DEF HookSendsStop, TakeStop, serverVars, RouterTypeOK
  <2>11. CASE StartFails
    BY <2>11, ExitTypes DEF StartFails, routerVars, RouterTypeOK
  <2>12. CASE MessageArrives
    BY <2>12, PublishTypes DEF MessageArrives, serverVars
  <2>13. CASE RouterSteps
    BY <2>13, RouterLoopTypes DEF RouterSteps, serverVars
  <2>14. CASE Signal
    BY <2>14 DEF Signal, routerVars, RouterTypeOK
  <2>15. CASE ShutdownReturns
    BY <2>15 DEF ShutdownReturns, routerVars, RouterTypeOK
  <2>16. CASE ShutdownTimesOut
    BY <2>16, ExitTypes DEF ShutdownTimesOut, routerVars, RouterTypeOK
  <2>17. ASSUME NEW r \in Requests,
                RequestArrives(r) \/ RequestQueries(r) \/ RequestAnswers(r)
         PROVE  ServerTypeOK'
    BY <2>17 DEF RequestArrives, RequestQueries, RequestAnswers, InProgress,
                 routerVars, RouterTypeOK
  <2>18. CASE UNCHANGED vars
    BY <2>18 DEF vars, routerVars, serverVars, RouterTypeOK
  <2> QED
    BY <2>1, <2>2, <2>3, <2>4, <2>5, <2>6, <2>7, <2>8, <2>9, <2>10, <2>11, <2>12,
       <2>13, <2>14, <2>15, <2>16, <2>17, <2>18 DEF Next, MainStep
<1> QED BY <1>1, <1>2, PTL DEF ServerSpec

-----------------------------------------------------------------------------
(* The links outlive the router, and the callbacks precede it              *)

\* What holds because main starts things in this order.
Started ==
    /\ main \in {"connect", "subscribe", "manager", "start"} => loop = "none" /\ hook = 0
    /\ shutdown = "none" => hook = 0
    /\ main \in {"subscribe", "manager", "start"} => redis # "none" /\ db # "none"
    /\ loop # "none" => redis # "none" /\ db # "none"
    /\ main = "start" => callbacks = Methods
    /\ loop # "none" => callbacks = Methods
    /\ loop = "handling" => KindOf[current] \in Methods

\* What holds because the registered function stops things in this order.
Stopping ==
    /\ stopped => loop = "ended"
    /\ hook > 2 => loop = "ended"
    /\ redis = "closed" => hook > 3
    /\ db = "closed" => hook > 4

LinksInv == Started /\ Stopping

LEMMA LinksInductive ==
    ASSUME ServerTypeOK, LinksInv, [Next]_vars
    PROVE  LinksInv'
<1> USE DEF ServerTypeOK, RouterTypeOK, LinksInv, Started, Stopping, Booting
<1>1. CASE Connect
  BY <1>1 DEF Connect, routerVars
<1>2. CASE Subscribe
  BY <1>2 DEF Subscribe, NewRouter
<1>3. CASE NewSessionsManager
  BY <1>3 DEF NewSessionsManager, RegisterCallbacks, SetCallbacks
<1>4. CASE Start
  BY <1>4 DEF Start, StartRouter
<1>5. CASE ListenAndServe
  BY <1>5 DEF ListenAndServe, routerVars
<1>6. CASE Shutdown
  BY <1>6 DEF Shutdown, routerVars
<1>7. CASE ServeReturns
  BY <1>7 DEF ServeReturns, routerVars
<1>8. CASE MainReturns
  BY <1>8 DEF MainReturns, Exit, routerVars
<1>9. CASE HookStep
  BY <1>9 DEF HookStep, HookClosesManager, HookSeesStopped, HookClosesRedis,
              HookClosesDb, HookAt, ShutdownOrder, routerVars
<1>10. CASE HookSendsStop
  BY <1>10 DEF HookSendsStop, TakeStop, HookAt, serverVars
<1>11. CASE StartFails
  BY <1>11 DEF StartFails, Exit, routerVars
<1>12. CASE MessageArrives
  BY <1>12 DEF MessageArrives, Publish, serverVars
<1>13. CASE RouterSteps
  <2>1. CASE Receive
    BY <1>13, <2>1 DEF RouterSteps, Receive, serverVars
  <2>2. CASE Skip
    BY <1>13, <2>2 DEF RouterSteps, Skip, Continue, serverVars
  <2>3. CASE Dispatch
    BY <1>13, <2>3 DEF RouterSteps, Dispatch, serverVars
  <2>4. CASE HandlerReturns
    BY <1>13, <2>4 DEF RouterSteps, HandlerReturns, serverVars
  <2>5. CASE CloseSubscription
    BY <1>13, <2>5 DEF RouterSteps, CloseSubscription, serverVars
  <2> QED BY <1>13, <2>1, <2>2, <2>3, <2>4, <2>5 DEF RouterSteps, RouterLoop
<1>14. CASE Signal
  BY <1>14 DEF Signal, routerVars
<1>15. CASE ShutdownReturns
  BY <1>15 DEF ShutdownReturns, routerVars
<1>16. CASE ShutdownTimesOut
  BY <1>16 DEF ShutdownTimesOut, Exit, routerVars
<1>17. ASSUME NEW r \in Requests,
              RequestArrives(r) \/ RequestQueries(r) \/ RequestAnswers(r)
       PROVE  LinksInv'
  BY <1>17 DEF RequestArrives, RequestQueries, RequestAnswers, routerVars
<1>18. CASE UNCHANGED vars
  BY <1>18 DEF vars, routerVars, serverVars
<1> QED
  BY <1>1, <1>2, <1>3, <1>4, <1>5, <1>6, <1>7, <1>8, <1>9, <1>10, <1>11, <1>12,
     <1>13, <1>14, <1>15, <1>16, <1>17, <1>18 DEF Next, MainStep

LEMMA LinksInvariant == ServerSpec => []LinksInv
<1>1. ServerInit => LinksInv
  BY DEF ServerInit, RouterInit, LinksInv, Started, Stopping, Booting
<1>2. ServerTypeOK /\ LinksInv /\ [Next]_vars => LinksInv'
  BY LinksInductive
<1> QED BY <1>1, <1>2, ServerTypes, PTL DEF ServerSpec

\* No handler runs without Redis or the database: the registered function
\* of main closes them after the router has ended.
THEOREM LinksOutliveHandlers == ServerSpec => []HandlersHaveLinks
<1>1. ServerTypeOK /\ LinksInv => HandlersHaveLinks
  BY DEF ServerTypeOK, LinksInv, Started, Stopping, HandlersHaveLinks
<1> QED BY <1>1, ServerTypes, LinksInvariant, PTL

\* The router calls no callback that was not set.
THEOREM NoCallbackIsNil == ServerSpec => []CallbacksAreSet
<1>1. LinksInv => CallbacksAreSet
  BY DEF LinksInv, Started, CallbacksAreSet
<1> QED BY <1>1, LinksInvariant, PTL
=============================================================================
