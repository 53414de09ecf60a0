-------------------------------- MODULE Server --------------------------------
(***************************************************************************)
(* main of cmd/server/main.go: the order in which the server is put        *)
(* together, the goroutine that waits for a signal, and the function       *)
(* registered with RegisterOnShutdown, which net/http runs in a goroutine  *)
(* of its own while Shutdown waits for the requests in progress.  The      *)
(* router is that of module Router; an HTTP request makes one statement    *)
(* and answers.                                                            *)
(***************************************************************************)
EXTENDS Router

CONSTANT Requests        \* requests that are made, again and again

VARIABLES
    main,            \* the goroutine of main
    redis, db,       \* the links
    quit,            \* the channel of signals: whether it holds one
    shutdown,        \* server.Shutdown
    hook,            \* the registered function: 0, or which step it is at
    request,         \* the HTTP requests
    exit             \* how the process ended

serverVars == <<main, redis, db, quit, shutdown, hook, request, exit>>
vars == <<routerVars, serverVars>>

RedisFirst == <<"manager", "redis", "router", "db">>             \* a mutant

\* What the registered function stops, in this order, before it closes done.
ShutdownOrder == <<"manager", "router", "redis", "db">>

Booting == {"connect", "subscribe", "manager", "start", "listen"}
InProgress == {"accepted", "answering"}

ServerTypeOK ==
    /\ RouterTypeOK
    /\ main \in Booting \cup {"serving", "waiting", "ended"}
    /\ redis \in {"none", "open", "closed"}
    /\ db \in {"none", "open", "closed"}
    /\ quit \in BOOLEAN
    /\ shutdown \in {"none", "waiting", "returned"}
    /\ hook \in 0 .. 5
    /\ request \in [Requests -> InProgress \cup {"none", "answered", "failed", "cut"}]
    /\ exit \in {"none", "fatal", "timeout", "returned"}

ServerInit ==
    /\ RouterInit
    /\ main = "connect"
    /\ redis = "none" /\ db = "none"
    /\ quit = FALSE
    /\ shutdown = "none"
    /\ hook = 0
    /\ request = [r \in Requests |-> "none"]
    /\ exit = "none"

\* The process ends, whatever its goroutines are doing.
Exit(status) ==
    /\ main' = "ended"
    /\ exit' = status
    /\ request' = [r \in Requests |->
                     IF request[r] \in InProgress THEN "cut" ELSE request[r]]

-----------------------------------------------------------------------------
(* Starting up                                                             *)

Connect ==
    /\ main = "connect"
    /\ main' = "subscribe"
    /\ redis' = "open"
    /\ db' = "open"
    /\ UNCHANGED <<routerVars, quit, shutdown, hook, request, exit>>

Subscribe ==
    /\ main = "subscribe"
    /\ main' = "manager"
    /\ NewRouter
    /\ UNCHANGED <<redis, db, quit, shutdown, hook, request, exit>>

NewSessionsManager ==
    /\ main = "manager"
    /\ main' = "start"
    /\ RegisterCallbacks
    /\ UNCHANGED <<redis, db, quit, shutdown, hook, request, exit>>

Start ==
    /\ main = "start"
    /\ main' = "listen"
    /\ StartRouter
    /\ UNCHANGED <<redis, db, quit, shutdown, hook, request, exit>>

ListenAndServe ==
    /\ main = "listen"
    /\ main' = "serving"
    /\ UNCHANGED <<routerVars, redis, db, quit, shutdown, hook, request, exit>>

\* log.Fatal of one of these steps, or a signal before signal.Notify.
StartFails ==
    /\ main \in Booting
    /\ Exit("fatal")
    /\ UNCHANGED <<routerVars, redis, db, quit, shutdown, hook>>

-----------------------------------------------------------------------------
(* Serving                                                                 *)

MessageArrives ==
    /\ \E m \in Messages : Publish(m)
    /\ UNCHANGED serverVars

RouterSteps ==
    /\ main # "ended"
    /\ RouterLoop
    /\ UNCHANGED serverVars

RequestArrives(r) ==
    /\ main = "serving"
    /\ shutdown = "none"
    /\ request[r] \in {"none", "answered", "failed"}
    /\ request' = [request EXCEPT ![r] = "accepted"]
    /\ UNCHANGED <<routerVars, main, redis, db, quit, shutdown, hook, exit>>

\* The statement of the request; after db.Close it is an error.
RequestQueries(r) ==
    /\ main # "ended"
    /\ request[r] = "accepted"
    /\ request' = [request EXCEPT ![r] = IF db = "open" THEN "answering"
                                         ELSE "failed"]
    /\ UNCHANGED <<routerVars, main, redis, db, quit, shutdown, hook, exit>>

RequestAnswers(r) ==
    /\ main # "ended"
    /\ request[r] = "answering"
    /\ request' = [request EXCEPT ![r] = "answered"]
    /\ UNCHANGED <<routerVars, main, redis, db, quit, shutdown, hook, exit>>

-----------------------------------------------------------------------------
(* Shutting down                                                           *)

\* SIGTERM or an interrupt; a second one stays in the channel for ever.
Signal ==
    /\ main \in {"serving", "waiting"}
    /\ ~quit
    /\ quit' = TRUE
    /\ UNCHANGED <<routerVars, main, redis, db, shutdown, hook, request, exit>>

\* server.Shutdown closes the listener and starts the registered function.
Shutdown ==
    /\ main = "serving"
    /\ quit
    /\ shutdown = "none"
    /\ quit' = FALSE
    /\ shutdown' = "waiting"
    /\ hook' = 1
    /\ UNCHANGED <<routerVars, main, redis, db, request, exit>>

ShutdownReturns ==
    /\ main # "ended"
    /\ shutdown = "waiting"
    /\ \A r \in Requests : request[r] \notin InProgress
    /\ shutdown' = "returned"
    /\ UNCHANGED <<routerVars, main, redis, db, quit, hook, request, exit>>

\* The 20 seconds are over: log.Fatal.
ShutdownTimesOut ==
    /\ main # "ended"
    /\ shutdown = "waiting"
    /\ \E r \in Requests : request[r] \in InProgress
    /\ Exit("timeout")
    /\ UNCHANGED <<routerVars, redis, db, quit, shutdown, hook>>

HookAt(service) ==
    /\ main # "ended"
    /\ hook \in 1 .. Len(ShutdownOrder)
    /\ ShutdownOrder[hook] = service

\* sessionManager.Close returns nil.
HookClosesManager ==
    /\ HookAt("manager")
    /\ hook' = hook + 1
    /\ UNCHANGED <<routerVars, main, redis, db, quit, shutdown, request, exit>>

HookSendsStop ==
    /\ HookAt("router")
    /\ TakeStop
    /\ UNCHANGED serverVars

\* <-sfuRouter.Stop()
HookSeesStopped ==
    /\ HookAt("router")
    /\ stopped
    /\ hook' = hook + 1
    /\ UNCHANGED <<routerVars, main, redis, db, quit, shutdown, request, exit>>

HookClosesRedis ==
    /\ HookAt("redis")
    /\ hook' = hook + 1
    /\ redis' = "closed"
    /\ UNCHANGED <<routerVars, main, db, quit, shutdown, request, exit>>

\* After this it closes done.
HookClosesDb ==
    /\ HookAt("db")
    /\ hook' = hook + 1
    /\ db' = "closed"
    /\ UNCHANGED <<routerVars, main, redis, quit, shutdown, request, exit>>

Done == hook > Len(ShutdownOrder)

\* ListenAndServeTLS returns ErrServerClosed as soon as the listener closes.
ServeReturns ==
    /\ main = "serving"
    /\ shutdown # "none"
    /\ main' = "waiting"
    /\ UNCHANGED <<routerVars, redis, db, quit, shutdown, hook, request, exit>>

\* <-done, and main returns; nobody waits for Shutdown to return.
MainReturns ==
    /\ main = "waiting"
    /\ Done
    /\ Exit("returned")
    /\ UNCHANGED <<routerVars, redis, db, quit, shutdown, hook>>

-----------------------------------------------------------------------------

MainStep == Connect \/ Subscribe \/ NewSessionsManager \/ Start \/ ListenAndServe
              \/ Shutdown \/ ServeReturns \/ MainReturns

HookStep == HookClosesManager \/ HookSeesStopped \/ HookClosesRedis \/ HookClosesDb

Next ==
    \/ MainStep \/ HookStep \/ HookSendsStop
    \/ StartFails \/ MessageArrives \/ RouterSteps \/ Signal
    \/ ShutdownReturns \/ ShutdownTimesOut
    \/ \E r \in Requests : RequestArrives(r) \/ RequestQueries(r) \/ RequestAnswers(r)

ServerSpec == ServerInit /\ [][Next]_vars

(* Every goroutine keeps running and every handler returns (HandlersReturn *)
(* of module Sessions).  The select chooses at random between a message    *)
(* and the stop, so a stop that is offered again and again is taken.       *)
FairServerSpec ==
    /\ ServerSpec
    /\ WF_vars(MainStep) /\ WF_vars(HookStep) /\ WF_vars(RouterSteps)
    /\ SF_vars(HookSendsStop)

-----------------------------------------------------------------------------
(* Properties                                                              *)

(* No callback of a method is called before it is set: main registers all  *)
(* of them before it starts the router that calls them.                    *)
CallbacksAreSet == loop = "handling" => KindOf[current] \in callbacks

(* While the router works on a message, Redis and the database are open:   *)
(* the registered function closes them only after the router has ended,    *)
(* so no handler is caught halfway between a change in memory and the row. *)
HandlersHaveLinks ==
    loop \in {"parsing", "handling", "closing"} => redis = "open" /\ db = "open"

(* A signal ends the process, whatever message the router is handling and  *)
(* however many more arrive.                                               *)
ShutdownEnds == (quit /\ shutdown = "none") ~> (main = "ended")

(* A message in the channel is taken out and worked on, a malformed one    *)
(* before it notwithstanding, unless the server is shut down first.        *)
DeliveredAreHandled ==
    \A m \in Messages :
        ((\E i \in 1 .. Len(feed) : feed[i] = m) /\ loop # "none")
          ~> (current = m \/ hook # 0 \/ main = "ended")

(* cmd/server/main.go:209, "Wait 20 seconds for close http connections":   *)
(* a request in progress is cut off only when the time is over.            *)
RequestsAreAwaited ==
    \A r \in Requests : request[r] = "cut" => exit = "timeout"
=============================================================================
