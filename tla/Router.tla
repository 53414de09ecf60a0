-------------------------------- MODULE Router --------------------------------
(***************************************************************************)
(* Router of internal/eventbus/router.go: one goroutine that takes the     *)
(* messages of the Redis subscription one by one, parses each and calls    *)
(* the callback of its method, until Stop is called.  The callbacks are    *)
(* the handlers of module Sessions; here only that they take time matters. *)
(***************************************************************************)
EXTENDS Integers, Sequences, FiniteSets

CONSTANTS Messages,      \* messages other processes publish, again and again
          NoMessage,
          KindOf,        \* [Messages -> Kinds]
          ChannelSize    \* what the channel of the subscription holds

\* The methods Start dispatches, as rpc_methods.go spells them.
Methods == {"join", "iceCandidate", "offer", "close_session", "publish",
            "publishStop", "subscribe", "subscribeCancel"}

Kinds == Methods \cup {"answer",      \* parsed, but in no case of the switch
                       "malformed"}   \* parseRpc returns an error

ASSUME RouterAssumption ==
    /\ KindOf \in [Messages -> Kinds]
    /\ NoMessage \notin Messages
    /\ ChannelSize \in Nat \ {0}

VARIABLES
    subscription,    \* router.subscription
    feed,            \* the messages in its channel
    callbacks,       \* the methods whose on... field is set
    loop,            \* where the goroutine of Start is
    current,         \* the message it works on
    stopped          \* whether router.stopped is closed

routerVars == <<subscription, feed, callbacks, loop, current, stopped>>

RouterTypeOK ==
    /\ subscription \in {"none", "open", "closed"}
    /\ feed \in Seq(Messages)
    /\ Len(feed) =< ChannelSize
    /\ callbacks \subseteq Methods
    /\ loop \in {"none", "select", "parsing", "handling", "closing", "ended"}
    /\ current \in Messages \cup {NoMessage}
    /\ stopped \in BOOLEAN

RouterInit ==
    /\ subscription = "none"
    /\ feed = <<>>
    /\ callbacks = {}
    /\ loop = "none"
    /\ current = NoMessage
    /\ stopped = FALSE

-----------------------------------------------------------------------------

NewRouter ==
    /\ subscription' = "open"
    /\ UNCHANGED <<feed, callbacks, loop, current, stopped>>

ForgetSubscribe == callbacks' = Methods \ {"subscribe"}          \* a mutant

\* The calls of router.On... in NewSessionsManager.
SetCallbacks == callbacks' = Methods

RegisterCallbacks ==
    /\ SetCallbacks
    /\ UNCHANGED <<subscription, feed, loop, current, stopped>>

\* Start returns when its goroutine has the channel.
StartRouter ==
    /\ loop' = "select"
    /\ UNCHANGED <<subscription, feed, callbacks, current, stopped>>

OffByOne == Len(feed) =< ChannelSize                             \* a mutant

HasRoom == Len(feed) < ChannelSize

\* go-redis waits 30 seconds for room in the channel, then drops the message.
\* Bound: of equal messages one at a time is on its way.
Publish(m) ==
    /\ subscription = "open"
    /\ \A i \in 1 .. Len(feed) : feed[i] # m
    /\ m # current
    /\ feed' = IF HasRoom THEN Append(feed, m) ELSE feed
    /\ UNCHANGED <<subscription, callbacks, loop, current, stopped>>

DropRest == <<>>                                                 \* a mutant

Rest == Tail(feed)

Receive ==
    /\ loop = "select"
    /\ feed # <<>>
    /\ current' = Head(feed)
    /\ feed' = Rest
    /\ loop' = "parsing"
    /\ UNCHANGED <<subscription, callbacks, stopped>>

LoopReturns == "ended"                                           \* a mutant

\* continue: an error is logged and the loop goes on.
Continue == "select"

Skip ==
    /\ loop = "parsing"
    /\ KindOf[current] \notin Methods
    /\ loop' = Continue
    /\ current' = NoMessage
    /\ UNCHANGED <<subscription, feed, callbacks, stopped>>

Dispatch ==
    /\ loop = "parsing"
    /\ KindOf[current] \in Methods
    /\ loop' = "handling"
    /\ UNCHANGED <<subscription, feed, callbacks, current, stopped>>

\* With or without an error, which is logged.
HandlerReturns ==
    /\ loop = "handling"
    /\ loop' = "select"
    /\ current' = NoMessage
    /\ UNCHANGED <<subscription, feed, callbacks, stopped>>

\* The send of Stop on an unbuffered channel and its receipt in the select.
TakeStop ==
    /\ loop = "select"
    /\ loop' = "closing"
    /\ UNCHANGED <<subscription, feed, callbacks, current, stopped>>

CloseSubscription ==
    /\ loop = "closing"
    /\ subscription' = "closed"
    /\ stopped' = TRUE
    /\ loop' = "ended"
    /\ UNCHANGED <<feed, callbacks, current>>

RouterLoop == Receive \/ Skip \/ Dispatch \/ HandlerReturns \/ CloseSubscription
=============================================================================
