--------------------------- MODULE OrderlyTranscoder ---------------------------
(***************************************************************************)
(* Transcoder with a history variable: the users of whose messages no two  *)
(* have got in each other's way so far.  To them the daemons keep the      *)
(* promises of TranscoderService, whatever happens to other users: their   *)
(* messages may overlap, be lost and reuse pids.                           *)
(*                                                                         *)
(* The history restrains nothing: every behaviour of Transcoder is one of  *)
(* this module, and a user who is orderly no more is handled as before.    *)
(***************************************************************************)
EXTENDS Transcoder

VARIABLE orderly   \* history: users whose messages have come in turn

orderlyVars == <<vars, orderly>>

OrderlyInit == TranscoderInit /\ orderly = Users

\* What was published about u before has been handled.
InTurn(u) == \A m \in Messages : User(m) = u => IsSettled(m)

\* A start that follows another one finds its ffmpeg running.
StartInTurn(u) == InTurn(u) /\ \A m \in LastOf(u) : msg[m].kind = "stop"

\* No daemon misses the stop, of which any may run the transcoder.
StopInTurn(u) ==
    /\ InTurn(u)
    /\ \A d \in StopReceivers(u) : stopper'[published'][d].at = "received"

OrderlyStart(u) ==
    /\ PublishStart(u)
    /\ orderly' = IF StartInTurn(u) THEN orderly ELSE orderly \ {u}

OrderlyStop(u) ==
    /\ PublishStop(u)
    /\ orderly' = IF StopInTurn(u) THEN orderly ELSE orderly \ {u}

\* The daemon forgets the processes that it leaves running.
OrderlyRestart(d) ==
    /\ DaemonRestarts(d)
    /\ orderly' = orderly \ {User(m) : m \in {n \in Messages : Daemon(n) = d /\ Live(n)}}

\* No other step is a matter of order.
Handling ==
    /\ \E m \in Messages :
         \/ StarterStep(m)
         \/ StartFails(m)
         \/ OpenSdp(m)
         \/ FfmpegEnds(m)
         \/ InitReaps(m)
         \/ \E d \in Daemons : StopperStep(m, d)
    /\ UNCHANGED orderly

OrderlyNext ==
    \/ \E u \in Users : OrderlyStart(u) \/ OrderlyStop(u)
    \/ \E d \in Daemons : OrderlyRestart(d)
    \/ Handling

OrderlySpec == OrderlyInit /\ [][OrderlyNext]_orderlyVars

FairOrderlySpec == OrderlySpec /\ TranscoderFairness

-----------------------------------------------------------------------------
(* Safety.                                                                 *)

\* An ffmpeg of an orderly user listens on the ports of its own start, never on
\* those of an earlier or a later one, although all starts of a user share one
\* file, which stops remove, and other starts may fail half way.
FfmpegReadsItsOwnSdp ==
    \A m \in Messages :
        ffmpeg[m] = "running" /\ User(m) \in orderly => input[m] = m

\* To its orderly users, all daemons together are one service.
Service == INSTANCE TranscoderService WITH
    promised <- orderly,
    wanted <- {u \in orderly : \E m \in LastOf(u) : msg[m].kind = "start"},
    serving <- {u \in orderly : \E m \in Messages : User(m) = u /\ Live(m)}

\* A transcoder starts only while it is wanted, and there is none when a new
\* start arrives: as far as its orderly users can tell, on whichever daemons
\* their messages are handled and whatever the other users do.
KeepsToService == Service!ServiceSafety

-----------------------------------------------------------------------------
(* Liveness.                                                               *)

\* What is more, after a stop the transcoder ends, on whichever daemon it runs.
ImplementsService == Service!ServiceSpec
=============================================================================
