----------------------------- MODULE Transcoder -----------------------------
(***************************************************************************)
(* The transcode daemons, internal/transcode/daemon.go, with the messages  *)
(* they take from NATS and the ffmpeg processes they run.                  *)
(*                                                                         *)
(* Every daemon subscribes to start_transcoder in one queue group, so one  *)
(* of them receives a start, and to stop_transcoder on its own, so all of  *)
(* them receive a stop.  Each message is handled in a goroutine of its     *)
(* own, so nothing orders the handling of two messages: a goroutine is     *)
(* kept per message (and daemon) from the moment it is published, and its  *)
(* steps are taken at any time.  The mutex of the table of pids is held    *)
(* for one step at a time.  Each daemon has a host, with its pids and its  *)
(* directory of streams, for itself.                                       *)
(***************************************************************************)
EXTENDS Integers, Clients

CONSTANTS Daemons,
          NoDaemon,      \* the daemon of a message that is no start
          MaxMessages,   \* bound: messages published in a behaviour
          MaxPids,       \* bound: pids of a host
          DaemonFaults   \* what may go wrong around the daemons

DaemonFaultKinds == {"fs",     \* a call to the file system or exec fails
                     "lost",   \* a stop does not reach every daemon
                     "exit",   \* ffmpeg ends by itself
                     "kill"}   \* a daemon is killed and started again

ASSUME TranscoderAssumption ==
    /\ NoDaemon \notin Daemons
    /\ MaxMessages \in Nat
    /\ MaxPids \in Nat
    /\ DaemonFaults \subseteq DaemonFaultKinds

\* Numbered in the order in which they are published.  The SDP of a start, the
\* goroutine that handles it and the ffmpeg it runs all go by its number.
Messages == 1 .. MaxMessages
NoMessage == 0
Pids == 1 .. MaxPids
NoPid == 0

VARIABLES
    published,        \* how many messages have been published
    msg,              \* each message: [kind, user]
    starter,          \* goroutine of each start: [at, daemon, pid]
    stopper,          \* goroutine of each stop in each daemon: [at, pid]
    tanscoderPids,    \* d.tanscoderPids; a missing key reads NoPid
    sdp,              \* transcoder.sdp of each user: the start that wrote it
    ffmpeg,           \* external: the process each start has run
    input             \* external: the SDP each ffmpeg has opened

messageVars == <<published, msg>>
daemonVars == <<starter, stopper, tanscoderPids>>
vars == <<messageVars, daemonVars, sdp, ffmpeg, input>>

StarterTypes ==
    [at : {"none", "received", "written", "started", "waiting", "ended"},
     daemon : Daemons \cup {NoDaemon},
     pid : Pids \cup {NoPid}]

StopperTypes ==
    [at : {"none", "received", "found", "killed", "ended"},
     pid : Pids \cup {NoPid}]

TranscoderTypeOK ==
    /\ published \in 0 .. MaxMessages
    /\ msg \in [Messages -> [kind : {"none", "start", "stop"},
                             user : Users \cup {NoUser}]]
    /\ starter \in [Messages -> StarterTypes]
    /\ stopper \in [Messages -> [Daemons -> StopperTypes]]
    /\ tanscoderPids \in [Daemons -> [Users -> Pids \cup {NoPid}]]
    /\ sdp \in [Daemons -> [Users -> Messages \cup {NoMessage}]]
    /\ ffmpeg \in [Messages ->
                     {"none", "starting", "running", "exited", "reaped"}]
    /\ input \in [Messages -> Messages \cup {NoMessage}]

NoStarter == [at |-> "none", daemon |-> NoDaemon, pid |-> NoPid]
NoStopper == [at |-> "none", pid |-> NoPid]

NilTable == [u \in {} |-> NoPid]                                  \* a mutant

\* make(map[core.UserSessionID]int)
EmptyTable == [u \in Users |-> NoPid]

TranscoderInit ==
    /\ published = 0
    /\ msg = [m \in Messages |-> [kind |-> "none", user |-> NoUser]]
    /\ starter = [m \in Messages |-> NoStarter]
    /\ stopper = [m \in Messages |-> [d \in Daemons |-> NoStopper]]
    /\ tanscoderPids = [d \in Daemons |-> EmptyTable]
    /\ sdp = [d \in Daemons |-> [u \in Users |-> NoMessage]]
    /\ ffmpeg = [m \in Messages |-> "none"]
    /\ input = [m \in Messages |-> NoMessage]

-----------------------------------------------------------------------------
User(m) == msg[m].user
Daemon(m) == starter[m].daemon

Live(m) == ffmpeg[m] \in {"starting", "running"}

\* The processes a pid of the host of d stands for: one at most.
ProcessesOf(d, pid) ==
    {m \in Messages : Daemon(m) = d /\ starter[m].pid = pid
                        /\ ffmpeg[m] \in {"starting", "running", "exited"}}

\* The number of the last message about u.
LastOf(u) ==
    {m \in 1 .. published :
        User(m) = u /\ \A n \in (m + 1) .. published : User(n) # u}

\* Every goroutine of m has ended or waits for its ffmpeg.
IsSettled(m) ==
    /\ starter[m].at \in {"none", "waiting", "ended"}
    /\ \A d \in Daemons : stopper[m][d].at \in {"none", "ended"}

Settled == \A m \in Messages : IsSettled(m)

-----------------------------------------------------------------------------
(* What is published: starts by NewParticipant, stops by Close.  The sender *)
(* waits for nothing.                                                      *)

Publish(kind, u) ==
    /\ published < MaxMessages
    /\ published' = published + 1
    /\ msg' = [msg EXCEPT ![published + 1] = [kind |-> kind, user |-> u]]

PublishStart(u) ==
    /\ Publish("start", u)
    /\ \E d \in Daemons :
         starter' = [starter EXCEPT ![published + 1] =
                       [at |-> "received", daemon |-> d, pid |-> NoPid]]
    /\ UNCHANGED <<stopper, tanscoderPids, sdp, ffmpeg, input>>

\* Subscribe, not QueueSubscribe: a stop is for all daemons, since nobody knows
\* which of them runs the transcoder.
StopReceivers(u) == Daemons

PublishStop(u) ==
    /\ Publish("stop", u)
    /\ \E reached \in SUBSET StopReceivers(u) :
         /\ reached = StopReceivers(u) \/ "lost" \in DaemonFaults
         /\ stopper' = [stopper EXCEPT ![published + 1] =
                          [d \in Daemons |->
                             IF d \in reached
                             THEN [at |-> "received", pid |-> NoPid]
                             ELSE NoStopper]]
    /\ UNCHANGED <<starter, tanscoderPids, sdp, ffmpeg, input>>

-----------------------------------------------------------------------------
(* startTranscoder, in the goroutine of a start.                           *)

SdpKept(m) ==                                                    \* a mutant
    IF sdp[Daemon(m)][User(m)] = NoMessage
    THEN sdp' = [sdp EXCEPT ![Daemon(m)][User(m)] = m] ELSE UNCHANGED sdp

\* os.Create truncates a file that is there.
CreateSdp(m) == sdp' = [sdp EXCEPT ![Daemon(m)][User(m)] = m]

WriteSdp(m) ==
    /\ starter[m].at = "received"
    /\ CreateSdp(m)
    /\ starter' = [starter EXCEPT ![m].at = "written"]
    /\ UNCHANGED <<messageVars, stopper, tanscoderPids, ffmpeg, input>>

\* A stop is removing the directory in which the start creates its own.
RemovalRaces(m) ==
    \E n \in Messages : User(n) = User(m) /\ stopper[n][Daemon(m)].at = "killed"

\* An error before ffmpeg runs is logged; files stay as they are.
StartFails(m) ==
    /\ \/ "fs" \in DaemonFaults /\ starter[m].at \in {"received", "written"}
       \/ starter[m].at = "received" /\ RemovalRaces(m)
    /\ starter' = [starter EXCEPT ![m].at = "ended"]
    /\ UNCHANGED <<messageVars, stopper, tanscoderPids, sdp, ffmpeg, input>>

\* The system gives the process a pid that no unreaped process has; the pids
\* of reaped ones, which the table may still hold, are given again.
FreePids(m) == {pid \in Pids : ProcessesOf(Daemon(m), pid) = {}}

StartFfmpeg(m) ==
    /\ starter[m].at = "written"
    /\ \E pid \in FreePids(m) :
         starter' = [starter EXCEPT ![m].at = "started", ![m].pid = pid]
    /\ ffmpeg' = [ffmpeg EXCEPT ![m] = "starting"]
    /\ UNCHANGED <<messageVars, stopper, tanscoderPids, sdp, input>>

PidNotKept(m) == UNCHANGED tanscoderPids                         \* a mutant

\* Over the pid of any ffmpeg that runs for the user already.
KeepPid(m) ==
    tanscoderPids' = [tanscoderPids EXCEPT ![Daemon(m)][User(m)] = starter[m].pid]

RecordPid(m) ==
    /\ starter[m].at = "started"
    /\ KeepPid(m)
    /\ starter' = [starter EXCEPT ![m].at = "waiting"]
    /\ UNCHANGED <<messageVars, stopper, sdp, ffmpeg, input>>

\* Wait returns; the pid is free again and stays in the table.
WaitReturns(m) ==
    /\ starter[m].at = "waiting"
    /\ ffmpeg[m] = "exited"
    /\ ffmpeg' = [ffmpeg EXCEPT ![m] = "reaped"]
    /\ starter' = [starter EXCEPT ![m].at = "ended"]
    /\ UNCHANGED <<messageVars, stopper, tanscoderPids, sdp, input>>

-----------------------------------------------------------------------------
(* stopTranscoder, in the goroutine of a stop in daemon d.                 *)

AnyPid(d, u) ==                                                  \* a mutant
    LET known == {tanscoderPids[d][v] : v \in Users} \ {NoPid}
    IN  IF known = {} THEN NoPid ELSE CHOOSE pid \in known : TRUE

PidOf(d, u) == tanscoderPids[d][u]

LookUpPid(m, d) ==
    /\ stopper[m][d].at = "received"
    /\ stopper' = [stopper EXCEPT ![m][d] =
                     LET pid == PidOf(d, User(m))
                     IN  [at |-> IF pid = NoPid THEN "ended" ELSE "found",
                          pid |-> pid]]
    /\ UNCHANGED <<messageVars, starter, tanscoderPids, sdp, ffmpeg, input>>

KillMissed(d, pid) == UNCHANGED ffmpeg                           \* a mutant

\* Whatever process has the pid now; an error is logged and nothing else.
KillPid(d, pid) ==
    ffmpeg' = [m \in Messages |-> IF m \in ProcessesOf(d, pid) THEN "exited"
                                                               ELSE ffmpeg[m]]

KillProcess(m, d) ==
    /\ stopper[m][d].at = "found"
    /\ KillPid(d, stopper[m][d].pid)
    /\ stopper' = [stopper EXCEPT ![m][d].at = "killed"]
    /\ UNCHANGED <<messageVars, starter, tanscoderPids, sdp, input>>

\* Under the mutex: the entry of the user, whichever pid it has by now, and the
\* directory of the user are deleted.
Forget(m, d) ==
    /\ stopper[m][d].at = "killed"
    /\ tanscoderPids' = [tanscoderPids EXCEPT ![d][User(m)] = NoPid]
    /\ \/ sdp' = [sdp EXCEPT ![d][User(m)] = NoMessage]
       \/ "fs" \in DaemonFaults /\ UNCHANGED sdp
    /\ stopper' = [stopper EXCEPT ![m][d].at = "ended"]
    /\ UNCHANGED <<messageVars, starter, ffmpeg, input>>

-----------------------------------------------------------------------------
(* The ffmpeg processes (external), and the end of a daemon.               *)

\* ffmpeg opens the SDP file, or ends because there is none.
OpenSdp(m) ==
    /\ ffmpeg[m] = "starting"
    /\ LET file == sdp[Daemon(m)][User(m)]
       IN  /\ ffmpeg' = [ffmpeg EXCEPT ![m] = IF file = NoMessage THEN "exited"
                                                                  ELSE "running"]
           /\ input' = [input EXCEPT ![m] = file]
    /\ UNCHANGED <<messageVars, daemonVars, sdp>>

FfmpegEnds(m) ==
    /\ "exit" \in DaemonFaults
    /\ Live(m)
    /\ ffmpeg' = [ffmpeg EXCEPT ![m] = "exited"]
    /\ UNCHANGED <<messageVars, daemonVars, sdp, input>>

\* Goroutines and table are gone; the processes run on, without a parent.
DaemonRestarts(d) ==
    /\ "kill" \in DaemonFaults
    /\ starter' = [m \in Messages |->
                     IF Daemon(m) = d THEN [starter[m] EXCEPT !.at = "ended"]
                                      ELSE starter[m]]
    /\ stopper' = [m \in Messages |->
                     [stopper[m] EXCEPT ![d].at =
                        IF @ = "none" THEN @ ELSE "ended"]]
    /\ tanscoderPids' = [tanscoderPids EXCEPT ![d] = EmptyTable]
    /\ UNCHANGED <<messageVars, sdp, ffmpeg, input>>

\* A process without a parent is reaped by init.
InitReaps(m) ==
    /\ ffmpeg[m] = "exited"
    /\ starter[m].at = "ended"
    /\ ffmpeg' = [ffmpeg EXCEPT ![m] = "reaped"]
    /\ UNCHANGED <<messageVars, daemonVars, sdp, input>>

-----------------------------------------------------------------------------
StarterStep(m) == WriteSdp(m) \/ StartFfmpeg(m) \/ RecordPid(m) \/ WaitReturns(m)

StopperStep(m, d) == LookUpPid(m, d) \/ KillProcess(m, d) \/ Forget(m, d)

TranscoderNext ==
    \/ \E u \in Users : PublishStart(u) \/ PublishStop(u)
    \/ \E m \in Messages :
         \/ StarterStep(m)
         \/ StartFails(m)
         \/ OpenSdp(m)
         \/ FfmpegEnds(m)
         \/ InitReaps(m)
         \/ \E d \in Daemons : StopperStep(m, d)
    \/ \E d \in Daemons : DaemonRestarts(d)

TranscoderSpec == TranscoderInit /\ [][TranscoderNext]_vars

\* Fairness: a goroutine that can run does run, and the system starts and reaps
\* processes.  Nothing is assumed of the sender, of ffmpeg or of the faults.
TranscoderFairness ==
    \A m \in Messages :
        /\ WF_vars(StarterStep(m))
        /\ WF_vars(OpenSdp(m))
        /\ WF_vars(InitReaps(m))
        /\ \A d \in Daemons : WF_vars(StopperStep(m, d))

FairTranscoderSpec == TranscoderSpec /\ TranscoderFairness
-----------------------------------------------------------------------------
(* Safety.                                                                 *)

\* A stop ends a process of another user's start only by way of a pid that has
\* been given again: a start of its own user ran an ffmpeg with that pid, which
\* ended and was reaped while the table, or the goroutine of the stop, still
\* had it.  Otherwise starts, stops and restarts, however they overlap, let a
\* stop reach the processes of its user only.
StrayKillsHitReusedPids ==
    [][\A s, m \in Messages, d \in Daemons :
         /\ stopper[s][d].at = "found" /\ stopper'[s][d].at = "killed"
         /\ Live(m) /\ ffmpeg'[m] = "exited" /\ User(m) # User(s)
         => \E n \in Messages :
              /\ User(n) = User(s) /\ Daemon(n) = d /\ ffmpeg[n] = "reaped"
              /\ starter[n].pid = starter[m].pid]_vars

\* The table loses track of a running ffmpeg whose pid it was given only if
\* another start or stop of the same user was handled by the same daemon: a
\* single start is never forgotten, whatever other users do.
OnlyRacedAreUntracked ==
    \A m \in Messages :
        Live(m) /\ starter[m].at = "waiting"
            /\ tanscoderPids[Daemon(m)][User(m)] # starter[m].pid =>
            \E n \in Messages \ {m} :
                /\ User(n) = User(m)
                /\ \/ Daemon(n) = Daemon(m) /\ starter[n].at \in {"waiting", "ended"}
                   \/ stopper[n][Daemon(m)].at = "ended"

-----------------------------------------------------------------------------
(* Liveness.                                                               *)

\* The ffmpeg whose pid a stop has read from the table ends and is reaped,
\* whatever is started or stopped meanwhile.
FoundAreReaped ==
    \A m \in Messages :
        (\E s \in Messages, d \in Daemons :
            /\ stopper[s][d].at = "found" /\ Daemon(m) = d
            /\ stopper[s][d].pid = starter[m].pid) ~>
            ffmpeg[m] = "reaped" \/ starter[m].at = "ended"

-----------------------------------------------------------------------------
(* What comments of the repository say and the code does not do.           *)

\* A stop is handled by all daemons because it is not known which of them runs
\* the transcoder: once everything published has been handled, no transcoder
\* runs for a user whose last message is a stop.
StoppedStayStopped ==
    Settled => \A u \in Users :
        (\E m \in LastOf(u) : msg[m].kind = "stop") =>
            \A m \in Messages : User(m) = u => ~Live(m)
=============================================================================
