--------------------------- MODULE TranscoderProofs ---------------------------
(***************************************************************************)
(* Theorems about module Transcoder, for every set of daemons and users,   *)
(* every number of messages and every set of faults.                       *)
(***************************************************************************)
EXTENDS Transcoder, TLAPS

\* Goroutines exist for published messages, which name users; the goroutine of
\* a start is in a daemon, and ffmpeg is run by one.
PublishedOK ==
    \A m \in Messages :
        /\ m <= published => msg[m].user \in Users
        /\ starter[m].at # "none" => m <= published /\ starter[m].daemon \in Daemons
        /\ starter[m].at = "none" => starter[m].daemon = NoDaemon
        /\ ffmpeg[m] # "none" => starter[m].at # "none"
        /\ \A d \in Daemons : stopper[m][d].at # "none" =>
             m <= published /\ starter[m].at = "none"

-----------------------------------------------------------------------------
(* Type correctness.                                                       *)

\* The pids the system may give a process are pids.
LEMMA FreePidsType ==
    ASSUME NEW m \in Messages
    PROVE  FreePids(m) \subseteq Pids
  BY DEF FreePids, Pids, Messages

\* What happens to the goroutine of a start, other than its publication.
LEMMA StarterType ==
    ASSUME TranscoderTypeOK, NEW m \in Messages,
           WriteSdp(m) \/ StartFails(m) \/ StartFfmpeg(m) \/ WaitReturns(m)
    PROVE  TranscoderTypeOK'
  <1>1. starter[m] \in StarterTypes
    BY DEF TranscoderTypeOK
  <1>2. CASE WriteSdp(m)
    <2>1. starter[m].daemon \in Daemons \cup {NoDaemon}
      BY <1>1 DEF StarterTypes
    <2>2. sdp' \in [Daemons -> [Users -> Messages \cup {NoMessage}]]
      BY <1>2, <2>1 DEF TranscoderTypeOK, WriteSdp, CreateSdp, Daemon
    <2>3. starter' \in [Messages -> StarterTypes]
      BY <1>1, <1>2 DEF TranscoderTypeOK, WriteSdp, StarterTypes
    <2> QED
      BY <1>2, <2>2, <2>3 DEF TranscoderTypeOK, WriteSdp, messageVars
  <1>3. CASE StartFails(m)
    <2>1. starter' \in [Messages -> StarterTypes]
      BY <1>1, <1>3 DEF TranscoderTypeOK, StartFails, StarterTypes
    <2> QED
      BY <1>3, <2>1 DEF TranscoderTypeOK, StartFails, messageVars
  <1>4. CASE StartFfmpeg(m)
    <2>1. starter' \in [Messages -> StarterTypes]
      <3>1. PICK pid \in Pids :
              starter' = [starter EXCEPT ![m].at = "started", ![m].pid = pid]
        BY <1>4, FreePidsType DEF StartFfmpeg
      <3> QED
        BY <1>1, <3>1 DEF TranscoderTypeOK, StarterTypes
    <2> QED
      BY <1>4, <2>1 DEF TranscoderTypeOK, StartFfmpeg, messageVars
  <1>5. CASE WaitReturns(m)
    <2>1. starter' \in [Messages -> StarterTypes]
      BY <1>1, <1>5 DEF TranscoderTypeOK, WaitReturns, StarterTypes
    <2> QED
      BY <1>5, <2>1 DEF TranscoderTypeOK, WaitReturns, messageVars
  <1> QED
    BY <1>2, <1>3, <1>4, <1>5

LEMMA RecordPidType ==
    ASSUME TranscoderTypeOK, NEW m \in Messages, RecordPid(m)
    PROVE  TranscoderTypeOK'
  <1>1. starter[m] \in StarterTypes
    BY DEF TranscoderTypeOK
  <1>2. starter' \in [Messages -> StarterTypes]
    BY <1>1 DEF TranscoderTypeOK, RecordPid, StarterTypes
  <1>3. tanscoderPids' \in [Daemons -> [Users -> Pids \cup {NoPid}]]
    BY <1>1 DEF TranscoderTypeOK, RecordPid, KeepPid, StarterTypes
  <1> QED
    BY <1>2, <1>3 DEF TranscoderTypeOK, RecordPid, messageVars

LEMMA StopperType ==
    ASSUME TranscoderTypeOK, PublishedOK, NEW m \in Messages,
           NEW d \in Daemons, StopperStep(m, d)
    PROVE  TranscoderTypeOK'
  <1>1. stopper[m][d] \in StopperTypes
    BY DEF TranscoderTypeOK
  <1>2. CASE LookUpPid(m, d)
    <2>1. msg[m].user \in Users
      BY <1>2 DEF PublishedOK, LookUpPid
    <2>2. PidOf(d, User(m)) \in Pids \cup {NoPid}
      BY <2>1 DEF TranscoderTypeOK, PidOf, User
    <2>3. PICK g \in StopperTypes : stopper' = [stopper EXCEPT ![m][d] = g]
      <3> DEFINE pid == PidOf(d, User(m))
                 g == [at |-> IF pid = NoPid THEN "ended" ELSE "found",
                       pid |-> pid]
      <3>1. stopper' = [stopper EXCEPT ![m][d] = g]
        BY <1>2 DEF LookUpPid
      <3>2. g \in StopperTypes
        BY <2>2 DEF StopperTypes
      <3> QED
        BY <3>1, <3>2
    <2>4. stopper' \in [Messages -> [Daemons -> StopperTypes]]
      BY <2>3 DEF TranscoderTypeOK
    <2> QED
      BY <1>2, <2>4 DEF TranscoderTypeOK, LookUpPid, messageVars
  <1>3. CASE KillProcess(m, d)
    <2>1. stopper' \in [Messages -> [Daemons -> StopperTypes]]
      BY <1>1, <1>3 DEF TranscoderTypeOK, KillProcess, StopperTypes
    <2> QED
      BY <1>3, <2>1 DEF TranscoderTypeOK, KillProcess, KillPid, messageVars
  <1>4. CASE Forget(m, d)
    <2>1. stopper' \in [Messages -> [Daemons -> StopperTypes]]
      BY <1>1, <1>4 DEF TranscoderTypeOK, Forget, StopperTypes
    <2>2. User(m) \in Users
      BY <1>4 DEF PublishedOK, Forget, User
    <2>3. tanscoderPids' \in [Daemons -> [Users -> Pids \cup {NoPid}]]
      BY <1>4, <2>2 DEF TranscoderTypeOK, Forget
    <2>4. sdp' \in [Daemons -> [Users -> Messages \cup {NoMessage}]]
      <3>1. sdp \in [Daemons -> [Users -> Messages \cup {NoMessage}]]
        BY DEF TranscoderTypeOK
      <3>2. sdp' = sdp \/ sdp' = [sdp EXCEPT ![d][User(m)] = NoMessage]
        BY <1>4 DEF Forget
      <3> QED
        BY <2>2, <3>1, <3>2
    <2> QED
      BY <1>4, <2>1, <2>3, <2>4 DEF TranscoderTypeOK, Forget, messageVars
  <1> QED
    BY <1>2, <1>3, <1>4 DEF StopperStep

LEMMA PublishType ==
    ASSUME TranscoderTypeOK, PublishedOK, NEW u \in Users,
           PublishStart(u) \/ PublishStop(u)
    PROVE  TranscoderTypeOK' /\ PublishedOK'
  <1> DEFINE new == published + 1
  <1>1. /\ published < MaxMessages /\ published' = new
        /\ \E kind \in {"start", "stop"} :
             msg' = [msg EXCEPT ![new] = [kind |-> kind, user |-> u]]
    BY DEF PublishStart, PublishStop, Publish
  <1>2. new \in Messages /\ published \in Nat /\ published' \in 0 .. MaxMessages
    BY <1>1, TranscoderAssumption DEF TranscoderTypeOK, Messages
  <1>3. /\ msg' \in [Messages -> [kind : {"none", "start", "stop"},
                                  user : Users \cup {NoUser}]]
        /\ msg'[new].user = u
        /\ \A m \in Messages \ {new} : msg'[m] = msg[m]
    BY <1>1, <1>2 DEF TranscoderTypeOK
  <1>4. CASE PublishStart(u)
    <2>1. PICK d \in Daemons :
            starter' = [starter EXCEPT ![new] =
                          [at |-> "received", daemon |-> d, pid |-> NoPid]]
      BY <1>4 DEF PublishStart
    <2>2. starter' \in [Messages -> StarterTypes]
      BY <2>1 DEF TranscoderTypeOK, StarterTypes
    <2>3. TranscoderTypeOK'
      BY <1>2, <1>3, <1>4, <2>2 DEF TranscoderTypeOK, PublishStart
    <2>4. PublishedOK'
      BY <1>1, <1>2, <1>3, <1>4, <2>1
         DEF PublishedOK, PublishStart, TranscoderTypeOK, Messages
    <2> QED
      BY <2>3, <2>4
  <1>5. CASE PublishStop(u)
    <2>1. PICK reached \in SUBSET Daemons :
            stopper' = [stopper EXCEPT ![new] =
                          [d \in Daemons |->
                             IF d \in reached
                             THEN [at |-> "received", pid |-> NoPid]
                             ELSE NoStopper]]
      BY <1>5 DEF PublishStop, StopReceivers
    <2>2. stopper' \in [Messages -> [Daemons -> StopperTypes]]
      BY <2>1 DEF TranscoderTypeOK, StopperTypes, NoStopper
    <2>3. TranscoderTypeOK'
      BY <1>2, <1>3, <1>5, <2>2 DEF TranscoderTypeOK, PublishStop
    <2>4. PublishedOK'
      BY <1>1, <1>2, <1>3, <1>5, <2>1
         DEF PublishedOK, PublishStop, TranscoderTypeOK, Messages
    <2> QED
      BY <2>3, <2>4
  <1> QED
    BY <1>4, <1>5

LEMMA EnvironmentType ==
    ASSUME TranscoderTypeOK, PublishedOK, NEW m \in Messages,
           OpenSdp(m) \/ FfmpegEnds(m) \/ InitReaps(m)
    PROVE  TranscoderTypeOK'
  <1>1. CASE OpenSdp(m)
    <2> DEFINE file == sdp[Daemon(m)][User(m)]
    <2>1. Daemon(m) \in Daemons /\ User(m) \in Users
      BY <1>1 DEF OpenSdp, PublishedOK, Daemon, User
    <2>2. file \in Messages \cup {NoMessage}
      BY <2>1 DEF TranscoderTypeOK
    <2>3. input' = [input EXCEPT ![m] = file]
      BY <1>1 DEF OpenSdp
    <2>4. input' \in [Messages -> Messages \cup {NoMessage}]
      BY <2>2, <2>3 DEF TranscoderTypeOK
    <2>5. ffmpeg' \in [Messages ->
                         {"none", "starting", "running", "exited", "reaped"}]
      BY <1>1 DEF TranscoderTypeOK, OpenSdp
    <2> QED
      BY <1>1, <2>4, <2>5 DEF TranscoderTypeOK, OpenSdp, messageVars, daemonVars
  <1>2. CASE FfmpegEnds(m)
    BY <1>2 DEF TranscoderTypeOK, FfmpegEnds, messageVars, daemonVars
  <1>3. CASE InitReaps(m)
    BY <1>3 DEF TranscoderTypeOK, InitReaps, messageVars, daemonVars
  <1> QED
    BY <1>1, <1>2, <1>3

LEMMA RestartType ==
    ASSUME TranscoderTypeOK, NEW d \in Daemons, DaemonRestarts(d)
    PROVE  TranscoderTypeOK'
  <1>1. starter' \in [Messages -> StarterTypes]
    <2>1. \A m \in Messages :
            /\ starter[m] \in StarterTypes
            /\ [starter[m] EXCEPT !.at = "ended"] \in StarterTypes
      BY DEF TranscoderTypeOK, StarterTypes
    <2> QED
      BY <2>1 DEF DaemonRestarts
  <1>2. stopper' \in [Messages -> [Daemons -> StopperTypes]]
    <2>1. ASSUME NEW m \in Messages
          PROVE  [stopper[m] EXCEPT ![d].at = IF @ = "none" THEN @ ELSE "ended"]
                   \in [Daemons -> StopperTypes]
      <3>1. stopper[m] \in [Daemons -> StopperTypes]
        BY DEF TranscoderTypeOK
      <3>2. /\ stopper[m][d] \in StopperTypes
            /\ [stopper[m][d] EXCEPT !.at = IF @ = "none" THEN @ ELSE "ended"]
                 \in StopperTypes
        BY <3>1 DEF StopperTypes
      <3> QED
        BY <3>1, <3>2
    <2> QED
      BY <2>1 DEF DaemonRestarts
  <1>3. tanscoderPids' \in [Daemons -> [Users -> Pids \cup {NoPid}]]
    BY DEF TranscoderTypeOK, DaemonRestarts, EmptyTable
  <1> QED
    BY <1>1, <1>2, <1>3 DEF TranscoderTypeOK, DaemonRestarts, messageVars

\* What the steps have in common that publish nothing: goroutines stay in their
\* daemons, none is made, and ffmpeg is run by the goroutine of its start.
Quiet ==
    /\ published' = published /\ msg' = msg
    /\ \A m \in Messages :
         /\ starter'[m].daemon = starter[m].daemon
         /\ (starter'[m].at = "none") <=> (starter[m].at = "none")
         /\ ffmpeg'[m] # "none" => ffmpeg[m] # "none" \/ starter[m].at # "none"
         /\ \A d \in Daemons :
              (stopper'[m][d].at = "none") <=> (stopper[m][d].at = "none")

LEMMA StarterIsQuiet ==
    ASSUME TranscoderTypeOK, NEW m \in Messages,
           StarterStep(m) \/ StartFails(m)
    PROVE  Quiet
  <1>1. starter \in [Messages -> StarterTypes] /\ starter[m] \in StarterTypes
    BY DEF TranscoderTypeOK
  <1>2. \E new \in {"written", "ended", "started", "waiting"} : \E pid :
          /\ starter[m].at # "none"
          /\ starter' = [starter EXCEPT ![m].at = new, ![m].pid = pid]
    <2>1. CASE StartFfmpeg(m)
      BY <2>1 DEF StartFfmpeg
    <2>2. CASE WriteSdp(m) \/ RecordPid(m) \/ WaitReturns(m) \/ StartFails(m)
      <3>1. PICK new \in {"written", "ended", "started", "waiting"} :
              /\ starter[m].at # "none"
              /\ starter' = [starter EXCEPT ![m].at = new]
        BY <2>2 DEF WriteSdp, RecordPid, WaitReturns, StartFails
      <3>2. starter' = [starter EXCEPT ![m].at = new, ![m].pid = starter[m].pid]
        BY <1>1, <3>1 DEF StarterTypes
      <3> QED
        BY <3>1, <3>2
    <2> QED
      BY <2>1, <2>2 DEF StarterStep
  <1>3. /\ published' = published /\ msg' = msg /\ stopper' = stopper
        /\ \A n \in Messages : ffmpeg'[n] # "none" => ffmpeg[n] # "none" \/ n = m
    BY DEF TranscoderTypeOK, StarterStep, WriteSdp, StartFfmpeg, RecordPid,
           WaitReturns, StartFails, messageVars
  <1>4. \A n \in Messages :
          /\ starter'[n].daemon = starter[n].daemon
          /\ (starter'[n].at = "none") <=> (starter[n].at = "none")
    BY <1>1, <1>2 DEF StarterTypes
  <1> QED
    BY <1>2, <1>3, <1>4 DEF Quiet

LEMMA StopperIsQuiet ==
    ASSUME TranscoderTypeOK, NEW m \in Messages, NEW d \in Daemons,
           StopperStep(m, d)
    PROVE  Quiet
  <1>1. stopper \in [Messages -> [Daemons -> StopperTypes]]
    BY DEF TranscoderTypeOK
  <1>2. \E new \in {"ended", "found", "killed"} : \E pid :
          /\ stopper[m][d].at # "none"
          /\ stopper' = [stopper EXCEPT ![m][d] = [at |-> new, pid |-> pid]]
    <2>1. CASE LookUpPid(m, d)
      BY <2>1 DEF LookUpPid
    <2>2. CASE KillProcess(m, d) \/ Forget(m, d)
      <3>1. PICK new \in {"ended", "killed"} :
              /\ stopper[m][d].at # "none"
              /\ stopper' = [stopper EXCEPT ![m][d].at = new]
        BY <2>2 DEF KillProcess, Forget
      <3>2. stopper[m][d] \in StopperTypes
        BY <1>1
      <3>3. [stopper[m][d] EXCEPT !.at = new]
              = [at |-> new, pid |-> stopper[m][d].pid]
        BY <3>2 DEF StopperTypes
      <3>4. stopper' = [stopper EXCEPT ![m][d] =
                          [at |-> new, pid |-> stopper[m][d].pid]]
        BY <3>1, <3>3
      <3> QED
        BY <3>1, <3>4
    <2> QED
      BY <2>1, <2>2 DEF StopperStep
  <1>3. /\ published' = published /\ msg' = msg /\ starter' = starter
        /\ \A n \in Messages : ffmpeg'[n] # "none" => ffmpeg[n] # "none"
    BY DEF TranscoderTypeOK, StopperStep, LookUpPid, KillProcess, KillPid,
           ProcessesOf, Forget, messageVars
  <1>4. \A n \in Messages, e \in Daemons :
          (stopper'[n][e].at = "none") <=> (stopper[n][e].at = "none")
    BY <1>1, <1>2
  <1> QED
    BY <1>3, <1>4 DEF Quiet

LEMMA EnvironmentIsQuiet ==
    ASSUME TranscoderTypeOK, NEW m \in Messages,
           OpenSdp(m) \/ FfmpegEnds(m) \/ InitReaps(m)
    PROVE  Quiet
  BY DEF TranscoderTypeOK, OpenSdp, FfmpegEnds, InitReaps, Live, Quiet,
         messageVars, daemonVars

LEMMA RestartIsQuiet ==
    ASSUME TranscoderTypeOK, PublishedOK, NEW d \in Daemons, DaemonRestarts(d)
    PROVE  Quiet
  <1>1. ASSUME NEW m \in Messages
        PROVE  /\ starter'[m].daemon = starter[m].daemon
               /\ (starter'[m].at = "none") <=> (starter[m].at = "none")
    <2>1. starter[m] \in StarterTypes
      BY DEF TranscoderTypeOK
    <2>2. Daemon(m) = d => starter[m].at # "none"
      BY TranscoderAssumption DEF PublishedOK, Daemon
    <2> QED
      BY <2>1, <2>2 DEF DaemonRestarts, StarterTypes
  <1>2. ASSUME NEW m \in Messages, NEW e \in Daemons
        PROVE  (stopper'[m][e].at = "none") <=> (stopper[m][e].at = "none")
    BY DEF DaemonRestarts, TranscoderTypeOK, StopperTypes
  <1> QED
    BY <1>1, <1>2 DEF Quiet, DaemonRestarts, messageVars

LEMMA QuietKeepsPublished ==
    ASSUME PublishedOK, Quiet
    PROVE  PublishedOK'
  BY DEF PublishedOK, Quiet

TypeIInv == TranscoderTypeOK /\ PublishedOK

\* How each step can be seen: as a publication, or as one of a few quiet steps.
LEMMA TranscoderTypeStep ==
    TypeIInv /\ [TranscoderNext]_vars => TypeIInv'
  <1> SUFFICES ASSUME TypeIInv, [TranscoderNext]_vars
               PROVE  TypeIInv'
    OBVIOUS
  <1> USE DEF TypeIInv
  <1>1. ASSUME NEW u \in Users, PublishStart(u) \/ PublishStop(u)
        PROVE  TypeIInv'
    BY <1>1, PublishType
  <1>2. ASSUME NEW m \in Messages, StarterStep(m) \/ StartFails(m)
        PROVE  TypeIInv'
    <2>1. TranscoderTypeOK'
      BY <1>2, StarterType, RecordPidType DEF StarterStep
    <2> QED
      BY <1>2, <2>1, StarterIsQuiet, QuietKeepsPublished
  <1>3. ASSUME NEW m \in Messages, NEW d \in Daemons, StopperStep(m, d)
        PROVE  TypeIInv'
    BY <1>3, StopperType, StopperIsQuiet, QuietKeepsPublished
  <1>4. ASSUME NEW m \in Messages, OpenSdp(m) \/ FfmpegEnds(m) \/ InitReaps(m)
        PROVE  TypeIInv'
    BY <1>4, EnvironmentType, EnvironmentIsQuiet, QuietKeepsPublished
  <1>5. ASSUME NEW d \in Daemons, DaemonRestarts(d)
        PROVE  TypeIInv'
    BY <1>5, RestartType, RestartIsQuiet, QuietKeepsPublished
  <1>6. CASE UNCHANGED vars
    <2>1. TranscoderTypeOK'
      BY <1>6 DEF TranscoderTypeOK, vars, messageVars, daemonVars
    <2>2. PublishedOK'
      BY <1>6 DEF PublishedOK, vars, messageVars, daemonVars
    <2> QED
      BY <2>1, <2>2
  <1> QED
    BY <1>1, <1>2, <1>3, <1>4, <1>5, <1>6 DEF TranscoderNext

LEMMA TypeInit == TranscoderInit => TypeIInv
  BY TranscoderAssumption
     DEF TypeIInv, TranscoderInit, TranscoderTypeOK, PublishedOK, NoStarter,
         NoStopper, StarterTypes, StopperTypes, EmptyTable, Messages, Pids

LEMMA TypeInductive == TranscoderSpec => []TypeIInv
  BY TypeInit, TranscoderTypeStep, PTL DEF TranscoderSpec

-----------------------------------------------------------------------------
(* What a daemon knows of pids and processes.                              *)

HasProcess(m) == ffmpeg[m] \in {"starting", "running", "exited"}

\* A start has a pid from the moment it runs ffmpeg, and as long as the process
\* is there, no other process of the host has it.
PidsOK ==
    /\ \A m \in Messages :
         /\ starter[m].pid = NoPid <=> ffmpeg[m] = "none"
         /\ starter[m].at \in {"none", "received", "written"} => starter[m].pid = NoPid
    /\ \A m, n \in Messages :
         HasProcess(m) /\ HasProcess(n) /\ Daemon(m) = Daemon(n)
             /\ starter[m].pid = starter[n].pid => m = n

\* A start of u has run an ffmpeg with the pid on d.
RanFor(u, d, pid) ==
    \E n \in Messages : User(n) = u /\ Daemon(n) = d /\ starter[n].pid = pid

\* A pid in the table of a daemon is one of a start of the user it stands for.
TableNamesUsers ==
    \A d \in Daemons, u \in Users :
        tanscoderPids[d][u] # NoPid => RanFor(u, d, tanscoderPids[d][u])

\* So is the pid that a stop has found.
StopsNameUsers ==
    \A s \in Messages, d \in Daemons :
        stopper[s][d].at \in {"found", "killed"} =>
            stopper[s][d].pid # NoPid /\ RanFor(User(s), d, stopper[s][d].pid)

PidIInv == TypeIInv /\ PidsOK /\ TableNamesUsers /\ StopsNameUsers

\* What every step leaves alone of a start that has run ffmpeg.
PidsStay ==
    \A n \in Messages : starter[n].pid # NoPid =>
        /\ User(n)' = User(n) /\ Daemon(n)' = Daemon(n)
        /\ starter'[n].pid = starter[n].pid

LEMMA RanForStays ==
    ASSUME PidsStay, NEW u, NEW d, NEW pid, pid # NoPid, RanFor(u, d, pid)
    PROVE  RanFor(u, d, pid)'
  BY DEF PidsStay, RanFor

\* A step after which nothing new is in the table or found by a stop.
LEMMA NamesKept ==
    ASSUME PidIInv, PidsStay,
           \A s \in Messages, d \in Daemons : stopper[s][d].at # "none" => User(s)' = User(s),
           \A d \in Daemons, u \in Users :
               tanscoderPids'[d][u] \in {tanscoderPids[d][u], NoPid},
           \A m \in Messages, d \in Daemons :
               stopper'[m][d].at \in {"found", "killed"} =>
                   /\ stopper[m][d].at \in {"found", "killed"}
                   /\ stopper'[m][d].pid = stopper[m][d].pid
    PROVE  TableNamesUsers' /\ StopsNameUsers'
  <1>1. TableNamesUsers'
    <2> SUFFICES ASSUME NEW d \in Daemons, NEW u \in Users, tanscoderPids'[d][u] # NoPid
                 PROVE  RanFor(u, d, tanscoderPids[d][u])' 
      BY DEF TableNamesUsers
    <2>1. tanscoderPids'[d][u] = tanscoderPids[d][u]
      OBVIOUS
    <2>2. RanFor(u, d, tanscoderPids[d][u])
      BY <2>1 DEF PidIInv, TableNamesUsers
    <2> QED
      BY <2>1, <2>2 DEF PidsStay, RanFor
  <1>2. StopsNameUsers'
    <2> SUFFICES ASSUME NEW s \in Messages, NEW d \in Daemons,
                        stopper'[s][d].at \in {"found", "killed"}
                 PROVE  /\ stopper'[s][d].pid # NoPid
                        /\ RanFor(User(s), d, stopper[s][d].pid)'
      BY DEF StopsNameUsers
    <2>1. /\ stopper[s][d].at \in {"found", "killed"}
          /\ stopper'[s][d].pid = stopper[s][d].pid /\ User(s)' = User(s)
      OBVIOUS
    <2>2. stopper[s][d].pid # NoPid /\ RanFor(User(s), d, stopper[s][d].pid)
      BY <2>1 DEF PidIInv, StopsNameUsers
    <2> QED
      BY <2>1, <2>2 DEF PidsStay, RanFor
  <1> QED
    BY <1>1, <1>2

\* A step that runs no ffmpeg.
LEMMA PidsKept ==
    ASSUME PidIInv, Quiet,
           \A m \in Messages :
               /\ starter'[m].pid = starter[m].pid
               /\ starter'[m].at \in {"none", "received", "written"} =>
                    starter[m].at \in {"none", "received", "written"}
               /\ ffmpeg'[m] = "none" <=> ffmpeg[m] = "none"
               /\ HasProcess(m)' => HasProcess(m)
    PROVE  PidsOK' /\ PidsStay
  BY DEF PidIInv, PidsOK, PidsStay, Quiet, Daemon, User

\* One that, moreover, tells the daemons of no pid.
LEMMA PidsUntouched ==
    ASSUME PidIInv, TypeIInv', Quiet,
           \A m \in Messages :
               /\ starter'[m].pid = starter[m].pid
               /\ starter'[m].at \in {"none", "received", "written"} =>
                    starter[m].at \in {"none", "received", "written"}
               /\ ffmpeg'[m] = "none" <=> ffmpeg[m] = "none"
               /\ HasProcess(m)' => HasProcess(m),
           \A d \in Daemons, u \in Users :
               tanscoderPids'[d][u] \in {tanscoderPids[d][u], NoPid},
           \A m \in Messages, d \in Daemons :
               stopper'[m][d].at \in {"found", "killed"} =>
                   /\ stopper[m][d].at \in {"found", "killed"}
                   /\ stopper'[m][d].pid = stopper[m][d].pid
    PROVE  PidIInv'
  <1>1. PidsOK' /\ PidsStay
    BY PidsKept
  <1>2. \A s \in Messages : User(s)' = User(s)
    BY DEF Quiet, User
  <1>3. TableNamesUsers' /\ StopsNameUsers'
    BY <1>1, <1>2, NamesKept
  <1> QED
    BY <1>1, <1>3 DEF PidIInv

\* A publication changes nothing of what was published before.
LEMMA PublishKeepsPids ==
    ASSUME PidIInv, TypeIInv', NEW u \in Users, PublishStart(u) \/ PublishStop(u)
    PROVE  PidIInv'
  <1> DEFINE new == published + 1
  <1>1. /\ published \in Nat /\ published' = new /\ new \in Messages
        /\ \A m \in Messages : m # new => msg'[m] = msg[m]
    BY TranscoderAssumption
       DEF PidIInv, TypeIInv, TranscoderTypeOK, Messages, PublishStart,
           PublishStop, Publish
  <1>2. /\ starter[new].at = "none" /\ ffmpeg[new] = "none" /\ starter[new].pid = NoPid
        /\ \A d \in Daemons : stopper[new][d].at = "none"
    BY <1>1 DEF PidIInv, TypeIInv, PublishedOK, PidsOK
  <1>3. /\ tanscoderPids' = tanscoderPids /\ ffmpeg' = ffmpeg
        /\ starter'[new].pid = NoPid
        /\ \A m \in Messages : m # new =>
             starter'[m] = starter[m] /\ stopper'[m] = stopper[m]
        /\ \A d \in Daemons : stopper'[new][d].at \in {"none", "received"}
    <2>1. /\ starter \in [Messages -> StarterTypes]
          /\ stopper \in [Messages -> [Daemons -> StopperTypes]]
      BY DEF PidIInv, TypeIInv, TranscoderTypeOK
    <2>2. CASE PublishStart(u)
      <3>1. PICK d \in Daemons :
              starter' = [starter EXCEPT ![new] =
                            [at |-> "received", daemon |-> d, pid |-> NoPid]]
        BY <2>2 DEF PublishStart
      <3> QED
        BY <1>1, <1>2, <2>1, <2>2, <3>1 DEF PublishStart
    <2>3. CASE PublishStop(u)
      BY <1>1, <1>2, <2>1, <2>3 DEF PublishStop, NoStopper
    <2> QED
      BY <2>2, <2>3
  <1> HIDE DEF new
  <1>4. /\ \A m \in Messages : starter'[m].pid = starter[m].pid
        /\ \A m \in Messages : HasProcess(m) => m # new
    BY <1>2, <1>3 DEF HasProcess
  <1>5. PidsOK'
    <2>1. \A m \in Messages : starter'[m].at \in {"none", "received", "written"} =>
            starter'[m].pid = NoPid
      BY <1>3 DEF PidIInv, PidsOK
    <2>2. \A m \in Messages : HasProcess(m) =>
            /\ Daemon(m)' = Daemon(m) /\ starter'[m].pid = starter[m].pid
      BY <1>3, <1>4 DEF Daemon
    <2>3. \A m \in Messages : HasProcess(m)' <=> HasProcess(m)
      BY <1>3 DEF HasProcess
    <2> QED
      BY <1>3, <1>4, <2>1, <2>2, <2>3 DEF PidIInv, PidsOK
  <1>6. PidsStay
    BY <1>1, <1>2, <1>3 DEF PidsStay, User, Daemon
  <1>7. TableNamesUsers' /\ StopsNameUsers'
    <2>1. \A s \in Messages, d \in Daemons : stopper[s][d].at # "none" => User(s)' = User(s)
      BY <1>1, <1>2 DEF User
    <2>2. \A m \in Messages, d \in Daemons :
            stopper'[m][d].at \in {"found", "killed"} =>
                /\ stopper[m][d].at \in {"found", "killed"}
                /\ stopper'[m][d].pid = stopper[m][d].pid
      BY <1>3
    <2> QED
      BY <1>3, <1>6, <2>1, <2>2, NamesKept
  <1> QED
    BY <1>5, <1>6, <1>7 DEF PidIInv

\* The new process gets a pid that no other process of the host has.
LEMMA StartFfmpegKeepsPids ==
    ASSUME PidIInv, TypeIInv', NEW m \in Messages, StartFfmpeg(m)
    PROVE  PidIInv'
  <1>1. PICK pid \in FreePids(m) :
          starter' = [starter EXCEPT ![m].at = "started", ![m].pid = pid]
    BY DEF StartFfmpeg
  <1>2. /\ starter[m].at = "written"
        /\ ffmpeg' = [ffmpeg EXCEPT ![m] = "starting"]
        /\ UNCHANGED <<tanscoderPids, stopper>>
    BY DEF StartFfmpeg
  <1>3. Quiet
    BY StarterIsQuiet DEF StarterStep, PidIInv, TypeIInv
  <1>4. /\ starter \in [Messages -> StarterTypes] /\ starter[m] \in StarterTypes
        /\ ffmpeg \in [Messages -> {"none", "starting", "running", "exited", "reaped"}]
    BY DEF PidIInv, TypeIInv, TranscoderTypeOK
  <1>5. /\ starter'[m].at = "started" /\ starter'[m].pid = pid /\ ffmpeg'[m] = "starting"
        /\ \A n \in Messages \ {m} : starter'[n] = starter[n] /\ ffmpeg'[n] = ffmpeg[n]
    BY <1>1, <1>2, <1>4 DEF StarterTypes
  <1>6. pid \in Pids /\ pid # NoPid
    BY FreePidsType DEF Pids, NoPid
  <1>7. starter[m].pid = NoPid
    BY <1>2 DEF PidIInv, PidsOK
  <1>8. PidsOK'
    <2>1. ASSUME NEW n \in Messages \ {m}, HasProcess(n), Daemon(n) = Daemon(m),
                 starter[n].pid = pid
          PROVE  FALSE
      BY <2>1 DEF FreePids, ProcessesOf, HasProcess
    <2>2. ASSUME NEW j \in Messages, NEW n \in Messages, HasProcess(j)', HasProcess(n)',
                 Daemon(j)' = Daemon(n)', starter'[j].pid = starter'[n].pid
          PROVE  j = n
      <3>1. \A i \in Messages : Daemon(i)' = Daemon(i)
        BY <1>3 DEF Quiet, Daemon
      <3>2. \A i \in Messages \ {m} : HasProcess(i)' => HasProcess(i)
        BY <1>5 DEF HasProcess
      <3>3. CASE j = m \/ n = m
        BY <1>5, <2>1, <2>2, <3>1, <3>2, <3>3
      <3>4. CASE j # m /\ n # m
        BY <1>5, <2>2, <3>1, <3>2, <3>4 DEF PidIInv, PidsOK
      <3> QED
        BY <3>3, <3>4
    <2>3. \A n \in Messages :
            /\ starter'[n].pid = NoPid <=> ffmpeg'[n] = "none"
            /\ starter'[n].at \in {"none", "received", "written"} => starter'[n].pid = NoPid
      BY <1>5, <1>6 DEF PidIInv, PidsOK
    <2> QED
      BY <2>2, <2>3 DEF PidsOK
  <1>9. PidsStay
    BY <1>3, <1>5, <1>7 DEF PidsStay, Quiet, User, Daemon
  <1>10. TableNamesUsers' /\ StopsNameUsers'
    <2>1. \A s \in Messages : User(s)' = User(s)
      BY <1>3 DEF Quiet, User
    <2> QED
      BY <1>2, <1>9, <2>1, NamesKept
  <1> QED
    BY <1>8, <1>9, <1>10 DEF PidIInv

\* What goes into the table is the pid of the start that puts it there.
LEMMA RecordPidKeepsPids ==
    ASSUME PidIInv, TypeIInv', NEW m \in Messages, RecordPid(m)
    PROVE  PidIInv'
  <1>1. /\ starter[m].at = "started"
        /\ starter' = [starter EXCEPT ![m].at = "waiting"]
        /\ tanscoderPids' = [tanscoderPids EXCEPT ![Daemon(m)][User(m)] = starter[m].pid]
        /\ UNCHANGED <<stopper, ffmpeg>>
    BY DEF RecordPid, KeepPid
  <1>2. Quiet
    BY StarterIsQuiet DEF StarterStep, PidIInv, TypeIInv
  <1>3. /\ starter \in [Messages -> StarterTypes] /\ starter[m] \in StarterTypes
        /\ tanscoderPids \in [Daemons -> [Users -> Pids \cup {NoPid}]]
    BY DEF PidIInv, TypeIInv, TranscoderTypeOK
  <1>4. /\ \A n \in Messages : starter'[n].pid = starter[n].pid
        /\ \A n \in Messages : starter'[n].at = starter[n].at \/ starter'[n].at = "waiting"
    BY <1>1, <1>3 DEF StarterTypes
  <1>5. PidsOK' /\ PidsStay
    BY <1>1, <1>2, <1>4, PidsKept DEF HasProcess
  <1>6. \A s \in Messages : User(s)' = User(s) /\ Daemon(s)' = Daemon(s)
    BY <1>2 DEF Quiet, User, Daemon
  <1>7. TableNamesUsers'
    <2> SUFFICES ASSUME NEW d \in Daemons, NEW u \in Users, tanscoderPids'[d][u] # NoPid
                 PROVE  RanFor(u, d, tanscoderPids[d][u])'
      BY DEF TableNamesUsers
    <2>1. CASE tanscoderPids'[d][u] = tanscoderPids[d][u]
      <3>1. RanFor(u, d, tanscoderPids[d][u])
        BY <2>1 DEF PidIInv, TableNamesUsers
      <3> QED
        BY <2>1, <3>1, <1>4, <1>6 DEF RanFor
    <2>2. CASE tanscoderPids'[d][u] # tanscoderPids[d][u]
      <3>1. d = Daemon(m) /\ u = User(m) /\ tanscoderPids'[d][u] = starter[m].pid
        BY <1>1, <1>3, <2>2
      <3> QED
        BY <1>4, <1>6, <3>1 DEF RanFor
    <2> QED
      BY <2>1, <2>2
  <1>8. StopsNameUsers'
    <2> SUFFICES ASSUME NEW s \in Messages, NEW d \in Daemons,
                        stopper[s][d].at \in {"found", "killed"}
                 PROVE  /\ stopper[s][d].pid # NoPid
                        /\ RanFor(User(s), d, stopper[s][d].pid)'
      BY <1>1 DEF StopsNameUsers
    <2>1. stopper[s][d].pid # NoPid /\ RanFor(User(s), d, stopper[s][d].pid)
      BY DEF PidIInv, StopsNameUsers
    <2> QED
      BY <1>1, <1>4, <1>6, <2>1 DEF RanFor
  <1> QED
    BY <1>5, <1>7, <1>8 DEF PidIInv

LEMMA StarterKeepsPids ==
    ASSUME PidIInv, TypeIInv', NEW m \in Messages, StarterStep(m) \/ StartFails(m)
    PROVE  PidIInv'
  <1>1. Quiet
    BY StarterIsQuiet DEF PidIInv, TypeIInv
  <1>2. /\ starter \in [Messages -> StarterTypes] /\ starter[m] \in StarterTypes
        /\ ffmpeg \in [Messages -> {"none", "starting", "running", "exited", "reaped"}]
    BY DEF PidIInv, TypeIInv, TranscoderTypeOK
  <1>3. CASE WriteSdp(m) \/ WaitReturns(m) \/ StartFails(m)
    <2>1. /\ tanscoderPids' = tanscoderPids /\ stopper' = stopper
          /\ starter[m].at # "written" => WriteSdp(m) \/ WaitReturns(m) \/ starter[m].at = "received"
          /\ \E new \in {"written", "ended"} :
               /\ starter' = [starter EXCEPT ![m].at = new]
               /\ new = "written" => starter[m].at = "received"
      BY <1>3 DEF WriteSdp, WaitReturns, StartFails
    <2>2. \A n \in Messages :
            /\ starter'[n].pid = starter[n].pid
            /\ starter'[n].at \in {"none", "received", "written"} =>
                 starter[n].at \in {"none", "received", "written"}
      BY <1>2, <2>1 DEF StarterTypes
    <2>3. \A n \in Messages :
            /\ ffmpeg'[n] = "none" <=> ffmpeg[n] = "none"
            /\ HasProcess(n)' => HasProcess(n)
      BY <1>2, <1>3 DEF WriteSdp, WaitReturns, StartFails, HasProcess
    <2> QED
      BY <1>1, <2>1, <2>2, <2>3, PidsUntouched
  <1> QED
    BY <1>3, StartFfmpegKeepsPids, RecordPidKeepsPids DEF StarterStep

LEMMA StopperKeepsPids ==
    ASSUME PidIInv, TypeIInv', NEW m \in Messages, NEW d \in Daemons,
           StopperStep(m, d)
    PROVE  PidIInv'
  <1>1. Quiet
    BY StopperIsQuiet DEF PidIInv, TypeIInv
  <1>2. /\ stopper \in [Messages -> [Daemons -> StopperTypes]]
        /\ stopper[m][d] \in StopperTypes
        /\ tanscoderPids \in [Daemons -> [Users -> Pids \cup {NoPid}]]
    BY DEF PidIInv, TypeIInv, TranscoderTypeOK
  <1>3. /\ starter' = starter
        /\ \A n \in Messages :
             /\ ffmpeg'[n] = "none" <=> ffmpeg[n] = "none"
             /\ HasProcess(n)' => HasProcess(n)
    BY
       DEF StopperStep, LookUpPid, KillProcess, KillPid, ProcessesOf, Forget,
           HasProcess
  <1>4. CASE LookUpPid(m, d)
    <2> DEFINE pid == tanscoderPids[d][User(m)]
    <2>1. /\ tanscoderPids' = tanscoderPids
          /\ stopper[m][d].at = "received"
          /\ stopper' = [stopper EXCEPT ![m][d] =
                           [at |-> IF pid = NoPid THEN "ended" ELSE "found",
                            pid |-> pid]]
      BY <1>4 DEF LookUpPid, PidOf
    <2>2. User(m) \in Users
      BY <2>1 DEF PidIInv, TypeIInv, PublishedOK, User
    <2>3. PidsOK' /\ PidsStay
      BY <1>1, <1>3, PidsKept
    <2>4. \A s \in Messages : User(s)' = User(s)
      BY <1>1 DEF Quiet, User
    <2>5. TableNamesUsers'
      <3> SUFFICES ASSUME NEW e \in Daemons, NEW u \in Users, tanscoderPids[e][u] # NoPid
                   PROVE  RanFor(u, e, tanscoderPids[e][u])'
        BY <2>1 DEF TableNamesUsers
      <3> QED
        BY <2>1, <2>3 DEF PidIInv, TableNamesUsers, RanFor, PidsStay
    <2>6. StopsNameUsers'
      <3> SUFFICES ASSUME NEW s \in Messages, NEW e \in Daemons,
                          stopper'[s][e].at \in {"found", "killed"}
                   PROVE  /\ stopper'[s][e].pid # NoPid
                          /\ RanFor(User(s), e, stopper[s][e].pid)'
        BY DEF StopsNameUsers
      <3>1. \/ stopper'[s][e] = stopper[s][e]
            \/ s = m /\ e = d /\ pid # NoPid /\ stopper'[s][e].pid = pid
        BY <1>2, <2>1
      <3>2. stopper'[s][e].pid # NoPid /\ RanFor(User(s), e, stopper'[s][e].pid)
        BY <2>2, <3>1 DEF PidIInv, StopsNameUsers, TableNamesUsers
      <3> QED
        BY <2>3, <2>4, <3>2 DEF RanFor, PidsStay
    <2> QED
      BY <2>3, <2>5, <2>6 DEF PidIInv
  <1>5. CASE KillProcess(m, d)
    <2>1. /\ tanscoderPids' = tanscoderPids
          /\ stopper[m][d].at = "found"
          /\ stopper' = [stopper EXCEPT ![m][d].at = "killed"]
      BY <1>5 DEF KillProcess
    <2>2. \A s \in Messages, e \in Daemons :
            stopper'[s][e].at \in {"found", "killed"} =>
                /\ stopper[s][e].at \in {"found", "killed"}
                /\ stopper'[s][e].pid = stopper[s][e].pid
      BY <1>2, <2>1 DEF StopperTypes
    <2> QED
      BY <1>1, <1>3, <2>1, <2>2, PidsUntouched
  <1>6. CASE Forget(m, d)
    <2>1. /\ tanscoderPids' = [tanscoderPids EXCEPT ![d][User(m)] = NoPid]
          /\ stopper' = [stopper EXCEPT ![m][d].at = "ended"]
      BY <1>6 DEF Forget
    <2>2. \A s \in Messages, e \in Daemons :
            stopper'[s][e].at \in {"found", "killed"} =>
                /\ stopper[s][e].at \in {"found", "killed"}
                /\ stopper'[s][e].pid = stopper[s][e].pid
      BY <1>2, <2>1 DEF StopperTypes
    <2>3. \A e \in Daemons, u \in Users :
            tanscoderPids'[e][u] \in {tanscoderPids[e][u], NoPid}
      BY <1>2, <2>1
    <2> QED
      BY <1>1, <1>3, <2>2, <2>3, PidsUntouched
  <1> QED
    BY <1>4, <1>5, <1>6 DEF StopperStep

LEMMA RestartKeepsPids ==
    ASSUME PidIInv, TypeIInv', NEW d \in Daemons, DaemonRestarts(d)
    PROVE  PidIInv'
  <1>1. Quiet
    BY RestartIsQuiet DEF PidIInv, TypeIInv
  <1>2. /\ starter \in [Messages -> StarterTypes]
        /\ stopper \in [Messages -> [Daemons -> StopperTypes]]
        /\ tanscoderPids \in [Daemons -> [Users -> Pids \cup {NoPid}]]
    BY DEF PidIInv, TypeIInv, TranscoderTypeOK
  <1>3. \A m \in Messages :
          /\ starter'[m].pid = starter[m].pid
          /\ starter'[m].at \in {starter[m].at, "ended"}
    BY <1>2 DEF DaemonRestarts, StarterTypes
  <1>4. \A e \in Daemons, u \in Users :
          tanscoderPids'[e][u] \in {tanscoderPids[e][u], NoPid}
    BY <1>2 DEF DaemonRestarts, EmptyTable
  <1>5. \A s \in Messages, e \in Daemons :
          stopper'[s][e].at \in {"found", "killed"} =>
              stopper'[s][e] = stopper[s][e]
    BY <1>2 DEF DaemonRestarts, StopperTypes
  <1>6. ffmpeg' = ffmpeg
    BY DEF DaemonRestarts
  <1> QED
    BY <1>1, <1>3, <1>4, <1>5, <1>6, PidsUntouched DEF HasProcess

LEMMA PidStep == PidIInv /\ [TranscoderNext]_vars => PidIInv'
  <1> SUFFICES ASSUME PidIInv, [TranscoderNext]_vars
               PROVE  PidIInv'
    OBVIOUS
  <1>1. TypeIInv'
    BY TranscoderTypeStep DEF PidIInv
  <1>2. ASSUME NEW u \in Users, PublishStart(u) \/ PublishStop(u)
        PROVE  PidIInv'
    BY <1>1, <1>2, PublishKeepsPids
  <1>3. ASSUME NEW m \in Messages, StarterStep(m) \/ StartFails(m)
        PROVE  PidIInv'
    BY <1>1, <1>3, StarterKeepsPids
  <1>4. ASSUME NEW m \in Messages, NEW d \in Daemons, StopperStep(m, d)
        PROVE  PidIInv'
    BY <1>1, <1>4, StopperKeepsPids
  <1>5. ASSUME NEW m \in Messages, OpenSdp(m) \/ FfmpegEnds(m) \/ InitReaps(m)
        PROVE  PidIInv'
    <2>1. Quiet
      BY <1>5, EnvironmentIsQuiet DEF PidIInv, TypeIInv
    <2>2. UNCHANGED daemonVars
      BY <1>5 DEF OpenSdp, FfmpegEnds, InitReaps
    <2>3. \A n \in Messages :
            /\ ffmpeg'[n] = "none" <=> ffmpeg[n] = "none"
            /\ HasProcess(n)' => HasProcess(n)
      BY <1>5
         DEF OpenSdp, FfmpegEnds, InitReaps, Live, HasProcess, PidIInv,
             TypeIInv, TranscoderTypeOK
    <2> QED
      BY <1>1, <2>1, <2>2, <2>3, PidsUntouched DEF daemonVars
  <1>6. ASSUME NEW d \in Daemons, DaemonRestarts(d)
        PROVE  PidIInv'
    BY <1>1, <1>6, RestartKeepsPids
  <1>7. CASE UNCHANGED vars
    BY <1>1, <1>7
       DEF PidIInv, PidsOK, HasProcess, TableNamesUsers, StopsNameUsers, RanFor,
           User, Daemon, vars, messageVars, daemonVars
  <1> QED
    BY <1>2, <1>3, <1>4, <1>5, <1>6, <1>7 DEF TranscoderNext

LEMMA PidInit == TranscoderInit => PidIInv
  BY TypeInit
     DEF PidIInv, PidsOK, HasProcess, TableNamesUsers, StopsNameUsers,
         TranscoderInit, NoStarter, NoStopper, EmptyTable

LEMMA PidInductive == TranscoderSpec => []PidIInv
  BY PidInit, PidStep, PTL DEF TranscoderSpec

\* The step in which a stop passes from "found" to "killed" is its kill.
LEMMA KillIsKill ==
    ASSUME TypeIInv, [TranscoderNext]_vars, NEW s \in Messages, NEW d \in Daemons,
           stopper[s][d].at = "found", stopper'[s][d].at = "killed"
    PROVE  KillProcess(s, d)
  <1>1. stopper \in [Messages -> [Daemons -> StopperTypes]]
    BY DEF TypeIInv, TranscoderTypeOK
  <1>2. stopper' # stopper
    OBVIOUS
  <1>3. ASSUME NEW u \in Users, PublishStop(u)
        PROVE  FALSE
    BY <1>1, <1>3 DEF PublishStop, NoStopper
  <1>4. ASSUME NEW m \in Messages, NEW e \in Daemons, StopperStep(m, e)
        PROVE  KillProcess(s, d)
    <2>1. m = s /\ e = d
      BY <1>1, <1>4 DEF StopperStep, LookUpPid, KillProcess, Forget
    <2>2. ~LookUpPid(s, d)
      BY DEF LookUpPid
    <2>3. ~Forget(s, d)
      BY DEF Forget
    <2> QED
      BY <1>4, <2>1, <2>2, <2>3 DEF StopperStep
  <1>5. ASSUME NEW e \in Daemons, DaemonRestarts(e)
        PROVE  FALSE
    BY <1>1, <1>5 DEF DaemonRestarts
  <1>6. ASSUME NEW m \in Messages,
               \/ StarterStep(m) \/ StartFails(m)
               \/ OpenSdp(m) \/ FfmpegEnds(m) \/ InitReaps(m)
        PROVE  FALSE
    BY <1>2, <1>6
       DEF StarterStep, WriteSdp, StartFfmpeg, RecordPid, WaitReturns,
           StartFails, OpenSdp, FfmpegEnds, InitReaps, daemonVars
  <1>7. ASSUME NEW u \in Users, PublishStart(u)
        PROVE  FALSE
    BY <1>2, <1>7 DEF PublishStart
  <1>8. ~UNCHANGED vars
    BY <1>2 DEF vars, daemonVars
  <1> QED
    BY <1>3, <1>4, <1>5, <1>6, <1>7, <1>8 DEF TranscoderNext

\* The process of another user has the pid of a start of this one, whose own
\* process is there no more: on one host the pids of processes differ.
LEMMA KillsOfOthers ==
    ASSUME PidIInv, [TranscoderNext]_vars, NEW s \in Messages, NEW d \in Daemons,
           stopper[s][d].at = "found", stopper'[s][d].at = "killed",
           NEW m \in Messages, Live(m), ffmpeg'[m] = "exited", User(m) # User(s)
    PROVE  \E n \in Messages :
             /\ User(n) = User(s) /\ Daemon(n) = d /\ ffmpeg[n] = "reaped"
             /\ starter[n].pid = starter[m].pid
  <1>1. KillProcess(s, d)
    BY KillIsKill DEF PidIInv
  <1>2. m \in ProcessesOf(d, stopper[s][d].pid)
    BY <1>1 DEF KillProcess, KillPid, Live
  <1>3. starter[m].pid = stopper[s][d].pid /\ Daemon(m) = d /\ HasProcess(m)
    BY <1>2 DEF ProcessesOf, HasProcess
  <1>4. stopper[s][d].pid # NoPid /\ RanFor(User(s), d, stopper[s][d].pid)
    BY DEF PidIInv, StopsNameUsers
  <1>5. PICK n \in Messages :
          User(n) = User(s) /\ Daemon(n) = d /\ starter[n].pid = starter[m].pid
    BY <1>3, <1>4 DEF RanFor
  <1>6. ~HasProcess(n)
    BY <1>3, <1>5 DEF PidIInv, PidsOK
  <1>7. ffmpeg[n] # "none"
    BY <1>3, <1>4, <1>5 DEF PidIInv, PidsOK
  <1>8. ffmpeg[n] = "reaped"
    BY <1>6, <1>7 DEF HasProcess, PidIInv, TypeIInv, TranscoderTypeOK
  <1> QED
    BY <1>5, <1>8

-----------------------------------------------------------------------------
(* What the table loses track of.                                          *)

\* Of another start or stop of its user that its daemon has handled.
Raced(m) ==
    \E n \in Messages \ {m} :
        /\ User(n) = User(m)
        /\ \/ Daemon(n) = Daemon(m) /\ starter[n].at \in {"waiting", "ended"}
           \/ stopper[n][Daemon(m)].at = "ended"

\* OnlyRacedAreUntracked, whether the process still runs or not.
TrackedOrRaced ==
    \A m \in Messages :
        starter[m].at = "waiting"
            /\ tanscoderPids[Daemon(m)][User(m)] # starter[m].pid => Raced(m)

\* What was handled stays handled.
LEMMA RacedStays ==
    ASSUME TypeIInv, Quiet, NEW m \in Messages, starter[m].at # "none", Raced(m),
           \A n \in Messages : starter[n].at \in {"waiting", "ended"} =>
               starter'[n].at \in {"waiting", "ended"},
           \A n \in Messages, d \in Daemons : stopper[n][d].at = "ended" =>
               stopper'[n][d].at = "ended"
    PROVE  Raced(m)'
  <1>1. PICK n \in Messages \ {m} :
          /\ User(n) = User(m)
          /\ \/ Daemon(n) = Daemon(m) /\ starter[n].at \in {"waiting", "ended"}
             \/ stopper[n][Daemon(m)].at = "ended"
    BY DEF Raced
  <1>2. Daemon(m) \in Daemons
    BY DEF TypeIInv, PublishedOK, Daemon
  <1>3. \A k \in Messages : User(k)' = User(k) /\ Daemon(k)' = Daemon(k)
    BY DEF Quiet, User, Daemon
  <1> QED
    BY <1>1, <1>2, <1>3 DEF Raced

\* The steps of goroutines and of the surroundings that leave the table alone.
LEMMA TableUntouched ==
    ASSUME TypeIInv, TrackedOrRaced, Quiet, tanscoderPids' = tanscoderPids,
           \A n \in Messages : starter'[n].at = "waiting" =>
               starter[n].at = "waiting" /\ starter'[n].pid = starter[n].pid,
           \A n \in Messages : starter[n].at \in {"waiting", "ended"} =>
               starter'[n].at \in {"waiting", "ended"},
           \A n \in Messages, d \in Daemons : stopper[n][d].at = "ended" =>
               stopper'[n][d].at = "ended"
    PROVE  TrackedOrRaced'
  <1> SUFFICES ASSUME NEW m \in Messages, starter'[m].at = "waiting",
                      tanscoderPids'[Daemon(m)'][User(m)'] # starter'[m].pid
               PROVE  Raced(m)'
    BY DEF TrackedOrRaced
  <1>1. starter[m].at = "waiting" /\ starter'[m].pid = starter[m].pid
    OBVIOUS
  <1>2. User(m)' = User(m) /\ Daemon(m)' = Daemon(m)
    BY DEF Quiet, User, Daemon
  <1>3. Raced(m)
    BY <1>1, <1>2 DEF TrackedOrRaced
  <1> QED
    BY <1>1, <1>3, RacedStays

LEMMA PublishKeepsTrack ==
    ASSUME TypeIInv, TrackedOrRaced, NEW u \in Users,
           PublishStart(u) \/ PublishStop(u)
    PROVE  TrackedOrRaced'
  <1> DEFINE new == published + 1
  <1>1. /\ published \in Nat /\ new \in Messages
        /\ \A m \in Messages \ {new} : msg'[m] = msg[m]
    <2>1. /\ published < MaxMessages
          /\ \E kind \in {"start", "stop"} :
               msg' = [msg EXCEPT ![new] = [kind |-> kind, user |-> u]]
      BY DEF PublishStart, PublishStop, Publish
    <2>2. published \in Nat /\ new \in Messages
      BY <2>1, TranscoderAssumption DEF TypeIInv, TranscoderTypeOK, Messages
    <2> QED
      BY <2>1, <2>2 DEF TypeIInv, TranscoderTypeOK
  <1>2. tanscoderPids' = tanscoderPids
    BY DEF PublishStart, PublishStop
  <1>3. \A m \in Messages \ {new} : starter'[m] = starter[m]
    <2>1. CASE PublishStart(u)
      BY <2>1 DEF PublishStart, TypeIInv, TranscoderTypeOK
    <2>2. CASE PublishStop(u)
      BY <2>2 DEF PublishStop
    <2> QED
      BY <2>1, <2>2
  <1>4. \A m \in Messages \ {new} : stopper'[m] = stopper[m]
    <2>1. CASE PublishStart(u)
      BY <2>1 DEF PublishStart
    <2>2. CASE PublishStop(u)
      BY <2>2 DEF PublishStop, TypeIInv, TranscoderTypeOK
    <2> QED
      BY <2>1, <2>2
  <1>5. starter'[new].at # "waiting"
    <2>1. CASE PublishStart(u)
      BY <1>1, <2>1 DEF PublishStart, TypeIInv, TranscoderTypeOK
    <2>2. CASE PublishStop(u)
      <3>1. ~(new <= published)
        BY <1>1
      <3>2. starter[new].at = "none"
        BY <1>1, <3>1 DEF TypeIInv, PublishedOK
      <3> QED
        BY <2>2, <3>2 DEF PublishStop
    <2> QED
      BY <2>1, <2>2
  <1>6. starter[new].at = "none" /\ \A d \in Daemons : stopper[new][d].at = "none"
    <2>1. ~(new <= published)
      BY <1>1
    <2> QED
      BY <1>1, <2>1 DEF TypeIInv, PublishedOK
  <1> SUFFICES ASSUME NEW m \in Messages, starter'[m].at = "waiting",
                      tanscoderPids'[Daemon(m)'][User(m)'] # starter'[m].pid
               PROVE  Raced(m)'
    BY DEF TrackedOrRaced
  <1>7. m # new /\ starter[m].at = "waiting"
    BY <1>3, <1>5
  <1>8. User(m)' = User(m) /\ Daemon(m)' = Daemon(m) /\ Daemon(m) \in Daemons
    BY <1>1, <1>3, <1>7 DEF User, Daemon, TypeIInv, PublishedOK
  <1>9. PICK n \in Messages \ {m} :
          /\ User(n) = User(m)
          /\ \/ Daemon(n) = Daemon(m) /\ starter[n].at \in {"waiting", "ended"}
             \/ stopper[n][Daemon(m)].at = "ended"
    BY <1>2, <1>3, <1>7, <1>8 DEF TrackedOrRaced, Raced
  <1>10. n # new
    BY <1>6, <1>8, <1>9
  <1>11. User(n)' = User(n) /\ Daemon(n)' = Daemon(n)
    BY <1>1, <1>3, <1>10 DEF User, Daemon
  <1> QED
    BY <1>3, <1>4, <1>8, <1>9, <1>10, <1>11 DEF Raced

LEMMA StarterKeepsTrack ==
    ASSUME TypeIInv, TrackedOrRaced, NEW m \in Messages,
           StarterStep(m) \/ StartFails(m)
    PROVE  TrackedOrRaced'
  <1>1. Quiet
    BY StarterIsQuiet DEF TypeIInv
  <1>2. /\ starter \in [Messages -> StarterTypes] /\ starter[m] \in StarterTypes
        /\ tanscoderPids \in [Daemons -> [Users -> Pids \cup {NoPid}]]
    BY DEF TypeIInv, TranscoderTypeOK
  <1>3. stopper' = stopper
    BY
       DEF StarterStep, WriteSdp, StartFfmpeg, RecordPid, WaitReturns,
           StartFails
  <1>4. CASE WriteSdp(m) \/ WaitReturns(m) \/ StartFails(m) \/ StartFfmpeg(m)
    <2>1. /\ tanscoderPids' = tanscoderPids
          /\ \/ starter[m].at \in {"received", "written"}
             \/ starter[m].at = "waiting" /\ starter'[m].at = "ended"
          /\ \E new \in {"written", "ended", "started"} : \E pid :
               \/ starter' = [starter EXCEPT ![m].at = new]
               \/ starter' = [starter EXCEPT ![m].at = new, ![m].pid = pid]
      BY <1>2, <1>4
         DEF WriteSdp, WaitReturns, StartFails, StartFfmpeg, StarterTypes
    <2>2. starter'[m].at \in {"written", "ended", "started"}
      BY <1>2, <2>1 DEF StarterTypes
    <2>3. \A n \in Messages \ {m} : starter'[n] = starter[n]
      BY <1>2, <2>1
    <2> QED
      BY <1>1, <1>3, <2>1, <2>2, <2>3, TableUntouched
  <1>5. CASE RecordPid(m)
    <2>1. /\ starter' = [starter EXCEPT ![m].at = "waiting"]
          /\ tanscoderPids' =
               [tanscoderPids EXCEPT ![Daemon(m)][User(m)] = starter[m].pid]
          /\ starter[m].at = "started"
      BY <1>5 DEF RecordPid, KeepPid
    <2>2. /\ starter'[m].at = "waiting" /\ starter'[m].pid = starter[m].pid
          /\ \A n \in Messages \ {m} : starter'[n] = starter[n]
      BY <1>2, <2>1 DEF StarterTypes
    <2>3. \A n \in Messages : /\ User(n)' = User(n)
                              /\ Daemon(n)' = Daemon(n)
      BY <1>1 DEF Quiet, User, Daemon
    <2>4. Daemon(m) \in Daemons /\ User(m) \in Users
      BY <2>1 DEF TypeIInv, PublishedOK, Daemon, User
    <2> SUFFICES ASSUME NEW n \in Messages, starter'[n].at = "waiting",
                        tanscoderPids'[Daemon(n)'][User(n)'] # starter'[n].pid
                 PROVE  Raced(n)'
      BY DEF TrackedOrRaced
    <2>5. n # m
      <3>1. tanscoderPids'[Daemon(m)][User(m)] = starter[m].pid
        BY <1>2, <2>1, <2>4
      <3> QED
        BY <2>2, <2>3, <3>1
    <2>6. starter[n].at = "waiting" /\ starter'[n].pid = starter[n].pid
      BY <2>2, <2>5
    <2>7. Daemon(n) \in Daemons /\ User(n) \in Users
      BY <2>6 DEF TypeIInv, PublishedOK, Daemon, User
    <2>8. CASE Daemon(n) = Daemon(m) /\ User(n) = User(m)
      BY <2>2, <2>3, <2>5, <2>8 DEF Raced
    <2>9. CASE ~(Daemon(n) = Daemon(m) /\ User(n) = User(m))
      <3>1. tanscoderPids'[Daemon(n)][User(n)] = tanscoderPids[Daemon(n)][User(n)]
        BY <1>2, <2>1, <2>4, <2>7, <2>9
      <3>2. Raced(n)
        BY <2>3, <2>6, <3>1 DEF TrackedOrRaced
      <3> QED
        BY <1>1, <1>3, <2>1, <2>2, <2>6, <3>2, RacedStays
    <2> QED
      BY <2>8, <2>9
  <1> QED
    BY <1>4, <1>5 DEF StarterStep

LEMMA StopperKeepsTrack ==
    ASSUME TypeIInv, TrackedOrRaced, NEW m \in Messages, NEW d \in Daemons,
           StopperStep(m, d)
    PROVE  TrackedOrRaced'
  <1>1. Quiet
    BY StopperIsQuiet DEF TypeIInv
  <1>2. /\ stopper \in [Messages -> [Daemons -> StopperTypes]]
        /\ tanscoderPids \in [Daemons -> [Users -> Pids \cup {NoPid}]]
    BY DEF TypeIInv, TranscoderTypeOK
  <1>3. /\ starter' = starter
        /\ \A n \in Messages, e \in Daemons :
             stopper[n][e].at = "ended" => stopper'[n][e].at = "ended"
    BY <1>2 DEF StopperStep, LookUpPid, KillProcess, Forget
  <1>4. CASE LookUpPid(m, d) \/ KillProcess(m, d)
    <2>1. tanscoderPids' = tanscoderPids
      BY <1>4 DEF LookUpPid, KillProcess
    <2> QED
      BY <1>1, <1>3, <2>1, TableUntouched
  <1>5. CASE Forget(m, d)
    <2>1. /\ tanscoderPids' = [tanscoderPids EXCEPT ![d][User(m)] = NoPid]
          /\ stopper[m][d].at = "killed" /\ stopper'[m][d].at = "ended"
      BY <1>2, <1>5 DEF Forget
    <2>2. \A n \in Messages : /\ User(n)' = User(n)
                              /\ Daemon(n)' = Daemon(n)
      BY <1>1 DEF Quiet, User, Daemon
    <2> SUFFICES ASSUME NEW n \in Messages, starter[n].at = "waiting",
                        tanscoderPids'[Daemon(n)][User(n)] # starter[n].pid
                 PROVE  Raced(n)'
      BY <1>3, <2>2 DEF TrackedOrRaced
    <2>3. Daemon(n) \in Daemons /\ User(n) \in Users
      BY DEF TypeIInv, PublishedOK, Daemon, User
    <2>4. CASE Raced(n)
      BY <1>1, <1>3, <2>4, RacedStays
    <2>5. CASE ~Raced(n)
      <3>1. Daemon(n) = d /\ User(n) = User(m)
        BY <1>2, <2>1, <2>3, <2>5 DEF TrackedOrRaced
      <3>2. m # n
        <4>1. starter[m].at = "none" \/ m # n
          BY <2>1 DEF TypeIInv, PublishedOK
        <4> QED
          BY <4>1
      <3> QED
        BY <2>1, <2>2, <3>1, <3>2 DEF Raced
    <2> QED
      BY <2>4, <2>5
  <1> QED
    BY <1>4, <1>5 DEF StopperStep

LEMMA RestartKeepsTrack ==
    ASSUME TypeIInv, TrackedOrRaced, NEW d \in Daemons, DaemonRestarts(d)
    PROVE  TrackedOrRaced'
  <1>1. Quiet
    BY RestartIsQuiet DEF TypeIInv
  <1>2. /\ starter \in [Messages -> StarterTypes]
        /\ stopper \in [Messages -> [Daemons -> StopperTypes]]
        /\ tanscoderPids \in [Daemons -> [Users -> Pids \cup {NoPid}]]
    BY DEF TypeIInv, TranscoderTypeOK
  <1>3. \A n \in Messages :
          IF Daemon(n) = d THEN starter'[n].at = "ended"
                           ELSE starter'[n] = starter[n]
    BY <1>2 DEF DaemonRestarts, StarterTypes
  <1>4. \A n \in Messages, e \in Daemons :
          stopper[n][e].at = "ended" => stopper'[n][e].at = "ended"
    BY <1>2 DEF DaemonRestarts, StopperTypes
  <1>5. \A e \in Daemons \ {d} : tanscoderPids'[e] = tanscoderPids[e]
    BY <1>2 DEF DaemonRestarts
  <1> SUFFICES ASSUME NEW m \in Messages, starter'[m].at = "waiting",
                      tanscoderPids'[Daemon(m)'][User(m)'] # starter'[m].pid
               PROVE  Raced(m)'
    BY DEF TrackedOrRaced
  <1>6. User(m)' = User(m) /\ Daemon(m)' = Daemon(m)
    BY <1>1 DEF Quiet, User, Daemon
  <1>7. Daemon(m) # d /\ starter'[m] = starter[m]
    BY <1>3
  <1>8. Daemon(m) \in Daemons
    BY <1>7 DEF TypeIInv, PublishedOK, Daemon
  <1>9. Raced(m)
    BY <1>5, <1>6, <1>7, <1>8 DEF TrackedOrRaced
  <1> QED
    BY <1>1, <1>3, <1>4, <1>7, <1>9, RacedStays

LEMMA TrackedStep ==
    TypeIInv /\ TrackedOrRaced /\ [TranscoderNext]_vars => TrackedOrRaced'
  <1> SUFFICES ASSUME TypeIInv, TrackedOrRaced, [TranscoderNext]_vars
               PROVE  TrackedOrRaced'
    OBVIOUS
  <1>1. ASSUME NEW u \in Users, PublishStart(u) \/ PublishStop(u)
        PROVE  TrackedOrRaced'
    BY <1>1, PublishKeepsTrack
  <1>2. ASSUME NEW m \in Messages, StarterStep(m) \/ StartFails(m)
        PROVE  TrackedOrRaced'
    BY <1>2, StarterKeepsTrack
  <1>3. ASSUME NEW m \in Messages, NEW d \in Daemons, StopperStep(m, d)
        PROVE  TrackedOrRaced'
    BY <1>3, StopperKeepsTrack
  <1>4. ASSUME NEW m \in Messages, OpenSdp(m) \/ FfmpegEnds(m) \/ InitReaps(m)
        PROVE  TrackedOrRaced'
    <2>1. Quiet
      BY <1>4, EnvironmentIsQuiet DEF TypeIInv
    <2>2. UNCHANGED daemonVars
      BY <1>4 DEF OpenSdp, FfmpegEnds, InitReaps
    <2> QED
      BY <2>1, <2>2, TableUntouched DEF daemonVars
  <1>5. ASSUME NEW d \in Daemons, DaemonRestarts(d)
        PROVE  TrackedOrRaced'
    BY <1>5, RestartKeepsTrack
  <1>6. CASE UNCHANGED vars
    BY <1>6
       DEF TrackedOrRaced, Raced, User, Daemon, vars, messageVars, daemonVars
  <1> QED
    BY <1>1, <1>2, <1>3, <1>4, <1>5, <1>6 DEF TranscoderNext

LEMMA TrackInit == TranscoderInit => TrackedOrRaced
  BY DEF TranscoderInit, TrackedOrRaced, NoStarter

-----------------------------------------------------------------------------
(* The theorems.                                                           *)

\* The variables of the daemons, the messages and the processes keep their
\* types in every behaviour.
THEOREM TranscoderTypes == TranscoderSpec => []TranscoderTypeOK
  <1>1. TypeIInv => TranscoderTypeOK
    BY DEF TypeIInv
  <1> QED
    BY <1>1, TypeInductive, PTL

\* stopTranscoder kills a process of another user only through a pid that has
\* been given again after the ffmpeg of its own user was reaped: with any number
\* of daemons, pids and messages, handled in any order, lost, or met by a restart.
THEOREM StopsHitTheirUsers == TranscoderSpec => StrayKillsHitReusedPids
  <1> DEFINE Stray(s, m, d) ==
               /\ stopper[s][d].at = "found" /\ stopper'[s][d].at = "killed"
               /\ Live(m) /\ ffmpeg'[m] = "exited" /\ User(m) # User(s)
             Reused(s, m, d) ==
               \E n \in Messages :
                 /\ User(n) = User(s) /\ Daemon(n) = d /\ ffmpeg[n] = "reaped"
                 /\ starter[n].pid = starter[m].pid
  <1>1. PidIInv /\ [TranscoderNext]_vars =>
          [\A s, m \in Messages, d \in Daemons : Stray(s, m, d) => Reused(s, m, d)]_vars
    BY KillsOfOthers
  <1> QED
    BY <1>1, PidInductive, PTL DEF TranscoderSpec, StrayKillsHitReusedPids

\* The table of a daemon loses the pid of a running ffmpeg only to another start
\* or stop of the same user.
THEOREM SingleStartsAreTracked == TranscoderSpec => []OnlyRacedAreUntracked
  <1>1. TrackedOrRaced => OnlyRacedAreUntracked
    BY DEF TrackedOrRaced, OnlyRacedAreUntracked, Raced
  <1>2. TranscoderSpec => []TrackedOrRaced
    BY TrackInit, TrackedStep, TypeInductive, PTL DEF TranscoderSpec
  <1> QED
    BY <1>1, <1>2, PTL
=============================================================================
