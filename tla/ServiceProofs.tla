---------------------------- MODULE ServiceProofs ----------------------------
(***************************************************************************)
(* Theorems about module OrderlyTranscoder, for every set of daemons and   *)
(* users, every number of messages and pids and every set of faults: to    *)
(* the users whose messages have come in turn, the daemons together are    *)
(* the one service of module TranscoderService, and their ffmpeg reads the *)
(* SDP of its own start, although the messages of others overlap, are lost *)
(* and reuse pids.                                                         *)
(***************************************************************************)
EXTENDS OrderlyTranscoder, TranscoderProofs

-----------------------------------------------------------------------------
(* The inductive invariant.                                                *)

\* No later message is about the user of m.
IsLast(m) == \A n \in (m + 1) .. published : User(n) # User(m)

\* Of the messages about an orderly user only the last is being handled.
OneIsHandled ==
    \A m \in Messages : User(m) \in orderly /\ ~IsSettled(m) => IsLast(m)

\* Goroutines are of the kind of their message.
KindsOK ==
    \A m \in Messages :
        /\ m <= published => msg[m].kind \in {"start", "stop"}
        /\ starter[m].at # "none" <=> msg[m].kind = "start"

\* The file a start has written is still there when it runs ffmpeg.
WrittenOK ==
    \A m \in Messages :
        User(m) \in orderly /\ starter[m].at = "written" =>
            sdp[Daemon(m)][User(m)] = m

\* Message n is a stop, the last about its user, that will kill the ffmpeg of m.
AboutToKill(n, m) ==
    /\ IsLast(n) /\ msg[n].kind = "stop"
    /\ stopper[n][Daemon(m)].at \in {"received", "found"}
    /\ stopper[n][Daemon(m)].at = "found" =>
         stopper[n][Daemon(m)].pid = starter[m].pid

\* An ffmpeg that lives has its file, its pid in the table, and nothing about
\* its user was published later but the stop that will find it.
Kept(m) ==
    /\ starter[m].at \in {"started", "waiting"}
    /\ starter[m].at = "waiting" =>
         tanscoderPids[Daemon(m)][User(m)] = starter[m].pid
    /\ sdp[Daemon(m)][User(m)] = m
    /\ \A n \in (m + 1) .. published : User(n) = User(m) => AboutToKill(n, m)

LiveOK == \A m \in Messages : User(m) \in orderly /\ Live(m) => Kept(m)

ServiceIInv ==
    /\ PidIInv
    /\ orderly \in SUBSET Users
    /\ OneIsHandled
    /\ KindsOK
    /\ WrittenOK
    /\ LiveOK
    /\ FfmpegReadsItsOwnSdp

LEMMA SameNumber ==
    ASSUME NEW m \in Messages, NEW n \in Messages, m <= n, n <= m
    PROVE  m = n
  BY DEF Messages

LEMMA ServiceTypes ==
    ASSUME ServiceIInv
    PROVE  /\ starter \in [Messages -> StarterTypes]
           /\ stopper \in [Messages -> [Daemons -> StopperTypes]]
           /\ tanscoderPids \in [Daemons -> [Users -> Pids \cup {NoPid}]]
           /\ sdp \in [Daemons -> [Users -> Messages \cup {NoMessage}]]
           /\ ffmpeg \in [Messages -> {"none", "starting", "running", "exited", "reaped"}]
           /\ input \in [Messages -> Messages \cup {NoMessage}]
           /\ published \in Nat
           /\ \A m \in Messages : m \in Nat /\ (m + 1) .. published \subseteq Messages
           /\ \A m \in Messages : starter[m].at # "none" =>
                Daemon(m) \in Daemons /\ User(m) \in Users /\ m <= published
           /\ \A m \in Messages : Live(m) => starter[m].at # "none"
           /\ \A m \in Messages, d \in Daemons : stopper[m][d].at # "none" =>
                User(m) \in Users /\ m <= published /\ starter[m].at = "none"
  <1>1. /\ published \in Nat
        /\ \A m \in Messages : m \in Nat /\ (m + 1) .. published \subseteq Messages
    BY TranscoderAssumption
       DEF ServiceIInv, PidIInv, TypeIInv, TranscoderTypeOK, Messages
  <1> QED
    BY <1>1
       DEF ServiceIInv, PidIInv, TypeIInv, TranscoderTypeOK, PublishedOK,
           Daemon, User, Live

\* A user has one last message.
LEMMA OneLast ==
    ASSUME ServiceIInv, NEW m \in Messages, NEW n \in Messages,
           m <= published, n <= published, User(m) = User(n), IsLast(m)
    PROVE  n <= m
  <1> SUFFICES ASSUME n > m PROVE FALSE
    BY ServiceTypes
  <1>1. n \in (m + 1) .. published
    BY ServiceTypes
  <1> QED
    BY <1>1 DEF IsLast

\* What is being handled is the last message about its user.
LEMMA HandledIsLast ==
    ASSUME ServiceIInv, NEW m \in Messages, User(m) \in orderly,
           \/ starter[m].at \in {"received", "written", "started"}
           \/ \E d \in Daemons : stopper[m][d].at \in {"received", "found", "killed"}
    PROVE  IsLast(m) /\ m <= published
  <1>1. ~IsSettled(m)
    BY DEF IsSettled
  <1>2. m <= published
    BY ServiceTypes
  <1> QED
    BY <1>1, <1>2 DEF ServiceIInv, OneIsHandled

\* Two goroutines that handle messages about an orderly user handle the same.
LEMMA OneUnsettled ==
    ASSUME ServiceIInv, NEW m \in Messages, NEW n \in Messages,
           User(m) \in orderly, User(m) = User(n),
           ~IsSettled(m), ~IsSettled(n)
    PROVE  m = n
  <1>1. IsLast(m) /\ IsLast(n)
    BY DEF ServiceIInv, OneIsHandled
  <1>2. m <= published /\ n <= published
    BY ServiceTypes DEF IsSettled
  <1>3. n <= m /\ m <= n
    BY <1>1, <1>2, OneLast
  <1> QED
    BY <1>3, SameNumber

\* No start of the same user came after the one whose ffmpeg lives.
LEMMA LiveIsLast ==
    ASSUME ServiceIInv, NEW m \in Messages, Live(m), User(m) \in orderly,
           NEW n \in Messages, User(n) = User(m), starter[n].at # "none"
    PROVE  n <= m
  <1> SUFFICES ASSUME n > m PROVE FALSE
    BY ServiceTypes
  <1>1. n \in (m + 1) .. published
    BY ServiceTypes
  <1>2. msg[n].kind = "stop"
    BY <1>1 DEF ServiceIInv, LiveOK, Kept, AboutToKill
  <1> QED
    BY <1>2 DEF ServiceIInv, KindsOK

\* An orderly user has one ffmpeg at most.
LEMMA OneLive ==
    ASSUME ServiceIInv, NEW m \in Messages, NEW n \in Messages, Live(m), Live(n),
           User(m) \in orderly, User(m) = User(n)
    PROVE  m = n
  <1>1. m <= n /\ n <= m
    BY ServiceTypes, LiveIsLast
  <1> QED
    BY <1>1, SameNumber

\* While a start is handled, its user has no other ffmpeg.
LEMMA StartMeetsLive ==
    ASSUME ServiceIInv, NEW m \in Messages, User(m) \in orderly,
           starter[m].at \in {"received", "written", "started"},
           NEW k \in Messages, Live(k), User(k) = User(m)
    PROVE  k = m /\ starter[m].at = "started"
  <1>1. IsLast(m) /\ m <= published
    BY HandledIsLast
  <1>2. starter[m].at # "none" /\ starter[k].at # "none" /\ k <= published
    BY ServiceTypes
  <1>3. m <= k /\ k <= m
    BY <1>1, <1>2, LiveIsLast, OneLast
  <1>4. k = m
    BY <1>3, SameNumber
  <1> QED
    BY <1>4 DEF ServiceIInv, LiveOK, Kept

\* A stop that is handled will kill the ffmpeg of its user.
LEMMA StopMeetsLive ==
    ASSUME ServiceIInv, NEW m \in Messages, NEW d \in Daemons, User(m) \in orderly,
           stopper[m][d].at \in {"received", "found", "killed"},
           NEW k \in Messages, Live(k), User(k) = User(m)
    PROVE  AboutToKill(m, k) /\ k # m /\ starter[k].at = "waiting"
  <1>1. IsLast(m) /\ m <= published /\ starter[m].at = "none"
    BY HandledIsLast, ServiceTypes
  <1>2. starter[k].at # "none" /\ k <= published
    BY ServiceTypes
  <1>3. k # m /\ k <= m
    BY <1>1, <1>2, OneLast
  <1>4. m \in (k + 1) .. published
    <2>1. m \in Nat /\ k \in Nat /\ published \in Nat
      BY ServiceTypes
    <2> QED
      BY <1>1, <1>3, <2>1
  <1>5. Kept(k)
    BY DEF ServiceIInv, LiveOK
  <1>6. starter[k].at = "waiting"
    <2>1. ~IsSettled(m)
      BY DEF IsSettled
    <2>2. IsSettled(k)
      BY <1>3, <2>1, OneUnsettled
    <2> QED
      BY <1>5, <2>2 DEF Kept, IsSettled
  <1> QED
    BY <1>3, <1>4, <1>5, <1>6 DEF Kept

-----------------------------------------------------------------------------
(* What most steps keep.                                                   *)

\* A step that publishes nothing.
Calm == Quiet /\ orderly' = orderly

LEMMA CalmFrame ==
    ASSUME Calm
    PROVE  /\ published' = published /\ orderly' = orderly
           /\ \A m \in Messages : /\ User(m)' = User(m) /\ Daemon(m)' = Daemon(m)
                                  /\ msg'[m] = msg[m]
  BY DEF Calm, Quiet, User, Daemon

LEMMA LastKept ==
    ASSUME ServiceIInv, Calm, NEW m \in Messages
    PROVE  IsLast(m)' <=> IsLast(m)
  <1>1. (m + 1) .. published \subseteq Messages
    BY ServiceTypes
  <1> QED
    BY <1>1, CalmFrame DEF IsLast

\* The parts of the invariant that say nothing of files and processes.
LEMMA OrderKept ==
    ASSUME ServiceIInv, Calm, \A m \in Messages : IsSettled(m) => IsSettled(m)'
    PROVE  orderly' \in SUBSET Users /\ OneIsHandled' /\ KindsOK'
  <1>1. OneIsHandled'
    <2> SUFFICES ASSUME NEW m \in Messages, User(m)' \in orderly', ~IsSettled(m)'
                 PROVE  IsLast(m)'
      BY DEF OneIsHandled
    <2> QED
      BY CalmFrame, LastKept DEF ServiceIInv, OneIsHandled
  <1>2. KindsOK'
    BY DEF ServiceIInv, KindsOK, Calm, Quiet
  <1> QED
    BY <1>1, <1>2 DEF ServiceIInv, Calm

\* An ffmpeg whose file, pid and goroutine stay what they are.
LEMMA LiveKept ==
    ASSUME ServiceIInv, Calm, NEW m \in Messages, Live(m), User(m) \in orderly,
           starter'[m] = starter[m],
           tanscoderPids'[Daemon(m)][User(m)] = tanscoderPids[Daemon(m)][User(m)],
           sdp'[Daemon(m)][User(m)] = sdp[Daemon(m)][User(m)],
           \A n \in Messages : AboutToKill(n, m) /\ User(n) = User(m) =>
               stopper'[n][Daemon(m)] = stopper[n][Daemon(m)]
    PROVE  Kept(m)'
  <1>1. Kept(m)
    BY DEF ServiceIInv, LiveOK
  <1>2. /\ Daemon(m)' = Daemon(m) /\ published' = published
        /\ \A n \in Messages : User(n)' = User(n) /\ msg'[n] = msg[n]
    BY CalmFrame
  <1>3. ASSUME NEW n \in (m + 1) .. published, User(n) = User(m)
        PROVE  AboutToKill(n, m)'
    <2>1. n \in Messages
      BY ServiceTypes
    <2>2. AboutToKill(n, m)
      BY <1>1, <1>3 DEF Kept
    <2>3. IsLast(n)'
      BY <2>1, <2>2, LastKept DEF AboutToKill
    <2> QED
      BY <1>2, <1>3, <2>1, <2>2, <2>3 DEF AboutToKill
  <1>4. (m + 1) .. published \subseteq Messages
    BY ServiceTypes
  <1> QED
    BY <1>1, <1>2, <1>3, <1>4 DEF Kept

-----------------------------------------------------------------------------
(* The goroutine of a start.                                               *)

\* Its steps change its own record only.
LEMMA StarterFrame ==
    ASSUME ServiceIInv, orderly' = orderly, NEW m \in Messages,
           StarterStep(m) \/ StartFails(m)
    PROVE  /\ Calm /\ stopper' = stopper /\ input' = input
           /\ \A n \in Messages \ {m} : starter'[n] = starter[n]
           /\ \A n \in Messages \ {m} : ffmpeg'[n] = ffmpeg[n]
           /\ starter'[m].at # "none" /\ starter'[m].daemon = starter[m].daemon
           /\ orderly' \in SUBSET Users /\ OneIsHandled' /\ KindsOK'
  <1>1. Calm
    BY StarterIsQuiet DEF ServiceIInv, PidIInv, TypeIInv, Calm
  <1>2. \A n \in Messages \ {m} : starter'[n] = starter[n]
    BY ServiceTypes
       DEF StarterStep, WriteSdp, StartFfmpeg, RecordPid, WaitReturns,
           StartFails
  <1>3. \A n \in Messages \ {m} : ffmpeg'[n] = ffmpeg[n]
    BY ServiceTypes
       DEF StarterStep, WriteSdp, StartFfmpeg, RecordPid, WaitReturns,
           StartFails
  <1>4. stopper' = stopper /\ input' = input /\ starter[m].at # "none"
    BY
       DEF StarterStep, WriteSdp, StartFfmpeg, RecordPid, WaitReturns,
           StartFails
  <1>5. starter'[m].at # "none" /\ starter'[m].daemon = starter[m].daemon
    BY <1>1, <1>4 DEF Calm, Quiet
  <1>6. ASSUME NEW n \in Messages, IsSettled(n)
        PROVE  IsSettled(n)'
    <2>1. CASE n # m
      BY <1>2, <1>4, <1>6, <2>1 DEF IsSettled
    <2>2. CASE n = m
      <3>1. starter[m].at \in {"waiting", "ended"}
        BY <1>4, <1>6, <2>2 DEF IsSettled
      <3>2. starter' = [starter EXCEPT ![m].at = "ended"]
        BY <3>1
           DEF StarterStep, WriteSdp, StartFfmpeg, RecordPid, WaitReturns,
               StartFails
      <3>3. starter'[m].at = "ended"
        BY <3>2, ServiceTypes DEF StarterTypes
      <3> QED
        BY <1>4, <1>6, <2>2, <3>3 DEF IsSettled
    <2> QED
      BY <2>1, <2>2
  <1> QED
    BY <1>1, <1>2, <1>3, <1>4, <1>5, <1>6, OrderKept

LEMMA WriteSdpKeeps ==
    ASSUME ServiceIInv, PidIInv', orderly' = orderly, NEW m \in Messages, WriteSdp(m)
    PROVE  ServiceIInv'
  <1>1. /\ starter[m].at = "received"
        /\ starter' = [starter EXCEPT ![m].at = "written"]
        /\ sdp' = [sdp EXCEPT ![Daemon(m)][User(m)] = m]
        /\ UNCHANGED <<tanscoderPids, ffmpeg, stopper, input>>
    BY DEF WriteSdp, CreateSdp
  <1>2. /\ Calm /\ orderly' \in SUBSET Users /\ OneIsHandled' /\ KindsOK'
        /\ \A n \in Messages \ {m} : starter'[n] = starter[n]
    BY StarterFrame DEF StarterStep
  <1>3. Daemon(m) \in Daemons /\ User(m) \in Users
    BY <1>1, ServiceTypes
  <1>4. WrittenOK'
    <2> SUFFICES ASSUME NEW n \in Messages, User(n) \in orderly,
                        starter'[n].at = "written"
                 PROVE  sdp'[Daemon(n)][User(n)] = n
      BY <1>2, CalmFrame DEF WrittenOK
    <2>1. CASE n = m
      BY <1>1, <1>3, <2>1, ServiceTypes
    <2>2. CASE n # m
      <3>1. starter[n].at = "written"
        BY <1>2, <2>2
      <3>2. User(n) # User(m)
        BY <1>1, <2>2, <3>1, OneUnsettled DEF IsSettled
      <3>3. sdp[Daemon(n)][User(n)] = n
        BY <3>1 DEF ServiceIInv, WrittenOK
      <3> QED
        BY <1>1, <1>3, <3>1, <3>2, <3>3, ServiceTypes
    <2> QED
      BY <2>1, <2>2
  <1>5. LiveOK'
    <2> SUFFICES ASSUME NEW k \in Messages, Live(k), User(k) \in orderly
                 PROVE  Kept(k)'
      BY <1>1, <1>2, CalmFrame DEF LiveOK, Live
    <2>1. User(k) # User(m)
      BY <1>1, StartMeetsLive
    <2>2. k # m
      BY <2>1
    <2>3. sdp'[Daemon(k)][User(k)] = sdp[Daemon(k)][User(k)]
      BY <1>1, <1>3, <2>1, ServiceTypes
    <2> QED
      BY <1>1, <1>2, <2>2, <2>3, LiveKept
  <1>6. FfmpegReadsItsOwnSdp'
    BY <1>1, <1>2, CalmFrame DEF ServiceIInv, FfmpegReadsItsOwnSdp
  <1> QED
    BY <1>2, <1>4, <1>5, <1>6 DEF ServiceIInv

\* An error before ffmpeg runs.
LEMMA StartFailsKeeps ==
    ASSUME ServiceIInv, PidIInv', orderly' = orderly, NEW m \in Messages, StartFails(m)
    PROVE  ServiceIInv'
  <1>1. /\ starter[m].at \in {"received", "written"}
        /\ starter' = [starter EXCEPT ![m].at = "ended"]
        /\ UNCHANGED <<tanscoderPids, sdp, ffmpeg, stopper, input>>
    BY DEF StartFails
  <1>2. /\ Calm /\ orderly' \in SUBSET Users /\ OneIsHandled' /\ KindsOK'
        /\ \A n \in Messages \ {m} : starter'[n] = starter[n]
    BY StarterFrame
  <1>3. starter'[m].at = "ended"
    BY <1>1, ServiceTypes DEF StarterTypes
  <1>4. WrittenOK'
    BY <1>1, <1>2, <1>3, CalmFrame DEF ServiceIInv, WrittenOK
  <1>5. LiveOK'
    <2> SUFFICES ASSUME NEW k \in Messages, Live(k), User(k) \in orderly
                 PROVE  Kept(k)'
      BY <1>1, <1>2, CalmFrame DEF LiveOK, Live
    <2>1. k # m
      BY <1>1, StartMeetsLive
    <2> QED
      BY <1>1, <1>2, <2>1, LiveKept
  <1>6. FfmpegReadsItsOwnSdp'
    BY <1>1, <1>2, CalmFrame DEF ServiceIInv, FfmpegReadsItsOwnSdp
  <1> QED
    BY <1>2, <1>4, <1>5, <1>6 DEF ServiceIInv

\* The new ffmpeg has its file, and no message about its user is later.
LEMMA StartFfmpegKeeps ==
    ASSUME ServiceIInv, PidIInv', orderly' = orderly, NEW m \in Messages, StartFfmpeg(m)
    PROVE  ServiceIInv'
  <1>1. PICK pid \in FreePids(m) :
          starter' = [starter EXCEPT ![m].at = "started", ![m].pid = pid]
    BY DEF StartFfmpeg
  <1>2. /\ starter[m].at = "written"
        /\ ffmpeg' = [ffmpeg EXCEPT ![m] = "starting"]
        /\ UNCHANGED <<tanscoderPids, sdp, stopper, input>>
    BY DEF StartFfmpeg
  <1>3. /\ Calm /\ orderly' \in SUBSET Users /\ OneIsHandled' /\ KindsOK'
        /\ \A n \in Messages \ {m} : starter'[n] = starter[n] /\ ffmpeg'[n] = ffmpeg[n]
    BY StarterFrame DEF StarterStep
  <1>4. /\ starter'[m].at = "started" /\ ffmpeg'[m] = "starting"
    BY <1>1, <1>2, ServiceTypes DEF StarterTypes
  <1>5. WrittenOK'
    BY <1>2, <1>3, <1>4, CalmFrame DEF ServiceIInv, WrittenOK
  <1>6. LiveOK'
    <2> SUFFICES ASSUME NEW k \in Messages, Live(k)', User(k) \in orderly
                 PROVE  Kept(k)'
      BY <1>3, CalmFrame DEF LiveOK
    <2>1. CASE k = m
      <3>1. sdp'[Daemon(m)'][User(m)'] = m
        BY <1>2, <1>3, <2>1, CalmFrame DEF ServiceIInv, WrittenOK
      <3>2. IsLast(m)'
        BY <1>2, <1>3, <2>1, HandledIsLast, LastKept
      <3> QED
        BY <1>4, <2>1, <3>1, <3>2 DEF Kept, IsLast
    <2>2. CASE k # m
      <3>1. Live(k)
        BY <1>3, <2>2 DEF Live
      <3> QED
        BY <1>2, <1>3, <2>2, <3>1, LiveKept
    <2> QED
      BY <2>1, <2>2
  <1>7. FfmpegReadsItsOwnSdp'
    BY <1>2, <1>3, <1>4, CalmFrame DEF ServiceIInv, FfmpegReadsItsOwnSdp
  <1> QED
    BY <1>3, <1>5, <1>6, <1>7 DEF ServiceIInv

LEMMA RecordPidKeeps ==
    ASSUME ServiceIInv, PidIInv', orderly' = orderly, NEW m \in Messages, RecordPid(m)
    PROVE  ServiceIInv'
  <1>1. /\ starter[m].at = "started"
        /\ starter' = [starter EXCEPT ![m].at = "waiting"]
        /\ tanscoderPids' = [tanscoderPids EXCEPT ![Daemon(m)][User(m)] = starter[m].pid]
        /\ UNCHANGED <<sdp, ffmpeg, stopper, input>>
    BY DEF RecordPid, KeepPid
  <1>2. /\ Calm /\ orderly' \in SUBSET Users /\ OneIsHandled' /\ KindsOK'
        /\ \A n \in Messages \ {m} : starter'[n] = starter[n]
    BY StarterFrame DEF StarterStep
  <1>3. starter'[m].at = "waiting" /\ starter'[m].pid = starter[m].pid
    BY <1>1, ServiceTypes DEF StarterTypes
  <1>4. Daemon(m) \in Daemons /\ User(m) \in Users
    BY <1>1, ServiceTypes
  <1>5. WrittenOK'
    BY <1>1, <1>2, <1>3, CalmFrame DEF ServiceIInv, WrittenOK
  <1>6. LiveOK'
    <2> SUFFICES ASSUME NEW k \in Messages, Live(k), User(k) \in orderly
                 PROVE  Kept(k)'
      BY <1>1, <1>2, CalmFrame DEF LiveOK, Live
    <2>1. CASE k = m
      <3>1. tanscoderPids'[Daemon(m)][User(m)] = starter[m].pid
        BY <1>1, <1>4, ServiceTypes
      <3>2. sdp[Daemon(m)][User(m)] = m
        BY <2>1 DEF ServiceIInv, LiveOK, Kept
      <3>3. Daemon(m)' = Daemon(m) /\ User(m)' = User(m)
        BY <1>2, CalmFrame
      <3>4. IsLast(m)'
        BY <1>1, <1>2, <2>1, HandledIsLast, LastKept
      <3> QED
        BY <1>1, <1>3, <2>1, <3>1, <3>2, <3>3, <3>4 DEF Kept, IsLast
    <2>2. CASE k # m
      <3>1. User(k) # User(m)
        BY <1>1, <2>2, StartMeetsLive
      <3>2. tanscoderPids'[Daemon(k)][User(k)] = tanscoderPids[Daemon(k)][User(k)]
        BY <1>1, <1>4, <3>1, ServiceTypes
      <3> QED
        BY <1>1, <1>2, <2>2, <3>2, LiveKept
    <2> QED
      BY <2>1, <2>2
  <1>7. FfmpegReadsItsOwnSdp'
    BY <1>1, <1>2, CalmFrame DEF ServiceIInv, FfmpegReadsItsOwnSdp
  <1> QED
    BY <1>2, <1>5, <1>6, <1>7 DEF ServiceIInv

LEMMA WaitReturnsKeeps ==
    ASSUME ServiceIInv, PidIInv', orderly' = orderly, NEW m \in Messages, WaitReturns(m)
    PROVE  ServiceIInv'
  <1>1. /\ starter[m].at = "waiting" /\ ffmpeg[m] = "exited"
        /\ starter' = [starter EXCEPT ![m].at = "ended"]
        /\ ffmpeg' = [ffmpeg EXCEPT ![m] = "reaped"]
        /\ UNCHANGED <<tanscoderPids, sdp, stopper, input>>
    BY DEF WaitReturns
  <1>2. /\ Calm /\ orderly' \in SUBSET Users /\ OneIsHandled' /\ KindsOK'
        /\ \A n \in Messages \ {m} : starter'[n] = starter[n] /\ ffmpeg'[n] = ffmpeg[n]
    BY StarterFrame DEF StarterStep
  <1>3. starter'[m].at = "ended" /\ ffmpeg'[m] = "reaped"
    BY <1>1, ServiceTypes DEF StarterTypes
  <1>4. WrittenOK'
    BY <1>1, <1>2, <1>3, CalmFrame DEF ServiceIInv, WrittenOK
  <1>5. LiveOK'
    <2> SUFFICES ASSUME NEW k \in Messages, Live(k)', User(k) \in orderly
                 PROVE  Kept(k)'
      BY <1>2, CalmFrame DEF LiveOK
    <2>1. k # m
      BY <1>3 DEF Live
    <2>2. Live(k)
      BY <1>2, <2>1 DEF Live
    <2> QED
      BY <1>1, <1>2, <2>1, <2>2, LiveKept
  <1>6. FfmpegReadsItsOwnSdp'
    BY <1>1, <1>2, <1>3, CalmFrame DEF ServiceIInv, FfmpegReadsItsOwnSdp
  <1> QED
    BY <1>2, <1>4, <1>5, <1>6 DEF ServiceIInv

-----------------------------------------------------------------------------
(* The goroutine of a stop.                                                *)

\* Its steps change its own record only.
LEMMA StopperFrame ==
    ASSUME ServiceIInv, orderly' = orderly, NEW m \in Messages, NEW d \in Daemons,
           StopperStep(m, d)
    PROVE  /\ Calm /\ starter' = starter /\ input' = input
           /\ orderly' \in SUBSET Users /\ OneIsHandled' /\ KindsOK'
           /\ \A n \in Messages, e \in Daemons :
                n # m \/ e # d => stopper'[n][e] = stopper[n][e]
           /\ stopper[m][d].at \in {"received", "found", "killed"}
           /\ User(m) \in Users
  <1>1. Calm
    BY StopperIsQuiet DEF ServiceIInv, PidIInv, TypeIInv, Calm
  <1>2. stopper[m][d].at \in {"received", "found", "killed"}
    BY DEF StopperStep, LookUpPid, KillProcess, Forget
  <1>3. \A n \in Messages, e \in Daemons :
          n # m \/ e # d => stopper'[n][e] = stopper[n][e]
    BY ServiceTypes DEF StopperStep, LookUpPid, KillProcess, Forget
  <1>4. starter' = starter /\ input' = input
    BY DEF StopperStep, LookUpPid, KillProcess, Forget
  <1>5. ASSUME NEW n \in Messages, IsSettled(n)
        PROVE  IsSettled(n)'
    <2>1. n # m
      BY <1>2, <1>5 DEF IsSettled
    <2> QED
      BY <1>3, <1>4, <1>5, <2>1 DEF IsSettled
  <1>6. User(m) \in Users
    BY <1>2, ServiceTypes
  <1> QED
    BY <1>1, <1>2, <1>3, <1>4, <1>5, <1>6, OrderKept

\* The stop finds the pid of the ffmpeg that lives.
LEMMA LookUpPidKeeps ==
    ASSUME ServiceIInv, PidIInv', orderly' = orderly, NEW m \in Messages,
           NEW d \in Daemons, LookUpPid(m, d)
    PROVE  ServiceIInv'
  <1> DEFINE pid == tanscoderPids[d][User(m)]
  <1>1. /\ stopper[m][d].at = "received"
        /\ stopper' = [stopper EXCEPT ![m][d] =
                         [at |-> IF pid = NoPid THEN "ended" ELSE "found", pid |-> pid]]
        /\ UNCHANGED <<tanscoderPids, sdp, ffmpeg>>
    BY DEF LookUpPid, PidOf
  <1>2. /\ Calm /\ starter' = starter /\ input' = input
        /\ orderly' \in SUBSET Users /\ OneIsHandled' /\ KindsOK'
        /\ \A n \in Messages, e \in Daemons :
             n # m \/ e # d => stopper'[n][e] = stopper[n][e]
    BY StopperFrame DEF StopperStep
  <1>3. WrittenOK' /\ FfmpegReadsItsOwnSdp'
    BY <1>1, <1>2, CalmFrame DEF ServiceIInv, WrittenOK, FfmpegReadsItsOwnSdp
  <1>4. stopper'[m][d] = [at |-> IF pid = NoPid THEN "ended" ELSE "found", pid |-> pid]
    BY <1>1, ServiceTypes
  <1> HIDE DEF pid
  <1>5. LiveOK'
    <2> SUFFICES ASSUME NEW k \in Messages, Live(k), User(k) \in orderly
                 PROVE  Kept(k)'
      BY <1>1, <1>2, CalmFrame DEF LiveOK, Live
    <2>0. Kept(k) /\ \A n \in (k + 1) .. published : n \in Messages
      BY ServiceTypes DEF ServiceIInv, LiveOK
    <2>1. CASE User(k) = User(m) /\ Daemon(k) = d
      <3>1. AboutToKill(m, k) /\ k # m /\ starter[k].at = "waiting"
        BY <1>1, <2>1, StopMeetsLive
      <3>2. starter[k].pid # NoPid
        BY DEF ServiceIInv, PidIInv, PidsOK, Live
      <3>3. pid = starter[k].pid /\ pid # NoPid
        BY <2>0, <2>1, <3>1, <3>2 DEF Kept, pid
      <3>4. /\ Daemon(k)' = d /\ published' = published
            /\ \A n \in Messages : User(n)' = User(n) /\ msg'[n] = msg[n]
        BY <1>2, <2>1, CalmFrame
      <3>5. AboutToKill(m, k)'
        BY <1>2, <1>4, <3>1, <3>3, <3>4, LastKept DEF AboutToKill
      <3>6. ASSUME NEW n \in (k + 1) .. published, User(n) = User(k)
            PROVE  n = m
        <4>1. n \in Messages /\ n <= published /\ IsLast(n)
          BY <2>0, <3>6 DEF Kept, AboutToKill
        <4>2. m <= published /\ IsLast(m)
          BY <1>1, <2>1, HandledIsLast
        <4> QED
          BY <2>1, <3>6, <4>1, <4>2, OneLast, SameNumber
      <3> QED
        BY <1>1, <1>2, <2>0, <2>1, <3>4, <3>5, <3>6 DEF Kept
    <2>2. CASE User(k) # User(m) \/ Daemon(k) # d
      <3>1. Daemon(k) \in Daemons
        BY ServiceTypes
      <3>2. \A n \in Messages : AboutToKill(n, k) /\ User(n) = User(k) =>
              stopper'[n][Daemon(k)] = stopper[n][Daemon(k)]
        BY <1>2, <2>2, <3>1
      <3> QED
        BY <1>1, <1>2, <3>2, LiveKept
    <2> QED
      BY <2>1, <2>2
  <1> QED
    BY <1>2, <1>3, <1>5 DEF ServiceIInv

\* What the kill leaves alive of orderly users is not of the user of the stop.
LEMMA KillProcessKeeps ==
    ASSUME ServiceIInv, PidIInv', orderly' = orderly, NEW m \in Messages,
           NEW d \in Daemons, KillProcess(m, d)
    PROVE  ServiceIInv'
  <1>1. /\ stopper[m][d].at = "found"
        /\ KillPid(d, stopper[m][d].pid)
        /\ stopper' = [stopper EXCEPT ![m][d].at = "killed"]
        /\ UNCHANGED <<tanscoderPids, sdp>>
    BY DEF KillProcess
  <1>2. /\ Calm /\ starter' = starter /\ input' = input
        /\ orderly' \in SUBSET Users /\ OneIsHandled' /\ KindsOK'
        /\ \A n \in Messages, e \in Daemons :
             n # m \/ e # d => stopper'[n][e] = stopper[n][e]
    BY StopperFrame DEF StopperStep
  <1>3. \A n \in Messages :
          /\ \/ ffmpeg'[n] = ffmpeg[n]
             \/ ffmpeg'[n] = "exited"
          /\ n \in ProcessesOf(d, stopper[m][d].pid) => ffmpeg'[n] = "exited"
    BY <1>1 DEF KillPid, ProcessesOf
  <1>4. WrittenOK' /\ FfmpegReadsItsOwnSdp'
    BY <1>1, <1>2, <1>3, CalmFrame
       DEF ServiceIInv, WrittenOK, FfmpegReadsItsOwnSdp
  <1>5. LiveOK'
    <2> SUFFICES ASSUME NEW k \in Messages, Live(k)', User(k) \in orderly
                 PROVE  Kept(k)'
      BY <1>2, CalmFrame DEF LiveOK
    <2>1. Live(k) /\ ffmpeg'[k] # "exited"
      BY <1>3 DEF Live
    <2>2. User(k) # User(m) \/ Daemon(k) # d
      <3> SUFFICES ASSUME User(k) = User(m), Daemon(k) = d PROVE FALSE
        OBVIOUS
      <3>1. AboutToKill(m, k)
        BY <1>1, <2>1, StopMeetsLive
      <3>2. k \in ProcessesOf(d, stopper[m][d].pid)
        BY <1>1, <2>1, <3>1 DEF AboutToKill, ProcessesOf, Live
      <3> QED
        BY <1>3, <2>1, <3>2
    <2>3. Daemon(k) \in Daemons
      BY <2>1, ServiceTypes
    <2>4. \A n \in Messages : AboutToKill(n, k) /\ User(n) = User(k) =>
            stopper'[n][Daemon(k)] = stopper[n][Daemon(k)]
      BY <1>2, <2>2, <2>3
    <2> QED
      BY <1>1, <1>2, <2>1, <2>4, LiveKept
  <1> QED
    BY <1>2, <1>4, <1>5 DEF ServiceIInv

\* No ffmpeg of the user lives on the host any more.
LEMMA ForgetKeeps ==
    ASSUME ServiceIInv, PidIInv', orderly' = orderly, NEW m \in Messages,
           NEW d \in Daemons, Forget(m, d)
    PROVE  ServiceIInv'
  <1>1. /\ stopper[m][d].at = "killed"
        /\ tanscoderPids' = [tanscoderPids EXCEPT ![d][User(m)] = NoPid]
        /\ sdp' = sdp \/ sdp' = [sdp EXCEPT ![d][User(m)] = NoMessage]
        /\ UNCHANGED ffmpeg
    BY DEF Forget
  <1>2. /\ Calm /\ starter' = starter /\ input' = input
        /\ orderly' \in SUBSET Users /\ OneIsHandled' /\ KindsOK'
        /\ \A n \in Messages, e \in Daemons :
             n # m \/ e # d => stopper'[n][e] = stopper[n][e]
        /\ User(m) \in Users
    BY StopperFrame DEF StopperStep
  <1>3. FfmpegReadsItsOwnSdp'
    BY <1>1, <1>2, CalmFrame DEF ServiceIInv, FfmpegReadsItsOwnSdp
  <1>4. WrittenOK'
    <2> SUFFICES ASSUME NEW n \in Messages, User(n) \in orderly,
                        starter[n].at = "written"
                 PROVE  sdp'[Daemon(n)][User(n)] = n
      BY <1>2, CalmFrame DEF WrittenOK
    <2>1. n # m
      BY <1>1, ServiceTypes
    <2>2. User(n) # User(m)
      BY <1>1, <2>1, OneUnsettled DEF IsSettled
    <2>3. sdp[Daemon(n)][User(n)] = n /\ Daemon(n) \in Daemons /\ User(n) \in Users
      BY ServiceTypes DEF ServiceIInv, WrittenOK
    <2>4. CASE sdp' = sdp
      BY <2>3, <2>4
    <2>5. CASE sdp' = [sdp EXCEPT ![d][User(m)] = NoMessage]
      BY <1>2, <2>2, <2>3, <2>5, ServiceTypes
    <2> QED
      BY <1>1, <2>4, <2>5
  <1>5. LiveOK'
    <2> SUFFICES ASSUME NEW k \in Messages, Live(k), User(k) \in orderly
                 PROVE  Kept(k)'
      BY <1>1, <1>2, CalmFrame DEF LiveOK, Live
    <2>1. User(k) # User(m) \/ Daemon(k) # d
      <3> SUFFICES ASSUME User(k) = User(m), Daemon(k) = d PROVE FALSE
        OBVIOUS
      <3>1. AboutToKill(m, k)
        BY <1>1, StopMeetsLive
      <3> QED
        BY <1>1, <3>1 DEF AboutToKill
    <2>2. Daemon(k) \in Daemons /\ User(k) \in Users
      BY ServiceTypes
    <2>3. \A n \in Messages : AboutToKill(n, k) /\ User(n) = User(k) =>
            stopper'[n][Daemon(k)] = stopper[n][Daemon(k)]
      BY <1>2, <2>1, <2>2
    <2>4. tanscoderPids'[Daemon(k)][User(k)] = tanscoderPids[Daemon(k)][User(k)]
      BY <1>1, <1>2, <2>1, <2>2, ServiceTypes
    <2>5. sdp'[Daemon(k)][User(k)] = sdp[Daemon(k)][User(k)]
      BY <1>1, <1>2, <2>1, <2>2, ServiceTypes
    <2> QED
      BY <1>2, <2>3, <2>4, <2>5, LiveKept
  <1> QED
    BY <1>2, <1>3, <1>4, <1>5 DEF ServiceIInv

-----------------------------------------------------------------------------
(* The processes, and the end of a daemon.                                 *)

\* ffmpeg finds the file of its own start; it may end.
LEMMA FfmpegKeeps ==
    ASSUME ServiceIInv, PidIInv', orderly' = orderly, NEW m \in Messages,
           OpenSdp(m) \/ FfmpegEnds(m) \/ InitReaps(m)
    PROVE  ServiceIInv'
  <1>1. /\ Calm /\ UNCHANGED <<starter, stopper, tanscoderPids, sdp>>
        /\ \A n \in Messages \ {m} : ffmpeg'[n] = ffmpeg[n] /\ input'[n] = input[n]
    <2>1. Calm
      BY EnvironmentIsQuiet DEF ServiceIInv, PidIInv, TypeIInv, Calm
    <2>2. \A n \in Messages \ {m} : ffmpeg'[n] = ffmpeg[n] /\ input'[n] = input[n]
      BY ServiceTypes DEF OpenSdp, FfmpegEnds, InitReaps
    <2> QED
      BY <2>1, <2>2 DEF OpenSdp, FfmpegEnds, InitReaps, messageVars, daemonVars
  <1>2. orderly' \in SUBSET Users /\ OneIsHandled' /\ KindsOK'
    BY <1>1, OrderKept DEF IsSettled
  <1>3. /\ Live(m)' => Live(m)
        /\ ffmpeg'[m] = "running" /\ User(m) \in orderly => input'[m] = m
    <2>1. CASE OpenSdp(m)
      <3>1. Live(m) /\ ffmpeg[m] = "starting"
        BY <2>1 DEF OpenSdp, Live
      <3>2. User(m) \in orderly => sdp[Daemon(m)][User(m)] = m
        BY <3>1 DEF ServiceIInv, LiveOK, Kept
      <3>3. input' = [input EXCEPT ![m] = sdp[Daemon(m)][User(m)]]
        BY <2>1 DEF OpenSdp
      <3> QED
        BY <3>1, <3>2, <3>3, ServiceTypes
    <2>2. CASE FfmpegEnds(m)
      BY <2>2, ServiceTypes DEF FfmpegEnds, Live
    <2>3. CASE InitReaps(m)
      BY <2>3, ServiceTypes DEF InitReaps, Live
    <2> QED
      BY <2>1, <2>2, <2>3
  <1>4. WrittenOK'
    BY <1>1, CalmFrame DEF ServiceIInv, WrittenOK
  <1>5. LiveOK'
    <2> SUFFICES ASSUME NEW k \in Messages, Live(k)', User(k) \in orderly
                 PROVE  Kept(k)'
      BY <1>1, CalmFrame DEF LiveOK
    <2>1. Live(k)
      BY <1>1, <1>3 DEF Live
    <2> QED
      BY <1>1, <2>1, LiveKept
  <1>6. FfmpegReadsItsOwnSdp'
    BY <1>1, <1>3, CalmFrame DEF ServiceIInv, FfmpegReadsItsOwnSdp
  <1> QED
    BY <1>2, <1>4, <1>5, <1>6 DEF ServiceIInv

\* A daemon that ends leaves no live ffmpeg of an orderly user behind.
LEMMA RestartKeeps ==
    ASSUME ServiceIInv, PidIInv', NEW d \in Daemons, OrderlyRestart(d)
    PROVE  ServiceIInv'
  <1>1. /\ orderly' = orderly \ {User(m) : m \in {n \in Messages : Daemon(n) = d /\ Live(n)}}
        /\ UNCHANGED <<sdp, ffmpeg, input>>
        /\ DaemonRestarts(d)
    BY DEF OrderlyRestart, DaemonRestarts
  <1>2. Quiet
    BY <1>1, RestartIsQuiet DEF ServiceIInv, PidIInv, TypeIInv
  <1>3. /\ published' = published
        /\ \A m \in Messages : /\ User(m)' = User(m) /\ Daemon(m)' = Daemon(m)
                               /\ msg'[m] = msg[m]
    BY <1>2 DEF Quiet, User, Daemon
  <1>4. \A m \in Messages : IsLast(m)' <=> IsLast(m)
    BY <1>3, ServiceTypes DEF IsLast
  <1>5. /\ \A m \in Messages : starter'[m] = starter[m] \/ starter'[m].at = "ended"
        /\ \A m \in Messages : Daemon(m) # d => starter'[m] = starter[m]
        /\ \A m \in Messages, e \in Daemons :
             e # d => stopper'[m][e] = stopper[m][e]
        /\ \A m \in Messages : stopper'[m][d].at \in {"none", "ended"}
        /\ \A e \in Daemons \ {d} : tanscoderPids'[e] = tanscoderPids[e]
    BY <1>1, ServiceTypes DEF DaemonRestarts, StarterTypes, StopperTypes
  <1>6. orderly' \in SUBSET Users /\ OneIsHandled' /\ KindsOK'
    <2>1. \A m \in Messages : IsSettled(m) => IsSettled(m)'
      BY <1>5 DEF IsSettled
    <2>2. orderly' \subseteq orderly
      BY <1>1
    <2> QED
      BY <1>2, <1>3, <1>4, <2>1, <2>2
         DEF ServiceIInv, OneIsHandled, KindsOK, Quiet
  <1>7. WrittenOK' /\ FfmpegReadsItsOwnSdp'
    BY <1>1, <1>3, <1>5 DEF ServiceIInv, WrittenOK, FfmpegReadsItsOwnSdp
  <1>8. LiveOK'
    <2> SUFFICES ASSUME NEW k \in Messages, Live(k), User(k) \in orderly'
                 PROVE  Kept(k)'
      BY <1>1, <1>3 DEF LiveOK, Live
    <2>1. User(k) \in orderly /\ Daemon(k) # d
      BY <1>1
    <2>2. Kept(k) /\ Daemon(k) \in Daemons
      BY <2>1, ServiceTypes DEF ServiceIInv, LiveOK
    <2>3. starter'[k] = starter[k] /\ tanscoderPids'[Daemon(k)] = tanscoderPids[Daemon(k)]
      BY <1>5, <2>1, <2>2
    <2>4. ASSUME NEW n \in (k + 1) .. published, User(n) = User(k)
          PROVE  AboutToKill(n, k)'
      <3>1. n \in Messages
        BY ServiceTypes
      <3>2. AboutToKill(n, k)
        BY <2>2, <2>4 DEF Kept
      <3>3. stopper'[n][Daemon(k)] = stopper[n][Daemon(k)]
        BY <1>5, <2>1, <2>2, <3>1
      <3> QED
        BY <1>3, <1>4, <2>3, <3>1, <3>2, <3>3 DEF AboutToKill
    <2>5. (k + 1) .. published \subseteq Messages
      BY ServiceTypes
    <2> QED
      BY <1>1, <1>3, <2>2, <2>3, <2>4, <2>5 DEF Kept
  <1> QED
    BY <1>6, <1>7, <1>8 DEF ServiceIInv

-----------------------------------------------------------------------------
(* The sender.                                                             *)

\* Once all messages about a user have been handled, an ffmpeg of the user
\* means that the last of them is its start.
LEMMA LiveIsWanted ==
    ASSUME ServiceIInv, NEW u \in orderly, InTurn(u), NEW m \in Messages, Live(m),
           User(m) = u
    PROVE  /\ \A n \in (m + 1) .. published : User(n) # u
           /\ m \in LastOf(u) /\ msg[m].kind = "start" /\ starter[m].at = "waiting"
  <1>1. starter[m].at # "none" /\ m <= published /\ Daemon(m) \in Daemons /\ m \in Nat
    BY ServiceTypes
  <1>2. Kept(m)
    BY DEF ServiceIInv, LiveOK
  <1>3. ASSUME NEW n \in (m + 1) .. published, User(n) = u
        PROVE  FALSE
    <2>1. n \in Messages /\ AboutToKill(n, m)
      BY <1>2, <1>3, ServiceTypes DEF Kept
    <2>2. stopper[n][Daemon(m)].at \in {"none", "ended"}
      BY <1>1, <1>3, <2>1 DEF InTurn, IsSettled
    <2> QED
      BY <2>1, <2>2 DEF AboutToKill
  <1>4. m \in 1 .. published
    BY <1>1, ServiceTypes DEF Messages
  <1>5. starter[m].at = "waiting"
    BY <1>2 DEF Kept, InTurn, IsSettled
  <1>6. msg[m].kind = "start"
    BY <1>1 DEF ServiceIInv, KindsOK
  <1> QED
    BY <1>3, <1>4, <1>5, <1>6 DEF LastOf

\* What a publication does to what was there before: it adds the message new.
Adds(new, kind, u) ==
    /\ new = published + 1 /\ published' = new /\ published \in Nat
    /\ msg'[new] = [kind |-> kind, user |-> u] /\ User(new)' = u /\ IsLast(new)'
    /\ \A m \in Messages : m # new =>
         /\ msg'[m] = msg[m] /\ User(m)' = User(m)
         /\ m <= published' => m <= published
    /\ starter[new].at = "none" /\ ~Live(new)

LEMMA PublishFrame ==
    ASSUME ServiceIInv, NEW u \in Users, NEW kind \in {"start", "stop"},
           Publish(kind, u)
    PROVE  \E new \in Messages : Adds(new, kind, u)
  <1>1. published < MaxMessages /\ published' = published + 1 /\ published \in Nat
    BY ServiceTypes DEF Publish
  <1>2. PICK new \in Messages : new = published + 1
    BY <1>1, TranscoderAssumption DEF Messages
  <1>3. /\ msg'[new] = [kind |-> kind, user |-> u]
        /\ \A m \in Messages : m # new => msg'[m] = msg[m]
    BY <1>2 DEF Publish, ServiceIInv, PidIInv, TypeIInv, TranscoderTypeOK
  <1>4. ~(new <= published)
    BY <1>1, <1>2
  <1>5. starter[new].at = "none" /\ ffmpeg[new] = "none"
    BY <1>2, <1>4 DEF ServiceIInv, PidIInv, TypeIInv, PublishedOK
  <1>6. (new + 1) .. published' = {}
    BY <1>1, <1>2
  <1>7. \A m \in Messages : m # new => (m <= published' => m <= published)
    BY <1>1, <1>2 DEF Messages
  <1>8. IsLast(new)'
    BY <1>6 DEF IsLast
  <1>9. User(new)' = u /\ ~Live(new) /\ \A m \in Messages : m # new => User(m)' = User(m)
    BY <1>3, <1>5 DEF User, Live
  <1> QED
    BY <1>1, <1>2, <1>3, <1>5, <1>7, <1>8, <1>9 DEF Adds

\* To other users, nothing was published.
LEMMA OthersLast ==
    ASSUME ServiceIInv, NEW u \in Users, NEW kind \in {"start", "stop"},
           Publish(kind, u), NEW m \in Messages, m # published + 1, User(m) # u
    PROVE  /\ IsLast(m)' <=> IsLast(m)
           /\ \A n \in (m + 1) .. published' : User(n)' = User(m) =>
                n \in (m + 1) .. published /\ n # published + 1 /\ User(n)' = User(n)
  <1>new. PICK new \in Messages : Adds(new, kind, u)
    BY PublishFrame
  <1>1. /\ new = published + 1 /\ published' = new /\ published \in Nat
        /\ User(new)' = u
        /\ \A n \in Messages : n # new => User(n)' = User(n)
    BY <1>new DEF Adds
  <1>2. \A n \in (m + 1) .. new : n = new \/ n \in (m + 1) .. published
    BY <1>1, ServiceTypes
  <1>3. \A n \in (m + 1) .. published : n \in (m + 1) .. new /\ n \in Messages /\ n # new
    BY <1>1, ServiceTypes
  <1>4. User(m)' = User(m) /\ u # User(m)
    BY <1>1
  <1>5. \A n \in (m + 1) .. published' : User(n)' = User(m) =>
          n \in (m + 1) .. published /\ n # new /\ User(n)' = User(n)
    BY <1>1, <1>2, <1>3, <1>4
  <1>6. IsLast(m)' <=> IsLast(m)
    BY <1>1, <1>3, <1>4, <1>5 DEF IsLast
  <1> QED
    BY <1>1, <1>5, <1>6

\* A user who stays orderly when a message about it is published has had all
\* earlier ones handled.
LEMMA PublishOrder ==
    ASSUME ServiceIInv, NEW u \in Users, NEW kind \in {"start", "stop"},
           Publish(kind, u), orderly' = orderly \/ orderly' = orderly \ {u},
           u \in orderly' => InTurn(u),
           \A m \in Messages : m # published + 1 =>
               starter'[m] = starter[m] /\ stopper'[m] = stopper[m],
           starter'[published + 1].at # "none" <=> kind = "start"
    PROVE  orderly' \in SUBSET Users /\ OneIsHandled' /\ KindsOK'
  <1>new. PICK new \in Messages : Adds(new, kind, u)
    BY PublishFrame
  <1>1. /\ new = published + 1 /\ IsLast(new)' /\ msg'[new].kind = kind
        /\ \A m \in Messages : m # new =>
             /\ msg'[m] = msg[m] /\ User(m)' = User(m)
             /\ m <= published' => m <= published
    BY <1>new DEF Adds
  <1>2. OneIsHandled'
    <2> SUFFICES ASSUME NEW m \in Messages, User(m)' \in orderly', ~IsSettled(m)', m # new
                 PROVE  IsLast(m)'
      BY <1>1 DEF OneIsHandled
    <2>1. ~IsSettled(m) /\ User(m) \in orderly
      BY <1>1 DEF IsSettled
    <2>2. User(m) # u
      BY <1>1, <2>1 DEF InTurn
    <2> QED
      BY <1>1, <2>1, <2>2, OthersLast DEF ServiceIInv, OneIsHandled
  <1>3. KindsOK'
    BY <1>1 DEF ServiceIInv, KindsOK
  <1> QED
    BY <1>2, <1>3 DEF ServiceIInv

\* What is alive for other users stays as it is.
LEMMA OthersKept ==
    ASSUME ServiceIInv, NEW u \in Users, NEW kind \in {"start", "stop"},
           Publish(kind, u),
           \A m \in Messages : m # published + 1 =>
               starter'[m] = starter[m] /\ stopper'[m] = stopper[m],
           tanscoderPids' = tanscoderPids, sdp' = sdp,
           NEW k \in Messages, Live(k), User(k) \in orderly, User(k) # u
    PROVE  Kept(k)'
  <1>new. PICK new \in Messages : Adds(new, kind, u)
    BY PublishFrame
  <1>1. /\ new = published + 1 /\ k # new /\ User(k)' = User(k)
        /\ \A m \in Messages : m # new => msg'[m] = msg[m]
    BY <1>new DEF Adds
  <1>2. starter'[k] = starter[k] /\ Daemon(k)' = Daemon(k)
    BY <1>1 DEF Daemon
  <1>3. Kept(k)
    BY DEF ServiceIInv, LiveOK
  <1>4. ASSUME NEW n \in (k + 1) .. published', User(n)' = User(k)
        PROVE  AboutToKill(n, k)'
    <2>1. n \in (k + 1) .. published /\ n # new /\ User(n)' = User(n)
      BY <1>1, <1>4, OthersLast
    <2>2. n \in Messages /\ User(n) = User(k)
      BY <1>4, <2>1, ServiceTypes
    <2>3. AboutToKill(n, k)
      BY <1>3, <2>1, <2>2 DEF Kept
    <2>4. IsLast(n)'
      BY <2>1, <2>2, <2>3, OthersLast DEF AboutToKill
    <2>5. msg'[n] = msg[n] /\ stopper'[n] = stopper[n]
      BY <1>1, <2>1, <2>2
    <2> QED
      BY <1>2, <2>3, <2>4, <2>5 DEF AboutToKill
  <1> QED
    BY <1>1, <1>2, <1>3, <1>4 DEF Kept

LEMMA PublishStartKeeps ==
    ASSUME ServiceIInv, PidIInv', NEW u \in Users, OrderlyStart(u)
    PROVE  /\ ServiceIInv'
           /\ u \in orderly' => \A m \in Messages : Live(m) => User(m) # u
  <1>1. /\ Publish("start", u) /\ UNCHANGED <<stopper, tanscoderPids, sdp, ffmpeg, input>>
        /\ orderly' = IF StartInTurn(u) THEN orderly ELSE orderly \ {u}
    BY DEF OrderlyStart, PublishStart
  <1>2. PICK d \in Daemons :
          starter' = [starter EXCEPT ![published + 1] =
                        [at |-> "received", daemon |-> d, pid |-> NoPid]]
    BY DEF OrderlyStart, PublishStart
  <1>new. PICK new \in Messages : Adds(new, "start", u)
    BY <1>1, PublishFrame
  <1>3. /\ new = published + 1 /\ ~Live(new)
        /\ \A m \in Messages : m # new => User(m)' = User(m)
    BY <1>new DEF Adds
  <1>4. /\ starter'[new].at = "received"
        /\ \A m \in Messages : m # new => starter'[m] = starter[m] /\ Daemon(m)' = Daemon(m)
    BY <1>2, <1>3, ServiceTypes DEF Daemon
  <1>5. u \in orderly' => u \in orderly /\ StartInTurn(u)
    BY <1>1
  <1>6. u \in orderly' => \A m \in Messages : Live(m) => User(m) # u
    <2> SUFFICES ASSUME u \in orderly', NEW m \in Messages, Live(m), User(m) = u
                 PROVE  FALSE
      OBVIOUS
    <2>1. m \in LastOf(u) /\ msg[m].kind = "start"
      BY <1>5, LiveIsWanted DEF StartInTurn
    <2> QED
      BY <1>5, <2>1 DEF StartInTurn
  <1>7. orderly' \in SUBSET Users /\ OneIsHandled' /\ KindsOK'
    BY <1>1, <1>3, <1>4, <1>5, PublishOrder DEF StartInTurn
  <1>8. WrittenOK'
    <2> SUFFICES ASSUME NEW n \in Messages, User(n)' \in orderly', starter'[n].at = "written"
                 PROVE  sdp'[Daemon(n)'][User(n)'] = n
      BY DEF WrittenOK
    <2>1. n # new
      BY <1>4
    <2> QED
      BY <1>1, <1>3, <1>4, <2>1 DEF ServiceIInv, WrittenOK
  <1>9. LiveOK'
    <2> SUFFICES ASSUME NEW k \in Messages, User(k)' \in orderly', Live(k)
                 PROVE  Kept(k)'
      BY <1>1 DEF LiveOK, Live
    <2>1. User(k)' = User(k)
      BY <1>3
    <2>2. User(k) \in orderly /\ User(k) # u
      BY <1>1, <1>6, <2>1
    <2> QED
      BY <1>1, <1>3, <1>4, <2>2, OthersKept
  <1>10. FfmpegReadsItsOwnSdp'
    BY <1>1, <1>3 DEF ServiceIInv, FfmpegReadsItsOwnSdp, Live
  <1> QED
    BY <1>6, <1>7, <1>8, <1>9, <1>10 DEF ServiceIInv

\* The stop will find the ffmpeg that lives, on whichever daemon.
LEMMA PublishStopKeeps ==
    ASSUME ServiceIInv, PidIInv', NEW u \in Users, OrderlyStop(u)
    PROVE  ServiceIInv'
  <1>1. /\ Publish("stop", u) /\ UNCHANGED <<starter, tanscoderPids, sdp, ffmpeg, input>>
        /\ orderly' = IF StopInTurn(u) THEN orderly ELSE orderly \ {u}
    BY DEF OrderlyStop, PublishStop
  <1>new. PICK new \in Messages : Adds(new, "stop", u)
    BY <1>1, PublishFrame
  <1>2. /\ new = published + 1 /\ published' = new
        /\ ~Live(new) /\ starter[new].at = "none"
        /\ IsLast(new)' /\ msg'[new].kind = "stop"
        /\ \A m \in Messages : m # new => User(m)' = User(m) /\ msg'[m] = msg[m]
    BY <1>new DEF Adds
  <1>3. \A m \in Messages : Daemon(m)' = Daemon(m)
    BY <1>1 DEF Daemon
  <1>4. \A m \in Messages : m # new => stopper'[m] = stopper[m]
    <2>1. \E received \in [Daemons -> StopperTypes \cup {NoStopper}] :
            stopper' = [stopper EXCEPT ![new] = received]
      BY <1>2 DEF OrderlyStop, PublishStop, NoStopper, StopperTypes
    <2> QED
      BY <1>2, <2>1, ServiceTypes
  <1>5. u \in orderly' => u \in orderly /\ StopInTurn(u)
    BY <1>1
  <1>6. orderly' \in SUBSET Users /\ OneIsHandled' /\ KindsOK'
    BY <1>1, <1>2, <1>4, <1>5, PublishOrder DEF StopInTurn
  <1>7. WrittenOK'
    <2> SUFFICES ASSUME NEW n \in Messages, User(n)' \in orderly', starter[n].at = "written"
                 PROVE  sdp[Daemon(n)][User(n)'] = n
      BY <1>1, <1>3 DEF WrittenOK
    <2>1. n # new
      BY <1>2
    <2> QED
      BY <1>1, <1>2, <2>1 DEF ServiceIInv, WrittenOK
  <1>8. LiveOK'
    <2> SUFFICES ASSUME NEW k \in Messages, User(k)' \in orderly', Live(k)
                 PROVE  Kept(k)'
      BY <1>1 DEF LiveOK, Live
    <2>1. k # new /\ User(k)' = User(k) /\ User(k) \in orderly
      BY <1>1, <1>2
    <2>2. CASE User(k) # u
      BY <1>1, <1>2, <1>4, <2>1, <2>2, OthersKept
    <2>3. CASE User(k) = u
      <3>1. InTurn(u) /\ \A d \in Daemons : stopper'[new][d].at = "received"
        BY <1>2, <1>5, <2>1, <2>3 DEF StopInTurn, StopReceivers
      <3>2. /\ \A n \in (k + 1) .. published : User(n) # u
            /\ Daemon(k) \in Daemons /\ published \in Nat
        BY <2>1, <2>3, <3>1, LiveIsWanted, ServiceTypes
      <3>3. ASSUME NEW n \in (k + 1) .. published', User(n)' = u
            PROVE  n = new
        <4> SUFFICES ASSUME n # new PROVE FALSE
          OBVIOUS
        <4>1. n \in (k + 1) .. published
          BY <1>2, <3>2, <3>3, ServiceTypes
        <4>2. n \in Messages
          BY <4>1, ServiceTypes
        <4>3. User(n)' = User(n)
          BY <1>2, <4>2
        <4> QED
          BY <3>2, <3>3, <4>1, <4>3
      <3>4. AboutToKill(new, k)'
        BY <1>2, <1>3, <3>1, <3>2 DEF AboutToKill
      <3>5. Kept(k)
        BY <2>1 DEF ServiceIInv, LiveOK
      <3> QED
        BY <1>1, <1>3, <2>1, <2>3, <3>3, <3>4, <3>5 DEF Kept
    <2> QED
      BY <2>2, <2>3
  <1>9. FfmpegReadsItsOwnSdp'
    <2>1. \A m \in Messages : ffmpeg[m] = "running" => m # new
      BY <1>2 DEF Live
    <2> QED
      BY <1>1, <1>2, <2>1 DEF ServiceIInv, FfmpegReadsItsOwnSdp
  <1> QED
    BY <1>6, <1>7, <1>8, <1>9 DEF ServiceIInv

-----------------------------------------------------------------------------
\* Every step is one of Transcoder.
LEMMA OrderlyIsTranscoder ==
    [OrderlyNext]_orderlyVars => [TranscoderNext]_vars
  BY
     DEF OrderlyNext, Handling, OrderlyStart, OrderlyStop, OrderlyRestart,
         TranscoderNext, orderlyVars

LEMMA ServiceStep == ServiceIInv /\ [OrderlyNext]_orderlyVars => ServiceIInv'
  <1> SUFFICES ASSUME ServiceIInv, [OrderlyNext]_orderlyVars
               PROVE  ServiceIInv'
    OBVIOUS
  <1>1. PidIInv'
    BY PidStep, OrderlyIsTranscoder DEF ServiceIInv
  <1>2. ASSUME NEW u \in Users, OrderlyStart(u) \/ OrderlyStop(u)
        PROVE  ServiceIInv'
    BY <1>1, <1>2, PublishStartKeeps, PublishStopKeeps
  <1>3. ASSUME NEW d \in Daemons, OrderlyRestart(d)
        PROVE  ServiceIInv'
    BY <1>1, <1>3, RestartKeeps
  <1>4. CASE Handling
    <2>1. orderly' = orderly
      BY <1>4 DEF Handling
    <2>2. ASSUME NEW m \in Messages, StarterStep(m) \/ StartFails(m)
          PROVE  ServiceIInv'
      BY <1>1, <2>1, <2>2, WriteSdpKeeps, StartFailsKeeps, StartFfmpegKeeps,
         RecordPidKeeps, WaitReturnsKeeps DEF StarterStep
    <2>3. ASSUME NEW m \in Messages, NEW d \in Daemons, StopperStep(m, d)
          PROVE  ServiceIInv'
      BY <1>1, <2>1, <2>3, LookUpPidKeeps, KillProcessKeeps, ForgetKeeps
         DEF StopperStep
    <2>4. ASSUME NEW m \in Messages, OpenSdp(m) \/ FfmpegEnds(m) \/ InitReaps(m)
          PROVE  ServiceIInv'
      BY <1>1, <2>1, <2>4, FfmpegKeeps
    <2> QED
      BY <1>4, <2>2, <2>3, <2>4 DEF Handling
  <1>5. CASE UNCHANGED orderlyVars
    BY <1>1, <1>5
       DEF ServiceIInv, OneIsHandled, IsSettled, IsLast, KindsOK, WrittenOK,
           LiveOK, Kept, AboutToKill, Live, FfmpegReadsItsOwnSdp, User, Daemon,
           orderlyVars, vars, messageVars, daemonVars
  <1> QED
    BY <1>2, <1>3, <1>4, <1>5 DEF OrderlyNext

LEMMA ServiceInit == OrderlyInit => ServiceIInv
  <1> SUFFICES ASSUME OrderlyInit PROVE ServiceIInv
    OBVIOUS
  <1>1. PidIInv
    BY PidInit DEF OrderlyInit
  <1>2. /\ \A m \in Messages : /\ starter[m].at = "none" /\ msg[m].kind = "none"
                               /\ ffmpeg[m] = "none" /\ ~(m <= published)
        /\ \A m \in Messages, d \in Daemons : stopper[m][d].at = "none"
        /\ orderly = Users
    BY DEF OrderlyInit, TranscoderInit, NoStarter, NoStopper, Messages
  <1> QED
    BY <1>1, <1>2
       DEF ServiceIInv, OneIsHandled, IsSettled, KindsOK, WrittenOK, LiveOK,
           Live, FfmpegReadsItsOwnSdp

LEMMA ServiceInductive == OrderlySpec => []ServiceIInv
  BY ServiceInit, ServiceStep, PTL DEF OrderlySpec

-----------------------------------------------------------------------------
(* The refinement.                                                         *)

Wants(u) == \E m \in LastOf(u) : msg[m].kind = "start"
IsServed(u) == \E m \in Messages : User(m) = u /\ Live(m)

WantedBar == {u \in orderly : Wants(u)}
ServingBar == {u \in orderly : IsServed(u)}

\* A stutter of the service.
Same == orderly' = orderly /\ WantedBar' = WantedBar /\ ServingBar' = ServingBar

\* A step of the service, or none.
Serves == Service!ServiceNext \/ Same

\* The service as seen through the bars.
LEMMA ServiceBars ==
    /\ \A u \in Users :
         \/ /\ u \in orderly \ (WantedBar \cup ServingBar)
            /\ WantedBar' = WantedBar \cup {u}
            /\ orderly' = orderly /\ ServingBar' = ServingBar
         \/ /\ u \in WantedBar \ ServingBar
            /\ ServingBar' = ServingBar \cup {u}
            /\ orderly' = orderly /\ WantedBar' = WantedBar
         \/ /\ u \in WantedBar
            /\ WantedBar' = WantedBar \ {u}
            /\ orderly' = orderly /\ ServingBar' = ServingBar
         \/ /\ u \in ServingBar
            /\ ServingBar' = ServingBar \ {u}
            /\ orderly' = orderly /\ WantedBar' = WantedBar
         => Serves
    /\ \A users \in SUBSET orderly :
         /\ orderly' = orderly \ users
         /\ WantedBar' = WantedBar \ users
         /\ ServingBar' = ServingBar \ users
         => Serves
  BY
     DEF Serves, Service!ServiceNext, Service!Request, Service!Begin,
         Service!Cancel, Service!End, Service!Lapse, WantedBar, ServingBar,
         Wants, IsServed

\* A step that publishes nothing and starts no ffmpeg, and after which at most
\* one that lived has ended.
LEMMA CalmImplements ==
    ASSUME ServiceIInv, Calm, NEW gone \in SUBSET Messages,
           \A m, n \in gone : Live(m) /\ Live(n) => m = n,
           \A m \in Messages : Live(m)' <=> Live(m) /\ m \notin gone
    PROVE  Serves
  <1>1. /\ orderly' = orderly
        /\ \A m \in Messages : User(m)' = User(m)
    BY CalmFrame
  <1>2. WantedBar' = WantedBar
    BY DEF WantedBar, Wants, LastOf, User, Calm, Quiet
  <1>3. CASE \E m \in gone : Live(m) /\ User(m) \in orderly
    <2>1. PICK m \in gone : Live(m) /\ User(m) \in orderly
      BY <1>3
    <2>2. m \in Messages /\ User(m) \in Users
      BY <2>1 DEF ServiceIInv
    <2>3. ASSUME NEW k \in Messages, Live(k), User(k) \in orderly
          PROVE  Live(k)' <=> User(k) # User(m)
      BY <2>1, <2>2, <2>3, OneLive
    <2>4. ServingBar' = ServingBar \ {User(m)}
      BY <1>1, <2>3 DEF ServingBar, IsServed
    <2>5. User(m) \in ServingBar
      BY <2>1, <2>2 DEF ServingBar, IsServed
    <2> QED
      BY <1>1, <1>2, <2>2, <2>4, <2>5, ServiceBars
  <1>4. CASE ~\E m \in gone : Live(m) /\ User(m) \in orderly
    <2>1. \A m \in Messages : User(m) \in orderly => (Live(m)' <=> Live(m))
      BY <1>4
    <2>2. ServingBar' = ServingBar
      BY <1>1, <2>1 DEF ServingBar, IsServed
    <2> QED
      BY <1>1, <1>2, <2>2 DEF Serves, Same
  <1> QED
    BY <1>3, <1>4

\* One that starts and ends no ffmpeg is a stutter of the service.
LEMMA NothingEnds ==
    ASSUME Calm, \A n \in Messages : Live(n)' <=> Live(n)
    PROVE  Serves
  BY
     DEF Serves, Same, Calm, Quiet, WantedBar, Wants, ServingBar, IsServed,
         LastOf, User

\* One that may end a single ffmpeg may end that user's service.
LEMMA OneEnds ==
    ASSUME ServiceIInv, NEW m \in Messages, Calm,
           \A n \in Messages : Live(n)' <=> Live(n) /\ n \notin {m}
    PROVE  Serves
  <1> DEFINE gone == {m}
  <1>1. gone \in SUBSET Messages /\ \A j, n \in gone : Live(j) /\ Live(n) => j = n
    OBVIOUS
  <1>2. \A n \in Messages : Live(n)' <=> Live(n) /\ n \notin gone
    OBVIOUS
  <1> HIDE DEF gone
  <1> QED
    BY <1>1, <1>2, CalmImplements

\* The last message about the user of a publication is the published one.
LEMMA PublishIsLast ==
    ASSUME ServiceIInv, NEW u \in Users, NEW kind \in {"start", "stop"},
           Publish(kind, u), NEW v \in Users
    PROVE  /\ v # u => Wants(v)' = Wants(v)
           /\ v = u => Wants(v)' = (kind = "start")
  <1>1. PICK new \in Messages : Adds(new, kind, u)
    BY PublishFrame
  <1>2. /\ new = published + 1 /\ published' = new /\ published \in Nat
        /\ msg'[new] = [kind |-> kind, user |-> u]
        /\ \A m \in Messages : m # new => msg'[m] = msg[m]
    BY <1>1 DEF Adds
  <1>3. \A m \in 1 .. new : m \in Messages
    <2>1. new \in Nat /\ new =< MaxMessages /\ MaxMessages \in Nat
      BY <1>1, TranscoderAssumption DEF Messages
    <2> QED
      BY <2>1 DEF Messages
  <1>4. LastOf(v)' = {m \in 1 .. new :
                        msg'[m].user = v /\ \A n \in (m + 1) .. new : msg'[n].user # v}
    BY <1>2 DEF LastOf, User
  <1>5. LastOf(v) = {m \in 1 .. published :
                       msg[m].user = v /\ \A n \in (m + 1) .. published : msg[n].user # v}
    BY DEF LastOf, User
  <1>6. msg'[new].user = u /\ msg'[new].kind = kind
    BY <1>2
  <1>7. \A m \in 1 .. published : m \in Messages /\ m # new /\ msg'[m] = msg[m]
    BY <1>2, <1>3
  <1>8. CASE v # u
    <2>1. ASSUME NEW m \in 1 .. published
          PROVE  (\A n \in (m + 1) .. new : msg'[n].user # v)
                   <=> \A n \in (m + 1) .. published : msg[n].user # v
      <3>1. \A n \in (m + 1) .. new : n = new \/ n \in (m + 1) .. published
        BY <1>2
      <3>2. \A n \in (m + 1) .. published : n \in (m + 1) .. new /\ n \in 1 .. published
        BY <1>2
      <3> QED
        BY <1>6, <1>7, <1>8, <3>1, <3>2
    <2>2. \A m \in 1 .. new : msg'[m].user = v => m \in 1 .. published
      BY <1>2, <1>6, <1>8
    <2>3. \A m \in 1 .. published : m \in 1 .. new
      BY <1>2
    <2>4. LastOf(v)' = LastOf(v)
      BY <1>4, <1>5, <1>7, <2>1, <2>2, <2>3
    <2> QED
      BY <1>5, <1>7, <1>8, <2>4 DEF Wants
  <1>9. CASE v = u
    <2>1. \A m \in 1 .. new : m # new => new \in (m + 1) .. new
      BY <1>2
    <2>2. new \in 1 .. new /\ (new + 1) .. new = {}
      BY <1>2
    <2>3. LastOf(v)' = {new}
      BY <1>4, <1>6, <1>9, <2>1, <2>2
    <2> QED
      BY <1>6, <1>9, <2>3 DEF Wants
  <1> QED
    BY <1>8, <1>9

\* Publishing starts and stops nothing.
LEMMA PublishServesNobody ==
    ASSUME ServiceIInv, NEW u \in Users, NEW kind \in {"start", "stop"},
           Publish(kind, u), ffmpeg' = ffmpeg, NEW v
    PROVE  IsServed(v)' = IsServed(v)
  <1>1. PICK new \in Messages : Adds(new, kind, u)
    BY PublishFrame
  <1>2. \A m \in Messages : Live(m) => User(m)' = User(m)
    BY <1>1 DEF Adds
  <1> QED
    BY <1>2 DEF IsServed, Live

\* A message out of turn ends the promise to its user, and to no other.
LEMMA LapseImplements ==
    ASSUME ServiceIInv, NEW u \in Users, NEW kind \in {"start", "stop"},
           Publish(kind, u), ffmpeg' = ffmpeg, orderly' = orderly \ {u}
    PROVE  Serves
  <1>1. \A v \in Users : IsServed(v)' = IsServed(v)
    BY PublishServesNobody
  <1>2. \A v \in Users : v # u => Wants(v)' = Wants(v)
    BY PublishIsLast
  <1>3. orderly \subseteq Users
    BY DEF ServiceIInv
  <1>4. WantedBar' = WantedBar \ {u} /\ ServingBar' = ServingBar \ {u}
    BY <1>1, <1>2, <1>3 DEF WantedBar, ServingBar
  <1>5. CASE u \in orderly
    BY <1>4, <1>5, ServiceBars
  <1>6. CASE u \notin orderly
    <2>1. u \notin WantedBar /\ u \notin ServingBar
      BY <1>6 DEF WantedBar, ServingBar
    <2> QED
      BY <1>4, <1>6, <2>1 DEF Serves, Same
  <1> QED
    BY <1>5, <1>6

LEMMA StartImplements ==
    ASSUME ServiceIInv, PidIInv', NEW u \in Users, OrderlyStart(u)
    PROVE  Serves
  <1>1. /\ Publish("start", u) /\ ffmpeg' = ffmpeg
        /\ orderly' = IF StartInTurn(u) THEN orderly ELSE orderly \ {u}
    BY DEF OrderlyStart, PublishStart
  <1>2. CASE u \in orderly'
    <2>1. orderly' = orderly /\ u \in orderly /\ StartInTurn(u) /\ orderly \subseteq Users
      BY <1>1, <1>2 DEF ServiceIInv
    <2>2. u \notin ServingBar
      BY <1>2, PublishStartKeeps DEF ServingBar, IsServed
    <2>3. u \notin WantedBar
      BY <2>1 DEF WantedBar, Wants, StartInTurn
    <2>4. \A v \in Users : IsServed(v)' = IsServed(v)
      BY <1>1, PublishServesNobody
    <2>5. Wants(u)' /\ \A v \in Users : v # u => Wants(v)' = Wants(v)
      BY <1>1, PublishIsLast
    <2>6. WantedBar' = WantedBar \cup {u} /\ ServingBar' = ServingBar
      BY <2>1, <2>4, <2>5 DEF WantedBar, ServingBar
    <2> QED
      BY <2>1, <2>2, <2>3, <2>6, ServiceBars
  <1>3. CASE u \notin orderly'
    <2>1. orderly' = orderly \ {u}
      BY <1>1, <1>3
    <2> QED
      BY <1>1, <2>1, LapseImplements
  <1> QED
    BY <1>2, <1>3

LEMMA StopImplements ==
    ASSUME ServiceIInv, NEW u \in Users, OrderlyStop(u)
    PROVE  Serves
  <1>1. /\ Publish("stop", u) /\ ffmpeg' = ffmpeg
        /\ orderly' = IF StopInTurn(u) THEN orderly ELSE orderly \ {u}
    BY DEF OrderlyStop, PublishStop
  <1>2. CASE u \in orderly'
    <2>1. orderly' = orderly /\ u \in orderly /\ orderly \subseteq Users
      BY <1>1, <1>2 DEF ServiceIInv
    <2>2. \A v \in Users : IsServed(v)' = IsServed(v)
      BY <1>1, PublishServesNobody
    <2>3. ~Wants(u)' /\ \A v \in Users : v # u => Wants(v)' = Wants(v)
      BY <1>1, PublishIsLast
    <2>4. WantedBar' = WantedBar \ {u} /\ ServingBar' = ServingBar
      BY <2>1, <2>2, <2>3 DEF WantedBar, ServingBar
    <2>5. CASE u \in WantedBar
      BY <2>1, <2>4, <2>5, ServiceBars
    <2>6. CASE u \notin WantedBar
      BY <2>1, <2>4, <2>6 DEF Serves, Same
    <2> QED
      BY <2>5, <2>6
  <1>3. CASE u \notin orderly'
    <2>1. orderly' = orderly \ {u}
      BY <1>1, <1>3
    <2> QED
      BY <1>1, <2>1, LapseImplements
  <1> QED
    BY <1>2, <1>3

\* ffmpeg is started for a user who wants it and has none.
LEMMA StartFfmpegImplements ==
    ASSUME ServiceIInv, NEW m \in Messages, StartFfmpeg(m), orderly' = orderly
    PROVE  Serves
  <1>1. starter[m].at = "written" /\ ffmpeg' = [ffmpeg EXCEPT ![m] = "starting"]
    BY DEF StartFfmpeg
  <1>2. Calm
    BY StarterFrame DEF StarterStep
  <1>3. WantedBar' = WantedBar
    BY <1>2 DEF WantedBar, Wants, LastOf, User, Calm, Quiet
  <1>4. /\ \A k \in Messages : Live(k)' <=> Live(k) \/ k = m
        /\ \A k \in Messages : User(k)' = User(k)
    BY <1>1, <1>2, ServiceTypes, CalmFrame DEF Live
  <1>5. CASE User(m) \in orderly
    <2>1. User(m) \notin ServingBar
      BY <1>1, <1>5, StartMeetsLive DEF ServingBar, IsServed
    <2>2. m \in LastOf(User(m))
      <3>1. m \in 1 .. published
        BY <1>1, ServiceTypes DEF Messages
      <3>2. IsLast(m)
        BY <1>1, <1>5, HandledIsLast
      <3> QED
        BY <3>1, <3>2 DEF LastOf, IsLast
    <2>3. msg[m].kind = "start"
      BY <1>1 DEF ServiceIInv, KindsOK
    <2>4. User(m) \in WantedBar
      BY <1>5, <2>2, <2>3 DEF WantedBar, Wants
    <2>5. ServingBar' = ServingBar \cup {User(m)}
      BY <1>4, <1>5 DEF ServingBar, IsServed
    <2>6. User(m) \in Users
      BY <1>5 DEF ServiceIInv
    <2> QED
      BY <1>3, <2>1, <2>4, <2>5, <2>6, ServiceBars
  <1>6. CASE User(m) \notin orderly
    <2>1. ServingBar' = ServingBar
      BY <1>4, <1>6 DEF ServingBar, IsServed
    <2> QED
      BY <1>3, <2>1 DEF Serves, Same
  <1> QED
    BY <1>5, <1>6

\* A kill ends one ffmpeg at most, since no two on a host have the same pid.
LEMMA KillImplements ==
    ASSUME ServiceIInv, NEW m \in Messages, NEW d \in Daemons, KillProcess(m, d),
           orderly' = orderly
    PROVE  Serves
  <1> DEFINE gone == ProcessesOf(d, stopper[m][d].pid)
  <1>1. Calm
    BY StopperFrame DEF StopperStep
  <1>2. gone \in SUBSET Messages
    BY DEF ProcessesOf
  <1>3. \A j, n \in gone : Live(j) /\ Live(n) => j = n
    BY DEF ProcessesOf, ServiceIInv, PidIInv, PidsOK, HasProcess
  <1>4. \A n \in Messages : Live(n)' <=> Live(n) /\ n \notin gone
    BY DEF KillProcess, KillPid, Live
  <1> HIDE DEF gone
  <1> QED
    BY <1>1, <1>2, <1>3, <1>4, CalmImplements

\* The promise lapses to those whose ffmpeg the daemon leaves behind.
LEMMA RestartImplements ==
    ASSUME ServiceIInv, NEW d \in Daemons, OrderlyRestart(d)
    PROVE  Serves
  <1> DEFINE left == {User(m) : m \in {n \in Messages : Daemon(n) = d /\ Live(n)}}
             users == orderly \cap left
  <1>1. orderly' = orderly \ left /\ DaemonRestarts(d)
    BY DEF OrderlyRestart
  <1>2. Quiet /\ ffmpeg' = ffmpeg
    BY <1>1, RestartIsQuiet DEF DaemonRestarts, ServiceIInv, PidIInv, TypeIInv
  <1>3. \A u \in orderly : Wants(u)' = Wants(u) /\ IsServed(u)' = IsServed(u)
    BY <1>2 DEF Wants, IsServed, LastOf, User, Live, Quiet
  <1>4. orderly' = orderly \ users /\ users \in SUBSET orderly
    BY <1>1
  <1> HIDE DEF left, users
  <1>5. WantedBar' = WantedBar \ users /\ ServingBar' = ServingBar \ users
    BY <1>3, <1>4 DEF WantedBar, ServingBar
  <1> QED
    BY <1>4, <1>5, ServiceBars

LEMMA StepServes == ServiceIInv /\ [OrderlyNext]_orderlyVars => Serves
  <1> SUFFICES ASSUME ServiceIInv, [OrderlyNext]_orderlyVars
               PROVE  Serves
    OBVIOUS
  <1>1. PidIInv'
    BY PidStep, OrderlyIsTranscoder DEF ServiceIInv
  <1>2. ASSUME NEW u \in Users, OrderlyStart(u) \/ OrderlyStop(u)
        PROVE  Serves
    BY <1>1, <1>2, StartImplements, StopImplements
  <1>3. ASSUME NEW d \in Daemons, OrderlyRestart(d)
        PROVE  Serves
    BY <1>3, RestartImplements
  <1>4. CASE Handling
    <2>1. orderly' = orderly
      BY <1>4 DEF Handling
    <2>2. ASSUME NEW m \in Messages, StartFfmpeg(m)
          PROVE  Serves
      BY <2>1, <2>2, StartFfmpegImplements
    <2>3. ASSUME NEW m \in Messages,
                 WriteSdp(m) \/ StartFails(m) \/ RecordPid(m) \/ WaitReturns(m)
          PROVE  Serves
      <3>1. Calm
        BY <2>1, <2>3, StarterFrame DEF StarterStep
      <3>2. \A n \in Messages : Live(n)' <=> Live(n)
        BY <2>3, ServiceTypes
           DEF WriteSdp, StartFails, RecordPid, WaitReturns, Live
      <3> QED
        BY <3>1, <3>2, NothingEnds
    <2>4. ASSUME NEW m \in Messages, NEW d \in Daemons, LookUpPid(m, d) \/ Forget(m, d)
          PROVE  Serves
      <3>1. Calm
        BY <2>1, <2>4, StopperFrame DEF StopperStep
      <3>2. \A n \in Messages : Live(n)' <=> Live(n)
        BY <2>4 DEF LookUpPid, Forget, Live
      <3> QED
        BY <3>1, <3>2, NothingEnds
    <2>5. ASSUME NEW m \in Messages, NEW d \in Daemons, KillProcess(m, d)
          PROVE  Serves
      BY <2>1, <2>5, KillImplements
    <2>6. ASSUME NEW m \in Messages, OpenSdp(m) \/ FfmpegEnds(m) \/ InitReaps(m)
          PROVE  Serves
      <3>1. Calm
        BY <2>1, <2>6, EnvironmentIsQuiet
           DEF ServiceIInv, PidIInv, TypeIInv, Calm
      <3>2. \/ \A n \in Messages : Live(n)' <=> Live(n)
            \/ \A n \in Messages : Live(n)' <=> Live(n) /\ n \notin {m}
        BY <2>6, ServiceTypes DEF OpenSdp, FfmpegEnds, InitReaps, Live
      <3> QED
        BY <3>1, <3>2, NothingEnds, OneEnds
    <2> QED
      BY <1>4, <2>2, <2>3, <2>4, <2>5, <2>6
         DEF Handling, StarterStep, StopperStep
  <1>5. CASE UNCHANGED orderlyVars
    BY <1>5
       DEF Serves, Same, WantedBar, Wants, ServingBar, IsServed, LastOf, User,
           Live, orderlyVars, vars, messageVars
  <1> QED
    BY <1>2, <1>3, <1>4, <1>5 DEF OrderlyNext

-----------------------------------------------------------------------------
(* The theorems.                                                           *)

\* An ffmpeg of a user whose messages came in turn listens on the ports of its
\* own start: although startTranscoder writes the SDP of every start of a user
\* into the same file, stops remove it, and the messages of other users overlap,
\* are lost or meet the end of a daemon.
THEOREM NobodyReadsAnotherSdp == OrderlySpec => []FfmpegReadsItsOwnSdp
  <1>1. ServiceIInv => FfmpegReadsItsOwnSdp
    BY DEF ServiceIInv
  <1> QED
    BY <1>1, ServiceInductive, PTL

\* To the users whose messages came in turn, the daemons together do what the one
\* service of TranscoderService may do: a transcoder begins only while its user
\* wants it and has none, and a start finds nothing of an earlier one, whatever
\* becomes of the messages of other users.  That a cancelled one does end is left
\* to TLC.
THEOREM DaemonsAreOneService == OrderlySpec => KeepsToService
  <1>1. OrderlyInit => Service!ServiceInit
    <2> SUFFICES ASSUME OrderlyInit PROVE Service!ServiceInit
      OBVIOUS
    <2>1. \A u \in Users : LastOf(u) = {}
      BY DEF OrderlyInit, TranscoderInit, LastOf
    <2>2. \A m \in Messages : ~Live(m)
      BY DEF OrderlyInit, TranscoderInit, Live
    <2> QED
      BY <2>1, <2>2 DEF OrderlyInit, Service!ServiceInit
  <1>2. ServiceIInv /\ [OrderlyNext]_orderlyVars
          => [Service!ServiceNext]_(Service!serviceVars)
    BY StepServes
       DEF Serves, Same, Service!serviceVars, WantedBar, ServingBar, Wants,
           IsServed
  <1> QED
    BY <1>1, <1>2, ServiceInductive, PTL
       DEF OrderlySpec, KeepsToService, Service!ServiceSafety
=============================================================================
