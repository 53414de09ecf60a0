---------------------------- MODULE PipelineProofs ----------------------------
(***************************************************************************)
(* Theorems about modules Media and Pipeline: whatever codecs are enabled, *)
(* NewParticipant allocates one port for each; the pipeline implements the *)
(* modules it is composed of, and has what is proved about them; and an    *)
(* ffmpeg that still listens on ports which its participant has given back *)
(* is about to be stopped, if the messages of its user came in turn.       *)
(***************************************************************************)
EXTENDS Pipeline, ParticipantProofs, ServiceProofs, WellFoundedInduction

-----------------------------------------------------------------------------
(* The participants with their codecs are participants.                    *)

\* What a participant does alone is a step of module Participant in which no
\* participant begins, opens or closes.
LEMMA AloneKeeps ==
    ASSUME ParticipantTypeOK, NEW p \in Participants, Alone(p)
    PROVE  ParticipantNext /\ UNCHANGED <<phase, userOf, enabledCodecParams>>
  <1>1. UNCHANGED <<phase, userOf, enabledCodecParams>>
    BY
       DEF Alone, FreePort, AllocatePort, CloseTracks, FailedCallback,
           ClosePeer, HandleOffer, PeerConnects, PeerFails, TrackArrives,
           LookUpPort, RegisterTrack, DialTranscoder, ForwardingEnds,
           TrackVarsUnchanged
  <1>2. ASSUME NEW port \in Ports, FreePort(p, port)
        PROVE  ParticipantNext
    <2>1. lock[p] \in {"router", "callback"}
      BY <1>2 DEF FreePort, ParticipantTypeOK
    <2> QED
      BY <1>2, <2>1 DEF ParticipantNext, RouterStep, GoroutineStep
  <1>3. ParticipantNext
    BY <1>2 DEF Alone, ParticipantNext, RouterStep, GoroutineStep
  <1> QED
    BY <1>1, <1>3

LEMMA MediaSimulation ==
    ASSUME ParticipantTypeOK, [MediaNext]_codecVars
    PROVE  [ParticipantNext]_participantVars
  <1>1. ASSUME NEW p \in Participants, CloseReturns(p)
        PROVE  ParticipantNext
    <2>1. lock[p] \in {"router", "callback"}
      BY <1>1 DEF CloseReturns, ParticipantTypeOK
    <2> QED
      BY <1>1, <2>1 DEF ParticipantNext, RouterStep, GoroutineStep
  <1>2. ASSUME NEW p \in Participants, Begin(p) \/ NewParticipantReturns(p)
        PROVE  ParticipantNext
    BY <1>2 DEF Begin, ParticipantNext, RouterStep
  <1>3. CASE Ends \/ Restart
    BY <1>3 DEF Ends, ParticipantNext
  <1>4. CASE UNCHANGED codecVars
    BY <1>4 DEF codecVars
  <1> QED
    BY <1>1, <1>2, <1>3, <1>4, AloneKeeps DEF MediaNext

\* The participants of Media behave as module Participant says, and all that is
\* proved there about their ports, tracks and types holds of them.
THEOREM MediaImplementsParticipants == MediaSpec => ParticipantSpec
  <1>1. MediaInit => ParticipantInit
    BY DEF MediaInit
  <1>2. ParticipantInit => ParticipantTypeOK
    BY DEF ParticipantInit, ParticipantTypeOK, Phases, NewPortsAllocator,
           NoPorts, NoTrack, TrackStates
  <1>3. ParticipantTypeOK /\ [MediaNext]_codecVars =>
          [ParticipantNext]_participantVars /\ ParticipantTypeOK'
    BY MediaSimulation, ParticipantTypeStep
  <1> QED
    BY <1>1, <1>2, <1>3, PTL DEF MediaSpec, ParticipantSpec

-----------------------------------------------------------------------------
(* The codecs, by induction over the list of those on offer; the induction *)
(* is over the members of a set, not over a predicate.                     *)

\* A set of numbers has a least one.
LEMMA LeastNatural ==
    ASSUME NEW T, T \subseteq Nat, T # {}
    PROVE  \E x \in T : \A y \in T : x =< y
  <1> DEFINE R == OpToRel(<, Nat)
  <1>1. IsWellFoundedOn(R, Nat)
    BY NatLessThanWellFounded
  <1>2. \A x, y \in Nat : x < y => <<x, y>> \in R
    BY DEF OpToRel
  <1> HIDE DEF R
  <1>3. \E x \in T : \A y \in T : ~(<<y, x>> \in R)
    BY <1>1, WFMin
  <1>4. PICK x \in T : \A y \in T : ~(<<y, x>> \in R)
    BY <1>3
  <1>5. ASSUME NEW y \in T PROVE x =< y
    <2>1. ~(y < x)
      BY <1>2, <1>4
    <2> QED BY <2>1
  <1> QED BY <1>5

\* Induction, for a set instead of a predicate.
LEMMA SetInduction ==
    ASSUME NEW S, 0 \in S, \A n \in Nat : n \in S => n + 1 \in S
    PROVE  \A n \in Nat : n \in S
  <1> SUFFICES ASSUME {n \in Nat : n \notin S} # {} PROVE FALSE
    OBVIOUS
  <1>1. PICK x \in {n \in Nat : n \notin S} : \A y \in {n \in Nat : n \notin S} : x =< y
    BY LeastNatural
  <1>2. x # 0 /\ x - 1 \in Nat /\ x \in Nat
    BY <1>1
  <1>3. x - 1 \in S
    BY <1>1, <1>2
  <1> QED BY <1>1, <1>2, <1>3

\* The body of the recursive function in Listed.
ListRound(codecs, f, i) ==
    IF i = 0 THEN <<>>
    ELSE IF IsCodecEnabled(codecs[i]) THEN Append(f[i - 1], codecs[i].payload) ELSE f[i - 1]

\* The recursion of Listed defines a function, however many codecs there are.
LEMMA ListExists ==
    ASSUME NEW codecs, NEW n \in Nat
    PROVE  \E f : f = [i \in 0 .. n |-> ListRound(codecs, f, i)]
  <1> DEFINE S == {k \in Nat : \E f : f = [i \in 0 .. k |-> ListRound(codecs, f, i)]}
  <1>1. 0 \in S
    <2> DEFINE f == [i \in 0 .. 0 |-> <<>>]
    <2>1. f = [i \in 0 .. 0 |-> ListRound(codecs, f, i)]
      <3>1. \A i \in 0 .. 0 : ListRound(codecs, f, i) = <<>>
        BY DEF ListRound
      <3> QED
        BY <3>1
    <2> QED
      BY <2>1
  <1>2. ASSUME NEW k \in Nat, k \in S
        PROVE  k + 1 \in S
    <2>1. PICK f : f = [i \in 0 .. k |-> ListRound(codecs, f, i)]
      BY <1>2
    <2> DEFINE g == [i \in 0 .. k + 1 |->
                       IF i = k + 1 THEN ListRound(codecs, f, k + 1) ELSE f[i]]
    <2>2. ASSUME NEW i \in 0 .. k + 1
          PROVE  ListRound(codecs, f, i) = ListRound(codecs, g, i)
      <3>1. i # 0 => i - 1 \in 0 .. k + 1 /\ i - 1 # k + 1
        OBVIOUS
      <3>2. i # 0 => g[i - 1] = f[i - 1]
        BY <3>1
      <3> QED
        BY <3>2 DEF ListRound
    <2>3. \A i \in 0 .. k + 1 : i = k + 1 \/ i \in 0 .. k
      OBVIOUS
    <2>4. \A i \in 0 .. k + 1 : g[i] = ListRound(codecs, f, i)
      BY <2>1, <2>3
    <2>5. g = [i \in 0 .. k + 1 |-> ListRound(codecs, g, i)]
      BY <2>2, <2>4
    <2> HIDE DEF g
    <2>6. \E h : h = [i \in 0 .. k + 1 |-> ListRound(codecs, h, i)]
      BY <2>5
    <2> QED
      BY <2>6
  <1> HIDE DEF S
  <1>3. n \in S
    BY <1>1, <1>2, SetInduction
  <1> QED
    BY <1>3 DEF S

\* The codecs on offer: those of a kind, and those of both, have payload types of their own.
OfferOK ==
    /\ \A kind \in Kinds :
         /\ Len(AvailableCodecs[kind]) \in Nat
         /\ \A m, n \in 1 .. Len(AvailableCodecs[kind]) :
              AvailableCodecs[kind][m].payload = AvailableCodecs[kind][n].payload => m = n
    /\ \A m \in 1 .. Len(AvailableCodecs["audio"]) : \A n \in 1 .. Len(AvailableCodecs["video"]) :
         AvailableCodecs["audio"][m].payload # AvailableCodecs["video"][n].payload

LEMMA OffersDiffer == OfferOK
  <1> DEFINE a == AvailableCodecs["audio"]
             v == AvailableCodecs["video"]
  <1>1. Len(a) = 1 /\ a[1].payload = 111
    BY DEF AvailableCodecs, Offer
  <1>2. Len(v) = 7
    BY DEF AvailableCodecs
  <1>3. /\ v[1].payload = 96 /\ v[2].payload = 98 /\ v[3].payload = 100
        /\ v[4].payload = 125 /\ v[5].payload = 108 /\ v[6].payload = 123
        /\ v[7].payload = 35
    BY DEF AvailableCodecs, Offer
  <1> HIDE DEF a, v
  <1>4. \A m \in 1 .. 7 : m = 1 \/ m = 2 \/ m = 3 \/ m = 4 \/ m = 5 \/ m = 6 \/ m = 7
    OBVIOUS
  <1>5. \A m, n \in 1 .. 7 : v[m].payload = v[n].payload => m = n
    BY <1>3, <1>4
  <1>6. \A m \in 1 .. 7 : v[m].payload # 111
    BY <1>3, <1>4
  <1>7. /\ Len(a) \in Nat
        /\ \A m, n \in 1 .. Len(a) : a[m].payload = a[n].payload => m = n
    BY <1>1
  <1>8. /\ Len(v) \in Nat
        /\ \A m, n \in 1 .. Len(v) : v[m].payload = v[n].payload => m = n
    BY <1>2, <1>5
  <1>9. \A m \in 1 .. Len(a) : \A n \in 1 .. Len(v) : a[m].payload # v[n].payload
    BY <1>1, <1>2, <1>6
  <1> QED
    BY <1>7, <1>8, <1>9 DEF OfferOK, Kinds, a, v

\* What has been listed of the first i codecs of a kind, each of them once.
ListOK(s, codecs, i) ==
    /\ s \in Seq({codecs[m].payload : m \in 1 .. i})
    /\ \A j, k \in 1 .. Len(s) : s[j] = s[k] => j = k

LEMMA ListGrows ==
    ASSUME NEW codecs, NEW n \in Nat, NEW i \in Nat, i < n, NEW s, ListOK(s, codecs, i),
           \A k, m \in 1 .. n : codecs[k].payload = codecs[m].payload => k = m
    PROVE  ListOK(s, codecs, i + 1) /\ ListOK(Append(s, codecs[i + 1].payload), codecs, i + 1)
  <1> DEFINE S == {codecs[m].payload : m \in 1 .. i}
             T == {codecs[m].payload : m \in 1 .. i + 1}
             c == codecs[i + 1].payload
             x == Append(s, c)
  <1>1. S \subseteq T /\ c \in T /\ c \notin S
    <2>1. \A m \in 1 .. i : m \in 1 .. i + 1 /\ m \in 1 .. n /\ m # i + 1
      OBVIOUS
    <2>2. i + 1 \in 1 .. n /\ i + 1 \in 1 .. i + 1
      OBVIOUS
    <2> QED
      BY <2>1, <2>2
  <1> HIDE DEF S, T, c
  <1>2. s \in Seq(S) /\ \A j, k \in 1 .. Len(s) : s[j] = s[k] => j = k
    BY DEF ListOK, S
  <1>3. s \in Seq(T)
    BY <1>1, <1>2
  <1>4. x \in Seq(T) /\ Len(x) = Len(s) + 1 /\ Len(s) \in Nat
    BY <1>1, <1>3
  <1>5. \A j \in 1 .. Len(s) + 1 : x[j] = IF j = Len(s) + 1 THEN c ELSE s[j]
    BY <1>3
  <1>6. \A j \in 1 .. Len(s) : s[j] # c
    BY <1>1, <1>2
  <1> HIDE DEF x
  <1>7. \A j \in 1 .. Len(s) + 1 : j = Len(s) + 1 \/ j \in 1 .. Len(s)
    BY <1>4
  <1>8. \A j, k \in 1 .. Len(x) : x[j] = x[k] => j = k
    BY <1>2, <1>4, <1>5, <1>6, <1>7
  <1> QED
    BY <1>2, <1>3, <1>4, <1>8 DEF ListOK, T, x, c

\* A kind's enabled codecs are listed once each.
LEMMA PayloadsAreListedOnce ==
    ASSUME NEW kind \in Kinds
    PROVE  LET codecs == AvailableCodecs[kind]
           IN  ListOK(PayloadsOf(kind), codecs, Len(codecs))
  <1> DEFINE codecs == AvailableCodecs[kind]
             n == Len(codecs)
             f == Listed(kind)
             S == {i \in Nat : i =< n => ListOK(f[i], codecs, i)}
  <1>1. n \in Nat /\ \A k, m \in 1 .. n : codecs[k].payload = codecs[m].payload => k = m
    BY OffersDiffer DEF OfferOK
  <1>2. f = [i \in 0 .. n |-> ListRound(codecs, f, i)]
    <2>1. \E g : g = [i \in 0 .. n |-> ListRound(codecs, g, i)]
      BY <1>1, ListExists
    <2>2. f = CHOOSE g : g = [i \in 0 .. n |-> ListRound(codecs, g, i)]
      BY DEF Listed, ListRound
    <2> QED
      BY <2>1, <2>2
  <1> HIDE DEF f, codecs
  <1>3. 0 \in S
    <2>1. f[0] = <<>>
      BY <1>1, <1>2 DEF ListRound
    <2>2. ListOK(<<>>, codecs, 0)
      BY DEF ListOK
    <2> QED
      BY <2>1, <2>2
  <1>4. ASSUME NEW i \in Nat, i \in S
        PROVE  i + 1 \in S
    <2> SUFFICES ASSUME i + 1 =< n
                 PROVE  ListOK(f[i + 1], codecs, i + 1)
      OBVIOUS
    <2>1. ListOK(f[i], codecs, i) /\ i < n
      BY <1>1, <1>4
    <2>2. i + 1 \in 0 .. n /\ i + 1 # 0 /\ (i + 1) - 1 = i
      BY <1>1
    <2>3. f[i + 1] = f[i] \/ f[i + 1] = Append(f[i], codecs[i + 1].payload)
      BY <1>2, <2>2 DEF ListRound
    <2>4. ListOK(f[i], codecs, i + 1) /\ ListOK(Append(f[i], codecs[i + 1].payload), codecs, i + 1)
      BY <1>1, <2>1, ListGrows
    <2> QED
      BY <2>3, <2>4
  <1> HIDE DEF S
  <1>5. n \in S
    BY <1>1, <1>3, <1>4, SetInduction
  <1>6. ListOK(f[n], codecs, n)
    BY <1>1, <1>5 DEF S
  <1> QED
    BY <1>6 DEF PayloadsOf, f, codecs

\* The package variable is empty or complete, and complete for a participant
\* that is looping over it.
CodecsOK ==
    /\ enabledCodecParams = [k \in Kinds |-> enabledCodecParams[k]]
    /\ \A k \in Kinds : enabledCodecParams[k] \in {<<>>, PayloadsOf(k)}
    /\ (\E p \in Participants : phase[p] = "building") =>
         \A k \in Kinds : enabledCodecParams[k] = PayloadsOf(k)

LEMMA CodecsInit == MediaInit => CodecsOK
  BY DEF MediaInit, ParticipantInit, NoCodecParams, CodecsOK

\* Whichever participant begins finds every enabled codec, or lists it.
LEMMA RegisterCompletes ==
    ASSUME CodecsOK, RegisterCodecs
    PROVE  /\ enabledCodecParams' = [k \in Kinds |-> enabledCodecParams'[k]]
           /\ \A k \in Kinds : enabledCodecParams'[k] = PayloadsOf(k)
  <1>1. \A k \in Kinds : PayloadsOf(k) = <<>> \o PayloadsOf(k)
    <2> SUFFICES ASSUME NEW k \in Kinds
                 PROVE  PayloadsOf(k) = <<>> \o PayloadsOf(k)
      OBVIOUS
    <2> DEFINE codecs == AvailableCodecs[k]
               S == {codecs[m].payload : m \in 1 .. Len(codecs)}
    <2>1. PayloadsOf(k) \in Seq(S)
      BY PayloadsAreListedOnce DEF ListOK
    <2> HIDE DEF S
    <2> QED
      BY <2>1
  <1>2. enabledCodecParams' = [k \in Kinds |-> IF NotFilledYet(k)
                                               THEN enabledCodecParams[k] \o PayloadsOf(k)
                                               ELSE enabledCodecParams[k]]
    BY DEF RegisterCodecs
  <1>3. \A k \in Kinds : enabledCodecParams'[k] = PayloadsOf(k)
    BY <1>1, <1>2 DEF CodecsOK, NotFilledYet
  <1> QED
    BY <1>2, <1>3

LEMMA CodecsStep ==
    ASSUME ParticipantTypeOK, CodecsOK, [MediaNext]_codecVars
    PROVE  CodecsOK'
  <1>1. phase \in [Participants -> Phases]
    BY DEF ParticipantTypeOK
  <1>2. ASSUME UNCHANGED enabledCodecParams,
               \A q \in Participants : phase'[q] = "building" => phase[q] = "building"
        PROVE  CodecsOK'
    BY <1>2 DEF CodecsOK
  <1>3. ASSUME NEW p \in Participants, Begin(p)
        PROVE  CodecsOK'
    <2>1. RegisterCodecs
      BY <1>3 DEF Begin
    <2> QED
      BY <2>1, RegisterCompletes DEF CodecsOK
  <1>4. ASSUME NEW p \in Participants, UNCHANGED enabledCodecParams,
               NewParticipantReturns(p) \/ CloseReturns(p)
        PROVE  CodecsOK'
    <2>1. \A q \in Participants : phase'[q] = "building" => phase[q] = "building"
      BY <1>1, <1>4 DEF NewParticipantReturns, CloseReturns
    <2> QED
      BY <1>2, <1>4, <2>1
  <1>5. ASSUME NEW p \in Participants, Alone(p)
        PROVE  CodecsOK'
    BY <1>2, <1>5, AloneKeeps
  <1>6. CASE Ends
    <2>1. \A q \in Participants : phase'[q] # "building"
      BY <1>6
         DEF Ends, Crash, NilParticipantPanics, NilConnPanics,
             ReceiverCandidatePanics, RegisterPanics, Kill, ProcessDies
    <2> QED
      BY <1>6, <2>1 DEF Ends, NoCodecParams, CodecsOK
  <1>7. CASE Restart /\ UNCHANGED enabledCodecParams
    BY <1>2, <1>7 DEF Restart
  <1>8. CASE UNCHANGED codecVars
    BY <1>2, <1>8 DEF codecVars, participantVars
  <1> QED
    BY <1>3, <1>4, <1>5, <1>6, <1>7, <1>8 DEF MediaNext

LEMMA CodecsInductive == MediaSpec => []CodecsOK
  <1>1. ParticipantTypeOK /\ CodecsOK /\ [MediaNext]_codecVars => CodecsOK'
    BY CodecsStep
  <1> QED
    BY <1>1, CodecsInit, MediaImplementsParticipants, ParticipantTypes, PTL
       DEF MediaSpec

\* Every payload type of the list is one of Codecs.
LEMMA PayloadsAreCodecs == \A k \in Kinds : PayloadsOf(k) \in Seq(Codecs)
  <1> SUFFICES ASSUME NEW k \in Kinds
               PROVE  PayloadsOf(k) \in Seq(Codecs)
    OBVIOUS
  <1> DEFINE s == PayloadsOf(k)
             codecs == AvailableCodecs[k]
             S == {codecs[m].payload : m \in 1 .. Len(codecs)}
  <1>1. s \in Seq(S)
    BY PayloadsAreListedOnce DEF ListOK
  <1>2. \A i \in DOMAIN s : s[i] \in Codecs
    BY MediaAssumption
  <1> HIDE DEF s, S
  <1>3. s \in Seq(Codecs)
    BY <1>1, <1>2
  <1> QED
    BY <1>3 DEF s

\* NewParticipant finds each enabled codec once in the package variable, be it
\* the first participant of the process or any other, whatever is enabled.
THEOREM CodecsAreListedOnce == MediaSpec => []PayloadTypesAreCodecs
  <1>1. ASSUME CodecsOK
        PROVE  PayloadTypesAreCodecs
    <2> SUFFICES ASSUME NEW p \in Participants, phase[p] = "building"
                 PROVE  /\ {CodecParams[i] : i \in DOMAIN CodecParams} = Codecs
                        /\ \A i, j \in DOMAIN CodecParams :
                             CodecParams[i] = CodecParams[j] => i = j
      BY DEF PayloadTypesAreCodecs
    <2> DEFINE a == PayloadsOf("audio")
               v == PayloadsOf("video")
               A == {AvailableCodecs["audio"][m].payload :
                       m \in 1 .. Len(AvailableCodecs["audio"])}
               V == {AvailableCodecs["video"][m].payload :
                       m \in 1 .. Len(AvailableCodecs["video"])}
    <2>1. "audio" \in Kinds /\ "video" \in Kinds /\ Kinds = {"audio", "video"}
      BY DEF Kinds
    <2>2. CodecParams = a \o v
      BY <1>1, <2>1 DEF CodecsOK, CodecParams
    <2>3. /\ a \in Seq(A) /\ \A i, j \in 1 .. Len(a) : a[i] = a[j] => i = j
          /\ v \in Seq(V) /\ \A i, j \in 1 .. Len(v) : v[i] = v[j] => i = j
      BY <2>1, PayloadsAreListedOnce DEF ListOK
    <2>4. A \cap V = {}
      BY OffersDiffer DEF OfferOK
    <2>5. Codecs = {a[i] : i \in DOMAIN a} \cup {v[i] : i \in DOMAIN v}
      BY <2>1, MediaAssumption
    <2> HIDE DEF a, v, A, V
    <2>6. a \in Seq(A \cup V) /\ v \in Seq(A \cup V)
      BY <2>3
    <2> DEFINE s == a \o v
    <2>7. /\ Len(a) \in Nat /\ Len(v) \in Nat
          /\ s \in Seq(A \cup V) /\ DOMAIN s = 1 .. Len(a) + Len(v)
          /\ \A i \in 1 .. Len(a) + Len(v) :
               s[i] = IF i =< Len(a) THEN a[i] ELSE v[i - Len(a)]
      BY <2>6
    <2>8. /\ \A i \in 1 .. Len(a) : s[i] = a[i] /\ i \in DOMAIN s
          /\ \A i \in 1 .. Len(v) : s[i + Len(a)] = v[i] /\ i + Len(a) \in DOMAIN s
      <3>1. \A i \in 1 .. Len(v) : (i + Len(a)) - Len(a) = i /\ ~(i + Len(a) =< Len(a))
        BY <2>7
      <3>2. \A i \in 1 .. Len(v) : i + Len(a) \in 1 .. Len(a) + Len(v)
        BY <2>7
      <3> QED
        BY <2>7, <3>1, <3>2
    <2>9. \A i \in DOMAIN s : \/ i \in 1 .. Len(a) /\ s[i] = a[i]
                              \/ i - Len(a) \in 1 .. Len(v) /\ s[i] = v[i - Len(a)]
      BY <2>7
    <2>10. DOMAIN a = 1 .. Len(a) /\ DOMAIN v = 1 .. Len(v)
      BY <2>6
    <2> HIDE DEF s
    <2>11. {s[i] : i \in DOMAIN s} = Codecs
      <3>1. \A i \in DOMAIN s : s[i] \in Codecs
        BY <2>5, <2>9, <2>10
      <3>2. \A c \in Codecs : \E i \in DOMAIN s : c = s[i]
        <4> SUFFICES ASSUME NEW c \in Codecs PROVE \E i \in DOMAIN s : c = s[i]
          OBVIOUS
        <4>1. CASE \E i \in DOMAIN a : c = a[i]
          BY <2>8, <2>10, <4>1
        <4>2. CASE \E i \in DOMAIN v : c = v[i]
          BY <2>8, <2>10, <4>2
        <4> QED
          BY <2>5, <4>1, <4>2
      <3> QED
        BY <3>1, <3>2
    <2>12. ASSUME NEW i \in DOMAIN s, NEW j \in DOMAIN s, s[i] = s[j]
           PROVE  i = j
      <3>1. \A k \in 1 .. Len(a) : a[k] \in A
        BY <2>3
      <3>2. \A k \in 1 .. Len(v) : v[k] \in V
        BY <2>3
      <3>3. CASE i \in 1 .. Len(a) /\ s[i] = a[i]
        <4>1. j \in 1 .. Len(a) /\ s[j] = a[j]
          BY <2>4, <2>9, <2>12, <3>1, <3>2, <3>3
        <4> QED
          BY <2>3, <2>12, <3>3, <4>1
      <3>4. CASE i - Len(a) \in 1 .. Len(v) /\ s[i] = v[i - Len(a)]
        <4>1. j - Len(a) \in 1 .. Len(v) /\ s[j] = v[j - Len(a)]
          BY <2>4, <2>9, <2>12, <3>1, <3>2, <3>4
        <4>2. i - Len(a) = j - Len(a)
          BY <2>3, <2>12, <3>4, <4>1
        <4> QED
          BY <2>7, <4>2
      <3> QED
        BY <2>9, <3>3, <3>4
    <2> QED
      BY <2>2, <2>11, <2>12 DEF s
  <1> QED
    BY <1>1, CodecsInductive, PTL

\* The types of the participants with their codecs.
THEOREM MediaTypes == MediaSpec => []MediaTypeOK
  <1>1. ASSUME ParticipantTypeOK, CodecsOK
        PROVE  MediaTypeOK
    <2>1. \A k \in Kinds : enabledCodecParams[k] \in Seq(Codecs)
      <3>1. <<>> \in Seq(Codecs)
        OBVIOUS
      <3>2. \A k \in Kinds : enabledCodecParams[k] = <<>> \/ enabledCodecParams[k] = PayloadsOf(k)
        BY <1>1 DEF CodecsOK
      <3> QED
        BY <3>1, <3>2, PayloadsAreCodecs
    <2>2. enabledCodecParams \in [Kinds -> Seq(Codecs)]
      BY <1>1, <2>1 DEF CodecsOK
    <2> QED
      BY <1>1, <2>2 DEF MediaTypeOK
  <1> QED
    BY <1>1, CodecsInductive, MediaImplementsParticipants, ParticipantTypes, PTL

-----------------------------------------------------------------------------
(* The pipeline takes only steps that the modules it is made of allow.     *)

\* A participant that has begun has its user.
NamedOK == \A p \in Participants : phase[p] # "unborn" => userOf[p] \in Users

\* Of the steps of Media, those that send no message leave a participant its
\* user, and one that is open its ports, unless the process ends.
StaysOrGoes(p) ==
    /\ userOf'[p] = userOf[p]
    /\ \/ phase'[p] = phase[p] /\ (phase[p] = "open" => PortsOf(p)' = PortsOf(p))
       \/ phase'[p] = "gone"

LEMMA CrashGoes ==
    ASSUME ParticipantTypeOK, Crash, NEW q \in Participants
    PROVE  /\ userOf'[q] = userOf[q]
           /\ phase'[q] = IF phase[q] = "unborn" THEN "unborn" ELSE "gone"
  <1>1. ProcessDies
    BY DEF Crash, NilParticipantPanics, NilConnPanics, ReceiverCandidatePanics,
           RegisterPanics, Kill
  <1> QED
    BY <1>1 DEF ProcessDies

\* Alone, a participant gets ports only while it is being built.
LEMMA AlonePorts ==
    ASSUME ParticipantTypeOK, NEW p \in Participants, Alone(p),
           NEW q \in Participants, phase[q] = "open"
    PROVE  PortsOf(q)' = PortsOf(q)
  <1>1. allocatedPorts'[q] = allocatedPorts[q]
    <2>1. ASSUME NEW port \in Ports, NEW c \in Codecs, AllocatePort(p, c, port)
          PROVE  allocatedPorts'[q] = allocatedPorts[q]
      BY <2>1 DEF AllocatePort, ParticipantTypeOK
    <2>2. ASSUME UNCHANGED allocatedPorts
          PROVE  allocatedPorts'[q] = allocatedPorts[q]
      BY <2>2
    <2> QED
      BY <2>1, <2>2
         DEF Alone, FreePort, CloseTracks, FailedCallback, ClosePeer,
             HandleOffer, PeerConnects, PeerFails, TrackArrives, LookUpPort,
             RegisterTrack, DialTranscoder, ForwardingEnds, TrackVarsUnchanged,
             portVars
  <1> QED
    BY <1>1 DEF PortsOf

LEMMA MediaStays ==
    ASSUME ParticipantTypeOK, NEW q \in Participants, phase[q] # "unborn",
           \/ \E p \in Participants : Begin(p) \/ Alone(p)
           \/ Ends
           \/ Restart
    PROVE  StaysOrGoes(q)
  <1>1. ASSUME NEW p \in Participants, Begin(p)
        PROVE  StaysOrGoes(q)
    <2>1. PICK u \in Users : NewParticipant(p, u)
      BY <1>1 DEF Begin
    <2>2. p # q
      BY <2>1 DEF NewParticipant
    <2>3. /\ phase'[q] = phase[q] /\ userOf'[q] = userOf[q]
          /\ allocatedPorts' = allocatedPorts
      BY <2>1, <2>2 DEF NewParticipant, ParticipantTypeOK, portVars
    <2> QED
      BY <2>3 DEF StaysOrGoes, PortsOf
  <1>2. ASSUME NEW p \in Participants, Alone(p)
        PROVE  StaysOrGoes(q)
    BY <1>2, AloneKeeps, AlonePorts DEF StaysOrGoes
  <1>3. CASE Ends
    BY <1>3, CrashGoes DEF Ends, StaysOrGoes
  <1>4. CASE Restart
    BY <1>4 DEF Restart, StaysOrGoes, PortsOf, portVars
  <1> QED
    BY <1>1, <1>2, <1>3, <1>4

LEMMA NamedStep ==
    ASSUME PortsIInv, NamedOK, [MediaNext]_codecVars
    PROVE  NamedOK'
  <1>1. ParticipantTypeOK
    BY DEF PortsIInv
  <1>2. ASSUME NEW p \in Participants, Begin(p)
        PROVE  NamedOK'
    <2>1. PICK u \in Users : NewParticipant(p, u)
      BY <1>2 DEF Begin
    <2>2. /\ phase' = [phase EXCEPT ![p] = "building"]
          /\ userOf' = [userOf EXCEPT ![p] = u]
      BY <2>1 DEF NewParticipant
    <2> QED
      BY <1>1, <2>2 DEF NamedOK, ParticipantTypeOK
  <1>3. ASSUME NEW p \in Participants, Alone(p)
        PROVE  NamedOK'
    BY <1>1, <1>3, AloneKeeps DEF NamedOK
  <1>4. ASSUME NEW p \in Participants, NewParticipantReturns(p) \/ CloseReturns(p)
        PROVE  NamedOK'
    <2>1. phase[p] # "unborn" /\ userOf' = userOf
      BY <1>4 DEF NewParticipantReturns, CloseReturns, PortsIInv, PortsLifecycle
    <2>2. \A q \in Participants : q # p => phase'[q] = phase[q]
      BY <1>1, <1>4 DEF NewParticipantReturns, CloseReturns, ParticipantTypeOK
    <2> QED
      BY <2>1, <2>2 DEF NamedOK
  <1>5. CASE Ends
    BY <1>1, <1>5, CrashGoes DEF Ends, NamedOK
  <1>6. CASE Restart \/ UNCHANGED codecVars
    BY <1>6 DEF Restart, NamedOK, codecVars, participantVars
  <1> QED
    BY <1>2, <1>3, <1>4, <1>5, <1>6 DEF MediaNext

LEMMA PipelineSimulation ==
    ASSUME PortsIInv, NamedOK, [PipelineNext]_pipelineVars
    PROVE  [MediaNext]_codecVars /\ [OrderlyNext]_orderlyVars
  <1>1. ASSUME NEW p \in Participants, Start(p)
        PROVE  MediaNext /\ OrderlyNext
    <2>1. userOf[p] \in Users
      BY <1>1 DEF Start, NewParticipantReturns, NamedOK
    <2> QED
      BY <1>1, <2>1 DEF Start, MediaNext, OrderlyNext
  <1>2. ASSUME NEW p \in Participants, Stop(p)
        PROVE  MediaNext /\ OrderlyNext
    <2>1. userOf[p] \in Users
      BY <1>2 DEF Stop, CloseReturns, PortsIInv, PortsLifecycle, NamedOK
    <2> QED
      BY <1>2, <2>1 DEF Stop, MediaNext, OrderlyNext
  <1>3. CASE Apart
    BY <1>3 DEF Apart, MediaNext
  <1>4. CASE DaemonStep
    BY <1>4 DEF DaemonStep, OrderlyNext
  <1>5. CASE UNCHANGED pipelineVars
    BY <1>5 DEF pipelineVars
  <1> QED
    BY <1>1, <1>2, <1>3, <1>4, <1>5 DEF PipelineNext

\* Everything below holds of the parts, and with them of the pipeline.
PartsIInv == PortsIInv /\ NamedOK /\ ServiceIInv

LEMMA PartsInit == PipelineInit => PartsIInv
  <1>1. PipelineInit => NamedOK
    BY DEF PipelineInit, MediaInit, ParticipantInit, NamedOK
  <1> QED
    BY <1>1, PortsInit, ServiceInit DEF PipelineInit, MediaInit, PartsIInv

LEMMA PartsStep == PartsIInv /\ [PipelineNext]_pipelineVars => PartsIInv'
  <1> SUFFICES ASSUME PartsIInv, [PipelineNext]_pipelineVars
               PROVE  PartsIInv'
    OBVIOUS
  <1>1. PortsIInv /\ NamedOK /\ ServiceIInv /\ ParticipantTypeOK
    BY DEF PartsIInv, PortsIInv
  <1>2. [MediaNext]_codecVars /\ [OrderlyNext]_orderlyVars
    BY <1>1, PipelineSimulation
  <1>3. [ParticipantNext]_participantVars
    BY <1>1, <1>2, MediaSimulation
  <1>4. PortsIInv' /\ NamedOK' /\ ServiceIInv'
    BY <1>1, <1>2, <1>3, PortsStep, NamedStep, ServiceStep
  <1> QED
    BY <1>4 DEF PartsIInv

\* The pipeline behaves to each of its parts as the part alone may, so that what
\* is proved of participants and of daemons holds of them together.
THEOREM PipelineImplementsItsParts == PipelineSpec => MediaSpec /\ OrderlySpec
  <1>1. PipelineInit => MediaInit /\ OrderlyInit
    BY DEF PipelineInit
  <1>2. PartsIInv /\ [PipelineNext]_pipelineVars =>
          [MediaNext]_codecVars /\ [OrderlyNext]_orderlyVars
    BY PipelineSimulation DEF PartsIInv
  <1> QED
    BY <1>1, <1>2, PartsInit, PartsStep, PTL
       DEF PipelineSpec, MediaSpec, OrderlySpec

-----------------------------------------------------------------------------
(* Where the messages come from.                                           *)

Part(m) == origin[m].part

\* A stop of the user of m has been published after m.
StopFollows(m) ==
    \E n \in Messages :
        m < n /\ n <= published /\ User(n) = User(m) /\ msg[n].kind = "stop"

\* A start comes from a participant of its user and has the ports which that
\* participant has until it closes; then a stop follows.
OriginOK ==
    /\ origin \in [Messages -> Origins]
    /\ \A m \in Messages : starter[m].at # "none" =>
         /\ Part(m) \in Participants /\ userOf[Part(m)] = User(m)
         /\ phase[Part(m)] \in {"open", "closed", "gone"}
         /\ phase[Part(m)] = "open" => origin[m].ports = PortsOf(Part(m))
         /\ phase[Part(m)] = "closed" => StopFollows(m)

\* What follows a start is not unsaid.
LEMMA StopStillFollows ==
    ASSUME PartsIInv, NEW m \in Messages, StopFollows(m),
           \A n \in Messages : n <= published => User(n)' = User(n) /\ msg'[n] = msg[n],
           m <= published, published' >= published, published' \in Nat
    PROVE  StopFollows(m)'
  <1>1. PICK n \in Messages :
          m < n /\ n <= published /\ User(n) = User(m) /\ msg[n].kind = "stop"
    BY DEF StopFollows
  <1>2. n <= published'
    <2>1. n \in Nat /\ published \in Nat
      BY ServiceTypes DEF PartsIInv
    <2> QED
      BY <1>1, <2>1
  <1>3. User(n)' = User(m)' /\ msg'[n].kind = "stop"
    BY <1>1
  <1> QED
    BY <1>1, <1>2, <1>3 DEF StopFollows

\* A step of the daemons.
LEMMA DaemonIsQuiet ==
    ASSUME PartsIInv, DaemonStep
    PROVE  Quiet
  <1>1. TranscoderTypeOK /\ PublishedOK
    BY DEF PartsIInv, ServiceIInv, PidIInv, TypeIInv
  <1>2. CASE Handling
    BY <1>1, <1>2, StarterIsQuiet, StopperIsQuiet, EnvironmentIsQuiet
       DEF Handling
  <1>3. ASSUME NEW d \in Daemons, OrderlyRestart(d)
        PROVE  Quiet
    BY <1>1, <1>3, RestartIsQuiet DEF OrderlyRestart
  <1> QED
    BY <1>2, <1>3 DEF DaemonStep

LEMMA DaemonKeepsOrigin ==
    ASSUME PartsIInv, OriginOK, DaemonStep
    PROVE  OriginOK'
  <1>1. /\ published' = published /\ msg' = msg
        /\ \A m \in Messages : (starter'[m].at = "none") <=> (starter[m].at = "none")
    BY DaemonIsQuiet DEF Quiet
  <1>2. UNCHANGED <<userOf, phase, allocatedPorts, origin>>
    BY DEF DaemonStep, codecVars, participantVars
  <1> QED
    BY <1>1, <1>2 DEF OriginOK, Part, PortsOf, StopFollows, User

LEMMA ApartKeepsOrigin ==
    ASSUME PartsIInv, OriginOK, Apart
    PROVE  OriginOK'
  <1>1. ParticipantTypeOK
    BY DEF PartsIInv, PortsIInv
  <1>2. UNCHANGED <<published, msg, starter, origin>>
    BY DEF Apart, orderlyVars, vars, messageVars, daemonVars
  <1>3. \A q \in Participants : phase[q] # "unborn" => StaysOrGoes(q)
    BY <1>1, MediaStays DEF Apart
  <1>4. ASSUME NEW m \in Messages, starter[m].at # "none"
        PROVE  /\ Part(m)' = Part(m) /\ Part(m) \in Participants
               /\ userOf'[Part(m)] = User(m)
               /\ phase'[Part(m)] \in {"open", "closed", "gone"}
               /\ phase'[Part(m)] = "open" => origin[m].ports = PortsOf(Part(m))'
               /\ phase'[Part(m)] = "closed" => StopFollows(m)
    BY <1>2, <1>3, <1>4 DEF OriginOK, StaysOrGoes, Part, PortsOf
  <1> QED
    BY <1>2, <1>4 DEF OriginOK, Part, StopFollows, User, PortsOf

\* The message a participant publishes, and what it leaves alone.
LEMMA StartKeepsOrigin ==
    ASSUME PartsIInv, OriginOK, NEW p \in Participants, Start(p)
    PROVE  OriginOK'
  <1>0. ServiceIInv /\ NamedOK /\ ParticipantTypeOK
    BY DEF PartsIInv, PortsIInv
  <1> DEFINE u == userOf[p]
  <1>1. phase[p] = "building" /\ u \in Users
    BY <1>0 DEF Start, NewParticipantReturns, NamedOK
  <1>2. Publish("start", u) /\ PublishStart(u)
    BY DEF Start, OrderlyStart, PublishStart
  <1>3. PICK new \in Messages : Adds(new, "start", u)
    BY <1>0, <1>1, <1>2, PublishFrame
  <1>4. /\ new = published + 1 /\ published' = new /\ published \in Nat
        /\ User(new)' = u
        /\ \A m \in Messages : m # new => msg'[m] = msg[m] /\ User(m)' = User(m)
    BY <1>3 DEF Adds
  <1>5. /\ \A m \in Messages : m # new => starter'[m] = starter[m] /\ origin'[m] = origin[m]
        /\ origin'[new] = [part |-> p, ports |-> PortsOf(p)]
    BY <1>0, <1>2, <1>4, ServiceTypes DEF PublishStart, Start, OriginOK
  <1>6. /\ UNCHANGED <<userOf, allocatedPorts>>
        /\ phase' = [phase EXCEPT ![p] = "open"]
    BY DEF Start, NewParticipantReturns, portVars
  <1>7. origin' \in [Messages -> Origins]
    <2>1. PortsOf(p) \subseteq Ports
      BY <1>0 DEF PortsOf, ParticipantTypeOK
    <2>2. [part |-> p, ports |-> PortsOf(p)] \in Origins
      BY <2>1 DEF Origins
    <2> QED
      BY <1>4, <2>2 DEF Start, OriginOK
  <1>8. ASSUME NEW m \in Messages, starter'[m].at # "none"
        PROVE  /\ Part(m)' \in Participants /\ userOf'[Part(m)'] = User(m)'
               /\ phase'[Part(m)'] \in {"open", "closed", "gone"}
               /\ phase'[Part(m)'] = "open" => origin'[m].ports = PortsOf(Part(m))'
               /\ phase'[Part(m)'] = "closed" => StopFollows(m)'
    <2>1. CASE m = new
      <3>1. Part(m)' = p /\ origin'[m].ports = PortsOf(p) /\ phase'[p] = "open"
        BY <1>0, <1>5, <1>6, <2>1 DEF Part, ParticipantTypeOK
      <3>2. PortsOf(Part(m))' = PortsOf(p)
        BY <1>6, <3>1 DEF PortsOf
      <3> QED
        BY <1>4, <1>6, <2>1, <3>1, <3>2
    <2>2. CASE m # new
      <3>1. starter[m].at # "none" /\ Part(m)' = Part(m) /\ origin'[m] = origin[m]
        BY <1>5, <1>8, <2>2 DEF Part
      <3>2. /\ Part(m) \in Participants /\ userOf[Part(m)] = User(m)
            /\ phase[Part(m)] \in {"open", "closed", "gone"}
            /\ phase[Part(m)] = "open" => origin[m].ports = PortsOf(Part(m))
            /\ phase[Part(m)] = "closed" => StopFollows(m)
        BY <3>1 DEF OriginOK
      <3>3. phase'[Part(m)] = phase[Part(m)]
        BY <1>0, <1>1, <1>6, <3>2 DEF ParticipantTypeOK
      <3>4. PortsOf(Part(m))' = PortsOf(Part(m))
        BY <1>6, <3>1 DEF PortsOf
      <3>5. StopFollows(m) => StopFollows(m)'
        <4>1. m <= published
          BY <1>0, <3>1, ServiceTypes
        <4>2. \A n \in Messages : n <= published => n # new
          BY <1>4
        <4>3. published' >= published /\ published' \in Nat
          BY <1>4
        <4> QED
          BY <1>4, <4>1, <4>2, <4>3, StopStillFollows
      <3> QED
        BY <1>4, <1>6, <2>2, <3>1, <3>2, <3>3, <3>4, <3>5
    <2> QED
      BY <2>1, <2>2
  <1> QED
    BY <1>7, <1>8 DEF OriginOK

\* The stop of a participant follows all starts of the participant.
LEMMA StopKeepsOrigin ==
    ASSUME PartsIInv, OriginOK, NEW p \in Participants, Stop(p)
    PROVE  OriginOK'
  <1>0. ServiceIInv /\ NamedOK /\ ParticipantTypeOK
    BY DEF PartsIInv, PortsIInv
  <1> DEFINE u == userOf[p]
  <1>1. u \in Users
    BY <1>0
       DEF Stop, CloseReturns, PartsIInv, PortsIInv, PortsLifecycle, NamedOK
  <1>2. Publish("stop", u) /\ starter' = starter
    BY DEF Stop, OrderlyStop, PublishStop
  <1>3. PICK new \in Messages : Adds(new, "stop", u)
    BY <1>0, <1>1, <1>2, PublishFrame
  <1>4. /\ new = published + 1 /\ published' = new /\ published \in Nat
        /\ User(new)' = u /\ msg'[new].kind = "stop" /\ starter[new].at = "none"
        /\ \A m \in Messages : m # new => msg'[m] = msg[m] /\ User(m)' = User(m)
    <2>1. msg'[new] = [kind |-> "stop", user |-> u]
      BY <1>3 DEF Adds
    <2>2. msg'[new].kind = "stop"
      BY <2>1
    <2> QED
      BY <1>3, <2>2 DEF Adds
  <1>5. /\ UNCHANGED <<userOf, origin>>
        /\ phase' = [phase EXCEPT ![p] = "closed"]
        /\ allocatedPorts' = [allocatedPorts EXCEPT ![p] = NoPorts]
    BY DEF Stop, CloseReturns, ForgetPorts
  <1>6. ASSUME NEW m \in Messages, starter[m].at # "none"
        PROVE  /\ Part(m)' = Part(m) /\ Part(m) \in Participants
               /\ userOf'[Part(m)] = User(m)'
               /\ phase'[Part(m)] \in {"open", "closed", "gone"}
               /\ phase'[Part(m)] = "open" => origin[m].ports = PortsOf(Part(m))'
               /\ phase'[Part(m)] = "closed" => StopFollows(m)'
    <2>1. /\ m # new /\ m <= published /\ m \in Nat
      BY <1>0, <1>4, <1>6, ServiceTypes
    <2>2. /\ Part(m) \in Participants /\ userOf[Part(m)] = User(m)
          /\ phase[Part(m)] \in {"open", "closed", "gone"}
          /\ phase[Part(m)] = "open" => origin[m].ports = PortsOf(Part(m))
          /\ phase[Part(m)] = "closed" => StopFollows(m)
      BY <1>6 DEF OriginOK
    <2>3. User(m)' = User(m) /\ Part(m)' = Part(m)
      BY <1>4, <1>5, <2>1 DEF Part
    <2>4. CASE Part(m) = p
      <3>1. phase'[p] = "closed"
        BY <1>0, <1>5 DEF ParticipantTypeOK
      <3>2. m < new /\ new <= published'
        BY <1>4, <2>1
      <3>3. StopFollows(m)'
        BY <1>4, <2>2, <2>3, <2>4, <3>2 DEF StopFollows
      <3> QED
        BY <1>5, <2>2, <2>3, <2>4, <3>1, <3>3
    <2>5. CASE Part(m) # p
      <3>1. phase'[Part(m)] = phase[Part(m)]
        BY <1>0, <1>5, <2>2, <2>5 DEF ParticipantTypeOK
      <3>2. PortsOf(Part(m))' = PortsOf(Part(m))
        BY <1>0, <1>5, <2>2, <2>3, <2>5 DEF PortsOf, ParticipantTypeOK
      <3>3. StopFollows(m) => StopFollows(m)'
        <4>1. \A n \in Messages : n <= published => n # new
          BY <1>4
        <4>2. published' >= published /\ published' \in Nat
          BY <1>4
        <4> QED
          BY <1>4, <2>1, <4>1, <4>2, StopStillFollows
      <3> QED
        BY <1>5, <2>2, <2>3, <3>1, <3>2, <3>3
    <2> QED
      BY <2>4, <2>5
  <1> QED
    BY <1>2, <1>5, <1>6 DEF OriginOK, Part

LEMMA OriginStep == PartsIInv /\ OriginOK /\ [PipelineNext]_pipelineVars => OriginOK'
  <1> SUFFICES ASSUME PartsIInv, OriginOK, [PipelineNext]_pipelineVars
               PROVE  OriginOK'
    OBVIOUS
  <1>1. CASE UNCHANGED pipelineVars
    BY <1>1
       DEF pipelineVars, codecVars, participantVars, orderlyVars, vars,
           messageVars, daemonVars, OriginOK, Part, PortsOf, StopFollows, User
  <1> QED
    BY <1>1, StartKeepsOrigin, StopKeepsOrigin, ApartKeepsOrigin,
       DaemonKeepsOrigin
       DEF PipelineNext

LEMMA OriginInductive == PipelineSpec => [](PartsIInv /\ OriginOK)
  <1>1. PipelineInit => OriginOK
    BY
       DEF PipelineInit, OrderlyInit, TranscoderInit, NoStarter, OriginOK,
           NoOrigin, Origins
  <1> QED
    BY <1>1, PartsInit, PartsStep, OriginStep, PTL DEF PipelineSpec

-----------------------------------------------------------------------------
(* The theorems.                                                           *)

\* The types of the pipeline.
THEOREM PipelineTypes == PipelineSpec => []PipelineTypeOK
  <1>1. PartsIInv /\ OriginOK /\ MediaTypeOK => PipelineTypeOK
    BY DEF PartsIInv, ServiceIInv, PidIInv, TypeIInv, OriginOK, PipelineTypeOK
  <1> QED
    BY <1>1, OriginInductive, PipelineImplementsItsParts, MediaTypes, PTL

\* With the daemons attached, ports are still held by one participant each.
THEOREM PipelineKeepsPorts == PipelineSpec => [](PortsExclusive /\ PortsAccounted)
  BY OriginInductive, PTL DEF PartsIInv, PortsIInv

\* An ffmpeg that listens on a port its participant has given back, perhaps to
\* another, is about to be stopped by the daemon that runs it, if the messages
\* of its user came in turn: for every number of participants, daemons, ports
\* and pids, whatever is lost, fails and is killed around other users.
THEOREM LeftoversStop == PipelineSpec => []LeftoversAreStopping
  <1>1. ASSUME PartsIInv, OriginOK
        PROVE  LeftoversAreStopping
    <2> SUFFICES ASSUME NEW m \in Messages, User(m) \in orderly,
                        ffmpeg[m] = "running",
                        ~(Listens(m) \subseteq Owned(Part(m))),
                        lock[Part(m)] = "free", phase[Part(m)] # "gone"
                 PROVE  \E n \in Messages :
                          /\ n > m /\ User(n) = User(m) /\ msg[n].kind = "stop"
                          /\ stopper[n][Daemon(m)].at \in {"received", "found"}
      BY DEF LeftoversAreStopping, Part
    <2>1. ServiceIInv
      BY <1>1 DEF PartsIInv
    <2>2. Live(m) /\ input[m] = m
      BY <2>1 DEF Live, ServiceIInv, FfmpegReadsItsOwnSdp
    <2>3. starter[m].at # "none"
      BY <2>1, <2>2, ServiceTypes
    <2>4. phase[Part(m)] # "open"
      BY <1>1, <2>2, <2>3 DEF Listens, Owned, OriginOK
    <2>5. PICK n \in Messages :
            m < n /\ n <= published /\ User(n) = User(m) /\ msg[n].kind = "stop"
      BY <1>1, <2>3, <2>4 DEF OriginOK, StopFollows
    <2>6. n \in (m + 1) .. published
      <3>1. m \in Nat /\ n \in Nat /\ published \in Nat
        BY <2>1, ServiceTypes
      <3> QED
        BY <2>5, <3>1
    <2>7. AboutToKill(n, m)
      BY <2>1, <2>2, <2>5, <2>6 DEF ServiceIInv, LiveOK, Kept
    <2>8. n > m
      BY <2>5
    <2> QED
      BY <2>5, <2>7, <2>8 DEF AboutToKill
  <1> QED
    BY <1>1, OriginInductive, PTL
=============================================================================
