----------------------------- MODULE MediaEngine -----------------------------
(***************************************************************************)
(* The codecs the peer connections are made with,                          *)
(* internal/rtc/mediaengine.go: a package variable which the first         *)
(* participant of a process fills from the configuration, and which every  *)
(* participant reads, to register its codecs with pion and to allocate a   *)
(* port for each.                                                          *)
(***************************************************************************)
EXTENDS Naturals, Sequences

CONSTANT EnabledCodecs   \* config.EnabledCodecs: [some kinds -> Specs]

Kinds == {"audio", "video"}

NoLine == ""

\* A codec and its SDPFmtpLine, but for "level-asymmetry-allowed=1;" which all
\* lines of H264 start with; a spec of the configuration has no payload type.
Offer(payload, mime, line) == [payload |-> payload, mime |-> mime, line |-> line]

\* The opus of registerAudioCodecs and availableCodecs of registerVideoCodecs.
AvailableCodecs ==
    [audio |-> << Offer(111, "opus", "minptime=10;useinbandfec=1") >>,
     video |-> << Offer(96, "VP8", NoLine),
                  Offer(98, "VP9", "profile-id=0"),
                  Offer(100, "VP9", "profile-id=1"),
                  Offer(125, "H264", "packetization-mode=1;profile-level-id=42e01f"),
                  Offer(108, "H264", "packetization-mode=0;profile-level-id=42e01f"),
                  Offer(123, "H264", "packetization-mode=1;profile-level-id=640032"),
                  Offer(35, "AV1", NoLine) >>]

ASSUME MediaEngineAssumption ==
    /\ DOMAIN EnabledCodecs \subseteq Kinds
    /\ \A k \in DOMAIN EnabledCodecs :
         DOMAIN EnabledCodecs[k] = {"mime", "line"}

VARIABLE enabledCodecParams   \* the payload types of each kind, in order

NoCodecParams == [k \in Kinds |-> <<>>]

\* All kinds are compared, not only that of the codec: a mime names one kind.
IsCodecEnabled(codec) ==
    \E k \in DOMAIN EnabledCodecs :
        /\ EnabledCodecs[k].mime = codec.mime
        /\ EnabledCodecs[k].line \in {NoLine, codec.line}

\* The payload types listed after each number of the codecs on offer.
Listed(kind) ==
    LET codecs == AvailableCodecs[kind]
        listed[i \in 0 .. Len(codecs)] ==
            IF i = 0 THEN <<>>
            ELSE IF IsCodecEnabled(codecs[i])
                 THEN Append(listed[i - 1], codecs[i].payload)
                 ELSE listed[i - 1]
    IN  listed

PayloadsOf(kind) == Listed(kind)[Len(AvailableCodecs[kind])]

AlwaysFilled(kind) == TRUE                                       \* a mutant

\* len(enabledCodecParams[kind]) == 0
NotFilledYet(kind) == enabledCodecParams[kind] = <<>>

\* registerCodecs for one more peer connection.
RegisterCodecs ==
    enabledCodecParams' =
        [k \in Kinds |-> IF NotFilledYet(k)
                         THEN enabledCodecParams[k] \o PayloadsOf(k)
                         ELSE enabledCodecParams[k]]

\* One round of the loop of NewParticipant for each of these; which kind comes
\* first is not fixed, and AllocatePort takes the codecs in any order.
CodecParams == enabledCodecParams["audio"] \o enabledCodecParams["video"]
=============================================================================
