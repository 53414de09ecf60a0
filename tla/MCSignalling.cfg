\* The bot connects twice; a good and a refused candidate of the bot, one of
\* the server.
SPECIFICATION FairSignallingSpec
CONSTANTS
    MaxSessions = 2
    BotCandidates = {good, bad}
    BadCandidates = {bad}
    Candidates = {srv}
INVARIANTS
    SignallingTypeOK
    NoCandidateStranded
PROPERTIES
    LiveBotsAreAnswered
    CandidatesAreExchanged
CHECK_DEADLOCK FALSE
