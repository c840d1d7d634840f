SPECIFICATION RequestSpec
CONSTANTS
    None = None
    Decay <- MCDecay
    Setups <- MCSetups
    ExaAnswers <- MCExaAnswers
    NewsAnswers <- MCNewsAnswers
    Signals <- MCSignals
    MaxContacts = 4
INVARIANTS
    RequestTypeOK
    NothingHiddenIsSaid
    ReasonIsTrusted
    SilenceIsExplained
PROPERTY MoreSignalsNeverWeaken
