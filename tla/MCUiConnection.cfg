SPECIFICATION PageSpec
INVARIANTS
    OneChain
    FooterTruthful
PROPERTIES
    Reconnects
    GuardWorks
