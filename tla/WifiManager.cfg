CONSTANT MaxEvents = 3
SPECIFICATION FairSpec
INVARIANTS
    FlagsTruthful
PROPERTIES
    ReconnectsUnlessRaced
    StatusShowsStation
