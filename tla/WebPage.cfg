CONSTANTS
    MaxPolls = 2
    MaxLoads = 1
SPECIFICATION PageSpec
INVARIANTS
    BannerTruthful
PROPERTIES
    FormsComeBack
