SPECIFICATION TimedSpec
CONSTANTS
    Cycles <- MCCycles
    Ks = {1}
    MaxSamples = {2}
    Epsilons = {30}
    CacheSizes = {8}
    WORD = 8
    THRESHOLD = 2
    RECORDTHRESH = 3
    NEVENT = 2
    LOOP = 1
    COST = 6
    Durations = {4, 9}
    Phases = {5, 60}
    PERIOD = 3
    MaxTicks = 2
INVARIANTS ClockTypeOK CounterExact EstimateSound CompensationBounded
PROPERTY FcycSpec
