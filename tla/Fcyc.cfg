SPECIFICATION Spec
CONSTANTS
    Cycles <- MCCycles
    Ks = {1, 2, 3}
    MaxSamples = {1, 4}
    Epsilons = {1, 20}
    CacheSizes = {8, 16}
INVARIANTS TypeOK KBest ResultIsLeast CacheBufFits
 
