\* Timestamps of 5 bits, samples up to just under half of their range.
SPECIFICATION RoundTripSpec
CONSTANTS
    WRAP = 32
    SAMPLE_LIMIT = 15
    INITIAL_DELAY = 20
    MINIMUM_DELAY = 2
    MAXIMUM_DELAY = 50
    MaxSpent = 34
    MaxHeld = 2
    MaxProbes = 2
INVARIANTS EstimatesBounded SamplesHonest
PROPERTY DelaySettles
