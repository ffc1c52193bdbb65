SPECIFICATION Spec
CONSTANTS
    Worker = {w1, w2}
    Director = {c1}
    Hash = {h1, h2}
    NoHash = NoHash
    Debate = {d1, d2}
    RoundLimit = 1
    NoNode = NoNode
SYMMETRY Interchangeable
INVARIANTS
    SynthesisBindsCandidates
    DebatesAreHeard
PROPERTIES
    SynthesisCoversDebates
    ConcludedDebatesStand
