\* Two utterances, two prompts in the vendor's queue.
SPECIFICATION VoiceSpec
CONSTANTS
    Utterance = {u1, u2}
    MaxSent = 2
SYMMETRY Interchangeable
INVARIANTS
    VoiceAnswersAreDenied
    
    
