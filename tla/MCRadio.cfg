CONSTANTS
    Signal = {s1, s2}
    Freq = {f1, f2}
    None = None
    BufferSize = 1
    StartState = "RX"
    DefaultStateAfterTX = "RX"
    MaxMail = 2
    MaxRetunes = 1
SPECIFICATION Spec
INVARIANTS TransitionIsPending TransmitsOnlyInTX NeverStuckInTX
           InterferenceIsReal PowerMatchesState CleanWasHeard
CHECK_DEADLOCK FALSE
SYMMETRY Senders
