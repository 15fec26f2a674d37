CONSTANTS
    None = None
    Client = A
    Server = B
    SeqMod = 16
    Iss <- MCIss
    MaxSend = 2

SPECIFICATION Spec

INVARIANT SequencesAgree

CHECK_DEADLOCK FALSE
