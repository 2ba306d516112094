\* Two calls over two connections, one answer lost on a full buffer.  A closed
\* client stops: not a deadlock.
CONSTANTS
    Calls = {k1, k2}
    Attempts = {a1, a2, a3}
    None = None
    MaxEpochs = 2
    MaxLost = 1
    MaxFrames = 2
SPECIFICATION Spec
CHECK_DEADLOCK FALSE
INVARIANTS TypeOK NoStaleToken ConfirmedIsHeld NoGhost
PROPERTIES CallSettles WantedIsRestored
