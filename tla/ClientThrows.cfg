\* One call whose authorize() spans a drop and throws after the reconnect.  A
\* closed client stops: not a deadlock.
CONSTANTS
    Calls = {k1}
    Attempts = {a1, a2}
    None = None
    MaxEpochs = 2
    MaxLost = 0
    MaxFrames = 2
SPECIFICATION Spec
CHECK_DEADLOCK FALSE
PROPERTY InterruptedAdopts
