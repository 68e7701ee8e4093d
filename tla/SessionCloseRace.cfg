SPECIFICATION OnceSpec
CONSTANTS
    Channels = {ch}
    Keys = {k1}
    Tasks = {t1, t2}
    MaxAmount = 3
    MinDelta = 1
PROPERTIES
    CloseNeverLowers
