SPECIFICATION GateSpec
CONSTANTS
    ActionReqs = {a1}
    PlainReqs = {p1, p2}
    Markers = {p1, p2}
    Notes = {}
    CommandCap = 2
    IngressCap = 2
    MaxConns = 2
    MaxFrames = 2
PROPERTIES ActionsAreGated
