CONSTANTS
    g1 = g1
    g2 = g2
    h1 = h1
    h2 = h2
    Server = {g1}
    Handle = {h1, h2}
    Maintained = {}
    NoSvr = NoSvr
    NoHandle = NoHandle
    MaxChannel = 1
    MaxFailures = 1
SPECIFICATION Spec
PROPERTIES ReconnectKeepsPlace
