SPECIFICATION Spec
CONSTANTS
    Places = 3
    Packet = {p, q}
    Null = null
INVARIANT KeepsTrack
