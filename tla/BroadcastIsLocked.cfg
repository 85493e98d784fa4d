CONSTANTS
    Pages = {p1, p2}
    Handlers = {h1, h2}
SPECIFICATION Spec
PROPERTY BroadcastIsLocked
