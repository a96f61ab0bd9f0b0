\* No signal: ffmpeg is forked while the TCP thread sets up a socket.
CONSTANTS
    Handlers = {}
    MaxClients = 1
SPECIFICATION Spec
INVARIANTS NoSocketInherited
CHECK_DEADLOCK FALSE
