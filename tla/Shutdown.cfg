\* A user, two rooms, two socket events and three timers.
CONSTANTS
    Op <- MCOp
    User <- MCUser
    Room <- MCRoom
    None = "none"
    UserOf <- MCUserOf
    RoomOf <- MCRoomOf
    Event <- MCEvent
    Disconnect <- MCDisconnect
    Tracked <- MCTracked
SPECIFICATION Lifetime
INVARIANTS InTurn QuietAtLastFlush
PROPERTIES IsTicketLock ShutdownEnds
CHECK_DEADLOCK FALSE
