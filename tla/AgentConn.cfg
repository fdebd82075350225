SPECIFICATION Spec
CONSTANTS
    Conns = {c1, c2}
    Nodes = {n1}
    NoConn = NoConn
    NoNode = NoNode
    Hellos <- AllHellos
    DBErrors = {"online", "unreachable"}
    MaxRestarts = 1
INVARIANTS
    TypeOK
    RegistryTracksNewest
    OfflineHasTheLastWord
PROPERTIES
    ClientKeyKept
    ClosedIsCleanedUp
    SilenceIsNoticed
