SPECIFICATION Spec
CONSTANTS
    Conns = {c1, c2}
    Nodes = {n1}
    NoConn = NoConn
    NoNode = NoNode
    Hellos <- KeylessHello
    DBErrors = {}
    MaxRestarts = 0
INVARIANT
    OpenIsNotOffline
