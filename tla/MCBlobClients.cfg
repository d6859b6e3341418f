SPECIFICATION Spec
CONSTANTS
    h1 = h1
    h2 = h2
    peer = peer
    HttpServers <- MCHttpServers
    Peer = peer
    Clients <- MCClients
    Task = {1, 2}
    MaxConcurrent = 1
    MaxOthers = 1
 
PROPERTIES SuccessIsTrue EveryCallReturns
CHECK_DEADLOCK FALSE
