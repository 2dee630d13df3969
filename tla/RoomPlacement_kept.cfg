\* Two nodes, two clients, one fault; no node that is up is silent for longer than the TTL.
SPECIFICATION Spec
CONSTANTS n1 = n1 n2 = n2 k1 = k1 k2 = k2 None = None
CONSTANTS Nodes <- TwoNodes Clients <- TwoClients
CONSTANTS HealthyTTL = 1 LeaseTTL = 3 Capacity = 2 MaxSilence = 1 MaxMissed = 1 MaxFaults = 1
SYMMETRY Symmetry
CHECK_DEADLOCK FALSE
INVARIANTS TypeOK KeptWhileServed
