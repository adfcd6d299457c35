SPECIFICATION Spec
CONSTANTS
    a = a
    b = b
    h1 = h1
    h2 = h2
    n1 = n1
    n2 = n2
    Clients = {a, b}
    Names = {n1, n2}
    Ids = {1, 2}
    Nobody = Nobody
    Hosts = {h1, h2}
    HostMaps <- Placements
    Retriers = {a}
    Ageing = {1}
    Fractional = {1}
 
PROPERTIES   TokenFetchEnds
CHECK_DEADLOCK FALSE
