\* Models and assertions: two callers, two model ids, page size 1.
CONSTANTS
    a1 = a1  a2 = a2  v1 = v1  v2 = v2
    Clients <- MCClients
    ModelIds <- MCModelIds
    Values <- MCValues
    PageSize = 1
    NoValue = NoValue
    NoClient = NoClient
    NoToken = NoToken
INIT Init
NEXT Next
SYMMETRY Symmetry
INVARIANTS ModelTypeOK AssertionsNeverCollide ModelListComplete
