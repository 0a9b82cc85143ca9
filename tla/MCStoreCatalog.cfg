\* Two concurrent callers of CreateStore / DeleteStore over two ids, from
\* any initial table, while ListStores pages one store at a time.
CONSTANTS
    a1 = a1
    a2 = a2
    n1 = n1
    n2 = n2
    Clients <- MCClients
    Ids <- MCIds
    Names <- MCNames
    NoStore = NoStore
    NoClient = NoClient
    NoToken = NoToken
    PageSize = 1
INIT Init
NEXT Next
SYMMETRY Symmetry
INVARIANTS StoreTypeOK StoreCreatedOnce ListStoresComplete
