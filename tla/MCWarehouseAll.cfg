SPECIFICATION Spec
CONSTANTS
    c1 = c1
    c2 = c2
    None = None
    Clients = {c1, c2}
    Namespaces <- AllNamespaces
    Idents <- TwoIdents
    Dirs <- OneDir
    RegisterAny = FALSE
    MaxCalls = 4
    MaxFiles = 3
SYMMETRY AnyClients
CHECK_DEADLOCK FALSE
INVARIANTS
    TypeOK
    EntriesReadable
    OpensCurrent
    OneWriterPerTable
PROPERTIES
    ImplementsAtomicCatalog
