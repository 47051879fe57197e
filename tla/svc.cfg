CONSTANTS
    Servers = {p, q}
    Clients = {c}
    Watcher = w
    Names = {n1, n2}
    Channels = {h1, h2, h3}
    TableSize = 2
    Full = {p, c}
    None = None
    MaxCount = 2
SPECIFICATION Spec
INVARIANTS RegistryIsSound ServedNameIsFound WatcherHearsOfNames
