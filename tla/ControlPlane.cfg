CONSTANTS
    Items = {"line_item", "buyer", "local_buyer", "creative"}
    Pages <- MCPages
    Files <- MCFiles
    Loopback = {"local_buyer"}
    Undecodable <- MCUndecodable
    Loads = {g1, g2}
    TTL = 2
    ScanTicks = 1
    ReadLag = 1
    None = None
SPECIFICATION Spec
INVARIANTS PickedUp NeverBackwards
