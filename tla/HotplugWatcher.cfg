SPECIFICATION HotplugSpec
CONSTANTS
    Listing <- MCListing
    Worlds <- MCWorlds
    LineCount = 1
    QueueLimit = 2
    MaxChanges = 3
INVARIANTS
    HotplugTypeOK
    DivergenceIsPending
    DescriptorsSound
PROPERTY InventoryConverges
