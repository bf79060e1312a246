CONSTANTS
    Byte = {0, 1, 2}
    IntLimit = 64
    Words <- MCWords
    Loads <- MCWideLoads
    Stores <- MCWideStores
    StoreData <- MCStoreData
    OtherValues <- MCOtherValues
SPECIFICATION Spec
INVARIANT ReadsOwnWrites
