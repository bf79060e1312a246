CONSTANTS
    Byte = {0, 1, 2}
    IntLimit = 64
    Words <- MCWords
    Loads <- MCLoads
    Stores <- MCStores
    StoreData <- MCStoreData
    OtherValues <- MCOtherValues
SPECIFICATION Spec
INVARIANTS TypeOK ReadsOwnWrites LoadsDoNotAssert CommitPublishesOwnBytes
