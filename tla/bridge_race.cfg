SPECIFICATION FairSpec
CONSTANT MaxRequests = 3
INVARIANTS TypeOK InOrder NoSleepingRequest ExactlyOnce PatientReadsItsResult
PROPERTY Consumed
