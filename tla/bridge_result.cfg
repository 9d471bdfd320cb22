SPECIFICATION Spec
CONSTANT MaxRequests = 2
INVARIANT ClientReadsItsResult
