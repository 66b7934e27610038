SPECIFICATION Spec
CONSTANTS
    Readers <- Workers
    NSlice = 3
    MaxTicks = 7
    MaxHits = 3
INVARIANTS TypeOK RingHoldsHistory ReportExact
