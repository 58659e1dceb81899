SPECIFICATION Spec
CONSTANT FirstReads <- MCFirstReads
INVARIANTS TypeOK WalkMeetsAnnounced OpenedIsInitialised OwnAnswer ReportIsHidData
