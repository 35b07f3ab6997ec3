SPECIFICATION FairSpec
CONSTANTS
  Loops = 4
  Stale <- Leftovers
  Nobody = Nobody
INVARIANTS WithinLostUpdates NoLostUpdate SomeReportIsFinal
PROPERTIES LoopsAreAtomic MainEnds
