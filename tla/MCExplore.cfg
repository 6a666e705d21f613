SPECIFICATION Spec
CONSTANTS
  Points <- MCPoints
  Answers <- MCAnswers
  MapLinked <- MCMapLinked
  Zooms <- MCZooms
  MAX_ZOOM = 300
  Records <- MCRecords
  Enrichments <- MCEnrichments
  Pulses <- MCPulses
  Vulns <- MCVulns
  Fold <- MCFold
  Year <- MCYear
  NoYear = 10000
  NAMES = 3
  VISIBLE = 2
  MaxTimers = 2
  MaxEntries = 2
  MaxCalls = 2
INVARIANTS MapShowsLayer SelectionVisible LandOnce RecordIsRequested XrefHonest HeadInSync ActivationProgress
PROPERTIES RecordLatest ExploreSettles
