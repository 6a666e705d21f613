SPECIFICATION Spec
CONSTANTS
  Services <- MCServices
  Captured <- MCCaptured
  Stored <- MCStored
  StoredAt <- MCStoredAt
  Leading <- MCLeading
  Typed <- MCTyped
  Texts <- MCTexts
  Trim <- MCTrim
  Valid <- MCValid
  Offered <- MCOffered
  Linked <- MCLinked
  Having <- MCHaving
  PAGE = 1
  MaxLandings = 1
  MaxEntries = 2
  MaxCalls = 2
PROPERTIES BackRestores
