SPECIFICATION PreparationSpec
CONSTANTS
  Payloads <- MCPayloads
  Reading <- MCReading
  KeyName = "K"
  BundleEdits = 2
  Owning = "own"
  Histories <- MCHistories
  Expected = "one"
  MaxParents = 3
  WriteOrder <- MCWriteOrder
  StarterEdits = 2
  SourceSets <- MCSourceSets
  Regenerated <- MCRegenerated
  SbomEdits = 2
INVARIANTS
  BundledTogether
  
  
  
  VerifiedIsFinal
  RefusedBeforeWriting
  
CHECK_DEADLOCK FALSE
