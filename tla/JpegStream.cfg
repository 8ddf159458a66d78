SPECIFICATION McSpec
CONSTANTS
  Jobs <- McJobs
  Chunks <- McChunks
  Frequencies <- McFrequencies
  Tables <- McTables
  Scripts <- McScripts
  Components <- McComponents
  EOBMAX = 3
  CORRMAX = 2
INVARIANTS TypeOK RoundTrip ResyncInPlace TablesAreCodes CodesAreFound ScriptsDecode
PROPERTIES SuspensionInvisible
CHECK_DEADLOCK FALSE
