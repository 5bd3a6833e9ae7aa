\* The session loop over the typed lines of MCDbMgr.
CONSTANTS
  Alpha <- MCAlpha
  Digit <- MCDigit
  Other = {"-", " "}
  DigitVal <- MCDigitVal
  CmdWords <- MCCmdWords
  LowerOf <- MCLowerOf
  Lines <- MCLines
  Options = {"help", "version", "prefix"}
  DefaultConn = DefaultConn
  DefaultIata <- Nce
  DefaultIcao <- Lfmn
  DefaultFaa <- Jfk
  DefaultGeonameID <- MCDefaultGeonameID
  GeonamesIDMax <- MCGeonamesIDMax
  MaxIdDigits = 11
  NoLookup = NoLookup
  NoLine = NoLine
SPECIFICATION Spec
\* The process exits when the session ends.
CHECK_DEADLOCK FALSE
INVARIANT ConnectionStringNeverEmpty
