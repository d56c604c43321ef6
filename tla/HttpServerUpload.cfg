SPECIFICATION FairSpec
CONSTANTS
  Conns = {c1, c2}
  Images = {"imgA", "imgB"}
  Length <- MCLength
  Plausible = {"imgA"}
  OldImage = "old"
  SectorBytes = 2
  Sectors = 2
  NoConn = NoConn
  NoImage = "none"
  Requests <- MCRequests
  Handlers <- MCHandlers
  PageLen <- MCPageLen
  Decoded <- MCDecoded
  Escape <- MCEscape
  MaxQuery = 20
  MaxParams = 4
  MaxParts = 1
  MaxSegment = 3
  MaxRetries = 2
  None = None
PROPERTY UploadEnds
CHECK_DEADLOCK FALSE
