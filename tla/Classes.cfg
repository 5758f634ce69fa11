CONSTANTS
  Bytes = {b1, b2}
  Garbage = Garbage
  MaxLength = 5
  MaxBlock = 3
  Sizes <- MCSizes
  Blocks <- MCBlocks
  Schemes <- MCSchemes
  Hosts <- MCHosts
  Ports <- MCPorts
  Segments <- MCSegments
  Paths <- MCPaths
  Names <- MCNames
  Values <- MCValues
  Fragments <- MCFragments
  Urls <- MCUrls
  Blanks <- MCBlanks
  MaxSegments = 2
  Counts = {0, 1, 2, 6, 7}
  MaxPlans = 4
  Levels = {0, 1}
  Margins <- MCMargins
SPECIFICATION ClassesSpec
INVARIANTS FifoTypeOK RingInBounds ReaderNotShort
INVARIANTS UrlTypeOK SegmentsNormal RoundTrip GettersAgree
INVARIANTS PlansOwned GccKeepsPlans WindowInBounds LagIsBest
PROPERTIES IsByteFifo ReadyIsUsable
CHECK_DEADLOCK FALSE
