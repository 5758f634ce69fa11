CONSTANTS
  Schemes <- MCSchemes
  Hosts <- MCHosts
  Ports <- MCPorts
  Segments <- MCSegments
  Paths <- MCPaths
  Names <- MCNames
  Values <- MCValues
  Fragments <- MCFragments
  Urls <- MCUrls
  Blanks <- MCBlanks
  MaxSegments = 2
SPECIFICATION UrlSpec
PROPERTIES PortInRange
