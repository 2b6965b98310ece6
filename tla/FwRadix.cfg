SPECIFICATION Spec
CONSTANTS
  TablePrefixes <- MCPrefixes
  AddrBits = 4
  ByteBits = 2
  MaxEntries = 7
INVARIANTS
  TreeOK
  LongestMatch
PROPERTIES
  TableSpec
