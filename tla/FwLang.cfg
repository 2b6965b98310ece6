SPECIFICATION Spec
CONSTANTS
  Mine <- MCMine
  Nets <- MCNets
  DenyUnknownExt = TRUE
  Attached = {"divert", "netgraph", "nat", "forward"}
  Texts <- MCTexts
  Packets <- MCPackets
INVARIANTS
  CompiledMeansText
  KernelAccepts
  ReadsOnlyParsed
  ListingMeansRule
