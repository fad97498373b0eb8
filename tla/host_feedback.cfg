SPECIFICATION FairSpec
CONSTANTS
  BaselineMemory = 15
  InitialProcesses = 2
  MaxProcesses = 4
  Samples <- AllSamples
  Sizes <- TwoSizes
PROPERTIES
  MemoryEnvelope
  RelaxesSlowly
  HostRecovers
