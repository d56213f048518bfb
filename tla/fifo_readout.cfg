SPECIFICATION ReadoutSpec
CONSTANTS
  Depth = 4
  Words = {a, b}
  NoWord = none
  Slack = 3
  MAX = 2
INVARIANT FifoTypeOK PipelineOrder NoUnderflow
PROPERTY ImplementsQueue StoredWordShows StoresNextWord PackageFills
