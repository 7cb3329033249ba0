CONSTANTS
  Scale = 60
  SourceOf <- MCSourceOf
  TopK = 2
  Threshold = 3
  LowerIsBetter = {"unsupported_claim_rate"}
  MinimumPaired = 2
  Coverage = 50
  MinimumN = 2
  Discovery = 25
  Cells = 8
  Protected = {"question_type", "cohort"}
  Questions <- MCQuestions
  Cases <- MCCases
  Primary <- MCPrimary
  Margin <- MCMargin
  Minimum = 2
  Specs <- MCSpecs
  Worlds <- MCWorlds
  Policy <- MCPolicy
  FactSource <- MCFactSource
  Receipted = {"a1", "a2"}
  Listing = 20
  Diagnosed = 2
  Shown = 2
  Frequency = 2
  Traces <- MCTraces
SPECIFICATION RSpec
CHECK_DEADLOCK FALSE
INVARIANTS
  NothingHidden
  SurvivorsKeepTheRate
  RivalsIsMeasured
  MissIsMissed
