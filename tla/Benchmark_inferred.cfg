CONSTANTS
  Terms = {1, 2, 3, 4, 5, 6, 7, 8, 9, 10, 11, 12, 13}
  Within <- MCWithin
  Number <- MCNumber
  Frame <- MCFrame
  Markers = {3}
  Identifiers <- MCIdentifiers
  Tolerance = 5
  Shapes <- MCShapes
  Facets = 4
  Sources = 3
  Published <- MCPublished
  Covers <- MCCovers
  Mentioned = {3}
  Answerable = {6}
  Disputes <- MCDisputes
  Compositions <- MCCompositions
  Fractions <- MCFractions
  Shuffles <- MCShuffles
  MaxClaims = 3
  MaxBuilds = 2
  MaxDeaths = 1
SPECIFICATION Spec
CHECK_DEADLOCK FALSE
INVARIANT InferenceNeverScored
