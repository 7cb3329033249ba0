SPECIFICATION PartsSpec
CONSTANTS
  Wanted <- MCWanted
  Listings <- MCListings
  Requests <- MCRequests
  Similar = {}
  Guess = FALSE
  MaxRetries = 2
  MaxCalls = 2
  MaxLines = 2
  Arms = {"S0", "P0", "P1"}
  Type = "contradiction"
  AsOf = 1
  SourceIn <- MCSourceIn
  Preview <- MCPreview
  Document <- MCDocument
  Submitted = {"x", "y"}
  Found <- MCFound
  Package <- MCPackage
  Limit = 3
  MaxRounds = 2
  MaxSaid = 2
  MaxResumes = 1
  Entries <- MCEntries
  Words <- MCWords
  Titles <- MCTitles
  Readable = {"rate", "bank", "loan", "cost", "fee"}
  Linkable = {"d1"}
  MinEvidence = 2
  MaxEvidence = 4
  MaxProved = 1
  RecordRoom = 2
  MinSupport = 2
  TopicFacets <- MCTopicFacets
  WidenedId <- MCWidenedId
  MaxAgents = 2
  MaxDepth = 3
  MaxAttempts = 3
  Input = 1
  Output = 1
  Thinking = 1
  Budget = 6
  Plans <- MCPlans
  Drafts <- MCDrafts
  MaxFacets = 2
CHECK_DEADLOCK FALSE
INVARIANTS
  AtMostOnce
  OwnAnswer
  SucceededIsWhole
  ReadAlike
  RecordsHold
  RetriesInOne
