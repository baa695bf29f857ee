CONSTANTS
  Names <- Two
  Choices <- Mixed
  MaxVersion = 2
  MaxFailures = 1
SPECIFICATION FairSpec
INVARIANT TypeOK CompletedBuildsAreFresh
PROPERTY ImplementsPublication Fetched
