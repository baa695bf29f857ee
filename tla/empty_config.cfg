CONSTANTS
  Names <- Two
  Choices <- Mixed
  MaxVersion = 1
  MaxFailures = 0
SPECIFICATION Spec
INVARIANT CompletedBuildsConfigure
CHECK_DEADLOCK FALSE
