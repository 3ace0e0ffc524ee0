\* Every command line and mode, every failing call, descriptors 0 and 3.
SPECIFICATION Spec
CONSTANTS
  CommandLines <- MCCommandLines
  Default = "default"
  Files <- MCFiles
  Fds = {0, 3}
INVARIANTS
  ArgumentsObeyed
  NoPanic
  ClientComplete
  FailureExplained
  NothingLeft
