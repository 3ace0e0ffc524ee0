\* parse_server reports a bad section and returns true all the same.
SPECIFICATION Spec
CONSTANTS
  CommandLines <- ServerCommandLine
  Default = "default"
  Files <- MCFiles
  Fds = {3}
INVARIANTS
  ServerComplete
