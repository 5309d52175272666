CONSTANTS
  Names = {"a", "b", "h"}
  Protected = {"h"}
  Paths <- MCPaths
  Contents = {"c", "cut"}
  Cut = "cut"
  Sent = {"c"}
  None = "none"
  Dir = "dir"
SPECIFICATION Spec
INVARIANTS NothingElseLost AnswersAreTrue
PROPERTIES SystemFilesKept
