\* The smallest session whose request lists skills.
SPECIFICATION ReqSpec
CONSTANTS
  CallIds = {"a"}
  MaxMessages = 3
  MaxTools = 1
  Default = Default
INVARIANTS
  SystemPromptSent
\* A built body is the end.
CHECK_DEADLOCK FALSE
