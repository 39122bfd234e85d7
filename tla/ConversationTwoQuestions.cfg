\* Assistant messages with two questions, or a call behind a question.
SPECIFICATION Spec
CONSTANTS
  Replies <- AnyOrder
  active_mode = "workspace-write"
  Prompting = TRUE
  max_iterations = 2
  preserve_recent = 2
  MaxMessages = 7
  MaxIds = 5
INVARIANTS QuestionsSettled
