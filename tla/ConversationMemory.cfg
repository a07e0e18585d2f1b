SPECIFICATION ConversationSpec
CONSTANTS
  RecentPairs = 1
  RecoveryPairs = 2
  Prompts = {"plain", "persona"}
  MaxAsked = 5
  MaxClears = 2
  MaxFaults = 2
  None = None
INVARIANTS
  KnowsTheConversation
  SnapshotIsPrefix
PROPERTIES
  ReplacedBetweenRequests
CHECK_DEADLOCK FALSE
