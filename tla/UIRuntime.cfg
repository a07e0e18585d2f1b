SPECIFICATION UISpec
CONSTANTS
  Workloads = {"assistant", "subtitles"}
  SinkSize = 1
  AudioQueueSize = 1
  MaxPosted = 1
  MaxInputs = 2
  Browsers = {b1}
  Watchers = {w1}
  ResponseSize = 1
  ChannelSize = 1
  MaxInbox = 2
  MaxRevision = 2
  None = None

  
PROPERTIES
  BrowserSeesTheOwner
  CommandsAreAnswered
  SubtitlesAreRevoked
CHECK_DEADLOCK FALSE
