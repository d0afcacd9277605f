SPECIFICATION PipelineSpec
CONSTANTS
  TheStream = TheStream
  TheSpeaker = TheSpeaker
  Streams = {TheStream}
  NoStream = NoStream
  Users = {TheSpeaker}
  NoUser = NoUser
  Lists <- NoLists
  Utterances = {1, 2}
  NoUtterance = NoUtterance
  Speakers = {TheSpeaker}
  Revisions = {1, 2, 3}
  Talkers = {}
  Messages = {}
  Displays <- OneProfile
  MaxParticipants = 1
  MaxChat = 1
  MaxCaptions = 1
  MaxSeen = 1
  ChatTTL = 0
  SeenTTL = 2
  MaxGeneration = 1
  MaxTime = 2
  MaxLag = 1
  Texts = {x, y}
  NoText = NoText
  InterimResults = TRUE
  LocalFinalize = TRUE
  QueueLength = 1
  MaxSeq = 2
  MaxLinks = 2
  MaxRevision = 3
PROPERTIES
  RevisionsGrow
  NothingOfOneConnectionDropped
CHECK_DEADLOCK FALSE
