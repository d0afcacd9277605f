SPECIFICATION Spec
CONSTANTS
  Streams = {st}
  NoStream = NoStream
  u1 = u1
  u2 = u2
  NoUser = NoUser
  Users = {u1, u2}
  Lists <- SomeLists
  Utterances = {a}
  NoUtterance = NoUtterance
  Speakers = {u1, NoUser}
  Revisions = {1, 2}
  Talkers = {u1, NoUser}
  Messages = {m1, m2}
  Displays <- TwoRows
  MaxParticipants = 2
  MaxChat = 1
  MaxCaptions = 2
  MaxSeen = 1
  ChatTTL = 0
  SeenTTL = 2
  MaxGeneration = 1
  MaxTime = 2
  MaxLag = 1
INVARIANTS
  ListsInv
  CaptionsAgree
PROPERTIES
  FinalCaptionStays
