CONSTANTS
  Keys = {"LSHIFT", "A"}
  DevReplies = {250, 254, NoReply}
  SelfTestResults = {FALSE}
  MaxWire = 3
  MaxEvents = 4
  NoReply = NoReply
SPECIFICATION KbSpec
INVARIANT ModifiersTrackKeys
