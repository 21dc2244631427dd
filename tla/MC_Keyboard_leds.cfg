CONSTANTS
  Keys = {"LSHIFT", "CAPS", "A"}
  DevReplies = {250}
  SelfTestResults = {FALSE}
  MaxWire = 3
  MaxEvents = 4
  NoReply = NoReply
SPECIFICATION KbSpec
INVARIANT LedsMatchCaps
