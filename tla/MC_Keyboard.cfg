CONSTANTS
  Keys = {"LSHIFT", "CAPS", "A"}
  DevReplies = {250, 254, NoReply}
  SelfTestResults = {TRUE, FALSE}
  MaxWire = 3
  MaxEvents = 4
  NoReply = NoReply
SPECIFICATION KbSpec
INVARIANT KeysDecoded
