CONSTANTS
  Files = {f1}
  MaxVersion = 2
  c1 = c1
  c2 = c2
  q1 = q1
  Codes = {c1, c2}
  BadTokens = {q1}
  QuotedTokens = {q1}
  BeforeQuote <- PastedCode
  LongTokens = {q1}
  CodeNamed = {}
  CodeWord = q1
  MaxList = 1
  MaxKills = 1
  SendFaults = {"refused", "lostreply", "move", "log"}
  MaxLog = 3
  RecvKills = 1
  RecvFaults = {"early", "late", "http", "unpack", "once"}
  BlobsExpire = TRUE
SPECIFICATION Spec
INVARIANTS
  OriginalsKept
  LogIsReal
  OneVerdict
  NoSilentLoss
