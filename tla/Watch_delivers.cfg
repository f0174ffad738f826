CONSTANTS
  Files = {f1, f2}
  MaxVersion = 1
  c1 = c1
  c2 = c2
  q1 = q1
  Codes = {c1, c2}
  BadTokens = {w1}
  LongTokens = {}
  QuotedTokens = {}
  BeforeQuote <- NoQuotes
  CodeNamed = {f2}
  CodeWord = w1
  MaxList = 1
  MaxKills = 0
  SendFaults = {"refused"}
  MaxLog = 4
  RecvKills = 0
  RecvFaults = {"early", "log"}
  BlobsExpire = FALSE
SPECIFICATION FairSpec
PROPERTIES
  Delivers
