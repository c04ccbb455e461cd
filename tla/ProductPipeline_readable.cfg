SPECIFICATION Spec
CONSTANTS
  Payloads <- Small
  Texts <- MCTexts
  Strip <- MCStrip
  Clean <- MCClean
  Upper <- MCUpper
  Url <- MCUrl
  Blank = ""
  Spaced = {"q q", "u #", "h #"}
  Codes = {"brl", "BRL"}
  WebUrls = {"u", "u#", "u #", "u ", "h #"}
  Long = {"long"}
  Tiny = Tiny
  Huge = Huge
  QuantityLimit = 200000
  AmountLimit = 2000
  Fallback = "fallback"
  Times <- MCTimes
  Utc <- MCUtc
  Ids = {1, 2, 3}
  Protections <- MCProtections
  MaxImports = 3
  DbFails = FALSE
  None = None
INVARIANT
  StoredIsReadable
