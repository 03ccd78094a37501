SPECIFICATION AllFairSpec
CONSTANTS
  Events = {e1, e2, e3}
  Unacceptable = {e2}
  QueueSize = 2
  MaxRetries = 1
  MayBreak = TRUE
  SdkTypes = {"prompt", "tool_call", "unspecified"}
  SdkSeverities = {"info", "unspecified"}
  Texts = {"plain", "nonascii", "markup"}
  Tools <- MCTools
  Zones = {"utc", "offset"}
  Types = {"prompt", "tool_call"}
  Severities = {"info", "error"}
  Durations = {0, 1}
  Certs <- MCCerts
  Config <- MCConfig
  BadTenants = {".."}
  Agents = {"a1", "a2"}
  Tenants = {"t1"}
  MaxFaults = 1
  DefaultPatterns <- MCDefaultPatterns
  CustomPatterns <- MCCustomPatterns
  Words = {"plain", "key", "password", "name"}
  Bare = {"digits", "number"}
  MaxWords = 2
  None = None
INVARIANTS
  SdkOrder
  AcceptedIffPortable
  SignedIsStoredAndAnalysed
  RedactionSound
PROPERTY SdkSettles
