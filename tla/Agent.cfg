SPECIFICATION Spec
CONSTANTS
  Logs <- MCLogs
  Loaders = {"maple", "birch"}
  NotJSON = {"unprintable"}
  ReadToken = "rt"
  WriteToken = "wt"
  IntMax = 7
  maxRange = 1
  Clients = {"c1", "c2"}
  Credentials <- MCCredentials
  Times = {1, 2}
  Reads <- MCReads
  Tokens <- MCMixedTokens
  RPCCodes = {"Unavailable"}
  MaxBatch = 1
  MaxAdds = 2
  MaxReads = 1
  MaxFaults = 1
INVARIANTS TimestampIsOfTheLoggedLeaf LoggedIsPermitted ProofsAreOfTheRequestedTree EntriesAreTheRange
PROPERTY NoErrorWithoutReason
