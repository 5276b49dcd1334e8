SPECIFICATION ScenarioSpec
CONSTANTS
  Raw <- MCRaw
  Name <- MCName
  HostName <- MCHostName
  ProxyName <- MCProxyName
  UpstreamHost <- MCUpstreamHost
  Null = Null
  Refused = Refused
  NoRow = NoRow
  NoForm = NoForm
  Payloads <- MCPayloads
  MaxNames = 2
  Inputs <- Typed
INVARIANT RowIsOfItsType
INVARIANT FormStoresWhatItShows
INVARIANT PartialUpdates
