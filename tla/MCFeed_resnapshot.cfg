CONSTANTS
  Prices = {1, 2, 3}
  MaxTotal = 2
  Assets = {a1}
  NoAsset = none
  Changes <- Trading
  FirstVersion = 2
  Moving = {a1}
  MaxEntries = 2
  MaxDrops = 0
  MaxFaults = 1
  RawCap = 2
  EventCap = 1
  RequestCap = 1
  MaxRestBodyBytes = 2
  MaxGammaEvents = 2
  MaxRestBookLevels = 1
  MaxClobTokens = 2
  Unparsed = unparsed
SPECIFICATION Spec
PROPERTY ResnapshotIsCurrent
