CONSTANTS
  Prices = {1, 2}
  MaxTotal = 3
  Assets = {a1, a2}
  NoAsset = none
  Changes <- Quotes
  FirstVersion = 2
  Moving = {a1}
  MaxEntries = 1
  MaxDrops = 1
  MaxFaults = 0
  RawCap = 1
  EventCap = 1
  RequestCap = 1
  ActiveSets = {{a1}, {a1, a2}}
  MaxRotations = 1
SPECIFICATION Spec
INVARIANT SnapshotAppliedWhole
