CONSTANTS
  Clients = {c1, c2}
  Settings = {preset, custom}
  CustomSettings = {custom}
  DefaultSettings = preset
  Maps = {m1}
  NoMap = none
  Keep = keep
  MaxRevision = 3
SPECIFICATION NeverReplaced
INVARIANTS
  Inv
  RevisionNamesOneMapIfLoaded
PROPERTIES
  ConfirmedIsReplacedKnowingly
  PageReportsRevised
  WrittenIsActivated
