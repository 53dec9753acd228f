SPECIFICATION FairSpec
CONSTANTS
  MaxVisits = 2
  Configurations <- MCConfigurations
  Station = {s1, s2}
  Located = {s1, s2}
  NoStation = NoStation
  Form <- MCForm
  NamedForm <- MCNamedForm
  View = {v1}
  NoView = NoView
  NoKey = NoKey
  Nearby = Nearby
  NoPin = NoPin
  Centre = Centre
  Coordinate = {zero, far}
  Zero = zero
  Empty = empty
  Bad = bad
INVARIANTS TypeOK LoaderSound MapsAccounted ListAnswersForm MarkersMatchList PinIsFields
PROPERTIES CreationSettles
CHECK_DEADLOCK FALSE
