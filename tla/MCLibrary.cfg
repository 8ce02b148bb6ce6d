SPECIFICATION HarnessSpec
CONSTANTS
  None = None
  vid = vid
  snd = snd
  click = click
  Scenes = {"placement", "pipeline", "splice", "works", "timeline", "lines"}
  Found = {0, 2}
  Count = 2
  Space = 3
  Takes = {1, 3}
  MaxSplices = 2
  Media = {vid, snd, click}
  Durations <- MCDurations
  Videos = {vid}
  Sounds = {vid, snd, click}
  TextMax = 20
  MaxTime = 30
  Points = {0, 6, 20}
  MaxEdits = 3
  Span = 5
  Snap = 2
  MinLine = 2
  MaxMoves = 2
  MaxVersions = 1
  Users = {u1}
  Tabs = {d1, d2}
  Browsers = {b1, b2}
  Jobs = {j1}
  Owner <- OneOwner
  MaxClock = 2
  MaxLists = 1
  MaxPuts = 1
  MinRoom = 1
  MaxSpill = 1
  MaxShift = 2
  Chunk = 2
  Times = {0, 1, 2, 4, 5}
  Lengths = {1, 2, 4, 9}
  Total = 6
  MaxLines = 3
INVARIANTS StatesOK WorksKept OneVoiceAtATime LinesAreHeard SoundRight ArrangedAsShown
PROPERTY DoneAsShown
SYMMETRY Sym
CHECK_DEADLOCK FALSE
