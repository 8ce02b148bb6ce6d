SPECIFICATION HarnessSpec
CONSTANTS
  None = None
  Sold <- MCSold
  Packs <- MCPacks
  Catalog0 <- MCCatalog
  HalfMinutes = {3, 120}
  MaxMoves = 1
  MaxAsked = 1
  FormUsers = {"ann"}  Replays = {"r1"}  Played = {"language", "subtitles"}  FormChanges = 2
  Newcomers = {"ann", "ada"}  Screens = {"t1"}  TourClips <- MCClips
  FreshFor = 1  LastDay = 1  PageLoads = 2  Clicks = 3
  ReportLines = {1, 2}
  Shelved = {1, 2}  Aged = {2}  Titled = {1}  ShelfChanges = 1
  RowKind <- MCKind  ScriptOrder <- MCQueue  Deploys = 2  ScriptChanges = 2
  SoldPlans = {"pro"}  SoldPacks = {"small", "big"}  Products = {"v1", "v2"}
  Staff = {"ann", "ada"}  Purchases = {"r1", "r2"}  PanelChanges = 3
  PlanChanges = 3
  People = {"ann", "ada"}  Addresses = {"first", "second", "third"}  Calls = {"r1", "r2"}
  Chief = "ann"  Addressed <- MCNames  AdminTable <- MCAdmins  Renames = 2
  NoWord = "-"  Phrases = {"one", "two"}  Aim = 18  Longest = 50  Nearby = 3  LoopLength = 3
  SetForGiga = {"uz", "ru"}  HeardByGiga = {"uz", "az"}  UserLanguages = {"auto", "uz"}
  WhisperLanguages = {"az", "tr", None}  SpeechSpans = {26, 100}  MaxStretches = 2  MaxPhrases = 3
  Segments = 3  PerCall = 2  PerRepair = 1  Moods = {"calm", "sad"}  PlainMood = "calm"  Takes = 2
INVARIANTS StatesOK EstimateCovers FormsKept ToldTheTruth RecordsRight WordsRight
CHECK_DEADLOCK FALSE
