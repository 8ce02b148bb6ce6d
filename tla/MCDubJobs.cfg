SPECIFICATION FairSpec
CONSTANTS
    None = None
    Dubs = {d1, d2}
    Voicings = {v1}
    Pages = {p1}
    Length <- OneShort
    Quality <- OneAtStudio
    Frame = 40
    Balance = 3
    MaxVersion = 3
    MaxRestarts = 1
    Balances = {1, 3}
    Clips = {2999, 12000}
CHECK_DEADLOCK FALSE
INVARIANTS PaidForWhatRuns OneAtATime QuoteIsRight
PROPERTY FollowedToTheEnd
