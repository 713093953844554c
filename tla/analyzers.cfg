SPECIFICATION Spec
CONSTANTS
  People = {ana, ben}
  Platforms = {"whatsapp", "imessage", "telegram"}
  Heads <- MCHeads
  Plains <- MCPlains
  MaxLines = 5
  MaxParsed = 2
  MaxChars = 7
  \* More weeks than the smallest budgets have room for.
  MinPerWeek = 2
  MaxTime = 4
  MaxSampled = 9
  WeekLength = 1
  Budgets = {1, 2, 3, 5, 6}
  \* Exports whose lines are not in the order of their times.
  ShuffledTime = 3
  MaxShuffled = 6
  ShuffledWeek = 2
  ShuffledBudgets = {1, 2, 3, 4}
  MaxChat = 5
  FirstTimes = {0}
  ChatSteps <- MCChatSteps
  MinMessages = 4
  MinSample = 3
  Pct = 50
  \* Long enough for a baseline.
  Kinds <- MCKinds
  MaxWeeks = 8
  \* Small thresholds, and room for one episode.
  LastEventDay = 4
  MaxEvents = 5
  MinMentions = 2
  MinMissedCalls = 2
  HighMentions = 3
  MaxEpisodes = 1
  \* Three quarters, of which one may be one-sided.
  Scores <- MCScores
  MaxScored = 5
  ToneSteps = {0, 3}
  QuarterLength = 3
  RecentWindow = 3
  MinPoints = 1
SYMMETRY Symmetry
CHECK_DEADLOCK FALSE
INVARIANTS
  ExportIsReadTrue
  SampleIsFair
  BlocksFollowSilences
  MetricsAgree
  VerdictIsInTheWeeks
  EpisodesAreWhole
PROPERTIES
  PastStands
  ToneIsOfBoth
