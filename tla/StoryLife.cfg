SPECIFICATION Spec
CHECK_DEADLOCK FALSE
CONSTANTS
  None = None
  Owner = owner
  Guest = guest
  Members = {owner, friend, other}
  Years = {year}
  MaxChars = 7
  MaxRest = 2
  WordLengths = {2, 8}
  MaxPrompt = 24
  Heading = 1
  Fixed = 1
  PartLengths = {2, 7, 12}
  Editors = {e1, e2}
  OptionIds = {o1, o2}
  NameWords = {victorian, meiji}
  Same = Same
  Workloads <- MCWorkloads
  NewStories <- MCNewStories
  first = first
  second = second
  Updaters <- MCUpdaters
  Updates <- MCUpdates
  Overrides <- MCOverrides
  StoryTexts <- MCStoryTexts
  Scenes <- MCScenes
INVARIANTS
  TypeOK
  ListedIffReadable
  AudienceHadAccess
  RulesKept
  PromptConsistent
  AllWordsKept
  AllPagesWellCut
  PromptWhole
  EssentialKept
  CatalogInOrder
PROPERTIES
  UntouchedKept
