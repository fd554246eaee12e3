SPECIFICATION Spec
CONSTANTS
  MaxChars = 6
  MaxRest = 1
  Procs = {p1, p2, p3, p4}
  Ops = {"create", "update", "remove", "append", "updatePage", "deletePage", "reorder", "illustrate", "share", "unshare"}
  FirstTexts <- MCTexts
  EditLens = {4}
  None = None
INVARIANTS
  TypeOK
  NumberedInOrder
  TextOnPages
  ImageDepictsText
  StoryAsSaved
  AnnouncedOnce
SYMMETRY Requests
CHECK_DEADLOCK FALSE
