SPECIFICATION Spec
CONSTANTS
  User = user
  Slots = {user, lesson}
  Seeded = {user}
  Texts <- EditorTexts
  Draft = draft
  Empty = empty
  None = none
  Garbled = garbled
  NoSlot = noslot
  NoSeq <- NoNumber
  SeqMod = 4
  MaxCalls = 4
  MaxCuts = 1
  MaxFails = 1
  Torn = FALSE
INVARIANTS KeptIsLoaded OwnTextsOnly DraftIsLatest
PROPERTIES RunComesBack HistorySpec
CHECK_DEADLOCK FALSE
