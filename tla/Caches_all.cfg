SPECIFICATION FairSpec
CONSTANTS
  Users = {"ada", "ben"}
  Worker = "worker"
  All = "all"
  Menus <- EachMenu
  MaxChanges = 2
  Miss = Miss
  Nothing = Nothing
INVARIANTS TypeOK ReadYourWrites HistoryIsCurrent
PROPERTIES Converges
