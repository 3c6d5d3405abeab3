\* Two changes of a file, the configuration or a runtime credential, seen by
\* goroutines that overlap; the queue has room for one update.
SPECIFICATION FairRacesSpec
CONSTANTS
  Ids <- MCIds
  Files <- MCFiles
  Runtimes <- MCRuntimes
  Reloads = {r1, r2}
  Reporters = {p1}
  QueueCap = 1
  MaxVersion = 2
  MaxChanges = 2
  MaxConfig = 2
CHECK_DEADLOCK FALSE
INVARIANT SettledInStep
PROPERTY CatchesUp
