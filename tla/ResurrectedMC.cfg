SPECIFICATION RestorationSpec
CONSTANTS
  s1 = s1
  s2 = s2
  k1 = k1
  k2 = k2
  MaxGames = 2
  Session = {s1, s2}
  CreationId = {k1, k2}
  Asked <- Calls
  MaxBackups = 2
  MaxReceipts = 4
  Accidents = {"purge while unready"}
INVARIANTS
  DeletedGamesStayClosed
