SPECIFICATION Spec
CONSTANTS
  Idents <- MCIdents
  Numbers <- MCNumbers
  IdTexts <- MCIdTexts
  HashSize = 3
  Texts <- MCTexts
  Realms <- MCRealms
  Csvs <- MCCsvs
  Paths <- MCPaths
  Extended <- MCExtended
  Chunk = 2
  MaxTexts = 5
  MaxBreaks = 2
  NoStore = NoStore
  NoText = NoText
  NoFile = NoFile
  Damaged = Damaged
  Bad = Bad
  NoRun = NoRun
  Nothing = Nothing
INVARIANTS
  AsTyped
  RowsAsMeant
  SavedOpens
