SPECIFICATION DemoSpec
CONSTANTS
  x = x
  y = y
  f = f
  g = g
  DISK_SIZE = 8
  FAT_SIZE = 1
  BLOCK_DIR_SIZE = 1
  BLOCK_SIZE = 2
  MAX_LENGTH = 5
  ESSAI = f
  LIGNES <- MCLignes
  AJOUTS = 3
  CAR = x
  PAS = 2
  FINAL <- MCFinal
  KILLS = 1
  Blank = Blank
  NoName = NoName
  Junk = Junk
  NULL = NULL
  CHARS <- MCChars
  NOMS <- MCNoms
  NOMS_LONGS <- MCNoLongs
  TEXTES <- MCTextes
INVARIANTS
  KillHarmsOne
PROPERTIES
  FilesSurvive
  DemoEnds
VIEW LiveView
