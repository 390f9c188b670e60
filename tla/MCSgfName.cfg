SPECIFICATION SgfSpec
CONSTANTS
  x = x
  y = y
  f = f
  g = g
  trop_long = trop_long
  DISK_SIZE = 8
  FAT_SIZE = 1
  BLOCK_DIR_SIZE = 1
  BLOCK_SIZE = 2
  MAX_LENGTH = 5
  Blank = Blank
  NoName = NoName
  Junk = Junk
  NULL = NULL
  CHARS <- MCChars
  NOMS <- MCNomsLongs
  NOMS_LONGS <- MCLongs
  TEXTES <- MCTextes
INVARIANT OpenFileHasName
