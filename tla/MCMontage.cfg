SPECIFICATION MontageSpec
CONSTANTS
  DISK_SIZE = 6
  FAT_SIZE = 2
  FAT_PER_BLOCK = 4
  BLOCK_DIR_SIZE = 2
  Blank = Blank
  NoName = NoName
  f = f
  g = g
  h = h
  trop_long = trop_long
  NOMS <- MCNoms
  NOMS_LONGS <- MCNomsLongs
INVARIANTS
  MountedAsOnDisk
  DirectoryWhole
PROPERTIES
  OneNameAtATime
SYMMETRY MCSymmetry
