\* main and one program, two levels of directories, memory for everybody.
CONSTANTS
  main = main
  p1 = p1
  s1 = s1
  s2 = s2
  s3 = s3
  Program <- MCProgram
  Word <- MCWord
  UpToSpace <- MCUpToSpace
  Listing <- Contents
  fat <- MCfat
  Name <- MCName
  Piece <- MCPiece
SPECIFICATION DirectorySpec
INVARIANTS DirectoryTypeOK EntryIsNamed CwdInTree
SYMMETRY Pieces
CHECK_DEADLOCK FALSE
