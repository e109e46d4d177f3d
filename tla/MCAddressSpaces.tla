-------------------------- MODULE MCAddressSpaces --------------------------
(***************************************************************************)
(* Programs of one and of two segments for module AddressSpaces, linked at *)
(* pages 4 to 9: segments that end inside a page and at its end, that      *)
(* cross the end of a page table, that have no contents in the file, a     *)
(* header that is skipped and one that is refused, and a file that is no   *)
(* program.                                                                *)
(***************************************************************************)
EXTENDS AddressSpaces

MCMemories == 1 .. 32

Header(kind, page, offset, filesz, memsz) ==
  [kind |-> kind, page |-> page, p_offset |-> offset, p_filesz |-> filesz, p_memsz |-> memsz]

MCPrograms ==
  { << Header("load", 4, 0, 3, 3) >>,
    << Header("load", 4, 1, 3, 4), Header("load", 7, 1, 2, 4) >>,
    << Header("other", 4, 0, 2, 2), Header("load", 4, 0, 2, 5), Header("load", 7, 0, 0, 1) >>,
    << Header("load", 4, 0, 4, 4) >>,
    << Header("load", 4, 1, 2, 2), Header("refused", 4, 0, 0, 0) >>,
    << >> }

MCNoPrograms == {<< >>}
=============================================================================
