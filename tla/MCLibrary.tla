----------------------------- MODULE MCLibrary -----------------------------
(***************************************************************************)
(* Small arguments for the functions of Library.  The divisions of         *)
(* LongLong take steps.                                                    *)
(***************************************************************************)
EXTENDS LongLong, Library

NoJob == [fn |-> "udiv64"]

CharDef == {"N", "O", "D", "E", "R", "Y", "S", "a", "b", "z", "u", "%", "c", "d", "x", "s"}

Name(n) == SubSeq(<<"N", "O", "D", "E", "R", "Y", "O", "S">>, 1, n)

\* Names of all lengths.
Entries == [fn : {"format_entry"}, name : {Name(n) : n \in 1 .. 8}, ext : {Name(n) : n \in 0 .. 3}]

Pieces == [kind : {"text"}, arg : {<<"a">>}]
            \cup [kind : {"%", "u"}, arg : {0}]
            \cup [kind : {"c"}, arg : {"z"}]
            \cup [kind : {"s"}, arg : {<<>>, <<"b", "%">>}]
            \cup [kind : {"d", "x"}, arg : {-123, -7, 0, 10}]

Corner == (-1 .. WIDTH) \X (-1 .. HEIGHT)

JobsDef ==
  [fn : {"printf"}, pieces : UNION {[1 .. n -> Pieces] : n \in 0 .. 3}]
    \cup [fn : {"printf"}, pieces : {<<p>> : p \in [kind : {"d", "x"}, arg : Int32]}]
    \cup Entries
    \cup [fn : {"ui_line"}, from : Corner, to : Corner]
    \cup [fn : {"ui_triangle"}, a : Corner, b : {<<0, 2>>, <<3, 1>>}, c : Corner]
    \cup [fn : {"ui_circle"}, at : Corner, r : 0 .. 3]
    \cup [fn : {"ui_draw"}, at : (0 .. WIDTH) \X (0 .. HEIGHT), size : (0 .. 3) \X (0 .. 3)]
    \cup [fn : {"putpixel"}, c : 0 .. LEVELS - 1, bg : 0 .. LEVELS - 1, a : 0 .. LEVELS - 1]

\* Either a division or one of the others.
MCInit == /\ DivideInit
          /\ \/ job = NoJob
             \/ LibraryInit /\ call = CHOOSE c \in [signed : {FALSE}, num : {0}, den : {0}] : TRUE

MCNext == job = NoJob /\ DivideNext /\ UNCHANGED job

MCSpec == MCInit /\ [][MCNext]_<<dividing, job>>
=============================================================================
