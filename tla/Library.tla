------------------------------ MODULE Library ------------------------------
(***************************************************************************)
(* The functions of Text and Drawing, which keep no state: a job is a call *)
(* of one of them, with arguments the kernel can be called with.           *)
(***************************************************************************)
EXTENDS Text, Drawing

CONSTANTS Char,  \* the characters of strings; NUL ends them
          Jobs   \* the calls that are made

VARIABLE job

\* An argument of 32 bits.
Int32 == - (WORDS \div 2) .. WORDS \div 2 - 1

\* Numbers of 16 bits, so that the differences of two of them are such numbers too.
Coordinate == - (UINT16 \div 4) .. UINT16 \div 4 - 1
Point == Coordinate \X Coordinate

\* Text without a directive, or a directive and its argument.  What is behind a
\* percent sign and no letter that printf knows takes none.
Piece == [kind : {"text"}, arg : Seq(Char \ {"%"})]
           \cup [kind : {"s"}, arg : Seq(Char)]
           \cup [kind : {"c"}, arg : Char]
           \cup [kind : {"d", "x"}, arg : Int32]
           \cup [kind : Char \ {"text", "s", "c", "d", "x"}, arg : {0}]

Calls == [fn : {"printf"}, pieces : Seq(Piece)]
           \cup [fn : {"format_entry"}, name : Seq(Char), ext : Seq(Char)]
           \cup [fn : {"ui_line"}, from : Point, to : Point]
           \cup [fn : {"ui_triangle"}, a : Point, b : Point, c : Point]
           \cup [fn : {"ui_circle"}, at : Point, r : 0 .. UINT16 \div 2 - 1]
           \cup [fn : {"ui_draw"}, at : (0 .. UINT16 - 1) \X (0 .. UINT16 - 1),
                                   size : (0 .. UINT16 - 1) \X (0 .. UINT16 - 1)]
           \cup [fn : {"putpixel"}, c : 0 .. LEVELS - 1, bg : 0 .. LEVELS - 1, a : 0 .. LEVELS - 1]

\* A name has eight characters at most and an extension three: find_entry ends them
\* where the fields of the directory entry end.
ASSUME LibraryAssumption ==
  /\ NUL \notin Char
  /\ Jobs \subseteq Calls
  /\ \A j \in Jobs : j.fn = "format_entry" => Len(j.name) \in 1 .. 8 /\ Len(j.ext) \in 0 .. 3

LibraryInit == job \in Jobs

\* A job has no steps.
LibrarySpec == LibraryInit /\ [][FALSE]_job
-----------------------------------------------------------------------------
\* printf and itoa.
TextExact == job.fn = "printf" => PrintsPieces(job.pieces)

\* The names that find_entry compares.
EntryNamed == job.fn = "format_entry" => NamesEntry(job.name, job.ext)

\* The shapes, and the colours they are mixed with.
PicturesExact ==
  CASE job.fn = "ui_line" -> LineJoinsEnds(job.from, job.to)
    [] job.fn = "ui_triangle" -> TriangleIsFilled(<<job.a, job.b, job.c>>)
    [] job.fn = "ui_circle" -> CircleIsWhole(job.at[1], job.at[2], job.r)
    [] job.fn = "ui_draw" -> PictureIsCut(job.at[1], job.at[2], job.size[1], job.size[2])
    [] job.fn = "putpixel" -> MixesColour(job.c, job.bg, job.a)
    [] OTHER -> TRUE
=============================================================================
