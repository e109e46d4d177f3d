------------------------------ MODULE Terminal ------------------------------
(***************************************************************************)
(* The text cursor of kernel/sys/io.c: putchar, new_line and backspace.    *)
(*                                                                         *)
(* main prints with interrupts enabled, one access to the cursor a step.   *)
(* The keyboard's handler echoes keys, and programs call write and error,  *)
(* with interrupts disabled: what they do to the cursor is one step, and   *)
(* it can come between any two steps of main.  The colour and the shape of *)
(* the glyphs are left out: every pixel of a glyph is drawn.               *)
(***************************************************************************)
EXTENDS Integers

CONSTANTS FONT_WIDTH, FONT_HEIGHT,  \* the size of a glyph
          SCR_WIDTH, SCR_HEIGHT,    \* and of the screen
          MAX_X,                    \* bound: how far to the right the cursor may run
          MAX_UP                    \* bound: and how far up

ASSUME TerminalAssumption ==
  /\ {FONT_WIDTH, FONT_HEIGHT, SCR_WIDTH, SCR_HEIGHT} \subseteq Nat \ {0}
  /\ FONT_HEIGHT <= SCR_HEIGHT
  /\ SCR_WIDTH % FONT_WIDTH = 0
  /\ MAX_X \in Nat
  /\ MAX_UP \in Nat

VARIABLES scr_x, scr_y,
          pc,       \* the next access that main makes in putchar
          dots,     \* the pixels of its glyph that it has drawn
          reg,      \* what it has loaded
          drawn,    \* history: the pixels drawn in the last step
          trouble   \* history: what has happened to the row since it was begun

terminal == <<scr_x, scr_y, pc, dots, reg, drawn, trouble>>

TerminalInit == /\ scr_x = 0
                /\ scr_y = 0
                /\ pc = "idle"
                /\ dots = 0
                /\ reg = 0
                /\ drawn = {}
                /\ trouble = {}

\* main is between the two assignments to the row in new_line.
InNewLine == pc \in {"zeroX", "testY", "loadUp", "storeUp"}

GlyphSize == FONT_WIDTH * FONT_HEIGHT

\* Pixel n of the glyph at the cursor.
Dot(n) == [x |-> scr_x + (n % FONT_WIDTH), y |-> scr_y + (n \div FONT_WIDTH)]

\* Mutant: a row is begun that only its first line of pixels fits in.
TooLow_LastLine(y) == y > SCR_HEIGHT - 1

TooLow(y) == y > SCR_HEIGHT - FONT_HEIGHT

\* Mutant: the edge is noticed only when it has been crossed.
AtEdge_Crossed(x) == x > SCR_WIDTH

AtEdge(x) == x = SCR_WIDTH
-----------------------------------------------------------------------------
(* What is done with interrupts disabled. *)

new_line == /\ scr_y' = IF TooLow(scr_y + FONT_HEIGHT) THEN scr_y ELSE scr_y + FONT_HEIGHT
            /\ scr_x' = 0

\* main holds a column of the row before, and will store it.
Stale == pc = "storeX"

\* '\n' is echoed or written.
Newline == /\ new_line
           /\ drawn' = {}
           /\ trouble' = IF Stale THEN trouble ELSE {}
           /\ UNCHANGED <<pc, dots, reg>>

\* putchar
Letter == /\ scr_x < MAX_X
          /\ drawn' = {Dot(n) : n \in 0 .. GlyphSize - 1}
          /\ \/ AtEdge(scr_x + FONT_WIDTH) /\ new_line
             \/ ~ AtEdge(scr_x + FONT_WIDTH) /\ scr_x' = scr_x + FONT_WIDTH /\ scr_y' = scr_y
          /\ trouble' = IF AtEdge(scr_x) THEN trouble \cup {"skipped"} ELSE trouble
          /\ UNCHANGED <<pc, dots, reg>>

CanGoBack == scr_y # 0

\* A step back is a pixel, to the left or from the edge of the line of pixels above.
backspace == /\ scr_y + MAX_UP >= 0
             /\ \/ CanGoBack /\ scr_x = 0 /\ scr_x' = SCR_WIDTH - 1 /\ scr_y' = scr_y - 1
                \/ CanGoBack /\ scr_x # 0 /\ scr_x' = scr_x - 1 /\ scr_y' = scr_y
                \/ ~ CanGoBack /\ UNCHANGED <<scr_x, scr_y>>
             /\ drawn' = {}
             /\ trouble' = IF CanGoBack THEN trouble \cup {"erased"} ELSE trouble
             /\ UNCHANGED <<pc, dots, reg>>
-----------------------------------------------------------------------------
(* putchar, as main runs it. *)

Goes(from, to) == pc = from /\ pc' = to

\* The next character of puts or printf.
puts == /\ \/ scr_x < MAX_X /\ Goes("idle", "draw")
           \/ Goes("idle", "loadY")
        /\ dots' = 0
        /\ drawn' = {}
        /\ UNCHANGED <<scr_x, scr_y, reg, trouble>>

\* putpixel, at where the cursor is now.
Draw == /\ dots' = dots + 1
        /\ drawn' = {Dot(dots)}
        /\ Goes("draw", IF dots' = GlyphSize THEN "loadX" ELSE "draw")
        /\ UNCHANGED <<scr_x, scr_y, reg, trouble>>

\* scr_x += FONT_WIDTH
LoadX == /\ Goes("loadX", "storeX")
         /\ reg' = scr_x
         /\ drawn' = {}
         /\ UNCHANGED <<scr_x, scr_y, dots, trouble>>

StoreX == /\ Goes("storeX", "testX")
          /\ scr_x' = reg + FONT_WIDTH
          /\ drawn' = {}
          /\ UNCHANGED <<scr_y, dots, reg, trouble>>

TestX == /\ Goes("testX", IF AtEdge(scr_x) THEN "loadY" ELSE "idle")
         /\ drawn' = {}
         /\ UNCHANGED <<scr_x, scr_y, dots, reg, trouble>>

\* scr_y += FONT_HEIGHT
LoadY == /\ Goes("loadY", "storeY")
         /\ reg' = scr_y
         /\ drawn' = {}
         /\ UNCHANGED <<scr_x, scr_y, dots, trouble>>

StoreY == /\ Goes("storeY", "zeroX")
          /\ scr_y' = reg + FONT_HEIGHT
          /\ drawn' = {}
          /\ UNCHANGED <<scr_x, dots, reg, trouble>>

ZeroX == /\ Goes("zeroX", "testY")
         /\ scr_x' = 0
         /\ drawn' = {}
         /\ trouble' = {}
         /\ UNCHANGED <<scr_y, dots, reg>>

TestY == /\ Goes("testY", IF TooLow(scr_y) THEN "loadUp" ELSE "idle")
         /\ drawn' = {}
         /\ UNCHANGED <<scr_x, scr_y, dots, reg, trouble>>

\* scr_y -= FONT_HEIGHT; swipe_term moves the picture.
LoadUp == /\ Goes("loadUp", "storeUp")
          /\ reg' = scr_y
          /\ drawn' = {}
          /\ UNCHANGED <<scr_x, scr_y, dots, trouble>>

StoreUp == /\ Goes("storeUp", "idle")
           /\ scr_y' = reg - FONT_HEIGHT
           /\ drawn' = {}
           /\ UNCHANGED <<scr_x, dots, reg, trouble>>

main == \/ puts \/ Draw \/ LoadX \/ StoreX \/ TestX
        \/ LoadY \/ StoreY \/ ZeroX \/ TestY \/ LoadUp \/ StoreUp

TerminalNext == main \/ Newline \/ Letter \/ backspace

TerminalSpec == TerminalInit /\ [][TerminalNext]_terminal
-----------------------------------------------------------------------------
TerminalTypeOK == /\ scr_x \in Nat
                  /\ scr_y \in Int
                  /\ pc \in {"idle", "draw", "loadX", "storeX", "testX", "loadY", "storeY", "zeroX",
                             "testY", "loadUp", "storeUp"}
                  /\ dots \in 0 .. GlyphSize
                  /\ reg \in Int
                  /\ drawn \subseteq [x : Nat, y : Int]
                  /\ trouble \subseteq {"erased", "skipped"}

\* Whoever prints, erases or begins a row while main is in the middle of doing so:
\* once main has left new_line, the row at the cursor does not end below the screen.
RowOnScreen == ~ InNewLine => scr_y + FONT_HEIGHT <= SCR_HEIGHT

\* No glyph is drawn beside the screen, unless since the row was begun a key was
\* erased or something was printed at the edge, before main's test for it; nor
\* below it, unless it is printed while main is in new_line.
TextOnScreen ==
  \A p \in drawn : /\ p.x < SCR_WIDTH \/ trouble # {}
                   /\ p.y < SCR_HEIGHT \/ InNewLine
=============================================================================
