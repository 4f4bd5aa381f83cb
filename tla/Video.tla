-------------------------------- MODULE Video --------------------------------
(***************************************************************************)
(* Kernel/drivers/videoDriver.c: text on the frame buffer.  fontScale is   *)
(* never changed and the mode is a whole number of characters wide and     *)
(* high, so that positions are counted in characters, and what the pixels  *)
(* of one position show is the character drawn there last.                 *)
(***************************************************************************)
EXTENDS Integers

CONSTANTS
  Width, Height,   \* of the screen, in characters (128 x 48)
  TabStep          \* 8

ASSUME VideoAssumption ==
  Width \in Nat \ {0} /\ Height \in Nat \ {0} /\ TabStep \in Nat \ {0}

Column == 0..Width - 1
Line == 0..Height - 1

\* A position that shows the background.
Blank == " "

EmptyScreen ==
  [cell |-> [y \in Line |-> [x \in Column |-> Blank]], cursorX |-> 0, cursorY |-> 0]

\* Mutant: the last line keeps its contents.
video_scrollUp_NotCleared(v) ==
  [v EXCEPT !.cell = [y \in Line |-> IF y < Height - 1 THEN v.cell[y + 1] ELSE v.cell[y]]]

video_scrollUp(v) ==
  [v EXCEPT !.cell = [y \in Line |-> IF y < Height - 1 THEN v.cell[y + 1]
                                     ELSE [x \in Column |-> Blank]]]

video_newLine(v) ==
  IF v.cursorY + 1 < Height
  THEN [v EXCEPT !.cursorX = 0, !.cursorY = @ + 1]
  ELSE [video_scrollUp(v) EXCEPT !.cursorX = 0, !.cursorY = Height - 1]

video_moveCursorLeft(v) ==
  IF v.cursorX >= 1 THEN [v EXCEPT !.cursorX = @ - 1]
  ELSE IF v.cursorY >= 1 THEN [v EXCEPT !.cursorX = Width - 1, !.cursorY = @ - 1]
  ELSE v

Erased(v) == [v EXCEPT !.cell[v.cursorY][v.cursorX] = Blank]

\* Nothing is erased where the cursor cannot move.
video_backSpace(v) ==
  IF v.cursorX = 0 /\ v.cursorY = 0 THEN v ELSE Erased(video_moveCursorLeft(v))

\* newLine if the cursor has passed the right edge.
Wrapped(v) == IF v.cursorX >= Width THEN video_newLine(v) ELSE v

video_tab(v) == Wrapped([v EXCEPT !.cursorX = ((@ \div TabStep) + 1) * TabStep])

video_putChar(v, c) ==
  CASE c = "\n" -> video_newLine(v)
    [] c = "BS" -> video_backSpace(v)
    [] c = "\t" -> video_tab(v)
    [] OTHER    -> Wrapped([v EXCEPT !.cell[v.cursorY][v.cursorX] = c, !.cursorX = @ + 1])

video_clearScreen(v) == EmptyScreen

=============================================================================
