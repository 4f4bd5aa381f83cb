------------------------------- MODULE Console -------------------------------
(***************************************************************************)
(* From a key to a command and to the screen: scan codes and the ring of   *)
(* Kernel/drivers/keyBoardDriver.c, the system calls read and write on the *)
(* terminal, Userland shell/shell.c (the prompt, readLine, the loop) and   *)
(* CommandParse.  The keyboard interrupts the shell anywhere; a turn of    *)
(* readLine's loop is a step, since only the ring is shared.               *)
(***************************************************************************)
EXTENDS Video, Text

CONSTANTS
  Keys,              \* keys that may be pressed, besides the modifiers
  BUFFER_SIZE,       \* bytes of the ring (256)
  MAX_LINE_LENGTH,   \* size of the shell's buffer (100)
  Commands,          \* names of commands
  External,          \* those that run as a process of their own
  NoEntry,           \* those of them that have no entry function for a pipeline
  ExitCommand,       \* the one that ends the shell
  Numbers,           \* what commands print
  MaxKeys,           \* bound: keys pressed
  MaxModifiers       \* bound: modifiers pressed or released

ASSUME ConsoleAssumption ==
  /\ BUFFER_SIZE \in Nat \ {0} /\ MAX_LINE_LENGTH \in Nat \ {0}
  /\ MAX_LINE_LENGTH < Width * Height
  /\ NoEntry \subseteq External /\ External \subseteq Commands \ {ExitCommand}

VARIABLES
  flags,     \* activeShift, activeCapsLock, activeCtrl
  ring,      \* buffer, readIndex, writeIndex, size
  queue,     \* history: the sequence of bytes that the ring stands for
  shell,     \* the line, and what the shell does: "reading", "command", "ended"
  screen,    \* the video driver's
  printed,   \* the number a command has printed last
  pressed    \* keys and modifiers so far

vars == <<flags, ring, queue, shell, screen, printed, pressed>>

-----------------------------------------------------------------------------
(* The keyboard *)

Index == 0..BUFFER_SIZE - 1

buffer_clear(r) == [r EXCEPT !.readIndex = 0, !.writeIndex = 0, !.size = 0]

buffer_full(r) == r.size = BUFFER_SIZE
buffer_empty(r) == r.size = 0

Follow(i) == (i + 1) % BUFFER_SIZE

\* Mutant: a full buffer takes the byte.
buffer_push_Overwrites(r, c) ==
  [r EXCEPT !.buffer[r.writeIndex] = c, !.writeIndex = Follow(@), !.size = @ + 1]

buffer_push(r, c) ==
  IF buffer_full(r) THEN r
  ELSE [r EXCEPT !.buffer[r.writeIndex] = c, !.writeIndex = Follow(@), !.size = @ + 1]

buffer_pop(r) ==
  IF buffer_empty(r) THEN r ELSE [r EXCEPT !.readIndex = Follow(@), !.size = @ - 1]

\* scancode_table: what a key gives alone and with shift.
scancode_table(key) ==
  CASE key = "c" -> <<"c", "C">> [] key = "d"     -> <<"d", "D">>
    [] key = "7" -> <<"7", "&">> [] key = "bar"   -> <<"|", "|">>
    [] key = "space" -> <<" ", " ">>
    [] key = "enter" -> <<"\n", "\n">>
    [] key = "backspace" -> <<"BS", "BS">>
    [] key = "tab" -> <<"\t", "\t">>

Upper(c) == CASE c = "c" -> "C" [] c = "d" -> "D" [] OTHER -> c

scToAscii(key) ==
  LET c == scancode_table(key)[IF flags.activeShift THEN 2 ELSE 1]
  IN  IF flags.activeCapsLock THEN Upper(c) ELSE c

EOT == "EOT"

\* A byte arrives: it is dropped when the buffer is full.
Push(c) ==
  /\ ring' = buffer_push(ring, c)
  /\ queue' = IF buffer_full(ring) THEN queue ELSE Append(queue, c)

\* The shell waits for a process in the foreground.
Waits ==
  /\ shell.state = "command"
  /\ \/ shell.cmd.kind = "pipeline"
     \/ /\ shell.cmd.kind = "command" /\ shell.cmd.args[1] \in External
        /\ ~shell.cmd.background

\* Ctrl+C kills that process, or else the shell.
Killed ==
  IF Waits THEN [shell EXCEPT !.cmd.kind = "killed"] ELSE [shell EXCEPT !.state = "ended"]

\* keyboard_interrupt_handler for the keys that give a character.  Ctrl+C kills
\* the foreground process, if there is one, and clears the buffer; Ctrl+D gives
\* the byte 0x04.
key_pressed(key) ==
  LET c == scToAscii(key)
      kills == flags.activeCtrl /\ c \in {"c", "C"}
      someone == shell.state # "ended"
  IN  /\ pressed.keys < MaxKeys
      /\ pressed' = [pressed EXCEPT !.keys = @ + 1]
      /\ CASE ~kills -> Push(IF flags.activeCtrl /\ c \in {"d", "D"} THEN EOT ELSE c)
           [] kills /\ someone ->
                ring' = buffer_clear(ring) /\ queue' = <<>>
           [] OTHER -> UNCHANGED <<ring, queue>>
      /\ shell' = IF kills /\ someone THEN Killed ELSE shell
      /\ UNCHANGED <<flags, screen, printed>>

\* updateFlags: shift and Ctrl while they are held, CapsLock toggles.
modifier(flag) ==
  /\ pressed.modifiers < MaxModifiers
  /\ pressed' = [pressed EXCEPT !.modifiers = @ + 1]
  /\ flags' = [flags EXCEPT ![flag] = ~@]
  /\ UNCHANGED <<ring, queue, shell, screen, printed>>

-----------------------------------------------------------------------------
(* The shell *)

Prompt == "$"

Shows(v, s) == FoldLeft(video_putChar, v, s)

\* shellPrompt, with a prompt of one character.
Prompted(v) == video_putChar(v, Prompt)

reading == shell.state = "reading" /\ ~buffer_empty(ring)

\* getchar: read one byte; read returns 0 for 0x04 and getchar asks again.
getchar(c) ==
  /\ reading /\ c = ring.buffer[ring.readIndex]
  /\ ring' = buffer_pop(ring) /\ queue' = Tail(queue)

ignores_eot ==
  /\ getchar(EOT) /\ UNCHANGED <<flags, shell, screen, printed, pressed>>

\* Mutant: the cursor stays behind the blank.
Rubout_NotBack == <<"BS", " ">>

Rubout == <<"BS", " ", "BS">>

\* readLine: a backspace takes the last character back, ...
erases ==
  /\ getchar("BS")
  /\ IF shell.line # <<>>
     THEN /\ shell' = [shell EXCEPT !.line = Front(@)]
          /\ screen' = Shows(screen, Rubout)
     ELSE UNCHANGED <<shell, screen>>
  /\ UNCHANGED <<flags, printed, pressed>>

\* ... other characters are stored and echoed while there is room, ...
types(c) ==
  /\ c \notin {EOT, "BS", "\n"} /\ getchar(c)
  /\ IF Len(shell.line) < MAX_LINE_LENGTH - 1
     THEN /\ shell' = [shell EXCEPT !.line = Append(@, c), !.tab = @ \/ c = "\t"]
          /\ screen' = video_putChar(screen, c)
     ELSE UNCHANGED <<shell, screen>>
  /\ UNCHANGED <<flags, printed, pressed>>

\* CommandParse: what is run, with which words, and whether in background.
NoCommand == [kind |-> "error", args |-> <<>>, right |-> <<>>, background |-> FALSE]

Refused == [NoCommand EXCEPT !.kind = "refused"]

Background(args) == args # <<>> /\ Last(args) = <<"&">>

\* Both sides have words, and neither ends with `&'.
Pipeable(left, right) ==
  \A args \in {left, right} : args # <<>> /\ ~Background(args)

find_command_index(args) == args[1] \in Commands

is_builtin(args) == args[1] \notin External

get_process_entry_function(args) == args[1] \notin NoEntry

\* execute_pipeline up to the creation of the processes.
execute_pipeline(left_input, right_input) ==
  LET left  == fillCommandAndArgs(left_input)
      right == fillCommandAndArgs(right_input)
  IN  IF ~Pipeable(left, right) THEN Refused
      ELSE IF \E args \in {left, right} : ~find_command_index(args) THEN NoCommand
      ELSE IF \E args \in {left, right} : is_builtin(args) THEN Refused
      ELSE IF \E args \in {left, right} : ~get_process_entry_function(args) THEN Refused
      ELSE [kind |-> "pipeline", args |-> left, right |-> right, background |-> FALSE]

CommandParse(input) ==
  LET bar   == FirstIndex(input, LAMBDA c : c = "|")
      after == SubSeq(input, bar + 1, Len(input))
      args  == fillCommandAndArgs(input)
      words == IF Background(args) THEN Front(args) ELSE args
  IN  IF bar <= Len(input)
      THEN IF contains_pipe_symbol(after) THEN Refused
           ELSE execute_pipeline(SubSeq(input, 1, bar - 1), after)
      ELSE IF words = <<>> \/ words[1] \notin Commands THEN NoCommand
      ELSE [kind |-> "command", args |-> words, right |-> <<>>,
            background |-> Background(args)]

\* ... and a newline ends the line.  The loop of the shell prompts again for an
\* empty line, and otherwise parses it in lower case.
ends ==
  /\ getchar("\n")
  /\ LET line == [i \in 1..Len(shell.line) |-> Lower(shell.line[i])]
         below == video_putChar(screen, "\n")
     IN  IF line = <<>>
         THEN /\ screen' = Prompted(below)
              /\ shell' = [shell EXCEPT !.tab = FALSE]
         ELSE /\ screen' = below
              /\ shell' = [state |-> "command", line |-> line, tab |-> FALSE,
                           cmd |-> CommandParse(line)]
  /\ UNCHANGED <<flags, printed, pressed>>

Prompts(v) ==
  /\ screen' = Prompted(video_putChar(v, "\n"))
  /\ shell' = [state |-> "reading", line |-> <<>>, tab |-> FALSE, cmd |-> NoCommand]

\* Nothing of that name, or not a pipeline: a message.
fails ==
  /\ shell.state = "command" /\ shell.cmd.kind \in {"error", "refused"}
  /\ Prompts(video_putChar(screen, "?"))
  /\ UNCHANGED <<flags, ring, queue, printed, pressed>>

InBackground ==
  shell.cmd.kind = "command" /\ shell.cmd.background /\ shell.cmd.args[1] \in External

\* A command runs and prints a number, with printf or through sprintf.
runs(n) ==
  /\ shell.state = "command" /\ shell.cmd.kind \in {"command", "pipeline"}
  /\ shell.cmd.args[1] # ExitCommand /\ ~InBackground
  /\ printed' = n
  /\ Prompts(Shows(screen, printf_d(n)))
  /\ UNCHANGED <<flags, ring, queue, pressed>>

\* The shell goes on at once beside a process in the background (what that one
\* prints is left out), or because the process it waited for was killed.
goes_on ==
  /\ shell.state = "command" /\ (InBackground \/ shell.cmd.kind = "killed")
  /\ Prompts(screen)
  /\ UNCHANGED <<flags, ring, queue, printed, pressed>>

exits ==
  /\ shell.state = "command" /\ shell.cmd.kind = "command"
  /\ shell.cmd.args[1] = ExitCommand
  /\ shell' = [shell EXCEPT !.state = "ended"]
  /\ screen' = video_clearScreen(screen)
  /\ UNCHANGED <<flags, ring, queue, printed, pressed>>

-----------------------------------------------------------------------------
Init ==
  /\ flags = [activeShift |-> FALSE, activeCapsLock |-> FALSE, activeCtrl |-> FALSE]
  /\ ring = [buffer |-> [i \in Index |-> NUL], readIndex |-> 0, writeIndex |-> 0, size |-> 0]
  /\ queue = <<>>
  /\ shell = [state |-> "reading", line |-> <<>>, tab |-> FALSE, cmd |-> NoCommand]
  /\ screen = Prompted(EmptyScreen)
  /\ printed = 0
  /\ pressed = [keys |-> 0, modifiers |-> 0]

Next ==
  \/ \E key \in Keys : key_pressed(key)
  \/ \E flag \in DOMAIN flags : modifier(flag)
  \/ ignores_eot \/ erases \/ ends \/ fails \/ goes_on \/ exits
  \/ reading /\ types(ring.buffer[ring.readIndex])
  \/ \E n \in Numbers : runs(n)

Spec == Init /\ [][Next]_vars

-----------------------------------------------------------------------------
\* The ring holds the bytes that were accepted and not read yet, in their
\* order, wherever its indices are: it is the sequence of module Keyboard.
RingIsSequence ==
  /\ ring.size = Len(queue)
  /\ \A i \in 1..Len(queue) :
       queue[i] = ring.buffer[(ring.readIndex + i - 1) % BUFFER_SIZE]

\* What was typed is on the screen: before the cursor stand the prompt and
\* the characters of the line buffer, across the ends of the screen's lines
\* and after scrolling, and nothing stands behind it.  Tabs are left out: the
\* cursor goes back over a tab by one position only.
LineIsShown ==
  LET Here == screen.cursorY * Width + screen.cursorX
      Shown(pos) == screen.cell[pos \div Width][pos % Width]
      text == <<Prompt>> \o shell.line
  IN  shell.state = "reading" /\ ~shell.tab =>
        /\ \A i \in 1..Len(text) :
             LET pos == Here - 1 - (Len(text) - i)
             IN  pos >= 0 => Shown(pos) = text[i]
        /\ \A pos \in Here..Width * Height - 1 : Shown(pos) = Blank

\* Where words begin, and the word that begins at i.
Begins(line) == {i \in 1..Len(line) : line[i] # " " /\ (i > 1 => line[i - 1] = " ")}
WordAt(line, i) ==
  SubSeq(line, i, i - 2 + FirstIndex(SubSeq(line, i, Len(line)), LAMBDA c : c = " "))

\* The words of a line, in their order and whatever the spaces between them;
\* only the last one of MAX_ARGS takes the rest of the line with it.
Words(line) ==
  LET starts == SetToSortSeq(Begins(line), <)
  IN  [n \in 1..(IF Len(starts) < MAX_ARGS THEN Len(starts) ELSE MAX_ARGS) |->
         IF n < MAX_ARGS THEN WordAt(line, starts[n]) ELSE SubSeq(line, starts[n], Len(line))]

\* A command gets the words of the line, all but for a last `&'.  The sides of
\* a pipeline get the words before and after its only `|', and a pipeline with
\* an empty side, a `&' or a command that the shell runs itself is not started.
ArgsAreWords ==
  LET line == shell.line
      cmd  == shell.cmd
      bars == {i \in 1..Len(line) : line[i] = "|"}
  IN  shell.state = "command" =>
        /\ bars = {} => fillCommandAndArgs(line) = Words(line)
        /\ cmd.kind = "command" =>
             /\ bars = {}
             /\ Words(line) = IF cmd.background THEN Append(cmd.args, <<"&">>) ELSE cmd.args
        /\ cmd.kind = "pipeline" =>
             \E bar \in bars :
               /\ bars = {bar}
               /\ cmd.args = Words(SubSeq(line, 1, bar - 1))
               /\ cmd.right = Words(SubSeq(line, bar + 1, Len(line)))
               /\ \A side \in {cmd.args, cmd.right} :
                    side[1] \in External /\ side[Len(side)] # <<"&">>

\* A number that is written with printf or sprintf is read back by atoi, the
\* way `mvar' hands numbers to its processes: up to both ends of the range
\* for sprintf, but not the smallest one for printf.
NumbersAreReadBack ==
  /\ printed # IntMin => atoi(printf_d(printed)) = printed
  /\ atoi(append_signed_to_str(printed)) = printed

=============================================================================
