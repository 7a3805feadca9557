---------------------------- MODULE Application ----------------------------
(***************************************************************************)
(* main of hello_world.c: it initialises the driver, writes the two        *)
(* registers of the controller, prints two texts and then echoes every     *)
(* line typed.  The driver runs within it, one action per turn of a loop.  *)
(***************************************************************************)
EXTENDS TextConsole

CONSTANT BufferSize   \* 200 in the code
ASSUME BufferAssumption == BufferSize \in Nat /\ BufferSize >= 2

VARIABLES
  main,      \* where main is
  fb_base,   \* base register: whether it has the frame buffer's address
  go,        \* control register, bit 0
  painted,   \* history: the frame buffer has been whitened and has the splash
  source,    \* what vprintln is given: "literal" or "typed"
  taken,     \* how many characters of a line vprintln has been through
  ended      \* the last of them was the \n that ends a line

appVars == <<main, fb_base, go, painted, source, taken, ended>>
allVars == <<vars, appVars>>

\* malloc will leave anything in the buffer, and vprintln_y_off is 0.
AppInit ==
  /\ main = "start"
  /\ fb_base = FALSE /\ go = FALSE /\ painted = FALSE
  /\ source = "literal" /\ taken = 0 /\ ended = FALSE
  /\ proc = "none" /\ x = 0 /\ y = 0 /\ x_off = 0 /\ y_off = 0
  /\ vprintln_y_off = 0
  /\ old \in {{}, Screen} /\ new = {} /\ drawn = {} /\ room = 0

\* de0_vga_init: memory is there, the screen is whitened and the logos are
\* drawn; the banner, which it draws last, is apart from the strings.
InitSucceeds ==
  /\ main = "start" /\ main' = "koeln"
  /\ old' = Splash /\ vprintln_y_off' = text_offset_y
  /\ UNCHANGED <<proc, x, y, x_off, y_off, new, drawn, room,
                 fb_base, go, painted, source, taken, ended>>

\* Its two strings, "Fachhochschule Koeln" and "Cologne University ...".
SplashCall ==
  /\ main \in {"koeln", "cologne"}
  /\ PutString
  /\ UNCHANGED appVars

SplashCharacter ==
  /\ \E g \in Glyphs : StringCharacter(g)
  /\ UNCHANGED appVars

\* de0_vga_init returns after the second one.
SplashEnd ==
  /\ StringEnd
  /\ main' = IF main = "koeln" THEN "cologne" ELSE "base"
  /\ painted' = (main = "cologne")
  /\ UNCHANGED <<fb_base, go, source, taken, ended>>

\* Out of memory: main says so and returns -1.
InitFails ==
  /\ main = "start" /\ main' = "oom"
  /\ UNCHANGED <<vars, fb_base, go, painted, source, taken, ended>>

WriteBase ==
  /\ main = "base" /\ main' = "go"
  /\ fb_base' = TRUE
  /\ UNCHANGED <<vars, go, painted, source, taken, ended>>

\* (Mutant: the registers in the opposite order.)
WriteGoFirst ==
  /\ main \in {"base", "go"} /\ main' = "started"
  /\ go' = TRUE
  /\ UNCHANGED <<vars, fb_base, painted, source, taken, ended>>

WriteGo ==
  /\ main = "go" /\ main' = "started"
  /\ go' = TRUE
  /\ UNCHANGED <<vars, fb_base, painted, source, taken, ended>>

\* printf returns.  Nothing says that it will: it writes to the JTAG UART, whose
\* driver waits for the host for ever when there is no timer (JtagUart).
AfterPrintf == [oom |-> "failed", started |-> "title",
                tell |-> "prompt", written |-> "tell"]
Printf ==
  /\ main \in DOMAIN AfterPrintf
  /\ main' = AfterPrintf[main]
  /\ UNCHANGED <<vars, fb_base, go, painted, source, taken, ended>>

\* fgets returns a line.  It does not return NULL: with no timer in the system
\* the JTAG UART driver waits for the host for ever (JtagUart).
Fgets ==
  /\ main = "prompt" /\ main' = "echo"
  /\ source' = "typed"
  /\ UNCHANGED <<vars, fb_base, go, painted, taken, ended>>

Call ==
  /\ main \in {"title", "greeting", "echo"}
  /\ VprintlnCall
  /\ taken' = 0 /\ ended' = FALSE
  /\ UNCHANGED <<main, fb_base, go, painted, source>>

\* fgets leaves at most BufferSize - 1 characters, a \n only as the last;
\* the literals fit the buffer too.
Take ==
  /\ taken < BufferSize - 1 /\ ~ended
  /\ taken' = taken + 1

TakeNewline ==
  /\ Newline /\ Take
  /\ ended' = (source = "typed")
  /\ UNCHANGED <<main, fb_base, go, painted, source>>

TakeCharacter ==
  /\ \E g \in Glyphs : Character(g)
  /\ Take
  /\ UNCHANGED <<main, fb_base, go, painted, source, ended>>

Finish == (EndOfText \/ Whiten) /\ UNCHANGED appVars

AfterPrint == [title |-> "greeting", greeting |-> "tell", echo |-> "written"]
PrintReturns ==
  /\ LineBreak
  /\ main' = AfterPrint[main]
  /\ UNCHANGED <<fb_base, go, painted, source, taken, ended>>

AppNext ==
  \/ InitSucceeds \/ SplashCall \/ SplashCharacter \/ SplashEnd
  \/ InitFails \/ WriteBase \/ WriteGo \/ Printf \/ Fgets
  \/ Call \/ TakeNewline \/ TakeCharacter \/ Finish \/ PrintReturns
\* No fairness: nobody needs to type, and nobody to read what printf writes.
AppSpec == AppInit /\ [][AppNext]_allVars
-----------------------------------------------------------------------------
\* The controller is never started on memory the driver has not painted or at
\* an address software has not given it.
GoOnlyReady == go => painted /\ fb_base

\* From the end of de0_vga_init on the screen is a page that main's texts are
\* written to one line after the other, from its first line; the splash stays.
Page == INSTANCE LinePrinter WITH
  Lines <- PageLines, ready <- painted,
  line <- LineShown, text <- TextShown, around <- AroundShown
PrintsLines == Page!Spec
=============================================================================
