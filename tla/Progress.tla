------------------------------ MODULE Progress ------------------------------
(***************************************************************************)
(* The status line (internal/progress): one mutex around every operation,  *)
(* a goroutine that redraws the line on every tick, and a verb that prints *)
(* on the same terminal. Each operator below is one critical section, as a *)
(* function from the reporter's state to the next; what the line says is   *)
(* left out, and with it the phases an llm.Observer reports: they change   *)
(* the text of the next drawing and never draw. The reporter is on: where  *)
(* New returns nil (no terminal, --json) every operation does nothing.     *)
(***************************************************************************)
EXTENDS Integers

VARIABLE line   \* the reporter, and the terminal line it draws on

Line == [active : BOOLEAN, drawn : BOOLEAN, stopped : BOOLEAN,
         loop : {"none", "running", "told", "done"},  \* told: quit is closed
         screen : {"clean", "status"},  \* what the cursor's line holds
         smeared : BOOLEAN]             \* text was written over a status line

LineInit ==
    line = [active |-> FALSE, drawn |-> FALSE, stopped |-> FALSE,
            loop |-> "none", screen |-> "clean", smeared |-> FALSE]

Draw(r) ==
    IF r.active /\ ~r.stopped THEN [r EXCEPT !.drawn = TRUE, !.screen = "status"]
    ELSE r

Status(r) ==
    IF r.stopped THEN r
    ELSE Draw([r EXCEPT !.active = TRUE,
                        !.loop = IF @ = "none" THEN "running" ELSE @])

\* Mutant: the line is erased and goes on being drawn.
ClearKeepsDrawing(r) ==
    [r EXCEPT !.screen = IF r.drawn THEN "clean" ELSE @, !.drawn = FALSE]

Clear(r) ==
    [r EXCEPT !.screen = IF r.drawn THEN "clean" ELSE @,
              !.drawn = FALSE, !.active = FALSE]

\* Mutant: the draw goroutine is not told.
StopSilently(r) == [Clear(r) EXCEPT !.stopped = TRUE]

Stop(r) ==
    [Clear(r) EXCEPT !.stopped = TRUE,
                     !.loop = IF @ = "running" THEN "told" ELSE @]

\* Stop returns once the goroutine it launched has.
Joined(r) == r.loop \in {"none", "done"}

\* Text the verb itself writes to the terminal.
Say(r) ==
    [r EXCEPT !.smeared = @ \/ r.screen = "status", !.screen = "clean"]

\* The draw goroutine: a tick, or the end. After quit is closed a tick may
\* still win the select; it draws nothing.
Tick ==
    /\ line.loop \in {"running", "told"}
    /\ line' = Draw(line)

Quit ==
    /\ line.loop = "told"
    /\ line' = [line EXCEPT !.loop = "done"]
=============================================================================
