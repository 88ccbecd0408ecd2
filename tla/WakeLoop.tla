------------------------------ MODULE WakeLoop ------------------------------
(***************************************************************************)
(* wake's loop over its working set (verbs/wakeverb): draft each session   *)
(* through the endpoint, then either a person disposes of the draft over a *)
(* menu read from stdin (interactive.go) or --auto accepts it by length    *)
(* (auto.go). A session's state in the journal is one value here: curate   *)
(* and dismiss are one step each (StateVerbs has their steps), and other   *)
(* processes may run them meanwhile. Drafting and curating happen in the   *)
(* loop's own goroutine: a call is the caller Main's.                      *)
(***************************************************************************)
EXTENDS Progress, LlmCall, FiniteSets, Sequences

CONSTANTS Main,         \* the caller of wake's and brief's calls
          Rows,         \* the working set, in order: session names
          MaxPromotions,\* bound: sections promoted into one entry
          MaxOthers     \* bound: verbs of other processes

ASSUME MainAssumption == Main \in Callers
ASSUME RowsAssumption ==
    /\ Rows \in Seq({Rows[i] : i \in DOMAIN Rows})
    /\ \A i, j \in DOMAIN Rows : Rows[i] = Rows[j] => i = j
ASSUME BoundsAssumption == MaxPromotions \in Nat /\ MaxOthers \in Nat

Working == {Rows[i] : i \in DOMAIN Rows}

VARIABLES wake,     \* where the loop is: its row, and the draft's parts
          tally,    \* wakeverb.Summary
          journal,  \* journal[s]: the session's state on disk
          wrote,    \* history: what this run wrote for each session
          others    \* verbs of other processes, for their bound

wakeVars == <<wake, tally, journal, wrote, others>>

\* Where the loop waits for a line of input.
Asking == {"menu", "feedback", "promote"}
Wake == [at : Asking \cup {"off", "row", "draft", "redraft", "measure", "write",
                           "done", "aborted"},
         row : 1..(Len(Rows) + 1), sections : 0..MaxPromotions,
         auto : BOOLEAN, input : BOOLEAN]

Tally0 == [considered |-> Len(Rows), drafted |-> 0, accepted |-> 0,
           dismissed |-> 0, skipped |-> 0, below |-> 0, failed |-> 0,
           promoted |-> 0]
Summary == [considered : {Len(Rows)}, drafted : 0..Len(Rows),
            accepted : 0..Len(Rows), dismissed : 0..Len(Rows),
            skipped : 0..Len(Rows), below : 0..Len(Rows), failed : 0..Len(Rows),
            promoted : 0..(Len(Rows) * MaxPromotions)]

\* "captured" and a stale entry are the working set; "curated" is a fresh one.
States == {"captured", "stale", "curated", "dismissed"}

WakeInit(at, auto) ==
    /\ wake = [at |-> at, row |-> 1, sections |-> 0, auto |-> auto, input |-> TRUE]
    /\ tally = Tally0
    /\ journal \in [Working -> IF at = "off" THEN {"captured"} ELSE {"captured", "stale"}]
    /\ wrote = [s \in Working |-> "nothing"]
    /\ others = 0

Session == Rows[wake.row]
To(at) == [wake EXCEPT !.at = at]
NextRow == [wake EXCEPT !.at = "row", !.row = @ + 1, !.sections = 0]
Untouched == UNCHANGED <<journal, wrote, others, cancelled>>

\* The header of a row, in the interactive mode, and then the status line;
\* the transcript may be unreadable, and then no call is made.
BeginRow ==
    /\ wake.at = "row" /\ wake.row <= Len(Rows)
    /\ line' = Status(IF wake.auto THEN line ELSE Say(line))
    /\ call' \in {[call EXCEPT ![Main] = Complete(Main)],
                  [call EXCEPT ![Main] = [NoCall EXCEPT !.at = "over",
                                                        !.verdict = "refused"]]}
    /\ wake' = To("draft")
    /\ UNCHANGED tally /\ Untouched

EndRows ==
    /\ wake.at = "row" /\ wake.row > Len(Rows)
    /\ wake' = To("done")
    /\ UNCHANGED <<line, call, tally>> /\ Untouched

\* A draft that failed is skipped, with a diagnostic.
DraftFails ==
    /\ wake.at \in {"draft", "redraft"} /\ Over(Main)
    /\ call[Main].verdict # "ok"
    /\ line' = Say(Clear(line))
    /\ call' = [call EXCEPT ![Main] = NoCall]
    /\ tally' = [tally EXCEPT !.skipped = @ + 1,
                              !.failed = @ + IF wake.auto THEN 1 ELSE 0]
    /\ wake' = NextRow
    /\ Untouched

Drafts ==
    /\ wake.at \in {"draft", "redraft"} /\ Over(Main)
    /\ call[Main].verdict = "ok"
    /\ line' = IF wake.auto THEN Clear(line) ELSE Say(Clear(line))
    /\ call' = [call EXCEPT ![Main] = NoCall]
    /\ tally' = [tally EXCEPT !.drafted = @ + IF wake.at = "draft" THEN 1 ELSE 0]
    /\ wake' = To(IF wake.auto THEN "measure" ELSE "menu")
    /\ Untouched

\* --auto: the length guard.
Measure ==
    /\ wake.at = "measure"
    /\ \/ tally' = [tally EXCEPT !.skipped = @ + 1, !.below = @ + 1] /\ wake' = NextRow
       \/ UNCHANGED tally /\ wake' = To("write")
    /\ UNCHANGED <<line, call>> /\ Untouched

\* The menu: a prompt is on the screen, a line of input answers it.
Answers(at) == wake.at = at /\ wake.input

ChooseAccept ==
    /\ Answers("menu")
    /\ wake' = To("promote")
    /\ line' = Say(line)
    /\ UNCHANGED <<call, tally>> /\ Untouched

ChooseSkip ==
    /\ Answers("menu")
    /\ wake' = NextRow
    /\ tally' = [tally EXCEPT !.skipped = @ + 1]
    /\ UNCHANGED <<line, call>> /\ Untouched

ChooseEdit ==
    /\ Answers("menu")
    /\ wake' = To("feedback")
    /\ line' = Say(line)
    /\ UNCHANGED <<call, tally>> /\ Untouched

Feedback ==
    /\ Answers("feedback")
    /\ wake' = To("redraft")
    /\ line' = Status(line)
    /\ call' = [call EXCEPT ![Main] = Complete(Main)]
    /\ UNCHANGED tally /\ Untouched

\* A session with an entry is not dismissed but skipped, with a diagnostic.
ChooseDismiss ==
    /\ Answers("menu")
    /\ IF journal[Session] \in {"captured", "dismissed"}
       THEN /\ journal' = [journal EXCEPT ![Session] = "dismissed"]
            /\ wrote' = [wrote EXCEPT ![Session] = "dismissal"]
            /\ tally' = [tally EXCEPT !.dismissed = @ + 1]
            /\ UNCHANGED line
       ELSE /\ line' = Say(line)
            /\ tally' = [tally EXCEPT !.skipped = @ + 1]
            /\ UNCHANGED <<journal, wrote>>
    /\ wake' = NextRow
    /\ UNCHANGED <<call, others, cancelled>>

\* Promotion folds sections into the entry until the person has enough.
Promote ==
    /\ Answers("promote")
    /\ wake.sections < MaxPromotions
    /\ wake' = [wake EXCEPT !.sections = @ + 1]
    /\ tally' = [tally EXCEPT !.promoted = @ + 1]
    /\ line' = Say(line)
    /\ UNCHANGED call /\ Untouched

EnoughPromoted ==
    /\ wake.at = "promote"
    /\ wake' = To("write")
    /\ UNCHANGED <<line, call, tally>> /\ Untouched

\* Input ends. At the menu the run stops and every row from this one on is
\* skipped; asked for feedback, this row is; promoting, the entry is written.
\* Mutant: this row is not counted.
EndMenuShort ==
    /\ wake.at = "menu" /\ ~wake.input
    /\ wake' = To("done")
    /\ tally' = [tally EXCEPT !.skipped = @ + Len(Rows) - wake.row]
    /\ line' = Say(line)
    /\ UNCHANGED call /\ Untouched

EndMenu ==
    /\ wake.at = "menu" /\ ~wake.input
    /\ wake' = To("done")
    /\ tally' = [tally EXCEPT !.skipped = @ + Len(Rows) - (wake.row - 1)]
    /\ line' = Say(line)
    /\ UNCHANGED call /\ Untouched

EndFeedback ==
    /\ wake.at = "feedback" /\ ~wake.input
    /\ wake' = NextRow
    /\ tally' = [tally EXCEPT !.skipped = @ + 1]
    /\ UNCHANGED <<line, call>> /\ Untouched

CloseInput ==
    /\ wake.at \in Asking /\ wake.input
    /\ wake' = [wake EXCEPT !.input = FALSE]
    /\ UNCHANGED <<line, call, tally>> /\ Untouched

\* curate takes every state; a write that fails ends the run with no tally.
WriteEntry ==
    /\ wake.at = "write"
    /\ journal' = [journal EXCEPT ![Session] = "curated"]
    /\ wrote' = [wrote EXCEPT ![Session] = "entry"]
    /\ tally' = [tally EXCEPT !.accepted = @ + 1]
    /\ wake' = NextRow
    /\ UNCHANGED <<line, call, others, cancelled>>

AbortWake ==
    /\ wake.at = "write" \/ Answers("menu")
    /\ wake' = To("aborted")
    /\ UNCHANGED <<line, call, tally>> /\ Untouched

\* Another process's capture, curate, dismiss or undismiss.
OtherVerb(s) ==
    /\ others < MaxOthers
    /\ others' = others + 1
    /\ \E state \in States :
         /\ \/ state = "curated"
            \/ state = "stale" /\ journal[s] = "curated"
            \/ state = "dismissed" /\ journal[s] = "captured"
            \/ state = "captured" /\ journal[s] = "dismissed"
         /\ journal' = [journal EXCEPT ![s] = state]
    /\ UNCHANGED <<line, call, cancelled, wake, tally, wrote>>

Person == ChooseAccept \/ ChooseSkip \/ ChooseEdit \/ ChooseDismiss \/ Feedback
          \/ Promote \/ CloseInput
WakeStep == BeginRow \/ EndRows \/ DraftFails \/ Drafts \/ Measure
            \/ EnoughPromoted \/ EndMenu \/ EndFeedback \/ WriteEntry \/ AbortWake
=============================================================================
