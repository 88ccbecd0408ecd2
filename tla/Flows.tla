------------------------------- MODULE Flows -------------------------------
(***************************************************************************)
(* The three verbs that call the endpoint - wake, brief, retro - as one    *)
(* process: the verb, its calls, the status line's goroutine and the       *)
(* terminal they share. The verb is chosen at the start.                   *)
(***************************************************************************)
EXTENDS RetroPool, WakeLoop

VARIABLES verb,    \* the verb that runs
          main,    \* its command: "run", then "print", "stop", "wait", "end"
          outcome  \* what it returns

vars == <<line, call, cancelled, pool, worker, cache, wakeVars, verb, main, outcome>>
poolVars == <<pool, worker, cache>>
Verbs == {"wake", "auto", "brief", "retro"}

Init ==
    /\ LineInit /\ CallInit
    /\ verb \in Verbs
    /\ \E refresh \in IF verb = "retro" THEN BOOLEAN ELSE {FALSE} : PoolInit(refresh)
    /\ verb # "retro" => cache = {}
    /\ WakeInit(IF verb \in {"wake", "auto"} THEN "row" ELSE "off", verb = "auto")
    /\ main = "run"
    /\ outcome = "none"

\* brief: one call under the status line, cleared before any output.
BeginBrief ==
    /\ verb = "brief" /\ main = "run" /\ call[Main].at = "none"
    /\ line' = Status(line)
    /\ call' = [call EXCEPT ![Main] = Complete(Main)]
    /\ UNCHANGED <<cancelled, poolVars, wakeVars, verb, main, outcome>>

EndBrief ==
    /\ verb = "brief" /\ main = "run" /\ Over(Main)
    /\ line' = Clear(line)
    /\ outcome' = call[Main].verdict
    /\ main' = IF outcome' = "ok" THEN "print" ELSE "stop"
    /\ UNCHANGED <<call, cancelled, poolVars, wakeVars, verb>>

EndRetro ==
    /\ verb = "retro" /\ main = "run" /\ pool.at = "done"
    /\ outcome' = IF pool.error = "none" THEN "ok" ELSE pool.error
    /\ main' = IF outcome' = "ok" THEN "print" ELSE "stop"
    /\ UNCHANGED <<line, call, cancelled, poolVars, wakeVars, verb>>

EndWake ==
    /\ verb \in {"wake", "auto"} /\ main = "run"
    /\ wake.at \in {"done", "aborted"}
    /\ outcome' = IF wake.at = "done" THEN "ok" ELSE "write failed"
    /\ main' = IF outcome' = "ok" THEN "print" ELSE "stop"
    /\ UNCHANGED <<line, call, cancelled, poolVars, wakeVars, verb>>

\* The verb's document or summary, on a terminal that may be the same one.
PrintOut ==
    /\ main = "print"
    /\ line' = Say(line)
    /\ main' = "stop"
    /\ UNCHANGED <<call, cancelled, poolVars, wakeVars, verb, outcome>>

\* The deferred Stop: it ends the drawing, and waits for the goroutine.
StopLine ==
    /\ main = "stop"
    /\ line' = Stop(line)
    /\ main' = "wait"
    /\ UNCHANGED <<call, cancelled, poolVars, wakeVars, verb, outcome>>

Exit ==
    /\ main = "wait"
    /\ Joined(line)
    /\ main' = "end"
    /\ UNCHANGED <<line, call, cancelled, poolVars, wakeVars, verb, outcome>>

Main_ == BeginBrief \/ EndBrief \/ EndRetro \/ EndWake \/ PrintOut \/ StopLine \/ Exit

RetroStep ==
    /\ verb = "retro" /\ main = "run"
    /\ BeginPool \/ CloseQueue \/ EndPool \/ \E c \in Callers : WorkerStep(c)
    /\ UNCHANGED <<wakeVars, verb, main, outcome>>

Loop ==
    /\ verb \in {"wake", "auto"} /\ main = "run"
    /\ WakeStep
    /\ UNCHANGED <<poolVars, verb, main, outcome>>

Asked ==
    /\ Person
    /\ UNCHANGED <<poolVars, verb, main, outcome>>

Elsewhere ==
    /\ verb \in {"wake", "auto"} /\ main = "run"
    /\ \E s \in Working : OtherVerb(s)
    /\ UNCHANGED <<poolVars, verb, main, outcome>>

Endpoint ==
    /\ \E c \in Callers : CallStep(c)
    /\ UNCHANGED <<line, poolVars, wakeVars, verb, main, outcome>>

Drawing ==
    /\ Tick \/ Quit
    /\ UNCHANGED <<call, cancelled, poolVars, wakeVars, verb, main, outcome>>

Ended ==
    /\ main = "end"
    /\ UNCHANGED vars

Next == Main_ \/ RetroStep \/ Loop \/ Asked \/ Elsewhere \/ Endpoint \/ Drawing \/ Ended

Fairness ==
    /\ WF_vars(Main_) /\ WF_vars(Loop) /\ WF_vars(RetroStep)
    /\ WF_vars(Quit /\ Drawing)
    /\ \A c \in Callers :
         /\ WF_vars(Expire(c) /\ Endpoint)
         /\ WF_vars(Fail(c) /\ Endpoint)

Spec == Init /\ [][Next]_vars /\ Fairness
-----------------------------------------------------------------------------
TypeOK ==
    /\ line \in Line
    /\ call \in [Callers -> Call]
    /\ cancelled \in BOOLEAN
    /\ pool \in Pool
    /\ worker \in [Callers -> Worker]
    /\ \A file \in cache : file.summary.of \in Facts
    /\ wake \in Wake /\ tally \in Summary
    /\ journal \in [Working -> States]
    /\ wrote \in [Working -> {"nothing", "entry", "dismissal"}]
    /\ others \in 0..MaxOthers
    /\ verb \in Verbs
    /\ main \in {"run", "print", "stop", "wait", "end"}
    /\ outcome \in Verdicts \cup {"none", "write failed"}

\* A draft, a prompt, a diagnostic or a document is never written over the
\* status line, and no status line comes up while a person is asked or after
\* the verb has ended, though its goroutine ticks all along.
CleanScreen ==
    /\ ~line.smeared
    /\ wake.at \in Asking \/ main \in {"wait", "end"} => line.screen = "clean"
    /\ main = "end" => line.loop \in {"none", "done"}

\* wake's summary is the truth about the run: every session considered is
\* accepted, dismissed or skipped, and what is not skipped is what this run
\* wrote to the journal, whoever else wrote meanwhile.
TallyTrue ==
    verb \in {"wake", "auto"} /\ main # "run" /\ outcome = "ok" =>
        /\ tally.considered = tally.accepted + tally.dismissed + tally.skipped
        /\ tally.accepted = Cardinality({s \in Working : wrote[s] = "entry"})
        /\ tally.dismissed = Cardinality({s \in Working : wrote[s] = "dismissal"})
        /\ tally.drafted >= tally.accepted + tally.dismissed + tally.below

\* The failure retro reports is the one that happened, never the cancellation
\* it caused itself in the other workers.
CauseReported == outcome # "cancelled"

\* A retro that succeeds has a summary for every session, each made from that
\* session's entry as it stands and by the model configured now, and has
\* counted each once.
SummariesCurrent ==
    pool.at = "done" /\ pool.error = "none" =>
        /\ pool.hits + pool.requests = Len(Jobs)
        /\ DOMAIN pool.summaries = DOMAIN Jobs
        /\ \A i \in DOMAIN Jobs :
             LET f == pool.summaries[i].of IN
             <<f.session, f.body, f.model>>
               = <<Jobs[i].session, Jobs[i].body, Jobs[i].model>>

\* No reply cut off by a limit, an error or a cancellation is ever cached:
\* it would be served from then on.
CacheWhole == \A file \in cache : file.summary.text = "whole"

\* Every verb comes to its end, or is waiting for a person: no failure, limit
\* or cancellation leaves a worker, the dispatcher or the goroutine behind.
Returns == []<>(main = "end" \/ wake.at \in Asking)
=============================================================================
