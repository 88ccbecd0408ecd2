----------------------------- MODULE RetroPool -----------------------------
(***************************************************************************)
(* retro's summaries (verbs/retroverb Summarize): a dispatcher that hands  *)
(* one job per curated session to a few workers over an unbuffered         *)
(* channel; each worker looks in the summary cache (internal/retrocache)   *)
(* or calls the endpoint, and tallies its result under one lock; the first *)
(* failure cancels the calls' context.                                     *)
(***************************************************************************)
EXTENDS Progress, LlmCall, FiniteSets, Sequences

CONSTANTS Jobs,     \* the window's facts, one per curated session, in order
          Earlier   \* sets of facts that earlier retros may have summarised

\* What a summary is made from; the cache's key leaves the project out.
ASSUME JobsAssumption ==
    /\ Jobs \in Seq({Jobs[i] : i \in DOMAIN Jobs})
    /\ \A f \in {Jobs[i] : i \in DOMAIN Jobs} \cup UNION Earlier :
         DOMAIN f = {"session", "body", "model", "project"}

VARIABLES pool,    \* the dispatcher, the channel and the tally
          worker,  \* worker[c]: where worker c is and its job
          cache    \* the cache's files

\* Mutant: the model is left out of the key.
KeyOfPrompt(f) == <<f.session, f.body>>

EntryKey(f) == <<f.session, f.body, f.model>>

Text(f, text) == [of |-> f, text |-> text]
File(f, text) == [key |-> EntryKey(f), summary |-> Text(f, text)]
Facts == {Jobs[i] : i \in DOMAIN Jobs} \cup UNION Earlier

PoolInit(refresh) ==
    /\ pool = [at |-> "start", left |-> Jobs, refresh |-> refresh,
               summaries |-> [i \in {} |-> Jobs[i]], hits |-> 0, requests |-> 0,
               error |-> "none"]
    /\ worker = [c \in Callers |-> [at |-> "ready", job |-> 0]]
    /\ \E old \in Earlier : cache = {File(f, "whole") : f \in old}

Pool == [at : {"start", "dispatch", "closed", "done"}, left : Seq(Facts), refresh : BOOLEAN,
         summaries : UNION {[S -> [of : Facts, text : {"part", "whole"}]] :
                              S \in SUBSET DOMAIN Jobs},
         hits : 0..Len(Jobs), requests : 0..Len(Jobs),
         error : {"none"} \cup (Verdicts \ {"ok"})]
Worker == [at : {"ready", "lookup", "call", "hit", "miss", "failed", "gone"},
           job : 0..Len(Jobs)]

BeginPool ==
    /\ pool.at = "start"
    /\ pool' = [pool EXCEPT !.at = "dispatch"]
    /\ line' = Status(line)
    /\ UNCHANGED <<call, cancelled, worker, cache>>

\* The channel is unbuffered: a job is handed to a worker that waits for one,
\* also after a cancellation, where the dispatcher's select has both ready.
Dispatch(c) ==
    /\ pool.at = "dispatch" /\ pool.left # <<>>
    /\ worker[c].at = "ready"
    /\ worker' = [worker EXCEPT ![c] = [at |-> "lookup",
                    job |-> Len(Jobs) - Len(pool.left) + 1]]
    /\ pool' = [pool EXCEPT !.left = Tail(@)]
    /\ UNCHANGED <<line, call, cancelled, cache>>

CloseQueue ==
    /\ pool.at = "dispatch"
    /\ pool.left = <<>> \/ cancelled
    /\ pool' = [pool EXCEPT !.at = "closed"]
    /\ UNCHANGED <<line, call, cancelled, worker, cache>>

Leave(c) ==
    /\ pool.at = "closed" /\ worker[c].at = "ready"
    /\ worker' = [worker EXCEPT ![c].at = "gone"]
    /\ UNCHANGED <<line, call, cancelled, pool, cache>>

Cached(f) == {file.summary : file \in {g \in cache : g.key = EntryKey(f)}}

\* summarizeEntry: the cache first, unless --refresh; a file that does not
\* parse is a miss, and so is a lookup that fails.
Lookup(c) ==
    /\ worker[c].at = "lookup"
    /\ IF Cached(Jobs[worker[c].job]) # {} /\ ~pool.refresh
       THEN /\ worker' = [worker EXCEPT ![c].at = "hit"]
            /\ UNCHANGED call
       ELSE /\ worker' = [worker EXCEPT ![c].at = "call"]
            /\ call' = [call EXCEPT ![c] = Complete(c)]
    /\ UNCHANGED <<line, cancelled, pool, cache>>

\* A reply is put in the cache, best effort, before it is tallied.
Answer(c) ==
    LET f == Jobs[worker[c].job]
        file == File(f, call[c].text)
        others == {g \in cache : g.key # file.key}
    IN /\ worker[c].at = "call" /\ Over(c)
       /\ IF call[c].verdict = "ok"
          THEN /\ worker' = [worker EXCEPT ![c].at = "miss"]
               /\ cache' \in {others \cup {file}, cache}
          ELSE /\ worker' = [worker EXCEPT ![c].at = "failed"]
               /\ UNCHANGED cache
       /\ UNCHANGED <<line, call, cancelled, pool>>

\* The three cases under the lock; a success redraws the counter.
TallySummary(c, summary, count) ==
    /\ pool' = [count EXCEPT !.summaries =
                  [i \in DOMAIN @ \cup {worker[c].job} |->
                     IF i = worker[c].job THEN summary ELSE @[i]]]
    /\ line' = Status(line)
    /\ UNCHANGED cancelled

TallyHit(c) ==
    /\ worker[c].at = "hit"
    /\ \E summary \in Cached(Jobs[worker[c].job]) :
         TallySummary(c, summary, [pool EXCEPT !.hits = @ + 1])

TallyMiss(c) ==
    /\ worker[c].at = "miss"
    /\ TallySummary(c, Text(Jobs[worker[c].job], call[c].text),
                    [pool EXCEPT !.requests = @ + 1])

\* Mutant: the last failure is the one reported.
TallyLast(c) ==
    /\ worker[c].at = "failed"
    /\ pool' = [pool EXCEPT !.error = call[c].verdict]
    /\ cancelled' = TRUE
    /\ UNCHANGED line

TallyFailure(c) ==
    /\ worker[c].at = "failed"
    /\ pool' = [pool EXCEPT !.error = IF @ = "none" THEN call[c].verdict ELSE @]
    /\ cancelled' = TRUE
    /\ UNCHANGED line

Tally(c) ==
    /\ TallyHit(c) \/ TallyMiss(c) \/ TallyFailure(c)
    /\ worker' = [worker EXCEPT ![c] = [at |-> "ready", job |-> 0]]
    /\ call' = [call EXCEPT ![c] = NoCall]
    /\ UNCHANGED cache

\* The workers are gone: the line is cleared and Summarize returns.
EndPool ==
    /\ pool.at = "closed"
    /\ \A c \in Callers : worker[c].at = "gone"
    /\ pool' = [pool EXCEPT !.at = "done"]
    /\ line' = Clear(line)
    /\ UNCHANGED <<call, cancelled, worker, cache>>

WorkerStep(c) == Dispatch(c) \/ Lookup(c) \/ Answer(c) \/ Tally(c) \/ Leave(c)
=============================================================================
