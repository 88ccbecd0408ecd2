----------------------------- MODULE ToolCalls -----------------------------
(***************************************************************************)
(* How the structured readers (claude, pi and devin ReadTranscript) put a *)
(* tool's results to its calls.  A stream is a sequence of calls and       *)
(* results, each with its tool's id; a call is shown with the result that  *)
(* answers it, a result that answers no call is shown by itself.           *)
(***************************************************************************)
EXTENDS Naturals, Sequences, FiniteSets, SequencesExt

Call(id) == [what |-> "call", id |-> id]
Result(id) == [what |-> "result", id |-> id]

\* The event of the latest call of a tool id, as the readers' `calls` map
\* holds it.
LatestCall(events, id) ==
  {i \in DOMAIN events :
     /\ events[i].what = "call" /\ events[i].id = id
     /\ \A j \in DOMAIN events : events[j].what = "call" /\ events[j].id = id => j <= i}

\* Mutant: an answered call takes a later result in place of its own.
AnsweredLast(events, id, at) ==
  {i \in LatestCall(events, id) : TRUE}

\* The call a result is put to: the latest of its id, if it has none yet.
Answered(events, id, at) ==
  {i \in LatestCall(events, id) : events[i].result = 0}

\* What stands at one place of a stream becomes an event of its own, or the
\* result of a call; a result is named by its place, 0 for none.
Told(events, e, at) ==
  LET calls == Answered(events, e.id, at)
  IN IF e.what = "call"
     THEN Append(events, [what |-> "call", id |-> e.id, at |-> at, result |-> 0])
     ELSE IF calls = {}
     THEN Append(events, [what |-> "result", id |-> e.id, at |-> at, result |-> at])
     ELSE [i \in DOMAIN events |->
             IF i \in calls THEN [events[i] EXCEPT !.result = at] ELSE events[i]]

\* The events of a stream.
Events(stream) ==
  LET upto[n \in 0 .. Len(stream)] ==
        IF n = 0 THEN <<>> ELSE Told(upto[n - 1], stream[n], n)
  IN upto[Len(stream)]

\* A result answers the call before it of the same id with no other call and
\* no other result of that id in between.
Answers(stream, j, i) ==
  /\ i < j /\ stream[i].what = "call" /\ stream[j].what = "result"
  /\ stream[i].id = stream[j].id
  /\ \A k \in i + 1 .. j - 1 : stream[k].id # stream[i].id

\* The reference: every call once, with its answer; every other result once.
Paired(stream, events) ==
  /\ \A i \in DOMAIN stream :
       Cardinality({k \in DOMAIN events :
         events[k].at = i \/ events[k].result = i}) = 1
  /\ \A k \in DOMAIN events :
       events[k].what = "call" =>
         \A j \in DOMAIN stream : events[k].result = j <=> Answers(stream, j, events[k].at)
=============================================================================
