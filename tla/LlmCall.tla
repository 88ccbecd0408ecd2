------------------------------ MODULE LlmCall ------------------------------
(***************************************************************************)
(* Calls of llm.Client.Complete, at most one per caller: connect, wait for *)
(* the headers, read an event stream or a JSON body, under three limits    *)
(* (first byte, idle, total) and the context of the caller's parent. Time  *)
(* is abstract: a limit may strike whenever it runs. What the reply says   *)
(* is left out: of a reply none, a part or the whole was read.             *)
(***************************************************************************)
EXTENDS Integers

CONSTANT Callers

VARIABLES call,       \* call[c]: the call c makes
          cancelled   \* the context of the verb's calls was cancelled

Verdicts == {"ok", "stalled", "exceeded", "cancelled", "unanswered", "refused"}

NoCall == [at |-> "none", limit |-> "none", text |-> "none", verdict |-> "ok"]
Call == [at : {"none", "dial", "reply", "over"},
         limit : {"none", "idle", "total"},  \* what ended its context first
         text : {"none", "part", "whole"},   \* what of the reply was read
         verdict : Verdicts]

CallInit == call = [c \in Callers |-> NoCall] /\ cancelled = FALSE

Calling(c) == call[c].at \in {"dial", "reply"}
Over(c) == call[c].at = "over"

Complete(c) == [NoCall EXCEPT !.at = "dial"]

EndCall(c, verdict) ==
    call' = [call EXCEPT ![c].at = "over", ![c].verdict = verdict]

Dead(c) == call[c].limit # "none" \/ cancelled

\* classify: whose cancellation a failed read or dial was.
Verdict(c) ==
    IF cancelled THEN "cancelled"
    ELSE IF call[c].limit = "idle" THEN "stalled" ELSE "exceeded"

\* A dial or a read fails because the call's context is done.
Fail(c) ==
    /\ Calling(c)
    /\ Dead(c)
    /\ EndCall(c, Verdict(c))
    /\ UNCHANGED cancelled

\* No headers within FirstByteTimeout, no connection at all, or a status or
\* a body the client does not take.
Refuse(c) ==
    /\ Calling(c)
    /\ EndCall(c, IF call[c].at = "dial" THEN "unanswered" ELSE "refused")
    /\ UNCHANGED cancelled

Headers(c) ==
    /\ call[c].at = "dial"
    /\ call' = [call EXCEPT ![c].at = "reply"]
    /\ UNCHANGED cancelled

\* Data arrives; a context that is done does not undo what is read already.
Read(c) ==
    /\ call[c].at = "reply"
    /\ call[c].text = "none"
    /\ call' = [call EXCEPT ![c].text = "part"]
    /\ UNCHANGED cancelled

\* Mutant: a stream that ended is a reply, however it ended.
FinishAny(c) ==
    /\ call[c].at = "reply"
    /\ IF Dead(c) THEN EndCall(c, "ok")
       ELSE call' = [call EXCEPT ![c].at = "over", ![c].text = "whole"]
    /\ UNCHANGED cancelled

\* "data: [DONE]", the end of a JSON body that parses, or a clean end of the
\* stream without [DONE], which the client takes for the whole reply too.
Finish(c) ==
    /\ call[c].at = "reply"
    /\ call' = [call EXCEPT ![c].at = "over", ![c].text = "whole"]
    /\ UNCHANGED cancelled

\* The idle timer runs from the headers on, the total from the start. Once the
\* context is done a further limit changes nothing.
Stall(c) ==
    /\ call[c].at = "reply"
    /\ ~Dead(c)
    /\ call' = [call EXCEPT ![c].limit = "idle"]
    /\ UNCHANGED cancelled

Expire(c) ==
    /\ Calling(c)
    /\ ~Dead(c)
    /\ call' = [call EXCEPT ![c].limit = "total"]
    /\ UNCHANGED cancelled

CallStep(c) ==
    \/ Fail(c) \/ Refuse(c) \/ Headers(c) \/ Read(c) \/ Finish(c)
    \/ Stall(c) \/ Expire(c)

=============================================================================
