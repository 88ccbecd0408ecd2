----------------------------- MODULE FlowsProofs -----------------------------
(***************************************************************************)
(* What holds of wake, brief and retro for any number of workers, curated  *)
(* sessions, cached summaries and rows: the terminal, the calls and their  *)
(* cancellation, the summary cache, retro's pool and wake's tally, each    *)
(* with an invariant of its own that rests on those before it.             *)
(***************************************************************************)
EXTENDS Flows, FiniteSetTheorems, TLAPS

Summaries == UNION {[S -> [of : Facts, text : {"part", "whole"}]] :
                      S \in SUBSET DOMAIN Jobs}

PoolShape == [at : {"start", "dispatch", "closed", "done"}, left : Seq(Facts),
              refresh : BOOLEAN, summaries : Summaries, hits : Nat, requests : Nat,
              error : {"none"} \cup (Verdicts \ {"ok"})]

TallyShape == [considered : {Len(Rows)}, drafted : Nat, accepted : Nat,
               dismissed : Nat, skipped : Nat, below : Nat, failed : Nat,
               promoted : Nat]

\* The types that hold whatever the counters do.
Shape ==
  /\ line \in Line /\ call \in [Callers -> Call] /\ cancelled \in BOOLEAN
  /\ pool \in PoolShape
  /\ worker \in [Callers -> Worker]
  /\ wake \in Wake
  /\ tally \in TallyShape
  /\ journal \in [Working -> States]
  /\ wrote \in [Working -> {"nothing", "entry", "dismissal"}]
  /\ others \in 0..MaxOthers
  /\ verb \in Verbs
  /\ main \in {"run", "print", "stop", "wait", "end"}
  /\ outcome \in Verdicts \cup {"none", "write failed"}

\* Where the verb is, and what it has not touched.
Waking == verb \in {"wake", "auto"}
AtRow == {"draft", "redraft", "measure", "write"} \cup Asking
Drafted == AtRow \ {"draft"}
Place ==
  /\ wake.at = "off" <=> ~Waking
  /\ wake.at \in AtRow => wake.row <= Len(Rows)
  /\ Waking /\ main # "run" => wake.at \in {"done", "aborted"}
  /\ Waking /\ main # "run" /\ outcome = "ok" => wake.at = "done"
  /\ verb = "retro" /\ main # "run" => pool.at = "done"
  /\ verb # "retro" =>
       pool.at = "start" /\ \A c \in Callers : worker[c] = [at |-> "ready", job |-> 0]

\* A verdict of "ok" came with the whole reply, and no call is found
\* cancelled before a failure was tallied, which is then the pool's error.
CallsTrue ==
  /\ \A c \in Callers :
       /\ Over(c) /\ call[c].verdict = "ok" => call[c].text = "whole"
       /\ ~Over(c) => call[c].verdict = "ok"
       /\ call[c].verdict = "cancelled" => cancelled
       /\ worker[c].at \in {"miss", "failed"} => Over(c)
       /\ worker[c].at = "miss" => call[c].verdict = "ok"
       /\ worker[c].at = "failed" => call[c].verdict # "ok"
  /\ cancelled <=> pool.error # "none"
  /\ verb # "retro" => ~cancelled
  /\ pool.error # "cancelled" /\ outcome # "cancelled"

CacheTrue ==
  \A file \in cache : \E f \in Facts : file = File(f, "whole")

\* Only a verb that has a call of its own under way keeps the line active.
Quiet ==
  \/ main # "run"
  \/ Waking /\ wake.at \notin {"draft", "redraft"}
  \/ verb = "brief" /\ call[Main].at = "none"
  \/ verb = "retro" /\ pool.at \in {"start", "done"}
Sound(r) ==
  /\ ~r.smeared
  /\ r.screen = "status" => r.drawn
  /\ r.drawn => r.active
  /\ r.stopped => r.loop # "running"
LineTrue ==
  /\ Sound(line)
  /\ Quiet => ~line.active
  /\ line.stopped <=> main \in {"wait", "end"}
  /\ main = "end" => line.loop \in {"none", "done"}

Busy(c) == worker[c].at \in {"lookup", "call", "hit", "miss", "failed"}
Given == 1..(Len(Jobs) - Len(pool.left))
Tallied == DOMAIN pool.summaries

\* Every job handed out is with one worker, or tallied, or was lost to a
\* failure that cancelled the rest.
PoolTrue ==
  /\ Len(pool.left) <= Len(Jobs)
  /\ Tallied \subseteq Given
  /\ \A c \in Callers :
       /\ ~Busy(c) => worker[c].job = 0
       /\ Busy(c) => worker[c].job \in Given \ Tallied
  /\ \A c, d \in Callers : Busy(c) /\ worker[c].job = worker[d].job => c = d
  /\ ~cancelled =>
       \A i \in Given \ Tallied : \E c \in Callers : Busy(c) /\ worker[c].job = i
  /\ \A i \in Tallied : EntryKey(pool.summaries[i].of) = EntryKey(Jobs[i])
  /\ pool.hits + pool.requests = Cardinality(Tallied)
  /\ pool.at = "start" => pool.left = Jobs
  /\ pool.at \in {"closed", "done"} => pool.left = <<>> \/ cancelled
  /\ pool.at = "done" => \A c \in Callers : worker[c].at = "gone"

Written(what) == {s \in Working : wrote[s] = what}

\* The rows behind the loop are each accepted, dismissed or skipped, and the
\* run wrote for none of the rows from the current one on.
Behind == IF wake.at = "done" THEN Len(Rows) ELSE wake.row - 1
RowsTallied ==
  /\ tally.accepted + tally.dismissed + tally.skipped = Behind
  /\ wake.at # "done" =>
       \A j \in DOMAIN Rows : j >= wake.row => wrote[Rows[j]] = "nothing"
  /\ tally.accepted = Cardinality(Written("entry"))
  /\ tally.dismissed = Cardinality(Written("dismissal"))
  /\ tally.below + tally.failed <= tally.skipped
  /\ tally.drafted >= tally.accepted + tally.dismissed + tally.below
                      + IF wake.at \in Drafted THEN 1 ELSE 0
  /\ tally.drafted <= Behind + IF wake.at \in Drafted \cup {"aborted"} THEN 1 ELSE 0
  /\ tally.promoted <= (wake.row - 1) * MaxPromotions + wake.sections
  /\ wake.sections > 0 => wake.at \in {"promote", "write", "aborted"}
  /\ wake.at = "aborted" => wake.row <= Len(Rows)

IInv == Shape /\ Place /\ CallsTrue /\ CacheTrue /\ LineTrue /\ PoolTrue /\ RowsTallied

-----------------------------------------------------------------------------
(* The constants, and the reporter's operations. *)

LEMMA Sizes ==
  /\ Jobs \in Seq(Facts) /\ Len(Jobs) \in Nat /\ DOMAIN Jobs = 1..Len(Jobs)
  /\ \A i \in 1..Len(Jobs) : Jobs[i] \in Facts
  /\ Len(Rows) \in Nat /\ DOMAIN Rows = 1..Len(Rows)
  /\ \A j \in 1..Len(Rows) : Rows[j] \in Working
  /\ Main \in Callers /\ MaxPromotions \in Nat /\ MaxOthers \in Nat
<1>1. Jobs \in Seq({Jobs[i] : i \in DOMAIN Jobs})
  BY JobsAssumption
<1>2. Len(Jobs) \in Nat /\ DOMAIN Jobs = 1..Len(Jobs)
  BY <1>1
<1>3. \A i \in 1..Len(Jobs) : Jobs[i] \in Facts
  BY <1>2 DEF Facts
<1>4. Jobs \in Seq(Facts)
  BY <1>1, <1>2, <1>3
<1>5. Rows \in Seq({Rows[i] : i \in DOMAIN Rows})
  BY RowsAssumption
<1>6. Len(Rows) \in Nat /\ DOMAIN Rows = 1..Len(Rows)
  BY <1>5
<1>7. \A j \in 1..Len(Rows) : Rows[j] \in Working
  BY <1>6 DEF Working
<1>8. QED BY <1>2, <1>3, <1>4, <1>6, <1>7, MainAssumption, BoundsAssumption

LEMMA LineTypes ==
  ASSUME NEW r \in Line
  PROVE  /\ Draw(r) \in Line /\ Status(r) \in Line /\ Clear(r) \in Line
         /\ Stop(r) \in Line /\ Say(r) \in Line
<1>1. ASSUME NEW q \in Line PROVE Draw(q) \in Line
  BY DEF Draw, Line
<1>2. Status(r) \in Line
  <2>1. [r EXCEPT !.active = TRUE,
                  !.loop = IF r.loop = "none" THEN "running" ELSE r.loop] \in Line
    BY DEF Line
  <2>2. QED BY <1>1, <2>1 DEF Status
<1>3. Clear(r) \in Line /\ Say(r) \in Line
  BY DEF Clear, Say, Line
<1>4. Stop(r) \in Line
  BY <1>3 DEF Stop, Line
<1>5. QED BY <1>1, <1>2, <1>3, <1>4

LEMMA CallTypes ==
  ASSUME call \in [Callers -> Call], cancelled \in BOOLEAN, NEW c \in Callers, CallStep(c)
  PROVE  /\ call' \in [Callers -> Call] /\ UNCHANGED cancelled
         /\ \A d \in Callers : ~Calling(d) => call'[d] = call[d]
         /\ \A d \in Callers : Calling(d) => call'[d].at # "none"
         /\ \A d \in Callers :
              /\ call'[d].at = "over" /\ call'[d].verdict = "ok" /\ Calling(d)
                   => call'[d].text = "whole"
              /\ call'[d].at # "over" => call'[d].verdict = call[d].verdict
              /\ call'[d].verdict = "cancelled" => cancelled \/ call[d].verdict = "cancelled"
<1> DEFINE Turn(x) ==
             /\ call' = [call EXCEPT ![c] = x]
             /\ x.at # "none"
             /\ x.at = "over" /\ x.verdict = "ok" => x.text = "whole"
             /\ x.at # "over" => x.verdict = call[c].verdict
             /\ x.verdict = "cancelled" => cancelled \/ call[c].verdict = "cancelled"
<1>1. call[c] \in Call
  OBVIOUS
<1>2. ASSUME NEW v \in Verdicts \ {"ok"}, EndCall(c, v), v = "cancelled" => cancelled
      PROVE  \E x \in Call : Turn(x)
  <2> DEFINE x == [call[c] EXCEPT !.at = "over", !.verdict = v]
  <2>1. x \in Call /\ Turn(x)
    BY <1>1, <1>2 DEF EndCall, Call
  <2> HIDE DEF x, Turn
  <2>2. QED BY <2>1
<1>3. \E x \in Call : Turn(x)
  <2>1. CASE Fail(c)
    <3>1. Verdict(c) \in Verdicts \ {"ok"} /\ (Verdict(c) = "cancelled" => cancelled)
      BY DEF Verdict, Verdicts
    <3>2. EndCall(c, Verdict(c))
      BY <2>1 DEF Fail
    <3> HIDE DEF Turn
    <3>3. QED BY <1>2, <3>1, <3>2
  <2>2. CASE Refuse(c)
    <3> DEFINE v == IF call[c].at = "dial" THEN "unanswered" ELSE "refused"
    <3>1. v \in Verdicts \ {"ok"} /\ v # "cancelled"
      BY DEF Verdicts
    <3>2. EndCall(c, v)
      BY <2>2 DEF Refuse
    <3> HIDE DEF Turn, v
    <3>3. QED BY <1>2, <3>1, <3>2
  <2>3. CASE Headers(c)
    <3> DEFINE x == [call[c] EXCEPT !.at = "reply"]
    <3>1. x \in Call /\ Turn(x)
      BY <1>1, <2>3 DEF Headers, Call
    <3> HIDE DEF x, Turn
    <3>2. QED BY <3>1
  <2>4. CASE Read(c)
    <3> DEFINE x == [call[c] EXCEPT !.text = "part"]
    <3>1. x \in Call /\ Turn(x)
      BY <1>1, <2>4 DEF Read, Call
    <3> HIDE DEF x, Turn
    <3>2. QED BY <3>1
  <2>5. CASE Finish(c)
    <3> DEFINE x == [call[c] EXCEPT !.at = "over", !.text = "whole"]
    <3>1. x \in Call /\ Turn(x)
      BY <1>1, <2>5 DEF Finish, Call
    <3> HIDE DEF x, Turn
    <3>2. QED BY <3>1
  <2>6. CASE Stall(c)
    <3> DEFINE x == [call[c] EXCEPT !.limit = "idle"]
    <3>1. x \in Call /\ Turn(x)
      BY <1>1, <2>6 DEF Stall, Call
    <3> HIDE DEF x, Turn
    <3>2. QED BY <3>1
  <2>7. CASE Expire(c)
    <3> DEFINE x == [call[c] EXCEPT !.limit = "total"]
    <3>1. x \in Call /\ Turn(x)
      BY <1>1, <2>7 DEF Expire, Calling, Call
    <3> HIDE DEF x, Turn
    <3>2. QED BY <3>1
  <2>8. QED BY <2>1, <2>2, <2>3, <2>4, <2>5, <2>6, <2>7 DEF CallStep
<1>4. Calling(c) /\ UNCHANGED cancelled
  BY DEF CallStep, Fail, Refuse, Headers, Read, Finish, Stall, Expire, Calling
<1>5. PICK x \in Call : Turn(x)
  BY <1>3
<1>6. call'[c] = x /\ \A d \in Callers : d # c => call'[d] = call[d]
  BY <1>5
<1>7. call' \in [Callers -> Call]
  BY <1>5
<1>8. QED BY <1>4, <1>5, <1>6, <1>7 DEF Calling

-----------------------------------------------------------------------------
(* Types. *)

LEMMA UpTo ==
  ASSUME NEW n \in Nat
  PROVE  IsFiniteSet(1..n) /\ Cardinality(1..n) = n
<1>1. 1 \in Int /\ n \in Int
  OBVIOUS
<1>2. IsFiniteSet(1..n)
  BY <1>1, FS_Interval, Zenon
<1>3. Cardinality(1..n) = IF 1 > n THEN 0 ELSE n - 1 + 1
  BY <1>1, FS_Interval, Zenon
<1>4. QED BY <1>2, <1>3

LEMMA GivenJobs ==
  ASSUME Shape, PoolTrue
  PROVE  /\ Len(pool.left) \in 0..Len(Jobs) /\ Given \subseteq 1..Len(Jobs)
         /\ \A c \in Callers :
              Busy(c) => worker[c].job \in 1..Len(Jobs) /\ worker[c].job \in Given
         /\ Tallied \in SUBSET (1..Len(Jobs)) /\ IsFiniteSet(Tallied)
         /\ Cardinality(Tallied) \in 0..Len(Jobs)
<1>1. Len(pool.left) \in 0..Len(Jobs)
  <2>1. pool.left \in Seq(Facts)
    BY DEF Shape, PoolShape
  <2>2. Len(pool.left) \in Nat /\ Len(pool.left) <= Len(Jobs)
    BY <2>1 DEF PoolTrue
  <2>3. QED BY <2>2, Sizes
<1>2. Given \subseteq 1..Len(Jobs)
  BY <1>1, Sizes DEF Given
<1>3. Tallied \in SUBSET (1..Len(Jobs))
  BY <1>2 DEF PoolTrue
<1>4. IsFiniteSet(1..Len(Jobs)) /\ Cardinality(1..Len(Jobs)) = Len(Jobs)
  BY UpTo, Sizes
<1>5. IsFiniteSet(Tallied) /\ Cardinality(Tallied) <= Len(Jobs)
  BY <1>3, <1>4, FS_Subset
<1>6. Cardinality(Tallied) \in 0..Len(Jobs)
  BY <1>5, FS_CardinalityType, Sizes
<1>7. QED BY <1>1, <1>2, <1>3, <1>5, <1>6 DEF PoolTrue

LEMMA MainShape ==
  ASSUME Shape, CallsTrue, Main_
  PROVE  Shape'
<1> USE Sizes DEF Shape, PoolShape
<1>1. CASE BeginBrief
  <2>1. call' \in [Callers -> Call]
    BY <1>1 DEF BeginBrief, Complete, NoCall, Call, Verdicts
  <2>2. QED BY <1>1, <2>1, LineTypes DEF BeginBrief, poolVars, wakeVars
<1>2. CASE EndBrief
  <2>1. call[Main].verdict \in Verdicts
    BY DEF Call
  <2>2. QED BY <1>2, <2>1, LineTypes DEF EndBrief, poolVars, wakeVars
<1>3. CASE EndRetro
  BY <1>3 DEF EndRetro, poolVars, wakeVars, Verdicts
<1>4. CASE EndWake
  BY <1>4 DEF EndWake, poolVars, wakeVars, Verdicts
<1>5. CASE PrintOut
  BY <1>5, LineTypes DEF PrintOut, poolVars, wakeVars
<1>6. CASE StopLine
  BY <1>6, LineTypes DEF StopLine, poolVars, wakeVars
<1>7. CASE Exit
  BY <1>7 DEF Exit, poolVars, wakeVars
<1>8. QED BY <1>1, <1>2, <1>3, <1>4, <1>5, <1>6, <1>7 DEF Main_

LEMMA CacheShape ==
  ASSUME Shape, CacheTrue, NEW f \in Facts, NEW summary \in Cached(f)
  PROVE  /\ summary \in [of : Facts, text : {"whole"}]
         /\ EntryKey(summary.of) = EntryKey(f)
BY DEF CacheTrue, Cached, File, Text, EntryKey

LEMMA SummaryAdded ==
  ASSUME Shape, PoolTrue, NEW c \in Callers, Busy(c),
         NEW summary \in [of : Facts, text : {"part", "whole"}],
         EntryKey(summary.of) = EntryKey(Jobs[worker[c].job]),
         NEW count \in PoolShape, count.summaries = pool.summaries,
         TallySummary(c, summary, count)
  PROVE  /\ pool' \in PoolShape
         /\ pool'.at = count.at /\ pool'.left = count.left /\ pool'.error = count.error
         /\ pool'.hits = count.hits /\ pool'.requests = count.requests
         /\ DOMAIN pool'.summaries = Tallied \cup {worker[c].job}
         /\ \A i \in DOMAIN pool'.summaries :
              EntryKey(pool'.summaries[i].of) = EntryKey(Jobs[i])
         /\ line' = Status(line) /\ UNCHANGED cancelled
<1> DEFINE j == worker[c].job
           new == [i \in Tallied \cup {j} |->
                     IF i = j THEN summary ELSE pool.summaries[i]]
<1>1. pool' = [count EXCEPT !.summaries = new]
  BY DEF TallySummary, Tallied
<1>2. new \in Summaries
  <2>1. j \in 1..Len(Jobs) /\ Tallied \subseteq 1..Len(Jobs)
    BY GivenJobs
  <2>2. pool.summaries \in Summaries
    BY DEF Shape, PoolShape
  <2>3. \A i \in Tallied : pool.summaries[i] \in [of : Facts, text : {"part", "whole"}]
    BY <2>2 DEF Summaries, Tallied
  <2>4. new \in [Tallied \cup {j} -> [of : Facts, text : {"part", "whole"}]]
    BY <2>3
  <2>5. Tallied \cup {j} \in SUBSET DOMAIN Jobs
    BY <2>1, Sizes
  <2>6. QED BY <2>4, <2>5 DEF Summaries
<1>3. /\ DOMAIN new = Tallied \cup {j}
      /\ \A i \in DOMAIN new : EntryKey(new[i].of) = EntryKey(Jobs[i])
  BY DEF PoolTrue
<1> HIDE DEF new
<1>4. pool'.summaries = new
  BY <1>1 DEF PoolShape
<1>5. pool' \in PoolShape
  BY <1>1, <1>2 DEF PoolShape
<1>6. QED BY <1>1, <1>3, <1>4, <1>5 DEF PoolShape, TallySummary

\* A worker that succeeded adds its session's summary and counts it once.
LEMMA TalliedSummary ==
  ASSUME Shape, CallsTrue, CacheTrue, PoolTrue, NEW c \in Callers,
         TallyHit(c) \/ TallyMiss(c)
  PROVE  /\ Busy(c) /\ pool' \in PoolShape
         /\ pool'.at = pool.at /\ pool'.left = pool.left /\ pool'.error = pool.error
         /\ pool'.hits + pool'.requests = pool.hits + pool.requests + 1
         /\ DOMAIN pool'.summaries = Tallied \cup {worker[c].job}
         /\ \A i \in DOMAIN pool'.summaries :
              EntryKey(pool'.summaries[i].of) = EntryKey(Jobs[i])
         /\ line' = Status(line) /\ UNCHANGED cancelled
<1>1. Busy(c)
  BY DEF TallyHit, TallyMiss, Busy
<1>2. Jobs[worker[c].job] \in Facts
  BY <1>1, GivenJobs, Sizes
<1>3. pool \in PoolShape
  BY DEF Shape
<1>4. CASE TallyHit(c)
  <2> DEFINE count == [pool EXCEPT !.hits = @ + 1]
  <2>1. PICK summary \in Cached(Jobs[worker[c].job]) : TallySummary(c, summary, count)
    BY <1>4 DEF TallyHit
  <2>2. summary \in [of : Facts, text : {"part", "whole"}]
        /\ EntryKey(summary.of) = EntryKey(Jobs[worker[c].job])
    BY <1>2, CacheShape
  <2>3. /\ count \in PoolShape /\ count.summaries = pool.summaries
        /\ count.at = pool.at /\ count.left = pool.left /\ count.error = pool.error
        /\ count.hits + count.requests = pool.hits + pool.requests + 1
    <3>1. pool.hits \in Nat /\ pool.requests \in Nat
      BY <1>3 DEF PoolShape
    <3>2. count \in PoolShape
      BY <1>3, <3>1 DEF PoolShape
    <3>3. /\ count.hits = pool.hits + 1 /\ count.requests = pool.requests
          /\ count.summaries = pool.summaries
          /\ count.at = pool.at /\ count.left = pool.left /\ count.error = pool.error
      BY <1>3 DEF PoolShape
    <3>4. QED BY <3>1, <3>2, <3>3
  <2> HIDE DEF count
  <2>4. QED BY <1>1, <2>1, <2>2, <2>3, SummaryAdded
<1>5. CASE TallyMiss(c)
  <2> DEFINE count == [pool EXCEPT !.requests = @ + 1]
             summary == Text(Jobs[worker[c].job], call[c].text)
  <2>1. TallySummary(c, summary, count)
    BY <1>5 DEF TallyMiss
  <2>2. call[c].text = "whole"
    BY <1>5 DEF TallyMiss, CallsTrue
  <2>3. summary \in [of : Facts, text : {"part", "whole"}]
        /\ summary.of = Jobs[worker[c].job]
    BY <1>2, <2>2 DEF Text
  <2>4. /\ count \in PoolShape /\ count.summaries = pool.summaries
        /\ count.at = pool.at /\ count.left = pool.left /\ count.error = pool.error
        /\ count.hits + count.requests = pool.hits + pool.requests + 1
    <3>1. pool.hits \in Nat /\ pool.requests \in Nat
      BY <1>3 DEF PoolShape
    <3>2. count \in PoolShape
      BY <1>3, <3>1 DEF PoolShape
    <3>3. /\ count.requests = pool.requests + 1 /\ count.hits = pool.hits
          /\ count.summaries = pool.summaries
          /\ count.at = pool.at /\ count.left = pool.left /\ count.error = pool.error
      BY <1>3 DEF PoolShape
    <3>4. QED BY <3>1, <3>2, <3>3
  <2> HIDE DEF count, summary
  <2>5. EntryKey(summary.of) = EntryKey(Jobs[worker[c].job])
    BY <2>3
  <2>6. QED BY <1>1, <2>1, <2>3, <2>4, <2>5, SummaryAdded
<1>6. QED BY <1>4, <1>5

LEMMA CallValues ==
  /\ NoCall \in Call /\ \A c : Complete(c) \in Call
  /\ [NoCall EXCEPT !.at = "over", !.verdict = "refused"] \in Call
BY DEF Complete, NoCall, Call, Verdicts

LEMMA WorkerValues ==
  ASSUME Shape, PoolTrue, NEW c \in Callers
  PROVE  /\ \A at \in {"ready", "lookup", "call", "hit", "miss", "failed", "gone"} :
              [worker EXCEPT ![c].at = at] \in [Callers -> Worker]
         /\ \A w \in Worker : [worker EXCEPT ![c] = w] \in [Callers -> Worker]
         /\ [at |-> "ready", job |-> 0] \in Worker
         /\ \A i \in 0..Len(Jobs) : [at |-> "lookup", job |-> i] \in Worker
<1>1. worker \in [Callers -> Worker]
  BY DEF Shape, PoolShape
<1>2. ASSUME NEW w \in Worker
      PROVE  [worker EXCEPT ![c] = w] \in [Callers -> Worker]
  BY <1>1
<1>3. ASSUME NEW at \in {"ready", "lookup", "call", "hit", "miss", "failed", "gone"}
      PROVE  [worker EXCEPT ![c].at = at] \in [Callers -> Worker]
  <2>1. [worker[c] EXCEPT !.at = at] \in Worker
    BY <1>1 DEF Worker
  <2>2. QED BY <1>1, <2>1
<1>4. /\ [at |-> "ready", job |-> 0] \in Worker
      /\ \A i \in 0..Len(Jobs) : [at |-> "lookup", job |-> i] \in Worker
  BY Sizes DEF Worker
<1>5. QED BY <1>2, <1>3, <1>4

LEMMA RetroShape ==
  ASSUME Shape, Place, CallsTrue, CacheTrue, PoolTrue, RetroStep
  PROVE  Shape'
<1>0. UNCHANGED <<wakeVars, verb, main, outcome>>
  BY DEF RetroStep
<1>1. CASE BeginPool
  BY <1>0, <1>1, LineTypes DEF BeginPool, Shape, PoolShape, wakeVars
<1>2. CASE CloseQueue
  BY <1>0, <1>2 DEF CloseQueue, Shape, PoolShape, wakeVars
<1>3. CASE EndPool
  BY <1>0, <1>3, LineTypes DEF EndPool, Shape, PoolShape, wakeVars
<1>4. ASSUME NEW c \in Callers, Dispatch(c) PROVE Shape'
  <2>1. /\ pool.left \in Seq(Facts) /\ pool.left # <<>>
        /\ Len(pool.left) \in 0..Len(Jobs)
    <3>1. pool.left \in Seq(Facts)
      BY DEF Shape, PoolShape
    <3>2. QED BY <1>4, <3>1, GivenJobs DEF Dispatch
  <2>2. Len(pool.left) \in 1..Len(Jobs)
    BY <2>1
  <2>3. Tail(pool.left) \in Seq(Facts)
    BY <2>1
  <2>4. Len(Jobs) - Len(pool.left) + 1 \in 0..Len(Jobs)
    BY <2>2, Sizes
  <2>5. worker' \in [Callers -> Worker]
    BY <1>4, <2>4, WorkerValues DEF Dispatch
  <2>6. QED BY <1>0, <1>4, <2>3, <2>5 DEF Dispatch, Shape, PoolShape, wakeVars
<1>5. ASSUME NEW c \in Callers, Lookup(c) PROVE Shape'
  <2>1. worker' \in [Callers -> Worker]
    <3>1. \/ worker' = [worker EXCEPT ![c].at = "hit"]
          \/ worker' = [worker EXCEPT ![c].at = "call"]
      BY <1>5 DEF Lookup
    <3>2. worker \in [Callers -> Worker]
      BY DEF Shape
    <3>3. QED BY <3>1, <3>2 DEF Worker
  <2>2. call' \in [Callers -> Call]
    <3>1. call' = call \/ call' = [call EXCEPT ![c] = Complete(c)]
      BY <1>5 DEF Lookup
    <3>2. call \in [Callers -> Call] /\ Complete(c) \in Call
      BY CallValues DEF Shape
    <3>3. QED BY <3>1, <3>2
  <2>3. QED BY <1>0, <1>5, <2>1, <2>2 DEF Lookup, Shape, PoolShape, wakeVars
<1>6. ASSUME NEW c \in Callers, Answer(c) PROVE Shape'
  <2>1. worker' \in [Callers -> Worker]
    BY <1>6, WorkerValues, ZenonT(30) DEF Answer
  <2>2. UNCHANGED <<line, call, cancelled, pool>>
    BY <1>6 DEF Answer
  <2>3. QED BY <1>0, <2>1, <2>2 DEF Shape, PoolShape, wakeVars
<1>7. ASSUME NEW c \in Callers, Leave(c) PROVE Shape'
  <2>1. worker' \in [Callers -> Worker]
    BY <1>7, WorkerValues DEF Leave
  <2>2. QED BY <1>0, <1>7, <2>1 DEF Leave, Shape, PoolShape, wakeVars
<1>8. ASSUME NEW c \in Callers, Tally(c) PROVE Shape'
  <2>1. worker' \in [Callers -> Worker]
    BY <1>8, WorkerValues DEF Tally
  <2>2. call' \in [Callers -> Call]
    BY <1>8, CallValues DEF Tally, Shape, PoolShape
  <2>3. CASE TallyHit(c) \/ TallyMiss(c)
    <3>1. pool' \in PoolShape /\ line' = Status(line) /\ UNCHANGED cancelled
      BY <2>3, TalliedSummary
    <3>2. line' \in Line
      BY <3>1, LineTypes DEF Shape
    <3>3. QED BY <1>0, <1>8, <2>1, <2>2, <3>1, <3>2 DEF Shape, Tally, wakeVars
  <2>5. CASE TallyFailure(c)
    <3>1. call[c].verdict \in Verdicts \ {"ok"}
      BY <2>5 DEF TallyFailure, CallsTrue, Call, Shape, PoolShape
    <3>2. QED BY <1>0, <2>1, <2>2, <2>5, <3>1 DEF TallyFailure, Shape, PoolShape, wakeVars
  <2>6. QED BY <1>8, <2>3, <2>5 DEF Tally
<1>9. QED BY <1>1, <1>2, <1>3, <1>4, <1>5, <1>6, <1>7, <1>8 DEF RetroStep, WorkerStep

LEMMA WakeMoves ==
  ASSUME Shape, Place
  PROVE  /\ \A at \in AtRow \cup {"off", "row", "done", "aborted"} : To(at) \in Wake
         /\ wake.at \in AtRow =>
              /\ NextRow \in Wake /\ NextRow.at = "row"
              /\ NextRow.row = wake.row + 1 /\ NextRow.sections = 0
              /\ NextRow.auto = wake.auto
         /\ wake.row \in 1..(Len(Rows) + 1) /\ wake.sections \in 0..MaxPromotions
         /\ wake.at \in AtRow => wake.row \in 1..Len(Rows)
<1>1. wake \in Wake
  BY DEF Shape
<1>2. wake.row \in 1..(Len(Rows) + 1) /\ wake.sections \in 0..MaxPromotions
  BY <1>1 DEF Wake
<1>3. wake.at \in AtRow => wake.row \in 1..Len(Rows)
  BY <1>2, Sizes DEF Place
<1>4. \A at \in AtRow \cup {"off", "row", "done", "aborted"} : To(at) \in Wake
  BY <1>1 DEF Wake, To, AtRow
<1>5. ASSUME wake.at \in AtRow
      PROVE  /\ NextRow \in Wake /\ NextRow.at = "row"
             /\ NextRow.row = wake.row + 1 /\ NextRow.sections = 0
             /\ NextRow.auto = wake.auto
  <2>1. wake.row + 1 \in 1..(Len(Rows) + 1) /\ 0 \in 0..MaxPromotions
    BY <1>3, <1>5, Sizes
  <2>2. QED BY <1>1, <2>1 DEF NextRow, Wake
<1>6. QED BY <1>2, <1>3, <1>4, <1>5

\* Where in the loop an action of it begins.
LEMMA WakeGuards ==
  ASSUME Shape, Place, WakeStep \/ Person
  PROVE  wake.at \in AtRow \cup {"row"} /\ Waking /\ main = "run"
<1>1. wake.at \in AtRow \cup {"row"}
  BY DEF WakeStep, Person, BeginRow, EndRows, DraftFails, Drafts, Measure, EnoughPromoted,
         EndMenu, EndFeedback, WriteEntry, AbortWake, Answers, ChooseAccept, ChooseSkip,
         ChooseEdit, ChooseDismiss, Feedback, Promote, CloseInput, AtRow, Asking
<1>2. QED BY <1>1 DEF Place, AtRow, Asking

LEMMA TallyNumbers ==
  ASSUME Shape
  PROVE  /\ tally.drafted \in Nat /\ tally.accepted \in Nat /\ tally.dismissed \in Nat
         /\ tally.skipped \in Nat /\ tally.below \in Nat /\ tally.failed \in Nat
         /\ tally.promoted \in Nat /\ tally.considered = Len(Rows)
BY DEF Shape, TallyShape

LEMMA TallyValues ==
  ASSUME NEW t \in TallyShape, NEW n \in Nat
  PROVE  /\ [t EXCEPT !.drafted = n] \in TallyShape
         /\ [t EXCEPT !.accepted = n] \in TallyShape
         /\ [t EXCEPT !.dismissed = n] \in TallyShape
         /\ [t EXCEPT !.promoted = n] \in TallyShape
         /\ [t EXCEPT !.skipped = n] \in TallyShape
BY DEF TallyShape

LEMMA LoopShape ==
  ASSUME Shape, Place, WakeStep \/ Person, UNCHANGED <<poolVars, verb, main, outcome>>
  PROVE  Shape'
<1>1. SUFFICES /\ line' \in Line /\ call' \in [Callers -> Call] /\ cancelled' = cancelled
               /\ wake' \in Wake /\ tally' \in TallyShape
               /\ journal' \in [Working -> States]
               /\ wrote' \in [Working -> {"nothing", "entry", "dismissal"}]
               /\ others' = others
  BY DEF Shape, PoolShape, TallyShape, poolVars
<1>2. /\ line \in Line /\ call \in [Callers -> Call] /\ wake \in Wake
      /\ tally \in TallyShape /\ journal \in [Working -> States]
      /\ wrote \in [Working -> {"nothing", "entry", "dismissal"}]
  BY DEF Shape
<1>3. \A r \in Line : Say(r) \in Line /\ Clear(r) \in Line /\ Status(r) \in Line
  BY LineTypes
<1>4. /\ [call EXCEPT ![Main] = NoCall] \in [Callers -> Call]
      /\ [call EXCEPT ![Main] = Complete(Main)] \in [Callers -> Call]
      /\ [call EXCEPT ![Main] = [NoCall EXCEPT !.at = "over", !.verdict = "refused"]]
           \in [Callers -> Call]
  BY <1>2, CallValues
<1>5. CASE BeginRow
  BY <1>2, <1>3, <1>4, <1>5, WakeMoves DEF BeginRow, Untouched, AtRow
<1>6. CASE EndRows
  BY <1>2, <1>6, WakeMoves DEF EndRows, Untouched
<1>7. CASE DraftFails
  <2>1. wake.at \in AtRow
    BY <1>7 DEF DraftFails, AtRow
  <2>2. tally' \in TallyShape
    <3>1. tally.skipped + 1 \in Nat /\ (tally.failed + IF wake.auto THEN 1 ELSE 0) \in Nat
      BY TallyNumbers
    <3>2. QED BY <1>2, <1>7, <3>1 DEF DraftFails, TallyShape
  <2>3. QED BY <1>2, <1>3, <1>4, <1>7, <2>1, <2>2, WakeMoves DEF DraftFails, Untouched
<1>8. CASE Drafts
  <2>1. tally' \in TallyShape
    <3>1. (tally.drafted + IF wake.at = "draft" THEN 1 ELSE 0) \in Nat
      BY TallyNumbers
    <3>2. QED BY <1>2, <1>8, <3>1 DEF Drafts, TallyShape
  <2>2. wake' \in Wake
    BY <1>8, WakeMoves DEF Drafts, AtRow, Asking
  <2>3. QED BY <1>2, <1>3, <1>4, <1>8, <2>1, <2>2 DEF Drafts, Untouched
<1>9. CASE Measure
  <2>1. wake' \in Wake
    BY <1>9, WakeMoves DEF Measure, AtRow
  <2>2. tally' \in TallyShape
    <3>1. tally.skipped + 1 \in Nat /\ tally.below + 1 \in Nat
      BY TallyNumbers
    <3>2. QED BY <1>2, <1>9, <3>1 DEF Measure, TallyShape
  <2>3. QED BY <1>2, <1>9, <2>1, <2>2 DEF Measure, Untouched
<1>10. CASE EnoughPromoted
  BY <1>2, <1>10, WakeMoves DEF EnoughPromoted, Untouched, AtRow
<1>11. CASE EndMenu
  <2>1. wake.at \in AtRow
    BY <1>11 DEF EndMenu, AtRow, Asking
  <2>2. tally.skipped + Len(Rows) - (wake.row - 1) \in Nat
    BY <2>1, WakeMoves, TallyNumbers, Sizes, SMTT(20)
  <2>3. tally' \in TallyShape
    BY <1>2, <1>11, <2>2 DEF EndMenu, TallyShape
  <2>4. QED BY <1>2, <1>3, <1>11, <2>3, WakeMoves DEF EndMenu, Untouched
<1>12. CASE EndFeedback
  <2>1. tally.skipped + 1 \in Nat
    BY TallyNumbers
  <2>2. tally' \in TallyShape
    BY <1>2, <1>12, <2>1, TallyValues DEF EndFeedback
  <2>3. wake' \in Wake
    BY <1>12, WakeMoves DEF EndFeedback, AtRow, Asking
  <2>4. QED BY <1>2, <1>12, <2>2, <2>3 DEF EndFeedback, Untouched
<1>13. CASE WriteEntry
  <2>1. wake.at \in AtRow
    BY <1>13 DEF WriteEntry, AtRow
  <2>2. tally' \in TallyShape
    <3>1. tally.accepted + 1 \in Nat
      BY TallyNumbers
    <3>2. QED BY <1>2, <1>13, <3>1, TallyValues DEF WriteEntry
  <2>3. /\ journal' \in [Working -> States]
        /\ wrote' \in [Working -> {"nothing", "entry", "dismissal"}]
    BY <1>2, <1>13 DEF WriteEntry, States
  <2>4. QED BY <1>2, <1>13, <2>1, <2>2, <2>3, WakeMoves DEF WriteEntry
<1>14. CASE AbortWake
  BY <1>2, <1>14, WakeMoves DEF AbortWake, Untouched
<1>15. CASE ChooseAccept
  BY <1>2, <1>3, <1>15, WakeMoves DEF ChooseAccept, Untouched, AtRow, Asking
<1>16. CASE ChooseSkip
  <2>1. tally.skipped + 1 \in Nat
    BY TallyNumbers
  <2>2. tally' \in TallyShape
    BY <1>2, <1>16, <2>1, TallyValues DEF ChooseSkip
  <2>3. wake' \in Wake
    BY <1>16, WakeMoves DEF ChooseSkip, Answers, AtRow, Asking
  <2>4. QED BY <1>2, <1>16, <2>2, <2>3 DEF ChooseSkip, Untouched
<1>17. CASE ChooseEdit
  BY <1>2, <1>3, <1>17, WakeMoves DEF ChooseEdit, Untouched, AtRow, Asking
<1>18. CASE ChooseDismiss
  <2>1. wake.at \in AtRow
    BY <1>18 DEF ChooseDismiss, Answers, AtRow, Asking
  <2>2. tally' \in TallyShape
    <3>1. tally.dismissed + 1 \in Nat /\ tally.skipped + 1 \in Nat
      BY TallyNumbers
    <3>2. \/ tally' = [tally EXCEPT !.dismissed = tally.dismissed + 1]
          \/ tally' = [tally EXCEPT !.skipped = tally.skipped + 1]
      BY <1>18 DEF ChooseDismiss
    <3>3. QED BY <1>2, <3>1, <3>2 DEF TallyShape
  <2>3. /\ journal' \in [Working -> States]
        /\ wrote' \in [Working -> {"nothing", "entry", "dismissal"}]
        /\ line' \in Line
    BY <1>2, <1>3, <1>18 DEF ChooseDismiss, States
  <2>4. QED BY <1>2, <1>18, <2>1, <2>2, <2>3, WakeMoves DEF ChooseDismiss
<1>19. CASE Feedback
  BY <1>2, <1>3, <1>4, <1>19, WakeMoves DEF Feedback, Untouched, AtRow
<1>20. CASE Promote
  <2>1. wake' \in Wake
    <3>1. wake.sections + 1 \in 0..MaxPromotions
      BY <1>20, WakeMoves, Sizes DEF Promote
    <3>2. QED BY <1>2, <1>20, <3>1 DEF Promote, Wake
  <2>2. tally' \in TallyShape
    <3>1. tally.promoted + 1 \in Nat
      BY TallyNumbers
    <3>2. QED BY <1>2, <1>20, <3>1, TallyValues DEF Promote
  <2>3. QED BY <1>2, <1>3, <1>20, <2>1, <2>2 DEF Promote, Untouched
<1>21. CASE CloseInput
  BY <1>2, <1>21 DEF CloseInput, Untouched, Wake
<1>22. QED BY <1>5, <1>6, <1>7, <1>8, <1>9, <1>10, <1>11, <1>12, <1>13, <1>14, <1>15,
             <1>16, <1>17, <1>18, <1>19, <1>20, <1>21 DEF WakeStep, Person

LEMMA ShapeStep ==
  ASSUME IInv, [Next]_vars
  PROVE  Shape'
<1> USE DEF IInv
<1>1. CASE Main_
  BY <1>1, MainShape
<1>2. CASE RetroStep
  BY <1>2, RetroShape
<1>3. CASE Loop
  BY <1>3, LoopShape DEF Loop
<1>4. CASE Asked
  BY <1>4, LoopShape DEF Asked
<1>5. CASE Elsewhere
  <2>1. PICK s \in Working : OtherVerb(s)
    BY <1>5 DEF Elsewhere
  <2>2. journal' \in [Working -> States] /\ others' \in 0..MaxOthers
    <3>1. journal' \in [Working -> States]
      BY <2>1 DEF OtherVerb, Shape
    <3>2. others' \in 0..MaxOthers
      <4>1. others \in 0..MaxOthers /\ others < MaxOthers /\ others' = others + 1
        BY <2>1 DEF OtherVerb, Shape
      <4>2. QED BY <4>1, Sizes
    <3>3. QED BY <3>1, <3>2
  <2>3. UNCHANGED <<line, call, cancelled, pool, worker, wake, tally, wrote,
                    verb, main, outcome>>
    BY <1>5, <2>1 DEF Elsewhere, OtherVerb, poolVars
  <2>4. QED BY <2>2, <2>3 DEF Shape
<1>6. CASE Endpoint
  <2>1. PICK c \in Callers : CallStep(c)
    BY <1>6 DEF Endpoint
  <2>2. call' \in [Callers -> Call] /\ UNCHANGED cancelled
    BY <2>1, CallTypes DEF Shape
  <2>3. QED BY <1>6, <2>2 DEF Endpoint, Shape, poolVars, wakeVars
<1>7. CASE Drawing
  <2>1. line' \in Line
    <3>1. line \in Line
      BY DEF Shape
    <3>2. CASE Tick
      BY <3>1, <3>2, LineTypes DEF Tick
    <3>3. CASE Quit
      BY <3>1, <3>3 DEF Quit, Line
    <3>4. QED BY <1>7, <3>2, <3>3 DEF Drawing
  <2>2. QED BY <1>7, <2>1 DEF Drawing, Shape, poolVars, wakeVars
<1>8. CASE UNCHANGED vars
  BY <1>8 DEF vars, wakeVars, Shape
<1>9. QED BY <1>1, <1>2, <1>3, <1>4, <1>5, <1>6, <1>7, <1>8 DEF Next, Ended

-----------------------------------------------------------------------------
(* Where the verb is. *)

LEMMA PlaceStep ==
  ASSUME IInv, [Next]_vars
  PROVE  Place'
<1> USE DEF IInv
<1>1. CASE Main_
  <2>1. CASE BeginBrief
    BY <1>1, <2>1 DEF BeginBrief, poolVars, wakeVars, Place, Waking
  <2>2. CASE EndBrief
    BY <2>2 DEF EndBrief, poolVars, wakeVars, Place, Waking
  <2>3. CASE EndRetro
    BY <2>3 DEF EndRetro, poolVars, wakeVars, Place, Waking
  <2>4. CASE EndWake
    BY <2>4 DEF EndWake, poolVars, wakeVars, Place, Waking
  <2>5. CASE PrintOut
    BY <2>5 DEF PrintOut, poolVars, wakeVars, Place, Waking
  <2>6. CASE StopLine
    BY <2>6 DEF StopLine, poolVars, wakeVars, Place, Waking
  <2>7. CASE Exit
    BY <2>7 DEF Exit, poolVars, wakeVars, Place, Waking
  <2>8. QED BY <1>1, <2>1, <2>2, <2>3, <2>4, <2>5, <2>6, <2>7 DEF Main_
<1>2. CASE RetroStep
  BY <1>2 DEF RetroStep, Place, Waking, wakeVars
<1>3. CASE Loop \/ Asked
  <2>1. /\ WakeStep \/ Person
        /\ UNCHANGED <<poolVars, verb, main, outcome>>
    BY <1>3 DEF Loop, Asked
  <2>2. wake.at \in AtRow \cup {"row"} /\ Waking /\ main = "run"
    BY <2>1, WakeGuards
  <2>3. /\ wake'.at \in AtRow \cup {"row", "done", "aborted"}
        /\ wake'.at \in AtRow => wake'.row <= Len(Rows)
    <3>1. wake \in Wake /\ (wake.at \in AtRow => wake.row <= Len(Rows))
      BY DEF Shape, Place
    <3>2. \A at \in AtRow \cup {"row", "done", "aborted"} :
            To(at).at = at /\ To(at).row = wake.row
      BY <3>1 DEF To, Wake
    <3>3. NextRow.at = "row"
      BY <3>1 DEF NextRow, Wake
    <3>4. CASE BeginRow
      BY <3>2, <3>4 DEF BeginRow, AtRow
    <3>5. CASE EndRows
      BY <3>2, <3>5 DEF EndRows, AtRow, Asking
    <3>6. CASE DraftFails \/ Measure
      BY <3>1, <3>2, <3>3, <3>6 DEF DraftFails, Measure, AtRow, Asking
    <3>7. CASE Drafts
      BY <3>1, <3>2, <3>7 DEF Drafts, AtRow, Asking
    <3>8. CASE EnoughPromoted \/ AbortWake \/ ChooseAccept \/ ChooseEdit \/ Feedback
      BY <3>1, <3>2, <3>8
      DEF EnoughPromoted, AbortWake, ChooseAccept, ChooseEdit, Feedback, Answers,
          AtRow, Asking
    <3>9. CASE EndMenu
      BY <3>2, <3>9 DEF EndMenu, AtRow, Asking
    <3>10. CASE EndFeedback \/ WriteEntry \/ ChooseSkip \/ ChooseDismiss
      BY <3>3, <3>10 DEF EndFeedback, WriteEntry, ChooseSkip, ChooseDismiss, AtRow, Asking
    <3>11. CASE Promote \/ CloseInput
      BY <3>1, <3>11 DEF Promote, CloseInput, Answers, Wake, AtRow, Asking
    <3>12. QED BY <2>1, <3>4, <3>5, <3>6, <3>7, <3>8, <3>9, <3>10, <3>11
           DEF WakeStep, Person
  <2>4. QED BY <2>1, <2>2, <2>3 DEF Place, Waking, poolVars, AtRow, Asking
<1>4. CASE Elsewhere
  BY <1>4 DEF Elsewhere, OtherVerb, poolVars, Place, Waking
<1>5. CASE Endpoint
  BY <1>5 DEF Endpoint, poolVars, wakeVars, Place, Waking
<1>6. CASE Drawing
  BY <1>6 DEF Drawing, poolVars, wakeVars, Place, Waking
<1>7. CASE UNCHANGED vars
  BY <1>7 DEF vars, wakeVars, Place, Waking
<1>8. QED BY <1>1, <1>2, <1>3, <1>4, <1>5, <1>6, <1>7 DEF Next, Ended

-----------------------------------------------------------------------------
(* The calls and their cancellation. *)

\* A worker's own steps leave the other workers and their calls alone.
LEMMA OwnSteps ==
  ASSUME Shape, NEW c \in Callers, WorkerStep(c)
  PROVE  \A d \in Callers \ {c} : worker'[d] = worker[d] /\ call'[d] = call[d]
<1>1. worker \in [Callers -> Worker] /\ call \in [Callers -> Call]
  BY DEF Shape
<1>2. CASE Dispatch(c)
  BY <1>1, <1>2 DEF Dispatch
<1>3. CASE Lookup(c)
  BY <1>1, <1>3 DEF Lookup
<1>4. CASE Answer(c)
  BY <1>1, <1>4 DEF Answer
<1>5. CASE Tally(c)
  BY <1>1, <1>5 DEF Tally
<1>6. CASE Leave(c)
  BY <1>1, <1>6 DEF Leave
<1>7. QED BY <1>2, <1>3, <1>4, <1>5, <1>6 DEF WorkerStep

CallTrue(c) ==
  /\ Over(c) /\ call[c].verdict = "ok" => call[c].text = "whole"
  /\ ~Over(c) => call[c].verdict = "ok"
  /\ call[c].verdict = "cancelled" => cancelled
  /\ worker[c].at \in {"miss", "failed"} => Over(c)
  /\ worker[c].at = "miss" => call[c].verdict = "ok"
  /\ worker[c].at = "failed" => call[c].verdict # "ok"

LEMMA WorkerCalls ==
  ASSUME Shape, CallsTrue, CacheTrue, PoolTrue, NEW c \in Callers, WorkerStep(c)
  PROVE  /\ \A d \in Callers : CallTrue(d)'
         /\ cancelled' <=> pool'.error # "none"
         /\ pool'.error # "cancelled"
<1>1. worker \in [Callers -> Worker] /\ call \in [Callers -> Call] /\ pool \in PoolShape
  BY DEF Shape
<1>2. (cancelled <=> pool.error # "none") /\ pool.error # "cancelled"
  BY DEF CallsTrue
<1>3. ASSUME cancelled => cancelled', CallTrue(c)'
      PROVE  \A d \in Callers : CallTrue(d)'
  BY <1>3, OwnSteps DEF CallTrue, CallsTrue, Over
<1>4. CASE Dispatch(c)
  <2>1. worker'[c].at = "lookup" /\ UNCHANGED <<call, cancelled>> /\ pool'.error = pool.error
    BY <1>1, <1>4 DEF Dispatch, PoolShape
  <2>2. CallTrue(c)'
    BY <2>1 DEF CallsTrue, CallTrue, Over
  <2>3. QED BY <1>2, <1>3, <2>1, <2>2
<1>5. CASE Lookup(c)
  <2>1. /\ worker'[c].at \in {"hit", "call"} /\ UNCHANGED <<cancelled, pool>>
        /\ call'[c] \in {call[c], Complete(c)}
    BY <1>1, <1>5 DEF Lookup, Worker
  <2>2. CallTrue(c)'
    BY <2>1 DEF CallsTrue, CallTrue, Over, Complete, NoCall
  <2>3. QED BY <1>2, <1>3, <2>1, <2>2
<1>6. CASE Answer(c)
  <2>1. /\ worker'[c].at = IF call[c].verdict = "ok" THEN "miss" ELSE "failed"
        /\ Over(c) /\ UNCHANGED <<call, cancelled, pool>>
    BY <1>1, <1>6 DEF Answer, Worker
  <2>2. CallTrue(c)'
    BY <2>1 DEF CallsTrue, CallTrue, Over
  <2>3. QED BY <1>2, <1>3, <2>1, <2>2
<1>7. CASE Leave(c)
  <2>1. worker'[c].at = "gone" /\ UNCHANGED <<call, cancelled, pool>>
    BY <1>1, <1>7 DEF Leave, Worker
  <2>2. CallTrue(c)'
    BY <2>1 DEF CallsTrue, CallTrue, Over
  <2>3. QED BY <1>2, <1>3, <2>1, <2>2
<1>8. CASE Tally(c)
  <2>1. worker'[c].at = "ready" /\ call'[c] = NoCall
    BY <1>1, <1>8 DEF Tally
  <2>2. CallTrue(c)'
    BY <2>1 DEF CallTrue, Over, NoCall
  <2>3. CASE TallyHit(c) \/ TallyMiss(c)
    <3>1. pool'.error = pool.error /\ UNCHANGED cancelled
      BY <2>3, TalliedSummary
    <3>2. QED BY <1>2, <1>3, <2>2, <3>1
  <2>4. CASE TallyFailure(c)
    <3>1. call[c].verdict \in Verdicts \ {"ok"}
      BY <1>1, <2>4 DEF TallyFailure, CallsTrue, Call
    <3>2. ~cancelled => call[c].verdict # "cancelled"
      BY DEF CallsTrue
    <3>3. pool'.error = (IF pool.error = "none" THEN call[c].verdict ELSE pool.error)
          /\ cancelled' = TRUE
      BY <1>1, <2>4 DEF TallyFailure, PoolShape
    <3>4. QED BY <1>2, <1>3, <2>2, <3>1, <3>2, <3>3 DEF Verdicts
  <2>5. QED BY <1>8, <2>3, <2>4 DEF Tally
<1>9. QED BY <1>4, <1>5, <1>6, <1>7, <1>8 DEF WorkerStep

LEMMA CallsStep ==
  ASSUME IInv, [Next]_vars
  PROVE  CallsTrue'
<1> USE DEF IInv
<1>0. /\ call \in [Callers -> Call] /\ cancelled \in BOOLEAN /\ Main \in Callers
      /\ worker \in [Callers -> Worker] /\ pool \in PoolShape
      /\ \A d \in Callers : CallTrue(d)
  BY Sizes DEF Shape, CallsTrue, CallTrue
<1>1. CASE Main_
  <2>1. UNCHANGED <<cancelled, pool, worker, verb>>
    BY <1>1 DEF Main_, BeginBrief, EndBrief, EndRetro, EndWake, PrintOut, StopLine, Exit,
                poolVars
  <2>2. CASE BeginBrief
    <3>1. call' = [call EXCEPT ![Main] = Complete(Main)] /\ UNCHANGED outcome
          /\ verb = "brief"
      BY <2>2 DEF BeginBrief, wakeVars
    <3>0. worker[Main].at = "ready"
      BY <1>0, <3>1 DEF Place
    <3>2. \A d \in Callers : CallTrue(d)'
      BY <1>0, <2>1, <3>0, <3>1 DEF CallTrue, Over, Complete, NoCall
    <3>3. QED BY <2>1, <3>1, <3>2 DEF CallsTrue, CallTrue
  <2>3. CASE EndBrief
    <3>1. UNCHANGED call /\ outcome' = call[Main].verdict /\ verb = "brief"
      BY <2>3 DEF EndBrief
    <3>2. outcome' # "cancelled"
      BY <1>0, <3>1 DEF CallsTrue
    <3>3. QED BY <2>1, <3>1, <3>2 DEF CallsTrue, Over
  <2>4. CASE EndRetro \/ EndWake
    <3>1. UNCHANGED call /\ outcome' # "cancelled"
      BY <2>4 DEF EndRetro, EndWake, CallsTrue
    <3>2. QED BY <2>1, <3>1 DEF CallsTrue, Over
  <2>5. CASE PrintOut \/ StopLine \/ Exit
    <3>1. UNCHANGED <<call, outcome>>
      BY <2>5 DEF PrintOut, StopLine, Exit
    <3>2. QED BY <2>1, <3>1 DEF CallsTrue, Over
  <2>6. QED BY <1>1, <2>2, <2>3, <2>4, <2>5 DEF Main_
<1>2. CASE RetroStep
  <2>1. verb = "retro" /\ UNCHANGED <<verb, outcome>>
    BY <1>2 DEF RetroStep
  <2>2. CASE BeginPool \/ CloseQueue \/ EndPool
    <3>1. UNCHANGED <<call, cancelled, worker>> /\ pool'.error = pool.error
      BY <1>0, <2>2 DEF BeginPool, CloseQueue, EndPool, PoolShape
    <3>2. QED BY <2>1, <3>1 DEF CallsTrue, Over
  <2>3. CASE \E c \in Callers : WorkerStep(c)
    BY <2>1, <2>3, WorkerCalls DEF CallsTrue, CallTrue
  <2>4. QED BY <1>2, <2>2, <2>3 DEF RetroStep
<1>3. CASE Loop \/ Asked
  <2>1. /\ WakeStep \/ Person
        /\ UNCHANGED <<pool, worker, verb, outcome>>
    BY <1>3 DEF Loop, Asked, poolVars
  <2>2. \A d \in Callers : worker[d].at = "ready"
    BY <2>1, WakeGuards DEF Waking, Place
  <2>3. /\ UNCHANGED cancelled
        /\ \/ UNCHANGED call
           \/ call' = [call EXCEPT ![Main] = NoCall]
           \/ call' = [call EXCEPT ![Main] = Complete(Main)]
           \/ call' = [call EXCEPT ![Main] = [NoCall EXCEPT !.at = "over",
                                                           !.verdict = "refused"]]
    BY <2>1
    DEF WakeStep, Person, BeginRow, EndRows, DraftFails, Drafts, Measure, EnoughPromoted,
        EndMenu, EndFeedback, WriteEntry, AbortWake, ChooseAccept, ChooseSkip, ChooseEdit,
        ChooseDismiss, Feedback, Promote, CloseInput, Untouched
  <2>4. \A d \in Callers : CallTrue(d)'
    <3>1. \A d \in Callers :
            \/ call'[d] = call[d]
            \/ call'[d].at \in {"none", "dial"} /\ call'[d].verdict = "ok"
            \/ call'[d].at = "over" /\ call'[d].verdict = "refused"
      <4>1. ASSUME NEW new, call' = [call EXCEPT ![Main] = new]
            PROVE  \A d \in Callers : call'[d] \in {call[d], new}
        BY <1>0, <4>1
      <4>2. /\ NoCall.at = "none" /\ NoCall.verdict = "ok"
            /\ Complete(Main).at = "dial" /\ Complete(Main).verdict = "ok"
            /\ [NoCall EXCEPT !.at = "over", !.verdict = "refused"].at = "over"
            /\ [NoCall EXCEPT !.at = "over", !.verdict = "refused"].verdict = "refused"
        BY DEF Complete, NoCall
      <4>3. CASE UNCHANGED call
        BY <4>3
      <4>4. CASE call' = [call EXCEPT ![Main] = NoCall]
        BY <4>1, <4>2, <4>4
      <4>5. CASE call' = [call EXCEPT ![Main] = Complete(Main)]
        BY <4>1, <4>2, <4>5
      <4>6. CASE call' = [call EXCEPT ![Main] = [NoCall EXCEPT !.at = "over",
                                                              !.verdict = "refused"]]
        BY <4>1, <4>2, <4>6
      <4>7. QED BY <2>3, <4>3, <4>4, <4>5, <4>6
    <3>2. QED BY <1>0, <2>1, <2>2, <2>3, <3>1 DEF CallTrue, Over
  <2>5. QED BY <2>1, <2>3, <2>4 DEF CallsTrue, CallTrue
<1>4. CASE Elsewhere
  BY <1>4 DEF Elsewhere, OtherVerb, poolVars, CallsTrue, Over
<1>5. CASE Endpoint
  <2>1. PICK c \in Callers : CallStep(c)
    BY <1>5 DEF Endpoint
  <2>2. UNCHANGED <<pool, worker, verb, outcome, cancelled>>
    BY <1>0, <1>5, <2>1, CallTypes DEF Endpoint, poolVars
  <2>3. \A d \in Callers : CallTrue(d)'
    <3>1. SUFFICES ASSUME NEW d \in Callers PROVE CallTrue(d)'
      BY DEF CallTrue
    <3>2. call[d] \in Call /\ call'[d] \in Call /\ CallTrue(d)
      BY <1>0, <2>1, CallTypes
    <3>3. CASE ~Calling(d)
      <4>1. call'[d] = call[d]
        BY <1>0, <2>1, <3>3, CallTypes
      <4>2. QED BY <2>2, <3>2, <4>1 DEF CallTrue, Over
    <3>4. CASE Calling(d)
      <4>1. /\ call'[d].at = "over" /\ call'[d].verdict = "ok" => call'[d].text = "whole"
            /\ call'[d].at # "over" => call'[d].verdict = call[d].verdict
            /\ call'[d].verdict = "cancelled" => cancelled \/ call[d].verdict = "cancelled"
        BY <1>0, <2>1, <3>4, CallTypes
      <4>2. call[d].at # "over"
        BY <3>4 DEF Calling
      <4>3. QED BY <2>2, <3>2, <4>1, <4>2 DEF CallTrue, Over
    <3>5. QED BY <3>3, <3>4
  <2>4. QED BY <2>2, <2>3 DEF CallsTrue, CallTrue
<1>6. CASE Drawing
  BY <1>6 DEF Drawing, poolVars, CallsTrue, Over
<1>7. CASE UNCHANGED vars
  BY <1>7 DEF vars, CallsTrue, Over
<1>8. QED BY <1>1, <1>2, <1>3, <1>4, <1>5, <1>6, <1>7 DEF Next, Ended

-----------------------------------------------------------------------------
(* The summary cache. *)

LEMMA CacheStep ==
  ASSUME IInv, [Next]_vars
  PROVE  CacheTrue'
<1> USE DEF IInv
<1>1. CASE UNCHANGED cache
  BY <1>1 DEF CacheTrue
<1>2. ASSUME NEW c \in Callers, Answer(c), RetroStep
      PROVE  CacheTrue'
  <2> DEFINE f == Jobs[worker[c].job]
  <2>1. CASE call[c].verdict = "ok"
    <3>1. Busy(c) /\ Over(c)
      BY <1>2 DEF Answer, Busy
    <3>2. f \in Facts
      BY <3>1, GivenJobs, Sizes
    <3>3. call[c].text = "whole"
      BY <2>1, <3>1 DEF CallsTrue
    <3>4. \A file \in cache' : file \in cache \/ file = File(f, "whole")
      BY <1>2, <2>1, <3>3 DEF Answer
    <3>5. QED BY <3>2, <3>4 DEF CacheTrue
  <2>2. CASE call[c].verdict # "ok"
    BY <1>1, <1>2, <2>2 DEF Answer
  <2>3. QED BY <2>1, <2>2
<1>3. CASE RetroStep
  <2>1. CASE BeginPool \/ CloseQueue \/ EndPool
    BY <1>1, <2>1 DEF BeginPool, CloseQueue, EndPool
  <2>2. ASSUME NEW c \in Callers, WorkerStep(c) PROVE CacheTrue'
    BY <1>1, <1>2, <1>3, <2>2 DEF WorkerStep, Dispatch, Lookup, Tally, Leave
  <2>3. QED BY <1>3, <2>1, <2>2 DEF RetroStep
<1>4. CASE Main_ \/ Loop \/ Asked \/ Elsewhere \/ Endpoint \/ Drawing \/ UNCHANGED vars
  BY <1>1, <1>4
  DEF Main_, BeginBrief, EndBrief, EndRetro, EndWake, PrintOut, StopLine, Exit, Loop, Asked,
      Elsewhere, Endpoint, Drawing, poolVars, vars
<1>5. QED BY <1>3, <1>4 DEF Next, Ended

-----------------------------------------------------------------------------
(* retro's pool. *)

\* What PoolTrue says of one worker, and of a pair.
LEMMA WorkersApart ==
  ASSUME PoolTrue, NEW c \in Callers, NEW d \in Callers, Busy(c), c # d
  PROVE  worker[d].job # worker[c].job
BY DEF PoolTrue

LEMMA DispatchPool ==
  ASSUME Shape, PoolTrue, NEW c \in Callers, Dispatch(c)
  PROVE  PoolTrue'
<1> DEFINE j == Len(Jobs) - Len(pool.left) + 1
<1>1. /\ worker \in [Callers -> Worker] /\ pool \in PoolShape
      /\ pool.left \in Seq(Facts) /\ pool.left # <<>> /\ worker[c].at = "ready"
      /\ pool.at = "dispatch"
  BY DEF Shape, PoolShape, Dispatch
<1>2. Len(pool.left) \in 0..Len(Jobs) /\ Len(Jobs) \in Nat
  BY GivenJobs, Sizes
<1>3. Len(pool.left) \in 1..Len(Jobs) /\ Len(Tail(pool.left)) = Len(pool.left) - 1
  BY <1>1, <1>2
<1>4. /\ pool' = [pool EXCEPT !.left = Tail(@)] /\ UNCHANGED cancelled
      /\ worker'[c] = [at |-> "lookup", job |-> j]
      /\ \A d \in Callers \ {c} : worker'[d] = worker[d]
  BY <1>1 DEF Dispatch
<1>5. /\ pool'.at = "dispatch" /\ pool'.left = Tail(pool.left)
      /\ pool'.summaries = pool.summaries
      /\ pool'.hits = pool.hits /\ pool'.requests = pool.requests
  BY <1>1, <1>4 DEF PoolShape
<1>6. /\ Len(pool'.left) = Len(pool.left) - 1 /\ j \in 1..Len(Jobs)
      /\ Given' = Given \cup {j} /\ j \notin Given /\ Tallied' = Tallied
  <2>1. Len(pool'.left) = Len(pool.left) - 1 /\ Tallied' = Tallied
    BY <1>3, <1>5 DEF Tallied
  <2> DEFINE k == Len(Jobs) - Len(pool.left)
  <2>2. k \in Nat /\ j = k + 1 /\ j \in 1..Len(Jobs)
    BY <1>2, <1>3
  <2>3. Given = 1..k /\ Given' = 1..(k + 1)
    BY <1>2, <1>3, <2>1 DEF Given
  <2> HIDE DEF j, k
  <2>4. QED BY <2>1, <2>2, <2>3
<1>7. Busy(c)' /\ worker'[c].job = j /\ \A d \in Callers \ {c} : Busy(d)' <=> Busy(d)
  BY <1>4 DEF Busy
<1> HIDE DEF j
<1>8. ~Busy(c)
  BY <1>1 DEF Busy
<1>9. \A d \in Callers : worker[d].job # j
  <2>1. \A d \in Callers : worker[d].job \in Given \cup {0}
    BY DEF PoolTrue
  <2>2. QED BY <1>6, <2>1
<1>10. /\ \A d \in Callers : /\ ~Busy(d)' => worker'[d].job = 0
                             /\ Busy(d)' => worker'[d].job \in Given' \ Tallied'
       /\ \A d, e \in Callers : Busy(d)' /\ worker'[d].job = worker'[e].job => d = e
  <2>1. j \notin Tallied
    BY <1>6 DEF PoolTrue
  <2>2. \A d \in Callers : /\ ~Busy(d)' => worker'[d].job = 0
                           /\ Busy(d)' => worker'[d].job \in Given' \ Tallied'
    BY <1>4, <1>6, <1>7, <2>1 DEF PoolTrue
  <2>3. \A d, e \in Callers : Busy(d)' /\ worker'[d].job = worker'[e].job => d = e
    BY <1>4, <1>7, <1>9 DEF PoolTrue
  <2>4. QED BY <2>2, <2>3
<1>11. ~cancelled' => \A i \in Given' \ Tallied' :
                        \E d \in Callers : Busy(d)' /\ worker'[d].job = i
  <2>1. SUFFICES ASSUME ~cancelled, NEW i \in Given' \ Tallied'
                 PROVE  \E d \in Callers : Busy(d)' /\ worker'[d].job = i
    BY <1>4
  <2>2. CASE i = j
    BY <1>7, <2>2
  <2>3. CASE i # j
    <3>1. PICK d \in Callers : Busy(d) /\ worker[d].job = i
      BY <1>6, <2>1, <2>3 DEF PoolTrue
    <3>2. d # c
      BY <1>8, <3>1
    <3>3. QED BY <1>4, <1>7, <3>1, <3>2
  <2>4. QED BY <2>2, <2>3
<1>12. QED BY <1>2, <1>4, <1>5, <1>6, <1>10, <1>11 DEF PoolTrue, Tallied

LEMMA TallyPool ==
  ASSUME Shape, CallsTrue, CacheTrue, PoolTrue, NEW c \in Callers, Tally(c)
  PROVE  PoolTrue'
<1> DEFINE j == worker[c].job
<1>1. /\ worker \in [Callers -> Worker] /\ pool \in PoolShape
      /\ pool.hits \in Nat /\ pool.requests \in Nat
  BY DEF Shape, PoolShape
<1>2. Busy(c) /\ j \in Given \ Tallied
  BY DEF Tally, TallyHit, TallyMiss, TallyFailure, Busy, PoolTrue
<1>3. /\ worker'[c] = [at |-> "ready", job |-> 0]
      /\ \A d \in Callers \ {c} : worker'[d] = worker[d]
  BY <1>1 DEF Tally
<1>4. ~Busy(c)' /\ worker'[c].job = 0 /\ \A d \in Callers \ {c} : Busy(d)' <=> Busy(d)
  BY <1>3 DEF Busy
<1>5. \A d \in Callers \ {c} : worker[d].job # j
  BY <1>2, WorkersApart
<1>6. pool.at # "done"
  BY <1>2 DEF Busy, PoolTrue
<1> HIDE DEF j
<1>7. \A d, e \in Callers : Busy(d)' /\ worker'[d].job = worker'[e].job => d = e
  <2>1. SUFFICES ASSUME NEW d \in Callers, NEW e \in Callers,
                        Busy(d)', worker'[d].job = worker'[e].job, d # e
                 PROVE  FALSE
    OBVIOUS
  <2>2. d # c /\ Busy(d)
    BY <1>4, <2>1
  <2>3. worker[d].job # 0
    BY <2>2, GivenJobs, Sizes
  <2>4. e # c
    BY <1>3, <1>4, <2>1, <2>2, <2>3
  <2>5. QED BY <1>3, <2>1, <2>2, <2>4, WorkersApart
<1>8. CASE TallyHit(c) \/ TallyMiss(c)
  <2>1. /\ pool'.at = pool.at /\ pool'.left = pool.left
        /\ pool'.hits + pool'.requests = pool.hits + pool.requests + 1
        /\ Tallied' = Tallied \cup {j}
        /\ \A i \in Tallied' : EntryKey(pool'.summaries[i].of) = EntryKey(Jobs[i])
        /\ UNCHANGED cancelled
    BY <1>8, TalliedSummary DEF Tallied, j
  <2>2. Given' = Given
    BY <2>1 DEF Given
  <2>3. Cardinality(Tallied') = Cardinality(Tallied) + 1
    BY <1>2, <2>1, FS_AddElement, GivenJobs
  <2>4. pool'.hits + pool'.requests = Cardinality(Tallied')
    BY <2>1, <2>3 DEF PoolTrue
  <2>5. \A d \in Callers : /\ ~Busy(d)' => worker'[d].job = 0
                           /\ Busy(d)' => worker'[d].job \in Given' \ Tallied'
    BY <1>3, <1>4, <1>5, <2>1, <2>2 DEF PoolTrue
  <2>6. ~cancelled' => \A i \in Given' \ Tallied' :
                         \E d \in Callers : Busy(d)' /\ worker'[d].job = i
    <3>1. SUFFICES ASSUME ~cancelled, NEW i \in Given \ Tallied, i # j
                   PROVE  \E d \in Callers : Busy(d)' /\ worker'[d].job = i
      BY <2>1, <2>2
    <3>2. PICK d \in Callers : Busy(d) /\ worker[d].job = i
      BY <3>1 DEF PoolTrue
    <3>3. d # c
      BY <3>1, <3>2 DEF j
    <3>4. QED BY <1>3, <1>4, <3>2, <3>3
  <2>7. Tallied' \subseteq Given'
    BY <1>2, <2>1, <2>2 DEF PoolTrue
  <2>8. QED BY <1>6, <1>7, <2>1, <2>4, <2>5, <2>6, <2>7 DEF PoolTrue
<1>9. CASE TallyFailure(c)
  <2>1. /\ pool'.at = pool.at /\ pool'.left = pool.left
        /\ pool'.hits = pool.hits /\ pool'.requests = pool.requests
        /\ pool'.summaries = pool.summaries /\ cancelled'
    BY <1>1, <1>9 DEF TallyFailure, PoolShape
  <2>2. Given' = Given /\ Tallied' = Tallied
    BY <2>1 DEF Given, Tallied
  <2>3. \A d \in Callers : /\ ~Busy(d)' => worker'[d].job = 0
                           /\ Busy(d)' => worker'[d].job \in Given' \ Tallied'
    BY <1>3, <1>4, <2>2 DEF PoolTrue
  <2>4. QED BY <1>6, <1>7, <2>1, <2>2, <2>3 DEF PoolTrue
<1>10. QED BY <1>8, <1>9 DEF Tally

\* A worker that keeps its job, or has none, changes nothing of the pool.
LEMMA SameJobs ==
  ASSUME Shape, PoolTrue, UNCHANGED <<pool, cancelled>>,
         \A d \in Callers : /\ worker'[d].job = worker[d].job
                            /\ Busy(d)' <=> Busy(d)
                            /\ worker[d].at = "gone" => worker'[d].at = "gone"
  PROVE  PoolTrue'
<1>1. Given' = Given /\ Tallied' = Tallied
  BY DEF Given, Tallied
<1>2. pool'.at = "done" => \A d \in Callers : worker'[d].at = "gone"
  BY DEF PoolTrue
<1>3. ~cancelled' => \A i \in Given' \ Tallied' :
                       \E d \in Callers : Busy(d)' /\ worker'[d].job = i
  BY <1>1 DEF PoolTrue
<1>4. QED BY <1>1, <1>2, <1>3 DEF PoolTrue

LEMMA PoolStep ==
  ASSUME IInv, [Next]_vars
  PROVE  PoolTrue'
<1> USE DEF IInv
<1>0. /\ call \in [Callers -> Call] /\ worker \in [Callers -> Worker]
      /\ pool \in PoolShape
  BY DEF Shape
<1>1. CASE UNCHANGED <<pool, worker, cancelled>>
  BY <1>1, SameJobs DEF Busy
<1>2. CASE RetroStep
  <2>1. ASSUME UNCHANGED <<worker, cancelled>>, pool'.left = pool.left,
               pool'.summaries = pool.summaries, pool'.hits = pool.hits,
               pool'.requests = pool.requests,
               pool'.at = "start" => pool.at = "start",
               pool'.at \in {"closed", "done"} => pool.left = <<>> \/ cancelled,
               pool'.at = "done" => \A c \in Callers : worker[c].at = "gone"
        PROVE  PoolTrue'
    <3>1. Given' = Given /\ Tallied' = Tallied /\ \A d \in Callers : Busy(d)' <=> Busy(d)
      BY <2>1 DEF Given, Tallied, Busy
    <3>2. ~cancelled' => \A i \in Given' \ Tallied' :
                           \E d \in Callers : Busy(d)' /\ worker'[d].job = i
      BY <2>1, <3>1 DEF PoolTrue
    <3>3. QED BY <2>1, <3>1, <3>2 DEF PoolTrue
  <2>2. CASE BeginPool
    BY <1>0, <2>1, <2>2 DEF BeginPool, PoolShape
  <2>3. CASE CloseQueue
    BY <1>0, <2>1, <2>3 DEF CloseQueue, PoolShape
  <2>4. CASE EndPool
    <3>1. pool.at = "closed" /\ pool' = [pool EXCEPT !.at = "done"]
          /\ UNCHANGED <<worker, cancelled>> /\ \A c \in Callers : worker[c].at = "gone"
      BY <2>4 DEF EndPool
    <3>2. pool.left = <<>> \/ cancelled
      BY <3>1 DEF PoolTrue
    <3>3. QED BY <1>0, <2>1, <3>1, <3>2 DEF PoolShape
  <2>5. ASSUME NEW c \in Callers, Dispatch(c) PROVE PoolTrue'
    BY <2>5, DispatchPool
  <2>6. ASSUME NEW c \in Callers, Tally(c) PROVE PoolTrue'
    BY <2>6, TallyPool
  <2>7. ASSUME NEW c \in Callers, Lookup(c) \/ Answer(c) \/ Leave(c) PROVE PoolTrue'
    <3>1. /\ UNCHANGED <<pool, cancelled>> /\ worker[c].at # "gone"
          /\ \A d \in Callers \ {c} : worker'[d] = worker[d]
          /\ worker'[c].job = worker[c].job
          /\ worker[c].at \in {"lookup", "call"} =>
               worker'[c].at \in {"hit", "call", "miss", "failed"}
          /\ worker[c].at \notin {"lookup", "call"} =>
               worker[c].at = "ready" /\ worker'[c].at = "gone"
      <4>1. CASE Lookup(c)
        BY <1>0, <4>1 DEF Lookup, Worker
      <4>2. CASE Answer(c)
        BY <1>0, <4>2 DEF Answer, Worker
      <4>3. CASE Leave(c)
        BY <1>0, <4>3 DEF Leave, Worker
      <4>4. QED BY <2>7, <4>1, <4>2, <4>3
    <3>2. Busy(c)' <=> Busy(c)
      BY <3>1 DEF Busy
    <3>3. QED BY <3>1, <3>2, SameJobs DEF Busy
  <2>8. QED BY <1>2, <2>2, <2>3, <2>4, <2>5, <2>6, <2>7 DEF RetroStep, WorkerStep
<1>3. CASE Main_
  BY <1>1, <1>3
  DEF Main_, BeginBrief, EndBrief, EndRetro, EndWake, PrintOut, StopLine, Exit, poolVars
<1>4. CASE Loop \/ Asked
  <2>1. UNCHANGED <<pool, worker>> /\ UNCHANGED cancelled
    BY <1>4
    DEF Loop, Asked, poolVars, WakeStep, Person, BeginRow, EndRows, DraftFails, Drafts,
        Measure, EnoughPromoted, EndMenu, EndFeedback, WriteEntry, AbortWake, ChooseAccept,
        ChooseSkip, ChooseEdit, ChooseDismiss, Feedback, Promote, CloseInput, Untouched
  <2>2. QED BY <1>1, <2>1
<1>5. CASE Elsewhere
  BY <1>1, <1>5 DEF Elsewhere, OtherVerb, poolVars
<1>6. CASE Endpoint
  BY <1>0, <1>1, <1>6, CallTypes DEF Endpoint, poolVars, Shape
<1>7. CASE Drawing
  BY <1>1, <1>7 DEF Drawing, poolVars
<1>8. CASE UNCHANGED vars
  BY <1>1, <1>8 DEF vars
<1>9. QED BY <1>2, <1>3, <1>4, <1>5, <1>6, <1>7, <1>8 DEF Next, Ended

-----------------------------------------------------------------------------
(* The status line. *)

LEMMA LineOperations ==
  ASSUME NEW r \in Line, Sound(r)
  PROVE  /\ Sound(Draw(r)) /\ Draw(r).active = r.active
         /\ Draw(r).stopped = r.stopped /\ Draw(r).loop = r.loop
         /\ Sound(Status(r)) /\ Status(r).stopped = r.stopped
         /\ r.stopped => Status(r) = r
         /\ Sound(Clear(r)) /\ ~Clear(r).active /\ Clear(r).stopped = r.stopped
         /\ Clear(r).loop = r.loop
         /\ ~r.active => /\ Sound(Say(r)) /\ ~Say(r).active
                         /\ Say(r).stopped = r.stopped /\ Say(r).loop = r.loop
         /\ Sound(Stop(r)) /\ ~Stop(r).active /\ Stop(r).stopped
<1>1. ASSUME NEW q \in Line, Sound(q)
      PROVE  /\ Sound(Draw(q)) /\ Draw(q).active = q.active
             /\ Draw(q).stopped = q.stopped /\ Draw(q).loop = q.loop
  BY <1>1 DEF Draw, Sound, Line
<1>2. Sound(Status(r)) /\ Status(r).stopped = r.stopped /\ (r.stopped => Status(r) = r)
  <2> DEFINE q == [r EXCEPT !.active = TRUE,
                            !.loop = IF r.loop = "none" THEN "running" ELSE r.loop]
  <2>1. CASE r.stopped
    BY <2>1 DEF Status
  <2>2. CASE ~r.stopped
    <3>1. q \in Line /\ Sound(q) /\ q.stopped = r.stopped
      BY <2>2 DEF Line, Sound
    <3>2. Status(r) = Draw(q)
      BY <2>2 DEF Status
    <3>3. QED BY <1>1, <2>2, <3>1, <3>2
  <2>3. QED BY <2>1, <2>2
<1>3. Sound(Clear(r)) /\ ~Clear(r).active /\ Clear(r).stopped = r.stopped
      /\ Clear(r).loop = r.loop /\ Clear(r) \in Line
  BY DEF Clear, Sound, Line
<1>4. ~r.active => /\ Sound(Say(r)) /\ ~Say(r).active
                   /\ Say(r).stopped = r.stopped /\ Say(r).loop = r.loop
  BY DEF Say, Sound, Line
<1>5. Sound(Stop(r)) /\ ~Stop(r).active /\ Stop(r).stopped
  BY <1>3 DEF Stop, Sound, Line
<1>6. QED BY <1>1, <1>2, <1>3, <1>4, <1>5

LEMMA LineStep ==
  ASSUME IInv, [Next]_vars
  PROVE  LineTrue'
<1> USE DEF IInv
<1>0. /\ line \in Line /\ line' \in Line /\ Sound(line) /\ (Quiet => ~line.active)
      /\ (line.stopped <=> main \in {"wait", "end"})
      /\ (main = "end" => line.loop \in {"none", "done"})
      /\ call \in [Callers -> Call] /\ pool \in PoolShape /\ Main \in Callers
  BY ShapeStep, Sizes DEF LineTrue, Shape
<1>1. CASE Main_
  <2>1. CASE BeginBrief
    <3>1. line' = Status(line) /\ call'[Main].at = "dial" /\ main = "run"
          /\ UNCHANGED <<verb, main>> /\ verb = "brief"
      BY <1>0, <2>1 DEF BeginBrief, Complete, NoCall
    <3>2. ~Quiet'
      BY <3>1 DEF Quiet, Waking
    <3>3. QED BY <1>0, <3>1, <3>2, LineOperations DEF LineTrue
  <2>2. CASE EndBrief
    <3>1. line' = Clear(line) /\ main = "run" /\ main' \in {"print", "stop"}
      BY <2>2 DEF EndBrief
    <3>2. QED BY <1>0, <3>1, LineOperations DEF LineTrue
  <2>3. CASE EndRetro \/ EndWake
    <3>1. Quiet
      BY <2>3 DEF EndRetro, EndWake, Quiet, Waking
    <3>2. UNCHANGED line /\ main = "run" /\ main' \in {"print", "stop"}
      BY <2>3 DEF EndRetro, EndWake
    <3>3. QED BY <1>0, <3>1, <3>2 DEF LineTrue
  <2>4. CASE PrintOut
    <3>1. line' = Say(line) /\ main = "print" /\ main' = "stop"
      BY <2>4 DEF PrintOut
    <3>2. ~line.active
      BY <1>0, <3>1 DEF Quiet
    <3>3. QED BY <1>0, <3>1, <3>2, LineOperations DEF LineTrue
  <2>5. CASE StopLine
    <3>1. line' = Stop(line) /\ main = "stop" /\ main' = "wait"
      BY <2>5 DEF StopLine
    <3>2. QED BY <1>0, <3>1, LineOperations DEF LineTrue
  <2>6. CASE Exit
    <3>1. UNCHANGED line /\ main = "wait" /\ main' = "end" /\ line.loop \in {"none", "done"}
      BY <2>6 DEF Exit, Joined
    <3>2. QED BY <1>0, <3>1 DEF LineTrue, Quiet
  <2>7. QED BY <1>1, <2>1, <2>2, <2>3, <2>4, <2>5, <2>6 DEF Main_
<1>2. CASE RetroStep
  <2>1. verb = "retro" /\ main = "run" /\ UNCHANGED <<verb, main>>
    BY <1>2 DEF RetroStep
  <2>2. Quiet <=> pool.at \in {"start", "done"}
    BY <2>1 DEF Quiet, Waking
  <2>3. Quiet' <=> pool'.at \in {"start", "done"}
    BY <2>1 DEF Quiet, Waking
  <2>4. CASE BeginPool
    BY <1>0, <2>1, <2>3, <2>4, LineOperations DEF BeginPool, PoolShape, LineTrue
  <2>5. CASE CloseQueue
    BY <1>0, <2>1, <2>3, <2>5 DEF CloseQueue, PoolShape, LineTrue
  <2>6. CASE EndPool
    BY <1>0, <2>1, <2>6, LineOperations DEF EndPool, LineTrue
  <2>7. ASSUME NEW c \in Callers, Dispatch(c) \/ Lookup(c) \/ Answer(c) \/ Leave(c)
        PROVE  LineTrue'
    <3>1. UNCHANGED line /\ pool'.at = pool.at
      BY <1>0, <2>7 DEF Dispatch, Lookup, Answer, Leave, PoolShape
    <3>2. QED BY <1>0, <2>1, <2>2, <2>3, <3>1 DEF LineTrue
  <2>8. ASSUME NEW c \in Callers, Tally(c)
        PROVE  LineTrue'
    <3>1. CASE TallyHit(c) \/ TallyMiss(c)
      <4>1. Busy(c) /\ pool'.at = pool.at /\ line' = Status(line)
        BY <3>1, TalliedSummary
      <4>2. pool.at \notin {"start", "done"}
        <5>1. pool.at # "done"
          BY <4>1 DEF PoolTrue, Busy
        <5>2. pool.at = "start" => Given = {}
          BY Sizes DEF PoolTrue, Given
        <5>3. QED BY <4>1, <5>1, <5>2 DEF PoolTrue
      <4>3. QED BY <1>0, <2>1, <2>3, <4>1, <4>2, LineOperations DEF LineTrue
    <3>2. CASE TallyFailure(c)
      <4>1. UNCHANGED line /\ pool'.at = pool.at
        BY <1>0, <3>2 DEF TallyFailure, PoolShape
      <4>2. QED BY <1>0, <2>1, <2>2, <2>3, <4>1 DEF LineTrue
    <3>3. QED BY <2>8, <3>1, <3>2 DEF Tally
  <2>9. QED BY <1>2, <2>4, <2>5, <2>6, <2>7, <2>8 DEF RetroStep, WorkerStep
<1>3. CASE Loop \/ Asked
  <2>1. /\ WakeStep \/ Person
        /\ UNCHANGED <<verb, main>>
    BY <1>3 DEF Loop, Asked
  <2>2. Waking /\ main = "run" /\ ~line.stopped
    BY <1>0, <2>1, WakeGuards
  <2>3. (Quiet <=> wake.at \notin {"draft", "redraft"})
        /\ (Quiet' <=> wake'.at \notin {"draft", "redraft"})
    BY <2>1, <2>2 DEF Quiet, Waking
  <2>4. SUFFICES /\ Sound(line') /\ line'.stopped = line.stopped
                 /\ wake'.at \notin {"draft", "redraft"} => ~line'.active
    BY <1>0, <2>1, <2>2, <2>3 DEF LineTrue
  <2>5. wake \in Wake
    BY DEF Shape
  <2>6. wake.at \notin {"draft", "redraft"} => ~line.active
    BY <1>0, <2>3
  <2>7. \A r \in Line : Clear(r) \in Line /\ Say(r) \in Line
    BY LineTypes
  <2>8. CASE BeginRow
    <3>1. ~line.active /\ wake'.at = "draft"
      BY <2>5, <2>6, <2>8 DEF BeginRow, To, Wake
    <3>2. Sound(Say(line)) /\ Say(line).stopped = line.stopped /\ Say(line) \in Line
      BY <1>0, <2>7, <3>1, LineOperations
    <3>3. line' = Status(line) \/ line' = Status(Say(line))
      BY <2>8 DEF BeginRow
    <3>4. QED BY <1>0, <3>1, <3>2, <3>3, LineOperations
  <2>9. CASE DraftFails \/ Drafts
    <3>1. line' = Clear(line) \/ line' = Say(Clear(line))
      BY <2>9 DEF DraftFails, Drafts
    <3>2. Sound(Clear(line)) /\ Clear(line).stopped = line.stopped
          /\ ~Clear(line).active /\ Clear(line) \in Line
      BY <1>0, <2>7, LineOperations
    <3>3. QED BY <3>1, <3>2, LineOperations
  <2>10. CASE Feedback
    <3>1. line' = Status(line) /\ wake'.at = "redraft"
      BY <2>5, <2>10 DEF Feedback, To, Wake
    <3>2. QED BY <1>0, <3>1, LineOperations
  <2>11. CASE \/ EndRows \/ Measure \/ EnoughPromoted \/ EndMenu \/ EndFeedback
              \/ WriteEntry \/ AbortWake \/ ChooseAccept \/ ChooseSkip \/ ChooseEdit
              \/ ChooseDismiss \/ Promote \/ CloseInput
    <3>1. wake.at \notin {"draft", "redraft"} /\ line' \in {line, Say(line)}
      BY <2>11
      DEF EndRows, Measure, EnoughPromoted, EndMenu, EndFeedback, WriteEntry, AbortWake,
          ChooseAccept, ChooseSkip, ChooseEdit, ChooseDismiss, Promote, CloseInput,
          Answers, Asking
    <3>2. QED BY <1>0, <2>6, <3>1, LineOperations
  <2>12. QED BY <2>1, <2>8, <2>9, <2>10, <2>11 DEF WakeStep, Person
<1>4. CASE Elsewhere
  BY <1>0, <1>4 DEF Elsewhere, OtherVerb, poolVars, LineTrue, Quiet, Waking
<1>5. CASE Endpoint
  <2>1. PICK c \in Callers : CallStep(c)
    BY <1>5 DEF Endpoint
  <2>2. UNCHANGED <<line, pool, wake, verb, main>>
    BY <1>5 DEF Endpoint, poolVars, wakeVars
  <2>3. call'[Main].at = "none" => call[Main].at = "none"
    BY <1>0, <2>1, CallTypes DEF Shape
  <2>4. Quiet' => Quiet
    BY <2>2, <2>3 DEF Quiet, Waking
  <2>5. QED BY <1>0, <2>2, <2>4 DEF LineTrue
<1>6. CASE Drawing
  <2>1. Quiet' <=> Quiet
    BY <1>6 DEF Drawing, poolVars, wakeVars, Quiet, Waking
  <2>2. UNCHANGED main
    BY <1>6 DEF Drawing
  <2>3. CASE Tick
    BY <1>0, <2>1, <2>2, <2>3, LineOperations DEF Tick, LineTrue
  <2>4. CASE Quit
    BY <1>0, <2>1, <2>2, <2>4 DEF Quit, LineTrue, Sound, Line
  <2>5. QED BY <1>6, <2>3, <2>4 DEF Drawing
<1>7. CASE UNCHANGED vars
  BY <1>0, <1>7 DEF vars, wakeVars, LineTrue, Quiet, Waking
<1>8. QED BY <1>1, <1>2, <1>3, <1>4, <1>5, <1>6, <1>7 DEF Next, Ended

-----------------------------------------------------------------------------
(* wake's tally. *)

LEMMA WrittenFinite ==
  ASSUME NEW what
  PROVE  IsFiniteSet(Written(what)) /\ Cardinality(Written(what)) \in Nat
<1> DEFINE J == {j \in 1..Len(Rows) : wrote[Rows[j]] = what}
           f == [j \in J |-> Rows[j]]
<1>1. IsFiniteSet(J)
  BY Sizes, UpTo, FS_Subset
<1>2. \A s \in Written(what) : \E j \in J : f[j] = s
  BY Sizes DEF Written, Working
<1>3. \A j \in J : f[j] \in Written(what)
  BY Sizes DEF Written
<1>4. f \in Surjection(J, Written(what))
  BY <1>2, <1>3 DEF Surjection
<1>5. IsFiniteSet(Written(what))
  BY <1>1, <1>4, FS_Surjection
<1>6. QED BY <1>5, FS_CardinalityType

\* A row that is disposed of with a write of this run's adds one name to what
\* the run wrote, and takes none away.
LEMMA WriteCounted ==
  ASSUME Shape, Place, RowsTallied, wake.at \in AtRow,
         NEW what \in {"entry", "dismissal"},
         wrote' = [wrote EXCEPT ![Session] = what]
  PROVE  /\ Written(what)' = Written(what) \cup {Session}
         /\ Cardinality(Written(what)') = Cardinality(Written(what)) + 1
         /\ \A other \in {"entry", "dismissal"} \ {what} :
              Written(other)' = Written(other)
         /\ \A j \in DOMAIN Rows :
              j >= wake.row + 1 => wrote'[Rows[j]] = "nothing"
<1>1. /\ wake.row \in 1..Len(Rows) /\ Session = Rows[wake.row] /\ Session \in Working
      /\ wrote \in [Working -> {"nothing", "entry", "dismissal"}]
  BY WakeMoves, Sizes DEF Session, Shape
<1>2. \A j \in DOMAIN Rows : j >= wake.row => wrote[Rows[j]] = "nothing"
  BY DEF RowsTallied, AtRow, Asking
<1>3. wrote[Session] = "nothing"
  BY <1>1, <1>2, Sizes
<1>4. /\ Written(what)' = Written(what) \cup {Session} /\ Session \notin Written(what)
      /\ \A other \in {"entry", "dismissal"} \ {what} : Written(other)' = Written(other)
  BY <1>1, <1>3 DEF Written
<1>5. Cardinality(Written(what)') = Cardinality(Written(what)) + 1
  BY <1>4, WrittenFinite, FS_AddElement, SMTT(20)
<1>6. ASSUME NEW j \in DOMAIN Rows, j >= wake.row + 1
      PROVE  wrote'[Rows[j]] = "nothing"
  <2>1. j \in 1..Len(Rows) /\ j >= wake.row /\ j # wake.row
    BY <1>1, <1>6, Sizes
  <2>2. Rows[j] # Session /\ Rows[j] \in Working
    BY <1>1, <2>1, RowsAssumption, Sizes
  <2>3. QED BY <1>1, <1>2, <1>6, <2>1, <2>2
<1>7. QED BY <1>4, <1>5, <1>6

\* The counters, as numbers that the steps below compute with.
LEMMA RowNumbers ==
  ASSUME Shape, Place, RowsTallied, wake.at \in AtRow
  PROVE  /\ tally.accepted + tally.dismissed + tally.skipped = wake.row - 1
         /\ tally.drafted >= tally.accepted + tally.dismissed + tally.below
                             + IF wake.at \in Drafted THEN 1 ELSE 0
         /\ tally.drafted <= wake.row - 1 + IF wake.at \in Drafted THEN 1 ELSE 0
         /\ tally.promoted <= (wake.row - 1) * MaxPromotions + wake.sections
BY DEF RowsTallied, Behind, AtRow, Asking, Drafted

LEMMA RowPromotions ==
  ASSUME Shape, NEW p \in Nat, p <= (wake.row - 1) * MaxPromotions + wake.sections
  PROVE  p <= (wake.row + 1 - 1) * MaxPromotions + 0
<1>1. /\ wake.row \in Nat /\ wake.row >= 1 /\ wake.sections \in 0..MaxPromotions
      /\ MaxPromotions \in Nat
  <2>1. wake \in Wake
    BY DEF Shape
  <2>2. wake.row \in 1..(Len(Rows) + 1) /\ wake.sections \in 0..MaxPromotions
    BY <2>1 DEF Wake
  <2>3. QED BY <2>2, Sizes
<1>2. wake.row * MaxPromotions = (wake.row - 1) * MaxPromotions + MaxPromotions
  BY <1>1
<1>3. (wake.row - 1) * MaxPromotions \in Nat /\ wake.row * MaxPromotions \in Nat
      /\ wake.row + 1 - 1 = wake.row
  BY <1>1
<1>4. QED BY <1>1, <1>2, <1>3

\* A row left behind: its outcome is one of the three, and the counters of the
\* outcomes it is not stay.
LEMMA RowLeft ==
  ASSUME Shape, Place, RowsTallied, wake.at \in AtRow, wake' = NextRow,
         tally' \in TallyShape,
         tally'.accepted + tally'.dismissed + tally'.skipped
           = tally.accepted + tally.dismissed + tally.skipped + 1,
         tally'.drafted = tally.drafted, tally'.promoted = tally.promoted,
         tally'.accepted = Cardinality(Written("entry")'),
         tally'.dismissed = Cardinality(Written("dismissal")'),
         tally'.below + tally'.failed <= tally'.skipped,
         tally'.accepted + tally'.dismissed + tally'.below
           <= tally.accepted + tally.dismissed + tally.below
              + IF wake.at \in Drafted THEN 1 ELSE 0,
         \A j \in DOMAIN Rows : j >= wake.row + 1 => wrote'[Rows[j]] = "nothing"
  PROVE  RowsTallied'
<1>1. /\ wake'.at = "row" /\ wake'.row = wake.row + 1 /\ wake'.sections = 0
      /\ wake.row \in 1..Len(Rows)
  BY WakeMoves
<1>2. /\ tally'.drafted \in Nat /\ tally'.accepted \in Nat /\ tally'.dismissed \in Nat
      /\ tally'.skipped \in Nat /\ tally'.below \in Nat /\ tally'.failed \in Nat
      /\ tally'.promoted \in Nat
  BY DEF TallyShape
<1>3. Behind' = wake.row
  BY <1>1 DEF Behind
<1>4. tally'.accepted + tally'.dismissed + tally'.skipped = Behind'
  BY <1>1, <1>3, RowNumbers, TallyNumbers
<1>5. /\ tally'.drafted >= tally'.accepted + tally'.dismissed + tally'.below
      /\ tally'.drafted <= wake.row
  <2> DEFINE one == IF wake.at \in Drafted THEN 1 ELSE 0
  <2>1. one \in 0..1
    OBVIOUS
  <2>2. /\ tally.drafted >= tally.accepted + tally.dismissed + tally.below + one
        /\ tally.drafted <= wake.row - 1 + one
        /\ tally'.accepted + tally'.dismissed + tally'.below
             <= tally.accepted + tally.dismissed + tally.below + one
        /\ tally'.drafted = tally.drafted
    BY RowNumbers
  <2> HIDE DEF one
  <2>3. wake.row \in Nat
    BY <1>1, Sizes
  <2>4. tally'.drafted >= tally'.accepted + tally'.dismissed + tally'.below
    <3>1. /\ tally.drafted \in Nat /\ tally.accepted \in Nat
          /\ tally.dismissed \in Nat /\ tally.below \in Nat
      BY TallyNumbers
    <3>2. tally.accepted + tally.dismissed + tally.below + one <= tally.drafted
      BY <2>1, <2>2, <3>1
    <3>3. QED BY <1>2, <2>1, <2>2, <3>1, <3>2
  <2>5. tally'.drafted <= wake.row
    BY <1>2, <2>1, <2>2, <2>3
  <2>6. QED BY <2>4, <2>5
<1>6. tally'.promoted <= (wake'.row - 1) * MaxPromotions + wake'.sections
  BY <1>1, <1>2, RowNumbers, RowPromotions
<1>7. wake'.at \notin Drafted
  BY <1>1 DEF Drafted, AtRow, Asking
<1>8. \A j \in DOMAIN Rows : j >= wake'.row => wrote'[Rows[j]] = "nothing"
  BY <1>1
<1>9. /\ tally'.drafted >= tally'.accepted + tally'.dismissed + tally'.below
                            + IF wake'.at \in Drafted THEN 1 ELSE 0
      /\ tally'.drafted <= Behind' + IF wake'.at \in Drafted \cup {"aborted"} THEN 1 ELSE 0
  BY <1>1, <1>2, <1>3, <1>5, <1>7, SMTT(20)
<1>10. QED BY <1>1, <1>4, <1>6, <1>8, <1>9 DEF RowsTallied, Drafted, AtRow, Asking

\* A step inside the row, or out of the run, that tallies nothing.
LEMMA RowStays ==
  ASSUME Shape, Place, RowsTallied, UNCHANGED <<tally, wrote>>,
         wake'.row = wake.row, wake'.sections = wake.sections,
         wake.at \notin {"done", "aborted"}, wake'.at # "done",
         wake'.at \in Drafted => wake.at \in Drafted,
         wake.at \in Drafted => wake'.at \in Drafted \cup {"aborted"},
         wake'.sections > 0 => wake'.at \in {"promote", "write", "aborted"},
         wake'.at = "aborted" => wake.row <= Len(Rows)
  PROVE  RowsTallied'
<1>1. /\ Behind' = Behind
      /\ \A what \in {"entry", "dismissal"} : Written(what)' = Written(what)
  BY DEF Behind, Written
<1>2. /\ tally.drafted \in Nat /\ tally.accepted \in Nat /\ tally.dismissed \in Nat
      /\ tally.skipped \in Nat /\ tally.below \in Nat
  BY TallyNumbers
<1> DEFINE one == IF wake.at \in Drafted THEN 1 ELSE 0
           least == tally.accepted + tally.dismissed + tally.below
<1>3. tally.drafted >= least + one /\ tally.drafted <= Behind + one /\ one \in {0, 1}
  BY DEF RowsTallied, Drafted, AtRow, Asking
<1>4. tally'.drafted >= tally'.accepted + tally'.dismissed + tally'.below
                        + IF wake'.at \in Drafted THEN 1 ELSE 0
  <2>1. CASE wake'.at \in Drafted
    BY <1>3, <2>1
  <2>2. CASE wake'.at \notin Drafted
    <3>1. least \in Nat
      BY <1>2
    <3> HIDE DEF least, one
    <3>2. tally.drafted >= least
      BY <1>2, <1>3, <3>1
    <3>3. tally.drafted >= least + 0
      BY <1>2, <3>1, <3>2
    <3>4. QED BY <2>2, <3>3 DEF least
  <2>3. QED BY <2>1, <2>2
<1>5. tally'.drafted <= Behind' + IF wake'.at \in Drafted \cup {"aborted"} THEN 1 ELSE 0
  <2>1. Behind \in Nat
    <3>1. wake \in Wake
      BY DEF Shape
    <3>2. wake.row \in 1..(Len(Rows) + 1)
      BY <3>1 DEF Wake
    <3>3. QED BY <3>2, Sizes DEF Behind
  <2>2. CASE wake'.at \in Drafted \cup {"aborted"}
    BY <1>1, <1>2, <1>3, <2>1, <2>2
  <2>3. CASE wake'.at \notin Drafted \cup {"aborted"}
    BY <1>1, <1>2, <1>3, <2>1, <2>3
  <2>4. QED BY <2>2, <2>3
<1>6. QED BY <1>1, <1>4, <1>5 DEF RowsTallied, Drafted, AtRow, Asking

\* A row skipped: nothing is written for it.
LEMMA RowSkipped ==
  ASSUME Shape, Place, RowsTallied, wake.at \in AtRow, wake' = NextRow,
         UNCHANGED wrote,
         \/ tally' = [tally EXCEPT !.skipped = @ + 1]
         \/ tally' = [tally EXCEPT !.skipped = @ + 1, !.failed = @ + 1]
         \/ /\ tally' = [tally EXCEPT !.skipped = @ + 1, !.below = @ + 1]
            /\ wake.at \in Drafted
  PROVE  RowsTallied'
<1>1. /\ tally \in TallyShape
      /\ tally.drafted \in Nat /\ tally.accepted \in Nat /\ tally.dismissed \in Nat
      /\ tally.skipped \in Nat /\ tally.below \in Nat /\ tally.failed \in Nat
  BY TallyNumbers DEF Shape
<1>2. /\ tally' \in TallyShape /\ tally'.skipped = tally.skipped + 1
      /\ tally'.accepted = tally.accepted /\ tally'.dismissed = tally.dismissed
      /\ tally'.drafted = tally.drafted /\ tally'.promoted = tally.promoted
      /\ \/ tally'.below = tally.below /\ tally'.failed \in {tally.failed, tally.failed + 1}
         \/ /\ tally'.below = tally.below + 1 /\ tally'.failed = tally.failed
            /\ wake.at \in Drafted
  <2>0. /\ tally.skipped + 1 \in Nat /\ tally.failed + 1 \in Nat
        /\ tally.below + 1 \in Nat
    BY <1>1
  <2>1. CASE tally' = [tally EXCEPT !.skipped = @ + 1]
    BY <1>1, <2>0, <2>1 DEF TallyShape
  <2>2. CASE tally' = [tally EXCEPT !.skipped = @ + 1, !.failed = @ + 1]
    <3>1. tally' \in TallyShape
      BY <1>1, <2>0, <2>2 DEF TallyShape
    <3>2. QED BY <1>1, <2>2, <3>1 DEF TallyShape
  <2>3. CASE tally' = [tally EXCEPT !.skipped = @ + 1, !.below = @ + 1]
             /\ wake.at \in Drafted
    <3>1. tally' \in TallyShape
      BY <1>1, <2>0, <2>3 DEF TallyShape
    <3>2. QED BY <1>1, <2>3, <3>1 DEF TallyShape
  <2>4. QED BY <2>1, <2>2, <2>3
<1>3. \A what : Written(what)' = Written(what)
  BY DEF Written
<1>4. /\ tally'.accepted = Cardinality(Written("entry")')
      /\ tally'.dismissed = Cardinality(Written("dismissal")')
      /\ tally.below + tally.failed <= tally.skipped
      /\ \A j \in DOMAIN Rows : j >= wake.row => wrote[Rows[j]] = "nothing"
  BY <1>2, <1>3 DEF RowsTallied, AtRow, Asking
<1>5. tally'.below + tally'.failed <= tally'.skipped
  BY <1>1, <1>2, <1>4
<1>6. tally'.accepted + tally'.dismissed + tally'.skipped
        = tally.accepted + tally.dismissed + tally.skipped + 1
  BY <1>1, <1>2
<1>7. tally'.accepted + tally'.dismissed + tally'.below
        <= tally.accepted + tally.dismissed + tally.below
           + IF wake.at \in Drafted THEN 1 ELSE 0
  <2>1. CASE tally'.below = tally.below
    BY <1>1, <1>2, <2>1
  <2>2. CASE tally'.below = tally.below + 1 /\ wake.at \in Drafted
    BY <1>1, <1>2, <2>2
  <2>3. QED BY <1>2, <2>1, <2>2
<1>8. \A j \in DOMAIN Rows : j >= wake.row + 1 => wrote'[Rows[j]] = "nothing"
  BY <1>4, WakeMoves, Sizes
<1>9. QED BY <1>2, <1>4, <1>5, <1>6, <1>7, <1>8, RowLeft

\* A row whose entry or dismissal this run writes.
LEMMA RowWritten ==
  ASSUME Shape, Place, RowsTallied, wake.at \in Drafted, wake' = NextRow,
         \/ /\ wrote' = [wrote EXCEPT ![Session] = "entry"]
            /\ tally' = [tally EXCEPT !.accepted = @ + 1]
         \/ /\ wrote' = [wrote EXCEPT ![Session] = "dismissal"]
            /\ tally' = [tally EXCEPT !.dismissed = @ + 1]
  PROVE  RowsTallied'
<1>1. /\ tally \in TallyShape /\ wake.at \in AtRow
      /\ tally.drafted \in Nat /\ tally.accepted \in Nat /\ tally.dismissed \in Nat
      /\ tally.skipped \in Nat /\ tally.below \in Nat /\ tally.failed \in Nat
  BY TallyNumbers DEF Shape, Drafted
<1>2. /\ tally.accepted = Cardinality(Written("entry"))
      /\ tally.dismissed = Cardinality(Written("dismissal"))
      /\ tally.below + tally.failed <= tally.skipped
  BY DEF RowsTallied
<1>3. CASE /\ wrote' = [wrote EXCEPT ![Session] = "entry"]
           /\ tally' = [tally EXCEPT !.accepted = @ + 1]
  <2>1. /\ tally' \in TallyShape /\ tally'.accepted = tally.accepted + 1
        /\ tally'.dismissed = tally.dismissed /\ tally'.skipped = tally.skipped
        /\ tally'.drafted = tally.drafted /\ tally'.promoted = tally.promoted
        /\ tally'.below = tally.below /\ tally'.failed = tally.failed
    BY <1>1, <1>3, SMTT(20) DEF TallyShape
  <2>2. /\ tally'.accepted = Cardinality(Written("entry")')
        /\ tally'.dismissed = Cardinality(Written("dismissal")')
        /\ \A j \in DOMAIN Rows : j >= wake.row + 1 => wrote'[Rows[j]] = "nothing"
    BY <1>1, <1>2, <1>3, <2>1, WriteCounted
  <2>3. /\ tally'.accepted + tally'.dismissed + tally'.skipped
             = tally.accepted + tally.dismissed + tally.skipped + 1
        /\ tally'.accepted + tally'.dismissed + tally'.below
             = tally.accepted + tally.dismissed + tally.below + 1
    BY <1>1, <2>1
  <2>4. QED BY <1>1, <1>2, <2>1, <2>2, <2>3, RowLeft
<1>4. CASE /\ wrote' = [wrote EXCEPT ![Session] = "dismissal"]
           /\ tally' = [tally EXCEPT !.dismissed = @ + 1]
  <2>1. /\ tally' \in TallyShape /\ tally'.dismissed = tally.dismissed + 1
        /\ tally'.accepted = tally.accepted /\ tally'.skipped = tally.skipped
        /\ tally'.drafted = tally.drafted /\ tally'.promoted = tally.promoted
        /\ tally'.below = tally.below /\ tally'.failed = tally.failed
    BY <1>1, <1>4 DEF TallyShape
  <2>2. /\ tally'.accepted = Cardinality(Written("entry")')
        /\ tally'.dismissed = Cardinality(Written("dismissal")')
        /\ \A j \in DOMAIN Rows : j >= wake.row + 1 => wrote'[Rows[j]] = "nothing"
    BY <1>1, <1>2, <1>4, <2>1, WriteCounted
  <2>3. /\ tally'.accepted + tally'.dismissed + tally'.skipped
             = tally.accepted + tally.dismissed + tally.skipped + 1
        /\ tally'.accepted + tally'.dismissed + tally'.below
             = tally.accepted + tally.dismissed + tally.below + 1
    BY <1>1, <2>1
  <2>4. QED BY <1>1, <1>2, <2>1, <2>2, <2>3, RowLeft
<1>5. QED BY <1>3, <1>4

LEMMA RowsStep ==
  ASSUME IInv, [Next]_vars
  PROVE  RowsTallied'
<1> USE DEF IInv
<1>1. CASE UNCHANGED <<wake, tally, wrote>>
  BY <1>1 DEF RowsTallied, Behind, Written
<1>2. CASE Loop \/ Asked
  <2>1. /\ WakeStep \/ Person
        /\ wake \in Wake /\ tally \in TallyShape
    BY <1>2 DEF Loop, Asked, Shape
  <2>2. /\ wake.row \in 1..(Len(Rows) + 1) /\ wake.sections \in 0..MaxPromotions
        /\ wake.at \in AtRow => wake.row \in 1..Len(Rows)
        /\ Len(Rows) \in Nat /\ MaxPromotions \in Nat
    BY WakeMoves, Sizes
  <2>3. \A at : To(at).at = at /\ To(at).row = wake.row /\ To(at).sections = wake.sections
    BY <2>1 DEF To, Wake
  <2>4. wake.sections > 0 => wake.at \in {"promote", "write", "aborted"}
    BY DEF RowsTallied
  <2>5. CASE BeginRow
    BY <2>2, <2>3, <2>4, <2>5, RowStays
    DEF BeginRow, Untouched, Drafted, AtRow, Asking
  <2>6. CASE EndRows
    <3>1. /\ wake.row = Len(Rows) + 1 /\ wake.at = "row" /\ wake' = To("done")
          /\ UNCHANGED <<tally, wrote>>
      BY <2>2, <2>6 DEF EndRows, Untouched
    <3>2. Behind' = Behind
      BY <2>2, <2>3, <3>1 DEF Behind
    <3>3. \A what : Written(what)' = Written(what)
      BY <3>1 DEF Written
    <3>4. QED BY <2>3, <3>1, <3>2, <3>3 DEF RowsTallied, Drafted, AtRow, Asking
  <2>7. CASE DraftFails
    <3>1. \/ tally' = [tally EXCEPT !.skipped = @ + 1]
          \/ tally' = [tally EXCEPT !.skipped = @ + 1, !.failed = @ + 1]
      <4>1. CASE wake.auto
        BY <2>7, <4>1 DEF DraftFails
      <4>2. CASE ~wake.auto
        <5>1. tally.failed + 0 = tally.failed
          BY TallyNumbers
        <5>2. tally' = [tally EXCEPT !.skipped = @ + 1, !.failed = tally.failed]
          BY <2>7, <4>2, <5>1 DEF DraftFails
        <5>3. QED BY <2>1, <5>2 DEF TallyShape
      <4>3. QED BY <4>1, <4>2
    <3>2. QED BY <2>7, <3>1, RowSkipped DEF DraftFails, Untouched, AtRow
  <2>8. CASE Drafts
    <3> DEFINE first == IF wake.at = "draft" THEN 1 ELSE 0
    <3>1. /\ wake'.at \in Drafted /\ wake'.row = wake.row /\ wake'.sections = wake.sections
          /\ wake.at \in {"draft", "redraft"} /\ UNCHANGED wrote
          /\ wake'.at \in {"measure", "menu"}
          /\ tally' = [tally EXCEPT !.drafted = @ + first]
      BY <2>3, <2>8 DEF Drafts, Untouched, Drafted, AtRow, Asking
    <3>2. /\ tally'.drafted = tally.drafted + first /\ tally'.accepted = tally.accepted
          /\ tally'.dismissed = tally.dismissed /\ tally'.skipped = tally.skipped
          /\ tally'.below = tally.below /\ tally'.failed = tally.failed
          /\ tally'.promoted = tally.promoted
      BY <2>1, <3>1 DEF TallyShape
    <3>3. Behind' = Behind /\ Behind = wake.row - 1
      BY <3>1 DEF Behind
    <3>4. /\ tally.drafted >= tally.accepted + tally.dismissed + tally.below + (1 - first)
          /\ tally.drafted <= wake.row - 1 + (1 - first) /\ first \in {0, 1}
      <4>1. wake.at \in AtRow /\ (wake.at \in Drafted <=> wake.at = "redraft")
        BY <3>1 DEF Drafted, AtRow, Asking
      <4>2. CASE wake.at = "draft"
        BY <4>1, <4>2, <2>2, RowNumbers, TallyNumbers
      <4>3. CASE wake.at = "redraft"
        BY <4>1, <4>3, <2>2, RowNumbers, TallyNumbers
      <4>4. QED BY <3>1, <4>2, <4>3
    <3> HIDE DEF first
    <3>5. /\ tally.drafted \in Nat /\ tally.accepted \in Nat /\ tally.dismissed \in Nat
          /\ tally.below \in Nat /\ wake.row \in Nat
      BY <2>2, TallyNumbers
    <3>6. /\ tally'.drafted >= tally'.accepted + tally'.dismissed + tally'.below + 1
          /\ tally'.drafted <= wake.row - 1 + 1
      BY <3>2, <3>4, <3>5
    <3>7. \A what : Written(what)' = Written(what)
      BY <3>1 DEF Written
    <3>8. QED BY <2>4, <3>1, <3>2, <3>3, <3>6, <3>7 DEF RowsTallied
  <2>9. CASE Measure
    <3>1. wake.at \in Drafted /\ wake.at \in AtRow /\ UNCHANGED wrote
      BY <2>9 DEF Measure, Untouched, Drafted, AtRow, Asking
    <3>2. CASE tally' = [tally EXCEPT !.skipped = @ + 1, !.below = @ + 1] /\ wake' = NextRow
      BY <3>1, <3>2, RowSkipped
    <3>3. CASE UNCHANGED tally /\ wake' = To("write")
      BY <2>2, <2>3, <2>9, <3>1, <3>3, RowStays DEF Measure, Drafted, AtRow, Asking
    <3>4. QED BY <2>9, <3>2, <3>3 DEF Measure
  <2>10. CASE EnoughPromoted \/ ChooseAccept \/ ChooseEdit \/ Feedback
    <3>1. /\ UNCHANGED <<tally, wrote>>
          /\ \/ wake.at = "promote" /\ wake' = To("write")
             \/ wake.at = "menu" /\ wake' = To("promote")
             \/ wake.at = "menu" /\ wake' = To("feedback")
             \/ wake.at = "feedback" /\ wake' = To("redraft")
      BY <2>10 DEF EnoughPromoted, ChooseAccept, ChooseEdit, Feedback, Answers, Untouched
    <3>2. QED BY <2>2, <2>3, <2>4, <3>1, RowStays DEF Drafted, AtRow, Asking
  <2>11. CASE EndMenu
    <3>1. /\ wake.at = "menu" /\ wake' = To("done") /\ UNCHANGED wrote
          /\ tally' = [tally EXCEPT !.skipped = @ + Len(Rows) - (wake.row - 1)]
      BY <2>11 DEF EndMenu, Untouched
    <3>2. /\ tally'.skipped = tally.skipped + Len(Rows) - (wake.row - 1)
          /\ tally'.drafted = tally.drafted /\ tally'.accepted = tally.accepted
          /\ tally'.dismissed = tally.dismissed /\ tally'.promoted = tally.promoted
          /\ tally'.below = tally.below /\ tally'.failed = tally.failed
      BY <2>1, <3>1 DEF TallyShape
    <3>3. /\ tally.drafted \in Nat /\ tally.accepted \in Nat /\ tally.dismissed \in Nat
          /\ tally.skipped \in Nat /\ tally.below \in Nat /\ tally.failed \in Nat
          /\ wake.row \in Nat /\ wake.row <= Len(Rows)
      BY <2>2, <3>1, TallyNumbers DEF AtRow, Asking
    <3>4. wake.at \in Drafted /\ wake.at \in AtRow
      BY <3>1 DEF Drafted, AtRow, Asking
    <3>5. /\ tally.accepted + tally.dismissed + tally.skipped = wake.row - 1
          /\ tally.drafted >= tally.accepted + tally.dismissed + tally.below + 1
          /\ tally.drafted <= wake.row - 1 + 1
          /\ tally.below + tally.failed <= tally.skipped
      BY <3>4, RowNumbers DEF RowsTallied
    <3>6. /\ wake'.at = "done" /\ wake'.row = wake.row /\ wake'.sections = wake.sections
          /\ Behind' = Len(Rows)
      BY <2>3, <3>1 DEF Behind
    <3>7. /\ tally.accepted + tally.dismissed + tally'.skipped = Len(Rows)
          /\ tally.drafted >= tally.accepted + tally.dismissed + tally.below + 0
          /\ tally.drafted <= Len(Rows) + 0
          /\ tally.below + tally.failed <= tally'.skipped
      <4> DEFINE n == Len(Rows)
                 row == wake.row
                 a == tally.accepted
                 d == tally.dismissed
                 s == tally.skipped
                 b == tally.below
                 f == tally.failed
                 drafts == tally.drafted
                 t == tally'.skipped
      <4>1. /\ n \in Nat /\ row \in Nat /\ a \in Nat /\ d \in Nat /\ s \in Nat
            /\ b \in Nat /\ f \in Nat /\ drafts \in Nat
        BY <2>2, <3>3
      <4>2. /\ t = s + n - (row - 1) /\ row <= n /\ a + d + s = row - 1
            /\ drafts >= a + d + b + 1 /\ drafts <= row - 1 + 1 /\ b + f <= s
        BY <3>2, <3>3, <3>5
      <4> HIDE DEF n, row, a, d, s, b, f, drafts, t
      <4>3. /\ a + d + t = n /\ drafts >= a + d + b + 0
            /\ drafts <= n + 0 /\ b + f <= t
        BY <4>1, <4>2
      <4>4. QED BY <4>3 DEF n, row, a, d, s, b, f, drafts, t
    <3>9. \A what : Written(what)' = Written(what)
      BY <3>1 DEF Written
    <3>10. wake.sections = 0
      BY <2>2, <2>4, <3>1
    <3>11. QED BY <3>2, <3>6, <3>7, <3>9, <3>10
           DEF RowsTallied, Drafted, AtRow, Asking
  <2>12. CASE EndFeedback \/ ChooseSkip
    BY <2>12, RowSkipped
    DEF EndFeedback, ChooseSkip, Answers, Untouched, AtRow, Asking
  <2>13. CASE WriteEntry
    BY <2>13, RowWritten DEF WriteEntry, Drafted, AtRow, Asking
  <2>14. CASE ChooseDismiss
    <3>1. wake.at = "menu" /\ wake' = NextRow
      BY <2>14 DEF ChooseDismiss, Answers
    <3>2. wake.at \in Drafted /\ wake.at \in AtRow
      BY <3>1 DEF Drafted, AtRow, Asking
    <3>3. \/ /\ wrote' = [wrote EXCEPT ![Session] = "dismissal"]
             /\ tally' = [tally EXCEPT !.dismissed = @ + 1]
          \/ UNCHANGED wrote /\ tally' = [tally EXCEPT !.skipped = @ + 1]
      BY <2>14 DEF ChooseDismiss
    <3>4. QED BY <3>1, <3>2, <3>3, RowSkipped, RowWritten
  <2>15. CASE AbortWake
    <3>1. /\ wake.at \in {"write", "menu"} /\ wake' = To("aborted")
          /\ UNCHANGED <<tally, wrote>>
      BY <2>15 DEF AbortWake, Answers, Untouched
    <3>2. QED BY <2>2, <2>3, <3>1, RowStays DEF Drafted, AtRow, Asking
  <2>16. CASE Promote
    <3>1. /\ wake.at = "promote" /\ UNCHANGED wrote
          /\ wake' = [wake EXCEPT !.sections = @ + 1]
          /\ tally' = [tally EXCEPT !.promoted = @ + 1]
      BY <2>16 DEF Promote, Answers, Untouched
    <3>2. /\ wake'.at = "promote" /\ wake'.row = wake.row
          /\ wake'.sections = wake.sections + 1
      BY <2>1, <3>1 DEF Wake
    <3>3. /\ tally'.promoted = tally.promoted + 1
          /\ tally'.skipped = tally.skipped /\ tally'.drafted = tally.drafted
          /\ tally'.accepted = tally.accepted /\ tally'.dismissed = tally.dismissed
          /\ tally'.below = tally.below /\ tally'.failed = tally.failed
      BY <2>1, <3>1 DEF TallyShape
    <3>4. tally'.promoted <= (wake'.row - 1) * MaxPromotions + wake'.sections
      <4>1. tally.promoted \in Nat /\ (wake.row - 1) * MaxPromotions \in Nat
        BY <2>2, TallyNumbers, SMTT(20)
      <4>2. tally.promoted <= (wake.row - 1) * MaxPromotions + wake.sections
        BY DEF RowsTallied
      <4> DEFINE most == (wake.row - 1) * MaxPromotions
      <4> HIDE DEF most
      <4>3. tally.promoted + 1 <= most + (wake.sections + 1)
        BY <2>2, <4>1, <4>2, SMTT(20) DEF most
      <4>4. QED BY <3>2, <3>3, <4>3 DEF most
    <3>5. \A what : Written(what)' = Written(what)
      BY <3>1 DEF Written
    <3>6. Behind' = Behind
      BY <3>1, <3>2 DEF Behind
    <3>7. QED BY <3>1, <3>2, <3>3, <3>4, <3>5, <3>6 DEF RowsTallied
  <2>17. CASE CloseInput
    <3>1. /\ wake.at \in Asking /\ wake'.at = wake.at /\ wake'.row = wake.row
          /\ wake'.sections = wake.sections /\ UNCHANGED <<tally, wrote>>
      BY <2>1, <2>17 DEF CloseInput, Untouched, Wake
    <3>2. QED BY <2>4, <3>1, RowStays DEF Asking
  <2>18. QED BY <2>1, <2>5, <2>6, <2>7, <2>8, <2>9, <2>10, <2>11, <2>12, <2>13, <2>14,
               <2>15, <2>16, <2>17 DEF WakeStep, Person
<1>3. CASE Main_ \/ RetroStep \/ Elsewhere \/ Endpoint \/ Drawing \/ UNCHANGED vars
  BY <1>1, <1>3
  DEF Main_, BeginBrief, EndBrief, EndRetro, EndWake, PrintOut, StopLine, Exit, RetroStep,
      Elsewhere, OtherVerb, Endpoint, Drawing, wakeVars, vars
<1>4. QED BY <1>2, <1>3 DEF Next, Ended

-----------------------------------------------------------------------------
(* The inductive invariant, and what follows from it. *)

LEMMA InitIInv ==
  ASSUME Init
  PROVE  IInv
<1>1. /\ LineInit /\ CallInit /\ verb \in Verbs
      /\ main = "run" /\ outcome = "none"
      /\ WakeInit(IF Waking THEN "row" ELSE "off", verb = "auto")
  BY DEF Init, Waking
<1>2. PICK refresh \in BOOLEAN : PoolInit(refresh)
  BY DEF Init
<1>3. /\ pool.at = "start" /\ pool.left = Jobs /\ pool.refresh = refresh
      /\ pool.hits = 0 /\ pool.requests = 0 /\ pool.error = "none"
      /\ Tallied = {} /\ pool.summaries = [i \in {} |-> Jobs[i]]
      /\ worker = [c \in Callers |-> [at |-> "ready", job |-> 0]]
      /\ \E old \in Earlier : cache = {File(f, "whole") : f \in old}
  BY <1>2 DEF PoolInit, Tallied
<1>4. /\ wake = [at |-> IF Waking THEN "row" ELSE "off", row |-> 1, sections |-> 0,
                 auto |-> verb = "auto", input |-> TRUE]
      /\ tally = Tally0 /\ wrote = [s \in Working |-> "nothing"] /\ others = 0
      /\ journal \in [Working -> States]
  BY <1>1 DEF WakeInit, States
<1>5. line \in Line /\ call \in [Callers -> Call] /\ cancelled = FALSE
      /\ \A c \in Callers : call[c] = NoCall
  BY <1>1, CallValues DEF LineInit, Line, CallInit
<1>6. Shape
  <2>1. [i \in {} |-> Jobs[i]] \in Summaries
    <3>1. [i \in {} |-> Jobs[i]] \in [{} -> [of : Facts, text : {"part", "whole"}]]
      OBVIOUS
    <3>2. QED BY <3>1 DEF Summaries
  <2>2. pool \in PoolShape
    BY <1>2, <2>1, Sizes DEF PoolInit, PoolShape
  <2>3. worker \in [Callers -> Worker]
    BY <1>3, Sizes DEF Worker
  <2>4. wake \in Wake
    BY <1>4, Sizes DEF Wake, Waking
  <2>5. tally \in TallyShape
    BY <1>4, Sizes DEF Tally0, TallyShape
  <2>6. /\ others \in 0..MaxOthers /\ wrote \in [Working -> {"nothing", "entry", "dismissal"}]
        /\ main \in {"run", "print", "stop", "wait", "end"}
        /\ outcome \in Verdicts \cup {"none", "write failed"}
    BY <1>1, <1>4, Sizes
  <2>7. QED BY <1>1, <1>4, <1>5, <2>2, <2>3, <2>4, <2>5, <2>6 DEF Shape
<1>7. Place
  BY <1>1, <1>3, <1>4 DEF Place, AtRow, Asking
<1>8. CallsTrue
  BY <1>1, <1>3, <1>5 DEF CallsTrue, Over, NoCall
<1>9. CacheTrue
  BY <1>3 DEF CacheTrue, Facts
<1>10. LineTrue
  BY <1>1 DEF LineInit, LineTrue, Sound
<1>11. PoolTrue
  <2>1. Given = {}
    BY <1>3, Sizes DEF Given
  <2>2. \A c \in Callers : ~Busy(c) /\ worker[c].job = 0
    BY <1>3 DEF Busy
  <2>3. Cardinality(Tallied) = 0
    BY <1>3, FS_EmptySet
  <2>4. QED BY <1>3, <2>1, <2>2, <2>3, Sizes DEF PoolTrue
<1>12. RowsTallied
  <2>1. /\ tally.accepted = 0 /\ tally.dismissed = 0 /\ tally.skipped = 0
        /\ tally.drafted = 0 /\ tally.below = 0 /\ tally.failed = 0 /\ tally.promoted = 0
    BY <1>4 DEF Tally0
  <2>2. wake.at \in {"row", "off"} /\ wake.row = 1 /\ wake.sections = 0 /\ Behind = 0
    BY <1>4 DEF Behind
  <2>3. \A what \in {"entry", "dismissal"} : Written(what) = {}
    BY <1>4 DEF Written
  <2>4. \A what \in {"entry", "dismissal"} : Cardinality(Written(what)) = 0
    BY <2>3, FS_EmptySet
  <2>5. \A j \in DOMAIN Rows : wrote[Rows[j]] = "nothing"
    BY <1>4, Sizes
  <2>6. QED BY <2>1, <2>2, <2>4, <2>5, Sizes DEF RowsTallied, Drafted, AtRow, Asking
<1>13. QED BY <1>6, <1>7, <1>8, <1>9, <1>10, <1>11, <1>12 DEF IInv

LEMMA StepIInv ==
  ASSUME IInv, [Next]_vars
  PROVE  IInv'
BY ShapeStep, PlaceStep, CallsStep, CacheStep, LineStep, PoolStep, RowsStep DEF IInv

\* What the processes of the three verbs owe each other: that a failed call is
\* the pool's error before any call is cancelled for it, that each job is with
\* one worker until it is tallied, and each row with the loop.
THEOREM FlowsInvariant == Spec => []IInv
<1>1. Init => IInv
  BY InitIInv
<1>2. IInv /\ [Next]_vars => IInv'
  BY StepIInv
<1>3. QED BY <1>1, <1>2, PTL DEF Spec

\* Every variable of the three verbs keeps its type: no counter of retro's or
\* of wake's summary passes the number of sessions it counts.
THEOREM FlowsTypeOK == Spec => []TypeOK
<1>1. IInv => TypeOK
  <2> SUFFICES ASSUME IInv PROVE TypeOK
    OBVIOUS
  <2> USE DEF IInv
  <2>2. pool \in Pool
    <3>1. pool \in PoolShape /\ pool.hits \in Nat /\ pool.requests \in Nat
      BY DEF Shape, PoolShape
    <3>2. pool.hits + pool.requests \in 0..Len(Jobs)
      BY GivenJobs DEF PoolTrue
    <3>3. pool.hits \in 0..Len(Jobs) /\ pool.requests \in 0..Len(Jobs)
      BY <3>1, <3>2, Sizes
    <3>4. QED BY <3>1, <3>3 DEF Pool, PoolShape, Summaries
  <2>3. tally \in Summary
    <3>1. /\ tally \in TallyShape
          /\ tally.drafted \in Nat /\ tally.accepted \in Nat /\ tally.dismissed \in Nat
          /\ tally.skipped \in Nat /\ tally.below \in Nat /\ tally.failed \in Nat
          /\ tally.promoted \in Nat
      BY TallyNumbers DEF Shape
    <3>2. /\ wake.row \in 1..(Len(Rows) + 1) /\ wake.sections \in 0..MaxPromotions
          /\ wake.at \in AtRow => wake.row \in 1..Len(Rows)
      BY WakeMoves DEF Shape
    <3>3. Behind \in 0..Len(Rows)
      BY <3>2, Sizes DEF Behind
    <3>4. /\ tally.accepted + tally.dismissed + tally.skipped = Behind
          /\ tally.below + tally.failed <= tally.skipped
          /\ tally.drafted <= Behind + IF wake.at \in Drafted \cup {"aborted"} THEN 1 ELSE 0
      BY DEF RowsTallied
    <3>5. /\ tally.accepted \in 0..Len(Rows) /\ tally.dismissed \in 0..Len(Rows)
          /\ tally.skipped \in 0..Len(Rows)
      <4> DEFINE a == tally.accepted
                 d == tally.dismissed
                 s == tally.skipped
      <4>1. a \in Nat /\ d \in Nat /\ s \in Nat /\ a + d + s = Behind
        BY <3>1, <3>4
      <4> HIDE DEF a, d, s
      <4>2. a <= Behind /\ d <= Behind /\ s <= Behind
        BY <3>3, <4>1, Sizes
      <4>3. a \in 0..Len(Rows) /\ d \in 0..Len(Rows) /\ s \in 0..Len(Rows)
        BY <3>3, <4>1, <4>2, Sizes
      <4>4. QED BY <4>3 DEF a, d, s
    <3>6. tally.below \in 0..Len(Rows) /\ tally.failed \in 0..Len(Rows)
      BY <3>1, <3>4, <3>5, Sizes, SMTT(20)
    <3>7. tally.drafted \in 0..Len(Rows)
      <4>1. CASE wake.at \in Drafted \cup {"aborted"}
        <5>1. Behind = wake.row - 1 /\ wake.row \in 1..Len(Rows)
          BY <3>2, <4>1, Sizes DEF Behind, Drafted, AtRow, Asking, RowsTallied
        <5>2. QED BY <3>1, <3>4, <4>1, <5>1, Sizes
      <4>2. CASE wake.at \notin Drafted \cup {"aborted"}
        BY <3>1, <3>3, <3>4, <4>2, Sizes
      <4>3. QED BY <4>1, <4>2
    <3>8. tally.promoted \in 0..(Len(Rows) * MaxPromotions)
      <4> DEFINE before == (wake.row - 1) * MaxPromotions
                 all == Len(Rows) * MaxPromotions
      <4>1. before + wake.sections <= all /\ before \in Nat /\ all \in Nat
        <5>1. CASE wake.sections > 0
          <6>1. wake.row \in 1..Len(Rows)
            BY <3>2, <5>1, Sizes DEF RowsTallied, AtRow, Asking
          <6>2. wake.row * MaxPromotions <= all /\ all \in Nat /\ before \in Nat
            BY <6>1, Sizes
          <6>3. wake.row * MaxPromotions = before + MaxPromotions
            BY <6>1, Sizes
          <6> HIDE DEF before, all
          <6>4. QED BY <3>2, <6>2, <6>3, Sizes
        <5>2. CASE wake.sections = 0
          <6>1. wake.row - 1 \in 0..Len(Rows)
            BY <3>2, Sizes
          <6>2. before <= all /\ before \in Nat /\ all \in Nat
            BY <6>1, Sizes
          <6>3. QED BY <5>2, <6>2
        <5>3. QED BY <3>2, <5>1, <5>2, Sizes
      <4>2. tally.promoted <= before + wake.sections
        BY DEF RowsTallied
      <4> HIDE DEF before, all
      <4>3. tally.promoted \in 0..all
        BY <3>1, <3>2, <4>1, <4>2, Sizes
      <4>4. QED BY <4>3 DEF all
    <3>9. QED BY <3>1, <3>5, <3>6, <3>7, <3>8 DEF TallyShape, Summary
  <2>4. \A file \in cache : file.summary.of \in Facts
    BY DEF CacheTrue, File, Text
  <2>5. QED BY <2>2, <2>3, <2>4 DEF Shape, TypeOK
<1>2. QED BY <1>1, FlowsInvariant, PTL

\* Nothing is ever written over the status line, and none is up while a person
\* is asked or once the verb has stopped, whenever its goroutine ticks.
THEOREM FlowsCleanScreen == Spec => []CleanScreen
<1>1. IInv => CleanScreen
  <2> SUFFICES ASSUME IInv PROVE CleanScreen
    OBVIOUS
  <2> USE DEF IInv
  <2>2. ASSUME wake.at \in Asking \/ main \in {"wait", "end"} PROVE Quiet
    BY <2>2 DEF Quiet, Place, Asking
  <2>3. line \in Line
    BY DEF Shape
  <2>4. QED BY <2>2, <2>3 DEF CleanScreen, LineTrue, Sound, Line
<1>2. QED BY <1>1, FlowsInvariant, PTL

\* wake's summary adds up, and counts what this run wrote to the journal, for
\* any number of sessions, whatever other processes write meanwhile.
THEOREM FlowsTallyTrue == Spec => []TallyTrue
<1>1. IInv => TallyTrue
  <2> SUFFICES ASSUME IInv, Waking, main # "run", outcome = "ok"
                 PROVE  /\ tally.considered
                             = tally.accepted + tally.dismissed + tally.skipped
                        /\ tally.accepted = Cardinality(Written("entry"))
                        /\ tally.dismissed = Cardinality(Written("dismissal"))
                        /\ tally.drafted >= tally.accepted + tally.dismissed + tally.below
    BY DEF TallyTrue, Waking, Written
  <2> USE DEF IInv
  <2>2. wake.at = "done"
    BY DEF Place
  <2>3. /\ tally.considered = Len(Rows) /\ tally.accepted \in Nat
        /\ tally.dismissed \in Nat /\ tally.below \in Nat /\ tally.drafted \in Nat
    BY TallyNumbers
  <2>4. tally.drafted >= tally.accepted + tally.dismissed + tally.below + 0
    BY <2>2 DEF RowsTallied, Drafted, AtRow, Asking
  <2>5. tally.drafted >= tally.accepted + tally.dismissed + tally.below
    BY <2>3, <2>4
  <2>6. QED BY <2>2, <2>3, <2>5 DEF RowsTallied, Behind
<1>2. QED BY <1>1, FlowsInvariant, PTL

\* No verb reports a cancellation of its own as the reason it failed, however
\* many workers fail and in whatever order they are tallied.
THEOREM FlowsCauseReported == Spec => []CauseReported
<1>1. IInv => CauseReported
  BY DEF IInv, CallsTrue, CauseReported
<1>2. QED BY <1>1, FlowsInvariant, PTL

\* A retro that succeeds has one current summary for each curated session and
\* counts each once, for any number of sessions, workers and cached entries.
THEOREM FlowsSummariesCurrent == Spec => []SummariesCurrent
<1>1. IInv => SummariesCurrent
  <2> SUFFICES ASSUME IInv, pool.at = "done", pool.error = "none"
                 PROVE  /\ pool.hits + pool.requests = Len(Jobs)
                        /\ Tallied = DOMAIN Jobs
                        /\ \A i \in DOMAIN Jobs :
                             EntryKey(pool.summaries[i].of) = EntryKey(Jobs[i])
    BY DEF SummariesCurrent, Tallied, EntryKey
  <2> USE DEF IInv
  <2>2. ~cancelled
    BY DEF CallsTrue
  <2>3. pool.left = <<>> /\ \A c \in Callers : ~Busy(c)
    BY <2>2 DEF PoolTrue, Busy
  <2>4. Given = 1..Len(Jobs)
    BY <2>3, Sizes DEF Given
  <2>5. Tallied = 1..Len(Jobs)
    BY <2>2, <2>3, <2>4 DEF PoolTrue
  <2>6. Cardinality(Tallied) = Len(Jobs)
    BY <2>5, UpTo, Sizes
  <2>7. QED BY <2>5, <2>6, Sizes DEF PoolTrue
<1>2. QED BY <1>1, FlowsInvariant, PTL

\* No reply that was cut off is ever in the summary cache, whatever limits,
\* refusals and cancellations strike the calls of any number of workers.
THEOREM FlowsCacheWhole == Spec => []CacheWhole
<1>1. IInv => CacheWhole
  BY DEF IInv, CacheTrue, CacheWhole, File, Text
<1>2. QED BY <1>1, FlowsInvariant, PTL
=============================================================================
