------------------------- MODULE CurationLifecycle -------------------------
(***************************************************************************)
(* What the journal promises about one session (the state diagram behind   *)
(* CurationState, SURFACE V14 and V15): captured, then curated or          *)
(* dismissed; a dismissal can be taken back or revived into an entry; a    *)
(* curated session stays curated, because dropping it would orphan its     *)
(* entry.                                                                  *)
(***************************************************************************)
CONSTANT Sessions

VARIABLE state

TypeOK ==
  state \in [Sessions -> {"absent", "captured", "curated", "dismissed"}]

Init == state = [x \in Sessions |-> "absent"]

Move(x, from, to) ==
  /\ state[x] \in from
  /\ state' = [state EXCEPT ![x] = to]

Capture(x)   == Move(x, {"absent"}, "captured")
Curate(x)    == Move(x, {"captured", "dismissed"}, "curated")
Dismiss(x)   == Move(x, {"captured"}, "dismissed")
Undismiss(x) == Move(x, {"dismissed"}, "captured")

Next == \E x \in Sessions : Capture(x) \/ Curate(x) \/ Dismiss(x) \/ Undismiss(x)

Spec == Init /\ [][Next]_state
=============================================================================
