----------------------------- MODULE EventualView -----------------------------
(***************************************************************************)
(* What a screen that polls promises: it shows nothing that was never      *)
(* true, and what is true in the end it shows in the end.                  *)
(***************************************************************************)
EXTENDS Integers

VARIABLES
  truth,   \* how often the answer has changed
  view     \* the answer shown: -1 none yet

\* The first answer may be left over from an earlier visit.
Init == truth = 0 /\ view \in {-1, 0}

Change == truth' = truth + 1 /\ UNCHANGED view

Show == view' \in 0..truth /\ UNCHANGED truth

CatchUp == view' = truth /\ UNCHANGED truth

vars == <<truth, view>>

\* Nothing but the truth, and in the end the truth.
Shows == Init /\ [][Change \/ Show]_vars

Spec == Shows /\ WF_vars(CatchUp)
=============================================================================
