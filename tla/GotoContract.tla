------------------------------ MODULE GotoContract ------------------------------
(***************************************************************************)
(* What the goto lane promises its submitters, whatever else moves the     *)
(* robot (reachy/behavior/goto_lane.py, module docstring and events):      *)
(* every goto submitted runs at most once, alone, in submission order, and *)
(* ends in exactly one of "done" and "cancelled".                          *)
(***************************************************************************)
EXTENDS Naturals

CONSTANT MaxGotos      \* bound: gotos submitted

VARIABLE fate          \* what the emitted events say of each goto

Fates == {"unsubmitted", "queued", "running", "done", "cancelled"}
Gotos == 1 .. MaxGotos

TypeOK == fate \in [Gotos -> Fates]

Init == fate = [g \in Gotos |-> "unsubmitted"]

Submit(g) ==
  /\ fate[g] = "unsubmitted"
  /\ \A h \in Gotos : h < g => fate[h] # "unsubmitted"
  /\ fate' = [fate EXCEPT ![g] = "queued"]

Ended(g) == fate[g] \in {"done", "cancelled"}

\* The running goto, if any, ends one way or the other.
End(g, how) ==
  /\ fate[g] = "running"
  /\ fate' = [fate EXCEPT ![g] = how]

\* The oldest queued goto starts: in the turn that ends the running one, if any.
Start(g, how) ==
  /\ fate[g] = "queued"
  /\ \A h \in Gotos : h < g => fate[h] = "running" \/ Ended(h)
  /\ fate' = [h \in Gotos |-> IF h = g THEN "running"
                              ELSE IF fate[h] = "running" THEN how ELSE fate[h]]

Next == \E g \in Gotos :
          \/ Submit(g)
          \/ \E how \in {"done", "cancelled"} : End(g, how) \/ Start(g, how)

Spec == Init /\ [][Next]_fate
================================================================================
