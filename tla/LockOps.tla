-------------------------------- MODULE LockOps --------------------------------
(***************************************************************************)
(* The inhibited set and the face lock's claim on it, as functions on a    *)
(* record, so that the lock driver and the intent driver compose them:     *)
(*   held    FaceLockDriver._locked                                        *)
(*   added   FaceLockDriver._added, what a release hands back              *)
(*   inh     IntentDriver._inhibitions                                     *)
(***************************************************************************)
CONSTANTS Names,          \* names of the behavior library
          LockInhibits    \* LOCK_INHIBITS

ASSUME LockInhibitsAssumption == LockInhibits \subseteq Names

Claims == [held : BOOLEAN, added : SUBSET Names, inh : SUBSET Names]

NoClaim == [held |-> FALSE, added |-> {}, inh |-> {}]

\* _take_inhibitions: remember only what was not inhibited already.
Take(k) == [held  |-> TRUE,
            added |-> LockInhibits \ k.inh,
            inh   |-> k.inh \cup LockInhibits]

\* Faulty: the claim is not re-asserted, as if it had been settled at the take.
ReplacedFrozen(k, new) == [k EXCEPT !.inh = new]

\* A set_inhibition replaces the whole set; notice_inhibition_replaced then works
\* out what the lock owns: the names the caller left out, and all it owned before
\* when the caller wrote every one of those (an echo of what it had read).
Replaced(k, new) ==
  LET echo == k.added # {} /\ k.added \subseteq new IN
  IF k.held
  THEN [k EXCEPT !.added = (LockInhibits \ new) \cup (IF echo THEN k.added ELSE {}),
                 !.inh   = new \cup LockInhibits]
  ELSE [k EXCEPT !.added = {}, !.inh = new]

\* _release with _restore_inhibitions: exactly what was added is removed.
GivenBack(k) == [held |-> FALSE, added |-> {}, inh |-> k.inh \ k.added]
================================================================================
