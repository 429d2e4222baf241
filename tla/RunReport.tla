----------------------------- MODULE RunReport -----------------------------
(* What the engine promises the dispatcher about one execution: it reports    *)
(* once, and what it reports is explained by what happened.                   *)

VARIABLES
  done,    \* the context of the execution is done
  faults,  \* what has gone wrong in a node, or what a node has logged as an error
  outcome  \* the status the dispatcher's hooks save

\* "canceled": the run shared the work of another one, which was canceled.
Faults == {"failure", "deadline", "canceled", "panic", "errorLog"}

Init == done = FALSE /\ faults = {} /\ outcome = "none"

Cancel == done' = TRUE /\ UNCHANGED <<faults, outcome>>

Fault(f) ==
  /\ outcome = "none"
  /\ faults' = faults \cup {f}
  /\ UNCHANGED <<done, outcome>>

\* A fault always shows: it ends in failed or canceled. And nothing is reported
\* failed without a fault, nor canceled without a timeout or a cancellation, be it
\* of the run whose work it shared.
Explained(status) ==
  \/ status = "succeeded" /\ faults = {}
  \/ status = "failed" /\ faults # {}
  \/ status = "canceled" /\ (done \/ faults \cap {"deadline", "canceled"} # {})

Report(status) ==
  /\ outcome = "none" /\ Explained(status)
  /\ outcome' = status
  /\ UNCHANGED <<done, faults>>

Next ==
  \/ Cancel
  \/ \E f \in Faults : Fault(f)
  \/ \E status \in {"succeeded", "failed", "canceled"} : Report(status)

Spec == Init /\ [][Next]_<<done, faults, outcome>>
=============================================================================
