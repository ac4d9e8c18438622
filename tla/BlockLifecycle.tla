--------------------------- MODULE BlockLifecycle ---------------------------
(***************************************************************************)
(* What the device promises about an atomic motion block, without saying   *)
(* how: there is one execution slot; an accepted block reserves it, may    *)
(* execute, ends with one outcome, and that outcome is reported at most    *)
(* once before the slot is free again.  A fault reset empties the slot     *)
(* without an outcome.  The firmware modules implement this specification. *)
(***************************************************************************)
EXTENDS Naturals, Sequences

CONSTANTS
  Jobs,      \* the numbers of accepted blocks: 1, 2, ... in order of acceptance
  Sessions   \* the TCP sessions a result may be sent to

VARIABLES
  slot,      \* "free", "reserved", "executing" or "ended"
  job,       \* how many blocks were accepted; the last one owns the slot
  outcome,   \* how the block in an "ended" slot ended
  reports    \* for each job, the results sent for it

lifecycleVars == <<slot, job, outcome, reports>>

Outcome == {"done", "failed", "cancelled"}

LifecycleInit ==
  /\ slot = "free"
  /\ job = 0
  /\ outcome = "none"
  /\ reports = [j \in Jobs |-> <<>>]

Accept ==
  /\ slot = "free"
  /\ job + 1 \in Jobs
  /\ slot' = "reserved"
  /\ job' = job + 1
  /\ outcome' = "none"
  /\ UNCHANGED reports

Start ==
  /\ slot = "reserved"
  /\ slot' = "executing"
  /\ UNCHANGED <<job, outcome, reports>>

\* Only a block that executed is "done"; only one that did not is "cancelled".
End ==
  /\ \/ slot = "reserved"  /\ outcome' \in {"failed", "cancelled"}
     \/ slot = "executing" /\ outcome' \in {"failed", "done"}
  /\ slot' = "ended"
  /\ UNCHANGED <<job, reports>>

Report(s) ==
  /\ slot = "ended"
  /\ reports[job] = <<>>
  /\ reports' = [reports EXCEPT ![job] = <<[status |-> outcome, to |-> s]>>]
  /\ slot' = "free"
  /\ outcome' = "none"
  /\ UNCHANGED job

\* No session is there to receive the result.
Discard ==
  /\ slot = "ended"
  /\ slot' = "free"
  /\ outcome' = "none"
  /\ UNCHANGED <<job, reports>>

\* A fault reset frees the slot whatever was in it.
Drop ==
  /\ slot # "free"
  /\ slot' = "free"
  /\ outcome' = "none"
  /\ UNCHANGED <<job, reports>>

LifecycleNext ==
  \/ Accept \/ Start \/ End \/ Discard \/ Drop
  \/ \E s \in Sessions : Report(s)

LifecycleSpec == LifecycleInit /\ [][LifecycleNext]_lifecycleVars
=============================================================================
