----------------------------- MODULE ClientLife -----------------------------
(***************************************************************************)
(* The life of a client, as Close and the package-level functions see it:  *)
(* a worker that runs until the first Close cancels it and is done some    *)
(* time later, and a sync.Once that is used up when that Close returns,    *)
(* because the worker is done or because its context is.  Client, the      *)
(* detailed model, implements it, and every client of DefaultClient is one.*)
(***************************************************************************)
VARIABLES
  worker,    \* "none", "running", "closing" or "done"
  once,      \* "new", "running" or "used"
  gaveUp,    \* a Close has returned before the worker was done
  sent       \* what was handed to the transport

vars == <<worker, once, gaveUp, sent>>

Init ==
  /\ worker \in {"none", "running"}
  /\ once = "new"
  /\ gaveUp = FALSE

\* NewClient
Start ==
  /\ worker = "none"
  /\ worker' = "running"
  /\ UNCHANGED <<once, gaveUp, sent>>

\* Only a worker sends.
Work ==
  /\ worker \in {"running", "closing"}
  /\ UNCHANGED <<worker, once, gaveUp>>

\* The first Close
Cancel ==
  /\ worker = "running" /\ once = "new"
  /\ worker' = "closing" /\ once' = "running"
  /\ UNCHANGED <<gaveUp, sent>>

\* Only a worker that was told to ends, and it never starts again.
Finish ==
  /\ worker = "closing"
  /\ worker' = "done"
  /\ UNCHANGED <<once, gaveUp, sent>>

\* That Close returns nil,
Return ==
  /\ once = "running" /\ worker = "done"
  /\ once' = "used"
  /\ UNCHANGED <<worker, gaveUp, sent>>

\* or the error of its context.
GiveUp ==
  /\ once = "running"
  /\ once' = "used" /\ gaveUp' = TRUE
  /\ UNCHANGED <<worker, sent>>

Next == Start \/ Work \/ Cancel \/ Finish \/ Return \/ GiveUp

Spec == Init /\ [][Next]_vars

=============================================================================
