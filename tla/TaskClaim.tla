----------------------------- MODULE TaskClaim -----------------------------
(***************************************************************************)
(* What the task store and the executor together promise about a task: it  *)
(* is worked on by one worker at a time, only the worker that claimed it   *)
(* ends or suspends it, an end is final, and a claim whose worker is gone  *)
(* returns to the ready tasks only when no worker is left.                 *)
(***************************************************************************)
CONSTANTS Tasks, Workers, Nobody

VARIABLES state, owner

vars == <<state, owner>>

State == {"absent", "ready", "claimed", "suspended", "done"}

Init ==
  /\ state = [t \in Tasks |-> "absent"]
  /\ owner = [t \in Tasks |-> Nobody]

Submit(t) ==
  /\ state[t] = "absent"
  /\ state' = [state EXCEPT ![t] = "ready"]
  /\ UNCHANGED owner

Claim(t, w) ==
  /\ state[t] = "ready" /\ \A u \in Tasks : owner[u] # w
  /\ state' = [state EXCEPT ![t] = "claimed"]
  /\ owner' = [owner EXCEPT ![t] = w]

Finish(t, w) ==
  /\ state[t] = "claimed" /\ owner[t] = w
  /\ state' = [state EXCEPT ![t] = "done"]
  /\ owner' = [owner EXCEPT ![t] = Nobody]

Suspend(t, w) ==
  /\ state[t] = "claimed" /\ owner[t] = w
  /\ state' = [state EXCEPT ![t] = "suspended"]
  /\ owner' = [owner EXCEPT ![t] = Nobody]

Continue(t) ==
  /\ state[t] = "suspended"
  /\ state' = [state EXCEPT ![t] = "ready"]
  /\ UNCHANGED owner

(* A worker gives its claim up without a word. *)
Lose(t, w) ==
  /\ owner[t] = w
  /\ owner' = [owner EXCEPT ![t] = Nobody]
  /\ UNCHANGED state

(* All workers are lost at once. *)
LoseAll ==
  /\ owner' = [t \in Tasks |-> Nobody]
  /\ UNCHANGED state

(* With no worker left, every claim is open again. *)
Reclaim ==
  /\ \A t \in Tasks : owner[t] = Nobody
  /\ state' = [t \in Tasks |-> IF state[t] = "claimed" THEN "ready" ELSE state[t]]
  /\ UNCHANGED owner

Next ==
  \/ \E t \in Tasks : Submit(t) \/ Continue(t)
  \/ \E t \in Tasks, w \in Workers : Claim(t, w) \/ Finish(t, w) \/ Suspend(t, w) \/ Lose(t, w)
  \/ LoseAll \/ Reclaim

Spec == Init /\ [][Next]_vars

=============================================================================
