-------------------------------- MODULE Job ---------------------------------
(***************************************************************************)
(* What a session promises to a Srunc client, without the protocol, the    *)
(* pipes, the signals and the timers: the command is executed at most once *)
(* and only after it was asked for, it is answered at most once, a client  *)
(* that stays attached is answered only when the command is over, and      *)
(* Srunc::exec returns true only for an answer the manager did give.       *)
(***************************************************************************)

VARIABLES
  job,       \* "idle", "running" or "ended"
  detached,  \* the request is for execution at backend
  answer,    \* "none" or "sent"
  outcome    \* of Srunc::exec: "asking", "waiting", "true" or "false"

vars == <<job, detached, answer, outcome>>

Init ==
  /\ job = "idle"
  /\ detached = FALSE
  /\ answer = "none"
  /\ outcome = "asking"

Ask ==
  /\ outcome = "asking"
  /\ outcome' = "waiting"
  /\ UNCHANGED <<job, detached, answer>>

Start ==
  /\ job = "idle"
  /\ answer = "none"
  /\ outcome # "asking"
  /\ job' = "running"
  /\ detached' \in BOOLEAN
  /\ UNCHANGED <<answer, outcome>>

\* No command to execute: a bad one (answered or not), or LIST and STOP.
Settle ==
  /\ job = "idle"
  /\ answer = "none"
  /\ outcome # "asking"
  /\ answer' \in {"none", "sent"}
  /\ detached' \in BOOLEAN
  /\ UNCHANGED <<job, outcome>>

End ==
  /\ job = "running"
  /\ job' = "ended"
  /\ UNCHANGED <<detached, answer, outcome>>

Answer ==
  /\ answer = "none"
  /\ job = "ended" \/ (job = "running" /\ detached)
  /\ answer' = "sent"
  /\ UNCHANGED <<job, detached, outcome>>

Return ==
  /\ outcome = "waiting"
  /\ answer = "sent"
  /\ outcome' = "true"
  /\ UNCHANGED <<job, detached, answer>>

Fail ==
  /\ outcome \in {"asking", "waiting"}
  /\ outcome' = "false"
  /\ UNCHANGED <<job, detached, answer>>

Next == Ask \/ Start \/ Settle \/ End \/ Answer \/ Return \/ Fail

Spec == Init /\ [][Next]_vars
=============================================================================
