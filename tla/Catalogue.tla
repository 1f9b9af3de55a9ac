----------------------------- MODULE Catalogue ------------------------------
(***************************************************************************)
(* What LIST and STOP may rely on, without managers, mounts, cgroups and   *)
(* signals: the life of a command as the registry shows it.  An entry      *)
(* appears only while its command is executing; while the service is up it *)
(* goes only when the command has been reaped, before the pid can be       *)
(* another command's; it goes stale only when its manager is lost or gives *)
(* the command up; and the service comes up only when no command is left   *)
(* from before.                                                            *)
(***************************************************************************)
CONSTANT Pids

VARIABLES
  life,    \* [Pids -> ...] "idle", "running" (cloned, not reaped) or "reaped"
  listed,  \* pids with an entry
  stale,   \* those whose entry nobody will remove
  up       \* connections are being served

vars == <<life, listed, stale, up>>

Become(p, from, to) == life[p] = from /\ life' = [life EXCEPT ![p] = to]

Init ==
  /\ life = [p \in Pids |-> "idle"]
  /\ listed = {} /\ stale = {}
  /\ up \in BOOLEAN

Start(p) == Become(p, "idle", "running") /\ UNCHANGED <<listed, stale, up>>

\* An entry left over from an earlier command with this pid is taken over.
Enter(p) ==
  /\ life[p] = "running"
  /\ listed' = listed \cup {p}
  /\ stale' = stale \ {p}
  /\ UNCHANGED <<life, up>>

Reap(p) == Become(p, "running", "reaped") /\ UNCHANGED <<listed, stale, up>>

Remove(p) ==
  /\ Become(p, "reaped", "idle")
  /\ listed' = listed \ {p}
  /\ stale' = stale \ {p}
  /\ UNCHANGED up

\* A manager ends and leaves its command running.
GiveUp(p) ==
  /\ Become(p, "running", "idle")
  /\ stale' = stale \cup ({p} \cap listed)
  /\ UNCHANGED <<listed, up>>

GoUp ==
  /\ ~up /\ up' = TRUE
  /\ life = [p \in Pids |-> "idle"]
  /\ UNCHANGED <<life, listed, stale>>

GoDown == up /\ up' = FALSE /\ UNCHANGED <<life, listed, stale>>

\* Another directory comes to light; nobody will remove what is in it.
Exchange ==
  /\ ~up
  /\ listed' \in SUBSET Pids
  /\ stale' = listed'
  /\ UNCHANGED <<life, up>>

\* Every process of the service is killed.
Crash ==
  /\ life' = [p \in Pids |-> "idle"]
  /\ stale' = listed
  /\ up' = FALSE
  /\ UNCHANGED listed

Next ==
  \/ \E p \in Pids : \/ Start(p) \/ Enter(p) \/ Reap(p) \/ Remove(p)
                     \/ GiveUp(p)
  \/ GoUp \/ GoDown \/ Exchange \/ Crash

Spec == Init /\ [][Next]_vars
=============================================================================
