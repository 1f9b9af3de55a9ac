------------------------------- MODULE Config -------------------------------
(***************************************************************************)
(* srund's configuration: the constructor reads srund.conf and whatever is *)
(* in srund.d into a map ordered by path, and loadRequest lets the group a *)
(* request names change the request before the manager executes it.        *)
(*                                                                         *)
(* Paths are numbers in the order of the map: 1 is srund.conf, which sorts *)
(* before every path under srund.d.  Of each file only the requested group *)
(* matters.                                                                *)
(***************************************************************************)
EXTENDS Integers

CONSTANTS
  NFiles,    \* configuration files: srund.conf and those in srund.d
  Fields,    \* the fields of a request that a key can set
  Typed,     \* the fields whose key may be ill-formed (numbers, modes)
  MaxEnvs,   \* env1..envk: the largest k a group has
  EnvBound   \* bound: turns of the env loop that are followed

ASSUME ConfigAssumption ==
  /\ NFiles \in Nat \ {0}
  /\ Typed \subseteq Fields
  /\ MaxEnvs \in Nat
  /\ EnvBound \in Nat

Paths == 1 .. NFiles

VARIABLES
  cpc,       \* "read", "failed", "lookup", "env" or "ready"
  disk,      \* [Paths -> KeyFile]: what the files hold
  unread,    \* paths directory_iterator has not delivered yet
  keyfiles,  \* paths that were loaded
  model,     \* the request names a group
  fields,    \* fields of the request: whose value each has
  source,    \* path of the file fillRequest reads (0: none)
  envs       \* variables added to the request

vars == <<cpc, disk, unread, keyfiles, model, fields, source, envs>>

\* A key is absent, ill-formed, or holds the value of the configuration file.
Setting(f) == {"unset", "set"} \cup (IF f \in Typed THEN {"bad"} ELSE {})

KeyFile ==
  [state : {"missing", "broken", "nogroup"},
   key : {[f \in Fields |-> "unset"]}, envs : {0}]
  \cup
  [state : {"group"},
   key : {k \in [Fields -> {"unset", "set", "bad"}] :
            \A f \in Fields : k[f] \in Setting(f)},
   envs : 0 .. MaxEnvs]

Init ==
  /\ cpc = "read"
  /\ disk \in [Paths -> KeyFile]
  /\ unread = Paths
  /\ keyfiles = {}
  /\ model \in BOOLEAN
  /\ fields = [f \in Fields |-> 0]   \* 0: the client's value
  /\ source = 0
  /\ envs = 0

\* The constructor: srund.conf must exist; files that do not load are skipped.
ReadFile(p) ==
  /\ cpc = "read"
  /\ p \in unread
  /\ p # 1 => 1 \notin unread
  /\ unread' = unread \ {p}
  /\ keyfiles' = IF disk[p].state \in {"nogroup", "group"}
                  THEN keyfiles \cup {p} ELSE keyfiles
  /\ cpc' = IF p = 1 /\ disk[p].state = "missing" THEN "failed" ELSE cpc
  /\ UNCHANGED <<disk, model, fields, source, envs>>

ReadAll ==
  /\ cpc = "read"
  /\ unread = {}
  /\ cpc' = "lookup"
  /\ UNCHANGED <<disk, unread, keyfiles, model, fields, source, envs>>

Candidates == {p \in keyfiles : disk[p].state = "group"}

\* Mutant of First: the last file of the map that has the group.
First_last(p) == p \in Candidates /\ \A q \in Candidates : q <= p

First(p) == p \in Candidates /\ \A q \in Candidates : p <= q

\* fillRequest up to the variables: absent and ill-formed keys change nothing.
fillFields(p) == [f \in Fields |-> IF disk[p].key[f] = "set"
                                   THEN p ELSE fields[f]]

\* loadRequest finds the group.
loadRequest ==
  /\ cpc = "lookup"
  /\ model
  /\ \E p \in Paths : First(p) /\ fields' = fillFields(p) /\ source' = p
  /\ cpc' = "env"
  /\ UNCHANGED <<disk, unread, keyfiles, model, envs>>

\* The request names no group, or a group no file has: its result is ignored.
LoadNothing ==
  /\ cpc = "lookup"
  /\ model => Candidates = {}
  /\ cpc' = "ready"
  /\ UNCHANGED <<disk, unread, keyfiles, model, fields, source, envs>>

\* One turn of fillRequest's loop: n stays 1, so it is env1 every time.
AddEnv ==
  /\ cpc = "env"
  /\ disk[source].envs >= 1
  /\ envs < EnvBound
  /\ envs' = envs + 1
  /\ UNCHANGED <<cpc, disk, unread, keyfiles, model, fields, source>>

EnvsEnd ==
  /\ cpc = "env"
  /\ disk[source].envs < 1
  /\ cpc' = "ready"
  /\ UNCHANGED <<disk, unread, keyfiles, model, fields, source, envs>>

Next ==
  \/ \E p \in Paths : ReadFile(p)
  \/ ReadAll
  \/ loadRequest
  \/ LoadNothing
  \/ AddEnv
  \/ EnvsEnd

Spec == Init /\ [][Next]_vars

-----------------------------------------------------------------------------
\* The files that decide, as the administrator sees them on the disk.
Deciding == {p \in Paths : disk[p].state = "group"}

\* Whatever the order in which the directory is read and whichever files are
\* missing or broken, exactly one file decides about a request: srund.conf if
\* it has the group, otherwise the first of srund.d that does.  Its well-formed
\* keys are taken, and "if the key is not set, the value won't change"
\* (srund.conf): nothing is mixed in from another file.
OneFileDecides ==
  cpc \in {"env", "ready"} =>
    \A f \in Fields :
      fields[f] = IF \E p \in Deciding :
                       /\ model
                       /\ \A q \in Deciding : p <= q
                       /\ disk[p].key[f] = "set"
                  THEN CHOOSE p \in Deciding : \A q \in Deciding : p <= q
                  ELSE 0

\* The inductive strengthening: the map holds exactly the files read so far
\* that load, and the request is the client's until the group is found.
ConfigInv ==
  /\ disk \in [Paths -> KeyFile]
  /\ model \in BOOLEAN
  /\ unread \subseteq Paths
  /\ cpc \in {"read", "failed", "lookup", "env", "ready"}
  /\ cpc = "lookup" => unread = {}
  /\ keyfiles = {p \in Paths \ unread : disk[p].state \in {"nogroup", "group"}}
  /\ cpc \notin {"env", "ready"} => fields = [f \in Fields |-> 0]
  /\ OneFileDecides

\* A group's env1, env2, ... are each added to the environment once.
EnvsAsConfigured == source # 0 => envs <= disk[source].envs
=============================================================================
