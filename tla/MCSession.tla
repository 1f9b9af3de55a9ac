----------------------------- MODULE MCSession ------------------------------
(* Values of the constants of Session for TLC.                             *)
EXTENDS Session

Modes(o, e) == [s \in Streams |-> IF s = "out" THEN o ELSE e]

\* Every mode of stdout; stderr in the modes that differ in kind.
MixedRequests ==
  [backend : BOOLEAN,
   modes : {Modes("MSG", "MSG"), Modes("FILE", "MSG"), Modes("IGN", "IGN")},
   timed : BOOLEAN]

ForegroundRequests == {r \in MixedRequests : ~r.backend}

\* Foreground, with a timeout, and a pipe the manager watches.
PipedTimed ==
  {r \in ForegroundRequests : r.timed /\ r.modes # Modes("IGN", "IGN")}

ForegroundTimed == {r \in ForegroundRequests : r.timed}

ForegroundUntimed == ForegroundRequests \ ForegroundTimed

\* Two requests of different shape, for a client that sends a second one.
TwoRequests ==
  {[backend |-> FALSE, modes |-> Modes("MSG", "IGN"), timed |-> TRUE],
   [backend |-> TRUE,  modes |-> Modes("IGN", "FILE"), timed |-> TRUE]}

BackendQuiet ==
  {[backend |-> TRUE, modes |-> Modes("IGN", "IGN"), timed |-> FALSE]}
=============================================================================
