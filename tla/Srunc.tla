------------------------------- MODULE Srunc --------------------------------
(***************************************************************************)
(* The client library as srunctl uses it: Srunc::exec sends one request,   *)
(* answers SYN with ACK and returns on any other message.  A client that   *)
(* fails exits, which closes its socket.                                   *)
(***************************************************************************)
EXTENDS Wire

CONSTANTS
  ClientMethods,  \* requests the client may make: EXE, LIST, STOP
  ClientMayDie,   \* BOOLEAN: the client may be killed at any time
  ExtraMethods,   \* what a client other than Srunc may send while it waits
  MaxExtra        \* bound: how many such messages it sends

ASSUME SruncAssumption ==
  /\ ClientMethods \subseteq {"EXE", "LIST", "STOP"}
  /\ ClientMayDie \in BOOLEAN
  /\ ExtraMethods \subseteq Method
  /\ MaxExtra \in Nat

VARIABLES
  cstate,  \* "connected", "polling", "done" (true) or "failed" (false)
  extra    \* messages sent beyond what Srunc sends

sruncVars == <<cstate, extra>>

\* sendMessage(message) in exec, after connect.
ClientSends ==
  /\ cstate = "connected"
  /\ \/ /\ connection = "open"
        /\ \E m \in ClientMethods : c2m' = Append(c2m, m)
        /\ cstate' = "polling"
        /\ UNCHANGED sockfd
     \/ /\ connection = "closed"
        /\ cstate' = "failed"
        /\ sockfd' = "closed"
        /\ UNCHANGED c2m
  /\ UNCHANGED <<connection, m2c, extra>>

\* poll reports POLLIN: there are bytes, or the peer has closed.
Readable == m2c # <<>> \/ connection = "closed"

\* ParseFromString succeeds on what recvMessage read.
Parses == m2c # <<>> /\ \A i \in DOMAIN m2c : m2c[i].method # "PART"

\* case SYN: answer ACK and poll again.
ClientAcks ==
  /\ cstate = "polling"
  /\ Parses
  /\ ParsedMethod(MethodsOf(m2c)) = "SYN"
  /\ connection = "open"
  /\ m2c' = <<>>
  /\ c2m' = Append(c2m, "ACK")
  /\ UNCHANGED <<connection, sockfd, cstate, extra>>

\* default: the answer is in; close and return true.
ClientReturns ==
  /\ cstate = "polling"
  /\ Parses
  /\ ParsedMethod(MethodsOf(m2c)) # "SYN"
  /\ cstate' = "done"
  /\ sockfd' = "closed"
  /\ m2c' = <<>>
  /\ UNCHANGED <<connection, c2m, extra>>

\* An exception in exec: nothing read, no parse, or no peer for the ACK.
ClientFails ==
  /\ cstate = "polling"
  /\ Readable
  /\ \/ ~Parses
     \/ ParsedMethod(MethodsOf(m2c)) = "SYN" /\ connection = "closed"
  /\ cstate' = "failed"
  /\ sockfd' = "closed"
  /\ m2c' = <<>>
  /\ UNCHANGED <<connection, c2m, extra>>

\* The client process is killed.
ClientDies ==
  /\ ClientMayDie
  /\ cstate \in {"connected", "polling"}
  /\ cstate' = "failed"
  /\ sockfd' = "closed"
  /\ m2c' = <<>>
  /\ UNCHANGED <<connection, c2m, extra>>

\* Another client of the protocol: a probe of its own, a request sent again.
ClientSendsMore ==
  /\ cstate = "polling"
  /\ connection = "open"
  /\ extra < MaxExtra
  /\ extra' = extra + 1
  /\ \E m \in ExtraMethods : c2m' = Append(c2m, m)
  /\ UNCHANGED <<connection, sockfd, m2c, cstate>>

SruncTypeOK ==
  /\ cstate \in {"connected", "polling", "done", "failed"}
  /\ extra \in Nat

SruncInit ==
  /\ cstate = "connected"
  /\ extra = 0
=============================================================================
