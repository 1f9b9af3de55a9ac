-------------------------------- MODULE Wire --------------------------------
(***************************************************************************)
(* The AF_UNIX stream socket between one client and the manager process    *)
(* that serves it, and what protobuf makes of the bytes read from it.      *)
(*                                                                         *)
(* Neither side frames its messages.  A reader drains the socket           *)
(* (recv_message, Srunc::recvMessage) and hands everything it read to ONE  *)
(* ParseFromString, so messages that queued up are merged field by field:  *)
(* the last value on the wire wins.  A proto3 build does not put the       *)
(* default enum value on the wire, and EXE is the default method.          *)
(***************************************************************************)
EXTENDS Integers, Sequences

CONSTANTS
  ProtoVersion,  \* 2 or 3: the .proto file CMake selected for the build
  SockCap        \* bytes of output a reply may carry in one non-blocking write

ASSUME WireAssumption == ProtoVersion \in {2, 3} /\ SockCap \in Nat

VARIABLES
  connection,  \* the manager's descriptor: "open" or "closed" (-1)
  sockfd,      \* the client's descriptor: "open" or "closed"
  m2c,         \* messages written by the manager, not yet read
  c2m          \* methods of the messages written by the client, not yet read

wireVars == <<connection, sockfd, m2c, c2m>>

Method == {"EXE", "SYN", "ACK", "LIST", "STOP"}
Stat   == {"NORMAL", "TIMEOUT", "ABNORMAL", "BADARGS"}

\* A message to the client.  "PART" stands for a reply cut short by a partial
\* write; stat is "NONE" when the message carries no Response.  outstr and
\* errstr are lengths, in bytes.
Message == [method : Method \cup {"PART"}, stat : Stat \cup {"NONE"},
            outstr : Nat, errstr : Nat]

Control(m)     == [method |-> m, stat |-> "NONE", outstr |-> 0, errstr |-> 0]
Reply(s, o, e) == [method |-> "EXE", stat |-> s, outstr |-> o, errstr |-> e]

\* Mutant of OnWire: every build leaves the default out.
OnWire_never(m) == m # "EXE"

\* The method field of a message is on the wire.
OnWire(m) == ProtoVersion = 2 \/ m # "EXE"

\* The method ParseFromString yields for a sequence of methods read together.
ParsedMethod(q) ==
  LET I == {i \in DOMAIN q : OnWire(q[i])}
  IN  IF I = {} THEN "EXE"
      ELSE q[CHOOSE i \in I : \A j \in I : j <= i]

MethodsOf(q) == [i \in DOMAIN q |-> q[i].method]

WireTypeOK ==
  /\ connection \in {"open", "closed"}
  /\ sockfd \in {"open", "closed"}
  /\ m2c \in Seq(Message)
  /\ c2m \in Seq(Method)

WireInit ==
  /\ connection = "open"
  /\ sockfd = "open"
  /\ m2c = <<>>
  /\ c2m = <<>>
=============================================================================
