---------------------------- MODULE ClientProofs ----------------------------
(***************************************************************************)
(* Proofs about a session whose client is a Srunc object, that is one that *)
(* sends nothing beside its request and its ACKs (MaxExtra = 0): it is     *)
(* answered at most once, the keep-alive is never lost or doubled, and a   *)
(* client that reads and answers in time is never taken for dead.          *)
(***************************************************************************)
EXTENDS SessionProofs, WellFoundedInduction

-----------------------------------------------------------------------------
(* What ParseFromString makes of messages read together.                   *)

\* A nonempty set of indices of a sequence has a last element.
LEMMA LastIndex ==
  ASSUME NEW n \in Nat, NEW I \in SUBSET (1 .. n), I # {}
  PROVE  \E i \in I : \A j \in I : j <= i
<1> DEFINE T == {n - i : i \in I}
<1>1. T \subseteq Nat
  <2>1. \A i \in I : n - i \in Nat
    OBVIOUS
  <2>q. QED
    BY <2>1
<1>2. T # {}
  OBVIOUS
<1>3. \E x \in T : \A y \in T : ~ (<<y, x>> \in OpToRel(<, Nat))
  BY <1>1, <1>2, WFMin, NatLessThanWellFounded
<1>4. PICK x \in T : \A y \in T : ~ (<<y, x>> \in OpToRel(<, Nat))
  BY <1>3
<1>5. \A y \in T : ~(y < x)
  BY <1>1, <1>4 DEF OpToRel
<1>6. PICK i \in I : x = n - i
  OBVIOUS
<1>7. \A j \in I : ~(n - j < x)
  BY <1>5
<1>8. \A j \in I : j \in 1 .. n
  OBVIOUS
<1>q. QED
  BY <1>6, <1>7, <1>8

\* ParsedMethod is the last method on the wire, or EXE when none is.
LEMMA ParsedLast ==
  ASSUME NEW S, NEW q \in Seq(S)
  PROVE  \/ /\ \A i \in DOMAIN q : ~OnWire(q[i])
            /\ ParsedMethod(q) = "EXE"
         \/ \E i \in DOMAIN q : /\ OnWire(q[i])
                                /\ ParsedMethod(q) = q[i]
                                /\ \A j \in DOMAIN q : OnWire(q[j]) => j <= i
<1> DEFINE I == {i \in DOMAIN q : OnWire(q[i])}
           last == CHOOSE i \in I : \A j \in I : j <= i
<1>1. CASE I = {}
  BY <1>1 DEF ParsedMethod
<1>2. CASE I # {}
  <2>1. I \in SUBSET (1 .. Len(q)) /\ Len(q) \in Nat
    OBVIOUS
  <2>2. \E i \in I : \A j \in I : j <= i
    BY <1>2, <2>1, LastIndex
  <2>3. last \in I /\ \A j \in I : j <= last
    BY <2>2
  <2>4. ParsedMethod(q) = q[last]
    BY <1>2 DEF ParsedMethod
  <2>q. QED
    BY <2>3, <2>4
<1>q. QED
  BY <1>1, <1>2

\* What the manager finds in what a Srunc client sent: its request only when it
\* has not been read yet and no ACK is behind it, else an ACK, and never SYN.
LEMMA ManagerReads ==
  ASSUME c2m \in Seq(Method), RequestFirst, c2m # <<>>
  PROVE  /\ ParsedMethod(c2m) # "SYN"
         /\ ParsedMethod(c2m) = "ACK" => \E i \in DOMAIN c2m : c2m[i] = "ACK"
         /\ ParsedMethod(c2m) # "ACK" =>
              /\ \E i \in DOMAIN c2m : c2m[i] # "ACK"
              /\ \A i \in DOMAIN c2m : c2m[i] # "ACK"
<1> DEFINE Found == /\ ParsedMethod(c2m) # "SYN"
                    /\ ParsedMethod(c2m) = "ACK" =>
                         \E i \in DOMAIN c2m : c2m[i] = "ACK"
                    /\ ParsedMethod(c2m) # "ACK" =>
                         /\ \E i \in DOMAIN c2m : c2m[i] # "ACK"
                         /\ \A i \in DOMAIN c2m : c2m[i] # "ACK"
<1>1. DOMAIN c2m = 1 .. Len(c2m) /\ Len(c2m) \in Nat /\ 1 \in DOMAIN c2m
  OBVIOUS
<1>2. CASE /\ \A i \in DOMAIN c2m : ~OnWire(c2m[i])
           /\ ParsedMethod(c2m) = "EXE"
  BY <1>1, <1>2 DEF OnWire
<1>3. ASSUME NEW i \in DOMAIN c2m, ParsedMethod(c2m) = c2m[i],
             \A j \in DOMAIN c2m : OnWire(c2m[j]) => j <= i
      PROVE  Found
  <2>1. c2m[i] # "SYN"
    BY DEF RequestFirst
  <2>2. ASSUME c2m[i] # "ACK", NEW j \in DOMAIN c2m PROVE c2m[j] # "ACK"
    <3>1. i = 1
      BY <2>2 DEF RequestFirst
    <3>2. ASSUME c2m[j] = "ACK" PROVE FALSE
      <4>1. j <= 1
        BY <1>3, <3>1, <3>2 DEF OnWire
      <4>2. j = 1
        BY <1>1, <4>1
      <4>q. QED
        BY <2>2, <3>1, <3>2, <4>2
    <3>q. QED
      BY <3>2
  <2>q. QED
    BY <1>3, <2>1, <2>2
<1>4. \/ /\ \A i \in DOMAIN c2m : ~OnWire(c2m[i])
         /\ ParsedMethod(c2m) = "EXE"
      \/ \E i \in DOMAIN c2m :
           /\ ParsedMethod(c2m) = c2m[i]
           /\ \A j \in DOMAIN c2m : OnWire(c2m[j]) => j <= i
  BY ParsedLast
<1>q. QED
  BY <1>2, <1>3, <1>4

\* What a client finds in what the manager sent: SYN only when there is one,
\* anything else only when an answer is among it.
LEMMA ClientReads ==
  ASSUME m2c \in Seq(Message), m2c # <<>>
  PROVE  /\ ParsedMethod(MethodsOf(m2c)) = "SYN" => InFlight.SYN # {}
         /\ ParsedMethod(MethodsOf(m2c)) # "SYN" => Answers # {}
<1> DEFINE q == MethodsOf(m2c)
<1>1. /\ DOMAIN q = DOMAIN m2c
      /\ q \in Seq(Method \cup {"PART"})
      /\ \A i \in DOMAIN m2c : q[i] = m2c[i].method
  <2>1. DOMAIN m2c = 1 .. Len(m2c) /\ Len(m2c) \in Nat
    OBVIOUS
  <2>2. \A i \in DOMAIN m2c : m2c[i].method \in Method \cup {"PART"}
    <3>1. \A i \in DOMAIN m2c : m2c[i] \in Message
      OBVIOUS
    <3>q. QED
      BY <3>1 DEF Message
  <2>3. q = [i \in 1 .. Len(m2c) |-> m2c[i].method]
    BY <2>1 DEF MethodsOf
  <2>4. q \in Seq(Method \cup {"PART"})
    BY <2>1, <2>2, <2>3
  <2>q. QED
    BY <2>1, <2>3, <2>4
<1>2. 1 \in DOMAIN m2c
  OBVIOUS
<1> HIDE DEF q
<1>3. \/ /\ \A i \in DOMAIN q : ~OnWire(q[i])
         /\ ParsedMethod(q) = "EXE"
      \/ \E i \in DOMAIN q : ParsedMethod(q) = q[i]
  BY <1>1, ParsedLast
<1>4. ParsedMethod(q) = "SYN" => InFlight.SYN # {}
  BY <1>1, <1>3 DEF InFlight
<1>5. ParsedMethod(q) # "SYN" => Answers # {}
  BY <1>1, <1>2, <1>3 DEF Answers, OnWire
<1>q. QED
  BY <1>4, <1>5 DEF q

-----------------------------------------------------------------------------
(* One more message on the wire.                                           *)

\* write() puts a message behind those that are there.
LEMMA Behind ==
  ASSUME NEW S, NEW q \in Seq(S), NEW e \in S
  PROVE  /\ DOMAIN Append(q, e) = DOMAIN q \cup {Len(q) + 1}
         /\ Len(q) + 1 \notin DOMAIN q
         /\ Append(q, e)[Len(q) + 1] = e
         /\ \A i \in DOMAIN q : Append(q, e)[i] = q[i]
  OBVIOUS

\* The first answer: there is none before it, and sending it does not touch
\* the keep-alive.
LEMMA FirstAnswer ==
  ASSUME NEW m \in Message, NEW next, m.method \notin {"SYN", "ACK"},
         m2c \in Seq(Message), ClientInv, ~result_sendback, pc \notin Ending,
         send_message(m, next)
  PROVE  /\ OneAnswer'
         /\ \A i \in Answers' : m2c'[i].method = "PART" \/ result_sendback'
         /\ ~result_sendback' /\ pc' \notin Ending => Answers' = {}
         /\ InFlight.SYN' = InFlight.SYN
<1> DEFINE n == Len(m2c) + 1
           Result ==
             /\ OneAnswer'
             /\ \A i \in Answers' : m2c'[i].method = "PART" \/ result_sendback'
             /\ ~result_sendback' /\ pc' \notin Ending => Answers' = {}
             /\ InFlight.SYN' = InFlight.SYN
<1>1. \A i \in DOMAIN m2c : m2c[i].method = "SYN"
  BY DEF ClientInv, AnswerFollows, Answers
<1>2. CASE UNCHANGED m2c
  BY <1>1, <1>2 DEF OneAnswer, Answers, InFlight
<1>3. ASSUME NEW e \in Message, e.method # "SYN", m2c' = Append(m2c, e),
             e.method = "PART" \/ result_sendback',
             result_sendback' \/ pc' \in Ending
      PROVE  Result
  <2>1. /\ DOMAIN m2c' = DOMAIN m2c \cup {n}
        /\ n \notin DOMAIN m2c
        /\ m2c'[n] = e
        /\ \A i \in DOMAIN m2c : m2c'[i] = m2c[i]
    BY <1>3, Behind
  <2>2. Answers' = {n}
    BY <1>1, <1>3, <2>1 DEF Answers
  <2>3. InFlight.SYN' = InFlight.SYN
    BY <1>3, <2>1 DEF InFlight
  <2>4. OneAnswer'
    BY <2>2 DEF OneAnswer, Answers
  <2>q. QED
    BY <1>3, <2>1, <2>2, <2>3, <2>4
<1>4. CASE /\ m2c' = Append(m2c, m)
           /\ result_sendback' = (result_sendback
                                    \/ m.method \notin {"SYN", "ACK"})
  <2>1. result_sendback'
    BY <1>4
  <2>q. QED
    BY <1>3, <1>4, <2>1
<1>5. CASE /\ m2c' = Append(m2c, [m EXCEPT !.method = "PART"])
           /\ pc' = "destroy"
  <2> DEFINE part == [m EXCEPT !.method = "PART"]
  <2>1. part \in Message /\ part.method = "PART"
    BY DEF Message
  <2>2. m2c' = Append(m2c, part)
    BY <1>5
  <2> HIDE DEF part
  <2>q. QED
    BY <1>3, <1>5, <2>1, <2>2 DEF Ending
<1>q. QED
  BY <1>2, <1>4, <1>5 DEF send_message

\* Control messages and the early replies carry no output: they are messages,
\* and send_message writes them whole.
LEMMA Short ==
  /\ \A m \in Method : /\ Control(m) \in Message
                       /\ Control(m).method = m
                       /\ Control(m).stat = "NONE"
                       /\ Control(m).outstr + Control(m).errstr <= SockCap
  /\ \A s \in Stat, o, e \in Nat : /\ Reply(s, o, e) \in Message
                                   /\ Reply(s, o, e).method = "EXE"
                                   /\ Reply(s, o, e).stat = s
                                   /\ Reply(s, o, e).outstr = o
                                   /\ Reply(s, o, e).errstr = e
  BY WireAssumption DEF Control, Reply, Message, Method

-----------------------------------------------------------------------------
(* The steps.                                                              *)

\* A step that neither reads nor writes the socket, for a manager that goes on
\* through its loop, or to its end.
LEMMA ClientFrame ==
  ASSUME ClientInv,
         UNCHANGED <<m2c, c2m, sockfd, cstate, is_syn, result_sendback>>,
         pc' = "syn" => ~is_syn,
         pc \in Ending => pc' \in Ending,
         pc' \in Cloned => ~result_sendback,
         child' = "none" <=> child = "none",
         pc' # "dead" => (child' = "none" <=> child_status' = "NO_PROC")
  PROVE  ClientInv'
<1>1. UNCHANGED <<Unasked, Answers, Attached, InFlight>>
  BY DEF Unasked, Answers, Attached, InFlight
<1>2. RequestFirst' /\ OneAnswer'
  BY DEF ClientInv, RequestFirst, OneAnswer
<1>3. AnswerFollows'
  BY <1>1 DEF ClientInv, AnswerFollows
<1>4. TokenKept'
  BY <1>1 DEF ClientInv, TokenKept
<1>q. QED
  BY <1>2, <1>3, <1>4 DEF ClientInv

\* The manager reads the request: it is the first it reads, there is no command
\* and no answer yet, and no ACK gets lost with it.
LEMMA RequestRead ==
  ASSUME TypeOK, ClientInv, NEW k, k # "ACK", Receives(k),
         UNCHANGED <<cstate, is_syn>>, pc' # "syn",
         InFlight.SYN' = InFlight.SYN
  PROVE  /\ child = "none" /\ child_status = "NO_PROC" /\ ~result_sendback
         /\ pc \notin Ending
         /\ RequestFirst' /\ TokenKept' /\ ~Unasked'
<1>1. /\ c2m \in Seq(Method) /\ c2m # <<>> /\ ParsedMethod(c2m) = k
      /\ pc = "events" /\ c2m' = <<>> /\ UNCHANGED sockfd
  BY DEF TypeOK, WireTypeOK, Receives, Take
<1>2. Unasked /\ InFlight.ACK = {}
  BY <1>1, ManagerReads DEF ClientInv, Unasked, InFlight
<1>3. cstate # "connected"
  BY <1>1 DEF ClientInv, RequestFirst
<1>4. child = "none" /\ child_status = "NO_PROC" /\ ~result_sendback
  BY <1>1, <1>2 DEF ClientInv, AnswerFollows
<1>5. RequestFirst' /\ ~Unasked' /\ InFlight.ACK' = {}
  BY <1>1, <1>3 DEF RequestFirst, Unasked, InFlight
<1>6. TokenKept'
  BY <1>1, <1>2, <1>5 DEF ClientInv, TokenKept, Attached
<1>q. QED
  BY <1>1, <1>4, <1>5, <1>6 DEF Ending

\* What is left to show when the request is read and answered, or the manager
\* throws.
LEMMA RequestHandled ==
  ASSUME TypeOK, ClientInv, NEW k, k # "ACK", Receives(k),
         UNCHANGED <<cstate, is_syn, child, child_status>>,
         NEW m \in Message, m.method \notin {"SYN", "ACK"},
         \/ send_message(m, "events")
         \/ pc' = "destroy" /\ UNCHANGED <<m2c, result_sendback>>
  PROVE  ClientInv'
<1>1. pc' \notin Cloned \cup {"syn"}
  BY DEF send_message, Cloned
<1>2. pc = "events" /\ pc \notin Ending
  BY DEF Receives, Take, Ending
<1>3. Unasked
  BY ManagerReads DEF Receives, TypeOK, WireTypeOK, ClientInv, Unasked
<1>4. ~result_sendback
  BY <1>3 DEF ClientInv, AnswerFollows
<1>5. /\ OneAnswer'
      /\ \A i \in Answers' : m2c'[i].method = "PART" \/ result_sendback'
      /\ ~result_sendback' /\ pc' \notin Ending => Answers' = {}
      /\ InFlight.SYN' = InFlight.SYN
  <2>1. CASE send_message(m, "events")
    BY <1>2, <1>4, <2>1, FirstAnswer DEF TypeOK, WireTypeOK
  <2>2. CASE pc' = "destroy" /\ UNCHANGED <<m2c, result_sendback>>
    BY <2>2 DEF ClientInv, OneAnswer, AnswerFollows, Answers, InFlight, Ending
  <2>q. QED
    BY <2>1, <2>2
<1>6. /\ child = "none" /\ child_status = "NO_PROC"
      /\ RequestFirst' /\ TokenKept' /\ ~Unasked'
  BY <1>1, <1>5, RequestRead
<1>7. AnswerFollows'
  BY <1>1, <1>5, <1>6 DEF AnswerFollows
<1>q. QED
  BY <1>5, <1>6, <1>7 DEF ClientInv

\* Every step of the manager keeps ClientInv.
LEMMA ClientManagerStep ==
  ASSUME TypeOK, SessionInv, ClientInv, ManagerStep
  PROVE  ClientInv'
<1> USE DEF wireVars, commandVars, outputVars, managerVars, sruncVars
<1>0. UNCHANGED <<cstate, extra>>
  BY DEF ManagerStep
<1>a. /\ pc \in PCs
      /\ child \in Unreaped \cup {"none", "reaped"}
      /\ child_status \in {"NO_PROC", "RUNNING", "EXIT"}
  BY DEF TypeOK, ManagerTypeOK, CommandTypeOK
<1>b. /\ pc # "dead" => (child = "none" <=> child_status = "NO_PROC")
      /\ pc # "dead" => (child_status = "RUNNING" <=> child \in Unreaped)
      /\ pc \in Cloned => ~result_sendback
  BY DEF ClientInv, AnswerFollows, SessionInv
<1>1. CASE WaitChild
  BY <1>0, <1>a, <1>b, <1>1, ClientFrame
     DEF WaitChild, wait_child, Ending, Cloned, PCs, Unreaped
<1>2. CASE ClearClonepid
  BY <1>0, <1>a, <1>b, <1>2, ClientFrame
     DEF ClearClonepid, clear_clonepid, Ending, Cloned, PCs, Unreaped
<1>3. CASE CheckExit
  BY <1>0, <1>a, <1>b, <1>3, ClientFrame
     DEF CheckExit, Ending, Cloned, PCs, Unreaped
<1>4. CASE CheckIdle
  BY <1>0, <1>a, <1>b, <1>4, ClientFrame
     DEF CheckIdle, stop_child, Kill, Ending, Cloned, PCs, Unreaped
<1>5. CASE EpollEnter
  BY <1>0, <1>a, <1>b, <1>5, ClientFrame
     DEF EpollEnter, EpollStep, Ending, Cloned, PCs, Unreaped
<1>6. CASE EpollReturn
  BY <1>0, <1>a, <1>b, <1>6, ClientFrame
     DEF EpollReturn, EpollStep, Ending, Cloned, PCs, Unreaped
<1>7. CASE EpollTimeout
  BY <1>0, <1>a, <1>b, <1>7, ClientFrame
     DEF EpollTimeout, EpollStep, Ending, Cloned, PCs, Unreaped
<1>8. CASE EventsDone
  BY <1>0, <1>a, <1>b, <1>8, ClientFrame
     DEF EventsDone, EpollStep, Ending, Cloned, PCs, Unreaped
<1>9. CASE HandleTimer
  BY <1>0, <1>a, <1>b, <1>9, ClientFrame
     DEF HandleTimer, Take, stop_child, Kill, Ending, Cloned, PCs, Unreaped
<1>10. CASE HandleLeak
  BY <1>0, <1>a, <1>b, <1>10, ClientFrame
     DEF HandleLeak, Take, Ending, Cloned, PCs, Unreaped
<1>11. CASE HandleEof
  BY <1>0, <1>a, <1>b, <1>11, ClientFrame
     DEF HandleEof, Take, Ending, Cloned, PCs, Unreaped
<1>12. CASE JoinCgroup
  BY <1>0, <1>a, <1>b, <1>12, ClientFrame
     DEF JoinCgroup, throw, Ending, Cloned, PCs, Unreaped
<1>13. CASE Register
  BY <1>0, <1>a, <1>b, <1>13, ClientFrame
     DEF Register, throw, Ending, Cloned, PCs, Unreaped
<1>14. CASE Destroy
  BY <1>0, <1>a, <1>b, <1>14, ClientFrame
     DEF Destroy, Ending, Cloned, PCs, Unreaped
<1>15. CASE SleepOver
  BY <1>0, <1>a, <1>b, <1>15, ClientFrame
     DEF SleepOver, Ending, Cloned, PCs, Unreaped
<1>16. CASE DestroyWait
  BY <1>0, <1>a, <1>b, <1>16, ClientFrame
     DEF DestroyWait, wait_child, Ending, Cloned, PCs, Unreaped
<1>17. CASE DestroyClear
  BY <1>0, <1>a, <1>b, <1>17, ClientFrame
     DEF DestroyClear, clear_clonepid, Ending, Cloned, PCs, Unreaped
<1>18. CASE Close
  BY <1>0, <1>a, <1>b, <1>18, ClientFrame
     DEF Close, Ending, Cloned, PCs, Unreaped
<1>19. ASSUME NEW s \in Streams, HandleOutput(s) PROVE ClientInv'
  BY <1>0, <1>a, <1>b, <1>19, ClientFrame
     DEF HandleOutput, Take, Ending, Cloned, PCs, Unreaped
<1>20. CASE CheckReply
  <2> DEFINE m == Reply(stat, ResultOf("out"), ResultOf("err"))
  <2>1. m \in Message /\ m.method = "EXE"
    BY Short DEF TypeOK, ManagerTypeOK, OutputTypeOK, ResultOf, Streams
  <2>2. /\ send_message(m, "enter") /\ ~result_sendback /\ pc = "check"
        /\ UNCHANGED <<c2m, sockfd, child, child_status, is_syn>>
    BY <1>20 DEF CheckReply, ReplyDue
  <2> HIDE DEF m
  <2>3. pc \notin Ending /\ m2c \in Seq(Message)
    BY <2>2 DEF Ending, TypeOK, WireTypeOK
  <2>4. /\ OneAnswer'
        /\ \A k \in Answers' : m2c'[k].method = "PART" \/ result_sendback'
        /\ ~result_sendback' /\ pc' \notin Ending => Answers' = {}
        /\ InFlight.SYN' = InFlight.SYN
    BY <2>1, <2>2, <2>3, FirstAnswer
  <2>5. pc' \in {"enter", "destroy"}
    BY <2>2 DEF send_message
  <2>6. UNCHANGED <<Unasked, Attached, InFlight.ACK>>
    BY <1>0, <2>2 DEF Unasked, Attached, InFlight
  <2>7. ~Unasked
    BY <1>20 DEF CheckReply, ReplyDue, exec_over, ClientInv, AnswerFollows
  <2>8. RequestFirst'
    BY <1>0, <2>2 DEF ClientInv, RequestFirst
  <2>9. AnswerFollows'
    BY <1>b, <2>2, <2>4, <2>5, <2>6, <2>7 DEF AnswerFollows, Cloned
  <2>10. TokenKept'
    BY <2>2, <2>4, <2>5, <2>6 DEF ClientInv, TokenKept
  <2>q. QED
    BY <2>4, <2>8, <2>9, <2>10 DEF ClientInv
<1>21. CASE SendSyn
  <2>1. /\ pc = "syn" /\ is_syn' = TRUE /\ send_message(Control("SYN"), "wait")
        /\ UNCHANGED <<c2m, sockfd, child, child_status>>
    BY <1>21 DEF SendSyn
  <2>2. /\ Control("SYN") \in Message /\ Control("SYN").method = "SYN"
        /\ Control("SYN").outstr + Control("SYN").errstr <= SockCap
    BY Short DEF Method
  <2>3. UNCHANGED <<Unasked, Attached, InFlight.ACK>>
    BY <1>0, <2>1 DEF Unasked, Attached, InFlight
  <2>4. RequestFirst'
    BY <1>0, <2>1 DEF ClientInv, RequestFirst
  <2>5. CASE sockfd = "closed"
    <3>1. pc' = "destroy" /\ UNCHANGED <<m2c, result_sendback>>
      BY <2>1, <2>5 DEF send_message
    <3>2. OneAnswer' /\ Answers' = Answers
      BY <3>1 DEF ClientInv, OneAnswer, Answers
    <3>3. AnswerFollows'
      BY <1>b, <2>1, <2>3, <3>1, <3>2 DEF ClientInv, AnswerFollows, Cloned,
        Ending
    <3>4. TokenKept'
      BY <2>1, <2>3, <2>5, <3>1 DEF ClientInv, TokenKept
    <3>q. QED
      BY <2>4, <3>2, <3>3, <3>4 DEF ClientInv
  <2>6. CASE sockfd = "open"
    <3> DEFINE n == Len(m2c) + 1
    <3>1. pc' = "wait" /\ m2c' = Append(m2c, Control("SYN"))
      BY <2>1, <2>6, WireAssumption DEF send_message, Control
    <3>2. result_sendback' = result_sendback
      BY <2>1, <2>2, <2>6 DEF send_message, TypeOK, ManagerTypeOK,
        ManagerFlagsOK
    <3>3. /\ DOMAIN m2c' = DOMAIN m2c \cup {n}
          /\ n \notin DOMAIN m2c
          /\ m2c'[n] = Control("SYN")
          /\ \A k \in DOMAIN m2c : m2c'[k] = m2c[k]
      BY <2>2, <3>1, Behind DEF TypeOK, WireTypeOK
    <3>4. Answers' = Answers /\ InFlight.SYN' = InFlight.SYN \cup {n}
      BY <2>2, <3>3 DEF Answers, InFlight
    <3>5. OneAnswer'
      BY <2>2, <3>3 DEF ClientInv, OneAnswer
    <3>6. AnswerFollows'
      BY <1>b, <2>1, <2>3, <3>1, <3>2, <3>3, <3>4
         DEF ClientInv, AnswerFollows, Cloned, Ending, Answers
    <3>7. TokenKept'
      BY <2>1, <2>3, <2>6, <3>1, <3>4 DEF ClientInv, TokenKept
    <3>q. QED
      BY <2>4, <3>5, <3>6, <3>7 DEF ClientInv
  <2>q. QED
    BY <2>5, <2>6 DEF TypeOK, WireTypeOK
<1>22. CASE HandleSyn
  <2>1. c2m \in Seq(Method) /\ c2m # <<>> /\ ParsedMethod(c2m) = "SYN"
    BY <1>22 DEF HandleSyn, Receives, TypeOK, WireTypeOK
  <2>q. QED
    BY <2>1, ManagerReads DEF ClientInv
<1>23. CASE HandleAck
  <2>1. /\ c2m \in Seq(Method) /\ c2m # <<>> /\ ParsedMethod(c2m) = "ACK"
        /\ pc = "events" /\ c2m' = <<>> /\ is_syn' = FALSE
        /\ UNCHANGED <<m2c, sockfd, pc, child, child_status, result_sendback>>
    BY <1>23 DEF HandleAck, Receives, Take, TypeOK, WireTypeOK
  <2>2. InFlight.ACK # {}
    BY <2>1, ManagerReads DEF ClientInv, InFlight
  <2>3. cstate # "connected"
    BY <2>1 DEF ClientInv, RequestFirst
  <2>4. RequestFirst' /\ ~Unasked' /\ InFlight.ACK' = {}
    BY <1>0, <2>1, <2>3 DEF RequestFirst, Unasked, InFlight
  <2>5. UNCHANGED <<Answers, Attached, InFlight.SYN>>
    BY <1>0, <2>1 DEF Answers, Attached, InFlight
  <2>6. OneAnswer'
    BY <2>1 DEF ClientInv, OneAnswer
  <2>7. AnswerFollows'
    BY <2>1, <2>4, <2>5 DEF ClientInv, AnswerFollows
  <2>8. TokenKept'
    BY <2>1, <2>2, <2>4, <2>5 DEF ClientInv, TokenKept
  <2>q. QED
    BY <2>4, <2>6, <2>7, <2>8 DEF ClientInv
<1>24. CASE HandleList
  <2>1. Control("LIST") \in Message /\ Control("LIST").method = "LIST"
    BY Short DEF Method
  <2>2. /\ Receives("LIST") /\ UNCHANGED <<child, child_status, is_syn>>
        /\ \/ send_message(Control("LIST"), "events")
           \/ pc' = "destroy" /\ UNCHANGED <<m2c, result_sendback>>
    BY <1>24 DEF HandleList, throw
  <2>q. QED
    BY <1>0, <2>1, <2>2, RequestHandled
<1>25. CASE HandleStop
  <2>1. Control("STOP") \in Message /\ Control("STOP").method = "STOP"
    BY Short DEF Method
  <2>2. /\ Receives("STOP") /\ UNCHANGED <<child, child_status, is_syn>>
        /\ \/ send_message(Control("STOP"), "events")
           \/ pc' = "destroy" /\ UNCHANGED <<m2c, result_sendback>>
    BY <1>25 DEF HandleStop, throw
  <2>q. QED
    BY <1>0, <2>1, <2>2, RequestHandled
<1>26. ASSUME NEW r \in Requests, ExeAccepted(r) \/ ExeRefused(r)
      PROVE  Receives("EXE") /\ pc = "events" /\ is_syn' = is_syn
  BY <1>26 DEF ExeAccepted, ExeRefused, HandleExe, Receives, Take
<1>27. ASSUME NEW r \in Requests, ExeRefused(r) PROVE ClientInv'
  <2>1. clonepid > 0 /\ UNCHANGED <<m2c, pc>>
    BY <1>27 DEF ExeRefused
  <2>2. child_status = "NO_PROC" /\ pc = "events"
    BY <1>0, <1>26, <1>27, <2>1, RequestRead DEF InFlight
  <2>3. clonepid # ChildPid
    BY <2>2 DEF SessionInv
  <2>q. QED
    BY <2>1, <2>3 DEF TypeOK, ManagerTypeOK
<1>28. ASSUME NEW r \in Requests, ExeBadArgs(r) PROVE ClientInv'
  <2>1. /\ Reply("BADARGS", 0, 0) \in Message
        /\ Reply("BADARGS", 0, 0).method = "EXE"
    BY Short DEF Stat
  <2>2. /\ ExeAccepted(r) /\ UNCHANGED <<child, child_status>>
        /\ send_message(Reply("BADARGS", 0, 0), "events")
    BY <1>28 DEF ExeBadArgs
  <2>q. QED
    BY <1>0, <1>26, <2>1, <2>2, RequestHandled
<1>29. ASSUME NEW r \in Requests, ExeThrows(r) PROVE ClientInv'
  <2>1. Control("LIST") \in Message /\ Control("LIST").method = "LIST"
    BY Short DEF Method
  <2>2. /\ ExeAccepted(r) /\ UNCHANGED <<child, child_status>>
        /\ pc' = "destroy" /\ UNCHANGED <<m2c, result_sendback>>
    BY <1>29 DEF ExeThrows, throw
  <2>q. QED
    BY <1>0, <1>26, <2>1, <2>2, RequestHandled
<1>30. ASSUME NEW r \in Requests, ExeClone(r) PROVE ClientInv'
  <2>1. /\ ExeAccepted(r) /\ child' = "setup" /\ child_status' = "RUNNING"
        /\ pc' = "cgroup" /\ UNCHANGED <<m2c, result_sendback>>
    BY <1>30 DEF ExeClone
  <2>2. UNCHANGED <<Answers, InFlight.SYN>>
    BY <2>1 DEF Answers, InFlight
  <2>3. /\ ~result_sendback /\ pc \notin Ending
        /\ RequestFirst' /\ TokenKept' /\ ~Unasked'
    BY <1>0, <1>26, <2>1, <2>2, RequestRead
  <2>4. OneAnswer'
    BY <2>1 DEF ClientInv, OneAnswer
  <2>5. AnswerFollows'
    BY <2>1, <2>2, <2>3 DEF ClientInv, AnswerFollows
  <2>q. QED
    BY <2>3, <2>4, <2>5 DEF ClientInv
<1>31. CASE Bind
  <2> DEFINE m == Reply("NORMAL", 0, 0)
  <2>1. m \in Message /\ m.method = "EXE"
    BY Short DEF Stat
  <2>2. /\ pc = "bind"
        /\ UNCHANGED <<c2m, sockfd, child, child_status, is_syn>>
        /\ \/ send_message(m, "events")
           \/ /\ pc' \in {"events", "destroy"}
              /\ UNCHANGED <<m2c, result_sendback>>
    BY <1>31 DEF Bind, throw
  <2> HIDE DEF m
  <2>3. CASE /\ pc' \in {"events", "destroy"}
             /\ UNCHANGED <<m2c, result_sendback>>
    BY <1>0, <1>b, <2>2, <2>3, ClientFrame DEF Ending, Cloned
  <2>4. CASE send_message(m, "events")
    <3>1. pc \notin Ending /\ m2c \in Seq(Message) /\ ~result_sendback
      BY <1>b, <2>2 DEF Ending, Cloned, TypeOK, WireTypeOK
    <3>2. /\ OneAnswer'
          /\ \A k \in Answers' : m2c'[k].method = "PART" \/ result_sendback'
          /\ ~result_sendback' /\ pc' \notin Ending => Answers' = {}
          /\ InFlight.SYN' = InFlight.SYN
      BY <2>1, <2>4, <3>1, FirstAnswer
    <3>3. pc' \in {"events", "destroy"}
      BY <2>4 DEF send_message
    <3>4. UNCHANGED <<Unasked, Attached, InFlight.ACK>>
      BY <1>0, <2>2 DEF Unasked, Attached, InFlight
    <3>5. child # "none" /\ ~Unasked
      BY <2>2, <1>b DEF SessionInv, ClientInv, AnswerFollows
    <3>6. RequestFirst'
      BY <1>0, <2>2 DEF ClientInv, RequestFirst
    <3>7. AnswerFollows'
      BY <1>b, <2>2, <3>2, <3>3, <3>4, <3>5 DEF AnswerFollows, Cloned
    <3>8. TokenKept'
      BY <2>2, <3>2, <3>3, <3>4 DEF ClientInv, TokenKept
    <3>q. QED
      BY <3>2, <3>6, <3>7, <3>8 DEF ClientInv
  <2>q. QED
    BY <2>2, <2>3, <2>4
<1>q. QED
  BY <1>1, <1>2, <1>3, <1>4, <1>5, <1>6, <1>7, <1>8, <1>9, <1>10, <1>11,
     <1>12, <1>13, <1>14, <1>15, <1>16, <1>17, <1>18, <1>19, <1>20, <1>21,
     <1>22, <1>23, <1>24, <1>25, <1>27, <1>28, <1>29, <1>30, <1>31 DEF
     ManagerStep

\* So does every step of a Srunc client, of the command and of the system.
LEMMA ClientInvStep ==
  ASSUME MaxExtra = 0, TypeOK, SessionInv, ClientInv, [Next]_vars
  PROVE  ClientInv'
<1> USE DEF wireVars, commandVars, outputVars, managerVars, sruncVars
<1>0. m2c \in Seq(Message) /\ c2m \in Seq(Method) /\ extra \in Nat
  BY DEF TypeOK, WireTypeOK, SruncTypeOK
<1>b. /\ pc # "dead" => (child = "none" <=> child_status = "NO_PROC")
      /\ pc \in Cloned => ~result_sendback
  BY DEF ClientInv, AnswerFollows
<1>1. CASE ManagerStep
  BY <1>1, ClientManagerStep
<1>2. CASE ClientStep
  <2>0. UNCHANGED <<pc, child, child_status, is_syn, result_sendback>>
    BY <1>2 DEF ClientStep
  <2>1. ASSUME cstate' \in {"done", "failed"}, sockfd' = "closed",
               m2c' = <<>>, UNCHANGED c2m, cstate # "connected"
        PROVE  ClientInv'
    <3>1. ~Attached' /\ Answers' = {} /\ (Unasked' => Unasked)
      BY <2>1 DEF Attached, Answers, Unasked
    <3>2. RequestFirst' /\ OneAnswer'
      BY <2>1 DEF ClientInv, RequestFirst, OneAnswer
    <3>3. AnswerFollows'
      BY <1>b, <2>0, <3>1 DEF ClientInv, AnswerFollows
    <3>4. TokenKept'
      BY <2>0, <2>1, <3>1 DEF ClientInv, TokenKept
    <3>q. QED
      BY <3>2, <3>3, <3>4 DEF ClientInv
  <2>2. CASE ClientSends
    <3>1. cstate = "connected" /\ c2m = <<>> /\ UNCHANGED m2c
      BY <2>2 DEF ClientSends, ClientInv, RequestFirst
    <3>2. Unasked /\ Attached
      BY <3>1 DEF Unasked, Attached
    <3>3. UNCHANGED <<Answers, InFlight.SYN>> /\ OneAnswer'
      BY <3>1 DEF ClientInv, Answers, InFlight, OneAnswer
    <3>4. AnswerFollows'
      BY <1>b, <2>0, <3>1, <3>2, <3>3 DEF ClientInv, AnswerFollows
    <3>5. CASE connection = "open"
      <4>1. PICK m \in ClientMethods : c2m' = Append(c2m, m)
        BY <2>2, <3>5 DEF ClientSends
      <4>2. m \notin {"SYN", "ACK"}
        BY SruncAssumption
      <4>3. c2m' = <<m>>
        BY <3>1, <4>1
      <4>4. DOMAIN c2m' = {1} /\ c2m'[1] = m
        BY <4>3
      <4>5. cstate' = "polling" /\ sockfd' = sockfd
        BY <2>2, <3>5 DEF ClientSends
      <4>6. RequestFirst'
        BY <4>2, <4>4, <4>5 DEF RequestFirst
      <4>7. InFlight.ACK' = {} /\ InFlight.ACK = {}
        BY <3>1, <4>2, <4>4 DEF InFlight
      <4>8. Attached'
        BY <4>5 DEF Attached
      <4>9. TokenKept'
        BY <2>0, <3>2, <3>3, <4>5, <4>7, <4>8 DEF ClientInv, TokenKept
      <4>q. QED
        BY <3>3, <3>4, <4>6, <4>9 DEF ClientInv
    <3>6. CASE connection = "closed"
      <4>1. cstate' = "failed" /\ sockfd' = "closed" /\ UNCHANGED c2m
        BY <2>2, <3>6 DEF ClientSends
      <4>2. RequestFirst' /\ ~Attached'
        BY <3>1, <4>1 DEF RequestFirst, Attached
      <4>3. TokenKept'
        BY <2>0, <4>1, <4>2 DEF ClientInv, TokenKept
      <4>q. QED
        BY <3>3, <3>4, <4>2, <4>3 DEF ClientInv
    <3>q. QED
      BY <2>2, <3>5, <3>6 DEF ClientSends
  <2>3. CASE ClientAcks
    <3>1. /\ cstate = "polling" /\ m2c # <<>>
          /\ ParsedMethod(MethodsOf(m2c)) = "SYN"
          /\ m2c' = <<>> /\ c2m' = Append(c2m, "ACK")
          /\ UNCHANGED <<cstate, sockfd>>
      BY <2>3 DEF ClientAcks, Parses
    <3> DEFINE n == Len(c2m) + 1
    <3>2. InFlight.SYN # {}
      BY <1>0, <3>1, ClientReads
    <3>3. Attached /\ Attached'
      BY <3>1 DEF Attached
    <3>4. is_syn /\ InFlight.ACK = {}
      BY <3>2, <3>3 DEF ClientInv, TokenKept
    <3>5. /\ DOMAIN c2m' = DOMAIN c2m \cup {n}
          /\ n \notin DOMAIN c2m
          /\ c2m'[n] = "ACK"
          /\ \A k \in DOMAIN c2m : c2m'[k] = c2m[k]
      BY <1>0, <3>1, Behind DEF Method
    <3>6. InFlight.ACK' = {n} /\ InFlight.SYN' = {}
      BY <3>1, <3>4, <3>5 DEF InFlight
    <3>7. Answers' = {} /\ (Unasked' => Unasked) /\ OneAnswer'
      BY <3>1, <3>5 DEF Answers, Unasked, OneAnswer
    <3>8. RequestFirst'
      BY <3>1, <3>5 DEF ClientInv, RequestFirst
    <3>9. AnswerFollows'
      BY <1>b, <2>0, <3>7 DEF ClientInv, AnswerFollows
    <3>10. TokenKept'
      BY <2>0, <3>1, <3>3, <3>4, <3>6 DEF ClientInv, TokenKept
    <3>q. QED
      BY <3>7, <3>8, <3>9, <3>10 DEF ClientInv
  <2>4. CASE ClientReturns
    BY <2>1, <2>4 DEF ClientReturns
  <2>5. CASE ClientFails
    BY <2>1, <2>5 DEF ClientFails
  <2>q. QED
    BY <1>2, <2>2, <2>3, <2>4, <2>5 DEF ClientStep
<1>3. CASE ClientWhim
  <2>0. UNCHANGED <<pc, child, child_status, is_syn, result_sendback>>
    BY <1>3 DEF ClientWhim
  <2>1. ClientDies
    BY <1>0, <1>3 DEF ClientWhim, ClientSendsMore
  <2>2. /\ cstate' = "failed" /\ sockfd' = "closed" /\ m2c' = <<>>
        /\ UNCHANGED c2m
    BY <2>1 DEF ClientDies
  <2>3. ~Attached' /\ Answers' = {} /\ (Unasked' => Unasked)
    BY <2>2 DEF Attached, Answers, Unasked
  <2>4. RequestFirst' /\ OneAnswer'
    BY <2>2 DEF ClientInv, RequestFirst, OneAnswer
  <2>5. AnswerFollows'
    BY <1>b, <2>0, <2>3 DEF ClientInv, AnswerFollows
  <2>6. TokenKept'
    BY <2>0, <2>2, <2>3 DEF ClientInv, TokenKept
  <2>q. QED
    BY <2>4, <2>5, <2>6 DEF ClientInv
<1> USE DEF Ending, Cloned
<1>4. CASE ChildStarts
  BY <1>b, <1>4, ClientFrame DEF ChildStarts, Execv, ExecuteFails, sigchld,
     Interrupt, ClientInv, TokenKept
<1>5. CASE ChildEnds
  BY <1>b, <1>5, ClientFrame DEF ChildEnds, CommandExits, sigchld, Interrupt,
     ClientInv, TokenKept
<1>6. CASE ChildActs
  BY <1>b, <1>6, ClientFrame DEF ChildActs, CommandWrites, CommandForks,
     OrphanExits, ClientInv, TokenKept
<1>7. CASE Reparented
  BY <1>b, <1>7, ClientFrame DEF Reparented, InitReaps, ClientInv, TokenKept
<1>8. CASE Stopped
  BY <1>b, <1>8, ClientFrame DEF Stopped, sigterm_handler, Interrupt,
     ClientInv, TokenKept
<1>9. CASE Expiry
  BY <1>b, <1>9, ClientFrame DEF Expiry, TimerExpires, ClientInv, TokenKept
<1>10. CASE UNCHANGED vars
  BY <1>b, <1>10, ClientFrame DEF vars, allVars, ClientInv, TokenKept
<1>q. QED
  BY <1>1, <1>2, <1>3, <1>4, <1>5, <1>6, <1>7, <1>8, <1>9, <1>10 DEF Next

\* A client that has connected: nothing asked, nothing sent.
LEMMA ClientInvInit == Init => ClientInv
<1> SUFFICES ASSUME Init PROVE ClientInv
  OBVIOUS
<1>1. /\ m2c = <<>> /\ c2m = <<>> /\ sockfd = "open" /\ cstate = "connected"
      /\ pc = "wait" /\ is_syn = FALSE /\ result_sendback = FALSE
      /\ child = "none" /\ child_status = "NO_PROC"
  BY DEF Init, WireInit, CommandInit, ManagerInit, SruncInit
<1>2. Answers = {} /\ InFlight.SYN = {} /\ InFlight.ACK = {}
  BY <1>1 DEF Answers, InFlight
<1>3. RequestFirst /\ OneAnswer
  BY <1>1 DEF RequestFirst, OneAnswer
<1>4. AnswerFollows
  BY <1>1, <1>2 DEF AnswerFollows, Cloned
<1>5. TokenKept
  BY <1>1, <1>2 DEF TokenKept, Attached
<1>q. QED
  BY <1>3, <1>4, <1>5 DEF ClientInv

\* With a Srunc client, what it has asked, what it was answered and where the
\* keep-alive is agree in every state.
THEOREM ClientInvariant ==
  ASSUME MaxExtra = 0
  PROVE  Spec => [](TypeOK /\ SessionInv /\ ClientInv)
<1>1. Init => TypeOK /\ SessionInv /\ ClientInv
  BY TypeInit, SessionInit, ClientInvInit
<1>2. TypeOK /\ SessionInv /\ ClientInv /\ [Next]_vars
        => (TypeOK /\ SessionInv /\ ClientInv)'
  BY TypeStep, SessionStep, ClientInvStep
<1>q. QED
  BY <1>1, <1>2, PTL DEF Spec

\* send_message is called for an answer from the top of the loop, from
\* handle_request (twice), for MANAGER_LIST and for MANAGER_STOP: never for a
\* second one.
THEOREM AnsweredOnce ==
  ASSUME MaxExtra = 0
  PROVE  Spec => []OneAnswer
<1>1. ClientInv => OneAnswer
  BY DEF ClientInv
<1>q. QED
  BY <1>1, ClientInvariant, PTL

\* is_syn is true exactly while a SYN or its ACK is under way, whatever the
\* other messages they are merged with.
THEOREM KeepAliveKept ==
  ASSUME MaxExtra = 0
  PROVE  Spec => []KeepAliveToken
<1>1. ClientInv => KeepAliveToken
  BY DEF ClientInv, TokenKept, Attached, KeepAliveToken
<1>q. QED
  BY <1>1, ClientInvariant, PTL

-----------------------------------------------------------------------------
(* A live client is kept.                                                  *)

\* When epoll_wait runs out on a client that has read all it was sent, no
\* answer to a SYN is due: an ACK would have been reported, and so would a
\* client that has closed its end.
LEMMA NothingDue ==
  ASSUME TypeOK, ClientInv, EpollTimeout, m2c = <<>>
  PROVE  pc' # "destroy"
<1>1. Ready = {} /\ pc' \in {"wait", "syn", "destroy"}
  BY DEF EpollTimeout, EpollStep
<1>2. SUFFICES ASSUME connection = "open", is_syn PROVE FALSE
  BY DEF EpollTimeout, EpollStep
<1>3. c2m = <<>> /\ sockfd # "closed"
  BY <1>1, <1>2 DEF Ready
<1>4. Attached
  BY <1>3 DEF TypeOK, WireTypeOK, ClientInv, TokenKept
<1>5. InFlight.SYN = {} /\ InFlight.ACK = {}
  BY <1>3 DEF InFlight
<1>q. QED
  BY <1>2, <1>4, <1>5 DEF ClientInv, TokenKept

\* "syn timeout" is never thrown for a Srunc client that reads what it is sent
\* and sends its request within the second that epoll_wait waits.
THEOREM PromptClientKept ==
  ASSUME MaxExtra = 0, Prompt
  PROVE  Spec => LiveClientKept
<1>1. TypeOK /\ ClientInv /\ [Next]_vars
        => [pc = "epoll" => pc' # "destroy"]_vars
  <2> SUFFICES ASSUME TypeOK, ClientInv, Next, pc = "epoll"
               PROVE  pc' # "destroy"
    OBVIOUS
  <2> USE DEF wireVars, commandVars, outputVars, managerVars, sruncVars
  <2>1. CASE ManagerStep
    <3>1. CASE EpollTimeout /\ (Prompt => m2c = <<>> /\ cstate # "connected")
      BY <3>1, NothingDue
    <3>2. CASE EpollReturn
      BY <3>2 DEF EpollReturn, EpollStep
    <3>3. ~(\/ WaitChild \/ ClearClonepid \/ CheckExit \/ CheckReply
            \/ CheckIdle \/ EpollEnter \/ SendSyn \/ EventsDone)
      BY DEF WaitChild, ClearClonepid, CheckExit, CheckReply, CheckIdle,
         EpollEnter, SendSyn, EventsDone
    <3>4. \A e : ~Take(e)
      BY DEF Take
    <3>5. ~(\/ HandleTimer \/ HandleLeak \/ HandleEof
            \/ \E s \in Streams : HandleOutput(s))
      BY <3>4 DEF HandleTimer, HandleLeak, HandleEof, HandleOutput
    <3>6. \A k : ~Receives(k)
      BY <3>4 DEF Receives
    <3>7. ~(HandleSyn \/ HandleAck \/ HandleList \/ HandleStop)
      BY <3>6 DEF HandleSyn, HandleAck, HandleList, HandleStop
    <3>8. ASSUME NEW r \in Requests
          PROVE  ~(ExeRefused(r) \/ ExeBadArgs(r) \/ ExeThrows(r)
                   \/ ExeClone(r))
      BY <3>6 DEF ExeRefused, ExeBadArgs, ExeThrows, ExeClone, ExeAccepted,
         HandleExe
    <3>9. ~(\/ JoinCgroup \/ Register \/ Bind \/ Destroy \/ SleepOver
            \/ DestroyWait \/ DestroyClear \/ Close)
      BY DEF JoinCgroup, Register, Bind, Destroy, SleepOver, DestroyWait,
         DestroyClear, Close
    <3>q. QED
      BY <2>1, <3>1, <3>2, <3>3, <3>5, <3>7, <3>8, <3>9 DEF ManagerStep
  <2>2. CASE ClientStep \/ ClientWhim
    BY <2>2 DEF ClientStep, ClientWhim
  <2>3. CASE ChildStarts \/ ChildEnds
    BY <2>3 DEF ChildStarts, ChildEnds, sigchld, Interrupt
  <2>4. CASE ChildActs \/ Reparented
    BY <2>4 DEF ChildActs, Reparented
  <2>5. CASE Stopped \/ Expiry
    BY <2>5 DEF Stopped, sigterm_handler, Interrupt, Expiry, TimerExpires
  <2>q. QED
    BY <2>1, <2>2, <2>3, <2>4, <2>5 DEF Next
<1>q. QED
  BY <1>1, ClientInvariant, PTL DEF Spec, LiveClientKept
=============================================================================
