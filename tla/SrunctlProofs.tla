--------------------------- MODULE SrunctlProofs ----------------------------
(***************************************************************************)
(* What srunctl sends and returns, for command lines of every length: the  *)
(* modes are what the options say, no file is left to the daemon to create *)
(* and exit status 0 means that the command exited with 0, or with -b that *)
(* it was started.                                                         *)
(***************************************************************************)
EXTENDS Srunctl, WellFoundedInduction, TLAPS

-----------------------------------------------------------------------------
(* getopt.                                                                 *)

\* A nonempty set of naturals has a least element, which Min finds.
LEMMA MinFound ==
  ASSUME NEW S \in SUBSET Nat, S # {}
  PROVE  Min(S) \in S /\ \A j \in S : Min(S) <= j
<1>1. PICK x \in S : \A y \in S : ~ (<<y, x>> \in OpToRel(<, Nat))
  BY WFMin, NatLessThanWellFounded
<1>2. \A y \in S : ~(y < x)
  BY <1>1 DEF OpToRel
<1>3. \A y \in S : x <= y
  <2>1. \A y \in S : x \in Nat /\ y \in Nat
    OBVIOUS
  <2>q. QED
    BY <1>2, <2>1
<1>q. QED
  BY <1>3 DEF Min

\* getopt stops at the first word from optind on that is no operand, or one
\* past the end.
LEMMA NextOptionIs ==
  ASSUME argv \in Seq(Words), optind \in 1 .. Len(argv) + 1
  PROVE  /\ NextOption \in optind .. Len(argv) + 1
         /\ \A j \in optind .. NextOption - 1 : argv[j] \in Operands
         /\ NextOption <= Len(argv) => argv[NextOption] \in Words \ Operands
<1> DEFINE n == Len(argv)
           S == {i \in optind .. n : argv[i] \notin Operands} \cup {n + 1}
<1>0. n \in Nat /\ optind \in Nat /\ 1 <= optind /\ optind <= n + 1
  OBVIOUS
<1>1. NextOption = Min(S)
  BY DEF NextOption
<1>2. S \in SUBSET Nat /\ S # {}
  BY <1>0
<1>3. Min(S) \in S /\ \A j \in S : Min(S) <= j
  BY <1>2, MinFound
<1> DEFINE m == NextOption
<1>4. m \in S /\ \A j \in S : m <= j
  BY <1>1, <1>3
<1> HIDE DEF m
<1>5. m \in optind .. n + 1
  BY <1>0, <1>4
<1>6. ASSUME NEW j \in optind .. m - 1 PROVE argv[j] \in Operands
  <2>1. j \in optind .. n /\ ~(m <= j)
    BY <1>0, <1>5
  <2>q. QED
    BY <1>4, <2>1
<1>7. ASSUME m <= n PROVE argv[m] \in Words \ Operands
  <2>1. m # n + 1 /\ m \in 1 .. n
    BY <1>0, <1>5, <1>7
  <2>2. argv[m] \in Words
    BY <2>1
  <2>q. QED
    BY <1>4, <2>1, <2>2
<1>q. QED
  BY <1>5, <1>6, <1>7 DEF m

-----------------------------------------------------------------------------
(* What the words ask for.                                                 *)

\* Operands ask for nothing.
LEMMA OperandsAskNothing ==
  ASSUME NEW V, NEW W, V \subseteq W, W \subseteq V \cup Operands
  PROVE  AsksFor(V) <=> AsksFor(W)
<1>1. Operands \cap (DOMAIN OutFile \cup DOMAIN ErrFile
                     \cup {"-q", "-b"}) = {}
  BY DEF Operands, OutFile, ErrFile
<1>2. /\ V \cap DOMAIN OutFile = W \cap DOMAIN OutFile
      /\ V \cap DOMAIN ErrFile = W \cap DOMAIN ErrFile
      /\ "-q" \in V <=> "-q" \in W
      /\ "-b" \in V <=> "-b" \in W
  BY <1>1
<1>q. QED
  BY <1>2 DEF AsksFor

\* One turn of the loop over the options: the request asks for what one more
\* word says.
LEMMA OneMoreOption ==
  ASSUME NEW W, AsksFor(W), RequestShape,
         NEW w \in {"-q", "-n", "-b", "-o f", "-o g", "-e f"},
         request' = Apply(w), quiet' = (quiet \/ w = "-q")
  PROVE  /\ RequestShape'
         /\ AsksFor(W \cup {w})'
<1> DEFINE X == W \cup {w}
<1>0. /\ DOMAIN OutFile = {"-o f", "-o g"} /\ DOMAIN ErrFile = {"-e f"}
      /\ OutFile["-o f"] = "f" /\ OutFile["-o g"] = "g"
      /\ ErrFile["-e f"] = "f"
  BY DEF OutFile, ErrFile
<1>1. quiet' <=> "-q" \in X
  <2>1. quiet <=> "-q" \in W
    BY DEF AsksFor
  <2>2. quiet' <=> quiet \/ w = "-q"
    OBVIOUS
  <2>q. QED
    BY <2>1, <2>2
<1>2. /\ X \cap DOMAIN OutFile # {} <=> \/ W \cap DOMAIN OutFile # {}
                                        \/ w \in DOMAIN OutFile
      /\ X \cap DOMAIN ErrFile # {} <=> \/ W \cap DOMAIN ErrFile # {}
                                        \/ w \in DOMAIN ErrFile
      /\ "-q" \in X <=> "-q" \in W \/ w = "-q"
      /\ "-b" \in X <=> "-b" \in W \/ w = "-b"
      /\ W \cap DOMAIN OutFile \subseteq X \cap DOMAIN OutFile
      /\ W \cap DOMAIN ErrFile \subseteq X \cap DOMAIN ErrFile
  OBVIOUS
<1>3. CASE w = "-q"
  <2>1. request' = Quiet(request)
    BY <1>0, <1>3 DEF Apply
  <2>2. RequestShape'
    BY <2>1 DEF RequestShape, Quiet, Mode
  <2>3. /\ request'.outmode = IF request.outmode = "MSG" THEN "IGN"
                              ELSE request.outmode
        /\ request'.errmode = IF request.errmode = "MSG" THEN "IGN"
                              ELSE request.errmode
        /\ request'.outfile = request.outfile
        /\ request'.errfile = request.errfile
        /\ request'.backend = request.backend
    BY <2>1 DEF RequestShape, Quiet
  <2>4. /\ w \notin DOMAIN OutFile /\ w \notin DOMAIN ErrFile /\ "-q" \in X
        /\ "-b" \in X <=> "-b" \in W
    BY <1>0, <1>3
  <2> HIDE DEF X
  <2>5. AsksFor(X)'
    BY <1>1, <1>2, <2>3, <2>4 DEF AsksFor
  <2>q. QED
    BY <2>2, <2>5 DEF X
<1>4. CASE w = "-n"
  <2>1. request' = [request EXCEPT !.fields = TRUE]
    BY <1>0, <1>4 DEF Apply
  <2>2. RequestShape'
    BY <2>1 DEF RequestShape
  <2>3. /\ request'.outmode = request.outmode
        /\ request'.errmode = request.errmode
        /\ request'.outfile = request.outfile
        /\ request'.errfile = request.errfile
        /\ request'.backend = request.backend
    BY <2>1 DEF RequestShape
  <2>4. /\ w \notin DOMAIN OutFile /\ w \notin DOMAIN ErrFile
        /\ "-q" \in X <=> "-q" \in W
        /\ "-b" \in X <=> "-b" \in W
    BY <1>0, <1>4
  <2> HIDE DEF X
  <2>5. AsksFor(X)'
    BY <1>1, <1>2, <2>3, <2>4 DEF AsksFor
  <2>q. QED
    BY <2>2, <2>5 DEF X
<1>5. CASE w \in {"-o f", "-o g"}
  <2>1. request' = [request EXCEPT !.outmode = "FILE", !.outfile = OutFile[w]]
    BY <1>0, <1>5 DEF Apply
  <2>2. RequestShape'
    BY <1>0, <1>5, <2>1 DEF RequestShape, Mode
  <2>3. /\ request'.outmode = "FILE"
        /\ request'.errmode = request.errmode
        /\ request'.outfile = OutFile[w]
        /\ request'.errfile = request.errfile
        /\ request'.backend = request.backend
    BY <2>1 DEF RequestShape
  <2>4. /\ w \in X \cap DOMAIN OutFile /\ w \notin DOMAIN ErrFile
        /\ "-q" \in X <=> "-q" \in W
        /\ "-b" \in X <=> "-b" \in W
    BY <1>0, <1>5
  <2> HIDE DEF X
  <2>5. AsksFor(X)'
    BY <1>1, <1>2, <2>3, <2>4 DEF AsksFor
  <2>q. QED
    BY <2>2, <2>5 DEF X
<1>6. CASE w = "-e f"
  <2>1. request' = [request EXCEPT !.errmode = "FILE", !.errfile = ErrFile[w]]
    BY <1>0, <1>6 DEF Apply
  <2>2. RequestShape'
    BY <1>0, <1>6, <2>1 DEF RequestShape, Mode
  <2>3. /\ request'.outmode = request.outmode
        /\ request'.errmode = "FILE"
        /\ request'.outfile = request.outfile
        /\ request'.errfile = ErrFile[w]
        /\ request'.backend = request.backend
    BY <2>1 DEF RequestShape
  <2>4. /\ w \notin DOMAIN OutFile /\ w \in X \cap DOMAIN ErrFile
        /\ "-q" \in X <=> "-q" \in W
        /\ "-b" \in X <=> "-b" \in W
    BY <1>0, <1>6
  <2> HIDE DEF X
  <2>5. AsksFor(X)'
    BY <1>1, <1>2, <2>3, <2>4 DEF AsksFor
  <2>q. QED
    BY <2>2, <2>5 DEF X
<1>7. CASE w = "-b"
  <2>1. request' = [request EXCEPT !.backend = TRUE]
    BY <1>0, <1>7 DEF Apply
  <2>2. RequestShape'
    BY <2>1 DEF RequestShape
  <2>3. /\ request'.outmode = request.outmode
        /\ request'.errmode = request.errmode
        /\ request'.outfile = request.outfile
        /\ request'.errfile = request.errfile
        /\ request'.backend = TRUE
    BY <2>1 DEF RequestShape
  <2>4. /\ w \notin DOMAIN OutFile /\ w \notin DOMAIN ErrFile
        /\ "-q" \in X <=> "-q" \in W
        /\ "-b" \in X
    BY <1>0, <1>7
  <2> HIDE DEF X
  <2>5. AsksFor(X)'
    BY <1>1, <1>2, <2>3, <2>4 DEF AsksFor
  <2>q. QED
    BY <2>2, <2>5 DEF X
<1>q. QED
  BY <1>3, <1>4, <1>5, <1>6, <1>7

\* Where getopt stops at -c, at -- or at the end, the words before are the
\* options the user gave.
LEMMA GivenBefore ==
  ASSUME argv \in Seq(Words), NEW i \in 1 .. Len(argv) + 1,
         \A j \in 1 .. i - 1 : argv[j] \notin {"-c", "--"},
         i <= Len(argv) => argv[i] \in {"-c", "--"}
  PROVE  Given = {argv[j] : j \in 1 .. i - 1}
<1> DEFINE ends == {k \in DOMAIN argv : argv[k] \in {"-c", "--"}}
           J == {j \in DOMAIN argv : \A e \in ends : j < e}
           n == Len(argv)
<1>0. n \in Nat /\ DOMAIN argv = 1 .. n /\ i \in 1 .. n + 1
  OBVIOUS
<1>1. J = 1 .. i - 1
  <2>1. ASSUME NEW j \in 1 .. i - 1 PROVE j \in J
    <3>1. \A e \in ends : ~(e \in 1 .. i - 1) /\ e \in 1 .. n
      BY <1>0
    <3> HIDE DEF ends
    <3>2. \A e \in ends : j < e
      BY <1>0, <3>1
    <3>3. j \in DOMAIN argv
      BY <1>0
    <3>q. QED
      BY <3>2, <3>3
  <2>2. ASSUME NEW j \in J PROVE j \in 1 .. i - 1
    <3>1. j \in 1 .. n
      BY <1>0
    <3>2. i <= n => j < i
      <4>1. i <= n => i \in ends
        BY <1>0
      <4>q. QED
        BY <4>1
    <3>q. QED
      BY <1>0, <3>1, <3>2
  <2>q. QED
    BY <2>1, <2>2
<1>2. Given = {argv[j] : j \in J}
  BY DEF Given
<1>q. QED
  BY <1>1, <1>2

-----------------------------------------------------------------------------
(* The words main takes for the command.                                   *)

\* No words.
LEMMA NoWords == ASSUME NEW S PROVE <<>> \in Seq(S)
  OBVIOUS

\* A part of a line, its end before its start or behind its last word.
LEMMA Part ==
  ASSUME NEW S, NEW line \in Seq(S), NEW m \in 1 .. Len(line) + 1,
         NEW n \in m - 1 .. Len(line)
  PROVE  /\ SubSeq(line, m, n) \in Seq(S)
         /\ Len(SubSeq(line, m, n)) = n - m + 1
         /\ \A k \in 1 .. n - m + 1 : SubSeq(line, m, n)[k] = line[m + k - 1]
  OBVIOUS

\* What getopt has passed over when it comes to the word i.
LEMMA PassedSeq ==
  ASSUME argv \in Seq(Words), optind \in 1 .. Len(argv) + 1,
         passed \in Seq(Operands), NEW i \in optind .. Len(argv) + 1,
         \A j \in optind .. i - 1 : argv[j] \in Operands
  PROVE  PassedBefore(i) \in Seq(Operands)
<1> DEFINE part == SubSeq(argv, optind, i - 1)
<1>1. i - 1 \in optind - 1 .. Len(argv)
  OBVIOUS
<1>2. /\ part \in Seq(Words) /\ Len(part) = i - optind
      /\ \A k \in 1 .. i - optind : part[k] = argv[optind + k - 1]
  BY <1>1, Part
<1> HIDE DEF part
<1>3. ASSUME NEW k \in 1 .. Len(part) PROVE part[k] \in Operands
  <2>1. k \in 1 .. i - optind /\ optind + k - 1 \in optind .. i - 1
    BY <1>2
  <2>q. QED
    BY <1>2, <2>1
<1>4. part \in Seq(Operands)
  BY <1>2, <1>3
<1>q. QED
  BY <1>4 DEF PassedBefore, part

\* Behind -c, and with the operands moved behind the options.
LEMMA CommandWords ==
  ASSUME argv \in Seq(Words), NEW i \in 1 .. Len(argv) + 1,
         PassedBefore(i) \in Seq(Operands)
  PROVE  /\ SubSeq(argv, i + 1, Len(argv)) \in Seq(Words)
         /\ Permuted(i) \in Seq(Words)
<1>1. SubSeq(argv, i + 1, Len(argv)) \in Seq(Words)
  <2>1. CASE i <= Len(argv)
    BY <2>1, Part
  <2>2. CASE i = Len(argv) + 1
    BY <2>2
  <2>q. QED
    BY <2>1, <2>2
<1>2. PassedBefore(i) \in Seq(Words)
  BY DEF Words
<1>q. QED
  BY <1>1, <1>2 DEF Permuted

-----------------------------------------------------------------------------
(* The invariant.                                                          *)

\* Before main has looked at anything.
LEMMA SrunctlInit == Init => SrunctlInv
<1> SUFFICES ASSUME Init PROVE SrunctlInv
  OBVIOUS
<1>1. argv \in Seq(Words)
  <2>1. PICK k \in 0 .. MaxWords : argv \in [1 .. k -> Words]
    BY DEF Init, BoundedSeq, SeqOf
  <2>2. k \in Nat
    BY SrunctlAssumption
  <2>q. QED
    BY <2>1, <2>2
<1>2. /\ pc = "main" /\ optind = 1 /\ sent = "none" /\ quiet = FALSE
      /\ answer = NoAnswer /\ fate = [end |-> "lost", status |-> 0]
      /\ request = [outmode |-> "MSG", errmode |-> "MSG", outfile |-> "",
                    errfile |-> "", backend |-> FALSE, fields |-> FALSE,
                    args |-> <<>>]
  BY DEF Init
<1>3. 1 .. optind - 1 = {}
  <2>1. optind - 1 = 0
    <3>1. optind = 1
      BY <1>2
    <3>q. QED
      BY <3>1
  <2>2. \A j \in 1 .. 0 : FALSE
    OBVIOUS
  <2>q. QED
    BY <2>1, <2>2
<1>3a. Asked = {}
  BY <1>3 DEF Asked
<1>4. AsksFor({})
  BY <1>2 DEF AsksFor
<1>5. RequestShape
  <2>1. <<>> \in Seq(Words)
    BY NoWords
  <2>q. QED
    BY <1>2, <2>1 DEF RequestShape, Mode
<1>8. passed \in Seq(Operands)
  <2>1. <<>> \in Seq(Operands)
    BY NoWords
  <2>q. QED
    BY <2>1 DEF Init
<1>6. answer \in Answers /\ fate \in Fates
  BY <1>2 DEF NoAnswer, Answers, Fates
<1>7. optind \in 1 .. Len(argv) + 1
  <2> DEFINE n == Len(argv)
  <2>1. n \in Nat
    BY <1>1
  <2> HIDE DEF n
  <2>2. 1 \in 1 .. n + 1
    BY <2>1
  <2>q. QED
    BY <1>2, <2>2 DEF n
<1>q. QED
  BY <1>1, <1>2, <1>3, <1>4, <1>5, <1>6, <1>7, <1>8, <1>3a
     DEF SrunctlInv, ModesByOptions, FilesBeforeSend, ZeroMeansDone

\* A step after the options, which leaves the line and the request alone.
LEMMA RequestFixed ==
  ASSUME SrunctlInv, UNCHANGED <<argv, optind, passed, request, quiet>>
  PROVE  /\ argv' \in Seq(Words) /\ optind' \in 1 .. Len(argv') + 1
         /\ RequestShape'
         /\ AsksFor(Given)' <=> AsksFor(Given)
<1>1. Given' = Given
  BY DEF Given
<1>2. RequestShape' /\ (AsksFor(Given)' <=> AsksFor(Given))
  BY <1>1 DEF SrunctlInv, RequestShape, AsksFor
<1>q. QED
  BY <1>2 DEF SrunctlInv

\* main returns: when all was well, or not with 0.
AllWell ==
  \/ sent \in {"LIST", "STOP"} /\ fate.end = "served"
  \/ sent = "EXE" /\ "-b" \in Given /\ fate.end = "started"
  \/ /\ sent = "EXE" /\ "-b" \notin Given
     /\ fate.end = "exited" /\ fate.status = 0

LEMMA ExitKeeps ==
  ASSUME SrunctlInv, NEW n \in Int, Exit(n),
         UNCHANGED <<argv, optind, passed, request, quiet, files, sent, fate,
                     answer>>,
         Status(n) = 0 => AllWell
  PROVE  SrunctlInv'
<1>1. pc' = "exited" /\ exit' = Status(n)
  BY DEF Exit
<1>2. /\ argv' \in Seq(Words) /\ optind' \in 1 .. Len(argv') + 1
      /\ RequestShape' /\ (AsksFor(Given)' <=> AsksFor(Given))
  BY RequestFixed
<1>3. ModesByOptions'
  BY <1>2 DEF SrunctlInv, ModesByOptions
<1>4. FilesBeforeSend'
  BY DEF SrunctlInv, FilesBeforeSend
<1>5. ZeroMeansDone'
  BY <1>1 DEF ZeroMeansDone, AllWell, Given
<1>6. answer' \in Answers /\ fate' \in Fates
  BY DEF SrunctlInv
<1>q. QED
  BY <1>1, <1>2, <1>3, <1>4, <1>5, <1>6 DEF SrunctlInv

\* A return value of -1 does not look like success to the caller.
LEMMA MinusOne == Status(-1) # 0
<1>1. \A n \in Int : n + 1 = 0 => n % 256 # 0
  OBVIOUS
<1>2. -1 \in Int /\ (-1) + 1 = 0
  OBVIOUS
<1>q. QED
  BY <1>1, <1>2 DEF Status

\* create777: the file exists, or nothing goes on.
LEMMA CreateKeeps ==
  ASSUME SrunctlInv, CreateOut \/ CreateErr
  PROVE  SrunctlInv'
<1>1. /\ pc \in {"out", "err"}
      /\ UNCHANGED <<argv, optind, passed, request, quiet, fate, answer, exit>>
      /\ files \subseteq files'
  BY DEF CreateOut, CreateErr, create777
<1>2. /\ argv' \in Seq(Words) /\ optind' \in 1 .. Len(argv') + 1
      /\ RequestShape' /\ AsksFor(Given)'
  BY <1>1, RequestFixed DEF SrunctlInv
<1>3. answer' \in Answers /\ fate' \in Fates /\ ModesByOptions'
  BY <1>1, <1>2 DEF SrunctlInv, ModesByOptions
<1>4. /\ pc' \in {"err", "exec", "aborted"}
      /\ pc' = "err" => pc = "out" /\ sent' = sent
      /\ pc' = "exec" => pc = "err" /\ sent' = "EXE"
      /\ pc' = "aborted" => sent' = sent
  BY DEF CreateOut, CreateErr, create777
<1>5. sent = "none"
  BY <1>1 DEF SrunctlInv
<1>6. pc' \in {"err", "exec"} /\ request.outmode = "FILE"
        => request.outfile \in files'
  <2>1. CASE CreateOut
    BY <2>1 DEF CreateOut, create777
  <2>2. CASE CreateErr
    <3>1. pc = "err"
      BY <2>2 DEF CreateErr
    <3>q. QED
      BY <1>1, <3>1 DEF SrunctlInv
  <2>q. QED
    BY <2>1, <2>2
<1>7. pc' = "exec" /\ request.errmode = "FILE" => request.errfile \in files'
  BY DEF CreateOut, CreateErr, create777
<1>8. FilesBeforeSend'
  BY <1>1, <1>4, <1>5, <1>6, <1>7 DEF FilesBeforeSend
<1>9. ZeroMeansDone'
  BY <1>4 DEF ZeroMeansDone
<1>q. QED
  BY <1>1, <1>2, <1>3, <1>4, <1>5, <1>6, <1>8, <1>9 DEF SrunctlInv

\* What comes of a request, and what is told of it, have their types.
LEMMA ToldTypes ==
  /\ Outcomes \subseteq Fates
  /\ \A f \in Fates : Told(f) \subseteq Answers
<1>1. Outcomes \subseteq Fates
  BY DEF Outcomes, Fates
<1>2. \A f \in Fates : Told(f) \subseteq Answers
  <2> TAKE f \in Fates
  <2>1. Stats(f.end) \subseteq {"NORMAL", "TIMEOUT", "ABNORMAL", "BADARGS"}
    BY DEF Stats, Fates
  <2>2. f.status \in Retvals \cup {0}
    BY DEF Fates
  <2>3. NoAnswer \in Answers
    BY DEF NoAnswer, Answers
  <2>q. QED
    BY <2>1, <2>2, <2>3 DEF Told, Answers
<1>q. QED
  BY <1>1, <1>2

\* Every step keeps the invariant.
LEMMA SrunctlStep == SrunctlInv /\ [Next]_vars => SrunctlInv'
<1> SUFFICES ASSUME SrunctlInv, [Next]_vars
             PROVE  SrunctlInv'
  OBVIOUS
<1>a. argv \in Seq(Words) /\ optind \in 1 .. Len(argv) + 1 /\ RequestShape
      /\ answer \in Answers /\ fate \in Fates /\ Len(argv) \in Nat
  BY DEF SrunctlInv
<1>1. CASE Usage \/ BadOption
  BY <1>1, MinusOne, ExitKeeps DEF Usage, BadOption, do_help
<1>2. CASE List \/ Stop \/ Parse
  <2>1. /\ pc = "main"
        /\ UNCHANGED <<argv, optind, passed, request, quiet, files, fate,
                       answer, exit>>
        /\ \/ pc' = "exec" /\ sent' \in {"LIST", "STOP"}
           \/ pc' = "getopt" /\ sent' = sent
    BY <1>2 DEF List, Stop, Parse, list, stop
  <2>2. sent = "none" /\ AsksFor(Asked)
        /\ \A i \in 1 .. optind - 1 : argv[i] \notin {"-c", "--"}
    BY <2>1 DEF SrunctlInv
  <2>3. Asked' = Asked
    BY <2>1 DEF Asked
  <2>4. RequestShape' /\ AsksFor(Asked)'
    BY <1>a, <2>1, <2>2, <2>3 DEF RequestShape, AsksFor
  <2>5. ModesByOptions' /\ FilesBeforeSend' /\ ZeroMeansDone'
    BY <2>1, <2>2 DEF ModesByOptions, FilesBeforeSend, ZeroMeansDone
  <2>q. QED
    BY <1>a, <2>1, <2>2, <2>4, <2>5 DEF SrunctlInv
<1> DEFINE i == NextOption
<1>b. /\ i \in optind .. Len(argv) + 1
      /\ \A j \in optind .. i - 1 : argv[j] \in Operands
      /\ i <= Len(argv) => argv[i] \in Words \ Operands
  BY <1>a, NextOptionIs
<1> HIDE DEF i
<1>c. /\ i \in Int /\ optind \in Int /\ 1 <= optind /\ optind <= i
      /\ i <= Len(argv) + 1
  BY <1>a, <1>b
<1> DEFINE Before == {argv[j] : j \in 1 .. i - 1}
<1>d. ASSUME pc = "getopt"
      PROVE  /\ \A j \in 1 .. i - 1 : argv[j] \notin {"-c", "--"}
             /\ AsksFor(Before)
  <2>1. \A j \in 1 .. i - 1 : j \in 1 .. optind - 1 \/ j \in optind .. i - 1
    BY <1>c
  <2>2. \A j \in 1 .. optind - 1 : j \in 1 .. i - 1
    BY <1>c
  <2>3. \A j \in 1 .. optind - 1 : argv[j] \notin {"-c", "--"}
    BY <1>d DEF SrunctlInv
  <2>4. \A j \in 1 .. i - 1 : argv[j] \notin {"-c", "--"}
    BY <1>b, <2>1, <2>3 DEF Operands
  <2>5. Asked \subseteq Before /\ Before \subseteq Asked \cup Operands
    BY <1>b, <2>1, <2>2 DEF Asked
  <2>6. AsksFor(Asked)
    BY <1>d DEF SrunctlInv
  <2> HIDE DEF Before
  <2>7. AsksFor(Before)
    BY <2>5, <2>6, OperandsAskNothing
  <2>q. QED
    BY <2>4, <2>7
<1>e. PassedBefore(i) \in Seq(Operands)
  BY <1>a, <1>b, <1>c, PassedSeq DEF SrunctlInv
<1>3. CASE Option
  <2>1. /\ pc = "getopt" /\ i <= Len(argv)
        /\ argv[i] \notin {"-c", "-x", "--"}
        /\ request' = Apply(argv[i])
        /\ quiet' = (quiet \/ argv[i] = "-q")
        /\ optind' = i + 1 /\ passed' = PassedBefore(i)
        /\ UNCHANGED <<argv, pc, files, sent, fate, answer, exit>>
    BY <1>3 DEF Option, i
  <2>2. argv[i] \in {"-q", "-n", "-b", "-o f", "-o g", "-e f"}
    BY <1>b, <2>1 DEF Words, Operands, OutFile, ErrFile
  <2>p. PICK w, W : w = argv[i] /\ W = Before
    OBVIOUS
  <2>3. RequestShape' /\ AsksFor(W \cup {w})'
    <3>1. /\ w \in {"-q", "-n", "-b", "-o f", "-o g", "-e f"}
          /\ request' = Apply(w) /\ quiet' = (quiet \/ w = "-q")
      BY <2>p, <2>1, <2>2
    <3>2. AsksFor(W)
      <4> HIDE DEF Before
      <4>q. QED
        BY <1>d, <2>p, <2>1
    <3>q. QED
      BY <1>a, <3>1, <3>2, OneMoreOption
  <2>4. Asked' = W \cup {w}
    <3>1. \A j : j \in 1 .. (i + 1) - 1 <=> j \in 1 .. i - 1 \/ j = i
      BY <1>c
    <3>q. QED
      BY <2>p, <2>1, <3>1 DEF Asked
  <2>5. optind' \in 1 .. Len(argv') + 1
    BY <1>a, <1>c, <2>1
  <2>6. \A j \in 1 .. optind' - 1 : argv'[j] \notin {"-c", "--"}
    <3>1. \A j \in 1 .. optind' - 1 : j \in 1 .. i - 1 \/ j = i
      BY <1>c, <2>1
    <3>q. QED
      BY <1>d, <2>1, <3>1
  <2>7. sent' = "none"
    BY <2>1 DEF SrunctlInv
  <2>8. ModesByOptions' /\ FilesBeforeSend' /\ ZeroMeansDone'
    BY <2>1, <2>7 DEF ModesByOptions, FilesBeforeSend, ZeroMeansDone
  <2>9. AsksFor(Asked)'
    BY <2>3, <2>4 DEF AsksFor
  <2>10. passed' \in Seq(Operands)
    BY <1>e, <2>1
  <2>q. QED
    BY <1>a, <2>10, <2>1, <2>3, <2>5, <2>6, <2>7, <2>8, <2>9 DEF SrunctlInv
<1>4. CASE Command
  <2>1. /\ pc = "getopt"
        /\ i <= Len(argv) => argv[i] \in {"-c", "--"}
        /\ UNCHANGED <<argv, optind, passed, quiet, files, sent, fate, answer>>
    BY <1>4 DEF Command, i
  <2>2. CASE do_help /\ UNCHANGED request
    BY <2>1, <2>2, MinusOne, ExitKeeps DEF do_help
  <2>3. ASSUME NEW args \in Seq(Words),
               request' = [request EXCEPT !.args = args],
               pc' = "out", UNCHANGED exit
        PROVE  SrunctlInv'
    <3>1. Given = Before
      BY <1>a, <1>c, <1>d, <2>1, GivenBefore
    <3>2. AsksFor(Given)
      <4> HIDE DEF Before
      <4>q. QED
        BY <1>d, <2>1, <3>1
    <3>3. /\ RequestShape'
          /\ request'.outmode = request.outmode
          /\ request'.errmode = request.errmode
          /\ request'.outfile = request.outfile
          /\ request'.errfile = request.errfile
          /\ request'.backend = request.backend
      BY <1>a, <2>3 DEF RequestShape
    <3>4. Given' = Given
      BY <2>1 DEF Given
    <3>5. AsksFor(Given)'
      BY <2>1, <3>2, <3>3, <3>4 DEF AsksFor
    <3>6. sent' = "none"
      BY <2>1 DEF SrunctlInv
    <3>7. ModesByOptions' /\ FilesBeforeSend' /\ ZeroMeansDone'
      BY <2>3, <3>6 DEF ModesByOptions, FilesBeforeSend, ZeroMeansDone
    <3>q. QED
      BY <1>a, <2>1, <2>3, <3>3, <3>5, <3>6, <3>7 DEF SrunctlInv
  <2>4. /\ SubSeq(argv, i + 1, Len(argv)) \in Seq(Words)
        /\ Permuted(i) \in Seq(Words)
    BY <1>a, <1>c, <1>e, CommandWords
  <2>q. QED
    BY <1>4, <2>2, <2>3, <2>4 DEF Command, i
<1>5. CASE CreateOut \/ CreateErr
  BY <1>5, CreateKeeps
<1>6. CASE exec
  <2>1. /\ pc = "exec" /\ pc' = "answered"
        /\ fate' \in Outcomes /\ answer' \in Told(fate')
        /\ UNCHANGED <<argv, optind, passed, request, quiet, files, sent,
                       exit>>
    BY <1>6 DEF exec
  <2>4. fate' \in Fates /\ answer' \in Answers
    BY <2>1, ToldTypes
  <2>5. fate' \in Outcomes' /\ answer' \in Told(fate)'
    BY <2>1 DEF Outcomes, Told, Stats
  <2>2. RequestShape' /\ (AsksFor(Given)' <=> AsksFor(Given))
    BY <2>1, RequestFixed
  <2>3. ModesByOptions' /\ FilesBeforeSend' /\ ZeroMeansDone'
    BY <2>1, <2>2 DEF SrunctlInv, ModesByOptions, FilesBeforeSend,
       ZeroMeansDone
  <2>q. QED
    BY <1>a, <2>1, <2>2, <2>3, <2>4, <2>5 DEF SrunctlInv
<1>7. CASE Finish
  <2>1. /\ pc = "answered" /\ Exit(Returned)
        /\ sent \in {"EXE", "LIST", "STOP"}
        /\ fate \in Outcomes /\ answer \in Told(fate)
        /\ sent = "EXE" => AsksFor(Given)
        /\ UNCHANGED <<argv, optind, passed, request, quiet, files, sent,
                       fate, answer>>
    BY <1>7 DEF Finish, SrunctlInv, ModesByOptions
  <2>2. answer.retval \in 0 .. 255
    <3>1. answer.retval \in Retvals \cup {0}
      BY <1>a DEF Answers
    <3>2. 0 \in 0 .. 255 /\ Retvals \subseteq 0 .. 255
      BY SrunctlAssumption
    <3>q. QED
      BY <3>1, <3>2
  <2>3. Returned \in Int
    BY <2>2 DEF Returned
  <2>4. ASSUME Status(Returned) = 0 PROVE AllWell
    <3>1. Returned # -1
      BY <2>4, MinusOne
    <3>2. answer.ok
      BY <3>1 DEF Returned
    <3>3. sent = "EXE" => answer.stat = "NORMAL" /\ Returned = answer.retval
      BY <3>1, <3>2 DEF Returned
    <3>4. \A n \in 0 .. 255 : n % 256 = 0 => n = 0
      OBVIOUS
    <3>5. sent = "EXE" => answer.retval = 0
      BY <2>2, <2>4, <3>3, <3>4 DEF Status
    <3>6. /\ fate.end # "lost"
          /\ answer.stat \in Stats(fate.end) /\ answer.retval = fate.status
      <4>1. ~NoAnswer.ok
        BY DEF NoAnswer
      <4>2. fate.end # "lost"
        BY <2>1, <3>2, <4>1 DEF Told
      <4>3. answer \in [ok : {TRUE}, stat : Stats(fate.end),
                        retval : {fate.status}]
        BY <2>1, <4>2 DEF Told
      <4>q. QED
        BY <4>2, <4>3
    <3>7. CASE sent # "EXE"
      BY <2>1, <3>6, <3>7 DEF Outcomes, AllWell
    <3>8. CASE sent = "EXE" /\ request.backend
      <4>1. "-b" \in Given
        BY <2>1, <3>8 DEF AsksFor
      <4>2. fate.end \in {"rejected", "started"}
        BY <2>1, <3>6, <3>8 DEF Outcomes
      <4>3. fate.end = "started"
        BY <3>3, <3>6, <3>8, <4>2 DEF Stats
      <4>q. QED
        BY <3>8, <4>1, <4>3 DEF AllWell
    <3>9. CASE sent = "EXE" /\ ~request.backend
      <4>1. "-b" \notin Given
        BY <2>1, <3>9 DEF AsksFor
      <4>2. fate.end \in {"rejected", "killed", "exited"}
        BY <2>1, <3>6, <3>9 DEF Outcomes
      <4>3. fate.end = "exited"
        BY <3>3, <3>6, <3>9, <4>2 DEF Stats
      <4>q. QED
        BY <3>5, <3>6, <3>9, <4>1, <4>3 DEF AllWell
    <3>q. QED
      BY <3>7, <3>8, <3>9
  <2>q. QED
    BY <2>1, <2>3, <2>4, ExitKeeps
<1>8. CASE UNCHANGED vars
  <2>1. UNCHANGED <<argv, pc, optind, passed, request, quiet, files, sent,
                    fate, answer, exit>>
    BY <1>8 DEF vars
  <2>5. /\ pc = "answered" => fate \in Outcomes /\ answer \in Told(fate)
        /\ UNCHANGED <<Outcomes, Told(fate)>>
    BY <2>1 DEF SrunctlInv, Outcomes, Told, Stats
  <2>2. RequestShape' /\ (AsksFor(Given)' <=> AsksFor(Given))
    BY <2>1, RequestFixed
  <2>6. Given' = Given
    BY <2>1 DEF Given
  <2>3. AsksFor(Asked)' <=> AsksFor(Asked)
    BY <2>1 DEF AsksFor, Asked
  <2>4. ModesByOptions' /\ FilesBeforeSend' /\ ZeroMeansDone'
    BY <2>1, <2>2, <2>6 DEF SrunctlInv, ModesByOptions, FilesBeforeSend,
       ZeroMeansDone
  <2>q. QED
    BY <2>1, <2>2, <2>3, <2>4, <2>5 DEF SrunctlInv
<1>q. QED
  BY <1>1, <1>2, <1>3, <1>4, <1>5, <1>6, <1>7, <1>8 DEF Next

\* What srunctl knows of the line, the files and the answer, at every point of
\* main and Srunc::run.
THEOREM SrunctlInvariant == Spec => []SrunctlInv
  BY SrunctlInit, SrunctlStep, PTL DEF Spec

\* The request is what the options say, for lines of every length, with the
\* options in every order and operands between them.
THEOREM OptionsDecide == Spec => []ModesByOptions
<1>1. SrunctlInv => ModesByOptions
  BY DEF SrunctlInv
<1>q. QED
  BY <1>1, SrunctlInvariant, PTL

\* Nothing is sent before both files were created by the user.
THEOREM FilesFirst == Spec => []FilesBeforeSend
<1>1. SrunctlInv => FilesBeforeSend
  BY DEF SrunctlInv
<1>q. QED
  BY <1>1, SrunctlInvariant, PTL

\* main: exit status 0 means that LIST or STOP was served, that the command
\* exited with 0, or, with -b among the options, that it was started; for lines
\* of every length and every exit status a command may have.
THEOREM ZeroIsSuccess == Spec => []ZeroMeansDone
<1>1. SrunctlInv => ZeroMeansDone
  BY DEF SrunctlInv
<1>q. QED
  BY <1>1, SrunctlInvariant, PTL

-----------------------------------------------------------------------------
(* Type correctness.                                                       *)

\* What main returns, the caller sees as a status.
LEMMA StatusRange == \A n \in Int : Status(n) \in 0 .. 255
  BY DEF Status

\* The names that create777 is given.
LEMMA FilesNamed ==
  ASSUME NEW W, AsksFor(W)
  PROVE  /\ request.outmode = "FILE" => request.outfile \in {"f", "g"}
         /\ request.errmode = "FILE" => request.errfile \in {"f", "g"}
  BY DEF AsksFor, OutFile, ErrFile

\* Every step keeps the types.
LEMMA SrunctlTypeStep ==
  TypeOK /\ SrunctlInv /\ SrunctlInv' /\ [Next]_vars => TypeOK'
<1> SUFFICES ASSUME TypeOK, SrunctlInv, SrunctlInv', [Next]_vars
             PROVE  TypeOK'
  OBVIOUS
<1> DEFINE Flow == /\ pc \in {"main", "getopt", "out", "err", "exec",
                              "answered", "exited", "aborted"}
                   /\ quiet \in BOOLEAN
                   /\ files \subseteq {"f", "g"}
                   /\ sent \in {"none", "EXE", "LIST", "STOP"}
                   /\ exit \in 0 .. 255
<1>1. Flow
  BY DEF TypeOK
<1>2. /\ argv' \in Seq(Words) /\ optind' \in 1 .. Len(argv') + 1
      /\ passed' \in Seq(Operands) /\ RequestShape' /\ answer' \in Answers
      /\ fate' \in Fates
  BY DEF SrunctlInv
<1> SUFFICES Flow'
  BY <1>2 DEF TypeOK
<1>3. Status(-1) \in 0 .. 255
  BY StatusRange
<1>4. CASE Usage \/ BadOption
  BY <1>1, <1>3, <1>4 DEF Usage, BadOption, do_help, Exit
<1>5. CASE List \/ Stop \/ Parse
  BY <1>1, <1>5 DEF List, Stop, Parse, list, stop
<1>6. CASE Option
  BY <1>1, <1>6 DEF Option
<1>7. CASE Command
  BY <1>1, <1>3, <1>7 DEF Command, do_help, Exit
<1>8. CASE CreateOut \/ CreateErr
  <2>1. pc \in {"out", "err"}
    BY <1>8 DEF CreateOut, CreateErr
  <2>2. PICK W : W = Given
    OBVIOUS
  <2>3. AsksFor(W)
    BY <2>1, <2>2 DEF SrunctlInv
  <2>4. files' \subseteq {"f", "g"}
    BY <1>1, <1>8, <2>3, FilesNamed DEF CreateOut, CreateErr, create777
  <2>q. QED
    BY <1>1, <1>8, <2>4 DEF CreateOut, CreateErr, create777
<1>9. CASE exec
  BY <1>1, <1>9 DEF exec
<1>10. CASE Finish
  <2>1. answer.retval \in Int
    <3>1. answer.retval \in Retvals \cup {0}
      BY DEF TypeOK, Answers
    <3>2. 0 \in Int /\ Retvals \subseteq Int
      BY SrunctlAssumption
    <3>q. QED
      BY <3>1, <3>2
  <2>2. Returned \in Int
    BY <2>1 DEF Returned
  <2>3. Status(Returned) \in 0 .. 255
    BY <2>2, StatusRange
  <2>q. QED
    BY <1>1, <1>10, <2>3 DEF Finish, Exit
<1>11. CASE UNCHANGED vars
  BY <1>1, <1>11 DEF vars
<1>q. QED
  BY <1>4, <1>5, <1>6, <1>7, <1>8, <1>9, <1>10, <1>11 DEF Next

\* main and Srunc::run: every variable has its type, for lines of every length;
\* in particular getopt's permutation yields words, only files that were named
\* are created, and main's return value reaches the caller as a status.
THEOREM SrunctlTypes == Spec => []TypeOK
<1>1. Init => TypeOK
  <2> SUFFICES ASSUME Init PROVE TypeOK
    OBVIOUS
  <2>1. /\ argv \in Seq(Words) /\ optind \in 1 .. Len(argv) + 1
        /\ passed \in Seq(Operands) /\ RequestShape /\ answer \in Answers
        /\ fate \in Fates
    BY SrunctlInit DEF SrunctlInv
  <2>2. pc = "main" /\ quiet = FALSE /\ files = {} /\ sent = "none" /\ exit = 0
    BY DEF Init
  <2>3. quiet \in BOOLEAN /\ files \subseteq {"f", "g"}
    BY <2>2
  <2>4. exit \in 0 .. 255
    BY <2>2
  <2>q. QED
    BY <2>1, <2>2, <2>3, <2>4, Zenon DEF TypeOK
<1>2. TypeOK /\ SrunctlInv /\ SrunctlInv' /\ [Next]_vars => TypeOK'
  BY SrunctlTypeStep
<1>q. QED
  BY <1>1, <1>2, SrunctlInvariant, PTL DEF Spec
=============================================================================
