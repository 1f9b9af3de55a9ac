---------------------------- MODULE ConfigProofs ----------------------------
(***************************************************************************)
(* One configuration file decides about a request, for any number of files *)
(* in any state, read in any order, and for any fields.                    *)
(***************************************************************************)
EXTENDS Config, TLAPS

\* There is at most one first file, so CHOOSE finds the one loadRequest takes.
LEMMA FirstUnique ==
  ASSUME NEW S \in SUBSET Paths, NEW p \in S, \A q \in S : p <= q
  PROVE  p = CHOOSE x \in S : \A q \in S : x <= q
<1> DEFINE c == CHOOSE x \in S : \A q \in S : x <= q
<1>1. c \in S /\ \A q \in S : c <= q
  OBVIOUS
<1>2. c <= p /\ p <= c
  BY <1>1
<1> HIDE DEF c
<1>3. c \in Int /\ p \in Int
  BY <1>1, ConfigAssumption DEF Paths
<1>4. p = c
  BY <1>2, <1>3
<1>q. QED
  BY <1>4 DEF c

\* Nothing is read, and the request is the client's.
LEMMA ConfigInit == Init => ConfigInv
  BY DEF Init, ConfigInv, OneFileDecides

\* When every file is read, the files the map offers are those on the disk.
LEMMA AllRead ==
  ASSUME ConfigInv, cpc = "lookup"
  PROVE  Candidates = Deciding
  BY DEF ConfigInv, Candidates, Deciding

LEMMA ConfigStep == ConfigInv /\ [Next]_vars => ConfigInv'
<1> SUFFICES ASSUME ConfigInv, [Next]_vars
             PROVE  ConfigInv'
  OBVIOUS
<1>1. ASSUME NEW p \in Paths, ReadFile(p) PROVE ConfigInv'
  <2>1. /\ cpc = "read" /\ cpc' \in {"read", "failed"} /\ p \in unread
        /\ unread' = unread \ {p}
        /\ UNCHANGED <<disk, model, fields>>
    BY <1>1 DEF ReadFile
  <2>2. keyfiles' = {q \in Paths \ unread' :
                       disk[q].state \in {"nogroup", "group"}}
    BY <1>1, <2>1 DEF ReadFile, ConfigInv
  <2>3. OneFileDecides'
    BY <2>1 DEF OneFileDecides
  <2>q. QED
    BY <2>1, <2>2, <2>3 DEF ConfigInv
<1>2. CASE ReadAll
  BY <1>2 DEF ReadAll, ConfigInv, OneFileDecides
<1>3. CASE loadRequest
  <2>1. /\ cpc = "lookup" /\ model /\ cpc' = "env"
        /\ UNCHANGED <<disk, unread, keyfiles, model>>
    BY <1>3 DEF loadRequest
  <2>2. PICK p \in Paths : First(p) /\ fields' = fillFields(p)
    BY <1>3 DEF loadRequest
  <2>3. p \in Deciding /\ \A q \in Deciding : p <= q
    BY <2>1, <2>2, AllRead DEF First
  <2>4. p = CHOOSE x \in Deciding : \A q \in Deciding : x <= q
    BY <2>3, FirstUnique DEF Deciding
  <2>5. ASSUME NEW f \in Fields
        PROVE  fields'[f] = IF disk[p].key[f] = "set" THEN p ELSE 0
    BY <2>1, <2>2 DEF fillFields, ConfigInv
  <2>6. \A x \in Deciding : (\A q \in Deciding : x <= q) => x = p
    <3>1. \A x \in Deciding : x \in Int
      BY ConfigAssumption DEF Deciding, Paths
    <3>q. QED
      BY <2>3, <3>1
  <2>7. Deciding' = Deciding
    BY <2>1 DEF Deciding
  <2>8. OneFileDecides'
    BY <2>1, <2>3, <2>4, <2>5, <2>6, <2>7 DEF OneFileDecides
  <2>q. QED
    BY <2>1, <2>8 DEF ConfigInv
<1>4. CASE LoadNothing
  <2>1. /\ cpc = "lookup" /\ cpc' = "ready"
        /\ UNCHANGED <<disk, unread, keyfiles, model, fields>>
    BY <1>4 DEF LoadNothing
  <2>2. model => Deciding = {}
    BY <1>4, <2>1, AllRead DEF LoadNothing
  <2>3. \A f \in Fields : fields[f] = 0
    BY <2>1 DEF ConfigInv
  <2>4. Deciding' = Deciding
    BY <2>1 DEF Deciding
  <2>5. OneFileDecides'
    BY <2>1, <2>2, <2>3, <2>4 DEF OneFileDecides
  <2>q. QED
    BY <2>1, <2>5 DEF ConfigInv
<1>5. ASSUME UNCHANGED <<disk, unread, keyfiles, model, fields>>,
             cpc' = cpc \/ (cpc = "env" /\ cpc' = "ready")
      PROVE  ConfigInv'
  <2>1. Deciding' = Deciding
    BY <1>5 DEF Deciding
  <2>2. OneFileDecides'
    BY <1>5, <2>1 DEF ConfigInv, OneFileDecides
  <2>q. QED
    BY <1>5, <2>2 DEF ConfigInv
<1>6. CASE AddEnv \/ EnvsEnd
  BY <1>5, <1>6 DEF AddEnv, EnvsEnd
<1>7. CASE UNCHANGED vars
  BY <1>5, <1>7 DEF vars
<1>q. QED
  BY <1>1, <1>2, <1>3, <1>4, <1>6, <1>7 DEF Next

\* Config::loadRequest: the keys of one file change the request, the first of
\* the map that has the group, and no key of another does.
THEOREM OneFile == Spec => []OneFileDecides
<1>1. Spec => []ConfigInv
  BY ConfigInit, ConfigStep, PTL DEF Spec
<1>2. ConfigInv => OneFileDecides
  BY DEF ConfigInv
<1>q. QED
  BY <1>1, <1>2, PTL
=============================================================================
