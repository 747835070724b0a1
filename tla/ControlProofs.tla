---------------------------- MODULE ControlProofs ----------------------------
(***************************************************************************)
(* Proofs about how commands reach the account, for every number of        *)
(* updates, lines, restarts, agents and messages.                          *)
(*                                                                         *)
(* ControlIngress: the order needs that what a run has obeyed lies at or   *)
(* below last_update_id and what is pending above it; that no line is lost *)
(* needs that between the read and the truncation all that is in the file  *)
(* was executed or came later; that none is repeated without a missed      *)
(* truncation, that a line still in the file which is not being read was   *)
(* executed once less often.                                               *)
(*                                                                         *)
(* AgentLiveness: what the control agent will have done once its inbox is  *)
(* handled is what the watchdog decided last; and an agent whose beats     *)
(* come from a timer task is never overdue while the watchdog listens.     *)
(***************************************************************************)
EXTENDS ControlIngress, AgentLiveness, FiniteSetTheorems, SequenceTheorems, TLAPS

Obeyed == [id : Nat, run : Nat]

IngressTypes ==
  /\ posted \in Seq(Users) /\ confirmed \in Nat /\ lastUpdate \in Nat /\ run \in Nat
  /\ pending \subseteq Nat
  /\ obeyed \in Seq(Obeyed)

ObeyedUpToLast ==
  \A i \in 1..Len(obeyed) :
    obeyed[i].run <= run /\ (obeyed[i].run = run => obeyed[i].id <= lastUpdate)

PendingAboveLast == \A id \in pending : id > lastUpdate

OrderInv ==
  IngressTypes /\ ObeyedUpToLast /\ PendingAboveLast /\ ObeyedInOrderPerRun

LEMMA AskedFacts ==
  ASSUME IngressTypes
  PROVE  Asked \in Nat /\ Asked >= lastUpdate /\ \A id \in Answer : id \in Nat /\ id > lastUpdate
BY IngressAssumption DEF IngressTypes, Asked, Answer, Larger

LEMMA HandleUpdateKeepsOrder ==
  ASSUME OrderInv, HandleUpdate
  PROVE  OrderInv'
<1>1. PICK id \in pending :
        /\ \A other \in pending : id <= other
        /\ pending' = pending \ {id}
        /\ lastUpdate' = Advance(id)
        /\ obeyed' = IF MayCommand(posted[id]) THEN Append(obeyed, [id |-> id, run |-> run])
                     ELSE obeyed
        /\ UNCHANGED <<posted, confirmed, fileVars, run>>
  BY DEF HandleUpdate
<1>2. id \in Nat /\ id > lastUpdate /\ lastUpdate' = id
  BY <1>1 DEF OrderInv, IngressTypes, PendingAboveLast, Advance, Larger
<1>3. obeyed' = obeyed \/ obeyed' = Append(obeyed, [id |-> id, run |-> run])
  BY <1>1
<1>t. IngressTypes'
  <2>1. [id |-> id, run |-> run] \in Obeyed
    BY <1>2 DEF OrderInv, IngressTypes, Obeyed
  <2>2. obeyed' \in Seq(Obeyed)
    BY <1>3, <2>1 DEF OrderInv, IngressTypes
  <2>3. posted' \in Seq(Users) /\ confirmed' \in Nat /\ run' \in Nat /\ pending' \subseteq Nat
    BY <1>1 DEF OrderInv, IngressTypes
  <2>4. QED BY <1>2, <2>2, <2>3 DEF IngressTypes
<1>4. PendingAboveLast'
  <2>1. \A other \in pending : other \in Nat /\ id <= other
    BY <1>1 DEF OrderInv, IngressTypes
  <2>2. \A other \in pending \ {id} : other > id
    BY <1>2, <2>1
  <2>3. QED BY <1>1, <1>2, <2>2 DEF PendingAboveLast
<1>r. run' = run
  BY <1>1
<1>o. \A i \in 1..Len(obeyed) : obeyed[i] \in Obeyed
  BY DEF OrderInv, IngressTypes
<1>5. CASE obeyed' = obeyed
  <2>1. ObeyedUpToLast'
    BY <1>2, <1>r, <1>o, <1>5 DEF OrderInv, IngressTypes, ObeyedUpToLast, Obeyed
  <2>2. ObeyedInOrderPerRun'
    BY <1>5 DEF OrderInv, ObeyedInOrderPerRun
  <2>3. QED BY <1>t, <1>4, <2>1, <2>2 DEF OrderInv
<1>6. CASE obeyed' = Append(obeyed, [id |-> id, run |-> run])
  <2>1. /\ Len(obeyed') = Len(obeyed) + 1 /\ Len(obeyed) \in Nat
        /\ obeyed'[Len(obeyed) + 1] = [id |-> id, run |-> run]
        /\ \A i \in 1..Len(obeyed) : obeyed'[i] = obeyed[i] /\ obeyed[i] \in Obeyed
    BY <1>6 DEF OrderInv, IngressTypes
  <2>2. \A i \in 1..Len(obeyed) : obeyed[i].run <= run /\ (obeyed[i].run = run => obeyed[i].id < id)
    BY <1>2, <1>o DEF OrderInv, IngressTypes, ObeyedUpToLast, Obeyed
  <2>3. ObeyedUpToLast'
    <3> SUFFICES ASSUME NEW i \in 1..(Len(obeyed) + 1)
                 PROVE  obeyed'[i].run <= run /\ (obeyed'[i].run = run => obeyed'[i].id <= id)
      BY <1>2, <1>r, <2>1 DEF ObeyedUpToLast
    <3>1. CASE i = Len(obeyed) + 1
      BY <1>2, <2>1, <3>1 DEF OrderInv, IngressTypes
    <3>2. CASE i \in 1..Len(obeyed)
      BY <1>2, <1>o, <2>1, <2>2, <3>2 DEF Obeyed
    <3>3. QED BY <2>1, <3>1, <3>2
  <2>4. ObeyedInOrderPerRun'
    <3> SUFFICES ASSUME NEW i \in 1..(Len(obeyed) + 1), NEW j \in 1..(Len(obeyed) + 1),
                        i < j, obeyed'[i].run = obeyed'[j].run
                 PROVE  obeyed'[i].id < obeyed'[j].id
      BY <2>1 DEF ObeyedInOrderPerRun
    <3>1. i \in 1..Len(obeyed) /\ obeyed'[i] = obeyed[i]
      BY <2>1
    <3>2. CASE j = Len(obeyed) + 1
      BY <2>1, <2>2, <3>1, <3>2
    <3>3. CASE j \in 1..Len(obeyed)
      BY <2>1, <3>1, <3>3 DEF OrderInv, ObeyedInOrderPerRun
    <3>4. QED BY <2>1, <3>2, <3>3
  <2>5. QED BY <1>t, <1>4, <2>3, <2>4 DEF OrderInv
<1>7. QED BY <1>3, <1>5, <1>6

LEMMA StepKeepsOrder ==
  ASSUME OrderInv, [IngressNext]_ingressVars
  PROVE  OrderInv'
<1> USE IngressAssumption
<1>1. CASE Post
  BY <1>1 DEF Post, OrderInv, IngressTypes, ObeyedUpToLast, PendingAboveLast, ObeyedInOrderPerRun
<1>2. CASE Poll
  BY <1>2, AskedFacts
     DEF Poll, OrderInv, IngressTypes, ObeyedUpToLast, PendingAboveLast, ObeyedInOrderPerRun
<1>3. CASE PollFailed
  BY <1>3, AskedFacts
     DEF PollFailed, OrderInv, IngressTypes, ObeyedUpToLast, PendingAboveLast,
         ObeyedInOrderPerRun
<1>4. CASE HandleUpdate
  BY <1>4, HandleUpdateKeepsOrder
<1>5. CASE AppendLine \/ ReadFile \/ Truncate \/ TruncateFails \/ UNCHANGED ingressVars
  BY <1>5 DEF AppendLine, ReadFile, Truncate, TruncateFails, ingressVars, telegramVars, OrderInv,
              IngressTypes, ObeyedUpToLast, PendingAboveLast, ObeyedInOrderPerRun
<1>6. CASE Crash
  <2>1. IngressTypes' /\ PendingAboveLast' /\ ObeyedInOrderPerRun'
    BY <1>6 DEF Crash, OrderInv, IngressTypes, PendingAboveLast, ObeyedInOrderPerRun
  <2>2. \A i \in 1..Len(obeyed) : obeyed[i].run <= run /\ obeyed[i] \in Obeyed
    BY DEF OrderInv, IngressTypes, ObeyedUpToLast
  <2>3. run \in Nat /\ run' = run + 1 /\ obeyed' = obeyed
    BY <1>6 DEF Crash, OrderInv, IngressTypes
  <2>4. \A i \in 1..Len(obeyed) : obeyed[i].run \in Nat /\ obeyed[i].run < run + 1
    BY <2>2, <2>3 DEF Obeyed
  <2>5. ObeyedUpToLast'
    BY <2>3, <2>4 DEF ObeyedUpToLast
  <2>6. QED BY <2>1, <2>5 DEF OrderInv
<1>7. QED BY <1>1, <1>2, <1>3, <1>4, <1>5, <1>6 DEF IngressNext

\* Telegram commands are obeyed in the order they were sent within each run
\* of the process, for every number of polls, lost answers and restarts.
THEOREM ObeyedInOrderTheorem == IngressSpec => []ObeyedInOrderPerRun
<1>1. IngressInit => OrderInv
  BY DEF IngressInit, OrderInv, IngressTypes, ObeyedUpToLast, PendingAboveLast, ObeyedInOrderPerRun
<1>2. OrderInv /\ [IngressNext]_ingressVars => OrderInv'
  BY StepKeepsOrder
<1>3. OrderInv => ObeyedInOrderPerRun
  BY DEF OrderInv
<1>4. QED BY <1>1, <1>2, <1>3, PTL DEF IngressSpec

-----------------------------------------------------------------------------
(* The control file *)

FileTypes ==
  /\ written \in Nat /\ file \in Seq(Nat) /\ executed \in Seq(Nat) /\ gap \subseteq Nat
  /\ reading \in BOOLEAN

ReadIsExecuted == reading => Range(file) \subseteq Range(executed) \union gap

FileInv == FileTypes /\ ReadIsExecuted /\ NoLineIsLost

LEMMA EmptyRange == <<>> \in Seq(Nat) /\ Range(<<>>) = {} /\ 1..0 = {}
BY DEF Range

LEMMA RangeOfAppend ==
  ASSUME NEW S, NEW s \in Seq(S), NEW x
  PROVE  Range(Append(s, x)) = Range(s) \union {x}
<1>1. /\ Len(Append(s, x)) = Len(s) + 1 /\ Len(s) \in Nat
      /\ DOMAIN s = 1..Len(s) /\ DOMAIN Append(s, x) = 1..(Len(s) + 1)
      /\ Append(s, x)[Len(s) + 1] = x
      /\ \A i \in 1..Len(s) : Append(s, x)[i] = s[i]
  OBVIOUS
<1>2. QED BY <1>1 DEF Range

LEMMA RangeOfConcat ==
  ASSUME NEW S, NEW s \in Seq(S), NEW t \in Seq(S)
  PROVE  Range(s \o t) = Range(s) \union Range(t)
<1>1. /\ Len(s) \in Nat /\ Len(t) \in Nat /\ DOMAIN s = 1..Len(s) /\ DOMAIN t = 1..Len(t)
      /\ DOMAIN (s \o t) = 1..(Len(s) + Len(t))
      /\ \A i \in 1..Len(s) : (s \o t)[i] = s[i]
      /\ \A i \in 1..Len(t) : (s \o t)[Len(s) + i] = t[i]
  OBVIOUS
<1>2. Range(s) \union Range(t) \subseteq Range(s \o t)
  <2>1. \A i \in 1..Len(s) : i \in DOMAIN (s \o t) /\ (s \o t)[i] = s[i]
    BY <1>1
  <2>2. \A i \in 1..Len(t) : Len(s) + i \in DOMAIN (s \o t) /\ (s \o t)[Len(s) + i] = t[i]
    BY <1>1
  <2>3. Range(s) \subseteq Range(s \o t)
    BY <1>1, <2>1 DEF Range
  <2>4. Range(t) \subseteq Range(s \o t)
    BY <1>1, <2>2 DEF Range
  <2>5. QED BY <2>3, <2>4
<1>3. \A k \in DOMAIN (s \o t) : (s \o t)[k] \in Range(s) \union Range(t)
  <2> SUFFICES ASSUME NEW k \in 1..(Len(s) + Len(t))
               PROVE  (s \o t)[k] \in Range(s) \union Range(t)
    BY <1>1
  <2>1. CASE k <= Len(s)
    BY <1>1, <2>1 DEF Range
  <2>2. CASE k > Len(s)
    <3>1. k - Len(s) \in 1..Len(t) /\ Len(s) + (k - Len(s)) = k
      BY <1>1, <2>2
    <3>2. (s \o t)[k] = t[k - Len(s)]
      BY <1>1, <3>1
    <3>3. QED BY <1>1, <3>1, <3>2 DEF Range
  <2>3. QED BY <1>1, <2>1, <2>2
<1>4. QED BY <1>2, <1>3 DEF Range

LEMMA StepKeepsFile ==
  ASSUME FileInv, [IngressNext]_ingressVars
  PROVE  FileInv'
<1>1. CASE Post \/ Poll \/ PollFailed \/ HandleUpdate \/ UNCHANGED ingressVars
  <2>1. UNCHANGED fileVars
    BY <1>1 DEF Post, Poll, PollFailed, HandleUpdate, ingressVars
  <2>2. QED BY <2>1 DEF fileVars, FileInv, FileTypes, ReadIsExecuted, NoLineIsLost
<1>2. CASE AppendLine
  <2>1. Range(file') = Range(file) \union {written + 1}
    BY <1>2, RangeOfAppend DEF AppendLine, FileInv, FileTypes
  <2>2. FileTypes'
    BY <1>2 DEF AppendLine, FileInv, FileTypes
  <2>3. QED
    BY <1>2, <2>1, <2>2 DEF AppendLine, FileInv, FileTypes, ReadIsExecuted, NoLineIsLost
<1>3. CASE ReadFile
  <2>1. Range(executed') = Range(executed) \union Range(file)
    BY <1>3, RangeOfConcat DEF ReadFile, FileInv, FileTypes
  <2>2. FileTypes'
    BY <1>3 DEF ReadFile, FileInv, FileTypes
  <2>3. QED
    BY <1>3, <2>1, <2>2 DEF ReadFile, FileInv, FileTypes, ReadIsExecuted, NoLineIsLost
<1>4. CASE Truncate
  <2>1. FileTypes' /\ ReadIsExecuted'
    BY <1>4, EmptyRange DEF Truncate, FileInv, FileTypes, ReadIsExecuted
  <2>2. NoLineIsLost'
    BY <1>4 DEF Truncate, FileInv, FileTypes, ReadIsExecuted, NoLineIsLost
  <2>3. QED BY <2>1, <2>2 DEF FileInv
<1>5. CASE TruncateFails \/ Crash
  BY <1>5 DEF TruncateFails, Crash, FileInv, FileTypes, ReadIsExecuted, NoLineIsLost
<1>6. QED BY <1>1, <1>2, <1>3, <1>4, <1>5 DEF IngressNext

\* A line written to the control file is still there, was handled, or was
\* appended between a read and its truncation, through failed truncations and
\* restarts: the first part of FileCommandsAccountedFor.
THEOREM NoLineIsLostTheorem == IngressSpec => []NoLineIsLost
<1>1. IngressInit => FileInv
  <2> SUFFICES ASSUME IngressInit PROVE FileInv
    OBVIOUS
  <2>1. written = 0 /\ file = <<>> /\ executed = <<>> /\ gap = {} /\ reading = FALSE
    BY DEF IngressInit
  <2>2. FileTypes /\ ReadIsExecuted
    BY <2>1, EmptyRange DEF FileTypes, ReadIsExecuted
  <2>3. NoLineIsLost
    BY <2>1, EmptyRange DEF NoLineIsLost
  <2>4. QED BY <2>2, <2>3 DEF FileInv
<1>2. FileInv /\ [IngressNext]_ingressVars => FileInv'
  BY StepKeepsFile
<1>3. FileInv => NoLineIsLost
  BY DEF FileInv
<1>4. QED BY <1>1, <1>2, <1>3, PTL DEF IngressSpec

Distinct(s) == \A i, j \in 1..Len(s) : s[i] = s[j] => i = j

\* f: the file, e: what was executed, r: reading, m: missed truncations
AccountedFor(f, e, r, m) ==
  \A line \in Nat :
    Times(line, e) <= 1 + m /\ (~r /\ line \in Range(f) => Times(line, e) <= m)

RepeatInv ==
  /\ FileTypes /\ missed \in Nat
  /\ Distinct(file) /\ Range(file) \union Range(executed) \subseteq 1..written
  /\ AccountedFor(file, executed, reading, missed)

LEMMA TimesFinite ==
  ASSUME NEW s \in Seq(Nat), NEW line
  PROVE  IsFiniteSet({i \in 1..Len(s) : s[i] = line}) /\ Times(line, s) \in Nat
<1>1. IsFiniteSet(1..Len(s))
  BY FS_Interval
<1>2. IsFiniteSet({i \in 1..Len(s) : s[i] = line})
  BY <1>1, FS_Subset
<1>3. QED BY <1>2, FS_CardinalityType DEF Times

LEMMA TimesOfNone ==
  ASSUME NEW s \in Seq(Nat), NEW line, line \notin Range(s)
  PROVE  Times(line, s) = 0
<1>1. {i \in 1..Len(s) : s[i] = line} = {}
  BY DEF Range
<1>2. QED BY <1>1, FS_EmptySet DEF Times

\* Lines that differ add each at most once.
LEMMA TimesOfConcat ==
  ASSUME NEW s \in Seq(Nat), NEW t \in Seq(Nat), NEW line, Distinct(t)
  PROVE  /\ Times(line, s \o t) <= Times(line, s) + 1
         /\ line \notin Range(t) => Times(line, s \o t) = Times(line, s)
<1> DEFINE Old == {i \in 1..Len(s) : s[i] = line}
           New == {i \in 1..Len(s \o t) : (s \o t)[i] = line}
<1>1. /\ Len(s) \in Nat /\ Len(t) \in Nat /\ Len(s \o t) = Len(s) + Len(t)
      /\ \A i \in 1..Len(s) : (s \o t)[i] = s[i]
      /\ \A i \in 1..Len(t) : (s \o t)[Len(s) + i] = t[i]
  OBVIOUS
<1>2. IsFiniteSet(Old) /\ Times(line, s) = Cardinality(Old) /\ Cardinality(Old) \in Nat
  BY TimesFinite DEF Times
<1>3. Times(line, s \o t) = Cardinality(New)
  BY DEF Times
<1>4. \A i \in New : i <= Len(s) => i \in Old
  BY <1>1
<1>5. Old \subseteq New
  BY <1>1
<1>6. \A i \in New : i > Len(s) => i - Len(s) \in 1..Len(t) /\ t[i - Len(s)] = line
  <2> SUFFICES ASSUME NEW i \in New, i > Len(s)
               PROVE  i - Len(s) \in 1..Len(t) /\ t[i - Len(s)] = line
    OBVIOUS
  <2>1. i \in 1..(Len(s) + Len(t)) /\ (s \o t)[i] = line
    BY <1>1
  <2>2. i - Len(s) \in 1..Len(t) /\ Len(s) + (i - Len(s)) = i
    BY <1>1, <2>1
  <2>3. QED BY <1>1, <2>1, <2>2
<1>7. \A i, j \in New : i > Len(s) /\ j > Len(s) => i = j
  <2> SUFFICES ASSUME NEW i \in New, NEW j \in New, i > Len(s), j > Len(s)
               PROVE  i = j
    OBVIOUS
  <2>1. i - Len(s) = j - Len(s)
    BY <1>6 DEF Distinct
  <2>2. i \in Int /\ j \in Int
    BY <1>1
  <2>3. QED BY <1>1, <2>1, <2>2
<1>8. New \subseteq Int
  BY <1>1
<1> HIDE DEF Old, New
<1>9. CASE \E i \in New : i > Len(s)
  <2>1. PICK i \in New : i > Len(s)
    BY <1>9
  <2>2. New = Old \union {i}
    <3>1. ASSUME NEW j \in New PROVE j \in Old \union {i}
      <4>1. j \in Int /\ Len(s) \in Int
        BY <1>1, <1>8
      <4>2. j <= Len(s) \/ j > Len(s)
        BY <4>1
      <4>3. QED BY <1>4, <1>7, <2>1, <4>2
    <3>2. QED BY <1>5, <2>1, <3>1
  <2>3. Cardinality(New) <= Cardinality(Old) + 1
    <3>1. Cardinality(New) = IF i \in Old THEN Cardinality(Old) ELSE Cardinality(Old) + 1
      BY <1>2, <2>2, FS_AddElement
    <3>2. QED BY <1>2, <3>1
  <2>4. line \in Range(t)
    BY <1>1, <1>6, <2>1 DEF Range
  <2>5. QED BY <1>2, <1>3, <2>3, <2>4
<1>10. CASE ~\E i \in New : i > Len(s)
  <2>1. New = Old
    <3>1. ASSUME NEW j \in New PROVE j \in Old
      <4>1. j \in Int /\ Len(s) \in Int /\ ~(j > Len(s))
        BY <1>1, <1>8, <1>10
      <4>2. j <= Len(s)
        BY <4>1
      <4>3. QED BY <1>4, <4>2
    <3>2. QED BY <1>5, <3>1
  <2>2. QED BY <1>2, <1>3, <2>1
<1>11. QED BY <1>9, <1>10

LEMMA AppendAccounted ==
  ASSUME NEW f \in Seq(Nat), NEW e \in Seq(Nat), NEW r \in BOOLEAN, NEW m \in Nat, NEW n \in Nat,
         AccountedFor(f, e, r, m), n \notin Range(e)
  PROVE  AccountedFor(Append(f, n), e, r, m)
<1>1. Times(n, e) = 0
  BY TimesOfNone
<1>2. Range(Append(f, n)) = Range(f) \union {n}
  BY RangeOfAppend
<1>3. QED BY <1>1, <1>2 DEF AccountedFor

LEMMA ReadAccounted ==
  ASSUME NEW f \in Seq(Nat), NEW e \in Seq(Nat), NEW m \in Nat,
         AccountedFor(f, e, FALSE, m), Distinct(f)
  PROVE  AccountedFor(f, e \o f, TRUE, m)
<1> SUFFICES ASSUME NEW line \in Nat
             PROVE  Times(line, e \o f) <= 1 + m
  BY DEF AccountedFor
<1>1. PICK before \in Nat : before = Times(line, e)
  BY TimesFinite
<1>2. e \o f \in Seq(Nat)
  OBVIOUS
<1>3. PICK after \in Nat : after = Times(line, e \o f)
  BY <1>2, TimesFinite
<1>4. before <= 1 + m /\ (line \in Range(f) => before <= m)
  BY <1>1 DEF AccountedFor
<1>5. after <= before + 1 /\ (line \notin Range(f) => after = before)
  BY <1>1, <1>3, TimesOfConcat
<1>6. QED BY <1>3, <1>4, <1>5

LEMMA MissedAccounted ==
  ASSUME NEW f, NEW e \in Seq(Nat), NEW m \in Nat, AccountedFor(f, e, TRUE, m)
  PROVE  AccountedFor(f, e, FALSE, m + 1)
<1> SUFFICES ASSUME NEW line \in Nat
             PROVE  Times(line, e) <= 1 + (m + 1) /\ Times(line, e) <= m + 1
  BY DEF AccountedFor
<1>1. PICK n \in Nat : n = Times(line, e)
  BY TimesFinite
<1>2. n <= 1 + m
  BY <1>1 DEF AccountedFor
<1>3. QED BY <1>1, <1>2

LEMMA AppendDistinct ==
  ASSUME NEW f \in Seq(Nat), NEW n \in Nat, Distinct(f), n \notin Range(f)
  PROVE  Distinct(Append(f, n))
<1>1. /\ Len(Append(f, n)) = Len(f) + 1 /\ Len(f) \in Nat
      /\ Append(f, n)[Len(f) + 1] = n
      /\ \A i \in 1..Len(f) : Append(f, n)[i] = f[i] /\ f[i] # n
  BY DEF Range
<1>2. QED BY <1>1 DEF Distinct

LEMMA StepKeepsRepeat ==
  ASSUME RepeatInv, [IngressNext]_ingressVars
  PROVE  RepeatInv'
<1>1. CASE Post \/ Poll \/ PollFailed \/ HandleUpdate \/ UNCHANGED ingressVars
  <2>1. UNCHANGED fileVars
    BY <1>1 DEF Post, Poll, PollFailed, HandleUpdate, ingressVars
  <2>2. QED BY <2>1 DEF fileVars, RepeatInv, FileTypes, Distinct, AccountedFor, Times
<1>2. CASE AppendLine
  <2>1. PICK n \in Nat : n = written + 1
    BY DEF RepeatInv, FileTypes
  <2>2. /\ file' = Append(file, n) /\ written' = n
        /\ UNCHANGED <<executed, reading, missed>> /\ gap' \subseteq gap \union {n}
    BY <1>2, <2>1 DEF AppendLine
  <2>3. n \notin Range(file) /\ n \notin Range(executed) /\ 1..written \subseteq 1..n /\ n \in 1..n
    BY <2>1 DEF RepeatInv, FileTypes
  <2>4. Distinct(file')
    BY <2>2, <2>3, AppendDistinct DEF RepeatInv, FileTypes
  <2>5. AccountedFor(file', executed', reading', missed')
    BY <2>2, <2>3, AppendAccounted DEF RepeatInv, FileTypes
  <2>6. Range(file') = Range(file) \union {n}
    BY <2>2, RangeOfAppend DEF RepeatInv, FileTypes
  <2>7. FileTypes'
    BY <2>2 DEF RepeatInv, FileTypes
  <2>8. QED BY <2>2, <2>3, <2>4, <2>5, <2>6, <2>7 DEF RepeatInv
<1>3. CASE ReadFile
  <2>1. /\ ~reading /\ executed' = executed \o file /\ reading' = TRUE
        /\ UNCHANGED <<file, written, gap, missed>>
    BY <1>3 DEF ReadFile
  <2>2. AccountedFor(file', executed', reading', missed')
    BY <2>1, ReadAccounted DEF RepeatInv, FileTypes
  <2>3. Range(executed') = Range(executed) \union Range(file)
    BY <2>1, RangeOfConcat DEF RepeatInv, FileTypes
  <2>4. FileTypes'
    BY <2>1 DEF RepeatInv, FileTypes
  <2>5. QED BY <2>1, <2>2, <2>3, <2>4 DEF RepeatInv
<1>4. CASE Truncate
  <2>1. /\ reading /\ reading' = FALSE /\ file' = <<>>
        /\ UNCHANGED <<executed, written, gap, missed>>
    BY <1>4 DEF Truncate
  <2>2. AccountedFor(file', executed', reading', missed')
    BY <2>1, EmptyRange DEF RepeatInv, AccountedFor
  <2>3. Distinct(file')
    BY <2>1, EmptyRange DEF Distinct
  <2>4. FileTypes'
    BY <2>1, EmptyRange DEF RepeatInv, FileTypes
  <2>5. QED BY <2>1, <2>2, <2>3, <2>4, EmptyRange DEF RepeatInv
<1>5. CASE /\ reading /\ reading' = FALSE /\ missed' = missed + 1
           /\ UNCHANGED <<file, executed, written, gap>>
  <2>1. PICK m \in Nat : m = missed + 1 /\ missed' = m
    BY <1>5 DEF RepeatInv
  <2>2. AccountedFor(file, executed, FALSE, m)
    BY <1>5, <2>1, MissedAccounted DEF RepeatInv, FileTypes
  <2>3. AccountedFor(file', executed', reading', missed')
    BY <1>5, <2>1, <2>2
  <2>4. FileTypes' /\ missed' \in Nat
    BY <1>5, <2>1 DEF RepeatInv, FileTypes
  <2>5. QED BY <1>5, <2>3, <2>4 DEF RepeatInv
<1>6. CASE Crash /\ ~reading
  <2>1. UNCHANGED <<file, reading, written, executed, gap, missed>>
    BY <1>6 DEF Crash, RepeatInv, FileTypes
  <2>2. QED BY <2>1 DEF RepeatInv, FileTypes, Distinct, AccountedFor, Times
<1>7. TruncateFails \/ (Crash /\ reading)
      => /\ reading /\ reading' = FALSE /\ missed' = missed + 1
         /\ UNCHANGED <<file, executed, written, gap>>
  BY DEF TruncateFails, Crash
<1>8. QED BY <1>1, <1>2, <1>3, <1>4, <1>5, <1>6, <1>7 DEF IngressNext

\* A line is executed once, and once more for each truncation that failed or
\* that a crash forestalled; none is lost but in the gap.
THEOREM FileCommandsTheorem == IngressSpec => []FileCommandsAccountedFor
<1>1. IngressInit => RepeatInv
  <2> SUFFICES ASSUME IngressInit PROVE RepeatInv
    OBVIOUS
  <2>1. /\ written = 0 /\ file = <<>> /\ executed = <<>> /\ gap = {} /\ reading = FALSE
        /\ missed = 0
    BY DEF IngressInit
  <2>2. \A line : Times(line, executed) = 0
    BY <2>1, EmptyRange, TimesOfNone
  <2>3. AccountedFor(file, executed, reading, missed)
    BY <2>1, <2>2, EmptyRange DEF AccountedFor
  <2>4. FileTypes /\ Distinct(file) /\ Range(file) \union Range(executed) \subseteq 1..written
    BY <2>1, EmptyRange DEF FileTypes, Distinct
  <2>5. QED BY <2>1, <2>3, <2>4 DEF RepeatInv
<1>2. RepeatInv /\ [IngressNext]_ingressVars => RepeatInv'
  BY StepKeepsRepeat
<1>3. RepeatInv => RepeatedOnlyByMisses
  BY DEF RepeatInv, FileTypes, AccountedFor, RepeatedOnlyByMisses
<1>4. QED BY <1>1, <1>2, <1>3, NoLineIsLostTheorem, PTL DEF IngressSpec, FileCommandsAccountedFor

-----------------------------------------------------------------------------
(* The watchdog and the control agent over the bus: types *)

\* Capacity and the names of the two loops and of the messages.
LEMMA LivenessConstants ==
  /\ Capacity \in Nat /\ Capacity >= 1 /\ Timeout \in Nat /\ Timeout >= 1 /\ MaxBurst \in Nat
  /\ "watchdog" \in Loops /\ "control" \in Loops
  /\ Watched \subseteq Messages
  /\ {"freeze", "unfreeze", "op_freeze", "op_unfreeze", "other"} \subseteq Messages
BY BusAssumption, LivenessAssumption DEF BusAssumption, LivenessAssumption

\* What one more message does to the inbox of a loop: unless the loop is over
\* or has lagged by now, the message is appended and nothing is lost.
LEMMA PushEffect ==
  ASSUME BusTypeOK, NEW l \in Loops, NEW m \in Messages
  PROVE  /\ Pushed(l, m) \in Seq(Messages) /\ Len(Pushed(l, m)) <= Capacity
         /\ running[l] /\ ~Full(l) => Pushed(l, m) = Append(unread[l], m)
<1> USE LivenessConstants
<1> DEFINE s == unread[l]
<1>1. s \in Seq(Messages) /\ Len(s) \in Nat /\ Len(s) <= Capacity
  BY DEF BusTypeOK
<1> HIDE DEF s
<1>2. CASE ~running[l]
  BY <1>1, <1>2 DEF Pushed, s
<1>3. CASE running[l] /\ ~Full(l)
  <2>1. Pushed(l, m) = Append(s, m) /\ Len(s) < Capacity
    BY <1>1, <1>3 DEF Pushed, Full, s
  <2>2. Append(s, m) \in Seq(Messages) /\ Len(Append(s, m)) = Len(s) + 1
    BY <1>1
  <2>3. QED BY <1>1, <2>1, <2>2 DEF s
<1>4. CASE running[l] /\ Full(l)
  <2>1. Pushed(l, m) = Append(Tail(s), m) /\ s # <<>>
    BY <1>1, <1>4 DEF Pushed, Full, s
  <2>2. Tail(s) \in Seq(Messages) /\ Len(Tail(s)) = Len(s) - 1
    BY <1>1, <2>1, HeadTailProperties
  <2>3. /\ Append(Tail(s), m) \in Seq(Messages)
        /\ Len(Append(Tail(s), m)) = Len(Tail(s)) + 1
    BY <2>2
  <2>4. QED BY <1>1, <1>4, <2>1, <2>2, <2>3
<1>5. QED BY <1>2, <1>3, <1>4

LEMMA PublishEffect ==
  ASSUME BusTypeOK, NEW sees, \A l \in Loops : sees[l] \in Messages, Publish(sees)
  PROVE  /\ BusTypeOK' /\ running' = running
         /\ \A l \in Loops : running[l] /\ ~lagged'[l] =>
              ~lagged[l] /\ unread'[l] = Append(unread[l], sees[l])
<1>1. \A l \in Loops : unread'[l] = Pushed(l, sees[l])
  BY DEF Publish
<1>2. \A l \in Loops : unread'[l] \in Seq(Messages) /\ Len(unread'[l]) <= Capacity
  BY <1>1, PushEffect
<1>3. unread' \in [Loops -> Seq(Messages)]
  BY <1>1, <1>2 DEF Publish
<1>4. lagged' \in [Loops -> BOOLEAN] /\ running' = running
  BY DEF BusTypeOK, Publish
<1>5. \A l \in Loops : running[l] /\ ~lagged'[l] => ~lagged[l] /\ ~Full(l)
  BY DEF Publish
<1>6. QED
  BY <1>1, <1>2, <1>3, <1>4, <1>5, PushEffect DEF BusTypeOK

LEMMA ReceiveEffect ==
  ASSUME BusTypeOK, NEW l \in Loops, NEW m, Receive(l, m)
  PROVE  /\ BusTypeOK' /\ running' = running /\ lagged' = lagged
         /\ unread[l] # <<>> /\ m = Head(unread[l])
         /\ unread'[l] = Tail(unread[l])
         /\ \A k \in Loops : k # l => unread'[k] = unread[k]
<1>1. /\ unread' = [unread EXCEPT ![l] = Tail(unread[l])]
      /\ unread[l] # <<>> /\ m = Head(unread[l]) /\ UNCHANGED <<lagged, running>>
  BY DEF Receive
<1>2. unread[l] \in Seq(Messages) /\ Len(unread[l]) <= Capacity
  BY DEF BusTypeOK
<1>3. Tail(unread[l]) \in Seq(Messages) /\ Len(Tail(unread[l])) = Len(unread[l]) - 1
  BY <1>1, <1>2, HeadTailProperties
<1>4. Len(Tail(unread[l])) <= Capacity
  BY <1>2, <1>3, LivenessConstants
<1>5. QED
  BY <1>1, <1>3, <1>4 DEF BusTypeOK

LEMMA EndEffect ==
  ASSUME BusTypeOK, NEW l \in Loops, EndOfLoop(l)
  PROVE  /\ BusTypeOK'
         /\ running' = [running EXCEPT ![l] = FALSE]
         /\ \A k \in Loops : k # l => unread'[k] = unread[k] /\ lagged'[k] = lagged[k]
<1>1. <<>> \in Seq(Messages) /\ Len(<<>>) = 0
  OBVIOUS
<1>2. QED BY <1>1, LivenessConstants DEF BusTypeOK, EndOfLoop

LEMMA SeenMessages ==
  /\ \A m \in Messages : \A l \in Loops :
       ForWatchdog(m)[l] \in Messages /\ ForControl(m)[l] \in Messages
  /\ \A m : ForWatchdog(m)["watchdog"] = m /\ ForControl(m)["control"] = m
  /\ \A m : ForWatchdog(m)["control"] = "other" /\ ForControl(m)["watchdog"] = "other"
BY LivenessConstants DEF ForWatchdog, ForControl

\* What the actions do besides the bus.
CheckTypes ==
  /\ working \in [Watched -> BOOLEAN] /\ beaten \in [Watched -> BOOLEAN]
  /\ age \in [Watched -> 0..(Timeout + 1)]
  /\ tripped \in BOOLEAN /\ frozen \in BOOLEAN /\ overridden \in BOOLEAN
  /\ burst \in 0..MaxBurst

LEMMA BusTypeStep == BusTypeOK /\ [Next]_vars => BusTypeOK'
<1> SUFFICES ASSUME BusTypeOK, [Next]_vars PROVE BusTypeOK'
  OBVIOUS
<1> USE LivenessConstants
<1>1. CASE UNCHANGED busVars
  BY <1>1 DEF busVars, BusTypeOK
<1>2. ASSUME NEW a \in Watched, Beat(a) PROVE BusTypeOK'
  <2>1. Publish(ForWatchdog(a)) /\ a \in Messages
    BY <1>2 DEF Beat
  <2>2. QED BY <2>1, PublishEffect, SeenMessages
<1>3. CASE Other
  <2>1. Publish(ForWatchdog("other"))
    BY <1>3 DEF Other
  <2>2. QED BY <2>1, PublishEffect, SeenMessages
<1>4. CASE Check
  <2>1. \E m \in Messages : Publish(ForControl(m))
    BY <1>4 DEF Check
  <2>2. QED BY <2>1, PublishEffect, SeenMessages
<1>5. CASE WatchdogLoop \/ ControlLoop
  BY <1>5, ReceiveEffect, EndEffect DEF WatchdogLoop, ControlLoop, Ends, Note, Control
<1>6. CASE Operator
  <2>1. \E m \in Messages : Publish(ForControl(m))
    BY <1>6 DEF Operator
  <2>2. QED BY <2>1, PublishEffect, SeenMessages
<1>7. QED
  BY <1>1, <1>2, <1>3, <1>4, <1>5, <1>6 DEF Next, Hang, Recover, Tick, ApplyState, vars

LEMMA CheckTypesStep == CheckTypes /\ [Next]_vars => CheckTypes'
<1> SUFFICES ASSUME CheckTypes, [Next]_vars PROVE CheckTypes'
  OBVIOUS
<1> USE LivenessConstants DEF CheckTypes
<1>1. ASSUME NEW a \in Watched, Hang(a) \/ Recover(a) \/ Beat(a) PROVE CheckTypes'
  BY <1>1 DEF Hang, Recover, Beat
<1>2. CASE Other
  BY <1>2 DEF Other
<1>3. CASE WatchdogLoop
  BY <1>3 DEF WatchdogLoop, Ends, Note, checkVars
<1>4. CASE ControlLoop
  <2>1. CASE Ends("control")
    BY <2>1 DEF Ends, checkVars
  <2>2. ASSUME NEW m \in Messages, Control(m) PROVE CheckTypes'
    <3>1. frozen' \in BOOLEAN /\ overridden' \in BOOLEAN
      BY <2>2 DEF Control
    <3>2. QED BY <2>2, <3>1 DEF Control
  <2>3. QED BY <1>4, <2>1, <2>2 DEF ControlLoop
<1>5. CASE Check
  <2>1. tripped' \in BOOLEAN
    BY <1>5 DEF Check
  <2>2. QED BY <1>5, <2>1 DEF Check
<1>6. CASE Tick
  <2>1. age' \in [Watched -> 0..(Timeout + 1)]
    BY <1>6 DEF Tick
  <2>2. QED BY <1>6, <2>1 DEF Tick
<1>7. CASE UNCHANGED vars
  BY <1>7 DEF vars, checkVars
<1>8. CASE Operator
  BY <1>8 DEF Operator
<1>9. CASE ApplyState
  BY <1>9 DEF ApplyState
<1>10. QED
  BY <1>1, <1>2, <1>3, <1>4, <1>5, <1>6, <1>7, <1>8, <1>9 DEF Next

LEMMA LivenessInit == Init => BusTypeOK /\ CheckTypes
<1> SUFFICES ASSUME Init PROVE BusTypeOK /\ CheckTypes
  OBVIOUS
<1>1. <<>> \in Seq(Messages) /\ Len(<<>>) = 0
  OBVIOUS
<1>2. BusTypeOK
  BY <1>1, LivenessConstants DEF Init, BusInit, BusTypeOK
<1>3. 0 \in 0..(Timeout + 1) /\ 0 \in 0..MaxBurst
  BY LivenessConstants
<1>4. /\ working \in [Watched -> BOOLEAN] /\ beaten \in [Watched -> BOOLEAN]
      /\ age \in [Watched -> 0..(Timeout + 1)]
  BY <1>3 DEF Init
<1>5. /\ tripped \in BOOLEAN /\ frozen \in BOOLEAN /\ overridden \in BOOLEAN
      /\ burst \in 0..MaxBurst
  BY <1>3 DEF Init
<1>6. QED BY <1>2, <1>4, <1>5 DEF CheckTypes

\* Inboxes hold messages and never more than the ring does, and no agent's
\* age is counted beyond the timeout.
THEOREM LivenessTypeTheorem == Spec => []TypeOK
<1>1. Init => BusTypeOK /\ CheckTypes
  BY LivenessInit
<1>2. TypeOK <=> BusTypeOK /\ CheckTypes
  BY DEF TypeOK, CheckTypes
<1>3. QED BY <1>1, <1>2, BusTypeStep, CheckTypesStep, PTL DEF Spec

-----------------------------------------------------------------------------
(* The control agent carries out what the watchdog decided *)

\* A command that is appended is the last one; anything else that is appended
\* leaves the last one where it is.
LEMMA AppendedCommand ==
  ASSUME NEW s \in Seq(Messages), NEW m \in Messages
  PROVE  /\ LastCommandIs(Append(s, m), m)
         /\ m \notin Commands =>
              /\ \A c : LastCommandIs(s, c) => LastCommandIs(Append(s, m), c)
              /\ NoCommandIn(s) => NoCommandIn(Append(s, m))
<1> DEFINE t == Append(s, m)
<1>1. /\ Len(s) \in Nat /\ Len(t) = Len(s) + 1 /\ t[Len(s) + 1] = m
      /\ \A i \in 1..Len(s) : t[i] = s[i]
  OBVIOUS
<1> HIDE DEF t
<1>2. LastCommandIs(t, m)
  <2>1. Len(s) + 1 \in 1..Len(t) /\ \A j \in 1..Len(t) : ~(j > Len(s) + 1)
    BY <1>1
  <2>2. QED BY <1>1, <2>1 DEF LastCommandIs
<1>3. ASSUME m \notin Commands, NEW c, LastCommandIs(s, c) PROVE LastCommandIs(t, c)
  <2>1. PICK i \in 1..Len(s) :
          s[i] = c /\ \A j \in 1..Len(s) : j > i => s[j] \notin Commands
    BY <1>3 DEF LastCommandIs
  <2>2. i \in 1..Len(t) /\ t[i] = c
    BY <1>1, <2>1
  <2>3. ASSUME NEW j \in 1..Len(t), j > i PROVE t[j] \notin Commands
    <3>1. CASE j \in 1..Len(s)
      BY <1>1, <2>1, <2>3, <3>1
    <3>2. CASE j = Len(s) + 1
      BY <1>1, <1>3, <3>2
    <3>3. QED BY <1>1, <3>1, <3>2
  <2>4. QED BY <2>2, <2>3 DEF LastCommandIs
<1>4. ASSUME m \notin Commands, NoCommandIn(s) PROVE NoCommandIn(t)
  <2> SUFFICES ASSUME NEW j \in 1..Len(t) PROVE t[j] \notin Commands
    BY DEF NoCommandIn
  <2>1. CASE j \in 1..Len(s)
    BY <1>1, <1>4, <2>1 DEF NoCommandIn
  <2>2. CASE j = Len(s) + 1
    BY <1>1, <1>4, <2>2
  <2>3. QED BY <1>1, <2>1, <2>2
<1>5. QED BY <1>2, <1>3, <1>4 DEF t

\* Taking a message leaves the last command, unless it is the one taken.
LEMMA TakenCommand ==
  ASSUME NEW s \in Seq(Messages), s # <<>>
  PROVE  /\ \A c : LastCommandIs(s, c) =>
              LastCommandIs(Tail(s), c) \/ (Head(s) = c /\ NoCommandIn(Tail(s)))
         /\ NoCommandIn(s) => Head(s) \notin Commands /\ NoCommandIn(Tail(s))
<1> DEFINE t == Tail(s)
<1>1. /\ Len(s) \in Nat /\ Len(s) >= 1 /\ Len(t) = Len(s) - 1 /\ Head(s) = s[1]
      /\ \A i \in 1..Len(t) : t[i] = s[i + 1]
  BY HeadTailProperties, EmptySeq
<1> HIDE DEF t
<1>2. ASSUME NEW c, LastCommandIs(s, c)
      PROVE  LastCommandIs(t, c) \/ (Head(s) = c /\ NoCommandIn(t))
  <2>1. PICK i \in 1..Len(s) :
          s[i] = c /\ \A j \in 1..Len(s) : j > i => s[j] \notin Commands
    BY <1>2 DEF LastCommandIs
  <2>2. ASSUME NEW j \in 1..Len(t), j + 1 > i PROVE t[j] \notin Commands
    <3>1. j + 1 \in 1..Len(s) /\ t[j] = s[j + 1]
      BY <1>1
    <3>2. QED BY <2>1, <2>2, <3>1
  <2>3. CASE i = 1
    <3>1. \A j \in 1..Len(t) : j + 1 > i
      BY <1>1, <2>3
    <3>2. NoCommandIn(t)
      BY <2>2, <3>1 DEF NoCommandIn
    <3>3. QED BY <1>1, <2>1, <2>3, <3>2
  <2>4. CASE i # 1
    <3>1. i - 1 \in 1..Len(t) /\ t[i - 1] = c
      <4>1. i - 1 \in 1..Len(t) /\ (i - 1) + 1 = i
        BY <1>1, <2>4
      <4>2. QED BY <1>1, <2>1, <4>1
    <3>2. \A j \in 1..Len(t) : j > i - 1 => j + 1 > i
      BY <1>1
    <3>3. \A j \in 1..Len(t) : j > i - 1 => t[j] \notin Commands
      BY <2>2, <3>2
    <3>4. QED BY <3>1, <3>3 DEF LastCommandIs
  <2>5. QED BY <2>3, <2>4
<1>3. ASSUME NoCommandIn(s) PROVE Head(s) \notin Commands /\ NoCommandIn(t)
  <2>1. 1 \in 1..Len(s) /\ \A j \in 1..Len(t) : j + 1 \in 1..Len(s)
    BY <1>1
  <2>2. QED BY <1>1, <1>3, <2>1 DEF NoCommandIn
<1>4. QED BY <1>2, <1>3 DEF t

\* A message that is no command of the watchdog's leaves what the inbox will
\* make of the account.
LEMMA OtherKeepsTrip ==
  ASSUME BusTypeOK, CommandsFollowTrip,
         NEW sees, \A l \in Loops : sees[l] \in Messages, sees["control"] \notin Commands,
         Publish(sees), UNCHANGED <<tripped, frozen, overridden>>
  PROVE  CommandsFollowTrip'
<1> USE LivenessConstants
<1> SUFFICES ASSUME running'["control"], ~lagged'["control"]
             PROVE  \/ LastCommandIs(unread'["control"], Ordered')
                    \/ /\ NoCommandIn(unread'["control"])
                       /\ frozen' = tripped' \/ overridden'
  BY DEF CommandsFollowTrip
<1>1. /\ running["control"] /\ ~lagged["control"]
      /\ unread'["control"] = Append(unread["control"], sees["control"])
  BY PublishEffect
<1>2. unread["control"] \in Seq(Messages) /\ sees["control"] \in Messages
  BY DEF BusTypeOK
<1>3. Ordered' = Ordered
  BY DEF Ordered
<1>4. QED
  BY <1>1, <1>2, <1>3, AppendedCommand DEF CommandsFollowTrip

LEMMA FollowStep ==
  BusTypeOK /\ CheckTypes /\ CommandsFollowTrip /\ [Next]_vars => CommandsFollowTrip'
<1> SUFFICES ASSUME BusTypeOK, CheckTypes, CommandsFollowTrip, [Next]_vars
             PROVE  CommandsFollowTrip'
  OBVIOUS
<1> USE LivenessConstants
<1>0. "other" \notin Commands /\ "op_freeze" \notin Commands /\ "op_unfreeze" \notin Commands
  BY DEF Commands
<1>1. ASSUME UNCHANGED <<unread, lagged, running, tripped, frozen, overridden>>
      PROVE  CommandsFollowTrip'
  BY <1>1 DEF CommandsFollowTrip, Ordered, LastCommandIs, NoCommandIn
<1>2. ASSUME NEW a \in Watched, Hang(a) \/ Recover(a) \/ Beat(a)
      PROVE  CommandsFollowTrip'
  <2>1. CASE Hang(a) \/ Recover(a)
    BY <1>1, <2>1 DEF Hang, Recover, busVars
  <2>2. CASE Beat(a)
    BY <1>0, <2>2, OtherKeepsTrip, SeenMessages DEF Beat
  <2>3. QED BY <1>2, <2>1, <2>2
<1>3. CASE Other
  BY <1>0, <1>3, OtherKeepsTrip, SeenMessages DEF Other
<1>4. CASE Tick \/ UNCHANGED vars
  BY <1>1, <1>4 DEF Tick, vars, checkVars, busVars
<1>5. CASE WatchdogLoop
  <2>1. /\ unread'["control"] = unread["control"]
        /\ lagged'["control"] = lagged["control"] /\ running'["control"] = running["control"]
        /\ UNCHANGED <<tripped, frozen, overridden>>
    BY <1>5, ReceiveEffect, EndEffect
       DEF WatchdogLoop, Ends, Note, checkVars, BusTypeOK
  <2>2. Ordered' = Ordered
    BY <2>1 DEF Ordered
  <2>3. QED BY <2>1, <2>2 DEF CommandsFollowTrip
<1>6. CASE ControlLoop
  <2>1. CASE Ends("control")
    <3>1. running'["control"] = FALSE
      BY <2>1, EndEffect DEF Ends, BusTypeOK
    <3>2. QED BY <3>1 DEF CommandsFollowTrip
  <2>2. ASSUME NEW m \in Messages, Control(m) PROVE CommandsFollowTrip'
    <3> DEFINE s == unread["control"]
    <3>1. /\ s \in Seq(Messages) /\ s # <<>> /\ m = Head(s) /\ unread'["control"] = Tail(s)
          /\ running["control"] /\ ~lagged["control"] /\ UNCHANGED tripped
      BY <2>2, ReceiveEffect DEF Control, Receive, BusTypeOK
    <3>2. Ordered' = Ordered
      BY <3>1 DEF Ordered
    <3>3. CASE LastCommandIs(s, Ordered)
      <4>1. CASE LastCommandIs(Tail(s), Ordered)
        BY <3>1, <3>2, <4>1 DEF CommandsFollowTrip
      <4>2. CASE m = Ordered /\ NoCommandIn(Tail(s))
        <5>1. tripped \in BOOLEAN
          BY DEF CheckTypes
        <5>2. frozen' = tripped'
          BY <2>2, <3>1, <4>2, <5>1 DEF Control, Ordered, FreezeCommands, UnfreezeCommands
        <5>3. QED BY <3>1, <4>2, <5>2 DEF CommandsFollowTrip
      <4>3. QED BY <3>1, <3>3, <4>1, <4>2, TakenCommand
    <3>4. CASE NoCommandIn(s) /\ (frozen = tripped \/ overridden)
      <4>1. m \notin Commands /\ NoCommandIn(Tail(s))
        BY <3>1, <3>4, TakenCommand
      <4>2. overridden' \/ (frozen' = frozen /\ ~overridden)
        <5>1. CASE m \in {"op_freeze", "op_unfreeze"}
          BY <2>2, <5>1 DEF Control
        <5>2. CASE m \notin {"op_freeze", "op_unfreeze"}
          <6>1. m \notin FreezeCommands /\ m \notin UnfreezeCommands
            BY <4>1, <5>2 DEF FreezeCommands, UnfreezeCommands, Commands
          <6>2. frozen \in BOOLEAN
            BY DEF CheckTypes
          <6>3. frozen' = frozen
            BY <2>2, <6>1, <6>2 DEF Control
          <6>4. overridden => overridden'
            BY <2>2, <4>1 DEF Control, Commands
          <6>5. QED BY <6>3, <6>4
        <5>3. QED BY <5>1, <5>2
      <4>3. QED BY <3>1, <3>4, <4>1, <4>2 DEF CommandsFollowTrip
    <3>5. QED BY <3>1, <3>3, <3>4 DEF CommandsFollowTrip
  <2>3. QED BY <1>6, <2>1, <2>2 DEF ControlLoop
<1>7. CASE Check
  <2> SUFFICES ASSUME running'["control"], ~lagged'["control"]
               PROVE  LastCommandIs(unread'["control"], Ordered')
    BY DEF CommandsFollowTrip
  <2>1. /\ Publish(ForControl(Ordered')) /\ Ordered' \in Messages
    BY <1>7 DEF Check, Ordered
  <2>2. unread'["control"] = Append(unread["control"], Ordered')
    BY <2>1, PublishEffect, SeenMessages
  <2>3. unread["control"] \in Seq(Messages)
    BY DEF BusTypeOK
  <2>4. QED BY <2>1, <2>2, <2>3, AppendedCommand
<1>8. CASE Operator
  <2>1. PICK m \in {"op_freeze", "op_unfreeze"} : Publish(ForControl(m))
    BY <1>8 DEF Operator
  <2>2. QED BY <1>0, <1>8, <2>1, OtherKeepsTrip, SeenMessages DEF Operator
<1>9. CASE ApplyState
  <2>1. UNCHANGED <<unread, lagged, running, tripped>> /\ overridden'
    BY <1>9 DEF ApplyState, busVars
  <2>2. Ordered' = Ordered
    BY <2>1 DEF Ordered
  <2>3. QED BY <2>1, <2>2 DEF CommandsFollowTrip
<1>10. QED
  BY <1>2, <1>3, <1>4, <1>5, <1>6, <1>7, <1>8, <1>9 DEF Next

\* Each change of the watchdog's mind is said once; as long as the control
\* agent has missed nothing, it is on its way to the account, among and behind
\* the operator's commands, or the account shows it, or survival or the
\* operator have written the flag since.
THEOREM CommandsTheorem == Spec => []CommandsFollowTrip
<1>1. Init => CommandsFollowTrip
  <2> SUFFICES ASSUME Init
               PROVE  NoCommandIn(unread["control"]) /\ frozen = tripped
    BY DEF CommandsFollowTrip
  <2>1. unread["control"] = <<>> /\ Len(<<>>) = 0 /\ 1..0 = {}
    BY LivenessConstants DEF Init, BusInit
  <2>2. QED BY <2>1 DEF Init, NoCommandIn
<1>2. QED
  BY <1>1, LivenessInit, BusTypeStep, CheckTypesStep, FollowStep, PTL DEF Spec

-----------------------------------------------------------------------------
(* Agents that beat from a timer *)

\* Data, learning and survival send their heartbeat from a timer task of
\* their own (data.rs:49-63), which goes on when the work hangs.  However long
\* it hangs, a watchdog that hears everything never finds such an agent stale.
HungTimerGoesUnnoticed ==
  running["watchdog"] /\ ~lagged["watchdog"] => Timers \cap Stale = {}

\* A heartbeat of this period has been noted in it or waits in the inbox, which
\* is read before the period ends; so at most one period passes between two.
TimerInv ==
  running["watchdog"] /\ ~lagged["watchdog"] =>
    \A a \in Timers :
      /\ age[a] <= 1
      /\ beaten[a] =>
           age[a] = 0 \/ \E i \in 1..Len(unread["watchdog"]) : unread["watchdog"][i] = a

Waits(a) == \E i \in 1..Len(unread["watchdog"]) : unread["watchdog"][i] = a

LEMMA WaitsAfterPublish ==
  ASSUME NEW s \in Seq(Messages), NEW m \in Messages, NEW a
  PROVE  /\ \E i \in 1..Len(Append(s, m)) : Append(s, m)[i] = m
         /\ (\E i \in 1..Len(s) : s[i] = a) =>
              \E i \in 1..Len(Append(s, m)) : Append(s, m)[i] = a
<1>1. /\ Len(s) \in Nat /\ Len(Append(s, m)) = Len(s) + 1
      /\ Append(s, m)[Len(s) + 1] = m /\ \A i \in 1..Len(s) : Append(s, m)[i] = s[i]
  OBVIOUS
<1>2. Len(s) + 1 \in 1..Len(Append(s, m)) /\ 1..Len(s) \subseteq 1..Len(Append(s, m))
  BY <1>1
<1>3. QED BY <1>1, <1>2

LEMMA WaitsAfterTake ==
  ASSUME NEW s \in Seq(Messages), s # <<>>, NEW a, Head(s) # a,
         \E i \in 1..Len(s) : s[i] = a
  PROVE  \E i \in 1..Len(Tail(s)) : Tail(s)[i] = a
<1>1. /\ Len(s) \in Nat /\ Len(Tail(s)) = Len(s) - 1 /\ Head(s) = s[1]
      /\ \A i \in 1..Len(Tail(s)) : Tail(s)[i] = s[i + 1]
  BY HeadTailProperties
<1>2. PICK i \in 1..Len(s) : s[i] = a
  OBVIOUS
<1>3. i - 1 \in 1..Len(Tail(s)) /\ (i - 1) + 1 = i
  BY <1>1, <1>2
<1>4. QED BY <1>1, <1>2, <1>3

LEMMA TimerStep == TypeOK /\ TimerInv /\ [Next]_vars => TimerInv'
<1> SUFFICES ASSUME TypeOK, TimerInv, [Next]_vars,
                    running'["watchdog"], ~lagged'["watchdog"], NEW a \in Timers
             PROVE  age'[a] <= 1 /\ (beaten'[a] => age'[a] = 0 \/ Waits(a)')
  BY DEF TimerInv, Waits
<1> USE LivenessConstants
<1>t. /\ a \in Watched /\ BusTypeOK /\ CheckTypes /\ unread["watchdog"] \in Seq(Messages)
      /\ age[a] \in Nat /\ beaten[a] \in BOOLEAN
  BY DEF Watched, TypeOK, CheckTypes, BusTypeOK
<1> DEFINE Heard == running["watchdog"] /\ ~lagged["watchdog"]
<1>h. Heard => age[a] <= 1 /\ (beaten[a] => age[a] = 0 \/ Waits(a))
  BY DEF TimerInv, Waits
<1>1. CASE UNCHANGED <<unread, lagged, running, beaten, age>>
  BY <1>1, <1>h DEF Waits
<1>2. CASE \E b \in Watched : Hang(b) \/ Recover(b)
  BY <1>1, <1>2 DEF Hang, Recover, busVars
<1>3. ASSUME NEW sees, \A l \in Loops : sees[l] \in Messages, Publish(sees),
             UNCHANGED age, beaten'[a] => beaten[a] \/ sees["watchdog"] = a
      PROVE  age'[a] <= 1 /\ (beaten'[a] => age'[a] = 0 \/ Waits(a)')
  <2>1. Heard /\ unread'["watchdog"] = Append(unread["watchdog"], sees["watchdog"])
    BY <1>t, <1>3, PublishEffect
  <2>2. sees["watchdog"] \in Messages
    BY <1>3
  <2>3. CASE beaten[a]
    BY <1>t, <1>h, <1>3, <2>1, <2>2, <2>3, WaitsAfterPublish DEF Waits
  <2>4. CASE ~beaten[a]
    BY <1>t, <1>h, <1>3, <2>1, <2>2, <2>4, WaitsAfterPublish DEF Waits
  <2>5. QED BY <1>t, <2>3, <2>4
<1>4. ASSUME NEW b \in Watched, Beat(b)
      PROVE  age'[a] <= 1 /\ (beaten'[a] => age'[a] = 0 \/ Waits(a)')
  <2>1. beaten'[a] => beaten[a] \/ b = a
    BY <1>t, <1>4 DEF Beat, CheckTypes
  <2>2. QED BY <1>3, <1>4, <2>1, SeenMessages DEF Beat
<1>5. CASE Other
  BY <1>3, <1>5, SeenMessages DEF Other
<1>6. CASE Check
  <2>1. \E m \in Messages : Publish(ForControl(m))
    BY <1>6 DEF Check
  <2>2. QED BY <1>3, <1>6, <2>1, SeenMessages DEF Check
<1>7. CASE ControlLoop
  <2>1. /\ unread'["watchdog"] = unread["watchdog"]
        /\ lagged'["watchdog"] = lagged["watchdog"]
        /\ running'["watchdog"] = running["watchdog"] /\ UNCHANGED <<beaten, age>>
    BY <1>t, <1>7, ReceiveEffect, EndEffect
       DEF ControlLoop, Ends, Control, checkVars, BusTypeOK
  <2>2. QED BY <1>h, <2>1 DEF Waits
<1>8. CASE WatchdogLoop
  <2>1. CASE Ends("watchdog")
    <3>1. running'["watchdog"] = FALSE
      BY <1>t, <2>1, EndEffect DEF Ends, BusTypeOK
    <3>2. QED BY <3>1
  <2>2. ASSUME NEW m \in Messages, Note(m)
        PROVE  age'[a] <= 1 /\ (beaten'[a] => age'[a] = 0 \/ Waits(a)')
    <3> DEFINE s == unread["watchdog"]
    <3>1. /\ Heard /\ s # <<>> /\ m = Head(s) /\ unread'["watchdog"] = Tail(s)
          /\ UNCHANGED beaten
      BY <1>t, <2>2, ReceiveEffect DEF Note, Receive
    <3>2. CASE m = a
      BY <1>t, <2>2, <3>2 DEF Note, CheckTypes
    <3>3. CASE m # a
      <4>1. age'[a] = age[a]
        BY <1>t, <2>2, <3>3 DEF Note, CheckTypes
      <4>2. Waits(a) => Waits(a)'
        BY <1>t, <3>1, <3>3, WaitsAfterTake DEF Waits
      <4>3. QED BY <1>h, <3>1, <4>1, <4>2
    <3>4. QED BY <3>2, <3>3
  <2>3. QED BY <1>8, <2>1, <2>2 DEF WatchdogLoop
<1>9. CASE Tick
  <2>1. Heard /\ beaten[a] /\ ~Waits(a)
    <3>1. Len(<<>>) = 0 /\ 1..0 = {}
      OBVIOUS
    <3>2. QED BY <1>t, <1>9, <3>1 DEF Tick, busVars, Beating, Waits
  <2>2. age[a] = 0
    BY <1>h, <2>1
  <2>3. age'[a] = 1 /\ ~beaten'[a]
    BY <1>t, <1>9, <2>2 DEF Tick
  <2>4. QED BY <2>3
<1>10. CASE UNCHANGED vars
  BY <1>1, <1>10 DEF vars, checkVars, busVars
<1>11. CASE Operator
  <2>1. \E m \in Messages : Publish(ForControl(m))
    BY <1>11 DEF Operator
  <2>2. QED BY <1>3, <1>11, <2>1, SeenMessages DEF Operator
<1>12. CASE ApplyState
  BY <1>1, <1>12 DEF ApplyState, busVars
<1>13. QED
  BY <1>2, <1>4, <1>5, <1>6, <1>7, <1>8, <1>9, <1>10, <1>11, <1>12 DEF Next

\* Work that hangs behind a timer goes unnoticed, for any timeout, any burst
\* and any ring.
THEOREM HungTimerTheorem == Spec => []HungTimerGoesUnnoticed
<1>1. Init => TimerInv
  BY DEF Init, TimerInv, Watched
<1>2. TypeOK /\ TimerInv => HungTimerGoesUnnoticed
  <2> SUFFICES ASSUME TypeOK, TimerInv, running["watchdog"], ~lagged["watchdog"],
                      NEW a \in Timers
               PROVE  ~(age[a] > Timeout)
    BY DEF HungTimerGoesUnnoticed, Stale
  <2>1. age[a] <= 1 /\ age[a] \in Int
    BY LivenessConstants DEF TimerInv, TypeOK, Watched
  <2>2. QED BY <2>1, LivenessConstants
<1>3. QED
  BY <1>1, <1>2, TimerStep, LivenessTypeTheorem, PTL DEF Spec
=============================================================================
