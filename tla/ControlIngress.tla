---------------------------- MODULE ControlIngress ----------------------------
(***************************************************************************)
(* How operator commands get in (src/src/agents/control.rs): the Telegram  *)
(* long poll and the control file, with the process crashing and being     *)
(* restarted.  The Telegram server is external: it keeps an update until   *)
(* a poll asks for a later one.  What a command does once it is published  *)
(* is SurvivalControl's; lines of the standard input are published as they *)
(* are read and keep no state.                                             *)
(*                                                                         *)
(* Updates and lines of the file are numbered in the order they are made;  *)
(* their text is left out.                                                 *)
(***************************************************************************)
EXTENDS Integers, Sequences, SequencesExt

CONSTANTS
  Users, Allowed,          \* allowed_user_ids; empty lets everybody in
  BatchLimit,              \* updates in one answer of the server
  MaxUpdates, MaxLines, MaxCrashes, MaxMissed

ASSUME IngressAssumption ==
  /\ Allowed \subseteq Users
  /\ BatchLimit \in Nat \ {0}
  /\ MaxUpdates \in Nat /\ MaxLines \in Nat /\ MaxCrashes \in Nat /\ MaxMissed \in Nat

VARIABLES
  posted,       \* server: sender of each update
  confirmed,    \* server: the updates up to here are forgotten
  lastUpdate,   \* last_update_id
  pending,      \* updates of the last answer still to be handled
  file,         \* lines of the control file
  lastSize,     \* last_size of file_loop
  reading,      \* the content has been read, the file is not truncated yet
  \* history
  run,          \* restarts so far
  obeyed,       \* Telegram commands handled, with the run
  written,      \* lines ever appended
  executed,     \* lines handled
  gap,          \* lines appended between a read and its truncation
  missed        \* reads that no truncation followed

telegramVars == <<posted, confirmed, lastUpdate, pending, obeyed>>
fileVars     == <<file, lastSize, reading, written, executed, gap, missed>>
ingressVars  == <<telegramVars, fileVars, run>>

MayCommand(user) == Allowed = {} \/ user \in Allowed
Larger(a, b)     == IF a < b THEN b ELSE a

-----------------------------------------------------------------------------
(* Telegram *)

Post ==
  /\ Len(posted) < MaxUpdates
  /\ \E user \in Users : posted' = Append(posted, user)
  /\ UNCHANGED <<confirmed, lastUpdate, pending, obeyed, fileVars, run>>

\* Mutant of Asked: the offset is the last update, not the one after it.
AskedFromLast == Larger(confirmed, lastUpdate - 1)

\* Asking from an offset on makes the server forget what is before it.
Asked == Larger(confirmed, lastUpdate)

Answer == {i \in (Asked + 1)..(Asked + BatchLimit) : i <= Len(posted)}

Poll ==
  /\ pending = {}
  /\ confirmed' = Asked
  /\ pending' = Answer
  /\ UNCHANGED <<posted, lastUpdate, obeyed, fileVars, run>>

\* Mutant of PollFailed: a batch that does not parse is stepped over.
PollFailedSkipsBatch ==
  /\ pending = {}
  /\ confirmed' = Asked
  /\ lastUpdate' = Len(posted)
  /\ UNCHANGED <<posted, pending, obeyed, fileVars, run>>

\* The answer is lost or does not parse.
PollFailed ==
  /\ pending = {}
  /\ confirmed' = Asked
  /\ UNCHANGED <<posted, lastUpdate, pending, obeyed, fileVars, run>>

Advance(id) == Larger(lastUpdate, id)

\* One pass of the loop over the answer; the reply is awaited after it.
HandleUpdate ==
  \E id \in pending :
    /\ \A other \in pending : id <= other
    /\ pending' = pending \ {id}
    /\ lastUpdate' = Advance(id)
    /\ obeyed' = IF MayCommand(posted[id]) THEN Append(obeyed, [id |-> id, run |-> run])
                 ELSE obeyed
    /\ UNCHANGED <<posted, confirmed, fileVars, run>>

-----------------------------------------------------------------------------
(* The control file *)

\* echo flat >> /tmp/aria.control
AppendLine ==
  /\ written < MaxLines
  /\ written' = written + 1
  /\ file' = Append(file, written + 1)
  /\ gap' = IF reading THEN gap \union {written + 1} ELSE gap
  /\ UNCHANGED <<telegramVars, lastSize, reading, executed, missed, run>>

Changed == Len(file) # lastSize

\* Mutant of ReadFile: one command per pass.
ReadFirstLine ==
  /\ ~reading /\ Changed /\ file # <<>>
  /\ executed' = Append(executed, file[1])
  /\ reading' = TRUE
  /\ UNCHANGED <<telegramVars, file, lastSize, written, gap, missed, run>>

\* Nothing is awaited between the read and the last publish.
ReadFile ==
  /\ ~reading /\ Changed
  /\ executed' = executed \o file
  /\ reading' = TRUE
  /\ UNCHANGED <<telegramVars, file, lastSize, written, gap, missed, run>>

\* Mutant of Truncate: last_size is the size just read.
TruncateRemembersSize ==
  /\ reading /\ reading' = FALSE
  /\ file' = <<>> /\ lastSize' = Len(file)
  /\ UNCHANGED <<telegramVars, written, executed, gap, missed, run>>

Truncate ==
  /\ reading /\ reading' = FALSE
  /\ file' = <<>> /\ lastSize' = 0
  /\ UNCHANGED <<telegramVars, written, executed, gap, missed, run>>

\* The result of the write is ignored.
TruncateFails ==
  /\ reading /\ reading' = FALSE
  /\ missed < MaxMissed /\ missed' = missed + 1
  /\ lastSize' = 0
  /\ UNCHANGED <<telegramVars, file, written, executed, gap, run>>

-----------------------------------------------------------------------------

\* The file and the server survive; the update id does not.
Crash ==
  /\ run < MaxCrashes /\ run' = run + 1
  /\ lastUpdate' = 0 /\ pending' = {}
  /\ lastSize' = 0 /\ reading' = FALSE
  /\ missed' = IF reading THEN missed + 1 ELSE missed
  /\ UNCHANGED <<posted, confirmed, obeyed, file, written, executed, gap>>

IngressInit ==
  /\ posted = <<>> /\ confirmed = 0 /\ lastUpdate = 0 /\ pending = {} /\ obeyed = <<>>
  /\ file = <<>> /\ lastSize = 0 /\ reading = FALSE
  /\ run = 0 /\ written = 0 /\ executed = <<>> /\ gap = {} /\ missed = 0

IngressNext ==
  \/ Post \/ Poll \/ PollFailed \/ HandleUpdate
  \/ AppendLine \/ ReadFile \/ Truncate \/ TruncateFails
  \/ Crash

IngressSpec == IngressInit /\ [][IngressNext]_ingressVars

\* Both loops run for ever, and neither the network nor the file system
\* fails for ever.
FairIngressSpec ==
  /\ IngressSpec
  /\ WF_ingressVars(Poll) /\ WF_ingressVars(HandleUpdate)
  /\ WF_ingressVars(ReadFile) /\ WF_ingressVars(Truncate)

-----------------------------------------------------------------------------
(* Properties *)

\* Within a run Telegram commands are obeyed in the order they were sent and
\* none twice, whatever answers are lost (control.rs:123-147); a repetition
\* needs a restart before the next poll has confirmed the command.
ObeyedInOrderPerRun ==
  \A i, j \in 1..Len(obeyed) :
    i < j /\ obeyed[i].run = obeyed[j].run => obeyed[i].id < obeyed[j].id

\* A line of the control file (control.rs:306-341) is lost only if it was
\* appended after a read and before its truncation, and repeated only by a
\* truncation that failed or that a crash forestalled.
NoLineIsLost ==
  \A line \in 1..written : line \in Range(file) \union Range(executed) \union gap

Times(line, lines) == Cardinality({i \in 1..Len(lines) : lines[i] = line})

RepeatedOnlyByMisses == \A line \in 1..written : Times(line, executed) <= 1 + missed

FileCommandsAccountedFor == NoLineIsLost /\ RepeatedOnlyByMisses

\* Every command of a user who may command is obeyed, every line is executed
\* or was appended in the gap, restarts and failures notwithstanding.
EveryCommandIsTaken ==
  /\ \A id \in 1..MaxUpdates :
       (id <= Len(posted) /\ MayCommand(posted[id]))
         ~> (\E i \in 1..Len(obeyed) : obeyed[i].id = id)
  /\ \A line \in 1..MaxLines :
       (line <= written) ~> (line \in Range(executed) \union gap)
=============================================================================
