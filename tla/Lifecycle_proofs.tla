-------------------------- MODULE Lifecycle_proofs --------------------------
(***************************************************************************)
(* Proofs about Lifecycle and the log it drives, for any texts, sizes,     *)
(* buffer, clock and number of records, any number of loads of the library *)
(* and any events: the types, which bound what is in the buffer, that the  *)
(* file and then the buffer are exactly what was logged, the shutdown      *)
(* mode, the crash marker, the managers and the log after a stop.          *)
(***************************************************************************)
EXTENDS Lifecycle, SequenceTheorems, TLAPS

(* The log.                                                                *)

(* Only mode 1 uses the buffer, and an unset log has logged nothing.       *)
LogInv ==
  /\ LogTypeOK
  /\ NothingLost
  /\ s_fh # 1 => buffer = <<>>

LEMMA CharsCount == \A r \in Record : Chars(r) \in Nat
<1> SUFFICES ASSUME NEW r \in Record PROVE Chars(r) \in Nat
  OBVIOUS
<1>1. Size[r.text] \in Nat
  BY LogParameters DEF Record
<1> QED BY <1>1, LogParameters DEF Chars

LEMMA NewRecordIsRecord ==
  ASSUME LogTypeOK, NEW t \in Text
  PROVE  NewRecord(t) \in Record
BY LogParameters DEF LogTypeOK, NewRecord, Record

LEMMA NoRecords == <<>> \in Seq(Record) /\ <<>> \o <<>> = <<>>
  OBVIOUS

LEMMA LogInitially == LogInit => LogInv
<1> SUFFICES ASSUME LogInit PROVE LogInv
  OBVIOUS
<1>1. LogTypeOK
  <2>1. buffer \in Seq(Record) /\ logFile \in Seq(Record) /\ due \in Seq(Record)
    BY NoRecords DEF LogInit
  <2>2. s_fh \in -1 .. 2 /\ len \in 0 .. LOG_BUFF_SIZE - 1
    BY LogParameters DEF LogInit
  <2> QED BY <2>1, <2>2 DEF LogInit, LogTypeOK
<1>2. NothingLost
  BY NoRecords DEF LogInit, NothingLost
<1> QED BY <1>1, <1>2 DEF LogInit, LogInv

(* A record appended to the buffer is appended to the log.                 *)
LEMMA AppendToTail ==
  ASSUME NEW f \in Seq(Record), NEW b \in Seq(Record), NEW r \in Record
  PROVE  f \o Append(b, r) = Append(f \o b, r)
BY SMT

LEMMA WriteBufferedKeeps ==
  ASSUME LogInv, NEW t \in Text, NEW o1 \in Opens, NEW o2 \in Opens, WriteBuffered(t, o1, o2)
  PROVE  LogInv'
<1> DEFINE r == NewRecord(t)
           n == Chars(r)
<1> USE DEF LogInv
<1>1. r \in Record /\ n \in Nat /\ o1 \in BOOLEAN /\ o2 \in BOOLEAN
  BY NewRecordIsRecord, CharsCount DEF Opens
<1>2. /\ buffer \in Seq(Record) /\ logFile \in Seq(Record) /\ due \in Seq(Record)
      /\ len \in 0 .. LOG_BUFF_SIZE - 1 /\ LOG_BUFF_SIZE \in Nat \ {0}
      /\ ltime_global \in Time \cup {0} /\ now \in Time /\ spoiled \in BOOLEAN
  BY LogParameters DEF LogTypeOK
<1>3. /\ s_fh = 1 /\ s_fh' = 1 /\ now' = now /\ ltime_global' = now
      /\ due' = Append(due, r) /\ due' \in Seq(Record)
  BY <1>1, <1>2 DEF WriteBuffered
<1>4. CASE ~Overflows(n)
  <2>1. buffer' = Append(buffer, r) /\ len' = len + n /\ logFile' = logFile /\ spoiled' = spoiled
    BY <1>4 DEF WriteBuffered
  <2>2. LogTypeOK'
    BY <1>1, <1>2, <1>3, <1>4, <2>1 DEF LogTypeOK, Overflows
  <2>3. NothingLost'
    BY <1>1, <1>2, <1>3, <2>1, AppendToTail DEF NothingLost
  <2> QED BY <1>3, <2>2, <2>3
<1>5. CASE Overflows(n) /\ n < LOG_BUFF_SIZE
  <2>1. buffer' = <<r>> /\ len' = n /\ logFile' = Flushed(o1) /\ spoiled' = (spoiled \/ ~o1)
    BY <1>1, <1>2, <1>5 DEF WriteBuffered
  <2>2. LogTypeOK'
    BY <1>1, <1>2, <1>3, <1>5, <2>1 DEF LogTypeOK, Flushed
  <2>3. ASSUME ~spoiled' PROVE logFile' \o buffer' = due'
    <3>1. o1 /\ ~spoiled
      BY <2>1, <2>3, <1>1, <1>2
    <3>2. logFile' = due
      BY <2>1, <3>1 DEF Flushed, NothingLost
    <3>3. due \o <<r>> = Append(due, r)
      BY <1>1, <1>2
    <3> QED BY <1>3, <2>1, <3>2, <3>3
  <2> QED BY <1>3, <2>2, <2>3 DEF NothingLost
<1>6. CASE Overflows(n) /\ n >= LOG_BUFF_SIZE
  <2>1. /\ buffer' = <<>> /\ len' = 0 /\ spoiled' = (spoiled \/ ~o1 \/ ~o2)
        /\ logFile' = Flushed(o1) \o (IF o2 THEN <<r>> ELSE <<>>)
    BY <1>6, <1>1, <1>2 DEF WriteBuffered
  <2>2. LogTypeOK'
    <3>1. Flushed(o1) \in Seq(Record) /\ (IF o2 THEN <<r>> ELSE <<>>) \in Seq(Record)
      BY <1>1, <1>2 DEF Flushed
    <3>2. logFile' \in Seq(Record)
      BY <2>1, <3>1
    <3> QED BY <1>1, <1>2, <1>3, <2>1, <3>2 DEF LogTypeOK
  <2>3. ASSUME ~spoiled' PROVE logFile' \o buffer' = due'
    <3>1. o1 /\ o2 /\ ~spoiled
      BY <2>1, <2>3, <1>1, <1>2
    <3>2. logFile' = due \o <<r>>
      BY <2>1, <3>1 DEF Flushed, NothingLost
    <3>3. due \o <<r>> = Append(due, r) /\ Append(due, r) \o <<>> = Append(due, r)
      BY <1>1, <1>2
    <3> QED BY <1>3, <2>1, <3>2, <3>3
  <2> QED BY <1>3, <2>2, <2>3 DEF NothingLost
<1> QED BY <1>1, <1>2, <1>4, <1>5, <1>6

LEMMA WriteThroughKeeps ==
  ASSUME LogInv, NEW t \in Text, NEW o \in Opens, WriteThrough(t, o)
  PROVE  LogInv'
<1> USE DEF LogInv
<1>1. NewRecord(t) \in Record
  BY NewRecordIsRecord
<1>2. LogTypeOK'
  <2>1. CASE o
    <3>1. Append(logFile, NewRecord(t)) \in Seq(Record) /\ Append(due, NewRecord(t)) \in Seq(Record)
      BY <1>1 DEF LogTypeOK
    <3> QED BY <2>1, <3>1 DEF WriteThrough, LogTypeOK
  <2>2. CASE ~o
    BY <2>2 DEF WriteThrough, LogTypeOK
  <2> QED BY <2>1, <2>2
<1>3. NothingLost'
  <2>1. buffer = <<>> /\ buffer' = <<>> /\ logFile \in Seq(Record) /\ due \in Seq(Record)
    BY DEF WriteThrough, LogTypeOK
  <2>2. logFile \o <<>> = logFile /\ logFile' \o <<>> = logFile'
    BY <1>2, <2>1 DEF LogTypeOK
  <2> QED BY <2>1, <2>2 DEF WriteThrough, NothingLost
<1> QED BY <1>2, <1>3 DEF WriteThrough

LEMMA CloseLogKeeps ==
  ASSUME LogInv, NEW o \in Opens, CloseLog(o)
  PROVE  LogInv'
<1>1. LogTypeOK'
  <2>1. logFile' \in Seq(Record) /\ spoiled' \in BOOLEAN
    <3>1. logFile \o buffer \in Seq(Record)
      BY DEF LogInv, LogTypeOK
    <3> QED BY <3>1 DEF LogInv, CloseLog, LogTypeOK, Flushed
  <2> QED BY <2>1 DEF LogInv, CloseLog, LogTypeOK
<1>2. NothingLost'
  BY DEF LogInv, CloseLog, NothingLost
<1> QED BY <1>1, <1>2 DEF LogInv, CloseLog

LEMMA LogStutters == LogInv /\ UNCHANGED logVars => LogInv'
BY DEF LogInv, logVars, LogTypeOK, NothingLost

LEMMA LogWriteKeeps ==
  ASSUME LogInv, NEW t \in Text, log_write(t)
  PROVE  LogInv'
BY LogStutters, WriteBufferedKeeps, WriteThroughKeeps DEF log_write

LEMMA LogSetKeeps ==
  ASSUME LogInv, s_fh = -1, NEW fh \in Modes, log_set(fh)
  PROVE  LogInv'
BY DEF LogInv, log_set, LogTypeOK, NothingLost

LEMMA ResetKeeps == LogInv /\ StaticsReset => LogInv'
<1> SUFFICES ASSUME LogInv, StaticsReset PROVE LogInv'
  OBVIOUS
<1>1. /\ buffer' \in Seq(Record) /\ logFile' \in Seq(Record) /\ due' \in Seq(Record)
      /\ logFile' \o buffer' = due' /\ buffer' = <<>>
  BY NoRecords DEF StaticsReset
<1>2. s_fh' \in -1 .. 2 /\ len' \in 0 .. LOG_BUFF_SIZE - 1
  BY LogParameters DEF StaticsReset
<1> QED BY <1>1, <1>2 DEF LogInv, StaticsReset, LogTypeOK, NothingLost

LEMMA TickKeeps ==
  ASSUME LogInv, NEW t \in Time, Tick(t)
  PROVE  LogInv'
BY DEF LogInv, Tick, LogTypeOK, NothingLost

LEMMA LogStep == LogInv /\ [LogNext]_logVars => LogInv'
BY LogStutters, LogWriteKeeps, LogSetKeeps, ResetKeeps, TickKeeps, CloseLogKeeps DEF LogNext

(* The types hold: whatever is logged, szLogBuffer has room for what is in *)
(* it and its terminator (util.cpp:314-351).                               *)
THEOREM LogTypeCorrect == LogSpec => []LogTypeOK
<1>1. LogInv => LogTypeOK
  BY DEF LogInv
<1> QED BY <1>1, LogInitially, LogStep, PTL DEF LogSpec

(* No record is lost, repeated or reordered on its way through the buffer, *)
(* while the file opens and the log is not closed.                         *)
THEOREM NoRecordLost == LogSpec => []NothingLost
<1>1. LogInv => NothingLost
  BY DEF LogInv
<1> QED BY <1>1, LogInitially, LogStep, PTL DEF LogSpec
-----------------------------------------------------------------------------
(* The record i of s carries no date of its own later than that of record  *)
(* j, which is right for it.                                               *)
DatedBy(s, i, j) ==
  /\ j \in 1 .. i /\ s[j].dated /\ s[j].at = s[i].at
  /\ \A k \in j + 1 .. i : ~ s[k].dated

(* ltime_global is the second of the last record logged: the date of the   *)
(* next one is left out only if it is that second still.                   *)
Dates ==
  /\ IF due = <<>> THEN ltime_global = 0 ELSE ltime_global = due[Len(due)].at
  /\ \A i \in DOMAIN due : \E j \in 1 .. i : DatedBy(due, i, j)

DateInv == LogInv /\ Dates

LEMMA LastDateIsIt ==
  ASSUME NEW s \in Seq(Record), NEW i \in DOMAIN s, NEW j \in 1 .. i, DatedBy(s, i, j)
  PROVE  LastDated(s, i) = j
<1> DEFINE P(m) == /\ m = 0 \/ s[m].dated
                   /\ \A k \in m + 1 .. i : ~ s[k].dated
<1>1. i \in Nat \ {0} /\ j \in Nat
  OBVIOUS
<1>2. j \in 0 .. i /\ P(j)
  BY <1>1 DEF DatedBy
<1>3. ASSUME NEW m \in 0 .. i, P(m) PROVE m = j
  <2>1. ~ (m < j)
    <3> SUFFICES ASSUME m < j PROVE FALSE
      OBVIOUS
    <3>1. j \in m + 1 .. i
      BY <1>1
    <3> QED BY <3>1, <1>3 DEF DatedBy
  <2>2. ~ (j < m)
    <3> SUFFICES ASSUME j < m PROVE FALSE
      OBVIOUS
    <3>1. m \in j + 1 .. i /\ m # 0
      BY <1>1
    <3> QED BY <3>1, <1>3 DEF DatedBy
  <2> QED BY <2>1, <2>2, <1>1
<1>4. (CHOOSE m \in 0 .. i : P(m)) = j
  BY <1>2, <1>3
<1> QED BY <1>4 DEF LastDated

(* One record more: it carries a date, or the last date holds for it.      *)
LEMMA OneMore ==
  ASSUME DateInv, NEW t \in Text, due' = Append(due, NewRecord(t)), ltime_global' = now
  PROVE  Dates'
<1> DEFINE r == NewRecord(t)
           n == Len(due)
<1>1. /\ due \in Seq(Record) /\ r \in Record /\ n \in Nat
      /\ now \in Time /\ now # 0 /\ r.at = now /\ r.dated = (now # ltime_global)
  BY NewRecordIsRecord, LogParameters DEF DateInv, LogInv, LogTypeOK, NewRecord
<1>2. /\ Len(due') = n + 1 /\ due'[n + 1] = r /\ due' # <<>>
      /\ \A i \in 1 .. n : due'[i] = due[i]
      /\ DOMAIN due' = 1 .. n + 1 /\ DOMAIN due = 1 .. n
  BY <1>1
<1>3. ASSUME NEW i \in 1 .. n PROVE \E j \in 1 .. i : DatedBy(due', i, j)
  <2>1. PICK j \in 1 .. i : DatedBy(due, i, j)
    BY <1>2 DEF DateInv, Dates
  <2>2. due'[j] = due[j] /\ due'[i] = due[i] /\ \A k \in j + 1 .. i : due'[k] = due[k]
    BY <1>1, <1>2
  <2> QED BY <2>1, <2>2 DEF DatedBy
<1>4. \E j \in 1 .. n + 1 : DatedBy(due', n + 1, j)
  <2>1. CASE r.dated
    BY <2>1, <1>1, <1>2 DEF DatedBy
  <2>2. CASE ~ r.dated
    <3>1. ltime_global = now /\ due # <<>> /\ n \in 1 .. n /\ due[n].at = now
      <4>1. ltime_global = now
        BY <2>2, <1>1
      <4>2. due # <<>> /\ ltime_global = due[Len(due)].at
        BY <4>1, <1>1 DEF DateInv, Dates
      <4>3. n # 0
        BY <4>2, <1>1
      <4> QED BY <4>1, <4>2, <4>3, <1>1
    <3>2. PICK j \in 1 .. n : DatedBy(due, n, j)
      BY <3>1, <1>2 DEF DateInv, Dates
    <3>3. ASSUME NEW k \in j + 1 .. n + 1 PROVE ~ due'[k].dated
      <4>1. CASE k = n + 1
        BY <4>1, <1>2, <2>2
      <4>2. CASE k # n + 1
        <5>1. k \in j + 1 .. n /\ k \in 1 .. n
          BY <4>2, <1>1
        <5> QED BY <5>1, <3>2, <1>2 DEF DatedBy
      <4> QED BY <4>1, <4>2
    <3>4. j \in 1 .. n + 1 /\ due'[j].dated /\ due'[j].at = due'[n + 1].at
      BY <3>1, <3>2, <1>1, <1>2 DEF DatedBy
    <3> QED BY <3>3, <3>4 DEF DatedBy
  <2> QED BY <2>1, <2>2, <1>1
<1>5. ltime_global' = due'[Len(due')].at
  BY <1>1, <1>2
<1>6. ASSUME NEW i \in DOMAIN due' PROVE \E j \in 1 .. i : DatedBy(due', i, j)
  <2>1. i \in 1 .. n \/ i = n + 1
    BY <1>1, <1>2
  <2> QED BY <2>1, <1>3, <1>4
<1> QED BY <1>2, <1>5, <1>6 DEF Dates

LEMMA DatesStep == DateInv /\ [LogNext]_logVars => DateInv'
<1> SUFFICES ASSUME DateInv, [LogNext]_logVars PROVE Dates'
  BY LogStep DEF DateInv
<1>1. ASSUME UNCHANGED <<due, ltime_global>> PROVE Dates'
  BY <1>1 DEF DateInv, Dates, DatedBy
<1>2. ASSUME NEW t \in Text, log_write(t) PROVE Dates'
  <2>1. CASE s_fh \in {-1, 0} /\ UNCHANGED logVars
    BY <1>1, <2>1 DEF logVars
  <2>2. ASSUME NEW o1 \in Opens, NEW o2 \in Opens, WriteBuffered(t, o1, o2) PROVE Dates'
    BY <2>2, OneMore DEF WriteBuffered
  <2>3. ASSUME NEW o \in Opens, WriteThrough(t, o) PROVE Dates'
    BY <1>1, <2>3, OneMore DEF WriteThrough
  <2> QED BY <1>2, <2>1, <2>2, <2>3 DEF log_write
<1>3. CASE StaticsReset
  BY <1>3 DEF StaticsReset, Dates
<1>4. CASE UNCHANGED logVars
  BY <1>1, <1>4 DEF logVars
<1> QED BY <1>1, <1>2, <1>3, <1>4 DEF LogNext, log_set, CloseLog, Tick

(* Every record can be dated, in the modes that buffer and in the one that *)
(* does not, whatever the clock does and whenever the file does not open   *)
(* (util.cpp:287-351).                                                     *)
THEOREM RecordsAreDated == LogSpec => []Datable
<1>1. LogInit => DateInv
  BY LogInitially DEF LogInit, DateInv, Dates
<1>2. DateInv => Datable
  <2> SUFFICES ASSUME DateInv, ~spoiled, NEW i \in DOMAIN due
               PROVE  LastDated(due, i) # 0 /\ due[LastDated(due, i)].at = due[i].at
    BY DEF DateInv, LogInv, NothingLost, Datable
  <2>1. PICK j \in 1 .. i : DatedBy(due, i, j)
    BY DEF DateInv, Dates
  <2>2. due \in Seq(Record) /\ LastDated(due, i) = j /\ j # 0
    BY <2>1, LastDateIsIt DEF DateInv, LogInv, LogTypeOK
  <2> QED BY <2>1, <2>2 DEF DatedBy
<1> QED BY <1>1, <1>2, DatesStep, PTL DEF LogSpec

-----------------------------------------------------------------------------
(* The life cycle.                                                         *)

(* The mode is that of the cvar, from the moment GAME_INIT has read it     *)
(* until "jass shutdown" has set one and not yet the other; one that       *)
(* GAME_INIT goes on after came from jassconfig.cfg.                       *)
Mode ==
  /\ LifeTypeOK
  /\ pc \notin {"unloaded", "entered", "unplug", "unconf"} => s_shutdown = cvar
  /\ pc \in {"unplug", "unconf"} => s_shutdown = 1
  /\ pc \in {"unplug", "unconf"} /\ back = "exec" => "execShutdown" \in happened
  /\ pc \in {"exec", "plugins"} => s_shutdown = 0 \/ "execShutdown" \in happened
  /\ pc \in {"stopping", "closing", "detaching"} => s_shutdown = 0

(* The marker is "y" from GAME_INIT's mark until GAME_SHUTDOWN empties it, *)
(* and "y" is found at the start after a death or a mute end.              *)
Marker ==
  /\ pc \in {"unloaded", "entered", "read"} =>
       (died => crash_dat = "y") /\ (crash_dat = "y" => died \/ mute)
  /\ pc = "marking" => (died => reported) /\ (reported => died \/ mute)
  /\ pc = "marking" => crash_dat = "empty"
  /\ pc \in {"marked", "exec", "plugins", "started", "running", "failed", "unplug", "unconf"} =>
       crash_dat = "y" /\ ~died
  /\ pc \in {"stopping", "closing", "detaching"} => crash_dat # "y" /\ ~died

(* Plugins are attached by GAME_INIT at its end; where that would follow a *)
(* shutdown, the shutdown was one of jassconfig.cfg.                       *)
Unplugged ==
  /\ pc \in {"unloaded", "entered", "read", "marking", "marked", "unconf"} => ~plugged
  /\ cvar = 1 /\ "execShutdown" \notin happened => ~plugged

(* What lives at each place, if the mod was loaded and jassconfig.cfg did  *)
(* not shut JASS down.                                                     *)
Sound == happened \cap {"execShutdown", "modFails"} = {}
Alive(S) == \A o \in S : obj[o] = "live"
Managers ==
  /\ Sound => misused = {}
  /\ pc = "failed" => "modFails" \in happened
  /\ pc \in {"entered", "read", "marking", "marked"} => Alive(Object \ {"mod"})
  /\ Sound /\ pc \in {"exec", "plugins", "started", "unplug", "stopping", "closing", "detaching"} =>
       Alive(Object)
  /\ Sound /\ pc = "unconf" => Alive(Object \ {"g_PluginMgr"})
  /\ Sound /\ pc = "running" => Alive({"g_ModMgr", "mod", "g_EngineMgr"})
  /\ Sound /\ pc = "running" /\ s_shutdown = 0 => Alive(Object)

(* The log is as logged until it is closed, and afterwards unless a        *)
(* JASS_Detach writes to it.                                               *)
Kept ==
  /\ LogInv
  /\ pc \in {"unloaded", "entered"} => s_fh = -1
  /\ pc # "detaching" => ~spoiled
  /\ pc = "detaching" => logFile = due \/ "detachLogs" \in happened
  /\ pc # "unloaded" => ~lost
  /\ pc = "unloaded" /\ lost => "detachLogs" \in happened \/ mute

-----------------------------------------------------------------------------
LEMMA ModeStep == Mode /\ [Next]_vars => Mode'
<1> SUFFICES ASSUME Mode, [Next]_vars PROVE Mode'
  OBVIOUS
<1> USE LifeParameters DEF Mode, LifeTypeOK, At, Happens, Uses, Unload
<1>1. ASSUME NEW pdb \in BOOLEAN, dllEntry(pdb) PROVE Mode'
  <2>1. sessions' \in 0 .. MaxSessions
    BY <1>1 DEF dllEntry
  <2>2. obj' \in [Object -> {"null", "live", "freed"}]
    BY <1>1 DEF dllEntry
  <2> QED BY <1>1, <2>1, <2>2 DEF dllEntry, Locations
<1>2. ASSUME NEW fh \in Modes, InitRead(fh) PROVE Mode'
  BY <1>2 DEF InitRead, Locations
<1>3. ASSUME NEW t \in Text, InitMark(t) PROVE Mode'
  BY <1>3 DEF InitMark, Locations
<1>4. ASSUME NEW t \in Text, InitMarked(t) PROVE Mode'
  BY <1>4 DEF InitMarked, Locations
<1>5. ASSUME NEW t \in Text, Log(t) PROVE Mode'
  BY <1>5 DEF Log, Locations
<1>6. ASSUME NEW t \in Text, JassShutdown(t) PROVE Mode'
  BY <1>6 DEF JassShutdown, Locations
<1>7. ASSUME NEW t \in Text, Unconf(t) PROVE Mode'
  <2>1. obj' \in [Object -> {"null", "live", "freed"}]
    BY <1>7 DEF Unconf, Delete
  <2>2. misused' \subseteq Object
    BY <1>7 DEF Unconf, Object
  <2>3. pc = "unconf" /\ pc' = back /\ cvar' = 1 /\ s_shutdown' = s_shutdown /\ happened' = happened
    BY <1>7 DEF Unconf
  <2>4. pc' \in Locations
    BY <2>3 DEF Locations
  <2> QED BY <1>7, <2>1, <2>2, <2>3, <2>4 DEF Unconf
<1>8. ASSUME NEW t \in Text, StopMarked(t) PROVE Mode'
  BY <1>8 DEF StopMarked, Locations
<1>9. CASE InitLoadMod
  BY <1>9 DEF InitLoadMod, Locations, Object
<1>10. CASE InitLoadModFails
  BY <1>10 DEF InitLoadModFails, Locations, Object
<1>11. CASE InitExecDone
  BY <1>11 DEF InitExecDone, Locations
<1>12. ASSUME NEW any \in BOOLEAN, InitLoadPlugins(any) PROVE Mode'
  BY <1>12 DEF InitLoadPlugins, Locations, Object
<1>13. CASE InitDispatch
  BY <1>13 DEF InitDispatch, Locations, Object
<1>14. CASE Message
  BY <1>14 DEF Message, Locations, Object
<1>15. CASE Unplug
  BY <1>15 DEF Unplug, Delete, Locations, Object
<1>16. CASE StopMute
  BY <1>16 DEF StopMute, Locations, Object, NoObjects
<1>17. CASE StopMark
  BY <1>17 DEF StopMark, Locations, Object
<1>18. CASE StopDone
  BY <1>18 DEF StopDone, Locations, Object, NoObjects
<1>19. ASSUME NEW o \in Opens, StopClose(o) PROVE Mode'
  BY <1>19 DEF StopClose, Locations
<1>20. CASE Crash
  BY <1>20 DEF Crash, Locations, NoObjects
<1>21. CASE Restart
  BY <1>21 DEF Restart, Locations
<1>22. ASSUME NEW t \in Time, Clock(t) PROVE Mode'
  BY <1>22 DEF Clock, lifeVars
<1>23. CASE UNCHANGED vars
  BY <1>23 DEF vars, lifeVars
<1> QED BY <1>1, <1>2, <1>3, <1>4, <1>5, <1>6, <1>7, <1>8, <1>9, <1>10, <1>11, <1>12, <1>13,
  <1>14, <1>15, <1>16, <1>17, <1>18, <1>19, <1>20, <1>21, <1>22, <1>23 DEF Next
LEMMA MarkerStep == Mode /\ Marker /\ [Next]_vars => Marker'
<1> SUFFICES ASSUME Mode, Marker, [Next]_vars PROVE Marker'
  OBVIOUS
<1> USE DEF Marker, Mode, LifeTypeOK, At, Happens
<1>1. ASSUME NEW pdb \in BOOLEAN, dllEntry(pdb) PROVE Marker'
  BY <1>1 DEF dllEntry
<1>2. ASSUME NEW fh \in Modes, InitRead(fh) PROVE Marker'
  BY <1>2 DEF InitRead
<1>3. ASSUME NEW t \in Text, InitMark(t) PROVE Marker'
  BY <1>3 DEF InitMark
<1>4. ASSUME NEW t \in Text, InitMarked(t) PROVE Marker'
  BY <1>4 DEF InitMarked
<1>5. ASSUME NEW t \in Text, Log(t) PROVE Marker'
  BY <1>5 DEF Log
<1>6. ASSUME NEW t \in Text, JassShutdown(t) PROVE Marker'
  BY <1>6 DEF JassShutdown
<1>7. ASSUME NEW t \in Text, Unconf(t) PROVE Marker'
  BY <1>7 DEF Unconf
<1>8. ASSUME NEW t \in Text, StopMarked(t) PROVE Marker'
  BY <1>8 DEF StopMarked
<1>9. CASE InitLoadMod
  BY <1>9 DEF InitLoadMod
<1>10. CASE InitLoadModFails
  BY <1>10 DEF InitLoadModFails
<1>11. CASE InitExecDone
  BY <1>11 DEF InitExecDone
<1>12. ASSUME NEW any \in BOOLEAN, InitLoadPlugins(any) PROVE Marker'
  BY <1>12 DEF InitLoadPlugins
<1>13. CASE InitDispatch
  BY <1>13 DEF InitDispatch
<1>14. CASE Message
  BY <1>14 DEF Message
<1>15. CASE Unplug
  BY <1>15 DEF Unplug
<1>16. CASE StopMute
  BY <1>16 DEF StopMute
<1>17. CASE StopMark
  BY <1>17 DEF StopMark
<1>18. CASE StopDone
  BY <1>18 DEF StopDone
<1>19. ASSUME NEW o \in Opens, StopClose(o) PROVE Marker'
  BY <1>19 DEF StopClose
<1>20. CASE Crash
  <2>1. pc' = "unloaded" /\ crash_dat' = crash_dat
    BY <1>20 DEF Crash
  <2>2. CASE pc \in {"marked", "exec", "plugins", "started", "running", "failed", "unplug", "unconf"}
    <3>1. died' = TRUE
      BY <1>20, <2>2 DEF Crash
    <3> QED BY <2>1, <2>2, <3>1
  <2>3. CASE pc \in {"entered", "read"}
    <3>1. died' = died /\ mute' = mute
      BY <1>20, <2>3 DEF Crash
    <3> QED BY <2>1, <2>3, <3>1
  <2>4. CASE pc \in {"marking", "stopping", "closing", "detaching"}
    <3>1. died' = FALSE
      BY <1>20, <2>4 DEF Crash
    <3> QED BY <2>1, <2>4, <3>1
  <2>5. pc # "unloaded"
    BY <1>20 DEF Crash
  <2> QED BY <2>2, <2>3, <2>4, <2>5 DEF Locations
<1>21. CASE Restart
  BY <1>21 DEF Restart
<1>22. ASSUME NEW t \in Time, Clock(t) PROVE Marker'
  BY <1>22 DEF Clock, lifeVars
<1>23. CASE UNCHANGED vars
  BY <1>23 DEF vars, lifeVars
<1> QED BY <1>1, <1>2, <1>3, <1>4, <1>5, <1>6, <1>7, <1>8, <1>9, <1>10, <1>11, <1>12, <1>13,
  <1>14, <1>15, <1>16, <1>17, <1>18, <1>19, <1>20, <1>21, <1>22, <1>23 DEF Next

LEMMA UnpluggedStep == Mode /\ Unplugged /\ [Next]_vars => Unplugged'
<1> SUFFICES ASSUME Mode, Unplugged, [Next]_vars PROVE Unplugged'
  OBVIOUS
<1> USE DEF Unplugged, Mode, LifeTypeOK, At, Happens, Unload
<1>1. ASSUME NEW pdb \in BOOLEAN, dllEntry(pdb) PROVE Unplugged'
  BY <1>1 DEF dllEntry
<1>2. ASSUME NEW fh \in Modes, InitRead(fh) PROVE Unplugged'
  BY <1>2 DEF InitRead
<1>3. ASSUME NEW t \in Text, InitMark(t) PROVE Unplugged'
  BY <1>3 DEF InitMark
<1>4. ASSUME NEW t \in Text, InitMarked(t) PROVE Unplugged'
  BY <1>4 DEF InitMarked
<1>5. ASSUME NEW t \in Text, Log(t) PROVE Unplugged'
  BY <1>5 DEF Log
<1>6. ASSUME NEW t \in Text, JassShutdown(t) PROVE Unplugged'
  BY <1>6 DEF JassShutdown
<1>7. ASSUME NEW t \in Text, Unconf(t) PROVE Unplugged'
  BY <1>7 DEF Unconf
<1>8. ASSUME NEW t \in Text, StopMarked(t) PROVE Unplugged'
  BY <1>8 DEF StopMarked
<1>9. CASE InitLoadMod
  BY <1>9 DEF InitLoadMod
<1>10. CASE InitLoadModFails
  BY <1>10 DEF InitLoadModFails
<1>11. CASE InitExecDone
  BY <1>11 DEF InitExecDone
<1>12. ASSUME NEW any \in BOOLEAN, InitLoadPlugins(any) PROVE Unplugged'
  BY <1>12 DEF InitLoadPlugins
<1>13. CASE InitDispatch
  BY <1>13 DEF InitDispatch
<1>14. CASE Message
  BY <1>14 DEF Message
<1>15. CASE Unplug
  BY <1>15 DEF Unplug
<1>16. CASE StopMute
  BY <1>16 DEF StopMute
<1>17. CASE StopMark
  BY <1>17 DEF StopMark
<1>18. CASE StopDone
  BY <1>18 DEF StopDone
<1>19. ASSUME NEW o \in Opens, StopClose(o) PROVE Unplugged'
  BY <1>19 DEF StopClose
<1>20. CASE Crash
  BY <1>20 DEF Crash
<1>21. CASE Restart
  BY <1>21 DEF Restart
<1>22. ASSUME NEW t \in Time, Clock(t) PROVE Unplugged'
  BY <1>22 DEF Clock, lifeVars
<1>23. CASE UNCHANGED vars
  BY <1>23 DEF vars, lifeVars
<1> QED BY <1>1, <1>2, <1>3, <1>4, <1>5, <1>6, <1>7, <1>8, <1>9, <1>10, <1>11, <1>12, <1>13,
  <1>14, <1>15, <1>16, <1>17, <1>18, <1>19, <1>20, <1>21, <1>22, <1>23 DEF Next

LEMMA ManagersStep == Mode /\ Managers /\ [Next]_vars => Managers'
<1> SUFFICES ASSUME Mode, Managers, [Next]_vars PROVE Managers'
  OBVIOUS
<1> USE DEF Managers, Sound, Alive, Mode, LifeTypeOK, At, Happens, Uses, Unload
<1>1. ASSUME NEW pdb \in BOOLEAN, dllEntry(pdb) PROVE Managers'
  BY <1>1 DEF dllEntry, Object
<1>2. ASSUME NEW fh \in Modes, InitRead(fh) PROVE Managers'
  BY <1>2 DEF InitRead
<1>3. ASSUME NEW t \in Text, InitMark(t) PROVE Managers'
  BY <1>3 DEF InitMark
<1>4. ASSUME NEW t \in Text, InitMarked(t) PROVE Managers'
  BY <1>4 DEF InitMarked
<1>5. ASSUME NEW t \in Text, Log(t) PROVE Managers'
  BY <1>5 DEF Log
<1>6. ASSUME NEW t \in Text, JassShutdown(t) PROVE Managers'
  BY <1>6 DEF JassShutdown
<1>7. ASSUME NEW t \in Text, Unconf(t) PROVE Managers'
  <2>1. /\ pc = "unconf" /\ pc' = back /\ s_shutdown' = 1 /\ happened' = happened
        /\ misused' = misused \cup {o \in {"g_ConfigMgr"} : obj[o] # "live"}
        /\ obj' = IF lib THEN Delete({"g_ConfigMgr"}) ELSE obj
    BY <1>7 DEF Unconf
  <2>2. back \in {"running", "exec"} /\ (back = "exec" => "execShutdown" \in happened)
    BY <2>1
  <2>3. Sound => Alive(Object \ {"g_PluginMgr"})
    BY <2>1
  <2>4. Sound => misused' = {}
    BY <2>1, <2>3 DEF Object
  <2>5. ASSUME Sound, NEW o \in {"g_ModMgr", "mod", "g_EngineMgr"} PROVE obj'[o] = "live"
    <3>1. obj[o] = "live" /\ o \in Object /\ o # "g_ConfigMgr"
      BY <2>3, <2>5 DEF Object
    <3> QED BY <2>1, <3>1 DEF Delete
  <2>6. pc' = "running" \/ (pc' = "exec" /\ ~Sound)
    BY <2>1, <2>2
  <2> QED BY <2>1, <2>4, <2>5, <2>6
<1>8. ASSUME NEW t \in Text, StopMarked(t) PROVE Managers'
  BY <1>8 DEF StopMarked
<1>9. CASE InitLoadMod
  BY <1>9 DEF InitLoadMod, Object
<1>10. CASE InitLoadModFails
  BY <1>10 DEF InitLoadModFails, Object
<1>11. CASE InitExecDone
  BY <1>11 DEF InitExecDone
<1>12. ASSUME NEW any \in BOOLEAN, InitLoadPlugins(any) PROVE Managers'
  BY <1>12 DEF InitLoadPlugins, Object
<1>13. CASE InitDispatch
  BY <1>13 DEF InitDispatch, Object
<1>14. CASE Message
  BY <1>14 DEF Message, Object
<1>15. CASE Unplug
  BY <1>15 DEF Unplug, Object, Delete
<1>16. CASE StopMute
  BY <1>16 DEF StopMute, Object
<1>17. CASE StopMark
  BY <1>17 DEF StopMark, Object
<1>18. CASE StopDone
  BY <1>18 DEF StopDone, Object
<1>19. ASSUME NEW o \in Opens, StopClose(o) PROVE Managers'
  BY <1>19 DEF StopClose
<1>20. CASE Crash
  BY <1>20 DEF Crash
<1>21. CASE Restart
  BY <1>21 DEF Restart
<1>22. ASSUME NEW t \in Time, Clock(t) PROVE Managers'
  BY <1>22 DEF Clock, lifeVars
<1>23. CASE UNCHANGED vars
  BY <1>23 DEF vars, lifeVars
<1> QED BY <1>1, <1>2, <1>3, <1>4, <1>5, <1>6, <1>7, <1>8, <1>9, <1>10, <1>11, <1>12, <1>13,
  <1>14, <1>15, <1>16, <1>17, <1>18, <1>19, <1>20, <1>21, <1>22, <1>23 DEF Next

-----------------------------------------------------------------------------
(* With a disk that opens the file, only CloseLog spoils the log.          *)
LEMMA WritesDoNotSpoil ==
  ASSUME DiskMayFail = FALSE, LogInv, NEW t \in Text, log_write(t)
  PROVE  LogInv' /\ spoiled' = spoiled /\ s_fh' = s_fh
<1>1. LogInv' /\ spoiled \in BOOLEAN
  BY LogWriteKeeps DEF LogInv, LogTypeOK
<1>2. Opens = {TRUE}
  BY DEF Opens
<1>3. ASSUME WriteBuffered(t, TRUE, TRUE) PROVE spoiled' = spoiled /\ s_fh' = s_fh
  BY <1>1, <1>3 DEF WriteBuffered
<1>4. ASSUME WriteThrough(t, TRUE) PROVE spoiled' = spoiled /\ s_fh' = s_fh
  BY <1>4 DEF WriteThrough
<1> QED BY <1>1, <1>2, <1>3, <1>4 DEF log_write, logVars

LEMMA ClosedIsDue ==
  ASSUME DiskMayFail = FALSE, LogInv, ~spoiled, NEW o \in Opens, CloseLog(o)
  PROVE  LogInv' /\ logFile' = due'
<1>1. LogInv' /\ o = TRUE
  BY CloseLogKeeps DEF Opens
<1>2. logFile \o buffer = due /\ due' = due
  BY DEF LogInv, NothingLost, CloseLog
<1>3. CASE s_fh = 1
  BY <1>1, <1>2, <1>3 DEF CloseLog, Flushed
<1>4. CASE s_fh # 1
  <2>1. buffer = <<>> /\ logFile \in Seq(Record) /\ logFile' = logFile
    BY <1>4 DEF LogInv, LogTypeOK, CloseLog
  <2> QED BY <1>1, <1>2, <2>1
<1> QED BY <1>1, <1>3, <1>4

LEMMA KeptStep == Mode /\ DiskMayFail = FALSE /\ Kept /\ [Next]_vars => Kept'
<1> SUFFICES ASSUME Mode, DiskMayFail = FALSE, Kept, [Next]_vars PROVE Kept'
  OBVIOUS
<1> USE DEF Kept, At, Happens, Unload
<1>1. ASSUME NEW pdb \in BOOLEAN, dllEntry(pdb) PROVE Kept'
  BY <1>1, LogStutters DEF dllEntry, logVars
<1>2. ASSUME NEW fh \in Modes, InitRead(fh) PROVE Kept'
  <2>1. LogInv'
    BY <1>2, LogSetKeeps DEF InitRead
  <2> QED BY <1>2, <2>1 DEF InitRead, log_set
<1>3. ASSUME NEW t \in Text, InitMark(t) PROVE Kept'
  <2>1. CASE log_write(t)
    BY <1>3, <2>1, WritesDoNotSpoil DEF InitMark
  <2>2. CASE UNCHANGED logVars
    BY <1>3, <2>2, LogStutters DEF InitMark, logVars
  <2> QED BY <1>3, <2>1, <2>2 DEF InitMark
<1>4. ASSUME NEW t \in Text, InitMarked(t) PROVE Kept'
  <2>1. log_write(t) /\ pc # "unloaded" /\ pc # "entered" /\ pc' # "unloaded" /\ pc' # "entered"
    BY <1>4 DEF InitMarked
  <2> QED BY <1>4, <2>1, WritesDoNotSpoil DEF InitMarked
<1>5. ASSUME NEW t \in Text, Log(t) PROVE Kept'
  <2>1. log_write(t) /\ pc' = pc /\ pc \notin {"unloaded", "entered"} /\ lost' = lost
    BY <1>5 DEF Log
  <2>2. LogInv' /\ spoiled' = spoiled
    BY <2>1, WritesDoNotSpoil
  <2>3. pc = "detaching" => "detachLogs" \in happened'
    BY <1>5 DEF Log
  <2> QED BY <2>1, <2>2, <2>3
<1>6. ASSUME NEW t \in Text, JassShutdown(t) PROVE Kept'
  <2>1. log_write(t) /\ pc # "unloaded" /\ pc # "entered" /\ pc' # "unloaded" /\ pc' # "entered"
    BY <1>6 DEF JassShutdown
  <2> QED BY <1>6, <2>1, WritesDoNotSpoil DEF JassShutdown
<1>7. ASSUME NEW t \in Text, Unconf(t) PROVE Kept'
  <2>1. log_write(t) /\ pc = "unconf" /\ pc' = back /\ back \in {"running", "exec"} /\ lost' = lost
    BY <1>7 DEF Unconf, Mode, LifeTypeOK
  <2>2. LogInv' /\ spoiled' = spoiled
    BY <2>1, WritesDoNotSpoil
  <2>3. ~spoiled /\ ~lost
    BY <2>1
  <2>4. pc' \in {"running", "exec"}
    BY <2>1
  <2> QED BY <2>1, <2>2, <2>3, <2>4
<1>8. ASSUME NEW t \in Text, StopMarked(t) PROVE Kept'
  <2>1. log_write(t) /\ pc # "unloaded" /\ pc # "entered" /\ pc' # "unloaded" /\ pc' # "entered"
    BY <1>8 DEF StopMarked
  <2> QED BY <1>8, <2>1, WritesDoNotSpoil DEF StopMarked
<1>9. CASE InitLoadMod
  BY <1>9, LogStutters DEF InitLoadMod, logVars
<1>10. CASE InitLoadModFails
  BY <1>10, LogStutters DEF InitLoadModFails, logVars
<1>11. CASE InitExecDone
  BY <1>11, LogStutters DEF InitExecDone, logVars
<1>12. ASSUME NEW any \in BOOLEAN, InitLoadPlugins(any) PROVE Kept'
  BY <1>12, LogStutters DEF InitLoadPlugins, logVars
<1>13. CASE InitDispatch
  BY <1>13, LogStutters DEF InitDispatch, logVars
<1>14. CASE Message
  BY <1>14, LogStutters DEF Message, logVars
<1>15. CASE Unplug
  BY <1>15, LogStutters DEF Unplug, logVars
<1>16. CASE StopMute
  <2>1. LogInv' /\ s_fh' = -1 /\ spoiled' = FALSE
    BY <1>16, ResetKeeps DEF StopMute, StaticsReset
  <2> QED BY <1>16, <2>1 DEF StopMute
<1>17. CASE StopMark
  BY <1>17, LogStutters DEF StopMark, logVars
<1>18. CASE StopDone
  <2>1. LogInv' /\ s_fh' = -1 /\ spoiled' = FALSE
    BY <1>18, ResetKeeps DEF StopDone, StaticsReset
  <2> QED BY <1>18, <2>1 DEF StopDone
<1>19. ASSUME NEW o \in Opens, StopClose(o) PROVE Kept'
  <2>1. LogInv' /\ logFile' = due'
    BY <1>19, ClosedIsDue DEF StopClose
  <2> QED BY <1>19, <2>1 DEF StopClose
<1>20. CASE Crash
  <2>1. LogInv' /\ s_fh' = -1 /\ spoiled' = FALSE
    BY <1>20, ResetKeeps DEF Crash, StaticsReset
  <2> QED BY <1>20, <2>1 DEF Crash
<1>21. CASE Restart
  BY <1>21, LogStutters DEF Restart, logVars
<1>22. ASSUME NEW t \in Time, Clock(t) PROVE Kept'
  <2>1. LogInv' /\ UNCHANGED <<s_fh, spoiled, logFile, due>>
    BY <1>22, TickKeeps DEF Clock, Tick
  <2> QED BY <1>22, <2>1 DEF Clock, lifeVars
<1>23. CASE UNCHANGED vars
  BY <1>23, LogStutters DEF vars, lifeVars, logVars
<1> QED BY <1>1, <1>2, <1>3, <1>4, <1>5, <1>6, <1>7, <1>8, <1>9, <1>10, <1>11, <1>12, <1>13,
  <1>14, <1>15, <1>16, <1>17, <1>18, <1>19, <1>20, <1>21, <1>22, <1>23 DEF Next

-----------------------------------------------------------------------------
LEMMA LifeInitially == Init => Mode /\ Marker /\ Unplugged /\ Managers /\ Kept
<1> SUFFICES ASSUME Init PROVE Mode /\ Marker /\ Unplugged /\ Managers /\ Kept
  OBVIOUS
<1>1. Mode
  <2>1. obj \in [Object -> {"null", "live", "freed"}]
    BY DEF Init, LifeInit, NoObjects
  <2>2. sessions \in 0 .. MaxSessions /\ misused \subseteq Object
    BY LifeParameters DEF Init, LifeInit
  <2> QED BY <2>1, <2>2 DEF Init, LifeInit, Mode, LifeTypeOK, Locations
<1>2. LogInv /\ s_fh = -1 /\ ~spoiled
  BY LogInitially DEF Init, LogInit
<1> QED BY <1>1, <1>2 DEF Init, LifeInit, Marker, Unplugged, Managers, Kept

(* The types hold, and on a running server the cvar always says which mode *)
(* the next map will start in (main.cpp:137-185, 425-432).                 *)
THEOREM LifeTypeCorrect == Spec => []LifeTypeOK
<1>1. Mode => LifeTypeOK
  BY DEF Mode
<1> QED BY <1>1, LifeInitially, ModeStep, PTL DEF Spec

(* Through any sequence of crashes, restarts and map changes, the marker   *)
(* reports each server that died and, shutdown mode apart, no other        *)
(* (main.cpp:185-206, 608-617).                                            *)
THEOREM CrashesAreReported == Spec => []CrashReported
<1>1. Marker => CrashReported
  BY DEF Marker, CrashReported
<1> QED BY <1>1, LifeInitially, ModeStep, MarkerStep, PTL DEF Spec

(* "jass shutdown" outlasts any number of map changes (main.cpp:416-432).  *)
THEOREM ShutdownIsPermanent == Spec => []ShutdownPermanent
<1>1. Unplugged => ShutdownPermanent
  BY DEF Unplugged, ShutdownPermanent
<1> QED BY <1>1, LifeInitially, ModeStep, UnpluggedStep, PTL DEF Spec

(* No handler uses what is not alive, unless the mod could not be loaded   *)
(* or jassconfig.cfg shut JASS down (main.cpp:73-634).                     *)
THEOREM ManagersAreLive == Spec => []ManagersLive
<1>1. Managers => ManagersLive
  BY DEF Managers, Sound, ManagersLive
<1> QED BY <1>1, LifeInitially, ModeStep, ManagersStep, PTL DEF Spec

(* If the log file can be opened, an orderly stop leaves in it what was    *)
(* logged (main.cpp:618, util.cpp:353-357).                                *)
THEOREM StopsKeepTheLog == DiskMayFail = FALSE /\ Spec => []StopKeepsLog
<1>1. Kept => StopKeepsLog
  BY DEF Kept, StopKeepsLog
<1>2. Mode /\ Kept /\ DiskMayFail = FALSE /\ [Next]_vars => Kept'
  BY KeptStep
<1>3. CASE DiskMayFail = FALSE
  <2>1. Mode /\ Kept /\ [Next]_vars => Kept'
    BY <1>2, <1>3
  <2> QED BY <1>1, <2>1, LifeInitially, ModeStep, PTL DEF Spec
<1> QED BY <1>3

=============================================================================
