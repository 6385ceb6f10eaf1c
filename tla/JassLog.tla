------------------------------ MODULE JassLog ------------------------------
(***************************************************************************)
(* The JASS log of src/Jass_Source/util.cpp: log_write in its three modes  *)
(* (0 off, 1 buffered, 2 immediate), the buffer szLogBuffer, the date that *)
(* only the first record of a second carries, and CloseLog.                *)
(*                                                                         *)
(* A record is what one log_write adds.  Its text matters only by its      *)
(* length; the wall clock is now, which may also jump backwards.           *)
(***************************************************************************)
EXTENDS Integers, Sequences

CONSTANTS
  Text,           (* the texts logged                                      *)
  Size,           (* Size[t]: the characters of text t                     *)
  DateSize,       (* the characters of the date and its colon              *)
  VafSize,        (* what fits in one of vaf's buffers                     *)
  LOG_BUFF_SIZE,
  Time,           (* seconds; 0 is ltime_global's initial value            *)
  Modes,          (* the "log" settings of jass.ini considered             *)
  DiskMayFail,    (* whether fopen of the log file may fail                *)
  MaxRecords      (* bound: records logged                                 *)

ASSUME LogParameters ==
  /\ Size \in [Text -> Nat] /\ DateSize \in Nat
  /\ LOG_BUFF_SIZE \in Nat \ {0} /\ VafSize \in Nat \ {0}
  /\ Time \subseteq Nat \ {0}
  /\ Modes \subseteq Int
  /\ DiskMayFail \in BOOLEAN
  /\ MaxRecords \in Nat

VARIABLES
  s_fh,          (* the mode; -1 until log_set                             *)
  buffer,        (* szLogBuffer, as the records in it                      *)
  len,           (* strlen(szLogBuffer)                                    *)
  ltime_global,  (* the second the last date was written for               *)
  logFile,       (* what this library instance appended to the log file    *)
  now,           (* the wall clock                                         *)
  due,           (* history: what the file and then the buffer should hold *)
  spoiled        (* history: an fopen failed, or a write after CloseLog    *)

logVars == <<s_fh, buffer, len, ltime_global, logFile, now, due, spoiled>>

Record == [text : Text, at : Time, dated : BOOLEAN]

NewRecord(t) == [text |-> t, at |-> now, dated |-> now # ltime_global]

(* strlen of vaf("%s %s", date, text)                                      *)
Chars(r) ==
  LET full == Size[r.text] + 1 + (IF r.dated THEN DateSize ELSE 0)
  IN  IF full < VafSize THEN full ELSE VafSize - 1

Opens == IF DiskMayFail THEN BOOLEAN ELSE {TRUE}

(* mutant: the flush on overflow drops what was buffered                   *)
Flushed_Drops(o) == logFile

(* write_log_to_HDD(szLogBuffer), where fopen succeeds if o                *)
Flushed(o) == IF o THEN logFile \o buffer ELSE logFile
Overflows(n) == len + n >= LOG_BUFF_SIZE

(* log_write, mode 1.  The results of write_log_to_HDD are ignored: what   *)
(* could not be written is dropped.                                        *)
WriteBuffered(t, o1, o2) ==
  LET r == NewRecord(t)
      n == Chars(r)
  IN  /\ s_fh = 1
      /\ ltime_global' = now
      /\ due' = Append(due, r)
      /\ \/ /\ ~Overflows(n)
            /\ buffer' = Append(buffer, r) /\ len' = len + n
            /\ UNCHANGED <<logFile, spoiled>>
         \/ /\ Overflows(n) /\ n < LOG_BUFF_SIZE
            /\ logFile' = Flushed(o1)
            /\ buffer' = <<r>> /\ len' = n
            /\ spoiled' = (spoiled \/ ~o1)
         \/ /\ Overflows(n) /\ n >= LOG_BUFF_SIZE
            /\ logFile' = Flushed(o1) \o (IF o2 THEN <<r>> ELSE <<>>)
            /\ buffer' = <<>> /\ len' = 0
            /\ spoiled' = (spoiled \/ ~o1 \/ ~o2)
      /\ UNCHANGED <<s_fh, now>>

(* mutant: the date counts as written although the file did not open       *)
WriteThrough_DateFirst(t, o) ==
  /\ s_fh = 2
  /\ ltime_global' = now
  /\ IF o THEN /\ logFile' = Append(logFile, NewRecord(t))
               /\ due' = Append(due, NewRecord(t))
          ELSE UNCHANGED <<logFile, due>>
  /\ UNCHANGED <<s_fh, buffer, len, now, spoiled>>

(* log_write, mode 2: write_log_to_HDD_direct                              *)
WriteThrough(t, o) ==
  /\ s_fh = 2
  /\ IF o THEN /\ logFile' = Append(logFile, NewRecord(t))
               /\ ltime_global' = now
               /\ due' = Append(due, NewRecord(t))
          ELSE UNCHANGED <<logFile, ltime_global, due>>
  /\ UNCHANGED <<s_fh, buffer, len, now, spoiled>>

log_write(t) ==
  \/ s_fh \in {-1, 0} /\ UNCHANGED logVars
  \/ \E o1, o2 \in Opens : WriteBuffered(t, o1, o2)
  \/ \E o \in Opens : WriteThrough(t, o)

(* CloseLog writes the buffer but does not empty it: a record logged later *)
(* may write it once more.                                                 *)
CloseLog(o) ==
  /\ IF s_fh = 1
       THEN logFile' = Flushed(o) /\ spoiled' = TRUE
       ELSE UNCHANGED <<logFile, spoiled>>
  /\ UNCHANGED <<s_fh, buffer, len, ltime_global, now, due>>

(* mutant: any setting is taken as it is                                   *)
log_set_Raw(fh) ==
  /\ s_fh' = fh
  /\ UNCHANGED <<buffer, len, ltime_global, logFile, now, due, spoiled>>

(* log_set at GAME_INIT, with the "log" setting                            *)
log_set(fh) ==
  /\ s_fh' = IF fh \in 0 .. 2 THEN fh ELSE 1
  /\ UNCHANGED <<buffer, len, ltime_global, logFile, now, due, spoiled>>

(* The library is unloaded, or the process dies: its statics are gone.     *)
StaticsReset ==
  /\ s_fh' = -1 /\ buffer' = <<>> /\ len' = 0 /\ ltime_global' = 0
  /\ logFile' = <<>> /\ due' = <<>> /\ spoiled' = FALSE
  /\ UNCHANGED now

Tick(t) == /\ now' = t
           /\ UNCHANGED <<s_fh, buffer, len, ltime_global, logFile, due, spoiled>>

LogInit ==
  /\ s_fh = -1 /\ buffer = <<>> /\ len = 0 /\ ltime_global = 0
  /\ logFile = <<>> /\ now \in Time
  /\ due = <<>> /\ spoiled = FALSE

LogNext ==
  \/ \E fh \in Modes : s_fh = -1 /\ log_set(fh)
  \/ \E t \in Text : s_fh # -1 /\ Len(due) < MaxRecords /\ log_write(t)
  \/ \E o \in Opens : s_fh # -1 /\ Len(logFile) < MaxRecords /\ CloseLog(o)
  \/ s_fh # -1 /\ StaticsReset
  \/ \E t \in Time : Tick(t)

LogSpec == LogInit /\ [][LogNext]_logVars
----------------------------------------------------------------------------
(* The types; in particular the buffer holds records and a terminator:     *)
(* neither strcpy nor strncat (util.cpp:339, 343) writes past its end,     *)
(* although strncat is given the size of the buffer as its limit.          *)
LogTypeOK ==
  /\ s_fh \in -1 .. 2
  /\ buffer \in Seq(Record)
  /\ len \in 0 .. LOG_BUFF_SIZE - 1
  /\ ltime_global \in Time \cup {0}
  /\ logFile \in Seq(Record)
  /\ now \in Time
  /\ due \in Seq(Record)
  /\ spoiled \in BOOLEAN

(* While the file can be opened and the log is not closed, the file and    *)
(* then the buffer are exactly the records logged, in order and once each, *)
(* whichever of them overflowed the buffer or were too long for it.        *)
NothingLost == ~spoiled => logFile \o buffer = due

(* A reader can date every record: the last date at or before it in the    *)
(* log, and since the library was loaded, is that of the second it was     *)
(* logged in, even when the clock jumps or, in mode 2, the file could not  *)
(* be opened for a while.                                                  *)
LastDated(s, i) ==
  CHOOSE j \in 0 .. i : /\ j = 0 \/ s[j].dated
                        /\ \A k \in j + 1 .. i : ~ s[k].dated
Datable ==
  ~spoiled => LET log == logFile \o buffer IN
              \A i \in DOMAIN log :
                LET j == LastDated(log, i) IN j # 0 /\ log[j].at = log[i].at
============================================================================
