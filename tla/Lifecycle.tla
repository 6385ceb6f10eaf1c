----------------------------- MODULE Lifecycle -----------------------------
(***************************************************************************)
(* The life of the JASS library in a server process (src/Jass_Source/      *)
(* main.cpp): dllEntry, GAME_INIT, "jass shutdown", GAME_SHUTDOWN, over    *)
(* map changes (the engine unloads and reloads the library) and over       *)
(* crashes and restarts of the process; the crash marker crash.dat, the    *)
(* shutdown mode kept in the cvar ~jass_shutdown, the four managers, and   *)
(* the log (JassLog).                                                      *)
(*                                                                         *)
(* A crash may come between any two steps, so the handlers are cut where   *)
(* the disk changes and where foreign code runs.  fopen of crash.dat that  *)
(* fails ends in fclose(NULL) (main.cpp:199, 206, 616): a crash too.       *)
(***************************************************************************)
EXTENDS JassLog

CONSTANTS
  Events,       (* what may happen besides: see below                      *)
  MaxSessions   (* bound: times the library is loaded                      *)

(***************************************************************************)
(*   "shutdown"      "jass shutdown" on a running server;                  *)
(*   "execShutdown"  "jass shutdown" in jassconfig.cfg;                    *)
(*   "modFails"      the mod cannot be loaded;                             *)
(*   "detachLogs"    a plugin's JASS_Detach writes to the JASS log;        *)
(*   "crash"         the process dies.                                     *)
(***************************************************************************)
ASSUME LifeParameters ==
  /\ Events \subseteq {"shutdown", "execShutdown", "modFails", "detachLogs", "crash"}
  /\ MaxSessions \in Nat

VARIABLES
  pc,          (* where the library stands (below)                         *)
  back,        (* where "jass shutdown" returns to                         *)
  crash_dat,   (* the crash marker: absent, empty, "y" or "n"              *)
  cvar,        (* the cvar ~jass_shutdown, as old as the process           *)
  s_shutdown,  (* shutdown mode                                            *)
  lib,         (* CConfigMgr::IsLibLoaded                                  *)
  obj,         (* what the global pointers point at                        *)
  plugged,     (* plugins are attached                                     *)
  sessions,    (* times the library was loaded                             *)
  died,        (* history: the last session died with the server running   *)
  mute,        (* history: the last session ended in shutdown mode         *)
  reported,    (* history: GAME_INIT logged "Server was crashed"           *)
  happened,    (* history: the Events of this session                      *)
  misused,     (* history: the objects it used while they were not alive   *)
  lost         (* history: it stopped and its log file is not as logged    *)

lifeVars == <<pc, back, crash_dat, cvar, s_shutdown, lib, obj, plugged, sessions,
              died, mute, reported, happened, misused, lost>>
vars == <<logVars, lifeVars>>

Locations == {"unloaded", "entered",
              "read", "marking", "marked", "exec", "plugins", "started",  \* GAME_INIT
              "running", "failed",
              "unplug", "unconf",                                  \* "jass shutdown"
              "stopping", "closing", "detaching"}                  \* GAME_SHUTDOWN

Object == {"g_ConfigMgr", "g_EngineMgr", "g_ModMgr", "mod", "g_PluginMgr"}

NoObjects == [o \in Object |-> "null"]
Delete(S) == [o \in Object |-> IF o \in S THEN "freed" ELSE obj[o]]

Happens(e) == e \in Events /\ happened' = happened \cup {e}

(* A step that uses the objects S records those that are not alive.        *)
Uses(S) == misused' = misused \cup {o \in S : obj[o] # "live"}

At(here, there) == pc = here /\ pc' = there

LifeInit ==
  /\ pc = "unloaded" /\ back = "running" /\ crash_dat = "absent" /\ cvar = 0
  /\ s_shutdown = 0 /\ lib = FALSE /\ obj = NoObjects /\ plugged = FALSE
  /\ sessions = 0
  /\ died = FALSE /\ mute = FALSE /\ reported = FALSE /\ happened = {} /\ misused = {} /\ lost = FALSE

Init == LogInit /\ LifeInit
----------------------------------------------------------------------------
(***************************************************************************)
(* Start.                                                                  *)
(***************************************************************************)

(* The engine loads the library: dllEntry creates the managers.            *)
dllEntry(pdb) ==
  /\ sessions < MaxSessions /\ sessions' = sessions + 1
  /\ At("unloaded", "entered")
  /\ lib' = pdb
  /\ obj' = [o \in Object |-> IF o = "mod" THEN "null" ELSE "live"]
  /\ happened' = {} /\ misused' = {} /\ lost' = FALSE
  /\ UNCHANGED <<logVars, back, crash_dat, cvar, s_shutdown, plugged,
                 died, mute, reported>>

(* mutant: the cvar is not consulted                                       *)
InitRead_NoCvar(fh) ==
  /\ At("entered", "read")
  /\ s_shutdown' = 0
  /\ log_set(fh)
  /\ UNCHANGED <<back, crash_dat, cvar, lib, obj, plugged, sessions,
                 died, mute, reported, happened, misused, lost>>

(* GAME_INIT up to the test of crash.dat.                                  *)
InitRead(fh) ==
  /\ At("entered", "read")
  /\ s_shutdown' = cvar
  /\ log_set(fh)
  /\ UNCHANGED <<back, crash_dat, cvar, lib, obj, plugged, sessions,
                 died, mute, reported, happened, misused, lost>>

(* mutant: the file is opened for writing before it is read                *)
InitMark_OpenFirst(t) ==
  /\ At("read", "marking")
  /\ crash_dat' = "empty"
  /\ reported' = FALSE
  /\ UNCHANGED <<logVars, back, cvar, s_shutdown, lib, obj, plugged, sessions,
                 died, mute, happened, misused, lost>>

(* "Server was crashed" if the marker says so; fopen(.., "w") empties it.  *)
InitMark(t) ==
  /\ At("read", "marking")
  /\ crash_dat' = "empty"
  /\ reported' = (crash_dat = "y")
  /\ IF crash_dat = "y" THEN log_write(t) ELSE UNCHANGED logVars
  /\ UNCHANGED <<back, cvar, s_shutdown, lib, obj, plugged, sessions,
                 died, mute, happened, misused, lost>>

(* fputc('y') reaches the disk with fclose; "JASS loaded" is logged.       *)
InitMarked(t) ==
  /\ At("marking", "marked")
  /\ crash_dat' = "y"
  /\ died' = FALSE /\ mute' = FALSE
  /\ log_write(t)
  /\ UNCHANGED <<back, cvar, s_shutdown, lib, obj, plugged, sessions,
                 reported, happened, misused, lost>>

(* CModMgr::LoadMod; in shutdown mode the config and pdb are dropped.      *)
InitLoadMod ==
  /\ pc = "marked"
  /\ pc' = IF s_shutdown = 0 THEN "exec" ELSE "started"
  /\ obj' = [obj EXCEPT !["mod"] = "live"]
  /\ lib' = (lib /\ s_shutdown = 0)
  /\ Uses({"g_ModMgr", "g_ConfigMgr"})
  /\ UNCHANGED <<logVars, back, crash_dat, cvar, s_shutdown, plugged, sessions,
                 died, mute, reported, happened, lost>>

(* LoadMod fails: it deletes the mod object and keeps the pointer.         *)
InitLoadModFails ==
  /\ Happens("modFails")
  /\ At("marked", "failed")
  /\ obj' = [obj EXCEPT !["mod"] = "freed"]
  /\ Uses({"g_ModMgr", "g_ConfigMgr"})
  /\ UNCHANGED <<logVars, back, crash_dat, cvar, s_shutdown, lib, plugged, sessions,
                 died, mute, reported, lost>>

(* jassconfig.cfg has run.                                                 *)
InitExecDone ==
  /\ At("exec", "plugins")
  /\ UNCHANGED <<logVars, back, crash_dat, cvar, s_shutdown, lib, obj, plugged,
                 sessions, died, mute, reported, happened, misused, lost>>

(* CPluginMgr::LoadPlugins, which attaches plugins or finds none.          *)
InitLoadPlugins(any) ==
  /\ At("plugins", "started")
  /\ plugged' = (plugged \/ any)
  /\ Uses({"g_PluginMgr", "g_ConfigMgr"})
  /\ UNCHANGED <<logVars, back, crash_dat, cvar, s_shutdown, lib, obj, sessions,
                 died, mute, reported, happened, lost>>

(* GAME_INIT goes on to the plugins and the mod.                           *)
InitDispatch ==
  /\ At("started", "running")
  /\ Uses({"g_PluginMgr", "g_ModMgr", "mod"})
  /\ UNCHANGED <<logVars, back, crash_dat, cvar, s_shutdown, lib, obj, plugged,
                 sessions, died, mute, reported, happened, lost>>

(***************************************************************************)
(* The running server.                                                     *)
(***************************************************************************)

(* Any other message: to the plugins and the mod (the greeting of          *)
(* GAME_CLIENT_CONNECT reads the configuration), in shutdown mode straight *)
(* to the mod.                                                             *)
Message ==
  /\ pc = "running"
  /\ Uses(IF s_shutdown = 0 THEN {"g_PluginMgr", "g_ConfigMgr", "g_ModMgr", "mod", "g_EngineMgr"}
          ELSE {"g_ModMgr", "mod"})
  /\ UNCHANGED <<logVars, pc, back, crash_dat, cvar, s_shutdown, lib, obj, plugged,
                 sessions, died, mute, reported, happened, lost>>

(* Something is logged: by the handlers, or by plugins that are attached   *)
(* (also, if they care to, in their JASS_Detach).                          *)
Log(t) ==
  /\ \/ pc = "running" /\ s_shutdown = 0 /\ UNCHANGED happened
     \/ plugged /\ pc \in {"unplug", "detaching"} /\ Happens("detachLogs")
  /\ Len(due) < MaxRecords
  /\ log_write(t)
  /\ UNCHANGED <<pc, back, crash_dat, cvar, s_shutdown, lib, obj, plugged, sessions,
                 died, mute, reported, misused, lost>>

(* mutant: the mode is only set with the cvar, for the next map            *)
JassShutdown_NextMap(t) ==
  /\ \/ pc = "running" /\ Happens("shutdown")
     \/ pc = "exec" /\ Happens("execShutdown")
  /\ s_shutdown = 0
  /\ back' = pc /\ pc' = "unplug"
  /\ log_write(t)
  /\ UNCHANGED <<crash_dat, cvar, s_shutdown, lib, obj, plugged, sessions,
                 died, mute, reported, misused, lost>>

(* "jass shutdown": first the mode, then delete g_PluginMgr ...            *)
JassShutdown(t) ==
  /\ \/ pc = "running" /\ Happens("shutdown")
     \/ pc = "exec" /\ Happens("execShutdown")
  /\ s_shutdown = 0
  /\ s_shutdown' = 1 /\ back' = pc /\ pc' = "unplug"
  /\ log_write(t)
  /\ UNCHANGED <<crash_dat, cvar, lib, obj, plugged, sessions,
                 died, mute, reported, misused, lost>>

Unplug ==
  /\ At("unplug", "unconf")
  /\ Uses({"g_PluginMgr"})
  /\ obj' = Delete({"g_PluginMgr"})
  /\ plugged' = FALSE
  /\ UNCHANGED <<logVars, back, crash_dat, cvar, s_shutdown, lib, sessions,
                 died, mute, reported, happened, lost>>

(* mutant: the mode is not kept for the next map                           *)
Unconf_NoCvar(t) ==
  /\ At("unconf", back)
  /\ Uses({"g_ConfigMgr"})
  /\ obj' = IF lib THEN Delete({"g_ConfigMgr"}) ELSE obj
  /\ log_write(t)
  /\ UNCHANGED <<back, crash_dat, cvar, s_shutdown, lib, plugged, sessions,
                 died, mute, reported, happened, lost>>

(* ... then delete g_ConfigMgr (only if pdb is loaded) and set the cvar.   *)
Unconf(t) ==
  /\ At("unconf", back)
  /\ Uses({"g_ConfigMgr"})
  /\ obj' = IF lib THEN Delete({"g_ConfigMgr"}) ELSE obj
  /\ cvar' = 1
  /\ log_write(t)
  /\ UNCHANGED <<back, crash_dat, s_shutdown, lib, plugged, sessions,
                 died, mute, reported, happened, lost>>

(***************************************************************************)
(* Stop.                                                                   *)
(***************************************************************************)
Unload ==
  /\ StaticsReset
  /\ s_shutdown' = 0 /\ lib' = FALSE /\ obj' = NoObjects /\ plugged' = FALSE
  /\ back' = "running"

(* GAME_SHUTDOWN in shutdown mode: the mod's, then the managers.           *)
StopMute ==
  /\ pc \in {"running", "failed"} /\ s_shutdown = 1
  /\ pc' = "unloaded"
  /\ Uses({"g_ModMgr", "mod", "g_EngineMgr"})
  /\ lost' = (logFile # due)
  /\ mute' = TRUE
  /\ Unload
  /\ UNCHANGED <<crash_dat, cvar, sessions, died, reported, happened>>

(* GAME_SHUTDOWN: dispatched, then fopen(.., "w") empties the marker.      *)
StopMark ==
  /\ pc \in {"running", "failed"} /\ s_shutdown = 0
  /\ pc' = "stopping"
  /\ Uses({"g_PluginMgr", "g_ModMgr", "mod"})
  /\ crash_dat' = "empty"
  /\ UNCHANGED <<logVars, back, cvar, s_shutdown, lib, obj, plugged, sessions,
                 died, mute, reported, happened, lost>>

StopMarked(t) ==
  /\ At("stopping", "closing")
  /\ crash_dat' = "n"
  /\ log_write(t)
  /\ UNCHANGED <<back, cvar, s_shutdown, lib, obj, plugged, sessions,
                 died, mute, reported, happened, misused, lost>>

(* mutant: the log is not closed                                           *)
StopClose_Not(o) ==
  /\ At("closing", "detaching")
  /\ UNCHANGED <<logVars, back, crash_dat, cvar, s_shutdown, lib, obj, plugged, sessions,
                 died, mute, reported, happened, misused, lost>>

StopClose(o) ==
  /\ At("closing", "detaching")
  /\ CloseLog(o)
  /\ UNCHANGED <<back, crash_dat, cvar, s_shutdown, lib, obj, plugged, sessions,
                 died, mute, reported, happened, misused, lost>>

(* The managers are deleted, the plugins first (Log: their JASS_Detach);   *)
(* ~CModMgr deletes the mod; the engine unloads the library.               *)
StopDone ==
  /\ At("detaching", "unloaded")
  /\ Uses({"g_PluginMgr", "g_ModMgr", "mod", "g_ConfigMgr", "g_EngineMgr"})
  /\ lost' = (logFile # due)
  /\ Unload
  /\ UNCHANGED <<crash_dat, cvar, sessions, died, mute, reported, happened>>

(* The process dies and is started again: the cvar goes with it.           *)
Crash ==
  /\ "crash" \in Events /\ pc # "unloaded"
  /\ pc' = "unloaded"
  /\ died' = (pc \in {"marked", "exec", "plugins", "started", "running", "failed",
                      "unplug", "unconf"} \/ (died /\ pc \in {"entered", "read"}))
  /\ mute' = (mute /\ pc \in {"entered", "read"})
  /\ cvar' = 0
  /\ Unload
  /\ UNCHANGED <<crash_dat, sessions, reported, happened, misused, lost>>

(* The process ends between two maps and is started again.                 *)
Restart ==
  /\ pc = "unloaded" /\ cvar = 1
  /\ cvar' = 0
  /\ UNCHANGED <<logVars, pc, back, crash_dat, s_shutdown, lib, obj, plugged,
                 sessions, died, mute, reported, happened, misused, lost>>

Clock(t) == pc = "running" /\ Tick(t) /\ UNCHANGED lifeVars

Next ==
  \/ \E pdb \in BOOLEAN : dllEntry(pdb)
  \/ \E fh \in Modes : InitRead(fh)
  \/ \E t \in Text : \/ InitMark(t) \/ InitMarked(t) \/ Log(t)
                     \/ JassShutdown(t) \/ Unconf(t) \/ StopMarked(t)
  \/ InitLoadMod \/ InitLoadModFails \/ InitExecDone
  \/ \E any \in BOOLEAN : InitLoadPlugins(any)
  \/ InitDispatch \/ Message \/ Unplug
  \/ StopMute \/ StopMark \/ StopDone
  \/ \E o \in Opens : StopClose(o)
  \/ Crash \/ Restart
  \/ \E t \in Time : Clock(t)

Spec == Init /\ [][Next]_vars
----------------------------------------------------------------------------
(* The types; the mode and the cvar agree on a running server, so that the *)
(* next map starts in the mode this one is in.                             *)
LifeTypeOK ==
  /\ pc \in Locations /\ back \in {"running", "exec"}
  /\ crash_dat \in {"absent", "empty", "y", "n"}
  /\ cvar \in {0, 1} /\ s_shutdown \in {0, 1} /\ lib \in BOOLEAN
  /\ obj \in [Object -> {"null", "live", "freed"}]
  /\ plugged \in BOOLEAN /\ sessions \in 0 .. MaxSessions
  /\ died \in BOOLEAN /\ mute \in BOOLEAN /\ reported \in BOOLEAN
  /\ misused \subseteq Object /\ lost \in BOOLEAN
  /\ pc = "running" => s_shutdown = cvar

(* A server that died while running is reported by the next GAME_INIT,     *)
(* and what is reported is a server that died, or one that ended in        *)
(* shutdown mode (which leaves the marker standing), however often the     *)
(* process dies again before the report.                                   *)
CrashReported == pc = "marking" => (died => reported) /\ (reported => died \/ mute)

(* "jass shutdown" is permanent: no plugin is attached again in the same   *)
(* process, over any number of map changes that reload the library (one    *)
(* in jassconfig.cfg is followed by LoadPlugins on the deleted manager).   *)
ShutdownPermanent == cvar = 1 /\ "execShutdown" \notin happened => ~plugged

(* No handler uses a manager or the mod that is not alive, unless          *)
(* jassconfig.cfg has shut JASS down or the mod could not be loaded.       *)
ManagersLive == happened \cap {"execShutdown", "modFails"} = {} => misused = {}

(* The log survives every stop that is not a crash, records logged to the  *)
(* very end included, except one in shutdown mode (main.cpp:127 does not   *)
(* close the log) or with a JASS_Detach that logs (after main.cpp:618).    *)
StopKeepsLog == pc = "unloaded" /\ lost => "detachLogs" \in happened \/ mute

(* readme.txt:53, "permanently unloads JASS except for neccesary           *)
(* functions": what is unloaded is not used again.                         *)
NothingUnloadedIsUsed == misused = {}
============================================================================
