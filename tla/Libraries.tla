----------------------------- MODULE Libraries -----------------------------
(***************************************************************************)
(* Who keeps which library open (CDLL.cpp, CDLLMod.cpp, CModMgr.cpp, the   *)
(* table of modules in util.cpp, the DLL of a CPlugin).  The dynamic       *)
(* linker counts dlopen and dlclose and maps a library at some address,    *)
(* its handle; it keeps an address for the next library once nothing is    *)
(* there.  CDLL closes its handle whenever it is asked to and keeps it, so *)
(* an object that is unloaded and then destroyed closes several times.     *)
(*                                                                         *)
(* What plugins do besides is in PluginMgr; here a JASS_Detach may load    *)
(* other plugins while the manager is being destroyed.                     *)
(***************************************************************************)
EXTENDS Integers, Sequences, SequencesExt, FiniteSets

CONSTANTS File,        \* files that may be libraries
          Self,        \* the file of JASS
          Handle,      \* addresses where libraries can be mapped
          NoLib,       \* the null pointer; no file
          MaxPlugins,  \* bound: plugins in the list
          MaxRefs      \* bound: times a library is open at once

ASSUME LibAssumption == /\ NoLib \notin File \cup Handle
                        /\ Self \in File
                        /\ MaxPlugins \in Nat /\ MaxRefs \in Nat

VARIABLES mapped,      \* the linker: what is mapped at each address
          table,       \* s_plugins: the handles of loaded modules
          plugins,     \* the list of CPluginMgr: each one's DLL
          phase,       \* what the host is doing
          cand,        \* the files in the order in which LoadMod looks for the mod
          entry,       \* the files with the entry points of a mod
          tried,       \* the candidates that LoadMod has tried
          modH,        \* hDLL of CModMgr::mod
          running,     \* the candidate that is the mod, 0 for none
          dropped,     \* hDLL of the CDLLMod that LoadMod has let go
          selfKnown    \* whether get_modulehandle() is a handle as dlopen returns it

libVars == <<mapped, table, plugins, phase, cand, entry, tried, modH, running, dropped, selfKnown>>

Nothing == [file |-> NoLib, refs |-> 0, refused |-> 0, dropped |-> FALSE]
OpenOnce(f) == [file |-> f, refs |-> 1, refused |-> 0, dropped |-> FALSE]
At(f) == {h \in Handle : mapped[h].file = f}
SelfHandle == CHOOSE h \in Handle : mapped[h].file = Self

\* A candidate is NoLib if no library can be opened there.  Without a mod in
\* jass.ini the first two are, without a homepath the second and the fourth.
\* get_modulehandle() is an address where JASS is mapped: a handle under Windows,
\* and none under Linux.  (There JASS would accept itself as the mod: left out.)
LibInit == /\ \E h \in Handle :
                mapped = [a \in Handle |-> IF a = h THEN OpenOnce(Self) ELSE Nothing]
           /\ selfKnown \in BOOLEAN
           /\ cand \in [1 .. 4 -> (File \ IF selfKnown THEN {} ELSE {Self}) \cup {NoLib}]
           /\ entry \in SUBSET (File \ {Self})
           /\ table = {} /\ plugins = << >> /\ phase = "search"
           /\ tried = 0 /\ modH = NoLib /\ running = 0 /\ dropped = NoLib

-----------------------------------------------------------------------------
(* dlopen, dlclose and CDLL                                                *)

Mapping(h, f) ==
  [mapped EXCEPT ![h] = IF mapped[h].file = f THEN [mapped[h] EXCEPT !.refs = @ + 1]
                        ELSE OpenOnce(f)]

\* Where dlopen finds or puts the library.
Place(h, f) == /\ IF At(f) = {} THEN mapped[h].file = NoLib ELSE h \in At(f)
               /\ mapped[h].refs < MaxRefs

\* dlclose(h), n times; of nothing, nothing.
Closed(m, h, n) == [m EXCEPT ![h] = IF m[h].refs <= n THEN Nothing
                                    ELSE [m[h] EXCEPT !.refs = @ - n]]

\* mutant: only a module that is JASS itself is refused.
Duplicate_SelfOnly(h) == selfKnown /\ h = SelfHandle

Duplicate(h) == (selfKnown /\ h = SelfHandle) \/ h \in table

\* CDLL::Load returns -1: the handle is forgotten, the linker still counts it.
\* (refused is auxiliary, and counts to two.)
Forgotten(h, f) == [Mapping(h, f) EXCEPT ![h].refused = IF @ < 2 THEN @ + 1 ELSE @]

Refuse(h, f) ==
  /\ Duplicate(h)
  /\ mapped' = Forgotten(h, f)

\* CDLL::Load returns 1.
Load(h, f) == /\ ~Duplicate(h)
              /\ table' = table \cup {h}

-----------------------------------------------------------------------------
(* LoadPlugin and UnloadPlugin                                             *)

Loads == \/ phase = "up"
         \/ phase = "detach"     \* from a JASS_Detach

PluginRefused(f, h) == /\ Loads /\ Place(h, f)
                       /\ Refuse(h, f)
                       /\ UNCHANGED <<table, plugins, phase, cand, entry, tried, modH, running, dropped>>

\* LoadQuery fails after Load: ~CPlugin and ~CDLL close.  JASS is no plugin: if
\* it does not know itself, it closes its own library under its feet.
QueryFails(f, h) == /\ Loads /\ Place(h, f)
                    /\ ~Duplicate(h)
                    /\ mapped' = Closed(Mapping(h, f), h, 2)
                    /\ phase' = IF f = Self THEN "unmapped" ELSE phase
                    /\ UNCHANGED <<table, plugins, cand, entry, tried, modH, running, dropped>>

\* JASS_Attach refuses: Unload, ~CPlugin and ~CDLL close.
AttachRefuses(f, h) == /\ Loads /\ f # Self /\ Place(h, f)
                       /\ ~Duplicate(h)
                       /\ mapped' = Closed(Mapping(h, f), h, 3)
                       /\ UNCHANGED <<table, plugins, phase, cand, entry, tried, modH, running, dropped>>

Attach(f, h) == /\ Loads /\ f # Self /\ Place(h, f)
                /\ Len(plugins) < MaxPlugins
                /\ Load(h, f)
                /\ mapped' = Mapping(h, f)
                /\ plugins' = Append(plugins, [file |-> f, handle |-> h, detached |-> FALSE])
                /\ UNCHANGED <<phase, cand, entry, tried, modH, running, dropped>>

\* mutant: the module stays in the table.
UnloadPlugin_KeepsEntry(k) ==
  /\ phase = "up"
  /\ mapped' = Closed(mapped, plugins[k].handle, 3)
  /\ plugins' = RemoveAt(plugins, k)
  /\ UNCHANGED <<table, phase, cand, entry, tried, modH, running, dropped>>

\* mutant: a handle that was closed is not closed again.
UnloadPlugin_Once(k) ==
  /\ phase = "up"
  /\ mapped' = Closed(mapped, plugins[k].handle, 1)
  /\ table' = table \ {plugins[k].handle}
  /\ plugins' = RemoveAt(plugins, k)
  /\ UNCHANGED <<phase, cand, entry, tried, modH, running, dropped>>

\* Unload, ~CPlugin and ~CDLL close.
UnloadPlugin(k) ==
  /\ phase = "up"
  /\ mapped' = Closed(mapped, plugins[k].handle, 3)
  /\ table' = table \ {plugins[k].handle}
  /\ plugins' = RemoveAt(plugins, k)
  /\ UNCHANGED <<phase, cand, entry, tried, modH, running, dropped>>

-----------------------------------------------------------------------------
(* CModMgr::LoadMod                                                        *)

\* mutant: the first CDLLMod is used throughout.
Held_First == modH

\* The second CDLLMod takes the place of the first, which is not deleted.
Held == IF tried + 1 = 3 THEN NoLib ELSE modH

Search == /\ phase = "search" /\ tried < 4
          /\ tried' = tried + 1
          /\ dropped' = IF tried + 1 = 3 THEN modH ELSE dropped
          /\ UNCHANGED <<plugins, cand, entry>>

Drop(m) == [h \in Handle |-> IF tried + 1 = 3 /\ h = modH THEN [m[h] EXCEPT !.dropped = TRUE]
                             ELSE m[h]]

\* CDLL::Load returns 0, because it has a handle already or there is no file ...
TryOpensNothing ==
  /\ Search
  /\ Held # NoLib \/ cand[tried + 1] = NoLib
  /\ modH' = Held
  /\ mapped' = Drop(mapped)
  /\ UNCHANGED <<table, phase, running>>

\* ... or -1 ...
TryRefused(h) ==
  /\ Search
  /\ Held = NoLib /\ cand[tried + 1] # NoLib
  /\ Place(h, cand[tried + 1]) /\ Duplicate(h)
  /\ mapped' = Drop(Forgotten(h, cand[tried + 1]))
  /\ modH' = NoLib
  /\ UNCHANGED <<table, phase, running>>

\* ... or 1: it is the mod if it has dllEntry and vmMain, and if not it stays open.
TryOpens(h) ==
  /\ Search
  /\ Held = NoLib /\ cand[tried + 1] # NoLib
  /\ Place(h, cand[tried + 1])
  /\ Load(h, cand[tried + 1])
  /\ mapped' = Drop(Mapping(h, cand[tried + 1]))
  /\ modH' = h
  /\ IF cand[tried + 1] \in entry
     THEN running' = tried + 1 /\ phase' = "up"
     ELSE UNCHANGED <<running, phase>>

\* Nothing was found: the object is deleted (~CDLLMod and ~CDLL close), the
\* pointer stays, the engine is told to stop.
LoadModFails ==
  /\ phase = "search" /\ tried = 4
  /\ mapped' = IF modH = NoLib THEN mapped ELSE Closed(mapped, modH, 2)
  /\ table' = table \ {modH}
  /\ modH' = NoLib
  /\ phase' = "failed"
  /\ UNCHANGED <<plugins, cand, entry, tried, running, dropped>>

-----------------------------------------------------------------------------
(* The end of a map                                                        *)

\* ~CPluginMgr: UnloadPlugins detaches and closes each plugin ...
Stop == /\ phase = "up" /\ phase' = "detach"
        /\ UNCHANGED <<mapped, table, plugins, cand, entry, tried, modH, running, dropped>>

Active == {k \in DOMAIN plugins : ~plugins[k].detached}

Detach(k) == /\ phase = "detach"
             /\ k \in Active /\ \A j \in Active : k <= j
             /\ mapped' = Closed(mapped, plugins[k].handle, 1)
             /\ table' = table \ {plugins[k].handle}
             /\ plugins' = [plugins EXCEPT ![k].detached = TRUE]
             /\ UNCHANGED <<phase, cand, entry, tried, modH, running, dropped>>

\* ... and ~CLinkList deletes them: ~CPlugin and ~CDLL close.
DeletePlugin == /\ phase \in {"detach", "delete"} /\ Active = {} /\ plugins # << >>
                /\ phase' = "delete"
                /\ mapped' = Closed(mapped, Head(plugins).handle, 2)
                /\ table' = table \ {Head(plugins).handle}
                /\ plugins' = Tail(plugins)
                /\ UNCHANGED <<cand, entry, tried, modH, running, dropped>>

\* ~CModMgr: ~CDLLMod and ~CDLL close.  Then the engine closes JASS and opens it
\* again for the next map, with its static data as at the start.  (It stays as
\* it was if JASS was also refused as a plugin: that ends the model.)
NextMap == /\ phase \in {"detach", "delete"} /\ plugins = << >>
           /\ mapped' = Closed(mapped, modH, 2)
           /\ table' = {} /\ modH' = NoLib /\ running' = 0 /\ tried' = 0 /\ dropped' = NoLib
           /\ phase' = IF mapped[SelfHandle].refs = 1 THEN "search" ELSE "stale"
           /\ UNCHANGED <<plugins, cand, entry>>

-----------------------------------------------------------------------------
LibNext == /\ UNCHANGED selfKnown
           /\ \/ \E f \in File, h \in Handle : \/ PluginRefused(f, h) \/ QueryFails(f, h)
                                               \/ AttachRefuses(f, h) \/ Attach(f, h)
              \/ \E k \in DOMAIN plugins : UnloadPlugin(k) \/ Detach(k)
              \/ \E h \in Handle : TryRefused(h) \/ TryOpens(h)
              \/ TryOpensNothing \/ LoadModFails
              \/ Stop \/ DeletePlugin \/ NextMap

LibSpec == LibInit /\ [][LibNext]_libVars

-----------------------------------------------------------------------------
\* The types, and: the table is exactly what CDLL objects hold, the one that
\* LoadMod let go included, so that a load is refused if and only if the library
\* is in use (util.cpp setmoduleloaded, setmoduleunloaded).
TableExact ==
  /\ mapped \in [Handle -> [file : File \cup {NoLib}, refs : Nat, refused : 0 .. 2, dropped : BOOLEAN]]
  /\ table = ({plugins[k].handle : k \in Active} \cup {modH, dropped}) \ {NoLib}

\* The code of a plugin that is attached and of the mod is mapped where it was
\* when it was loaded, whatever else is opened, refused and closed several times
\* over (CDLL.cpp Load, Unload); and so is that of JASS, unless it does not know
\* its own handle and is told to load itself (CDLL.cpp:45).
CodeStays ==
  /\ \A k \in Active : mapped[plugins[k].handle].file = plugins[k].file
  /\ running > 0 => mapped[modH].file = cand[running]
  /\ At(Self) = {} => phase = "unmapped" /\ ~selfKnown

\* What nobody uses any more is not mapped, so that it starts anew when it is
\* loaded again: unless LoadMod let it go, or two loads were refused while it
\* was open (CDLL.cpp:45 forgets the handle of a refused load).
Gone == \A h \in Handle \ (table \cup {plugins[k].handle : k \in DOMAIN plugins}) :
          mapped[h].file \in File \ {Self} => mapped[h].dropped \/ mapped[h].refused = 2

\* The mod is the first in the search order (CModMgr.cpp:59) that can be, and
\* LoadMod fails only if none can: one that is passed over has no entry points,
\* or comes after one that was opened in the same CDLLMod and has none.
Usable(c) == cand[c] \in entry
Blocked(c) == c \in {2, 4} /\ cand[c - 1] \in File \ (entry \cup {Self})
FirstFound == /\ running > 0 => \A c \in 1 .. running - 1 : Usable(c) => Blocked(c)
              /\ phase = "failed" => \A c \in 1 .. 4 : Usable(c) => Blocked(c)
=============================================================================
