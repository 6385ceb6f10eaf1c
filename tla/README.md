# JASS and EX-Plugin in TLA+

The repository holds two programs that live in one game server process (Jedi
Academy, 32-bit):

* **JASS** (`src/Jass_Source`, C++) stands between the engine and the mod's game
  library. Every call of the engine into the mod (`vmMain`) and every call of the
  mod into the engine (`syscall`) passes through it, and it offers both to a list
  of plugins, which may observe, override or suppress them.
* **EX-Plugin** (`src/Ex-Plugin/EX-Plugin`, C++) is such a plugin. It adds commands
  and map entities to the "Lugormod" mod by overwriting functions of the mod.

The specifications here are translated from that source. A definition's source
lines are in `PROJECT.json` under `map`; the comment above it says what was
abstracted.

## Inventory

Everything runs on one thread. What makes the code hard is **re-entrancy**: a
plugin hook, a `JASS_Attach`, a use function of an entity may call back into code
that is in the middle of a loop; and **lifetime**: libraries, objects and patched
code that outlive what they point at.

| part | state | operations | called by / calls | hard behaviours |
|---|---|---|---|---|
| plugin manager (`CPluginMgr.cpp`, `CPlugin.cpp`, `CLinkList.h`) | list of plugins, paused flags, static `CPlugin::result`, table of open DLLs | load, attach, refuse, pause, unpause, unload, force_unload, dispatch in two passes, destruction | `main.cpp`; plugins | list changes under the running loop, nested dispatches share one result |
| life cycle (`main.cpp`) | crash marker on disk, cvar `~jass_shutdown`, global manager pointers, `s_shutdown` | `dllEntry`, `GAME_INIT`, `jass shutdown`, `GAME_SHUTDOWN` | engine; all managers | crash at any point, the library is reloaded at each map, deleted managers |
| log (`util.cpp`) | buffer of 512 characters, mode, last dated second | `log_set`, `log_write`, `CloseLog` | everything | buffer boundary, a file that cannot be opened, clock |
| other utilities (`util.cpp`) | ring of 8 `vaf` buffers, module table, game log handle | `vaf`, cvar access, string search | everything | results kept too long |
| configuration (`CConfigMgr.cpp`) | the loaded database | `GetInt`, `GetStr`, lists | `main.cpp`, managers; pdb | used after deletion |
| mod and engine managers (`CModMgr.cpp`, `CDLLMod.cpp`, `CDLL.cpp`, `CEngineMgr.cpp`) | mod handle, DLL handles | `LoadMod` search order, `UnloadMod` | `main.cpp` | a freed mod object that stays reachable |
| DLL handles (`CDLL.cpp`, `util.cpp:136-186`) | a handle per object, the table of loaded modules | load, refuse, unload; the table's three operations | plugin manager, mod manager; `dlopen` | an object closes the same handle up to three times |
| plugin list (`CLinkList.h`) | first pointer, two pointers per node | add, del, first, next, searches by number and name | plugin manager | the loops count on their own beside the pointers |
| plugin API (`plugin.cpp`, `jassapi.h`) | none of its own | calls offered to plugins | plugins; plugin manager | stale plugin numbers |
| pdb (`pdb/src`) | tree, list and hash containers of named nodes | load, query, set, link, delete, unload, write | configuration | pointer surgery in the tree; a node used as another type |
| EX hooks (`XG-Hook.cpp`) | patched bytes and the saved ones, pointers left in the mod | `InitHooks`, six hooks | mod; JASS | lift, call, re-patch with nesting; unloading |
| EX delays (`XG-Hook.cpp:685-723`) | a deadline per client in each entity | use, think | mod | one think function for 32 deadlines, re-entry from its own loop |
| EX accounts (`Main.cpp`, `XG-Hook.cpp`) | pending level offers; the mod's credits and levels | `buylevel`, `confirm`, `crtransfer`, `accountedit`, credits entity | players | an offer that is stale when confirmed, 32-bit balances |
| EX pins (`Main.cpp:324-376, 836-915`) | file of salted hashes | setpin, login, chpin | players | – (not modelled) |
| EX helpers, traps, vendored headers, Crypto++ | – | – | – | – |

What would make each part correct is stated by the properties below; the hazards
of the code, each at its line, are in `PROJECT.json` under `hazards`.

## Modules

### `PluginMgr`, `PluginContract`

`PluginMgr` has the call stack as state: `stack[1..depth]`, one frame for each
activation of `CallvmMain`/`Callsyscall` (the same code twice), `LoadPlugin`,
`UnloadPlugin`, `LoadPlugins` and the destructor. A frame is in a loop (`pre`,
`post`, `conf`, `kill`) or waits for foreign code (`hook`, `posthook`, `orig`,
`exec`, `attach`, `discard`, `detach`, `killing`). Foreign code may return, or may
enter JASS again (`Enter`): that is every interleaving the program can have. List
nodes are numbered in the order of `add()`, so the list order is the order of the
numbers and `next` is the least live number above. `hist` is a history variable
that only the properties read.

`PluginContract` is the abstract specification: what each DLL may rely on
(`JASS_Attach` first; hooks only after it accepted and not while paused; one
`JASS_Detach`, not under one of its own hooks; nothing afterwards). `PluginMgr`
is shown to implement it through the refinement mapping `StateOf`, `RunningIn`.

What foreign code may do is limited as follows, and each limit is a real weakness
of the code, not of the model:

* `Freedoms` without `"selfUnload"`: no command issued from inside a plugin
  unloads a plugin that is on the call stack. With it the run `self_unload`
  shows the loop standing on a freed node.
* `jass shutdown` and `GAME_SHUTDOWN` come only outside a dispatch; inside one
  they delete the manager whose loop is running (`main.cpp:416`).
* While the manager is destroyed, `JASS_Detach` does not re-enter it
  (`main.cpp:620`).

### `PluginList`, `PluginSeq`

`CLinkList` as nodes with `first`, `next` and `prev`, and every loop over it that
is not a dispatch: adding, unloading, `FindPlugin` by number and by name,
`GetPluginID`, destruction. A round of a loop is a step, with the pointer and, where
the code counts, the counter. `order` is an auxiliary variable (the nodes in list
order); `kept` is a number that a plugin got from `GetPluginID` and keeps for
`pluginCall`. `PluginSeq` is the abstract specification: a sequence and atomic
calls. That is the order which `PluginMgr` assumes of its list.

### `Libraries`

Who keeps which library open. `mapped` is the dynamic linker (external: `dlopen`
counts and chooses an address, `dlclose` at zero frees it), `table` the array
`s_plugins` of `util.cpp`, `plugins` the `CDLL` of each listed plugin, `modH` and
`dropped` the handles of the `CDLLMod` in use and of the one that `LoadMod` lets
go. `Closed(m, h, n)` is n calls of `dlclose`: `CDLL::Unload` does not reset its
handle, and an object is unloaded, destroyed by `~CPlugin` and by `~CDLL`. The
search for the mod tries four files, two for each `CDLLMod`.

`selfKnown` is the platform: `get_modulehandle()` gives what `dlopen` would return
under Windows, and an address which is no handle under Linux. There a JASS that
is told to load itself as a plugin does not see that, finds no `JASS_Query` and
closes its own library twice (phase `unmapped`).

### `PdbTree`, `PdbDict`

`PdbTree` is `binarytree.c` pointer by pointer: each call descends a node at a
time, a deletion rewires `left`, `right` and `parent` as the code does, mistakes
included. Keys are numbers in the order of `strcmp`. `sub` is an auxiliary
variable, the set of nodes below each side of a node; it decides nothing and is
there for the proof. `PdbDict` is the dictionary it implements until a node with
two children is deleted (`torn`).

### `Pdb`, `PdbSpace`

The database over such trees, lists, hashes, strings and links, with the loader
(a token a step), `pdb_query_node`, `pdb_set_node`, `pdb_create_link`, `pdb_del`,
`pdb_unload` and the configuration manager's taking of any node for a list. The
code has no type checks where it follows a node's callbacks, so a call can end in
a `fate`: `crash` (a null callback or pointer), `wild` (a node taken for another
type), `hang`, `leak`. Trees and hashes are the dictionaries that `PdbTree` shows
them to be. `PdbSpace` is what callers expect: a space of names.

### `PdbText`

The text between the two: `Write...` lay a line out as `pdb_write` does, `Name` to
`Layout` are somebody who edits `jass.ini` in the form its readme describes, with
blanks, empty lines and comments where they may be. `Skip` to `Finish` are
`pdb_get_token` and `pdb_standard_load_node`, a lexeme a step, with the one
character that `is_opening_tok` peeks at and leaves unread. If there is none to peek
at, `feof` is set (`AtEof`), and an end of token is taken for the end of the file:
`LoseToken`. `clipped` is a history variable: somebody left the file with the end of a
string as its last character. A quoted text, a run of
blanks and a comment are one lexeme each, and every quoted text is a different
number. Words without quotes and odd quotes are not in the documented form and not
modelled. What the loader creates is the list `loaded`; what becomes of it in memory
is `Pdb` (`LoadLeaf`, `LoadBlock`, `LoadClose`).

### `PdbHash`, `PdbEntries`

What a hash node and a list node keep their children in: the table of `hash.c`
(`tbl`), each cell the `root` and `last` of a doubly linked list of `list.c` (`succ`,
`pred`), or one such list. `Add`, `Pass`, `Get` and `TakeOut` are the callbacks that
add, query and delete a child; `Visit` and `NextCell` the loop over all children,
which counting, writing and freeing share. What `hash_key` makes of a name is a
parameter. `PdbEntries` is what they amount to, and what `Pdb` takes them for:
entries in the order of their age, several of one name allowed, the oldest found.

### `JassLog`

`log_write` in modes 0, 1 and 2, the flush at the boundary of `szLogBuffer`, the
date that only the first record of a second carries, and `CloseLog`. Texts count
only by their length; the clock may jump; in some runs the file cannot always be
opened. Results of `write_log_to_HDD` are ignored, as in the code.

### `Lifecycle`

Extends `JassLog`. The handlers of `main.cpp` are cut at each place where the disk
changes or foreign code runs, because the process may die there (`Crash`). The
engine unloads the library at each map change: its statics are gone, the cvar
stays; after a crash or restart the cvar is gone and the file stays.

### `ExHooks`

The first bytes of four functions of the mod (`Site`) and what they hold: the
mod's own code or a jump to the plugin at a base address. A hook that calls the
original lifts its jump first and writes it again afterwards; in between the mod
may call any other hooked function. `use`, `think` and `spawn` are the other
pointers into the plugin that the mod keeps. What the mod does (calls, returns,
frees entities, ends the map) is external.

### `TargetDelay`, `Accounts`

`TargetDelay` is one per-player `target_delay`: `Frame` passes time, each turn of
the loop of `TargetDelayThink` is a step, and `Rearm` is the target chain that
leads back to the entity from inside the loop. Time is counted in frames, `Period`
frames are the second of the code.

`Accounts` is what moves credits and levels. Logging in and out, and cvar changes,
are external. `Price` stands for `F_curve`: the price of a level depends on the cap
and on `curve`, which are three cvars that each command reads anew and that may
change between two commands (`SetCap`, `SetCurve`). Values for which the curve is no
number (a cap of one, price cvars that are equal or not above zero) are excluded;
the mod's own changes of credits are not modelled. `Width` is the width of
`int`, and additions wrap as the build's do. `fair`, `excused` and `bank` are
history variables: an offer is fair while nothing it was based on has changed.

## Runs

| run | instance | shows |
|---|---|---|
| `plugin_mgr` | 2 DLLs with different rights, 3 list nodes, 2 nested activations, early `JASS_SET_RESULT` | the original runs exactly once unless somebody superceded; no steady plugin is overlooked or asked twice although the list changes; no verdict is left over |
| `plugin_mgr_deep` | 2 nodes, 3 nested activations | no cursor on a freed node, no call in a closed DLL, the value returned is that of the last claimant |
| `calls_return` | 3 nodes, 2 activations, fairness | `PluginMgr` implements `PluginContract`; every call into JASS returns |
| `supercede_returned` | violation | `jassapi.h:149` promises that the result of a superceding plugin is returned; `CPluginMgr.cpp:254` lets a later OVERRIDE replace it |
| `self_unload` | violation | a plugin unloaded from inside its own hook is freed under the loop |
| `host` | log: 3 text lengths around the buffer size, 4 settings, failing disk, 4 records; list: 3 plugins, 4 nodes, 2 names; libraries: 3 files with JASS's own, 2 plugins, 4 addresses, 4 references; database: 4 nodes, 2 names, depth 2, all five node types; chains: 3 children, 4 list nodes, 3 names of which two share a cell, tables of 1 and 2 cells, a list | the log is complete, ordered and can be dated; the list implements a sequence and numbers stay valid; code in use stays mapped, code out of use does not, the right mod is found; the database has no lost or doubly held node and is a space of names; a hash and a list are entries in the order of their age |
| `lifecycle` | life cycle: 4 loads of the library, all events; text: all files of 5 entries by `pdb_write`, of 7 lexemes by hand; tree: 5 nodes, 5 keys, 1 call after a tearing | crashes are reported and only crashes, the shutdown mode is permanent, no deleted manager is used, a stop keeps the log; what was meant in a file is what is loaded; the tree implements the dictionary, its pointers are right and no freed node is read, until a node with two children is deleted |
| `exec_shutdown` | violation | `jass shutdown` in `jassconfig.cfg` deletes managers that `GAME_INIT` then uses |
| `ex_play` | accounts: 2 slots, 2 accounts, 2 caps, 2 curves, 8-valued int; delays: 3 clients, period 2; hooks: 2 bases, 2 entities, 6 nested calls | credits are conserved, no debt and no level above the cap from a fair offer; delays fire, and on time; every site is hooked or lifted by its own hook, each outermost call passes the hook once, nothing dangles while the plugin stays until the map ends |
| `hooks_unload` | violation | `Main.cpp:20` declares the plugin unloadable; `JASS_Detach` leaves its jumps behind |
| `pdb_tree_delete` | violation | a deletion with two children drops the right subtree of the successor (`binarytree.c:355`) |
| `pdb_text_comments` | violation | "Text after # symbol is ignored" (`jass.ini:3`), but the comment takes the end of its line, and of the entry before it, away (`pdb_parse.c:333`) |

Seven lexemes are a string in a block in the closest layout with a blank or comment
anywhere; five entries are a string in a block in a hash. (Nine by hand pass, too, in
a run of `PdbText` alone.)

`MCHost`, `MCStart` and `MCExPlay` are sums, not products: a behaviour is one of a single part
of those they join. In the program the parts share no state of those that are
modelled, or are sequential (a log record, a list operation, the opening of a
library and a query of the database each end before the next begins), so a product
would multiply the states and show nothing more. Where parts do interact they are
composed: `Lifecycle` runs on top of `JassLog`, and `PluginMgr` has the manager, the
plugins and the hooks that re-enter it on one call stack.

**Why the bounds are enough.** Two plugins are needed for an order between verdicts
and a third node for an addition or removal on either side of a cursor; two
activations for a list change under a loop, three for a nested dispatch whose own
hook changes the list. Four library loads cover start, crash, restart and the
report after it, with a shutdown mode in between. The log sizes are chosen so that
records fill the buffer exactly, overflow it by one, and exceed it alone. Eight
values of `int` are enough to wrap and to be in debt. Six nested calls let each of
the two lifting hooks be nested in the other and be called again inside. Three
plugins are the first, a middle and the last of a list, and the fourth node is one
that was freed; two names, one of which two plugins share, give the searches a
unique, an ambiguous and an absent answer. Three files are JASS, the mod and a
plugin, which may also be each other; four references are one object's two plus
another's two. Five keys are the fewest with which a deletion walks down to a
successor that has a subtree of its own. Four nodes of the database are a root, a
container and two children in it, so that a child can be removed first or second;
in it all five node types can stand in each other's place. Three children are two of
one cell and a third of it or of the other, so that the first, the middle and the last
of a chain can be taken out.

What TLC shows within these bounds the theorems below show without them, for all of
these parts except the two liveness properties.

**Deadlock** is not checked where the system really may stop: after `jass shutdown`
or `GAME_SHUTDOWN` with the bounds on loads used up, after a read of freed memory,
when JASS is unmapped, when the database met its `fate`, or when the bound on
list nodes or records is reached. In `ex_play` it is checked; `Halts` is the stuttering of a
process that jumped into unmapped code.

**Fairness.** `calls_return` assumes that JASS runs on when it has control (weak
fairness of `Step`) and that foreign code returns from each level in the end, even
if it re-enters JASS any number of times first (strong fairness per level, since a
re-entry disables the return below). Both are what a single-threaded host
provides; commands from outside are not fair. `ex_play` assumes that frames keep
coming (the engine sends `GAME_RUN_FRAME`) and that a loop runs on.

**Exceptions inside properties.** Some properties name a case in which the code
does not keep them. Each is a flaw one should know of:

* `CrashReported` with `mute`: a session that ends in shutdown mode returns before
  the marker is rewritten, so the next start reports a crash that was none.
* `StopKeepsLog` with `mute` or `detachLogs`: the log is not closed in shutdown
  mode (`main.cpp:127`), and is closed before the plugins are detached
  (`main.cpp:618`): what is logged after that stays in the buffer.
* `ManagersLive` with `modFails`: `CModMgr::LoadMod` deletes the mod and keeps the
  pointer; `execShutdown` is the run `exec_shutdown`.
* `Gone` with `dropped`: `LoadMod` replaces the `CDLLMod` of the configured file by
  that of the install directory and never deletes it (`CModMgr.cpp:105`). With
  `refused = 2`: a load that is refused forgets the handle it opened
  (`CDLL.cpp:45`), so every refused load leaves a reference, and the closings of
  the object that does hold the library make up for only one.
* `FirstFound` with `Blocked`: one `CDLLMod` tries two files, and one it opened
  without finding entry points keeps it from opening the second.
* `CodeStays` with `unmapped`: see `Libraries` above.
* `NamesKept` with `Twins` and a `fate` other than ok: a list, and a hash filled from
  a file or with links, may hold a name twice, and a deletion frees the one that
  was found but takes away the first of that name.
* `ReadAsMeant` without comments behind an entry that has no semicolon: see
  `pdb_text_comments`. With `clipped`: a string whose semicolon or newline is the last
  character of the file is lost (`pdb_parse.c:136`).
* `WellLinked` and `DictUntilTorn` with `torn`: see `pdb_tree_delete`.
* `Hooked`, `Intercepted` and `NothingDangles` with `left`: see `hooks_unload`.
* `NoDebt` and `CapRespected` with `excused`: `/confirm` checks nothing again, so
  whoever confirms after a change of account, credits, level, cap or price cvars may
  go into debt or pass the cap; and a balance may wrap.
* `Punctual` and `Fires` with `think = "mod"`: the original use function leaves the
  mod's think function in the entity and `XG-Hook.cpp:716` then never sets the
  plugin's. `Fires` also needs spawnflag 1: without it a client that keeps using
  the entity postpones its own delay forever.

## Proofs

Eight modules hold theorems, for every value of the constants under the named
assumptions of the modules (`Parameters`, `LogParameters`, `LifeParameters`,
`AccountParameters`, `DelayParameters`, `HookParameters`, `ListAssumption`,
`TreeAssumption`, `TextAssumption`, `LibAssumption`, `HashAssumption`,
`PdbAssumption`). They say of
which types the constants are and that null values are no addresses; bounds may be
any numbers (of `Pdb`'s paths at least 1 deep).

* `PluginMgr_proofs`: `TypeCorrect` (`[]TypeOK`) and `CursorsStayLive`
  (`[]CursorLive` when `"selfUnload"` is not among the freedoms). `TypeOK` is
  inductive as it stands; its proof is split by the actions that go round a loop
  (`LoopTypes`), that return to the frame below (`ReturnTypes`) and that enter a
  new activation (`EnterTypes`), over lemmas for pushing, popping and rewriting a
  frame. `CursorLive` is not inductive. The invariant `Cursors` adds `DetachAlone`
  (no frame below a running detach stands on the node being detached, which the
  guard of `Unload` establishes and later pushes keep) and `KillOutermost` (the
  loop of the game's shutdown is only ever the outermost frame). With them the
  two steps that free nodes are safe: `DetachReturns` frees the node of the top
  frame only, and `Killed` frees every node when no other frame is left.
  Four more theorems rest on one invariant about dispatches, `Passes`:
  `OriginalRunsUnlessVetoed` (`[]OriginalUnlessVetoed`), `LastClaimReturns`
  (`[]ReturnProvenance`), `NobodyIsOverlooked` (`[]NobodyOverlooked`) and
  `NobodyIsAskedTwice` (`[]NeverTwice`). For each frame it says what the frame and
  its own history know of each other (`Judged`: the maximum verdict and the vetoes;
  `Claimed`: the value and the claims; `Ordered`: who was called lies before the
  cursor; `Heard`: every steady plugin before the cursor was called) and that the
  steady plugins are listed and unpaused. Nothing in it relates two frames: commands
  nested in a hook reach the frames below only through the list, which can make a
  plugin unsteady (`UnsteadyPasses`) but never inserts one before a cursor.
  `ResultIsClean` (`[]ResultClean`) is inductive: only a hook writes the shared
  result, and only the return from a hook, which resets it, ends a hook.
  `CodeStaysMapped` (`[]CodeMapped`, again without `"selfUnload"`) needs `Owned`: no
  two nodes and no two activations of `LoadPlugin` hold one DLL, so closing one
  unmaps nobody else's code, and the destruction of the manager closes the DLLs in
  the order of the list (`Opened`) with nothing else running (`KillAlone`).
  `ManagerKeepsContract` is the refinement of `PluginContract`, again without
  `"selfUnload"`. What the mapping reads of the whole stack changes at the top frame
  only, so each step is compared with the contract one plugin at a time (`Rest`,
  `InHooks`); `ContractInv` adds to `Owned` that a node is not paused before it is
  used (`Fresh`) and that a plugin which the dying manager has unloaded is closed
  (`Shut`), without which it would seem attached a second time.
* `Lifecycle_proofs`, of the log: `LogTypeCorrect` (no overflow of the buffer),
  `NoRecordLost` (`[]NothingLost`) and `RecordsAreDated` (`[]Datable`). The invariant
  adds that in modes other than 1 the buffer is empty, without which the direct write
  would put a record before an older one; for the dates (`Dates`), that the second
  which the code remembers is that of the last record, and that each record has one
  of its own second, dated, at or before it, with none dated in between.
  Of the life cycle, on top of that: `LifeTypeCorrect`,
  `CrashesAreReported`, `ShutdownIsPermanent`, `ManagersAreLive` and, if the file can
  always be opened, `StopsKeepTheLog`. The type invariant is strengthened by `Mode`
  (the static `s_shutdown` is what the cvar says, except between the start and the
  reading of it and in the middle of a shutdown). On it rest four independent
  invariants, one for each property: `Marker` says what the crash file holds at
  each place, `Unplugged` that no plugin is attached in shutdown mode,
  `Managers` which objects live at each place, `Kept` what of the log is written.
* `ExPlugin_proofs`, of the hooks: `HooksHold` (`[]Hooked`), `CallsIntercepted`
  (`[]Intercepted`) and `NothingLeadsAstray` (`[]NothingDangles`), all from one
  invariant `HookInv`. Its
  heart is `Frames`: a call runs the mod's body of a hooked function if and only if
  the hook of that function below it has lifted the jump. A push keeps that
  (`PushKeeps`) because what a site holds is known from what is lifted (`Leads`); a
  pop of a lifting hook makes the site hooked again because no second frame can
  have lifted it (`PopKeeps`). The nesting is unbounded (`MaxDepth` is any number).
  Of the accounts: `AccountTypeCorrect`, `NobodyOwes` (`[]NoDebt`) and
  `NoLevelAboveCap` (the action property `CapRespected`). The strengthening is that
  every fair offer is affordable: its account is logged in, below the cap, and
  holds the price under the cap and the curve as they are. Each action, a change of
  the cvars included, either leaves the terms alone or ends fairness.
  `CreditsAddUp` (`[]Ledger`) needs that a sum over accounts follows its terms. A sum
  is a fold, a recursive function over finite sets: `SumsExist` shows that a function
  with its equation exists, by a smallest counterexample (`LeastNat`), `SumChanges`
  that it changes by as much as one term does, and `ModTurns` and `ModAdds` that
  what wraps in a balance wraps in the sum.
  Of the delays: `DelayTypeCorrect` and `DelaysArePunctual`. The invariant
  relates each pending deadline to the time of the next think between frames
  (`BetweenFrames`) and, inside the loop, to the position of the loop (`InLoop`).
  The count of frames after a deadline stops at `-MaxLate`, so `Punctual` says
  something only when `MaxLate > Period`, as in the run (3 and 2).
* `PluginList_proofs`: `ListIsLinked` (`[]Linked`), `NumbersHold` (`[]NumberHolds`) and
  `ListImplementsSeq` (`ListIsSeq`, the refinement of `PluginSeq`). `Walking` says
  what each loop knows of the nodes it passed; `Linked` is kept because the count
  of the loop says where in `order` the node stands that is linked or unlinked.
* `Libraries_proofs`: `TableIsExact`, `LibrariesStay`, `UnusedIsGone` and
  `FirstModFound` (`[]` of `TableExact`, `CodeStays`, `Gone` and `FirstFound`), from
  `LibInv`. Its heart is that handles are not shared: the linker maps a file at one
  address (`Once`), each handle in the table has one holder (`Holders`), and an object
  that was unloaded remembers none that the mod holds (`Apart`). So closing a handle
  again can only meet a library that nobody holds, and `Counted` bounds the references
  that refused loads leave. `Order` says what the search for the mod has passed over.
* `PdbTreeText_proofs`, of the tree: `TypeCorrect`, `LinksHold` (`[]WellLinked`) and `TreeIsDict`
  (`DictUntilTorn`, the refinement of `PdbDict`). The argument never follows a path,
  which would need induction: `sub` says which nodes hang below each side of each
  node, and the parts of `Sound` say that it agrees with the pointers, is sorted,
  and that the node looked for is below the current node of the search.
  Of the text: `FilesAreReadAsMeant` (`[]ReadAsMeant` where no comment stands for the
  end of a line, `~LooseComments`), for files of any length. What an author may write
  is a path through marks (`Reaches`): a mark says how many entries there are, which
  blocks are open and what there is of the next entry, and each lexeme leads from one
  mark to the next (`Writes`). `TextInv` says that what is left of the file is such a
  path from the mark that the loader agrees with (`Agrees`: so many entries, so deep,
  with that much of the next in its token) to the one where the author is (`OnTheWay`),
  or else that the file is at its end and its last string lost (`Lost`); a mark says
  whether the lexeme before it ended a string (`cut`), so that `clipped` is known of
  the last one. An author
  makes the path longer at its end (`Wrote`; each line of `pdb_write`, a hash with its
  size on a line of its own included, is a path of several lexemes), the loader
  shorter at its beginning (`Advance`). Where it takes a blank for the token after it
  and leaves that unread, `Sight` gives the two steps of the path that it looks at, and
  a mark passes over an opening token whose block is open already.
* `PdbHash_proofs`: `ListsStayChained` (`[]Chained`) and `TablesAreEntries` (`IsEntries`,
  the refinement of `PdbEntries`), from `HashInv`. A cell's chain is not taken as a
  sequence but as an order: what comes before and after a link in `ages` among those of
  its cell (`Row`), so that nothing is filtered. `Searched` says that a search has not
  come past an entry of the name, `Visited` that a loop over all entries has come past
  those before the place where it stands, each once and in order.
* `Pdb_proofs`: `NodesStayAttached` (`[]Attached`) and `NamesAreKept` (`NamesKept`: the
  initial condition of `PdbSpace`, and each step that succeeds without twins is one of
  it). `PdbInv` says that the nodes are one tree (`Grown`): `Held` and `Holders` relate a
  node to its parent both ways, and `Ranked`, that some number falls from each node to
  its parent, excludes a ring that holds itself. `Loads` says that the open blocks lead
  from the root down. A deletion takes a set `Whole[w]` of nodes, of which only three
  facts are used: it holds the children of its nodes, of each but `w` the parent, and
  `w`. For the second theorem a path is charted: `Way` is the node that each path leads
  to, and follows from the root and from where each name leads on from each node
  (`Follows`, `Leads`). `AddedWay`, `CutWay` and `SameWay` say how it changes with a new
  node, with a deletion and not at all, each by induction over the length of paths
  (`OnPaths`).

Only model-checked:

* liveness (`CallsReturn`, `Fires`), which is out of the prover's reach.

## What the code does that one should know of

Met while modelling, none of them needed for a property, or named in one as an
exception:

* A name that a tree already has drops a leaf of the file silently, and a block is
  loaded into a null node (`pdb_types.c:372`): the process dies.
* A closing token ends the innermost block whatever its kind, and one that nothing
  opened ends the load.
* A string whose semicolon or newline is the last character of the file is lost
  (`pdb_parse.c:136`): the look at the next character has set `feof`, and the finished
  token is freed. A last line without any end is dropped as well.
* A string without an end before a closing bracket on its line is dropped, and the
  bracket, which was only peeked at, closes the block around it as well.
* `pdb_del("/")` frees the root and leaves `pdb_root` pointing to it.
* Deleting a child of a list that is not its first never ends (`pdb_types.c:819`).
* Setting a hash that exists gives it a new, empty table and leaks the old one.
* A hash that a file opens without its size stays in the database without a table and
  ends the load; a query below it, and `pdb_unload`, follow the null pointer
  (`pdb_types.c:954`; `LoadUnsized` of `Pdb`). A negative size makes a table of no
  memory, with the same end; it is not modelled.
* `hash_add` answers 1 also if there was no memory for the list of the cell.
* `CConfigMgr` calls `pdb_enable` whether or not the file could be read, and hands
  out any node as a list.
* Every refused load of a library that is open leaves one reference to it.
* A `target_delay` whose `random` is larger than its `wait` may set a deadline in the
  past (`XG-Hook.cpp:711`); deadlines of `TargetDelay` are never before the use.

## Not modelled, and why

Most of the repository's lines (some 80 of 93 thousand) are the game SDK, once for
each program, and Crypto++: third-party headers and sources from which the programs
take types and a hash. They are not modelled, and with them a high share of the
whole cannot be reached; of the programs' own code the parts below are left out.

* `game_api.cpp`, `osdef.*`: constant tables and shims. `Traps.cpp`: wrappers of
  engine calls. Vector arithmetic and text formatting of `XG-Function.cpp`.
* pdb: the settings and the write interval, what int and abstract nodes hold in memory
  (like strings, or never used by JASS), `list_shuffle` and the other functions of
  `list.c` that are only called with settings JASS never enables, or not at all.
* `util.cpp`: the ring of `vaf` buffers, string searches, cvar reader, game log handle:
  each user in the repository takes the result at once.
* Client names (`main.cpp:507-588`): the layout of a local array. The antiddos
  forwarding and the listing commands only read.
* `CEngineMgr` and the mod types that newmod tells apart: strings read once.
* EX-Plugin's pins: each command is one lookup and at most one write of an ini file
  through a third-party class.
* EX-Plugin's command entities, admin commands and `TargetLCUse` beyond its account
  branch: a switch over some thirty independent one-line effects in the mod's
  memory, which is not in the repository.

## Order of the work, and what is left

The modules were written in the order of their weight: the dispatcher, its
contract, the log, the life cycle, the hooks, delays and accounts; then the
database's tree and the database, the plugin list, the libraries; and proofs as soon
as TLC agreed. What would come next is `Libraries` composed with `PluginMgr`: a
`JASS_Attach` that loads further plugins while its own library is not yet in the list.
