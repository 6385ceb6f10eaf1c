------------------------------- MODULE MCHost -------------------------------
(* Instances for TLC of five parts of JASS that share no state: the log,   *)
(* the plugin list, the libraries, the parameter database and the chains   *)
(* of one container of it.  A behaviour is one of one part: the product    *)
(* would only multiply the states.                                         *)
(*   Log: a short text, one that fills the buffer to its last character    *)
(* together with a date, and one that is longer than the buffer.           *)
(*   Database: four nodes are a root, a container and two children in it.  *)
(*   Chains: "b" and "d" fall into one cell of two, "c" into the other, so   *)
(* that a cell has entries of one name and of two.                         *)
EXTENDS JassLog, PluginList, Libraries, Pdb, PdbHash, TLC

CONSTANTS short, exact, long,            \* texts
          m1, m2, m3, m4,                \* memory
          x, y, z,                       \* plugins
          jass, f, g                     \* library files

MCText == {short, exact, long}
MCSize == [t \in MCText |-> CASE t = short -> 1 [] t = exact -> 3 [] t = long -> 9]
MCTime == {1, 2}
AllModes == {0, 1, 2, 3}     \* 3 is not a mode: log_set takes 1

MCHas == [p \in {x, y, z} |-> CASE p = x -> {"a"} [] p = y -> {"a", "b"} [] p = z -> {"b"}]
MCNumber == -1 .. 2

Memory == {m1, m2, m3, m4}
MCNodeAddr == 1 .. 4
MCKinds == {"tree", "list", "hash", "string", "link"}
MCKid == 1 .. 3
MCKey == [i \in {"b", "c", "d"} |-> CASE i = "b" -> 1 [] i = "c" -> 2 [] i = "d" -> 3]

AnyPlace == Permutations(Memory)

VARIABLE part

hostVars == <<part, logVars, listVars, libVars, pdbVars, hashVars>>

HostInit == /\ part \in {"log", "list", "libraries", "pdb", "chains"}
            /\ LogInit /\ ListInit /\ LibInit /\ PdbInit /\ HashInit
            /\ part # "log" => \A t \in Time : now <= t
            /\ part # "libraries" => entry = {} /\ \A c \in 1 .. 4 : cand[c] = NoLib

Log == part = "log" /\ LogNext /\ UNCHANGED <<part, listVars, libVars, pdbVars, hashVars>>
List == part = "list" /\ ListNext /\ UNCHANGED <<part, logVars, libVars, pdbVars, hashVars>>
Libs == part = "libraries" /\ LibNext /\ UNCHANGED <<part, logVars, listVars, pdbVars, hashVars>>
Db == part = "pdb" /\ PdbNext /\ UNCHANGED <<part, logVars, listVars, libVars, hashVars>>
Chains == part = "chains" /\ HashNext /\ UNCHANGED <<part, logVars, listVars, libVars, pdbVars>>

HostNext == Log \/ List \/ Libs \/ Db \/ Chains

HostSpec == HostInit /\ [][HostNext]_hostVars
=============================================================================
