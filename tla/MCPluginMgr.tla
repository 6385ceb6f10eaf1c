--------------------------- MODULE MCPluginMgr ---------------------------
(* Instances of PluginMgr for TLC: two plugin files with different rights, *)
(* both listed in jass.ini.                                                *)
EXTENDS PluginMgr

CONSTANTS f1, f2

MCFile == {f1, f2}
MCConfList == <<f1, f2>>
OnlyF1 == {f1}
OnlyF2 == {f2}
BothFiles == {f1, f2}
NoFreedom == {}
EarlySet == {"earlySet"}
SelfUnload == {"selfUnload"}
==========================================================================
