----------------------------- MODULE PluginList -----------------------------
(***************************************************************************)
(* The list that CPluginMgr keeps its plugins in (CLinkList.h) and the     *)
(* loops that walk it: LoadPlugin's add, UnloadPlugin, GetPluginID, the    *)
(* two FindPlugin and the destructor.  A round of a loop is one action.    *)
(* pluginCall (plugin.cpp) keeps the number that GetPluginID gave it.      *)
(*                                                                         *)
(* A call runs to its end before the next: what plugins do from inside     *)
(* Unload and Attach is the subject of PluginMgr.  CLinkList::insert is    *)
(* instantiated nowhere.                                                   *)
(***************************************************************************)
EXTENDS Integers, Sequences

CONSTANTS Cell,       \* the addresses of CLinkNode objects
          Plugin,     \* the addresses of CPlugin objects
          Name,       \* texts that plugins are looked for with
          Has,        \* Has[x]: the texts that the name of x contains
          Number,     \* the numbers asked for
          NULL

ASSUME ListAssumption == /\ NULL \notin Cell \cup Plugin
                         /\ Has \in [Plugin -> SUBSET Name]
                         /\ Number \subseteq Int

VARIABLES first,      \* CLinkList::_first
          next,       \* CLinkNode::_next
          prev,       \* CLinkNode::_prev
          item,       \* CLinkNode::_data
          order,      \* auxiliary: the nodes allocated, in the order of the list
          call,       \* the call in progress
          cur,        \* its p
          last,       \* its q, or found
          count,      \* rounds of its loop: i, where the code counts
          ans,        \* the last answer
          kept        \* the number a plugin got from GetPluginID, what it then
                      \* meant, and whether an unload has moved it since

cells == <<first, next, prev, item, order>>
listVars == <<cells, call, cur, last, count, ans, kept>>

Length == Len(order)
Listed == [k \in 1 .. Length |-> item[order[k]]]
NoCall == [op |-> "none"]
NoNumber == [num |-> -1, plugin |-> NULL, moved |-> FALSE]
Calls == [op : {"add", "unload"}, plugin : Plugin] \cup [op : {"find"}, num : Number]
           \cup [op : {"id", "name"}, text : Name] \cup [op : {"destroy"}]

Blank == [n \in Cell |-> NULL]

\* What a node held does not matter once it is freed: its fields are blank.
ListInit == /\ first = NULL /\ next = Blank /\ prev = Blank /\ item = Blank
            /\ order = << >>
            /\ call = NoCall /\ cur = NULL /\ last = NULL /\ count = 0
            /\ ans = NULL /\ kept = NoNumber

-----------------------------------------------------------------------------
(* What all the loops share                                                *)

\* LoadPlugin adds a CPlugin that it has just made.
Begin(c) == /\ call = NoCall
            /\ c.op = "add" => \A k \in 1 .. Length : item[order[k]] # c.plugin
            /\ call' = c /\ cur' = first /\ last' = NULL /\ count' = 0
            /\ UNCHANGED <<cells, ans, kept>>

In(op) == call.op = op
Return(v) == /\ ans' = v /\ call' = NoCall
             /\ cur' = NULL /\ last' = NULL /\ count' = 0

Matches(n) == call.text \in Has[item[n]]

\* This node is not the one: p = p->next().
Passed == \/ In("unload") /\ item[cur] # call.plugin
          \/ In("find") /\ call.num >= 0 /\ count # call.num
          \/ In("id") /\ ~Matches(cur)
          \/ In("name") /\ ~Matches(cur)

PassBy == /\ cur # NULL
          /\ Passed
          /\ cur' = next[cur] /\ count' = count + 1
          /\ UNCHANGED <<cells, call, last, ans, kept>>

\* The loop ends at the end of the list.
Exhausted == /\ cur = NULL
             /\ \/ In("unload") /\ Return(0)
                \/ In("find") /\ Return(NULL)
                \/ In("id") /\ Return(-1)
                \/ In("name") /\ Return(last)
             /\ kept' = IF In("id") THEN NoNumber ELSE kept
             /\ UNCHANGED cells

-----------------------------------------------------------------------------
(* CLinkList::add, called by LoadPlugin                                    *)

AddWalk == /\ In("add") /\ cur # NULL
           /\ last' = cur /\ cur' = next[cur] /\ count' = count + 1
           /\ UNCHANGED <<cells, call, ans, kept>>

AddLink(n) ==
  /\ In("add") /\ cur = NULL
  /\ \A k \in 1 .. Length : order[k] # n
  /\ first' = IF last = NULL THEN n ELSE first
  /\ next' = [c \in Cell |-> IF c = n THEN NULL ELSE IF c = last THEN n ELSE next[c]]
  /\ prev' = [prev EXCEPT ![n] = last]
  /\ item' = [item EXCEPT ![n] = call.plugin]
  /\ order' = Append(order, n)
  /\ Return(1)
  /\ UNCHANGED kept

-----------------------------------------------------------------------------
(* UnloadPlugin, with CLinkList::del                                       *)

\* Unload(iscmd) may be refused by the plugin's rights.
NotAllowed == /\ In("unload") /\ cur # NULL
              /\ item[cur] = call.plugin
              /\ Return(0)
              /\ UNCHANGED <<cells, kept>>

Cut(s, k) == [j \in 1 .. Len(s) - 1 |-> IF j < k THEN s[j] ELSE s[j + 1]]

\* mutant: the node behind still points back to the one that is deleted.
Unlink_OneWay ==
  /\ In("unload") /\ cur # NULL
  /\ item[cur] = call.plugin
  /\ first' = IF prev[cur] = NULL THEN next[cur] ELSE first
  /\ next' = [c \in Cell |-> IF c = cur THEN NULL
                            ELSE IF c = prev[cur] THEN next[cur] ELSE next[c]]
  /\ order' = Cut(order, count + 1)
  /\ kept' = [kept EXCEPT !.moved = @ \/ count <= kept.num]
  /\ Return(1)
  /\ UNCHANGED <<item, prev>>

Unlink ==
  /\ In("unload") /\ cur # NULL
  /\ item[cur] = call.plugin
  /\ first' = IF prev[cur] = NULL THEN next[cur] ELSE first
  /\ next' = [c \in Cell |-> IF c = cur THEN NULL
                            ELSE IF c = prev[cur] THEN next[cur] ELSE next[c]]
  /\ prev' = [c \in Cell |-> IF c = cur THEN NULL
                            ELSE IF c = next[cur] THEN prev[cur] ELSE prev[c]]
  /\ item' = [item EXCEPT ![cur] = NULL]
  /\ order' = Cut(order, count + 1)
  /\ kept' = [kept EXCEPT !.moved = @ \/ count <= kept.num]
  /\ Return(1)

-----------------------------------------------------------------------------
(* GetPluginID, FindPlugin                                                 *)

\* mutant: the number is counted up before the name is looked at.
Counted_Late == /\ In("id") /\ cur # NULL /\ Matches(cur)
                /\ kept' = [num |-> count + 1, plugin |-> item[cur], moved |-> FALSE]
                /\ Return(count + 1)
                /\ UNCHANGED cells

Counted == /\ In("id") /\ cur # NULL /\ Matches(cur)
           /\ kept' = [num |-> count, plugin |-> item[cur], moved |-> FALSE]
           /\ Return(count)
           /\ UNCHANGED cells

Reached == /\ In("find") /\ cur # NULL /\ count = call.num
           /\ Return(item[cur])
           /\ UNCHANGED <<cells, kept>>

Negative == /\ In("find") /\ call.num < 0
            /\ Return(NULL)
            /\ UNCHANGED <<cells, kept>>

FirstOfName == /\ In("name") /\ cur # NULL /\ Matches(cur) /\ last = NULL
               /\ last' = item[cur]
               /\ cur' = next[cur] /\ count' = count + 1
               /\ UNCHANGED <<cells, call, ans, kept>>

\* mutant: the first of that name will do.
Ambiguous_First == /\ In("name") /\ cur # NULL /\ Matches(cur) /\ last # NULL
                   /\ Return(last)
                   /\ UNCHANGED <<cells, kept>>

Ambiguous == /\ In("name") /\ cur # NULL /\ Matches(cur) /\ last # NULL
             /\ Return(NULL)
             /\ UNCHANGED <<cells, kept>>

-----------------------------------------------------------------------------
(* ~CLinkList                                                              *)

DeleteNode == /\ In("destroy") /\ cur # NULL
              /\ cur' = next[cur] /\ count' = count + 1
              /\ UNCHANGED <<cells, call, last, ans, kept>>

Destroyed == /\ In("destroy") /\ cur = NULL
             /\ first' = NULL /\ next' = Blank /\ prev' = Blank /\ item' = Blank
             /\ order' = << >>
             /\ kept' = NoNumber
             /\ Return(NULL)

-----------------------------------------------------------------------------
ListNext == \/ \E c \in Calls : Begin(c)
            \/ PassBy \/ Exhausted
            \/ AddWalk \/ \E n \in Cell : AddLink(n)
            \/ NotAllowed \/ Unlink
            \/ Counted \/ Reached \/ Negative \/ FirstOfName \/ Ambiguous
            \/ DeleteNode \/ Destroyed

ListSpec == ListInit /\ [][ListNext]_listVars

-----------------------------------------------------------------------------
\* The nodes that are allocated are what the pointers lead through, once and in
\* the order of loading, forwards and backwards, and a loop stands on the node
\* that its count says (CLinkList.h add, del).
Linked ==
  /\ order \in Seq(Cell)
  /\ {next, prev} \subseteq [Cell -> Cell \cup {NULL}]
  /\ item \in [Cell -> Plugin \cup {NULL}]
  /\ \A j, k \in 1 .. Length : order[j] = order[k] => j = k
  /\ \A k \in 1 .. Length : item[order[k]] \in Plugin
  /\ first = IF Length = 0 THEN NULL ELSE order[1]
  /\ \A k \in 1 .. Length :
       /\ next[order[k]] = IF k = Length THEN NULL ELSE order[k + 1]
       /\ prev[order[k]] = IF k = 1 THEN NULL ELSE order[k - 1]
  /\ call # NoCall => /\ count \in 0 .. Length
                      /\ cur = IF count = Length THEN NULL ELSE order[count + 1]

Q == INSTANCE PluginSeq WITH seq <- Listed, pend <- call, Text <- Name

\* Pointers, loops and counters together are a sequence of plugins: a plugin is
\* found under the number of its position, GetPluginID names the first and
\* FindPlugin the only one of a name, and an unload moves the ones behind it
\* up and nothing else (CPluginMgr.cpp UnloadPlugin, FindPlugin, GetPluginID).
ListIsSeq == Q!Init /\ [][Q!Next]_(Q!vars)

\* A number that a plugin keeps for pluginCall leads to the plugin that it was
\* given for, whatever was loaded since, until that plugin or one before it is
\* unloaded (plugin.cpp plugin_CallPlugin).
NumberHolds == kept.num >= 0 /\ ~kept.moved => /\ kept.num < Length
                                               /\ Listed[kept.num + 1] = kept.plugin
=============================================================================
