------------------------------ MODULE Accounts ------------------------------
(* The credits and levels that EX-Plugin moves (src/Ex-Plugin/EX-Plugin):  *)
(* /buylevel makes an offer that a later /confirm carries out, /crtransfer *)
(* pays another account, lmd_plugin entities pay or charge whoever uses    *)
(* them, and accountedit sets levels.  Accounts belong to the mod; players *)
(* log in, log out, leave and join between any two commands, and cvars of  *)
(* the price change.                                                       *)
(*                                                                         *)
(* The offer is one flag of the client slot.  It says nothing of who it    *)
(* was made to, of the level or of the price, nothing but an answer takes  *)
(* it away, and /confirm checks none of what /buylevel checked.            *)
(***************************************************************************)
EXTENDS Integers, FiniteSets, Functions

CONSTANTS
  Slot,       (* client slots                                              *)
  Account,    (* the mod's accounts                                        *)
  Width,      (* 2^32 in the code: int                                     *)
  Cap,        (* values of the cvar ss_levelcap, 0 is off                  *)
  Curve,      (* values of the cvars ss_credits_for_first_level and        *)
              (* ss_credits_for_last_level, above zero and different       *)
  MaxLevel,   (* bound: levels                                             *)
  Price,      (* F_curve: for a curve and a cap, the price of each level   *)
  Amount,     (* credits a player may ask /crtransfer to move              *)
  Output,     (* credits an entity pays, or charges if negative            *)
  Start       (* credits an account starts with                            *)

ASSUME AccountParameters ==
  /\ Width \in Nat \ {0} /\ Width % 2 = 0
  /\ MaxLevel \in Nat /\ Cap \subseteq Nat /\ 1 \notin Cap   \* F_curve divides by cap - 1
  /\ Price \in [Curve -> [Cap -> [0 .. MaxLevel -> Nat]]]
  /\ Amount \subseteq Nat \ {0} /\ Output \subseteq Int
  /\ Start \in 0 .. Width \div 2 - 1
  /\ IsFiniteSet(Account) /\ "none" \notin Account

Credits == -(Width \div 2) .. Width \div 2 - 1
Wrap(n) == ((n + Width \div 2) % Width) - Width \div 2

VARIABLES
  login,      (* pers.Lmd.account of each slot; "none" if it is NULL       *)
  credits,    (* Account_t::credits                                        *)
  level,      (* Accounts_Prof_GetLevel                                    *)
  cap,        (* the cvar ss_levelcap                                      *)
  curve,      (* the two cvars of the price                                *)
  buylevel,   (* p_playerInfo[].buylevel                                   *)
  fair,       (* history: slots with an offer whose terms have not changed *)
  excused,    (* history: accounts that overflowed or confirmed an offer   *)
              (* that was not made for them as they are now                *)
  bank        (* history: what all accounts should hold, modulo Width      *)

cvars == <<cap, curve>>
accountVars == <<login, credits, level, cvars, buylevel, fair, excused, bank>>

(* All that /buylevel looked at.                                           *)
Terms(s) == IF login[s] = "none" THEN <<"none", 0, 0, cvars>>
            ELSE <<login[s], credits[login[s]], level[login[s]], cvars>>
StillFair == {s \in fair : Terms(s)' = Terms(s)}

AccountInit ==
  /\ login = [s \in Slot |-> "none"]
  /\ credits = [a \in Account |-> Start] /\ level = [a \in Account |-> 0]
  /\ cap \in Cap /\ curve \in Curve
  /\ buylevel = [s \in Slot |-> FALSE] /\ fair = {}
  /\ excused = {} /\ bank = (Cardinality(Account) * Start) % Width
----------------------------------------------------------------------------
(* The player of s logs in or out, or another takes the slot: none of it   *)
(* reaches p_playerInfo.                                                   *)
Login(s, a) ==
  /\ login' = [login EXCEPT ![s] = a]
  /\ UNCHANGED <<credits, level, cvars, buylevel, excused, bank>>
  /\ fair' = StillFair

SetCap(c) ==
  /\ cap' = c
  /\ UNCHANGED <<login, credits, level, curve, buylevel, excused, bank>>
  /\ fair' = StillFair

SetCurve(q) ==
  /\ curve' = q
  /\ UNCHANGED <<login, credits, level, cap, buylevel, excused, bank>>
  /\ fair' = StillFair

(* mutant: the cap itself may be passed                                    *)
BuyLevel_OffByOne(s) ==
  LET a == login[s] IN
  /\ a # "none" /\ cap # 0
  /\ level[a] <= cap /\ level[a] < MaxLevel
  /\ credits[a] >= Price[curve][cap][level[a] + 1]
  /\ buylevel' = [buylevel EXCEPT ![s] = TRUE]
  /\ fair' = fair \cup {s}
  /\ UNCHANGED <<login, credits, level, cvars, excused, bank>>

BuyLevel(s) ==
  LET a == login[s] IN
  /\ a # "none" /\ cap # 0
  /\ level[a] < cap /\ level[a] < MaxLevel
  /\ credits[a] >= Price[curve][cap][level[a] + 1]
  /\ buylevel' = [buylevel EXCEPT ![s] = TRUE]
  /\ fair' = fair \cup {s}
  /\ UNCHANGED <<login, credits, level, cvars, excused, bank>>

(* "confirm yes": the price is worked out again, from the cvars as they    *)
(* are now, and taken.                                                     *)
ConfirmYes(s) ==
  LET a == login[s]
      price == Price[curve][cap][level[a] + 1] IN
  /\ buylevel[s] /\ a # "none"
  /\ level[a] < MaxLevel
  /\ credits' = [credits EXCEPT ![a] = Wrap(@ - price)]
  /\ level' = [level EXCEPT ![a] = @ + 1]
  /\ bank' = (bank - price) % Width
  /\ buylevel' = [buylevel EXCEPT ![s] = FALSE]
  /\ excused' = IF s \in fair THEN excused ELSE excused \cup {a}
  /\ UNCHANGED <<login, cvars>>
  /\ fair' = StillFair \ {s}

ConfirmNo(s) ==
  /\ buylevel[s] /\ login[s] # "none"
  /\ buylevel' = [buylevel EXCEPT ![s] = FALSE]
  /\ UNCHANGED <<login, credits, level, cvars, excused, bank>>
  /\ fair' = StillFair \ {s}

(* mutant: both balances are read before either is written                 *)
CrTransfer_StaleRead(s, to, n, spelt) ==
  LET a == login[s] IN
  /\ a # "none" /\ credits[a] >= n
  /\ spelt => to # a
  /\ credits' = [[credits EXCEPT ![a] = @ - n] EXCEPT ![to] = Wrap(credits[to] + n)]
  /\ excused' = IF credits[to] + n \in Credits THEN excused ELSE excused \cup {to}
  /\ UNCHANGED <<login, level, cvars, buylevel, bank>>
  /\ fair' = StillFair

(* spelt: the player wrote the name as the account has it.  strcmp refuses *)
(* a transfer to oneself only then; the mod finds names in any case.       *)
CrTransfer(s, to, n, spelt) ==
  LET a == login[s]
      paid == [credits EXCEPT ![a] = @ - n] IN
  /\ a # "none" /\ credits[a] >= n
  /\ spelt => to # a
  /\ credits' = [paid EXCEPT ![to] = Wrap(@ + n)]
  /\ excused' = IF paid[to] + n \in Credits THEN excused ELSE excused \cup {to}
  /\ UNCHANGED <<login, level, cvars, buylevel, bank>>
  /\ fair' = StillFair

(* mutant: the charge is made whether or not it can be paid                *)
TargetLCUse_Unchecked(s, n) ==
  LET a == login[s] IN
  /\ a # "none"
  /\ credits' = [credits EXCEPT ![a] = Wrap(@ + n)]
  /\ bank' = (bank + n) % Width
  /\ excused' = IF credits[a] + n < Width \div 2 THEN excused ELSE excused \cup {a}
  /\ UNCHANGED <<login, level, cvars, buylevel>>
  /\ fair' = StillFair

(* A "credits" entity pays or charges the client who uses it.              *)
TargetLCUse(s, n) ==
  LET a == login[s] IN
  /\ a # "none"
  /\ n < 0 => credits[a] >= -n
  /\ credits' = [credits EXCEPT ![a] = Wrap(@ + n)]
  /\ bank' = (bank + n) % Width
  /\ excused' = IF credits[a] + n < Width \div 2 THEN excused ELSE excused \cup {a}
  /\ UNCHANGED <<login, level, cvars, buylevel>>
  /\ fair' = StillFair

(* accountedit, at the console and by an admin's client command: a level   *)
(* below zero passes the check.                                            *)
AccountEdit(a, n) ==
  /\ cap # 0 /\ n <= cap
  /\ level' = [level EXCEPT ![a] = n]
  /\ UNCHANGED <<login, credits, cvars, buylevel, excused, bank>>
  /\ fair' = StillFair

AccountNext ==
  \/ \E s \in Slot :
       \/ BuyLevel(s) \/ ConfirmYes(s) \/ ConfirmNo(s)
       \/ \E a \in Account \cup {"none"} : Login(s, a)
       \/ \E to \in Account, n \in Amount, spelt \in BOOLEAN : CrTransfer(s, to, n, spelt)
       \/ \E n \in Output : TargetLCUse(s, n)
  \/ \E a \in Account, n \in -1 .. MaxLevel : AccountEdit(a, n)
  \/ \E c \in Cap : SetCap(c)
  \/ \E q \in Curve : SetCurve(q)

AccountSpec == AccountInit /\ [][AccountNext]_accountVars
----------------------------------------------------------------------------
AccountTypeOK ==
  /\ login \in [Slot -> Account \cup {"none"}]
  /\ credits \in [Account -> Credits]
  /\ level \in [Account -> -1 .. MaxLevel] /\ cap \in Cap /\ curve \in Curve
  /\ buylevel \in [Slot -> BOOLEAN]
  /\ fair \subseteq {s \in Slot : buylevel[s]}
  /\ excused \subseteq Account /\ bank \in 0 .. Width - 1

(* Credits are neither made nor lost except by entities and bought levels, *)
(* whoever logs in or out between the commands, even in a transfer to      *)
(* oneself and when a balance wraps.                                       *)
Ledger == SumFunction(credits) % Width = bank

(* No account is in debt, except one that overflowed or that confirmed an  *)
(* offer made for somebody else, or for itself with other credits, another *)
(* level, another cap or another curve of prices.                          *)
NoDebt == \A a \in Account : credits[a] < 0 => a \in excused

(* No step raises a level above the cap, with the same exception.          *)
CapRespected ==
  [][\A a \in Account : level'[a] > level[a] => level'[a] <= cap \/ a \in excused']_accountVars
=============================================================================
