------------------------------- MODULE MCOffice -------------------------------
(***************************************************************************)
(* The office: the numbers and their routing (Accounts), media and         *)
(* retention (Upkeep), the erasure of a person (Erasure), the settings     *)
(* page (SettingsDesk).  Each behaviour is one of them, on one of its      *)
(* instances (place), and the variables of the others stay as they were.   *)
(***************************************************************************)
EXTENDS Accounts, Upkeep, Erasure, SettingsDesk, TLC

CONSTANTS n1, b1, a4, t2, m2, d2, e2

VARIABLE place

officeVars == <<place, accountVars, upkeepVars, erasureVars, settingsVars>>

\* Bounds: two requests at a time and three in all; or, for one number, which
\* may be connected already, four of them one after another, a4 the last.  (The
\* first number and WABA are n1 and b1: any others are as good.)
InHand == {a \in Acts : Busy(a)}
Touched(n, acts) ==
    \/ \E a \in acts : "number" \in DOMAIN act[a] /\ act[a].number = n
    \/ \E w \in Workspaces : account[w][n] # NoAccount \/ amiss[w][n] # {}

AccountsBound ==
    LET acts == InHand IN
    IF place = "numbers"
    THEN /\ Cardinality(acts) <= 2 /\ act[a4] = Unused
         /\ Touched(n1, acts) \/ \A n \in Numbers : ~Touched(n, acts)
         /\ Cardinality(acts) = 1 /\ (\A w \in Workspaces : account[w][n1] = NoAccount) =>
              \A a \in acts : act[a].kind = "connect" => act[a].waba = b1
    ELSE /\ Cardinality(acts) <= 1
         /\ \A n \in Numbers \ {n1} : ~Touched(n, acts)
         /\ \A a \in acts : "waba" \in DOMAIN act[a] => act[a].waba = b1
         /\ act[a4] = Unused \/ \A a \in Acts \ {a4} : act[a] # Unused

\* Bounds: one request to erase, and one late row of each kind at most; or two
\* requests and a row of each kind.
ErasureBound ==
    IF place = "alone" THEN d2 \notin used /\ eraser[e2] = NotAsked
    ELSE used \subseteq {t2, m2, d2}

Settings == {"wording", "log", "flow", "cards"}

\* Bounds: the variables, the log of deliveries, the workflow, or the number,
\* with the tabs and the requests that belong to it.
SettingsTabs ==
    CASE place = "wording" -> {"connection", "variables"}
      [] place \in {"log", "flow"} -> {"connection", "diagnostics", "variables"}
      [] place = "cards" -> {"connection", "health", "templates"}

SettingsKinds ==
    CASE place = "wording" -> {"load", "variables", "set"}
      [] place = "log" -> {"load", "variables", "replay", "count", "replayAll"}
      [] place = "flow" -> {"load", "variables", "provision"}
      [] place = "cards" -> {"load", "test", "connect", "sync", "code", "disconnect",
                             "templates", "publish"}

SettingsPresses == IF place = "flow" THEN 5 ELSE 4

SettingsBound ==
    /\ page.tab \in SettingsTabs \union {"closed"} /\ presses <= SettingsPresses
    /\ \A c \in UnderWay : call[c].kind \in SettingsKinds
    /\ place # "wording" => page.typed = {} /\ elsewhere = {}
    /\ place # "log" => \A d \in Deliveries : delivery[d] = "none"
    /\ place = "log" => admin
    /\ place # "cards" => page.edit = Absent /\ ~page.confirming

OfficeInit ==
    /\ AccountsInit /\ UpkeepInit /\ ErasureInit /\ SettingsInit
    /\ place \in {"numbers", "years", "content", "days", "alone", "pair"} \union Settings
    /\ IF place = "years" THEN AccountsBound ELSE claim = [k \in Numbers \union Wabas |-> Nobody]
    /\ place = "content" \/ \A r \in Pictures : worker[r].size = "small"
    /\ IF place \in {"alone", "pair"} THEN ErasureBound ELSE present = {}
    /\ IF place \in Settings THEN SettingsBound
       ELSE \A d \in Deliveries : delivery[d] = "none"

OfficeNext ==
    /\ place' = place
    /\ \/ /\ place \in {"numbers", "years"} /\ AccountsNext /\ AccountsBound'
          /\ UNCHANGED <<upkeepVars, erasureVars, settingsVars>>
       \/ /\ place \in {"content", "days"} /\ UpkeepNext
          /\ place = "content" => today' = today
          /\ place = "days" => content' = content /\ aged' = aged /\ worker' = worker
          /\ UNCHANGED <<accountVars, erasureVars, settingsVars>>
       \/ /\ place \in {"alone", "pair"} /\ ErasureNext /\ ErasureBound'
          /\ UNCHANGED <<accountVars, upkeepVars, settingsVars>>
       \/ /\ place \in Settings /\ SettingsNext /\ SettingsBound'
          /\ UNCHANGED <<accountVars, upkeepVars, erasureVars>>

OfficeSpec == OfficeInit /\ [][OfficeNext]_officeVars

OfficeTypeOK == AccountsTypeOK /\ UpkeepTypeOK /\ ErasureTypeOK /\ SettingsTypeOK

\* Calls and Deliveries take their names from workspaces and acts, so that one
\* permutation serves both.
OfficeSymmetry == Permutations(Workspaces) \union Permutations(Acts \ {a4})
=============================================================================
