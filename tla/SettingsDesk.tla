----------------------------- MODULE SettingsDesk -----------------------------
(***************************************************************************)
(* The settings page of one administrator.  Every button and every tab     *)
(* that reads something goes through one function, post, which has one     *)
(* busy flag, one error and one notice for all of them; tabs and inputs    *)
(* stay live while a request is under way.  Beside the page, other         *)
(* administrators write, deliveries fail and are processed, and the role   *)
(* may be taken away.                                                      *)
(*                                                                         *)
(* What test, connect, disconnect and sync do to the number is Accounts'   *)
(* and Templates'; how a replayed delivery is processed is WebhookLog's.   *)
(***************************************************************************)
EXTENDS Integers, FiniteSets

CONSTANTS
    KeyCount,       \* application variables
    Deliveries,     \* webhook events
    ReplayCap,      \* MAX_REPLAY_PER_REQUEST
    Calls,          \* bound: requests under way at a time
    MaxPresses, MaxNews, MaxFaults  \* bounds: presses; what others do; failures

ASSUME SettingsAssumption ==
    /\ KeyCount \in Nat \ {0} /\ ReplayCap \in Nat \ {0}
    /\ {MaxPresses, MaxNews, MaxFaults} \subseteq Nat
    /\ IsFiniteSet(Deliveries)

VARIABLES
    variable,       \* the application variables
    code,           \* defaultCountryCallingCode of the connected number
    published,      \* a template's publishedToCrm
    delivery,       \* the webhook events' processingStatus
    workflow,       \* notification workflows, and those with a version
    admin,          \* whether the routes take the caller for an administrator
    page,           \* SettingsView and the VariablesPanel in it
    call,           \* requests under way
    presses, news, faults,
    elsewhere,      \* history: keys another administrator wrote
    reverted,       \* keys written back by a save that nobody typed
    wanted,         \* the last calling code typed
    slip            \* what went wrong on the way

storeVars == <<variable, code, published, delivery, workflow>>
historyVars == <<elsewhere, reverted, wanted>>
settingsVars == <<storeVars, admin, page, call, presses, news, faults, historyVars, slip>>

Keys == 1..KeyCount
Values == {0, 1}
Absent == -1
NoWords == [k \in Keys |-> Absent]
NoData == [known |-> FALSE, code |-> 0, failed |-> {}]
Failed == {d \in Deliveries : delivery[d] = "FAILED"}
AtMost(n, m) == IF n < m THEN n ELSE m

NoCall == [stage |-> "none"]
Request(kind) ==
    [kind |-> kind, stage |-> "sent", left |-> {}, drafts |-> NoWords, typed |-> {},
     value |-> 0, ids |-> {}, count |-> 0, shown |-> 0, says |-> "none",
     words |-> NoWords, data |-> NoData]

UnderWay == {c \in Calls : call[c] # NoCall}
-----------------------------------------------------------------------------
(***************************************************************************)
(* The page.                                                               *)
(***************************************************************************)
\* A request clears what the last one said.
Post(c, request, shown) ==
    /\ call' = [call EXCEPT ![c] = request]
    /\ page' = [shown EXCEPT !.busy = TRUE, !.error = "none", !.notice = "none"]
    /\ slip' = slip \union (IF UnderWay \ {c} # {} THEN {"together"} ELSE {})

\* The effect on a change of the variables: a draft the server agrees with is
\* its value, any other is kept.
KeptDrafts(drafts, words) ==
    [k \in Keys |-> IF drafts[k] \in {Absent, words[k]} THEN words[k] ELSE drafts[k]]

WithWords(shown, words) ==
    IF shown.tab # "variables" THEN [shown EXCEPT !.words = words]
    ELSE [shown EXCEPT !.words = words, !.drafts = KeptDrafts(@, words)]

DirtyKeys == {k \in Keys : page.drafts[k] \notin {Absent, page.words[k]}}

\* The first load.
OpenPage(c) ==
    /\ page.tab = "closed" /\ call[c] = NoCall
    /\ Post(c, Request("load"), [page EXCEPT !.tab = "connection"])
    /\ UNCHANGED <<storeVars, admin, presses, news, faults, historyVars>>

\* The panel is mounted with its tab, and its drafts go with it.
OpenTab(c, tab) ==
    /\ page.tab \notin {"closed", tab} /\ presses < MaxPresses /\ presses' = presses + 1
    /\ LET closed == [page EXCEPT !.tab = tab, !.drafts = NoWords, !.typed = {}]
           opened == WithWords(closed, page.words)
       IN  \/ /\ tab = "variables" /\ call[c] = NoCall
              /\ Post(c, Request("variables"), opened)
           \/ /\ tab = "templates" /\ page.data.known /\ call[c] = NoCall
              /\ Post(c, Request("templates"), opened)
           \/ /\ tab = "templates" => ~page.data.known
              /\ tab # "variables"
              /\ page' = opened /\ UNCHANGED <<call, slip>>
    /\ UNCHANGED <<storeVars, admin, news, faults, historyVars>>

TypeWord(k, v) ==
    /\ page.tab = "variables" /\ page.words[k] # Absent /\ page.drafts[k] # v
    /\ presses < MaxPresses /\ presses' = presses + 1
    /\ page' = [page EXCEPT !.drafts[k] = v, !.typed = @ \union {k}]
    /\ UNCHANGED <<storeVars, admin, call, news, faults, historyVars, slip>>

DiscardAll ==
    /\ DirtyKeys # {} /\ ~page.busy
    /\ page' = [page EXCEPT !.drafts = page.words, !.typed = {}]
    /\ UNCHANGED <<storeVars, admin, call, presses, news, faults, historyVars, slip>>

\* One request per variable, one after another, with the drafts of the press.
\* The panel's buttons do not know of a refusal.
SaveAll(c) ==
    /\ DirtyKeys # {} /\ ~page.busy /\ call[c] = NoCall
    /\ presses < MaxPresses /\ presses' = presses + 1
    /\ Post(c, [Request("set") EXCEPT !.left = DirtyKeys, !.drafts = page.drafts,
                                      !.typed = page.typed], page)
    /\ UNCHANGED <<storeVars, admin, news, faults, historyVars>>

TypeCode(v) ==
    /\ page.tab = "connection" /\ page.data.known /\ page.edit # v
    /\ presses < MaxPresses /\ presses' = presses + 1
    /\ page' = [page EXCEPT !.edit = v]
    /\ wanted' = v
    /\ slip' = slip \union (IF \E c \in UnderWay : call[c].kind = "code"
                            THEN {"whileSaving"} ELSE {})
    /\ UNCHANGED <<storeVars, admin, call, news, faults, elsewhere, reverted>>

Tick(d) ==
    /\ page.tab = "diagnostics" /\ d \in page.data.failed
    /\ presses < MaxPresses /\ presses' = presses + 1
    /\ page' = [page EXCEPT !.ticked = IF d \in @ THEN @ \ {d} ELSE @ \union {d}]
    /\ UNCHANGED <<storeVars, admin, call, news, faults, historyVars, slip>>

\* AdminAction: every other button.
MayPress == ~page.busy /\ ~page.forbidden

AskDisconnect ==
    /\ page.tab = "connection" /\ page.data.known /\ ~page.confirming /\ MayPress
    /\ presses < MaxPresses /\ presses' = presses + 1
    /\ page' = [page EXCEPT !.confirming = TRUE]
    /\ UNCHANGED <<storeVars, admin, call, news, faults, historyVars, slip>>

CancelDisconnect ==
    /\ page.tab = "connection" /\ page.confirming /\ ~page.forbidden
    /\ page' = [page EXCEPT !.confirming = FALSE]
    /\ UNCHANGED <<storeVars, admin, call, presses, news, faults, historyVars, slip>>

Offered ==
    CASE page.tab = "closed" -> {}
      [] page.tab = "connection" ->
            {"connect"}
            \union (IF page.data.known THEN {"test", "sync"} ELSE {})
            \union (IF page.data.known /\ page.edit # Absent THEN {"code"} ELSE {})
            \union (IF page.data.known /\ page.confirming THEN {"disconnect"} ELSE {})
      [] page.tab = "health" -> {"load"}
      [] page.tab = "templates" ->
            (IF page.data.known THEN {"templates"} ELSE {})
            \union (IF page.template # Absent THEN {"publish"} ELSE {})
      [] page.tab = "variables" -> {}
      [] page.tab = "diagnostics" ->
            {"provision"}
            \union (IF page.ticked # {} THEN {"replay"} ELSE {})
            \union (IF page.pending # Absent THEN {"replayAll"}
                    ELSE IF page.data.failed # {} THEN {"count"} ELSE {})

Press(c, kind) ==
    /\ kind \in Offered /\ MayPress /\ call[c] = NoCall
    /\ presses < MaxPresses /\ presses' = presses + 1
    /\ Post(c, [Request(kind) EXCEPT
                  !.value = IF kind = "code" THEN page.edit
                            ELSE IF kind = "publish" THEN 1 - page.template ELSE 0,
                  !.ids = IF kind = "replay" THEN page.ticked ELSE {},
                  !.shown = IF kind = "replayAll" THEN page.pending ELSE 0], page)
    /\ UNCHANGED <<storeVars, admin, news, faults, historyVars>>
-----------------------------------------------------------------------------
(***************************************************************************)
(* The routes: the role first, then the action.                            *)
(***************************************************************************)
At(c, kind, stage) ==
    call[c] # NoCall /\ call[c].kind = kind /\ call[c].stage = stage /\ (stage = "sent" => admin)
Answers(c, request) == call' = [call EXCEPT ![c] = [request EXCEPT !.stage = "answered"]]
Steps(c, request, stage) == call' = [call EXCEPT ![c] = [request EXCEPT !.stage = stage]]
serverIdle == <<admin, page, presses, news, faults, elsewhere, wanted, slip>>

Refuse(c) ==
    /\ ~admin /\ call[c].stage = "sent"
    /\ Steps(c, call[c], "refused")
    /\ UNCHANGED <<storeVars, serverIdle, reverted>>

Diagnostics(c) ==
    /\ At(c, "load", "sent")
    /\ Answers(c, [call[c] EXCEPT !.data = [known |-> TRUE, code |-> code, failed |-> Failed]])
    /\ UNCHANGED <<storeVars, serverIdle, reverted>>

ListVariables(c) ==
    /\ \/ At(c, "variables", "sent")
       \/ At(c, "set", "written")
    /\ Answers(c, [call[c] EXCEPT !.words = variable])
    /\ UNCHANGED <<storeVars, serverIdle, reverted>>

Next1(keys) == CHOOSE k \in keys : \A l \in keys : k <= l

SetVariable(c) ==
    /\ At(c, "set", "sent")
    /\ LET k == Next1(call[c].left)
           v == call[c].drafts[k]
       IN  /\ variable' = [variable EXCEPT ![k] = v]
           /\ reverted' = reverted \union (IF k \notin call[c].typed /\ variable[k] # v
                                           THEN {k} ELSE {})
    /\ Steps(c, call[c], "written")
    /\ UNCHANGED <<code, published, delivery, workflow, serverIdle>>

UpdateAccount(c) ==
    /\ At(c, "code", "sent")
    /\ code' = call[c].value
    /\ Answers(c, call[c])
    /\ UNCHANGED <<variable, published, delivery, workflow, serverIdle, reverted>>

\* What the other actions on the number do is not seen on this page.
AccountAction(c) ==
    /\ \E kind \in {"test", "connect", "disconnect", "sync"} : At(c, kind, "sent")
    /\ Answers(c, call[c])
    /\ UNCHANGED <<storeVars, serverIdle, reverted>>

ListTemplates(c) ==
    /\ At(c, "templates", "sent")
    /\ Answers(c, [call[c] EXCEPT !.value = published])
    /\ UNCHANGED <<storeVars, serverIdle, reverted>>

Publish(c) ==
    /\ At(c, "publish", "sent")
    /\ published' = call[c].value
    /\ Answers(c, call[c])
    /\ UNCHANGED <<variable, code, delivery, workflow, serverIdle, reverted>>

CountFailed(c) ==
    /\ At(c, "count", "sent")
    /\ Answers(c, [call[c] EXCEPT !.count = AtMost(Cardinality(Failed), ReplayCap)])
    /\ UNCHANGED <<storeVars, serverIdle, reverted>>

\* The rows by id, or the newest of the failed ones.
Replayable(c) ==
    IF call[c].kind = "replay" THEN {call[c].ids}
    ELSE {ids \in SUBSET Failed : Cardinality(ids) = AtMost(Cardinality(Failed), ReplayCap)}

ListReplay(c) ==
    /\ At(c, "replay", "sent") \/ At(c, "replayAll", "sent")
    /\ \E ids \in Replayable(c) : Steps(c, [call[c] EXCEPT !.ids = ids], "replaying")
    /\ UNCHANGED <<storeVars, serverIdle, reverted>>

\* Queued and marked, or neither, and the next one.
ReplayOne(c) ==
    /\ At(c, "replay", "replaying") \/ At(c, "replayAll", "replaying")
    /\ \E d \in call[c].ids :
         \/ /\ delivery' = [delivery EXCEPT ![d] = "RECEIVED"]
            /\ Steps(c, [call[c] EXCEPT !.ids = @ \ {d}, !.count = @ + 1], "replaying")
         \/ /\ delivery' = delivery
            /\ Steps(c, [call[c] EXCEPT !.ids = @ \ {d}], "replaying")
    /\ UNCHANGED <<variable, code, published, workflow, serverIdle, reverted>>

ReplayEnds(c) ==
    /\ At(c, "replay", "replaying") \/ At(c, "replayAll", "replaying")
    /\ call[c].ids = {}
    /\ Answers(c, call[c])
    /\ UNCHANGED <<storeVars, serverIdle, reverted>>

\* Mutant: the name is not looked up.
ExistsNever == FALSE

Exists == workflow.made > 0

\* provisionNotificationWorkflow: idempotent by name.
FindWorkflow(c) ==
    /\ At(c, "provision", "sent")
    /\ IF Exists THEN Answers(c, [call[c] EXCEPT !.value = 1])
                 ELSE Steps(c, call[c], "creating")
    /\ UNCHANGED <<storeVars, serverIdle, reverted>>

CreateWorkflow(c) ==
    /\ At(c, "provision", "creating")
    /\ workflow' = [workflow EXCEPT !.made = @ + 1]
    /\ Steps(c, call[c], "versioning")
    /\ UNCHANGED <<variable, code, published, delivery, serverIdle, reverted>>

\* The version may fail on its own.
CreateVersion(c) ==
    /\ At(c, "provision", "versioning")
    /\ \E made \in {0, 1} : workflow' = [workflow EXCEPT !.versions = @ + made]
    /\ Answers(c, call[c])
    /\ UNCHANGED <<variable, code, published, delivery, serverIdle, reverted>>

\* A route that throws or times out, or an answer that is lost.
CallFails(c) ==
    /\ call[c].stage \notin {"none", "refused", "failed"}
    /\ faults < MaxFaults /\ faults' = faults + 1
    /\ Steps(c, call[c], "failed")
    /\ slip' = slip \union (IF call[c].stage # "sent" THEN {"lost"} ELSE {})
    /\ UNCHANGED <<storeVars, admin, page, presses, news, historyVars>>
-----------------------------------------------------------------------------
(***************************************************************************)
(* What the page makes of an answer.                                       *)
(***************************************************************************)
Succeeded(c, kind) == call[c] # NoCall /\ call[c].kind = kind /\ call[c].stage = "answered"
Shown == [page EXCEPT !.busy = FALSE, !.forbidden = FALSE]
Ends(c, shown) ==
    call' = [call EXCEPT ![c] = NoCall] /\ page' = shown /\ UNCHANGED slip
pageIdle == <<storeVars, admin, presses, news, faults, historyVars>>

\* The reload after a replay announces it in the end, whatever became of it.
AnswerFails(c) ==
    /\ call[c].stage \in {"failed", "refused"}
    /\ call' = [call EXCEPT ![c] = NoCall]
    /\ page' = [page EXCEPT
           !.busy = FALSE, !.error = call[c].kind,
           !.forbidden = @ \/ call[c].stage = "refused",
           !.notice = IF call[c].says # "none" THEN call[c].says ELSE @,
           !.confirming = @ /\ call[c].kind # "disconnect"]
    /\ slip' = slip \union (IF call[c].kind \in {"load", "templates", "variables"}
                            THEN {"unread"} ELSE {})
    /\ UNCHANGED pageIdle

\* A new account object: the effect of the templates tab runs again.
DiagnosticsArrive(c) ==
    /\ Succeeded(c, "load")
    /\ LET shown == [Shown EXCEPT !.data = call[c].data,
                                  !.notice = IF call[c].says # "none" THEN call[c].says ELSE @]
       IN  IF page.tab = "templates" THEN Post(c, Request("templates"), shown)
                                     ELSE Ends(c, shown)
    /\ UNCHANGED pageIdle

VariablesArrive(c) ==
    /\ Succeeded(c, "variables")
    /\ Ends(c, WithWords(Shown, call[c].words))
    /\ UNCHANGED pageIdle

\* onSave, and the next one of the loop, mounted or not.
SaveArrives(c) ==
    /\ Succeeded(c, "set")
    /\ LET shown == [WithWords(Shown, call[c].words) EXCEPT !.notice = "set"]
           left == call[c].left \ {Next1(call[c].left)}
       IN  IF left = {} THEN Ends(c, shown)
           ELSE Post(c, [Request("set") EXCEPT !.left = left, !.drafts = call[c].drafts,
                                               !.typed = call[c].typed], shown)
    /\ UNCHANGED pageIdle

\* The edit is dropped and the stored value read again.
Reloads(c) ==
    /\ \/ /\ Succeeded(c, "code")
          /\ Post(c, Request("load"), [Shown EXCEPT !.edit = Absent])
       \/ /\ Succeeded(c, "test") \/ Succeeded(c, "connect")
          /\ Post(c, Request("load"), Shown)
       \/ /\ Succeeded(c, "disconnect")
          /\ Post(c, Request("load"), [Shown EXCEPT !.confirming = FALSE])
       \/ /\ Succeeded(c, "publish")
          /\ Post(c, Request("templates"), Shown)
       \/ /\ Succeeded(c, "replay") \/ Succeeded(c, "replayAll")
          /\ Post(c, [Request("load") EXCEPT !.says = "replay"],
                  [Shown EXCEPT !.ticked = {}, !.pending = Absent])
    /\ UNCHANGED pageIdle

Answered(c) ==
    /\ \/ Succeeded(c, "templates") /\ Ends(c, [Shown EXCEPT !.template = call[c].value])
       \/ Succeeded(c, "sync") /\ Ends(c, [Shown EXCEPT !.notice = "sync"])
       \/ Succeeded(c, "provision") /\ Ends(c, [Shown EXCEPT !.notice = "provision"])
       \/ /\ Succeeded(c, "count")
          /\ Ends(c, IF call[c].count = 0 THEN [Shown EXCEPT !.notice = "count"]
                                          ELSE [Shown EXCEPT !.pending = call[c].count])
    /\ UNCHANGED pageIdle
-----------------------------------------------------------------------------
(***************************************************************************)
(* Everybody else.                                                         *)
(***************************************************************************)
News == news < MaxNews /\ news' = news + 1
elseIdle == <<page, call, presses, faults, wanted, reverted>>

SomebodyWrites(k, v) ==
    /\ News /\ variable[k] # v
    /\ variable' = [variable EXCEPT ![k] = v]
    /\ elsewhere' = elsewhere \union {k}
    /\ UNCHANGED <<code, published, delivery, workflow, admin, elseIdle, slip>>

\* A number was shown, or is about to be, and the listing is still to come.
Counted == \/ page.pending # Absent
           \/ \E c \in UnderWay : \/ call[c].kind = "count" /\ call[c].stage = "answered"
                                  \/ call[c].kind = "replayAll" /\ call[c].stage = "sent"

DeliveryFails(d) ==
    /\ News /\ delivery[d] \in {"none", "RECEIVED"}
    /\ delivery' = [delivery EXCEPT ![d] = "FAILED"]
    /\ slip' = slip \union (IF Counted THEN {"failedSince"} ELSE {})
    /\ UNCHANGED <<variable, code, published, workflow, admin, elseIdle, elsewhere>>

\* Its job ends well, or somebody else replays it.
DeliveryMoves(d) ==
    /\ News
    /\ \E after \in {"PROCESSED", "RECEIVED"} :
         /\ delivery[d] = IF after = "PROCESSED" THEN "RECEIVED" ELSE "FAILED"
         /\ delivery' = [delivery EXCEPT ![d] = after]
    /\ UNCHANGED <<variable, code, published, workflow, admin, elseIdle, elsewhere, slip>>

RoleChanges ==
    /\ News /\ admin' = ~admin
    /\ UNCHANGED <<storeVars, elseIdle, elsewhere, slip>>
-----------------------------------------------------------------------------
SettingsInit ==
    /\ variable = [k \in Keys |-> 0] /\ code = 0 /\ published = 0
    /\ delivery \in [Deliveries -> {"none", "FAILED"}]
    /\ workflow = [made |-> 0, versions |-> 0] /\ admin = TRUE
    /\ page = [tab |-> "closed", busy |-> FALSE, error |-> "none", notice |-> "none",
               forbidden |-> FALSE, data |-> NoData, template |-> Absent, words |-> NoWords,
               drafts |-> NoWords, typed |-> {}, edit |-> Absent, ticked |-> {},
               pending |-> Absent, confirming |-> FALSE]
    /\ call = [c \in Calls |-> NoCall]
    /\ presses = 0 /\ news = 0 /\ faults = 0
    /\ elsewhere = {} /\ reverted = {} /\ wanted = Absent /\ slip = {}

Tabs == {"connection", "health", "templates", "variables", "diagnostics"}
Kinds == {"load", "templates", "variables", "set", "code", "test", "connect", "disconnect",
          "sync", "publish", "replay", "count", "replayAll", "provision"}

SettingsNext ==
    \/ \E c \in Calls :
         \/ OpenPage(c) \/ \E tab \in Tabs : OpenTab(c, tab)
         \/ \E kind \in Kinds : Press(c, kind)
         \/ SaveAll(c) \/ Refuse(c) \/ Diagnostics(c) \/ ListVariables(c) \/ SetVariable(c)
         \/ UpdateAccount(c) \/ AccountAction(c) \/ ListTemplates(c) \/ Publish(c)
         \/ CountFailed(c) \/ ListReplay(c) \/ ReplayOne(c) \/ ReplayEnds(c)
         \/ FindWorkflow(c) \/ CreateWorkflow(c) \/ CreateVersion(c) \/ CallFails(c)
         \/ AnswerFails(c) \/ DiagnosticsArrive(c) \/ VariablesArrive(c) \/ SaveArrives(c)
         \/ Reloads(c) \/ Answered(c)
    \/ DiscardAll \/ AskDisconnect \/ CancelDisconnect \/ RoleChanges
    \/ \E v \in Values : TypeCode(v) \/ \E k \in Keys : TypeWord(k, v) \/ SomebodyWrites(k, v)
    \/ \E d \in Deliveries : Tick(d) \/ DeliveryFails(d) \/ DeliveryMoves(d)

SettingsSpec == SettingsInit /\ [][SettingsNext]_settingsVars
-----------------------------------------------------------------------------
Words == [Keys -> Values \union {Absent}]
Data == [known : BOOLEAN, code : Values, failed : SUBSET Deliveries]
Says == {"none", "set", "replay", "sync", "provision", "count"}
CallRecord ==
    [kind : Kinds,
     stage : {"sent", "written", "replaying", "creating", "versioning", "answered", "failed",
              "refused"},
     left : SUBSET Keys, drafts : Words, typed : SUBSET Keys, value : Values,
     ids : SUBSET Deliveries, count : Nat, shown : Nat, says : Says, words : Words, data : Data]

\* Every variable holds what its declaration says.
SettingsTypeOK ==
    /\ variable \in [Keys -> Values] /\ code \in Values /\ published \in Values
    /\ delivery \in [Deliveries -> {"none", "FAILED", "RECEIVED", "PROCESSED"}]
    /\ workflow \in [made : Nat, versions : Nat] /\ workflow.versions <= workflow.made
    /\ admin \in BOOLEAN
    /\ page \in [tab : Tabs \union {"closed"}, busy : BOOLEAN, error : Kinds \union {"none"}, notice : Says,
                 forbidden : BOOLEAN, data : Data, template : Values \union {Absent},
                 words : Words, drafts : Words, typed : SUBSET Keys,
                 edit : Values \union {Absent}, ticked : SUBSET Deliveries,
                 pending : Nat \union {Absent}, confirming : BOOLEAN]
    /\ call \in [Calls -> CallRecord \union {NoCall}]
    /\ {presses, news, faults} \subseteq Nat
    /\ elsewhere \subseteq Keys /\ reverted \subseteq Keys
    /\ wanted \in Values \union {Absent}
    /\ slip \subseteq {"together", "whileSaving", "failedSince", "lost", "unread"}
    /\ \A c \in Calls : call[c] # NoCall /\ call[c].kind = "set" => call[c].left # {}

\* A save writes back no value that nobody typed, unless somebody else wrote
\* that variable, an answer was lost, or two requests were under way.
NothingIsReverted == reverted \subseteq elsewhere \/ {"together", "lost"} \cap slip # {}

\* A bulk replay drives no more deliveries than its button said, unless some
\* failed after they were counted, and never more than the cap.
ReplayIsAsConfirmed ==
    \A c \in UnderWay : call[c].kind = "replayAll" =>
        /\ call[c].count <= call[c].shown \/ "failedSince" \in slip
        /\ call[c].count <= ReplayCap

\* The notification workflow is made once, unless two requests were under way.
OneWorkflow == workflow.made <= 1 \/ "together" \in slip

\* The buttons are held while one request is under way and no longer.
BusyIsTrue ==
    /\ page.busy => UnderWay # {}
    /\ ~page.busy /\ UnderWay # {} => "together" \in slip

\* An error and a confirmation are not of one click, except that the reload
\* after a replay may fail.
ErrorOrNotice ==
    page.error # "none" /\ page.notice # "none" => page.error = "load" \/ "together" \in slip

\* A calling code that was typed is in its input or stored, unless more was
\* typed while it was saved.
EditsAreKept ==
    wanted # Absent /\ page.edit = Absent => code = wanted \/ "whileSaving" \in slip

\* When nothing is under way the page shows what the server has, except what
\* somebody else wrote.
ScreenIsCurrent ==
    UnderWay = {} /\ slip = {} =>
        /\ page.data.known => page.data.code = code
        /\ page.template \in {Absent, published}
        /\ \A k \in Keys \ elsewhere : page.words[k] \in {Absent, variable[k]}

SettingsAreTrue ==
    /\ NothingIsReverted /\ ReplayIsAsConfirmed /\ OneWorkflow /\ BusyIsTrue
    /\ ErrorOrNotice /\ EditsAreKept /\ ScreenIsCurrent
=============================================================================
