----------------------------- MODULE OfficeProofs -----------------------------
(***************************************************************************)
(* Proofs about Upkeep, for any rows, days, batches and troubles, about    *)
(* Erasure, for any rows, requests and rounds, about Accounts, for any     *)
(* workspaces, numbers, WABAs and acts, about SettingsDesk, for any        *)
(* variables, deliveries and calls, and about MCOffice, of which they are  *)
(* part.                                                                   *)
(***************************************************************************)
EXTENDS MCOffice, WellFoundedInduction, FiniteSetTheorems, TLAPS

(***************************************************************************)
(* SettingsDesk: the inductive invariant.                                  *)
(***************************************************************************)
Together == "together" \in slip
Clean == "together" \notin slip /\ "lost" \notin slip
Pages == [tab : Tabs \union {"closed"}, busy : BOOLEAN, error : Kinds \union {"none"}, notice : Says,
          forbidden : BOOLEAN, data : Data, template : Values \union {Absent},
          words : Words, drafts : Words, typed : SUBSET Keys,
          edit : Values \union {Absent}, ticked : SUBSET Deliveries,
          pending : Nat \union {Absent}, confirming : BOOLEAN]
Logged == [Deliveries -> {"none", "FAILED", "RECEIVED", "PROCESSED"}]
Slips == {"together", "whileSaving", "failedSince", "lost", "unread"}

SettingsTypes ==
    /\ variable \in [Keys -> Values] /\ code \in Values /\ published \in Values
    /\ delivery \in Logged /\ workflow \in [made : Nat, versions : Nat]
    /\ admin \in BOOLEAN /\ page \in Pages /\ call \in [Calls -> CallRecord \union {NoCall}]
    /\ presses \in Nat /\ news \in Nat /\ faults \in Nat
    /\ elsewhere \subseteq Keys /\ reverted \subseteq Keys
    /\ wanted \in Values \union {Absent} /\ slip \subseteq Slips

\* Every version has its workflow: made, or in the hands of the request.
Versioning == {c \in Calls : call[c].stage = "versioning"}
Versioned ==
    IsFiniteSet(Versioning) /\ workflow.versions + Cardinality(Versioning) <= workflow.made

\* One request at a time, and the flag is up while there is one.
OneCall == Together \/ \A c, d \in UnderWay : c = d
Flagged ==
    /\ page.busy => UnderWay # {}
    /\ ~page.busy => Together \/ UnderWay = {}

\* A press clears what the last one left.
Cleared == UnderWay # {} => Together \/ (page.error = "none" /\ page.notice = "none")

\* What is failed was counted, unless it failed since.
Backlog == AtMost(Cardinality(Failed), ReplayCap)
CountedIn(n) == "failedSince" \in slip \/ Backlog <= n
PendingHolds == page.pending # Absent => CountedIn(page.pending)

\* What the input has was typed last.
EditHolds == page.edit \in {Absent, wanted} /\ EditsAreKept

\* What the page shows is so, or it is about to read it again.
ReadsAgain(kind, after) ==
    \E c \in UnderWay : call[c].kind = kind \/ (call[c].kind = after /\ call[c].stage = "answered")
Shows ==
    slip = {} =>
        /\ page.data.known => page.data.code = code \/ ReadsAgain("load", "code")
        /\ page.template \in {Absent, published} \/ ReadsAgain("templates", "publish")
Saved(r, k) == r.kind = "set" /\ r.stage \in {"written", "answered"} /\ k = Next1(r.left)
WordsHold ==
    Clean => \A k \in Keys \ elsewhere :
        page.words[k] \in {Absent, variable[k]} \/ \E c \in UnderWay : Saved(call[c], k)

\* A draft nobody typed is the variable.
DraftsHold ==
    /\ page.tab # "variables" => page.drafts = NoWords /\ page.typed = {}
    /\ Clean => \A k \in Keys \ elsewhere :
         k \in page.typed \/ page.drafts[k] \in {Absent, variable[k]}

\* What a request carries: who is about to make the workflow has found none; a
\* bulk replay has no more than was confirmed; a code is the one typed last; an
\* answer is so; what is written of a variable nobody typed is the variable.
MakeHolds(r) == r.stage = "creating" => Together \/ workflow.made = 0
BulkHolds(r) ==
    /\ r.kind = "count" /\ r.stage = "answered" => CountedIn(r.count)
    /\ r.kind = "replayAll" =>
         LET n == r.count + Cardinality(r.ids) IN
         /\ r.stage = "sent" => CountedIn(r.shown) /\ r.count = 0
         /\ "failedSince" \in slip \/ n <= r.shown
         /\ n <= ReplayCap
CodeHolds(r) ==
    r.kind = "code" /\ "whileSaving" \notin slip =>
        r.value = wanted /\ (r.stage = "answered" => code = wanted)
ReadHolds(r) ==
    slip = {} /\ r.stage = "answered" =>
        /\ r.kind = "load" => r.data.code = code
        /\ r.kind = "templates" => r.value = published
SaveHolds(r) ==
    Clean =>
        /\ \A k \in Keys \ elsewhere :
             /\ r.stage = "answered" /\ r.kind \in {"set", "variables"} => r.words[k] = variable[k]
             /\ r.kind = "set" /\ k \in r.left \ r.typed => r.drafts[k] = variable[k]
        /\ r.kind = "set" => page.tab # "variables" \/ r.typed \subseteq page.typed
CallHolds(r) ==
    /\ r.kind = "set" => r.left # {} /\ \A k \in r.left : r.drafts[k] # Absent
    /\ r.says # "none" => r.kind = "load"
    /\ MakeHolds(r) /\ BulkHolds(r) /\ CodeHolds(r) /\ ReadHolds(r) /\ SaveHolds(r)

\* The whole, which every step keeps.
SettingsInv ==
    /\ SettingsTypes /\ Versioned /\ OneCall /\ Flagged /\ Cleared /\ PendingHolds /\ EditHolds
    /\ ErrorOrNotice /\ OneWorkflow /\ NothingIsReverted /\ Shows /\ WordsHold /\ DraftsHold
    /\ \A c \in UnderWay : CallHolds(call[c])

\* A call is none, or a request with all its fields.
LEMMA CallsKnown ==
    ASSUME SettingsTypes, NEW c \in Calls
    PROVE  /\ call[c] = NoCall \/ call[c] \in CallRecord
           /\ c \in UnderWay <=> call[c] \in CallRecord
           /\ call[c].stage = "none" <=> call[c] = NoCall
           /\ c \in UnderWay <=> call[c] # NoCall
  <1>1. NoCall.stage = "none"
    BY DEF NoCall
  <1>2. \A r \in CallRecord : r.stage # "none"
    BY DEF CallRecord
  <1>3. call[c] = NoCall \/ call[c] \in CallRecord
    BY DEF SettingsTypes
  <1> QED BY <1>1, <1>2, <1>3 DEF UnderWay

\* The fields of a request.
LEMMA RecordFields ==
    ASSUME NEW r \in CallRecord
    PROVE  /\ r.kind \in Kinds /\ r.left \subseteq Keys /\ r.drafts \in Words /\ r.typed \subseteq Keys
           /\ r.value \in Values /\ r.ids \subseteq Deliveries /\ r.count \in Nat /\ r.shown \in Nat
           /\ r.says \in Says /\ r.words \in Words /\ r.data \in Data
           /\ r.stage \in {"sent", "written", "replaying", "creating", "versioning", "answered",
                           "failed", "refused"}
  BY DEF CallRecord

\* The fields of the page.
LEMMA PageFields ==
    ASSUME NEW p \in Pages
    PROVE  /\ p.tab \in Tabs \union {"closed"} /\ p.busy \in BOOLEAN /\ p.error \in Kinds \union {"none"}
           /\ p.notice \in Says /\ p.forbidden \in BOOLEAN /\ p.data \in Data
           /\ p.template \in Values \union {Absent} /\ p.words \in Words /\ p.drafts \in Words
           /\ p.typed \subseteq Keys /\ p.edit \in Values \union {Absent}
           /\ p.ticked \subseteq Deliveries /\ p.pending \in Nat \union {Absent}
           /\ p.confirming \in BOOLEAN
  BY DEF Pages

\* A request as it is sent.
LEMMA RequestIs ==
    ASSUME NEW kind \in Kinds
    PROVE  /\ Request(kind) \in CallRecord
           /\ Request(kind).kind = kind /\ Request(kind).stage = "sent" /\ Request(kind).left = {}
           /\ Request(kind).says = "none" /\ Request(kind).ids = {} /\ Request(kind).count = 0
           /\ Request(kind).shown = 0
  <1>1. NoWords \in Words
    BY DEF NoWords, Words
  <1>2. NoData \in Data
    BY DEF NoData, Data, Values
  <1>3. "none" \in Says
    BY DEF Says
  <1> QED BY <1>1, <1>2, <1>3 DEF Request, CallRecord, Values

\* One call changes.
LEMMA OneCallMoves ==
    ASSUME SettingsTypes, NEW c \in Calls, NEW r \in CallRecord \union {NoCall},
           call' = [call EXCEPT ![c] = r]
    PROVE  /\ call' \in [Calls -> CallRecord \union {NoCall}] /\ call'[c] = r
           /\ \A d \in Calls : d # c => call'[d] = call[d]
           /\ r \in CallRecord => UnderWay' = UnderWay \union {c} /\ r # NoCall
           /\ r = NoCall => UnderWay' = UnderWay \ {c}
  <1>1. call \in [Calls -> CallRecord \union {NoCall}]
    BY DEF SettingsTypes
  <1>2. call'[c] = r /\ \A d \in Calls : d # c => call'[d] = call[d]
    BY <1>1
  <1>3. r \in CallRecord => r # NoCall
    <2>1. NoCall.stage = "none"
      BY DEF NoCall
    <2> QED BY <2>1, RecordFields
  <1>4. call' \in [Calls -> CallRecord \union {NoCall}]
    BY <1>1
  <1> QED BY <1>2, <1>3, <1>4 DEF UnderWay

\* A request under way goes on.
LEMMA CallGoesOn ==
    ASSUME SettingsTypes, NEW c \in UnderWay, NEW r \in CallRecord, call' = [call EXCEPT ![c] = r]
    PROVE  /\ call' \in [Calls -> CallRecord \union {NoCall}] /\ call'[c] = r
           /\ \A d \in Calls : d # c => call'[d] = call[d]
           /\ UnderWay' = UnderWay
  <1>1. c \in Calls /\ UnderWay \union {c} = UnderWay
    BY DEF UnderWay
  <1>2. /\ call' \in [Calls -> CallRecord \union {NoCall}] /\ call'[c] = r
        /\ \A d \in Calls : d # c => call'[d] = call[d]
        /\ UnderWay' = UnderWay \union {c}
    <2> HIDE DEF UnderWay
    <2>1. r \in CallRecord \union {NoCall} /\ c \in Calls
      BY <1>1
    <2> QED BY <2>1, OneCallMoves
  <1> QED BY <1>1, <1>2

\* What is failed now was failed before: what was counted in is.
LEMMA FewerFailed ==
    ASSUME SettingsTypes, Failed' \subseteq Failed, slip \subseteq slip'
    PROVE  \A n \in Nat : CountedIn(n) => CountedIn(n)'
  <1> USE SettingsAssumption
  <1>1. IsFiniteSet(Failed)
    BY FS_Subset DEF Failed
  <1>2. /\ Cardinality(Failed) \in Nat /\ Cardinality(Failed') \in Nat
        /\ Cardinality(Failed') <= Cardinality(Failed)
    BY <1>1, FS_Subset, FS_CardinalityType
  <1>3. Backlog' <= Backlog /\ Backlog \in Nat /\ Backlog' \in Nat
    BY <1>2 DEF Backlog, AtMost
  <1> SUFFICES ASSUME NEW n \in Nat, CountedIn(n)
               PROVE  CountedIn(n)'
    OBVIOUS
  <1>4. CASE "failedSince" \in slip
    BY <1>4 DEF CountedIn
  <1>5. CASE Backlog <= n
    BY <1>3, <1>5 DEF CountedIn
  <1> QED BY <1>4, <1>5 DEF CountedIn

\* The number of the failed ones is capped.
LEMMA BacklogIs ==
    ASSUME SettingsTypes
    PROVE  /\ Backlog \in Nat /\ Backlog <= ReplayCap /\ IsFiniteSet(Failed)
           /\ Cardinality(Failed) \in Nat
           /\ \A ids \in SUBSET Deliveries : IsFiniteSet(ids) /\ Cardinality(ids) \in Nat
  <1> USE SettingsAssumption
  <1>1. \A ids \in SUBSET Deliveries : IsFiniteSet(ids) /\ Cardinality(ids) \in Nat
    BY FS_Subset, FS_CardinalityType
  <1>2. IsFiniteSet(Failed) /\ Cardinality(Failed) \in Nat
    BY <1>1 DEF Failed
  <1> QED BY <1>1, <1>2 DEF Backlog, AtMost

\* A call that does not begin or end to make a version leaves them as they are.
LEMMA SameVersions ==
    ASSUME SettingsTypes, Versioned, workflow' = workflow,
           \A d \in Calls : call'[d].stage = "versioning" => call[d].stage = "versioning"
    PROVE  Versioned'
  <1>1. Versioning' \subseteq Versioning
    BY DEF Versioning
  <1>2. /\ IsFiniteSet(Versioning') /\ Cardinality(Versioning') <= Cardinality(Versioning)
        /\ Cardinality(Versioning) \in Nat /\ Cardinality(Versioning') \in Nat
    BY <1>1, FS_Subset, FS_CardinalityType DEF Versioned
  <1>3. workflow.made \in Nat /\ workflow.versions \in Nat
    BY DEF SettingsTypes
  <1> QED BY <1>2, <1>3 DEF Versioned

\* What a request carries holds after a step of another one: they are together
\* then, and only the counts and the codes are claimed beside another.
LEMMA OthersHold ==
    ASSUME SettingsInv, NEW c \in Calls, NEW d \in UnderWay, d # c,
           c \in UnderWay \/ "together" \in slip', slip \subseteq slip', call'[d] = call[d],
           \A n \in Nat : CountedIn(n) => CountedIn(n)',
           wanted' = wanted, code' \in {code, wanted} \/ "whileSaving" \in slip
    PROVE  CallHolds(call[d])' /\ "together" \in slip'
  <1>1. "together" \in slip'
    BY DEF SettingsInv, OneCall, Together
  <1>2. d \in Calls /\ call[d] \in CallRecord /\ CallHolds(call[d])
    BY CallsKnown DEF SettingsInv, UnderWay
  <1>3. PICK r : r = call[d]
    OBVIOUS
  <1>4. CallHolds(r) /\ r \in CallRecord
    BY <1>2, <1>3
  <1>5. r.count \in Nat /\ r.shown \in Nat
    BY <1>4, RecordFields
  <1>6. MakeHolds(r)' /\ ReadHolds(r)' /\ SaveHolds(r)'
    BY <1>1 DEF MakeHolds, Together, ReadHolds, SaveHolds, Clean
  <1>7. CodeHolds(r)'
    BY <1>4 DEF CallHolds, CodeHolds
  <1>8. BulkHolds(r)'
    BY <1>4, <1>5 DEF CallHolds, BulkHolds
  <1>9. CallHolds(r)'
    BY <1>4, <1>6, <1>7, <1>8 DEF CallHolds
  <1> QED BY <1>1, <1>3, <1>9

\* A step of a route: the request moves on, and the page is as it was.
LEMMA ServerStep ==
    ASSUME SettingsInv, NEW c \in UnderWay, NEW r \in CallRecord, call' = [call EXCEPT ![c] = r],
           UNCHANGED <<admin, page, presses, news, elsewhere, wanted>>, faults' \in Nat,
           slip \subseteq slip', slip' \subseteq slip \union {"lost"},
           variable' \in [Keys -> Values], published' \in Values, delivery' \in Logged,
           workflow' \in [made : Nat, versions : Nat], reverted' \subseteq Keys,
           \A n \in Nat : CountedIn(n) => CountedIn(n)', code' \in Values,
           code' \in {code, wanted} \/ "whileSaving" \in slip,
           Versioned', OneWorkflow', EditsAreKept', NothingIsReverted', Shows', WordsHold',
           DraftsHold', CallHolds(r)'
    PROVE  SettingsInv'
  <1>1. SettingsTypes /\ c \in Calls
    BY DEF SettingsInv, UnderWay
  <1>2. /\ call' \in [Calls -> CallRecord \union {NoCall}] /\ call'[c] = r
        /\ \A d \in Calls : d # c => call'[d] = call[d]
        /\ UnderWay' = UnderWay
    BY <1>1, CallGoesOn
  <1>3. slip' \subseteq Slips
    BY <1>1 DEF SettingsTypes, Slips
  <1>4. SettingsTypes'
    BY <1>1, <1>2, <1>3 DEF SettingsTypes
  <1>5. Together' <=> Together
    BY DEF Together
  <1>6. OneCall' /\ Flagged' /\ Cleared'
    BY <1>2, <1>5 DEF SettingsInv, OneCall, Flagged, Cleared
  <1>7. PendingHolds'
    <2>1. page.pending # Absent => page.pending \in Nat
      BY <1>1, PageFields DEF SettingsTypes
    <2> QED BY <2>1 DEF SettingsInv, PendingHolds
  <1>8. EditHolds'
    BY DEF SettingsInv, EditHolds
  <1>9. ErrorOrNotice'
    BY DEF SettingsInv, ErrorOrNotice
  <1>10. \A d \in UnderWay : CallHolds(call[d])'
    <2> SUFFICES ASSUME NEW d \in UnderWay
                 PROVE  CallHolds(call[d])'
      OBVIOUS
    <2>1. CASE d = c
      BY <1>2, <2>1
    <2>2. CASE d # c
      <3>1. call'[d] = call[d]
        BY <1>2, <2>2 DEF UnderWay
      <3> QED BY <1>1, <2>2, <3>1, OthersHold
    <2> QED BY <2>1, <2>2
  <1> QED BY <1>2, <1>4, <1>6, <1>7, <1>8, <1>9, <1>10 DEF SettingsInv

\* A step of a route that stores nothing, or a request that fails.
LEMMA OnlyCall ==
    ASSUME SettingsInv, NEW c \in UnderWay, NEW r \in CallRecord, call' = [call EXCEPT ![c] = r],
           UNCHANGED <<storeVars, admin, page, presses, news, historyVars>>, faults' \in Nat,
           slip' \in {slip, slip \union {"lost"}}, r.stage # "versioning", r.kind = call[c].kind,
           \/ "lost" \in slip'
           \/ /\ call[c].stage # "answered" /\ r.left = call[c].left
              /\ call[c].stage = "written" => r.stage = "answered",
           CallHolds(r)
    PROVE  SettingsInv'
  <1>1. SettingsTypes /\ c \in Calls
    BY DEF SettingsInv, UnderWay
  <1>2. UNCHANGED <<variable, code, published, delivery, workflow, elsewhere, reverted, wanted>>
    BY DEF storeVars, historyVars
  <1>3. /\ call' \in [Calls -> CallRecord \union {NoCall}] /\ call'[c] = r
        /\ \A d \in Calls : d # c => call'[d] = call[d]
        /\ UnderWay' = UnderWay
    BY <1>1, CallGoesOn
  <1>4. slip \subseteq slip' /\ slip' \subseteq slip \union {"lost"}
    OBVIOUS
  <1>5. \A n \in Nat : CountedIn(n) => CountedIn(n)'
    <2>1. Failed' = Failed
      BY <1>2 DEF Failed
    <2> QED BY <1>1, <1>4, <2>1, FewerFailed
  <1>6. Versioned'
    BY <1>1, <1>2, <1>3, SameVersions DEF SettingsInv
  <1>7. OneWorkflow' /\ EditsAreKept' /\ NothingIsReverted'
    BY <1>2, <1>4 DEF SettingsInv, OneWorkflow, EditHolds, EditsAreKept, NothingIsReverted
  <1>8. Shows'
    <2> SUFFICES ASSUME slip' = {}
                 PROVE  Shows'
      BY DEF Shows
    <2>1. slip = {} /\ call[c].stage # "answered"
      BY <1>4
    <2>2. ASSUME NEW kind, NEW after, ReadsAgain(kind, after)
          PROVE  ReadsAgain(kind, after)'
      <3>1. PICK d \in UnderWay :
              call[d].kind = kind \/ (call[d].kind = after /\ call[d].stage = "answered")
        BY <2>2 DEF ReadsAgain
      <3>2. call'[d].kind = kind \/ (call'[d].kind = after /\ call'[d].stage = "answered")
        BY <1>3, <2>1, <3>1 DEF UnderWay
      <3> QED BY <1>3, <3>2 DEF ReadsAgain
    <2>3. ReadsAgain("load", "code") => ReadsAgain("load", "code")'
      BY <2>2
    <2>4. ReadsAgain("templates", "publish") => ReadsAgain("templates", "publish")'
      BY <2>2
    <2>5. /\ page.data.known => page.data.code = code \/ ReadsAgain("load", "code")
          /\ page.template \in {Absent, published} \/ ReadsAgain("templates", "publish")
      BY <2>1 DEF SettingsInv, Shows
    <2> QED BY <1>2, <2>3, <2>4, <2>5 DEF Shows
  <1>9. WordsHold'
    <2> SUFFICES ASSUME Clean', NEW k \in Keys \ elsewhere
                 PROVE  page.words[k] \in {Absent, variable[k]} \/ \E d \in UnderWay : Saved(call'[d], k)
      BY <1>2, <1>3 DEF WordsHold, Saved
    <2>1. Clean /\ "lost" \notin slip'
      BY <1>4 DEF Clean
    <2>2. ASSUME NEW d \in UnderWay, Saved(call[d], k)
          PROVE  Saved(call'[d], k)
      <3>1. CASE d = c
        BY <1>3, <2>1, <2>2, <3>1 DEF Saved
      <3>2. CASE d # c
        BY <1>3, <2>2, <3>2 DEF UnderWay
      <3> QED BY <3>1, <3>2
    <2> QED BY <2>1, <2>2 DEF SettingsInv, WordsHold
  <1>10. DraftsHold'
    BY <1>2, <1>4 DEF SettingsInv, DraftsHold, Clean
  <1>11. CallHolds(r)'
    <2>1. r.count \in Nat /\ r.shown \in Nat
      BY RecordFields
    <2>2. (Together' <=> Together) /\ (Clean' => Clean) /\ (slip' = {} => slip = {})
      BY <1>4 DEF Together, Clean
    <2>3. MakeHolds(r)' /\ ReadHolds(r)' /\ SaveHolds(r)'
      BY <1>2, <2>2 DEF CallHolds, MakeHolds, ReadHolds, SaveHolds
    <2>4. CodeHolds(r)'
      BY <1>2, <1>4 DEF CallHolds, CodeHolds
    <2>5. BulkHolds(r)'
      BY <1>4, <1>5, <2>1 DEF CallHolds, BulkHolds
    <2> QED BY <2>3, <2>4, <2>5 DEF CallHolds
  <1>12. /\ variable' \in [Keys -> Values] /\ published' \in Values /\ delivery' \in Logged
         /\ workflow' \in [made : Nat, versions : Nat] /\ reverted' \subseteq Keys
         /\ code' \in Values
    BY <1>1, <1>2 DEF SettingsTypes
  <1> QED BY <1>2, <1>4, <1>5, <1>6, <1>7, <1>8, <1>9, <1>10, <1>11, <1>12, ServerStep

\* What was to be read again is, when another request moves.
LEMMA ReadsGoOn ==
    ASSUME SettingsTypes, NEW c \in Calls, NEW r \in CallRecord \union {NoCall},
           call' = [call EXCEPT ![c] = r], NEW kind, NEW after,
           \/ call[c] = NoCall
           \/ call[c].kind # kind /\ (call[c].kind # after \/ call[c].stage # "answered")
    PROVE  ReadsAgain(kind, after) => ReadsAgain(kind, after)'
  <1>1. \A d \in Calls : d # c => call'[d] = call[d]
    BY OneCallMoves
  <1> SUFFICES ASSUME ReadsAgain(kind, after)
               PROVE  ReadsAgain(kind, after)'
    OBVIOUS
  <1>2. PICK d \in UnderWay :
          call[d].kind = kind \/ (call[d].kind = after /\ call[d].stage = "answered")
    BY DEF ReadsAgain
  <1>3. d # c /\ d \in Calls
    BY <1>2 DEF UnderWay
  <1>4. call'[d] = call[d] /\ d \in UnderWay'
    BY <1>1, <1>3 DEF UnderWay
  <1> QED BY <1>2, <1>4 DEF ReadsAgain

\* A request that begins to read does.
LEMMA ReadsNow ==
    ASSUME SettingsTypes, NEW c \in Calls, NEW r \in CallRecord, call' = [call EXCEPT ![c] = r]
    PROVE  /\ r.kind = "load" => ReadsAgain("load", "code")'
           /\ r.kind = "templates" => ReadsAgain("templates", "publish")'
           /\ r.kind = "code" /\ r.stage = "answered" => ReadsAgain("load", "code")'
           /\ r.kind = "publish" /\ r.stage = "answered" => ReadsAgain("templates", "publish")'
  <1>1. r \in CallRecord \union {NoCall}
    OBVIOUS
  <1>2. call'[c] = r /\ UnderWay' = UnderWay \union {c}
    BY <1>1, OneCallMoves
  <1>3. c \in UnderWay'
    BY <1>2
  <1> QED BY <1>2, <1>3 DEF ReadsAgain

\* The words are as true as they were, when no save that wrote goes.
LEMMA WordsStay ==
    ASSUME SettingsInv, NEW c \in Calls, NEW r \in CallRecord \union {NoCall},
           call' = [call EXCEPT ![c] = r], slip \subseteq slip', UNCHANGED <<variable, elsewhere>>,
           page'.words = page.words,
           \/ call[c] = NoCall \/ call[c].kind # "set"
           \/ call[c].stage \notin {"written", "answered"} \/ "lost" \in slip'
    PROVE  WordsHold'
  <1>1. SettingsTypes
    BY DEF SettingsInv
  <1>2. \A d \in Calls : d # c => call'[d] = call[d]
    BY <1>1, OneCallMoves
  <1> SUFFICES ASSUME Clean', NEW k \in Keys \ elsewhere
               PROVE  page.words[k] \in {Absent, variable[k]} \/ \E d \in UnderWay' : Saved(call'[d], k)
    BY DEF WordsHold, Saved
  <1>3. Clean /\ "lost" \notin slip'
    BY DEF Clean
  <1>4. ASSUME NEW d \in UnderWay, Saved(call[d], k)
        PROVE  d \in UnderWay' /\ Saved(call'[d], k)
    <2>1. d # c /\ d \in Calls
      BY <1>3, <1>4 DEF Saved, UnderWay
    <2>2. call'[d] = call[d]
      BY <1>2, <2>1
    <2> QED BY <1>4, <2>1, <2>2 DEF UnderWay
  <1> QED BY <1>3, <1>4 DEF SettingsInv, WordsHold

\* The drafts are as true as they were.
LEMMA DraftsStay ==
    ASSUME SettingsInv, slip \subseteq slip', UNCHANGED <<variable, elsewhere>>,
           page'.drafts = page.drafts, page'.typed = page.typed,
           page'.tab = page.tab \/ (page.tab # "variables" /\ page'.tab # "variables")
    PROVE  DraftsHold'
  <1>1. Clean' => Clean
    BY DEF Clean
  <1>2. /\ page.tab # "variables" => page.drafts = NoWords /\ page.typed = {}
        /\ Clean => \A k \in Keys \ elsewhere :
             k \in page.typed \/ page.drafts[k] \in {Absent, variable[k]}
    BY DEF SettingsInv, DraftsHold
  <1>3. page'.tab # "variables" => page'.drafts = NoWords /\ page'.typed = {}
    BY <1>2
  <1>4. Clean' => \A k \in Keys \ elsewhere' :
          k \in page'.typed \/ page'.drafts[k] \in {Absent, variable'[k]}
    BY <1>1, <1>2
  <1> QED BY <1>3, <1>4 DEF DraftsHold

\* An answer is taken and nothing more is asked.
LEMMA EndsStep ==
    ASSUME SettingsInv, NEW c \in UnderWay, call' = [call EXCEPT ![c] = NoCall],
           UNCHANGED pageIdle, slip \subseteq slip', slip' \subseteq slip \union {"unread"},
           page' \in Pages, ~page'.busy, page'.edit = page.edit,
           page'.pending # Absent => CountedIn(page'.pending),
           ErrorOrNotice', Shows', WordsHold', DraftsHold'
    PROVE  SettingsInv'
  <1>1. SettingsTypes /\ c \in Calls
    BY DEF SettingsInv, UnderWay
  <1>2. UNCHANGED <<variable, code, published, delivery, workflow, admin, presses, news, faults,
                    elsewhere, reverted, wanted>>
    BY DEF pageIdle, storeVars, historyVars
  <1>3. /\ call' \in [Calls -> CallRecord \union {NoCall}] /\ call'[c] = NoCall
        /\ \A d \in Calls : d # c => call'[d] = call[d]
        /\ UnderWay' = UnderWay \ {c}
    <2>1. NoCall \in CallRecord \union {NoCall}
      OBVIOUS
    <2> QED BY <1>1, <2>1, OneCallMoves
  <1>4. \A n \in Nat : CountedIn(n) => CountedIn(n)'
    <2>1. Failed' = Failed
      BY <1>2 DEF Failed
    <2> QED BY <1>1, <2>1, FewerFailed
  <1>5. SettingsTypes'
    <2>1. slip' \subseteq Slips
      BY <1>1 DEF SettingsTypes, Slips
    <2> QED BY <1>1, <1>2, <1>3, <2>1 DEF SettingsTypes
  <1>6. Versioned'
    <2>1. NoCall.stage # "versioning"
      BY DEF NoCall
    <2>2. \A d \in Calls : call'[d].stage = "versioning" => call[d].stage = "versioning"
      BY <1>3, <2>1
    <2> QED BY <1>1, <1>2, <2>2, SameVersions DEF SettingsInv
  <1>7. Together' <=> Together
    BY DEF Together
  <1>8. \A d \in UnderWay' : Together
    BY <1>3 DEF SettingsInv, OneCall
  <1>9. OneCall' /\ Flagged' /\ Cleared'
    BY <1>7, <1>8 DEF OneCall, Flagged, Cleared
  <1>10. PendingHolds'
    <2>1. page'.pending # Absent => page'.pending \in Nat
      BY <1>5, PageFields DEF SettingsTypes
    <2> QED BY <1>4, <2>1 DEF PendingHolds
  <1>11. EditHolds' /\ OneWorkflow' /\ NothingIsReverted'
    BY <1>2 DEF SettingsInv, EditHolds, EditsAreKept, OneWorkflow, NothingIsReverted
  <1>12. \A d \in UnderWay' : CallHolds(call[d])' 
    <2> SUFFICES ASSUME NEW d \in UnderWay'
                 PROVE  CallHolds(call[d])'
      OBVIOUS
    <2>1. d \in UnderWay /\ d # c /\ d \in Calls
      BY <1>3 DEF UnderWay
    <2>2. call'[d] = call[d]
      BY <1>3, <2>1
    <2> QED BY <1>1, <1>2, <1>4, <2>1, <2>2, OthersHold
  <1> QED BY <1>5, <1>6, <1>9, <1>10, <1>11, <1>12 DEF SettingsInv

\* A request is sent, by a press or with an answer.
LEMMA PostStep ==
    ASSUME SettingsInv, NEW c \in Calls, NEW r \in CallRecord, call' = [call EXCEPT ![c] = r],
           r.stage = "sent", UNCHANGED <<storeVars, admin, news, faults, historyVars>>,
           slip' = slip \union (IF UnderWay \ {c} # {} THEN {"together"} ELSE {}),
           presses' \in Nat, page' \in Pages, page'.busy, page'.error = "none",
           page'.notice = "none", EditHolds', page'.pending \in {page.pending, Absent},
           CallHolds(r)', Shows', WordsHold', DraftsHold'
    PROVE  SettingsInv'
  <1>1. SettingsTypes
    BY DEF SettingsInv
  <1>2. UNCHANGED <<variable, code, published, delivery, workflow, elsewhere, reverted, wanted>>
    BY DEF storeVars, historyVars
  <1>3. /\ call' \in [Calls -> CallRecord \union {NoCall}] /\ call'[c] = r
        /\ \A d \in Calls : d # c => call'[d] = call[d]
        /\ UnderWay' = UnderWay \union {c}
    <2>1. r \in CallRecord \union {NoCall}
      OBVIOUS
    <2> QED BY <1>1, <2>1, OneCallMoves
  <1>4. slip \subseteq slip' /\ slip' \subseteq Slips
    BY <1>1 DEF SettingsTypes, Slips
  <1>5. \A n \in Nat : CountedIn(n) => CountedIn(n)'
    <2>1. Failed' = Failed
      BY <1>2 DEF Failed
    <2> QED BY <1>1, <1>4, <2>1, FewerFailed
  <1>6. SettingsTypes'
    BY <1>1, <1>2, <1>3, <1>4 DEF SettingsTypes
  <1>7. Versioned'
    <2>2. \A d \in Calls : call'[d].stage = "versioning" => call[d].stage = "versioning"
      BY <1>3
    <2> QED BY <1>1, <1>2, <2>2, SameVersions DEF SettingsInv
  <1>8. \A d \in UnderWay' : d # c => "together" \in slip'
    BY <1>3
  <1>9. OneCall' /\ Flagged' /\ Cleared' /\ ErrorOrNotice'
    BY <1>3, <1>8 DEF OneCall, Together, Flagged, Cleared, ErrorOrNotice
  <1>10. PendingHolds'
    <2>1. page.pending # Absent => page.pending \in Nat
      BY <1>1, PageFields DEF SettingsTypes
    <2> QED BY <1>5, <2>1 DEF SettingsInv, PendingHolds
  <1>11. OneWorkflow' /\ NothingIsReverted'
    BY <1>2, <1>4 DEF SettingsInv, OneWorkflow, NothingIsReverted
  <1>12. \A d \in UnderWay' : CallHolds(call[d])'
    <2> SUFFICES ASSUME NEW d \in UnderWay'
                 PROVE  CallHolds(call[d])'
      OBVIOUS
    <2>1. CASE d = c
      BY <1>3, <2>1
    <2>2. CASE d # c
      <3>1. d \in UnderWay /\ d \in Calls /\ "together" \in slip'
        BY <1>3, <1>8, <2>2 DEF UnderWay
      <3>2. call'[d] = call[d]
        BY <1>3, <2>2, <3>1
      <3> QED BY <1>2, <1>4, <1>5, <2>2, <3>1, <3>2, OthersHold
    <2> QED BY <2>1, <2>2
  <1> QED BY <1>6, <1>7, <1>9, <1>10, <1>11, <1>12 DEF SettingsInv

Stages == {"sent", "written", "replaying", "creating", "versioning", "answered", "failed", "refused"}

\* A request at another stage is what it was otherwise.
LEMMA StageIs ==
    ASSUME NEW q \in CallRecord, NEW s \in Stages, NEW r, r = [q EXCEPT !.stage = s]
    PROVE  /\ r \in CallRecord /\ r.stage = s
           /\ r.kind = q.kind /\ r.left = q.left /\ r.drafts = q.drafts /\ r.typed = q.typed
           /\ r.value = q.value /\ r.ids = q.ids /\ r.count = q.count /\ r.shown = q.shown
           /\ r.says = q.says /\ r.words = q.words /\ r.data = q.data
  BY DEF CallRecord, Stages

\* What a request carries, before its answer is there, it carries at any stage
\* at which nothing more is said of it.
LEMMA StageHolds ==
    ASSUME NEW q \in CallRecord, CallHolds(q), NEW s \in Stages \ {"sent", "answered", "creating"},
           NEW r, r = [q EXCEPT !.stage = s]
    PROVE  CallHolds(r)
  <1>1. /\ r \in CallRecord /\ r.stage = s /\ s \in Stages
        /\ r.kind = q.kind /\ r.left = q.left /\ r.drafts = q.drafts /\ r.typed = q.typed
        /\ r.value = q.value /\ r.ids = q.ids /\ r.count = q.count /\ r.shown = q.shown
        /\ r.says = q.says /\ r.words = q.words
    BY StageIs
  <1>2. s \notin {"sent", "answered", "creating"}
    OBVIOUS
  <1>3. MakeHolds(r) /\ ReadHolds(r)
    BY <1>1, <1>2 DEF MakeHolds, ReadHolds
  <1>4. BulkHolds(r)
    BY <1>1, <1>2 DEF CallHolds, BulkHolds
  <1>5. CodeHolds(r)
    BY <1>1, <1>2 DEF CallHolds, CodeHolds
  <1>6. SaveHolds(r)
    BY <1>1, <1>2 DEF CallHolds, SaveHolds
  <1> QED BY <1>1, <1>3, <1>4, <1>5, <1>6 DEF CallHolds

\* A request of which nothing is claimed.
LEMMA PlainHolds ==
    ASSUME NEW r \in CallRecord, r.kind \notin {"set", "count", "replayAll", "code"},
           r.stage # "creating", r.says # "none" => r.kind = "load",
           r.stage = "answered" => r.kind \notin {"load", "templates", "variables"}
    PROVE  CallHolds(r) /\ CallHolds(r)'
  <1>1. MakeHolds(r) /\ MakeHolds(r)'
    BY DEF MakeHolds
  <1>2. BulkHolds(r) /\ BulkHolds(r)'
    BY DEF BulkHolds
  <1>3. CodeHolds(r) /\ CodeHolds(r)'
    BY DEF CodeHolds
  <1>4. ReadHolds(r) /\ ReadHolds(r)'
    BY DEF ReadHolds
  <1>5. SaveHolds(r) /\ SaveHolds(r)'
    BY DEF SaveHolds
  <1> QED BY <1>1, <1>2, <1>3, <1>4, <1>5 DEF CallHolds

\* The request of an action, and what it carries.
LEMMA CallIs ==
    ASSUME SettingsInv, NEW c \in Calls, call[c] # NoCall
    PROVE  /\ c \in UnderWay /\ call[c] \in CallRecord /\ CallHolds(call[c])
           /\ call[c].stage \in Stages /\ call[c].kind \in Kinds
  <1>1. c \in UnderWay
    BY DEF UnderWay
  <1>2. call[c] \in CallRecord
    BY <1>1, CallsKnown DEF SettingsInv
  <1> QED BY <1>1, <1>2, RecordFields DEF SettingsInv, Stages

\* A refusal keeps everything.
LEMMA RefuseKeeps ==
    ASSUME SettingsInv, NEW c \in Calls, Refuse(c)
    PROVE  SettingsInv'
  <1>1. call[c] # NoCall
    BY DEF Refuse, NoCall
  <1>2. /\ c \in UnderWay /\ call[c] \in CallRecord /\ CallHolds(call[c])
    BY <1>1, CallIs
  <1>3. PICK r : r = [call[c] EXCEPT !.stage = "refused"]
    OBVIOUS
  <1>4. r \in CallRecord /\ r.stage = "refused" /\ r.kind = call[c].kind /\ r.left = call[c].left
    BY <1>2, <1>3, StageIs DEF Stages
  <1>5. CallHolds(r)
    BY <1>2, <1>3, StageHolds DEF Stages
  <1>6. call' = [call EXCEPT ![c] = r]
    BY <1>3 DEF Refuse, Steps
  <1>7. /\ UNCHANGED <<storeVars, admin, page, presses, news, historyVars>> /\ faults' = faults
        /\ slip' = slip
    BY DEF Refuse, serverIdle, historyVars
  <1>8. faults' \in Nat
    BY <1>7 DEF SettingsInv, SettingsTypes
  <1>9. call[c].stage = "sent"
    BY DEF Refuse
  <1> QED BY <1>2, <1>4, <1>5, <1>6, <1>7, <1>8, <1>9, OnlyCall

\* A failure keeps everything.
LEMMA FailureKeeps ==
    ASSUME SettingsInv, NEW c \in Calls, CallFails(c)
    PROVE  SettingsInv'
  <1>1. call[c] # NoCall
    BY DEF CallFails, NoCall
  <1>2. /\ c \in UnderWay /\ call[c] \in CallRecord /\ CallHolds(call[c])
    BY <1>1, CallIs
  <1>3. PICK r : r = [call[c] EXCEPT !.stage = "failed"]
    OBVIOUS
  <1>4. r \in CallRecord /\ r.stage = "failed" /\ r.kind = call[c].kind /\ r.left = call[c].left
    BY <1>2, <1>3, StageIs DEF Stages
  <1>5. CallHolds(r)
    BY <1>2, <1>3, StageHolds DEF Stages
  <1>6. call' = [call EXCEPT ![c] = r]
    BY <1>3 DEF CallFails, Steps
  <1>7. /\ UNCHANGED <<storeVars, admin, page, presses, news, historyVars>>
        /\ faults' = faults + 1
        /\ slip' = slip \union (IF call[c].stage # "sent" THEN {"lost"} ELSE {})
    BY DEF CallFails
  <1>8. faults' \in Nat
    BY <1>7 DEF SettingsInv, SettingsTypes
  <1>9. CASE call[c].stage = "sent"
    <2>1. slip' = slip
      BY <1>7, <1>9
    <2> QED BY <1>2, <1>4, <1>5, <1>6, <1>7, <1>8, <1>9, <2>1, OnlyCall
  <1>10. CASE call[c].stage # "sent"
    <2>1. slip' = slip \union {"lost"}
      BY <1>7, <1>10
    <2> QED BY <1>2, <1>4, <1>5, <1>6, <1>7, <1>8, <2>1, OnlyCall
  <1> QED BY <1>9, <1>10

\* A step of a route that stores nothing.
LEMMA ReadingStep ==
    ASSUME SettingsInv, NEW c \in Calls, call[c] # NoCall, NEW r \in CallRecord,
           call' = [call EXCEPT ![c] = r], UNCHANGED <<storeVars, serverIdle, reverted>>,
           r.kind = call[c].kind, r.left = call[c].left, r.stage # "versioning",
           call[c].stage # "answered", call[c].stage = "written" => r.stage = "answered",
           CallHolds(r)
    PROVE  SettingsInv'
  <1>1. c \in UnderWay
    BY DEF UnderWay
  <1>2. /\ UNCHANGED <<storeVars, admin, page, presses, news, historyVars>> /\ faults' = faults
        /\ slip' = slip
    BY DEF serverIdle, historyVars
  <1>3. faults' \in Nat
    BY <1>2 DEF SettingsInv, SettingsTypes
  <1> QED BY <1>1, <1>2, <1>3, OnlyCall

\* The diagnostics keep everything.
LEMMA DiagnosticsKeeps ==
    ASSUME SettingsInv, NEW c \in Calls, Diagnostics(c)
    PROVE  SettingsInv'
  <1>1. call[c] # NoCall /\ call[c].kind = "load" /\ call[c].stage = "sent"
    BY DEF Diagnostics, At
  <1>2. call[c] \in CallRecord /\ CallHolds(call[c])
    BY <1>1, CallIs
  <1>3. PICK q : q = [call[c] EXCEPT !.data = [known |-> TRUE, code |-> code, failed |-> Failed]]
    OBVIOUS
  <1>4. /\ q \in CallRecord /\ q.kind = "load" /\ q.left = call[c].left /\ q.says = call[c].says
        /\ q.data.code = code
    <2>1. [known |-> TRUE, code |-> code, failed |-> Failed] \in Data
      BY DEF SettingsInv, SettingsTypes, Data, Failed
    <2> QED BY <1>1, <1>2, <1>3, <2>1 DEF CallRecord
  <1>5. PICK r : r = [q EXCEPT !.stage = "answered"]
    OBVIOUS
  <1>6. /\ r \in CallRecord /\ r.kind = "load" /\ r.left = call[c].left /\ r.says = call[c].says
        /\ r.stage = "answered" /\ r.data.code = code
    BY <1>4, <1>5, StageIs DEF Stages
  <1>7. CallHolds(r)
    BY <1>6 DEF CallHolds, MakeHolds, BulkHolds, CodeHolds, ReadHolds, SaveHolds
  <1>8. call' = [call EXCEPT ![c] = r] /\ UNCHANGED <<storeVars, serverIdle, reverted>>
    BY <1>3, <1>5 DEF Diagnostics, Answers
  <1> QED BY <1>1, <1>6, <1>7, <1>8, ReadingStep

\* The listing of the variables keeps everything.
LEMMA ListVariablesKeeps ==
    ASSUME SettingsInv, NEW c \in Calls, ListVariables(c)
    PROVE  SettingsInv'
  <1>1. /\ call[c] # NoCall /\ call[c].kind \in {"variables", "set"}
        /\ call[c].stage \in {"sent", "written"}
    BY DEF ListVariables, At
  <1>2. call[c] \in CallRecord /\ CallHolds(call[c])
    BY <1>1, CallIs
  <1>3. PICK q : q = [call[c] EXCEPT !.words = variable]
    OBVIOUS
  <1>4. /\ q \in CallRecord /\ q.kind = call[c].kind /\ q.left = call[c].left
        /\ q.says = call[c].says /\ q.words = variable
        /\ q.drafts = call[c].drafts /\ q.typed = call[c].typed
    <2>1. variable \in Words
      BY DEF SettingsInv, SettingsTypes, Words
    <2> QED BY <1>2, <1>3, <2>1 DEF CallRecord
  <1>5. PICK r : r = [q EXCEPT !.stage = "answered"]
    OBVIOUS
  <1>6. /\ r \in CallRecord /\ r.kind = call[c].kind /\ r.left = call[c].left
        /\ r.says = call[c].says /\ r.words = variable
        /\ r.drafts = call[c].drafts /\ r.typed = call[c].typed /\ r.stage = "answered"
    BY <1>4, <1>5, StageIs DEF Stages
  <1>7. CallHolds(r)
    <2>1. MakeHolds(r) /\ BulkHolds(r) /\ CodeHolds(r) /\ ReadHolds(r)
      BY <1>1, <1>6 DEF MakeHolds, BulkHolds, CodeHolds, ReadHolds
    <2>2. SaveHolds(r)
      BY <1>2, <1>6 DEF CallHolds, SaveHolds
    <2> QED BY <1>2, <1>6, <2>1, <2>2 DEF CallHolds
  <1>8. call' = [call EXCEPT ![c] = r] /\ UNCHANGED <<storeVars, serverIdle, reverted>>
    BY <1>3, <1>5 DEF ListVariables, Answers
  <1> QED BY <1>1, <1>6, <1>7, <1>8, ReadingStep

\* An action on the number keeps everything.
LEMMA AccountActionKeeps ==
    ASSUME SettingsInv, NEW c \in Calls, AccountAction(c)
    PROVE  SettingsInv'
  <1>1. /\ call[c] # NoCall /\ call[c].kind \in {"test", "connect", "disconnect", "sync"}
        /\ call[c].stage = "sent"
    BY DEF AccountAction, At
  <1>2. call[c] \in CallRecord /\ CallHolds(call[c])
    BY <1>1, CallIs
  <1>3. PICK r : r = [call[c] EXCEPT !.stage = "answered"]
    OBVIOUS
  <1>4. /\ r \in CallRecord /\ r.kind = call[c].kind /\ r.left = call[c].left
        /\ r.says = call[c].says /\ r.stage = "answered"
    BY <1>2, <1>3, StageIs DEF Stages
  <1>5. CallHolds(r)
    BY <1>1, <1>2, <1>4 DEF CallHolds, MakeHolds, BulkHolds, CodeHolds, ReadHolds, SaveHolds
  <1>6. call' = [call EXCEPT ![c] = r] /\ UNCHANGED <<storeVars, serverIdle, reverted>>
    BY <1>3 DEF AccountAction, Answers
  <1> QED BY <1>1, <1>4, <1>5, <1>6, ReadingStep

\* The listing of the templates keeps everything.
LEMMA ListTemplatesKeeps ==
    ASSUME SettingsInv, NEW c \in Calls, ListTemplates(c)
    PROVE  SettingsInv'
  <1>1. call[c] # NoCall /\ call[c].kind = "templates" /\ call[c].stage = "sent"
    BY DEF ListTemplates, At
  <1>2. call[c] \in CallRecord /\ CallHolds(call[c])
    BY <1>1, CallIs
  <1>3. PICK q : q = [call[c] EXCEPT !.value = published]
    OBVIOUS
  <1>4. /\ q \in CallRecord /\ q.kind = "templates" /\ q.left = call[c].left
        /\ q.says = call[c].says /\ q.value = published
    BY <1>1, <1>2, <1>3 DEF CallRecord, SettingsInv, SettingsTypes
  <1>5. PICK r : r = [q EXCEPT !.stage = "answered"]
    OBVIOUS
  <1>6. /\ r \in CallRecord /\ r.kind = "templates" /\ r.left = call[c].left
        /\ r.says = call[c].says /\ r.stage = "answered" /\ r.value = published
    BY <1>4, <1>5, StageIs DEF Stages
  <1>7. CallHolds(r)
    BY <1>1, <1>2, <1>6 DEF CallHolds, MakeHolds, BulkHolds, CodeHolds, ReadHolds, SaveHolds
  <1>8. call' = [call EXCEPT ![c] = r] /\ UNCHANGED <<storeVars, serverIdle, reverted>>
    BY <1>3, <1>5 DEF ListTemplates, Answers
  <1> QED BY <1>1, <1>6, <1>7, <1>8, ReadingStep

\* The count of the failed ones keeps everything.
LEMMA CountFailedKeeps ==
    ASSUME SettingsInv, NEW c \in Calls, CountFailed(c)
    PROVE  SettingsInv'
  <1>1. call[c] # NoCall /\ call[c].kind = "count" /\ call[c].stage = "sent"
    BY DEF CountFailed, At
  <1>2. call[c] \in CallRecord /\ CallHolds(call[c])
    BY <1>1, CallIs
  <1>3. Backlog \in Nat
    BY BacklogIs DEF SettingsInv
  <1>4. PICK q : q = [call[c] EXCEPT !.count = Backlog]
    OBVIOUS
  <1>5. /\ q \in CallRecord /\ q.kind = "count" /\ q.left = call[c].left
        /\ q.says = call[c].says /\ q.count = Backlog
    BY <1>1, <1>2, <1>3, <1>4 DEF CallRecord
  <1>6. PICK r : r = [q EXCEPT !.stage = "answered"]
    OBVIOUS
  <1>7. /\ r \in CallRecord /\ r.kind = "count" /\ r.left = call[c].left
        /\ r.says = call[c].says /\ r.stage = "answered" /\ r.count = Backlog
    BY <1>5, <1>6, StageIs DEF Stages
  <1>8. CallHolds(r)
    <2>1. CountedIn(r.count)
      BY <1>3, <1>7 DEF CountedIn
    <2> QED BY <1>1, <1>2, <1>7, <2>1
            DEF CallHolds, MakeHolds, BulkHolds, CodeHolds, ReadHolds, SaveHolds
  <1>9. call' = [call EXCEPT ![c] = r] /\ UNCHANGED <<storeVars, serverIdle, reverted>>
    BY <1>4, <1>6 DEF CountFailed, Answers, Backlog
  <1> QED BY <1>1, <1>7, <1>8, <1>9, ReadingStep

\* The listing of what to replay keeps everything: no more than was counted.
LEMMA ListReplayKeeps ==
    ASSUME SettingsInv, NEW c \in Calls, ListReplay(c)
    PROVE  SettingsInv'
  <1>1. /\ call[c] # NoCall /\ call[c].kind \in {"replay", "replayAll"}
        /\ call[c].stage = "sent"
    BY DEF ListReplay, At
  <1>2. call[c] \in CallRecord /\ CallHolds(call[c])
    BY <1>1, CallIs
  <1>3. PICK ids \in Replayable(c) : Steps(c, [call[c] EXCEPT !.ids = ids], "replaying")
    BY DEF ListReplay
  <1>4. /\ ids \subseteq Deliveries
        /\ call[c].kind = "replayAll" => Cardinality(ids) = Backlog
    BY <1>1, <1>2, <1>3, RecordFields DEF Replayable, Failed, Backlog
  <1>5. Backlog \in Nat /\ Backlog <= ReplayCap
    BY BacklogIs DEF SettingsInv
  <1>6. PICK q : q = [call[c] EXCEPT !.ids = ids]
    OBVIOUS
  <1>7. /\ q \in CallRecord /\ q.kind = call[c].kind /\ q.left = call[c].left
        /\ q.says = call[c].says /\ q.ids = ids /\ q.count = call[c].count
        /\ q.shown = call[c].shown
    BY <1>2, <1>4, <1>6 DEF CallRecord
  <1>8. PICK r : r = [q EXCEPT !.stage = "replaying"]
    OBVIOUS
  <1>9. /\ r \in CallRecord /\ r.kind = call[c].kind /\ r.left = call[c].left
        /\ r.says = call[c].says /\ r.stage = "replaying" /\ r.ids = ids
        /\ r.count = call[c].count /\ r.shown = call[c].shown
    BY <1>7, <1>8, StageIs DEF Stages
  <1>10. CallHolds(r)
    <2>1. BulkHolds(r)
      <3>1. CASE r.kind = "replayAll"
        <4>1. CountedIn(r.shown) /\ r.count = 0 /\ Cardinality(r.ids) = Backlog
          BY <1>1, <1>2, <1>4, <1>9, <3>1 DEF CallHolds, BulkHolds
        <4> QED BY <1>5, <1>9, <3>1, <4>1 DEF BulkHolds, CountedIn
      <3>2. CASE r.kind # "replayAll"
        BY <1>9, <3>2 DEF BulkHolds
      <3> QED BY <3>1, <3>2
    <2> QED BY <1>1, <1>2, <1>9, <2>1 DEF CallHolds, MakeHolds, CodeHolds, ReadHolds, SaveHolds
  <1>11. call' = [call EXCEPT ![c] = r] /\ UNCHANGED <<storeVars, serverIdle, reverted>>
    BY <1>3, <1>6, <1>8 DEF ListReplay, Steps
  <1> QED BY <1>1, <1>9, <1>10, <1>11, ReadingStep

\* The end of a replay keeps everything.
LEMMA ReplayEndsKeeps ==
    ASSUME SettingsInv, NEW c \in Calls, ReplayEnds(c)
    PROVE  SettingsInv'
  <1>1. /\ call[c] # NoCall /\ call[c].kind \in {"replay", "replayAll"}
        /\ call[c].stage = "replaying"
    BY DEF ReplayEnds, At
  <1>2. call[c] \in CallRecord /\ CallHolds(call[c])
    BY <1>1, CallIs
  <1>3. PICK r : r = [call[c] EXCEPT !.stage = "answered"]
    OBVIOUS
  <1>4. /\ r \in CallRecord /\ r.kind = call[c].kind /\ r.left = call[c].left
        /\ r.says = call[c].says /\ r.stage = "answered" /\ r.ids = call[c].ids
        /\ r.count = call[c].count /\ r.shown = call[c].shown
    BY <1>2, <1>3, StageIs DEF Stages
  <1>5. CallHolds(r)
    BY <1>1, <1>2, <1>4 DEF CallHolds, MakeHolds, BulkHolds, CodeHolds, ReadHolds, SaveHolds
  <1>6. call' = [call EXCEPT ![c] = r] /\ UNCHANGED <<storeVars, serverIdle, reverted>>
    BY <1>3 DEF ReplayEnds, Answers
  <1> QED BY <1>1, <1>4, <1>5, <1>6, ReadingStep

\* The search for the workflow keeps everything: who goes on has found none.
LEMMA FindWorkflowKeeps ==
    ASSUME SettingsInv, NEW c \in Calls, FindWorkflow(c)
    PROVE  SettingsInv'
  <1>1. call[c] # NoCall /\ call[c].kind = "provision" /\ call[c].stage = "sent"
    BY DEF FindWorkflow, At
  <1>2. call[c] \in CallRecord /\ CallHolds(call[c])
    BY <1>1, CallIs
  <1>3. UNCHANGED <<storeVars, serverIdle, reverted>>
    BY DEF FindWorkflow
  <1>4. CASE Exists
    <2>1. PICK q : q = [call[c] EXCEPT !.value = 1]
      OBVIOUS
    <2>2. /\ q \in CallRecord /\ q.kind = "provision" /\ q.left = call[c].left
          /\ q.says = call[c].says
      BY <1>1, <1>2, <2>1 DEF CallRecord, Values
    <2>3. PICK r : r = [q EXCEPT !.stage = "answered"]
      OBVIOUS
    <2>4. /\ r \in CallRecord /\ r.kind = "provision" /\ r.left = call[c].left
          /\ r.says = call[c].says /\ r.stage = "answered"
      BY <2>2, <2>3, StageIs DEF Stages
    <2>5. CallHolds(r)
      BY <1>1, <1>2, <2>4 DEF CallHolds, MakeHolds, BulkHolds, CodeHolds, ReadHolds, SaveHolds
    <2>6. call' = [call EXCEPT ![c] = r]
      BY <1>4, <2>1, <2>3 DEF FindWorkflow, Answers
    <2> QED BY <1>1, <1>3, <2>4, <2>5, <2>6, ReadingStep
  <1>5. CASE ~Exists
    <2>1. PICK r : r = [call[c] EXCEPT !.stage = "creating"]
      OBVIOUS
    <2>2. /\ r \in CallRecord /\ r.kind = "provision" /\ r.left = call[c].left
          /\ r.says = call[c].says /\ r.stage = "creating"
      BY <1>1, <1>2, <2>1, StageIs DEF Stages
    <2>3. workflow.made = 0
      BY <1>5 DEF Exists, SettingsInv, SettingsTypes
    <2>4. CallHolds(r)
      BY <1>1, <1>2, <2>2, <2>3
         DEF CallHolds, MakeHolds, BulkHolds, CodeHolds, ReadHolds, SaveHolds
    <2>5. call' = [call EXCEPT ![c] = r]
      BY <1>5, <2>1 DEF FindWorkflow, Steps
    <2> QED BY <1>1, <1>3, <2>2, <2>4, <2>5, ReadingStep
  <1> QED BY <1>4, <1>5

\* A step of a route that stores something, on the page nothing moves.
LEMMA StoringStep ==
    ASSUME SettingsInv, NEW c \in Calls, call[c] # NoCall, NEW r \in CallRecord,
           call' = [call EXCEPT ![c] = r], UNCHANGED serverIdle,
           variable' \in [Keys -> Values], published' \in Values, delivery' \in Logged,
           workflow' \in [made : Nat, versions : Nat], reverted' \subseteq Keys,
           Failed' \subseteq Failed, code' \in Values,
           code' \in {code, wanted} \/ "whileSaving" \in slip,
           Versioned', OneWorkflow', EditsAreKept', NothingIsReverted', Shows', WordsHold',
           DraftsHold', CallHolds(r)'
    PROVE  SettingsInv'
  <1>1. c \in UnderWay /\ SettingsTypes
    BY DEF UnderWay, SettingsInv
  <1>2. UNCHANGED <<admin, page, presses, news, elsewhere, wanted, faults, slip>>
    BY DEF serverIdle
  <1>3. faults' \in Nat /\ slip \subseteq slip' /\ slip' \subseteq slip \union {"lost"}
    BY <1>1, <1>2 DEF SettingsTypes
  <1>4. \A n \in Nat : CountedIn(n) => CountedIn(n)'
    BY <1>1, <1>3, FewerFailed
  <1>5. UNCHANGED <<admin, page, presses, news, elsewhere, wanted>>
    BY <1>2
  <1> QED BY <1>1, <1>3, <1>4, <1>5, ServerStep

\* Each delivery of a replay keeps everything.
LEMMA ReplayOneKeeps ==
    ASSUME SettingsInv, NEW c \in Calls, ReplayOne(c)
    PROVE  SettingsInv'
  <1>1. /\ call[c] # NoCall /\ call[c].kind \in {"replay", "replayAll"}
        /\ call[c].stage = "replaying"
    BY DEF ReplayOne, At
  <1>2. /\ call[c] \in CallRecord /\ CallHolds(call[c]) /\ SettingsTypes
        /\ call[c].ids \subseteq Deliveries /\ call[c].count \in Nat /\ call[c].shown \in Nat
    BY <1>1, CallIs, RecordFields DEF SettingsInv
  <1>3. PICK d \in call[c].ids :
           \/ /\ delivery' = [delivery EXCEPT ![d] = "RECEIVED"]
              /\ Steps(c, [call[c] EXCEPT !.ids = @ \ {d}, !.count = @ + 1], "replaying")
           \/ /\ delivery' = delivery
              /\ Steps(c, [call[c] EXCEPT !.ids = @ \ {d}], "replaying")
    BY DEF ReplayOne
  <1>4. PICK r \in CallRecord, n \in {0, 1} :
          /\ call' = [call EXCEPT ![c] = r]
          /\ r.kind = call[c].kind /\ r.left = call[c].left
          /\ r.says = call[c].says /\ r.stage = "replaying" /\ r.ids = call[c].ids \ {d}
          /\ r.count = call[c].count + n /\ r.shown = call[c].shown
    <2>1. ASSUME Steps(c, [call[c] EXCEPT !.ids = @ \ {d}, !.count = @ + 1], "replaying")
          PROVE  \E r \in CallRecord, n \in {0, 1} :
            /\ call' = [call EXCEPT ![c] = r]
            /\ r.kind = call[c].kind /\ r.left = call[c].left
            /\ r.says = call[c].says /\ r.stage = "replaying" /\ r.ids = call[c].ids \ {d}
            /\ r.count = call[c].count + n /\ r.shown = call[c].shown
      <3>7. PICK m, k : m = call[c].ids \ {d} /\ k = call[c].count + 1
        OBVIOUS
      <3>9. m \in SUBSET Deliveries /\ k \in Nat
        BY <1>2, <3>7
      <3>5. PICK o : o = [call[c] EXCEPT !.ids = m, !.count = k]
        OBVIOUS
      <3>8. /\ o \in CallRecord /\ o.kind = call[c].kind /\ o.left = call[c].left
            /\ o.says = call[c].says /\ o.ids = m /\ o.count = k /\ o.shown = call[c].shown
        BY <1>2, <3>5, <3>9 DEF CallRecord
      <3>6. /\ o \in CallRecord /\ o.kind = call[c].kind /\ o.left = call[c].left
            /\ o.says = call[c].says /\ o.ids = call[c].ids \ {d}
            /\ o.count = call[c].count + 1 /\ o.shown = call[c].shown
        BY <3>7, <3>8
      <3>1. PICK q : q = [o EXCEPT !.stage = "replaying"]
        OBVIOUS
      <3>2. /\ q \in CallRecord /\ q.kind = call[c].kind /\ q.left = call[c].left
            /\ q.says = call[c].says /\ q.stage = "replaying" /\ q.ids = call[c].ids \ {d}
            /\ q.count = call[c].count + 1 /\ q.shown = call[c].shown
        BY <3>1, <3>6, StageIs DEF Stages
      <3>3. call' = [call EXCEPT ![c] = q]
        BY <2>1, <3>1, <3>5, <3>7 DEF Steps
      <3>4. 1 \in {0, 1}
        OBVIOUS
      <3> QED BY <3>2, <3>3, <3>4, Zenon
    <2>2. ASSUME Steps(c, [call[c] EXCEPT !.ids = @ \ {d}], "replaying")
          PROVE  \E r \in CallRecord, n \in {0, 1} :
            /\ call' = [call EXCEPT ![c] = r]
            /\ r.kind = call[c].kind /\ r.left = call[c].left
            /\ r.says = call[c].says /\ r.stage = "replaying" /\ r.ids = call[c].ids \ {d}
            /\ r.count = call[c].count + n /\ r.shown = call[c].shown
      <3>5. PICK o : o = [call[c] EXCEPT !.ids = @ \ {d}]
        OBVIOUS
      <3>6. /\ o \in CallRecord /\ o.kind = call[c].kind /\ o.left = call[c].left
            /\ o.says = call[c].says /\ o.ids = call[c].ids \ {d}
            /\ o.count = call[c].count + 0 /\ o.shown = call[c].shown
        BY <1>2, <3>5 DEF CallRecord
      <3>1. PICK q : q = [o EXCEPT !.stage = "replaying"]
        OBVIOUS
      <3>2. /\ q \in CallRecord /\ q.kind = call[c].kind /\ q.left = call[c].left
            /\ q.says = call[c].says /\ q.stage = "replaying" /\ q.ids = call[c].ids \ {d}
            /\ q.count = call[c].count + 0 /\ q.shown = call[c].shown
        BY <3>1, <3>6, StageIs DEF Stages
      <3>3. call' = [call EXCEPT ![c] = q]
        BY <2>2, <3>1, <3>5 DEF Steps
      <3>4. 0 \in {0, 1}
        OBVIOUS
      <3> QED BY <3>2, <3>3, <3>4, Zenon
    <2> QED BY <1>3, <2>1, <2>2
  <1>7. UNCHANGED <<variable, code, published, workflow, serverIdle, reverted>>
    BY DEF ReplayOne
  <1>8. UNCHANGED <<admin, page, presses, news, elsewhere, wanted, faults, slip>>
    BY <1>7 DEF serverIdle
  <1>9. delivery' \in Logged /\ Failed' \subseteq Failed
    BY <1>2, <1>3 DEF SettingsTypes, Logged, Failed
  <1>10. call' = [call EXCEPT ![c] = r] /\ r \in CallRecord \union {NoCall}
    BY <1>4
  <1>11. \A x \in Calls : call'[x].stage = "versioning" => call[x].stage = "versioning"
    BY <1>2, <1>4, <1>10, OneCallMoves
  <1>12. Versioned'
    BY <1>2, <1>7, <1>11, SameVersions DEF SettingsInv
  <1>13. OneWorkflow' /\ EditsAreKept' /\ NothingIsReverted'
    BY <1>7, <1>8 DEF SettingsInv, OneWorkflow, EditHolds, EditsAreKept, NothingIsReverted
  <1>14. Shows'
    <2>1. /\ ReadsAgain("load", "code") => ReadsAgain("load", "code")'
          /\ ReadsAgain("templates", "publish") => ReadsAgain("templates", "publish")'
      BY <1>1, <1>2, <1>10, ReadsGoOn
    <2> QED BY <1>7, <1>8, <2>1 DEF SettingsInv, Shows
  <1>15. WordsHold'
    <2>1. slip \subseteq slip' /\ UNCHANGED <<variable, elsewhere>> /\ page'.words = page.words
      BY <1>7, <1>8
    <2> QED BY <1>1, <1>10, <2>1, WordsStay
  <1>16. DraftsHold'
    BY <1>7, <1>8, DraftsStay
  <1>17. CallHolds(r)'
    <2>1. BulkHolds(r)'
      <3>1. CASE r.kind = "replayAll"
        <4>1. IsFiniteSet(call[c].ids) /\ Cardinality(call[c].ids) \in Nat
          BY <1>2, BacklogIs
        <4>2. Cardinality(r.ids) = Cardinality(call[c].ids) - 1
          BY <1>3, <1>4, <4>1, FS_RemoveElement
        <4>3. r.count + Cardinality(r.ids) <= call[c].count + Cardinality(call[c].ids)
          BY <1>2, <1>4, <4>1, <4>2
        <4>4. /\ "failedSince" \in slip \/ call[c].count + Cardinality(call[c].ids) <= r.shown
              /\ call[c].count + Cardinality(call[c].ids) <= ReplayCap
          BY <1>2, <1>4, <3>1 DEF CallHolds, BulkHolds
        <4>5. r.count \in Nat /\ Cardinality(r.ids) \in Nat /\ r.shown \in Nat
          BY <1>2, <1>3, <1>4, <4>1, <4>2, FS_RemoveElement, FS_CardinalityType
        <4>6. ReplayCap \in Nat
          BY SettingsAssumption
        <4>7. /\ "failedSince" \in slip \/ r.count + Cardinality(r.ids) <= r.shown
              /\ r.count + Cardinality(r.ids) <= ReplayCap
          BY <4>1, <4>3, <4>4, <4>5, <4>6, <1>2
        <4> QED BY <1>4, <1>8, <3>1, <4>7 DEF BulkHolds
      <3>2. CASE r.kind # "replayAll"
        BY <1>4, <3>2 DEF BulkHolds
      <3> QED BY <3>1, <3>2
    <2> QED BY <1>1, <1>2, <1>4, <2>1 DEF CallHolds, MakeHolds, CodeHolds, ReadHolds, SaveHolds
  <1>18. /\ variable' \in [Keys -> Values] /\ published' \in Values /\ code' \in Values
         /\ workflow' \in [made : Nat, versions : Nat] /\ reverted' \subseteq Keys
         /\ code' \in {code, wanted} \/ "whileSaving" \in slip
    BY <1>2, <1>7 DEF SettingsTypes
  <1>19. UNCHANGED serverIdle
    BY <1>7
  <1> QED BY <1>1, <1>4, <1>9, <1>10, <1>12, <1>13, <1>14, <1>15, <1>16, <1>17, <1>18, <1>19,
             StoringStep

\* The next variable of a save is one of those that are left.
LEMMA NextOne ==
    ASSUME NEW keys \in SUBSET Keys, keys # {}
    PROVE  Next1(keys) \in keys
  <1>1. \E k \in keys : \A l \in keys : k <= l
    <2> DEFINE less == {ss \in Nat \X Nat : ss[1] < ss[2]}
    <2>1. IsWellFoundedOn(less, Nat)
      BY NatLessThanWellFounded DEF OpToRel
    <2>2. \A g, h \in Nat : <<h, g>> \notin less => g <= h
      OBVIOUS
    <2>3. keys \subseteq Nat
      BY SettingsAssumption DEF Keys
    <2> HIDE DEF less
    <2>4. \E g \in keys : \A h \in keys : ~(<<h, g>> \in less)
      BY <2>1, <2>3, WFMin
    <2> QED BY <2>2, <2>3, <2>4
  <1> QED BY <1>1 DEF Next1

\* The update of the number keeps everything.
LEMMA UpdateAccountKeeps ==
    ASSUME SettingsInv, NEW c \in Calls, UpdateAccount(c)
    PROVE  SettingsInv'
  <1>1. call[c] # NoCall /\ call[c].kind = "code" /\ call[c].stage = "sent"
    BY DEF UpdateAccount, At
  <1>2. call[c] \in CallRecord /\ CallHolds(call[c]) /\ SettingsTypes /\ call[c].value \in Values
    BY <1>1, CallIs, RecordFields DEF SettingsInv
  <1>3. PICK r : r = [call[c] EXCEPT !.stage = "answered"]
    OBVIOUS
  <1>4. /\ r \in CallRecord /\ r.kind = "code" /\ r.left = call[c].left
        /\ r.says = call[c].says /\ r.stage = "answered" /\ r.value = call[c].value
    BY <1>1, <1>2, <1>3, StageIs DEF Stages
  <1>5. call' = [call EXCEPT ![c] = r] /\ r \in CallRecord \union {NoCall}
    BY <1>3, <1>4 DEF UpdateAccount, Answers
  <1>6. /\ UNCHANGED <<variable, published, delivery, workflow, serverIdle, reverted>>
        /\ code' = call[c].value
    BY DEF UpdateAccount
  <1>7. UNCHANGED <<admin, page, presses, news, elsewhere, wanted, faults, slip>>
    BY <1>6 DEF serverIdle
  <1>8. "whileSaving" \in slip \/ code' = wanted
    BY <1>1, <1>2, <1>6 DEF CallHolds, CodeHolds
  <1>9. Failed' \subseteq Failed
    BY <1>6 DEF Failed
  <1>10. Versioned'
    <2>1. \A x \in Calls : call'[x].stage = "versioning" => call[x].stage = "versioning"
      BY <1>2, <1>4, <1>5, OneCallMoves
    <2> QED BY <1>2, <1>6, <2>1, SameVersions DEF SettingsInv
  <1>11. OneWorkflow' /\ EditsAreKept' /\ NothingIsReverted'
    BY <1>6, <1>7, <1>8 DEF SettingsInv, OneWorkflow, EditsAreKept, NothingIsReverted
  <1>12. Shows'
    <2>1. ReadsAgain("load", "code")'
      BY <1>2, <1>4, <1>5, ReadsNow
    <2>2. ReadsAgain("templates", "publish") => ReadsAgain("templates", "publish")'
      BY <1>1, <1>2, <1>5, ReadsGoOn
    <2> QED BY <1>6, <1>7, <2>1, <2>2 DEF SettingsInv, Shows
  <1>13. WordsHold'
    <2>1. slip \subseteq slip' /\ UNCHANGED <<variable, elsewhere>> /\ page'.words = page.words
      BY <1>6, <1>7
    <2> QED BY <1>1, <1>5, <2>1, WordsStay
  <1>14. DraftsHold'
    BY <1>6, <1>7, DraftsStay
  <1>15. CallHolds(r)'
    <2>1. CodeHolds(r)'
      BY <1>2, <1>4, <1>6, <1>7, <1>8 DEF CallHolds, CodeHolds
    <2>2. MakeHolds(r)'
      BY <1>4 DEF MakeHolds
    <2>3. BulkHolds(r)'
      BY <1>4 DEF BulkHolds
    <2>4. ReadHolds(r)'
      BY <1>4 DEF ReadHolds
    <2>5. SaveHolds(r)'
      BY <1>4 DEF SaveHolds
    <2> QED BY <1>1, <1>2, <1>4, <2>1, <2>2, <2>3, <2>4, <2>5 DEF CallHolds
  <1>16. /\ variable' \in [Keys -> Values] /\ published' \in Values /\ code' \in Values
         /\ workflow' \in [made : Nat, versions : Nat] /\ reverted' \subseteq Keys
         /\ delivery' \in Logged
         /\ code' \in {code, wanted} \/ "whileSaving" \in slip
    BY <1>2, <1>6, <1>8 DEF SettingsTypes
  <1>17. UNCHANGED serverIdle
    BY <1>6
  <1> QED BY <1>1, <1>4, <1>5, <1>9, <1>10, <1>11, <1>12, <1>13, <1>14, <1>15, <1>16,
             <1>17, StoringStep

\* The publishing of a template keeps everything.
LEMMA PublishKeeps ==
    ASSUME SettingsInv, NEW c \in Calls, Publish(c)
    PROVE  SettingsInv'
  <1>1. call[c] # NoCall /\ call[c].kind = "publish" /\ call[c].stage = "sent"
    BY DEF Publish, At
  <1>2. call[c] \in CallRecord /\ CallHolds(call[c]) /\ SettingsTypes /\ call[c].value \in Values
    BY <1>1, CallIs, RecordFields DEF SettingsInv
  <1>3. PICK r : r = [call[c] EXCEPT !.stage = "answered"]
    OBVIOUS
  <1>4. /\ r \in CallRecord /\ r.kind = "publish" /\ r.left = call[c].left
        /\ r.says = call[c].says /\ r.stage = "answered" /\ r.value = call[c].value
    BY <1>1, <1>2, <1>3, StageIs DEF Stages
  <1>5. call' = [call EXCEPT ![c] = r] /\ r \in CallRecord \union {NoCall}
    BY <1>3, <1>4 DEF Publish, Answers
  <1>6. /\ UNCHANGED <<variable, code, delivery, workflow, serverIdle, reverted>>
        /\ published' = call[c].value
    BY DEF Publish
  <1>7. UNCHANGED <<admin, page, presses, news, elsewhere, wanted, faults, slip>>
    BY <1>6 DEF serverIdle
  <1>9. Failed' \subseteq Failed
    BY <1>6 DEF Failed
  <1>10. Versioned'
    <2>1. \A x \in Calls : call'[x].stage = "versioning" => call[x].stage = "versioning"
      BY <1>2, <1>4, <1>5, OneCallMoves
    <2> QED BY <1>2, <1>6, <2>1, SameVersions DEF SettingsInv
  <1>11. OneWorkflow' /\ EditsAreKept' /\ NothingIsReverted'
    BY <1>6, <1>7 DEF SettingsInv, OneWorkflow, EditHolds, EditsAreKept, NothingIsReverted
  <1>12. Shows'
    <2>1. ReadsAgain("templates", "publish")'
      BY <1>2, <1>4, <1>5, ReadsNow
    <2>2. ReadsAgain("load", "code") => ReadsAgain("load", "code")'
      BY <1>1, <1>2, <1>5, ReadsGoOn
    <2> QED BY <1>6, <1>7, <2>1, <2>2 DEF SettingsInv, Shows
  <1>13. WordsHold'
    <2>1. slip \subseteq slip' /\ UNCHANGED <<variable, elsewhere>> /\ page'.words = page.words
      BY <1>6, <1>7
    <2> QED BY <1>1, <1>5, <2>1, WordsStay
  <1>14. DraftsHold'
    BY <1>6, <1>7, DraftsStay
  <1>15. CallHolds(r)'
    <2>1. r.says = "none"
      BY <1>1, <1>2, <1>4 DEF CallHolds
    <2> QED BY <1>4, <2>1, PlainHolds
  <1>16. /\ variable' \in [Keys -> Values] /\ published' \in Values /\ code' \in Values
         /\ workflow' \in [made : Nat, versions : Nat] /\ reverted' \subseteq Keys
         /\ delivery' \in Logged
         /\ code' \in {code, wanted} \/ "whileSaving" \in slip
    BY <1>2, <1>6 DEF SettingsTypes
  <1>17. UNCHANGED serverIdle
    BY <1>6
  <1> QED BY <1>1, <1>4, <1>5, <1>9, <1>10, <1>11, <1>12, <1>13, <1>14, <1>15, <1>16,
             <1>17, StoringStep

\* A step of the provisioning: the page and the rest of the store are as they were.
LEMMA ProvisioningStep ==
    ASSUME SettingsInv, NEW c \in Calls, call[c] # NoCall, call[c].kind = "provision",
           NEW s \in {"versioning", "answered"},
           call' = [call EXCEPT ![c] = [call[c] EXCEPT !.stage = s]],
           UNCHANGED <<variable, code, published, delivery, serverIdle, reverted>>,
           workflow' \in [made : Nat, versions : Nat], Versioned', OneWorkflow'
    PROVE  SettingsInv'
  <1>2. call[c] \in CallRecord /\ CallHolds(call[c]) /\ SettingsTypes
    BY CallIs DEF SettingsInv
  <1>3. PICK r : r = [call[c] EXCEPT !.stage = s]
    OBVIOUS
  <1>4. /\ r \in CallRecord /\ r.kind = "provision" /\ r.left = call[c].left
        /\ r.says = call[c].says /\ r.stage = s
    BY <1>2, <1>3, StageIs DEF Stages
  <1>5. call' = [call EXCEPT ![c] = r] /\ r \in CallRecord \union {NoCall}
    BY <1>3, <1>4
  <1>7. UNCHANGED <<admin, page, presses, news, elsewhere, wanted, faults, slip>>
    BY DEF serverIdle
  <1>9. Failed' \subseteq Failed
    BY DEF Failed
  <1>11. EditsAreKept' /\ NothingIsReverted'
    BY <1>7 DEF SettingsInv, EditHolds, EditsAreKept, NothingIsReverted
  <1>12. Shows'
    <2>1. /\ ReadsAgain("load", "code") => ReadsAgain("load", "code")'
          /\ ReadsAgain("templates", "publish") => ReadsAgain("templates", "publish")'
      BY <1>2, <1>5, ReadsGoOn
    <2> QED BY <1>7, <2>1 DEF SettingsInv, Shows
  <1>13. WordsHold'
    <2>1. slip \subseteq slip' /\ UNCHANGED <<variable, elsewhere>> /\ page'.words = page.words
      BY <1>7
    <2> QED BY <1>5, <2>1, WordsStay
  <1>14. DraftsHold'
    BY <1>7, DraftsStay
  <1>15. CallHolds(r)'
    <2>1. r.says = "none"
      BY <1>2, <1>4 DEF CallHolds
    <2> QED BY <1>4, <2>1, PlainHolds
  <1>16. /\ variable' \in [Keys -> Values] /\ published' \in Values /\ code' \in Values
         /\ reverted' \subseteq Keys
         /\ delivery' \in Logged
         /\ code' \in {code, wanted} \/ "whileSaving" \in slip
    BY <1>2 DEF SettingsTypes
  <1>17. UNCHANGED serverIdle
    OBVIOUS
  <1> QED BY <1>4, <1>5, <1>9, <1>11, <1>12, <1>13, <1>14, <1>15, <1>16, <1>17, StoringStep

\* The making of the workflow keeps everything.
LEMMA CreateWorkflowKeeps ==
    ASSUME SettingsInv, NEW c \in Calls, CreateWorkflow(c)
    PROVE  SettingsInv'
  <1>1. call[c] # NoCall /\ call[c].kind = "provision" /\ call[c].stage = "creating"
    BY DEF CreateWorkflow, At
  <1>2. call[c] \in CallRecord /\ CallHolds(call[c]) /\ SettingsTypes
    BY <1>1, CallIs DEF SettingsInv
  <1>3. PICK r : r = [call[c] EXCEPT !.stage = "versioning"]
    OBVIOUS
  <1>4. r \in CallRecord /\ r.stage = "versioning"
    BY <1>2, <1>3, StageIs DEF Stages
  <1>5. call' = [call EXCEPT ![c] = r] /\ r \in CallRecord \union {NoCall}
    BY <1>3, <1>4 DEF CreateWorkflow, Steps
  <1>6. /\ UNCHANGED <<variable, code, published, delivery, serverIdle, reverted>>
        /\ workflow' = [workflow EXCEPT !.made = @ + 1]
    BY DEF CreateWorkflow
  <1>7. /\ workflow' \in [made : Nat, versions : Nat] /\ workflow'.made = workflow.made + 1
        /\ workflow'.versions = workflow.versions /\ workflow.made \in Nat
        /\ workflow.versions \in Nat
    BY <1>2, <1>6 DEF SettingsTypes
  <1>8. Versioned'
    <2>1. Versioning' = Versioning \union {c} /\ c \notin Versioning
      BY <1>1, <1>2, <1>4, <1>5, OneCallMoves DEF Versioning
    <2>2. IsFiniteSet(Versioning) /\ workflow.versions + Cardinality(Versioning) <= workflow.made
      BY DEF SettingsInv, Versioned
    <2>3. /\ IsFiniteSet(Versioning') /\ Cardinality(Versioning') = Cardinality(Versioning) + 1
          /\ Cardinality(Versioning) \in Nat
      BY <2>1, <2>2, FS_AddElement, FS_CardinalityType
    <2> QED BY <1>7, <2>2, <2>3 DEF Versioned
  <1>9. OneWorkflow'
    <2>1. "together" \in slip \/ workflow.made = 0
      BY <1>1, <1>2 DEF CallHolds, MakeHolds, Together
    <2>2. slip' = slip
      BY <1>6 DEF serverIdle
    <2> QED BY <1>7, <2>1, <2>2 DEF OneWorkflow
  <1>10. call' = [call EXCEPT ![c] = [call[c] EXCEPT !.stage = "versioning"]]
    BY <1>3, <1>5
  <1> QED BY <1>1, <1>6, <1>7, <1>8, <1>9, <1>10, ProvisioningStep

\* The making of its version keeps everything.
LEMMA CreateVersionKeeps ==
    ASSUME SettingsInv, NEW c \in Calls, CreateVersion(c)
    PROVE  SettingsInv'
  <1>1. call[c] # NoCall /\ call[c].kind = "provision" /\ call[c].stage = "versioning"
    BY DEF CreateVersion, At
  <1>2. call[c] \in CallRecord /\ CallHolds(call[c]) /\ SettingsTypes
    BY <1>1, CallIs DEF SettingsInv
  <1>3. PICK r : r = [call[c] EXCEPT !.stage = "answered"]
    OBVIOUS
  <1>4. r \in CallRecord /\ r.stage = "answered"
    BY <1>2, <1>3, StageIs DEF Stages
  <1>5. call' = [call EXCEPT ![c] = r] /\ r \in CallRecord \union {NoCall}
    BY <1>3, <1>4 DEF CreateVersion, Answers
  <1>6. UNCHANGED <<variable, code, published, delivery, serverIdle, reverted>>
    BY DEF CreateVersion
  <1>7. PICK more \in {0, 1} : workflow' = [workflow EXCEPT !.versions = @ + more]
    BY DEF CreateVersion
  <1>8. /\ workflow' \in [made : Nat, versions : Nat] /\ workflow'.made = workflow.made
        /\ workflow'.versions <= workflow.versions + 1 /\ workflow.made \in Nat
        /\ workflow.versions \in Nat /\ workflow'.versions \in Nat
    BY <1>2, <1>7 DEF SettingsTypes
  <1>9. Versioned'
    <2>1. Versioning' = Versioning \ {c} /\ c \in Versioning
      BY <1>1, <1>2, <1>4, <1>5, OneCallMoves DEF Versioning
    <2>2. IsFiniteSet(Versioning) /\ workflow.versions + Cardinality(Versioning) <= workflow.made
      BY DEF SettingsInv, Versioned
    <2>3. /\ IsFiniteSet(Versioning') /\ Cardinality(Versioning') = Cardinality(Versioning) - 1
          /\ Cardinality(Versioning) \in Nat
      BY <2>1, <2>2, FS_RemoveElement, FS_CardinalityType
    <2> QED BY <1>8, <2>2, <2>3 DEF Versioned
  <1>10. OneWorkflow'
    BY <1>6, <1>8 DEF SettingsInv, OneWorkflow, serverIdle
  <1>11. call' = [call EXCEPT ![c] = [call[c] EXCEPT !.stage = "answered"]]
    BY <1>3, <1>5
  <1> QED BY <1>1, <1>6, <1>8, <1>9, <1>10, <1>11, ProvisioningStep

\* The writing of a variable keeps everything: nobody typed means nothing changes.
LEMMA SetVariableKeeps ==
    ASSUME SettingsInv, NEW c \in Calls, SetVariable(c)
    PROVE  SettingsInv'
  <1>1. call[c] # NoCall /\ call[c].kind = "set" /\ call[c].stage = "sent"
    BY DEF SetVariable, At
  <1>2. PICK q : q = call[c]
    OBVIOUS
  <1>3. /\ q \in CallRecord /\ CallHolds(q) /\ SettingsTypes /\ q.left \subseteq Keys
        /\ q.drafts \in Words /\ q.typed \subseteq Keys /\ q.kind = "set" /\ q.stage = "sent"
        /\ q.says \in Says
    BY <1>1, <1>2, CallIs, RecordFields DEF SettingsInv
  <1>4. q.left # {} /\ \A k \in q.left : q.drafts[k] # Absent
    BY <1>3 DEF CallHolds
  <1>5. PICK k : k = Next1(q.left)
    OBVIOUS
  <1>6. k \in q.left /\ k \in Keys
    BY <1>3, <1>4, <1>5, NextOne
  <1>7. PICK v : v = q.drafts[k]
    OBVIOUS
  <1>8. v \in Values
    BY <1>3, <1>4, <1>6, <1>7 DEF Words
  <1>9. /\ variable' = [variable EXCEPT ![k] = v]
        /\ reverted' = reverted \union (IF k \notin q.typed /\ variable[k] # v THEN {k} ELSE {})
    BY <1>2, <1>5, <1>7 DEF SetVariable
  <1>10. /\ variable' \in [Keys -> Values] /\ variable'[k] = v
         /\ \A l \in Keys : l # k => variable'[l] = variable[l]
    BY <1>3, <1>6, <1>8, <1>9 DEF SettingsTypes
  <1>11. PICK r : r = [q EXCEPT !.stage = "written"]
    OBVIOUS
  <1>12. /\ r \in CallRecord /\ r.kind = "set" /\ r.left = q.left /\ r.says = q.says
         /\ r.stage = "written" /\ r.drafts = q.drafts /\ r.typed = q.typed
    BY <1>3, <1>11, StageIs DEF Stages
  <1>13. call' = [call EXCEPT ![c] = r] /\ r \in CallRecord \union {NoCall}
    BY <1>2, <1>11, <1>12 DEF SetVariable, Steps
  <1>14. UNCHANGED <<code, published, delivery, workflow, serverIdle>>
    BY DEF SetVariable
  <1>15. UNCHANGED <<admin, page, presses, news, elsewhere, wanted, faults, slip>>
    BY <1>14 DEF serverIdle
  <1>16. Clean' = Clean
    BY <1>15 DEF Clean
  <1>17. Clean => k \in elsewhere \/ k \in q.typed \/ v = variable[k]
    BY <1>3, <1>6, <1>7 DEF CallHolds, SaveHolds
  <1>18. Failed' \subseteq Failed
    BY <1>14 DEF Failed
  <1>19. /\ call'[c] = r /\ UnderWay' = UnderWay \union {c}
         /\ \A x \in Calls : x # c => call'[x] = call[x]
    BY <1>3, <1>12, <1>13, OneCallMoves
  <1>20. Versioned'
    <2>1. \A x \in Calls : call'[x].stage = "versioning" => call[x].stage = "versioning"
      BY <1>12, <1>19
    <2> QED BY <1>3, <1>14, <2>1, SameVersions DEF SettingsInv
  <1>21. OneWorkflow' /\ EditsAreKept'
    BY <1>14, <1>15 DEF SettingsInv, OneWorkflow, EditHolds, EditsAreKept
  <1>22. NothingIsReverted'
    <2>1. CASE Clean
      <3>1. reverted \subseteq elsewhere
        BY <2>1 DEF SettingsInv, NothingIsReverted, Clean
      <3>2. reverted' \subseteq elsewhere
        BY <1>9, <1>17, <2>1, <3>1
      <3> QED BY <1>15, <3>2 DEF NothingIsReverted
    <2>2. CASE ~Clean
      BY <1>15, <2>2 DEF Clean, NothingIsReverted
    <2> QED BY <2>1, <2>2
  <1>23. Shows'
    <2>1. /\ ReadsAgain("load", "code") => ReadsAgain("load", "code")'
          /\ ReadsAgain("templates", "publish") => ReadsAgain("templates", "publish")'
      BY <1>1, <1>3, <1>13, ReadsGoOn
    <2> QED BY <1>14, <1>15, <2>1 DEF SettingsInv, Shows
  <1>24. WordsHold'
    <2> SUFFICES ASSUME Clean', NEW l \in Keys \ elsewhere
                 PROVE  page.words[l] \in {Absent, variable'[l]} \/ \E x \in UnderWay' : Saved(call'[x], l)
      BY <1>15 DEF WordsHold, Saved
    <2>1. CASE l = k
      <3>1. Saved(call'[c], l)
        BY <1>5, <1>12, <1>19, <2>1 DEF Saved
      <3> QED BY <1>19, <3>1
    <2>2. CASE l # k
      <3>1. page.words[l] \in {Absent, variable[l]} \/ \E x \in UnderWay : Saved(call[x], l)
        BY <1>16 DEF SettingsInv, WordsHold
      <3>2. variable'[l] = variable[l]
        BY <1>10, <2>2
      <3>3. ASSUME NEW x \in UnderWay, Saved(call[x], l)
            PROVE  x \in UnderWay' /\ Saved(call'[x], l)
        <4>1. x # c /\ x \in Calls
          BY <1>1, <3>3 DEF Saved, UnderWay
        <4>2. call'[x] = call[x]
          BY <1>19, <4>1
        <4> QED BY <1>19, <3>3, <4>2
      <3> QED BY <3>1, <3>2, <3>3
    <2> QED BY <2>1, <2>2
  <1>25. DraftsHold'
    <2>1. /\ page.tab # "variables" => page.drafts = NoWords /\ page.typed = {}
          /\ Clean => \A l \in Keys \ elsewhere :
               l \in page.typed \/ page.drafts[l] \in {Absent, variable[l]}
      BY DEF SettingsInv, DraftsHold
    <2>2. ASSUME Clean, NEW l \in Keys \ elsewhere
          PROVE  l \in page.typed \/ page.drafts[l] \in {Absent, variable'[l]}
      <3>1. CASE l # k
        BY <1>10, <2>1, <2>2, <3>1
      <3>2. CASE l = k /\ k \notin q.typed
        <4>1. variable'[l] = variable[l]
          BY <1>10, <1>17, <2>2, <3>2
        <4> QED BY <2>1, <2>2, <4>1
      <3>3. CASE l = k /\ k \in q.typed
        <4>1. page.tab # "variables" \/ q.typed \subseteq page.typed
          BY <1>3, <2>2 DEF CallHolds, SaveHolds
        <4>2. CASE page.tab # "variables"
          BY <2>1, <2>2, <4>2 DEF NoWords
        <4>3. CASE q.typed \subseteq page.typed
          BY <3>3, <4>3
        <4> QED BY <4>1, <4>2, <4>3
      <3> QED BY <3>1, <3>2, <3>3
    <2> QED BY <1>15, <1>16, <2>1, <2>2 DEF DraftsHold
  <1>26. CallHolds(r)'
    <2>1. MakeHolds(r)' /\ BulkHolds(r)' /\ CodeHolds(r)' /\ ReadHolds(r)'
      BY <1>12 DEF MakeHolds, BulkHolds, CodeHolds, ReadHolds
    <2>2. SaveHolds(r)'
      <3> SUFFICES ASSUME Clean'
                   PROVE  /\ \A l \in Keys \ elsewhere :
                               l \in r.left \ r.typed => r.drafts[l] = variable'[l]
                          /\ page.tab # "variables" \/ r.typed \subseteq page.typed
        BY <1>12, <1>15 DEF SaveHolds
      <3>1. /\ \A l \in Keys \ elsewhere : l \in q.left \ q.typed => q.drafts[l] = variable[l]
            /\ page.tab # "variables" \/ q.typed \subseteq page.typed
        BY <1>3, <1>16 DEF CallHolds, SaveHolds
      <3>2. \A l \in Keys \ elsewhere : l \in q.left \ q.typed => q.drafts[l] = variable'[l]
        BY <1>7, <1>10, <3>1
      <3> QED BY <1>12, <3>1, <3>2
    <2>3. r.says # "none" => r.kind = "load"
      BY <1>3, <1>12 DEF CallHolds
    <2> QED BY <1>4, <1>12, <2>1, <2>2, <2>3 DEF CallHolds
  <1>27. /\ published' \in Values /\ code' \in Values
         /\ workflow' \in [made : Nat, versions : Nat] /\ reverted' \subseteq Keys
         /\ delivery' \in Logged
         /\ code' \in {code, wanted} \/ "whileSaving" \in slip
    BY <1>3, <1>6, <1>9, <1>14 DEF SettingsTypes
  <1>28. UNCHANGED serverIdle
    BY <1>14
  <1> QED BY <1>1, <1>10, <1>12, <1>13, <1>18, <1>20, <1>21, <1>22, <1>23, <1>24, <1>25, <1>26,
             <1>27, <1>28, StoringStep

\* An answer that fails keeps everything.
LEMMA AnswerFailsKeeps ==
    ASSUME SettingsInv, NEW c \in Calls, AnswerFails(c)
    PROVE  SettingsInv'
  <1>1. call[c] # NoCall /\ call[c].stage \in {"failed", "refused"}
    BY DEF AnswerFails, NoCall
  <1>2. /\ c \in UnderWay /\ call[c] \in CallRecord /\ CallHolds(call[c]) /\ SettingsTypes
        /\ call[c].kind \in Kinds /\ call[c].says \in Says /\ page \in Pages
    BY <1>1, CallIs, RecordFields DEF SettingsInv, SettingsTypes
  <1>3. /\ page.forbidden \in BOOLEAN /\ page.notice \in Says /\ page.confirming \in BOOLEAN
        /\ page.pending \in Nat \union {Absent}
    BY <1>2, PageFields
  <1>4. PICK e, n, f, g :
          /\ e = call[c].kind /\ n = (IF call[c].says # "none" THEN call[c].says ELSE page.notice)
          /\ f = (page.forbidden \/ call[c].stage = "refused")
          /\ g = (page.confirming /\ call[c].kind # "disconnect")
    OBVIOUS
  <1>5. f \in BOOLEAN /\ g \in BOOLEAN
    BY <1>3, <1>4, Zenon
  <1>6. e \in Kinds \union {"none"} /\ n \in Says
    BY <1>2, <1>3, <1>4
  <1>7. page' = [page EXCEPT !.busy = FALSE, !.error = e, !.forbidden = f, !.notice = n,
                             !.confirming = g]
    BY <1>4 DEF AnswerFails
  <1>8. /\ page' \in Pages /\ page'.busy = FALSE /\ page'.error = e /\ page'.notice = n
        /\ page'.tab = page.tab /\ page'.data = page.data /\ page'.template = page.template
        /\ page'.words = page.words /\ page'.drafts = page.drafts /\ page'.typed = page.typed
        /\ page'.edit = page.edit /\ page'.pending = page.pending
    <2>1. PICK q : q = [page EXCEPT !.busy = FALSE, !.error = e, !.forbidden = f, !.notice = n,
                                    !.confirming = g]
      OBVIOUS
    <2>2. /\ q \in Pages /\ q.busy = FALSE /\ q.error = e /\ q.notice = n
          /\ q.tab = page.tab /\ q.data = page.data /\ q.template = page.template
          /\ q.words = page.words /\ q.drafts = page.drafts /\ q.typed = page.typed
          /\ q.edit = page.edit /\ q.pending = page.pending
      <3>1. page \in Pages
        BY <1>2
      <3> QED BY <3>1, <1>5, <1>6, <2>1, ZenonT(30) DEF Pages
    <2> QED BY <1>7, <2>1, <2>2
  <1>9. /\ call' = [call EXCEPT ![c] = NoCall] /\ UNCHANGED pageIdle
        /\ slip' = slip \union (IF call[c].kind \in {"load", "templates", "variables"}
                                THEN {"unread"} ELSE {})
    BY DEF AnswerFails
  <1>10. slip \subseteq slip' /\ slip' \subseteq slip \union {"unread"}
    BY <1>9
  <1>11. UNCHANGED <<variable, code, published, elsewhere>>
    BY <1>9 DEF pageIdle, storeVars, historyVars
  <1>12. NoCall \in CallRecord \union {NoCall}
    OBVIOUS
  <1>13. ErrorOrNotice'
    <2>1. "together" \in slip \/ page.notice = "none"
      BY <1>2 DEF SettingsInv, Cleared, Together
    <2>2. n # "none" => "together" \in slip \/ call[c].kind = "load"
      BY <1>2, <1>4, <2>1 DEF CallHolds
    <2> QED BY <1>4, <1>8, <1>10, <2>2 DEF ErrorOrNotice
  <1>14. Shows'
    <2> SUFFICES ASSUME slip' = {}
                 PROVE  Shows'
      BY DEF Shows
    <2>1. slip = {} /\ call[c].kind \notin {"load", "templates", "variables"}
      BY <1>9
    <2>2. /\ ReadsAgain("load", "code") => ReadsAgain("load", "code")'
          /\ ReadsAgain("templates", "publish") => ReadsAgain("templates", "publish")'
      BY <1>1, <1>2, <1>9, <1>12, <2>1, ReadsGoOn
    <2> QED BY <1>8, <1>11, <2>1, <2>2 DEF SettingsInv, Shows
  <1>15. WordsHold'
    BY <1>1, <1>8, <1>9, <1>10, <1>11, <1>12, WordsStay
  <1>16. DraftsHold'
    BY <1>8, <1>10, <1>11, DraftsStay
  <1>17. page'.pending # Absent => CountedIn(page'.pending)
    BY <1>8 DEF SettingsInv, PendingHolds
  <1> QED BY <1>2, <1>8, <1>9, <1>10, <1>13, <1>14, <1>15, <1>16, <1>17, EndsStep

\* A page with its words.
LEMMA WordsAre ==
    ASSUME NEW p \in Pages, NEW w \in Words, NEW q, q = WithWords(p, w)
    PROVE  /\ q \in Pages /\ q.words = w /\ q.typed = p.typed
           /\ q.drafts \in Words
           /\ p.tab = "variables" => q.drafts = KeptDrafts(p.drafts, w)
           /\ p.tab # "variables" => q.drafts = p.drafts
           /\ q.tab = p.tab /\ q.data = p.data /\ q.template = p.template /\ q.edit = p.edit
           /\ q.pending = p.pending /\ q.busy = p.busy /\ q.error = p.error /\ q.notice = p.notice
  <1>1. PICK d : d = IF p.tab = "variables" THEN KeptDrafts(p.drafts, w) ELSE p.drafts
    OBVIOUS
  <1>2. d \in Words /\ p.drafts \in Words
    <2>1. p.drafts \in Words
      BY PageFields
    <2>2. KeptDrafts(p.drafts, w) \in Words
      BY <2>1 DEF KeptDrafts, Words
    <2> QED BY <1>1, <2>1, <2>2
  <1>3. CASE p.tab = "variables"
    <2>1. q = [p EXCEPT !.words = w, !.drafts = d]
      BY <1>1, <1>3 DEF WithWords
    <2> QED BY <1>1, <1>2, <1>3, <2>1 DEF Pages
  <1>4. CASE p.tab # "variables"
    <2>1. q = [p EXCEPT !.words = w]
      BY <1>4 DEF WithWords
    <2> QED BY <1>2, <1>4, <2>1 DEF Pages
  <1> QED BY <1>3, <1>4

\* The page with the buttons free.
LEMMA ShownIs ==
    ASSUME page \in Pages, NEW q, q = Shown
    PROVE  /\ q \in Pages /\ q.busy = FALSE /\ q.tab = page.tab /\ q.data = page.data
           /\ q.template = page.template /\ q.words = page.words /\ q.drafts = page.drafts
           /\ q.typed = page.typed /\ q.edit = page.edit /\ q.pending = page.pending
           /\ q.error = page.error /\ q.notice = page.notice
  BY DEF Shown, Pages

\* Drafts beside the variables as they are read: what is not the variable was typed.
LEMMA DraftsRead ==
    ASSUME SettingsInv, NEW w \in Words,
           Clean => \A k \in Keys \ elsewhere : w[k] \in {Absent, variable[k]},
           page'.tab = page.tab, page'.typed = page.typed,
           page.tab = "variables" => page'.drafts = KeptDrafts(page.drafts, w),
           page.tab # "variables" => page'.drafts = page.drafts,
           UNCHANGED <<variable, elsewhere>>, slip \subseteq slip'
    PROVE  DraftsHold'
  <1>1. /\ page.tab # "variables" => page.drafts = NoWords /\ page.typed = {}
        /\ Clean => \A l \in Keys \ elsewhere :
             l \in page.typed \/ page.drafts[l] \in {Absent, variable[l]}
    BY DEF SettingsInv, DraftsHold
  <1>2. Clean' => Clean
    BY DEF Clean
  <1>3. ASSUME Clean, NEW k \in Keys \ elsewhere
        PROVE  k \in page'.typed \/ page'.drafts[k] \in {Absent, variable[k]}
    <2>1. CASE page.tab = "variables"
      <3>1. page'.drafts[k] = IF page.drafts[k] \in {Absent, w[k]} THEN w[k] ELSE page.drafts[k]
        BY <2>1 DEF KeptDrafts
      <3> QED BY <1>1, <1>3, <3>1
    <2>2. CASE page.tab # "variables"
      BY <1>1, <1>3, <2>2
    <2> QED BY <2>1, <2>2
  <1> QED BY <1>1, <1>2, <1>3 DEF DraftsHold

\* The variables that arrive keep everything.
LEMMA VariablesArriveKeeps ==
    ASSUME SettingsInv, NEW c \in Calls, VariablesArrive(c)
    PROVE  SettingsInv'
  <1>1. call[c] # NoCall /\ call[c].stage = "answered" /\ call[c].kind = "variables"
    BY DEF VariablesArrive, Succeeded
  <1>2. /\ c \in UnderWay /\ call[c] \in CallRecord /\ CallHolds(call[c]) /\ SettingsTypes
        /\ call[c].words \in Words /\ page \in Pages
    BY <1>1, CallIs, RecordFields DEF SettingsInv, SettingsTypes
  <1>3. PICK p, w : p = Shown /\ w = call[c].words
    OBVIOUS
  <1>4. /\ p \in Pages /\ p.busy = FALSE /\ p.tab = page.tab /\ p.data = page.data
        /\ p.template = page.template /\ p.words = page.words /\ p.drafts = page.drafts
        /\ p.typed = page.typed /\ p.edit = page.edit /\ p.pending = page.pending
        /\ p.error = page.error /\ p.notice = page.notice
    BY <1>2, <1>3, ShownIs
  <1>5. /\ page' = WithWords(p, w) /\ w \in Words
        /\ call' = [call EXCEPT ![c] = NoCall] /\ UNCHANGED pageIdle /\ slip' = slip
    BY <1>2, <1>3 DEF VariablesArrive, Ends
  <1>6. /\ page' \in Pages /\ page'.words = w /\ page'.typed = p.typed
        /\ p.tab = "variables" => page'.drafts = KeptDrafts(p.drafts, w)
        /\ p.tab # "variables" => page'.drafts = p.drafts
        /\ page'.tab = p.tab /\ page'.data = p.data /\ page'.template = p.template
        /\ page'.edit = p.edit /\ page'.pending = p.pending /\ page'.busy = p.busy
        /\ page'.error = p.error /\ page'.notice = p.notice
    BY <1>4, <1>5, WordsAre
  <1>7. UNCHANGED <<variable, code, published, elsewhere>>
    BY <1>5 DEF pageIdle, storeVars, historyVars
  <1>8. slip \subseteq slip' /\ slip' \subseteq slip \union {"unread"}
    BY <1>5
  <1>9. Clean => \A k \in Keys \ elsewhere : w[k] = variable[k]
    BY <1>1, <1>2, <1>3 DEF CallHolds, SaveHolds
  <1>10. ErrorOrNotice'
    BY <1>4, <1>5, <1>6 DEF SettingsInv, ErrorOrNotice
  <1>11. Shows'
    <2>1. NoCall \in CallRecord \union {NoCall}
      OBVIOUS
    <2>2. /\ ReadsAgain("load", "code") => ReadsAgain("load", "code")'
          /\ ReadsAgain("templates", "publish") => ReadsAgain("templates", "publish")'
      BY <1>1, <1>2, <1>5, <2>1, ReadsGoOn
    <2> QED BY <1>4, <1>5, <1>6, <1>7, <2>2 DEF SettingsInv, Shows
  <1>12. WordsHold'
    BY <1>5, <1>6, <1>7, <1>9 DEF WordsHold, Clean
  <1>13. DraftsHold'
    <2>1. \A k \in Keys \ elsewhere : Clean => w[k] \in {Absent, variable[k]}
      BY <1>9
    <2> QED BY <1>4, <1>5, <1>6, <1>7, <1>8, <2>1, DraftsRead
  <1>14. page'.pending # Absent => CountedIn(page'.pending)
    BY <1>4, <1>6 DEF SettingsInv, PendingHolds
  <1>15. ~page'.busy /\ page'.edit = page.edit
    BY <1>4, <1>6
  <1> QED BY <1>2, <1>5, <1>6, <1>8, <1>10, <1>11, <1>12, <1>13, <1>14, <1>15, EndsStep

\* What a request carries as it is sent, it carries under way.
LEMMA SentHolds ==
    ASSUME SettingsInv, NEW r \in CallRecord, r.stage = "sent", CallHolds(r),
           UNCHANGED <<storeVars, historyVars>>, slip \subseteq slip',
           r.kind = "set" => page'.tab = page.tab /\ page'.typed = page.typed
    PROVE  CallHolds(r)'
  <1>1. UNCHANGED <<variable, code, published, delivery, workflow, elsewhere, wanted>>
    BY DEF storeVars, historyVars
  <1>2. \A n \in Nat : CountedIn(n) => CountedIn(n)'
    <2>1. Failed' = Failed /\ SettingsTypes
      BY <1>1 DEF Failed, SettingsInv
    <2> QED BY <2>1, FewerFailed
  <1>3. MakeHolds(r)' /\ ReadHolds(r)'
    BY DEF MakeHolds, ReadHolds
  <1>4. BulkHolds(r)'
    <2>1. r.count \in Nat /\ r.shown \in Nat
      BY RecordFields
    <2> QED BY <1>2, <2>1 DEF CallHolds, BulkHolds
  <1>5. CodeHolds(r)'
    BY <1>1 DEF CallHolds, CodeHolds
  <1>6. SaveHolds(r)'
    <2>1. Clean' => Clean
      BY DEF Clean
    <2> QED BY <1>1, <2>1 DEF CallHolds, SaveHolds
  <1> QED BY <1>3, <1>4, <1>5, <1>6 DEF CallHolds

\* The page as a request leaves it.
LEMMA PostedIs ==
    \A p \in Pages : \E q \in Pages :
        /\ q = [p EXCEPT !.busy = TRUE, !.error = "none", !.notice = "none"]
        /\ q.busy = TRUE /\ q.error = "none" /\ q.notice = "none"
        /\ q.tab = p.tab /\ q.data = p.data /\ q.template = p.template /\ q.words = p.words
        /\ q.drafts = p.drafts /\ q.typed = p.typed /\ q.edit = p.edit /\ q.pending = p.pending
  <1> SUFFICES ASSUME NEW p \in Pages
               PROVE  \E q \in Pages :
                        /\ q = [p EXCEPT !.busy = TRUE, !.error = "none", !.notice = "none"]
                        /\ q.busy = TRUE /\ q.error = "none" /\ q.notice = "none"
                        /\ q.tab = p.tab /\ q.data = p.data /\ q.template = p.template
                        /\ q.words = p.words /\ q.drafts = p.drafts /\ q.typed = p.typed
                        /\ q.edit = p.edit /\ q.pending = p.pending
    OBVIOUS
  <1>1. "none" \in Says
    BY DEF Says
  <1>2. PICK q : q = [p EXCEPT !.busy = TRUE, !.error = "none", !.notice = "none"]
    OBVIOUS
  <1>3. /\ q \in Pages /\ q.busy = TRUE /\ q.error = "none" /\ q.notice = "none"
        /\ q.tab = p.tab /\ q.data = p.data /\ q.template = p.template /\ q.words = p.words
        /\ q.drafts = p.drafts /\ q.typed = p.typed /\ q.edit = p.edit /\ q.pending = p.pending
    BY <1>1, <1>2 DEF Pages
  <1> QED BY <1>2, <1>3, Zenon

\* What a request leaves to be read again, if the one before it was read.
Follows(c, r) ==
    \/ call[c] = NoCall
    \/ /\ call[c].kind \notin {"load", "templates", "set"}
       /\ call[c].kind = "code" => r.kind = "load"
       /\ call[c].kind = "publish" => r.kind = "templates"

\* A request is sent from a page that shows what it showed.
LEMMA PostFrom ==
    ASSUME SettingsInv, NEW c \in Calls, NEW r \in CallRecord, NEW p \in Pages, Post(c, r, p),
           r.stage = "sent", CallHolds(r), Follows(c, r),
           UNCHANGED <<storeVars, admin, news, faults, historyVars>>, presses' \in Nat,
           p.data = page.data, p.template = page.template, p.words = page.words,
           p.edit = page.edit \/ (p.edit = Absent /\ (code = wanted \/ "whileSaving" \in slip)),
           p.pending \in {page.pending, Absent},
           r.kind = "set" => p.tab = page.tab /\ p.typed = page.typed,
           \/ /\ p.drafts = page.drafts /\ p.typed = page.typed
              /\ p.tab = page.tab \/ (page.tab # "variables" /\ p.tab # "variables")
           \/ p.tab # "variables" /\ p.drafts = NoWords /\ p.typed = {}
    PROVE  SettingsInv'
  <1>1. /\ call' = [call EXCEPT ![c] = r] /\ r \in CallRecord \union {NoCall} /\ SettingsTypes
        /\ slip' = slip \union (IF UnderWay \ {c} # {} THEN {"together"} ELSE {})
    BY DEF Post, SettingsInv
  <1>2. PICK q \in Pages :
          /\ q = [p EXCEPT !.busy = TRUE, !.error = "none", !.notice = "none"]
          /\ q.busy = TRUE /\ q.error = "none" /\ q.notice = "none"
          /\ q.tab = p.tab /\ q.data = p.data /\ q.template = p.template /\ q.words = p.words
          /\ q.drafts = p.drafts /\ q.typed = p.typed /\ q.edit = p.edit /\ q.pending = p.pending
    BY PostedIs, Zenon
  <1>3. /\ q \in Pages /\ q.busy = TRUE /\ q.error = "none" /\ q.notice = "none"
        /\ q.tab = p.tab /\ q.data = p.data /\ q.template = p.template /\ q.words = p.words
        /\ q.drafts = p.drafts /\ q.typed = p.typed /\ q.edit = p.edit /\ q.pending = p.pending
    BY <1>2, Zenon
  <1>4. page' = q
    BY <1>2 DEF Post
  <1>5. slip \subseteq slip'
    BY <1>1
  <1>6. UNCHANGED <<variable, code, published, elsewhere, wanted>>
    BY DEF storeVars, historyVars
  <1>7. EditHolds'
    BY <1>3, <1>4, <1>5, <1>6 DEF SettingsInv, EditHolds, EditsAreKept
  <1>8. CallHolds(r)'
    <2>1. r.kind = "set" => page'.tab = page.tab /\ page'.typed = page.typed
      BY <1>3, <1>4
    <2>2. UNCHANGED <<storeVars, historyVars>>
      OBVIOUS
    <2> QED BY <1>5, <2>1, <2>2, SentHolds
  <1>9. Shows'
    <2> SUFFICES ASSUME slip' = {}
                 PROVE  Shows'
      BY DEF Shows
    <2>1. ReadsAgain("load", "code") => ReadsAgain("load", "code")'
      <3>1. CASE r.kind = "load"
        BY <1>1, <3>1, ReadsNow
      <3>2. CASE r.kind # "load"
        BY <1>1, <3>2, ReadsGoOn DEF Follows
      <3> QED BY <3>1, <3>2
    <2>2. ReadsAgain("templates", "publish") => ReadsAgain("templates", "publish")'
      <3>1. CASE r.kind = "templates"
        BY <1>1, <3>1, ReadsNow
      <3>2. CASE r.kind # "templates"
        BY <1>1, <3>2, ReadsGoOn DEF Follows
      <3> QED BY <3>1, <3>2
    <2>3. slip = {}
      BY <1>5
    <2> QED BY <1>3, <1>4, <1>6, <2>1, <2>2, <2>3 DEF SettingsInv, Shows
  <1>10. WordsHold'
    <2>1. UNCHANGED <<variable, elsewhere>> /\ page'.words = page.words
      BY <1>3, <1>4, <1>6
    <2>2. call[c] = NoCall \/ call[c].kind # "set"
      BY DEF Follows
    <2> QED BY <1>1, <1>5, <2>1, <2>2, WordsStay
  <1>11. DraftsHold'
    <2>1. CASE /\ p.drafts = page.drafts /\ p.typed = page.typed
               /\ p.tab = page.tab \/ (page.tab # "variables" /\ p.tab # "variables")
      BY <1>3, <1>4, <1>5, <1>6, <2>1, DraftsStay
    <2>2. CASE p.tab # "variables" /\ p.drafts = NoWords /\ p.typed = {}
      BY <1>3, <1>4, <2>2 DEF DraftsHold, NoWords
    <2> QED BY <2>1, <2>2
  <1>12. /\ page' \in Pages /\ page'.busy /\ page'.error = "none" /\ page'.notice = "none"
         /\ page'.pending \in {page.pending, Absent}
    BY <1>3, <1>4
  <1> QED BY <1>1, <1>7, <1>8, <1>9, <1>10, <1>11, <1>12, PostStep

\* A plain request as it is sent.
LEMMA PlainRequest ==
    ASSUME NEW kind \in Kinds, kind \notin {"set", "replayAll", "code", "count"}
    PROVE  CallHolds(Request(kind))
  <1>1. PICK r : r = Request(kind)
    OBVIOUS
  <1>2. r \in CallRecord /\ r.kind = kind /\ r.stage = "sent" /\ r.says = "none"
    BY <1>1, RequestIs
  <1> QED BY <1>1, <1>2, PlainHolds

\* The opening of the page keeps everything.
LEMMA OpenPageKeeps ==
    ASSUME SettingsInv, NEW c \in Calls, OpenPage(c)
    PROVE  SettingsInv'
  <1>1. page \in Pages /\ presses' \in Nat
    BY DEF SettingsInv, SettingsTypes, OpenPage
  <1>2. PICK p, r : p = [page EXCEPT !.tab = "connection"] /\ r = Request("load")
    OBVIOUS
  <1>3. /\ p \in Pages /\ p.tab = "connection" /\ p.data = page.data
        /\ p.template = page.template /\ p.words = page.words /\ p.drafts = page.drafts
        /\ p.typed = page.typed /\ p.edit = page.edit /\ p.pending = page.pending
    <2>1. "connection" \in Tabs
      BY DEF Tabs
    <2> QED BY <1>1, <1>2, <2>1 DEF Pages
  <1>4. "load" \in Kinds
    BY DEF Kinds
  <1>5. r \in CallRecord /\ r.kind = "load" /\ r.stage = "sent" /\ CallHolds(r)
    BY <1>2, <1>4, RequestIs, PlainRequest
  <1>6. Post(c, r, p) /\ page.tab = "closed" /\ call[c] = NoCall
    BY <1>2 DEF OpenPage
  <1>7. UNCHANGED <<storeVars, admin, news, faults, historyVars>>
    BY DEF OpenPage
  <1>8. Follows(c, r)
    BY <1>6 DEF Follows
  <1> QED BY <1>1, <1>3, <1>5, <1>6, <1>7, <1>8, PostFrom

\* A press keeps everything: what it confirms is what was counted.
LEMMA PressKeeps ==
    ASSUME SettingsInv, NEW c \in Calls, NEW kind \in Kinds, Press(c, kind)
    PROVE  SettingsInv'
  <1>1. /\ kind \in Offered /\ call[c] = NoCall /\ presses' = presses + 1
        /\ UNCHANGED <<storeVars, admin, news, faults, historyVars>>
    BY DEF Press
  <1>2. SettingsTypes /\ page \in Pages /\ presses' \in Nat
    BY <1>1 DEF SettingsInv, SettingsTypes
  <1>3. /\ kind = "code" => page.edit # Absent
        /\ kind = "publish" => page.template # Absent
        /\ kind = "replayAll" => page.pending # Absent
        /\ kind \notin {"set", "variables"}
    <2>1. page.tab \in {"connection", "health", "templates", "variables", "diagnostics", "closed"}
      BY <1>2, PageFields DEF Tabs
    <2>2. CASE page.tab = "connection"
      BY <1>1, <2>2 DEF Offered
    <2>3. CASE page.tab = "health"
      BY <1>1, <2>3 DEF Offered
    <2>4. CASE page.tab = "templates"
      BY <1>1, <2>4 DEF Offered
    <2>5. CASE page.tab = "diagnostics"
      BY <1>1, <2>5 DEF Offered
    <2>6. CASE page.tab \in {"closed", "variables"}
      BY <1>1, <2>6 DEF Offered
    <2> QED BY <2>1, <2>2, <2>3, <2>4, <2>5, <2>6
  <1>4. PICK v, ids, n :
          /\ v = IF kind = "code" THEN page.edit
                 ELSE IF kind = "publish" THEN 1 - page.template ELSE 0
          /\ ids = IF kind = "replay" THEN page.ticked ELSE {}
          /\ n = IF kind = "replayAll" THEN page.pending ELSE 0
    OBVIOUS
  <1>5. v \in Values /\ ids \in SUBSET Deliveries /\ n \in Nat
    <2>1. /\ page.edit \in Values \union {Absent} /\ page.template \in Values \union {Absent}
          /\ page.ticked \subseteq Deliveries /\ page.pending \in Nat \union {Absent}
      BY <1>2, PageFields
    <2> QED BY <1>3, <1>4, <2>1 DEF Values
  <1>6. PICK r : r = [Request(kind) EXCEPT !.value = v, !.ids = ids, !.shown = n]
    OBVIOUS
  <1>7. /\ r \in CallRecord /\ r.kind = kind /\ r.stage = "sent" /\ r.says = "none"
        /\ r.value = v /\ r.ids = ids /\ r.shown = n /\ r.count = 0 /\ r.left = {}
    <2>1. PICK q : q = Request(kind)
      OBVIOUS
    <2>2. /\ q \in CallRecord /\ q.kind = kind /\ q.stage = "sent" /\ q.says = "none"
          /\ q.count = 0 /\ q.left = {}
      BY <2>1, RequestIs
    <2>3. r = [q EXCEPT !.value = v, !.ids = ids, !.shown = n]
      BY <1>6, <2>1
    <2> QED BY <1>5, <2>2, <2>3 DEF CallRecord
  <1>8. Post(c, r, page)
    BY <1>4, <1>6 DEF Press
  <1>9. CallHolds(r)
    <2>1. MakeHolds(r) /\ ReadHolds(r) /\ SaveHolds(r)
      BY <1>3, <1>7 DEF MakeHolds, ReadHolds, SaveHolds
    <2>2. BulkHolds(r)
      <3>1. CASE kind = "replayAll"
        <4>1. CountedIn(n)
          BY <1>3, <1>4, <3>1 DEF SettingsInv, PendingHolds
        <4>2. Cardinality(r.ids) = 0
          BY <1>4, <1>7, <3>1, FS_EmptySet
        <4>3. ReplayCap \in Nat
          BY SettingsAssumption
        <4> QED BY <1>5, <1>7, <3>1, <4>1, <4>2, <4>3 DEF BulkHolds
      <3>2. CASE kind # "replayAll"
        BY <1>7, <3>2 DEF BulkHolds
      <3> QED BY <3>1, <3>2
    <2>3. CodeHolds(r)
      BY <1>3, <1>4, <1>7 DEF CodeHolds, SettingsInv, EditHolds
    <2> QED BY <1>3, <1>7, <2>1, <2>2, <2>3 DEF CallHolds
  <1>10. Follows(c, r)
    BY <1>1 DEF Follows
  <1>11. r.kind # "set"
    BY <1>3, <1>7
  <1> QED BY <1>1, <1>2, <1>7, <1>8, <1>9, <1>10, <1>11, PostFrom

\* A save keeps everything: what is dirty was typed, or is the variable.
LEMMA SaveAllKeeps ==
    ASSUME SettingsInv, NEW c \in Calls, SaveAll(c)
    PROVE  SettingsInv'
  <1>1. /\ DirtyKeys # {} /\ call[c] = NoCall /\ presses' = presses + 1
        /\ UNCHANGED <<storeVars, admin, news, faults, historyVars>>
    BY DEF SaveAll
  <1>2. SettingsTypes /\ page \in Pages /\ presses' \in Nat
    BY <1>1 DEF SettingsInv, SettingsTypes
  <1>3. PICK keys, d, y : keys = DirtyKeys /\ d = page.drafts /\ y = page.typed
    OBVIOUS
  <1>4. /\ keys \in SUBSET Keys /\ d \in Words /\ y \in SUBSET Keys /\ keys # {}
        /\ \A k \in keys : d[k] # Absent
    BY <1>1, <1>2, <1>3, PageFields DEF DirtyKeys
  <1>5. PICK q : q = Request("set")
    OBVIOUS
  <1>6. /\ q \in CallRecord /\ q.kind = "set" /\ q.stage = "sent" /\ q.says = "none"
    <2>1. "set" \in Kinds
      BY DEF Kinds
    <2> QED BY <1>5, <2>1, RequestIs
  <1>7. PICK r : r = [q EXCEPT !.left = keys, !.drafts = d, !.typed = y]
    OBVIOUS
  <1>8. /\ r \in CallRecord /\ r.kind = "set" /\ r.stage = "sent" /\ r.says = "none"
        /\ r.left = keys /\ r.drafts = d /\ r.typed = y
    BY <1>4, <1>6, <1>7 DEF CallRecord
  <1>9. Post(c, r, page)
    BY <1>3, <1>5, <1>7 DEF SaveAll
  <1>10. CallHolds(r)
    <2>1. MakeHolds(r) /\ ReadHolds(r) /\ BulkHolds(r) /\ CodeHolds(r)
      BY <1>8 DEF MakeHolds, ReadHolds, BulkHolds, CodeHolds
    <2>2. SaveHolds(r)
      <3>1. Clean => \A k \in Keys \ elsewhere :
                       k \in page.typed \/ page.drafts[k] \in {Absent, variable[k]}
        BY DEF SettingsInv, DraftsHold
      <3> QED BY <1>3, <1>4, <1>8, <3>1 DEF SaveHolds
    <2> QED BY <1>4, <1>8, <2>1, <2>2 DEF CallHolds
  <1>11. Follows(c, r)
    BY <1>1 DEF Follows
  <1> QED BY <1>1, <1>2, <1>8, <1>9, <1>10, <1>11, PostFrom

\* A reload that announces what went before it.
LEMMA ReloadIs ==
    ASSUME NEW r, r \in {Request("load"), [Request("load") EXCEPT !.says = "replay"]}
    PROVE  r \in CallRecord /\ r.kind = "load" /\ r.stage = "sent" /\ CallHolds(r)
  <1>1. PICK q : q = Request("load")
    OBVIOUS
  <1>2. q \in CallRecord /\ q.kind = "load" /\ q.stage = "sent"
    <2>1. "load" \in Kinds
      BY DEF Kinds
    <2> QED BY <1>1, <2>1, RequestIs
  <1>3. r = q \/ r = [q EXCEPT !.says = "replay"]
    BY <1>1
  <1>4. r \in CallRecord /\ r.kind = "load" /\ r.stage = "sent"
    <2>1. "replay" \in Says
      BY DEF Says
    <2> QED BY <1>2, <1>3, <2>1 DEF CallRecord
  <1> QED BY <1>4, PlainHolds

\* An answer that makes the page read again.
LEMMA ReloadStep ==
    ASSUME SettingsInv, NEW c \in Calls, NEW kind, Succeeded(c, kind),
           kind \notin {"load", "templates", "variables", "set"}, NEW r, NEW p \in Pages,
           \/ r \in {Request("load"), [Request("load") EXCEPT !.says = "replay"]} /\ kind # "publish"
           \/ r = Request("templates") /\ kind # "code",
           Post(c, r, p), UNCHANGED pageIdle,
           p.tab = page.tab, p.data = page.data, p.template = page.template,
           p.words = page.words, p.drafts = page.drafts, p.typed = page.typed,
           p.edit = page.edit \/ (p.edit = Absent /\ (code = wanted \/ "whileSaving" \in slip)),
           p.pending \in {page.pending, Absent}
    PROVE  SettingsInv'
  <1>1. /\ r \in CallRecord /\ r.stage = "sent" /\ CallHolds(r)
        /\ \/ r.kind = "load" /\ kind # "publish"
           \/ r.kind = "templates" /\ kind # "code"
    <2>1. CASE r \in {Request("load"), [Request("load") EXCEPT !.says = "replay"]} /\ kind # "publish"
      BY <2>1, ReloadIs
    <2>2. CASE r = Request("templates") /\ kind # "code"
      <3>1. "templates" \in Kinds
        BY DEF Kinds
      <3>2. /\ r \in CallRecord /\ r.stage = "sent" /\ r.kind = "templates"
        BY <2>2, <3>1, RequestIs
      <3>3. CallHolds(r)
        BY <2>2, <3>1, PlainRequest
      <3> QED BY <2>2, <3>2, <3>3
    <2> QED BY <2>1, <2>2
  <1>2. Follows(c, r)
    BY <1>1 DEF Follows, Succeeded
  <1>3. UNCHANGED <<storeVars, admin, news, faults, historyVars>> /\ presses' = presses
    BY DEF pageIdle
  <1>4. presses' \in Nat
    BY <1>3 DEF SettingsInv, SettingsTypes
  <1>5. r.kind # "set"
    BY <1>1
  <1> QED BY <1>1, <1>2, <1>3, <1>4, <1>5, PostFrom

\* An answer that makes the page read again keeps everything.
LEMMA ReloadsKeeps ==
    ASSUME SettingsInv, NEW c \in Calls, Reloads(c)
    PROVE  SettingsInv'
  <1>1. page \in Pages /\ UNCHANGED pageIdle
    BY DEF SettingsInv, SettingsTypes, Reloads
  <1>2. PICK q : q = Shown
    OBVIOUS
  <1>3. /\ q \in Pages /\ q.tab = page.tab /\ q.data = page.data
        /\ q.template = page.template /\ q.words = page.words /\ q.drafts = page.drafts
        /\ q.typed = page.typed /\ q.edit = page.edit /\ q.pending = page.pending
    BY <1>1, <1>2, ShownIs
  <1>4. CASE Succeeded(c, "code") /\ Post(c, Request("load"), [Shown EXCEPT !.edit = Absent])
    <2>1. PICK p : p = [q EXCEPT !.edit = Absent]
      OBVIOUS
    <2>2. /\ p \in Pages /\ p.tab = page.tab /\ p.data = page.data
          /\ p.template = page.template /\ p.words = page.words /\ p.drafts = page.drafts
          /\ p.typed = page.typed /\ p.edit = Absent /\ p.pending = page.pending
      BY <1>3, <2>1 DEF Pages
    <2>3. Post(c, Request("load"), p)
      BY <1>2, <1>4, <2>1
    <2>4. code = wanted \/ "whileSaving" \in slip
      <3>1. call[c] # NoCall /\ call[c].kind = "code" /\ call[c].stage = "answered"
        BY <1>4 DEF Succeeded
      <3>2. CallHolds(call[c])
        BY <3>1, CallIs
      <3> QED BY <3>1, <3>2 DEF CallHolds, CodeHolds
    <2> QED BY <1>1, <1>4, <2>2, <2>3, <2>4, ReloadStep
  <1>5. CASE /\ Succeeded(c, "test") \/ Succeeded(c, "connect")
             /\ Post(c, Request("load"), Shown)
    <2>1. Post(c, Request("load"), q)
      BY <1>2, <1>5
    <2>2. CASE Succeeded(c, "test")
      BY <1>1, <1>3, <2>1, <2>2, ReloadStep
    <2>3. CASE Succeeded(c, "connect")
      BY <1>1, <1>3, <2>1, <2>3, ReloadStep
    <2> QED BY <1>5, <2>2, <2>3
  <1>6. CASE /\ Succeeded(c, "disconnect")
             /\ Post(c, Request("load"), [Shown EXCEPT !.confirming = FALSE])
    <2>1. PICK p : p = [q EXCEPT !.confirming = FALSE]
      OBVIOUS
    <2>2. /\ p \in Pages /\ p.tab = page.tab /\ p.data = page.data
          /\ p.template = page.template /\ p.words = page.words /\ p.drafts = page.drafts
          /\ p.typed = page.typed /\ p.edit = page.edit /\ p.pending = page.pending
      BY <1>3, <2>1 DEF Pages
    <2>3. Post(c, Request("load"), p)
      BY <1>2, <1>6, <2>1
    <2> QED BY <1>1, <1>6, <2>2, <2>3, ReloadStep
  <1>7. CASE Succeeded(c, "publish") /\ Post(c, Request("templates"), Shown)
    <2>1. Post(c, Request("templates"), q)
      BY <1>2, <1>7
    <2> QED BY <1>1, <1>3, <1>7, <2>1, ReloadStep
  <1>8. CASE /\ Succeeded(c, "replay") \/ Succeeded(c, "replayAll")
             /\ Post(c, [Request("load") EXCEPT !.says = "replay"],
                     [Shown EXCEPT !.ticked = {}, !.pending = Absent])
    <2>1. PICK p : p = [q EXCEPT !.ticked = {}, !.pending = Absent]
      OBVIOUS
    <2>2. /\ p \in Pages /\ p.tab = page.tab /\ p.data = page.data
          /\ p.template = page.template /\ p.words = page.words /\ p.drafts = page.drafts
          /\ p.typed = page.typed /\ p.edit = page.edit /\ p.pending = Absent
      BY <1>3, <2>1 DEF Pages
    <2>3. PICK r : r = [Request("load") EXCEPT !.says = "replay"]
      OBVIOUS
    <2>4. Post(c, r, p)
      BY <1>2, <1>8, <2>1, <2>3
    <2>5. r \in {Request("load"), [Request("load") EXCEPT !.says = "replay"]}
      BY <2>3
    <2>6. CASE Succeeded(c, "replay")
      BY <1>1, <2>2, <2>4, <2>5, <2>6, ReloadStep
    <2>7. CASE Succeeded(c, "replayAll")
      BY <1>1, <2>2, <2>4, <2>5, <2>7, ReloadStep
    <2> QED BY <1>8, <2>6, <2>7
  <1> QED BY <1>4, <1>5, <1>6, <1>7, <1>8 DEF Reloads

\* The rest of the answers: what the page shows of one is so.
LEMMA AnsweredKeeps ==
    ASSUME SettingsInv, NEW c \in Calls, Answered(c)
    PROVE  SettingsInv'
  <1>1. /\ page \in Pages /\ UNCHANGED pageIdle
    BY DEF SettingsInv, SettingsTypes, Answered
  <1>2. PICK q : q = Shown
    OBVIOUS
  <1>3. /\ q \in Pages /\ q.busy = FALSE /\ q.tab = page.tab /\ q.data = page.data
        /\ q.template = page.template /\ q.words = page.words /\ q.drafts = page.drafts
        /\ q.typed = page.typed /\ q.edit = page.edit /\ q.pending = page.pending
        /\ q.error = page.error /\ q.notice = page.notice
    BY <1>1, <1>2, ShownIs
  <1>4. /\ call[c] # NoCall /\ call[c].stage = "answered"
        /\ call[c].kind \in {"templates", "sync", "provision", "count"}
        /\ call' = [call EXCEPT ![c] = NoCall] /\ slip' = slip
    BY DEF Answered, Succeeded, Ends
  <1>5. /\ c \in UnderWay /\ call[c] \in CallRecord /\ CallHolds(call[c]) /\ SettingsTypes
        /\ call[c].value \in Values /\ call[c].count \in Nat
    BY <1>4, CallIs, RecordFields DEF SettingsInv
  <1>6. UNCHANGED <<variable, code, published, elsewhere>>
    BY <1>1 DEF pageIdle, storeVars, historyVars
  <1>7. "together" \in slip \/ (page.error = "none" /\ page.notice = "none")
    BY <1>5 DEF SettingsInv, Cleared, Together
  <1>8. /\ page' \in Pages /\ page'.busy = FALSE /\ page'.tab = page.tab /\ page'.data = page.data
        /\ page'.words = page.words /\ page'.drafts = page.drafts
        /\ page'.typed = page.typed /\ page'.edit = page.edit /\ page'.error = page.error
        /\ page'.template = IF call[c].kind = "templates" THEN call[c].value ELSE page.template
        /\ page'.pending = page.pending
             \/ (call[c].kind = "count" /\ page'.pending = call[c].count)
    <2>1. CASE Succeeded(c, "templates") /\ page' = [Shown EXCEPT !.template = call[c].value]
      <3>1. page' = [q EXCEPT !.template = call[c].value]
        BY <1>2, <2>1
      <3> QED BY <1>3, <1>5, <2>1, <3>1, ZenonT(30) DEF Pages, Succeeded
    <2>2. CASE /\ call[c].kind # "templates"
               /\ \E n \in Says : page' = [Shown EXCEPT !.notice = n]
      <3>1. PICK n \in Says : page' = [q EXCEPT !.notice = n]
        BY <1>2, <2>2
      <3> QED BY <1>3, <2>2, <3>1 DEF Pages
    <2>3. CASE Succeeded(c, "count") /\ page' = [Shown EXCEPT !.pending = call[c].count]
      <3>1. page' = [q EXCEPT !.pending = call[c].count]
        BY <1>2, <2>3
      <3> QED BY <1>3, <1>5, <2>3, <3>1, ZenonT(30) DEF Pages, Succeeded
    <2>4. {"sync", "provision", "count"} \subseteq Says
      BY DEF Says
    <2>5. \/ Succeeded(c, "templates") /\ page' = [Shown EXCEPT !.template = call[c].value]
          \/ Succeeded(c, "sync") /\ page' = [Shown EXCEPT !.notice = "sync"]
          \/ Succeeded(c, "provision") /\ page' = [Shown EXCEPT !.notice = "provision"]
          \/ Succeeded(c, "count") /\ page' = [Shown EXCEPT !.notice = "count"]
          \/ Succeeded(c, "count") /\ page' = [Shown EXCEPT !.pending = call[c].count]
      BY DEF Answered, Ends
    <2> QED BY <2>1, <2>2, <2>3, <2>4, <2>5 DEF Succeeded
  <1>9. slip \subseteq slip' /\ slip' \subseteq slip \union {"unread"}
    BY <1>4
  <1>10. NoCall \in CallRecord \union {NoCall}
    OBVIOUS
  <1>11. ErrorOrNotice'
    BY <1>4, <1>7, <1>8 DEF ErrorOrNotice
  <1>12. Shows'
    <2> SUFFICES ASSUME slip' = {}
                 PROVE  Shows'
      BY DEF Shows
    <2>1. slip = {}
      BY <1>4
    <2>2. ReadsAgain("load", "code") => ReadsAgain("load", "code")'
      BY <1>4, <1>5, <1>10, ReadsGoOn
    <2>3. CASE call[c].kind = "templates"
      <3>1. page'.template = published'
        BY <1>4, <1>5, <1>6, <1>8, <2>1, <2>3 DEF CallHolds, ReadHolds
      <3> QED BY <1>6, <1>8, <2>1, <2>2, <3>1 DEF SettingsInv, Shows
    <2>4. CASE call[c].kind # "templates"
      <3>1. ReadsAgain("templates", "publish") => ReadsAgain("templates", "publish")'
        BY <1>4, <1>5, <1>10, <2>4, ReadsGoOn
      <3> QED BY <1>6, <1>8, <2>1, <2>2, <2>4, <3>1 DEF SettingsInv, Shows
    <2> QED BY <2>3, <2>4
  <1>13. WordsHold'
    <2>1. call[c].kind # "set"
      BY <1>4
    <2> QED BY <1>4, <1>6, <1>8, <1>9, <1>10, <2>1, WordsStay
  <1>14. DraftsHold'
    BY <1>6, <1>8, <1>9, DraftsStay
  <1>15. page'.pending # Absent => CountedIn(page'.pending)
    <2>1. CASE page'.pending = page.pending
      BY <2>1 DEF SettingsInv, PendingHolds
    <2>2. CASE call[c].kind = "count" /\ page'.pending = call[c].count
      BY <1>4, <1>5, <2>2 DEF CallHolds, BulkHolds
    <2> QED BY <1>8, <2>1, <2>2
  <1>16. ~page'.busy
    BY <1>8
  <1> QED BY <1>1, <1>4, <1>5, <1>8, <1>9, <1>11, <1>12, <1>13, <1>14, <1>15, <1>16, EndsStep

\* A step that leaves the requests alone.
LEMMA CallsStay ==
    ASSUME SettingsInv, SettingsTypes', call' = call, workflow' = workflow, slip \subseteq slip',
           page'.busy = page.busy, page'.error = page.error, page'.notice = page.notice,
           PendingHolds', EditHolds', NothingIsReverted', Shows', WordsHold', DraftsHold',
           \A c \in UnderWay : CallHolds(call[c])'
    PROVE  SettingsInv'
  <1>1. UnderWay' = UnderWay
    BY DEF UnderWay
  <1>2. Together => Together'
    BY DEF Together
  <1>3. OneCall' /\ Flagged' /\ Cleared'
    BY <1>1, <1>2 DEF SettingsInv, OneCall, Flagged, Cleared
  <1>4. Versioned'
    BY SameVersions DEF SettingsInv
  <1>5. ErrorOrNotice' /\ OneWorkflow'
    BY DEF SettingsInv, ErrorOrNotice, OneWorkflow
  <1> QED BY <1>1, <1>3, <1>4, <1>5 DEF SettingsInv

\* A step of the page alone.
LEMMA PageOnly ==
    ASSUME SettingsInv, UNCHANGED <<storeVars, call, faults, historyVars, slip>>,
           page' \in Pages, admin' \in BOOLEAN, presses' \in Nat, news' \in Nat,
           page'.busy = page.busy, page'.error = page.error, page'.notice = page.notice,
           page'.data = page.data, page'.template = page.template, page'.words = page.words,
           page'.edit = page.edit, page'.pending = page.pending, DraftsHold',
           \/ page'.tab # "variables" \/ UnderWay = {} \/ Together
           \/ page.tab = "variables" /\ page.typed \subseteq page'.typed
    PROVE  SettingsInv'
  <1>1. UNCHANGED <<variable, code, published, delivery, workflow, elsewhere, reverted, wanted>>
    BY DEF storeVars, historyVars
  <1>2. SettingsTypes'
    BY <1>1 DEF SettingsInv, SettingsTypes
  <1>3. UnderWay' = UnderWay
    BY DEF UnderWay
  <1>4. \A n \in Nat : CountedIn(n) => CountedIn(n)'
    <2>1. Failed' = Failed /\ SettingsTypes
      BY <1>1 DEF Failed, SettingsInv
    <2> QED BY <2>1, FewerFailed
  <1>5. PendingHolds'
    <2>1. page.pending # Absent => page.pending \in Nat
      BY PageFields DEF SettingsInv, SettingsTypes
    <2> QED BY <1>4, <2>1 DEF SettingsInv, PendingHolds
  <1>6. EditHolds' /\ NothingIsReverted'
    BY <1>1 DEF SettingsInv, EditHolds, EditsAreKept, NothingIsReverted
  <1>7. Shows'
    BY <1>1, <1>3 DEF SettingsInv, Shows, ReadsAgain
  <1>8. WordsHold'
    BY <1>1, <1>3 DEF SettingsInv, WordsHold, Clean, Saved
  <1>9. \A c \in UnderWay : CallHolds(call[c])'
    <2> SUFFICES ASSUME NEW c \in UnderWay
                 PROVE  CallHolds(call[c])'
      OBVIOUS
    <2>1. PICK r : r = call[c]
      OBVIOUS
    <2>2. r \in CallRecord /\ CallHolds(r) /\ r.count \in Nat /\ r.shown \in Nat
      BY <2>1, CallIs, RecordFields DEF SettingsInv, UnderWay
    <2>3. MakeHolds(r)' /\ ReadHolds(r)' /\ CodeHolds(r)'
      BY <1>1, <2>2 DEF CallHolds, MakeHolds, Together, ReadHolds, CodeHolds
    <2>4. BulkHolds(r)'
      BY <1>4, <2>2 DEF CallHolds, BulkHolds
    <2>5. SaveHolds(r)'
      <3>1. Clean' = Clean
        BY DEF Clean
      <3>2. Clean /\ r.kind = "set" => page'.tab # "variables" \/ r.typed \subseteq page'.typed
        BY <2>2 DEF CallHolds, SaveHolds, Clean, Together
      <3> QED BY <1>1, <2>2, <3>1, <3>2 DEF CallHolds, SaveHolds
    <2>6. CallHolds(r)'
      BY <2>2, <2>3, <2>4, <2>5 DEF CallHolds
    <2> QED BY <2>1, <2>6
  <1> QED BY <1>1, <1>2, <1>5, <1>6, <1>7, <1>8, <1>9, CallsStay

\* The mounting of a tab keeps everything.
LEMMA OpenTabKeeps ==
    ASSUME SettingsInv, NEW c \in Calls, NEW tab \in Tabs, OpenTab(c, tab)
    PROVE  SettingsInv'
  <1>1. /\ page \in Pages /\ SettingsTypes /\ presses' = presses + 1 /\ page.tab # tab
        /\ UNCHANGED <<storeVars, admin, news, faults, historyVars>>
    BY DEF SettingsInv, SettingsTypes, OpenTab
  <1>2. presses' \in Nat /\ page.words \in Words
    BY <1>1, PageFields DEF SettingsTypes
  <1>3. PICK p, q : /\ p = [page EXCEPT !.tab = tab, !.drafts = NoWords, !.typed = {}]
                    /\ q = WithWords(p, page.words)
    OBVIOUS
  <1>4. /\ p \in Pages /\ p.tab = tab /\ p.drafts = NoWords /\ p.typed = {}
        /\ p.data = page.data /\ p.template = page.template /\ p.edit = page.edit
        /\ p.pending = page.pending /\ p.busy = page.busy /\ p.error = page.error
        /\ p.notice = page.notice
    <2>1. NoWords \in Words
      BY DEF NoWords, Words
    <2> QED BY <1>1, <1>3, <2>1 DEF Pages
  <1>5. /\ q \in Pages /\ q.words = page.words /\ q.typed = {}
        /\ tab = "variables" => q.drafts = KeptDrafts(NoWords, page.words)
        /\ tab # "variables" => q.drafts = NoWords
        /\ q.tab = tab /\ q.data = page.data /\ q.template = page.template /\ q.edit = page.edit
        /\ q.pending = page.pending /\ q.busy = page.busy /\ q.error = page.error
        /\ q.notice = page.notice
    <2>1. /\ q \in Pages /\ q.words = page.words /\ q.typed = p.typed
          /\ p.tab = "variables" => q.drafts = KeptDrafts(p.drafts, page.words)
          /\ p.tab # "variables" => q.drafts = p.drafts
          /\ q.tab = p.tab /\ q.data = p.data /\ q.template = p.template /\ q.edit = p.edit
          /\ q.pending = p.pending /\ q.busy = p.busy /\ q.error = p.error /\ q.notice = p.notice
      <3>1. PICK w : w = page.words
        OBVIOUS
      <3>2. w \in Words /\ q = WithWords(p, w) /\ p \in Pages
        BY <1>2, <1>3, <1>4, <3>1
      <3>3. /\ q \in Pages /\ q.words = w /\ q.typed = p.typed
            /\ p.tab = "variables" => q.drafts = KeptDrafts(p.drafts, w)
            /\ p.tab # "variables" => q.drafts = p.drafts
            /\ q.tab = p.tab /\ q.data = p.data /\ q.template = p.template /\ q.edit = p.edit
            /\ q.pending = p.pending /\ q.busy = p.busy /\ q.error = p.error
            /\ q.notice = p.notice
        BY <3>2, WordsAre
      <3> QED BY <3>1, <3>3
    <2> QED BY <1>4, <2>1
  <1>6. \/ tab = "variables" /\ call[c] = NoCall /\ Post(c, Request("variables"), q)
        \/ tab = "templates" /\ call[c] = NoCall /\ Post(c, Request("templates"), q)
        \/ tab # "variables" /\ page' = q /\ UNCHANGED <<call, slip>>
    BY <1>3 DEF OpenTab
  <1>7. CASE tab = "variables" /\ call[c] = NoCall /\ Post(c, Request("variables"), q)
    <2>1. PICK r : r = Request("variables")
      OBVIOUS
    <2>2. /\ r \in CallRecord /\ r.kind = "variables" /\ r.stage = "sent" /\ CallHolds(r)
          /\ r.says = "none"
      <3>1. "variables" \in Kinds
        BY DEF Kinds
      <3> QED BY <2>1, <3>1, RequestIs, PlainRequest
    <2>3. /\ call' = [call EXCEPT ![c] = r] /\ r \in CallRecord \union {NoCall}
          /\ slip' = slip \union (IF UnderWay \ {c} # {} THEN {"together"} ELSE {})
          /\ page' = [q EXCEPT !.busy = TRUE, !.error = "none", !.notice = "none"]
      BY <1>7, <2>1, <2>2 DEF Post
    <2>4. PICK s \in Pages :
            /\ s = [q EXCEPT !.busy = TRUE, !.error = "none", !.notice = "none"]
            /\ s.busy = TRUE /\ s.error = "none" /\ s.notice = "none"
            /\ s.tab = q.tab /\ s.data = q.data /\ s.template = q.template /\ s.words = q.words
            /\ s.drafts = q.drafts /\ s.typed = q.typed /\ s.edit = q.edit /\ s.pending = q.pending
      BY <1>5, PostedIs, Zenon
    <2>5. /\ s \in Pages /\ s.busy = TRUE /\ s.error = "none" /\ s.notice = "none"
          /\ s.tab = q.tab /\ s.data = q.data /\ s.template = q.template /\ s.words = q.words
          /\ s.drafts = q.drafts /\ s.typed = q.typed /\ s.edit = q.edit /\ s.pending = q.pending
      BY <2>4, Zenon
    <2>6. page' = s
      BY <2>3, <2>4
    <2>7. /\ page' \in Pages /\ page'.busy /\ page'.error = "none" /\ page'.notice = "none"
          /\ page'.pending \in {page.pending, Absent} /\ page'.words = page.words
          /\ page'.edit = page.edit /\ page'.data = page.data /\ page'.template = page.template
          /\ page'.tab = "variables" /\ page'.drafts = KeptDrafts(NoWords, page.words)
      BY <1>5, <1>7, <2>5, <2>6
    <2>8. slip \subseteq slip'
      BY <2>3
    <2>9. UNCHANGED <<variable, code, published, elsewhere, wanted>>
      BY <1>1 DEF storeVars, historyVars
    <2>10. EditHolds'
      BY <2>7, <2>8, <2>9 DEF SettingsInv, EditHolds, EditsAreKept
    <2>11. CallHolds(r)'
      BY <2>2, PlainHolds
    <2>12. Shows'
      <3>1. /\ ReadsAgain("load", "code") => ReadsAgain("load", "code")'
            /\ ReadsAgain("templates", "publish") => ReadsAgain("templates", "publish")'
        BY <1>1, <1>7, <2>3, ReadsGoOn
      <3> QED BY <2>7, <2>8, <2>9, <3>1 DEF SettingsInv, Shows
    <2>13. WordsHold'
      BY <1>7, <2>3, <2>7, <2>8, <2>9, WordsStay
    <2>14. DraftsHold'
      <3>1. Clean' => UnderWay = {} /\ Clean
        BY <1>7, <2>3 DEF Clean, UnderWay
      <3>2. Clean' => \A k \in Keys \ elsewhere : page.words[k] \in {Absent, variable[k]}
        BY <3>1 DEF SettingsInv, WordsHold
      <3>3. \A k \in Keys : page'.drafts[k] = page.words[k]
        BY <2>7 DEF KeptDrafts, NoWords
      <3> QED BY <2>7, <2>9, <3>2, <3>3 DEF DraftsHold
    <2> QED BY <1>1, <1>2, <2>2, <2>3, <2>7, <2>10, <2>11, <2>12, <2>13, <2>14, PostStep
  <1>8. CASE tab = "templates" /\ call[c] = NoCall /\ Post(c, Request("templates"), q)
    <2>1. PICK r : r = Request("templates")
      OBVIOUS
    <2>2. r \in CallRecord /\ r.kind = "templates" /\ r.stage = "sent" /\ CallHolds(r)
      <3>1. "templates" \in Kinds
        BY DEF Kinds
      <3> QED BY <2>1, <3>1, RequestIs, PlainRequest
    <2>3. Post(c, r, q) /\ Follows(c, r) /\ r.kind # "set"
      BY <1>8, <2>1, <2>2 DEF Follows
    <2> QED BY <1>1, <1>2, <1>5, <1>8, <2>2, <2>3, PostFrom
  <1>9. CASE tab # "variables" /\ page' = q /\ UNCHANGED <<call, slip>>
    <2>1. DraftsHold'
      BY <1>5, <1>9 DEF DraftsHold, NoWords
    <2>2. /\ UNCHANGED <<storeVars, call, faults, historyVars, slip>> /\ admin' = admin
          /\ news' = news
      BY <1>1, <1>9
    <2>3. admin' \in BOOLEAN /\ news' \in Nat
      BY <1>1, <2>2 DEF SettingsTypes
    <2> QED BY <1>2, <1>5, <1>9, <2>1, <2>2, <2>3, PageOnly
  <1> QED BY <1>6, <1>7, <1>8, <1>9

\* The diagnostics that arrive keep everything.
LEMMA DiagnosticsArriveKeeps ==
    ASSUME SettingsInv, NEW c \in Calls, DiagnosticsArrive(c)
    PROVE  SettingsInv'
  <1>1. call[c] # NoCall /\ call[c].stage = "answered" /\ call[c].kind = "load"
    BY DEF DiagnosticsArrive, Succeeded
  <1>2. /\ c \in UnderWay /\ call[c] \in CallRecord /\ CallHolds(call[c]) /\ SettingsTypes
        /\ call[c].data \in Data /\ call[c].says \in Says /\ page \in Pages
        /\ UNCHANGED pageIdle
    BY <1>1, CallIs, RecordFields DEF SettingsInv, SettingsTypes, DiagnosticsArrive
  <1>3. PICK q : q = Shown
    OBVIOUS
  <1>4. /\ q \in Pages /\ q.busy = FALSE /\ q.tab = page.tab /\ q.data = page.data
        /\ q.template = page.template /\ q.words = page.words /\ q.drafts = page.drafts
        /\ q.typed = page.typed /\ q.edit = page.edit /\ q.pending = page.pending
        /\ q.error = page.error /\ q.notice = page.notice
    BY <1>2, <1>3, ShownIs
  <1>5. PICK d, n : d = call[c].data /\ n = IF call[c].says # "none" THEN call[c].says ELSE page.notice
    OBVIOUS
  <1>6. d \in Data /\ n \in Says
    BY <1>2, <1>5, PageFields
  <1>7. PICK p : p = [q EXCEPT !.data = d, !.notice = n]
    OBVIOUS
  <1>8. /\ p \in Pages /\ p.busy = FALSE /\ p.tab = page.tab /\ p.data = d
        /\ p.template = page.template /\ p.words = page.words /\ p.drafts = page.drafts
        /\ p.typed = page.typed /\ p.edit = page.edit /\ p.pending = page.pending
        /\ p.error = page.error
    BY <1>4, <1>6, <1>7 DEF Pages
  <1>9. \/ page.tab = "templates" /\ Post(c, Request("templates"), p)
        \/ Ends(c, p)
    <2>2. PICK s : s = [Shown EXCEPT !.data = call[c].data,
                                     !.notice = IF call[c].says # "none" THEN call[c].says ELSE @]
      OBVIOUS
    <2>3. s = [q EXCEPT !.data = d, !.notice = IF call[c].says # "none" THEN call[c].says ELSE @]
      BY <1>3, <1>5, <2>2
    <2>4. s = p
      <3>1. CASE call[c].says # "none"
        BY <1>5, <1>7, <2>3, <3>1
      <3>2. CASE call[c].says = "none"
        BY <1>4, <1>5, <1>7, <2>3, <3>2 DEF Pages
      <3> QED BY <3>1, <3>2
    <2> QED BY <2>2, <2>4 DEF DiagnosticsArrive
  <1>10. UNCHANGED <<variable, code, published, elsewhere, wanted>>
    BY <1>2 DEF pageIdle, storeVars, historyVars
  <1>11. slip = {} => d.code = code
    BY <1>1, <1>2, <1>5 DEF CallHolds, ReadHolds
  <1>12. CASE page.tab = "templates" /\ Post(c, Request("templates"), p)
    <2>1. PICK r : r = Request("templates")
      OBVIOUS
    <2>2. r \in CallRecord /\ r.kind = "templates" /\ r.stage = "sent" /\ r.says = "none"
      <3>1. "templates" \in Kinds
        BY DEF Kinds
      <3> QED BY <2>1, <3>1, RequestIs
    <2>3. /\ call' = [call EXCEPT ![c] = r] /\ r \in CallRecord \union {NoCall}
          /\ slip' = slip \union (IF UnderWay \ {c} # {} THEN {"together"} ELSE {})
          /\ page' = [p EXCEPT !.busy = TRUE, !.error = "none", !.notice = "none"]
      BY <1>12, <2>1, <2>2 DEF Post
    <2>4. PICK s \in Pages :
            /\ s = [p EXCEPT !.busy = TRUE, !.error = "none", !.notice = "none"]
            /\ s.busy = TRUE /\ s.error = "none" /\ s.notice = "none"
            /\ s.tab = p.tab /\ s.data = p.data /\ s.template = p.template /\ s.words = p.words
            /\ s.drafts = p.drafts /\ s.typed = p.typed /\ s.edit = p.edit /\ s.pending = p.pending
      BY <1>8, PostedIs, Zenon
    <2>5. /\ s \in Pages /\ s.busy = TRUE /\ s.error = "none" /\ s.notice = "none"
          /\ s.tab = p.tab /\ s.data = p.data /\ s.template = p.template /\ s.words = p.words
          /\ s.drafts = p.drafts /\ s.typed = p.typed /\ s.edit = p.edit /\ s.pending = p.pending
      BY <2>4, Zenon
    <2>6. page' = s
      BY <2>3, <2>4
    <2>7. /\ page' \in Pages /\ page'.busy /\ page'.error = "none" /\ page'.notice = "none"
          /\ page'.pending \in {page.pending, Absent} /\ page'.words = page.words
          /\ page'.edit = page.edit /\ page'.data = d /\ page'.template = page.template
          /\ page'.tab = page.tab /\ page'.drafts = page.drafts /\ page'.typed = page.typed
      BY <1>8, <2>5, <2>6
    <2>8. slip \subseteq slip'
      BY <2>3
    <2>9. EditHolds'
      BY <1>10, <2>7, <2>8 DEF SettingsInv, EditHolds, EditsAreKept
    <2>10. CallHolds(r)'
      BY <2>2, PlainHolds
    <2>11. Shows'
      <3>1. ReadsAgain("templates", "publish")'
        BY <1>2, <2>2, <2>3, ReadsNow
      <3> QED BY <1>10, <1>11, <2>7, <2>8, <3>1 DEF Shows
    <2>12. WordsHold'
      BY <1>1, <1>10, <2>3, <2>7, <2>8, WordsStay
    <2>13. DraftsHold'
      BY <1>10, <2>7, <2>8, DraftsStay
    <2>14. UNCHANGED <<storeVars, admin, news, faults, historyVars>> /\ presses' \in Nat
      BY <1>2 DEF pageIdle, SettingsTypes
    <2> QED BY <2>2, <2>3, <2>7, <2>9, <2>10, <2>11, <2>12, <2>13, <2>14, PostStep
  <1>13. CASE Ends(c, p)
    <2>1. call' = [call EXCEPT ![c] = NoCall] /\ page' = p /\ slip' = slip
      BY <1>13 DEF Ends
    <2>2. NoCall \in CallRecord \union {NoCall}
      OBVIOUS
    <2>3. slip \subseteq slip' /\ slip' \subseteq slip \union {"unread"}
      BY <2>1
    <2>4. ErrorOrNotice'
      <3>1. "together" \in slip \/ page.error = "none"
        BY <1>2 DEF SettingsInv, Cleared, Together
      <3> QED BY <1>8, <2>1, <3>1 DEF ErrorOrNotice
    <2>5. Shows'
      <3>1. ReadsAgain("templates", "publish") => ReadsAgain("templates", "publish")'
        BY <1>1, <1>2, <2>1, <2>2, ReadsGoOn
      <3> QED BY <1>8, <1>10, <1>11, <2>1, <3>1 DEF SettingsInv, Shows
    <2>6. UNCHANGED <<variable, elsewhere>> /\ page'.words = page.words
      BY <1>8, <1>10, <2>1
    <2>7. WordsHold'
      BY <1>1, <2>1, <2>2, <2>3, <2>6, WordsStay
    <2>8. DraftsHold'
      BY <1>8, <1>10, <2>1, <2>3, DraftsStay
    <2>9. /\ page' \in Pages /\ ~page'.busy /\ page'.edit = page.edit
          /\ page'.pending # Absent => CountedIn(page'.pending)
      BY <1>8, <2>1 DEF SettingsInv, PendingHolds
    <2> QED BY <1>2, <2>1, <2>3, <2>4, <2>5, <2>7, <2>8, <2>9, EndsStep
  <1> QED BY <1>9, <1>12, <1>13

\* The end of one write of a save keeps everything.
LEMMA SaveArrivesKeeps ==
    ASSUME SettingsInv, NEW c \in Calls, SaveArrives(c)
    PROVE  SettingsInv'
  <1>1. call[c] # NoCall /\ call[c].stage = "answered" /\ call[c].kind = "set"
    BY DEF SaveArrives, Succeeded
  <1>2. PICK o : o = call[c]
    OBVIOUS
  <1>3. /\ c \in UnderWay /\ o \in CallRecord /\ CallHolds(o) /\ SettingsTypes
        /\ o.words \in Words /\ o.left \subseteq Keys /\ o.drafts \in Words /\ o.typed \subseteq Keys
        /\ page \in Pages /\ UNCHANGED pageIdle
    BY <1>1, <1>2, CallIs, RecordFields DEF SettingsInv, SettingsTypes, SaveArrives
  <1>4. PICK z, w, b : z = Shown /\ w = o.words /\ b = WithWords(z, w)
    OBVIOUS
  <1>5. /\ z \in Pages /\ z.busy = FALSE /\ z.tab = page.tab /\ z.data = page.data
        /\ z.template = page.template /\ z.words = page.words /\ z.drafts = page.drafts
        /\ z.typed = page.typed /\ z.edit = page.edit /\ z.pending = page.pending
        /\ z.error = page.error /\ z.notice = page.notice
    BY <1>3, <1>4, ShownIs
  <1>6. w \in Words /\ b = WithWords(z, w)
    BY <1>3, <1>4
  <1>7. /\ b \in Pages /\ b.words = w /\ b.typed = z.typed
        /\ z.tab = "variables" => b.drafts = KeptDrafts(z.drafts, w)
        /\ z.tab # "variables" => b.drafts = z.drafts
        /\ b.tab = z.tab /\ b.data = z.data /\ b.template = z.template /\ b.edit = z.edit
        /\ b.pending = z.pending /\ b.busy = z.busy /\ b.error = z.error /\ b.notice = z.notice
    BY <1>5, <1>6, WordsAre
  <1>8. PICK p : p = [b EXCEPT !.notice = "set"]
    OBVIOUS
  <1>9. /\ p \in Pages /\ p.words = w /\ p.typed = page.typed /\ p.drafts = b.drafts
        /\ p.tab = page.tab /\ p.data = page.data /\ p.template = page.template
        /\ p.edit = page.edit /\ p.pending = page.pending /\ p.busy = FALSE
        /\ p.error = page.error
    <2>1. "set" \in Says
      BY DEF Says
    <2> QED BY <1>5, <1>7, <1>8, <2>1 DEF Pages
  <1>10. /\ page.tab = "variables" => p.drafts = KeptDrafts(page.drafts, w)
         /\ page.tab # "variables" => p.drafts = page.drafts
    BY <1>5, <1>7, <1>9
  <1>11. PICK keys : keys = o.left \ {Next1(o.left)}
    OBVIOUS
  <1>12. \/ Ends(c, p)
         \/ /\ keys # {}
            /\ Post(c, [Request("set") EXCEPT !.left = keys, !.drafts = o.drafts,
                                              !.typed = o.typed], p)
    BY <1>2, <1>4, <1>8, <1>11 DEF SaveArrives
  <1>13. UNCHANGED <<variable, code, published, elsewhere, wanted>>
    BY <1>3 DEF pageIdle, storeVars, historyVars
  <1>14. Clean => \A k \in Keys \ elsewhere : w[k] = variable[k]
    BY <1>1, <1>2, <1>3, <1>4 DEF CallHolds, SaveHolds
  <1>15. Clean => \A k \in Keys \ elsewhere : w[k] \in {Absent, variable[k]}
    BY <1>14
  <1>16. ASSUME page'.words = w, slip \subseteq slip'
         PROVE  WordsHold'
    BY <1>13, <1>14, <1>16 DEF WordsHold, Clean
  <1>17. CASE Ends(c, p)
    <2>1. call' = [call EXCEPT ![c] = NoCall] /\ page' = p /\ slip' = slip
      BY <1>17 DEF Ends
    <2>2. NoCall \in CallRecord \union {NoCall}
      OBVIOUS
    <2>3. slip \subseteq slip' /\ slip' \subseteq slip \union {"unread"}
      BY <2>1
    <2>4. ErrorOrNotice'
      <3>1. "together" \in slip \/ page.error = "none"
        BY <1>3 DEF SettingsInv, Cleared, Together
      <3> QED BY <1>9, <2>1, <3>1 DEF ErrorOrNotice
    <2>5. Shows'
      <3>1. /\ ReadsAgain("load", "code") => ReadsAgain("load", "code")'
            /\ ReadsAgain("templates", "publish") => ReadsAgain("templates", "publish")'
        BY <1>1, <1>3, <2>1, <2>2, ReadsGoOn
      <3> QED BY <1>9, <1>13, <2>1, <3>1 DEF SettingsInv, Shows
    <2>6. WordsHold'
      BY <1>9, <1>16, <2>1
    <2>7. DraftsHold'
      BY <1>6, <1>9, <1>10, <1>13, <1>15, <2>1, <2>3, DraftsRead
    <2>8. /\ page' \in Pages /\ ~page'.busy /\ page'.edit = page.edit
          /\ page'.pending # Absent => CountedIn(page'.pending)
      BY <1>9, <2>1 DEF SettingsInv, PendingHolds
    <2> QED BY <1>3, <2>1, <2>3, <2>4, <2>5, <2>6, <2>7, <2>8, EndsStep
  <1>18. CASE /\ keys # {}
              /\ Post(c, [Request("set") EXCEPT !.left = keys, !.drafts = o.drafts,
                                                !.typed = o.typed], p)
    <2>1. PICK q : q = Request("set")
      OBVIOUS
    <2>2. q \in CallRecord /\ q.kind = "set" /\ q.stage = "sent" /\ q.says = "none"
      <3>1. "set" \in Kinds
        BY DEF Kinds
      <3> QED BY <2>1, <3>1, RequestIs
    <2>3. PICK d, y : d = o.drafts /\ y = o.typed
      OBVIOUS
    <2>4. d \in Words /\ y \in SUBSET Keys /\ keys \in SUBSET Keys /\ keys \subseteq o.left
      BY <1>3, <1>11, <2>3
    <2>5. PICK r : r = [q EXCEPT !.left = keys, !.drafts = d, !.typed = y]
      OBVIOUS
    <2>6. /\ r \in CallRecord /\ r.kind = "set" /\ r.stage = "sent" /\ r.says = "none"
          /\ r.left = keys /\ r.drafts = d /\ r.typed = y
      BY <2>2, <2>4, <2>5 DEF CallRecord
    <2>7. Post(c, r, p)
      BY <1>18, <2>1, <2>3, <2>5
    <2>8. /\ call' = [call EXCEPT ![c] = r] /\ r \in CallRecord \union {NoCall}
          /\ slip' = slip \union (IF UnderWay \ {c} # {} THEN {"together"} ELSE {})
      BY <2>6, <2>7 DEF Post
    <2>9. PICK s \in Pages :
            /\ s = [p EXCEPT !.busy = TRUE, !.error = "none", !.notice = "none"]
            /\ s.busy = TRUE /\ s.error = "none" /\ s.notice = "none"
            /\ s.tab = p.tab /\ s.data = p.data /\ s.template = p.template /\ s.words = p.words
            /\ s.drafts = p.drafts /\ s.typed = p.typed /\ s.edit = p.edit /\ s.pending = p.pending
      BY <1>9, PostedIs, Zenon
    <2>10. /\ s \in Pages /\ s.busy = TRUE /\ s.error = "none" /\ s.notice = "none"
           /\ s.tab = p.tab /\ s.data = p.data /\ s.template = p.template /\ s.words = p.words
           /\ s.drafts = p.drafts /\ s.typed = p.typed /\ s.edit = p.edit
           /\ s.pending = p.pending
      BY <2>9, Zenon
    <2>11. page' = s
      BY <2>7, <2>9 DEF Post
    <2>12. /\ page' \in Pages /\ page'.busy /\ page'.error = "none" /\ page'.notice = "none"
           /\ page'.pending \in {page.pending, Absent} /\ page'.words = w
           /\ page'.edit = page.edit /\ page'.data = page.data
           /\ page'.template = page.template
           /\ page'.tab = page.tab /\ page'.drafts = p.drafts /\ page'.typed = page.typed
      BY <1>9, <2>10, <2>11
    <2>13. slip \subseteq slip'
      BY <2>8
    <2>14. EditHolds'
      BY <1>13, <2>12, <2>13 DEF SettingsInv, EditHolds, EditsAreKept
    <2>15. CallHolds(r)
      <3>1. MakeHolds(r) /\ ReadHolds(r) /\ BulkHolds(r) /\ CodeHolds(r)
        BY <2>6 DEF MakeHolds, ReadHolds, BulkHolds, CodeHolds
      <3>2. SaveHolds(r)
        <4>1. o.kind = "set"
          BY <1>1, <1>2
        <4>2. Clean => /\ \A k \in Keys \ elsewhere : k \in o.left \ o.typed => o.drafts[k] = variable[k]
                       /\ page.tab # "variables" \/ o.typed \subseteq page.typed
          BY <1>3, <4>1 DEF CallHolds, SaveHolds
        <4>3. r.drafts = o.drafts /\ r.typed = o.typed /\ r.left \subseteq o.left
          BY <2>3, <2>4, <2>6
        <4>4. r.stage # "answered"
          BY <2>6
        <4> QED BY <4>2, <4>3, <4>4 DEF SaveHolds
      <3>3. \A k \in r.left : r.drafts[k] # Absent
        <4>1. o.kind = "set"
          BY <1>1, <1>2
        <4> QED BY <1>3, <2>3, <2>4, <2>6, <4>1 DEF CallHolds
      <3> QED BY <1>18, <2>6, <3>1, <3>2, <3>3 DEF CallHolds
    <2>16. UNCHANGED <<storeVars, admin, news, faults, historyVars>> /\ presses' \in Nat
      BY <1>3 DEF pageIdle, SettingsTypes
    <2>17. CallHolds(r)'
      BY <2>6, <2>12, <2>13, <2>15, <2>16, SentHolds
    <2>18. Shows'
      <3>1. /\ ReadsAgain("load", "code") => ReadsAgain("load", "code")'
            /\ ReadsAgain("templates", "publish") => ReadsAgain("templates", "publish")'
        BY <1>1, <1>3, <2>8, ReadsGoOn
      <3> QED BY <1>13, <2>12, <2>13, <3>1 DEF SettingsInv, Shows
    <2>19. WordsHold'
      BY <1>16, <2>12, <2>13
    <2>20. DraftsHold'
      BY <1>6, <1>10, <1>13, <1>15, <2>12, <2>13, DraftsRead
    <2> QED BY <2>6, <2>8, <2>12, <2>14, <2>16, <2>17, <2>18, <2>19, <2>20, PostStep
  <1> QED BY <1>12, <1>17, <1>18

\* A draft that is typed keeps everything.
LEMMA TypeWordKeeps ==
    ASSUME SettingsInv, NEW k \in Keys, NEW v \in Values, TypeWord(k, v)
    PROVE  SettingsInv'
  <1>1. /\ page \in Pages /\ SettingsTypes /\ page.tab = "variables" /\ presses' = presses + 1
        /\ UNCHANGED <<storeVars, admin, call, news, faults, historyVars, slip>>
    BY DEF SettingsInv, SettingsTypes, TypeWord
  <1>2. page.drafts \in Words /\ page.typed \subseteq Keys
    BY <1>1, PageFields
  <1>3. PICK d, y : d = [page.drafts EXCEPT ![k] = v] /\ y = page.typed \union {k}
    OBVIOUS
  <1>4. /\ d \in Words /\ y \subseteq Keys /\ d[k] = v
        /\ \A l \in Keys : l # k => d[l] = page.drafts[l]
    BY <1>2, <1>3 DEF Words
  <1>5. page' = [page EXCEPT !.drafts = d, !.typed = y]
    BY <1>3 DEF TypeWord
  <1>6. /\ page' \in Pages /\ page'.busy = page.busy /\ page'.error = page.error
        /\ page'.notice = page.notice /\ page'.data = page.data
        /\ page'.template = page.template /\ page'.words = page.words
        /\ page'.edit = page.edit /\ page'.pending = page.pending
        /\ page'.tab = page.tab /\ page'.drafts = d /\ page'.typed = y
    BY <1>1, <1>4, <1>5 DEF Pages
  <1>7. DraftsHold'
    <2>1. Clean => \A l \in Keys \ elsewhere :
                     l \in page.typed \/ page.drafts[l] \in {Absent, variable[l]}
      BY DEF SettingsInv, DraftsHold
    <2>2. Clean' = Clean /\ UNCHANGED <<variable, elsewhere>>
      BY <1>1 DEF Clean, storeVars, historyVars
    <2> QED BY <1>1, <1>3, <1>4, <1>6, <2>1, <2>2 DEF DraftsHold
  <1>8. admin' \in BOOLEAN /\ presses' \in Nat /\ news' \in Nat
    BY <1>1 DEF SettingsTypes
  <1>9. page.tab = "variables" /\ page.typed \subseteq page'.typed
    BY <1>1, <1>3, <1>6
  <1>10. UNCHANGED <<storeVars, call, faults, historyVars, slip>>
    BY <1>1
  <1> QED BY <1>6, <1>7, <1>8, <1>9, <1>10, PageOnly

\* A discard keeps everything.
LEMMA DiscardAllKeeps ==
    ASSUME SettingsInv, DiscardAll
    PROVE  SettingsInv'
  <1>1. /\ page \in Pages /\ SettingsTypes /\ ~page.busy /\ DirtyKeys # {}
        /\ UNCHANGED <<storeVars, admin, call, presses, news, faults, historyVars, slip>>
        /\ page' = [page EXCEPT !.drafts = page.words, !.typed = {}]
    BY DEF SettingsInv, SettingsTypes, DiscardAll
  <1>2. page.words \in Words
    BY <1>1, PageFields
  <1>3. /\ page' \in Pages /\ page'.busy = page.busy /\ page'.error = page.error
        /\ page'.notice = page.notice /\ page'.data = page.data
        /\ page'.template = page.template /\ page'.words = page.words
        /\ page'.edit = page.edit /\ page'.pending = page.pending
        /\ page'.tab = page.tab /\ page'.drafts = page.words /\ page'.typed = {}
    BY <1>1, <1>2 DEF Pages
  <1>4. Together \/ UnderWay = {}
    BY <1>1 DEF SettingsInv, Flagged
  <1>5. page.tab = "variables"
    BY <1>1 DEF SettingsInv, DraftsHold, DirtyKeys, NoWords
  <1>6. DraftsHold'
    <2>1. Clean => \A k \in Keys \ elsewhere : page.words[k] \in {Absent, variable[k]}
      BY <1>4 DEF SettingsInv, WordsHold, Clean, Together
    <2>2. Clean' = Clean /\ UNCHANGED <<variable, elsewhere>>
      BY <1>1 DEF Clean, storeVars, historyVars
    <2> QED BY <1>3, <1>5, <2>1, <2>2 DEF DraftsHold
  <1>7. admin' \in BOOLEAN /\ presses' \in Nat /\ news' \in Nat
    BY <1>1 DEF SettingsTypes
  <1>8. UNCHANGED <<storeVars, call, faults, historyVars, slip>>
    BY <1>1
  <1> QED BY <1>3, <1>4, <1>6, <1>7, <1>8, PageOnly

\* A step of the page that is neither of words nor of codes.
LEMMA TouchStep ==
    ASSUME SettingsInv, UNCHANGED <<storeVars, call, faults, historyVars, slip>>,
           admin' \in BOOLEAN, presses' \in Nat, news' \in Nat,
           \/ page' = page
           \/ \E g \in BOOLEAN : page' = [page EXCEPT !.confirming = g]
           \/ \E ticks \in SUBSET Deliveries : page' = [page EXCEPT !.ticked = ticks]
    PROVE  SettingsInv'
  <1>1. page \in Pages
    BY DEF SettingsInv, SettingsTypes
  <1>2. /\ page' \in Pages /\ page'.busy = page.busy /\ page'.error = page.error
        /\ page'.notice = page.notice /\ page'.data = page.data
        /\ page'.template = page.template /\ page'.words = page.words
        /\ page'.edit = page.edit /\ page'.pending = page.pending
        /\ page'.tab = page.tab /\ page'.drafts = page.drafts /\ page'.typed = page.typed
    <2>1. CASE page' = page
      BY <1>1, <2>1
    <2>2. CASE \E g \in BOOLEAN : page' = [page EXCEPT !.confirming = g]
      BY <1>1, <2>2 DEF Pages
    <2>3. CASE \E ticks \in SUBSET Deliveries : page' = [page EXCEPT !.ticked = ticks]
      BY <1>1, <2>3 DEF Pages
    <2> QED BY <2>1, <2>2, <2>3
  <1>3. DraftsHold'
    <2>1. UNCHANGED <<variable, elsewhere>> /\ slip \subseteq slip'
      BY DEF storeVars, historyVars
    <2> QED BY <1>2, <2>1, DraftsStay
  <1>4. \/ page'.tab # "variables"
        \/ page.tab = "variables" /\ page.typed \subseteq page'.typed
    BY <1>2
  <1> QED BY <1>2, <1>3, <1>4, PageOnly

\* The ticks, the question before a disconnect and the role.
LEMMA TouchKeeps ==
    ASSUME SettingsInv,
           \/ \E d \in Deliveries : Tick(d)
           \/ AskDisconnect \/ CancelDisconnect \/ RoleChanges
    PROVE  SettingsInv'
  <1>1. SettingsTypes /\ page \in Pages
    BY DEF SettingsInv, SettingsTypes
  <1>2. CASE \E d \in Deliveries : Tick(d)
    <2>1. PICK d \in Deliveries : Tick(d)
      BY <1>2
    <2>2. PICK ticks : ticks = IF d \in page.ticked THEN page.ticked \ {d} ELSE page.ticked \union {d}
      OBVIOUS
    <2>3. ticks \in SUBSET Deliveries
      BY <1>1, <2>2, PageFields
    <2>4. page' = [page EXCEPT !.ticked = ticks]
      BY <2>1, <2>2 DEF Tick
    <2>5. /\ UNCHANGED <<storeVars, call, faults, historyVars, slip>>
          /\ admin' \in BOOLEAN /\ presses' \in Nat /\ news' \in Nat
      BY <1>1, <2>1 DEF Tick, SettingsTypes
    <2> QED BY <2>3, <2>4, <2>5, TouchStep
  <1>3. CASE AskDisconnect
    <2>1. /\ UNCHANGED <<storeVars, call, faults, historyVars, slip>> /\ admin' = admin
          /\ presses' = presses + 1 /\ news' = news
          /\ page' = [page EXCEPT !.confirming = TRUE]
      BY <1>3 DEF AskDisconnect
    <2>2. admin' \in BOOLEAN /\ presses' \in Nat /\ news' \in Nat
      BY <1>1, <2>1 DEF SettingsTypes
    <2>3. \E g \in BOOLEAN : page' = [page EXCEPT !.confirming = g]
      BY <2>1
    <2> QED BY <2>1, <2>2, <2>3, TouchStep
  <1>4. CASE CancelDisconnect
    <2>1. /\ UNCHANGED <<storeVars, call, faults, historyVars, slip>> /\ admin' = admin
          /\ presses' = presses /\ news' = news
          /\ page' = [page EXCEPT !.confirming = FALSE]
      BY <1>4 DEF CancelDisconnect
    <2>2. admin' \in BOOLEAN /\ presses' \in Nat /\ news' \in Nat
      BY <1>1, <2>1 DEF SettingsTypes
    <2>3. \E g \in BOOLEAN : page' = [page EXCEPT !.confirming = g]
      BY <2>1
    <2> QED BY <2>1, <2>2, <2>3, TouchStep
  <1>5. CASE RoleChanges
    <2>1. /\ UNCHANGED <<storeVars, call, faults, historyVars, slip>> /\ page' = page
          /\ presses' = presses /\ news' = news + 1 /\ admin' = ~admin
      BY <1>5 DEF RoleChanges, News, elseIdle, historyVars
    <2>2. admin' \in BOOLEAN /\ presses' \in Nat /\ news' \in Nat
      BY <1>1, <2>1 DEF SettingsTypes
    <2> QED BY <2>1, <2>2, TouchStep
  <1> QED BY <1>2, <1>3, <1>4, <1>5

\* A code that is typed keeps everything: what is being saved may not be it.
LEMMA TypeCodeKeeps ==
    ASSUME SettingsInv, NEW v \in Values, TypeCode(v)
    PROVE  SettingsInv'
  <1>1. /\ page \in Pages /\ SettingsTypes /\ presses' = presses + 1 /\ wanted' = v
        /\ page' = [page EXCEPT !.edit = v]
        /\ slip' = slip \union (IF \E c \in UnderWay : call[c].kind = "code"
                                THEN {"whileSaving"} ELSE {})
        /\ UNCHANGED <<storeVars, admin, call, news, faults, elsewhere, reverted>>
    BY DEF SettingsInv, SettingsTypes, TypeCode
  <1>2. UNCHANGED <<variable, code, published, delivery, workflow>>
    BY <1>1 DEF storeVars
  <1>3. /\ page' \in Pages /\ page'.busy = page.busy /\ page'.error = page.error
        /\ page'.notice = page.notice /\ page'.data = page.data
        /\ page'.template = page.template /\ page'.words = page.words
        /\ page'.edit = v /\ page'.pending = page.pending
        /\ page'.tab = page.tab /\ page'.drafts = page.drafts /\ page'.typed = page.typed
    BY <1>1 DEF Pages
  <1>4. slip \subseteq slip' /\ slip' \subseteq slip \union {"whileSaving"}
    BY <1>1
  <1>5. SettingsTypes'
    <2>1. slip' \subseteq Slips
      BY <1>1, <1>4 DEF SettingsTypes, Slips
    <2>2. presses' \in Nat
      BY <1>1 DEF SettingsTypes
    <2> QED BY <1>1, <1>2, <1>3, <2>1, <2>2 DEF SettingsTypes
  <1>6. \A n \in Nat : CountedIn(n) => CountedIn(n)'
    <2>1. Failed' = Failed
      BY <1>2 DEF Failed
    <2> QED BY <1>1, <1>4, <2>1, FewerFailed
  <1>7. PendingHolds'
    <2>1. page.pending # Absent => page.pending \in Nat
      BY <1>1, PageFields
    <2> QED BY <1>3, <1>6, <2>1 DEF SettingsInv, PendingHolds
  <1>8. EditHolds'
    <2>1. v # Absent
      BY DEF Values, Absent
    <2> QED BY <1>1, <1>3, <2>1 DEF EditHolds, EditsAreKept
  <1>9. NothingIsReverted'
    BY <1>1, <1>4 DEF SettingsInv, NothingIsReverted
  <1>10. UnderWay' = UnderWay
    BY <1>1 DEF UnderWay
  <1>11. Shows'
    BY <1>1, <1>2, <1>3, <1>4, <1>10 DEF SettingsInv, Shows, ReadsAgain
  <1>12. (Clean' <=> Clean) /\ (Together' <=> Together)
    BY <1>4 DEF Clean, Together
  <1>13. WordsHold'
    BY <1>1, <1>2, <1>3, <1>10, <1>12 DEF SettingsInv, WordsHold, Saved
  <1>14. DraftsHold'
    BY <1>1, <1>2, <1>3, <1>4, DraftsStay
  <1>15. \A c \in UnderWay : CallHolds(call[c])'
    <2> SUFFICES ASSUME NEW c \in UnderWay
                 PROVE  CallHolds(call[c])'
      OBVIOUS
    <2>1. PICK r : r = call[c]
      OBVIOUS
    <2>2. r \in CallRecord /\ CallHolds(r) /\ r.count \in Nat /\ r.shown \in Nat
      BY <2>1, CallIs, RecordFields DEF SettingsInv, UnderWay
    <2>3. MakeHolds(r)'
      BY <1>2, <1>12, <2>2 DEF CallHolds, MakeHolds
    <2>4. BulkHolds(r)'
      BY <1>4, <1>6, <2>2 DEF CallHolds, BulkHolds
    <2>5. CodeHolds(r)'
      <3>1. r.kind = "code" => "whileSaving" \in slip'
        BY <1>1, <2>1
      <3> QED BY <3>1 DEF CodeHolds
    <2>6. ReadHolds(r)'
      BY <1>2, <1>4, <2>2 DEF CallHolds, ReadHolds
    <2>7. SaveHolds(r)'
      BY <1>1, <1>2, <1>3, <1>12, <2>2 DEF CallHolds, SaveHolds
    <2>8. CallHolds(r)'
      BY <2>2, <2>3, <2>4, <2>5, <2>6, <2>7 DEF CallHolds
    <2> QED BY <1>1, <2>1, <2>8
  <1> QED BY <1>1, <1>2, <1>3, <1>4, <1>5, <1>7, <1>8, <1>9, <1>11, <1>13, <1>14, <1>15, CallsStay

\* A step of everybody else, on the page and the requests nothing moves.
LEMMA ElseStep ==
    ASSUME SettingsInv, UNCHANGED elseIdle, slip \subseteq slip', slip' \subseteq Slips,
           variable' \in [Keys -> Values], UNCHANGED <<code, published, workflow>>,
           delivery' \in Logged, admin' \in BOOLEAN, news' \in Nat,
           elsewhere \subseteq elsewhere', elsewhere' \subseteq Keys,
           \A k \in Keys \ elsewhere' : variable'[k] = variable[k],
           PendingHolds', \A c \in UnderWay : BulkHolds(call[c])'
    PROVE  SettingsInv'
  <1>1. UNCHANGED <<page, call, presses, faults, wanted, reverted>>
    BY DEF elseIdle
  <1>2. SettingsTypes'
    BY <1>1 DEF SettingsInv, SettingsTypes
  <1>3. EditHolds' /\ NothingIsReverted'
    BY <1>1 DEF SettingsInv, EditHolds, EditsAreKept, NothingIsReverted
  <1>4. UnderWay' = UnderWay
    BY <1>1 DEF UnderWay
  <1>5. Shows'
    BY <1>1, <1>4 DEF SettingsInv, Shows, ReadsAgain
  <1>6. (Clean' => Clean) /\ (Together => Together')
    BY DEF Clean, Together
  <1>7. Keys \ elsewhere' \subseteq Keys \ elsewhere
    OBVIOUS
  <1>8. WordsHold'
    <2> SUFFICES ASSUME Clean', NEW k \in Keys \ elsewhere'
                 PROVE  page.words[k] \in {Absent, variable[k]} \/ \E c \in UnderWay : Saved(call[c], k)
      BY <1>1, <1>4 DEF WordsHold, Saved
    <2> QED BY <1>6, <1>7 DEF SettingsInv, WordsHold
  <1>9. DraftsHold'
    <2>1. /\ page.tab # "variables" => page.drafts = NoWords /\ page.typed = {}
          /\ Clean => \A k \in Keys \ elsewhere :
               k \in page.typed \/ page.drafts[k] \in {Absent, variable[k]}
      BY DEF SettingsInv, DraftsHold
    <2>2. Clean' => \A k \in Keys \ elsewhere' :
            k \in page.typed \/ page.drafts[k] \in {Absent, variable'[k]}
      BY <1>6, <1>7, <2>1
    <2> QED BY <1>1, <2>1, <2>2 DEF DraftsHold
  <1>10. \A c \in UnderWay : CallHolds(call[c])'
    <2> SUFFICES ASSUME NEW c \in UnderWay
                 PROVE  CallHolds(call[c])'
      OBVIOUS
    <2>1. PICK r : r = call[c]
      OBVIOUS
    <2>2. r \in CallRecord /\ CallHolds(r)
      BY <2>1, CallIs DEF SettingsInv, UnderWay
    <2>3. BulkHolds(r)'
      BY <1>1, <2>1 DEF BulkHolds, CountedIn, Backlog, Failed
    <2>4. MakeHolds(r)'
      BY <1>6, <2>2 DEF CallHolds, MakeHolds
    <2>5. CodeHolds(r)' /\ ReadHolds(r)'
      BY <1>1, <2>2 DEF CallHolds, CodeHolds, ReadHolds
    <2>6. SaveHolds(r)'
      <3>1. Clean =>
             /\ \A k \in Keys \ elsewhere :
                  /\ r.stage = "answered" /\ r.kind \in {"set", "variables"} => r.words[k] = variable[k]
                  /\ r.kind = "set" /\ k \in r.left \ r.typed => r.drafts[k] = variable[k]
             /\ r.kind = "set" => page.tab # "variables" \/ r.typed \subseteq page.typed
        BY <2>2 DEF CallHolds, SaveHolds
      <3>2. Clean' =>
             /\ \A k \in Keys \ elsewhere' :
                  /\ r.stage = "answered" /\ r.kind \in {"set", "variables"} => r.words[k] = variable'[k]
                  /\ r.kind = "set" /\ k \in r.left \ r.typed => r.drafts[k] = variable'[k]
             /\ r.kind = "set" => page.tab # "variables" \/ r.typed \subseteq page.typed
        BY <1>6, <1>7, <3>1
      <3> QED BY <1>1, <3>2 DEF SaveHolds
    <2>7. CallHolds(r)'
      BY <2>2, <2>3, <2>4, <2>5, <2>6 DEF CallHolds
    <2> QED BY <1>1, <2>1, <2>7
  <1> QED BY <1>1, <1>2, <1>3, <1>5, <1>8, <1>9, <1>10, CallsStay

\* What was counted in is, when no more has failed.
LEMMA CountsStay ==
    ASSUME SettingsInv, Failed' \subseteq Failed, slip \subseteq slip', page' = page
    PROVE  PendingHolds' /\ \A r \in CallRecord : BulkHolds(r) => BulkHolds(r)'
  <1>1. \A n \in Nat : CountedIn(n) => CountedIn(n)'
    BY FewerFailed DEF SettingsInv
  <1>2. PendingHolds'
    <2>1. page.pending # Absent => page.pending \in Nat
      BY PageFields DEF SettingsInv, SettingsTypes
    <2> QED BY <1>1, <2>1 DEF SettingsInv, PendingHolds
  <1>3. ASSUME NEW r \in CallRecord, BulkHolds(r)
        PROVE  BulkHolds(r)'
    <2>1. r.count \in Nat /\ r.shown \in Nat
      BY RecordFields
    <2> QED BY <1>1, <1>3, <2>1 DEF BulkHolds
  <1> QED BY <1>2, <1>3 DEF SettingsInv, CallHolds

\* A variable another administrator writes.
LEMMA SomebodyWritesKeeps ==
    ASSUME SettingsInv, NEW k \in Keys, NEW v \in Values, SomebodyWrites(k, v)
    PROVE  SettingsInv'
  <1>1. /\ variable' = [variable EXCEPT ![k] = v] /\ elsewhere' = elsewhere \union {k}
        /\ news' = news + 1 /\ UNCHANGED <<code, published, delivery, workflow, admin, elseIdle, slip>>
    BY DEF SomebodyWrites, News
  <1>2. SettingsTypes
    BY DEF SettingsInv
  <1>3. page' = page /\ call' = call
    BY <1>1 DEF elseIdle
  <1>4. Failed' \subseteq Failed
    BY <1>1 DEF Failed
  <1>5. /\ variable' \in [Keys -> Values] /\ delivery' \in Logged /\ admin' \in BOOLEAN
        /\ news' \in Nat /\ elsewhere' \subseteq Keys /\ slip' \subseteq Slips
        /\ \A l \in Keys \ elsewhere' : variable'[l] = variable[l]
    BY <1>1, <1>2 DEF SettingsTypes
  <1>6. PendingHolds'
    BY <1>1, <1>3, <1>4, CountsStay
  <1>7. \A c \in UnderWay : BulkHolds(call[c])'
    <2>1. \A c \in UnderWay : call[c] \in CallRecord /\ BulkHolds(call[c])
      BY CallIs DEF SettingsInv, UnderWay, CallHolds
    <2>2. \A r \in CallRecord : BulkHolds(r) => BulkHolds(r)'
      BY <1>1, <1>3, <1>4, CountsStay
    <2> QED BY <1>3, <2>1, <2>2
  <1>8. UNCHANGED elseIdle /\ UNCHANGED <<code, published, workflow>>
    BY <1>1
  <1> QED BY <1>1, <1>5, <1>6, <1>7, <1>8, ElseStep

\* A delivery that leaves the failed ones.
LEMMA DeliveryMovesKeeps ==
    ASSUME SettingsInv, NEW d \in Deliveries, DeliveryMoves(d)
    PROVE  SettingsInv'
  <1>1. /\ news' = news + 1
        /\ UNCHANGED <<variable, code, published, workflow, admin, elseIdle, elsewhere, slip>>
    BY DEF DeliveryMoves, News
  <1>2. PICK after \in {"PROCESSED", "RECEIVED"} : delivery' = [delivery EXCEPT ![d] = after]
    BY DEF DeliveryMoves
  <1>3. SettingsTypes
    BY DEF SettingsInv
  <1>4. page' = page /\ call' = call
    BY <1>1 DEF elseIdle
  <1>5. Failed' \subseteq Failed /\ delivery' \in Logged
    BY <1>2, <1>3 DEF Failed, SettingsTypes, Logged
  <1>6. /\ variable' \in [Keys -> Values] /\ admin' \in BOOLEAN
        /\ news' \in Nat /\ elsewhere' \subseteq Keys /\ slip' \subseteq Slips
        /\ \A l \in Keys \ elsewhere' : variable'[l] = variable[l]
    BY <1>1, <1>3 DEF SettingsTypes
  <1>7. PendingHolds'
    BY <1>1, <1>4, <1>5, CountsStay
  <1>8. \A c \in UnderWay : BulkHolds(call[c])'
    <2>1. \A c \in UnderWay : call[c] \in CallRecord /\ BulkHolds(call[c])
      BY CallIs DEF SettingsInv, UnderWay, CallHolds
    <2>2. \A r \in CallRecord : BulkHolds(r) => BulkHolds(r)'
      BY <1>1, <1>4, <1>5, CountsStay
    <2> QED BY <1>4, <2>1, <2>2
  <1>9. UNCHANGED elseIdle /\ UNCHANGED <<code, published, workflow>>
    BY <1>1
  <1> QED BY <1>1, <1>5, <1>6, <1>7, <1>8, <1>9, ElseStep

\* A delivery that fails: it is noted when a count is out.
LEMMA DeliveryFailsKeeps ==
    ASSUME SettingsInv, NEW d \in Deliveries, DeliveryFails(d)
    PROVE  SettingsInv'
  <1>1. /\ news' = news + 1 /\ delivery' = [delivery EXCEPT ![d] = "FAILED"]
        /\ slip' = slip \union (IF Counted THEN {"failedSince"} ELSE {})
        /\ UNCHANGED <<variable, code, published, workflow, admin, elseIdle, elsewhere>>
    BY DEF DeliveryFails, News
  <1>2. SettingsTypes
    BY DEF SettingsInv
  <1>3. page' = page /\ call' = call
    BY <1>1 DEF elseIdle
  <1>4. /\ variable' \in [Keys -> Values] /\ admin' \in BOOLEAN
        /\ news' \in Nat /\ elsewhere' \subseteq Keys /\ slip' \subseteq Slips
        /\ \A l \in Keys \ elsewhere' : variable'[l] = variable[l]
        /\ delivery' \in Logged /\ slip \subseteq slip'
    <2>1. slip' \subseteq Slips /\ slip \subseteq slip'
      BY <1>1, <1>2 DEF SettingsTypes, Slips
    <2>2. delivery' \in Logged
      BY <1>1, <1>2 DEF SettingsTypes, Logged
    <2> QED BY <1>1, <1>2, <2>1, <2>2 DEF SettingsTypes
  <1>5. Counted => "failedSince" \in slip'
    BY <1>1
  <1>6. PendingHolds'
    BY <1>3, <1>5 DEF PendingHolds, CountedIn, Counted
  <1>7. \A c \in UnderWay : BulkHolds(call[c])'
    <2> SUFFICES ASSUME NEW c \in UnderWay
                 PROVE  BulkHolds(call[c])'
      OBVIOUS
    <2>1. PICK r : r = call[c]
      OBVIOUS
    <2>2. BulkHolds(r)
      BY <2>1 DEF SettingsInv, CallHolds
    <2>3. /\ r.kind = "count" /\ r.stage = "answered" => "failedSince" \in slip'
          /\ r.kind = "replayAll" /\ r.stage = "sent" => "failedSince" \in slip'
      BY <1>5, <2>1 DEF Counted
    <2>4. BulkHolds(r)'
      BY <1>4, <2>2, <2>3 DEF BulkHolds, CountedIn
    <2> QED BY <1>3, <2>1, <2>4
  <1>8. UNCHANGED elseIdle /\ UNCHANGED <<code, published, workflow>>
    BY <1>1
  <1> QED BY <1>1, <1>4, <1>6, <1>7, <1>8, ElseStep

\* The page as it is before it is opened satisfies the invariant.
LEMMA SettingsStart == SettingsInit => SettingsInv
  <1> SUFFICES ASSUME SettingsInit
               PROVE  SettingsInv
    OBVIOUS
  <1>1. /\ variable = [k \in Keys |-> 0] /\ code = 0 /\ published = 0
        /\ delivery \in [Deliveries -> {"none", "FAILED"}]
        /\ workflow = [made |-> 0, versions |-> 0] /\ admin = TRUE
        /\ call = [c \in Calls |-> NoCall]
        /\ presses = 0 /\ news = 0 /\ faults = 0
        /\ elsewhere = {} /\ reverted = {} /\ wanted = Absent /\ slip = {}
    BY DEF SettingsInit
  <1>2. /\ page \in Pages /\ page.tab = "closed" /\ page.busy = FALSE /\ page.error = "none"
        /\ page.notice = "none" /\ page.data = NoData /\ page.template = Absent
        /\ page.words = NoWords /\ page.drafts = NoWords /\ page.typed = {}
        /\ page.edit = Absent /\ page.pending = Absent
    <2>1. NoWords \in Words /\ NoData \in Data /\ "none" \in Says
      BY DEF NoWords, Words, NoData, Data, Says, Values
    <2>2. page = [tab |-> "closed", busy |-> FALSE, error |-> "none", notice |-> "none",
               forbidden |-> FALSE, data |-> NoData, template |-> Absent, words |-> NoWords,
               drafts |-> NoWords, typed |-> {}, edit |-> Absent, ticked |-> {},
               pending |-> Absent, confirming |-> FALSE]
      BY DEF SettingsInit
    <2> QED BY <2>1, <2>2 DEF Pages
  <1>3. UnderWay = {}
    BY <1>1 DEF UnderWay
  <1>4. SettingsTypes
    <2>1. variable \in [Keys -> Values] /\ code \in Values /\ published \in Values
      BY <1>1 DEF Values
    <2>2. delivery \in Logged /\ workflow \in [made : Nat, versions : Nat]
      BY <1>1 DEF Logged
    <2> QED BY <1>1, <1>2, <2>1, <2>2 DEF SettingsTypes
  <1>5. Versioned
    <2>1. Versioning = {}
      BY <1>1 DEF Versioning, NoCall
    <2> QED BY <1>1, <2>1, FS_EmptySet DEF Versioned
  <1>6. Shows
    BY <1>2 DEF Shows, NoData
  <1>7. WordsHold /\ DraftsHold
    BY <1>2 DEF WordsHold, DraftsHold, NoWords
  <1>8. PendingHolds /\ EditHolds /\ ErrorOrNotice /\ OneWorkflow /\ NothingIsReverted
    BY <1>1, <1>2 DEF PendingHolds, EditHolds, EditsAreKept, ErrorOrNotice, OneWorkflow,
                      NothingIsReverted
  <1>9. OneCall /\ Flagged /\ Cleared
    BY <1>2, <1>3 DEF OneCall, Flagged, Cleared
  <1> QED BY <1>3, <1>4, <1>5, <1>6, <1>7, <1>8, <1>9 DEF SettingsInv

\* A step in which nothing moves.
LEMMA SettingsStutter ==
    ASSUME SettingsInv, UNCHANGED settingsVars
    PROVE  SettingsInv'
  <1>1. /\ UNCHANGED <<storeVars, call, faults, historyVars, slip>> /\ page' = page
        /\ admin' = admin /\ presses' = presses /\ news' = news
    BY DEF settingsVars
  <1>2. admin' \in BOOLEAN /\ presses' \in Nat /\ news' \in Nat
    BY <1>1 DEF SettingsInv, SettingsTypes
  <1> QED BY <1>1, <1>2, TouchStep

\* Every step keeps the invariant.
LEMMA SettingsStep == SettingsInv /\ [SettingsNext]_settingsVars => SettingsInv'
  <1> SUFFICES ASSUME SettingsInv, [SettingsNext]_settingsVars
               PROVE  SettingsInv'
    OBVIOUS
  <1>1. ASSUME NEW c \in Calls,
               \/ OpenPage(c) \/ \E tab \in Tabs : OpenTab(c, tab)
               \/ \E kind \in Kinds : Press(c, kind)
               \/ SaveAll(c)
        PROVE  SettingsInv'
    BY <1>1, OpenPageKeeps, OpenTabKeeps, PressKeeps, SaveAllKeeps
  <1>2. ASSUME NEW c \in Calls,
               \/ Refuse(c) \/ Diagnostics(c) \/ ListVariables(c) \/ SetVariable(c)
               \/ UpdateAccount(c) \/ AccountAction(c) \/ ListTemplates(c) \/ Publish(c)
               \/ CountFailed(c) \/ ListReplay(c) \/ ReplayOne(c) \/ ReplayEnds(c)
               \/ FindWorkflow(c) \/ CreateWorkflow(c) \/ CreateVersion(c) \/ CallFails(c)
        PROVE  SettingsInv'
    BY <1>2, RefuseKeeps, DiagnosticsKeeps, ListVariablesKeeps, SetVariableKeeps,
       UpdateAccountKeeps, AccountActionKeeps, ListTemplatesKeeps, PublishKeeps, CountFailedKeeps,
       ListReplayKeeps, ReplayOneKeeps, ReplayEndsKeeps, FindWorkflowKeeps, CreateWorkflowKeeps,
       CreateVersionKeeps, FailureKeeps
  <1>3. ASSUME NEW c \in Calls,
               \/ AnswerFails(c) \/ DiagnosticsArrive(c) \/ VariablesArrive(c) \/ SaveArrives(c)
               \/ Reloads(c) \/ Answered(c)
        PROVE  SettingsInv'
    BY <1>3, AnswerFailsKeeps, DiagnosticsArriveKeeps, VariablesArriveKeeps, SaveArrivesKeeps,
       ReloadsKeeps, AnsweredKeeps
  <1>4. CASE DiscardAll
    BY <1>4, DiscardAllKeeps
  <1>5. CASE AskDisconnect \/ CancelDisconnect \/ RoleChanges \/ \E d \in Deliveries : Tick(d)
    BY <1>5, TouchKeeps
  <1>6. ASSUME NEW v \in Values, TypeCode(v) \/ \E k \in Keys : TypeWord(k, v) \/ SomebodyWrites(k, v)
        PROVE  SettingsInv'
    BY <1>6, TypeCodeKeeps, TypeWordKeeps, SomebodyWritesKeeps
  <1>7. ASSUME NEW d \in Deliveries, DeliveryFails(d) \/ DeliveryMoves(d)
        PROVE  SettingsInv'
    BY <1>7, DeliveryFailsKeeps, DeliveryMovesKeeps
  <1>8. CASE UNCHANGED settingsVars
    BY <1>8, SettingsStutter
  <1> QED BY <1>1, <1>2, <1>3, <1>4, <1>5, <1>6, <1>7, <1>8 DEF SettingsNext

\* What the invariant says of the settings page.
LEMMA SettingsSound == SettingsInv => SettingsTypeOK /\ SettingsAreTrue
  <1> SUFFICES ASSUME SettingsInv
               PROVE  SettingsTypeOK /\ SettingsAreTrue
    OBVIOUS
  <1>1. SettingsTypes
    BY DEF SettingsInv
  <1>2. workflow.versions <= workflow.made
    <2>1. Cardinality(Versioning) \in Nat
      BY FS_CardinalityType DEF SettingsInv, Versioned
    <2> QED BY <1>1, <2>1 DEF SettingsInv, Versioned, SettingsTypes
  <1>3. \A c \in Calls : call[c] # NoCall /\ call[c].kind = "set" => call[c].left # {}
    BY CallIs DEF CallHolds
  <1>4. SettingsTypeOK
    <2>1. page \in [tab : Tabs \union {"closed"}, busy : BOOLEAN, error : Kinds \union {"none"},
                    notice : Says,
                    forbidden : BOOLEAN, data : Data, template : Values \union {Absent},
                    words : Words, drafts : Words, typed : SUBSET Keys,
                    edit : Values \union {Absent}, ticked : SUBSET Deliveries,
                    pending : Nat \union {Absent}, confirming : BOOLEAN]
      BY <1>1, Zenon DEF SettingsTypes, Pages
    <2>2. slip \subseteq {"together", "whileSaving", "failedSince", "lost", "unread"}
      BY <1>1 DEF SettingsTypes, Slips
    <2>3. delivery \in [Deliveries -> {"none", "FAILED", "RECEIVED", "PROCESSED"}]
      BY <1>1 DEF SettingsTypes, Logged
    <2>4. {presses, news, faults} \subseteq Nat
      BY <1>1 DEF SettingsTypes
    <2> QED BY <1>1, <1>2, <1>3, <2>1, <2>2, <2>3, <2>4 DEF SettingsTypes, SettingsTypeOK
  <1>5. ReplayIsAsConfirmed
    <2> SUFFICES ASSUME NEW c \in UnderWay, call[c].kind = "replayAll"
                 PROVE  /\ call[c].count <= call[c].shown \/ "failedSince" \in slip
                        /\ call[c].count <= ReplayCap
      BY DEF ReplayIsAsConfirmed
    <2>1. call[c] \in CallRecord /\ CallHolds(call[c])
      BY CallIs DEF UnderWay
    <2>2. call[c].count \in Nat /\ call[c].shown \in Nat /\ Cardinality(call[c].ids) \in Nat
      BY <1>1, <2>1, RecordFields, BacklogIs
    <2>3. /\ "failedSince" \in slip \/ call[c].count + Cardinality(call[c].ids) <= call[c].shown
          /\ call[c].count + Cardinality(call[c].ids) <= ReplayCap
      BY <2>1 DEF CallHolds, BulkHolds
    <2> QED BY <2>2, <2>3, SettingsAssumption
  <1>6. BusyIsTrue
    BY DEF SettingsInv, Flagged, Together, BusyIsTrue
  <1>7. EditsAreKept
    BY DEF SettingsInv, EditHolds
  <1>8. ScreenIsCurrent
    <2> SUFFICES ASSUME UnderWay = {}, slip = {}
                 PROVE  /\ page.data.known => page.data.code = code
                        /\ page.template \in {Absent, published}
                        /\ \A k \in Keys \ elsewhere : page.words[k] \in {Absent, variable[k]}
      BY DEF ScreenIsCurrent
    <2>1. ~ReadsAgain("load", "code") /\ ~ReadsAgain("templates", "publish") /\ Clean
      BY DEF ReadsAgain, Clean
    <2> QED BY <2>1 DEF SettingsInv, Shows, WordsHold
  <1>9. NothingIsReverted /\ OneWorkflow /\ ErrorOrNotice
    BY DEF SettingsInv
  <1> QED BY <1>4, <1>5, <1>6, <1>7, <1>8, <1>9 DEF SettingsAreTrue

\* Every variable of the settings page holds what its declaration says.
THEOREM SettingsAreTyped == SettingsSpec => []SettingsTypeOK
  <1>1. SettingsSpec => []SettingsInv
    BY SettingsStart, SettingsStep, PTL DEF SettingsSpec
  <1> QED BY <1>1, SettingsSound, PTL

\* The settings page is true: a save writes back no value that nobody typed, a
\* bulk replay drives no more deliveries than its button said, the notification
\* workflow is made once, the buttons are held while a request is under way, a
\* typed calling code is in its input or stored, and an idle page shows what the
\* server has.
THEOREM SettingsCorrect == SettingsSpec => []SettingsAreTrue
  <1>1. SettingsSpec => []SettingsInv
    BY SettingsStart, SettingsStep, PTL DEF SettingsSpec
  <1> QED BY <1>1, SettingsSound, PTL
-----------------------------------------------------------------------------
(***************************************************************************)
(* Upkeep: the inductive invariant.                                        *)
(***************************************************************************)
WorkerSteps == {"queued", "downloading", "uploading", "failing", "done"}
PurgeSteps == {"idle", "reading", "writing", "metrics", "done"}

UpkeepTypes ==
    /\ content \in [Stored -> [body : BOOLEAN, meta : Metas, file : BOOLEAN]]
    /\ aged \subseteq Stored
    /\ worker \in [Pictures -> [step : WorkerSteps, attempt : Nat, size : Sizes]]
    /\ purge \in [step : PurgeSteps, pass : Nat, batch : SUBSET Stored, due : SUBSET Stored,
                  truncated : BOOLEAN]
    /\ {today, first} \subseteq Nat /\ marker \in Nat \union {-1} /\ counted \subseteq Nat

\* A file is there only once the worker is done, and never of anything else.
FilesAreWhole ==
    /\ \A r \in Pictures : /\ content[r].file => worker[r].step = "done" /\ content[r].meta = "downloaded"
                           /\ worker[r].step = "done" /\ content[r].meta = "fresh" => r \in dropped
                           /\ worker[r].attempt < MaxAttempts
    /\ \A r \in Stored \ Pictures : content[r].meta = "none" /\ ~content[r].file

\* What a purge has passed: a batch that is not full is all that was left.
Emptied(rows) == \A r \in rows \ restored : ~Full(r)
PurgeIsOnCourse ==
    /\ purge.step \in {"reading", "writing"} => purge.due \subseteq aged
    /\ purge.step = "writing" /\ Cardinality(purge.batch) < Batch => Emptied(purge.due \ purge.batch)
    /\ purge.step = "writing" => Cardinality(purge.batch) <= Batch
    /\ purge.step \in {"metrics", "done"} /\ ~purge.truncated => Emptied(purge.due)

\* The marker is behind the window, and the calendar goes on.
DaysAreInOrder ==
    /\ FirstDay <= today /\ today <= LastDay /\ counted \subseteq 0..today
    /\ marker <= today - KeptDays

UpkeepInv ==
    /\ UpkeepTypes /\ FilesAreWhole /\ EmptiedStaysEmpty /\ PurgeIsOnCourse
    /\ DaysAreInOrder /\ NoDayIsSkipped
-----------------------------------------------------------------------------
\* What an action on one message may do to its content: leave it, or write its
\* media, which is noted when the purge had emptied it.
Wrote(r) ==
    /\ content' \in [Stored -> [body : BOOLEAN, meta : Metas, file : BOOLEAN]]
    /\ \A s \in Stored : s # r => content'[s] = content[s]
    /\ content'[r].body = content[r].body
    /\ \/ content'[r] = content[r] /\ restored' = restored
       \/ content[r].meta = "none" /\ restored' = restored \union {r}
       \/ content[r].meta # "none" /\ restored' = restored

\* The effect of a write of the worker.
LEMMA WriteMetaEffect ==
    ASSUME UpkeepTypes, NEW r \in Stored, NEW meta \in Metas, NEW file \in BOOLEAN,
           WriteMeta(r, meta, file)
    PROVE  Wrote(r) /\ content'[r].meta = meta /\ content'[r].file = (content[r].file \/ file)
  <1> DEFINE Row == [body : BOOLEAN, meta : Metas, file : BOOLEAN]
             one == [content[r] EXCEPT !.meta = meta]
             row == [one EXCEPT !.file = content[r].file \/ file]
  <1>1. content[r] \in Row BY DEF UpkeepTypes
  <1>2. row \in Row /\ row.body = content[r].body /\ row.meta = meta
        /\ row.file = (content[r].file \/ file)
    <2>1. one \in Row /\ one.body = content[r].body /\ one.meta = meta BY <1>1
    <2> HIDE DEF one
    <2> QED BY <1>1, <2>1
  <1>3. content' = [content EXCEPT ![r] = row]
    BY DEF WriteMeta, UpkeepTypes
  <1>4. content'[r] = row /\ \A s \in Stored : s # r => content'[s] = content[s]
    <2> HIDE DEF row
    <2> QED BY <1>3 DEF UpkeepTypes
  <1>5. content' \in [Stored -> [body : BOOLEAN, meta : Metas, file : BOOLEAN]]
    <2> HIDE DEF row
    <2> QED BY <1>2, <1>3 DEF UpkeepTypes
  <1>6. restored' = IF content[r].meta = "none" THEN restored \union {r} ELSE restored
    BY DEF WriteMeta
  <1>7. content'[r].body = content[r].body /\ content'[r].meta = meta
        /\ content'[r].file = (content[r].file \/ file)
    <2> HIDE DEF row
    <2> QED BY <1>2, <1>4
  <1> QED BY <1>4, <1>5, <1>6, <1>7 DEF Wrote

\* Whatever a write does, what was emptied is noted when it is written again.
LEMMA WroteKeeps ==
    ASSUME UpkeepTypes, NEW r \in Stored, Wrote(r)
    PROVE  /\ restored \subseteq restored'
           /\ \A s \in Stored : ~Full(s) => ~Full(s)' \/ s \in restored'
           /\ EmptiedStaysEmpty => EmptiedStaysEmpty'
  BY DEF Wrote, Full, UpkeepTypes, EmptiedStaysEmpty

\* A purge stays on course while messages are written.
LEMMA WroteOnCourse ==
    ASSUME UpkeepTypes, PurgeIsOnCourse, aged \subseteq aged', purge' = purge, restored \subseteq restored',
           \A s \in Stored : ~Full(s) => ~Full(s)' \/ s \in restored'
    PROVE  PurgeIsOnCourse'
  BY DEF PurgeIsOnCourse, Emptied, UpkeepTypes
-----------------------------------------------------------------------------
\* The calendar and the purge are no business of the worker.
LEMMA CalendarStays ==
    ASSUME DaysAreInOrder, NoDayIsSkipped, UNCHANGED <<today, marker, counted, first, leaked>>
    PROVE  DaysAreInOrder' /\ NoDayIsSkipped'
  BY DEF DaysAreInOrder, NoDayIsSkipped

\* A step of the worker on one picture.
LEMMA WorkKeeps ==
    ASSUME UpkeepInv, NEW r \in Pictures, Wrote(r), UNCHANGED <<aged, purgeVars>>,
           worker' \in [Pictures -> [step : WorkerSteps, attempt : Nat, size : Sizes]],
           \A s \in Pictures : s # r => worker'[s] = worker[s],
           dropped \subseteq dropped', worker'[r].attempt < MaxAttempts,
           content'[r].file => worker'[r].step = "done" /\ content'[r].meta = "downloaded",
           worker'[r].step = "done" /\ content'[r].meta = "fresh" => r \in dropped'
    PROVE  UpkeepInv'
  <1>1. /\ UpkeepTypes /\ FilesAreWhole /\ EmptiedStaysEmpty /\ PurgeIsOnCourse
        /\ DaysAreInOrder /\ NoDayIsSkipped /\ r \in Stored
    BY UpkeepAssumption DEF UpkeepInv
  <1>2. UNCHANGED <<purge, today, marker, counted, first, leaked>> BY DEF purgeVars
  <1>3. UpkeepTypes' BY <1>1, <1>2 DEF UpkeepTypes, Wrote
  <1>4. FilesAreWhole' BY <1>1, UpkeepAssumption DEF FilesAreWhole, Wrote
  <1>5. EmptiedStaysEmpty' BY <1>1, WroteKeeps
  <1>6. PurgeIsOnCourse' BY <1>1, <1>2, WroteKeeps, WroteOnCourse
  <1> QED BY <1>1, <1>2, <1>3, <1>4, <1>5, <1>6, CalendarStays DEF UpkeepInv

\* A step of the worker to a named step.
LEMMA TurnsEffect ==
    ASSUME UpkeepTypes, NEW r \in Pictures, NEW step \in WorkerSteps, Turns(r, step)
    PROVE  /\ worker' \in [Pictures -> [step : WorkerSteps, attempt : Nat, size : Sizes]]
           /\ \A s \in Pictures : s # r => worker'[s] = worker[s]
           /\ worker'[r].step = step /\ worker'[r].attempt = worker[r].attempt
  <1> DEFINE row == [worker[r] EXCEPT !.step = step]
  <1>1. row \in [step : WorkerSteps, attempt : Nat, size : Sizes]
        /\ row.step = step /\ row.attempt = worker[r].attempt
    BY DEF UpkeepTypes
  <1>2. worker' = [worker EXCEPT ![r] = row] BY DEF Turns
  <1> HIDE DEF row
  <1> QED BY <1>1, <1>2 DEF UpkeepTypes

\* A step that leaves the content alone writes nothing.
LEMMA NothingWritten ==
    ASSUME UpkeepTypes, NEW r, UNCHANGED <<content, restored>>
    PROVE  Wrote(r)
  BY DEF UpkeepTypes, Wrote

\* The worker reads its message.
LEMMA ReadsKeeps ==
    ASSUME UpkeepInv, NEW r \in Pictures, WorkerReads(r)
    PROVE  UpkeepInv'
  <1>1. /\ UpkeepTypes /\ FilesAreWhole /\ r \in Stored /\ worker[r].step = "queued"
        /\ ~content[r].file /\ worker[r].attempt < MaxAttempts
        /\ UNCHANGED <<aged, purgeVars>> /\ dropped' = dropped
    BY UpkeepAssumption DEF UpkeepInv, WorkerReads, FilesAreWhole
  <1>2. CASE content[r].meta = "none" /\ Turns(r, "done") /\ UNCHANGED <<content, restored>>
    <2>1. Wrote(r) BY <1>1, <1>2, NothingWritten
    <2>2. "done" \in WorkerSteps BY DEF WorkerSteps
    <2> QED BY <1>1, <1>2, <2>1, <2>2, TurnsEffect, WorkKeeps
  <1>3. CASE Turns(r, "done") /\ WriteMeta(r, "deferred", FALSE)
    <2>1. "done" \in WorkerSteps /\ "deferred" \in Metas BY DEF WorkerSteps, Metas
    <2>2. Wrote(r) /\ content'[r].meta = "deferred" /\ ~content'[r].file
      BY <1>1, <1>3, <2>1, WriteMetaEffect
    <2> QED BY <1>1, <1>3, <2>1, <2>2, TurnsEffect, WorkKeeps
  <1>4. CASE Turns(r, "downloading") /\ UNCHANGED <<content, restored>>
    <2>1. Wrote(r) BY <1>1, <1>4, NothingWritten
    <2>2. "downloading" \in WorkerSteps BY DEF WorkerSteps
    <2> QED BY <1>1, <1>4, <2>1, <2>2, TurnsEffect, WorkKeeps
  <1> QED BY <1>2, <1>3, <1>4 DEF WorkerReads

\* A call of the worker throws.
LEMMA FailsKeeps ==
    ASSUME UpkeepInv, NEW r \in Pictures, WorkerFails(r)
    PROVE  UpkeepInv'
  <1>1. /\ UpkeepTypes /\ FilesAreWhole /\ r \in Stored /\ ~content[r].file
        /\ worker[r].attempt < MaxAttempts /\ UNCHANGED <<aged, purgeVars>> /\ dropped' = dropped
        /\ Turns(r, "failing") /\ UNCHANGED <<content, restored>>
    BY UpkeepAssumption DEF UpkeepInv, WorkerFails, FilesAreWhole
  <1>2. Wrote(r) /\ "failing" \in WorkerSteps BY <1>1, NothingWritten DEF WorkerSteps
  <1> QED BY <1>1, <1>2, TurnsEffect, WorkKeeps

\* The worker has downloaded the file, and it is too big or not.
LEMMA DownloadsKeeps ==
    ASSUME UpkeepInv, NEW r \in Pictures, WorkerDownloads(r)
    PROVE  UpkeepInv'
  <1>1. /\ UpkeepTypes /\ FilesAreWhole /\ r \in Stored /\ worker[r].step = "downloading"
        /\ ~content[r].file /\ worker[r].attempt < MaxAttempts
        /\ UNCHANGED <<aged, purgeVars>> /\ dropped' = dropped
    BY UpkeepAssumption DEF UpkeepInv, WorkerDownloads, FilesAreWhole
  <1>2. CASE Turns(r, "done") /\ WriteMeta(r, "deferred", FALSE)
    <2>1. "done" \in WorkerSteps /\ "deferred" \in Metas BY DEF WorkerSteps, Metas
    <2>2. Wrote(r) /\ content'[r].meta = "deferred" /\ ~content'[r].file
      BY <1>1, <1>2, <2>1, WriteMetaEffect
    <2> QED BY <1>1, <1>2, <2>1, <2>2, TurnsEffect, WorkKeeps
  <1>3. CASE Turns(r, "uploading") /\ UNCHANGED <<content, restored>>
    <2>1. Wrote(r) BY <1>1, <1>3, NothingWritten
    <2>2. "uploading" \in WorkerSteps BY DEF WorkerSteps
    <2> QED BY <1>1, <1>3, <2>1, <2>2, TurnsEffect, WorkKeeps
  <1> QED BY <1>2, <1>3 DEF WorkerDownloads

\* The worker has stored the file.
LEMMA StoresKeeps ==
    ASSUME UpkeepInv, NEW r \in Pictures, WorkerStores(r)
    PROVE  UpkeepInv'
  <1>1. /\ UpkeepTypes /\ FilesAreWhole /\ r \in Stored /\ worker[r].attempt < MaxAttempts
        /\ UNCHANGED <<aged, purgeVars>> /\ dropped' = dropped
        /\ Turns(r, "done") /\ WriteMeta(r, "downloaded", TRUE)
    BY UpkeepAssumption DEF UpkeepInv, WorkerStores, FilesAreWhole
  <1>2. "done" \in WorkerSteps /\ "downloaded" \in Metas BY DEF WorkerSteps, Metas
  <1>3. Wrote(r) /\ content'[r].meta = "downloaded" BY <1>1, <1>2, WriteMetaEffect
  <1> QED BY <1>1, <1>2, <1>3, TurnsEffect, WorkKeeps

\* The worker gives an attempt up: it queues another, or flags the picture.
LEMMA GivesUpKeeps ==
    ASSUME UpkeepInv, NEW r \in Pictures, WorkerGivesUp(r)
    PROVE  UpkeepInv'
  <1>1. /\ UpkeepTypes /\ FilesAreWhole /\ r \in Stored /\ worker[r].step = "failing"
        /\ ~content[r].file /\ worker[r].attempt < MaxAttempts
        /\ UNCHANGED <<aged, purgeVars>> /\ worker[r].attempt \in Nat /\ MaxAttempts \in Nat
    BY UpkeepAssumption DEF UpkeepInv, WorkerGivesUp, FilesAreWhole, UpkeepTypes
  <1>2. "done" \in WorkerSteps /\ "failed" \in Metas /\ "fresh" \in Metas BY DEF WorkerSteps, Metas
  <1>3. CASE Turns(r, "done") /\ WriteMeta(r, "failed", FALSE) /\ dropped' = dropped
    <2>1. Wrote(r) /\ content'[r].meta = "failed" /\ ~content'[r].file
      BY <1>1, <1>2, <1>3, WriteMetaEffect
    <2> QED BY <1>1, <1>2, <1>3, <2>1, TurnsEffect, WorkKeeps
  <1>4. CASE /\ ~Spent(worker[r].attempt) /\ WriteMeta(r, "fresh", FALSE) /\ dropped' = dropped
             /\ worker' = [worker EXCEPT ![r].step = "queued", ![r].attempt = @ + 1]
    <2>1. Wrote(r) /\ ~content'[r].file BY <1>1, <1>2, <1>4, WriteMetaEffect
    <2> DEFINE one == [worker[r] EXCEPT !.step = "queued"]
               row == [one EXCEPT !.attempt = worker[r].attempt + 1]
    <2>2. /\ row \in [step : WorkerSteps, attempt : Nat, size : Sizes]
          /\ row.step = "queued" /\ row.attempt = worker[r].attempt + 1
      <3>1. one \in [step : WorkerSteps, attempt : Nat, size : Sizes] /\ one.step = "queued"
        BY <1>1 DEF UpkeepTypes, WorkerSteps
      <3> HIDE DEF one
      <3> QED BY <1>1, <3>1
    <2>3. worker' = [worker EXCEPT ![r] = row]
      BY <1>4 DEF UpkeepTypes
    <2>4. /\ worker' \in [Pictures -> [step : WorkerSteps, attempt : Nat, size : Sizes]]
          /\ worker'[r] = row /\ \A s \in Pictures : s # r => worker'[s] = worker[s]
      <3> HIDE DEF row
      <3> QED BY <1>1, <2>2, <2>3 DEF UpkeepTypes
    <2>5. worker'[r].step = "queued" /\ worker'[r].attempt = worker[r].attempt + 1
      <3> HIDE DEF row
      <3> QED BY <2>2, <2>4
    <2>6. worker[r].attempt + 1 < MaxAttempts BY <1>1, <1>4 DEF Spent
    <2> QED BY <1>1, <1>4, <2>1, <2>4, <2>5, <2>6, WorkKeeps
  <1>5. CASE WriteMeta(r, "fresh", FALSE) /\ Turns(r, "done") /\ dropped' = dropped \union {r}
    <2>1. Wrote(r) /\ ~content'[r].file BY <1>1, <1>2, <1>5, WriteMetaEffect
    <2> QED BY <1>1, <1>2, <1>5, <2>1, TurnsEffect, WorkKeeps
  <1> QED BY <1>3, <1>4, <1>5 DEF WorkerGivesUp
-----------------------------------------------------------------------------
PurgeRow == [step : PurgeSteps, pass : Nat, batch : SUBSET Stored, due : SUBSET Stored,
             truncated : BOOLEAN]

\* A step of the purge or the calendar that leaves messages and pictures alone.
LEMMA PurgeKeeps ==
    ASSUME UpkeepInv, UNCHANGED <<content, worker, restored, dropped>>,
           aged \subseteq aged', aged' \subseteq Stored, purge' \in PurgeRow, PurgeIsOnCourse',
           {today', first'} \subseteq Nat, marker' \in Nat \union {-1}, counted' \subseteq Nat,
           DaysAreInOrder', NoDayIsSkipped'
    PROVE  UpkeepInv'
  <1>1. UpkeepTypes' BY DEF UpkeepInv, UpkeepTypes, PurgeRow
  <1>2. FilesAreWhole' /\ EmptiedStaysEmpty'
    BY DEF UpkeepInv, FilesAreWhole, EmptiedStaysEmpty, Full
  <1> QED BY <1>1, <1>2 DEF UpkeepInv

\* A message passes its window.
LEMMA AgeKeeps ==
    ASSUME UpkeepInv, NEW r \in Stored, Age(r)
    PROVE  UpkeepInv'
  <1>1. /\ UNCHANGED <<content, worker, restored, dropped, purgeVars>>
        /\ aged \subseteq aged' /\ aged' \subseteq Stored
    BY DEF UpkeepInv, UpkeepTypes, Age
  <1>2. UNCHANGED <<purge, today, marker, counted, first, leaked>> BY <1>1 DEF purgeVars
  <1>3. PurgeIsOnCourse' BY <1>1, <1>2 DEF UpkeepInv, PurgeIsOnCourse, Emptied, Full
  <1>4. DaysAreInOrder' /\ NoDayIsSkipped' BY <1>2, CalendarStays DEF UpkeepInv
  <1> QED BY <1>1, <1>2, <1>3, <1>4, PurgeKeeps DEF UpkeepInv, UpkeepTypes, PurgeRow

\* A purge begins, with what is due then.
LEMMA PurgeStartsKeeps == ASSUME UpkeepInv, PurgeStarts PROVE UpkeepInv'
  <1>1. /\ UNCHANGED <<content, worker, aged, restored, dropped, today, marker, counted, first, leaked>>
        /\ purge' = [step |-> "reading", pass |-> 0, batch |-> {}, due |-> Due, truncated |-> FALSE]
    BY DEF PurgeStarts
  <1>2. Due \subseteq aged /\ aged \subseteq Stored BY DEF Due, UpkeepInv, UpkeepTypes
  <1>3. /\ purge' \in PurgeRow /\ purge'.step = "reading" /\ purge'.due = Due
    BY <1>1, <1>2 DEF PurgeRow, PurgeSteps
  <1>4. PurgeIsOnCourse' BY <1>1, <1>2, <1>3 DEF PurgeIsOnCourse
  <1>5. DaysAreInOrder' /\ NoDayIsSkipped' BY <1>1, CalendarStays DEF UpkeepInv
  <1> QED BY <1>1, <1>2, <1>3, <1>4, <1>5, PurgeKeeps DEF UpkeepInv, UpkeepTypes

\* What the query leaves out when its page is not full is nothing.
LEMMA ShortPageIsAll ==
    ASSUME aged \subseteq Stored, NEW batch \in SUBSET Due,
           Cardinality(batch) = IF Cardinality(Due) < Batch THEN Cardinality(Due) ELSE Batch
    PROVE  /\ Cardinality(batch) < Batch => batch = Due
           /\ Cardinality(batch) <= Batch
           /\ batch = {} => Due = {}
  <1>1. IsFiniteSet(Due) /\ Due \subseteq Stored /\ Batch \in Nat \ {0}
    BY UpkeepAssumption, FS_Subset DEF Due
  <1>2. IsFiniteSet(batch) /\ Cardinality(batch) \in Nat /\ Cardinality(Due) \in Nat
    BY <1>1, FS_Subset, FS_CardinalityType
  <1>3. Cardinality(batch) = Cardinality(Due) => batch = Due
    BY <1>1, FS_Subset
  <1>4. Cardinality({}) = 0 BY FS_EmptySet
  <1> QED BY <1>1, <1>2, <1>3, <1>4

\* The purge reads its next page.
LEMMA PurgeReadsKeeps == ASSUME UpkeepInv, PurgeReads PROVE UpkeepInv'
  <1>1. /\ UNCHANGED <<content, worker, aged, restored, dropped, today, marker, counted, first, leaked>>
        /\ purge.step = "reading"
    BY SMTT(20) DEF PurgeReads
  <1>2. PICK batch \in SUBSET Due :
          /\ Cardinality(batch) = IF Cardinality(Due) < Batch THEN Cardinality(Due) ELSE Batch
          /\ purge' = [purge EXCEPT !.batch = batch,
                                    !.step = IF batch = {} THEN "metrics" ELSE "writing"]
    BY DEF PurgeReads
  <1>3. /\ purge \in PurgeRow /\ aged \subseteq Stored /\ batch \subseteq Stored /\ purge.due \subseteq aged
    BY <1>1 DEF UpkeepInv, UpkeepTypes, PurgeRow, Due, PurgeIsOnCourse
  <1>4. /\ purge' \in PurgeRow /\ purge'.batch = batch /\ purge'.due = purge.due
        /\ purge'.step = IF batch = {} THEN "metrics" ELSE "writing"
    <2> DEFINE one == [purge EXCEPT !.batch = batch]
    <2>1. one \in PurgeRow /\ one.batch = batch /\ one.due = purge.due BY <1>3 DEF PurgeRow
    <2>2. purge' = [one EXCEPT !.step = IF batch = {} THEN "metrics" ELSE "writing"] BY <1>2
    <2> HIDE DEF one
    <2> QED BY <2>1, <2>2 DEF PurgeRow, PurgeSteps
  <1>5. /\ Cardinality(batch) < Batch => batch = Due
        /\ Cardinality(batch) <= Batch
        /\ batch = {} => Due = {}
    BY <1>2, <1>3, ShortPageIsAll
  <1>6. \A r \in purge.due : Full(r) <=> r \in Due BY <1>3 DEF Due
  <1>7. \A r \in Stored : Full(r)' <=> Full(r) BY <1>1 DEF Full
  <1>8. PurgeIsOnCourse'
    BY <1>1, <1>3, <1>4, <1>5, <1>6, <1>7 DEF PurgeIsOnCourse, Emptied
  <1>9. DaysAreInOrder' /\ NoDayIsSkipped' BY <1>1, CalendarStays DEF UpkeepInv
  <1> QED BY <1>1, <1>3, <1>4, <1>8, <1>9, PurgeKeeps DEF UpkeepInv, UpkeepTypes

\* The purge empties its page; the worker of a picture may be at it.
LEMMA PurgeWritesKeeps == ASSUME UpkeepInv, PurgeWrites PROVE UpkeepInv'
  <1> DEFINE next == IF Cardinality(purge.batch) < Batch \/ purge.pass + 1 = Passes
                     THEN "metrics" ELSE "reading"
             cut == purge.pass + 1 = Passes /\ StopsShort
  <1>1. /\ purge.step = "writing"
        /\ content' = [r \in Stored |-> IF r \in purge.batch THEN Blank ELSE content[r]]
        /\ purge' = [purge EXCEPT !.pass = purge.pass + 1, !.truncated = cut, !.step = next]
        /\ UNCHANGED <<aged, worker, today, marker, counted, first, restored, dropped, leaked>>
    BY DEF PurgeWrites
  <1>2. /\ UpkeepTypes /\ FilesAreWhole /\ EmptiedStaysEmpty /\ PurgeIsOnCourse
        /\ DaysAreInOrder /\ NoDayIsSkipped
    BY DEF UpkeepInv
  <1>3. purge' \in PurgeRow /\ purge'.step = next /\ purge'.truncated = cut /\ purge'.due = purge.due
    <2> DEFINE one == [purge EXCEPT !.pass = purge.pass + 1]
               two == [one EXCEPT !.truncated = cut]
    <2>1. one \in PurgeRow /\ one.due = purge.due BY <1>2 DEF UpkeepTypes, PurgeRow
    <2>2. cut \in BOOLEAN /\ next \in PurgeSteps BY DEF PurgeSteps
    <2>3. purge' = [two EXCEPT !.step = next] BY <1>1
    <2> HIDE DEF one, cut, next
    <2>4. two \in PurgeRow /\ two.due = purge.due /\ two.truncated = cut BY <2>1, <2>2 DEF PurgeRow
    <2> HIDE DEF two
    <2> QED BY <2>2, <2>3, <2>4 DEF PurgeRow
  <1>4. /\ content' \in [Stored -> [body : BOOLEAN, meta : Metas, file : BOOLEAN]]
        /\ \A r \in Stored : content'[r] = IF r \in purge.batch THEN Blank ELSE content[r]
        /\ Blank.body = FALSE /\ Blank.meta = "none" /\ Blank.file = FALSE
    BY <1>1, <1>2 DEF UpkeepTypes, Blank, Metas
  <1>5. UpkeepTypes' BY <1>1, <1>2, <1>3, <1>4 DEF UpkeepTypes, PurgeRow
  <1>6. FilesAreWhole' BY <1>1, <1>2, <1>4, UpkeepAssumption DEF FilesAreWhole
  <1>7. EmptiedStaysEmpty' BY <1>1, <1>2, <1>4 DEF EmptiedStaysEmpty, Full
  <1>8. PurgeIsOnCourse'
    <2>1. \A r \in Stored : ~Full(r)' <=> r \in purge.batch \/ ~Full(r) BY <1>4 DEF Full
    <2>2. next = "reading" \/ next = "metrics" OBVIOUS
    <2>3. purge.due \subseteq aged /\ aged \subseteq Stored BY <1>1, <1>2 DEF PurgeIsOnCourse, UpkeepTypes
    <2>4. next = "metrics" /\ ~cut => Cardinality(purge.batch) < Batch
      <3>1. IsFiniteSet(purge.batch) BY <1>2, UpkeepAssumption, FS_Subset DEF UpkeepTypes
      <3>2. Cardinality(purge.batch) \in Nat /\ Batch \in Nat BY <3>1, UpkeepAssumption, FS_CardinalityType
      <3> QED BY <1>1, <1>2, <3>2 DEF StopsShort, PurgeIsOnCourse
    <2>5. next = "metrics" /\ ~cut => Emptied(purge.due)'
      BY <1>1, <1>2, <1>3, <2>1, <2>3, <2>4 DEF PurgeIsOnCourse, Emptied
    <2> HIDE DEF next, cut
    <2> QED BY <1>1, <1>3, <2>2, <2>3, <2>5 DEF PurgeIsOnCourse
  <1>9. DaysAreInOrder' /\ NoDayIsSkipped' BY <1>1, <1>2, CalendarStays
  <1> QED BY <1>5, <1>6, <1>7, <1>8, <1>9 DEF UpkeepInv

\* The run of the purge dies.
LEMMA PurgeDiesKeeps == ASSUME UpkeepInv, PurgeDies PROVE UpkeepInv'
  <1>1. /\ UNCHANGED <<content, worker, aged, restored, dropped, today, marker, counted, first, leaked>>
        /\ purge' = [purge EXCEPT !.step = "idle"]
    BY DEF PurgeDies
  <1>2. purge' \in PurgeRow /\ purge'.step = "idle"
    BY <1>1 DEF UpkeepInv, UpkeepTypes, PurgeRow, PurgeSteps
  <1>3. PurgeIsOnCourse' BY <1>2 DEF PurgeIsOnCourse
  <1>4. DaysAreInOrder' /\ NoDayIsSkipped' BY <1>1, CalendarStays DEF UpkeepInv
  <1> QED BY <1>1, <1>2, <1>3, <1>4, PurgeKeeps DEF UpkeepInv, UpkeepTypes

\* The counters of a few days go, from the marker on.
LEMMA PurgeMetricsKeeps == ASSUME UpkeepInv, PurgeMetrics PROVE UpkeepInv'
  <1> DEFINE days == {d \in MetricsFrom..(today - KeptDays) : d < MetricsFrom + DaysPerRun}
             last == CHOOSE d \in days : \A e \in days : e <= d
  <1>1. /\ UNCHANGED <<content, worker, aged, restored, dropped, today>>
        /\ purge.step = "metrics" /\ purge' = [purge EXCEPT !.step = "done"]
        /\ first' = IF marker = -1 THEN MetricsFrom ELSE first
        /\ marker' = IF days = {} THEN marker ELSE last
        /\ \/ counted' = counted \ days /\ UNCHANGED leaked
           \/ \E d \in days : /\ leaked' = leaked \union {d}
                              /\ counted' = counted \ (days \ {d})
    BY DEF PurgeMetrics, Trouble
  <1>2. /\ UpkeepTypes /\ PurgeIsOnCourse /\ DaysAreInOrder /\ NoDayIsSkipped
    BY DEF UpkeepInv
  <1>3. purge' \in PurgeRow /\ purge'.step = "done" /\ purge'.due = purge.due
        /\ purge'.truncated = purge.truncated
    BY <1>1, <1>2 DEF UpkeepTypes, PurgeRow, PurgeSteps
  <1>4. PurgeIsOnCourse' BY <1>1, <1>2, <1>3 DEF PurgeIsOnCourse, Emptied, Full
  <1>5. /\ today \in Nat /\ KeptDays \in Nat \ {0} /\ MetricsFrom \in Nat
        /\ 2 * KeptDays < today /\ marker \in Nat \union {-1} /\ first \in Nat
    BY <1>2, UpkeepAssumption DEF UpkeepTypes, DaysAreInOrder, MetricsFrom
  <1>6. days # {} => last \in days /\ \A e \in days : e <= last
    <2> DEFINE to == today - KeptDays
               end == IF to < MetricsFrom + DaysPerRun - 1 THEN to ELSE MetricsFrom + DaysPerRun - 1
    <2>1. DaysPerRun \in Nat \ {0} BY UpkeepAssumption
    <2>2. days # {} => end \in days /\ \A e \in days : e <= end BY <1>5, <2>1
    <2>3. days # {} => \E d \in days : \A e \in days : e <= d BY <2>2
    <2> HIDE DEF days
    <2> QED BY <2>3
  <1>7. \A d \in days : d \in Nat /\ MetricsFrom <= d /\ d <= today - KeptDays /\ d < MetricsFrom + DaysPerRun
    BY <1>5
  <1>8. {today', first'} \subseteq Nat /\ marker' \in Nat \union {-1} /\ counted' \subseteq Nat
    <2> HIDE DEF days, last
    <2> QED BY <1>1, <1>2, <1>5, <1>6, <1>7 DEF UpkeepTypes
  <1>9. counted' \subseteq counted /\ counted \ days \subseteq counted'
        /\ leaked \subseteq leaked' /\ \A d \in days : d \in counted' => d \in leaked'
    <2> HIDE DEF days, last
    <2> QED BY <1>1
  <1>10. marker' <= today - KeptDays
    <2> HIDE DEF days, last
    <2> QED BY <1>1, <1>2, <1>5, <1>6, <1>7 DEF DaysAreInOrder
  <1>11. DaysAreInOrder'
    BY <1>1, <1>2, <1>9, <1>10 DEF DaysAreInOrder
  <1>12. ASSUME NEW d \in 0..marker', d \in counted' PROVE d \in leaked' \/ d < first'
    <2>1. CASE d \in days BY <1>9, <1>12, <2>1
    <2>2. CASE d \notin days /\ marker # -1
      <3>1. MetricsFrom = marker + 1 /\ first' = first BY <1>1, <2>2 DEF MetricsFrom
      <3>2. d <= marker
        <4>1. CASE days = {} BY <1>1, <4>1
        <4>2. CASE days # {}
          <5>1. last \in days /\ d <= last /\ marker' = last
            <6> HIDE DEF days, last
            <6> QED BY <1>1, <1>6, <1>7, <4>2
          <5>2. last <= today - KeptDays /\ last < MetricsFrom + DaysPerRun /\ last \in Nat BY <1>7, <5>1
          <5>3. DaysPerRun \in Nat BY UpkeepAssumption
          <5>4. ~(MetricsFrom <= d)
            <6> HIDE DEF last
            <6> QED BY <1>5, <2>2, <5>1, <5>2, <5>3
          <5> QED BY <1>5, <3>1, <5>4
        <4> QED BY <4>1, <4>2
      <3>3. d \in 0..marker BY <1>5, <2>2, <3>2
      <3> QED BY <1>2, <1>9, <1>12, <3>1, <3>3 DEF NoDayIsSkipped
    <2>3. CASE d \notin days /\ marker = -1
      <3>1. first' = MetricsFrom BY <1>1, <2>3
      <3>2. d < MetricsFrom
        <4>1. CASE days = {} BY <1>1, <1>5, <2>3, <4>1
        <4>2. CASE days # {}
          <5>1. last \in days /\ d <= last /\ marker' = last
            <6> HIDE DEF days, last
            <6> QED BY <1>1, <1>6, <1>7, <4>2
          <5>2. last <= today - KeptDays /\ last < MetricsFrom + DaysPerRun /\ last \in Nat BY <1>7, <5>1
          <5>3. DaysPerRun \in Nat BY UpkeepAssumption
          <5>4. ~(MetricsFrom <= d)
            <6> HIDE DEF last
            <6> QED BY <1>5, <2>3, <5>1, <5>2, <5>3
          <5> QED BY <1>5, <5>4
        <4> QED BY <4>1, <4>2
      <3> QED BY <3>1, <3>2
    <2> QED BY <2>1, <2>2, <2>3
  <1>13. \A d \in (today - KeptDays + 1)..today : d \in counted'
    BY <1>2, <1>5, <1>7, <1>9 DEF NoDayIsSkipped
  <1>14. NoDayIsSkipped' BY <1>1, <1>12, <1>13 DEF NoDayIsSkipped
  <1> QED BY <1>1, <1>2, <1>3, <1>4, <1>8, <1>11, <1>14, PurgeKeeps DEF UpkeepTypes

\* A day passes.
LEMMA NewDayKeeps == ASSUME UpkeepInv, NewDay PROVE UpkeepInv'
  <1>1. /\ UNCHANGED <<content, worker, aged, restored, dropped, purge, marker, first, leaked>>
        /\ today < LastDay /\ today' = today + 1 /\ counted' = counted \union {today + 1}
    BY DEF NewDay
  <1>2. /\ UpkeepTypes /\ PurgeIsOnCourse /\ DaysAreInOrder /\ NoDayIsSkipped BY DEF UpkeepInv
  <1>3. /\ today \in Nat /\ KeptDays \in Nat \ {0} /\ LastDay \in Nat /\ FirstDay \in Nat
        /\ marker \in Nat \union {-1} /\ first \in Nat /\ counted \subseteq Nat
    BY <1>2, UpkeepAssumption DEF UpkeepTypes
  <1>4. PurgeIsOnCourse' BY <1>1, <1>2 DEF PurgeIsOnCourse, Emptied, Full
  <1>5. DaysAreInOrder' BY <1>1, <1>2, <1>3 DEF DaysAreInOrder
  <1>6. NoDayIsSkipped' BY <1>1, <1>2, <1>3 DEF NoDayIsSkipped, DaysAreInOrder
  <1>7. {today', first'} \subseteq Nat /\ counted' \subseteq Nat BY <1>1, <1>3
  <1> QED BY <1>1, <1>2, <1>3, <1>4, <1>5, <1>6, <1>7, PurgeKeeps DEF UpkeepTypes, PurgeRow
-----------------------------------------------------------------------------
\* It holds at the start: no run yet, the window full of counters.
LEMMA UpkeepInitInv == UpkeepInit => UpkeepInv
  <1> SUFFICES ASSUME UpkeepInit PROVE UpkeepInv
    OBVIOUS
  <1>1. PICK size \in [Pictures -> Sizes] :
          worker = [r \in Pictures |-> [step |-> "queued", attempt |-> 0, size |-> size[r]]]
    BY DEF UpkeepInit
  <1>2. /\ content = [r \in Stored |-> [body |-> TRUE, file |-> FALSE,
                     meta |-> IF r \in Pictures THEN "fresh" ELSE "none"]]
        /\ aged = {} /\ restored = {}
        /\ purge = [step |-> "idle", pass |-> 0, batch |-> {}, due |-> {}, truncated |-> FALSE]
        /\ today = FirstDay /\ marker = -1 /\ first = 0 /\ counted = 0..FirstDay
    BY DEF UpkeepInit
  <1>3. /\ MaxAttempts \in Nat \ {0} /\ KeptDays \in Nat \ {0} /\ FirstDay \in Nat /\ LastDay \in Nat
        /\ 2 * KeptDays < FirstDay /\ FirstDay <= LastDay
    BY UpkeepAssumption
  <1>4. UpkeepTypes
    <2>1. content \in [Stored -> [body : BOOLEAN, meta : Metas, file : BOOLEAN]]
      BY <1>2 DEF Metas
    <2>2. worker \in [Pictures -> [step : WorkerSteps, attempt : Nat, size : Sizes]]
      BY <1>1 DEF WorkerSteps
    <2>3. purge \in [step : PurgeSteps, pass : Nat, batch : SUBSET Stored, due : SUBSET Stored,
                     truncated : BOOLEAN]
      BY <1>2 DEF PurgeSteps
    <2> QED BY <1>2, <1>3, <2>1, <2>2, <2>3 DEF UpkeepTypes
  <1>5. FilesAreWhole BY <1>1, <1>2, <1>3, UpkeepAssumption DEF FilesAreWhole
  <1>6. EmptiedStaysEmpty BY <1>2 DEF EmptiedStaysEmpty
  <1>7. PurgeIsOnCourse BY <1>2 DEF PurgeIsOnCourse
  <1>8. DaysAreInOrder /\ NoDayIsSkipped BY <1>2, <1>3 DEF DaysAreInOrder, NoDayIsSkipped
  <1> QED BY <1>4, <1>5, <1>6, <1>7, <1>8 DEF UpkeepInv

\* Every step keeps it.
LEMMA UpkeepNextInv == UpkeepInv /\ [UpkeepNext]_upkeepVars => UpkeepInv'
  <1> SUFFICES ASSUME UpkeepInv, [UpkeepNext]_upkeepVars PROVE UpkeepInv'
    OBVIOUS
  <1>1. CASE UNCHANGED upkeepVars
    <2>1. /\ UNCHANGED <<content, worker, restored, dropped, aged, purge>>
          /\ UNCHANGED <<today, marker, counted, first, leaked>>
      BY <1>1 DEF upkeepVars
    <2>2. PurgeIsOnCourse' BY <2>1 DEF UpkeepInv, PurgeIsOnCourse, Emptied, Full
    <2>3. DaysAreInOrder' /\ NoDayIsSkipped' BY <2>1, CalendarStays DEF UpkeepInv
    <2> QED BY <2>1, <2>2, <2>3, PurgeKeeps DEF UpkeepInv, UpkeepTypes, PurgeRow
  <1> QED BY <1>1, ReadsKeeps, FailsKeeps, DownloadsKeeps, StoresKeeps, GivesUpKeeps, AgeKeeps,
             PurgeStartsKeeps, PurgeReadsKeeps, PurgeWritesKeeps, PurgeDiesKeeps, PurgeMetricsKeeps,
             NewDayKeeps DEF UpkeepNext

\* It holds however the worker, the purge and the calendar interleave.
THEOREM UpkeepInvariant == UpkeepSpec => []UpkeepInv
  <1> QED BY UpkeepInitInv, UpkeepNextInv, PTL DEF UpkeepSpec

\* Types: contents, attempts within their number, the marker in the calendar.
THEOREM UpkeepIsTyped == UpkeepSpec => []UpkeepTypeOK
  <1>1. UpkeepInv => UpkeepTypeOK
    BY UpkeepAssumption DEF UpkeepInv, UpkeepTypes, FilesAreWhole, DaysAreInOrder, UpkeepTypeOK
  <1> QED BY <1>1, UpkeepInvariant, PTL

\* A purge that does not say it was cut short has emptied what was due, a
\* picture is told true, an emptied message stays so but for a late worker, and
\* the marker passes no day, for every batch, window and number of passes.
THEOREM UpkeepTold == UpkeepSpec => []UpkeepIsHonest
  <1>1. UpkeepInv => UpkeepIsHonest
    BY DEF UpkeepInv, UpkeepIsHonest, PurgeIsHonest, PurgeIsOnCourse, Emptied, PicturesAreTold,
           FilesAreWhole
  <1> QED BY <1>1, UpkeepInvariant, PTL
-----------------------------------------------------------------------------
(***************************************************************************)
(* Erasure: the inductive invariant.                                       *)
(***************************************************************************)
Rows == Threads \union Messages \union Others
EraserSteps == {"threads", "texts", "others", "counted", "destroyMessages", "destroyThreads",
                "destroyOthers", "listed", "clean", "reset", "done", "failed"}
Asked == [step : EraserSteps, dry : BOOLEAN, round : Nat, before : SUBSET Rows,
          list : SUBSET Rows]

ErasureTypes ==
    /\ present \subseteq used /\ used \subseteq Rows
    /\ homeOf \in [Messages -> Messages \union Threads]
    /\ consent \in ConsentEvents \union {NoEvent} /\ latest \in ConsentEvents \union {NoEvent}
    /\ latest \in used \union {NoEvent}
    /\ eraser \in [Erasers -> {NotAsked} \union Asked]
    /\ receipts \subseteq Erasers /\ lapses \in Nat /\ overtaken \subseteq ConsentEvents

\* Of a request that lists: what it began with and has not listed yet is of a
\* kind it has still to list, and what it did not find was decided since.
SeesAll(e) ==
    eraser[e] # NotAsked =>
    /\ eraser[e].before \subseteq used
    /\ \A m \in eraser[e].before \intersect present \intersect Messages :
           homeOf[m] \in eraser[e].before
    /\ eraser[e].step = "texts" =>
           eraser[e].before \intersect present \intersect Threads \subseteq eraser[e].list
    /\ eraser[e].step = "others" => eraser[e].before \intersect present \subseteq eraser[e].list \union Others
    /\ eraser[e].step = "listed" => eraser[e].before \intersect present \subseteq eraser[e].list
    /\ eraser[e].step \in {"clean", "reset", "done"} => eraser[e].before \intersect present = {}
    /\ eraser[e].step = "clean" => eraser[e].list = {}
    /\ eraser[e].step \in {"listed", "clean"} /\ eraser[e].list = {} =>
           present \intersect ConsentEvents \subseteq overtaken

\* A dry run destroys nothing.
DryIsDry(e) ==
    eraser[e] # NotAsked =>
    /\ eraser[e].round # 0 => ~eraser[e].dry
    /\ eraser[e].step \in {"destroyMessages", "destroyThreads", "destroyOthers", "listed",
                           "clean", "reset", "done"} => ~eraser[e].dry

\* A message has its conversation.
Housed == \A m \in present \intersect Messages : homeOf[m] \in present \intersect Threads

\* A request that has destroyed and not reset the consent yet.
Owes(e) ==
    /\ eraser[e] # NotAsked /\ ~eraser[e].dry
    /\ eraser[e].step \notin {"counted", "reset", "done"}

ErasureInv ==
    /\ ErasureTypes /\ Housed
    /\ \A e \in Erasers : SeesAll(e) /\ DryIsDry(e)
    /\ \A e \in receipts : eraser[e].step = "done" /\ ~eraser[e].dry
    /\ consent \in present \union {NoEvent} \/ \E e \in Erasers : Owes(e)
    /\ latest \in present => consent = latest \/ latest \in overtaken
-----------------------------------------------------------------------------
\* Only the request that acts changes, and it is one that was asked.
OnlyOne(e) ==
    /\ eraser[e] \in Asked /\ eraser'[e] \in Asked
    /\ eraser' \in [Erasers -> {NotAsked} \union Asked]
    /\ \A x \in Erasers : x # e => eraser'[x] = eraser[x]

\* A request that was asked has all its fields.
LEMMA AskedOrNot ==
    ASSUME ErasureTypes, NEW e \in Erasers
    PROVE  /\ eraser[e].step = "none" <=> eraser[e] = NotAsked
           /\ eraser[e].step # "none" => eraser[e] \in Asked
           /\ NotAsked.step = "none" /\ NotAsked \notin Asked
  BY DEF ErasureTypes, Asked, NotAsked, EraserSteps

\* A step to a named step of the request changes nothing else of it.
LEMMA StepsToEffect ==
    ASSUME ErasureTypes, NEW e \in Erasers, eraser[e].step # "none",
           NEW s \in EraserSteps, StepsTo(e, s)
    PROVE  /\ OnlyOne(e) /\ eraser'[e].step = s
           /\ eraser'[e].dry = eraser[e].dry /\ eraser'[e].round = eraser[e].round
           /\ eraser'[e].before = eraser[e].before /\ eraser'[e].list = eraser[e].list
  <1>1. eraser[e] \in Asked BY AskedOrNot
  <1>2. eraser' = [eraser EXCEPT ![e] = [eraser[e] EXCEPT !.step = s]]
    BY DEF StepsTo
  <1>3. [eraser[e] EXCEPT !.step = s] \in Asked BY <1>1 DEF Asked
  <1> QED BY <1>1, <1>2, <1>3 DEF OnlyOne, ErasureTypes, Asked

\* A request with the fields changed that a listing changes, or a destruction.
AsListed(r, before, list, step) ==
    [[[r EXCEPT !.before = before] EXCEPT !.list = list] EXCEPT !.step = step]
AsDestroyed(r, step, list, round) ==
    [[[r EXCEPT !.step = step] EXCEPT !.list = list] EXCEPT !.round = round]

\* Three fields of a request change, and the others stay.
LEMMA ListedRow ==
    ASSUME NEW r \in Asked, NEW before \in SUBSET Rows, NEW list \in SUBSET Rows,
           NEW step \in EraserSteps
    PROVE  LET row == AsListed(r, before, list, step)
           IN /\ row \in Asked /\ row.step = step /\ row.before = before /\ row.list = list
              /\ row.dry = r.dry /\ row.round = r.round
  <1> DEFINE one == [r EXCEPT !.before = before]
             two == [one EXCEPT !.list = list]
             row == [two EXCEPT !.step = step]
  <1>1. /\ one \in Asked /\ one.before = before /\ one.dry = r.dry /\ one.round = r.round
    BY DEF Asked
  <1> HIDE DEF one
  <1>2. /\ two \in Asked /\ two.before = one.before /\ two.dry = one.dry /\ two.round = one.round
        /\ two.list = list
    BY <1>1 DEF Asked
  <1> HIDE DEF two
  <1>3. /\ row \in Asked /\ row.before = two.before /\ row.dry = two.dry /\ row.round = two.round
        /\ row.list = two.list /\ row.step = step
    BY <1>2 DEF Asked
  <1>4. /\ row \in Asked /\ row.step = step /\ row.before = before /\ row.list = list
        /\ row.dry = r.dry /\ row.round = r.round
    <2> HIDE DEF row
    <2> QED BY <1>1, <1>2, <1>3
  <1> QED BY <1>4 DEF one, two, AsListed

\* Three other fields of a request change, and the others stay.
LEMMA DestroyedRow ==
    ASSUME NEW r \in Asked, NEW round \in Nat, NEW list \in SUBSET Rows, NEW step \in EraserSteps
    PROVE  LET row == AsDestroyed(r, step, list, round)
           IN /\ row \in Asked /\ row.step = step /\ row.before = r.before /\ row.list = list
              /\ row.dry = r.dry /\ row.round = round
  <1> DEFINE one == [r EXCEPT !.step = step]
             two == [one EXCEPT !.list = list]
             row == [two EXCEPT !.round = round]
  <1>1. /\ one \in Asked /\ one.before = r.before /\ one.dry = r.dry /\ one.step = step
    BY DEF Asked
  <1> HIDE DEF one
  <1>2. /\ two \in Asked /\ two.before = one.before /\ two.dry = one.dry /\ two.step = one.step
        /\ two.list = list
    BY <1>1 DEF Asked
  <1> HIDE DEF two
  <1>3. /\ row \in Asked /\ row.before = two.before /\ row.dry = two.dry /\ row.step = two.step
        /\ row.list = two.list /\ row.round = round
    BY <1>2 DEF Asked
  <1>4. /\ row \in Asked /\ row.step = step /\ row.before = r.before /\ row.list = list
        /\ row.dry = r.dry /\ row.round = round
    <2> HIDE DEF row
    <2> QED BY <1>1, <1>2, <1>3, SMTT(20)
  <1> QED BY <1>4 DEF one, two, AsDestroyed

\* The effect of a listing on the request that lists.
LEMMA ListRowsEffect ==
    ASSUME ErasureTypes, NEW e \in Erasers, ListRows(e)
    PROVE  /\ OnlyOne(e)
           /\ eraser'[e].dry = eraser[e].dry /\ eraser'[e].round = eraser[e].round
           /\ \/ /\ eraser[e].step = "threads" /\ eraser'[e].step = "texts"
                 /\ eraser'[e].before = present
                 /\ eraser'[e].list = eraser[e].list \union (present \intersect Threads)
              \/ /\ eraser[e].step = "texts" /\ eraser'[e].step = "others"
                 /\ eraser'[e].before = eraser[e].before
                 /\ eraser'[e].list = eraser[e].list
                      \union {m \in present \intersect Messages : homeOf[m] \in eraser[e].list}
              \/ /\ eraser[e].step = "others" /\ eraser'[e].before = eraser[e].before
                 /\ eraser'[e].list = eraser[e].list \union (present \intersect Others)
                 /\ eraser[e].dry => eraser'[e].step = "counted"
                 /\ ~eraser[e].dry => eraser'[e].step = IF eraser[e].round = 0
                                                        THEN "destroyMessages" ELSE "listed"
  <1> DEFINE now == eraser[e].step
             found == CASE now = "threads" -> present \intersect Threads
                   [] now = "texts"   -> {m \in present \intersect Messages : homeOf[m] \in eraser[e].list}
                   [] now = "others"  -> present \intersect Others
             list == eraser[e].list \union found
             before == IF now = "threads" THEN present ELSE eraser[e].before
             next == CASE now = "threads" -> "texts"
                            [] now = "texts" -> "others"
                            [] now = "others" /\ eraser[e].dry -> "counted"
                            [] now = "others" /\ ~eraser[e].dry /\ eraser[e].round = 0 -> "destroyMessages"
                            [] OTHER -> "listed"
             row == AsListed(eraser[e], before, list, next)
  <1>1. eraser[e] \in Asked BY AskedOrNot DEF ListRows
  <1>2. now \in {"threads", "texts", "others"} BY DEF ListRows
  <1>3. eraser' = [eraser EXCEPT ![e].before = before, ![e].list = list, ![e].step = next]
    BY <1>1 DEF ListRows, Listed
  <1>4. found \subseteq Rows
    <2>1. present \subseteq Rows BY DEF ErasureTypes
    <2> QED BY <1>2, <2>1 DEF Rows
  <1>5. before \subseteq Rows /\ list \subseteq Rows
    BY <1>1, <1>4 DEF ErasureTypes, Asked
  <1>6. next \in EraserSteps BY <1>2 DEF EraserSteps
  <1>7. /\ row \in Asked /\ row.step = next /\ row.before = before /\ row.list = list
        /\ row.dry = eraser[e].dry /\ row.round = eraser[e].round
    <2> HIDE DEF before, list, next
    <2> QED BY <1>1, <1>5, <1>6, ListedRow
  <1>8. eraser' = [eraser EXCEPT ![e] = row]
    BY <1>3 DEF ErasureTypes, AsListed
  <1>9. eraser'[e] = row /\ OnlyOne(e)
    <2> HIDE DEF row
    <2> QED BY <1>1, <1>7, <1>8 DEF ErasureTypes, OnlyOne
  <1>10. /\ eraser'[e].step = next /\ eraser'[e].before = before /\ eraser'[e].list = list
         /\ eraser'[e].dry = eraser[e].dry /\ eraser'[e].round = eraser[e].round
    <2> HIDE DEF row, next, before, list
    <2> QED BY <1>7, <1>9
  <1>11. eraser[e].dry \in BOOLEAN BY <1>1 DEF Asked
  <1> QED BY <1>2, <1>9, <1>10, <1>11

\* The effect of a destruction on the request.
LEMMA DestroyEffect ==
    ASSUME ErasureTypes, NEW e \in Erasers, Destroy(e)
    PROVE  /\ OnlyOne(e)
           /\ eraser[e].step \in {"destroyMessages", "destroyThreads", "destroyOthers"}
           /\ eraser'[e].dry = eraser[e].dry
           /\ eraser'[e].before = eraser[e].before
           /\ eraser'[e].step \in {"destroyThreads", "destroyOthers", "threads"}
  <1> DEFINE last == eraser[e].step = "destroyOthers"
             list == IF last THEN {} ELSE eraser[e].list
             round == IF last THEN eraser[e].round + 1 ELSE eraser[e].round
             step == AfterThat[eraser[e].step]
             row == AsDestroyed(eraser[e], step, list, round)
  <1>1. eraser[e].step \in {"destroyMessages", "destroyThreads", "destroyOthers"}
    BY DEF Destroy, Destroyed
  <1>2. eraser[e] \in Asked BY <1>1, AskedOrNot
  <1>3. AfterThat[eraser[e].step] \in {"destroyThreads", "destroyOthers", "threads"}
    BY <1>1 DEF AfterThat
  <1>4. /\ row \in Asked /\ row.step = step /\ row.before = eraser[e].before /\ row.list = list
        /\ row.dry = eraser[e].dry
    <2>1. list \in SUBSET Rows /\ round \in Nat BY <1>2 DEF Asked
    <2>2. step \in EraserSteps BY <1>3 DEF EraserSteps
    <2> HIDE DEF list, round, step
    <2> QED BY <1>2, <2>1, <2>2, DestroyedRow
  <1>5. eraser' = [eraser EXCEPT ![e] = row]
    BY <1>2 DEF Destroy, ErasureTypes, AsDestroyed
  <1>6. eraser'[e] = row /\ OnlyOne(e)
    <2> HIDE DEF row
    <2> QED BY <1>2, <1>4, <1>5 DEF ErasureTypes, OnlyOne
  <1>7. eraser'[e].dry = eraser[e].dry /\ eraser'[e].before = eraser[e].before
        /\ eraser'[e].step = step
    <2> HIDE DEF row, step
    <2> QED BY <1>4, <1>6
  <1> QED BY <1>1, <1>3, <1>6, <1>7


-----------------------------------------------------------------------------
\* What a request has seen it goes on seeing while others destroy rows and new
\* ones come.
LEMMA StaysSeen ==
    ASSUME ErasureTypes, NEW x \in Erasers, SeesAll(x), eraser'[x] = eraser[x],
           used \subseteq used', present' \intersect used \subseteq present,
           \A m \in used \intersect Messages : homeOf'[m] = homeOf[m],
           overtaken \subseteq overtaken',
           eraser[x].step \in {"listed", "clean"} /\ eraser[x].list = {} =>
               (present' \ present) \intersect ConsentEvents \subseteq overtaken'
    PROVE  SeesAll(x)'
  BY DEF SeesAll, ErasureTypes

\* The claims of a request that stays as it is.
LEMMA StaysDry ==
    ASSUME NEW x \in Erasers, DryIsDry(x), eraser'[x] = eraser[x]
    PROVE  DryIsDry(x)'
  BY DEF DryIsDry

\* A new conversation, recipient or message.
LEMMA NewRowKeeps ==
    ASSUME ErasureInv, NEW row \in Rows, Fresh(row), present' = present \union {row},
           UNCHANGED <<consent, latest, eraser, receipts, lapses, overtaken>>,
           \/ row \notin Messages /\ homeOf' = homeOf
           \/ \E t \in present \intersect Threads :
                 row \in Messages /\ homeOf' = [homeOf EXCEPT ![row] = t],
           row \notin ConsentEvents
    PROVE  ErasureInv'
  <1>1. ErasureTypes'
    BY DEF ErasureInv, ErasureTypes, Fresh
  <1>2. Housed' BY DEF ErasureInv, ErasureTypes, Housed, Fresh
  <1>3. ASSUME NEW x \in Erasers PROVE SeesAll(x)' /\ DryIsDry(x)'
    <2>1. ErasureTypes /\ SeesAll(x) /\ DryIsDry(x) /\ eraser'[x] = eraser[x] BY DEF ErasureInv
    <2>2. used \subseteq used' /\ present' \intersect used \subseteq present BY <2>1 DEF Fresh, ErasureTypes
    <2>3. \A m \in used \intersect Messages : homeOf'[m] = homeOf[m]
      BY <2>1 DEF Fresh, ErasureTypes
    <2>4. overtaken \subseteq overtaken' /\ (present' \ present) \intersect ConsentEvents = {}
      OBVIOUS
    <2> QED BY <2>1, <2>2, <2>3, <2>4, StaysSeen, StaysDry
  <1>4. (\A e \in receipts : eraser[e].step = "done" /\ ~eraser[e].dry)' BY DEF ErasureInv
  <1>5. (consent \in present \union {NoEvent} \/ \E e \in Erasers : Owes(e))'
    BY DEF ErasureInv, Owes
  <1>6. (latest \in present => consent = latest \/ latest \in overtaken)'
    BY ErasureAssumption DEF ErasureInv, ErasureTypes, Fresh, Rows, Others
  <1> QED BY <1>1, <1>2, <1>3, <1>4, <1>5, <1>6 DEF ErasureInv

\* A decision on the consent.
LEMMA DecideKeeps ==
    ASSUME ErasureInv, NEW d \in ConsentEvents, Decide(d)
    PROVE  ErasureInv'
  <1>1. /\ ErasureTypes /\ Housed /\ d \in Rows
        /\ d \notin used /\ used' = used \union {d} /\ present' = present \union {d}
        /\ consent' = d /\ latest' = d
        /\ homeOf' = homeOf /\ eraser' = eraser /\ receipts' = receipts /\ lapses' = lapses
    BY DEF ErasureInv, Decide, Fresh, Rows, Others
  <1>2. overtaken' = IF \E e \in Erasers : eraser[e].step \in {"listed", "clean"} /\ eraser[e].list = {}
                     THEN overtaken \union {d} ELSE overtaken
    BY DEF Decide
  <1>3. ErasureTypes' BY <1>1, <1>2 DEF ErasureTypes
  <1>4. Housed' BY <1>1, ErasureAssumption DEF Housed
  <1>5. ASSUME NEW x \in Erasers PROVE SeesAll(x)' /\ DryIsDry(x)'
    <2>1. SeesAll(x) /\ DryIsDry(x) /\ eraser'[x] = eraser[x] BY <1>1 DEF ErasureInv
    <2>2. used \subseteq used' /\ present' \intersect used \subseteq present /\ overtaken \subseteq overtaken'
      BY <1>1, <1>2 DEF ErasureTypes
    <2>3. \A m \in used \intersect Messages : homeOf'[m] = homeOf[m] BY <1>1
    <2>4. eraser[x].step \in {"listed", "clean"} /\ eraser[x].list = {} =>
             (present' \ present) \intersect ConsentEvents \subseteq overtaken'
      BY <1>1, <1>2
    <2> QED BY <1>1, <2>1, <2>2, <2>3, <2>4, StaysSeen, StaysDry
  <1>6. (\A e \in receipts : eraser[e].step = "done" /\ ~eraser[e].dry)' BY <1>1 DEF ErasureInv
  <1> QED BY <1>1, <1>3, <1>4, <1>5, <1>6 DEF ErasureInv
-----------------------------------------------------------------------------
\* A step of one request that changes no row: the conjuncts about the others.
LEMMA RequestKeeps ==
    ASSUME ErasureInv, NEW e \in Erasers, OnlyOne(e), SeesAll(e)', DryIsDry(e)',
           UNCHANGED <<used, homeOf, latest, overtaken>>, present' \subseteq present, Housed',
           consent' \in ConsentEvents \union {NoEvent}, receipts' \subseteq Erasers, lapses' \in Nat,
           \A x \in receipts' : eraser'[x].step = "done" /\ ~eraser'[x].dry,
           \/ consent' = NoEvent
           \/ consent' = consent /\ (Owes(e) => Owes(e)') /\ (present' = present \/ Owes(e)'),
           latest \in present' => consent' = latest \/ latest \in overtaken
    PROVE  ErasureInv'
  <1>1. ErasureTypes' BY DEF ErasureInv, ErasureTypes, OnlyOne
  <1>2. ASSUME NEW x \in Erasers PROVE SeesAll(x)' /\ DryIsDry(x)'
    <2>1. CASE x = e BY <2>1
    <2>2. CASE x # e
      <3>1. eraser'[x] = eraser[x] BY <2>2 DEF OnlyOne
      <3>2. ErasureTypes /\ SeesAll(x) /\ DryIsDry(x) BY DEF ErasureInv
      <3> QED BY <3>1, <3>2, StaysSeen, StaysDry
    <2> QED BY <2>1, <2>2
  <1>3. (consent \in present \union {NoEvent} \/ \E x \in Erasers : Owes(x))'
    <2>1. CASE consent' = NoEvent BY <2>1
    <2>2. CASE consent' = consent /\ Owes(e)' BY <2>2
    <2>3. CASE consent' = consent /\ present' = present /\ (Owes(e) => Owes(e)')
      <3>1. \A x \in Erasers : Owes(x) => Owes(x)' BY <2>3 DEF Owes, OnlyOne
      <3> QED BY <2>3, <3>1 DEF ErasureInv
    <2> QED BY <2>1, <2>2, <2>3
  <1> QED BY <1>1, <1>2, <1>3 DEF ErasureInv

\* The receipts of the others stand while a request goes on.
LEMMA ReceiptsStand ==
    ASSUME ErasureInv, NEW e \in Erasers, OnlyOne(e), eraser[e].step # "done", receipts' = receipts
    PROVE  \A x \in receipts' : eraser'[x].step = "done" /\ ~eraser'[x].dry
  BY DEF ErasureInv, ErasureTypes, OnlyOne

\* A new request.
LEMMA AskKeeps ==
    ASSUME ErasureInv, NEW e \in Erasers, AskToErase(e)
    PROVE  ErasureInv'
  <1>1. PICK dry \in BOOLEAN : eraser' = [eraser EXCEPT ![e] =
             [step |-> "threads", dry |-> dry, round |-> 0, before |-> present, list |-> {}]]
    BY DEF AskToErase
  <1> DEFINE row == [step |-> "threads", dry |-> dry, round |-> 0, before |-> present, list |-> {}]
  <1>2. eraser[e] = NotAsked /\ UNCHANGED <<present, used, homeOf, consent, latest, receipts, lapses, overtaken>>
    BY DEF AskToErase
  <1>3. row \in Asked BY DEF ErasureInv, ErasureTypes, Asked, EraserSteps
  <1>4. /\ eraser'[e] = row /\ eraser' \in [Erasers -> {NotAsked} \union Asked]
        /\ \A x \in Erasers : x # e => eraser'[x] = eraser[x]
    <2> HIDE DEF row
    <2> QED BY <1>1, <1>3 DEF ErasureInv, ErasureTypes, row
  <1>5. eraser'[e].step = "threads" /\ eraser'[e].round = 0 /\ eraser'[e].before = present
    BY <1>4
  <1>6. ErasureTypes' BY <1>2, <1>4 DEF ErasureInv, ErasureTypes
  <1>7. ASSUME NEW x \in Erasers PROVE SeesAll(x)' /\ DryIsDry(x)'
    <2>1. CASE x = e
      BY <1>2, <1>5, <2>1 DEF SeesAll, DryIsDry, ErasureInv, ErasureTypes, Housed
    <2>2. CASE x # e
      <3>1. eraser'[x] = eraser[x] BY <1>4, <2>2
      <3>2. ErasureTypes /\ SeesAll(x) /\ DryIsDry(x) BY DEF ErasureInv
      <3> QED BY <1>2, <3>1, <3>2, StaysSeen, StaysDry
    <2> QED BY <2>1, <2>2
  <1>8. (\A x \in receipts : eraser[x].step = "done" /\ ~eraser[x].dry)'
    <2>1. e \notin receipts BY <1>2 DEF ErasureInv, NotAsked
    <2> QED BY <1>2, <1>4, <2>1 DEF ErasureInv, ErasureTypes
  <1>9. (consent \in present \union {NoEvent} \/ \E x \in Erasers : Owes(x))'
    <2>1. ~Owes(e) BY <1>2 DEF Owes
    <2>2. \A x \in Erasers : Owes(x) => Owes(x)' BY <1>4, <2>1 DEF Owes
    <2> QED BY <1>2, <2>2 DEF ErasureInv
  <1>10. Housed' /\ (latest \in present => consent = latest \/ latest \in overtaken)'
    BY <1>2 DEF ErasureInv, Housed
  <1> QED BY <1>6, <1>7, <1>8, <1>9, <1>10 DEF ErasureInv

\* A listing: conversations, their messages, the rest.
LEMMA ListKeeps ==
    ASSUME ErasureInv, NEW e \in Erasers, ListRows(e)
    PROVE  ErasureInv'
  <1>1. UNCHANGED <<present, used, homeOf, consent, latest, receipts, lapses, overtaken>>
    BY DEF ListRows
  <1>2. /\ ErasureTypes /\ Housed /\ SeesAll(e) /\ DryIsDry(e)
        /\ eraser[e].step \in {"threads", "texts", "others"} /\ eraser[e] # NotAsked
    BY AskedOrNot DEF ErasureInv, ListRows
  <1>3. OnlyOne(e) /\ eraser'[e].dry = eraser[e].dry /\ eraser'[e].round = eraser[e].round
    BY <1>2, ListRowsEffect
  <1>4. eraser'[e].dry \in BOOLEAN /\ eraser'[e].round \in Nat /\ eraser'[e] # NotAsked
    BY <1>3, <1>2, AskedOrNot DEF OnlyOne, Asked
  <1>5. CASE /\ eraser[e].step = "threads" /\ eraser'[e].step = "texts"
             /\ eraser'[e].before = present
             /\ eraser'[e].list = eraser[e].list \union (present \intersect Threads)
    <2>1. SeesAll(e)' BY <1>1, <1>2, <1>5 DEF SeesAll, ErasureTypes, Housed
    <2>2. DryIsDry(e)' BY <1>2, <1>3, <1>5 DEF DryIsDry
    <2>3. Owes(e) => Owes(e)' BY <1>3, <1>4, <1>5 DEF Owes
    <2> QED BY <1>1, <1>2, <1>3, <1>5, <2>1, <2>2, <2>3, RequestKeeps, ReceiptsStand
            DEF ErasureInv, ErasureTypes, Housed
  <1>6. CASE /\ eraser[e].step = "texts" /\ eraser'[e].step = "others"
             /\ eraser'[e].before = eraser[e].before
             /\ eraser'[e].list = eraser[e].list
                  \union {m \in present \intersect Messages : homeOf[m] \in eraser[e].list}
    <2>1. eraser[e].before \intersect present \subseteq eraser'[e].list \union Others
      <3> SUFFICES ASSUME NEW r \in eraser[e].before \intersect present, r \notin Others
                   PROVE  r \in eraser'[e].list
        OBVIOUS
      <3>1. CASE r \in Threads BY <1>2, <1>6, <3>1 DEF SeesAll
      <3>2. CASE r \in Messages
        <4>1. homeOf[r] \in eraser[e].before \intersect present \intersect Threads
          BY <1>2, <3>2 DEF SeesAll, Housed
        <4>2. homeOf[r] \in eraser[e].list BY <1>2, <1>6, <4>1 DEF SeesAll
        <4> QED BY <1>6, <3>2, <4>2
      <3> QED BY <1>2, <3>1, <3>2 DEF ErasureTypes, Rows
    <2>2. SeesAll(e)' BY <1>1, <1>2, <1>6, <2>1 DEF SeesAll
    <2>3. DryIsDry(e)' BY <1>2, <1>3, <1>6 DEF DryIsDry
    <2>4. Owes(e) => Owes(e)' BY <1>3, <1>4, <1>6 DEF Owes
    <2> QED BY <1>1, <1>2, <1>3, <1>6, <2>2, <2>3, <2>4, RequestKeeps, ReceiptsStand
            DEF ErasureInv, ErasureTypes, Housed
  <1>7. CASE /\ eraser[e].step = "others" /\ eraser'[e].before = eraser[e].before
             /\ eraser'[e].list = eraser[e].list \union (present \intersect Others)
             /\ eraser[e].dry => eraser'[e].step = "counted"
             /\ ~eraser[e].dry => eraser'[e].step = IF eraser[e].round = 0
                                                    THEN "destroyMessages" ELSE "listed"
    <2>1. SeesAll(e)'
      BY <1>1, <1>2, <1>3, <1>4, <1>7 DEF SeesAll, Others
    <2>2. DryIsDry(e)' BY <1>2, <1>3, <1>4, <1>7 DEF DryIsDry
    <2>3. Owes(e) => Owes(e)' BY <1>3, <1>4, <1>7 DEF Owes
    <2> QED BY <1>1, <1>2, <1>3, <1>7, <2>1, <2>2, <2>3, RequestKeeps, ReceiptsStand
            DEF ErasureInv, ErasureTypes, Housed
  <1> QED BY <1>2, <1>5, <1>6, <1>7, ListRowsEffect

\* A destruction takes whole conversations.
LEMMA DestroyKeeps ==
    ASSUME ErasureInv, NEW e \in Erasers, Destroy(e)
    PROVE  ErasureInv'
  <1> DEFINE rows == eraser[e].list \intersect Destroyed[eraser[e].step]
  <1>1. /\ UNCHANGED <<used, homeOf, consent, latest, receipts, lapses, overtaken>>
        /\ present' = present \ WithTheirMessages(rows)
    BY DEF Destroy
  <1>2. ErasureTypes /\ Housed /\ SeesAll(e) /\ DryIsDry(e) BY DEF ErasureInv
  <1>3. /\ OnlyOne(e)
        /\ eraser[e].step \in {"destroyMessages", "destroyThreads", "destroyOthers"}
        /\ eraser'[e].dry = eraser[e].dry /\ eraser'[e].before = eraser[e].before
        /\ eraser'[e].step \in {"destroyThreads", "destroyOthers", "threads"}
    BY <1>2, DestroyEffect
  <1>4. eraser[e] # NotAsked /\ eraser'[e] # NotAsked BY <1>2, <1>3, AskedOrNot DEF OnlyOne
  <1>5. present' \subseteq present BY <1>1
  <1>6. Housed'
    <2> SUFFICES ASSUME NEW m \in present' \intersect Messages
                 PROVE  homeOf[m] \in present' \intersect Threads
      BY <1>1 DEF Housed
    <2>1. m \in present \intersect Messages /\ m \notin WithTheirMessages(rows) BY <1>1
    <2>2. homeOf[m] \in present \intersect Threads /\ homeOf[m] \notin rows
      BY <1>2, <2>1 DEF Housed, WithTheirMessages
    <2>3. homeOf[m] \notin Messages BY <2>2, ErasureAssumption
    <2> HIDE DEF rows
    <2> QED BY <1>1, <2>2, <2>3 DEF WithTheirMessages
  <1>7. ~eraser[e].dry /\ Owes(e)' BY <1>2, <1>3, <1>4 DEF DryIsDry, Owes
  <1>8. SeesAll(e)' BY <1>1, <1>2, <1>3, <1>4, <1>5 DEF SeesAll
  <1>9. DryIsDry(e)' BY <1>3, <1>7 DEF DryIsDry
  <1> QED BY <1>1, <1>2, <1>3, <1>5, <1>6, <1>7, <1>8, <1>9, RequestKeeps, ReceiptsStand
          DEF ErasureInv, ErasureTypes

\* The judgement of a listing: nothing left, once more, or too often.
LEMMA JudgeKeeps ==
    ASSUME ErasureInv, NEW e \in Erasers, Judge(e)
    PROVE  ErasureInv'
  <1> DEFINE next == IF MayFinish(e) THEN "clean"
                     ELSE IF eraser[e].round < ErasureRounds THEN "destroyMessages" ELSE "failed"
  <1>1. /\ UNCHANGED <<present, used, homeOf, consent, latest, receipts, lapses, overtaken>>
        /\ eraser[e].step = "listed" /\ StepsTo(e, next)
    BY DEF Judge
  <1>2. ErasureTypes /\ Housed /\ SeesAll(e) /\ DryIsDry(e) BY DEF ErasureInv
  <1>3. next \in EraserSteps BY DEF EraserSteps
  <1>4. /\ OnlyOne(e) /\ eraser'[e].step = next
        /\ eraser'[e].dry = eraser[e].dry /\ eraser'[e].round = eraser[e].round
        /\ eraser'[e].before = eraser[e].before /\ eraser'[e].list = eraser[e].list
    <2> HIDE DEF next
    <2> QED BY <1>1, <1>2, <1>3, StepsToEffect
  <1>5. eraser[e] # NotAsked /\ eraser'[e] # NotAsked BY <1>1, <1>2, <1>4, AskedOrNot DEF OnlyOne
  <1>6. ~eraser[e].dry BY <1>1, <1>2, <1>5 DEF DryIsDry
  <1>7. SeesAll(e)' BY <1>1, <1>2, <1>4, <1>5 DEF SeesAll, MayFinish
  <1>8. DryIsDry(e)' BY <1>4, <1>6 DEF DryIsDry
  <1>9. Owes(e)' BY <1>4, <1>5, <1>6 DEF Owes
  <1>10. Housed' BY <1>1, <1>2 DEF Housed
  <1> QED BY <1>1, <1>2, <1>4, <1>7, <1>8, <1>9, <1>10, RequestKeeps, ReceiptsStand
          DEF ErasureInv, ErasureTypes

\* The reset of the consent: what it undoes came after the last listing.
LEMMA ResetKeeps ==
    ASSUME ErasureInv, NEW e \in Erasers, ResetConsent(e)
    PROVE  ErasureInv'
  <1>1. /\ UNCHANGED <<present, used, homeOf, latest, receipts, lapses, overtaken>>
        /\ eraser[e].step = "clean" /\ StepsTo(e, "reset") /\ consent' = NoEvent
    BY DEF ResetConsent
  <1>2. ErasureTypes /\ Housed /\ SeesAll(e) /\ DryIsDry(e) BY DEF ErasureInv
  <1>3. /\ OnlyOne(e) /\ eraser'[e].step = "reset"
        /\ eraser'[e].dry = eraser[e].dry /\ eraser'[e].round = eraser[e].round
        /\ eraser'[e].before = eraser[e].before /\ eraser'[e].list = eraser[e].list
    BY <1>1, <1>2, StepsToEffect DEF EraserSteps
  <1>4. eraser[e] # NotAsked /\ eraser'[e] # NotAsked BY <1>1, <1>2, <1>3, AskedOrNot DEF OnlyOne
  <1>5. SeesAll(e)' BY <1>1, <1>2, <1>3, <1>4 DEF SeesAll
  <1>6. DryIsDry(e)' BY <1>1, <1>2, <1>3, <1>4 DEF DryIsDry
  <1>7. present \intersect ConsentEvents \subseteq overtaken BY <1>1, <1>2, <1>4 DEF SeesAll
  <1>8. latest \in present => latest \in overtaken
    BY <1>2, <1>7, ErasureAssumption DEF ErasureTypes, Rows, Others
  <1>9. Housed' BY <1>1, <1>2 DEF Housed
  <1> QED BY <1>1, <1>2, <1>3, <1>5, <1>6, <1>8, <1>9, RequestKeeps, ReceiptsStand
          DEF ErasureInv, ErasureTypes

\* The receipt.
LEMMA CertifyKeeps ==
    ASSUME ErasureInv, NEW e \in Erasers, Certify(e)
    PROVE  ErasureInv'
  <1>1. /\ UNCHANGED <<present, used, homeOf, consent, latest, overtaken>>
        /\ eraser[e].step = "reset" /\ StepsTo(e, "done")
        /\ receipts' \subseteq receipts \union {e} /\ lapses' \in {lapses, lapses + 1}
    BY DEF Certify
  <1>2. ErasureTypes /\ Housed /\ SeesAll(e) /\ DryIsDry(e) BY DEF ErasureInv
  <1>3. /\ OnlyOne(e) /\ eraser'[e].step = "done"
        /\ eraser'[e].dry = eraser[e].dry /\ eraser'[e].round = eraser[e].round
        /\ eraser'[e].before = eraser[e].before /\ eraser'[e].list = eraser[e].list
    BY <1>1, <1>2, StepsToEffect DEF EraserSteps
  <1>4. eraser[e] # NotAsked /\ eraser'[e] # NotAsked BY <1>1, <1>2, <1>3, AskedOrNot DEF OnlyOne
  <1>5. SeesAll(e)' BY <1>1, <1>2, <1>3, <1>4 DEF SeesAll
  <1>6. ~eraser[e].dry /\ DryIsDry(e)' BY <1>1, <1>2, <1>3, <1>4 DEF DryIsDry
  <1>7. \A x \in receipts' : eraser'[x].step = "done" /\ ~eraser'[x].dry
    BY <1>1, <1>3, <1>6 DEF ErasureInv, ErasureTypes, OnlyOne
  <1>8. Housed' /\ ~Owes(e) BY <1>1, <1>2 DEF Housed, Owes
  <1>9. receipts' \subseteq Erasers /\ lapses' \in Nat BY <1>1, <1>2 DEF ErasureTypes
  <1> QED BY <1>1, <1>2, <1>3, <1>5, <1>6, <1>7, <1>8, <1>9, RequestKeeps
          DEF ErasureInv, ErasureTypes

\* A call that throws ends the request.
LEMMA LapseKeeps ==
    ASSUME ErasureInv, NEW e \in Erasers, Lapse(e)
    PROVE  ErasureInv'
  <1>1. /\ UNCHANGED <<present, used, homeOf, consent, latest, receipts, overtaken>>
        /\ eraser[e].step \notin Ended /\ StepsTo(e, "failed") /\ lapses' = lapses + 1
    BY DEF Lapse
  <1>2. ErasureTypes /\ Housed /\ SeesAll(e) /\ DryIsDry(e) BY DEF ErasureInv
  <1>3. eraser[e].step \notin {"none", "done", "counted"} BY <1>1 DEF Ended
  <1>4. /\ OnlyOne(e) /\ eraser'[e].step = "failed"
        /\ eraser'[e].dry = eraser[e].dry /\ eraser'[e].round = eraser[e].round
        /\ eraser'[e].before = eraser[e].before /\ eraser'[e].list = eraser[e].list
    BY <1>1, <1>2, <1>3, StepsToEffect DEF EraserSteps
  <1>5. eraser[e] # NotAsked /\ eraser'[e] # NotAsked BY <1>2, <1>3, <1>4, AskedOrNot DEF OnlyOne
  <1>6. SeesAll(e)' BY <1>1, <1>2, <1>4, <1>5 DEF SeesAll
  <1>7. DryIsDry(e)' BY <1>2, <1>4, <1>5 DEF DryIsDry
  <1>8. Owes(e) => Owes(e)' BY <1>4, <1>5 DEF Owes
  <1>9. Housed' BY <1>1, <1>2 DEF Housed
  <1>10. lapses' \in Nat BY <1>1, <1>2 DEF ErasureTypes
  <1> QED BY <1>1, <1>2, <1>3, <1>4, <1>6, <1>7, <1>8, <1>9, <1>10, RequestKeeps, ReceiptsStand
          DEF ErasureInv, ErasureTypes
-----------------------------------------------------------------------------
\* It holds at the start.
LEMMA ErasureInitInv == ErasureInit => ErasureInv
  <1> SUFFICES ASSUME ErasureInit PROVE ErasureInv
    OBVIOUS
  <1>1. present \subseteq Threads \union Others /\ used = present
    BY DEF ErasureInit
  <1>2. homeOf \in [Messages -> Messages \union Threads] BY DEF ErasureInit
  <1>3. /\ eraser \in [Erasers -> {NotAsked} \union Asked] /\ \A e \in Erasers : eraser[e] = NotAsked
    BY DEF ErasureInit
  <1>4. /\ consent \in present \union {NoEvent} /\ latest = consent
        /\ consent \in ConsentEvents \union {NoEvent}
    BY DEF ErasureInit
  <1>5. receipts = {} /\ lapses = 0 /\ overtaken = {} BY DEF ErasureInit
  <1>6. Housed BY <1>1, ErasureAssumption DEF Housed, Others
  <1> QED BY <1>1, <1>2, <1>3, <1>4, <1>5, <1>6 DEF ErasureInv, ErasureTypes, SeesAll, DryIsDry, Rows

\* Every step keeps it.
LEMMA ErasureNextInv == ErasureInv /\ [ErasureNext]_erasureVars => ErasureInv'
  <1> SUFFICES ASSUME ErasureInv, [ErasureNext]_erasureVars PROVE ErasureInv'
    OBVIOUS
  <1>1. ASSUME NEW t \in Threads, NewThread(t) PROVE ErasureInv'
    <2>1. t \in Rows /\ t \notin Messages /\ t \notin ConsentEvents
      BY ErasureAssumption DEF Rows
    <2>2. /\ Fresh(t) /\ present' = present \union {t} /\ homeOf' = homeOf
          /\ UNCHANGED <<consent, latest, eraser, receipts, lapses, overtaken>>
      BY <1>1 DEF NewThread
    <2> QED BY <2>1, <2>2, NewRowKeeps
  <1>2. ASSUME NEW t \in Threads, NEW m \in Messages, NewText(m, t) PROVE ErasureInv'
    <2>1. m \in Rows /\ m \notin ConsentEvents BY ErasureAssumption DEF Rows
    <2>2. /\ Fresh(m) /\ present' = present \union {m}
          /\ t \in present \intersect Threads /\ homeOf' = [homeOf EXCEPT ![m] = t]
          /\ UNCHANGED <<consent, latest, eraser, receipts, lapses, overtaken>>
      BY <1>2 DEF NewText
    <2> QED BY <2>1, <2>2, NewRowKeeps
  <1>3. ASSUME NEW o \in Recipients, NewRecipient(o) PROVE ErasureInv'
    <2>1. o \in Rows /\ o \notin Messages /\ o \notin ConsentEvents
      BY ErasureAssumption DEF Rows, Others
    <2>2. /\ Fresh(o) /\ present' = present \union {o} /\ homeOf' = homeOf
          /\ UNCHANGED <<consent, latest, eraser, receipts, lapses, overtaken>>
      BY <1>3 DEF NewRecipient
    <2> QED BY <2>1, <2>2, NewRowKeeps
  <1>4. CASE UNCHANGED erasureVars
    BY <1>4 DEF erasureVars, ErasureInv, ErasureTypes, Housed, SeesAll, DryIsDry, Owes
  <1> QED BY <1>1, <1>2, <1>3, <1>4, DecideKeeps, AskKeeps, ListKeeps, DestroyKeeps, JudgeKeeps,
             ResetKeeps, CertifyKeeps, LapseKeeps DEF ErasureNext

\* It holds whatever comes, in every order, of webhooks, reps and requests.
THEOREM ErasureInvariant == ErasureSpec => []ErasureInv
  <1> QED BY ErasureInitInv, ErasureNextInv, PTL DEF ErasureSpec

\* Types: the rows, the consent and the receipts are of their kinds.
THEOREM ErasureIsTyped == ErasureSpec => []ErasureTypeOK
  <1>1. ErasureInv => ErasureTypeOK
    BY DEF ErasureInv, ErasureTypes, ErasureTypeOK, Rows
  <1> QED BY <1>1, ErasureInvariant, PTL

\* What erasePerson reports erased is gone, a receipt is of a request that went
\* through, and the consent has its evidence, however many admins erase at once
\* while webhooks and reps write on.
THEOREM ErasureTold == ErasureSpec => []ErasureIsTrue
  <1>1. ErasureInv => ErasureIsTrue
    <2> SUFFICES ASSUME ErasureInv PROVE ErasureIsTrue
      OBVIOUS
    <2>1. ErasureTypes /\ Housed BY DEF ErasureInv
    <2>2. DoneMeansGone
      <3>1. ASSUME NEW e \in Erasers, eraser[e].step = "done"
            PROVE  eraser[e].before \intersect present = {}
        BY <2>1, <3>1, AskedOrNot DEF ErasureInv, SeesAll
      <3> QED BY <2>1, <3>1 DEF DoneMeansGone, Housed
    <2>3. ReceiptsAreTrue BY DEF ErasureInv, ReceiptsAreTrue
    <2>4. ConsentHasEvidence
      <3> SUFFICES ASSUME \A e \in Erasers : eraser[e].step \in Ended
                   PROVE  /\ consent \in present \union {NoEvent} \/ \E e \in Erasers : eraser[e].step = "failed"
                          /\ latest \in present => consent = latest \/ latest \in overtaken
        BY DEF ConsentHasEvidence
      <3>1. ASSUME NEW e \in Erasers, Owes(e) PROVE eraser[e].step = "failed"
        BY <2>1, <3>1, AskedOrNot DEF Owes, Ended
      <3> QED BY <3>1 DEF ErasureInv
    <2> QED BY <2>2, <2>3, <2>4 DEF ErasureIsTrue
  <1> QED BY <1>1, ErasureInvariant, PTL
-----------------------------------------------------------------------------
(***************************************************************************)
(* Accounts: the inductive invariant.                                      *)
(***************************************************************************)
AllKeys == Numbers \union Wabas
Causes == {"race", "unproven", "revived", "died", "overlap", "moved", "barred", "taken", "passed"}
Lost == {"race", "unproven", "revived", "died", "overlap", "taken", "passed"}
Record == [status : {"PENDING", "CONNECTED", "ERROR", "DISABLED"}, waba : Wabas]
Said == {"restricted", "verified"}

Connecting ==
    [kind : {"connect"}, step : {"free", "recorded", "phone", "claimed", "failed", "unclaimed"},
     by : Workspaces, number : Numbers, waba : Wabas,
     owners : UNION {[S -> Workspaces \union {Nobody}] : S \in SUBSET AllKeys}]
Disconnecting ==
    [kind : {"disconnect"}, step : {"counted", "clearing", "cleared"},
     by : Workspaces, number : Numbers, waba : Wabas, inUse : BOOLEAN]
Probing == [kind : {"test", "check"}, step : {"probing"}, by : Workspaces, number : Numbers]
Telling ==
    [kind : Said, step : {"told"}, by : Workspaces, number : Numbers,
     copy : {"PENDING", "CONNECTED", "ERROR", "DISABLED"}]
Passing ==
    [kind : {"install", "uninstall"}, step : {"listed"}, by : Workspaces,
     todo : (SUBSET Numbers) \ {{}}]

ActTypes ==
    {Unused, Over} \union Connecting \union Disconnecting \union Probing \union Telling
        \union Passing

AccountsTypes ==
    /\ claim \in [AllKeys -> Workspaces \union {Nobody}]
    /\ account \in [Workspaces -> [Numbers -> Record \union {NoAccount}]]
    /\ act \in [Acts -> ActTypes]
    /\ heard \in [Workspaces -> [Numbers -> Said \union {"none"}]]
    /\ installed \in [Workspaces -> BOOLEAN]
    /\ amiss \in [Workspaces -> [Numbers -> SUBSET Causes]]

\* A connect has looked who owns what it claims, and only goes on when nobody
\* else does.
OwnersKnown(a) ==
    act[a].kind = "connect" =>
        /\ {act[a].number, act[a].waba} = DOMAIN act[a].owners
        /\ act[a].owners[act[a].number] \in {W(a), Nobody}
        /\ act[a].owners[act[a].waba] \in {W(a), Nobody}

\* What an act works on exists, and its workspace has the app.
HasRecord(a) ==
    \/ act[a].kind \in {"disconnect", "test", "check"} \union Said
    \/ act[a].kind = "connect" /\ act[a].step # "free"
Standing(a) ==
    Busy(a) => /\ OwnersKnown(a)
               /\ HasRecord(a) => account[W(a)][N(a)] # NoAccount
               /\ installed[W(a)] = (act[a].kind # "uninstall")

Writer(a, w) == Busy(a) /\ W(a) = w /\ act[a].kind \in {"connect", "disconnect", "install"}

Overlapped(w) == Numbers # {} /\ \A n \in Numbers : "overlap" \in amiss[w][n]
Alone(w) == \A a, b \in Acts : Writer(a, w) /\ Writer(b, w) => a = b

Live(w, n) == account[w][n].status \notin {"NONE", "DISABLED"}
Excused(w, n) == amiss[w][n] \intersect Lost # {}
Holds(w, n) == claim[n] = w /\ claim[account[w][n].waba] = w

\* What the one request of a workspace that writes claims has done so far.
ConnectOnCourse(a) ==
    act[a].kind = "connect" =>
        /\ act[a].step \in {"recorded", "phone", "claimed"} => Mine(a).waba = act[a].waba
        /\ act[a].step = "phone" => claim[N(a)] = W(a) \/ Excused(W(a), N(a))
        /\ act[a].step = "claimed" =>
               {claim[N(a)], claim[act[a].waba]} = {W(a)} \/ Excused(W(a), N(a))

OthersOn(a) == {m \in Numbers \ {N(a)} : Live(W(a), m) /\ account[W(a)][m].waba = act[a].waba}
DisconnectOnCourse(a) ==
    act[a].kind = "disconnect" =>
        /\ Mine(a).waba = act[a].waba
        /\ act[a].inUse => OthersOn(a) # {}
        /\ ~act[a].inUse => \A m \in OthersOn(a) : Excused(W(a), m)
        /\ act[a].step \in {"clearing", "cleared"} => claim[N(a)] # W(a)
        /\ act[a].step = "cleared" => claim[act[a].waba] # W(a) \/ act[a].inUse
        /\ act[a].step = "clearing" => ~act[a].inUse

InstallOnCourse(a) == act[a].kind = "install" => \A n \in act[a].todo : Live(W(a), n)

OnCourse(a) == ConnectOnCourse(a) /\ DisconnectOnCourse(a) /\ InstallOnCourse(a)

\* A record that is live is reached, or it is told why not, or somebody is at it.
Handles(a, n) ==
    \/ act[a].kind = "connect" /\ act[a].number = n /\ act[a].step \in {"recorded", "phone"}
    \/ act[a].kind = "disconnect" /\ act[a].number = n
    \/ act[a].kind = "install" /\ n \in act[a].todo
Reached(w) ==
    \A n \in Numbers :
        installed[w] /\ Live(w, n) =>
            Holds(w, n) \/ Excused(w, n) \/ \E a \in Acts : Writer(a, w) /\ Handles(a, n)

\* A claim is needed, or left behind, or somebody is at it.
KeysOf(w, n) == {n, account[w][n].waba}
Pends(a, w, k) ==
    /\ Busy(a) /\ W(a) = w
    /\ \/ /\ act[a].kind = "connect" /\ act[a].step \in {"recorded", "phone", "claimed"}
          /\ k \in {act[a].number, act[a].waba}
       \/ act[a].kind = "uninstall" /\ \E n \in act[a].todo : k \in KeysOf(w, n)
Needs(w, n, k) ==
    \/ installed[w] /\ Live(w, n) /\ k \in KeysOf(w, n)
    \/ "died" \in amiss[w][n] /\ k \in KeysOf(w, n)
    \/ amiss[w][n] \intersect {"race", "moved"} # {}
Needed(w) ==
    \A k \in AllKeys :
        claim[k] = w => \/ \E n \in Numbers : Needs(w, n, k)
                        \/ \E a \in Acts : Pends(a, w, k)

InOrder(w) ==
    \/ Overlapped(w)
    \/ /\ Alone(w) /\ Reached(w) /\ Needed(w)
       /\ \A a \in Acts : Writer(a, w) => OnCourse(a)

AccountsInv ==
    /\ AccountsTypes /\ RestrictedIsStopped
    /\ \A a \in Acts : Standing(a)
    /\ \A w \in Workspaces : InOrder(w)
-----------------------------------------------------------------------------
(***************************************************************************)
(* What the kind of an act says of it.                                     *)
(***************************************************************************)
\* The fields of each sort.
LEMMA KindsOf ==
    /\ \A x \in Connecting :
         /\ x.kind = "connect"
         /\ x.step \in {"free", "recorded", "phone", "claimed", "failed", "unclaimed"}
         /\ x.by \in Workspaces /\ x.number \in Numbers /\ x.waba \in Wabas
    /\ \A x \in Disconnecting :
         /\ x.kind = "disconnect" /\ x.step \in {"counted", "clearing", "cleared"}
         /\ x.by \in Workspaces /\ x.number \in Numbers /\ x.waba \in Wabas
         /\ x.inUse \in BOOLEAN
    /\ \A x \in Probing :
         /\ x.kind \in {"test", "check"} /\ x.step = "probing"
         /\ x.by \in Workspaces /\ x.number \in Numbers
    /\ \A x \in Telling :
         /\ x.kind \in Said /\ x.step = "told" /\ x.by \in Workspaces /\ x.number \in Numbers
         /\ x.copy \in {"PENDING", "CONNECTED", "ERROR", "DISABLED"}
    /\ \A x \in Passing :
         /\ x.kind \in {"install", "uninstall"} /\ x.step = "listed" /\ x.by \in Workspaces
         /\ x.todo \subseteq Numbers /\ x.todo # {}
    /\ \A x \in {Unused, Over} : x.kind = "none" /\ x.step \in {"none", "done"}
  <1>1. \A x \in Connecting :
         /\ x.kind = "connect"
         /\ x.step \in {"free", "recorded", "phone", "claimed", "failed", "unclaimed"}
         /\ x.by \in Workspaces /\ x.number \in Numbers /\ x.waba \in Wabas
    BY DEF Connecting
  <1>2. \A x \in Disconnecting :
         /\ x.kind = "disconnect" /\ x.step \in {"counted", "clearing", "cleared"}
         /\ x.by \in Workspaces /\ x.number \in Numbers /\ x.waba \in Wabas
         /\ x.inUse \in BOOLEAN
    BY DEF Disconnecting
  <1>3. \A x \in Probing :
         /\ x.kind \in {"test", "check"} /\ x.step = "probing"
         /\ x.by \in Workspaces /\ x.number \in Numbers
    BY DEF Probing
  <1>4. \A x \in Telling :
         /\ x.kind \in Said /\ x.step = "told" /\ x.by \in Workspaces /\ x.number \in Numbers
         /\ x.copy \in {"PENDING", "CONNECTED", "ERROR", "DISABLED"}
    BY DEF Telling
  <1>5. \A x \in Passing :
         /\ x.kind \in {"install", "uninstall"} /\ x.step = "listed" /\ x.by \in Workspaces
         /\ x.todo \subseteq Numbers /\ x.todo # {}
    BY DEF Passing
  <1>6. \A x \in {Unused, Over} : x.kind = "none" /\ x.step \in {"none", "done"}
    BY DEF Unused, Over
  <1> QED BY <1>1, <1>2, <1>3, <1>4, <1>5, <1>6

\* Each kind is of one sort, and its steps are its own.
LEMMA RequestKinds ==
    ASSUME AccountsTypes, NEW a \in Acts
    PROVE  /\ act[a].kind = "connect" => act[a] \in Connecting
           /\ act[a].kind = "disconnect" => act[a] \in Disconnecting
           /\ act[a].kind \in {"test", "check"} => act[a] \in Probing
           /\ act[a].kind \in Said => act[a] \in Telling
           /\ act[a].kind \in {"install", "uninstall"} => act[a] \in Passing
           /\ act[a].step = "probing" => act[a] \in Probing
           /\ act[a].step = "told" => act[a] \in Telling
           /\ ~Busy(a) <=> act[a].kind = "none"
           /\ Busy(a) => W(a) \in Workspaces
  <1>1. act[a] \in ActTypes
    BY DEF AccountsTypes
  <1>2. \/ act[a] \in {Unused, Over} \/ act[a] \in Connecting \/ act[a] \in Disconnecting
        \/ act[a] \in Probing \/ act[a] \in Telling \/ act[a] \in Passing
    BY <1>1 DEF ActTypes
  <1> QED BY <1>2, KindsOf DEF Said, Busy, W

-----------------------------------------------------------------------------
(***************************************************************************)
(* What a step of one act leaves alone.                                    *)
(***************************************************************************)
Serious(b, v) ==
    Busy(b) /\ W(b) = v /\ act[b].kind \in {"connect", "disconnect", "install", "uninstall"}

\* Seen from a workspace: no request of its own that writes claims has moved, a
\* record may have come to life, a claim may have been lost in a race.
Gentle(v) ==
    /\ installed'[v] = installed[v]
    /\ \A n \in Numbers :
         /\ account'[v][n].waba = account[v][n].waba
         /\ Live(v, n) => account'[v][n].status \notin {"NONE", "DISABLED"}
         /\ account'[v][n].status \notin {"NONE", "DISABLED"} =>
                Live(v, n) \/ "revived" \in amiss'[v][n]
         /\ amiss[v][n] \subseteq amiss'[v][n]
    /\ \A k \in AllKeys : claim'[k] = v => claim[k] = v
    /\ \A k \in AllKeys :
         claim[k] = v => claim'[k] = v \/ \A n \in Numbers : "race" \in amiss'[v][n]
    /\ \A b \in Acts : /\ Serious(b, v) => act'[b] = act[b]
                       /\ Serious(b, v)' => Serious(b, v)

\* The step is one of act a, of workspace w; the others may lose a race.
Local(a, w) ==
    /\ \A b \in Acts \ {a} : act'[b] = act[b]
    /\ Busy(a) => W(a) = w
    /\ Busy(a)' => W(a)' = w
    /\ \A v \in Workspaces \ {w} :
         /\ installed'[v] = installed[v] /\ account'[v] = account[v]
         /\ \A n \in Numbers : amiss[v][n] \subseteq amiss'[v][n]
         /\ \A k \in AllKeys : claim'[k] = v => claim[k] = v
         /\ \A k \in AllKeys :
              claim[k] = v => claim'[k] = v \/ \A n \in Numbers : "race" \in amiss'[v][n]

\* In its workspace no record goes, no overlap is forgotten.
Steady(a, w) ==
    /\ \A n \in Numbers : /\ account[w][n] # NoAccount => account'[w][n] # NoAccount
                          /\ "overlap" \in amiss[w][n] => "overlap" \in amiss'[w][n]
    /\ \/ installed'[w] = installed[w]
       \/ \A b \in Acts \ {a} : ~(Busy(b) /\ W(b) = w)

\* Steps of the others are gentle.
LEMMA OthersAreGentle ==
    ASSUME NEW a \in Acts, NEW w \in Workspaces, NEW v \in Workspaces \ {w},
           AccountsTypes, Local(a, w)
    PROVE  Gentle(v)
  <1>1. \A b \in Acts : Serious(b, v) => act'[b] = act[b]
    BY DEF Local, Serious
  <1>2. \A b \in Acts : Serious(b, v)' => Serious(b, v)
    BY DEF Local, Serious, Busy, W
  <1>3. /\ installed'[v] = installed[v] /\ account'[v] = account[v]
        /\ \A n \in Numbers : amiss[v][n] \subseteq amiss'[v][n]
        /\ \A k \in AllKeys : claim'[k] = v => claim[k] = v
        /\ \A k \in AllKeys :
             claim[k] = v => claim'[k] = v \/ \A n \in Numbers : "race" \in amiss'[v][n]
    BY DEF Local
  <1> QED BY <1>1, <1>2, <1>3 DEF Gentle, Live

\* Gentle steps: still one writing request at most,
LEMMA GentleAlone ==
    ASSUME NEW v \in Workspaces, Gentle(v), Alone(v)
    PROVE  Alone(v)'
  <1>1. \A b \in Acts : Writer(b, v)' => Writer(b, v)
    <2> SUFFICES ASSUME NEW b \in Acts, Writer(b, v)' PROVE Writer(b, v)
      OBVIOUS
    <2>1. Serious(b, v)'
      BY DEF Writer, Serious
    <2>2. Serious(b, v) /\ act'[b] = act[b]
      BY <2>1 DEF Gentle
    <2> QED BY <2>2 DEF Writer, Serious, Busy, W
  <1> QED BY <1>1 DEF Alone

\* ... every live record reached, excused or handled,
LEMMA GentleReached ==
    ASSUME NEW v \in Workspaces, AccountsTypes, Gentle(v), Reached(v)
    PROVE  Reached(v)'
  <1> SUFFICES ASSUME NEW n \in Numbers, installed'[v], Live(v, n)'
               PROVE  (Holds(v, n) \/ Excused(v, n)
                          \/ \E a \in Acts : Writer(a, v) /\ Handles(a, n))'
    BY DEF Reached
  <1>1. amiss[v][n] \subseteq amiss'[v][n] /\ account'[v][n].waba = account[v][n].waba
    BY DEF Gentle
  <1>2. CASE "revived" \in amiss'[v][n]
    BY <1>2 DEF Excused, Lost
  <1>3. CASE "revived" \notin amiss'[v][n]
    <2>1. installed[v] /\ Live(v, n)
      BY <1>3 DEF Gentle, Live
    <2>2. CASE Holds(v, n)
      <3>1. n \in AllKeys /\ account[v][n].waba \in AllKeys
        BY <2>1 DEF AllKeys, AccountsTypes, Live, Record, NoAccount
      <3>2. CASE claim'[n] = v /\ claim'[account[v][n].waba] = v
        BY <3>2, <1>1 DEF Holds
      <3>3. CASE "race" \in amiss'[v][n]
        BY <3>3 DEF Excused, Lost
      <3> QED BY <2>2, <3>1, <3>2, <3>3 DEF Holds, Gentle
    <2>3. CASE Excused(v, n)
      BY <2>3, <1>1 DEF Excused
    <2>4. ASSUME NEW a \in Acts, Writer(a, v), Handles(a, n)
          PROVE  Writer(a, v)' /\ Handles(a, n)'
      <3>1. Serious(a, v)
        BY <2>4 DEF Serious, Writer
      <3>2. act'[a] = act[a]
        BY <3>1 DEF Gentle
      <3> QED BY <2>4, <3>2 DEF Writer, Handles, Busy, W
    <2> QED BY <2>1, <2>2, <2>3, <2>4 DEF Reached
  <1> QED BY <1>2, <1>3

\* ... every claim needed or pending,
LEMMA GentleNeeded ==
    ASSUME NEW v \in Workspaces, AccountsTypes, Gentle(v), Needed(v)
    PROVE  Needed(v)'
  <1> SUFFICES ASSUME NEW k \in AllKeys, claim'[k] = v
               PROVE  (\/ \E n \in Numbers : Needs(v, n, k)
                       \/ \E a \in Acts : Pends(a, v, k))'
    BY DEF Needed
  <1>1. claim[k] = v
    BY DEF Gentle
  <1>2. ASSUME NEW n \in Numbers, Needs(v, n, k)
        PROVE  Needs(v, n, k)'
    <2>1. /\ installed'[v] = installed[v]
          /\ account'[v][n].waba = account[v][n].waba
          /\ Live(v, n) => Live(v, n)'
          /\ amiss[v][n] \subseteq amiss'[v][n]
      BY DEF Gentle, Live
    <2> QED BY <1>2, <2>1 DEF KeysOf, Needs
  <1>3. ASSUME NEW a \in Acts, Pends(a, v, k)
        PROVE  Pends(a, v, k)'
    <2>1. Serious(a, v)
      BY <1>3 DEF Serious, Pends
    <2>2. act'[a] = act[a]
      BY <2>1 DEF Gentle
    <2>3. \A n \in Numbers : account'[v][n].waba = account[v][n].waba
      BY DEF Gentle
    <2>4. \A n \in Numbers : KeysOf(v, n)' = KeysOf(v, n)
      BY <2>3 DEF KeysOf
    <2>5. act[a].kind = "uninstall" => act[a].todo \subseteq Numbers
      BY RequestKinds, KindsOf
    <2> QED BY <1>3, <2>2, <2>4, <2>5 DEF Pends, Busy, W
  <1> QED BY <1>1, <1>2, <1>3 DEF Needed

\* ... and the writing request on course.
LEMMA GentleOnCourse ==
    ASSUME NEW v \in Workspaces, AccountsTypes, Gentle(v),
           \A a \in Acts : Writer(a, v) => OnCourse(a)
    PROVE  (\A a \in Acts : Writer(a, v) => OnCourse(a))'
  <1> SUFFICES ASSUME NEW a \in Acts, Writer(a, v)' PROVE OnCourse(a)'
    OBVIOUS
  <1>1. Serious(a, v)'
    BY DEF Writer, Serious
  <1>2. Serious(a, v) /\ act'[a] = act[a]
    BY <1>1 DEF Gentle
  <1>3. Busy(a) /\ W(a) = v /\ OnCourse(a)
    BY <1>2 DEF Writer, Serious, Busy, W
  <1>4. \A n \in Numbers :
            /\ account'[v][n].waba = account[v][n].waba
            /\ Live(v, n) => Live(v, n)'
            /\ Live(v, n)' => Live(v, n) \/ Excused(v, n)'
            /\ Excused(v, n) => Excused(v, n)'
    BY DEF Gentle, Live, Excused, Lost
  <1>5. \A k \in AllKeys : claim'[k] = v => claim[k] = v
    BY DEF Gentle
  <1>6. \A k \in AllKeys :
            claim[k] = v => claim'[k] = v \/ \A n \in Numbers : Excused(v, n)'
    BY DEF Gentle, Excused, Lost
  <1>7. W(a)' = v /\ N(a)' = N(a)
    BY <1>2, <1>3 DEF W, N
  <1>8. ConnectOnCourse(a)'
    <2> SUFFICES ASSUME act[a].kind = "connect" PROVE ConnectOnCourse(a)'
      BY <1>2 DEF ConnectOnCourse
    <2>1. N(a) \in Numbers /\ act[a].waba \in Wabas
      BY RequestKinds, KindsOf DEF N
    <2>2. N(a) \in AllKeys /\ act[a].waba \in AllKeys
      BY <2>1 DEF AllKeys
    <2>3. ConnectOnCourse(a)
      BY <1>3 DEF OnCourse
    <2>4. Mine(a)'.waba = Mine(a).waba
      BY <1>3, <1>4, <1>7, <2>1 DEF Mine
    <2>5. act[a].step = "phone" => (claim[N(a)] = W(a))' \/ Excused(v, N(a))'
      BY <2>3, <1>3, <1>4, <1>6, <1>7, <2>1, <2>2 DEF ConnectOnCourse
    <2>6. act[a].step = "claimed" =>
              (claim'[N(a)] = v /\ claim'[act[a].waba] = v) \/ Excused(v, N(a))'
      BY <2>3, <1>3, <1>4, <1>6, <1>7, <2>1, <2>2 DEF ConnectOnCourse
    <2> QED BY <1>2, <1>7, <1>3, <2>3, <2>4, <2>5, <2>6 DEF ConnectOnCourse
  <1>9. DisconnectOnCourse(a)'
    <2> SUFFICES ASSUME act[a].kind = "disconnect" PROVE DisconnectOnCourse(a)'
      BY <1>2 DEF DisconnectOnCourse
    <2>1. N(a) \in Numbers /\ act[a].waba \in Wabas
      BY RequestKinds, KindsOf DEF N
    <2>2. N(a) \in AllKeys /\ act[a].waba \in AllKeys
      BY <2>1 DEF AllKeys
    <2>3. DisconnectOnCourse(a)
      BY <1>3 DEF OnCourse
    <2>4. Mine(a)'.waba = Mine(a).waba
      BY <1>3, <1>4, <1>7, <2>1 DEF Mine
    <2>5. OthersOn(a) \subseteq OthersOn(a)'
      BY <1>2, <1>3, <1>4, <1>7 DEF OthersOn
    <2>6. \A m \in OthersOn(a)' : m \in OthersOn(a) \/ Excused(v, m)'
      BY <1>2, <1>3, <1>4, <1>7 DEF OthersOn
    <2>7. \A m \in OthersOn(a) : m \in Numbers
      BY DEF OthersOn
    <2>8. act[a].inUse => OthersOn(a)' # {}
      BY <2>3, <2>5 DEF DisconnectOnCourse
    <2>9. ~act[a].inUse => \A m \in OthersOn(a)' : Excused(v, m)'
      BY <2>3, <2>6, <2>7, <1>3, <1>4 DEF DisconnectOnCourse
    <2>10. claim[N(a)] # v => claim'[N(a)] # v
      BY <1>5, <2>2
    <2>11. claim[act[a].waba] # v => claim'[act[a].waba] # v
      BY <1>5, <2>2
    <2> HIDE DEF OthersOn
    <2> QED BY <1>2, <1>7, <1>3, <2>3, <2>4, <2>8, <2>9, <2>10, <2>11 DEF DisconnectOnCourse
  <1>10. InstallOnCourse(a)'
    <2> SUFFICES ASSUME act[a].kind = "install", NEW n \in act[a].todo PROVE Live(v, n)'
      BY <1>2, <1>7 DEF InstallOnCourse
    <2>1. n \in Numbers
      BY RequestKinds, KindsOf
    <2> QED BY <1>3, <1>4, <2>1 DEF OnCourse, InstallOnCourse
  <1> QED BY <1>8, <1>9, <1>10 DEF OnCourse

\* A workspace whose steps are gentle stays in order.
LEMMA GentleInOrder ==
    ASSUME NEW v \in Workspaces, AccountsTypes, Gentle(v), InOrder(v)
    PROVE  InOrder(v)'
  <1>1. CASE Overlapped(v)
    BY <1>1 DEF Overlapped, Gentle, InOrder
  <1>2. CASE ~Overlapped(v)
    BY <1>2, GentleAlone, GentleReached, GentleNeeded, GentleOnCourse DEF InOrder
  <1> QED BY <1>1, <1>2

\* What the other acts work on stays.
LEMMA StandingOfOthers ==
    ASSUME NEW a \in Acts, NEW w \in Workspaces, NEW b \in Acts \ {a}, AccountsTypes,
           Local(a, w), Steady(a, w), Standing(b)
    PROVE  Standing(b)'
  <1> SUFFICES ASSUME Busy(b)' PROVE Standing(b)'
    BY DEF Standing
  <1>1. act'[b] = act[b]
    BY DEF Local
  <1>2. Busy(b) /\ W(b)' = W(b) /\ N(b)' = N(b) /\ W(b) \in Workspaces
    BY <1>1, RequestKinds DEF Busy, W, N
  <1>3. OwnersKnown(b)'
    BY <1>1, <1>2 DEF Standing, OwnersKnown, W
  <1>4. HasRecord(b)' = HasRecord(b)
    BY <1>1 DEF HasRecord
  <1>5. HasRecord(b) => N(b) \in Numbers
    BY <1>2, RequestKinds, KindsOf DEF HasRecord, N, Said
  <1>6. installed'[W(b)] = installed[W(b)]
    BY <1>2 DEF Local, Steady
  <1>7. HasRecord(b) => (account[W(b)][N(b)] # NoAccount)'
    BY <1>2, <1>5 DEF Local, Steady, Standing
  <1> QED BY <1>1, <1>2, <1>3, <1>4, <1>6, <1>7 DEF Standing

\* The invariant of the whole, from that of the workspace of the act.
LEMMA Composed ==
    ASSUME AccountsInv, AccountsTypes', RestrictedIsStopped',
           NEW a \in Acts, NEW w \in Workspaces, Local(a, w), Steady(a, w),
           Standing(a)', ~Overlapped(w) => InOrder(w)'
    PROVE  AccountsInv'
  <1>1. \A b \in Acts : Standing(b)'
    BY StandingOfOthers DEF AccountsInv
  <1>2. ASSUME NEW v \in Workspaces \ {w} PROVE InOrder(v)'
    BY <1>2, OthersAreGentle, GentleInOrder DEF AccountsInv
  <1>3. InOrder(w)'
    BY DEF InOrder, Overlapped, Steady
  <1> QED BY <1>1, <1>2, <1>3 DEF AccountsInv

-----------------------------------------------------------------------------
(***************************************************************************)
(* What the parts of the actions do.                                       *)
(***************************************************************************)
AmissTyped == amiss' \in [Workspaces -> [Numbers -> SUBSET Causes]]
AccountTyped == account' \in [Workspaces -> [Numbers -> Record \union {NoAccount}]]
ClaimTyped == claim' \in [AllKeys -> Workspaces \union {Nobody}]
ActTyped == act' \in [Acts -> ActTypes]

\* A cause is noted at one number.
LEMMA AmissAdds ==
    ASSUME AccountsTypes, NEW a \in Acts, W(a) \in Workspaces, N(a) \in Numbers,
           NEW c \in Causes, amiss' = [amiss EXCEPT ![W(a)][N(a)] = @ \union {c}]
    PROVE  /\ AmissTyped
           /\ \A v \in Workspaces, n \in Numbers :
                amiss'[v][n] = IF v = W(a) /\ n = N(a) THEN amiss[v][n] \union {c}
                               ELSE amiss[v][n]
  <1>1. amiss \in [Workspaces -> [Numbers -> SUBSET Causes]]
    BY DEF AccountsTypes
  <1> DEFINE row == [amiss[W(a)] EXCEPT ![N(a)] = @ \union {c}]
  <1>2. row \in [Numbers -> SUBSET Causes]
    BY <1>1
  <1>3. \A n \in Numbers : row[n] = IF n = N(a) THEN amiss[W(a)][n] \union {c} ELSE amiss[W(a)][n]
    BY <1>1
  <1>4. amiss' = [amiss EXCEPT ![W(a)] = row]
    BY <1>1
  <1> HIDE DEF row
  <1>5. AmissTyped
    BY <1>4, <1>2, <1>1 DEF AmissTyped
  <1> QED BY <1>3, <1>4, <1>5, <1>1

\* Noted is what Amiss leaves behind.
Noted(a, c, when) ==
    /\ AmissTyped
    /\ \A v \in Workspaces, n \in Numbers :
         amiss'[v][n] = IF when /\ v = W(a) /\ n = N(a) THEN amiss[v][n] \union {c}
                        ELSE amiss[v][n]

\* The same, when there is one.
LEMMA AmissEffect ==
    ASSUME AccountsTypes, NEW a \in Acts, W(a) \in Workspaces, N(a) \in Numbers,
           NEW c \in Causes, NEW when, Amiss(a, c, when)
    PROVE  Noted(a, c, when)
  <1> USE DEF Noted
  <1>1. CASE when
    <2>1. amiss' = [amiss EXCEPT ![W(a)][N(a)] = @ \union {c}]
      BY <1>1 DEF Amiss
    <2>2. /\ AmissTyped
          /\ \A v \in Workspaces, n \in Numbers :
               amiss'[v][n] = IF v = W(a) /\ n = N(a) THEN amiss[v][n] \union {c}
                              ELSE amiss[v][n]
      BY <2>1, AmissAdds
    <2> QED BY <1>1, <2>2
  <1>2. CASE ~when
    <2>1. amiss' = amiss
      BY <1>2 DEF Amiss
    <2> QED BY <1>2, <2>1 DEF AmissTyped, AccountsTypes
  <1> QED BY <1>1, <1>2

\* An overlap is noted at every number.
LEMMA OverlapsEffect ==
    ASSUME AccountsTypes, NEW w \in Workspaces, Overlaps(w)
    PROVE  /\ AmissTyped
           /\ \A v \in Workspaces, n \in Numbers :
                amiss'[v][n] = IF Writing(w) /\ v = w THEN amiss[v][n] \union {"overlap"}
                               ELSE amiss[v][n]
  <1>1. amiss \in [Workspaces -> [Numbers -> SUBSET Causes]]
    BY DEF AccountsTypes
  <1> DEFINE row == [n \in Numbers |-> amiss[w][n] \union {"overlap"}]
  <1>2. row \in [Numbers -> SUBSET Causes]
    BY <1>1 DEF Causes
  <1>3. \A n \in Numbers : row[n] = amiss[w][n] \union {"overlap"}
    OBVIOUS
  <1>4. amiss' = IF Writing(w) THEN [amiss EXCEPT ![w] = row] ELSE amiss
    BY <1>1 DEF Overlaps
  <1> HIDE DEF row
  <1> QED BY <1>1, <1>2, <1>3, <1>4 DEF AmissTyped

\* A request that is begun beside another overlaps with it.
LEMMA OverlapNoted ==
    ASSUME AccountsTypes, NEW w \in Workspaces, Overlaps(w), ~Overlapped(w)'
    PROVE  ~Writing(w) /\ amiss' = amiss
  <1>1. \A v \in Workspaces, n \in Numbers :
            amiss'[v][n] = IF Writing(w) /\ v = w THEN amiss[v][n] \union {"overlap"}
                           ELSE amiss[v][n]
    BY OverlapsEffect
  <1>2. Writing(w) => Numbers # {}
    <2> SUFFICES ASSUME NEW b \in Acts, Busy(b),
                        act[b].kind \in {"connect", "disconnect", "install"}
                 PROVE  Numbers # {}
      BY DEF Writing
    <2> QED BY RequestKinds, KindsOf
  <1>3. ~Writing(w)
    BY <1>1, <1>2 DEF Overlapped
  <1> QED BY <1>3 DEF Overlaps

\* A record gets another status.
LEMMA PatchEffect ==
    ASSUME AccountsTypes, NEW a \in Acts, W(a) \in Workspaces, N(a) \in Numbers,
           Mine(a) # NoAccount, NEW s \in {"PENDING", "CONNECTED", "ERROR", "DISABLED"},
           Patch(a, s)
    PROVE  /\ AccountTyped
           /\ account'[W(a)][N(a)] \in Record
           /\ account'[W(a)][N(a)].status = s
           /\ account'[W(a)][N(a)].waba = account[W(a)][N(a)].waba
           /\ \A v \in Workspaces, n \in Numbers :
                v # W(a) \/ n # N(a) => account'[v][n] = account[v][n]
           /\ \A v \in Workspaces \ {W(a)} : account'[v] = account[v]
  <1>1. account \in [Workspaces -> [Numbers -> Record \union {NoAccount}]]
    BY DEF AccountsTypes
  <1> DEFINE one == [account[W(a)][N(a)] EXCEPT !.status = s]
             row == [account[W(a)] EXCEPT ![N(a)] = one]
  <1>2. account[W(a)][N(a)] \in Record
    BY <1>1 DEF Mine
  <1>3. one \in Record /\ one.status = s /\ one.waba = account[W(a)][N(a)].waba
    BY <1>2 DEF Record
  <1>4. account' = [account EXCEPT ![W(a)] = row]
    BY <1>1 DEF Patch
  <1> HIDE DEF one
  <1>5. row \in [Numbers -> Record \union {NoAccount}]
    BY <1>1, <1>3
  <1>6. row[N(a)] = one /\ \A n \in Numbers \ {N(a)} : row[n] = account[W(a)][n]
    BY <1>1
  <1> HIDE DEF row
  <1> QED BY <1>1, <1>3, <1>4, <1>5, <1>6 DEF AccountTyped

\* An act goes to its next step, with what it carries.
LEMMA GoesEffect ==
    ASSUME AccountsTypes, NEW a \in Acts, NEW s, Goes(a, s),
           \/ act[a] \in Connecting /\ s \in {"recorded", "phone", "claimed", "failed", "unclaimed", "done"}
           \/ act[a] \in Disconnecting /\ s \in {"clearing", "cleared", "done"}
           \/ s = "done"
    PROVE  /\ ActTyped
           /\ \A b \in Acts \ {a} : act'[b] = act[b]
           /\ s = "done" => act'[a] = Over
           /\ s # "done" => /\ act'[a].step = s /\ act'[a].kind = act[a].kind
                            /\ act'[a].by = act[a].by /\ act'[a].number = act[a].number
                            /\ act'[a].waba = act[a].waba
                            /\ act[a] \in Connecting =>
                                 act'[a] \in Connecting /\ act'[a].owners = act[a].owners
                            /\ act[a] \in Disconnecting =>
                                 act'[a] \in Disconnecting /\ act'[a].inUse = act[a].inUse
  <1>1. act \in [Acts -> ActTypes]
    BY DEF AccountsTypes
  <1> DEFINE one == IF s = "done" THEN Over ELSE [act[a] EXCEPT !.step = s]
  <1>2. act' = [act EXCEPT ![a] = one]
    BY <1>1 DEF Goes
  <1>3. s = "done" => one = Over
    OBVIOUS
  <1>4. s # "done" /\ act[a] \in Connecting =>
            /\ one.step = s /\ one.kind = act[a].kind
            /\ one.by = act[a].by /\ one.number = act[a].number
            /\ one.waba = act[a].waba /\ one.owners = act[a].owners
            /\ one \in Connecting
    <2> SUFFICES ASSUME s # "done", act[a] \in Connecting
                 PROVE  /\ one.step = s /\ one.kind = act[a].kind
                        /\ one.by = act[a].by /\ one.number = act[a].number
                        /\ one.waba = act[a].waba /\ one.owners = act[a].owners
                        /\ one \in Connecting
      OBVIOUS
    <2>0. s \in {"recorded", "phone", "claimed", "failed", "unclaimed"}
      BY KindsOf DEF Disconnecting, Connecting
    <2>1. one = [act[a] EXCEPT !.step = s]
      OBVIOUS
    <2> HIDE DEF one
    <2> QED BY <2>0, <2>1 DEF Connecting
  <1>5. s # "done" /\ act[a] \in Disconnecting =>
            /\ one.step = s /\ one.kind = act[a].kind
            /\ one.by = act[a].by /\ one.number = act[a].number
            /\ one.waba = act[a].waba /\ one.inUse = act[a].inUse
            /\ one \in Disconnecting
    <2> SUFFICES ASSUME s # "done", act[a] \in Disconnecting
                 PROVE  /\ one.step = s /\ one.kind = act[a].kind
                        /\ one.by = act[a].by /\ one.number = act[a].number
                        /\ one.waba = act[a].waba /\ one.inUse = act[a].inUse
                        /\ one \in Disconnecting
      OBVIOUS
    <2>0. s \in {"clearing", "cleared"}
      BY KindsOf DEF Disconnecting, Connecting
    <2>1. one = [act[a] EXCEPT !.step = s]
      OBVIOUS
    <2> HIDE DEF one
    <2> QED BY <2>0, <2>1 DEF Disconnecting
  <1>6. one \in ActTypes
    BY <1>3, <1>4, <1>5 DEF ActTypes
  <1>7. act'[a] = one /\ \A b \in Acts \ {a} : act'[b] = act[b]
    BY <1>1, <1>2
  <1>8. ActTyped
    BY <1>1, <1>2, <1>6 DEF ActTyped
  <1> HIDE DEF one
  <1> QED BY <1>3, <1>4, <1>5, <1>7, <1>8

\* A claim is overwritten or deleted, and who lost it learns of it.
LEMMA ClaimEffect ==
    ASSUME AccountsTypes, NEW a \in Acts, W(a) \in Workspaces, NEW k \in AllKeys,
           act[a].owners[k] \in {W(a), Nobody},
           NEW owner \in {W(a), Nobody}, Claim(a, k, owner)
    PROVE  /\ ClaimTyped /\ AmissTyped
           /\ claim'[k] = owner /\ \A h \in AllKeys \ {k} : claim'[h] = claim[h]
           /\ \A v \in Workspaces, n \in Numbers :
                /\ amiss[v][n] \subseteq amiss'[v][n]
                /\ v # W(a) /\ claim[k] = v => "race" \in amiss'[v][n]
                /\ v = W(a) /\ owner = Nobody => "unproven" \in amiss'[v][n]
                /\ v = W(a) => amiss'[v][n] \subseteq amiss[v][n] \union {"unproven"}
                /\ v # W(a) => amiss'[v][n] \subseteq amiss[v][n] \union {"race"}
           /\ account' = account /\ heard' = heard /\ installed' = installed
  <1>1. claim \in [AllKeys -> Workspaces \union {Nobody}] /\ Nobody \notin Workspaces
    BY AccountsAssumption DEF AccountsTypes
  <1>2. amiss \in [Workspaces -> [Numbers -> SUBSET Causes]]
    BY DEF AccountsTypes
  <1> DEFINE new(v) == (IF v = claim[k] /\ v # W(a) /\ act[a].owners[k] # claim[k]
                        THEN {"race"} ELSE {})
                       \union (IF v = W(a) /\ owner = Nobody THEN {"unproven"} ELSE {})
  <1>3. amiss' = [v \in Workspaces |-> [n \in Numbers |-> amiss[v][n] \union new(v)]]
    BY <1>2 DEF Claim
  <1>4. \A v \in Workspaces :
            /\ new(v) \subseteq Causes
            /\ v # W(a) /\ claim[k] = v => "race" \in new(v)
            /\ v = W(a) /\ owner = Nobody => "unproven" \in new(v)
            /\ v = W(a) => new(v) \subseteq {"unproven"}
            /\ v # W(a) => new(v) \subseteq {"race"}
    BY <1>1 DEF Causes
  <1>5. claim' = [claim EXCEPT ![k] = owner]
    BY DEF Claim
  <1>6. ClaimTyped
    BY <1>1, <1>5 DEF ClaimTyped
  <1>7. claim'[k] = owner /\ \A h \in AllKeys \ {k} : claim'[h] = claim[h]
    BY <1>1, <1>5
  <1>8. account' = account /\ heard' = heard /\ installed' = installed
    BY DEF Claim
  <1> HIDE DEF new
  <1>9. AmissTyped
    BY <1>2, <1>3, <1>4 DEF AmissTyped
  <1>10. \A v \in Workspaces, n \in Numbers : amiss'[v][n] = amiss[v][n] \union new(v)
    BY <1>3
  <1> QED BY <1>4, <1>6, <1>7, <1>8, <1>9, <1>10

-----------------------------------------------------------------------------
(***************************************************************************)
(* The actions, one by one.                                                *)
(***************************************************************************)
\* Of an act that has no part of the others: only its own workspace is in
\* question.
LEMMA OnlyOwn ==
    ASSUME AccountsInv, NEW a \in Acts, NEW w \in Workspaces,
           \A b \in Acts \ {a} : act'[b] = act[b],
           Busy(a) => W(a) = w, Busy(a)' => W(a)' = w,
           \A v \in Workspaces \ {w} :
             /\ installed'[v] = installed[v] /\ account'[v] = account[v]
             /\ \A n \in Numbers : amiss[v][n] \subseteq amiss'[v][n],
           \A k \in AllKeys : claim'[k] # claim[k] => claim[k] \in {w, Nobody} /\ claim'[k] \in {w, Nobody}
    PROVE  Local(a, w)
  <1>1. Nobody \notin Workspaces
    BY AccountsAssumption
  <1> QED BY <1>1 DEF Local

\* A restriction is still told.
LEMMA StaysRestricted ==
    ASSUME RestrictedIsStopped,
           \A v \in Workspaces, n \in Numbers :
             heard'[v][n] = "restricted" /\ account'[v][n].status = "CONNECTED" =>
               \/ "barred" \in amiss'[v][n]
               \/ /\ heard[v][n] = "restricted" /\ account[v][n].status = "CONNECTED"
                  /\ "barred" \in amiss[v][n] => "barred" \in amiss'[v][n]
    PROVE  RestrictedIsStopped'
  BY DEF RestrictedIsStopped

\* A request that is begun has nothing of its own behind it yet.
LEMMA BeginsInOrder ==
    ASSUME AccountsInv, AccountsTypes', NEW a \in Acts, NEW w \in Workspaces, act[a] = Unused,
           \A b \in Acts \ {a} : act'[b] = act[b], ~Writing(w), InOrder(w), ~Overlapped(w),
           account' = account, claim' = claim, installed' = installed,
           amiss'[w] = amiss[w], Writer(a, w)' => OnCourse(a)'
    PROVE  InOrder(w)'
  <1>1. \A b \in Acts : ~Writer(b, w)
    BY DEF Writing, Writer
  <1>2. \A b \in Acts : Writer(b, w)' => b = a
    <2> SUFFICES ASSUME NEW b \in Acts \ {a}, Writer(b, w)' PROVE FALSE
      OBVIOUS
    <2>1. act'[b] = act[b]
      OBVIOUS
    <2> QED BY <2>1, <1>1 DEF Writer, Busy, W
  <1>3. Alone(w)'
    BY <1>2 DEF Alone
  <1>4. Reached(w)'
    BY <1>1 DEF InOrder, Reached, Live, Holds, Excused
  <1>5. \A b \in Acts : \A k \in AllKeys : Pends(b, w, k) => Pends(b, w, k)'
    <2> SUFFICES ASSUME NEW b \in Acts, NEW k \in AllKeys, Pends(b, w, k) PROVE Pends(b, w, k)'
      OBVIOUS
    <2>1. b # a
      BY DEF Pends, Busy, Unused
    <2>2. act'[b] = act[b]
      BY <2>1
    <2> QED BY <2>2 DEF Pends, Busy, W, KeysOf
  <1>6. Needed(w)'
    <2>1. \A n \in Numbers : /\ Live(w, n)' = Live(w, n) /\ KeysOf(w, n)' = KeysOf(w, n)
                             /\ amiss'[w][n] = amiss[w][n]
      BY DEF Live, KeysOf
    <2>2. \A n \in Numbers, k \in AllKeys : Needs(w, n, k) => Needs(w, n, k)'
      BY <2>1 DEF Needs
    <2> QED BY <1>5, <2>2 DEF InOrder, Needed
  <1> QED BY <1>2, <1>3, <1>4, <1>6 DEF InOrder

\* connect asks who owns what it claims.
LEMMA ConnectAsksKeeps ==
    ASSUME AccountsInv, NEW a \in Acts, NEW w \in Workspaces, NEW n \in Numbers, NEW b \in Wabas,
           ConnectAsks(a, w, n, b)
    PROVE  AccountsInv'
  <1>0. AccountsTypes /\ InOrder(w)
    BY DEF AccountsInv
  <1>1. /\ act[a] = Unused /\ installed[w] /\ Overlaps(w)
        /\ claim' = claim /\ account' = account /\ heard' = heard /\ installed' = installed
    BY DEF ConnectAsks
  <1> DEFINE new == [kind |-> "connect", step |-> "free", by |-> w, number |-> n, waba |-> b,
                     owners |-> [k \in {n, b} |-> claim[k]]]
             one == IF MayClaim(w, {claim[n], claim[b]}) THEN new ELSE Over
  <1>2. new.kind = "connect" /\ new.step = "free" /\ new.by = w /\ new.number = n /\ new.waba = b
        /\ new.owners = [k \in {n, b} |-> claim[k]]
    OBVIOUS
  <1>3. new.owners \in [{n, b} -> Workspaces \union {Nobody}]
    <2>1. n \in AllKeys /\ b \in AllKeys
      BY DEF AllKeys
    <2> QED BY <1>0, <1>2, <2>1 DEF AccountsTypes
  <1>4. new \in Connecting
    <2>1. new.owners \in UNION {[S -> Workspaces \union {Nobody}] : S \in SUBSET AllKeys}
      <3>1. {n, b} \in SUBSET AllKeys
        BY DEF AllKeys
      <3> HIDE DEF new
      <3> QED BY <3>1, <1>3
    <2> QED BY <2>1 DEF Connecting
  <1>5. act' = [act EXCEPT ![a] = one]
    BY <1>2 DEF ConnectAsks
  <1>6. one = new \/ one = Over
    OBVIOUS
  <1>7. one = new => claim[n] \in {w, Nobody} /\ claim[b] \in {w, Nobody}
    BY DEF MayClaim, Over
  <1> HIDE DEF one, new
  <1>8. one \in ActTypes
    BY <1>4, <1>6 DEF ActTypes
  <1>9. ActTyped /\ act'[a] = one /\ \A c \in Acts \ {a} : act'[c] = act[c]
    BY <1>0, <1>5, <1>8 DEF ActTyped, AccountsTypes
  <1>10. /\ AmissTyped
         /\ \A v \in Workspaces, m \in Numbers :
              amiss'[v][m] = IF Writing(w) /\ v = w THEN amiss[v][m] \union {"overlap"}
                             ELSE amiss[v][m]
    BY <1>0, <1>1, OverlapsEffect
  <1>11. AccountsTypes'
    BY <1>0, <1>1, <1>9, <1>10 DEF AccountsTypes, AmissTyped, ActTyped
  <1>12. RestrictedIsStopped'
    BY <1>1, <1>10, StaysRestricted DEF AccountsInv
  <1>13. ~Busy(a) /\ (Busy(a)' => W(a)' = w)
    BY <1>1, <1>2, <1>6, <1>9 DEF Busy, W, Unused, Over
  <1>14. Local(a, w)
    BY <1>1, <1>9, <1>10, <1>13, OnlyOwn, ZenonT(40)
  <1>15. Steady(a, w)
    BY <1>1, <1>10 DEF Steady
  <1>16. Standing(a)'
    <2>1. CASE one = Over
      BY <1>9, <2>1 DEF Standing, Busy, Over
    <2>2. CASE one = new
      <3>1. OwnersKnown(a)'
        BY <1>2, <1>7, <1>9, <2>2 DEF OwnersKnown, W
      <3> QED BY <1>1, <1>2, <1>9, <2>2, <3>1 DEF Standing, HasRecord, W, Said
    <2> QED BY <1>6, <2>1, <2>2
  <1>17. ASSUME ~Overlapped(w) PROVE InOrder(w)'
    <2>1. CASE Overlapped(w)'
      BY <2>1 DEF InOrder
    <2>2. CASE ~Overlapped(w)'
      <3>1. ~Writing(w) /\ amiss' = amiss
        BY <1>0, <1>1, <2>2, OverlapNoted
      <3>2. Writer(a, w)' => OnCourse(a)'
        <4>1. one = new => act'[a].kind = "connect" /\ act'[a].step = "free"
          BY <1>2, <1>9
        <4>2. one = Over => ~Writer(a, w)'
          BY <1>9 DEF Writer, Busy, Over
        <4> QED BY <1>6, <4>1, <4>2 DEF OnCourse, ConnectOnCourse, DisconnectOnCourse, InstallOnCourse
      <3> QED BY <1>0, <1>1, <1>9, <1>11, <1>17, <3>1, <3>2, BeginsInOrder
    <2> QED BY <2>1, <2>2
  <1> QED BY <1>11, <1>12, <1>14, <1>15, <1>16, <1>17, Composed

\* disconnect counts the other accounts of the WABA.
LEMMA DisconnectAsksKeeps ==
    ASSUME AccountsInv, NEW a \in Acts, NEW w \in Workspaces, NEW n \in Numbers,
           DisconnectAsks(a, w, n)
    PROVE  AccountsInv'
  <1>0. AccountsTypes /\ InOrder(w)
    BY DEF AccountsInv
  <1>1. /\ act[a] = Unused /\ installed[w] /\ Overlaps(w) /\ account[w][n] # NoAccount
        /\ claim' = claim /\ account' = account /\ heard' = heard /\ installed' = installed
    BY DEF DisconnectAsks
  <1> DEFINE new == [kind |-> "disconnect", by |-> w, number |-> n, waba |-> account[w][n].waba,
                     step |-> "counted", inUse |-> InUse(w, n)]
  <1>2. new.kind = "disconnect" /\ new.step = "counted" /\ new.by = w /\ new.number = n
        /\ new.waba = account[w][n].waba /\ new.inUse = InUse(w, n)
    OBVIOUS
  <1>3. account[w][n] \in Record
    BY <1>0, <1>1 DEF AccountsTypes
  <1>4. new \in Disconnecting
    <2>1. account[w][n].waba \in Wabas /\ InUse(w, n) \in BOOLEAN
      BY <1>3 DEF Record, InUse
    <2> QED BY <2>1 DEF Disconnecting
  <1>5. act' = [act EXCEPT ![a] = new]
    BY DEF DisconnectAsks
  <1> HIDE DEF new
  <1>8. new \in ActTypes
    BY <1>4 DEF ActTypes
  <1>9. ActTyped /\ act'[a] = new /\ \A c \in Acts \ {a} : act'[c] = act[c]
    BY <1>0, <1>5, <1>8 DEF ActTyped, AccountsTypes
  <1>10. /\ AmissTyped
         /\ \A v \in Workspaces, m \in Numbers :
              amiss'[v][m] = IF Writing(w) /\ v = w THEN amiss[v][m] \union {"overlap"}
                             ELSE amiss[v][m]
    BY <1>0, <1>1, OverlapsEffect
  <1>11. AccountsTypes'
    BY <1>0, <1>1, <1>9, <1>10 DEF AccountsTypes, AmissTyped, ActTyped
  <1>12. RestrictedIsStopped'
    BY <1>1, <1>10, StaysRestricted DEF AccountsInv
  <1>13. ~Busy(a) /\ (Busy(a)' => W(a)' = w)
    BY <1>1, <1>2, <1>9 DEF Busy, W, Unused
  <1>14. Local(a, w)
    BY <1>1, <1>9, <1>10, <1>13, OnlyOwn, ZenonT(40)
  <1>15. Steady(a, w)
    BY <1>1, <1>10 DEF Steady
  <1>16. Standing(a)'
    BY <1>1, <1>2, <1>9 DEF Standing, OwnersKnown, W, N
  <1>17. ASSUME ~Overlapped(w) PROVE InOrder(w)'
    <2>1. CASE Overlapped(w)'
      BY <2>1 DEF InOrder
    <2>2. CASE ~Overlapped(w)'
      <3>1. ~Writing(w) /\ amiss' = amiss
        BY <1>0, <1>1, <2>2, OverlapNoted
      <3>2. DisconnectOnCourse(a)'
        <4>1. (InUse(w, n) => OthersOn(a)' # {}) /\ (~InUse(w, n) => OthersOn(a)' = {})
          BY <1>1, <1>2, <1>9 DEF InUse, OthersOn, W, N, Live
        <4> QED BY <1>1, <1>2, <1>9, <4>1 DEF DisconnectOnCourse, Mine, W, N
      <3>3. Writer(a, w)' => OnCourse(a)'
        BY <1>2, <1>9, <3>2 DEF OnCourse, ConnectOnCourse, InstallOnCourse
      <3> QED BY <1>0, <1>1, <1>9, <1>11, <1>17, <3>1, <3>3, BeginsInOrder
    <2> QED BY <2>1, <2>2
  <1> QED BY <1>11, <1>12, <1>14, <1>15, <1>16, <1>17, Composed

\* What a connect carries, and the record it has made.
LEMMA ConnectFacts ==
    ASSUME AccountsInv, NEW a \in Acts, act[a].kind = "connect"
    PROVE  /\ act[a] \in Connecting /\ Busy(a) /\ Writer(a, W(a))
           /\ W(a) \in Workspaces /\ N(a) \in Numbers /\ act[a].waba \in Wabas
           /\ N(a) \in AllKeys /\ act[a].waba \in AllKeys /\ N(a) # act[a].waba
           /\ act[a].owners[N(a)] \in {W(a), Nobody}
           /\ act[a].owners[act[a].waba] \in {W(a), Nobody}
           /\ installed[W(a)]
           /\ act[a].step # "free" => Mine(a) # NoAccount /\ Mine(a) \in Record
  <1>1. AccountsTypes /\ Standing(a)
    BY DEF AccountsInv
  <1>2. act[a] \in Connecting /\ Busy(a)
    BY <1>1, RequestKinds
  <1>3. W(a) \in Workspaces /\ N(a) \in Numbers /\ act[a].waba \in Wabas
    BY <1>2, KindsOf DEF W, N
  <1>4. N(a) \in AllKeys /\ act[a].waba \in AllKeys /\ N(a) # act[a].waba
    BY <1>3, AccountsAssumption DEF AllKeys
  <1>5. OwnersKnown(a) /\ installed[W(a)]
    BY <1>1, <1>2, <1>3 DEF Standing, AccountsTypes
  <1>6. act[a].step # "free" => Mine(a) # NoAccount
    BY <1>1, <1>2 DEF Standing, HasRecord, Mine
  <1>7. Mine(a) \in Record \union {NoAccount}
    BY <1>1, <1>3 DEF AccountsTypes, Mine
  <1> QED BY <1>2, <1>3, <1>4, <1>5, <1>6, <1>7 DEF OwnersKnown, Writer, N

\* What a disconnect carries, and the record it works on.
LEMMA DisconnectFacts ==
    ASSUME AccountsInv, NEW a \in Acts, act[a].kind = "disconnect"
    PROVE  /\ act[a] \in Disconnecting /\ Busy(a) /\ Writer(a, W(a))
           /\ W(a) \in Workspaces /\ N(a) \in Numbers /\ act[a].waba \in Wabas
           /\ N(a) \in AllKeys /\ act[a].waba \in AllKeys /\ N(a) # act[a].waba
           /\ act[a].inUse \in BOOLEAN
           /\ installed[W(a)]
           /\ Mine(a) # NoAccount /\ Mine(a) \in Record
  <1>1. AccountsTypes /\ Standing(a)
    BY DEF AccountsInv
  <1>2. act[a] \in Disconnecting /\ Busy(a)
    BY <1>1, RequestKinds
  <1>3. W(a) \in Workspaces /\ N(a) \in Numbers /\ act[a].waba \in Wabas /\ act[a].inUse \in BOOLEAN
    BY <1>2, KindsOf DEF W, N
  <1>4. N(a) \in AllKeys /\ act[a].waba \in AllKeys /\ N(a) # act[a].waba
    BY <1>3, AccountsAssumption DEF AllKeys
  <1>5. installed[W(a)]
    BY <1>1, <1>2, <1>3 DEF Standing, AccountsTypes
  <1>6. Mine(a) # NoAccount
    BY <1>1, <1>2 DEF Standing, HasRecord, Mine
  <1>7. Mine(a) \in Record \union {NoAccount}
    BY <1>1, <1>3 DEF AccountsTypes, Mine
  <1> QED BY <1>2, <1>3, <1>4, <1>5, <1>6, <1>7 DEF Writer

\* While nothing overlaps, the request has its workspace to itself.
LEMMA Sole ==
    ASSUME AccountsInv, NEW a \in Acts, NEW w \in Workspaces, Writer(a, w), ~Overlapped(w),
           \A b \in Acts \ {a} : act'[b] = act[b]
    PROVE  /\ installed[w] /\ OnCourse(a)
           /\ \A n \in Numbers :
                Live(w, n) => Holds(w, n) \/ Excused(w, n) \/ Handles(a, n)
           /\ \A k \in AllKeys :
                claim[k] = w => (\E n \in Numbers : Needs(w, n, k)) \/ Pends(a, w, k)
           /\ \A b \in Acts \ {a} : ~Writer(b, w)'
  <1>1. Alone(w) /\ Reached(w) /\ Needed(w) /\ \A b \in Acts : Writer(b, w) => OnCourse(b)
    BY DEF AccountsInv, InOrder
  <1>2. installed[w]
    BY DEF AccountsInv, Standing, Writer, AccountsTypes
  <1>3. \A b \in Acts \ {a} : ~Writer(b, w)
    BY <1>1 DEF Alone
  <1>4. \A b \in Acts \ {a} : ~Writer(b, w)'
    <2> SUFFICES ASSUME NEW b \in Acts \ {a}, Writer(b, w)' PROVE FALSE
      OBVIOUS
    <2>1. act'[b] = act[b]
      OBVIOUS
    <2> QED BY <2>1, <1>3 DEF Writer, Busy, W
  <1>5. \A b \in Acts \ {a} : \A k \in AllKeys : ~Pends(b, w, k)
    <2> SUFFICES ASSUME NEW b \in Acts \ {a}, NEW k \in AllKeys, Pends(b, w, k) PROVE FALSE
      OBVIOUS
    <2>1. Busy(b) /\ W(b) = w /\ (act[b].kind = "connect" \/ act[b].kind = "uninstall")
      BY DEF Pends
    <2>2. act[b].kind # "connect"
      BY <2>1, <1>3 DEF Writer
    <2>3. installed[w] = (act[b].kind # "uninstall")
      BY <2>1 DEF AccountsInv, Standing
    <2> QED BY <2>1, <2>2, <2>3, <1>2
  <1>6. \A n \in Numbers : Live(w, n) => Holds(w, n) \/ Excused(w, n) \/ Handles(a, n)
    BY <1>1, <1>2, <1>3 DEF Reached
  <1>7. \A k \in AllKeys :
            claim[k] = w => (\E n \in Numbers : Needs(w, n, k)) \/ Pends(a, w, k)
    BY <1>1, <1>5 DEF Needed
  <1> QED BY <1>1, <1>2, <1>4, <1>6, <1>7

\* So its workspace is in order when its own part is.
LEMMA SoleInOrder ==
    ASSUME NEW a \in Acts, NEW w \in Workspaces,
           \A b \in Acts \ {a} : ~Writer(b, w)',
           Reached(w)', Needed(w)', Writer(a, w)' => OnCourse(a)'
    PROVE  InOrder(w)'
  BY DEF InOrder, Alone

\* The record is made, or follows its number.
LEMMA RecordsEffect ==
    ASSUME AccountsInv, NEW a \in Acts, ConnectRecords(a)
    PROVE  /\ AccountTyped
           /\ account'[W(a)][N(a)] \in Record
           /\ account'[W(a)][N(a)].status =
                  IF Mine(a) = NoAccount THEN "PENDING" ELSE Mine(a).status
           /\ account'[W(a)][N(a)].waba = act[a].waba
           /\ \A v \in Workspaces, n \in Numbers :
                v # W(a) \/ n # N(a) => account'[v][n] = account[v][n]
           /\ \A v \in Workspaces \ {W(a)} : account'[v] = account[v]
  <1>1. account \in [Workspaces -> [Numbers -> Record \union {NoAccount}]]
    BY DEF AccountsTypes, AccountsInv
  <1>0. W(a) \in Workspaces /\ N(a) \in Numbers /\ act[a].waba \in Wabas
    BY ConnectFacts DEF ConnectRecords, Doing
  <1> DEFINE one == IF account[W(a)][N(a)] = NoAccount
                    THEN [status |-> "PENDING", waba |-> act[a].waba]
                    ELSE [account[W(a)][N(a)] EXCEPT !.waba = act[a].waba]
             row == [account[W(a)] EXCEPT ![N(a)] = one]
  <1>2. account[W(a)][N(a)] \in Record \union {NoAccount}
    BY <1>0, <1>1
  <1>3. /\ one \in Record /\ one.waba = act[a].waba
        /\ one.status = IF account[W(a)][N(a)] = NoAccount THEN "PENDING"
                        ELSE account[W(a)][N(a)].status
    BY <1>0, <1>2 DEF Record
  <1>4. account' = [account EXCEPT ![W(a)] = row]
    BY <1>0, <1>1 DEF ConnectRecords
  <1> HIDE DEF one
  <1>5. row \in [Numbers -> Record \union {NoAccount}]
    BY <1>0, <1>1, <1>3
  <1>6. row[N(a)] = one /\ \A n \in Numbers \ {N(a)} : row[n] = account[W(a)][n]
    BY <1>0, <1>1
  <1> HIDE DEF row
  <1> QED BY <1>0, <1>1, <1>3, <1>4, <1>5, <1>6 DEF AccountTyped, Mine

\* connect makes the record: from here on it handles it.
LEMMA ConnectRecordsKeeps ==
    ASSUME AccountsInv, NEW a \in Acts, NEW w \in Workspaces, NEW n \in Numbers,
           W(a) = w, N(a) = n, ConnectRecords(a)
    PROVE  AccountsInv'
  <1>0. AccountsTypes /\ InOrder(w)
    BY ConnectFacts DEF AccountsInv, ConnectRecords, Doing
  <1>1. /\ act[a].kind = "connect" /\ act[a].step = "free"
        /\ claim' = claim /\ heard' = heard /\ installed' = installed
        /\ Goes(a, "recorded")
        /\ Amiss(a, "moved", Mine(a) # NoAccount /\ Mine(a).waba # act[a].waba)
    BY DEF ConnectRecords, Doing
  <1>2. /\ act[a] \in Connecting /\ Busy(a) /\ Writer(a, w)
        /\ w \in Workspaces /\ n \in Numbers /\ act[a].waba \in Wabas
        /\ n \in AllKeys /\ act[a].waba \in AllKeys /\ n # act[a].waba
        /\ act[a].owners[n] \in {w, Nobody}
        /\ act[a].owners[act[a].waba] \in {w, Nobody}
        /\ installed[w]
    BY <1>1, ConnectFacts
  <1>3. /\ AccountTyped
        /\ account'[w][n] \in Record
        /\ account'[w][n].status = IF Mine(a) = NoAccount THEN "PENDING" ELSE Mine(a).status
        /\ account'[w][n].waba = act[a].waba
        /\ \A v \in Workspaces, m \in Numbers :
             v # w \/ m # n => account'[v][m] = account[v][m]
        /\ \A v \in Workspaces \ {w} : account'[v] = account[v]
    BY RecordsEffect
  <1>4. /\ ActTyped
        /\ \A b \in Acts \ {a} : act'[b] = act[b]
        /\ act'[a].step = "recorded" /\ act'[a].kind = act[a].kind
        /\ act'[a].by = act[a].by /\ act'[a].number = act[a].number
        /\ act'[a].waba = act[a].waba
        /\ act'[a] \in Connecting /\ act'[a].owners = act[a].owners
    BY <1>0, <1>1, <1>2, GoesEffect
  <1>5. /\ AmissTyped
        /\ \A v \in Workspaces, m \in Numbers :
             amiss'[v][m] =
               IF (Mine(a) # NoAccount /\ Mine(a).waba # act[a].waba) /\ v = W(a) /\ m = N(a)
               THEN amiss[v][m] \union {"moved"} ELSE amiss[v][m]
    <2>1. "moved" \in Causes
      BY DEF Causes
    <2>2. PICK when : /\ when = (Mine(a) # NoAccount /\ Mine(a).waba # act[a].waba)
                      /\ Amiss(a, "moved", when)
      BY <1>1, Zenon
    <2>3. Noted(a, "moved", when)
      BY <1>0, <1>2, <2>1, <2>2, AmissEffect, Zenon
    <2> QED BY <2>2, <2>3 DEF Noted
  <1>6. AccountsTypes'
    BY <1>0, <1>1, <1>3, <1>4, <1>5 DEF AccountsTypes, AmissTyped, ActTyped, AccountTyped
  <1>7. \A v \in Workspaces, m \in Numbers : amiss[v][m] \subseteq amiss'[v][m]
    BY <1>5
  <1>8. W(a)' = w /\ N(a)' = n /\ Busy(a)'
    BY <1>4 DEF W, N, Busy
  <1>9. \A v \in Workspaces, m \in Numbers :
            account'[v][m].status = "CONNECTED" => account[v][m].status = "CONNECTED"
    BY <1>3 DEF Mine
  <1>10. RestrictedIsStopped'
    BY <1>1, <1>7, <1>9, StaysRestricted DEF AccountsInv
  <1>11. Local(a, w)
    BY <1>1, <1>2, <1>3, <1>4, <1>7, <1>8, OnlyOwn
  <1>12. Steady(a, w)
    <2>1. \A m \in Numbers : account[w][m] # NoAccount => account'[w][m] # NoAccount
      <3>1. account'[w][n] # NoAccount
        BY <1>3 DEF Record, NoAccount
      <3> QED BY <1>2, <1>3, <3>1
    <2> QED BY <1>1, <1>2, <1>7, <2>1 DEF Steady
  <1>13. Standing(a)'
    <2>1. OwnersKnown(a)'
      BY <1>0, <1>2, <1>4, <1>8 DEF AccountsInv, Standing, OwnersKnown, W
    <2>2. account'[w][n] # NoAccount
      BY <1>3 DEF Record, NoAccount
    <2> QED BY <1>1, <1>2, <1>4, <1>8, <2>1, <2>2 DEF Standing
  <1>14. ASSUME ~Overlapped(w) PROVE InOrder(w)'
    <2>1. /\ OnCourse(a)
          /\ \A m \in Numbers : Live(w, m) => Holds(w, m) \/ Excused(w, m) \/ Handles(a, m)
          /\ \A k \in AllKeys :
                claim[k] = w => (\E m \in Numbers : Needs(w, m, k)) \/ Pends(a, w, k)
          /\ \A b \in Acts \ {a} : ~Writer(b, w)'
      BY <1>2, <1>4, <1>14, Sole
    <2>2. Writer(a, w)'
      BY <1>1, <1>4, <1>8 DEF Writer
    <2>3. \A m \in Numbers : Handles(a, m) => FALSE
      BY <1>1 DEF Handles
    <2>4. Handles(a, n)'
      BY <1>1, <1>4, <1>8 DEF Handles, N
    <2>5. Reached(w)'
      <3> SUFFICES ASSUME NEW m \in Numbers, Live(w, m)'
                   PROVE  Holds(w, m)' \/ Excused(w, m)' \/ (\E b \in Acts : Writer(b, w) /\ Handles(b, m))'
        BY DEF Reached
      <3>1. CASE m = n
        BY <2>2, <2>4, <3>1
      <3>2. CASE m # n
        <4>1. account'[w][m] = account[w][m] /\ amiss[w][m] \subseteq amiss'[w][m]
          BY <1>2, <1>3, <1>7, <3>2
        <4> QED BY <1>1, <2>1, <2>3, <4>1 DEF Live, Holds, Excused
      <3> QED BY <3>1, <3>2
    <2>6. Needed(w)'
      <3> SUFFICES ASSUME NEW k \in AllKeys, claim'[k] = w
                   PROVE  (\E m \in Numbers : Needs(w, m, k)') \/ Pends(a, w, k)'
        BY DEF Needed
      <3>1. ~Pends(a, w, k)
        BY <1>1 DEF Pends
      <3>2. PICK m \in Numbers : Needs(w, m, k)
        BY <1>1, <2>1, <3>1
      <3>3. CASE m # n
        <4>1. account'[w][m] = account[w][m] /\ amiss[w][m] \subseteq amiss'[w][m]
          BY <1>2, <1>3, <1>7, <3>3
        <4> QED BY <1>1, <3>2, <4>1 DEF Needs, Live, KeysOf
      <3>4. CASE m = n
        <4>1. amiss[w][n] \subseteq amiss'[w][n]
          BY <1>2, <1>7
        <4>2. CASE Mine(a) # NoAccount /\ Mine(a).waba # act[a].waba
          <5>1. "moved" \in amiss'[w][n]
            BY <1>2, <1>5, <4>2
          <5> QED BY <1>2, <5>1 DEF Needs
        <4>3. CASE Mine(a) # NoAccount /\ Mine(a).waba = act[a].waba
          <5>1. /\ account'[w][n].waba = account[w][n].waba
                /\ account'[w][n].status = account[w][n].status
            BY <1>3, <4>3 DEF Mine
          <5> QED BY <1>1, <3>2, <3>4, <4>1, <5>1 DEF Needs, Live, KeysOf
        <4>4. CASE Mine(a) = NoAccount
          <5>1. account[w][n] = NoAccount
            BY <4>4 DEF Mine
          <5>2. k # Nobody
            BY AccountsAssumption DEF AllKeys
          <5>3. k \in KeysOf(w, n) => k = n
            BY <5>1, <5>2 DEF KeysOf, NoAccount
          <5>4. ~Live(w, n)
            BY <5>1 DEF Live, NoAccount
          <5>5. n \in KeysOf(w, n)'
            BY DEF KeysOf
          <5> QED BY <3>2, <3>4, <4>1, <5>3, <5>4, <5>5 DEF Needs
        <4> QED BY <4>2, <4>3, <4>4
      <3> QED BY <3>3, <3>4
    <2>7. OnCourse(a)'
      <3>1. Mine(a)'.waba = act'[a].waba
        BY <1>3, <1>4, <1>8 DEF Mine
      <3> QED BY <1>1, <1>4, <3>1 DEF OnCourse, ConnectOnCourse, DisconnectOnCourse, InstallOnCourse
    <2> QED BY <1>2, <2>1, <2>5, <2>6, <2>7, SoleInOrder
  <1> QED BY <1>2, <1>6, <1>10, <1>11, <1>12, <1>13, <1>14, Composed

\* All of the invariant but the order of the act's own workspace.
Sound(a, w) ==
    /\ AccountsTypes' /\ RestrictedIsStopped' /\ Local(a, w) /\ Steady(a, w) /\ Standing(a)'

\* A step of a connect that has its record, and leaves the records alone.
LEMMA ConnectStep ==
    ASSUME AccountsInv, NEW a \in Acts, NEW w \in Workspaces, NEW n \in Numbers,
           W(a) = w, N(a) = n, act[a].kind = "connect", act[a].step # "free",
           NEW s \in {"phone", "claimed", "unclaimed", "done"}, Goes(a, s),
           account' = account, heard' = heard, installed' = installed,
           ClaimTyped, AmissTyped,
           \A v \in Workspaces, m \in Numbers : amiss[v][m] \subseteq amiss'[v][m],
           \A v \in Workspaces \ {w} : \A k \in AllKeys : claim'[k] = v => claim[k] = v,
           \A v \in Workspaces \ {w} : \A k \in AllKeys :
              claim[k] = v => claim'[k] = v \/ \A m \in Numbers : "race" \in amiss'[v][m]
    PROVE  /\ Sound(a, w)
           /\ s = "done" => act'[a] = Over
           /\ s # "done" => /\ act'[a].step = s /\ act'[a].kind = "connect"
                            /\ act'[a].by = w /\ act'[a].number = n
                            /\ act'[a].waba = act[a].waba
  <1>0. AccountsTypes /\ Standing(a)
    BY DEF AccountsInv
  <1>1. act[a] \in Connecting /\ Busy(a) /\ act[a].by = w /\ act[a].number = n
    BY ConnectFacts DEF W, N
  <1>2. /\ ActTyped
        /\ \A b \in Acts \ {a} : act'[b] = act[b]
        /\ s = "done" => act'[a] = Over
        /\ s # "done" => /\ act'[a].step = s /\ act'[a].kind = act[a].kind
                         /\ act'[a].by = act[a].by /\ act'[a].number = act[a].number
                         /\ act'[a].waba = act[a].waba /\ act'[a].owners = act[a].owners
    BY <1>0, <1>1, GoesEffect
  <1>3. AccountsTypes'
    BY <1>0, <1>2 DEF AccountsTypes, ActTyped, AmissTyped, ClaimTyped
  <1>4. RestrictedIsStopped'
    BY StaysRestricted DEF AccountsInv
  <1>5. Busy(a)' => s # "done"
    BY <1>2 DEF Busy, Over
  <1>6. s # "done" => W(a)' = w /\ N(a)' = n
    BY <1>1, <1>2 DEF W, N
  <1>7. Local(a, w)
    BY <1>1, <1>2, <1>5, <1>6 DEF Local
  <1>8. Steady(a, w)
    BY DEF Steady
  <1>9. Standing(a)'
    <2> SUFFICES ASSUME s # "done" PROVE Standing(a)'
      BY <1>5 DEF Standing
    <2>1. OwnersKnown(a) /\ installed[w] = TRUE /\ account[w][n] # NoAccount
      BY <1>0, <1>1 DEF Standing, HasRecord
    <2>2. OwnersKnown(a)'
      BY <1>1, <1>2, <1>6, <2>1 DEF OwnersKnown
    <2> QED BY <1>2, <1>6, <2>1, <2>2 DEF Standing
  <1> QED BY <1>1, <1>2, <1>3, <1>4, <1>7, <1>8, <1>9 DEF Sound

\* Such a step that writes a claim.
LEMMA ConnectClaims ==
    ASSUME AccountsInv, NEW a \in Acts, NEW w \in Workspaces, NEW n \in Numbers,
           W(a) = w, N(a) = n, act[a].kind = "connect", act[a].step # "free",
           NEW s \in {"phone", "claimed", "unclaimed", "done"}, Goes(a, s),
           NEW k \in {n, act[a].waba}, NEW owner \in {w, Nobody}, Claim(a, k, owner)
    PROVE  /\ Sound(a, w)
           /\ s = "done" => act'[a] = Over
           /\ s # "done" => /\ act'[a].step = s /\ act'[a].kind = "connect"
                            /\ act'[a].by = w /\ act'[a].number = n
                            /\ act'[a].waba = act[a].waba
           /\ \A b \in Acts \ {a} : act'[b] = act[b]
           /\ account' = account /\ installed' = installed
           /\ claim'[k] = owner /\ \A h \in AllKeys \ {k} : claim'[h] = claim[h]
           /\ \A m \in Numbers : /\ amiss[w][m] \subseteq amiss'[w][m]
                                 /\ owner = Nobody => "unproven" \in amiss'[w][m]
  <1>0. AccountsTypes
    BY DEF AccountsInv
  <1>1. act[a].owners[k] \in {w, Nobody} /\ k \in AllKeys
    BY ConnectFacts
  <1>2. /\ ClaimTyped /\ AmissTyped
        /\ claim'[k] = owner /\ \A h \in AllKeys \ {k} : claim'[h] = claim[h]
        /\ \A v \in Workspaces, m \in Numbers :
             /\ amiss[v][m] \subseteq amiss'[v][m]
             /\ v # w /\ claim[k] = v => "race" \in amiss'[v][m]
             /\ v = w /\ owner = Nobody => "unproven" \in amiss'[v][m]
        /\ account' = account /\ heard' = heard /\ installed' = installed
    BY <1>0, <1>1, ClaimEffect
  <1>3. \A v \in Workspaces \ {w} : \A h \in AllKeys : claim'[h] = v => claim[h] = v
    BY <1>2, AccountsAssumption
  <1>4. \A v \in Workspaces \ {w} : \A h \in AllKeys :
            claim[h] = v => claim'[h] = v \/ \A m \in Numbers : "race" \in amiss'[v][m]
    BY <1>2
  <1>5. \A b \in Acts \ {a} : act'[b] = act[b]
    BY <1>0, ConnectFacts DEF Goes, AccountsTypes
  <1>6. /\ Sound(a, w)
        /\ s = "done" => act'[a] = Over
        /\ s # "done" => /\ act'[a].step = s /\ act'[a].kind = "connect"
                         /\ act'[a].by = w /\ act'[a].number = n
                         /\ act'[a].waba = act[a].waba
    BY <1>2, <1>3, <1>4, ConnectStep
  <1> QED BY <1>1, <1>2, <1>5, <1>6

\* What is left to show of a step is the order of its workspace.
LEMMA SoundComposed ==
    ASSUME AccountsInv, NEW a \in Acts, NEW w \in Workspaces, Sound(a, w),
           ~Overlapped(w) => InOrder(w)'
    PROVE  AccountsInv'
  BY Composed DEF Sound

\* What stays needed while the records and the causes stay.
LEMMA NeedsStays ==
    ASSUME NEW w \in Workspaces, account' = account, installed' = installed,
           \A m \in Numbers : amiss[w][m] \subseteq amiss'[w][m]
    PROVE  /\ \A m \in Numbers : \A k \in AllKeys : Needs(w, m, k) => Needs(w, m, k)'
           /\ \A m \in Numbers : Excused(w, m) => Excused(w, m)'
           /\ \A m \in Numbers : Live(w, m)' = Live(w, m)
  BY DEF Needs, KeysOf, Live, Excused

\* connect claims the number,
LEMMA ClaimPhoneKeeps ==
    ASSUME AccountsInv, NEW a \in Acts, NEW w \in Workspaces, NEW n \in Numbers,
           W(a) = w, N(a) = n, ClaimPhone(a)
    PROVE  AccountsInv'
  <1>1. /\ act[a].kind = "connect" /\ act[a].step = "recorded"
        /\ Claim(a, n, w) /\ Goes(a, "phone")
    BY DEF ClaimPhone, Doing
  <1>2. /\ Writer(a, w) /\ n \in AllKeys /\ act[a].waba \in AllKeys /\ n # act[a].waba
        /\ act[a].number = n
    BY <1>1, ConnectFacts DEF N
  <1>3. /\ Sound(a, w)
        /\ act'[a].step = "phone" /\ act'[a].kind = "connect"
        /\ act'[a].by = w /\ act'[a].number = n /\ act'[a].waba = act[a].waba
        /\ \A b \in Acts \ {a} : act'[b] = act[b]
        /\ account' = account /\ installed' = installed
        /\ claim'[n] = w /\ \A h \in AllKeys \ {n} : claim'[h] = claim[h]
        /\ \A m \in Numbers : amiss[w][m] \subseteq amiss'[w][m]
    BY <1>1, ConnectClaims
  <1>4. W(a)' = w /\ N(a)' = n /\ Busy(a)'
    BY <1>3 DEF W, N, Busy
  <1> SUFFICES ASSUME ~Overlapped(w) PROVE InOrder(w)'
    BY <1>3, SoundComposed
  <1>5. /\ OnCourse(a)
        /\ \A m \in Numbers : Live(w, m) => Holds(w, m) \/ Excused(w, m) \/ Handles(a, m)
        /\ \A k \in AllKeys :
              claim[k] = w => (\E m \in Numbers : Needs(w, m, k)) \/ Pends(a, w, k)
        /\ \A b \in Acts \ {a} : ~Writer(b, w)'
    BY <1>2, <1>3, Sole
  <1>6. /\ \A m \in Numbers : \A k \in AllKeys : Needs(w, m, k) => Needs(w, m, k)'
        /\ \A m \in Numbers : Excused(w, m) => Excused(w, m)'
        /\ \A m \in Numbers : Live(w, m)' = Live(w, m)
    BY <1>3, NeedsStays
  <1>7. Writer(a, w)' /\ \A m \in Numbers : Handles(a, m) => Handles(a, m)'
    BY <1>1, <1>2, <1>3, <1>4 DEF Writer, Handles
  <1>8. \A m \in Numbers : Live(w, m) /\ Holds(w, m) => Holds(w, m)'
    <2> SUFFICES ASSUME NEW m \in Numbers, Live(w, m), Holds(w, m) PROVE Holds(w, m)'
      OBVIOUS
    <2>1. m \in AllKeys /\ account[w][m].waba \in AllKeys
      BY DEF AccountsInv, AccountsTypes, Record, NoAccount, Live, AllKeys
    <2> QED BY <1>3, <2>1 DEF Holds
  <1>9. Reached(w)'
    BY <1>5, <1>6, <1>7, <1>8 DEF Reached
  <1>10. Needed(w)'
    <2>1. \A k \in AllKeys : Pends(a, w, k) => Pends(a, w, k)'
      BY <1>1, <1>2, <1>3, <1>4 DEF Pends
    <2>2. Pends(a, w, n)'
      BY <1>3, <1>4 DEF Pends
    <2> QED BY <1>3, <1>5, <1>6, <2>1, <2>2 DEF Needed
  <1>11. OnCourse(a)'
    <2>1. Mine(a).waba = act[a].waba
      BY <1>1, <1>5 DEF OnCourse, ConnectOnCourse
    <2>2. Mine(a)'.waba = act'[a].waba
      BY <1>3, <1>4, <2>1 DEF Mine
    <2> QED BY <1>3, <1>4, <2>2 DEF OnCourse, ConnectOnCourse, DisconnectOnCourse, InstallOnCourse
  <1> QED BY <1>5, <1>9, <1>10, <1>11, SoleInOrder

\* ... then the WABA: the record is reached.
LEMMA ClaimWabaKeeps ==
    ASSUME AccountsInv, NEW a \in Acts, NEW w \in Workspaces, NEW n \in Numbers,
           W(a) = w, N(a) = n, ClaimWaba(a)
    PROVE  AccountsInv'
  <1>1. /\ act[a].kind = "connect" /\ act[a].step = "phone"
        /\ Claim(a, act[a].waba, w) /\ Goes(a, "claimed")
    BY DEF ClaimWaba, Doing
  <1>2. /\ Writer(a, w) /\ n \in AllKeys /\ act[a].waba \in AllKeys /\ n # act[a].waba
        /\ act[a].number = n
    BY <1>1, ConnectFacts DEF N
  <1>3. /\ Sound(a, w)
        /\ act'[a].step = "claimed" /\ act'[a].kind = "connect"
        /\ act'[a].by = w /\ act'[a].number = n /\ act'[a].waba = act[a].waba
        /\ \A b \in Acts \ {a} : act'[b] = act[b]
        /\ account' = account /\ installed' = installed
        /\ claim'[act[a].waba] = w /\ \A h \in AllKeys \ {act[a].waba} : claim'[h] = claim[h]
        /\ \A m \in Numbers : amiss[w][m] \subseteq amiss'[w][m]
    BY <1>1, ConnectClaims
  <1>4. W(a)' = w /\ N(a)' = n /\ Busy(a)'
    BY <1>3 DEF W, N, Busy
  <1> SUFFICES ASSUME ~Overlapped(w) PROVE InOrder(w)'
    BY <1>3, SoundComposed
  <1>5. /\ OnCourse(a)
        /\ \A m \in Numbers : Live(w, m) => Holds(w, m) \/ Excused(w, m) \/ Handles(a, m)
        /\ \A k \in AllKeys :
              claim[k] = w => (\E m \in Numbers : Needs(w, m, k)) \/ Pends(a, w, k)
        /\ \A b \in Acts \ {a} : ~Writer(b, w)'
    BY <1>2, <1>3, Sole
  <1>6. /\ \A m \in Numbers : \A k \in AllKeys : Needs(w, m, k) => Needs(w, m, k)'
        /\ \A m \in Numbers : Excused(w, m) => Excused(w, m)'
        /\ \A m \in Numbers : Live(w, m)' = Live(w, m)
    BY <1>3, NeedsStays
  <1>7. \A m \in Numbers : Handles(a, m) => m = n
    BY <1>1, <1>2 DEF Handles
  <1>8. \A m \in Numbers : Live(w, m) /\ Holds(w, m) => Holds(w, m)'
    <2> SUFFICES ASSUME NEW m \in Numbers, Live(w, m), Holds(w, m) PROVE Holds(w, m)'
      OBVIOUS
    <2>1. m \in AllKeys /\ account[w][m].waba \in AllKeys
      BY DEF AccountsInv, AccountsTypes, Record, NoAccount, Live, AllKeys
    <2> QED BY <1>3, <2>1 DEF Holds
  <1>12. /\ Mine(a).waba = act[a].waba
         /\ claim[n] = w \/ Excused(w, n)
    BY <1>1, <1>5 DEF OnCourse, ConnectOnCourse
  <1>13. (claim'[n] = w /\ claim'[act[a].waba] = w) \/ Excused(w, n)'
    BY <1>2, <1>3, <1>6, <1>12
  <1>14. account[w][n].waba = act[a].waba
    BY <1>12 DEF Mine
  <1>15. Holds(w, n)' \/ Excused(w, n)'
    BY <1>3, <1>13, <1>14 DEF Holds
  <1>9. Reached(w)'
    BY <1>5, <1>6, <1>7, <1>8, <1>15 DEF Reached
  <1>10. Needed(w)'
    <2>1. \A k \in AllKeys : Pends(a, w, k) => Pends(a, w, k)'
      BY <1>1, <1>2, <1>3, <1>4 DEF Pends
    <2>2. Pends(a, w, act[a].waba)'
      BY <1>3, <1>4 DEF Pends
    <2> QED BY <1>3, <1>5, <1>6, <2>1, <2>2 DEF Needed
  <1>11. OnCourse(a)'
    <2>2. Mine(a)'.waba = act'[a].waba
      BY <1>3, <1>4, <1>12 DEF Mine
    <2>3. ConnectOnCourse(a)'
      BY <1>3, <1>4, <1>13, <2>2 DEF ConnectOnCourse
    <2> QED BY <1>3, <2>3 DEF OnCourse, DisconnectOnCourse, InstallOnCourse
  <1> QED BY <1>5, <1>9, <1>10, <1>11, SoleInOrder

\* The rollback: the claims go, and every number of the workspace is told.
LEMMA RollbackInOrder ==
    ASSUME AccountsInv, NEW a \in Acts, NEW w \in Workspaces, NEW n \in Numbers,
           W(a) = w, N(a) = n, act[a].kind = "connect", act[a].step \in {"failed", "unclaimed"},
           Sound(a, w), Writer(a, w)' => OnCourse(a)',
           \A b \in Acts \ {a} : act'[b] = act[b],
           account' = account, installed' = installed,
           \A k \in AllKeys : claim'[k] = w => claim[k] = w,
           claim' = claim \/ \A m \in Numbers : "unproven" \in amiss'[w][m],
           \A m \in Numbers : amiss[w][m] \subseteq amiss'[w][m]
    PROVE  AccountsInv'
  <1>2. Writer(a, w)
    BY ConnectFacts
  <1> SUFFICES ASSUME ~Overlapped(w) PROVE InOrder(w)'
    BY SoundComposed
  <1>5. /\ \A m \in Numbers : Live(w, m) => Holds(w, m) \/ Excused(w, m) \/ Handles(a, m)
        /\ \A k \in AllKeys :
              claim[k] = w => (\E m \in Numbers : Needs(w, m, k)) \/ Pends(a, w, k)
        /\ \A b \in Acts \ {a} : ~Writer(b, w)'
    BY <1>2, Sole
  <1>6. /\ \A m \in Numbers : \A k \in AllKeys : Needs(w, m, k) => Needs(w, m, k)'
        /\ \A m \in Numbers : Excused(w, m) => Excused(w, m)'
        /\ \A m \in Numbers : Live(w, m)' = Live(w, m)
    BY NeedsStays
  <1>7. \A m \in Numbers : ~Handles(a, m)
    BY DEF Handles
  <1>8. \A k \in AllKeys : ~Pends(a, w, k)
    BY DEF Pends
  <1>9. Reached(w)'
    <2>1. CASE claim' = claim
      BY <1>5, <1>6, <1>7, <2>1 DEF Reached, Holds
    <2>2. CASE \A m \in Numbers : "unproven" \in amiss'[w][m]
      BY <2>2 DEF Reached, Excused, Lost
    <2> QED BY <2>1, <2>2
  <1>10. Needed(w)'
    BY <1>5, <1>6, <1>8 DEF Needed
  <1> QED BY <1>5, <1>9, <1>10, SoleInOrder

\* The rollback of the number,
LEMMA UnclaimPhoneKeeps ==
    ASSUME AccountsInv, NEW a \in Acts, NEW w \in Workspaces, NEW n \in Numbers,
           W(a) = w, N(a) = n, UnclaimPhone(a)
    PROVE  AccountsInv'
  <1>1. act[a].kind = "connect" /\ act[a].step = "failed" /\ Goes(a, "unclaimed")
    BY DEF UnclaimPhone, Doing
  <1>0. AccountsTypes /\ n \in AllKeys /\ Nobody # w
    BY <1>1, ConnectFacts, AccountsAssumption DEF AccountsInv
  <1>2. CASE Claim(a, n, Nobody)
    <2>1. /\ Sound(a, w)
          /\ act'[a].step = "unclaimed" /\ act'[a].kind = "connect"
          /\ \A b \in Acts \ {a} : act'[b] = act[b]
          /\ account' = account /\ installed' = installed
          /\ claim'[n] = Nobody /\ \A h \in AllKeys \ {n} : claim'[h] = claim[h]
          /\ \A m \in Numbers : amiss[w][m] \subseteq amiss'[w][m] /\ "unproven" \in amiss'[w][m]
      BY <1>1, <1>2, ConnectClaims
    <2>2. \A k \in AllKeys : claim'[k] = w => claim[k] = w
      BY <1>0, <2>1
    <2>3. Writer(a, w)' => OnCourse(a)'
      BY <2>1 DEF OnCourse, ConnectOnCourse, DisconnectOnCourse, InstallOnCourse
    <2>4. claim' = claim \/ \A m \in Numbers : "unproven" \in amiss'[w][m]
      BY <2>1
    <2>5. act[a].step \in {"failed", "unclaimed"} /\ act[a].kind = "connect"
      BY <1>1
    <2>6. \A m \in Numbers : amiss[w][m] \subseteq amiss'[w][m]
      BY <2>1
    <2>7. Sound(a, w) /\ account' = account /\ installed' = installed
          /\ \A b \in Acts \ {a} : act'[b] = act[b]
      BY <2>1
    <2> QED BY <2>2, <2>3, <2>4, <2>5, <2>6, <2>7, RollbackInOrder
  <1>3. CASE UNCHANGED <<claim, account, heard, installed, amiss>>
    <2>1. ClaimTyped /\ AmissTyped
      BY <1>0, <1>3 DEF AccountsTypes, ClaimTyped, AmissTyped
    <2>2. /\ Sound(a, w)
          /\ act'[a].step = "unclaimed" /\ act'[a].kind = "connect"
      BY <1>1, <1>3, <2>1, ConnectStep
    <2>3. \A b \in Acts \ {a} : act'[b] = act[b]
      BY <1>0, <1>1 DEF Goes, AccountsTypes
    <2>4. Writer(a, w)' => OnCourse(a)'
      BY <2>2 DEF OnCourse, ConnectOnCourse, DisconnectOnCourse, InstallOnCourse
    <2>5. act[a].step \in {"failed", "unclaimed"} /\ act[a].kind = "connect"
      BY <1>1
    <2>6. \A m \in Numbers : amiss[w][m] \subseteq amiss'[w][m]
      BY <1>3
    <2>7. Sound(a, w) /\ account' = account /\ installed' = installed
          /\ \A k \in AllKeys : claim'[k] = w => claim[k] = w
      BY <2>2, <1>3
    <2> QED BY <1>3, <2>3, <2>4, <2>5, <2>6, <2>7, RollbackInOrder
  <1> QED BY <1>2, <1>3 DEF UnclaimPhone

\* ... and of the WABA.
LEMMA UnclaimWabaKeeps ==
    ASSUME AccountsInv, NEW a \in Acts, NEW w \in Workspaces, NEW n \in Numbers,
           W(a) = w, N(a) = n, UnclaimWaba(a)
    PROVE  AccountsInv'
  <1>1. act[a].kind = "connect" /\ act[a].step = "unclaimed" /\ Goes(a, "done")
    BY DEF UnclaimWaba, Doing
  <1> DEFINE b == act[a].waba
  <1>0. AccountsTypes /\ b \in AllKeys /\ Nobody # w
    BY <1>1, ConnectFacts, AccountsAssumption DEF AccountsInv
  <1>2. CASE Claim(a, b, Nobody)
    <2>1. /\ Sound(a, w)
          /\ act'[a] = Over
          /\ \A c \in Acts \ {a} : act'[c] = act[c]
          /\ account' = account /\ installed' = installed
          /\ claim'[b] = Nobody /\ \A h \in AllKeys \ {b} : claim'[h] = claim[h]
          /\ \A m \in Numbers : amiss[w][m] \subseteq amiss'[w][m] /\ "unproven" \in amiss'[w][m]
      BY <1>1, <1>2, ConnectClaims
    <2>2. \A k \in AllKeys : claim'[k] = w => claim[k] = w
      BY <1>0, <2>1
    <2>3. ~Writer(a, w)'
      BY <2>1 DEF Writer, Busy, Over
    <2> QED BY <1>1, <2>1, <2>2, <2>3, RollbackInOrder
  <1>3. CASE UNCHANGED <<claim, account, heard, installed, amiss>>
    <2>1. ClaimTyped /\ AmissTyped
      BY <1>0, <1>3 DEF AccountsTypes, ClaimTyped, AmissTyped
    <2>2. /\ Sound(a, w)
          /\ act'[a] = Over
      BY <1>1, <1>3, <2>1, ConnectStep
    <2>3. \A c \in Acts \ {a} : act'[c] = act[c]
      BY <1>0, <1>1 DEF Goes, AccountsTypes
    <2>4. ~Writer(a, w)'
      BY <2>2 DEF Writer, Busy, Over
    <2> QED BY <1>1, <1>3, <2>2, <2>3, <2>4, RollbackInOrder
  <1> QED BY <1>2, <1>3 DEF UnclaimWaba

\* The answer of the first probe.
LEMMA ConnectProbesEffect ==
    ASSUME AccountsInv, NEW a \in Acts, NEW w \in Workspaces, NEW n \in Numbers,
           W(a) = w, N(a) = n, ConnectProbes(a)
    PROVE  /\ AccountTyped /\ ActTyped /\ AmissTyped
           /\ account'[w][n] \in Record
           /\ account'[w][n].status \in {"CONNECTED", "ERROR"}
           /\ account'[w][n].waba = account[w][n].waba
           /\ \A v \in Workspaces, m \in Numbers :
                v # w \/ m # n => account'[v][m] = account[v][m]
           /\ \A v \in Workspaces \ {w} : account'[v] = account[v]
           /\ \A v \in Workspaces, m \in Numbers : amiss[v][m] \subseteq amiss'[v][m]
           /\ \A b \in Acts \ {a} : act'[b] = act[b]
           /\ \/ act'[a] = Over
              \/ /\ act'[a].kind = "connect" /\ act'[a].step = "failed"
                 /\ act'[a].by = w /\ act'[a].number = n /\ act'[a].waba = act[a].waba
                 /\ act'[a].owners = act[a].owners
           /\ account'[w][n].status = "CONNECTED" /\ heard[w][n] = "restricted" =>
                "barred" \in amiss'[w][n]
  <1>1. act[a].kind = "connect" /\ act[a].step = "claimed"
    BY DEF ConnectProbes, Doing
  <1>2. act[a] \in Connecting /\ Mine(a) # NoAccount /\ AccountsTypes
        /\ act[a].by = w /\ act[a].number = n
    BY <1>1, ConnectFacts DEF AccountsInv, W, N
  <1>3. CASE Patch(a, "CONNECTED") /\ Goes(a, "done") /\ Amiss(a, "barred", heard[w][n] = "restricted")
    <2>1. "barred" \in Causes /\ "CONNECTED" \in {"PENDING", "CONNECTED", "ERROR", "DISABLED"}
      BY DEF Causes
    <2>2. /\ AmissTyped
          /\ \A v \in Workspaces, m \in Numbers :
               amiss'[v][m] = IF heard[w][n] = "restricted" /\ v = W(a) /\ m = N(a)
                              THEN amiss[v][m] \union {"barred"} ELSE amiss[v][m]
      <3>1. AccountsTypes /\ W(a) \in Workspaces /\ N(a) \in Numbers
        BY <1>2
      <3>2. PICK when : when = (heard[w][n] = "restricted") /\ Amiss(a, "barred", when)
        BY <1>3, Zenon
      <3>3. Noted(a, "barred", when)
        BY <2>1, <3>1, <3>2, AmissEffect, Zenon
      <3> QED BY <3>2, <3>3 DEF Noted
    <2>3. /\ AccountTyped
          /\ account'[w][n] \in Record
          /\ account'[w][n].status = "CONNECTED"
          /\ account'[w][n].waba = account[w][n].waba
          /\ \A v \in Workspaces, m \in Numbers :
               v # w \/ m # n => account'[v][m] = account[v][m]
          /\ \A v \in Workspaces \ {w} : account'[v] = account[v]
      BY <1>2, <1>3, <2>1, PatchEffect
    <2>4. /\ ActTyped /\ act'[a] = Over /\ \A b \in Acts \ {a} : act'[b] = act[b]
      BY <1>2, <1>3, GoesEffect
    <2> QED BY <2>2, <2>3, <2>4
  <1>4. CASE Patch(a, "ERROR") /\ Goes(a, "failed") /\ UNCHANGED amiss
    <2>1. "ERROR" \in {"PENDING", "CONNECTED", "ERROR", "DISABLED"}
      OBVIOUS
    <2>3. /\ AccountTyped
          /\ account'[w][n] \in Record
          /\ account'[w][n].status = "ERROR"
          /\ account'[w][n].waba = account[w][n].waba
          /\ \A v \in Workspaces, m \in Numbers :
               v # w \/ m # n => account'[v][m] = account[v][m]
          /\ \A v \in Workspaces \ {w} : account'[v] = account[v]
      BY <1>2, <1>4, <2>1, PatchEffect
    <2>4. /\ ActTyped /\ \A b \in Acts \ {a} : act'[b] = act[b]
          /\ act'[a].kind = "connect" /\ act'[a].step = "failed"
          /\ act'[a].by = w /\ act'[a].number = n /\ act'[a].waba = act[a].waba
          /\ act'[a].owners = act[a].owners
      BY <1>1, <1>2, <1>4, GoesEffect
    <2>5. AmissTyped
      BY <1>2, <1>4 DEF AccountsTypes, AmissTyped
    <2> QED BY <1>4, <2>3, <2>4, <2>5
  <1> QED BY <1>3, <1>4 DEF ConnectProbes

\* The first probe: connected, or rolled back.
LEMMA ConnectProbesKeeps ==
    ASSUME AccountsInv, NEW a \in Acts, NEW w \in Workspaces, NEW n \in Numbers,
           W(a) = w, N(a) = n, ConnectProbes(a)
    PROVE  AccountsInv'
  <1>1. /\ act[a].kind = "connect" /\ act[a].step = "claimed"
        /\ claim' = claim /\ heard' = heard /\ installed' = installed
    BY DEF ConnectProbes, Doing
  <1>2. /\ Writer(a, w) /\ n \in AllKeys /\ act[a].waba \in AllKeys /\ n # act[a].waba
        /\ act[a].number = n /\ Busy(a) /\ installed[w] /\ AccountsTypes
        /\ account[w][n] \in Record
    BY <1>1, ConnectFacts DEF N, AccountsInv, Mine
  <1>3. /\ AccountTyped /\ ActTyped /\ AmissTyped
        /\ account'[w][n] \in Record
        /\ account'[w][n].status \in {"CONNECTED", "ERROR"}
        /\ account'[w][n].waba = account[w][n].waba
        /\ \A v \in Workspaces, m \in Numbers :
             v # w \/ m # n => account'[v][m] = account[v][m]
        /\ \A v \in Workspaces \ {w} : account'[v] = account[v]
        /\ \A v \in Workspaces, m \in Numbers : amiss[v][m] \subseteq amiss'[v][m]
        /\ \A b \in Acts \ {a} : act'[b] = act[b]
        /\ \/ act'[a] = Over
           \/ /\ act'[a].kind = "connect" /\ act'[a].step = "failed"
              /\ act'[a].by = w /\ act'[a].number = n /\ act'[a].waba = act[a].waba
              /\ act'[a].owners = act[a].owners
        /\ account'[w][n].status = "CONNECTED" /\ heard[w][n] = "restricted" =>
             "barred" \in amiss'[w][n]
    BY ConnectProbesEffect
  <1>4. AccountsTypes'
    BY <1>1, <1>2, <1>3 DEF AccountsTypes, ActTyped, AmissTyped, AccountTyped
  <1>5. RestrictedIsStopped'
    <2>1. ASSUME NEW v \in Workspaces, NEW m \in Numbers,
                 heard'[v][m] = "restricted", account'[v][m].status = "CONNECTED"
          PROVE  \/ "barred" \in amiss'[v][m]
                 \/ /\ heard[v][m] = "restricted" /\ account[v][m].status = "CONNECTED"
                    /\ "barred" \in amiss[v][m] => "barred" \in amiss'[v][m]
      <3>1. CASE v = w /\ m = n
        BY <1>1, <1>3, <2>1, <3>1
      <3>2. CASE v # w \/ m # n
        BY <1>1, <1>3, <2>1, <3>2
      <3> QED BY <3>1, <3>2
    <2> QED BY <2>1, StaysRestricted DEF AccountsInv
  <1>6. Busy(a)' => W(a)' = w /\ N(a)' = n /\ act'[a] # Over
    BY <1>3 DEF W, N, Busy, Over
  <1>7. Local(a, w)
    BY <1>1, <1>2, <1>3, <1>6, OnlyOwn
  <1>8. Steady(a, w)
    <2>1. account'[w][n] # NoAccount
      BY <1>3 DEF Record, NoAccount
    <2> QED BY <1>1, <1>3, <2>1 DEF Steady
  <1>9. Standing(a)'
    <2> SUFFICES ASSUME Busy(a)' PROVE Standing(a)'
      BY DEF Standing
    <2>1. OwnersKnown(a) /\ installed[w] = TRUE
      BY <1>2 DEF AccountsInv, Standing
    <2>2. OwnersKnown(a)'
      BY <1>1, <1>2, <1>3, <1>6, <2>1 DEF OwnersKnown
    <2>3. account'[w][n] # NoAccount
      BY <1>3 DEF Record, NoAccount
    <2> QED BY <1>1, <1>3, <1>6, <2>1, <2>2, <2>3 DEF Standing
  <1>10. Sound(a, w)
    BY <1>4, <1>5, <1>7, <1>8, <1>9 DEF Sound
  <1> SUFFICES ASSUME ~Overlapped(w) PROVE InOrder(w)'
    BY <1>10, SoundComposed
  <1>11. /\ OnCourse(a)
         /\ \A m \in Numbers : Live(w, m) => Holds(w, m) \/ Excused(w, m) \/ Handles(a, m)
         /\ \A k \in AllKeys :
               claim[k] = w => (\E m \in Numbers : Needs(w, m, k)) \/ Pends(a, w, k)
         /\ \A b \in Acts \ {a} : ~Writer(b, w)'
    BY <1>2, <1>3, Sole
  <1>12. account[w][n].waba = act[a].waba
    BY <1>1, <1>11 DEF OnCourse, ConnectOnCourse, Mine
  <1>13. (claim[n] = w /\ claim[act[a].waba] = w) \/ Excused(w, n)
    BY <1>1, <1>11 DEF OnCourse, ConnectOnCourse
  <1>14. \A m \in Numbers : Excused(w, m) => Excused(w, m)'
    BY <1>3 DEF Excused
  <1>15. Reached(w)'
    <2> SUFFICES ASSUME NEW m \in Numbers, Live(w, m)'
                 PROVE  Holds(w, m)' \/ Excused(w, m)'
      BY DEF Reached
    <2>1. CASE m = n
      BY <1>1, <1>3, <1>12, <1>13, <1>14, <2>1 DEF Holds
    <2>2. CASE m # n
      <3>1. account'[w][m] = account[w][m]
        BY <1>3, <2>2
      <3>2. ~Handles(a, m)
        BY <1>1, <1>2, <2>2 DEF Handles
      <3> QED BY <1>1, <1>11, <1>14, <3>1, <3>2 DEF Holds, Live
    <2> QED BY <2>1, <2>2
  <1>16. Needed(w)'
    <2> SUFFICES ASSUME NEW k \in AllKeys, claim'[k] = w
                 PROVE  \E m \in Numbers : Needs(w, m, k)'
      BY DEF Needed
    <2>1. CASE k \in {n, act[a].waba}
      <3>1. k \in KeysOf(w, n)'
        BY <1>3, <1>12, <2>1 DEF KeysOf
      <3>2. Live(w, n)'
        BY <1>3 DEF Live
      <3> QED BY <1>1, <1>2, <3>1, <3>2 DEF Needs
    <2>2. CASE k \notin {n, act[a].waba}
      <3>1. ~Pends(a, w, k)
        BY <1>1, <1>2, <2>2 DEF Pends
      <3>2. PICK m \in Numbers : Needs(w, m, k)
        BY <1>1, <1>11, <3>1
      <3>3. m # n \/ k \notin KeysOf(w, m)
        BY <1>12, <2>2 DEF KeysOf
      <3>4. m # n => account'[w][m] = account[w][m]
        BY <1>3
      <3>5. amiss[w][m] \subseteq amiss'[w][m]
        BY <1>3
      <3> QED BY <1>1, <3>2, <3>3, <3>4, <3>5 DEF Needs, Live, KeysOf
    <2> QED BY <2>1, <2>2
  <1>17. Writer(a, w)' => OnCourse(a)'
    BY <1>3, <1>6 DEF Writer, OnCourse, ConnectOnCourse, DisconnectOnCourse, InstallOnCourse
  <1> QED BY <1>11, <1>15, <1>16, <1>17, SoleInOrder

\* A step of a disconnect that only clears claims.
LEMMA DisconnectStep ==
    ASSUME AccountsInv, NEW a \in Acts, NEW w \in Workspaces, NEW n \in Numbers,
           W(a) = w, N(a) = n, act[a].kind = "disconnect",
           NEW s \in {"clearing", "cleared"}, Goes(a, s),
           account' = account, heard' = heard, installed' = installed,
           ClaimTyped, AmissTyped,
           \A v \in Workspaces, m \in Numbers : amiss[v][m] \subseteq amiss'[v][m],
           \A v \in Workspaces \ {w} : \A k \in AllKeys : claim'[k] = v => claim[k] = v,
           \A v \in Workspaces \ {w} : \A k \in AllKeys :
              claim[k] = v => claim'[k] = v \/ \A m \in Numbers : "race" \in amiss'[v][m]
    PROVE  /\ Sound(a, w)
           /\ act'[a].step = s /\ act'[a].kind = "disconnect"
           /\ act'[a].by = w /\ act'[a].number = n
           /\ act'[a].waba = act[a].waba /\ act'[a].inUse = act[a].inUse
           /\ \A b \in Acts \ {a} : act'[b] = act[b]
  <1>0. AccountsTypes /\ Standing(a)
    BY DEF AccountsInv
  <1>1. act[a] \in Disconnecting /\ Busy(a) /\ act[a].by = w /\ act[a].number = n
        /\ Mine(a) # NoAccount /\ installed[w]
    BY DisconnectFacts DEF W, N
  <1>2. /\ ActTyped
        /\ \A b \in Acts \ {a} : act'[b] = act[b]
        /\ act'[a].step = s /\ act'[a].kind = "disconnect"
        /\ act'[a].by = w /\ act'[a].number = n
        /\ act'[a].waba = act[a].waba /\ act'[a].inUse = act[a].inUse
    BY <1>0, <1>1, GoesEffect
  <1>3. AccountsTypes'
    BY <1>0, <1>2 DEF AccountsTypes, ActTyped, AmissTyped, ClaimTyped
  <1>4. RestrictedIsStopped'
    BY StaysRestricted DEF AccountsInv
  <1>6. W(a)' = w /\ N(a)' = n
    BY <1>2 DEF W, N
  <1>7. Local(a, w)
    BY <1>1, <1>2, <1>6 DEF Local
  <1>8. Steady(a, w)
    BY DEF Steady
  <1>9. Standing(a)'
    BY <1>0, <1>1, <1>2, <1>6 DEF Standing, OwnersKnown, Mine
  <1> QED BY <1>2, <1>3, <1>4, <1>7, <1>8, <1>9 DEF Sound

\* disconnect clears the claim of the number,
LEMMA ClearPhoneKeeps ==
    ASSUME AccountsInv, NEW a \in Acts, NEW w \in Workspaces, NEW n \in Numbers,
           W(a) = w, N(a) = n, ClearPhone(a)
    PROVE  AccountsInv'
  <1> DEFINE s == IF claim[act[a].waba] = w /\ ~act[a].inUse THEN "clearing" ELSE "cleared"
             b == act[a].waba
  <1>1. /\ act[a].kind = "disconnect" /\ act[a].step = "counted"
        /\ claim' = (IF claim[n] = w THEN [claim EXCEPT ![n] = Nobody] ELSE claim)
        /\ account' = account /\ heard' = heard /\ installed' = installed /\ amiss' = amiss
    BY DEF ClearPhone, Doing
  <1>2. /\ Writer(a, w) /\ n \in AllKeys /\ b \in AllKeys /\ n # b
        /\ act[a].number = n /\ act[a].inUse \in BOOLEAN /\ AccountsTypes
    BY <1>1, DisconnectFacts DEF N, AccountsInv
  <1>3. Goes(a, s) /\ s \in {"clearing", "cleared"}
    BY <1>1 DEF ClearPhone, Goes
  <1>4. /\ ClaimTyped /\ AmissTyped /\ Nobody \notin Workspaces
        /\ \A k \in AllKeys \ {n} : claim'[k] = claim[k]
        /\ claim'[n] # w /\ (claim'[n] = claim[n] \/ (claim[n] = w /\ claim'[n] = Nobody))
    <2>1. /\ claim \in [AllKeys -> Workspaces \union {Nobody}] /\ Nobody \notin Workspaces
          /\ amiss \in [Workspaces -> [Numbers -> SUBSET Causes]]
      BY <1>2, AccountsAssumption DEF AccountsTypes
    <2>2. CASE claim[n] = w
      <3>1. claim' = [claim EXCEPT ![n] = Nobody]
        BY <1>1, <2>2
      <3>2. claim'[n] = Nobody /\ (\A k \in AllKeys \ {n} : claim'[k] = claim[k]) /\ ClaimTyped
        BY <1>2, <2>1, <3>1 DEF ClaimTyped
      <3>3. AmissTyped
        BY <1>1, <2>1 DEF AmissTyped
      <3>4. Nobody # w
        BY <2>1
      <3> QED BY <2>1, <2>2, <3>2, <3>3, <3>4
    <2>3. CASE claim[n] # w
      <3>1. claim' = claim
        BY <1>1, <2>3
      <3> QED BY <1>1, <1>2, <2>1, <2>3, <3>1 DEF ClaimTyped, AmissTyped
    <2> QED BY <2>2, <2>3
  <1>5. \A v \in Workspaces : \A k \in AllKeys : claim'[k] = v => claim[k] = v
    BY <1>4
  <1>6. \A v \in Workspaces \ {w} : \A k \in AllKeys : claim[k] = v => claim'[k] = v
    BY <1>4
  <1> HIDE DEF s
  <1>7. /\ Sound(a, w)
        /\ act'[a].step = s /\ act'[a].kind = "disconnect"
        /\ act'[a].by = w /\ act'[a].number = n
        /\ act'[a].waba = act[a].waba /\ act'[a].inUse = act[a].inUse
        /\ \A c \in Acts \ {a} : act'[c] = act[c]
    BY <1>1, <1>3, <1>4, <1>5, <1>6, DisconnectStep
  <1> SUFFICES ASSUME ~Overlapped(w) PROVE InOrder(w)'
    BY <1>7, SoundComposed
  <1>8. /\ OnCourse(a)
        /\ \A m \in Numbers : Live(w, m) => Holds(w, m) \/ Excused(w, m) \/ Handles(a, m)
        /\ \A k \in AllKeys :
              claim[k] = w => (\E m \in Numbers : Needs(w, m, k)) \/ Pends(a, w, k)
        /\ \A c \in Acts \ {a} : ~Writer(c, w)'
    BY <1>2, <1>7, Sole
  <1>9. /\ \A m \in Numbers : \A k \in AllKeys : Needs(w, m, k) => Needs(w, m, k)'
        /\ \A m \in Numbers : Excused(w, m) => Excused(w, m)'
        /\ \A m \in Numbers : Live(w, m)' = Live(w, m)
    BY <1>1, NeedsStays
  <1>10. W(a)' = w /\ N(a)' = n /\ Writer(a, w)' /\ Handles(a, n)'
    BY <1>3, <1>7 DEF W, N, Writer, Busy, Handles
  <1>11. Reached(w)'
    <2> SUFFICES ASSUME NEW m \in Numbers, Live(w, m), m # n
                 PROVE  Holds(w, m)' \/ Excused(w, m)'
      BY <1>9, <1>10 DEF Reached
    <2>1. m \in AllKeys /\ account[w][m].waba \in AllKeys \ {n}
      BY <1>2, AccountsAssumption DEF AccountsTypes, Record, NoAccount, Live, AllKeys
    <2>2. ~Handles(a, m)
      BY <1>1, <1>2 DEF Handles
    <2> QED BY <1>1, <1>4, <1>8, <1>9, <2>1, <2>2 DEF Holds
  <1>12. Needed(w)'
    <2>1. \A k \in AllKeys : ~Pends(a, w, k)
      BY <1>1 DEF Pends
    <2> QED BY <1>5, <1>8, <1>9, <2>1 DEF Needed
  <1>13. OnCourse(a)'
    <2>1. DisconnectOnCourse(a)
      BY <1>8 DEF OnCourse
    <2>2. OthersOn(a)' = OthersOn(a) /\ Mine(a)' = Mine(a)
      BY <1>1, <1>7, <1>9, <1>10 DEF OthersOn, Mine
    <2>3. \A m \in OthersOn(a) : m \in Numbers
      BY DEF OthersOn
    <2>4. claim'[b] = claim[b]
      BY <1>2, <1>4
    <2>5. (s = "clearing" => ~act[a].inUse) /\ (s = "cleared" => claim[b] # w \/ act[a].inUse)
      BY <1>2 DEF s
    <2>6. DisconnectOnCourse(a)'
      BY <1>1, <1>4, <1>7, <1>9, <1>10, <2>1, <2>2, <2>3, <2>4, <2>5 DEF DisconnectOnCourse
    <2> QED BY <1>7, <2>6 DEF OnCourse, ConnectOnCourse, InstallOnCourse
  <1> QED BY <1>8, <1>11, <1>12, <1>13, SoleInOrder

\* ... that of a WABA no other account used,
LEMMA ClearWabaKeeps ==
    ASSUME AccountsInv, NEW a \in Acts, NEW w \in Workspaces, NEW n \in Numbers,
           W(a) = w, N(a) = n, ClearWaba(a)
    PROVE  AccountsInv'
  <1> DEFINE b == act[a].waba
  <1>1. /\ act[a].kind = "disconnect" /\ act[a].step = "clearing" /\ Goes(a, "cleared")
        /\ claim' = [claim EXCEPT ![b] = Nobody]
        /\ account' = account /\ heard' = heard /\ installed' = installed
    BY DEF ClearWaba, Doing
  <1>2. /\ Writer(a, w) /\ n \in AllKeys /\ b \in AllKeys /\ n # b
        /\ act[a].number = n /\ act[a].inUse \in BOOLEAN /\ AccountsTypes
    BY <1>1, DisconnectFacts DEF N, AccountsInv
  <1>4. /\ ClaimTyped /\ Nobody \notin Workspaces
        /\ \A k \in AllKeys \ {b} : claim'[k] = claim[k]
        /\ claim'[b] = Nobody
    BY <1>1, <1>2, AccountsAssumption DEF AccountsTypes, ClaimTyped
  <1>5. /\ AmissTyped
        /\ \A v \in Workspaces, m \in Numbers : amiss[v][m] \subseteq amiss'[v][m]
        /\ \A v \in Workspaces \ {w} : claim[b] = v => \A m \in Numbers : "race" \in amiss'[v][m]
    <2>1. amiss \in [Workspaces -> [Numbers -> SUBSET Causes]]
      BY <1>2 DEF AccountsTypes
    <2>2. CASE claim[b] \in {w, Nobody}
      <3>1. amiss' = amiss
        BY <2>2 DEF ClearWaba
      <3> QED BY <1>4, <2>1, <2>2, <3>1 DEF AmissTyped
    <2>3. CASE claim[b] \notin {w, Nobody}
      <3> DEFINE row == [m \in Numbers |-> amiss[claim[b]][m] \union {"race"}]
      <3>1. claim[b] \in Workspaces
        BY <1>2, <2>3 DEF AccountsTypes
      <3>2. row \in [Numbers -> SUBSET Causes] /\ \A m \in Numbers : row[m] = amiss[claim[b]][m] \union {"race"}
        BY <2>1, <3>1 DEF Causes
      <3>3. amiss' = [amiss EXCEPT ![claim[b]] = row]
        BY <2>1, <2>3, <3>1 DEF ClearWaba
      <3> HIDE DEF row
      <3> QED BY <2>1, <3>1, <3>2, <3>3 DEF AmissTyped
    <2> QED BY <2>2, <2>3
  <1>6. \A v \in Workspaces : \A k \in AllKeys : claim'[k] = v => claim[k] = v
    BY <1>4
  <1>16. \A v \in Workspaces \ {w} : \A k \in AllKeys :
            claim[k] = v => claim'[k] = v \/ \A m \in Numbers : "race" \in amiss'[v][m]
    BY <1>4, <1>5
  <1>7. /\ Sound(a, w)
        /\ act'[a].step = "cleared" /\ act'[a].kind = "disconnect"
        /\ act'[a].by = w /\ act'[a].number = n
        /\ act'[a].waba = b /\ act'[a].inUse = act[a].inUse
        /\ \A c \in Acts \ {a} : act'[c] = act[c]
    BY <1>1, <1>4, <1>5, <1>6, <1>16, DisconnectStep
  <1> SUFFICES ASSUME ~Overlapped(w) PROVE InOrder(w)'
    BY <1>7, SoundComposed
  <1>8. /\ OnCourse(a)
        /\ \A m \in Numbers : Live(w, m) => Holds(w, m) \/ Excused(w, m) \/ Handles(a, m)
        /\ \A k \in AllKeys :
              claim[k] = w => (\E m \in Numbers : Needs(w, m, k)) \/ Pends(a, w, k)
        /\ \A c \in Acts \ {a} : ~Writer(c, w)'
    BY <1>2, <1>7, Sole
  <1>9. /\ \A m \in Numbers : \A k \in AllKeys : Needs(w, m, k) => Needs(w, m, k)'
        /\ \A m \in Numbers : Excused(w, m) => Excused(w, m)'
        /\ \A m \in Numbers : Live(w, m)' = Live(w, m)
    BY <1>1, <1>5, NeedsStays
  <1>10. W(a)' = w /\ N(a)' = n /\ Writer(a, w)' /\ Handles(a, n)'
    BY <1>7 DEF W, N, Writer, Busy, Handles
  <1>17. DisconnectOnCourse(a) /\ ~act[a].inUse
    BY <1>1, <1>2, <1>8 DEF OnCourse, DisconnectOnCourse
  <1>11. Reached(w)'
    <2> SUFFICES ASSUME NEW m \in Numbers, Live(w, m), m # n
                 PROVE  Holds(w, m)' \/ Excused(w, m)'
      BY <1>9, <1>10 DEF Reached
    <2>1. m \in AllKeys \ {b} /\ account[w][m].waba \in AllKeys
      BY <1>1, <1>2, DisconnectFacts, AccountsAssumption
         DEF AccountsTypes, Record, NoAccount, Live, AllKeys
    <2>2. ~Handles(a, m)
      BY <1>1, <1>2 DEF Handles
    <2>3. CASE account[w][m].waba = b
      <3>1. m \in OthersOn(a)
        BY <2>3 DEF OthersOn
      <3> QED BY <1>1, <1>9, <1>17, <3>1 DEF DisconnectOnCourse
    <2>4. CASE account[w][m].waba # b
      BY <1>1, <1>4, <1>8, <1>9, <2>1, <2>2, <2>4 DEF Holds
    <2> QED BY <2>3, <2>4
  <1>12. Needed(w)'
    <2>1. \A k \in AllKeys : ~Pends(a, w, k)
      BY <1>1 DEF Pends
    <2> QED BY <1>6, <1>8, <1>9, <2>1 DEF Needed
  <1>13. OnCourse(a)'
    <2>2. OthersOn(a)' = OthersOn(a) /\ Mine(a)' = Mine(a)
      BY <1>1, <1>7, <1>9, <1>10 DEF OthersOn, Mine
    <2>3. \A m \in OthersOn(a) : m \in Numbers
      BY DEF OthersOn
    <2>4. claim'[n] = claim[n] /\ claim'[b] # w
      BY <1>2, <1>4
    <2>6. DisconnectOnCourse(a)'
      BY <1>1, <1>7, <1>9, <1>10, <1>17, <2>2, <2>3, <2>4 DEF DisconnectOnCourse
    <2> QED BY <1>7, <2>6 DEF OnCourse, ConnectOnCourse, InstallOnCourse
  <1> QED BY <1>8, <1>11, <1>12, <1>13, SoleInOrder

\* ... and disables the record, which then needs nothing.
LEMMA DisableKeeps ==
    ASSUME AccountsInv, NEW a \in Acts, NEW w \in Workspaces, NEW n \in Numbers,
           W(a) = w, N(a) = n, Disable(a)
    PROVE  AccountsInv'
  <1> DEFINE b == act[a].waba
  <1>1. /\ act[a].kind = "disconnect" /\ act[a].step = "cleared" /\ Goes(a, "done")
        /\ Patch(a, "DISABLED")
        /\ claim' = claim /\ heard' = heard /\ installed' = installed /\ amiss' = amiss
    BY DEF Disable, Doing
  <1>2. /\ Writer(a, w) /\ n \in AllKeys /\ b \in AllKeys /\ n # b /\ Busy(a)
        /\ act[a].number = n /\ act[a].inUse \in BOOLEAN /\ AccountsTypes /\ Mine(a) # NoAccount
    BY <1>1, DisconnectFacts DEF N, AccountsInv
  <1>3. /\ AccountTyped
        /\ account'[w][n] \in Record
        /\ account'[w][n].status = "DISABLED"
        /\ account'[w][n].waba = account[w][n].waba
        /\ \A v \in Workspaces, m \in Numbers :
             v # w \/ m # n => account'[v][m] = account[v][m]
        /\ \A v \in Workspaces \ {w} : account'[v] = account[v]
    BY <1>1, <1>2, PatchEffect
  <1>4. /\ ActTyped /\ act'[a] = Over /\ \A c \in Acts \ {a} : act'[c] = act[c]
    BY <1>1, <1>2, GoesEffect
  <1>5. AccountsTypes'
    BY <1>1, <1>2, <1>3, <1>4 DEF AccountsTypes, ActTyped, AccountTyped
  <1>6. RestrictedIsStopped'
    <2>1. \A v \in Workspaces, m \in Numbers :
              account'[v][m].status = "CONNECTED" => account[v][m].status = "CONNECTED"
      BY <1>3
    <2> QED BY <1>1, <2>1, StaysRestricted DEF AccountsInv
  <1>7. ~Busy(a)'
    BY <1>4 DEF Busy, Over
  <1>8. Local(a, w)
    BY <1>1, <1>2, <1>3, <1>4, <1>7, OnlyOwn
  <1>9. Steady(a, w)
    <2>1. account'[w][n] # NoAccount
      BY <1>3 DEF Record, NoAccount
    <2> QED BY <1>1, <1>3, <2>1 DEF Steady
  <1>10. Sound(a, w)
    BY <1>5, <1>6, <1>7, <1>8, <1>9 DEF Sound, Standing
  <1> SUFFICES ASSUME ~Overlapped(w) PROVE InOrder(w)'
    BY <1>10, SoundComposed
  <1>11. /\ OnCourse(a)
         /\ \A m \in Numbers : Live(w, m) => Holds(w, m) \/ Excused(w, m) \/ Handles(a, m)
         /\ \A k \in AllKeys :
               claim[k] = w => (\E m \in Numbers : Needs(w, m, k)) \/ Pends(a, w, k)
         /\ \A c \in Acts \ {a} : ~Writer(c, w)'
    BY <1>2, <1>4, Sole
  <1>12. /\ claim[n] # w /\ account[w][n].waba = b
         /\ claim[b] # w \/ act[a].inUse
         /\ act[a].inUse => OthersOn(a) # {}
    BY <1>1, <1>11 DEF OnCourse, DisconnectOnCourse, Mine
  <1>13. Reached(w)'
    <2> SUFFICES ASSUME NEW m \in Numbers, Live(w, m)'
                 PROVE  Holds(w, m)' \/ Excused(w, m)'
      BY DEF Reached
    <2>1. m # n
      BY <1>3 DEF Live
    <2>2. account'[w][m] = account[w][m]
      BY <1>3, <2>1
    <2>3. ~Handles(a, m)
      BY <1>1, <1>2, <2>1 DEF Handles
    <2> QED BY <1>1, <1>11, <2>2, <2>3 DEF Holds, Live, Excused
  <1>14. Needed(w)'
    <2> SUFFICES ASSUME NEW k \in AllKeys, claim'[k] = w
                 PROVE  \E m \in Numbers : Needs(w, m, k)'
      BY DEF Needed
    <2>1. ~Pends(a, w, k)
      BY <1>1 DEF Pends
    <2>2. PICK m \in Numbers : Needs(w, m, k)
      BY <1>1, <1>11, <2>1
    <2>3. CASE m # n
      <3>1. account'[w][m] = account[w][m]
        BY <1>3, <2>3
      <3> QED BY <1>1, <2>2, <3>1 DEF Needs, Live, KeysOf
    <2>4. CASE m = n
      <3>1. k \in KeysOf(w, n)' <=> k \in KeysOf(w, n)
        BY <1>3 DEF KeysOf
      <3>2. CASE installed[w] /\ Live(w, n) /\ k \in KeysOf(w, n)
        <4>1. k = b /\ act[a].inUse
          BY <1>1, <1>12, <3>2 DEF KeysOf
        <4>2. PICK o \in OthersOn(a) : TRUE
          BY <1>12, <4>1
        <4>3. o \in Numbers /\ o # n /\ Live(w, o) /\ account[w][o].waba = b
          BY <4>2 DEF OthersOn
        <4>4. account'[w][o] = account[w][o]
          BY <1>3, <4>3
        <4>5. Needs(w, o, k)'
          BY <1>1, <3>2, <4>1, <4>3, <4>4 DEF Needs, Live, KeysOf
        <4> QED BY <4>3, <4>5
      <3>3. CASE ~(installed[w] /\ Live(w, n) /\ k \in KeysOf(w, n))
        BY <1>1, <2>2, <2>4, <3>1, <3>3 DEF Needs
      <3> QED BY <3>2, <3>3
    <2> QED BY <2>3, <2>4
  <1>15. ~Writer(a, w)'
    BY <1>7 DEF Writer
  <1> QED BY <1>11, <1>13, <1>14, <1>15, SoleInOrder

\* An act that writes no claim leaves its workspace in order as well.
LEMMA RecordStep ==
    ASSUME AccountsInv, NEW a \in Acts, NEW w \in Workspaces,
           AccountsTypes', RestrictedIsStopped', Standing(a)',
           \A b \in Acts \ {a} : act'[b] = act[b],
           ~Serious(a, w), ~Serious(a, w)', Busy(a) => W(a) = w, Busy(a)' => W(a)' = w,
           claim' = claim, installed' = installed,
           \A v \in Workspaces \ {w} : account'[v] = account[v],
           \A v \in Workspaces, m \in Numbers : amiss[v][m] \subseteq amiss'[v][m],
           \A m \in Numbers :
             /\ account'[w][m].waba = account[w][m].waba
             /\ account[w][m] # NoAccount => account'[w][m] # NoAccount
             /\ Live(w, m) => Live(w, m)'
             /\ Live(w, m)' => Live(w, m) \/ "revived" \in amiss'[w][m]
    PROVE  AccountsInv'
  <1>1. Local(a, w)
    BY OnlyOwn
  <1>2. Steady(a, w)
    BY DEF Steady
  <1>3. \A b \in Acts : /\ Serious(b, w) => act'[b] = act[b]
                        /\ Serious(b, w)' => Serious(b, w)
    <2> SUFFICES ASSUME NEW b \in Acts
                 PROVE  (Serious(b, w) => act'[b] = act[b]) /\ (Serious(b, w)' => Serious(b, w))
      OBVIOUS
    <2>1. CASE b = a
      BY <2>1
    <2>2. CASE b # a
      <3>1. act'[b] = act[b]
        BY <2>2
      <3> QED BY <3>1 DEF Serious, Busy, W
    <2> QED BY <2>1, <2>2
  <1>4. Gentle(w)
    BY <1>3 DEF Gentle, Live
  <1>5. InOrder(w)'
    BY <1>4, GentleInOrder DEF AccountsInv
  <1> QED BY <1>1, <1>2, <1>5, Composed

\* test and the health check read a record.
LEMMA ProbeListsKeeps ==
    ASSUME AccountsInv, NEW a \in Acts, NEW w \in Workspaces, NEW n \in Numbers,
           NEW kind \in {"test", "check"}, ProbeLists(a, w, n, kind)
    PROVE  AccountsInv'
  <1> DEFINE new == [kind |-> kind, by |-> w, number |-> n, step |-> "probing"]
  <1>1. /\ act[a] = Unused /\ installed[w] = TRUE /\ act' = [act EXCEPT ![a] = new]
        /\ claim' = claim /\ account' = account /\ heard' = heard /\ installed' = installed
        /\ amiss' = amiss
    BY DEF ProbeLists, AccountsInv, AccountsTypes
  <1>2. account[w][n] # NoAccount
    BY DEF ProbeLists, NoAccount
  <1>3. new.kind = kind /\ new.by = w /\ new.number = n /\ new.step = "probing" /\ new \in ActTypes
    BY DEF ActTypes, Probing
  <1> HIDE DEF new
  <1>4. act' \in [Acts -> ActTypes] /\ act'[a] = new /\ \A b \in Acts \ {a} : act'[b] = act[b]
    BY <1>1, <1>3 DEF AccountsInv, AccountsTypes
  <1>5. AccountsTypes'
    BY <1>1, <1>4 DEF AccountsInv, AccountsTypes
  <1>6. RestrictedIsStopped'
    BY <1>1 DEF AccountsInv, RestrictedIsStopped
  <1>7. ~Busy(a) /\ W(a)' = w /\ N(a)' = n
    BY <1>1, <1>3, <1>4 DEF Busy, Unused, W, N
  <1>8. Standing(a)'
    BY <1>1, <1>2, <1>3, <1>4, <1>7 DEF Standing, OwnersKnown
  <1>9. ~Serious(a, w) /\ ~Serious(a, w)'
    BY <1>3, <1>4, <1>7 DEF Serious
  <1> QED BY <1>1, <1>4, <1>5, <1>6, <1>7, <1>8, <1>9, RecordStep DEF Live

\* An account_update reads a record.
LEMMA EventReadsKeeps ==
    ASSUME AccountsInv, NEW a \in Acts, NEW w \in Workspaces, NEW n \in Numbers,
           NEW said \in {"restricted", "verified"}, EventReadsAccount(a, w, n, said)
    PROVE  AccountsInv'
  <1> DEFINE new == [kind |-> said, by |-> w, number |-> n, step |-> "told",
                     copy |-> account[w][n].status]
  <1>1. /\ act[a] = Unused /\ installed[w] = TRUE /\ act' = [act EXCEPT ![a] = new]
        /\ claim' = claim /\ account' = account /\ heard' = heard /\ installed' = installed
        /\ amiss' = amiss /\ account[w][n] # NoAccount
    BY DEF EventReadsAccount, AccountsInv, AccountsTypes
  <1>2. account[w][n].status \in {"PENDING", "CONNECTED", "ERROR", "DISABLED"}
    BY <1>1 DEF AccountsInv, AccountsTypes, Record
  <1>3. new.kind = said /\ new.by = w /\ new.number = n /\ new.step = "told" /\ new \in ActTypes
    BY <1>2 DEF ActTypes, Telling, Said
  <1> HIDE DEF new
  <1>4. act' \in [Acts -> ActTypes] /\ act'[a] = new /\ \A b \in Acts \ {a} : act'[b] = act[b]
    BY <1>1, <1>3 DEF AccountsInv, AccountsTypes
  <1>5. AccountsTypes'
    BY <1>1, <1>4 DEF AccountsInv, AccountsTypes
  <1>6. RestrictedIsStopped'
    BY <1>1 DEF AccountsInv, RestrictedIsStopped
  <1>7. ~Busy(a) /\ W(a)' = w /\ N(a)' = n
    BY <1>1, <1>3, <1>4 DEF Busy, Unused, W, N
  <1>8. Standing(a)'
    BY <1>1, <1>3, <1>4, <1>7 DEF Standing, OwnersKnown
  <1>9. ~Serious(a, w) /\ ~Serious(a, w)'
    BY <1>3, <1>4, <1>7 DEF Serious
  <1> QED BY <1>1, <1>4, <1>5, <1>6, <1>7, <1>8, <1>9, RecordStep DEF Live

\* A record may get another status.
PatchedTo(a, w, n) ==
    /\ AccountTyped
    /\ account'[w][n] \in Record
    /\ account'[w][n].waba = account[w][n].waba
    /\ \A v \in Workspaces, m \in Numbers :
         v # w \/ m # n => account'[v][m] = account[v][m]
    /\ \A v \in Workspaces \ {w} : account'[v] = account[v]

\* Patching the record does that.
LEMMA PatchIs ==
    ASSUME AccountsInv, NEW a \in Acts, NEW w \in Workspaces, NEW n \in Numbers,
           W(a) = w, N(a) = n, Mine(a) # NoAccount,
           NEW s \in {"PENDING", "CONNECTED", "ERROR", "DISABLED"}, Patch(a, s)
    PROVE  PatchedTo(a, w, n) /\ account'[w][n].status = s
  <1>1. AccountsTypes
    BY DEF AccountsInv
  <1> QED BY <1>1, PatchEffect DEF PatchedTo

\* So does leaving it.
LEMMA PatchNone ==
    ASSUME AccountsInv, NEW a \in Acts, NEW w \in Workspaces, NEW n \in Numbers,
           W(a) = w, N(a) = n, Mine(a) # NoAccount, account' = account
    PROVE  PatchedTo(a, w, n) /\ account'[w][n].status = account[w][n].status
  BY DEF AccountsInv, AccountsTypes, AccountTyped, PatchedTo, Mine

\* An act that ends with a new status of its record.
LEMMA PatchingStep ==
    ASSUME AccountsInv, NEW a \in Acts, NEW w \in Workspaces, NEW n \in Numbers,
           W(a) = w, N(a) = n, act[a].kind \in {"test", "check"} \union Said,
           PatchedTo(a, w, n), Goes(a, "done"), claim' = claim, installed' = installed,
           AmissTyped, heard' \in [Workspaces -> [Numbers -> Said \union {"none"}]],
           RestrictedIsStopped',
           \A v \in Workspaces, m \in Numbers : amiss[v][m] \subseteq amiss'[v][m],
           Live(w, n) => Live(w, n)',
           Live(w, n)' => Live(w, n) \/ "revived" \in amiss'[w][n]
    PROVE  AccountsInv'
  <1>0. AccountsTypes
    BY DEF AccountsInv
  <1>1. /\ ActTyped /\ act'[a] = Over /\ \A b \in Acts \ {a} : act'[b] = act[b]
    BY <1>0, GoesEffect
  <1>2. AccountsTypes'
    BY <1>0, <1>1 DEF AccountsTypes, ActTyped, AccountTyped, AmissTyped, PatchedTo
  <1>3. ~Busy(a)' /\ ~Serious(a, w) /\ ~Serious(a, w)'
    BY <1>1 DEF Busy, Over, Serious, Said
  <1>4. Standing(a)'
    BY <1>3 DEF Standing
  <1>5. \A m \in Numbers :
            /\ account'[w][m].waba = account[w][m].waba
            /\ account[w][m] # NoAccount => account'[w][m] # NoAccount
            /\ Live(w, m) => Live(w, m)'
            /\ Live(w, m)' => Live(w, m) \/ "revived" \in amiss'[w][m]
    <2> SUFFICES ASSUME NEW m \in Numbers
                 PROVE  /\ account'[w][m].waba = account[w][m].waba
                        /\ account[w][m] # NoAccount => account'[w][m] # NoAccount
                        /\ Live(w, m) => Live(w, m)'
                        /\ Live(w, m)' => Live(w, m) \/ "revived" \in amiss'[w][m]
      OBVIOUS
    <2>1. CASE m = n
      BY <2>1 DEF PatchedTo, Record, NoAccount
    <2>2. CASE m # n
      BY <2>2 DEF PatchedTo, Live
    <2> QED BY <2>1, <2>2
  <1> QED BY <1>1, <1>2, <1>3, <1>4, <1>5, RecordStep DEF PatchedTo

\* The answer of a probe.
LEMMA ProbeAnswersKeeps ==
    ASSUME AccountsInv, NEW a \in Acts, ProbeAnswers(a)
    PROVE  AccountsInv'
  <1>1. act[a].step = "probing" /\ AccountsTypes /\ Standing(a)
    BY DEF ProbeAnswers, AccountsInv
  <1>2. act[a].kind \in {"test", "check"} /\ W(a) \in Workspaces /\ N(a) \in Numbers /\ Busy(a)
    BY <1>1, RequestKinds, KindsOf DEF W, N
  <1>3. PICK w \in Workspaces : w = W(a)
    BY <1>2
  <1>4. PICK n \in Numbers : n = N(a)
    BY <1>2
  <1>5. Mine(a) # NoAccount
    BY <1>1, <1>2 DEF Standing, HasRecord, Mine
  <1>6. /\ PatchedTo(a, w, n)
        /\ account'[w][n].status \in {"CONNECTED", "ERROR", account[w][n].status}
    <2>1. CASE Patch(a, "CONNECTED")
      <3>1. PatchedTo(a, w, n) /\ account'[w][n].status = "CONNECTED"
        BY <1>3, <1>4, <1>5, <2>1, PatchIs
      <3> QED BY <3>1
    <2>2. CASE Patch(a, "ERROR")
      <3>1. PatchedTo(a, w, n) /\ account'[w][n].status = "ERROR"
        BY <1>3, <1>4, <1>5, <2>2, PatchIs
      <3> QED BY <3>1
    <2>3. CASE account' = account
      BY <1>3, <1>4, <1>5, <2>3, PatchNone
    <2> QED BY <2>1, <2>2, <2>3 DEF ProbeAnswers
  <1> DEFINE now == account'[w][n].status
             new == (IF account[w][n].status = "DISABLED" /\ now # "DISABLED" THEN {"revived"} ELSE {})
                    \union (IF now = "CONNECTED" /\ heard[w][n] = "restricted" THEN {"barred"} ELSE {})
             row == [amiss[w] EXCEPT ![n] = @ \union new]
  <1>7. /\ Goes(a, "done") /\ claim' = claim /\ installed' = installed /\ heard' = heard
        /\ amiss' = [amiss EXCEPT ![w] = row]
    <2>1. amiss \in [Workspaces -> [Numbers -> SUBSET Causes]]
      BY <1>1 DEF AccountsTypes
    <2> QED BY <1>3, <1>4, <2>1 DEF ProbeAnswers, Mine
  <1>8. /\ new \subseteq Causes
        /\ account[w][n].status = "DISABLED" /\ now # "DISABLED" => "revived" \in new
        /\ now = "CONNECTED" /\ heard[w][n] = "restricted" => "barred" \in new
    BY DEF Causes
  <1> HIDE DEF new
  <1>9. /\ AmissTyped
        /\ amiss'[w][n] = amiss[w][n] \union new
        /\ \A v \in Workspaces, m \in Numbers : amiss[v][m] \subseteq amiss'[v][m]
    <2>1. amiss \in [Workspaces -> [Numbers -> SUBSET Causes]]
      BY <1>1 DEF AccountsTypes
    <2>2. row \in [Numbers -> SUBSET Causes] /\ row[n] = amiss[w][n] \union new
          /\ \A m \in Numbers \ {n} : row[m] = amiss[w][m]
      BY <2>1, <1>8
    <2> HIDE DEF row
    <2> QED BY <1>7, <2>1, <2>2 DEF AmissTyped
  <1>10. (Live(w, n) => Live(w, n)') /\ (Live(w, n)' => Live(w, n) \/ "revived" \in amiss'[w][n])
    <2>1. account[w][n].status \in {"PENDING", "CONNECTED", "ERROR", "DISABLED"}
      BY <1>1, <1>3, <1>4, <1>5 DEF Mine, AccountsTypes, Record
    <2> QED BY <1>6, <1>8, <1>9, <2>1 DEF Live
  <1>11. RestrictedIsStopped'
    <2>1. ASSUME NEW v \in Workspaces, NEW m \in Numbers,
                 heard'[v][m] = "restricted", account'[v][m].status = "CONNECTED"
          PROVE  \/ "barred" \in amiss'[v][m]
                 \/ /\ heard[v][m] = "restricted" /\ account[v][m].status = "CONNECTED"
                    /\ "barred" \in amiss[v][m] => "barred" \in amiss'[v][m]
      <3>1. CASE v = w /\ m = n
        BY <1>7, <1>8, <1>9, <2>1, <3>1
      <3>2. CASE v # w \/ m # n
        BY <1>6, <1>7, <1>9, <2>1, <3>2 DEF PatchedTo
      <3> QED BY <3>1, <3>2
    <2> QED BY <2>1, StaysRestricted DEF AccountsInv
  <1>12. heard' \in [Workspaces -> [Numbers -> Said \union {"none"}]]
    BY <1>1, <1>7 DEF AccountsTypes
  <1> QED BY <1>2, <1>3, <1>4, <1>6, <1>7, <1>9, <1>10, <1>11, <1>12, PatchingStep

\* The patch of an account_update.
LEMMA EventPatchesKeeps ==
    ASSUME AccountsInv, NEW a \in Acts, EventPatchesAccount(a)
    PROVE  AccountsInv'
  <1>1. act[a].step = "told" /\ AccountsTypes /\ Standing(a)
    BY DEF EventPatchesAccount, AccountsInv
  <1>2. act[a].kind \in Said /\ W(a) \in Workspaces /\ N(a) \in Numbers /\ Busy(a)
        /\ act[a].copy \in {"PENDING", "CONNECTED", "ERROR", "DISABLED"}
    <2>1. act[a] \in Telling
      BY <1>1, RequestKinds
    <2> QED BY <1>1, <2>1, KindsOf DEF W, N, Busy
  <1>3. PICK w \in Workspaces : w = W(a)
    BY <1>2
  <1>4. PICK n \in Numbers : n = N(a)
    BY <1>2
  <1>5. Mine(a) # NoAccount
    BY <1>1, <1>2 DEF Standing, HasRecord, Mine
  <1>6. /\ PatchedTo(a, w, n)
        /\ \/ act[a].kind = "restricted" /\ account'[w][n].status = "ERROR"
           \/ /\ act[a].kind = "verified" /\ act[a].copy = "ERROR"
              /\ account'[w][n].status = "CONNECTED"
           \/ act[a].kind = "verified" /\ account'[w][n].status = account[w][n].status
    <2>1. CASE act[a].kind = "restricted" /\ Patch(a, "ERROR")
      <3>1. PatchedTo(a, w, n) /\ account'[w][n].status = "ERROR"
        BY <1>3, <1>4, <1>5, <2>1, PatchIs
      <3> QED BY <2>1, <3>1
    <2>2. CASE act[a].kind = "verified" /\ act[a].copy = "ERROR" /\ Patch(a, "CONNECTED")
      <3>1. PatchedTo(a, w, n) /\ account'[w][n].status = "CONNECTED"
        BY <1>3, <1>4, <1>5, <2>2, PatchIs
      <3> QED BY <2>2, <3>1
    <2>3. CASE act[a].kind = "verified" /\ account' = account
      <3>1. PatchedTo(a, w, n) /\ account'[w][n].status = account[w][n].status
        BY <1>3, <1>4, <1>5, <2>3, PatchNone
      <3> QED BY <2>3, <3>1
    <2> QED BY <2>1, <2>2, <2>3 DEF EventPatchesAccount
  <1> DEFINE when == account[w][n].status \notin {act[a].copy} \ {"DISABLED"}
             told == [heard[w] EXCEPT ![n] = act[a].kind]
  <1>7. /\ Goes(a, "done") /\ claim' = claim /\ installed' = installed
        /\ Amiss(a, "revived", Mine(a).status \notin {act[a].copy} \ {"DISABLED"})
        /\ heard' = [heard EXCEPT ![w] = told]
    <2>1. heard \in [Workspaces -> [Numbers -> Said \union {"none"}]]
      BY <1>1 DEF AccountsTypes
    <2> QED BY <1>3, <1>4, <2>1 DEF EventPatchesAccount
  <1>8. /\ heard' \in [Workspaces -> [Numbers -> Said \union {"none"}]]
        /\ heard'[w][n] = act[a].kind
        /\ \A v \in Workspaces, m \in Numbers : v # w \/ m # n => heard'[v][m] = heard[v][m]
    <2>1. heard \in [Workspaces -> [Numbers -> Said \union {"none"}]]
      BY <1>1 DEF AccountsTypes
    <2>2. told \in [Numbers -> Said \union {"none"}] /\ told[n] = act[a].kind
          /\ \A m \in Numbers \ {n} : told[m] = heard[w][m]
      BY <1>2, <2>1
    <2> HIDE DEF told
    <2> QED BY <1>7, <2>1, <2>2
  <1>9. /\ AmissTyped
        /\ \A v \in Workspaces, m \in Numbers : amiss[v][m] \subseteq amiss'[v][m]
        /\ when => "revived" \in amiss'[w][n]
    <2> DEFINE hit == Mine(a).status \notin {act[a].copy} \ {"DISABLED"}
    <2>1. /\ AccountsTypes /\ W(a) \in Workspaces /\ N(a) \in Numbers /\ "revived" \in Causes
          /\ Amiss(a, "revived", hit)
      BY <1>1, <1>2, <1>7 DEF Causes
    <2>4. when => hit
      BY <1>3, <1>4 DEF Mine
    <2> HIDE DEF hit
    <2>2. CASE hit
      <3>1. amiss' = [amiss EXCEPT ![W(a)][N(a)] = @ \union {"revived"}]
        BY <2>1, <2>2 DEF Amiss
      <3>2. /\ AmissTyped
            /\ \A v \in Workspaces, m \in Numbers :
                 amiss'[v][m] = IF v = W(a) /\ m = N(a)
                                THEN amiss[v][m] \union {"revived"} ELSE amiss[v][m]
        BY <2>1, <3>1, AmissAdds
      <3> HIDE DEF when
      <3> QED BY <1>3, <1>4, <3>2
    <2>3. CASE ~hit
      <3>1. amiss' = amiss
        BY <2>1, <2>3 DEF Amiss
      <3> HIDE DEF when
      <3> QED BY <2>1, <2>3, <2>4, <3>1 DEF AmissTyped, AccountsTypes
    <2> QED BY <2>2, <2>3
  <1>10. (Live(w, n) => Live(w, n)') /\ (Live(w, n)' => Live(w, n) \/ "revived" \in amiss'[w][n])
    <2>1. account[w][n].status \in {"PENDING", "CONNECTED", "ERROR", "DISABLED"}
      BY <1>1, <1>3, <1>4, <1>5 DEF Mine, AccountsTypes, Record
    <2>2. account[w][n].status = "DISABLED" => when
      OBVIOUS
    <2> HIDE DEF when
    <2> QED BY <1>6, <1>9, <2>1, <2>2 DEF Live
  <1>11. RestrictedIsStopped'
    <2>1. ASSUME NEW v \in Workspaces, NEW m \in Numbers,
                 heard'[v][m] = "restricted", account'[v][m].status = "CONNECTED"
          PROVE  \/ "barred" \in amiss'[v][m]
                 \/ /\ heard[v][m] = "restricted" /\ account[v][m].status = "CONNECTED"
                    /\ "barred" \in amiss[v][m] => "barred" \in amiss'[v][m]
      <3>1. CASE v = w /\ m = n
        BY <1>6, <1>8, <2>1, <3>1
      <3>2. CASE v # w \/ m # n
        BY <1>6, <1>8, <1>9, <2>1, <3>2 DEF PatchedTo
      <3> QED BY <3>1, <3>2
    <2> QED BY <2>1, StaysRestricted DEF AccountsInv
  <1> HIDE DEF when, told
  <1> QED BY <1>2, <1>3, <1>4, <1>6, <1>7, <1>8, <1>9, <1>10, <1>11, PatchingStep

\* A request that dies has told it at its number, which needs what it held.
LEMMA ActDiesKeeps ==
    ASSUME AccountsInv, NEW a \in Acts, NEW w \in Workspaces, NEW n \in Numbers,
           W(a) = w, N(a) = n, ActDies(a)
    PROVE  AccountsInv'
  <1>1. /\ act[a].kind \in {"connect", "disconnect"} /\ Busy(a) /\ Goes(a, "done")
        /\ amiss' = [amiss EXCEPT ![W(a)][N(a)] = @ \union {"died"}]
        /\ claim' = claim /\ account' = account /\ heard' = heard /\ installed' = installed
    BY DEF ActDies, Amiss
  <1>2. Writer(a, w) /\ AccountsTypes /\ act[a].number = n
    BY <1>1 DEF Writer, AccountsInv, N
  <1>3. /\ AmissTyped
        /\ \A v \in Workspaces, m \in Numbers :
             amiss'[v][m] = IF v = W(a) /\ m = N(a) THEN amiss[v][m] \union {"died"}
                            ELSE amiss[v][m]
    <2>1. "died" \in Causes /\ W(a) \in Workspaces /\ N(a) \in Numbers
      BY DEF Causes
    <2> QED BY <1>1, <1>2, <2>1, AmissAdds
  <1>4. /\ \A v \in Workspaces, m \in Numbers : amiss[v][m] \subseteq amiss'[v][m]
        /\ "died" \in amiss'[w][n]
    BY <1>3
  <1>5. ActTyped /\ act'[a] = Over /\ \A c \in Acts \ {a} : act'[c] = act[c]
    BY <1>1, <1>2, GoesEffect
  <1>6. AccountsTypes'
    BY <1>1, <1>2, <1>3, <1>5 DEF AccountsTypes, ActTyped, AmissTyped
  <1>7. RestrictedIsStopped'
    BY <1>1, <1>4, StaysRestricted DEF AccountsInv
  <1>8. ~Busy(a)'
    BY <1>5 DEF Busy, Over
  <1>9. Local(a, w)
    BY <1>1, <1>4, <1>5, <1>8, OnlyOwn
  <1>10. Sound(a, w)
    BY <1>1, <1>4, <1>6, <1>7, <1>8, <1>9 DEF Sound, Standing, Steady
  <1> SUFFICES ASSUME ~Overlapped(w) PROVE InOrder(w)'
    BY <1>10, SoundComposed
  <1>11. /\ OnCourse(a)
         /\ \A m \in Numbers : Live(w, m) => Holds(w, m) \/ Excused(w, m) \/ Handles(a, m)
         /\ \A k \in AllKeys :
               claim[k] = w => (\E m \in Numbers : Needs(w, m, k)) \/ Pends(a, w, k)
         /\ \A c \in Acts \ {a} : ~Writer(c, w)'
    BY <1>2, <1>5, Sole
  <1>12. /\ \A m \in Numbers : \A k \in AllKeys : Needs(w, m, k) => Needs(w, m, k)'
         /\ \A m \in Numbers : Excused(w, m) => Excused(w, m)'
         /\ \A m \in Numbers : Live(w, m)' = Live(w, m)
    BY <1>1, <1>4, NeedsStays
  <1>13. Reached(w)'
    <2> SUFFICES ASSUME NEW m \in Numbers, Live(w, m)
                 PROVE  Holds(w, m)' \/ Excused(w, m)'
      BY <1>12 DEF Reached
    <2>1. CASE m = n
      BY <1>4, <2>1 DEF Excused, Lost
    <2>2. CASE m # n
      <3>1. ~Handles(a, m)
        BY <1>1, <1>2, <2>2 DEF Handles
      <3> QED BY <1>1, <1>11, <1>12, <3>1 DEF Holds
    <2> QED BY <2>1, <2>2
  <1>14. Needed(w)'
    <2> SUFFICES ASSUME NEW k \in AllKeys, claim[k] = w, Pends(a, w, k)
                 PROVE  \E m \in Numbers : Needs(w, m, k)'
      BY <1>1, <1>11, <1>12 DEF Needed
    <2>1. /\ act[a].kind = "connect" /\ act[a].step \in {"recorded", "phone", "claimed"}
          /\ k \in {n, act[a].waba}
      BY <1>1, <1>2 DEF Pends
    <2>2. account[w][n].waba = act[a].waba
      BY <1>11, <2>1 DEF OnCourse, ConnectOnCourse, Mine
    <2>3. k \in KeysOf(w, n)'
      BY <1>1, <2>1, <2>2 DEF KeysOf
    <2> QED BY <1>4, <2>3 DEF Needs
  <1>15. ~Writer(a, w)'
    BY <1>8 DEF Writer
  <1> QED BY <1>11, <1>13, <1>14, <1>15, SoleInOrder

-----------------------------------------------------------------------------
(***************************************************************************)
(* Uninstall and post-install.                                             *)
(***************************************************************************)
\* What is passed over the accounts stands.
LEMMA PassingFacts ==
    ASSUME AccountsInv, NEW a \in Acts, act[a].kind \in {"install", "uninstall"}
    PROVE  /\ act[a] \in Passing /\ Busy(a) /\ W(a) \in Workspaces
           /\ act[a].todo \subseteq Numbers /\ act[a].by = W(a)
           /\ installed[W(a)] = (act[a].kind # "uninstall")
  <1>1. AccountsTypes /\ Standing(a)
    BY DEF AccountsInv
  <1>2. act[a] \in Passing /\ Busy(a)
    BY <1>1, RequestKinds
  <1> QED BY <1>1, <1>2, KindsOf DEF W, Standing

\* One account of the list is done.
LEMMA TicksEffect ==
    ASSUME AccountsInv, NEW a \in Acts, NEW n \in Numbers,
           act[a].kind \in {"install", "uninstall"}, n \in act[a].todo, Ticks(a, n)
    PROVE  /\ ActTyped
           /\ \A b \in Acts \ {a} : act'[b] = act[b]
           /\ act[a].todo = {n} => act'[a] = Over
           /\ act[a].todo # {n} => /\ act'[a].kind = act[a].kind /\ act'[a].step = "listed"
                                   /\ act'[a].by = act[a].by
                                   /\ act'[a].todo = act[a].todo \ {n}
  <1>1. act \in [Acts -> ActTypes]
    BY DEF AccountsInv, AccountsTypes
  <1>2. act[a] \in Passing
    BY PassingFacts
  <1> DEFINE left == act[a].todo \ {n}
             less == [act[a] EXCEPT !.todo = left]
             one == IF left = {} THEN Over ELSE less
  <1>3. act' = [act EXCEPT ![a] = one]
    BY DEF Ticks
  <1>4. left \subseteq Numbers /\ (left = {} <=> act[a].todo = {n})
    BY <1>2, KindsOf
  <1> HIDE DEF left
  <1>7. /\ less.kind = act[a].kind /\ less.step = "listed" /\ less.by = act[a].by
        /\ less.todo = left
        /\ left # {} => less \in Passing
    <2>1. left # {} => left \in (SUBSET Numbers) \ {{}}
      BY <1>4
    <2> QED BY <1>2, <2>1 DEF Passing
  <1> HIDE DEF less
  <1>5. one \in ActTypes
    BY <1>7 DEF ActTypes
  <1>6. act'[a] = one /\ (\A b \in Acts \ {a} : act'[b] = act[b]) /\ ActTyped
    BY <1>1, <1>3, <1>5 DEF ActTyped
  <1> QED BY <1>4, <1>6, <1>7 DEF left

\* Uninstall begins while the workspace has nothing else to do: what its records
\* need is what the uninstall has to release.
LEMMA UninstallKeeps ==
    ASSUME AccountsInv, NEW a \in Acts, NEW w \in Workspaces, Uninstall(a, w)
    PROVE  AccountsInv'
  <1> DEFINE todo == {n \in Numbers : account[w][n] # NoAccount}
             new == [kind |-> "uninstall", step |-> "listed", by |-> w, todo |-> todo]
             one == IF todo = {} THEN Over ELSE new
  <1>0. AccountsTypes /\ InOrder(w)
    BY DEF AccountsInv
  <1>1. /\ act[a] = Unused /\ (\A b \in Acts : Busy(b) => W(b) # w)
        /\ installed' = [installed EXCEPT ![w] = FALSE] /\ act' = [act EXCEPT ![a] = one]
        /\ claim' = claim /\ account' = account /\ heard' = heard /\ amiss' = amiss
    BY DEF Uninstall
  <1>2. /\ new.kind = "uninstall" /\ new.step = "listed" /\ new.by = w /\ new.todo = todo
        /\ todo # {} => new \in Passing
    <2>1. todo # {} => todo \in (SUBSET Numbers) \ {{}}
      OBVIOUS
    <2> QED BY <2>1 DEF Passing
  <1>3. \A n \in Numbers : n \in todo <=> account[w][n] # NoAccount
    OBVIOUS
  <1>4. (todo = {} => one = Over) /\ (todo # {} => one = new)
    OBVIOUS
  <1> HIDE DEF one, new, todo
  <1>5. one \in ActTypes
    BY <1>2, <1>4 DEF ActTypes
  <1>6. ActTyped /\ act'[a] = one /\ \A c \in Acts \ {a} : act'[c] = act[c]
    BY <1>0, <1>1, <1>5 DEF ActTyped, AccountsTypes
  <1>7. /\ installed' \in [Workspaces -> BOOLEAN] /\ installed'[w] = FALSE
        /\ \A v \in Workspaces \ {w} : installed'[v] = installed[v]
    BY <1>0, <1>1 DEF AccountsTypes
  <1>8. AccountsTypes'
    BY <1>0, <1>1, <1>6, <1>7 DEF AccountsTypes, ActTyped
  <1>9. RestrictedIsStopped'
    BY <1>1 DEF AccountsInv, RestrictedIsStopped
  <1>10. ~Busy(a) /\ (Busy(a)' => W(a)' = w /\ act'[a] = new /\ todo # {})
    BY <1>1, <1>2, <1>4, <1>6 DEF Busy, W, Unused, Over
  <1>11. Local(a, w)
    BY <1>1, <1>6, <1>7, <1>10, OnlyOwn
  <1>12. Steady(a, w)
    BY <1>1 DEF Steady
  <1>13. Standing(a)'
    <2> SUFFICES ASSUME Busy(a)' PROVE Standing(a)'
      BY DEF Standing
    <2>1. ~HasRecord(a)' /\ OwnersKnown(a)'
      BY <1>2, <1>10 DEF HasRecord, OwnersKnown, Said
    <2> QED BY <1>2, <1>7, <1>10, <2>1 DEF Standing
  <1>14. Sound(a, w)
    BY <1>8, <1>9, <1>11, <1>12, <1>13 DEF Sound
  <1> SUFFICES ASSUME ~Overlapped(w) PROVE InOrder(w)'
    BY <1>14, SoundComposed
  <1>15. \A c \in Acts \ {a} : ~Writer(c, w)'
    <2> SUFFICES ASSUME NEW c \in Acts \ {a}, Writer(c, w)' PROVE FALSE
      OBVIOUS
    <2>1. act'[c] = act[c]
      BY <1>6
    <2> QED BY <1>1, <2>1 DEF Writer, Busy, W
  <1>16. Reached(w)'
    BY <1>7 DEF Reached
  <1>17. Needed(w)'
    <2> SUFFICES ASSUME NEW k \in AllKeys, claim[k] = w
                 PROVE  (\E n \in Numbers : Needs(w, n, k)') \/ Pends(a, w, k)'
      BY <1>1 DEF Needed
    <2>1. \A b \in Acts : ~Pends(b, w, k)
      BY <1>1 DEF Pends
    <2>2. PICK n \in Numbers : Needs(w, n, k)
      BY <1>0, <2>1 DEF InOrder, Needed
    <2>3. CASE Live(w, n) /\ k \in KeysOf(w, n)
      <3>1. n \in todo
        BY <1>3, <2>3 DEF Live, NoAccount
      <3>2. act'[a] = new
        BY <1>4, <1>6, <3>1
      <3>3. Busy(a)' /\ W(a)' = w
        BY <1>2, <3>2 DEF Busy, W
      <3>4. k \in KeysOf(w, n)'
        BY <1>1, <2>3 DEF KeysOf
      <3> QED BY <1>2, <3>1, <3>2, <3>3, <3>4 DEF Pends
    <2>4. CASE ~(Live(w, n) /\ k \in KeysOf(w, n))
      BY <1>1, <2>2, <2>4 DEF Needs, KeysOf
    <2> QED BY <2>3, <2>4
  <1>18. ~Writer(a, w)'
    BY <1>2, <1>10 DEF Writer
  <1> QED BY <1>15, <1>16, <1>17, <1>18, SoleInOrder

\* What an install begins with.
InstallList(w) == {n \in Numbers : account[w][n].status = "CONNECTED"}
InstallNew(w) == [kind |-> "install", step |-> "listed", by |-> w, todo |-> InstallList(w)]

\* Nobody is at a workspace without the app when it is installed again.
LEMMA InstallBegins ==
    ASSUME AccountsInv, NEW a \in Acts, NEW w \in Workspaces, Install(a, w)
    PROVE  /\ act[a] = Unused /\ claim' = claim /\ account' = account /\ heard' = heard
           /\ ActTyped /\ \A c \in Acts \ {a} : act'[c] = act[c]
           /\ InstallList(w) = {} => act'[a] = Over
           /\ InstallList(w) # {} => act'[a] = InstallNew(w)
           /\ installed' \in [Workspaces -> BOOLEAN] /\ installed'[w] = TRUE
           /\ \A v \in Workspaces \ {w} : installed'[v] = installed[v]
           /\ AmissTyped
           /\ \A v \in Workspaces, n \in Numbers : amiss[v][n] \subseteq amiss'[v][n]
           /\ ~installed[w] => /\ \A b \in Acts : Busy(b) => W(b) # w
                               /\ \A n \in Numbers :
                                    account[w][n].status \in {"PENDING", "ERROR"} =>
                                        "passed" \in amiss'[w][n]
           /\ installed[w] => Overlaps(w)
  <1> DEFINE one == IF InstallList(w) = {} THEN Over ELSE InstallNew(w)
  <1>0. AccountsTypes
    BY DEF AccountsInv
  <1>1. /\ act[a] = Unused /\ (\A b \in Acts : act[b].kind = "uninstall" /\ Busy(b) => W(b) # w)
        /\ installed' = [installed EXCEPT ![w] = TRUE] /\ act' = [act EXCEPT ![a] = one]
        /\ claim' = claim /\ account' = account /\ heard' = heard
        /\ installed[w] => Overlaps(w)
    BY DEF Install, InstallList, InstallNew
  <1>2. one \in ActTypes
    <2>1. InstallList(w) # {} => InstallList(w) \in (SUBSET Numbers) \ {{}}
      BY DEF InstallList
    <2> QED BY <2>1 DEF ActTypes, InstallNew, Passing
  <1>3. (InstallList(w) = {} => one = Over) /\ (InstallList(w) # {} => one = InstallNew(w))
    OBVIOUS
  <1> HIDE DEF one
  <1>4. ActTyped /\ act'[a] = one /\ \A c \in Acts \ {a} : act'[c] = act[c]
    BY <1>0, <1>1, <1>2 DEF ActTyped, AccountsTypes
  <1>5. /\ installed' \in [Workspaces -> BOOLEAN] /\ installed'[w] = TRUE
        /\ \A v \in Workspaces \ {w} : installed'[v] = installed[v]
    BY <1>0, <1>1 DEF AccountsTypes
  <1>6. CASE installed[w]
    <2>1. /\ AmissTyped
          /\ \A v \in Workspaces, m \in Numbers :
               amiss'[v][m] = IF Writing(w) /\ v = w THEN amiss[v][m] \union {"overlap"}
                              ELSE amiss[v][m]
      BY <1>0, <1>1, <1>6, OverlapsEffect
    <2>2. \A v \in Workspaces, n \in Numbers : amiss[v][n] \subseteq amiss'[v][n]
      BY <2>1
    <2>3. InstallList(w) = {} => act'[a] = Over
      BY <1>3, <1>4
    <2>4. InstallList(w) # {} => act'[a] = InstallNew(w)
      BY <1>3, <1>4
    <2> QED BY <1>1, <1>4, <1>5, <1>6, <2>1, <2>2, <2>3, <2>4
  <1>7. CASE ~installed[w]
    <2> DEFINE new(n) == IF account[w][n].status \in {"PENDING", "ERROR"} THEN {"passed"} ELSE {}
               row == [n \in Numbers |-> amiss[w][n] \union new(n)]
    <2>1. amiss \in [Workspaces -> [Numbers -> SUBSET Causes]]
      BY <1>0 DEF AccountsTypes
    <2>2. amiss' = [amiss EXCEPT ![w] = row]
      BY <1>7, <2>1 DEF Install
    <2>3. \A n \in Numbers : /\ new(n) \subseteq Causes
                             /\ account[w][n].status \in {"PENDING", "ERROR"} => "passed" \in new(n)
      BY DEF Causes
    <2> HIDE DEF new
    <2>4. row \in [Numbers -> SUBSET Causes] /\ \A n \in Numbers : row[n] = amiss[w][n] \union new(n)
      BY <2>1, <2>3
    <2> HIDE DEF row
    <2>5. /\ AmissTyped
          /\ \A v \in Workspaces, n \in Numbers : amiss[v][n] \subseteq amiss'[v][n]
          /\ \A n \in Numbers :
               account[w][n].status \in {"PENDING", "ERROR"} => "passed" \in amiss'[w][n]
      BY <2>1, <2>2, <2>3, <2>4 DEF AmissTyped
    <2>6. ASSUME NEW b \in Acts, Busy(b), W(b) = w
          PROVE  FALSE
      <3>1. installed[w] = (act[b].kind # "uninstall")
        BY <2>6 DEF AccountsInv, Standing
      <3> QED BY <1>1, <1>7, <2>6, <3>1
    <2> QED BY <1>1, <1>3, <1>4, <1>5, <1>7, <2>5, <2>6
  <1> QED BY <1>6, <1>7

\* Post-install: what is listed is on course, the rest is told.
LEMMA InstallKeeps ==
    ASSUME AccountsInv, NEW a \in Acts, NEW w \in Workspaces, Install(a, w)
    PROVE  AccountsInv'
  <1>0. AccountsTypes /\ InOrder(w)
    BY DEF AccountsInv
  <1>1. /\ act[a] = Unused /\ claim' = claim /\ account' = account /\ heard' = heard
        /\ ActTyped /\ \A c \in Acts \ {a} : act'[c] = act[c]
        /\ InstallList(w) = {} => act'[a] = Over
        /\ InstallList(w) # {} => act'[a] = InstallNew(w)
        /\ installed' \in [Workspaces -> BOOLEAN] /\ installed'[w] = TRUE
        /\ \A v \in Workspaces \ {w} : installed'[v] = installed[v]
        /\ AmissTyped
        /\ \A v \in Workspaces, n \in Numbers : amiss[v][n] \subseteq amiss'[v][n]
        /\ ~installed[w] => /\ \A b \in Acts : Busy(b) => W(b) # w
                            /\ \A n \in Numbers :
                                 account[w][n].status \in {"PENDING", "ERROR"} =>
                                     "passed" \in amiss'[w][n]
        /\ installed[w] => Overlaps(w)
    BY InstallBegins
  <1>2. AccountsTypes'
    BY <1>0, <1>1 DEF AccountsTypes, ActTyped, AmissTyped
  <1>3. RestrictedIsStopped'
    BY <1>1, StaysRestricted DEF AccountsInv
  <1>4. Busy(a)' => act'[a] = InstallNew(w) /\ InstallList(w) # {}
    BY <1>1 DEF Busy, Over
  <1>5. act'[a] = InstallNew(w) =>
            /\ act'[a].kind = "install" /\ act'[a].by = w /\ act'[a].step = "listed"
            /\ act'[a].todo = InstallList(w)
    BY DEF InstallNew
  <1>6. ~Busy(a) /\ (Busy(a)' => W(a)' = w)
    BY <1>1, <1>4, <1>5 DEF Busy, W, Unused
  <1>7. Local(a, w)
    BY <1>1, <1>6, OnlyOwn
  <1>8. Steady(a, w)
    <2>1. CASE installed[w]
      <3>1. installed[w] = TRUE
        BY <1>0, <2>1 DEF AccountsTypes
      <3> QED BY <1>1, <3>1 DEF Steady
    <2>2. CASE ~installed[w]
      BY <1>1, <2>2 DEF Steady
    <2> QED BY <2>1, <2>2
  <1>9. Standing(a)'
    <2> SUFFICES ASSUME Busy(a)' PROVE Standing(a)'
      BY DEF Standing
    <2>1. ~HasRecord(a)' /\ OwnersKnown(a)'
      BY <1>4, <1>5 DEF HasRecord, OwnersKnown, Said
    <2> QED BY <1>1, <1>4, <1>5, <1>6, <2>1 DEF Standing
  <1>10. Sound(a, w)
    BY <1>2, <1>3, <1>7, <1>8, <1>9 DEF Sound
  <1> SUFFICES ASSUME ~Overlapped(w) PROVE InOrder(w)'
    BY <1>10, SoundComposed
  <1>11. Writer(a, w)' => OnCourse(a)'
    <2> SUFFICES ASSUME Writer(a, w)' PROVE OnCourse(a)'
      OBVIOUS
    <2>1. act'[a].kind = "install" /\ act'[a].todo = InstallList(w) /\ W(a)' = w
      BY <1>4, <1>5, <1>6 DEF Writer
    <2>2. \A n \in InstallList(w) : Live(w, n)'
      BY <1>1 DEF InstallList, Live
    <2> QED BY <2>1, <2>2 DEF OnCourse, ConnectOnCourse, DisconnectOnCourse, InstallOnCourse
  <1>12. CASE installed[w]
    <2>1. CASE Overlapped(w)'
      BY <2>1 DEF InOrder
    <2>2. CASE ~Overlapped(w)'
      <3>1. ~Writing(w) /\ amiss' = amiss
        BY <1>0, <1>1, <1>12, <2>2, OverlapNoted
      <3>2. installed' = installed
        <4>1. \A v \in Workspaces : installed'[v] = installed[v]
          BY <1>0, <1>1, <1>12 DEF AccountsTypes
        <4> QED BY <1>0, <1>1, <4>1 DEF AccountsTypes
      <3> QED BY <1>0, <1>1, <1>2, <1>11, <3>1, <3>2, BeginsInOrder
    <2> QED BY <2>1, <2>2
  <1>13. CASE ~installed[w]
    <2>1. \A c \in Acts \ {a} : ~Writer(c, w)'
      <3> SUFFICES ASSUME NEW c \in Acts \ {a}, Writer(c, w)' PROVE FALSE
        OBVIOUS
      <3>1. act'[c] = act[c]
        BY <1>1
      <3> QED BY <1>1, <1>13, <3>1 DEF Writer, Busy, W
    <2>2. Reached(w)'
      <3> SUFFICES ASSUME NEW n \in Numbers, Live(w, n)
                   PROVE  Excused(w, n)' \/ (Writer(a, w)' /\ Handles(a, n)')
        BY <1>1 DEF Reached, Live
      <3>1. account[w][n].status \in {"PENDING", "CONNECTED", "ERROR", "DISABLED", "NONE"}
        BY <1>0 DEF AccountsTypes, Record, NoAccount
      <3>2. CASE account[w][n].status = "CONNECTED"
        <4>1. n \in InstallList(w)
          BY <3>2 DEF InstallList
        <4>2. act'[a] = InstallNew(w)
          BY <1>1, <4>1
        <4> QED BY <1>5, <4>1, <4>2 DEF Writer, Handles, Busy, W
      <3>3. CASE account[w][n].status \in {"PENDING", "ERROR"}
        BY <1>1, <1>13, <3>3 DEF Excused, Lost
      <3> QED BY <3>1, <3>2, <3>3 DEF Live
    <2>3. Needed(w)'
      <3> SUFFICES ASSUME NEW k \in AllKeys, claim[k] = w
                   PROVE  \E n \in Numbers : Needs(w, n, k)'
        BY <1>1 DEF Needed
      <3>1. \A b \in Acts : ~Pends(b, w, k)
        BY <1>1, <1>13 DEF Pends
      <3>2. PICK n \in Numbers : Needs(w, n, k)
        BY <1>0, <3>1 DEF InOrder, Needed
      <3>3. amiss[w][n] \subseteq amiss'[w][n]
        BY <1>1
      <3> QED BY <1>1, <1>13, <3>2, <3>3 DEF Needs, KeysOf
    <2> QED BY <1>11, <2>1, <2>2, <2>3, SoleInOrder
  <1> QED BY <1>12, <1>13

\* A step of what is passed over the accounts, whichever way it goes.
LEMMA PassingStep ==
    ASSUME AccountsInv, NEW a \in Acts, NEW w \in Workspaces, NEW n \in Numbers,
           W(a) = w, act[a].kind \in {"install", "uninstall"}, n \in act[a].todo, Ticks(a, n),
           account' = account, heard' = heard, installed' = installed,
           ClaimTyped, AmissTyped,
           \A v \in Workspaces, m \in Numbers :
             v # w \/ m # n => amiss[v][m] \subseteq amiss'[v][m],
           "barred" \in amiss[w][n] => "barred" \in amiss'[w][n],
           "overlap" \in amiss[w][n] => "overlap" \in amiss'[w][n],
           \A k \in AllKeys :
             claim'[k] # claim[k] => claim[k] \in {w, Nobody} /\ claim'[k] \in {w, Nobody}
    PROVE  /\ Sound(a, w)
           /\ \A b \in Acts \ {a} : act'[b] = act[b]
           /\ act[a].todo = {n} => ~Busy(a)'
           /\ act[a].todo # {n} => /\ act'[a].kind = act[a].kind /\ Busy(a)' /\ W(a)' = w
                                   /\ act'[a].todo = act[a].todo \ {n}
  <1>0. AccountsTypes /\ Standing(a)
    BY DEF AccountsInv
  <1>1. /\ ActTyped
        /\ \A b \in Acts \ {a} : act'[b] = act[b]
        /\ act[a].todo = {n} => act'[a] = Over
        /\ act[a].todo # {n} => /\ act'[a].kind = act[a].kind /\ act'[a].step = "listed"
                                /\ act'[a].by = act[a].by
                                /\ act'[a].todo = act[a].todo \ {n}
    BY TicksEffect
  <1>2. /\ act[a].todo = {n} => ~Busy(a)'
        /\ act[a].todo # {n} => Busy(a)' /\ W(a)' = w
    BY <1>1 DEF Busy, W, Over
  <1>3. AccountsTypes'
    BY <1>0, <1>1 DEF AccountsTypes, ActTyped, AmissTyped, ClaimTyped
  <1>4. \A v \in Workspaces, m \in Numbers :
            /\ "barred" \in amiss[v][m] => "barred" \in amiss'[v][m]
            /\ "overlap" \in amiss[v][m] => "overlap" \in amiss'[v][m]
    <2> SUFFICES ASSUME NEW v \in Workspaces, NEW m \in Numbers
                 PROVE  /\ "barred" \in amiss[v][m] => "barred" \in amiss'[v][m]
                        /\ "overlap" \in amiss[v][m] => "overlap" \in amiss'[v][m]
      OBVIOUS
    <2>1. CASE v = w /\ m = n
      BY <2>1
    <2>2. CASE v # w \/ m # n
      <3>1. amiss[v][m] \subseteq amiss'[v][m]
        BY <2>2
      <3> QED BY <3>1
    <2> QED BY <2>1, <2>2
  <1>5. RestrictedIsStopped'
    BY <1>4 DEF AccountsInv, RestrictedIsStopped
  <1>6. Local(a, w)
    <2>1. Busy(a)' => W(a)' = w
      BY <1>2
    <2>2. \A v \in Workspaces \ {w} :
            /\ installed'[v] = installed[v] /\ account'[v] = account[v]
            /\ \A m \in Numbers : amiss[v][m] \subseteq amiss'[v][m]
      OBVIOUS
    <2> QED BY <1>1, <2>1, <2>2, OnlyOwn
  <1>7. Steady(a, w)
    BY <1>4 DEF Steady
  <1>8. Standing(a)'
    <2> SUFFICES ASSUME Busy(a)' PROVE Standing(a)'
      BY DEF Standing
    <2>1. act'[a].kind = act[a].kind /\ W(a)' = w
      BY <1>1, <1>2
    <2>2. installed[w] = (act[a].kind # "uninstall")
      BY PassingFacts
    <2>3. ~HasRecord(a)' /\ OwnersKnown(a)'
      BY <2>1 DEF HasRecord, OwnersKnown, Said
    <2> QED BY <2>1, <2>2, <2>3 DEF Standing
  <1> QED BY <1>1, <1>2, <1>3, <1>5, <1>6, <1>7, <1>8 DEF Sound

\* A release: what it frees nobody of the workspace needs, what it leaves behind
\* it has told.
LEMMA ReleaseKeeps ==
    ASSUME AccountsInv, NEW a \in Acts, NEW w \in Workspaces, NEW n \in Numbers,
           W(a) = w, Release(a, n)
    PROVE  AccountsInv'
  <1> DEFINE keys == {k \in {n, account[w][n].waba} : claim[k] = w}
  <1>0. AccountsTypes
    BY DEF AccountsInv
  <1>1. /\ act[a].kind = "uninstall" /\ n \in act[a].todo /\ Ticks(a, n)
        /\ account' = account /\ heard' = heard /\ installed' = installed
    BY DEF Release, Doing
  <1>2. Busy(a) /\ ~installed[w] /\ Nobody # w /\ act[a].todo \subseteq Numbers
    BY <1>1, PassingFacts, AccountsAssumption
  <1>3. /\ ClaimTyped /\ AmissTyped
        /\ \A v \in Workspaces, m \in Numbers : amiss[v][m] \subseteq amiss'[v][m]
        /\ \A k \in AllKeys :
             claim'[k] # claim[k] => claim[k] \in {w, Nobody} /\ claim'[k] \in {w, Nobody}
        /\ \A k \in AllKeys : claim'[k] = w => claim[k] = w
        /\ \/ \A k \in AllKeys : k \in KeysOf(w, n) => claim'[k] # w
           \/ "died" \in amiss'[w][n]
    <2>1. /\ claim \in [AllKeys -> Workspaces \union {Nobody}]
          /\ amiss \in [Workspaces -> [Numbers -> SUBSET Causes]]
      BY <1>0 DEF AccountsTypes
    <2>2. CASE /\ claim' = [k \in DOMAIN claim |-> IF k \in keys THEN Nobody ELSE claim[k]]
               /\ amiss' = amiss
      <3>1. \A k \in AllKeys : claim'[k] = IF k \in keys THEN Nobody ELSE claim[k]
        BY <2>1, <2>2
      <3>2. ClaimTyped
        BY <2>1, <2>2 DEF ClaimTyped
      <3>3. \A k \in keys : claim[k] = w
        OBVIOUS
      <3>4. \A k \in AllKeys : k \in KeysOf(w, n) => claim'[k] # w
        BY <1>2, <3>1 DEF KeysOf
      <3> HIDE DEF keys
      <3>5. \A k \in AllKeys :
              claim'[k] # claim[k] => claim[k] \in {w, Nobody} /\ claim'[k] \in {w, Nobody}
        BY <3>1, <3>3
      <3>6. \A k \in AllKeys : claim'[k] = w => claim[k] = w
        BY <1>2, <3>1
      <3>7. AmissTyped /\ \A v \in Workspaces, m \in Numbers : amiss[v][m] \subseteq amiss'[v][m]
        BY <2>1, <2>2 DEF AmissTyped
      <3> QED BY <3>2, <3>4, <3>5, <3>6, <3>7
    <2>3. CASE claim' = claim /\ amiss' = [amiss EXCEPT ![w][n] = @ \union {"died"}]
      <3> DEFINE row == [amiss[w] EXCEPT ![n] = @ \union {"died"}]
      <3>1. row \in [Numbers -> SUBSET Causes] /\ "died" \in row[n]
            /\ \A m \in Numbers : amiss[w][m] \subseteq row[m]
        BY <2>1 DEF Causes
      <3>2. amiss' = [amiss EXCEPT ![w] = row]
        BY <2>1, <2>3
      <3> HIDE DEF row
      <3>3. /\ AmissTyped /\ "died" \in amiss'[w][n]
            /\ \A v \in Workspaces, m \in Numbers : amiss[v][m] \subseteq amiss'[v][m]
        BY <2>1, <3>1, <3>2 DEF AmissTyped
      <3>4. ClaimTyped
        BY <2>1, <2>3 DEF ClaimTyped
      <3> QED BY <2>3, <3>3, <3>4
    <2> QED BY <2>2, <2>3 DEF Release
  <1> HIDE DEF keys
  <1>4. /\ Sound(a, w)
        /\ \A b \in Acts \ {a} : act'[b] = act[b]
        /\ act[a].todo = {n} => ~Busy(a)'
        /\ act[a].todo # {n} => /\ act'[a].kind = act[a].kind /\ Busy(a)' /\ W(a)' = w
                                /\ act'[a].todo = act[a].todo \ {n}
    BY <1>1, <1>3, PassingStep
  <1> SUFFICES ASSUME ~Overlapped(w) PROVE InOrder(w)'
    BY <1>4, SoundComposed
  <1>5. \A c \in Acts \ {a} : ~Writer(c, w)'
    <2> SUFFICES ASSUME NEW c \in Acts \ {a}, Writer(c, w)' PROVE FALSE
      OBVIOUS
    <2>1. act'[c] = act[c]
      BY <1>4
    <2>2. Busy(c) /\ W(c) = w /\ act[c].kind # "uninstall"
      BY <2>1 DEF Writer, Busy, W
    <2>3. installed[w] = (act[c].kind # "uninstall")
      BY <2>2 DEF AccountsInv, Standing
    <2> QED BY <1>2, <2>2, <2>3
  <1>6. ~Writer(a, w)'
    BY <1>1, <1>4 DEF Writer
  <1>7. Reached(w)'
    BY <1>1, <1>2 DEF Reached
  <1>8. \A m \in Numbers : KeysOf(w, m)' = KeysOf(w, m)
    BY <1>1 DEF KeysOf
  <1>9. Needed(w)'
    <2> SUFFICES ASSUME NEW k \in AllKeys, claim'[k] = w
                 PROVE  (\E m \in Numbers : Needs(w, m, k)') \/ (\E b \in Acts : Pends(b, w, k)')
      BY DEF Needed
    <2>1. claim[k] = w
      BY <1>3
    <2>2. (\E m \in Numbers : Needs(w, m, k)) \/ (\E b \in Acts : Pends(b, w, k))
      BY <2>1 DEF AccountsInv, InOrder, Needed
    <2>3. CASE \E m \in Numbers : Needs(w, m, k)
      BY <1>1, <1>3, <2>3, NeedsStays
    <2>4. ASSUME NEW b \in Acts, Pends(b, w, k), b # a
          PROVE  Pends(b, w, k)'
      <3>1. act'[b] = act[b]
        BY <1>4, <2>4
      <3>2. act[b].kind = "uninstall" => act[b].todo \subseteq Numbers
        BY PassingFacts
      <3> QED BY <1>8, <2>4, <3>1, <3>2 DEF Pends, Busy, W
    <2>5. CASE Pends(a, w, k)
      <3>1. PICK m \in act[a].todo : k \in KeysOf(w, m)
        BY <1>1, <2>5 DEF Pends
      <3>2. CASE m = n
        <4>1. "died" \in amiss'[w][n]
          BY <1>3, <3>1, <3>2
        <4>2. Needs(w, n, k)'
          BY <1>8, <3>1, <3>2, <4>1 DEF Needs
        <4> QED BY <4>2
      <3>3. CASE m # n
        <4>1. act[a].todo # {n} /\ m \in Numbers
          BY <1>2, <3>1, <3>3
        <4>2. m \in act'[a].todo /\ k \in KeysOf(w, m)'
          BY <1>4, <1>8, <3>1, <3>3, <4>1
        <4>3. Pends(a, w, k)'
          BY <1>1, <1>4, <4>1, <4>2 DEF Pends
        <4> QED BY <4>3
      <3> QED BY <3>2, <3>3
    <2> QED BY <2>2, <2>3, <2>4, <2>5
  <1> QED BY <1>5, <1>6, <1>7, <1>9, SoleInOrder

\* What a repair does: all of a number's claims are the workspace's, and what was
\* told of it is settled, or nothing is and that is told.
RepairDone(w, n) ==
    /\ \A k \in AllKeys : k \in KeysOf(w, n) => claim'[k] = w
    /\ amiss[w][n] \ {"unproven", "died", "revived", "passed"} \subseteq amiss'[w][n]
RepairNotDone(w, n) ==
    claim' = claim /\ "taken" \in amiss'[w][n] /\ amiss[w][n] \subseteq amiss'[w][n]

\* Either way, nobody else is touched.
LEMMA RepairEffect ==
    ASSUME AccountsInv, NEW a \in Acts, NEW w \in Workspaces, NEW n \in Numbers,
           W(a) = w, Repair(a, n)
    PROVE  /\ ClaimTyped /\ AmissTyped
           /\ \A v \in Workspaces, m \in Numbers : v # w \/ m # n => amiss'[v][m] = amiss[v][m]
           /\ \A k \in AllKeys :
                claim'[k] # claim[k] =>
                    k \in KeysOf(w, n) /\ claim[k] \in {w, Nobody} /\ claim'[k] = w
           /\ RepairDone(w, n) \/ RepairNotDone(w, n)
  <1> DEFINE keys == {n, account[w][n].waba}
             gone == {"unproven", "died", "revived", "passed"}
  <1>1. /\ claim \in [AllKeys -> Workspaces \union {Nobody}]
        /\ amiss \in [Workspaces -> [Numbers -> SUBSET Causes]]
    BY DEF AccountsInv, AccountsTypes
  <1>2. CASE /\ MayClaim(w, {claim[k] : k \in keys})
             /\ claim' = [k \in DOMAIN claim |-> IF k \in keys THEN w ELSE claim[k]]
             /\ amiss' = [amiss EXCEPT ![w][n] = @ \ gone]
    <2> DEFINE row == [amiss[w] EXCEPT ![n] = @ \ gone]
    <2>1. row \in [Numbers -> SUBSET Causes] /\ row[n] = amiss[w][n] \ gone
          /\ \A m \in Numbers \ {n} : row[m] = amiss[w][m]
      BY <1>1
    <2>2. amiss' = [amiss EXCEPT ![w] = row]
      BY <1>1, <1>2
    <2> HIDE DEF row, gone
    <2>3. /\ AmissTyped /\ amiss'[w][n] = amiss[w][n] \ gone
          /\ \A v \in Workspaces, m \in Numbers : v # w \/ m # n => amiss'[v][m] = amiss[v][m]
      BY <1>1, <2>1, <2>2 DEF AmissTyped
    <2>4. \A k \in keys : claim[k] \in {w, Nobody}
      BY <1>2 DEF MayClaim
    <2>5. ClaimTyped /\ \A k \in AllKeys : claim'[k] = IF k \in keys THEN w ELSE claim[k]
      BY <1>1, <1>2 DEF ClaimTyped
    <2>6. \A k \in AllKeys : k \in keys <=> k \in KeysOf(w, n)
      BY DEF KeysOf
    <2> HIDE DEF keys
    <2>7. \A k \in AllKeys :
            claim'[k] # claim[k] =>
                k \in KeysOf(w, n) /\ claim[k] \in {w, Nobody} /\ claim'[k] = w
      BY <2>4, <2>5, <2>6
    <2>8. RepairDone(w, n)
      BY <2>3, <2>5, <2>6 DEF RepairDone, gone
    <2> QED BY <2>3, <2>5, <2>7, <2>8
  <1>3. CASE claim' = claim /\ amiss' = [amiss EXCEPT ![w][n] = @ \union {"taken"}]
    <2> DEFINE row == [amiss[w] EXCEPT ![n] = @ \union {"taken"}]
    <2>1. row \in [Numbers -> SUBSET Causes] /\ row[n] = amiss[w][n] \union {"taken"}
          /\ \A m \in Numbers \ {n} : row[m] = amiss[w][m]
      BY <1>1 DEF Causes
    <2>2. amiss' = [amiss EXCEPT ![w] = row]
      BY <1>1, <1>3
    <2> HIDE DEF row
    <2>3. /\ AmissTyped /\ amiss'[w][n] = amiss[w][n] \union {"taken"}
          /\ \A v \in Workspaces, m \in Numbers : v # w \/ m # n => amiss'[v][m] = amiss[v][m]
      BY <1>1, <2>1, <2>2 DEF AmissTyped
    <2>4. ClaimTyped /\ RepairNotDone(w, n)
      BY <1>1, <1>3, <2>3 DEF ClaimTyped, RepairNotDone
    <2> QED BY <1>3, <2>3, <2>4
  <1> QED BY <1>2, <1>3 DEF Repair

\* A repair holds what it has repaired, for a record that is live.
LEMMA RepairKeeps ==
    ASSUME AccountsInv, NEW a \in Acts, NEW w \in Workspaces, NEW n \in Numbers,
           W(a) = w, Repair(a, n)
    PROVE  AccountsInv'
  <1>1. /\ act[a].kind = "install" /\ n \in act[a].todo /\ Ticks(a, n)
        /\ account' = account /\ heard' = heard /\ installed' = installed
    BY DEF Repair, Doing
  <1>2. Writer(a, w) /\ act[a].todo \subseteq Numbers /\ AccountsTypes /\ Nobody \notin Workspaces
    BY <1>1, PassingFacts, AccountsAssumption DEF Writer, AccountsInv
  <1>3. /\ ClaimTyped /\ AmissTyped
        /\ \A v \in Workspaces, m \in Numbers : v # w \/ m # n => amiss'[v][m] = amiss[v][m]
        /\ \A k \in AllKeys :
             claim'[k] # claim[k] =>
                 k \in KeysOf(w, n) /\ claim[k] \in {w, Nobody} /\ claim'[k] = w
        /\ RepairDone(w, n) \/ RepairNotDone(w, n)
    BY RepairEffect
  <1>4. /\ "barred" \in amiss[w][n] => "barred" \in amiss'[w][n]
        /\ "overlap" \in amiss[w][n] => "overlap" \in amiss'[w][n]
        /\ "race" \in amiss[w][n] => "race" \in amiss'[w][n]
        /\ "moved" \in amiss[w][n] => "moved" \in amiss'[w][n]
    BY <1>3 DEF RepairDone, RepairNotDone
  <1>5. /\ Sound(a, w)
        /\ \A b \in Acts \ {a} : act'[b] = act[b]
        /\ act[a].todo = {n} => ~Busy(a)'
        /\ act[a].todo # {n} => /\ act'[a].kind = act[a].kind /\ Busy(a)' /\ W(a)' = w
                                /\ act'[a].todo = act[a].todo \ {n}
    <2>1. \A v \in Workspaces, m \in Numbers : v # w \/ m # n => amiss[v][m] \subseteq amiss'[v][m]
      BY <1>3
    <2>2. \A k \in AllKeys :
             claim'[k] # claim[k] => claim[k] \in {w, Nobody} /\ claim'[k] \in {w, Nobody}
      BY <1>3
    <2> QED BY <1>1, <1>3, <1>4, <2>1, <2>2, PassingStep
  <1> SUFFICES ASSUME ~Overlapped(w) PROVE InOrder(w)'
    BY <1>5, SoundComposed
  <1>6. /\ installed[w] /\ OnCourse(a)
        /\ \A m \in Numbers : Live(w, m) => Holds(w, m) \/ Excused(w, m) \/ Handles(a, m)
        /\ \A k \in AllKeys :
              claim[k] = w => (\E m \in Numbers : Needs(w, m, k)) \/ Pends(a, w, k)
        /\ \A c \in Acts \ {a} : ~Writer(c, w)'
    BY <1>2, <1>5, Sole
  <1>7. \A m \in act[a].todo : Live(w, m)
    BY <1>1, <1>6 DEF OnCourse, InstallOnCourse
  <1>8. \A m \in Numbers : Live(w, m)' = Live(w, m) /\ KeysOf(w, m)' = KeysOf(w, m)
    BY <1>1 DEF Live, KeysOf
  <1>9. \A m \in Numbers : Live(w, m) => m \in AllKeys /\ account[w][m].waba \in AllKeys
    BY <1>2 DEF AccountsTypes, Record, NoAccount, Live, AllKeys
  <1>10. \A k \in AllKeys : claim[k] = w => claim'[k] = w
    BY <1>3
  <1>11. Reached(w)'
    <2> SUFFICES ASSUME NEW m \in Numbers, Live(w, m)
                 PROVE  Holds(w, m)' \/ Excused(w, m)' \/ (Writer(a, w)' /\ Handles(a, m)')
      BY <1>8 DEF Reached
    <2>1. CASE m = n
      <3>1. CASE RepairDone(w, n)
        BY <1>1, <1>9, <2>1, <3>1 DEF RepairDone, Holds, KeysOf
      <3>2. CASE RepairNotDone(w, n)
        BY <2>1, <3>2 DEF RepairNotDone, Excused, Lost
      <3> QED BY <1>3, <3>1, <3>2
    <2>2. CASE m # n
      <3>1. Holds(w, m) => Holds(w, m)'
        BY <1>1, <1>9, <1>10 DEF Holds
      <3>2. Excused(w, m) => Excused(w, m)'
        BY <1>3, <2>2 DEF Excused
      <3>3. ASSUME Handles(a, m)
            PROVE  Writer(a, w)' /\ Handles(a, m)'
        <4>1. m \in act[a].todo /\ act[a].todo # {n}
          BY <1>1, <2>2, <3>3 DEF Handles
        <4>2. act'[a].kind = "install" /\ Busy(a)' /\ W(a)' = w /\ m \in act'[a].todo
          BY <1>1, <1>5, <2>2, <4>1
        <4> QED BY <4>2 DEF Writer, Handles
      <3> QED BY <1>6, <3>1, <3>2, <3>3
    <2> QED BY <2>1, <2>2
  <1>12. Needed(w)'
    <2> SUFFICES ASSUME NEW k \in AllKeys, claim'[k] = w
                 PROVE  \E m \in Numbers : Needs(w, m, k)'
      BY DEF Needed
    <2>1. CASE k \in KeysOf(w, n)
      <3>1. installed'[w] /\ Live(w, n)' /\ k \in KeysOf(w, n)'
        BY <1>1, <1>6, <1>7, <1>8, <2>1
      <3> QED BY <3>1 DEF Needs
    <2>2. CASE k \notin KeysOf(w, n)
      <3>1. claim[k] = w
        BY <1>3, <2>2
      <3>2. ~Pends(a, w, k)
        BY <1>1 DEF Pends
      <3>3. PICK m \in Numbers : Needs(w, m, k)
        BY <1>6, <3>1, <3>2
      <3>4. CASE m = n
        <4>1. amiss[w][n] \intersect {"race", "moved"} # {}
          BY <2>2, <3>3, <3>4 DEF Needs
        <4>2. amiss'[w][n] \intersect {"race", "moved"} # {}
          BY <1>4, <4>1
        <4> QED BY <4>2 DEF Needs
      <3>5. CASE m # n
        <4>1. amiss'[w][m] = amiss[w][m]
          BY <1>3, <3>5
        <4>2. Needs(w, m, k)'
          BY <1>1, <1>8, <3>3, <4>1 DEF Needs
        <4> QED BY <4>2
      <3> QED BY <3>4, <3>5
    <2> QED BY <2>1, <2>2
  <1>13. Writer(a, w)' => OnCourse(a)'
    <2> SUFFICES ASSUME Writer(a, w)' PROVE OnCourse(a)'
      OBVIOUS
    <2>1. act[a].todo # {n}
      BY <1>5 DEF Writer
    <2>2. act'[a].kind = "install" /\ W(a)' = w /\ act'[a].todo = act[a].todo \ {n}
      BY <1>1, <1>5, <2>1
    <2>3. \A m \in act'[a].todo : Live(w, m)'
      BY <1>2, <1>7, <1>8, <2>2
    <2> QED BY <2>2, <2>3 DEF OnCourse, ConnectOnCourse, DisconnectOnCourse, InstallOnCourse
  <1> QED BY <1>6, <1>11, <1>12, <1>13, SoleInOrder

-----------------------------------------------------------------------------
(***************************************************************************)
(* The theorems.                                                           *)
(***************************************************************************)
\* One number may be connected from the start: it holds what it needs.
LEMMA AccountsInitInv ==
    ASSUME AccountsInit PROVE AccountsInv
  <1>1. PICK start \in Workspaces \union {Nobody}, number \in Numbers, waba \in Wabas :
          /\ claim = [k \in Numbers \union Wabas |-> IF k \in {number, waba} THEN start ELSE Nobody]
          /\ account = [w \in Workspaces |-> [n \in Numbers |->
                IF w = start /\ n = number THEN [status |-> "CONNECTED", waba |-> waba]
                ELSE NoAccount]]
    BY DEF AccountsInit
  <1>2. /\ act = [a \in Acts |-> Unused]
        /\ heard = [w \in Workspaces |-> [n \in Numbers |-> "none"]]
        /\ installed = [w \in Workspaces |-> TRUE]
        /\ amiss = [w \in Workspaces |-> [n \in Numbers |-> {}]]
    BY DEF AccountsInit
  <1> DEFINE given == [status |-> "CONNECTED", waba |-> waba]
  <1>3. given \in Record /\ given.status = "CONNECTED" /\ given.waba = waba
    BY DEF Record
  <1>4. \A w \in Workspaces, n \in Numbers :
          account[w][n] = IF w = start /\ n = number THEN given ELSE NoAccount
    BY <1>1
  <1>5. account \in [Workspaces -> [Numbers -> Record \union {NoAccount}]]
    BY <1>1, <1>3
  <1> HIDE DEF given
  <1>6. claim \in [AllKeys -> Workspaces \union {Nobody}]
    BY <1>1 DEF AllKeys
  <1>7. AccountsTypes
    BY <1>2, <1>5, <1>6 DEF AccountsTypes, ActTypes
  <1>8. RestrictedIsStopped
    BY <1>2 DEF RestrictedIsStopped
  <1>9. \A a \in Acts : ~Busy(a)
    BY <1>2 DEF Busy, Unused
  <1>10. ASSUME NEW w \in Workspaces PROVE InOrder(w)
    <2>1. Alone(w) /\ \A a \in Acts : Writer(a, w) => OnCourse(a)
      BY <1>9 DEF Alone, Writer
    <2>2. \A n \in Numbers : Live(w, n) <=> w = start /\ n = number
      BY <1>3, <1>4 DEF Live, NoAccount
    <2>3. Reached(w)
      <3> SUFFICES ASSUME w = start PROVE Holds(w, number)
        BY <2>2 DEF Reached
      <3> QED BY <1>1, <1>3, <1>4 DEF Holds
    <2>4. Needed(w)
      <3> SUFFICES ASSUME NEW k \in AllKeys, claim[k] = w PROVE Needs(w, number, k)
        BY DEF Needed
      <3>1. k \in {number, waba} /\ w = start
        BY <1>1, AccountsAssumption DEF AllKeys
      <3>2. k \in KeysOf(w, number)
        BY <1>3, <1>4, <3>1 DEF KeysOf
      <3> QED BY <1>2, <2>2, <3>1, <3>2 DEF Needs
    <2> QED BY <2>1, <2>3, <2>4 DEF InOrder
  <1> QED BY <1>7, <1>8, <1>9, <1>10 DEF AccountsInv, Standing

\* The steps of a request, a check or an event.
LEMMA OwnStepKeeps ==
    ASSUME AccountsInv, NEW a \in Acts,
           \/ ConnectRecords(a) \/ ClaimPhone(a) \/ ClaimWaba(a) \/ ConnectProbes(a)
           \/ UnclaimPhone(a) \/ UnclaimWaba(a)
           \/ ClearPhone(a) \/ ClearWaba(a) \/ Disable(a)
           \/ ProbeAnswers(a) \/ EventPatchesAccount(a) \/ ActDies(a)
    PROVE  AccountsInv'
  <1>1. CASE ProbeAnswers(a)
    BY <1>1, ProbeAnswersKeeps
  <1>2. CASE EventPatchesAccount(a)
    BY <1>2, EventPatchesKeeps
  <1>3. ASSUME act[a].kind \in {"connect", "disconnect"} PROVE AccountsInv'
    <2>1. W(a) \in Workspaces /\ N(a) \in Numbers
      BY <1>3, ConnectFacts, DisconnectFacts
    <2>2. PICK w \in Workspaces, n \in Numbers : W(a) = w /\ N(a) = n
      BY <2>1
    <2>3. CASE ConnectRecords(a)
      BY <2>2, <2>3, ConnectRecordsKeeps
    <2>4. CASE ClaimPhone(a)
      BY <2>2, <2>4, ClaimPhoneKeeps
    <2>5. CASE ClaimWaba(a)
      BY <2>2, <2>5, ClaimWabaKeeps
    <2>6. CASE ConnectProbes(a)
      BY <2>2, <2>6, ConnectProbesKeeps
    <2>7. CASE UnclaimPhone(a)
      BY <2>2, <2>7, UnclaimPhoneKeeps
    <2>8. CASE UnclaimWaba(a)
      BY <2>2, <2>8, UnclaimWabaKeeps
    <2>9. CASE ClearPhone(a)
      BY <2>2, <2>9, ClearPhoneKeeps
    <2>10. CASE ClearWaba(a)
      BY <2>2, <2>10, ClearWabaKeeps
    <2>11. CASE Disable(a)
      BY <2>2, <2>11, DisableKeeps
    <2>12. CASE ActDies(a)
      BY <2>2, <2>12, ActDiesKeeps
    <2> QED
      BY <1>1, <1>2, <2>3, <2>4, <2>5, <2>6, <2>7, <2>8, <2>9, <2>10, <2>11, <2>12
  <1>4. CASE ConnectRecords(a) \/ ClaimPhone(a) \/ ClaimWaba(a) \/ ConnectProbes(a)
             \/ UnclaimPhone(a) \/ UnclaimWaba(a)
    <2>1. act[a].kind = "connect"
      BY <1>4 DEF ConnectRecords, ClaimPhone, ClaimWaba, ConnectProbes, UnclaimPhone,
                  UnclaimWaba, Doing
    <2> QED BY <1>3, <2>1
  <1>5. CASE ClearPhone(a) \/ ClearWaba(a) \/ Disable(a) \/ ActDies(a)
    <2>1. act[a].kind \in {"connect", "disconnect"}
      BY <1>5 DEF ClearPhone, ClearWaba, Disable, ActDies, Doing
    <2> QED BY <1>3, <2>1
  <1> QED BY <1>1, <1>2, <1>4, <1>5

\* No step of anybody breaks the invariant.
LEMMA AccountsNextInv ==
    ASSUME AccountsInv, [AccountsNext]_accountVars PROVE AccountsInv'
  <1>1. CASE UNCHANGED accountVars
    <2>1. /\ claim' = claim /\ account' = account /\ act' = act /\ heard' = heard
          /\ installed' = installed /\ amiss' = amiss
      BY <1>1 DEF accountVars
    <2>2. AccountsTypes' /\ RestrictedIsStopped'
      BY <2>1 DEF AccountsInv, AccountsTypes, RestrictedIsStopped
    <2>3. \A a \in Acts : Standing(a)'
      BY <2>1 DEF AccountsInv, Standing, Busy, OwnersKnown, HasRecord, W, N
    <2>4. ASSUME NEW v \in Workspaces PROVE InOrder(v)'
      <3>1. \A b \in Acts : Serious(b, v)' => Serious(b, v)
        BY <2>1 DEF Serious, Busy, W
      <3>2. Gentle(v)
        BY <2>1, <3>1 DEF Gentle, Live
      <3> QED BY <3>2, GentleInOrder DEF AccountsInv
    <2> QED BY <2>2, <2>3, <2>4 DEF AccountsInv
  <1>2. CASE AccountsNext
    <2>1. PICK a \in Acts :
        \/ ConnectRecords(a) \/ ClaimPhone(a) \/ ClaimWaba(a) \/ ConnectProbes(a)
        \/ UnclaimPhone(a) \/ UnclaimWaba(a)
        \/ ClearPhone(a) \/ ClearWaba(a) \/ Disable(a)
        \/ ProbeAnswers(a) \/ EventPatchesAccount(a) \/ ActDies(a)
        \/ \E w \in Workspaces : Uninstall(a, w) \/ Install(a, w)
        \/ \E n \in Numbers : Release(a, n) \/ Repair(a, n)
        \/ \E w \in Workspaces, n \in Numbers :
             \/ \E b \in Wabas : ConnectAsks(a, w, n, b)
             \/ DisconnectAsks(a, w, n)
             \/ \E kind \in {"test", "check"} : ProbeLists(a, w, n, kind)
             \/ \E said \in {"restricted", "verified"} : EventReadsAccount(a, w, n, said)
      BY <1>2 DEF AccountsNext
    <2>2. CASE \/ ConnectRecords(a) \/ ClaimPhone(a) \/ ClaimWaba(a) \/ ConnectProbes(a)
               \/ UnclaimPhone(a) \/ UnclaimWaba(a)
               \/ ClearPhone(a) \/ ClearWaba(a) \/ Disable(a)
               \/ ProbeAnswers(a) \/ EventPatchesAccount(a) \/ ActDies(a)
      BY <2>2, OwnStepKeeps
    <2>3. ASSUME NEW w \in Workspaces, Uninstall(a, w) PROVE AccountsInv'
      BY <2>3, UninstallKeeps
    <2>4. ASSUME NEW w \in Workspaces, Install(a, w) PROVE AccountsInv'
      BY <2>4, InstallKeeps
    <2>5. ASSUME NEW n \in Numbers, Release(a, n) PROVE AccountsInv'
      <3>1. W(a) \in Workspaces
        BY <2>5, PassingFacts DEF Release, Doing
      <3> QED BY <2>5, <3>1, ReleaseKeeps
    <2>6. ASSUME NEW n \in Numbers, Repair(a, n) PROVE AccountsInv'
      <3>1. W(a) \in Workspaces
        BY <2>6, PassingFacts DEF Repair, Doing
      <3> QED BY <2>6, <3>1, RepairKeeps
    <2>7. ASSUME NEW w \in Workspaces, NEW n \in Numbers, NEW b \in Wabas, ConnectAsks(a, w, n, b)
          PROVE  AccountsInv'
      BY <2>7, ConnectAsksKeeps
    <2>8. ASSUME NEW w \in Workspaces, NEW n \in Numbers, DisconnectAsks(a, w, n)
          PROVE  AccountsInv'
      BY <2>8, DisconnectAsksKeeps
    <2>9. ASSUME NEW w \in Workspaces, NEW n \in Numbers, NEW kind \in {"test", "check"},
                 ProbeLists(a, w, n, kind)
          PROVE  AccountsInv'
      BY <2>9, ProbeListsKeeps
    <2>10. ASSUME NEW w \in Workspaces, NEW n \in Numbers, NEW said \in {"restricted", "verified"},
                  EventReadsAccount(a, w, n, said)
           PROVE  AccountsInv'
      BY <2>10, EventReadsKeeps
    <2> QED BY <2>1, <2>2, <2>3, <2>4, <2>5, <2>6, <2>7, <2>8, <2>9, <2>10
  <1> QED BY <1>1, <1>2

\* The accounts of a server keep their invariant: unless requests of a workspace
\* overlapped, its one request that writes claims is on course, every live record
\* is reached, excused or handled, and every claim is needed or pending.
THEOREM AccountsInvariant == AccountsSpec => []AccountsInv
  <1>1. AccountsInit => AccountsInv
    BY AccountsInitInv
  <1>2. AccountsInv /\ [AccountsNext]_accountVars => AccountsInv'
    BY AccountsNextInv
  <1> QED BY <1>1, <1>2, PTL DEF AccountsSpec

\* Claims, records, requests and causes keep their types.
THEOREM AccountsIsTyped == AccountsSpec => []AccountsTypeOK
  <1>1. AccountsInv => AccountsTypeOK
    <2> SUFFICES ASSUME AccountsInv PROVE AccountsTypeOK
      OBVIOUS
    <2>1. AccountsTypes
      BY DEF AccountsInv
    <2>2. claim \in [Numbers \union Wabas -> Workspaces \union {Nobody}]
      BY <2>1 DEF AccountsTypes, AllKeys
    <2>3. ASSUME NEW w \in Workspaces, NEW n \in Numbers
          PROVE  /\ account[w][n] = NoAccount \/ account[w][n] \in Record
                 /\ amiss[w][n] \subseteq Causes
      BY <2>1 DEF AccountsTypes
    <2> QED BY <2>2, <2>3 DEF AccountsTypeOK, Record, Causes
  <1> QED BY <1>1, AccountsInvariant, PTL

\* connect, disconnect, install and uninstall: a number that is shown as connected
\* is reached, a claim is needed, a restriction stops the sending, each unless
\* something went between the steps that the model names.
THEOREM AccountsTold == AccountsSpec => []AccountsAreRouted
  <1>1. AccountsInv => AccountsAreRouted
    <2> SUFFICES ASSUME AccountsInv PROVE AccountsAreRouted
      OBVIOUS
    <2>0. Nobody \notin Workspaces /\ AccountsTypes
      BY AccountsAssumption DEF AccountsInv
    <2>1. ASSUME NEW w \in Workspaces, Quiet(w)
          PROVE  \A a \in Acts : ~Writer(a, w) /\ \A k \in AllKeys : ~Pends(a, w, k)
      BY <2>1 DEF Quiet, Writer, Pends
    <2>2. ConnectedIsReached
      <3> SUFFICES ASSUME NEW w \in Workspaces, NEW n \in Numbers,
                          account[w][n].status = "CONNECTED", installed[w], Quiet(w)
                   PROVE  \/ {RoutedTo(n, account[w][n].waba), claim[account[w][n].waba]} = {w}
                          \/ amiss[w][n] \intersect Lost # {}
        BY DEF ConnectedIsReached, Lost
      <3>1. CASE Overlapped(w)
        BY <3>1 DEF Overlapped, Lost
      <3>2. CASE ~Overlapped(w)
        <4>1. Reached(w) /\ Live(w, n)
          BY <3>2 DEF AccountsInv, InOrder, Live
        <4>2. Holds(w, n) \/ Excused(w, n)
          BY <2>1, <4>1 DEF Reached
        <4> QED BY <2>0, <4>2 DEF Holds, Excused, RoutedTo
      <3> QED BY <3>1, <3>2
    <2>3. ClaimIsNeeded
      <3> SUFFICES ASSUME NEW k \in AllKeys, NEW w, w = claim[k], w # Nobody, Quiet(w)
                   PROVE  \E n \in Numbers :
                            \/ /\ installed[w] /\ account[w][n].status \notin {"NONE", "DISABLED"}
                               /\ k \in {n, account[w][n].waba}
                            \/ amiss[w][n] \intersect {"race", "moved", "died", "overlap"} # {}
        BY DEF ClaimIsNeeded, AllKeys
      <3>0. w \in Workspaces
        BY <2>0 DEF AccountsTypes
      <3>1. CASE Overlapped(w)
        BY <3>1 DEF Overlapped
      <3>2. CASE ~Overlapped(w)
        <4>1. Needed(w)
          BY <3>0, <3>2 DEF AccountsInv, InOrder
        <4>2. PICK n \in Numbers : Needs(w, n, k)
          BY <2>1, <3>0, <4>1 DEF Needed
        <4> QED BY <4>2 DEF Needs, Live, KeysOf
      <3> QED BY <3>1, <3>2
    <2> QED BY <2>2, <2>3 DEF AccountsAreRouted, AccountsInv
  <1> QED BY <1>1, AccountsInvariant, PTL

(***************************************************************************)
(* MCOffice: each behaviour of the office is one of each component.        *)
(***************************************************************************)
\* What happens at one place is a step of its component, and of no other.
LEMMA OfficeImplements ==
    OfficeSpec => AccountsSpec /\ UpkeepSpec /\ ErasureSpec /\ SettingsSpec
PROOF
  <1>1. OfficeInit => AccountsInit /\ UpkeepInit /\ ErasureInit /\ SettingsInit
    BY DEF OfficeInit
  <1>2. ASSUME [OfficeNext]_officeVars
        PROVE  /\ [AccountsNext]_accountVars /\ [UpkeepNext]_upkeepVars
               /\ [ErasureNext]_erasureVars /\ [SettingsNext]_settingsVars
    <2>1. CASE UNCHANGED officeVars
      BY <2>1 DEF officeVars
    <2>2. CASE OfficeNext
      BY <2>2 DEF OfficeNext
    <2> QED BY <1>2, <2>1, <2>2
  <1> QED BY <1>1, <1>2, PTL DEF OfficeSpec, AccountsSpec, UpkeepSpec, ErasureSpec, SettingsSpec

\* The rows, requests and pages of the office are of their types, wherever
\* the office is at work: AccountsService, the media and retention jobs, the
\* erasure and SettingsView, each beside the others.
THEOREM OfficeIsTyped == OfficeSpec => []OfficeTypeOK
PROOF
  <1>1. AccountsTypeOK /\ UpkeepTypeOK /\ ErasureTypeOK /\ SettingsTypeOK => OfficeTypeOK
    BY DEF OfficeTypeOK
  <1> QED
    BY <1>1, OfficeImplements, AccountsIsTyped, UpkeepIsTyped, ErasureIsTyped, SettingsAreTyped, PTL
===============================================================================
