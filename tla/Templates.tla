------------------------------ MODULE Templates ------------------------------
(***************************************************************************)
(* One template of an account: what Meta holds of it, the row the CRM      *)
(* keeps, and who writes that row: the sync that walks Meta's listing, the *)
(* webhook's events, the admin who submits and publishes it, and the       *)
(* sender when Meta refuses a message.  Only what decides whether it may   *)
(* be sent is kept of it, and how many variables it has (shape).           *)
(***************************************************************************)
EXTENDS Naturals, FiniteSets

CONSTANTS
    LastPage,       \* pages of Meta's listing; the template is on one of them
    Shapes,         \* totalVariableCount
    MaxChanges,     \* bound: changes at Meta
    MaxActs,        \* bound: requests of the admin
    MaxPasses       \* bound: passes of the sync

ASSUME TemplatesAssumption ==
    /\ {LastPage, MaxChanges, MaxActs, MaxPasses} \subseteq Nat
    /\ LastPage > 0 /\ Shapes \subseteq Nat /\ Shapes # {}

VARIABLES
    meta,       \* Meta's template
    template,   \* the row
    sync,       \* the running pass
    events,     \* webhook jobs not yet done
    adminCall,  \* the admin's request that is running
    outgoing,   \* a message with the parameters of a template send
    home,       \* the page it is listed on
    changes, acts, passes,
    causes      \* history: what made a published row unsafe, a disabled one wrong,
                \* a message not fit its template

templateVars == <<meta, template, sync, events, adminCall, outgoing, home,
                  changes, acts, passes, causes>>

\* PENDING stands for IN_APPEAL too, REJECTED for PAUSED and DISABLED.
MetaStatuses == {"PENDING", "APPROVED", "REJECTED"}
Fields == {"status", "quality", "components"}

NoTemplate == [status |-> "NONE", red |-> FALSE, shape |-> 0, usable |-> FALSE,
               published |-> FALSE, gone |-> FALSE]
NoSync == [step |-> "idle"]
NoAdminCall == [step |-> "none"]
NoMessage == [step |-> "none"]

\* No pass can say any more that nothing moved while it ran.
Disturb(s) == IF s = NoSync THEN s ELSE [s EXCEPT !.calm = FALSE]
Written == sync' = Disturb(sync)
-----------------------------------------------------------------------------
(***************************************************************************)
(* Meta.  A deletion is not announced.                                     *)
(***************************************************************************)
Change(to, field) ==
    /\ changes < MaxChanges /\ changes' = changes + 1
    /\ meta.listed /\ to # meta
    /\ meta' = to
    /\ events' = IF field = "none" THEN events
                 ELSE events \union {[step |-> "queued", field |-> field, said |-> to]}
    /\ Written
    /\ UNCHANGED <<template, adminCall, outgoing, home, acts, passes, causes>>

MetaReviews == \E s \in MetaStatuses : Change([meta EXCEPT !.status = s], "status")
MetaRates   == Change([meta EXCEPT !.red = ~@], "quality")
MetaEdits   == \E n \in Shapes : Change([meta EXCEPT !.shape = n], "components")
MetaDeletes == Change([meta EXCEPT !.listed = FALSE], "none")
-----------------------------------------------------------------------------
(***************************************************************************)
(* wa-template-sync                                                        *)
(***************************************************************************)
SyncStart ==
    /\ sync = NoSync /\ passes < MaxPasses
    /\ passes' = passes + 1
    /\ sync' = [step |-> "page", page |-> 1, seen |-> FALSE, calm |-> TRUE]
    /\ UNCHANGED <<meta, template, events, adminCall, outgoing, home, changes, acts, causes>>

\* One page of the listing; upsertTemplate follows for what is on it.
SyncPage ==
    /\ sync.step = "page"
    /\ sync' = IF sync.page = home /\ meta.listed
               THEN [step |-> "found", page |-> sync.page, seen |-> TRUE, calm |-> sync.calm,
                     item |-> meta]
               ELSE [sync EXCEPT !.page = @ + 1,
                                 !.step = IF sync.page = LastPage THEN "walked" ELSE "page"]
    /\ UNCHANGED <<meta, template, events, adminCall, outgoing, home, changes, acts, passes, causes>>

\* findTemplateByMetaId
SyncLooks ==
    /\ sync.step = "found"
    /\ sync' = [step |-> "write", page |-> sync.page, seen |-> TRUE, calm |-> sync.calm,
                item |-> sync.item, copy |-> template]
    /\ UNCHANGED <<meta, template, events, adminCall, outgoing, home, changes, acts, passes, causes>>

\* Mutant: only what events call degraded.
ShouldUnpublishDegraded(status, red) == status = "REJECTED" \/ red

ShouldUnpublish(status, red) == status # "APPROVED" \/ red

NextPage == [step |-> IF sync.page = LastPage THEN "walked" ELSE "page",
             page |-> sync.page + 1, seen |-> TRUE, calm |-> sync.calm]

\* upsertTemplate: a created row collides with one made since (the index).
SyncUpserts ==
    /\ sync.step = "write"
    /\ LET item == sync.item
           withdraw == sync.copy.published /\ ShouldUnpublish(item.status, item.red)
       IN IF sync.copy = NoTemplate /\ template # NoTemplate
          THEN sync' = NoSync /\ UNCHANGED <<template, causes>>
          ELSE /\ template' = [status |-> item.status, red |-> item.red, shape |-> item.shape,
                               usable |-> TRUE, gone |-> FALSE,
                               published |-> template.published /\ ~withdraw]
               /\ sync' = NextPage
               /\ causes' = causes
                    \union (IF template # sync.copy THEN {"overlap"} ELSE {})
                    \union (IF item.shape # template.shape THEN {"reshaped"} ELSE {})
    /\ UNCHANGED <<meta, events, adminCall, outgoing, home, changes, acts, passes>>

\* A call throws, the time is up, or the page cap: the pass is truncated.
SyncFails ==
    /\ sync # NoSync
    /\ sync' = NoSync
    /\ UNCHANGED <<meta, template, events, adminCall, outgoing, home, changes, acts, passes, causes>>

\* Mutant: what was not seen of a truncated walk is disabled.
MayDisableAnyway == sync.step \in {"page", "walked"}

MayDisable == sync.step = "walked"

\* disableDisappeared: the rows are listed ...
SyncCompares ==
    /\ MayDisable
    /\ sync' = IF ~sync.seen /\ template.status \notin {"NONE", "DISABLED"}
               THEN [step |-> "disable", calm |-> sync.calm] ELSE NoSync
    /\ UNCHANGED <<meta, template, events, adminCall, outgoing, home, changes, acts, passes, causes>>

\* ... and patched.
SyncDisables ==
    /\ sync.step = "disable"
    /\ template' = [template EXCEPT !.status = "DISABLED", !.published = FALSE, !.gone = TRUE]
    /\ sync' = NoSync
    /\ UNCHANGED <<meta, events, adminCall, outgoing, home, changes, acts, passes, causes>>
-----------------------------------------------------------------------------
(***************************************************************************)
(* wa-template-event                                                       *)
(***************************************************************************)
\* An unknown template is left to a sync.
EventReads(e) ==
    /\ e \in events /\ e.step = "queued"
    /\ events' = (events \ {e}) \union
         IF template = NoTemplate THEN {}
         ELSE {[step |-> "read", field |-> e.field, said |-> e.said, copy |-> template]}
    /\ UNCHANGED <<meta, template, sync, adminCall, outgoing, home, changes, acts, passes, causes>>

Degraded == {"REJECTED"}

Withdraws(e) ==
    /\ e.copy.published
    /\ \/ e.field = "status" /\ e.said.status \in Degraded
       \/ e.field = "quality" /\ e.said.red
       \/ e.field = "components" /\ e.said.shape # e.copy.shape

\* One patch: the field, and published in the same write.
EventWrites(e) ==
    /\ e \in events /\ e.step = "read"
    /\ events' = events \ {e}
    /\ LET told == CASE e.field = "status"     -> [template EXCEPT !.status = e.said.status]
                     [] e.field = "quality"    -> [template EXCEPT !.red = e.said.red]
                     [] e.field = "components" -> [template EXCEPT !.shape = e.said.shape,
                                                                   !.usable = TRUE]
       IN template' = [told EXCEPT !.published = @ /\ ~Withdraws(e)]
    /\ causes' = causes
         \union (IF template # e.copy THEN {"overlap"} ELSE {})
         \union (IF template'.published /\ template'.status = "PENDING"
                 THEN {"review"} ELSE {})
    /\ Written
    /\ UNCHANGED <<meta, adminCall, outgoing, home, changes, acts, passes>>
-----------------------------------------------------------------------------
(***************************************************************************)
(* wa-template-submit                                                      *)
(***************************************************************************)
SubmitTemplate ==
    /\ adminCall = NoAdminCall /\ ~meta.listed /\ meta.status = "NONE" /\ acts < MaxActs
    /\ acts' = acts + 1
    /\ \E n \in Shapes, status \in {"PENDING", "APPROVED"} :
         meta' = [listed |-> TRUE, status |-> status, red |-> FALSE, shape |-> n]
    /\ adminCall' = [step |-> "created", said |-> meta']
    /\ Written
    /\ causes' = IF sync = NoSync THEN causes ELSE causes \union {"young"}
    /\ UNCHANGED <<template, events, outgoing, home, changes, passes>>

\* The row is written at once, unless the sync was quicker.
Record ==
    /\ adminCall.step = "created"
    /\ adminCall' = NoAdminCall
    /\ IF template = NoTemplate
       THEN template' = [NoTemplate EXCEPT !.status = adminCall.said.status,
                                      !.shape = adminCall.said.shape, !.usable = TRUE]
       ELSE UNCHANGED template
    /\ Written
    /\ UNCHANGED <<meta, events, outgoing, home, changes, acts, passes, causes>>

PublishReads ==
    /\ adminCall = NoAdminCall /\ acts < MaxActs /\ template # NoTemplate
    /\ acts' = acts + 1
    /\ \E wanted \in BOOLEAN :
         adminCall' = [step |-> "read", wanted |-> wanted, copy |-> template]
    /\ UNCHANGED <<meta, template, sync, events, outgoing, home, changes, passes, causes>>

\* A queued message was bound to another shape.
Misfit == outgoing.step = "queued" /\ outgoing.bound # template.shape

\* publishRefusal, on the copy; the quality is not asked for.
PublishRefused(row) == row.status # "APPROVED" \/ ~row.usable

PublishWrites ==
    /\ adminCall.step = "read"
    /\ adminCall' = NoAdminCall
    /\ IF adminCall.wanted /\ PublishRefused(adminCall.copy)
       THEN UNCHANGED <<template, sync, causes>>
       ELSE /\ template' = [template EXCEPT !.published = adminCall.wanted]
            /\ causes' = causes
                 \union (IF template # adminCall.copy THEN {"overlap"} ELSE {})
                 \union (IF adminCall.wanted /\ template.red THEN {"red"} ELSE {})
                 \union (IF Misfit THEN {"reshaped"} ELSE {})
            /\ Written
    /\ UNCHANGED <<meta, events, outgoing, home, changes, acts, passes>>
-----------------------------------------------------------------------------
(***************************************************************************)
(* A send, from its parameters to Meta's answer.                           *)
(***************************************************************************)
Sendable(row) == row.status = "APPROVED" /\ row.published /\ row.usable

\* executeTemplateSend, and queueOutbound with the parameters bound.
SendQueues ==
    /\ outgoing = NoMessage /\ Sendable(template)
    /\ outgoing' = [step |-> "queued", bound |-> template.shape]
    /\ causes' = causes \ {"reshaped"}
    /\ UNCHANGED <<meta, template, sync, events, adminCall, home, changes, acts, passes>>

\* Mutant: the row is not asked again.
MaySendAnyway(row) == TRUE

\* templateContextFor, and the policy.
MaySend(row) == Sendable(row)

SendLoads ==
    /\ outgoing.step = "queued"
    /\ outgoing' = IF MaySend(template)
                   THEN [step |-> "out", bound |-> outgoing.bound, spec |-> template.shape]
                   ELSE [outgoing EXCEPT !.step = "denied"]
    /\ UNCHANGED <<meta, template, sync, events, adminCall, home, changes, acts, passes, causes>>

\* Meta's answer; 132000, 132001 take the template from the picker.
SendAnswered ==
    /\ outgoing.step = "out"
    /\ IF meta.listed /\ meta.status = "APPROVED" /\ meta.shape = outgoing.bound
       THEN /\ outgoing' = [outgoing EXCEPT !.step = "accepted"]
            /\ UNCHANGED <<template, sync>>
       ELSE /\ outgoing' = [outgoing EXCEPT !.step = "refused"]
            /\ template' = [template EXCEPT !.published = FALSE, !.usable = FALSE]
            /\ Written
    /\ UNCHANGED <<meta, events, adminCall, home, changes, acts, passes, causes>>
-----------------------------------------------------------------------------
TemplatesInit ==
    /\ meta = [listed |-> FALSE, status |-> "NONE", red |-> FALSE, shape |-> 0]
    /\ template = NoTemplate
    /\ sync = NoSync /\ events = {} /\ adminCall = NoAdminCall /\ outgoing = NoMessage
    /\ home \in 1..LastPage
    /\ changes = 0 /\ acts = 0 /\ passes = 0
    /\ causes = {}

TemplatesNext ==
    \/ MetaReviews \/ MetaRates \/ MetaEdits \/ MetaDeletes
    \/ SyncStart \/ SyncPage \/ SyncLooks \/ SyncUpserts \/ SyncFails
    \/ SyncCompares \/ SyncDisables
    \/ \E e \in events : EventReads(e) \/ EventWrites(e)
    \/ SubmitTemplate \/ Record \/ PublishReads \/ PublishWrites
    \/ SendQueues \/ SendLoads \/ SendAnswered

TemplatesSpec == TemplatesInit /\ [][TemplatesNext]_templateVars
-----------------------------------------------------------------------------
TemplatesTypeOK ==
    /\ template.status \in MetaStatuses \union {"NONE", "DISABLED"}
    /\ {template.red, template.usable, template.published, template.gone} \subseteq BOOLEAN
    /\ template.shape \in Shapes \union {0}
    /\ outgoing.step \in {"none", "queued", "out", "denied", "accepted", "refused"}
    /\ causes \subseteq {"overlap", "review", "red", "reshaped", "young"}

\* "A template that is rejected but still published is a send that will fail
\* for everyone": what is published is approved and not RED, unless two writers
\* of the row overlapped, an event put it back in review, or it was RED when
\* published.
FailsClosed ==
    template.published =>
        \/ template.status = "APPROVED" /\ ~template.red
        \/ causes \intersect {"overlap", "review", "red"} # {}

\* "Absence is the only deletion signal": what is disabled as gone is gone,
\* unless it was submitted while the pass ran.
GoneIsGone == template.gone => ~meta.listed \/ "young" \in causes

\* "A changed placeholder count invalidates every existing variable mapping":
\* a message that leaves has as many parameters as the row says, unless a sync
\* gave the row another count, or it was published again with it.
SendFits ==
    outgoing.step = "out" =>
        outgoing.bound = outgoing.spec \/ causes \intersect {"overlap", "reshaped"} # {}

\* "Sync is authoritative": a pass that nothing disturbed leaves the row as
\* Meta has it, and nothing published that Meta has not approved.
SyncSettles ==
    sync.step = "walked" /\ sync.calm =>
        IF ~meta.listed THEN ~sync.seen
        ELSE /\ <<template.status, template.red, template.shape>>
                  = <<meta.status, meta.red, meta.shape>>
             /\ template.published => meta.status = "APPROVED" /\ ~meta.red

(***************************************************************************)
(* What the CRM offers is what Meta will take.                             *)
(***************************************************************************)
TemplatesAreSafe == FailsClosed /\ GoneIsGone /\ SendFits /\ SyncSettles
=============================================================================
