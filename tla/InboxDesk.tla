------------------------------ MODULE InboxDesk ------------------------------
(***************************************************************************)
(* The inbox (InboxView): the list of one filter and the totals beside the *)
(* filters, two feeds on clocks of their own (useFeed), the toaster, a     *)
(* third, and what is done to a conversation by the rep at this screen and *)
(* by another.  A behaviour watches the screen or the toaster (watch).     *)
(***************************************************************************)
EXTENDS Naturals, Sequences, FiniteSets, SequencesExt

CONSTANTS
    Threads,
    Found,        \* those the search text matches (matchesQuery)
    Filters,      \* of "mine", "unassigned", "all", "closed", "unread"
    PageSize,     \* DEFAULT_THREAD_PAGE
    MaxToasts,    \* MAX_TOASTS_PER_TICK
    Deeds,        \* calls of the actions route
    Nobody, Nowhere,
    MaxHitches    \* bound: messages, failures, changes of filter, what is done at other
                  \* screens, periods longer than SUSPEND_AFTER_MS

ASSUME InboxDeskAssumption ==
    /\ IsFiniteSet(Threads) /\ Found \subseteq Threads
    /\ Filters \subseteq {"mine", "unassigned", "all", "closed", "unread"} /\ "mine" \in Filters
    /\ {PageSize, MaxToasts} \subseteq Nat \ {0} /\ MaxHitches \in Nat
    /\ Nobody \notin {"me", "her"} /\ Nowhere \notin Threads

VARIABLES
    watch,
    row,        \* the conversations: owner, closed, read, last (lastInboundAt)
    filter, selected, search,
    feed,       \* per feed: data, the one call, isLoading, error ("none", or the filter of
                \* the call that failed), isSuspended, lastTouch
    deed,       \* per call: step, by, kind, thread, what it read, the filter pressed in
    seeded, seen, told,  \* the toaster: useInboundToasts, and history: what it announced
    quarter,
    trail,      \* history: the owner the timeline names last
    hitches, noted         \* history: what else happened

screenVars == <<filter, selected, search, feed>>
toastVars == <<seeded, seen, told>>
inboxVars == <<watch, row, filter, selected, search, feed, deed, seeded, seen, told,
               quarter, trail, hitches, noted>>

Members == {"me", "her"}
Feeds == {"list", "counts", "toast"}
NoData == [known |-> FALSE]
Idle == [step |-> "idle"]
Undone == [step |-> "none"]
Asked(f) == [step |-> "asked", of |-> f, isVoid |-> FALSE]
NewFeed == [data |-> NoData, call |-> Asked("mine"), isLoading |-> TRUE, error |-> "none",
            isSuspended |-> FALSE, lastTouch |-> 0]   \* mounted: the first tick has run

Hitch == hitches < MaxHitches /\ hitches' = hitches + 1
Marked(c, when) == noted' = IF when THEN noted \union {c} ELSE noted
-----------------------------------------------------------------------------
(***************************************************************************)
(* What the route answers.                                                 *)
(***************************************************************************)
\* inboxFilterFor, for the caller "me": every filter but closed hides the
\* closed.  Two more ask the same of other columns.
Holds(f, r) ==
    /\ r.closed = (f = "closed")
    /\ f = "mine" => r.owner = "me"
    /\ f = "unassigned" => r.owner = Nobody
    /\ f = "unread" => ~r.read

Matching(f) == {t \in Threads : Holds(f, row[t])}

\* listInboxThreads: the newest, and no more than a page of them.
InboxPages(f) ==
    {ids \in UNION {[1..n -> Matching(f)] : n \in 0..PageSize} :
        /\ Len(ids) = Cardinality(Matching(f)) \/ Len(ids) = PageSize
        /\ IsInjective(ids)
        /\ \A i \in DOMAIN ids, t \in Matching(f) :
             t \in Range(SubSeq(ids, 1, i)) \/ row[t].last <= row[ids[i]].last}

Patched == {d \in Deeds : deed[d].step \in {"patched", "recorded", "done"} /\ deed[d].ok}

\* inboxScope: what a feed reads, and (history) which deeds it sees.
Answers(f) ==
    IF f = "counts"
    THEN {[known |-> TRUE, sees |-> Patched,
           counts |-> [k \in Filters |-> Cardinality(Matching(k))]]}
    ELSE {[known |-> TRUE, sees |-> Patched, of |-> feed[f].call.of, ids |-> ids,
           rows |-> [t \in Range(ids) |-> row[t]]] : ids \in InboxPages(feed[f].call.of)}
-----------------------------------------------------------------------------
(***************************************************************************)
(* useFeed.                                                                *)
(***************************************************************************)
\* fetchOnce: skipped if a call is under way; only a full one shows a wait.
\* (of: the filter of the render the caller is from.)
FetchOnce(r, of) ==
    IF r.call # Idle THEN r
    ELSE [r EXCEPT !.call = Asked(of),
                   !.isLoading = @ \/ ~r.data.known]

Touch(r) == [r EXCEPT !.lastTouch = quarter]
Refresh(r, of) == FetchOnce(Touch(r), of)
FilterAsked(f) == IF f = "list" THEN filter ELSE "mine"

\* tick: fifteen quiet minutes stop it.
Tick(f) ==
    /\ feed[f].call = Idle /\ ~feed[f].isSuspended
    /\ IF quarter > feed[f].lastTouch
       THEN feed' = [feed EXCEPT ![f].isSuspended = TRUE]
       ELSE feed' = [feed EXCEPT ![f] = FetchOnce(@, FilterAsked(f))]
    /\ UNCHANGED <<watch, row, filter, selected, search, deed, toastVars, quarter,
                   trail, hitches, noted>>

RouteReads(f) ==
    /\ feed[f].call.step = "asked"
    /\ \E answer \in Answers(f) :
         feed' = [feed EXCEPT ![f].call =
                     [step |-> "read", of |-> @.of, isVoid |-> @.isVoid, answer |-> answer]]
         /\ Marked("crowded", f = "toast" /\ Range(answer.ids) # Matching("mine"))
    /\ UNCHANGED <<watch, row, filter, selected, search, deed, toastVars, quarter,
                   trail, hitches>>

\* Mutant: an answer is shown whatever the list is of by now.
AnswerShownAnyway(r) ==
    [r EXCEPT !.call = Idle, !.isLoading = FALSE, !.data = r.call.answer, !.error = "none"]

\* An answer of before the subject changed is dropped; the finally is run.
AnswerShown(r) ==
    IF r.call.isVoid THEN [r EXCEPT !.call = Idle, !.isLoading = FALSE]
    ELSE [r EXCEPT !.call = Idle, !.isLoading = FALSE, !.data = r.call.answer, !.error = "none"]

FetchFails(f) ==
    /\ feed[f].call # Idle /\ Hitch
    /\ feed' = [feed EXCEPT ![f] =
           [@ EXCEPT !.call = Idle, !.isLoading = FALSE,
                     !.error = IF feed[f].call.isVoid THEN feed[f].error ELSE feed[f].call.of]]
    /\ UNCHANGED <<watch, row, filter, selected, search, deed, toastVars, quarter,
                   trail, noted>>
-----------------------------------------------------------------------------
(***************************************************************************)
(* The toaster: the "mine" page, slowly.                                   *)
(***************************************************************************)
\* Mutant: what was seen is what the last page had.
SeenInPage(rows) == [t \in Threads |-> IF t \in DOMAIN rows THEN rows[t].last ELSE 0]

\* decideToasts: seen keeps the conversations which are not in the page.
SeenAfter(rows) == [t \in Threads |-> IF t \in DOMAIN rows THEN rows[t].last ELSE seen[t]]

\* Mutant: the first page is news.
FreshAtOnce(rows) == {t \in DOMAIN rows : rows[t].last > seen[t]}

\* Strictly later, and only after the first page.  (0: never seen.)
Fresh(rows) == {t \in DOMAIN rows : seeded /\ rows[t].last > seen[t]}

\* A burst is one toast, with a number.
Toasts(rows) ==
    IF Cardinality(Fresh(rows)) > MaxToasts
    THEN {[threads |-> Fresh(rows), news |-> {<<t, rows[t].last>> : t \in Fresh(rows)}]}
    ELSE {[threads |-> {t}, news |-> {<<t, rows[t].last>>}] : t \in Fresh(rows)}

Announced == UNION {toast.news : toast \in told}

AnswerArrives(f) ==
    /\ feed[f].call.step = "read"
    /\ feed' = [feed EXCEPT ![f] = AnswerShown(@)]
    /\ IF f = "toast"
       THEN LET rows == feed[f].call.answer.rows IN
            /\ seeded' = TRUE
            /\ seen' = SeenAfter(rows)
            /\ told' = told \union Toasts(rows)
            /\ Marked("twice", \E toast \in Toasts(rows) : toast.news \intersect Announced # {})
       ELSE UNCHANGED <<toastVars, noted>>
    /\ UNCHANGED <<watch, row, filter, selected, search, deed, quarter, trail, hitches>>
-----------------------------------------------------------------------------
(***************************************************************************)
(* The screen.                                                             *)
(***************************************************************************)
Listed == IF feed["list"].data.known THEN feed["list"].data.ids ELSE <<>>

\* filterThreads: of those listed, in their order.
Visible == {t \in Range(Listed) : ~search \/ t \in Found}

\* The effect on a change of filter, and the tick of the new one.
Filtered(k) ==
    LET r == [Touch(feed["list"]) EXCEPT !.data = NoData,
                  !.call = IF @ = Idle THEN Idle ELSE [@ EXCEPT !.isVoid = TRUE]]
    IN IF r.isSuspended THEN r ELSE FetchOnce(r, k)

SetFilter(k) ==
    /\ watch = "screen" /\ k # filter /\ Hitch
    /\ filter' = k
    /\ feed' = [feed EXCEPT !["list"] = Filtered(k)]
    /\ noted' = noted \union (IF feed["list"].call # Idle THEN {"switched"} ELSE {})
                  \union (IF feed["list"].isSuspended THEN {"stopped"} ELSE {})
                  \union (IF feed["list"].error # "none" THEN {"failed"} ELSE {})
    /\ UNCHANGED <<watch, row, selected, search, deed, toastVars, quarter, trail>>

Typed == ~search

SetSearch ==
    /\ watch = "screen" /\ Found # Threads /\ feed["list"].data.known
    /\ search' = Typed
    /\ feed' = [feed EXCEPT !["list"] = Touch(@)]
    /\ UNCHANGED <<watch, row, filter, selected, deed, toastVars, quarter, trail, hitches, noted>>

\* nextThreadId: it stops at the ends; with nothing selected, or a row which
\* is not there any more, it starts at one of them.
Before(t, u) == \E i, j \in DOMAIN Listed : i < j /\ Listed[i] = t /\ Listed[j] = u
Ahead(t, u, down) == IF down THEN Before(t, u) ELSE Before(u, t)
NextThread(down) ==
    LET onward == {t \in Visible : selected \in Visible => Ahead(selected, t, down)}
    IN {t \in onward : ~\E u \in onward : Ahead(u, t, down)}

\* A click on a row, J and K, Back.
Select ==
    /\ watch = "screen"
    /\ \/ selected' \in Visible
       \/ \E down \in BOOLEAN : selected' \in NextThread(down)
       \/ selected' = Nowhere
    /\ selected' # selected
    /\ feed' = [feed EXCEPT !["list"] = Touch(@)]
    /\ UNCHANGED <<watch, row, filter, search, deed, toastVars, quarter, trail, hitches, noted>>

\* What the list pane says when it has no rows to show.
Says ==
    IF feed["list"].error # "none" /\ ~feed["list"].data.known THEN "unavailable"
    ELSE IF feed["list"].isLoading /\ ~feed["list"].data.known THEN "loading"
    ELSE IF Listed = <<>> /\ ~feed["list"].isLoading THEN "empty"
    ELSE IF Visible = {} THEN "noMatches" ELSE "rows"

\* The button of "unavailable".
ReadAgain ==
    /\ watch = "screen" /\ Says = "unavailable"
    /\ feed' = [feed EXCEPT !["list"] = Refresh(@, filter)]
    /\ UNCHANGED <<watch, row, filter, selected, search, deed, toastVars, quarter, trail,
                   hitches, noted>>
-----------------------------------------------------------------------------
(***************************************************************************)
(* What is done to a conversation: the actions route.                      *)
(***************************************************************************)
Kinds == {"take", "return", "close", "reopen", "read"}

Begin(d, who, kind, t) ==
    deed' = [deed EXCEPT ![d] =
        [step |-> "asked", by |-> who, kind |-> kind, thread |-> t, ok |-> TRUE, of |-> filter]]

\* A on the keyboard, and the buttons of the pane beside the list.
Press(d, kind) ==
    /\ watch = "screen" /\ deed[d] = Undone
    /\ selected # Nowhere
    /\ Begin(d, "me", kind, selected)
    /\ feed' = [feed EXCEPT !["list"] = Touch(@)]
    /\ UNCHANGED <<watch, row, filter, selected, search, toastVars, quarter, trail, hitches, noted>>

\* At another screen; watch = "toast": at any.
PressElsewhere(d, who, kind, t) ==
    /\ deed[d] = Undone
    /\ watch = "screen" => who = "her"
    /\ Hitch
    /\ Begin(d, who, kind, t)
    /\ UNCHANGED <<watch, row, screenVars, toastVars, quarter, trail, noted>>

Assigns(d) == deed[d].kind \in {"take", "return"}
Apart(d) ==
    \A e \in Deeds \ {d} :
        deed[e].step \in {"read", "patched"} /\ Assigns(e) => deed[e].thread # deed[d].thread

\* findThreadById
DeedReads(d) ==
    /\ deed[d].step = "asked"
    /\ deed' = [deed EXCEPT ![d] = [step |-> "read", by |-> @.by, kind |-> @.kind,
                    thread |-> @.thread, ok |-> TRUE, of |-> @.of,
                    from |-> row[deed[d].thread].owner]]
    /\ Marked("overlap", Assigns(d) /\ ~Apart(d))
    /\ UNCHANGED <<watch, row, screenVars, toastVars, quarter, trail, hitches>>

NewOwner(d) == IF deed[d].kind = "take" THEN deed[d].by ELSE Nobody

\* patchThread: whatever the row is by now.
DeedPatched(d) ==
    LET r == row[deed[d].thread] IN
    CASE Assigns(d) -> [r EXCEPT !.owner = NewOwner(d)]
      [] deed[d].kind = "close" -> [r EXCEPT !.closed = TRUE]
      [] deed[d].kind = "reopen" -> [r EXCEPT !.closed = FALSE]
      [] deed[d].kind = "read" -> [r EXCEPT !.read = TRUE]

DeedWrites(d) ==
    /\ deed[d].step = "read"
    /\ row' = [row EXCEPT ![deed[d].thread] = DeedPatched(d)]
    /\ deed' = [deed EXCEPT ![d].step = "patched"]
    /\ Marked("joined", /\ ~Holds("mine", row[deed[d].thread])
                       /\ Holds("mine", DeedPatched(d)))
    /\ UNCHANGED <<watch, screenVars, toastVars, quarter, trail, hitches>>

\* Mutant: the previous owner is read again, after the patch.
PreviousOwnerNow(d) == row[deed[d].thread].owner

PreviousOwner(d) == deed[d].from

\* writeTimelineActivity, when it was an assignment.
DeedRecorded(d) ==
    /\ deed[d].step = "patched"
    /\ deed' = [deed EXCEPT ![d].step = "recorded"]
    /\ IF Assigns(d)
       THEN /\ trail' = [trail EXCEPT ![deed[d].thread] = NewOwner(d)]
            /\ Marked("gap", PreviousOwner(d) # trail[deed[d].thread])
       ELSE UNCHANGED <<trail, noted>>
    /\ UNCHANGED <<watch, row, screenVars, toastVars, quarter, hitches>>

DeedFails(d) ==
    /\ deed[d].step = "asked" /\ Hitch
    /\ deed' = [deed EXCEPT ![d] = [@ EXCEPT !.step = "recorded", !.ok = FALSE]]
    /\ UNCHANGED <<watch, row, screenVars, toastVars, quarter, trail, noted>>

\* Mutant: the list, and not the totals.
Woken == {"list"}

\* refreshList
Wakes == {"list", "counts"}

\* The answer, with the refresh of the render in which it was pressed.
Answered(d) ==
    /\ deed[d].step = "recorded"
    /\ deed' = [deed EXCEPT ![d].step = "done"]
    /\ IF deed[d].by = "me" /\ watch = "screen" /\ (deed[d].kind # "read" \/ deed[d].ok)
       THEN /\ feed' = [f \in Feeds |->
                            IF f \in Wakes THEN Refresh(feed[f], deed[d].of) ELSE feed[f]]
            /\ noted' = noted
                \union (IF \E f \in {"list", "counts"} :
                           feed[f].call.step = "read" /\ d \notin feed[f].call.answer.sees
                        THEN {"skipped"} ELSE {})
                \union (IF deed[d].of # filter THEN {"left"} ELSE {})
       ELSE UNCHANGED <<feed, noted>>
    /\ UNCHANGED <<watch, row, filter, selected, search, toastVars, quarter, trail, hitches>>

\* An inbound message reopens what was closed.
NewsComes(t) ==
    /\ Hitch
    /\ row' = [row EXCEPT ![t] =
           [@ EXCEPT !.last = row[t].last + 1, !.read = FALSE, !.closed = FALSE]]
    /\ Marked("early", ~seeded)
    /\ UNCHANGED <<watch, screenVars, deed, toastVars, quarter, trail>>

\* More than fifteen minutes.
QuarterPasses ==
    /\ Hitch
    /\ quarter' = quarter + 1
    /\ UNCHANGED <<watch, row, screenVars, deed, toastVars, trail, noted>>
-----------------------------------------------------------------------------
InboxInit ==
    /\ watch \in {"screen", "toast"}
    /\ row \in [Threads -> [owner : {"me", Nobody}, closed : {FALSE}, read : {TRUE}, last : {1}]]
    /\ filter = "mine" /\ selected = Nowhere /\ search = FALSE
    /\ feed = [f \in Feeds |-> NewFeed]
    /\ deed = [d \in Deeds |-> Undone]
    /\ seeded = FALSE /\ seen = [t \in Threads |-> 0] /\ told = {}
    /\ quarter = 0
    /\ trail = [t \in Threads |-> row[t].owner]
    /\ hitches = 0 /\ noted = {}

InboxNext ==
    \/ \E f \in Feeds :
         /\ (f = "toast") = (watch = "toast")
         /\ Tick(f) \/ RouteReads(f) \/ AnswerArrives(f) \/ FetchFails(f)
    \/ \E k \in Filters : SetFilter(k)
    \/ SetSearch \/ Select \/ ReadAgain \/ QuarterPasses
    \/ \E d \in Deeds :
         \/ \E kind \in Kinds : Press(d, kind)
         \/ \E who \in Members, kind \in Kinds, t \in Threads : PressElsewhere(d, who, kind, t)
         \/ DeedReads(d) \/ DeedWrites(d) \/ DeedRecorded(d) \/ DeedFails(d) \/ Answered(d)
    \/ \E t \in Threads : NewsComes(t)

InboxSpec == InboxInit /\ [][InboxNext]_inboxVars
-----------------------------------------------------------------------------
InboxTypeOK ==
    /\ row \in [Threads -> [owner : Members \union {Nobody}, closed : BOOLEAN,
                            read : BOOLEAN, last : 1..(MaxHitches + 1)]]
    /\ filter \in Filters /\ selected \in Threads \union {Nowhere} /\ search \in BOOLEAN
    /\ seen \in [Threads -> 0..(MaxHitches + 1)]
    /\ trail \in [Threads -> Members \union {Nobody}]

\* "No conversations in this filter is a claim about the data": it is made of
\* what was read, unless the filter was changed while a call was under way,
\* or after fifteen quiet minutes.
EmptyIsRead ==
    Says = "empty" /\ noted \intersect {"switched", "stopped"} = {}
        => feed["list"].data.known

\* "Unavailable" is said of a filter that was asked for and failed, unless
\* the filter was changed while the one before it said so.
UnavailableIsTrue ==
    Says = "unavailable" /\ noted \intersect {"failed", "left"} = {}
        => feed["list"].error = filter

\* The rows are those of the chip that is pressed, unless a deed was answered
\* after the filter it was pressed in was left.
RowsAreOfFilter ==
    feed["list"].data.known /\ "left" \notin noted => feed["list"].data.of = filter

\* "Anything that changes a conversation's row has to wake both" (D-64): once
\* the calls are back, list and totals were read after the rep's own deed,
\* unless a call was under way, which had read, when it was answered.
OwnDeedsAreShown ==
    \A d \in Deeds, f \in {"list", "counts"} :
        /\ deed[d].step = "done" /\ deed[d].by = "me" /\ deed[d].ok /\ watch = "screen"
        /\ feed[f].call = Idle /\ feed[f].data.known /\ feed[f].error = "none"
        => d \in feed[f].data.sees \/ "skipped" \in noted

\* "Strictly increases": a message is announced once, and one from before the
\* inbox was opened only in a conversation that became the rep's since, or
\* when a page had no room for all that are.
ToastsAreNews ==
    /\ "twice" \notin noted
    /\ \A news \in Announced : news[2] = 1 => {"joined", "crowded"} \cap noted # {}

\* When the toaster has seen what there is, all that came since is announced.
NewsIsTold ==
    LET r == feed["toast"] IN
    r.data.known /\ r.call = Idle /\ "early" \notin noted
        => \A t \in DOMAIN r.data.rows :
              r.data.rows[t].last > 1 => <<t, r.data.rows[t].last>> \in Announced

\* The timeline of a conversation is a chain that ends in its owner, unless
\* two assignments overlapped.
TrailIsTrue ==
    "overlap" \in noted \/
        /\ "gap" \notin noted
        /\ \A t \in Threads :
             trail[t] = row[t].owner
                \/ \E d \in Deeds : deed[d].step = "patched" /\ deed[d].thread = t /\ Assigns(d)

(***************************************************************************)
(* The inbox shows what was read, and what was done is in it.              *)
(***************************************************************************)
InboxIsTrue ==
    /\ EmptyIsRead /\ UnavailableIsTrue /\ RowsAreOfFilter /\ OwnDeedsAreShown
    /\ ToastsAreNews /\ NewsIsTold /\ TrailIsTrue
=============================================================================
