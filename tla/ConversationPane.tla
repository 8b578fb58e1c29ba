-------------------------- MODULE ConversationPane --------------------------
(***************************************************************************)
(* An open conversation: the pane (ThreadView) polls the feed route for    *)
(* what changed (useFeed) and shows a bubble of its own for a message it   *)
(* is sending, until the row with the same clientToken arrives.  The send  *)
(* route stores one row per token.  Older pages, quotes and reactions are  *)
(* left out.                                                               *)
(***************************************************************************)
EXTENDS Integers, FiniteSets, FiniteSetsExt

CONSTANTS
    Conversations,
    Sends,          \* clientTokens
    Arrivals,       \* messages of the contact
    None,
    DeltaRows,      \* MAX_DELTA_ROWS
    MaxClock, MaxUpsets  \* bounds: time; changes of conversation, and faults

ASSUME ConversationPaneAssumption ==
    /\ None \notin Conversations \union Sends
    /\ Sends \intersect Arrivals = {}
    /\ DeltaRows \in Nat \ {0} /\ {MaxClock, MaxUpsets} \subseteq Nat

VARIABLES
    clock,
    rows,       \* the messages stored
    shown,      \* the conversation the pane shows
    pane,       \* its thread (of the last answer), bubbles, and since, the cursor of its deltas
    feedCall,   \* the one call to the feed route (inFlight)
    post,       \* per token: what the pane waits for, and its two requests
    isSending,
    upsets,
    late, doubtful, \* history: rows committed after their stamp; sends whose answer
                    \* never came, or which failed in only one of two requests
    crossed         \* history: the pane was refreshed for a conversation it had left

paneVars == <<clock, rows, shown, pane, feedCall, post, isSending,
              upsets, late, doubtful, crossed>>

Texts == Sends \union Arrivals
Local == {"LOCAL", "REFUSED"}               \* bubbles without a row
Stored == {"QUEUED", "SENT", "FAILED", "RECEIVED", "PATCHED"}
Bubble == [m : Texts, status : Local \union Stored]

NoRow == [home |-> None]
NoCall == [step |-> "idle"]
Unsent == [step |-> "unsent", home |-> None, from |-> None, again |-> None, first |-> "none", second |-> "none"]
EmptyPane == [home |-> None, since |-> -1, bubbles |-> {}]

Rows(home) == {m \in Texts : rows[m].home = home}
Loaded == pane.since >= 0
Upset == upsets < MaxUpsets /\ upsets' = upsets + 1

\* Mutant: the row has an id of its own.
MergeById(existing, incoming) == existing \union incoming

\* mergeMessages: the same message, by token, is replaced.
Merge(existing, incoming) ==
    incoming \union {b \in existing : \A c \in incoming : c.m # b.m}

\* settleOptimistic: only a bubble without a row is marked.
Settle(t) ==
    [pane EXCEPT !.bubbles =
        {IF b = [m |-> t, status |-> "LOCAL"] THEN [b EXCEPT !.status = "REFUSED"] ELSE b
            : b \in @}]
-----------------------------------------------------------------------------
(***************************************************************************)
(* The feed.                                                               *)
(***************************************************************************)
\* The effect on a change of subject; what is in flight is void.
Show(c) ==
    /\ c # shown /\ Upset
    /\ shown' = c
    /\ pane' = EmptyPane
    /\ feedCall' = IF feedCall = NoCall THEN NoCall ELSE [feedCall EXCEPT !.isVoid = TRUE]
    /\ crossed' = FALSE
    /\ UNCHANGED <<clock, rows, post, isSending, late, doubtful>>

\* fetchOnce: full until a cursor is known, then a delta; skipped, if one is
\* under way.
Fetch(home) ==
    IF feedCall # NoCall THEN feedCall
    ELSE [step |-> "asked", home |-> home, since |-> pane.since, isVoid |-> FALSE]

Ask ==
    /\ feedCall = NoCall
    /\ feedCall' = Fetch(shown)
    /\ UNCHANGED <<clock, rows, shown, pane, post, isSending, upsets, late, doubtful, crossed>>

\* The route takes the time before it reads anything.
ServeClock ==
    /\ feedCall.step = "asked"
    /\ feedCall' = [step |-> "clocked", home |-> feedCall.home, since |-> feedCall.since,
                    isVoid |-> feedCall.isVoid, now |-> clock]
    /\ UNCHANGED <<clock, rows, shown, pane, post, isSending, upsets, late, doubtful, crossed>>

Changed == {m \in Rows(feedCall.home) : rows[m].stamp >= feedCall.since}

\* listThreadMessagesSince: oldest change first.
DeltaPages ==
    IF Cardinality(Changed) <= DeltaRows THEN {Changed}
    ELSE {page \in SUBSET Changed :
             /\ Cardinality(page) = DeltaRows
             /\ \A m \in page, n \in Changed \ page : rows[m].stamp <= rows[n].stamp}

\* Mutant: a burst is skipped.
NextSinceNow(page) == feedCall.now

\* Mutant: the next page begins after the last row, not at it.
NextSinceAfter(page) ==
    IF page = Changed THEN feedCall.now ELSE Max({rows[m].stamp : m \in page}) + 1

\* The clock, or the last row's updatedAt when the page was not enough.
NextSince(page) ==
    IF page = Changed THEN feedCall.now ELSE Max({rows[m].stamp : m \in page})

ServeRead ==
    /\ feedCall.step = "clocked"
    /\ \E page \in DeltaPages :
         feedCall' = [step |-> "answered", isVoid |-> feedCall.isVoid, home |-> feedCall.home,
                      isDelta |-> feedCall.since >= 0, nextSince |-> NextSince(page),
                      bubbles |-> {[m |-> m, status |-> rows[m].status] : m \in page}]
    /\ UNCHANGED <<clock, rows, shown, pane, post, isSending, upsets, late, doubtful, crossed>>

\* Mutant: the answer of another conversation is merged.
ArriveAnyway ==
    /\ feedCall.step = "answered"
    /\ feedCall' = NoCall
    /\ pane' = [home |-> feedCall.home, since |-> feedCall.nextSince,
                bubbles |-> Merge(pane.bubbles, feedCall.bubbles)]
    /\ UNCHANGED <<clock, rows, shown, post, isSending, upsets, late, doubtful, crossed>>

Arrive ==
    /\ feedCall.step = "answered"
    /\ feedCall' = NoCall
    /\ pane' = IF feedCall.isVoid THEN pane
               ELSE [home |-> feedCall.home, since |-> feedCall.nextSince,
                     bubbles |-> IF feedCall.isDelta THEN Merge(pane.bubbles, feedCall.bubbles)
                                 ELSE feedCall.bubbles]
    /\ UNCHANGED <<clock, rows, shown, post, isSending, upsets, late, doubtful, crossed>>

FeedFails ==
    /\ feedCall # NoCall /\ Upset
    /\ feedCall' = NoCall
    /\ UNCHANGED <<clock, rows, shown, pane, post, isSending, late, doubtful, crossed>>
-----------------------------------------------------------------------------
(***************************************************************************)
(* Sending.                                                                *)
(***************************************************************************)
\* perform: a token, a bubble, a request; to the thread of the last answer.
Perform(t, of) ==
    /\ Loaded /\ post[t] = Unsent
    /\ post' = [post EXCEPT ![t] = [step |-> "waiting", home |-> pane.home, from |-> shown,
                                    again |-> of, first |-> "sent", second |-> "none"]]
    /\ pane' = [pane EXCEPT !.bubbles = Merge(@, {[m |-> t, status |-> "LOCAL"]})]
    /\ isSending' = TRUE
    /\ UNCHANGED <<clock, rows, shown, feedCall, upsets, late, doubtful, crossed>>

Submit(t) == ~isSending /\ Perform(t, None)

\* The button of a failed bubble; isSending does not disable it.
Retry(t, of) ==
    /\ \E b \in pane.bubbles : b.m = of /\ b.status \in {"REFUSED", "FAILED"}
    /\ Perform(t, of)

Doubted(t, when) == IF when THEN doubtful \union {t} ELSE doubtful

\* The sandbox repeats a request on a blip.
Blip(t) ==
    /\ post[t].step = "waiting" /\ post[t].second = "none" /\ Upset
    /\ post' = [post EXCEPT ![t].second = "sent"]
    /\ doubtful' = Doubted(t, post[t].first \in {"denied", "broken"})
    /\ UNCHANGED <<clock, rows, shown, pane, feedCall, isSending, late, crossed>>

Requests == {"first", "second"}

\* The handler's first look for the token, and the checks: it may deny.
RouteChecks(t, r) ==
    /\ post[t][r] = "sent"
    /\ \E to \in IF rows[t] = NoRow THEN {"checked", "denied"} ELSE {"accepted"} :
         /\ post' = [post EXCEPT ![t][r] = to]
         /\ doubtful' = Doubted(t, to = "denied" /\ post[t].second # "none")
    /\ UNCHANGED <<clock, rows, shown, pane, feedCall, isSending, upsets, late, crossed>>

\* Mutant: a create that collides is an error.
OnConflictError == "broken"

\* The token is unique: the loser of a race finds the winner's row.
OnConflict == "accepted"

\* queueOutbound; or it breaks before the row is there.
RouteStores(t, r) ==
    /\ post[t][r] = "checked"
    /\ \/ /\ rows[t] = NoRow
          /\ rows' = [rows EXCEPT ![t] =
                         [home |-> post[t].home, status |-> "QUEUED", stamp |-> clock]]
          /\ post' = [post EXCEPT ![t][r] = "accepted"]
          /\ UNCHANGED <<upsets, doubtful, crossed>>
       \/ /\ rows[t] # NoRow
          /\ post' = [post EXCEPT ![t][r] = OnConflict]
          /\ UNCHANGED <<rows, upsets, doubtful, crossed>>
       \/ /\ Upset
          /\ post' = [post EXCEPT ![t][r] = "broken"]
          /\ doubtful' = Doubted(t, post[t].second # "none")
          /\ UNCHANGED rows
    /\ UNCHANGED <<clock, shown, pane, feedCall, isSending, late, crossed>>

\* The answer of the request sent last.
Answer(t) == IF post[t].second = "none" THEN post[t].first ELSE post[t].second

\* handleOutcome, and the finally of perform.  The refresh is the one of the
\* render in which it was sent: it asks for the conversation shown then.
Accepted(t) ==
    /\ post[t].step = "waiting" /\ Answer(t) = "accepted"
    /\ post' = [post EXCEPT ![t].step = "done"]
    /\ isSending' = FALSE
    /\ feedCall' = Fetch(post[t].from)
    /\ crossed' = (crossed \/ (feedCall = NoCall /\ post[t].from # shown))
    /\ UNCHANGED <<clock, rows, shown, pane, upsets, late, doubtful>>

Refused(t) ==
    /\ post[t].step = "waiting" /\ Answer(t) \in {"denied", "broken"}
    /\ post' = [post EXCEPT ![t].step = "done"]
    /\ pane' = Settle(t)
    /\ isSending' = FALSE
    /\ UNCHANGED <<clock, rows, shown, feedCall, upsets, late, doubtful, crossed>>

\* No answer, whatever has become of the request.
GivenUp(t) ==
    /\ post[t].step = "waiting" /\ Upset
    /\ post' = [post EXCEPT ![t].step = "done"]
    /\ pane' = Settle(t)
    /\ isSending' = FALSE
    /\ doubtful' = doubtful \union {t}
    /\ UNCHANGED <<clock, rows, shown, feedCall, late, crossed>>
-----------------------------------------------------------------------------
\* A message of the contact, or the next status of a row.
NextStatus(m) ==
    IF m \in Arrivals
    THEN IF rows[m] = NoRow THEN {"RECEIVED"} ELSE {"PATCHED"} \ {rows[m].status}
    ELSE IF rows[m] # NoRow /\ rows[m].status = "QUEUED" THEN {"SENT", "FAILED"} ELSE {}

\* Somebody else writes; it may commit a tick after its updatedAt.
Write(m) ==
    /\ \E status \in NextStatus(m), home \in Conversations, delay \in {0, 1} :
         /\ rows[m] = NoRow \/ home = rows[m].home
         /\ delay <= clock
         /\ rows' = [rows EXCEPT ![m] =
                        [home |-> home, status |-> status, stamp |-> clock - delay]]
         /\ IF delay = 1 THEN Upset /\ late' = late \union {m}
            ELSE UNCHANGED <<upsets, late, crossed>>
    /\ UNCHANGED <<clock, shown, pane, feedCall, post, isSending, doubtful, crossed>>

PaneTime ==
    /\ clock < MaxClock
    /\ clock' = clock + 1
    /\ UNCHANGED <<rows, shown, pane, feedCall, post, isSending, upsets, late, doubtful, crossed>>

PaneInit ==
    /\ clock = 0
    /\ rows = [m \in Texts |-> NoRow]
    /\ shown \in Conversations
    /\ pane = EmptyPane
    /\ feedCall = NoCall
    /\ post = [t \in Sends |-> Unsent]
    /\ isSending = FALSE
    /\ upsets = 0
    /\ late = {} /\ doubtful = {} /\ crossed = FALSE

PaneNext ==
    \/ Ask \/ ServeClock \/ ServeRead \/ Arrive \/ FeedFails \/ PaneTime
    \/ \E c \in Conversations : Show(c)
    \/ \E m \in Texts : Write(m)
    \/ \E t \in Sends :
         \/ Submit(t) \/ Blip(t) \/ Accepted(t) \/ Refused(t) \/ GivenUp(t)
         \/ \E of \in Sends : Retry(t, of)
         \/ \E r \in Requests : RouteChecks(t, r) \/ RouteStores(t, r)

PaneSpec == PaneInit /\ [][PaneNext]_paneVars
-----------------------------------------------------------------------------
PaneTypeOK ==
    /\ clock \in 0..MaxClock
    /\ \A m \in Texts : rows[m] = NoRow \/
          rows[m] \in [home : Conversations, status : Stored, stamp : 0..MaxClock]
    /\ shown \in Conversations
    /\ pane \in [home : Conversations \union {None}, since : -1..MaxClock, bubbles : SUBSET Bubble]
    /\ {isSending, crossed} \subseteq BOOLEAN

\* What the cursor has passed is on the screen as it is in the store, unless
\* the row became visible after its updatedAt (the handler: "captured before
\* the first read"), or the answer was for a conversation left since.
NothingIsMissed ==
    ~crossed => \A m \in Rows(shown) \ late :
        rows[m].stamp < pane.since => [m |-> m, status |-> rows[m].status] \in pane.bubbles

\* Each message is on the screen once, and in its own conversation ("any reply
\* still in flight is discarded rather than merged into the wrong thread"),
\* unless a send was answered after the conversation was left.
EachOnceAtHome ==
    \A b \in pane.bubbles :
        /\ \A c \in pane.bubbles : c.m = b.m => c = b
        /\ crossed \/ shown = IF b.status \in Local THEN post[b.m].home ELSE rows[b.m].home

\* "A bubble which was never sent": what is not stored is on its way or
\* refused, and what is refused is not stored, unless the answer was doubtful.
BubblesAreTrue ==
    \A b \in pane.bubbles :
        /\ b.status = "LOCAL" => post[b.m].step = "waiting" \/ rows[b.m] # NoRow
        /\ b.status = "REFUSED" => rows[b.m] = NoRow \/ b.m \in doubtful

\* "A fresh send is safe": the contact is written to twice only when the row
\* of the first failed, or the answer was doubtful (retry).
SecondSendHasACause ==
    \A t \in Sends : LET of == post[t].again IN
        of # None /\ rows[t] # NoRow /\ rows[of] # NoRow
            => of \in doubtful \/ rows[of].status = "FAILED"

\* "An isSending left true disables the composer."
ComposerIsFreed == isSending => \E t \in Sends : post[t].step = "waiting"

(***************************************************************************)
(* The pane tells what is stored, once, and what is not stored, as such.   *)
(***************************************************************************)
PaneIsHonest ==
    /\ NothingIsMissed /\ EachOnceAtHome /\ BubblesAreTrue
    /\ SecondSendHasACause /\ ComposerIsFreed
=============================================================================
