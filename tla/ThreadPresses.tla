---------------------------- MODULE ThreadPresses ----------------------------
(***************************************************************************)
(* What a rep presses in an open conversation besides sending: reading it  *)
(* clears the badge, a reaction, Create person on a shared contact card.   *)
(* Each is shown at once or guarded until a poll of the pane confirms it.  *)
(* A behaviour is about one of the three (press).                          *)
(***************************************************************************)
EXTENDS Naturals

CONSTANTS
    Presses,   \* presses: calls to the routes
    Emojis,     \* "" removes
    Unpressed,
    MaxDisturbances   \* bound: inbound events, refusals and failures

ASSUME ThreadPressesAssumption ==
    "" \in Emojis /\ Unpressed \notin Emojis /\ MaxDisturbances \in Nat

VARIABLES
    press,
    server,     \* what the store holds
    view,       \* what the pane last learned of it
    poll,       \* the pane's call to the feed
    request,    \* the calls, and the jobs they cause
    guard,      \* markedRead; creatingContacts
    pending,    \* pendingReactions, for the one message
    touched,    \* the card's row changed since the last poll read it
    disturbances, why \* history

pressVars == <<press, server, view, poll, request, guard, pending, touched, disturbances, why>>

Reactors == {"contact", "member"}
NoPoll == [step |-> "none"]

Disturbed == disturbances < MaxDisturbances /\ disturbances' = disturbances + 1
Noted(c, when) == why' = IF when THEN why \union {c} ELSE why
Underway == {q \in Presses : request[q].step \notin {"none", "done"}}
At(q, step) == [request EXCEPT ![q] = [@ EXCEPT !.step = step]]
-----------------------------------------------------------------------------
(***************************************************************************)
(* Opening the conversation reads it.                                      *)
(***************************************************************************)
\* Mutant: the guard is kept once it is set.
GuardKept(unread) == guard

\* The effect: zero confirmed releases the guard.
GuardAfter(unread) == guard /\ unread # 0

\* An inbound message; the window in which no poll has seen the zero.
Inbound ==
    /\ press = "unread" /\ Disturbed
    /\ server' = [server EXCEPT !.unread = 1]
    /\ Noted("unseen", guard /\ server.unread = 0 /\ view.unread # 0)
    /\ UNCHANGED <<press, view, poll, request, guard, pending, touched>>

\* markRead: the count is zeroed, whatever it is by then.
ZeroUnread(q) ==
    /\ press = "unread" /\ request[q].step = "asked"
    /\ \/ server' = [server EXCEPT !.unread = 0] /\ request' = At(q, "done")
          /\ UNCHANGED <<guard, disturbances>>
       \/ Disturbed /\ guard' = FALSE /\ request' = At(q, "done") /\ UNCHANGED server
    /\ UNCHANGED <<press, view, poll, pending, touched, why>>
-----------------------------------------------------------------------------
(***************************************************************************)
(* A reaction: the chip at once, the row when the job has run.             *)
(***************************************************************************)
Displayed == IF pending = Unpressed THEN view.chips["member"] ELSE pending

React(q, emoji) ==
    /\ press = "reaction" /\ request[q].step = "none" /\ emoji # Displayed
    /\ request' = [request EXCEPT ![q] =
           [step |-> "asked", who |-> "member", emoji |-> emoji, previous |-> Displayed]]
    /\ pending' = emoji
    /\ Noted("overlap", \/ \E r \in Underway : request[r].who = "member"
                        \/ Displayed # server.chips["member"])
    /\ UNCHANGED <<press, server, view, poll, guard, touched, disturbances>>

\* The contact reacts: a job of the inbound processor.
ContactReacts(q, emoji) ==
    /\ press = "reaction" /\ request[q].step = "none" /\ Disturbed
    /\ request' = [request EXCEPT ![q] =
           [step |-> "queued", who |-> "contact", emoji |-> emoji, previous |-> ""]]
    /\ Noted("overlap", \E r \in Underway : request[r].who = "contact")
    /\ UNCHANGED <<press, server, view, poll, guard, pending, touched>>

\* The route queues it, or refuses: the chip goes back to what it was.
ReactionAnswered(q) ==
    /\ press = "reaction" /\ request[q].step = "asked"
    /\ \/ request' = At(q, "queued") /\ UNCHANGED <<pending, disturbances>>
       \/ Disturbed /\ request' = At(q, "done") /\ pending' = request[q].previous
    /\ UNCHANGED <<press, server, view, poll, guard, touched, why>>

\* The job is sent to Meta, or not; then the target's payload is read.
ReactionRead(q) ==
    /\ request[q].step = "queued"
    /\ \/ /\ request' = [request EXCEPT ![q] =
                [step |-> "read", who |-> @.who, emoji |-> @.emoji, copy |-> server.chips]]
          /\ UNCHANGED <<disturbances, why>>
       \/ Disturbed /\ request' = At(q, "done") /\ Noted("dropped", TRUE)
    /\ UNCHANGED <<press, server, view, poll, guard, pending, touched>>

\* Mutant: the list becomes this reaction.
ApplyReactionAlone(chips, who, emoji) == [r \in Reactors |-> IF r = who THEN emoji ELSE ""]

\* applyReactionToList: one per actor.
ApplyReactionToList(chips, who, emoji) == [chips EXCEPT ![who] = emoji]

ReactionWritten(q) ==
    /\ request[q].step = "read"
    /\ server' = [server EXCEPT !.chips =
           ApplyReactionToList(request[q].copy, request[q].who, request[q].emoji),
           !.meant[request[q].who] = request[q].emoji]
    /\ request' = At(q, "done")
    /\ Noted("race", server.chips # request[q].copy)
    /\ UNCHANGED <<press, view, poll, guard, pending, touched, disturbances>>
-----------------------------------------------------------------------------
(***************************************************************************)
(* Create person: offered until the card's row comes with a match.         *)
(***************************************************************************)
\* Mutant: nothing is remembered of a press.
MayCreateAgain == ~view.matched

MayCreate == ~view.matched /\ ~guard

CreatePerson(q) ==
    /\ press = "person" /\ request[q].step = "none"
    /\ MayCreate
    /\ guard' = TRUE
    /\ request' = [request EXCEPT ![q] = [step |-> "asked"]]
    /\ Noted("unshown", server.people > 0)
    /\ UNCHANGED <<press, server, view, poll, pending, touched, disturbances>>

\* The route creates a person; it does not look for one.
PersonCreated(q) ==
    /\ press = "person" /\ request[q].step = "asked"
    /\ \/ server' = [server EXCEPT !.people = @ + 1] /\ UNCHANGED disturbances
       \/ Disturbed /\ UNCHANGED server
    /\ request' = At(q, "answering")
    /\ UNCHANGED <<press, view, poll, guard, pending, touched, why>>

\* The finally, with the answer or without.
CreateSettled(q) ==
    /\ request[q].step = "answering"
    /\ guard' = FALSE
    /\ request' = At(q, "done")
    /\ UNCHANGED <<press, server, view, poll, pending, touched, disturbances, why>>

\* Something changes the row of the card: it is in the next delta.
TouchCard ==
    /\ press = "person" /\ Disturbed
    /\ touched' = TRUE
    /\ UNCHANGED <<press, server, view, poll, request, guard, pending, why>>
-----------------------------------------------------------------------------
\* A delta has the thread, and the rows that changed.
PollReads ==
    /\ poll = NoPoll
    /\ poll' = [step |-> "read", unread |-> server.unread, chips |-> server.chips,
                matched |-> IF touched THEN server.people > 0 ELSE view.matched]
    /\ touched' = FALSE
    /\ UNCHANGED <<press, server, view, request, guard, pending, disturbances, why>>

\* The pane is rendered again, and its effects run.
PollArrives ==
    /\ poll # NoPoll
    /\ poll' = NoPoll
    /\ view' = [unread |-> poll.unread, chips |-> poll.chips, matched |-> poll.matched]
    /\ pending' = IF pending = poll.chips["member"] THEN Unpressed ELSE pending
    /\ IF press # "unread" THEN UNCHANGED <<guard, request>>
       ELSE IF poll.unread = 0 \/ guard
       THEN guard' = GuardAfter(poll.unread) /\ UNCHANGED request
       ELSE \E q \in Presses :
              /\ request[q].step = "none"
              /\ guard' = TRUE
              /\ request' = [request EXCEPT ![q] = [step |-> "asked"]]
    /\ UNCHANGED <<press, server, touched, disturbances, why>>

PressInit ==
    /\ press \in {"unread", "reaction", "person"}
    /\ server = [unread |-> IF press = "unread" THEN 1 ELSE 0, people |-> 0,
                 chips |-> [r \in Reactors |-> ""], meant |-> [r \in Reactors |-> ""]]
    /\ view = [unread |-> 0, matched |-> FALSE, chips |-> server.chips]
    /\ poll = NoPoll
    /\ request = [q \in Presses |-> [step |-> "none"]]
    /\ guard = FALSE /\ pending = Unpressed /\ touched = FALSE
    /\ disturbances = 0 /\ why = {}

PressNext ==
    \/ Inbound \/ TouchCard \/ PollReads \/ PollArrives
    \/ \E q \in Presses :
         \/ ZeroUnread(q) \/ ReactionAnswered(q) \/ ReactionRead(q) \/ ReactionWritten(q)
         \/ CreatePerson(q) \/ PersonCreated(q) \/ CreateSettled(q)
         \/ \E emoji \in Emojis : React(q, emoji) \/ ContactReacts(q, emoji)

PressSpec == PressInit /\ [][PressNext]_pressVars
-----------------------------------------------------------------------------
PressTypeOK ==
    /\ server \in [unread : {0, 1}, people : Nat, chips : [Reactors -> Emojis],
                   meant : [Reactors -> Emojis]]
    /\ pending \in Emojis \union {Unpressed}
    /\ {guard, touched} \subseteq BOOLEAN
    /\ why \subseteq {"unseen", "overlap", "dropped", "race", "unshown"}

\* Nothing is under way, and the pane has seen what there is.
Settled ==
    /\ Underway = {} /\ poll = NoPoll /\ ~touched
    /\ view.unread = server.unread /\ view.chips = server.chips

\* "That second rise is also read the moment it renders": while the guard is
\* set nothing waits to be read, unless no poll came between the zero and it.
BadgeIsCleared ==
    Settled /\ guard /\ press = "unread" /\ "unseen" \notin why => server.unread = 0

\* Each side's last reaction is on the message, and the chip shown is it.
ChipsAreTrue ==
    press = "reaction" /\ Settled /\ why = {} =>
        /\ server.chips = server.meant
        /\ Displayed = server.chips["member"]

\* "A rep who presses twice": a second person needs a press after the first
\* was created, on a card whose row no poll has sent again.
OnePersonPerCard == server.people > 1 => "unshown" \in why

(***************************************************************************)
(* What was pressed is what the store holds and what the pane shows.       *)
(***************************************************************************)
PressesAreTrue == BadgeIsCleared /\ ChipsAreTrue /\ OnePersonPerCard
=============================================================================
