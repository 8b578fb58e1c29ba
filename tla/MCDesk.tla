-------------------------------- MODULE MCDesk --------------------------------
(***************************************************************************)
(* The desk: the pane of a conversation (ConversationPane), what is        *)
(* pressed in it (ThreadPresses), templates (Templates), the requests to   *)
(* send one (TemplateRequests) and the inbox around it (InboxDesk).  Each  *)
(* behaviour is one of them (place), and the variables of the others stay  *)
(* as they were.                                                           *)
(***************************************************************************)
EXTENDS ConversationPane, ThreadPresses, Templates, TemplateRequests,
        InboxDesk, TLC

CONSTANTS h1, h2, s1, s2, a1, x1, x2, x3, e1, e2

VARIABLE place

deskVars == <<place, paneVars, pressVars, templateVars, requestVars, inboxVars>>

\* Bound: which messages a behaviour of the pane has, and whether time passes:
\* two sends at one time, or a send and a message of the contact.
Cast == IF place = "sends" THEN {s1, s2} ELSE {s1, a1}

\* Bounds: one conversation changes, the other is the rep's.  The screen, with
\* one deed of the rep and one of another, and one thing that happens besides;
\* or the toaster, with two deeds and one thing more.  The third conversation
\* is one too many for a page, or nobody's.
Given(d, who, kinds) ==
    deed[d] = Undone \/ (deed[d].thread = x1 /\ deed[d].by = who /\ deed[d].kind \in kinds)

InboxBound ==
    IF watch = "screen"
    THEN /\ hitches <= 1
         /\ row[x2] = [owner |-> "me", closed |-> FALSE, read |-> TRUE, last |-> 1]
         /\ Given(e1, "me", {"take", "close"}) /\ Given(e2, "her", {"take", "reopen"})
    ELSE /\ quarter = 0 /\ feed["toast"].error = "none"
         /\ row[x3].owner = "me" => hitches <= 2
         /\ Given(e1, "me", {"return", "take", "read"}) /\ Given(e2, "me", {"take"})
         /\ deed[e2] = Undone \/ (deed[e1].step = "done" /\ deed[e1].ok)

DeskInit ==
    /\ PaneInit /\ PressInit /\ TemplatesInit /\ RequestsInit /\ InboxInit
    /\ place \in {"sends", "feed", "presses", "templates", "requests", "inbox"}
    /\ InboxBound
    /\ row[x3].owner = IF watch = "toast" /\ row[x1].owner = row[x2].owner THEN row[x1].owner
                       ELSE Nobody
    /\ place = "inbox" \/ (watch = "screen" /\ row[x1].owner = Nobody)
    /\ place = "presses" \/ press = "unread"
    /\ place = "templates" \/ home = 1
    /\ place = "requests" \/ ~threadRow

DeskNext ==
    /\ place' = place
    /\ \/ /\ place \in {"sends", "feed"} /\ PaneNext
          /\ place = "sends" => clock' = clock /\ upsets' < MaxUpsets
          /\ \A m \in Texts \ Cast : rows'[m] = rows[m]
          /\ \A t \in Sends \ Cast : post'[t] = post[t]
          /\ UNCHANGED <<pressVars, templateVars, requestVars, inboxVars>>
       \/ place = "presses" /\ PressNext
          /\ UNCHANGED <<paneVars, templateVars, requestVars, inboxVars>>
       \/ place = "templates" /\ TemplatesNext
          /\ UNCHANGED <<paneVars, pressVars, requestVars, inboxVars>>
       \/ place = "requests" /\ RequestsNext
          /\ UNCHANGED <<paneVars, pressVars, templateVars, inboxVars>>
       \/ /\ place = "inbox" /\ InboxNext /\ InboxBound' /\ row'[x3] = row[x3]
          /\ deed[e1] # Undone /\ watch = "screen" => selected' = selected /\ search' = FALSE
          /\ UNCHANGED <<paneVars, pressVars, templateVars, requestVars>>

DeskSpec == DeskInit /\ [][DeskNext]_deskVars

DeskTypeOK ==
    PaneTypeOK /\ PressTypeOK /\ TemplatesTypeOK /\ RequestsTypeOK /\ InboxTypeOK

DeskSymmetry == Permutations({h1, h2})
=============================================================================
