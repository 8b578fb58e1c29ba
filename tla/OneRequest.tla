------------------------------ MODULE OneRequest ------------------------------
(***************************************************************************)
(* What the requestId of a template send promises its callers, whatever    *)
(* calls carry it (template-send.ts, "A retry must be read-only"): there   *)
(* is at most one message; a yes is a yes to what was asked; a conflict is *)
(* with another message, or is said by a call that began before the        *)
(* conversation; a call that began after the message changes nothing.      *)
(***************************************************************************)
CONSTANTS Calls, Asks, Nothing

VARIABLES
    message,        \* the message of the request, as what was asked for
    conversation,   \* whether it has been opened
    asked,          \* what each call asks for; Nothing before it begins
    early,          \* calls that began before the message
    blind,          \* calls that began before the conversation, and did not open it
    said            \* the answers

requestView == <<message, conversation, asked, early, blind, said>>

Says(c, answer) ==
    /\ asked[c] # Nothing /\ said[c] \in {"nothing", "opened"}
    /\ said' = [said EXCEPT ![c] = answer]

Begin(c, ask) ==
    /\ asked[c] = Nothing /\ asked' = [asked EXCEPT ![c] = ask]
    /\ early' = IF message = Nothing THEN early \union {c} ELSE early
    /\ blind' = IF conversation THEN blind ELSE blind \union {c}
    /\ UNCHANGED <<message, conversation, said>>

\* Opened, for a message or in vain.
Open(c) ==
    /\ c \in early
    /\ conversation' = TRUE /\ blind' = blind \ {c}
    /\ Says(c, "opened") \/ Says(c, "denied")
    /\ UNCHANGED <<message, asked, early>>

Accept(c) ==
    /\ c \in early /\ said[c] = "opened" /\ message = Nothing
    /\ message' = asked[c] /\ Says(c, "yes")
    /\ UNCHANGED <<conversation, asked, early, blind>>

\* What is said without a change: a yes or a conflict is about the message.
Answer(c) ==
    /\ \/ Says(c, "denied") \/ Says(c, "dead")
       \/ message = asked[c] /\ Says(c, "yes")
       \/ /\ message # Nothing
          /\ message # asked[c] \/ c \in blind
          /\ Says(c, "conflict")
    /\ UNCHANGED <<message, conversation, asked, early, blind>>

OneInit ==
    /\ message = Nothing /\ conversation \in BOOLEAN
    /\ asked = [c \in Calls |-> Nothing] /\ early = {} /\ blind = {}
    /\ said = [c \in Calls |-> "nothing"]

OneNext ==
    \E c \in Calls : Open(c) \/ Accept(c) \/ Answer(c) \/ \E ask \in Asks : Begin(c, ask)

OneSpec == OneInit /\ [][OneNext]_requestView
=============================================================================
