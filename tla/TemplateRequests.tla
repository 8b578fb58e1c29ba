--------------------------- MODULE TemplateRequests ---------------------------
(***************************************************************************)
(* The calls of a template send that carry one requestId, which is the     *)
(* clientToken of the message: a tool's call and its retries, beside one   *)
(* another or after one another (executeTemplateSend).                     *)
(***************************************************************************)
EXTENDS Naturals

CONSTANTS
    Calls,
    Asks,       \* what may be asked under the id: template, parameters
    Nothing,
    MaxTurns    \* bound: changes of what the policy reads

ASSUME TemplateRequestsAssumption == Nothing \notin Asks /\ MaxTurns \in Nat

VARIABLES
    call,       \* the running calls
    sent,       \* the message of the request
    threadRow,  \* the conversation
    permitted,  \* the policy's verdict on the rows as they are
    turns

requestVars == <<call, sent, threadRow, permitted, turns>>

NotCalled == [step |-> "none"]
Ended == {"denied", "conflict", "accepted", "replayed"}

Becomes(c, step) == call' = [call EXCEPT ![c].step = step]

\* resolveTemplateTarget: the conversation is looked for, not made.
Receive(c) ==
    /\ call[c] = NotCalled
    /\ \E a \in Asks :
         call' = [call EXCEPT ![c] =
             [step |-> "resolved", asked |-> a, thread |-> threadRow, isRetry |-> sent # Nothing]]
    /\ UNCHANGED <<sent, threadRow, permitted, turns>>

\* The variables are validated, the policy evaluated.
Preflight(c) ==
    /\ call[c].step = "resolved"
    /\ Becomes(c, IF permitted THEN "looking" ELSE "denied")
    /\ UNCHANGED <<sent, threadRow, permitted, turns>>

\* sameTemplateSendIntent, for the conversation the call knows.
Same(c) == call[c].thread /\ sent = call[c].asked

\* Mutant: the request is not looked for before the conversation is made.
LookedUpLate(c) ==
    /\ call[c].step = "looking"
    /\ Becomes(c, "threading")
    /\ UNCHANGED <<sent, threadRow, permitted, turns>>

\* findMessageByClientToken
LookedUp(c) ==
    /\ call[c].step = "looking"
    /\ Becomes(c, IF sent = Nothing THEN "threading" ELSE IF Same(c) THEN "replayed" ELSE "conflict")
    /\ UNCHANGED <<sent, threadRow, permitted, turns>>

\* upsertThread, and the policy once more.
Threaded(c) ==
    /\ call[c].step = "threading"
    /\ threadRow' = TRUE
    /\ call' = [call EXCEPT ![c].step = IF permitted THEN "queueing" ELSE "denied",
                            ![c].thread = TRUE]
    /\ UNCHANGED <<sent, permitted, turns>>

\* Mutant: the token is not unique.
QueuedAgain(c) ==
    /\ call[c].step = "queueing"
    /\ sent' = call[c].asked
    /\ Becomes(c, "accepted")
    /\ UNCHANGED <<threadRow, permitted, turns>>

\* queueOutbound; the loser of a race reads the winner's message.
Queued(c) ==
    /\ call[c].step = "queueing"
    /\ IF sent = Nothing THEN sent' = call[c].asked /\ Becomes(c, "accepted")
       ELSE UNCHANGED sent /\ Becomes(c, IF Same(c) THEN "replayed" ELSE "conflict")
    /\ UNCHANGED <<threadRow, permitted, turns>>

\* A call dies, whatever it has done; its caller may ask again.
CallDies(c) ==
    /\ call[c].step \notin Ended \union {"none", "dead"}
    /\ Becomes(c, "dead")
    /\ UNCHANGED <<sent, threadRow, permitted, turns>>

\* An opt-out, a block, a template withdrawn; or the reverse.
PolicyTurns ==
    /\ turns < MaxTurns /\ turns' = turns + 1
    /\ permitted' = ~permitted
    /\ UNCHANGED <<call, sent, threadRow>>

RequestsInit ==
    /\ call = [c \in Calls |-> NotCalled]
    /\ sent = Nothing /\ threadRow \in BOOLEAN /\ permitted = TRUE
    /\ turns = 0

RequestsNext ==
    \/ PolicyTurns
    \/ \E c \in Calls : \/ Receive(c) \/ Preflight(c) \/ LookedUp(c) \/ Threaded(c)
                        \/ Queued(c) \/ CallDies(c)

RequestsSpec == RequestsInit /\ [][RequestsNext]_requestVars
-----------------------------------------------------------------------------
RequestsTypeOK ==
    /\ sent \in Asks \union {Nothing} /\ {threadRow, permitted} \subseteq BOOLEAN
    /\ \A c \in Calls : call[c].step \in Ended \union
          {"none", "dead", "resolved", "looking", "threading", "queueing"}

(***************************************************************************)
(* A request is a message, however often and from wherever it is asked:    *)
(* the calls implement OneRequest.  (A retry may be denied what was sent:  *)
(* the policy is asked before the request is looked for.)                  *)
(***************************************************************************)
Called == {c \in Calls : call[c] # NotCalled}

One == INSTANCE OneRequest WITH
    message      <- sent,
    conversation <- threadRow,
    asked        <- [c \in Calls |-> IF c \in Called THEN call[c].asked ELSE Nothing],
    early        <- {c \in Called : ~call[c].isRetry},
    blind        <- {c \in Called : ~call[c].thread},
    said         <- [c \in Calls |->
                       CASE call[c].step \in {"accepted", "replayed"} -> "yes"
                         [] call[c].step \in {"denied", "conflict", "dead"} -> call[c].step
                         [] call[c].step = "queueing" -> "opened"
                         [] OTHER -> "nothing"]

RequestsAreOne == One!OneSpec
=============================================================================
