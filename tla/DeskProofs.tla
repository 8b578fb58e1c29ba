------------------------------- MODULE DeskProofs -------------------------------
(***************************************************************************)
(* What is proved of the parts of the desk: TemplateRequests implements    *)
(* OneRequest, for any set of calls; what the CRM offers of a template is  *)
(* what Meta will take; what was pressed in a conversation is what the     *)
(* store holds and the pane shows; the pane tells what is stored; and the  *)
(* inbox shows what was read, with what was done in it.                    *)
(***************************************************************************)
EXTENDS MCDesk, WellFoundedInduction, FiniteSetTheorems, TLAPS

(***************************************************************************)
(* What a running call knows is true, or was.                              *)
(***************************************************************************)
Running == {"resolved", "looking", "threading", "queueing"}

Call == [step : Ended \union Running \union {"dead"}, asked : Asks,
         thread : BOOLEAN, isRetry : BOOLEAN]

\* A call that goes on past the lookup found no message when it began; one that
\* queues has opened the conversation.
CallKnows(c) ==
    /\ call[c].isRetry => sent # Nothing
    /\ call[c].step \in {"threading", "queueing"} => ~call[c].isRetry
    /\ call[c].step = "queueing" => call[c].thread

RequestsInv ==
    /\ call = [c \in Calls |-> call[c]]
    /\ \A c \in Calls : call[c] # NotCalled => call[c] \in Call /\ CallKnows(c)
    /\ sent \in Asks \union {Nothing}
    /\ threadRow \in BOOLEAN /\ permitted \in BOOLEAN

\* A step moves a call it finds, and only that one.
LEMMA CallMoves ==
    ASSUME RequestsInv, NEW c \in Calls, call[c] # NotCalled,
           NEW s \in Ended \union Running \union {"dead"},
           call' = [call EXCEPT ![c].step = s, ![c].thread = TRUE]
    PROVE  /\ call' = [d \in Calls |-> call'[d]]
           /\ call'[c] \in Call /\ call'[c] # NotCalled
           /\ call'[c].step = s /\ call'[c].thread
           /\ call'[c].asked = call[c].asked /\ call'[c].isRetry = call[c].isRetry
           /\ \A d \in Calls \ {c} : call'[d] = call[d]
<1>1. call[c] \in Call
  BY DEF RequestsInv
<1>2. call'[c] = [call[c] EXCEPT !.step = s, !.thread = TRUE]
  BY DEF RequestsInv
<1> DEFINE q == [call[c] EXCEPT !.step = s]
<1>q. /\ q \in Call /\ q.step = s
      /\ q.asked = call[c].asked /\ q.isRetry = call[c].isRetry
  BY <1>1 DEF Call
<1>e. call'[c] = [q EXCEPT !.thread = TRUE]
  BY <1>2
<1> HIDE DEF q
<1>b. \A b \in BOOLEAN : \A r \in Call : [r EXCEPT !.thread = b] \in Call
  BY DEF Call
<1>m. call'[c] \in Call
  BY <1>q, <1>e, <1>b
<1>f. /\ call'[c].step = s /\ call'[c].thread = TRUE
      /\ call'[c].asked = call[c].asked /\ call'[c].isRetry = call[c].isRetry
  BY <1>q, <1>e DEF Call
<1>3. /\ call'[c] \in Call
      /\ call'[c].step = s /\ call'[c].thread
      /\ call'[c].asked = call[c].asked /\ call'[c].isRetry = call[c].isRetry
  BY <1>m, <1>f
<1>4. s # "none"
  BY DEF Ended, Running
<1> QED
  BY <1>3, <1>4 DEF RequestsInv, NotCalled

\* The same for a move that only changes the step.
LEMMA CallBecomes ==
    ASSUME RequestsInv, NEW c \in Calls, call[c] # NotCalled,
           NEW s \in Ended \union Running \union {"dead"}, Becomes(c, s)
    PROVE  /\ call' = [d \in Calls |-> call'[d]]
           /\ call'[c] \in Call /\ call'[c] # NotCalled
           /\ call'[c].step = s /\ call'[c].thread = call[c].thread
           /\ call'[c].asked = call[c].asked /\ call'[c].isRetry = call[c].isRetry
           /\ \A d \in Calls \ {c} : call'[d] = call[d]
<1>1. call[c] \in Call
  BY DEF RequestsInv
<1>2. call'[c] = [call[c] EXCEPT !.step = s]
  BY DEF RequestsInv, Becomes
<1>3. /\ call'[c] \in Call
      /\ call'[c].step = s /\ call'[c].thread = call[c].thread
      /\ call'[c].asked = call[c].asked /\ call'[c].isRetry = call[c].isRetry
  BY <1>1, <1>2 DEF Call
<1>4. s # "none"
  BY DEF Ended, Running
<1>5. call' = [d \in Calls |-> call'[d]] /\ \A d \in Calls \ {c} : call'[d] = call[d]
  BY DEF RequestsInv, Becomes
<1> QED
  BY <1>3, <1>4, <1>5 DEF NotCalled

\* A step that finds a call at work finds it called.
LEMMA AtWork ==
    ASSUME NEW c \in Calls, call[c].step # "none"
    PROVE  call[c] # NotCalled
  BY DEF NotCalled

\* What a running call knows stays true (executeTemplateSend).
LEMMA RequestsInvariant == RequestsSpec => []RequestsInv
<1>1. RequestsInit => RequestsInv
  BY DEF RequestsInit, RequestsInv, NotCalled
<1>2. ASSUME RequestsInv, [RequestsNext]_requestVars PROVE RequestsInv'
  <2>1. ASSUME NEW c \in Calls, Receive(c) PROVE RequestsInv'
    <3>1. PICK a \in Asks :
             call' = [call EXCEPT ![c] =
                 [step |-> "resolved", asked |-> a, thread |-> threadRow,
                  isRetry |-> sent # Nothing]]
      BY <2>1 DEF Receive
    <3>2. call' = [d \in Calls |-> call'[d]] /\ \A d \in Calls \ {c} : call'[d] = call[d]
      BY <1>2, <3>1 DEF RequestsInv
    <3>3. call'[c] = [step |-> "resolved", asked |-> a, thread |-> threadRow,
                      isRetry |-> sent # Nothing]
      BY <1>2, <3>1 DEF RequestsInv
    <3>a. call'[c].isRetry = (sent # Nothing)
      BY <3>3
    <3>b. (sent # Nothing) \in BOOLEAN
      OBVIOUS
    <3>4. (sent # Nothing) \in BOOLEAN /\ (call'[c].isRetry <=> sent # Nothing)
      BY <3>a, <3>b
    <3>5. call'[c] \in Call
      BY <1>2, <3>3, <3>4 DEF RequestsInv, Call, Running
    <3>6. CallKnows(c)'
      BY <2>1, <3>3, <3>4 DEF CallKnows, Receive
    <3> QED
      BY <1>2, <2>1, <3>2, <3>5, <3>6 DEF RequestsInv, CallKnows, Receive
  <2>2. ASSUME NEW c \in Calls, Preflight(c) PROVE RequestsInv'
    <3>1. call[c] # NotCalled
      BY <2>2, AtWork DEF Preflight
    <3>2. PICK s \in {"looking", "denied"} : Becomes(c, s)
      BY <2>2 DEF Preflight
    <3> QED
      BY <1>2, <2>2, <3>1, <3>2, CallBecomes
         DEF RequestsInv, CallKnows, Preflight, Ended, Running
  <2>3. ASSUME NEW c \in Calls, LookedUp(c) PROVE RequestsInv'
    <3>1. call[c] # NotCalled
      BY <2>3, AtWork DEF LookedUp
    <3>2. PICK s \in {"threading", "replayed", "conflict"} :
             Becomes(c, s) /\ (s = "threading" => sent = Nothing)
      BY <2>3 DEF LookedUp
    <3> QED
      BY <1>2, <2>3, <3>1, <3>2, CallBecomes
         DEF RequestsInv, CallKnows, LookedUp, Ended, Running
  <2>4. ASSUME NEW c \in Calls, Threaded(c) PROVE RequestsInv'
    <3>1. call[c] # NotCalled
      BY <2>4, AtWork DEF Threaded
    <3>2. PICK s \in {"queueing", "denied"} :
             call' = [call EXCEPT ![c].step = s, ![c].thread = TRUE]
      BY <2>4 DEF Threaded
    <3> QED
      BY ZenonT(30), <1>2, <2>4, <3>1, <3>2, CallMoves
         DEF RequestsInv, CallKnows, Threaded, Ended, Running
  <2>5. ASSUME NEW c \in Calls, Queued(c) PROVE RequestsInv'
    <3>1. call[c] # NotCalled
      BY <2>5, AtWork DEF Queued
    <3>2. PICK s \in {"accepted", "replayed", "conflict"} : Becomes(c, s)
      BY <2>5 DEF Queued
    <3>3. sent' \in Asks \union {Nothing} /\ (sent # Nothing => sent' # Nothing)
      BY <1>2, <2>5, <3>1 DEF Queued, RequestsInv, Call
    <3> QED
      BY <1>2, <2>5, <3>1, <3>2, <3>3, CallBecomes
         DEF RequestsInv, CallKnows, Queued, Ended, Running
  <2>6. ASSUME NEW c \in Calls, CallDies(c) PROVE RequestsInv'
    <3>1. call[c] # NotCalled
      BY <2>6, AtWork DEF CallDies
    <3> QED
      BY <1>2, <2>6, <3>1, CallBecomes
         DEF RequestsInv, CallKnows, CallDies, Ended, Running
  <2>7. CASE PolicyTurns
    BY <1>2, <2>7 DEF PolicyTurns, RequestsInv, CallKnows
  <2>8. CASE UNCHANGED requestVars
    BY <1>2, <2>8 DEF requestVars, RequestsInv, CallKnows
  <2> QED
    BY <1>2, <2>1, <2>2, <2>3, <2>4, <2>5, <2>6, <2>7, <2>8 DEF RequestsNext
<1> QED
  BY <1>1, <1>2, PTL DEF RequestsSpec

-----------------------------------------------------------------------------
(***************************************************************************)
(* The refinement.                                                         *)
(***************************************************************************)
\* What OneRequest sees of the calls (the mapping of One).
AskedFor == [c \in Calls |-> IF c \in Called THEN call[c].asked ELSE Nothing]
Early == {c \in Called : ~call[c].isRetry}
Blind == {c \in Called : ~call[c].thread}
Said == [c \in Calls |->
           CASE call[c].step \in {"accepted", "replayed"} -> "yes"
             [] call[c].step \in {"denied", "conflict", "dead"} -> call[c].step
             [] call[c].step = "queueing" -> "opened"
             [] OTHER -> "nothing"]

\* A step of one call changes what is seen of that call only.
LEMMA ViewFrame ==
    ASSUME NEW c \in Calls, call[c] # NotCalled, call'[c] # NotCalled,
           \A d \in Calls \ {c} : call'[d] = call[d],
           call'[c].asked = call[c].asked, call'[c].isRetry = call[c].isRetry
    PROVE  /\ AskedFor' = AskedFor
           /\ Early' = Early
           /\ Blind' \ {c} = Blind \ {c}
           /\ call'[c].thread = call[c].thread => Blind' = Blind
           /\ call'[c].thread => Blind' = Blind \ {c}
           /\ Said' = [Said EXCEPT ![c] = Said'[c]]
<1>1. Called' = Called
  BY DEF Called
<1>2. AskedFor' = AskedFor
  BY <1>1 DEF AskedFor, Called
<1>3. Early' = Early
  BY <1>1 DEF Early, Called
<1>4. Said' = [Said EXCEPT ![c] = Said'[c]]
  BY DEF Said
<1> QED
  BY <1>1, <1>2, <1>3, <1>4 DEF Blind, Called

\* Every step of the calls is a step of the request, or none
\* (template-send.ts, "A retry must be read-only").
LEMMA StepRefines ==
    ASSUME RequestsInv, [RequestsNext]_requestVars
    PROVE  [One!OneNext]_(One!requestView)
<1> DEFINE View == <<sent, threadRow, AskedFor, Early, Blind, Said>>
<1> USE TemplateRequestsAssumption
<1>v. One!requestView = View
  BY DEF One!requestView, AskedFor, Early, Blind, Said
<1>1. ASSUME NEW c \in Calls, Receive(c) PROVE One!OneNext
  <2>1. PICK a \in Asks :
           call' = [call EXCEPT ![c] =
               [step |-> "resolved", asked |-> a, thread |-> threadRow,
                isRetry |-> sent # Nothing]]
    BY <1>1 DEF Receive
  <2>2. /\ \A d \in Calls \ {c} : call'[d] = call[d]
        /\ call'[c] = [step |-> "resolved", asked |-> a, thread |-> threadRow,
                       isRetry |-> sent # Nothing]
        /\ call[c] = NotCalled
    BY <1>1, <2>1 DEF RequestsInv, Receive
  <2>3. /\ call'[c] # NotCalled /\ call'[c].asked = a /\ call'[c].step = "resolved"
        /\ call'[c].thread <=> threadRow
        /\ call'[c].isRetry <=> sent # Nothing
    <3>1. /\ call'[c].asked = a /\ call'[c].step = "resolved"
          /\ call'[c].thread = threadRow
          /\ call'[c].isRetry = (sent # Nothing)
      BY <2>2
    <3>2. call'[c] # NotCalled
      BY <3>1 DEF NotCalled
    <3>3. (call'[c].isRetry <=> sent # Nothing) /\ (call'[c].thread <=> threadRow)
      BY <3>1
    <3> QED
      BY <3>1, <3>2, <3>3
  <2> HIDE <2>1
  <2>4. Called' = Called \union {c} /\ c \notin Called
    BY <2>2, <2>3 DEF Called
  <2>5. AskedFor[c] = Nothing /\ AskedFor' = [AskedFor EXCEPT ![c] = a]
    BY <2>2, <2>3, <2>4 DEF AskedFor
  <2>6. Early' = IF sent = Nothing THEN Early \union {c} ELSE Early
    BY <2>2, <2>3, <2>4 DEF Early, Called
  <2>7. Blind' = IF threadRow THEN Blind ELSE Blind \union {c}
    BY <2>2, <2>3, <2>4 DEF Blind, Called
  <2>8. Said' = Said
    BY <2>2 DEF Said, NotCalled
  <2>9. One!Begin(c, a)
    BY <1>1, <2>5, <2>6, <2>7, <2>8 DEF One!Begin, AskedFor, Early, Blind, Said, Receive
  <2> QED
    BY <2>9 DEF One!OneNext
<1>2. ASSUME NEW c \in Calls, Preflight(c) PROVE One!OneNext \/ View' = View
  <2>1. call[c] # NotCalled /\ call[c] \in Call
    BY <1>2, AtWork DEF Preflight, RequestsInv
  <2>2. PICK s \in {"looking", "denied"} : Becomes(c, s)
    BY <1>2 DEF Preflight
  <2>3. /\ \A d \in Calls \ {c} : call'[d] = call[d]
        /\ call'[c] # NotCalled /\ call'[c].step = s
        /\ call'[c].asked = call[c].asked /\ call'[c].isRetry = call[c].isRetry
        /\ call'[c].thread = call[c].thread
    BY <2>1, <2>2, CallBecomes DEF Ended, Running
  <2>4. /\ AskedFor' = AskedFor /\ Early' = Early /\ Blind' = Blind
        /\ Said' = [Said EXCEPT ![c] = Said'[c]]
    BY <2>1, <2>3, ViewFrame
  <2>5. Said[c] = "nothing" /\ Said'[c] = IF s = "looking" THEN "nothing" ELSE "denied"
    BY <1>2, <2>3 DEF Preflight, Said
  <2>6. CASE s = "looking"
    BY <1>2, <2>4, <2>5, <2>6 DEF Preflight, Said
  <2>7. CASE s = "denied"
    <3>1. AskedFor[c] # Nothing
      BY <2>1 DEF AskedFor, Called, Call
    <3>2. One!Answer(c)
      BY <1>2, <2>4, <2>5, <2>7, <3>1
         DEF One!Answer, One!Says, Preflight, AskedFor, Early, Blind, Said
    <3> QED
      BY <3>2 DEF One!OneNext
  <2> QED
    BY <2>6, <2>7
<1>3. ASSUME NEW c \in Calls, LookedUp(c) PROVE One!OneNext \/ View' = View
  <2>1. call[c] # NotCalled /\ call[c] \in Call
    BY <1>3, AtWork DEF LookedUp, RequestsInv
  <2>2. PICK s \in {"threading", "replayed", "conflict"} :
           /\ Becomes(c, s)
           /\ s = "replayed" => Same(c)
           /\ s = "conflict" => sent # Nothing /\ ~Same(c)
    BY <1>3 DEF LookedUp
  <2>3. /\ \A d \in Calls \ {c} : call'[d] = call[d]
        /\ call'[c] # NotCalled /\ call'[c].step = s
        /\ call'[c].asked = call[c].asked /\ call'[c].isRetry = call[c].isRetry
        /\ call'[c].thread = call[c].thread
    BY <2>1, <2>2, CallBecomes DEF Ended, Running
  <2>4. /\ AskedFor' = AskedFor /\ Early' = Early /\ Blind' = Blind
        /\ Said' = [Said EXCEPT ![c] = Said'[c]]
    BY <2>1, <2>3, ViewFrame
  <2>5. /\ Said[c] = "nothing"
        /\ s = "threading" => Said'[c] = "nothing"
        /\ s = "replayed" => Said'[c] = "yes"
        /\ s = "conflict" => Said'[c] = "conflict"
    BY <1>3, <2>3 DEF LookedUp, Said
  <2>6. AskedFor[c] = call[c].asked /\ AskedFor[c] # Nothing
    BY <2>1 DEF AskedFor, Called, Call
  <2>7. CASE s = "threading"
    BY <1>3, <2>4, <2>5, <2>7 DEF LookedUp, Said
  <2>8. CASE s = "replayed"
    <3>1. One!Answer(c)
      BY <1>3, <2>2, <2>4, <2>5, <2>6, <2>8
         DEF One!Answer, One!Says, LookedUp, Same, AskedFor, Early, Blind, Said
    <3> QED
      BY <3>1 DEF One!OneNext
  <2>9. CASE s = "conflict"
    <3>1. sent # AskedFor[c] \/ c \in Blind
      BY <2>1, <2>2, <2>6, <2>9 DEF Same, Blind, Called, Call
    <3>2. One!Answer(c)
      BY <1>3, <2>2, <2>4, <2>5, <2>6, <2>9, <3>1
         DEF One!Answer, One!Says, LookedUp, AskedFor, Early, Blind, Said
    <3> QED
      BY <3>2 DEF One!OneNext
  <2> QED
    BY <2>7, <2>8, <2>9
<1>4. ASSUME NEW c \in Calls, Threaded(c) PROVE One!OneNext
  <2>1. call[c] # NotCalled /\ call[c] \in Call /\ CallKnows(c)
    BY <1>4, AtWork DEF Threaded, RequestsInv
  <2>2. PICK s \in {"queueing", "denied"} :
           call' = [call EXCEPT ![c].step = s, ![c].thread = TRUE]
    BY <1>4 DEF Threaded
  <2>3. /\ \A d \in Calls \ {c} : call'[d] = call[d]
        /\ call'[c] # NotCalled /\ call'[c].step = s /\ call'[c].thread
        /\ call'[c].asked = call[c].asked /\ call'[c].isRetry = call[c].isRetry
    BY <2>1, <2>2, CallMoves DEF Ended, Running
  <2>4. /\ AskedFor' = AskedFor /\ Early' = Early /\ Blind' = Blind \ {c}
        /\ Said' = [Said EXCEPT ![c] = Said'[c]]
    BY <2>1, <2>3, ViewFrame
  <2>5. Said[c] = "nothing" /\ Said'[c] = IF s = "queueing" THEN "opened" ELSE "denied"
    BY <1>4, <2>3 DEF Threaded, Said
  <2>6. AskedFor[c] # Nothing /\ c \in Early
    BY <1>4, <2>1 DEF AskedFor, Called, Call, Early, CallKnows, Threaded
  <2>7. Said[c] \in {"nothing", "opened"} /\ DOMAIN Said = Calls
    BY <2>5 DEF Said
  <2>8. One!Says(c, "opened") \/ One!Says(c, "denied")
    BY ZenonT(30), <2>2, <2>4, <2>5, <2>6, <2>7 DEF One!Says, AskedFor, Said
  <2>9. threadRow' = TRUE /\ sent' = sent
    BY <1>4 DEF Threaded
  <2>10. One!Open(c)
    BY <2>4, <2>6, <2>8, <2>9 DEF One!Open, AskedFor, Early, Blind
  <2> QED
    BY <2>10 DEF One!OneNext
<1>5. ASSUME NEW c \in Calls, Queued(c) PROVE One!OneNext
  <2>1. call[c] # NotCalled /\ call[c] \in Call /\ CallKnows(c)
    BY <1>5, AtWork DEF Queued, RequestsInv
  <2>2. PICK s \in {"accepted", "replayed", "conflict"} :
           /\ Becomes(c, s)
           /\ s = "accepted" => sent = Nothing /\ sent' = call[c].asked
           /\ s # "accepted" => sent # Nothing /\ sent' = sent
           /\ s = "replayed" => Same(c)
           /\ s = "conflict" => ~Same(c)
    BY <1>5 DEF Queued
  <2>3. /\ \A d \in Calls \ {c} : call'[d] = call[d]
        /\ call'[c] # NotCalled /\ call'[c].step = s
        /\ call'[c].asked = call[c].asked /\ call'[c].isRetry = call[c].isRetry
        /\ call'[c].thread = call[c].thread
    BY <2>1, <2>2, CallBecomes DEF Ended, Running
  <2>4. /\ AskedFor' = AskedFor /\ Early' = Early /\ Blind' = Blind
        /\ Said' = [Said EXCEPT ![c] = Said'[c]]
    BY <2>1, <2>3, ViewFrame
  <2>5. Said[c] = "opened" /\ Said'[c] = IF s = "conflict" THEN "conflict" ELSE "yes"
    BY <1>5, <2>3 DEF Queued, Said
  <2>6. AskedFor[c] = call[c].asked /\ AskedFor[c] # Nothing /\ c \in Early
    BY <1>5, <2>1 DEF AskedFor, Called, Call, Early, CallKnows, Queued
  <2>7. CASE s = "accepted"
    <3>1. One!Accept(c)
      BY <1>5, <2>2, <2>4, <2>5, <2>6, <2>7
         DEF One!Accept, One!Says, Queued, AskedFor, Early, Blind, Said
    <3> QED
      BY <3>1 DEF One!OneNext
  <2>8. CASE s # "accepted"
    <3>1. s = "conflict" => sent # AskedFor[c]
      BY <1>5, <2>1, <2>2, <2>6 DEF Same, CallKnows, Queued
    <3>2. s = "replayed" => sent = AskedFor[c]
      BY <2>2, <2>6 DEF Same
    <3>3. One!Answer(c)
      BY <1>5, <2>2, <2>4, <2>5, <2>6, <2>8, <3>1, <3>2
         DEF One!Answer, One!Says, Queued, AskedFor, Early, Blind, Said
    <3> QED
      BY <3>3 DEF One!OneNext
  <2> QED
    BY <2>7, <2>8
<1>6. ASSUME NEW c \in Calls, CallDies(c) PROVE One!OneNext
  <2>1. call[c] # NotCalled /\ call[c] \in Call
    BY <1>6, AtWork DEF CallDies, RequestsInv
  <2>2. /\ \A d \in Calls \ {c} : call'[d] = call[d]
        /\ call'[c] # NotCalled /\ call'[c].step = "dead"
        /\ call'[c].asked = call[c].asked /\ call'[c].isRetry = call[c].isRetry
        /\ call'[c].thread = call[c].thread
    BY <1>6, <2>1, CallBecomes DEF CallDies
  <2>3. /\ AskedFor' = AskedFor /\ Early' = Early /\ Blind' = Blind
        /\ Said' = [Said EXCEPT ![c] = Said'[c]]
    BY <2>1, <2>2, ViewFrame
  <2>4. Said[c] \in {"nothing", "opened"} /\ Said'[c] = "dead"
    BY <1>6, <2>1, <2>2 DEF CallDies, Said, Ended
  <2>5. AskedFor[c] # Nothing
    BY <2>1 DEF AskedFor, Called, Call
  <2>6. One!Answer(c)
    BY <1>6, <2>3, <2>4, <2>5
       DEF One!Answer, One!Says, CallDies, AskedFor, Early, Blind, Said
  <2> QED
    BY <2>6 DEF One!OneNext
<1>7. ASSUME PolicyTurns \/ UNCHANGED requestVars PROVE View' = View
  <2>1. call' = call /\ sent' = sent /\ threadRow' = threadRow
    BY <1>7 DEF PolicyTurns, requestVars
  <2> QED
    BY <2>1 DEF AskedFor, Early, Blind, Said, Called
<1> QED
  BY <1>v, <1>1, <1>2, <1>3, <1>4, <1>5, <1>6, <1>7
     DEF RequestsNext, One!requestView, AskedFor, Early, Blind, Said

\* A requestId is one message, however often and from wherever it is sent: the
\* calls implement OneRequest (executeTemplateSend, findMessageByClientToken).
THEOREM RequestsCorrect == RequestsSpec => RequestsAreOne
<1>1. RequestsInit => One!OneInit
  BY DEF RequestsInit, One!OneInit, Called, NotCalled
<1>2. RequestsInv /\ [RequestsNext]_requestVars => [One!OneNext]_(One!requestView)
  BY StepRefines
<1> QED
  BY <1>1, <1>2, RequestsInvariant, PTL DEF RequestsSpec, RequestsAreOne, One!OneSpec
-----------------------------------------------------------------------------
(***************************************************************************)
(* Templates: the inductive invariant.                                     *)
(***************************************************************************)
Counts == Shapes \union {0}
Metas == [listed : BOOLEAN, status : MetaStatuses \union {"NONE"}, red : BOOLEAN, shape : Counts]
Told == [listed : BOOLEAN, status : MetaStatuses, red : BOOLEAN, shape : Counts]
TemplateRows == [status : MetaStatuses \union {"NONE", "DISABLED"}, red : BOOLEAN, shape : Counts,
         usable : BOOLEAN, published : BOOLEAN, gone : BOOLEAN]

Walking == [step : {"page", "walked"}, page : Nat, seen : BOOLEAN, calm : BOOLEAN]
Finding == [step : {"found"}, page : Nat, seen : {TRUE}, calm : BOOLEAN, item : Told]
Writing == [step : {"write"}, page : Nat, seen : {TRUE}, calm : BOOLEAN, item : Told,
            copy : TemplateRows]
Disabling == [step : {"disable"}, calm : BOOLEAN]
Syncs == {NoSync} \union Walking \union Finding \union Writing \union Disabling

Arrived == [step : {"queued"}, field : Fields, said : Told]
Noticed == [step : {"read"}, field : Fields, said : Told, copy : TemplateRows]
AdminCalls ==
    {NoAdminCall} \union [step : {"created"}, said : Told]
        \union [step : {"read"}, wanted : BOOLEAN, copy : TemplateRows]
Bound == [step : {"queued", "denied"}, bound : Counts]
Leaving == [step : {"out", "accepted", "refused"}, bound : Counts, spec : Counts]
Causes == {"overlap", "review", "red", "reshaped", "young"}

TemplatesTypes ==
    /\ meta \in Metas /\ template \in TemplateRows /\ sync \in Syncs
    /\ events \subseteq Arrived \union Noticed
    /\ adminCall \in AdminCalls /\ outgoing \in {NoMessage} \union Bound \union Leaving
    /\ home \in 1..LastPage /\ {changes, acts, passes} \subseteq Nat /\ causes \subseteq Causes

\* Before the template is submitted nobody knows of it.
Unborn ==
    meta.status = "NONE" =>
        /\ ~meta.listed /\ template = NoTemplate /\ events = {} /\ adminCall = NoAdminCall
        /\ outgoing = NoMessage /\ sync.step \in {"idle", "page", "walked"}

Faults == causes \intersect {"overlap", "review", "red"} # {}
Offered == template.published => Faults \/ (template.status = "APPROVED" /\ ~template.red)

\* What a walk that is past the template's page has not seen was not there.
Unseen == (sync \in Walking /\ ~sync.seen /\ sync.page > home) \/ sync \in Disabling
Missing == template.gone \/ Unseen => ~meta.listed \/ "young" \in causes

\* What is queued fits what is offered, and what leaves fits what was read.
Unfit == causes \intersect {"overlap", "reshaped"} # {}
Fits ==
    /\ outgoing.step = "queued" /\ template.published => Unfit \/ outgoing.bound = template.shape
    /\ outgoing.step = "out" => Unfit \/ outgoing.bound = outgoing.spec

\* While nothing disturbed the pass, what it read is so, and what it wrote.
AsMeta ==
    /\ meta.listed
    /\ template.status = meta.status /\ template.red = meta.red /\ template.shape = meta.shape
    /\ template.published => ~ShouldUnpublish(meta.status, meta.red)
Walked ==
    /\ sync.step = "page" => sync.page \in 1..LastPage
    /\ sync.step = "walked" => sync.page = LastPage + 1
    /\ sync.step \in {"found", "write"} => sync.page = home
Calm ==
    sync # NoSync /\ sync.calm =>
        /\ sync.step \in {"page", "walked"} =>
             /\ sync.seen => AsMeta
             /\ ~sync.seen => ~meta.listed \/ sync.page <= home
        /\ sync.step \in {"found", "write"} => sync.item = meta /\ meta.listed
        /\ sync.step = "write" => sync.copy = template

TemplatesInv ==
    TemplatesTypes /\ Unborn /\ Offered /\ Missing /\ Fits /\ Walked /\ Calm
-----------------------------------------------------------------------------
\* The step of a pass says what it carries.
LEMMA SyncKinds ==
    ASSUME sync \in Syncs
    PROVE  /\ sync.step = "idle" <=> sync = NoSync
           /\ sync.step \in {"page", "walked"} <=> sync \in Walking
           /\ sync.step = "found" <=> sync \in Finding
           /\ sync.step = "write" <=> sync \in Writing
           /\ sync.step = "disable" <=> sync \in Disabling
  <1>1. NoSync.step = "idle"
    BY DEF NoSync
  <1>2. \A s \in Walking : s.step \in {"page", "walked"}
    BY DEF Walking
  <1>3. \A s \in Finding : s.step = "found"
    BY DEF Finding
  <1>4. \A s \in Writing : s.step = "write"
    BY DEF Writing
  <1>5. \A s \in Disabling : s.step = "disable"
    BY DEF Disabling
  <1>6. \/ sync = NoSync \/ sync \in Walking \/ sync \in Finding \/ sync \in Writing
        \/ sync \in Disabling
    BY DEF Syncs
  <1> QED BY <1>1, <1>2, <1>3, <1>4, <1>5, <1>6

\* A pass that is disturbed stays where it is, and can say nothing of the row.
LEMMA PassDisturbed ==
    ASSUME TemplatesInv, Written, home' = home
    PROVE  /\ sync' \in Syncs /\ sync'.step = sync.step
           /\ sync # NoSync => ~sync'.calm
           /\ Walked' /\ Calm' /\ (Unseen' => Unseen)
  <1>1. sync \in Syncs
    BY DEF TemplatesInv, TemplatesTypes
  <1>2. CASE sync = NoSync
    <2>1. sync' = sync
      BY <1>2 DEF Written, Disturb
    <2>2. Calm' /\ Walked'
      BY <1>2, <2>1 DEF Calm, Walked, NoSync
    <2>3. ~Unseen'
      BY <1>1, <1>2, <2>1 DEF Unseen, NoSync, Walking, Disabling
    <2> QED BY <1>1, <1>2, <2>1, <2>2, <2>3
  <1>3. CASE sync # NoSync
    <2>1. sync' = [sync EXCEPT !.calm = FALSE]
      BY <1>3 DEF Written, Disturb
    <2>2. /\ sync \in Walking => /\ sync' \in Walking /\ sync'.seen = sync.seen
                                 /\ sync'.page = sync.page /\ sync'.step = sync.step /\ ~sync'.calm
          /\ sync \in Finding => /\ sync' \in Finding /\ sync'.page = sync.page
                                 /\ sync'.step = sync.step /\ ~sync'.calm
          /\ sync \in Writing => /\ sync' \in Writing /\ sync'.page = sync.page
                                 /\ sync'.step = sync.step /\ ~sync'.calm
          /\ sync \in Disabling => sync' \in Disabling /\ sync'.step = sync.step /\ ~sync'.calm
      <3>1. sync \in Walking => /\ sync' \in Walking /\ sync'.seen = sync.seen
                                /\ sync'.page = sync.page /\ sync'.step = sync.step /\ ~sync'.calm
        BY <2>1 DEF Walking
      <3>2. sync \in Finding => /\ sync' \in Finding /\ sync'.page = sync.page
                                /\ sync'.step = sync.step /\ ~sync'.calm
        BY <2>1 DEF Finding
      <3>3. sync \in Writing => /\ sync' \in Writing /\ sync'.page = sync.page
                                /\ sync'.step = sync.step /\ ~sync'.calm
        BY <2>1 DEF Writing
      <3>4. sync \in Disabling => sync' \in Disabling /\ sync'.step = sync.step /\ ~sync'.calm
        BY <2>1 DEF Disabling
      <3> QED BY <3>1, <3>2, <3>3, <3>4
    <2>3. sync' \in Syncs /\ sync'.step = sync.step /\ ~sync'.calm
      BY <1>1, <1>3, <2>2 DEF Syncs
    <2>4. Calm'
      BY <2>3 DEF Calm
    <2>5. Walked'
      <3>1. Walked /\ (sync.step \in {"page", "walked", "found", "write"} => sync'.page = sync.page)
        BY <1>1, <2>2, SyncKinds DEF TemplatesInv
      <3> QED BY <2>3, <3>1 DEF Walked
    <2>6. Unseen' => Unseen
      <3>1. sync' \in Disabling => sync' .step = "disable"
        BY DEF Disabling
      <3>2. sync' \in Walking => sync'.step \in {"page", "walked"}
        BY DEF Walking
      <3> QED BY <1>1, <2>2, <2>3, <3>1, <3>2, SyncKinds DEF Unseen
    <2> QED BY <2>3, <2>4, <2>5, <2>6
  <1> QED BY <1>2, <1>3

\* Where neither Meta's template, nor the row, nor the pass changes.
LEMMA PassUndisturbed ==
    ASSUME TemplatesInv, meta' = meta, template' = template, sync' = sync, home' = home
    PROVE  /\ sync' \in Syncs /\ sync'.step = sync.step
           /\ Walked' /\ Calm' /\ (Unseen' => Unseen)
  <1>1. sync' \in Syncs
    BY DEF TemplatesInv, TemplatesTypes
  <1>2. Walked' /\ (Unseen' => Unseen)
    BY DEF TemplatesInv, Walked, Unseen
  <1>3. Calm'
    BY DEF TemplatesInv, Calm, AsMeta
  <1> QED BY <1>1, <1>2, <1>3

\* The step of a message says what it carries.
LEMMA MessageKinds ==
    ASSUME outgoing \in {NoMessage} \union Bound \union Leaving
    PROVE  /\ outgoing.step \in {"queued", "denied"} <=> outgoing \in Bound
           /\ outgoing.step \in {"out", "accepted", "refused"} <=> outgoing \in Leaving
           /\ outgoing.step = "none" <=> outgoing = NoMessage
  <1>1. NoMessage.step = "none"
    BY DEF NoMessage
  <1>2. \A m \in Bound : m.step \in {"queued", "denied"}
    BY DEF Bound
  <1>3. \A m \in Leaving : m.step \in {"out", "accepted", "refused"}
    BY DEF Leaving
  <1> QED BY <1>1, <1>2, <1>3

\* The invariant holds before anything happened.
LEMMA TemplatesStart ==
    ASSUME TemplatesInit
    PROVE  TemplatesInv
  <1> USE TemplatesAssumption
  <1>1. TemplatesTypes
    <2>1. meta \in Metas
      BY DEF TemplatesInit, Metas, Counts, MetaStatuses
    <2>2. template \in TemplateRows
      BY DEF TemplatesInit, TemplateRows, NoTemplate, Counts
    <2> QED BY <2>1, <2>2 DEF TemplatesInit, TemplatesTypes, Syncs, AdminCalls
  <1>2. Unborn
    BY DEF TemplatesInit, Unborn, NoSync
  <1>3. Offered /\ Missing /\ Fits
    <2>1. ~Unseen
      BY DEF TemplatesInit, Unseen, NoSync, Walking, Disabling
    <2> QED BY <2>1 DEF TemplatesInit, Offered, Missing, Fits, NoTemplate, NoMessage
  <1>4. Walked /\ Calm
    BY DEF TemplatesInit, Walked, Calm, NoSync
  <1> QED BY <1>1, <1>2, <1>3, <1>4 DEF TemplatesInv

\* A change at Meta is told to nobody but the queue.
LEMMA ChangeKept ==
    ASSUME TemplatesInv, NEW to \in Told, NEW field \in Fields \union {"none"}, Change(to, field)
    PROVE  TemplatesInv'
  <1>1. /\ sync' \in Syncs /\ sync'.step = sync.step
        /\ Walked' /\ Calm' /\ (Unseen' => Unseen)
    BY PassDisturbed DEF Change
  <1>2. TemplatesTypes'
    <2>1. to \in Metas
      BY DEF Told, Metas
    <2>2. field # "none" => [step |-> "queued", field |-> field, said |-> to] \in Arrived
      BY DEF Arrived
    <2>3. events' \subseteq Arrived \union Noticed
      BY <2>2 DEF Change, TemplatesInv, TemplatesTypes
    <2>4. changes' \in Nat
      BY DEF Change, TemplatesInv, TemplatesTypes
    <2> QED BY <1>1, <2>1, <2>3, <2>4 DEF Change, TemplatesInv, TemplatesTypes
  <1>3. Unborn'
    <2>1. to.status # "NONE"
      BY DEF Told, MetaStatuses
    <2> QED BY <2>1 DEF Change, Unborn
  <1>4. Offered'
    BY DEF Change, TemplatesInv, Offered, Faults
  <1>5. Missing'
    BY <1>1 DEF Change, TemplatesInv, Missing
  <1>6. Fits'
    BY DEF Change, TemplatesInv, Fits, Unfit
  <1> QED BY <1>1, <1>2, <1>3, <1>4, <1>5, <1>6 DEF TemplatesInv

\* What Meta lists has been submitted.
LEMMA ListedIsTold ==
    ASSUME TemplatesInv, meta.listed
    PROVE  meta \in Told
  BY DEF TemplatesInv, TemplatesTypes, Unborn, Metas, Told

\* The four changes at Meta.
LEMMA MetaKept ==
    ASSUME TemplatesInv, MetaReviews \/ MetaRates \/ MetaEdits \/ MetaDeletes
    PROVE  TemplatesInv'
  <1>1. meta \in Told
    BY ListedIsTold DEF MetaReviews, MetaRates, MetaEdits, MetaDeletes, Change
  <1>2. CASE MetaReviews
    <2>1. PICK s \in MetaStatuses : Change([meta EXCEPT !.status = s], "status")
      BY <1>2 DEF MetaReviews
    <2>2. [meta EXCEPT !.status = s] \in Told
      BY <1>1 DEF Told
    <2> QED BY <2>1, <2>2, ChangeKept DEF Fields
  <1>3. CASE MetaRates
    <2>1. [meta EXCEPT !.red = ~@] \in Told
      BY <1>1 DEF Told
    <2> QED BY <1>3, <2>1, ChangeKept DEF MetaRates, Fields
  <1>4. CASE MetaEdits
    <2>1. PICK n \in Shapes : Change([meta EXCEPT !.shape = n], "components")
      BY <1>4 DEF MetaEdits
    <2>2. [meta EXCEPT !.shape = n] \in Told
      BY <1>1 DEF Told, Counts
    <2> QED BY <2>1, <2>2, ChangeKept DEF Fields
  <1>5. CASE MetaDeletes
    <2>1. [meta EXCEPT !.listed = FALSE] \in Told
      BY <1>1 DEF Told
    <2> QED BY <1>5, <2>1, ChangeKept DEF MetaDeletes, Fields
  <1> QED BY <1>2, <1>3, <1>4, <1>5

\* A pass begins at the first page.
LEMMA StartKept ==
    ASSUME TemplatesInv, SyncStart
    PROVE  TemplatesInv'
  <1> USE TemplatesAssumption
  <1>1. /\ sync' \in Walking /\ sync'.step = "page" /\ sync'.page = 1 /\ ~sync'.seen
    BY DEF SyncStart, Walking
  <1>2. TemplatesTypes'
    <2>1. passes' \in Nat
      BY DEF SyncStart, TemplatesInv, TemplatesTypes
    <2> QED BY <1>1, <2>1 DEF SyncStart, TemplatesInv, TemplatesTypes, Syncs
  <1>3. Unborn'
    BY <1>1 DEF SyncStart, TemplatesInv, Unborn
  <1>4. Offered' /\ Fits'
    BY DEF SyncStart, TemplatesInv, Offered, Faults, Fits, Unfit
  <1>5. home' \in 1..LastPage /\ LastPage \in Nat /\ home' = home
    BY DEF SyncStart, TemplatesInv, TemplatesTypes
  <1>6. ~Unseen'
    <2>1. sync' \notin Disabling
      BY <1>1 DEF Disabling
    <2> QED BY <1>1, <1>5, <2>1 DEF Unseen
  <1>7. Missing'
    BY <1>6 DEF SyncStart, TemplatesInv, Missing
  <1>8. Walked' /\ Calm'
    BY <1>1, <1>5 DEF Walked, Calm
  <1> QED BY <1>2, <1>3, <1>4, <1>7, <1>8 DEF TemplatesInv

\* A page that lists the template is the page it is on.
LEMMA PageKept ==
    ASSUME TemplatesInv, SyncPage
    PROVE  TemplatesInv'
  <1> USE TemplatesAssumption
  <1>1. sync \in Walking /\ sync.page \in 1..LastPage /\ home \in 1..LastPage /\ LastPage \in Nat
    BY SyncKinds DEF SyncPage, TemplatesInv, TemplatesTypes, Walked
  <1>2. Offered' /\ Fits'
    BY DEF SyncPage, TemplatesInv, Offered, Faults, Fits, Unfit
  <1>3. CASE sync.page = home /\ meta.listed
    <2>1. sync' = [step |-> "found", page |-> sync.page, seen |-> TRUE, calm |-> sync.calm,
                   item |-> meta]
      BY <1>3 DEF SyncPage
    <2>2. meta \in Told
      BY <1>3, ListedIsTold
    <2>3. sync' \in Finding
      BY <1>1, <2>1, <2>2 DEF Finding, Walking
    <2>4. TemplatesTypes'
      BY <2>3 DEF SyncPage, TemplatesInv, TemplatesTypes, Syncs
    <2>5. Unborn'
      BY <2>2 DEF SyncPage, Unborn, Told, MetaStatuses
    <2>6. ~Unseen'
      <3>1. sync' \notin Walking /\ sync' \notin Disabling
        BY <2>1 DEF Walking, Disabling
      <3> QED BY <3>1 DEF Unseen
    <2>7. Missing'
      BY <2>6 DEF SyncPage, TemplatesInv, Missing
    <2>8. Walked' /\ Calm'
      BY <1>3, <2>1 DEF SyncPage, Walked, Calm
    <2> QED BY <1>2, <2>4, <2>5, <2>7, <2>8 DEF TemplatesInv
  <1>4. CASE ~(sync.page = home /\ meta.listed)
    <2>1. /\ sync' \in Walking /\ sync'.page = sync.page + 1 /\ sync'.seen = sync.seen
          /\ sync'.calm = sync.calm
          /\ sync'.step = IF sync.page = LastPage THEN "walked" ELSE "page"
      <3>1. sync' = [step |-> IF sync.page = LastPage THEN "walked" ELSE "page",
                     page |-> sync.page + 1, seen |-> sync.seen, calm |-> sync.calm]
        <4>1. sync' = [sync EXCEPT !.page = sync.page + 1,
                                   !.step = IF sync.page = LastPage THEN "walked" ELSE "page"]
          BY <1>4 DEF SyncPage
        <4> QED BY <1>1, <4>1 DEF Walking
      <3>2. sync.page + 1 \in Nat /\ sync.seen \in BOOLEAN /\ sync.calm \in BOOLEAN
        BY <1>1 DEF Walking
      <3> QED BY <3>1, <3>2 DEF Walking
    <2>2. TemplatesTypes'
      BY <2>1 DEF SyncPage, TemplatesInv, TemplatesTypes, Syncs
    <2>3. Unborn'
      BY <2>1 DEF SyncPage, TemplatesInv, Unborn
    <2>4. Unseen' => Unseen \/ ~meta.listed
      <3>1. sync' \notin Disabling
        BY <2>1 DEF Walking, Disabling
      <3> QED BY <1>1, <1>4, <2>1, <3>1 DEF SyncPage, Unseen
    <2>5. Missing'
      BY <2>4 DEF SyncPage, TemplatesInv, Missing
    <2>6. Walked'
      BY <1>1, <2>1 DEF SyncPage, Walked
    <2>7. Calm'
      <3>1. sync # NoSync
        BY DEF SyncPage, NoSync
      <3>2. ASSUME sync.calm PROVE /\ sync.seen => AsMeta
                                   /\ ~sync.seen => ~meta.listed \/ sync.page <= home
        BY <3>1, <3>2 DEF SyncPage, TemplatesInv, Calm
      <3>3. AsMeta' <=> AsMeta
        BY DEF SyncPage, AsMeta
      <3>4. ASSUME sync.calm PROVE /\ sync'.seen => AsMeta'
                                   /\ ~sync'.seen => ~meta'.listed \/ sync'.page <= home'
        BY <1>1, <1>4, <2>1, <3>2, <3>3, <3>4 DEF SyncPage
      <3> QED BY <2>1, <3>4 DEF Calm
    <2> QED BY <1>2, <2>2, <2>3, <2>5, <2>6, <2>7 DEF TemplatesInv
  <1> QED BY <1>3, <1>4

\* The row is looked up.
LEMMA LooksKept ==
    ASSUME TemplatesInv, SyncLooks
    PROVE  TemplatesInv'
  <1>1. sync \in Finding /\ sync # NoSync
    BY SyncKinds DEF SyncLooks, TemplatesInv, TemplatesTypes
  <1>2. /\ sync' = [step |-> "write", page |-> sync.page, seen |-> TRUE, calm |-> sync.calm,
                    item |-> sync.item, copy |-> template]
        /\ sync' \in Writing
    BY <1>1 DEF SyncLooks, Finding, Writing, TemplatesInv, TemplatesTypes
  <1>3. TemplatesTypes'
    BY <1>2 DEF SyncLooks, TemplatesInv, TemplatesTypes, Syncs
  <1>4. Unborn' /\ Offered' /\ Fits'
    BY DEF SyncLooks, TemplatesInv, Unborn, Offered, Faults, Fits, Unfit
  <1>5. ~Unseen'
    <2>1. sync' \notin Walking /\ sync' \notin Disabling
      BY <1>2 DEF Walking, Disabling
    <2> QED BY <2>1 DEF Unseen
  <1>6. Missing'
    BY <1>5 DEF SyncLooks, TemplatesInv, Missing
  <1>7. Walked' /\ Calm'
    BY <1>1, <1>2 DEF SyncLooks, TemplatesInv, Walked, Calm
  <1> QED BY <1>3, <1>4, <1>6, <1>7 DEF TemplatesInv

\* A pass that fails leaves everything as it is.
LEMMA FailsKept ==
    ASSUME TemplatesInv, SyncFails
    PROVE  TemplatesInv'
  <1>1. TemplatesTypes'
    BY DEF SyncFails, TemplatesInv, TemplatesTypes, Syncs
  <1>2. Unborn' /\ Offered' /\ Fits'
    BY DEF SyncFails, TemplatesInv, Unborn, Offered, Faults, Fits, Unfit, NoSync
  <1>3. ~Unseen'
    BY DEF SyncFails, Unseen, NoSync, Walking, Disabling
  <1>4. Missing'
    BY <1>3 DEF SyncFails, TemplatesInv, Missing
  <1>5. Walked' /\ Calm'
    BY DEF SyncFails, Walked, Calm, NoSync
  <1> QED BY <1>1, <1>2, <1>4, <1>5 DEF TemplatesInv

\* What a pass writes is what it read at Meta.
LEMMA UpsertsKept ==
    ASSUME TemplatesInv, SyncUpserts
    PROVE  TemplatesInv'
  <1> USE TemplatesAssumption
  <1>1. /\ sync \in Writing /\ sync # NoSync /\ sync.item \in Told /\ sync.copy \in TemplateRows
        /\ sync.page = home /\ home \in 1..LastPage /\ LastPage \in Nat /\ sync.calm \in BOOLEAN
    <2>1. sync \in Writing /\ sync.page = home /\ home \in 1..LastPage /\ LastPage \in Nat
      BY SyncKinds DEF SyncUpserts, TemplatesInv, TemplatesTypes, Walked
    <2>2. sync # NoSync
      BY DEF SyncUpserts, NoSync
    <2> QED BY <2>1, <2>2 DEF Writing
  <1>2. meta.status # "NONE"
    BY DEF SyncUpserts, TemplatesInv, Unborn
  <1>3. CASE sync' = NoSync /\ UNCHANGED <<template, causes>>
    <2>1. TemplatesTypes'
      BY <1>3 DEF SyncUpserts, TemplatesInv, TemplatesTypes, Syncs
    <2>2. Unborn' /\ Offered' /\ Fits'
      BY <1>2, <1>3 DEF SyncUpserts, TemplatesInv, Unborn, Offered, Faults, Fits, Unfit
    <2>3. ~Unseen'
      BY <1>3 DEF Unseen, NoSync, Walking, Disabling
    <2>4. Missing'
      BY <1>3, <2>3 DEF SyncUpserts, TemplatesInv, Missing
    <2>5. Walked' /\ Calm'
      BY <1>3 DEF Walked, Calm, NoSync
    <2> QED BY <2>1, <2>2, <2>4, <2>5 DEF TemplatesInv
  <1>4. CASE ~(sync' = NoSync /\ UNCHANGED <<template, causes>>)
    <2> DEFINE item == sync.item
               withdraw == sync.copy.published /\ ShouldUnpublish(item.status, item.red)
    <2>1. /\ template' = [status |-> item.status, red |-> item.red, shape |-> item.shape,
                          usable |-> TRUE, gone |-> FALSE,
                          published |-> template.published /\ ~withdraw]
          /\ sync' = NextPage
          /\ causes' = causes
               \union (IF template # sync.copy THEN {"overlap"} ELSE {})
               \union (IF item.shape # template.shape THEN {"reshaped"} ELSE {})
      BY <1>4 DEF SyncUpserts
    <2>2. /\ template'.status = item.status /\ template'.red = item.red
          /\ template'.shape = item.shape /\ template'.gone = FALSE
          /\ template'.published = (template.published /\ ~withdraw)
      BY <2>1
    <2>3. template' \in TemplateRows
      <3>1. (template.published /\ ~withdraw) \in BOOLEAN
        OBVIOUS
      <3> HIDE DEF withdraw
      <3> QED BY <1>1, <2>1, <3>1 DEF TemplateRows, Told
    <2>4. /\ sync' \in Walking /\ sync'.seen /\ sync'.page = home + 1 /\ sync'.calm = sync.calm
          /\ sync'.step = IF home = LastPage THEN "walked" ELSE "page"
      BY <1>1, <2>1 DEF NextPage, Walking
    <2>5. TemplatesTypes'
      <3>1. causes' \subseteq Causes
        BY <2>1 DEF TemplatesInv, TemplatesTypes, Causes
      <3> QED BY <2>3, <2>4, <3>1 DEF SyncUpserts, TemplatesInv, TemplatesTypes, Syncs
    <2>6. Unborn'
      BY <1>2 DEF SyncUpserts, Unborn
    <2>7. sync.copy = template /\ template'.published =>
            ~ShouldUnpublish(template'.status, template'.red)
      BY <2>2
    <2>8. Offered'
      <3>1. sync.copy # template => Faults'
        BY <2>1 DEF Faults
      <3>2. sync.copy = template /\ template'.published =>
              template'.status = "APPROVED" /\ ~template'.red
        BY <2>7 DEF ShouldUnpublish
      <3> QED BY <3>1, <3>2 DEF Offered
    <2>9. Missing'
      <3>1. sync' \notin Disabling
        BY <2>4 DEF Walking, Disabling
      <3> QED BY <2>2, <2>4, <3>1 DEF Missing, Unseen
    <2>10. Fits'
      <3>1. Unfit => Unfit'
        BY <2>1 DEF Unfit
      <3>2. template'.shape # template.shape => Unfit'
        BY <2>1, <2>2 DEF Unfit
      <3>3. template'.published => template.published
        BY <2>2
      <3>4. outgoing' = outgoing
        BY DEF SyncUpserts
      <3> QED BY <3>1, <3>2, <3>3, <3>4 DEF TemplatesInv, Fits
    <2>11. Walked'
      BY <1>1, <2>4 DEF SyncUpserts, Walked
    <2>12. Calm'
      <3>1. ASSUME sync.calm PROVE sync.item = meta /\ meta.listed /\ sync.copy = template
        BY <1>1, <3>1 DEF SyncUpserts, TemplatesInv, Calm
      <3>2. meta' = meta
        BY DEF SyncUpserts
      <3>3. ASSUME sync.calm PROVE AsMeta'
        BY <2>2, <2>7, <3>1, <3>2, <3>3 DEF AsMeta
      <3> QED BY <2>4, <3>3 DEF Calm
    <2> QED BY <2>5, <2>6, <2>8, <2>9, <2>10, <2>11, <2>12 DEF TemplatesInv
  <1> QED BY <1>3, <1>4

\* A walk that ended without the template has missed nothing.
LEMMA ComparesKept ==
    ASSUME TemplatesInv, SyncCompares
    PROVE  TemplatesInv'
  <1> USE TemplatesAssumption
  <1>1. /\ sync \in Walking /\ sync.page = LastPage + 1 /\ home \in 1..LastPage
        /\ LastPage \in Nat /\ sync.calm \in BOOLEAN
    <2>1. sync \in Walking /\ sync.page = LastPage + 1 /\ home \in 1..LastPage /\ LastPage \in Nat
      BY SyncKinds DEF SyncCompares, MayDisable, TemplatesInv, TemplatesTypes, Walked
    <2> QED BY <2>1 DEF Walking
  <1>2. Offered' /\ Fits'
    BY DEF SyncCompares, TemplatesInv, Offered, Faults, Fits, Unfit
  <1>3. CASE ~sync.seen /\ template.status \notin {"NONE", "DISABLED"}
    <2>1. sync' = [step |-> "disable", calm |-> sync.calm] /\ sync' \in Disabling
      BY <1>1, <1>3 DEF SyncCompares, Disabling
    <2>2. TemplatesTypes'
      BY <2>1 DEF SyncCompares, TemplatesInv, TemplatesTypes, Syncs
    <2>3. Unborn'
      BY <1>3 DEF SyncCompares, TemplatesInv, Unborn, NoTemplate
    <2>4. Unseen
      BY <1>1, <1>3 DEF Unseen
    <2>5. Missing'
      BY <2>4 DEF SyncCompares, TemplatesInv, Missing
    <2>6. Walked' /\ Calm'
      BY <2>1 DEF Walked, Calm
    <2> QED BY <1>2, <2>2, <2>3, <2>5, <2>6 DEF TemplatesInv
  <1>4. CASE ~(~sync.seen /\ template.status \notin {"NONE", "DISABLED"})
    <2>1. sync' = NoSync
      BY <1>4 DEF SyncCompares
    <2>2. TemplatesTypes'
      BY <2>1 DEF SyncCompares, TemplatesInv, TemplatesTypes, Syncs
    <2>3. Unborn'
      BY <2>1 DEF SyncCompares, TemplatesInv, Unborn, NoSync
    <2>4. ~Unseen'
      BY <2>1 DEF Unseen, NoSync, Walking, Disabling
    <2>5. Missing'
      BY <2>4 DEF SyncCompares, TemplatesInv, Missing
    <2>6. Walked' /\ Calm'
      BY <2>1 DEF Walked, Calm, NoSync
    <2> QED BY <1>2, <2>2, <2>3, <2>5, <2>6 DEF TemplatesInv
  <1> QED BY <1>3, <1>4

\* What is disabled was not there.
LEMMA DisablesKept ==
    ASSUME TemplatesInv, SyncDisables
    PROVE  TemplatesInv'
  <1>1. sync \in Disabling /\ Unseen
    BY SyncKinds DEF SyncDisables, TemplatesInv, TemplatesTypes, Unseen
  <1>2. template' \in TemplateRows /\ template'.published = FALSE /\ sync' = NoSync
    BY DEF SyncDisables, TemplatesInv, TemplatesTypes, TemplateRows
  <1>3. TemplatesTypes'
    BY <1>2 DEF SyncDisables, TemplatesInv, TemplatesTypes, Syncs
  <1>4. Unborn'
    BY DEF SyncDisables, TemplatesInv, Unborn
  <1>5. Offered'
    BY <1>2 DEF Offered
  <1>6. Missing'
    BY <1>1 DEF SyncDisables, TemplatesInv, Missing
  <1>7. Fits'
    BY <1>2 DEF SyncDisables, TemplatesInv, Fits, Unfit
  <1>8. Walked' /\ Calm'
    BY <1>2 DEF Walked, Calm, NoSync
  <1> QED BY <1>3, <1>4, <1>5, <1>6, <1>7, <1>8 DEF TemplatesInv

\* An event looks its row up.
LEMMA EventReadsKept ==
    ASSUME TemplatesInv, NEW e \in events, EventReads(e)
    PROVE  TemplatesInv'
  <1>1. /\ sync' \in Syncs /\ sync'.step = sync.step
        /\ Walked' /\ Calm' /\ (Unseen' => Unseen)
    BY PassUndisturbed DEF EventReads
  <1>2. e \in Arrived
    BY DEF EventReads, TemplatesInv, TemplatesTypes, Noticed
  <1>3. [step |-> "read", field |-> e.field, said |-> e.said, copy |-> template] \in Noticed
    BY <1>2 DEF TemplatesInv, TemplatesTypes, Arrived, Noticed
  <1>4. TemplatesTypes'
    <2>1. events' \subseteq Arrived \union Noticed
      BY <1>3 DEF EventReads, TemplatesInv, TemplatesTypes
    <2> QED BY <1>1, <2>1 DEF EventReads, TemplatesInv, TemplatesTypes
  <1>5. Unborn'
    BY DEF EventReads, TemplatesInv, Unborn
  <1>6. Offered' /\ Fits'
    BY DEF EventReads, TemplatesInv, Offered, Faults, Fits, Unfit
  <1>7. Missing'
    BY <1>1 DEF EventReads, TemplatesInv, Missing
  <1> QED BY <1>1, <1>4, <1>5, <1>6, <1>7 DEF TemplatesInv

\* An event writes its field, and takes from offer what it found degraded.
LEMMA EventWritesKept ==
    ASSUME TemplatesInv, NEW e \in events, EventWrites(e)
    PROVE  TemplatesInv'
  <1>1. /\ sync' \in Syncs /\ sync'.step = sync.step
        /\ Walked' /\ Calm' /\ (Unseen' => Unseen)
    BY PassDisturbed DEF EventWrites
  <1>2. e \in Noticed /\ e.field \in Fields /\ e.said \in Told /\ template \in TemplateRows
    <2>1. e \in Noticed /\ template \in TemplateRows
      BY DEF EventWrites, TemplatesInv, TemplatesTypes, Arrived
    <2> QED BY <2>1 DEF Noticed
  <1>3. /\ template' \in TemplateRows /\ template'.gone = template.gone
        /\ template'.published = (template.published /\ ~Withdraws(e))
        /\ template'.status = IF e.field = "status" THEN e.said.status ELSE template.status
        /\ template'.red = IF e.field = "quality" THEN e.said.red ELSE template.red
        /\ template'.shape = IF e.field = "components" THEN e.said.shape ELSE template.shape
    <2>1. Withdraws(e) \in BOOLEAN
      BY DEF Withdraws
    <2> DEFINE still == template.published /\ ~Withdraws(e)
    <2>2. still \in BOOLEAN
      BY <2>1
    <2>3. CASE e.field = "status"
      <3>1. template' = [[template EXCEPT !.status = e.said.status] EXCEPT !.published = still]
        BY <1>2, <2>3 DEF EventWrites, TemplateRows
      <3> HIDE DEF still
      <3>2. /\ template' \in TemplateRows /\ template'.gone = template.gone
            /\ template'.published = still /\ template'.status = e.said.status
            /\ template'.red = template.red /\ template'.shape = template.shape
        BY <1>2, <2>2, <3>1 DEF TemplateRows, Told
      <3> QED BY <2>3, <3>2 DEF still
    <2>4. CASE e.field = "quality"
      <3>1. template' = [[template EXCEPT !.red = e.said.red] EXCEPT !.published = still]
        BY <1>2, <2>4 DEF EventWrites, TemplateRows
      <3> HIDE DEF still
      <3>2. /\ template' \in TemplateRows /\ template'.gone = template.gone
            /\ template'.published = still /\ template'.status = template.status
            /\ template'.red = e.said.red /\ template'.shape = template.shape
        BY <1>2, <2>2, <3>1 DEF TemplateRows, Told
      <3> QED BY <2>4, <3>2 DEF still
    <2>5. CASE e.field = "components"
      <3>1. template' = [[template EXCEPT !.shape = e.said.shape, !.usable = TRUE]
                           EXCEPT !.published = still]
        BY <1>2, <2>5 DEF EventWrites, TemplateRows
      <3> HIDE DEF still
      <3>2. /\ template' \in TemplateRows /\ template'.gone = template.gone
            /\ template'.published = still /\ template'.status = template.status
            /\ template'.red = template.red /\ template'.shape = e.said.shape
        BY <1>2, <2>2, <3>1 DEF TemplateRows, Told
      <3> QED BY <2>5, <3>2 DEF still
    <2> QED BY <1>2, <2>3, <2>4, <2>5 DEF Fields
  <1>4. causes' = causes
          \union (IF template # e.copy THEN {"overlap"} ELSE {})
          \union (IF template'.published /\ template'.status = "PENDING"
                  THEN {"review"} ELSE {})
    BY DEF EventWrites
  <1>5. TemplatesTypes'
    <2>1. causes' \subseteq Causes
      BY <1>4 DEF TemplatesInv, TemplatesTypes, Causes
    <2>2. events' \subseteq Arrived \union Noticed
      BY DEF EventWrites, TemplatesInv, TemplatesTypes
    <2> QED BY <1>1, <1>3, <2>1, <2>2 DEF EventWrites, TemplatesInv, TemplatesTypes
  <1>6. Unborn'
    BY DEF EventWrites, TemplatesInv, Unborn
  <1>7. Offered'
    <2> SUFFICES ASSUME template'.published, ~Faults'
                 PROVE  template'.status = "APPROVED" /\ ~template'.red
      BY DEF Offered
    <2>1. template.published /\ ~Withdraws(e)
      BY <1>3
    <2>2. template = e.copy /\ template'.status # "PENDING"
      BY <1>4 DEF Faults
    <2>3. ~Faults
      BY <1>4 DEF Faults
    <2>4. template.status = "APPROVED" /\ ~template.red
      BY <2>1, <2>3 DEF TemplatesInv, Offered
    <2>5. /\ ~(e.field = "status" /\ e.said.status \in Degraded)
          /\ ~(e.field = "quality" /\ e.said.red)
      BY <2>1, <2>2 DEF Withdraws
    <2>6. e.said.status \in MetaStatuses
      BY <1>2 DEF Told
    <2> QED BY <1>3, <2>2, <2>4, <2>5, <2>6 DEF MetaStatuses, Degraded
  <1>8. Missing'
    <2>1. causes \subseteq causes'
      BY <1>4
    <2> QED BY <1>1, <1>3, <2>1 DEF EventWrites, TemplatesInv, Missing
  <1>9. Fits'
    <2>1. outgoing' = outgoing
      BY DEF EventWrites
    <2>2. Unfit => Unfit'
      BY <1>4 DEF Unfit
    <2>3. template'.published /\ ~Unfit' => template.published /\ template'.shape = template.shape
      <3>1. template # e.copy => Unfit'
        BY <1>4 DEF Unfit
      <3> QED BY <1>3, <3>1 DEF Withdraws
    <2> QED BY <2>1, <2>2, <2>3 DEF TemplatesInv, Fits
  <1> QED BY <1>1, <1>5, <1>6, <1>7, <1>8, <1>9 DEF TemplatesInv

\* What is submitted while a pass runs may be missed by it.
LEMMA SubmitKept ==
    ASSUME TemplatesInv, SubmitTemplate
    PROVE  TemplatesInv'
  <1>1. /\ sync' \in Syncs /\ sync'.step = sync.step
        /\ Walked' /\ Calm' /\ (Unseen' => Unseen)
    BY PassDisturbed DEF SubmitTemplate
  <1>2. PICK n \in Shapes, status \in {"PENDING", "APPROVED"} :
          meta' = [listed |-> TRUE, status |-> status, red |-> FALSE, shape |-> n]
    BY DEF SubmitTemplate
  <1>3. meta' \in Told /\ meta' \in Metas /\ meta'.status # "NONE"
    BY <1>2 DEF Told, Metas, MetaStatuses, Counts
  <1>4. ~template.published /\ ~template.gone
    BY DEF SubmitTemplate, TemplatesInv, Unborn, NoTemplate
  <1>5. TemplatesTypes'
    <2>1. adminCall' \in AdminCalls
      BY <1>3 DEF SubmitTemplate, AdminCalls
    <2>2. acts' \in Nat /\ causes' \subseteq Causes
      BY DEF SubmitTemplate, TemplatesInv, TemplatesTypes, Causes
    <2> QED BY <1>1, <1>3, <2>1, <2>2 DEF SubmitTemplate, TemplatesInv, TemplatesTypes
  <1>6. Unborn'
    BY <1>3 DEF Unborn
  <1>7. Offered' /\ Fits'
    <2>1. template' = template /\ outgoing' = outgoing /\ outgoing = NoMessage
      BY DEF SubmitTemplate, TemplatesInv, Unborn
    <2> QED BY <1>4, <2>1 DEF Offered, Fits, NoMessage
  <1>8. Missing'
    <2>1. Unseen => sync # NoSync
      BY DEF Unseen, NoSync, Walking, Disabling
    <2> QED BY <1>1, <1>4, <2>1 DEF SubmitTemplate, Missing
  <1> QED BY <1>1, <1>5, <1>6, <1>7, <1>8 DEF TemplatesInv

\* What is recorded is not offered yet.
LEMMA RecordKept ==
    ASSUME TemplatesInv, Record
    PROVE  TemplatesInv'
  <1>1. /\ sync' \in Syncs /\ sync'.step = sync.step
        /\ Walked' /\ Calm' /\ (Unseen' => Unseen)
    BY PassDisturbed DEF Record
  <1>2. adminCall.said \in Told
    <2>1. adminCall # NoAdminCall
      BY DEF Record, NoAdminCall
    <2>2. adminCall \in [step : {"created"}, said : Told]
      BY <2>1 DEF Record, TemplatesInv, TemplatesTypes, AdminCalls
    <2> QED BY <2>2
  <1>3. /\ template' \in TemplateRows
        /\ template' # template =>
             template = NoTemplate /\ ~template'.published /\ ~template'.gone
    <2>1. CASE template = NoTemplate
      <3>1. template' = [NoTemplate EXCEPT !.status = adminCall.said.status,
                           !.shape = adminCall.said.shape, !.usable = TRUE]
        BY <2>1 DEF Record
      <3>2. NoTemplate \in TemplateRows
        BY DEF NoTemplate, TemplateRows, Counts
      <3>3. template' \in TemplateRows /\ ~template'.published /\ ~template'.gone
        BY <1>2, <3>1, <3>2 DEF NoTemplate, TemplateRows, Told
      <3> QED BY <2>1, <3>3
    <2>2. CASE template # NoTemplate
      BY <2>2 DEF Record, TemplatesInv, TemplatesTypes
    <2> QED BY <2>1, <2>2
  <1>4. TemplatesTypes'
    BY <1>1, <1>3 DEF Record, TemplatesInv, TemplatesTypes, AdminCalls
  <1>5. Unborn'
    <2>1. meta.status # "NONE"
      BY DEF Record, TemplatesInv, Unborn, NoAdminCall
    <2> QED BY <2>1 DEF Record, Unborn
  <1>6. Offered' /\ Fits'
    BY <1>3 DEF Record, TemplatesInv, Offered, Faults, Fits, Unfit
  <1>7. Missing'
    BY <1>1, <1>3 DEF Record, TemplatesInv, Missing
  <1> QED BY <1>1, <1>4, <1>5, <1>6, <1>7 DEF TemplatesInv

\* The admin's request looks the row up.
LEMMA PublishReadsKept ==
    ASSUME TemplatesInv, PublishReads
    PROVE  TemplatesInv'
  <1>1. /\ sync' \in Syncs /\ sync'.step = sync.step
        /\ Walked' /\ Calm' /\ (Unseen' => Unseen)
    BY PassUndisturbed DEF PublishReads
  <1>2. TemplatesTypes'
    <2>1. adminCall' \in AdminCalls
      BY DEF PublishReads, AdminCalls, TemplatesInv, TemplatesTypes
    <2>2. acts' \in Nat
      BY DEF PublishReads, TemplatesInv, TemplatesTypes
    <2> QED BY <1>1, <2>1, <2>2 DEF PublishReads, TemplatesInv, TemplatesTypes
  <1>3. Unborn' /\ Offered' /\ Fits'
    BY DEF PublishReads, TemplatesInv, Unborn, Offered, Faults, Fits, Unfit
  <1>4. Missing'
    BY <1>1 DEF PublishReads, TemplatesInv, Missing
  <1> QED BY <1>1, <1>2, <1>3, <1>4 DEF TemplatesInv

\* What is put on offer was approved when it was read.
LEMMA PublishWritesKept ==
    ASSUME TemplatesInv, PublishWrites
    PROVE  TemplatesInv'
  <1>1. meta.status # "NONE" /\ adminCall.wanted \in BOOLEAN
    <2>1. adminCall # NoAdminCall
      BY DEF PublishWrites, NoAdminCall
    <2>2. adminCall \in [step : {"read"}, wanted : BOOLEAN, copy : TemplateRows]
      BY <2>1 DEF PublishWrites, TemplatesInv, TemplatesTypes, AdminCalls
    <2> QED BY <2>1, <2>2 DEF TemplatesInv, Unborn
  <1>2. CASE adminCall.wanted /\ PublishRefused(adminCall.copy)
    <2>1. /\ sync' \in Syncs /\ sync'.step = sync.step
          /\ Walked' /\ Calm' /\ (Unseen' => Unseen)
      BY <1>2, PassUndisturbed DEF PublishWrites
    <2>2. TemplatesTypes'
      BY <1>2, <2>1 DEF PublishWrites, TemplatesInv, TemplatesTypes, AdminCalls
    <2>3. Unborn' /\ Offered' /\ Fits'
      BY <1>1, <1>2 DEF PublishWrites, TemplatesInv, Unborn, Offered, Faults, Fits, Unfit
    <2>4. Missing'
      BY <1>2, <2>1 DEF PublishWrites, TemplatesInv, Missing
    <2> QED BY <2>1, <2>2, <2>3, <2>4 DEF TemplatesInv
  <1>3. CASE ~(adminCall.wanted /\ PublishRefused(adminCall.copy))
    <2>1. /\ template' = [template EXCEPT !.published = adminCall.wanted]
          /\ causes' = causes
               \union (IF template # adminCall.copy THEN {"overlap"} ELSE {})
               \union (IF adminCall.wanted /\ template.red THEN {"red"} ELSE {})
               \union (IF Misfit THEN {"reshaped"} ELSE {})
          /\ Written
          /\ meta' = meta /\ outgoing' = outgoing /\ home' = home
      BY <1>3 DEF PublishWrites
    <2>2. /\ sync' \in Syncs /\ sync'.step = sync.step
          /\ Walked' /\ Calm' /\ (Unseen' => Unseen)
      BY <2>1, PassDisturbed
    <2>3. /\ template' \in TemplateRows /\ template'.gone = template.gone
          /\ template'.published = adminCall.wanted /\ template'.status = template.status
          /\ template'.red = template.red /\ template'.shape = template.shape
      BY <1>1, <2>1 DEF TemplatesInv, TemplatesTypes, TemplateRows
    <2>4. TemplatesTypes'
      <3>1. causes' \subseteq Causes
        BY <2>1 DEF TemplatesInv, TemplatesTypes, Causes
      <3> QED BY <2>2, <2>3, <3>1 DEF PublishWrites, TemplatesInv, TemplatesTypes, AdminCalls
    <2>5. Unborn'
      BY <1>1, <2>1 DEF Unborn
    <2>6. Offered'
      <3> SUFFICES ASSUME template'.published, ~Faults'
                   PROVE  template'.status = "APPROVED" /\ ~template'.red
        BY DEF Offered
      <3>1. template = adminCall.copy /\ ~template.red
        BY <2>1, <2>3 DEF Faults
      <3> QED BY <1>3, <2>3, <3>1 DEF PublishRefused
    <2>7. Missing'
      BY <2>1, <2>2, <2>3 DEF TemplatesInv, Missing
    <2>8. Fits'
      <3>1. Unfit => Unfit'
        BY <2>1 DEF Unfit
      <3>2. Misfit => Unfit'
        BY <2>1 DEF Unfit
      <3> QED BY <2>1, <2>3, <3>1, <3>2 DEF TemplatesInv, Fits, Misfit
    <2> QED BY <2>2, <2>4, <2>5, <2>6, <2>7, <2>8 DEF TemplatesInv
  <1> QED BY <1>2, <1>3

\* A message takes the count of the row it was bound to.
LEMMA SendQueuesKept ==
    ASSUME TemplatesInv, SendQueues
    PROVE  TemplatesInv'
  <1>1. /\ sync' \in Syncs /\ sync'.step = sync.step
        /\ Walked' /\ Calm' /\ (Unseen' => Unseen)
    BY PassUndisturbed DEF SendQueues
  <1>2. outgoing' = [step |-> "queued", bound |-> template.shape] /\ outgoing' \in Bound
    BY DEF SendQueues, TemplatesInv, TemplatesTypes, TemplateRows, Bound
  <1>3. TemplatesTypes'
    <2>1. causes' \subseteq Causes
      BY DEF SendQueues, TemplatesInv, TemplatesTypes
    <2> QED BY <1>1, <1>2, <2>1 DEF SendQueues, TemplatesInv, TemplatesTypes
  <1>4. Unborn'
    BY DEF SendQueues, Sendable, TemplatesInv, Unborn, NoTemplate
  <1>5. Offered'
    BY DEF SendQueues, TemplatesInv, Offered, Faults
  <1>6. Missing'
    BY <1>1 DEF SendQueues, TemplatesInv, Missing
  <1>7. Fits'
    BY <1>2 DEF SendQueues, Fits
  <1> QED BY <1>1, <1>3, <1>4, <1>5, <1>6, <1>7 DEF TemplatesInv

\* A message leaves when its template is still on offer.
LEMMA SendLoadsKept ==
    ASSUME TemplatesInv, SendLoads
    PROVE  TemplatesInv'
  <1>1. /\ sync' \in Syncs /\ sync'.step = sync.step
        /\ Walked' /\ Calm' /\ (Unseen' => Unseen)
    BY PassUndisturbed DEF SendLoads
  <1>2. outgoing \in Bound
    BY MessageKinds DEF SendLoads, TemplatesInv, TemplatesTypes
  <1>3. /\ outgoing' \in Bound \union Leaving
        /\ \/ outgoing'.step = "denied"
           \/ /\ outgoing'.step = "out" /\ outgoing'.bound = outgoing.bound
              /\ outgoing'.spec = template.shape /\ template.published
    <2>1. CASE MaySend(template)
      <3>1. outgoing' = [step |-> "out", bound |-> outgoing.bound, spec |-> template.shape]
        BY <2>1 DEF SendLoads
      <3> QED BY <1>2, <2>1, <3>1 DEF MaySend, Sendable, Bound, Leaving, TemplatesInv,
                                      TemplatesTypes, TemplateRows
    <2>2. CASE ~MaySend(template)
      <3>1. outgoing' = [outgoing EXCEPT !.step = "denied"]
        BY <2>2 DEF SendLoads
      <3> QED BY <1>2, <3>1 DEF Bound
    <2> QED BY <2>1, <2>2
  <1>4. TemplatesTypes'
    BY <1>1, <1>3 DEF SendLoads, TemplatesInv, TemplatesTypes
  <1>5. Unborn'
    BY DEF SendLoads, TemplatesInv, Unborn, NoMessage
  <1>6. Offered'
    BY DEF SendLoads, TemplatesInv, Offered, Faults
  <1>7. Missing'
    BY <1>1 DEF SendLoads, TemplatesInv, Missing
  <1>8. Fits'
    <2>1. template.published => Unfit \/ outgoing.bound = template.shape
      BY DEF SendLoads, TemplatesInv, Fits
    <2>2. Unfit' <=> Unfit
      BY DEF SendLoads, Unfit
    <2> QED BY <1>3, <2>1, <2>2 DEF Fits
  <1> QED BY <1>1, <1>4, <1>5, <1>6, <1>7, <1>8 DEF TemplatesInv

\* What Meta refuses is taken from offer.
LEMMA AnsweredKept ==
    ASSUME TemplatesInv, SendAnswered
    PROVE  TemplatesInv'
  <1>1. /\ sync' \in Syncs /\ sync'.step = sync.step
        /\ Walked' /\ Calm' /\ (Unseen' => Unseen)
    <2>1. CASE UNCHANGED <<template, sync>>
      BY <2>1, PassUndisturbed DEF SendAnswered
    <2>2. CASE Written
      BY <2>2, PassDisturbed DEF SendAnswered
    <2> QED BY <2>1, <2>2 DEF SendAnswered
  <1>2. outgoing \in Leaving
    BY MessageKinds DEF SendAnswered, TemplatesInv, TemplatesTypes
  <1>3. outgoing' \in Leaving /\ outgoing'.step \in {"accepted", "refused"}
    BY <1>2 DEF SendAnswered, Leaving
  <1>4. /\ template' \in TemplateRows /\ template'.gone = template.gone
        /\ template' = template \/ ~template'.published
    BY DEF SendAnswered, TemplatesInv, TemplatesTypes, TemplateRows
  <1>5. TemplatesTypes'
    BY <1>1, <1>3, <1>4 DEF SendAnswered, TemplatesInv, TemplatesTypes
  <1>6. Unborn'
    BY DEF SendAnswered, TemplatesInv, Unborn, NoMessage
  <1>7. Offered'
    BY <1>4 DEF SendAnswered, TemplatesInv, Offered, Faults
  <1>8. Missing'
    BY <1>1, <1>4 DEF SendAnswered, TemplatesInv, Missing
  <1>9. Fits'
    BY <1>3 DEF Fits
  <1> QED BY <1>1, <1>5, <1>6, <1>7, <1>8, <1>9 DEF TemplatesInv

\* A step that changes nothing here.
LEMMA TemplatesIdle ==
    ASSUME TemplatesInv, UNCHANGED templateVars
    PROVE  TemplatesInv'
  <1>1. Walked' /\ Calm' /\ (Unseen' => Unseen)
    BY PassUndisturbed DEF templateVars
  <1>2. TemplatesTypes'
    BY DEF templateVars, TemplatesInv, TemplatesTypes
  <1>3. Unborn' /\ Offered' /\ Fits'
    BY DEF templateVars, TemplatesInv, Unborn, Offered, Faults, Fits, Unfit
  <1>4. Missing'
    BY <1>1 DEF templateVars, TemplatesInv, Missing
  <1> QED BY <1>1, <1>2, <1>3, <1>4 DEF TemplatesInv

\* Every step keeps the invariant.
LEMMA TemplatesStep ==
    ASSUME TemplatesInv, [TemplatesNext]_templateVars
    PROVE  TemplatesInv'
  <1>1. CASE MetaReviews \/ MetaRates \/ MetaEdits \/ MetaDeletes
    BY <1>1, MetaKept
  <1>2. CASE SyncStart \/ SyncPage \/ SyncLooks \/ SyncUpserts \/ SyncFails
    BY <1>2, StartKept, PageKept, LooksKept, UpsertsKept, FailsKept
  <1>3. CASE SyncCompares \/ SyncDisables
    BY <1>3, ComparesKept, DisablesKept
  <1>4. ASSUME NEW e \in events, EventReads(e) \/ EventWrites(e)
        PROVE  TemplatesInv'
    BY <1>4, EventReadsKept, EventWritesKept
  <1>5. CASE SubmitTemplate \/ Record \/ PublishReads \/ PublishWrites
    BY <1>5, SubmitKept, RecordKept, PublishReadsKept, PublishWritesKept
  <1>6. CASE SendQueues \/ SendLoads \/ SendAnswered
    BY <1>6, SendQueuesKept, SendLoadsKept, AnsweredKept
  <1>7. CASE UNCHANGED templateVars
    BY <1>7, TemplatesIdle
  <1> QED BY <1>1, <1>2, <1>3, <1>4, <1>5, <1>6, <1>7 DEF TemplatesNext

\* The sync, the webhook's events, the admin and the sender write one row
\* (template-sync.ts, template-event.ts, template-submit.ts), each from a copy
\* it may have read long before; this is what their writes keep between them.
THEOREM TemplatesInvariant == TemplatesSpec => []TemplatesInv
  <1>1. TemplatesInit => TemplatesInv
    BY TemplatesStart
  <1>2. TemplatesInv /\ [TemplatesNext]_templateVars => TemplatesInv'
    BY TemplatesStep
  <1> QED BY <1>1, <1>2, PTL DEF TemplatesSpec

\* The row, the message and the history have their types.
THEOREM TemplatesAreTyped == TemplatesSpec => []TemplatesTypeOK
  <1>1. TemplatesInv => TemplatesTypeOK
    <2> SUFFICES ASSUME TemplatesInv
                 PROVE  TemplatesTypeOK
      OBVIOUS
    <2>1. template \in TemplateRows /\ causes \subseteq Causes
      BY DEF TemplatesInv, TemplatesTypes
    <2>2. outgoing.step \in {"none", "queued", "out", "denied", "accepted", "refused"}
      BY MessageKinds DEF TemplatesInv, TemplatesTypes
    <2> QED BY <2>1, <2>2 DEF TemplatesTypeOK, TemplateRows, Causes, Counts
  <1> QED BY <1>1, TemplatesInvariant, PTL

\* What the CRM offers is what Meta will take: nothing withdrawn stays on offer,
\* nothing is called gone that is there, no message leaves with another count of
\* parameters than its template has, and an undisturbed pass leaves the row as
\* Meta has it, but for the causes the history names.
THEOREM OfferedTemplatesAreSafe == TemplatesSpec => []TemplatesAreSafe
  <1>1. TemplatesInv => TemplatesAreSafe
    <2> SUFFICES ASSUME TemplatesInv
                 PROVE  TemplatesAreSafe
      OBVIOUS
    <2>1. FailsClosed
      BY DEF TemplatesInv, Offered, Faults, FailsClosed
    <2>2. GoneIsGone
      BY DEF TemplatesInv, Missing, GoneIsGone
    <2>3. SendFits
      BY DEF TemplatesInv, Fits, Unfit, SendFits
    <2>4. SyncSettles
      <3> SUFFICES ASSUME sync.step = "walked", sync.calm
                   PROVE  IF ~meta.listed THEN ~sync.seen
                          ELSE /\ <<template.status, template.red, template.shape>>
                                    = <<meta.status, meta.red, meta.shape>>
                               /\ template.published => meta.status = "APPROVED" /\ ~meta.red
        BY DEF SyncSettles
      <3>1. sync # NoSync
        BY DEF NoSync
      <3>2. /\ sync.seen => AsMeta
            /\ ~sync.seen => ~meta.listed \/ sync.page <= home
        BY <3>1 DEF TemplatesInv, Calm
      <3>3. ~(sync.page <= home)
        <4>1. sync.page = LastPage + 1 /\ home \in 1..LastPage /\ LastPage \in Nat
          BY TemplatesAssumption DEF TemplatesInv, TemplatesTypes, Walked
        <4> QED BY <4>1
      <3>4. sync.seen \in BOOLEAN
        <4>1. sync \in Walking
          BY SyncKinds DEF TemplatesInv, TemplatesTypes
        <4> QED BY <4>1 DEF Walking
      <3> QED BY <3>2, <3>3, <3>4 DEF AsMeta, ShouldUnpublish
    <2> QED BY <2>1, <2>2, <2>3, <2>4 DEF TemplatesAreSafe
  <1> QED BY <1>1, TemplatesInvariant, PTL
-----------------------------------------------------------------------------
(***************************************************************************)
(* ThreadPresses: the inductive invariant.                                 *)
(***************************************************************************)
Chips == [Reactors -> Emojis]
Plain == [step : {"none", "asked", "answering", "done"}]
Reacting == [step : {"asked", "queued", "done"}, who : Reactors, emoji : Emojis,
             previous : Emojis]
Applying == [step : {"read", "done"}, who : Reactors, emoji : Emojis, copy : Chips]

PressTypes ==
    /\ press \in {"unread", "reaction", "person"}
    /\ server \in [unread : {0, 1}, people : Nat, chips : Chips, meant : Chips]
    /\ view \in [unread : {0, 1}, matched : BOOLEAN, chips : Chips]
    /\ poll \in {NoPoll} \union [step : {"read"}, unread : {0, 1}, chips : Chips,
                                 matched : BOOLEAN]
    /\ request \in [Presses -> Plain \union Reacting \union Applying]
    /\ pending \in Emojis \union {Unpressed} /\ {guard, touched} \subseteq BOOLEAN
    /\ disturbances \in Nat /\ why \subseteq {"unseen", "overlap", "dropped", "race", "unshown"}

\* A call of one of the three is of its kind.
OfItsKind ==
    \A q \in Presses :
        /\ press # "reaction" => request[q] \in Plain
        /\ press = "reaction" =>
             /\ request[q].step = "none" \/ request[q] \in Reacting \union Applying
             /\ request[q].step = "asked" => request[q].who = "member"

\* The guard is up while the pane shows a count, and somebody zeroes it.
BadgeInv ==
    press = "unread" /\ guard =>
        /\ view.unread = 1
        /\ server.unread = 0 \/ "unseen" \in why \/ \E q \in Presses : request[q].step = "asked"

\* The member's one call has the chip, until it is written.
OfMember(q) == request[q].step \notin {"none", "done"} /\ request[q].who = "member"
ChipsInv ==
    press = "reaction" =>
        /\ "race" \notin why => server.chips = server.meant
        /\ why = {} =>
             /\ \A q, r \in Presses : OfMember(q) /\ OfMember(r) => q = r
             /\ \A q \in Presses : OfMember(q) =>
                  /\ pending \in {Unpressed, request[q].emoji}
                  /\ request[q].step = "asked" => request[q].previous = server.chips["member"]
             /\ (\A q \in Presses : ~OfMember(q)) =>
                  pending \in {Unpressed, server.chips["member"]}

\* The guard is up while a person is being created, and only one is.
PersonInv ==
    press = "person" =>
        /\ \A q \in Presses : request[q].step \in {"asked", "answering"} => guard
        /\ \A q, r \in Presses :
             {request[q].step, request[r].step} \subseteq {"asked", "answering"} => q = r
        /\ "unshown" \notin why =>
             /\ server.people <= 1
             /\ (\E q \in Presses : request[q].step = "asked") => server.people = 0
NobodyCreated == press # "person" => server.people = 0

PressInv ==
    PressTypes /\ OfItsKind /\ BadgeInv /\ ChipsInv /\ PersonInv /\ NobodyCreated

\* The step of a call says of which kind it is.
LEMMA PressKinds ==
    ASSUME PressInv, NEW q \in Presses
    PROVE  /\ request[q].step = "queued" => press = "reaction" /\ request[q] \in Reacting
           /\ request[q].step = "read" => press = "reaction" /\ request[q] \in Applying
           /\ request[q].step = "asked" /\ press = "reaction" =>
                request[q] \in Reacting /\ request[q].who = "member"
           /\ request[q].step = "answering" => press # "reaction"
           /\ press # "reaction" => request[q] \in Plain
  <1>1. /\ \A r \in Plain : r.step \in {"none", "asked", "answering", "done"}
        /\ \A r \in Reacting : r.step \in {"asked", "queued", "done"}
        /\ \A r \in Applying : r.step \in {"read", "done"}
    BY DEF Plain, Reacting, Applying
  <1> QED BY <1>1 DEF PressInv, OfItsKind

\* A call moves, and only that one.
LEMMA PressMoves ==
    ASSUME PressInv, NEW q \in Presses, NEW v \in Plain \union Reacting \union Applying,
           request' = [request EXCEPT ![q] = v]
    PROVE  /\ request' \in [Presses -> Plain \union Reacting \union Applying]
           /\ request'[q] = v /\ \A r \in Presses \ {q} : request'[r] = request[r]
  BY DEF PressInv, PressTypes

\* A call that ends is of the kind it was.
LEMMA PressEnds ==
    ASSUME PressInv, NEW q \in Presses, NEW s \in {"queued", "answering", "done"},
           s = "queued" => request[q] \in Reacting, s = "answering" => request[q] \in Plain
    PROVE  LET v == [request[q] EXCEPT !.step = s] IN
           /\ v.step = s /\ At(q, s) = [request EXCEPT ![q] = v]
           /\ v \in Plain \union Reacting \union Applying
           /\ request[q] \in Plain => v \in Plain
           /\ request[q] \in Reacting =>
                v \in Reacting /\ v.who = request[q].who /\ v.emoji = request[q].emoji
           /\ request[q] \in Reacting \union Applying => v \in Reacting \union Applying
  <1> DEFINE v == [request[q] EXCEPT !.step = s]
  <1>1. request[q] \in Plain \union Reacting \union Applying
    BY DEF PressInv, PressTypes
  <1>2. s # "queued" /\ request[q] \in Plain => v \in Plain /\ v.step = s
    BY DEF Plain
  <1>3. s # "answering" /\ request[q] \in Reacting =>
          v \in Reacting /\ v.who = request[q].who /\ v.emoji = request[q].emoji /\ v.step = s
    BY DEF Reacting
  <1>4. s = "done" /\ request[q] \in Applying => v \in Applying /\ v.step = s
    BY DEF Applying
  <1>5. s = "queued" => request[q] \notin Plain
    BY DEF Plain, Reacting
  <1>6. s = "answering" => request[q] \notin Reacting
    BY DEF Plain, Reacting
  <1>7. s # "done" => request[q] \notin Applying
    BY DEF Plain, Reacting, Applying
  <1>8. At(q, s) = [request EXCEPT ![q] = v]
    BY DEF PressInv, PressTypes, At
  <1> HIDE DEF v
  <1>9. /\ v.step = s /\ v \in Plain \union Reacting \union Applying
        /\ request[q] \in Plain => v \in Plain
        /\ request[q] \in Reacting =>
             v \in Reacting /\ v.who = request[q].who /\ v.emoji = request[q].emoji
        /\ request[q] \in Reacting \union Applying => v \in Reacting \union Applying
    BY <1>1, <1>2, <1>3, <1>4, <1>5, <1>6, <1>7
  <1> QED BY <1>8, <1>9 DEF v

\* An inbound message is unseen when no poll has seen the zero before it.
LEMMA InboundKept ==
    ASSUME PressInv, Inbound
    PROVE  PressInv'
  <1>1. /\ server' = [server EXCEPT !.unread = 1] /\ press = "unread"
        /\ why' = IF guard /\ server.unread = 0 /\ view.unread # 0
                  THEN why \union {"unseen"} ELSE why
        /\ UNCHANGED <<press, view, poll, request, guard, pending, touched>>
    BY DEF Inbound, Noted
  <1>2. PressTypes'
    <2>1. disturbances' \in Nat
      BY DEF Inbound, Disturbed, PressInv, PressTypes
    <2> QED BY <1>1, <2>1 DEF PressInv, PressTypes
  <1>3. OfItsKind'
    BY <1>1 DEF PressInv, OfItsKind
  <1>4. BadgeInv'
    BY <1>1 DEF PressInv, PressTypes, BadgeInv
  <1>5. ChipsInv' /\ PersonInv'
    BY <1>1 DEF ChipsInv, PersonInv
  <1>6. NobodyCreated'
    BY <1>1 DEF PressInv, PressTypes, NobodyCreated
  <1> QED BY <1>2, <1>3, <1>4, <1>5, <1>6 DEF PressInv

\* The count is zeroed, or the guard comes down.
LEMMA ZeroKept ==
    ASSUME PressInv, NEW q \in Presses, ZeroUnread(q)
    PROVE  PressInv'
  <1> DEFINE v == [request[q] EXCEPT !.step = "done"]
  <1>1. /\ press = "unread" /\ press' = press /\ request' = At(q, "done")
        /\ \/ server' = [server EXCEPT !.unread = 0] /\ guard' = guard
           \/ guard' = FALSE /\ server' = server
        /\ UNCHANGED <<view, poll, pending, touched, why>>
    BY DEF ZeroUnread
  <1>2. request[q] \in Plain
    BY <1>1, PressKinds
  <1>3. v \in Plain /\ request' = [request EXCEPT ![q] = v]
    BY <1>1, <1>2, PressEnds
  <1> HIDE DEF v
  <1>4. /\ request' \in [Presses -> Plain \union Reacting \union Applying]
        /\ request'[q] = v /\ \A r \in Presses \ {q} : request'[r] = request[r]
    BY <1>3, PressMoves
  <1>5. PressTypes'
    <2>1. disturbances' \in Nat
      BY DEF ZeroUnread, Disturbed, PressInv, PressTypes
    <2>2. server' \in [unread : {0, 1}, people : Nat, chips : Chips, meant : Chips]
      BY <1>1 DEF PressInv, PressTypes
    <2>3. guard' \in BOOLEAN
      BY <1>1 DEF PressInv, PressTypes
    <2> QED BY <1>1, <1>4, <2>1, <2>2, <2>3 DEF PressInv, PressTypes
  <1>6. OfItsKind'
    BY <1>1, <1>3, <1>4 DEF PressInv, OfItsKind
  <1>7. BadgeInv'
    <2>1. guard' => guard /\ server'.unread = 0
      BY <1>1 DEF PressInv, PressTypes
    <2> QED BY <1>1, <2>1 DEF PressInv, BadgeInv
  <1>8. ChipsInv' /\ PersonInv'
    BY <1>1 DEF ChipsInv, PersonInv
  <1>9. NobodyCreated'
    BY <1>1 DEF PressInv, PressTypes, NobodyCreated
  <1> QED BY <1>5, <1>6, <1>7, <1>8, <1>9 DEF PressInv

\* The card's row changes.
LEMMA TouchKept ==
    ASSUME PressInv, TouchCard
    PROVE  PressInv'
  <1>1. PressTypes'
    BY DEF TouchCard, Disturbed, PressInv, PressTypes
  <1>2. OfItsKind' /\ BadgeInv' /\ ChipsInv' /\ PersonInv' /\ NobodyCreated'
    BY DEF TouchCard, PressInv, OfItsKind, BadgeInv, ChipsInv, OfMember, PersonInv, NobodyCreated
  <1> QED BY <1>1, <1>2 DEF PressInv

\* A delta is read.
LEMMA PollReadsKept ==
    ASSUME PressInv, PollReads
    PROVE  PressInv'
  <1>1. PressTypes'
    <2>1. (IF touched THEN server.people > 0 ELSE view.matched) \in BOOLEAN
      <3>1. view.matched \in BOOLEAN /\ touched \in BOOLEAN
        BY DEF PressInv, PressTypes
      <3>2. (server.people > 0) \in BOOLEAN
        OBVIOUS
      <3> QED BY <3>1, <3>2, Zenon
    <2>2. server.unread \in {0, 1} /\ server.chips \in Chips
      BY DEF PressInv, PressTypes
    <2>3. poll' \in [step : {"read"}, unread : {0, 1}, chips : Chips, matched : BOOLEAN]
      <3> DEFINE m == IF touched THEN server.people > 0 ELSE view.matched
      <3>1. poll' = [step |-> "read", unread |-> server.unread, chips |-> server.chips,
                     matched |-> m]
        BY DEF PollReads
      <3>2. m \in BOOLEAN
        BY <2>1
      <3> HIDE DEF m
      <3> QED BY <2>2, <3>1, <3>2
    <2> QED BY <2>3 DEF PollReads, PressInv, PressTypes
  <1>2. OfItsKind' /\ BadgeInv' /\ ChipsInv' /\ PersonInv' /\ NobodyCreated'
    BY DEF PollReads, PressInv, OfItsKind, BadgeInv, ChipsInv, OfMember, PersonInv, NobodyCreated
  <1> QED BY <1>1, <1>2 DEF PressInv

\* A delta is shown: zero takes the guard down, a count puts it up with a call.
LEMMA PollArrivesKept ==
    ASSUME PressInv, PollArrives
    PROVE  PressInv'
  <1>1. /\ poll \in [step : {"read"}, unread : {0, 1}, chips : Chips, matched : BOOLEAN]
        /\ view' = [unread |-> poll.unread, chips |-> poll.chips, matched |-> poll.matched]
        /\ pending' = IF pending = poll.chips["member"] THEN Unpressed ELSE pending
        /\ poll' = NoPoll
        /\ UNCHANGED <<press, server, touched, disturbances, why>>
    BY DEF PollArrives, PressInv, PressTypes
  <1>2. view' \in [unread : {0, 1}, matched : BOOLEAN, chips : Chips] /\ view'.unread = poll.unread
    BY <1>1
  <1>3. CASE press # "unread"
    <2>1. guard' = guard /\ request' = request
      BY <1>3 DEF PollArrives
    <2>2. PressTypes'
      BY <1>1, <1>2, <2>1 DEF PressInv, PressTypes
    <2>3. OfItsKind' /\ BadgeInv' /\ PersonInv' /\ NobodyCreated'
      BY <1>1, <1>3, <2>1 DEF PressInv, OfItsKind, BadgeInv, PersonInv, NobodyCreated
    <2>4. ChipsInv'
      <3>1. pending' \in {pending, Unpressed}
        BY <1>1
      <3> QED BY <1>1, <2>1, <3>1 DEF PressInv, ChipsInv, OfMember
    <2> QED BY <2>2, <2>3, <2>4 DEF PressInv
  <1>4. CASE press = "unread" /\ (poll.unread = 0 \/ guard)
    <2>1. guard' = (guard /\ poll.unread # 0) /\ request' = request
      BY <1>4 DEF PollArrives, GuardAfter
    <2>2. PressTypes'
      BY <1>1, <1>2, <2>1 DEF PressInv, PressTypes
    <2>3. OfItsKind' /\ ChipsInv' /\ PersonInv' /\ NobodyCreated'
      BY <1>1, <1>4, <2>1 DEF PressInv, OfItsKind, ChipsInv, PersonInv, NobodyCreated
    <2>4. BadgeInv'
      BY <1>1, <1>2, <2>1 DEF PressInv, BadgeInv
    <2> QED BY <2>2, <2>3, <2>4 DEF PressInv
  <1>5. CASE press = "unread" /\ ~(poll.unread = 0 \/ guard)
    <2>1. PICK q \in Presses : /\ request[q].step = "none" /\ guard' = TRUE
                               /\ request' = [request EXCEPT ![q] = [step |-> "asked"]]
      BY <1>5 DEF PollArrives
    <2>2. [step |-> "asked"] \in Plain
      BY DEF Plain
    <2>3. /\ request' \in [Presses -> Plain \union Reacting \union Applying]
          /\ request'[q] = [step |-> "asked"] /\ \A r \in Presses \ {q} : request'[r] = request[r]
      BY <2>1, <2>2, PressMoves
    <2>4. PressTypes'
      BY <1>1, <1>2, <2>1, <2>3 DEF PressInv, PressTypes
    <2>5. OfItsKind'
      BY <1>1, <1>5, <2>2, <2>3 DEF PressInv, OfItsKind
    <2>6. ChipsInv' /\ PersonInv' /\ NobodyCreated'
      BY <1>1, <1>5 DEF PressInv, ChipsInv, PersonInv, NobodyCreated
    <2>7. BadgeInv'
      BY <1>1, <1>2, <1>5, <2>3 DEF BadgeInv
    <2> QED BY <2>4, <2>5, <2>6, <2>7 DEF PressInv
  <1> QED BY <1>3, <1>4, <1>5

\* A press on a reaction has the chip.
LEMMA ReactKept ==
    ASSUME PressInv, NEW q \in Presses, NEW emoji \in Emojis, React(q, emoji)
    PROVE  PressInv'
  <1> DEFINE v == [step |-> "asked", who |-> "member", emoji |-> emoji, previous |-> Displayed]
  <1>1. /\ press = "reaction" /\ request[q].step = "none"
        /\ request' = [request EXCEPT ![q] = v] /\ pending' = emoji
        /\ UNCHANGED <<press, server, view, poll, guard, touched, disturbances>>
    BY DEF React
  <1>2. Displayed \in Emojis
    BY DEF Displayed, PressInv, PressTypes, Chips, Reactors
  <1>3. v \in Reacting /\ v.step = "asked" /\ v.who = "member" /\ v.emoji = emoji
        /\ v.previous = Displayed
    BY <1>2 DEF Reacting, Reactors
  <1> HIDE DEF v
  <1>4. /\ request' \in [Presses -> Plain \union Reacting \union Applying]
        /\ request'[q] = v /\ \A r \in Presses \ {q} : request'[r] = request[r]
    BY <1>1, <1>3, PressMoves
  <1>5. PressTypes'
    <2>1. why' \subseteq {"unseen", "overlap", "dropped", "race", "unshown"}
      BY DEF React, Noted, PressInv, PressTypes
    <2> QED BY <1>1, <1>4, <2>1 DEF PressInv, PressTypes
  <1>6. OfItsKind'
    BY <1>1, <1>3, <1>4 DEF PressInv, OfItsKind
  <1>7. ChipsInv'
    <2>1. "race" \notin why' => server'.chips = server'.meant
      BY <1>1 DEF React, Noted, PressInv, ChipsInv
    <2>2. ASSUME why' = {}
          PROVE  /\ why = {} /\ Displayed = server.chips["member"]
                 /\ \A r \in Presses : ~OfMember(r)
      BY <2>2 DEF React, Noted, Underway, OfMember
    <2>3. ASSUME why' = {} PROVE \A r \in Presses : OfMember(r)' <=> r = q
      <3>1. OfMember(q)'
        BY <1>3, <1>4 DEF OfMember
      <3>2. \A r \in Presses \ {q} : ~OfMember(r)'
        BY <1>4, <2>2, <2>3 DEF OfMember
      <3> QED BY <3>1, <3>2
    <2> QED BY <1>1, <1>3, <1>4, <2>1, <2>2, <2>3 DEF ChipsInv
  <1>8. BadgeInv' /\ PersonInv' /\ NobodyCreated'
    BY <1>1 DEF PressInv, BadgeInv, PersonInv, NobodyCreated
  <1> QED BY <1>5, <1>6, <1>7, <1>8 DEF PressInv

\* The contact's reaction is nothing to the member's.
LEMMA ContactReactsKept ==
    ASSUME PressInv, NEW q \in Presses, NEW emoji \in Emojis, ContactReacts(q, emoji)
    PROVE  PressInv'
  <1> DEFINE v == [step |-> "queued", who |-> "contact", emoji |-> emoji, previous |-> ""]
  <1>1. /\ press = "reaction" /\ request[q].step = "none"
        /\ request' = [request EXCEPT ![q] = v]
        /\ UNCHANGED <<press, server, view, poll, guard, pending, touched>>
    BY DEF ContactReacts
  <1>2. v \in Reacting /\ v.step = "queued" /\ v.who = "contact"
    BY ThreadPressesAssumption DEF Reacting, Reactors
  <1> HIDE DEF v
  <1>3. /\ request' \in [Presses -> Plain \union Reacting \union Applying]
        /\ request'[q] = v /\ \A r \in Presses \ {q} : request'[r] = request[r]
    BY <1>1, <1>2, PressMoves
  <1>4. PressTypes'
    <2>1. why' \subseteq {"unseen", "overlap", "dropped", "race", "unshown"}
      BY DEF ContactReacts, Noted, PressInv, PressTypes
    <2>2. disturbances' \in Nat
      <3>1. disturbances \in Nat /\ disturbances' = disturbances + 1
        BY DEF ContactReacts, Disturbed, PressInv, PressTypes
      <3> QED BY <3>1
    <2> QED BY <1>1, <1>3, <2>1, <2>2 DEF PressInv, PressTypes
  <1>5. OfItsKind'
    BY <1>1, <1>2, <1>3 DEF PressInv, OfItsKind
  <1>6. ChipsInv'
    <2>1. \A r \in Presses : OfMember(r)' <=> OfMember(r)
      <3>1. ~OfMember(q) /\ ~OfMember(q)'
        BY <1>1, <1>2, <1>3 DEF OfMember
      <3>2. \A r \in Presses \ {q} : OfMember(r)' <=> OfMember(r)
        BY <1>3 DEF OfMember
      <3> QED BY <3>1, <3>2
    <2>2. why \subseteq why'
      BY DEF ContactReacts, Noted
    <2>3. ~OfMember(q)
      BY <1>1 DEF OfMember
    <2>4. /\ "race" \notin why' => server'.chips = server'.meant
          /\ \A r \in Presses : OfMember(r) => request'[r] = request[r]
          /\ pending' = pending /\ server' = server /\ (why' = {} => why = {})
      BY <1>1, <1>3, <2>2, <2>3 DEF PressInv, ChipsInv
    <2> QED BY <1>1, <2>1, <2>4 DEF PressInv, ChipsInv
  <1>7. BadgeInv' /\ PersonInv' /\ NobodyCreated'
    BY <1>1 DEF PressInv, BadgeInv, PersonInv, NobodyCreated
  <1> QED BY <1>4, <1>5, <1>6, <1>7 DEF PressInv

\* What is refused shows what it showed before.
LEMMA ReactionAnsweredKept ==
    ASSUME PressInv, NEW q \in Presses, ReactionAnswered(q)
    PROVE  PressInv'
  <1>1. /\ press = "reaction" /\ request[q].step = "asked"
        /\ UNCHANGED <<press, server, view, poll, guard, touched, why>>
    BY DEF ReactionAnswered
  <1>2. request[q] \in Reacting /\ request[q].who = "member" /\ OfMember(q)
        /\ request[q].previous \in Emojis
    <2>1. request[q] \in Reacting /\ request[q].who = "member"
      BY <1>1, PressKinds
    <2> QED BY <1>1, <2>1 DEF OfMember, Reacting
  <1>3. disturbances' \in Nat
    BY DEF ReactionAnswered, Disturbed, PressInv, PressTypes
  <1>4. ASSUME NEW s \in {"queued", "done"}, request' = At(q, s),
               pending' = IF s = "done" THEN request[q].previous ELSE pending
        PROVE  PressInv'
    <2> DEFINE v == [request[q] EXCEPT !.step = s]
    <2>1. /\ v.step = s /\ request' = [request EXCEPT ![q] = v] /\ v \in Reacting
          /\ v.who = "member" /\ v.emoji = request[q].emoji
      BY <1>2, <1>4, PressEnds
    <2> HIDE DEF v
    <2>2. /\ request' \in [Presses -> Plain \union Reacting \union Applying]
          /\ request'[q] = v /\ \A r \in Presses \ {q} : request'[r] = request[r]
      BY <2>1, PressMoves
    <2>3. PressTypes'
      BY <1>1, <1>2, <1>3, <1>4, <2>2 DEF PressInv, PressTypes
    <2>4. OfItsKind'
      BY <1>1, <1>4, <2>1, <2>2 DEF PressInv, OfItsKind
    <2>5. ChipsInv'
      <3>1. "race" \notin why' => server'.chips = server'.meant
        BY <1>1 DEF PressInv, ChipsInv
      <3> SUFFICES ASSUME why' = {}
                   PROVE  /\ \A p, r \in Presses : OfMember(p)' /\ OfMember(r)' => p = r
                          /\ \A r \in Presses : OfMember(r)' =>
                               /\ pending' \in {Unpressed, request'[r].emoji}
                               /\ request'[r].step = "asked" =>
                                    request'[r].previous = server'.chips["member"]
                          /\ (\A r \in Presses : ~OfMember(r)') =>
                               pending' \in {Unpressed, server'.chips["member"]}
        BY <3>1 DEF ChipsInv
      <3>2. /\ \A r \in Presses \ {q} : ~OfMember(r)
            /\ pending \in {Unpressed, request[q].emoji}
            /\ request[q].previous = server.chips["member"]
        BY <1>1, <1>2 DEF PressInv, ChipsInv
      <3>3. \A r \in Presses \ {q} : ~OfMember(r)'
        BY <2>2, <3>2 DEF OfMember
      <3>4. OfMember(q)' <=> s = "queued"
        BY <1>4, <2>1, <2>2 DEF OfMember
      <3> QED BY <1>1, <1>4, <2>1, <2>2, <3>2, <3>3, <3>4
    <2>6. BadgeInv' /\ PersonInv' /\ NobodyCreated'
      BY <1>1 DEF PressInv, BadgeInv, PersonInv, NobodyCreated
    <2> QED BY <2>3, <2>4, <2>5, <2>6 DEF PressInv
  <1>5. \/ request' = At(q, "queued") /\ pending' = pending
        \/ request' = At(q, "done") /\ pending' = request[q].previous
    BY DEF ReactionAnswered
  <1>6. CASE request' = At(q, "queued") /\ pending' = pending
    BY <1>4, <1>6
  <1>7. CASE request' = At(q, "done") /\ pending' = request[q].previous
    BY <1>4, <1>7
  <1> QED BY <1>5, <1>6, <1>7

\* A job that is not dropped has read the chips.
LEMMA ReactionReadKept ==
    ASSUME PressInv, NEW q \in Presses, ReactionRead(q)
    PROVE  PressInv'
  <1>1. /\ press = "reaction" /\ request[q] \in Reacting /\ request[q].step = "queued"
        /\ UNCHANGED <<press, server, view, poll, guard, pending, touched>>
    BY PressKinds DEF ReactionRead
  <1>2. BadgeInv' /\ PersonInv' /\ NobodyCreated'
    BY <1>1 DEF PressInv, BadgeInv, PersonInv, NobodyCreated
  <1>3. "race" \notin why' => server'.chips = server'.meant
    BY <1>1 DEF ReactionRead, Noted, PressInv, ChipsInv
  <1> DEFINE v == [step |-> "read", who |-> request[q].who, emoji |-> request[q].emoji,
                   copy |-> server.chips]
  <1>4. CASE request' = [request EXCEPT ![q] = v] /\ UNCHANGED <<disturbances, why>>
    <2>1. v \in Applying /\ v.step = "read" /\ v.who = request[q].who /\ v.emoji = request[q].emoji
      BY <1>1 DEF PressInv, PressTypes, Applying, Reacting
    <2> HIDE DEF v
    <2>2. /\ request' \in [Presses -> Plain \union Reacting \union Applying]
          /\ request'[q] = v /\ \A r \in Presses \ {q} : request'[r] = request[r]
      BY <1>4, <2>1, PressMoves
    <2>3. PressTypes'
      BY <1>1, <1>4, <2>2 DEF PressInv, PressTypes
    <2>4. OfItsKind'
      BY <1>1, <2>1, <2>2 DEF PressInv, OfItsKind
    <2>5. ChipsInv'
      <3>1. \A r \in Presses : /\ OfMember(r)' <=> OfMember(r)
                               /\ request'[r].emoji = request[r].emoji \/ ~OfMember(r)
                               /\ request'[r].step = "asked" => request'[r] = request[r]
        <4>1. \A r \in Presses \ {q} : OfMember(r)' <=> OfMember(r)
          BY <2>2 DEF OfMember
        <4>2. OfMember(q)' <=> OfMember(q)
          BY <1>1, <2>1, <2>2 DEF OfMember
        <4> QED BY <2>1, <2>2, <4>1, <4>2
      <3> QED BY <1>1, <1>3, <1>4, <3>1 DEF PressInv, ChipsInv
    <2> QED BY <1>2, <2>3, <2>4, <2>5 DEF PressInv
  <1>5. CASE Disturbed /\ request' = At(q, "done") /\ Noted("dropped", TRUE)
    <2> DEFINE w == [request[q] EXCEPT !.step = "done"]
    <2>1. /\ w.step = "done" /\ request' = [request EXCEPT ![q] = w] /\ w \in Reacting
      BY <1>1, <1>5, PressEnds
    <2> HIDE DEF w
    <2>2. /\ request' \in [Presses -> Plain \union Reacting \union Applying]
          /\ request'[q] = w /\ \A r \in Presses \ {q} : request'[r] = request[r]
      BY <2>1, PressMoves
    <2>3. PressTypes'
      <3>1. disturbances' \in Nat
        BY <1>5 DEF Disturbed, PressInv, PressTypes
      <3>2. why' \subseteq {"unseen", "overlap", "dropped", "race", "unshown"}
        BY <1>5 DEF Noted, PressInv, PressTypes
      <3> QED BY <1>1, <2>2, <3>1, <3>2 DEF PressInv, PressTypes
    <2>4. OfItsKind'
      BY <1>1, <2>1, <2>2 DEF PressInv, OfItsKind
    <2>5. ChipsInv'
      <3>1. why' # {}
        BY <1>5 DEF Noted
      <3> QED BY <1>3, <3>1 DEF ChipsInv
    <2> QED BY <1>2, <2>3, <2>4, <2>5 DEF PressInv
  <1> QED BY <1>4, <1>5 DEF ReactionRead, PressInv, PressTypes

\* Nobody wrote between the read and the write, or a race is noted.
LEMMA ReactionWrittenKept ==
    ASSUME PressInv, NEW q \in Presses, ReactionWritten(q)
    PROVE  PressInv'
  <1> DEFINE who == request[q].who
             emoji == request[q].emoji
             v == [request[q] EXCEPT !.step = "done"]
  <1>1. /\ press = "reaction" /\ request[q] \in Applying /\ request[q].step = "read"
        /\ UNCHANGED <<press, view, poll, guard, pending, touched, disturbances>>
        /\ why' = IF server.chips # request[q].copy THEN why \union {"race"} ELSE why
        /\ request' = At(q, "done")
    BY PressKinds DEF ReactionWritten, Noted
  <1>2. who \in Reactors /\ emoji \in Emojis /\ request[q].copy \in Chips
    BY <1>1 DEF Applying
  <1>3. /\ server' \in [unread : {0, 1}, people : Nat, chips : Chips, meant : Chips]
        /\ server'.chips = [request[q].copy EXCEPT ![who] = emoji]
        /\ server'.meant = [server.meant EXCEPT ![who] = emoji]
        /\ server'.unread = server.unread /\ server'.people = server.people
    <2> DEFINE chips == [request[q].copy EXCEPT ![who] = emoji]
               meant == [server.meant EXCEPT ![who] = emoji]
    <2>1. server \in [unread : {0, 1}, people : Nat, chips : Chips, meant : Chips]
      BY DEF PressInv, PressTypes
    <2>2. chips \in Chips /\ meant \in Chips
      BY <1>2, <2>1 DEF Chips
    <2>3. server' = [server EXCEPT !.chips = chips, !.meant = meant]
      BY <2>1 DEF ReactionWritten, ApplyReactionToList
    <2> HIDE DEF chips, meant
    <2>4. /\ server' \in [unread : {0, 1}, people : Nat, chips : Chips, meant : Chips]
          /\ server'.chips = chips /\ server'.meant = meant
          /\ server'.unread = server.unread /\ server'.people = server.people
      BY <2>1, <2>2, <2>3
    <2> QED BY <2>4 DEF chips, meant
  <1>4. v.step = "done" /\ request' = [request EXCEPT ![q] = v] /\ v \in Reacting \union Applying
    BY <1>1, PressEnds
  <1> HIDE DEF v
  <1>5. /\ request' \in [Presses -> Plain \union Reacting \union Applying]
        /\ request'[q] = v /\ \A r \in Presses \ {q} : request'[r] = request[r]
    BY <1>4, PressMoves
  <1>6. PressTypes'
    <2>1. why' \subseteq {"unseen", "overlap", "dropped", "race", "unshown"}
      BY <1>1 DEF PressInv, PressTypes
    <2> QED BY <1>1, <1>3, <1>5, <2>1 DEF PressInv, PressTypes
  <1>7. OfItsKind'
    BY <1>1, <1>4, <1>5 DEF PressInv, OfItsKind
  <1>8. BadgeInv' /\ PersonInv' /\ NobodyCreated'
    BY <1>1, <1>3 DEF PressInv, BadgeInv, PersonInv, NobodyCreated
  <1>9. ChipsInv'
    <2>1. "race" \notin why' => server'.chips = server'.meant
      BY <1>1, <1>3 DEF PressInv, ChipsInv
    <2> SUFFICES ASSUME why' = {}
                 PROVE  /\ \A p, r \in Presses : OfMember(p)' /\ OfMember(r)' => p = r
                        /\ \A r \in Presses : OfMember(r)' =>
                             /\ pending' \in {Unpressed, request'[r].emoji}
                             /\ request'[r].step = "asked" =>
                                  request'[r].previous = server'.chips["member"]
                        /\ (\A r \in Presses : ~OfMember(r)') =>
                             pending' \in {Unpressed, server'.chips["member"]}
      BY <2>1 DEF ChipsInv
    <2>2. why = {} /\ server.chips = request[q].copy /\ server.chips \in Chips
      BY <1>1 DEF PressInv, PressTypes
    <2>3. ~OfMember(q)' /\ \A r \in Presses \ {q} : OfMember(r)' <=> OfMember(r)
      BY <1>4, <1>5 DEF OfMember
    <2>4. CASE who = "member"
      <3>1. OfMember(q)
        BY <1>1, <2>4 DEF OfMember
      <3>2. pending \in {Unpressed, emoji} /\ \A r \in Presses \ {q} : ~OfMember(r)
        BY <1>1, <2>2, <3>1 DEF PressInv, ChipsInv
      <3>3. server'.chips["member"] = emoji
        BY <1>2, <1>3, <2>4 DEF Chips
      <3>4. \A r \in Presses : ~OfMember(r)'
        BY <2>3, <3>2
      <3> QED BY <1>1, <3>2, <3>3, <3>4
    <2>5. CASE who # "member"
      <3>1. ~OfMember(q)
        BY <2>5 DEF OfMember
      <3>2. server'.chips["member"] = server.chips["member"]
        BY <1>2, <1>3, <2>2, <2>5 DEF Chips, Reactors
      <3>3. \A r \in Presses : /\ OfMember(r)' <=> OfMember(r)
                               /\ OfMember(r)' => request'[r] = request[r]
        BY <1>5, <2>3, <3>1
      <3> QED BY <1>1, <2>2, <3>2, <3>3 DEF PressInv, ChipsInv
    <2> QED BY <2>4, <2>5
  <1> QED BY <1>6, <1>7, <1>8, <1>9 DEF PressInv

\* A press that puts the guard up.
LEMMA CreatePersonKept ==
    ASSUME PressInv, NEW q \in Presses, CreatePerson(q)
    PROVE  PressInv'
  <1>1. /\ press = "person" /\ ~guard /\ guard' = TRUE
        /\ request' = [request EXCEPT ![q] = [step |-> "asked"]]
        /\ why' = IF server.people > 0 THEN why \union {"unshown"} ELSE why
        /\ UNCHANGED <<press, server, view, poll, pending, touched, disturbances>>
    BY DEF CreatePerson, MayCreate, Noted
  <1>2. [step |-> "asked"] \in Plain
    BY DEF Plain
  <1>3. /\ request' \in [Presses -> Plain \union Reacting \union Applying]
        /\ request'[q] = [step |-> "asked"] /\ \A r \in Presses \ {q} : request'[r] = request[r]
    BY <1>1, <1>2, PressMoves
  <1>4. PressTypes'
    <2>1. why' \subseteq {"unseen", "overlap", "dropped", "race", "unshown"}
      BY <1>1 DEF PressInv, PressTypes
    <2> QED BY <1>1, <1>3, <2>1 DEF PressInv, PressTypes
  <1>5. OfItsKind'
    BY <1>1, <1>2, <1>3 DEF PressInv, OfItsKind
  <1>6. BadgeInv' /\ ChipsInv' /\ NobodyCreated'
    BY <1>1 DEF BadgeInv, ChipsInv, NobodyCreated
  <1>7. PersonInv'
    <2>1. \A r \in Presses : request[r].step \notin {"asked", "answering"}
      BY <1>1 DEF PressInv, PersonInv
    <2>2. \A r \in Presses : request'[r].step \in {"asked", "answering"} => r = q
      BY <1>3, <2>1
    <2>3. "unshown" \notin why' => server'.people = 0
      BY <1>1 DEF PressInv, PressTypes
    <2> QED BY <1>1, <2>2, <2>3 DEF PersonInv
  <1> QED BY <1>4, <1>5, <1>6, <1>7 DEF PressInv

\* The route creates a person, or fails.
LEMMA PersonCreatedKept ==
    ASSUME PressInv, NEW q \in Presses, PersonCreated(q)
    PROVE  PressInv'
  <1> DEFINE v == [request[q] EXCEPT !.step = "answering"]
  <1>1. /\ press = "person" /\ request[q].step = "asked"
        /\ server' = [server EXCEPT !.people = server.people + 1] \/ server' = server
        /\ request' = At(q, "answering")
        /\ UNCHANGED <<press, view, poll, guard, pending, touched, why>>
    BY DEF PersonCreated
  <1>2. request[q] \in Plain
    BY <1>1, PressKinds
  <1>3. v \in Plain /\ v.step = "answering" /\ request' = [request EXCEPT ![q] = v]
    BY <1>1, <1>2, PressEnds
  <1> HIDE DEF v
  <1>4. /\ request' \in [Presses -> Plain \union Reacting \union Applying]
        /\ request'[q] = v /\ \A r \in Presses \ {q} : request'[r] = request[r]
    BY <1>3, PressMoves
  <1>5. /\ server' \in [unread : {0, 1}, people : Nat, chips : Chips, meant : Chips]
        /\ server'.people \in {server.people, server.people + 1}
    BY <1>1 DEF PressInv, PressTypes
  <1>6. PressTypes'
    <2>1. disturbances' \in Nat
      BY DEF PersonCreated, Disturbed, PressInv, PressTypes
    <2> QED BY <1>1, <1>4, <1>5, <2>1 DEF PressInv, PressTypes
  <1>7. OfItsKind'
    BY <1>1, <1>3, <1>4 DEF PressInv, OfItsKind
  <1>8. BadgeInv' /\ ChipsInv' /\ NobodyCreated'
    BY <1>1 DEF BadgeInv, ChipsInv, NobodyCreated
  <1>9. PersonInv'
    <2>1. \A r \in Presses :
            request'[r].step \in {"asked", "answering"}
              <=> request[r].step \in {"asked", "answering"}
      BY <1>1, <1>3, <1>4
    <2>2. \A r \in Presses : request'[r].step # "asked"
      <3>1. \A r \in Presses \ {q} : request[r].step # "asked"
        BY <1>1 DEF PressInv, PersonInv
      <3> QED BY <1>3, <1>4, <3>1
    <2>3. "unshown" \notin why' => server'.people <= 1
      <3>1. "unshown" \notin why => server.people = 0
        BY <1>1 DEF PressInv, PersonInv
      <3> QED BY <1>1, <1>5, <3>1
    <2>4. guard' = guard /\ press = "person"
      BY <1>1
    <2>5. /\ \A r \in Presses : request'[r].step \in {"asked", "answering"} => guard'
          /\ \A p, r \in Presses :
               {request'[p].step, request'[r].step} \subseteq {"asked", "answering"} => p = r
      BY <2>1, <2>4 DEF PressInv, PersonInv
    <2> QED BY <2>2, <2>3, <2>5 DEF PersonInv
  <1> QED BY <1>6, <1>7, <1>8, <1>9 DEF PressInv

\* The guard comes down when the one call is over.
LEMMA CreateSettledKept ==
    ASSUME PressInv, NEW q \in Presses, CreateSettled(q)
    PROVE  PressInv'
  <1> DEFINE v == [request[q] EXCEPT !.step = "done"]
  <1>1. /\ press # "reaction" /\ request[q].step = "answering" /\ request[q] \in Plain
        /\ guard' = FALSE /\ request' = At(q, "done")
        /\ UNCHANGED <<press, server, view, poll, pending, touched, disturbances, why>>
    BY PressKinds DEF CreateSettled
  <1>2. v \in Plain /\ v.step = "done" /\ request' = [request EXCEPT ![q] = v]
    BY <1>1, PressEnds
  <1> HIDE DEF v
  <1>3. /\ request' \in [Presses -> Plain \union Reacting \union Applying]
        /\ request'[q] = v /\ \A r \in Presses \ {q} : request'[r] = request[r]
    BY <1>2, PressMoves
  <1>4. PressTypes'
    BY <1>1, <1>3 DEF PressInv, PressTypes
  <1>5. OfItsKind'
    BY <1>1, <1>2, <1>3 DEF PressInv, OfItsKind
  <1>6. BadgeInv' /\ ChipsInv' /\ NobodyCreated'
    BY <1>1 DEF PressInv, BadgeInv, ChipsInv, NobodyCreated
  <1>7. PersonInv'
    <2>1. ASSUME press = "person"
          PROVE  \A r \in Presses : request'[r].step \notin {"asked", "answering"}
      <3>1. \A r \in Presses \ {q} : request[r].step \notin {"asked", "answering"}
        BY <1>1, <2>1 DEF PressInv, PersonInv
      <3> QED BY <1>2, <1>3, <3>1
    <2> QED BY <1>1, <2>1 DEF PressInv, PersonInv
  <1> QED BY <1>4, <1>5, <1>6, <1>7 DEF PressInv

\* A step that changes nothing here.
LEMMA PressIdle ==
    ASSUME PressInv, UNCHANGED pressVars
    PROVE  PressInv'
  <1>1. PressTypes'
    BY DEF pressVars, PressInv, PressTypes
  <1>2. OfItsKind' /\ BadgeInv' /\ ChipsInv' /\ PersonInv' /\ NobodyCreated'
    BY DEF pressVars, PressInv, OfItsKind, BadgeInv, ChipsInv, OfMember, PersonInv, NobodyCreated
  <1> QED BY <1>1, <1>2 DEF PressInv

\* The invariant holds before anything is pressed.
LEMMA PressStart ==
    ASSUME PressInit
    PROVE  PressInv
  <1>1. [r \in Reactors |-> ""] \in Chips
    BY ThreadPressesAssumption DEF Chips
  <1>2. \A q \in Presses : request[q] = [step |-> "none"]
    BY DEF PressInit
  <1>3. [step |-> "none"] \in Plain
    BY DEF Plain
  <1>4. PressTypes
    <2>1. server \in [unread : {0, 1}, people : Nat, chips : Chips, meant : Chips]
      BY <1>1 DEF PressInit
    <2>2. view \in [unread : {0, 1}, matched : BOOLEAN, chips : Chips]
      BY <1>1 DEF PressInit
    <2>3. request \in [Presses -> Plain \union Reacting \union Applying]
      BY <1>3 DEF PressInit
    <2>4. /\ press \in {"unread", "reaction", "person"} /\ poll = NoPoll /\ guard = FALSE
          /\ touched = FALSE /\ pending = Unpressed /\ disturbances = 0 /\ why = {}
      BY DEF PressInit
    <2> QED BY <2>1, <2>2, <2>3, <2>4 DEF PressTypes
  <1>5. OfItsKind
    <2>1. [step |-> "none"].step = "none"
      OBVIOUS
    <2>2. \A q \in Presses : request[q].step = "none" /\ request[q] \in Plain
      BY <1>2, <1>3, <2>1, Zenon
    <2> QED BY <2>2 DEF OfItsKind
  <1>6. BadgeInv /\ PersonInv /\ NobodyCreated
    <2>1. guard = FALSE /\ server.people = 0
      BY DEF PressInit
    <2> QED BY <1>2, <2>1 DEF BadgeInv, PersonInv, NobodyCreated
  <1>7. ChipsInv
    BY <1>2 DEF PressInit, ChipsInv, OfMember
  <1> QED BY <1>4, <1>5, <1>6, <1>7 DEF PressInv

\* A rep's presses (thread actions, MessageBubble, ContactCard) are shown at
\* once or guarded until a poll confirms them; this is what keeps the three
\* guards and the store together while polls, jobs and refusals overlap.
THEOREM PressInvariant == PressSpec => []PressInv
  <1>1. PressInit => PressInv
    BY PressStart
  <1>2. PressInv /\ [PressNext]_pressVars => PressInv'
    <2> SUFFICES ASSUME PressInv, [PressNext]_pressVars
                 PROVE  PressInv'
      OBVIOUS
    <2>1. CASE Inbound \/ TouchCard \/ PollReads \/ PollArrives
      BY <2>1, InboundKept, TouchKept, PollReadsKept, PollArrivesKept
    <2>2. ASSUME NEW q \in Presses,
                 \/ ZeroUnread(q) \/ ReactionAnswered(q) \/ ReactionRead(q) \/ ReactionWritten(q)
                 \/ CreatePerson(q) \/ PersonCreated(q) \/ CreateSettled(q)
          PROVE  PressInv'
      BY <2>2, ZeroKept, ReactionAnsweredKept, ReactionReadKept, ReactionWrittenKept,
         CreatePersonKept, PersonCreatedKept, CreateSettledKept
    <2>3. ASSUME NEW q \in Presses, NEW emoji \in Emojis,
                 React(q, emoji) \/ ContactReacts(q, emoji)
          PROVE  PressInv'
      BY <2>3, ReactKept, ContactReactsKept
    <2>4. CASE UNCHANGED pressVars
      BY <2>4, PressIdle
    <2> QED BY <2>1, <2>2, <2>3, <2>4 DEF PressNext
  <1> QED BY <1>1, <1>2, PTL DEF PressSpec

\* What the store and the pane hold has its type.
THEOREM PressesAreTyped == PressSpec => []PressTypeOK
  <1>1. PressInv => PressTypeOK
    BY DEF PressInv, PressTypes, PressTypeOK, Chips
  <1> QED BY <1>1, PressInvariant, PTL

\* What was pressed is what the store holds and what the pane shows, once
\* nothing is under way, but for the causes the history names; and a second
\* person is made of a card only where the first was not shown.
THEOREM PressesCorrect == PressSpec => []PressesAreTrue
  <1>1. PressInv => PressesAreTrue
    <2> SUFFICES ASSUME PressInv
                 PROVE  PressesAreTrue
      OBVIOUS
    <2>1. Underway = {} => \A q \in Presses : request[q].step # "asked" /\ ~OfMember(q)
      BY DEF Underway, OfMember
    <2>2. BadgeIsCleared
      BY <2>1 DEF PressInv, BadgeInv, BadgeIsCleared, Settled
    <2>3. ChipsAreTrue
      <3> SUFFICES ASSUME press = "reaction", Settled, why = {}
                   PROVE  server.chips = server.meant /\ Displayed = server.chips["member"]
        BY DEF ChipsAreTrue
      <3>1. server.chips = server.meant /\ pending \in {Unpressed, server.chips["member"]}
        BY <2>1 DEF PressInv, ChipsInv, Settled
      <3> QED BY <3>1 DEF Displayed, Settled
    <2>4. OnePersonPerCard
      <3>1. "unshown" \notin why => server.people <= 1
        <4>1. CASE press = "person"
          BY <4>1 DEF PressInv, PersonInv
        <4>2. CASE press # "person"
          BY <4>2 DEF PressInv, NobodyCreated
        <4> QED BY <4>1, <4>2
      <3>2. server.people \in Nat
        BY DEF PressInv, PressTypes
      <3> QED BY <3>1, <3>2 DEF OnePersonPerCard
    <2> QED BY <2>2, <2>3, <2>4 DEF PressesAreTrue
  <1> QED BY <1>1, PressInvariant, PTL
-----------------------------------------------------------------------------
(***************************************************************************)
(* ConversationPane: the inductive invariant.                              *)
(***************************************************************************)
Clocks == 0..MaxClock
PaneRow == [home : Conversations, status : Stored, stamp : Clocks]
Outcomes == {"none", "sent", "checked", "denied", "accepted", "broken"}
Posted == [step : {"waiting", "done"}, home : Conversations, from : Conversations,
           again : Sends \union {None}, first : Outcomes \ {"none"}, second : Outcomes]
Asking == [step : {"asked"}, home : Conversations, since : -1..MaxClock, isVoid : BOOLEAN]
Clocked == [step : {"clocked"}, home : Conversations, since : -1..MaxClock, isVoid : BOOLEAN,
            now : Clocks]
Answering == [step : {"answered"}, isVoid : BOOLEAN, home : Conversations, isDelta : BOOLEAN,
              nextSince : Clocks, bubbles : SUBSET Bubble]

PaneTypes ==
    /\ clock \in Clocks
    /\ rows \in [Texts -> {NoRow} \union PaneRow]
    /\ shown \in Conversations
    /\ pane \in [home : Conversations \union {None}, since : -1..MaxClock, bubbles : SUBSET Bubble]
    /\ Loaded => pane.home \in Conversations
    /\ feedCall \in {NoCall} \union Asking \union Clocked \union Answering
    /\ post \in [Sends -> {Unsent} \union Posted]
    /\ {isSending, crossed} \subseteq BOOLEAN
    /\ upsets \in Nat /\ late \subseteq Texts /\ doubtful \subseteq Sends

\* No stamp and no cursor is ahead of the clock.
Timely ==
    /\ pane.since <= clock
    /\ \A m \in Texts : rows[m] # NoRow => rows[m].stamp <= clock
    /\ feedCall.step \in {"asked", "clocked"} => feedCall.since <= clock
    /\ feedCall.step = "clocked" => feedCall.now <= clock
    /\ feedCall.step = "answered" => feedCall.nextSince <= clock

\* A call that counts is for the conversation shown, and from its cursor.
Live == feedCall # NoCall /\ ~feedCall.isVoid
Aimed ==
    /\ ~crossed /\ Loaded => pane.home = shown
    /\ ~crossed /\ Live => feedCall.home = shown
    /\ Live /\ feedCall.step \in {"asked", "clocked"} => feedCall.since = pane.since
    /\ Live /\ feedCall.step = "answered" => (feedCall.isDelta <=> Loaded)

\* What an answer passes over it has as it is, or the pane had it before.
AsStored(m) == [m |-> m, status |-> rows[m].status]
PassedOver ==
    Live /\ feedCall.step = "answered" =>
        \A m \in Rows(feedCall.home) \ late :
            rows[m].stamp < feedCall.nextSince =>
                \/ AsStored(m) \in feedCall.bubbles
                \/ rows[m].stamp < pane.since /\ \A c \in feedCall.bubbles : c.m # m
Once(bubbles) == \A b, c \in bubbles : b.m = c.m => b = c

\* A bubble with a row has the conversation of it, and a failure is final.
OfRow(b) ==
    /\ b.status \in Stored /\ rows[b.m] # NoRow
    /\ b.m \in Sends /\ b.status = "FAILED" => rows[b.m].status = "FAILED"
AnswerHolds ==
    feedCall.step = "answered" =>
        /\ Once(feedCall.bubbles)
        /\ \A b \in feedCall.bubbles : OfRow(b) /\ rows[b.m].home = feedCall.home

\* Neither of its requests can store it any more.
NeverStored(t) ==
    /\ post[t] # Unsent /\ post[t].step = "done" /\ post[t].second = "none"
    /\ post[t].first \in {"denied", "broken"}
Unstored(b) ==
    /\ b.m \in Sends /\ post[b.m] # Unsent
    /\ crossed \/ post[b.m].home = shown
    /\ b.status = "LOCAL" => post[b.m].step = "waiting" \/ rows[b.m] # NoRow
    /\ b.status = "REFUSED" => b.m \in doubtful \/ NeverStored(b.m)
PaneHolds ==
    /\ Once(pane.bubbles)
    /\ \A b \in pane.bubbles :
         IF b.status \in Local THEN Unstored(b)
         ELSE OfRow(b) /\ (crossed \/ rows[b.m].home = shown)

\* A row is stored by a request that is answered so; a second one that does
\* not agree with the first is doubtful.
PostHolds ==
    \A t \in Sends :
        /\ rows[t] # NoRow <=> post[t].first = "accepted" \/ post[t].second = "accepted"
        /\ post[t].second \in {"denied", "broken"} => t \in doubtful
        /\ post[t].second # "none" /\ post[t].first \in {"denied", "broken"} => t \in doubtful
        /\ post[t].again # None =>
             LET of == post[t].again IN
             of \in doubtful \/ NeverStored(of) \/ (rows[of] # NoRow /\ rows[of].status = "FAILED")

PaneInv ==
    /\ PaneTypes /\ Timely /\ Aimed /\ PassedOver /\ AnswerHolds /\ PaneHolds /\ PostHolds
    /\ NothingIsMissed /\ ComposerIsFreed

\* A set of times has a latest.
LEMMA LatestIsOne ==
    ASSUME NEW times \in SUBSET Clocks, times # {}
    PROVE  Max(times) \in times
  <1> USE ConversationPaneAssumption
  <1> DEFINE gaps == {MaxClock - x : x \in times}
  <1>1. gaps \subseteq Nat /\ gaps # {}
    <2>1. \A x \in times : MaxClock - x \in Nat
      BY DEF Clocks
    <2>2. PICK x \in times : TRUE
      OBVIOUS
    <2>3. MaxClock - x \in gaps
      OBVIOUS
    <2> QED BY <2>1, <2>3
  <1> HIDE DEF gaps
  <1>2. PICK g \in gaps : \A h \in gaps : g <= h
    <2> DEFINE less == {ss \in Nat \X Nat : ss[1] < ss[2]}
    <2>1. IsWellFoundedOn(less, Nat)
      BY NatLessThanWellFounded DEF OpToRel
    <2>2. \A g, h \in Nat : <<h, g>> \notin less => g <= h
      OBVIOUS
    <2> HIDE DEF less
    <2>3. \E g \in gaps : \A h \in gaps : ~(<<h, g>> \in less)
      BY <1>1, <2>1, WFMin
    <2> QED BY <1>1, <2>2, <2>3
  <1>3. PICK x \in times : g = MaxClock - x
    BY <1>2 DEF gaps
  <1>4. \A y \in times : x >= y
    BY <1>2, <1>3 DEF gaps, Clocks
  <1> QED BY <1>4 DEF Max

\* The step of a call says what it carries.
LEMMA FeedCallKinds ==
    ASSUME feedCall \in {NoCall} \union Asking \union Clocked \union Answering
    PROVE  /\ feedCall.step = "idle" <=> feedCall = NoCall
           /\ feedCall.step = "asked" <=> feedCall \in Asking
           /\ feedCall.step = "clocked" <=> feedCall \in Clocked
           /\ feedCall.step = "answered" <=> feedCall \in Answering
           /\ feedCall.step \in {"idle", "asked", "clocked", "answered"}
  <1>1. NoCall.step = "idle"
    BY DEF NoCall
  <1>2. \A c \in Asking : c.step = "asked"
    BY DEF Asking
  <1>3. \A c \in Clocked : c.step = "clocked"
    BY DEF Clocked
  <1>4. \A c \in Answering : c.step = "answered"
    BY DEF Answering
  <1> QED BY <1>1, <1>2, <1>3, <1>4

\* What is stored has a conversation, what is not stored has none.
LEMMA RowsAreKnown ==
    ASSUME PaneTypes, NEW m \in Texts
    PROVE  /\ rows[m] = NoRow \/ rows[m] \in PaneRow
           /\ rows[m] \in PaneRow =>
                /\ rows[m].home \in Conversations /\ rows[m].stamp \in Clocks
                /\ rows[m].status \in Stored
           /\ NoRow.home \notin Conversations
           /\ \A c \in Conversations : m \in Rows(c) <=> rows[m] # NoRow /\ rows[m].home = c
  <1> USE ConversationPaneAssumption
  <1>1. rows[m] = NoRow \/ rows[m] \in PaneRow
    BY DEF PaneTypes
  <1>2. NoRow.home \notin Conversations
    BY DEF NoRow
  <1>3. rows[m] \in PaneRow =>
          /\ rows[m].home \in Conversations /\ rows[m].stamp \in Clocks
          /\ rows[m].status \in Stored
    BY DEF PaneRow
  <1>4. \A c \in Conversations : m \in Rows(c) <=> rows[m] # NoRow /\ rows[m].home = c
    BY <1>1, <1>2, <1>3 DEF Rows
  <1> QED BY <1>1, <1>2, <1>3, <1>4

\* A token that was used has its two requests.
LEMMA PostsAreKnown ==
    ASSUME PaneTypes, NEW t \in Sends
    PROVE  /\ post[t] = Unsent \/ post[t] \in Posted
           /\ post[t] = Unsent <=> post[t].step = "unsent"
           /\ post[t] = Unsent =>
                post[t].first = "none" /\ post[t].second = "none" /\ post[t].again = None
           /\ post[t] \in Posted =>
                /\ post[t].step \in {"waiting", "done"} /\ post[t].home \in Conversations
                /\ post[t].from \in Conversations /\ post[t].again \in Sends \union {None}
                /\ post[t].first \in Outcomes \ {"none"} /\ post[t].second \in Outcomes
  <1>1. post[t] = Unsent \/ post[t] \in Posted
    BY DEF PaneTypes
  <1>2. Unsent.step = "unsent" /\ Unsent.first = "none" /\ Unsent.second = "none"
        /\ Unsent.again = None
    BY DEF Unsent
  <1>3. \A p \in Posted :
          /\ p.step \in {"waiting", "done"} /\ p.home \in Conversations
          /\ p.from \in Conversations /\ p.again \in Sends \union {None}
          /\ p.first \in Outcomes \ {"none"} /\ p.second \in Outcomes
    BY DEF Posted
  <1>4. \A p \in Posted : p.step # "unsent"
    BY <1>3
  <1> QED BY <1>1, <1>2, <1>3, <1>4

\* A step of the feed's call leaves alone what is stored, sent and shown.
LEMMA CallOnly ==
    ASSUME PaneInv,
           UNCHANGED <<clock, rows, shown, pane, post, isSending, late, doubtful, crossed>>
    PROVE  /\ PaneHolds' /\ PostHolds' /\ NothingIsMissed' /\ ComposerIsFreed'
           /\ feedCall' \in {NoCall} \union Asking \union Clocked \union Answering
                /\ upsets' \in Nat => PaneTypes'
           /\ \A c : Rows(c)' = Rows(c)
  <1>1. PaneHolds'
    BY DEF PaneInv, PaneHolds, Unstored, OfRow, NeverStored
  <1>2. PostHolds'
    BY DEF PaneInv, PostHolds, NeverStored
  <1>3. NothingIsMissed'
    BY DEF PaneInv, NothingIsMissed, Rows
  <1>4. ComposerIsFreed'
    BY DEF PaneInv, ComposerIsFreed
  <1>5. feedCall' \in {NoCall} \union Asking \union Clocked \union Answering
          /\ upsets' \in Nat => PaneTypes'
    BY DEF PaneInv, PaneTypes, Loaded
  <1>6. \A c : Rows(c)' = Rows(c)
    BY DEF Rows
  <1> QED BY <1>1, <1>2, <1>3, <1>4, <1>5, <1>6

\* The pane asks for what it shows, from its cursor.
LEMMA AskKept ==
    ASSUME PaneInv, Ask
    PROVE  PaneInv'
  <1>1. /\ feedCall' = [step |-> "asked", home |-> shown, since |-> pane.since, isVoid |-> FALSE]
        /\ UNCHANGED <<clock, rows, shown, pane, post, isSending, upsets, late, doubtful, crossed>>
    BY DEF Ask, Fetch
  <1>2. feedCall' \in Asking /\ feedCall'.step = "asked"
    BY <1>1 DEF PaneInv, PaneTypes, Asking
  <1>3. PaneTypes'
    BY <1>1, <1>2, CallOnly DEF PaneInv, PaneTypes
  <1>4. Timely'
    BY <1>1 DEF PaneInv, Timely
  <1>5. Aimed'
    BY <1>1 DEF PaneInv, Aimed, Live, Loaded
  <1>6. PassedOver' /\ AnswerHolds'
    BY <1>2 DEF PassedOver, AnswerHolds
  <1>7. PaneHolds' /\ PostHolds' /\ NothingIsMissed' /\ ComposerIsFreed'
    BY <1>1, CallOnly
  <1> QED BY <1>3, <1>4, <1>5, <1>6, <1>7 DEF PaneInv

\* The route takes its time first.
LEMMA ClockKept ==
    ASSUME PaneInv, ServeClock
    PROVE  PaneInv'
  <1>1. feedCall \in Asking /\ feedCall # NoCall
    BY FeedCallKinds DEF ServeClock, PaneInv, PaneTypes
  <1>2. /\ feedCall' = [step |-> "clocked", home |-> feedCall.home, since |-> feedCall.since,
                        isVoid |-> feedCall.isVoid, now |-> clock]
        /\ UNCHANGED <<clock, rows, shown, pane, post, isSending, upsets, late, doubtful, crossed>>
    BY DEF ServeClock
  <1>3. feedCall' \in Clocked /\ feedCall'.step = "clocked"
    BY <1>1, <1>2 DEF PaneInv, PaneTypes, Asking, Clocked
  <1>4. PaneTypes'
    BY <1>2, <1>3, CallOnly DEF PaneInv, PaneTypes
  <1>5. Timely'
    <2>1. clock <= clock
      BY DEF PaneInv, PaneTypes, Clocks
    <2> QED BY <1>2, <2>1 DEF ServeClock, PaneInv, Timely
  <1>6. Aimed'
    BY <1>1, <1>2 DEF ServeClock, PaneInv, Aimed, Live, Loaded
  <1>7. PassedOver' /\ AnswerHolds'
    BY <1>3 DEF PassedOver, AnswerHolds
  <1>8. PaneHolds' /\ PostHolds' /\ NothingIsMissed' /\ ComposerIsFreed'
    BY <1>2, CallOnly
  <1> QED BY <1>4, <1>5, <1>6, <1>7, <1>8 DEF PaneInv

\* A page passes over no row but those it has, or which were passed over before.
LEMMA PageIsEnough ==
    ASSUME PaneInv, feedCall \in Clocked, NEW page \in DeltaPages
    PROVE  /\ page \subseteq Changed /\ NextSince(page) \in Clocks /\ NextSince(page) <= clock
           /\ \A m \in Rows(feedCall.home) :
                rows[m].stamp < NextSince(page) => m \in page \/ rows[m].stamp < feedCall.since
  <1> USE ConversationPaneAssumption
  <1>1. /\ feedCall.now \in Clocks /\ feedCall.since \in -1..MaxClock
        /\ feedCall.home \in Conversations /\ feedCall.now <= clock
    BY FeedCallKinds DEF PaneInv, PaneTypes, Clocked, Timely
  <1>2. Changed \subseteq Rows(feedCall.home)
    BY DEF Changed
  <1>3. \A m \in Rows(feedCall.home) : rows[m].stamp \in Clocks /\ rows[m].stamp <= clock
    BY <1>1, RowsAreKnown DEF PaneInv, Timely, Rows
  <1>4. page \subseteq Changed
    BY DEF DeltaPages
  <1>5. CASE page = Changed
    <2>1. NextSince(page) = feedCall.now
      BY <1>5 DEF NextSince
    <2>2. \A m \in Rows(feedCall.home) : m \in page \/ rows[m].stamp < feedCall.since
      BY <1>1, <1>3, <1>5 DEF Changed, Clocks
    <2> QED BY <1>1, <1>4, <2>1, <2>2
  <1>6. CASE page # Changed
    <2> DEFINE stamps == {rows[m].stamp : m \in page}
    <2>1. /\ Cardinality(page) = DeltaRows
          /\ \A m \in page, n \in Changed \ page : rows[m].stamp <= rows[n].stamp
      BY <1>6 DEF DeltaPages
    <2>2. page # {}
      BY <2>1, FS_EmptySet
    <2>3. stamps \in SUBSET Clocks /\ stamps # {}
      BY <1>2, <1>3, <1>4, <2>2
    <2>4. NextSince(page) = Max(stamps)
      BY <1>6 DEF NextSince
    <2>5. NextSince(page) \in stamps
      BY <2>3, <2>4, LatestIsOne
    <2>6. PICK p \in page : NextSince(page) = rows[p].stamp
      BY <2>5
    <2>7. NextSince(page) \in Clocks /\ NextSince(page) <= clock
      BY <1>2, <1>3, <1>4, <2>6
    <2>8. ASSUME NEW m \in Rows(feedCall.home), m \notin page, ~(rows[m].stamp < feedCall.since)
          PROVE  ~(rows[m].stamp < NextSince(page))
      <3>1. m \in Changed \ page
        BY <1>1, <1>3, <2>8 DEF Changed, Clocks
      <3>2. rows[p].stamp <= rows[m].stamp
        BY <2>1, <3>1
      <3> QED BY <1>2, <1>3, <1>4, <2>6, <3>2 DEF Clocks
    <2> QED BY <1>4, <2>7, <2>8
  <1> QED BY <1>5, <1>6

\* An answer has every row of its page once, as it is.
LEMMA ReadKept ==
    ASSUME PaneInv, ServeRead
    PROVE  PaneInv'
  <1>1. /\ feedCall \in Clocked /\ feedCall # NoCall /\ feedCall.home \in Conversations
        /\ feedCall.since \in -1..MaxClock /\ feedCall.isVoid \in BOOLEAN
        /\ feedCall.step = "clocked"
    BY FeedCallKinds DEF ServeRead, PaneInv, PaneTypes, Clocked
  <1>2. PICK page \in DeltaPages :
          feedCall' = [step |-> "answered", isVoid |-> feedCall.isVoid, home |-> feedCall.home,
                       isDelta |-> feedCall.since >= 0, nextSince |-> NextSince(page),
                       bubbles |-> {AsStored(m) : m \in page}]
    BY DEF ServeRead, AsStored
  <1>3. UNCHANGED <<clock, rows, shown, pane, post, isSending, upsets, late, doubtful, crossed>>
    BY DEF ServeRead
  <1>4. /\ page \subseteq Rows(feedCall.home)
        /\ NextSince(page) \in Clocks /\ NextSince(page) <= clock
        /\ \A m \in Rows(feedCall.home) :
             rows[m].stamp < NextSince(page) => m \in page \/ rows[m].stamp < feedCall.since
    BY <1>1, PageIsEnough DEF Changed
  <1>5. \A m \in page :
          /\ m \in Texts /\ rows[m] # NoRow /\ rows[m].home = feedCall.home
          /\ rows[m].status \in Stored
    <2> SUFFICES ASSUME NEW m \in page
                 PROVE  /\ m \in Texts /\ rows[m] # NoRow /\ rows[m].home = feedCall.home
                        /\ rows[m].status \in Stored
      OBVIOUS
    <2>1. m \in Texts /\ m \in Rows(feedCall.home)
      BY <1>4 DEF Rows
    <2> QED BY <1>1, <2>1, RowsAreKnown DEF PaneInv
  <1> DEFINE ones == {AsStored(m) : m \in page}
  <1>6. \A b \in ones : /\ b.m \in page /\ b.status = rows[b.m].status
                        /\ b = AsStored(b.m)
    BY DEF AsStored
  <1>7. ones \subseteq Bubble
    BY <1>5 DEF AsStored, Bubble
  <1>8. Once(ones)
    BY <1>6 DEF Once
  <1>9. \A b \in ones : OfRow(b) /\ rows[b.m].home = feedCall.home
    BY <1>5, <1>6 DEF OfRow
  <1>10. \A m \in page : AsStored(m) \in ones
    OBVIOUS
  <1> HIDE DEF ones
  <1>11. /\ feedCall'.step = "answered" /\ feedCall'.isVoid = feedCall.isVoid
         /\ feedCall'.home = feedCall.home /\ feedCall'.isDelta = (feedCall.since >= 0)
         /\ feedCall'.nextSince = NextSince(page) /\ feedCall'.bubbles = ones
    BY <1>2 DEF ones
  <1>12. feedCall' \in Answering
    <2>1. (feedCall.since >= 0) \in BOOLEAN
      OBVIOUS
    <2> QED BY <1>1, <1>2, <1>4, <1>7, <2>1 DEF Answering, ones
  <1>13. PaneTypes'
    BY <1>3, <1>12, CallOnly DEF PaneInv, PaneTypes
  <1>14. Timely'
    BY <1>3, <1>4, <1>11 DEF PaneInv, Timely
  <1>15. feedCall' # NoCall
    BY <1>11 DEF NoCall
  <1>16. Live' <=> Live
    BY <1>1, <1>11, <1>15 DEF Live
  <1>17. Live => feedCall.since = pane.since /\ (~crossed => feedCall.home = shown)
    BY <1>1 DEF PaneInv, Aimed
  <1>18. Aimed'
    BY <1>3, <1>11, <1>16, <1>17 DEF PaneInv, Aimed, Loaded
  <1>19. PassedOver'
    <2> SUFFICES ASSUME Live', NEW m \in Rows(feedCall.home), m \notin late,
                        rows[m].stamp < NextSince(page)
                 PROVE  \/ AsStored(m) \in ones
                        \/ rows[m].stamp < pane.since /\ \A c \in ones : c.m # m
      <3>1. Rows(feedCall.home)' = Rows(feedCall.home)
        BY <1>3, <1>11 DEF Rows
      <3>2. \A m : AsStored(m)' = AsStored(m)
        BY <1>3 DEF AsStored
      <3> QED BY <1>3, <1>11, <3>1, <3>2 DEF PassedOver
    <2>1. CASE m \in page
      BY <1>10, <2>1
    <2>2. CASE m \notin page
      BY <1>4, <1>6, <1>16, <1>17, <2>2
    <2> QED BY <2>1, <2>2
  <1>20. AnswerHolds'
    BY <1>3, <1>8, <1>9, <1>11 DEF AnswerHolds, OfRow, Once
  <1>21. PaneHolds' /\ PostHolds' /\ NothingIsMissed' /\ ComposerIsFreed'
    BY <1>3, CallOnly
  <1> QED BY <1>13, <1>14, <1>18, <1>19, <1>20, <1>21 DEF PaneInv

\* A merge shows what came, and what it does not replace.
LEMMA MergeIsOnce ==
    ASSUME NEW had, NEW came, Once(had), Once(came)
    PROVE  /\ Once(Merge(had, came))
           /\ \A b \in Merge(had, came) : b \in came \/ b \in had
           /\ \A b \in had : (\A c \in came : c.m # b.m) => b \in Merge(had, came)
           /\ came \subseteq Merge(had, came)
  <1>1. \A b \in Merge(had, came) :
          b \in came \/ (b \in had /\ \A c \in came : c.m # b.m)
    BY DEF Merge
  <1>2. Once(Merge(had, came))
    BY <1>1 DEF Once
  <1> QED BY <1>1, <1>2 DEF Merge

\* Without a call nothing is said of one.
LEMMA NoCallKept ==
    ASSUME feedCall' = NoCall
    PROVE  PassedOver' /\ AnswerHolds' /\ ~Live' /\ feedCall'.step = "idle"
  BY DEF PassedOver, AnswerHolds, Live, NoCall

\* An answer that counts is shown; nothing it passes over is missed.
LEMMA ArriveKept ==
    ASSUME PaneInv, Arrive
    PROVE  PaneInv'
  <1>1. /\ feedCall' = NoCall /\ feedCall.step = "answered"
        /\ UNCHANGED <<clock, rows, shown, post, isSending, upsets, late, doubtful, crossed>>
    BY DEF Arrive
  <1>2. /\ feedCall \in Answering /\ feedCall # NoCall /\ feedCall.home \in Conversations
        /\ feedCall.nextSince \in Clocks /\ feedCall.bubbles \subseteq Bubble
        /\ feedCall.isVoid \in BOOLEAN /\ feedCall.isDelta \in BOOLEAN
    BY FeedCallKinds DEF Arrive, PaneInv, PaneTypes, Answering
  <1>3. PassedOver' /\ AnswerHolds' /\ ~Live' /\ feedCall'.step = "idle"
    BY <1>1, NoCallKept
  <1>4. CASE feedCall.isVoid
    <2>1. pane' = pane
      BY <1>4 DEF Arrive
    <2>2. PaneTypes'
      BY <1>1, <2>1, CallOnly DEF PaneInv, PaneTypes
    <2>3. Timely' /\ Aimed'
      BY <1>1, <1>3, <2>1 DEF PaneInv, Timely, Aimed, Loaded
    <2>4. PaneHolds' /\ PostHolds' /\ NothingIsMissed' /\ ComposerIsFreed'
      BY <1>1, <2>1, CallOnly
    <2> QED BY <1>3, <2>2, <2>3, <2>4 DEF PaneInv
  <1>5. CASE ~feedCall.isVoid
    <2> DEFINE ones == IF feedCall.isDelta THEN Merge(pane.bubbles, feedCall.bubbles)
                       ELSE feedCall.bubbles
    <2>1. pane' = [home |-> feedCall.home, since |-> feedCall.nextSince, bubbles |-> ones]
      BY <1>5 DEF Arrive
    <2>2. Live /\ (feedCall.isDelta <=> Loaded) /\ (~crossed => feedCall.home = shown)
      BY <1>1, <1>2, <1>5 DEF Live, PaneInv, Aimed
    <2>3. Once(pane.bubbles) /\ Once(feedCall.bubbles)
      BY <1>1 DEF PaneInv, PaneHolds, AnswerHolds
    <2>4. Once(ones)
      BY <2>3, MergeIsOnce
    <2>5. \A b \in ones : b \in feedCall.bubbles \/ b \in pane.bubbles
      BY <2>3, MergeIsOnce
    <2>6. feedCall.bubbles \subseteq ones
      BY <2>3, MergeIsOnce
    <2>7. feedCall.isDelta =>
            \A b \in pane.bubbles : (\A c \in feedCall.bubbles : c.m # b.m) => b \in ones
      BY <2>3, MergeIsOnce
    <2>8. pane.bubbles \subseteq Bubble /\ pane.since \in -1..MaxClock
      BY DEF PaneInv, PaneTypes
    <2> HIDE DEF ones
    <2>9. pane'.home = feedCall.home /\ pane'.since = feedCall.nextSince /\ pane'.bubbles = ones
      BY <2>1
    <2>10. PaneTypes'
      <3>1. feedCall.nextSince \in -1..MaxClock
        BY <1>2, ConversationPaneAssumption DEF Clocks
      <3>2. ones \subseteq Bubble
        BY <1>2, <2>5, <2>8
      <3>3. pane' \in [home : Conversations \union {None}, since : -1..MaxClock,
                       bubbles : SUBSET Bubble]
        BY <1>2, <2>1, <3>1, <3>2
      <3> QED BY <1>1, <1>2, <2>9, <3>3 DEF PaneInv, PaneTypes
    <2>11. Timely'
      BY <1>1, <1>3, <2>9 DEF PaneInv, Timely
    <2>12. Aimed'
      BY <1>1, <1>3, <2>2, <2>9 DEF Aimed
    <2>13. PaneHolds'
      <3>1. ASSUME NEW b \in ones
            PROVE  (IF b.status \in Local THEN Unstored(b)
                    ELSE OfRow(b) /\ (crossed \/ rows[b.m].home = shown))'
        <4>1. CASE b \in pane.bubbles
          <5>1. IF b.status \in Local THEN Unstored(b)
                ELSE OfRow(b) /\ (crossed \/ rows[b.m].home = shown)
            BY <4>1 DEF PaneInv, PaneHolds
          <5> QED BY <1>1, <5>1 DEF Unstored, OfRow, NeverStored
        <4>2. CASE b \in feedCall.bubbles
          <5>1. OfRow(b) /\ rows[b.m].home = feedCall.home
            BY <1>1, <4>2 DEF PaneInv, AnswerHolds
          <5>2. b.status \notin Local
            BY <5>1 DEF OfRow, Stored, Local
          <5> QED BY <1>1, <2>2, <5>1, <5>2 DEF OfRow
        <4> QED BY <2>5, <4>1, <4>2
      <3> QED BY <2>4, <2>9, <3>1 DEF PaneHolds, Once
    <2>14. NothingIsMissed'
      <3> SUFFICES ASSUME ~crossed, NEW m \in Rows(shown), m \notin late,
                          rows[m].stamp < feedCall.nextSince
                   PROVE  AsStored(m) \in ones
        <4>1. Rows(shown)' = Rows(shown)
          BY <1>1 DEF Rows
        <4> QED BY <1>1, <2>9, <4>1 DEF NothingIsMissed, AsStored
      <3>1. \/ AsStored(m) \in feedCall.bubbles
            \/ rows[m].stamp < pane.since /\ \A c \in feedCall.bubbles : c.m # m
        BY <1>1, <2>2 DEF PaneInv, PassedOver
      <3>2. CASE AsStored(m) \in feedCall.bubbles
        BY <2>6, <3>2
      <3>3. CASE rows[m].stamp < pane.since /\ \A c \in feedCall.bubbles : c.m # m
        <4>1. AsStored(m) \in pane.bubbles
          BY <3>3 DEF PaneInv, NothingIsMissed, AsStored
        <4>2. m \in Texts /\ shown \in Conversations
          BY DEF Rows, PaneInv, PaneTypes
        <4>3. rows[m].stamp \in Clocks
          BY <4>2, RowsAreKnown DEF PaneInv
        <4>4. feedCall.isDelta
          BY <2>2, <2>8, <3>3, <4>3 DEF Loaded, Clocks
        <4>5. AsStored(m).m = m
          BY DEF AsStored
        <4> QED BY <2>7, <3>3, <4>1, <4>4, <4>5
      <3> QED BY <3>1, <3>2, <3>3
    <2>15. PostHolds' /\ ComposerIsFreed'
      BY <1>1 DEF PaneInv, PostHolds, ComposerIsFreed, NeverStored
    <2> QED BY <1>3, <2>10, <2>11, <2>12, <2>13, <2>14, <2>15 DEF PaneInv
  <1> QED BY <1>2, <1>4, <1>5

\* A call that fails leaves the pane as it is.
LEMMA FeedFailsKept ==
    ASSUME PaneInv, FeedFails
    PROVE  PaneInv'
  <1>1. /\ feedCall' = NoCall /\ upsets' = upsets + 1
        /\ UNCHANGED <<clock, rows, shown, pane, post, isSending, late, doubtful, crossed>>
    BY DEF FeedFails, Upset
  <1>2. PassedOver' /\ AnswerHolds' /\ ~Live' /\ feedCall'.step = "idle"
    BY <1>1, NoCallKept
  <1>3. PaneTypes'
    BY <1>1, CallOnly DEF PaneInv, PaneTypes
  <1>4. Timely' /\ Aimed'
    BY <1>1, <1>2 DEF PaneInv, Timely, Aimed, Loaded
  <1>5. PaneHolds' /\ PostHolds' /\ NothingIsMissed' /\ ComposerIsFreed'
    BY <1>1, CallOnly
  <1> QED BY <1>2, <1>3, <1>4, <1>5 DEF PaneInv

\* A call that was voided is otherwise what it was.
LEMMA Voided ==
    ASSUME feedCall \in Asking \union Clocked \union Answering,
           feedCall' = [feedCall EXCEPT !.isVoid = TRUE]
    PROVE  /\ feedCall' \in Asking \union Clocked \union Answering
           /\ feedCall'.isVoid /\ feedCall'.step = feedCall.step /\ feedCall'.home = feedCall.home
           /\ feedCall.step \in {"asked", "clocked"} => feedCall'.since = feedCall.since
           /\ feedCall.step = "clocked" => feedCall'.now = feedCall.now
           /\ feedCall.step = "answered" =>
                /\ feedCall'.nextSince = feedCall.nextSince
                /\ feedCall'.bubbles = feedCall.bubbles
  <1>1. CASE feedCall \in Asking
    BY <1>1 DEF Asking
  <1>2. CASE feedCall \in Clocked
    BY <1>2 DEF Clocked
  <1>3. CASE feedCall \in Answering
    BY <1>3 DEF Answering
  <1> QED BY <1>1, <1>2, <1>3

\* Another conversation is shown: an empty pane, and no call counts.
LEMMA ShowKept ==
    ASSUME PaneInv, NEW c \in Conversations, Show(c)
    PROVE  PaneInv'
  <1>1. /\ shown' = c /\ pane' = EmptyPane /\ crossed' = FALSE /\ upsets' = upsets + 1
        /\ UNCHANGED <<clock, rows, post, isSending, late, doubtful>>
        /\ feedCall' = IF feedCall = NoCall THEN NoCall ELSE [feedCall EXCEPT !.isVoid = TRUE]
    BY DEF Show, Upset
  <1>2. /\ feedCall' \in {NoCall} \union Asking \union Clocked \union Answering
        /\ ~Live' /\ feedCall'.step = feedCall.step
        /\ feedCall.step \in {"asked", "clocked"} => feedCall'.since = feedCall.since
        /\ feedCall.step = "clocked" => feedCall'.now = feedCall.now
        /\ feedCall.step = "answered" =>
             /\ feedCall'.nextSince = feedCall.nextSince /\ feedCall'.home = feedCall.home
             /\ feedCall'.bubbles = feedCall.bubbles
    <2>1. CASE feedCall = NoCall
      BY <1>1, <2>1 DEF Live, NoCall
    <2>2. CASE feedCall # NoCall
      <3>1. feedCall \in Asking \union Clocked \union Answering
        BY <2>2 DEF PaneInv, PaneTypes
      <3> QED BY <1>1, <2>2, <3>1, Voided DEF Live
    <2> QED BY <2>1, <2>2
  <1>3. /\ pane'.home = None /\ pane'.since = -1 /\ pane'.bubbles = {}
        /\ pane' \in [home : Conversations \union {None}, since : -1..MaxClock,
                      bubbles : SUBSET Bubble]
    BY <1>1, ConversationPaneAssumption DEF EmptyPane
  <1>4. ~Loaded'
    BY <1>3 DEF Loaded
  <1>5. PaneTypes'
    <2>1. {isSending, crossed}' \subseteq BOOLEAN
      <3>1. isSending \in BOOLEAN
        BY DEF PaneInv, PaneTypes
      <3> QED BY <1>1, <3>1
    <2>2. upsets' \in Nat
      BY <1>1 DEF PaneInv, PaneTypes
    <2>3. feedCall' \in {NoCall} \union Asking \union Clocked \union Answering
      BY <1>2
    <2>4. pane' \in [home : Conversations \union {None}, since : -1..MaxClock,
                    bubbles : SUBSET Bubble]
      BY <1>3
    <2> QED BY <1>1, <1>4, <2>1, <2>2, <2>3, <2>4 DEF PaneInv, PaneTypes
  <1>6. Timely'
    BY <1>1, <1>2, <1>3 DEF PaneInv, PaneTypes, Timely, Clocks
  <1>7. Aimed' /\ PassedOver'
    BY <1>2, <1>4 DEF Aimed, PassedOver
  <1>8. AnswerHolds'
    BY <1>1, <1>2 DEF PaneInv, AnswerHolds, OfRow, Once
  <1>9. PaneHolds'
    BY <1>3 DEF PaneHolds, Once
  <1>10. NothingIsMissed'
    <2> SUFFICES ASSUME NEW m \in Rows(c)
                 PROVE  ~(rows[m].stamp < -1)
      <3>1. Rows(shown)' = Rows(c)
        BY <1>1 DEF Rows
      <3> QED BY <1>1, <1>3, <3>1 DEF NothingIsMissed
    <2>1. m \in Texts
      BY DEF Rows
    <2>2. rows[m].stamp \in Clocks
      BY <2>1, RowsAreKnown DEF PaneInv
    <2> QED BY <2>2 DEF Clocks
  <1>11. PostHolds' /\ ComposerIsFreed'
    BY <1>1 DEF PaneInv, PostHolds, ComposerIsFreed, NeverStored
  <1> QED BY <1>5, <1>6, <1>7, <1>8, <1>9, <1>10, <1>11 DEF PaneInv

\* The clock goes on.
LEMMA TimeKept ==
    ASSUME PaneInv, PaneTime
    PROVE  PaneInv'
  <1>1. /\ clock < MaxClock /\ clock' = clock + 1
        /\ UNCHANGED <<rows, shown, pane, feedCall, post, isSending, upsets, late, doubtful,
                       crossed>>
    BY DEF PaneTime
  <1>2. clock' \in Clocks /\ \A x \in Int : x <= clock => x <= clock'
    BY <1>1, ConversationPaneAssumption DEF PaneInv, PaneTypes, Clocks
  <1>3. PaneTypes'
    BY <1>1, <1>2 DEF PaneInv, PaneTypes, Loaded
  <1>4. Timely'
    <2>1. pane.since' <= clock'
      BY <1>1, <1>2 DEF PaneInv, PaneTypes, Timely
    <2>2. \A m \in Texts : rows[m] # NoRow => rows[m].stamp <= clock'
      BY <1>2, RowsAreKnown DEF PaneInv, Timely, Clocks
    <2>3. feedCall.step \in {"asked", "clocked"} => feedCall.since <= clock'
      BY <1>2, FeedCallKinds DEF PaneInv, PaneTypes, Timely, Asking, Clocked
    <2>4. feedCall.step = "clocked" => feedCall.now <= clock'
      BY <1>2, FeedCallKinds DEF PaneInv, PaneTypes, Timely, Clocked, Clocks
    <2>5. feedCall.step = "answered" => feedCall.nextSince <= clock'
      BY <1>2, FeedCallKinds DEF PaneInv, PaneTypes, Timely, Answering, Clocks
    <2> QED BY <1>1, <2>1, <2>2, <2>3, <2>4, <2>5 DEF Timely
  <1>5. Aimed' /\ PassedOver' /\ AnswerHolds'
    BY <1>1 DEF PaneInv, Aimed, PassedOver, AnswerHolds, Live, Loaded, Rows, AsStored, OfRow
  <1>6. PaneHolds' /\ PostHolds' /\ NothingIsMissed' /\ ComposerIsFreed'
    BY <1>1 DEF PaneInv, PaneHolds, PostHolds, NothingIsMissed, ComposerIsFreed, Unstored,
                OfRow, NeverStored, Rows
  <1> QED BY <1>3, <1>4, <1>5, <1>6 DEF PaneInv

\* A row that is stored or changes now is passed over by no cursor, or is late.
LEMMA RowGrows ==
    ASSUME PaneInv, NEW m \in Texts, NEW put \in PaneRow,
           rows' = [rows EXCEPT ![m] = put],
           UNCHANGED <<clock, shown, pane, feedCall, crossed>>,
           late \subseteq late', put.stamp <= clock, put.stamp = clock \/ m \in late',
           rows[m] # NoRow => /\ put.home = rows[m].home
                              /\ m \in Sends /\ rows[m].status = "FAILED" => put.status = "FAILED"
    PROVE  /\ rows' \in [Texts -> {NoRow} \union PaneRow]
           /\ Timely' /\ Aimed' /\ PassedOver' /\ AnswerHolds' /\ NothingIsMissed'
           /\ \A b \in pane.bubbles : OfRow(b) => OfRow(b)' /\ rows'[b.m].home = rows[b.m].home
           /\ \A n \in Texts : n # m => rows'[n] = rows[n]
           /\ rows'[m] = put /\ put # NoRow
  <1>1. rows \in [Texts -> {NoRow} \union PaneRow]
    BY DEF PaneInv, PaneTypes
  <1>2. rows'[m] = put /\ \A n \in Texts : n # m => rows'[n] = rows[n]
    BY <1>1
  <1>3. rows' \in [Texts -> {NoRow} \union PaneRow]
    BY <1>1
  <1>4. put.home \in Conversations /\ put.stamp \in Clocks /\ put # NoRow
    BY RowsAreKnown DEF PaneRow, PaneInv
  <1>5. Timely'
    BY <1>2 DEF PaneInv, Timely
  <1>6. Aimed'
    BY DEF PaneInv, Aimed, Live, Loaded
  <1>7. ASSUME NEW where \in Conversations, NEW n \in Rows(where)', n \notin late', n \in Texts
        PROVE  \/ n = m /\ put.stamp = clock
               \/ n # m /\ n \in Rows(where) \ late /\ AsStored(n)' = AsStored(n)
                        /\ rows'[n] = rows[n]
    BY <1>2, <1>7 DEF Rows, AsStored
  <1>8. clock \in Clocks /\ shown \in Conversations
    BY DEF PaneInv, PaneTypes
  <1>9. PassedOver'
    <2> SUFFICES ASSUME Live, feedCall.step = "answered", NEW n \in Rows(feedCall.home)',
                        n \notin late', rows'[n].stamp < feedCall.nextSince
                 PROVE  \/ AsStored(n)' \in feedCall.bubbles
                        \/ rows'[n].stamp < pane.since /\ \A c \in feedCall.bubbles : c.m # n
      BY DEF PassedOver, Live
    <2>1. /\ feedCall.home \in Conversations /\ feedCall.nextSince \in Clocks
          /\ feedCall.nextSince <= clock
      BY FeedCallKinds DEF PaneInv, PaneTypes, Timely, Answering
    <2>2. n \in Texts /\ n \in Rows(feedCall.home)'
      BY DEF Rows
    <2>3. ~(n = m /\ put.stamp = clock)
      BY <1>2, <1>8, <2>1 DEF Clocks
    <2>4. n # m /\ n \in Rows(feedCall.home) \ late /\ AsStored(n)' = AsStored(n)
            /\ rows'[n] = rows[n]
      BY <1>7, <2>1, <2>2, <2>3
    <2> QED BY <2>4 DEF PaneInv, PassedOver
  <1>10. NothingIsMissed'
    <2> SUFFICES ASSUME ~crossed, NEW n \in Rows(shown)', n \notin late',
                        rows'[n].stamp < pane.since
                 PROVE  AsStored(n)' \in pane.bubbles
      BY DEF NothingIsMissed, AsStored
    <2>1. pane.since \in -1..MaxClock /\ pane.since <= clock
      BY DEF PaneInv, PaneTypes, Timely
    <2>2. n \in Texts /\ n \in Rows(shown)'
      BY DEF Rows
    <2>3. ~(n = m /\ put.stamp = clock)
      BY <1>2, <1>8, <2>1 DEF Clocks
    <2>4. n # m /\ n \in Rows(shown) \ late /\ AsStored(n)' = AsStored(n) /\ rows'[n] = rows[n]
      BY <1>7, <1>8, <2>2, <2>3
    <2> QED BY <2>4 DEF PaneInv, NothingIsMissed, AsStored
  <1>11. \A b \in Bubble : OfRow(b) => OfRow(b)' /\ rows'[b.m].home = rows[b.m].home
    <2> SUFFICES ASSUME NEW b \in Bubble, OfRow(b)
                 PROVE  OfRow(b)' /\ rows'[b.m].home = rows[b.m].home
      OBVIOUS
    <2>1. b.m \in Texts
      BY DEF Bubble
    <2>2. CASE b.m = m
      BY <1>2, <1>4, <2>2 DEF OfRow
    <2>3. CASE b.m # m
      BY <1>2, <2>1, <2>3 DEF OfRow
    <2> QED BY <2>2, <2>3
  <1>12. AnswerHolds'
    <2> SUFFICES ASSUME feedCall.step = "answered"
                 PROVE  AnswerHolds'
      BY DEF AnswerHolds
    <2>1. feedCall.bubbles \subseteq Bubble
      BY FeedCallKinds DEF PaneInv, PaneTypes, Answering
    <2>2. /\ Once(feedCall.bubbles)
          /\ \A b \in feedCall.bubbles : OfRow(b) /\ rows[b.m].home = feedCall.home
      BY DEF PaneInv, AnswerHolds
    <2>3. \A b \in feedCall.bubbles : OfRow(b)' /\ rows'[b.m].home = feedCall.home
      BY <1>11, <2>1, <2>2
    <2> QED BY <2>2, <2>3 DEF AnswerHolds, Once
  <1>13. pane.bubbles \subseteq Bubble
    BY DEF PaneInv, PaneTypes
  <1> QED BY <1>2, <1>3, <1>4, <1>5, <1>6, <1>9, <1>10, <1>11, <1>12, <1>13

\* Bubbles of what is stored keep their rows when a row grows, and those that
\* are not stored stay what they are while their requests do not start again.
LEMMA BubblesKept ==
    ASSUME PaneInv, UNCHANGED <<shown, crossed>>, NEW b \in pane.bubbles,
           OfRow(b) => OfRow(b)' /\ rows'[b.m].home = rows[b.m].home,
           b.m \in Sends =>
             /\ post[b.m] # Unsent => post'[b.m] # Unsent /\ post'[b.m].home = post[b.m].home
             /\ post[b.m].step = "waiting" => post'[b.m].step = "waiting"
             /\ rows[b.m] # NoRow => rows'[b.m] # NoRow
             /\ NeverStored(b.m) => NeverStored(b.m)'
             /\ b.m \in doubtful => b.m \in doubtful'
    PROVE  IF b.status \in Local THEN Unstored(b)'
           ELSE OfRow(b)' /\ (crossed' \/ rows'[b.m].home = shown')
  <1>1. IF b.status \in Local THEN Unstored(b)
        ELSE OfRow(b) /\ (crossed \/ rows[b.m].home = shown)
    BY DEF PaneInv, PaneHolds
  <1>2. CASE b.status \in Local
    BY <1>1, <1>2 DEF Unstored
  <1>3. CASE b.status \notin Local
    BY <1>1, <1>3
  <1> QED BY <1>2, <1>3

\* What a request's record says of the store.
PostsHold(t) ==
    /\ rows[t] # NoRow <=> post[t].first = "accepted" \/ post[t].second = "accepted"
    /\ post[t].second \in {"denied", "broken"} => t \in doubtful
    /\ post[t].second # "none" /\ post[t].first \in {"denied", "broken"} => t \in doubtful
Again(t) ==
    post[t].again # None =>
        \/ post[t].again \in doubtful \/ NeverStored(post[t].again)
        \/ rows[post[t].again] # NoRow /\ rows[post[t].again].status = "FAILED"

\* The parts of PostHolds.
LEMMA PostParts ==
    /\ PostHolds <=> \A t \in Sends : PostsHold(t) /\ Again(t)
    /\ PostHolds' <=> \A t \in Sends : PostsHold(t)' /\ Again(t)'
  BY DEF PostHolds, PostsHold, Again

\* Somebody else stores or changes a row.
LEMMA WriteKept ==
    ASSUME PaneInv, NEW m \in Texts, Write(m)
    PROVE  PaneInv'
  <1> USE ConversationPaneAssumption
  <1>1. PICK status \in NextStatus(m), where \in Conversations, delay \in {0, 1} :
          /\ rows[m] = NoRow \/ where = rows[m].home
          /\ delay <= clock
          /\ rows' = [rows EXCEPT ![m] =
                         [home |-> where, status |-> status, stamp |-> clock - delay]]
          /\ IF delay = 1 THEN Upset /\ late' = late \union {m}
             ELSE UNCHANGED <<upsets, late, crossed>>
    BY DEF Write
  <1>2. UNCHANGED <<clock, shown, pane, feedCall, post, isSending, doubtful, crossed>>
    BY DEF Write
  <1> DEFINE put == [home |-> where, status |-> status, stamp |-> clock - delay]
  <1>3. clock \in Clocks /\ late \subseteq Texts /\ upsets \in Nat
    BY DEF PaneInv, PaneTypes
  <1>4. /\ status \in Stored
        /\ m \in Sends => rows[m] # NoRow /\ rows[m].status = "QUEUED"
    BY <1>1 DEF NextStatus, Stored, Texts
  <1>5. put \in PaneRow /\ put.stamp <= clock /\ put.home = where /\ put.status = status
    BY <1>1, <1>3, <1>4 DEF PaneRow, Clocks
  <1>6. late \subseteq late' /\ late' \subseteq Texts /\ (put.stamp = clock \/ m \in late')
    BY <1>1, <1>3 DEF Clocks
  <1>7. upsets' \in Nat
    BY <1>1, <1>3 DEF Upset
  <1>8. rows' = [rows EXCEPT ![m] = put]
    BY <1>1
  <1> HIDE DEF put
  <1>9. rows[m] # NoRow => put.home = rows[m].home
    BY <1>1, <1>5
  <1>10. ~(m \in Sends /\ rows[m].status = "FAILED")
    BY <1>4
  <1>11. /\ rows' \in [Texts -> {NoRow} \union PaneRow]
         /\ Timely' /\ Aimed' /\ PassedOver' /\ AnswerHolds' /\ NothingIsMissed'
         /\ \A b \in pane.bubbles : OfRow(b) => OfRow(b)' /\ rows'[b.m].home = rows[b.m].home
         /\ \A n \in Texts : n # m => rows'[n] = rows[n]
         /\ rows'[m] = put /\ put # NoRow
    BY <1>2, <1>5, <1>6, <1>8, <1>9, <1>10, RowGrows
  <1>12. PaneTypes'
    BY <1>2, <1>6, <1>7, <1>11 DEF PaneInv, PaneTypes, Loaded
  <1>13. Sends \subseteq Texts
    BY DEF Texts
  <1>14. \A t \in Sends : /\ rows'[t] = NoRow <=> rows[t] = NoRow
                          /\ NeverStored(t)' <=> NeverStored(t)
                          /\ rows[t].status = "FAILED" => rows'[t] = rows[t]
    BY <1>2, <1>4, <1>10, <1>11, <1>13 DEF NeverStored
  <1>15. PostHolds'
    <2>1. \A t \in Sends : PostsHold(t) /\ Again(t)
      BY PostParts DEF PaneInv
    <2>2. \A t \in Sends : PostsHold(t)'
      BY <1>2, <1>14, <2>1 DEF PostsHold
    <2>3. ASSUME NEW t \in Sends PROVE Again(t)'
      <3>1. PICK of : of = post[t].again
        OBVIOUS
      <3>2. of # None => of \in Sends
        BY <3>1, PostsAreKnown DEF PaneInv
      <3>3. of # None =>
              of \in doubtful \/ NeverStored(of) \/ (rows[of] # NoRow /\ rows[of].status = "FAILED")
        BY <2>1, <3>1 DEF Again
      <3>4. Again(t)' <=>
              (of # None =>
                 \/ of \in doubtful \/ NeverStored(of)'
                 \/ rows'[of] # NoRow /\ rows'[of].status = "FAILED")
        BY <1>2, <3>1 DEF Again, NeverStored
      <3> QED BY <1>14, <3>2, <3>3, <3>4
    <2> QED BY <2>2, <2>3, PostParts
  <1>16. PaneHolds'
    <2>1. \A b \in pane.bubbles :
            IF b.status \in Local THEN Unstored(b)'
            ELSE OfRow(b)' /\ (crossed' \/ rows'[b.m].home = shown')
      BY <1>2, <1>11, <1>14, BubblesKept
    <2> QED BY <1>2, <2>1 DEF PaneInv, PaneHolds, Once
  <1>17. ComposerIsFreed'
    BY <1>2 DEF PaneInv, ComposerIsFreed
  <1> QED BY <1>11, <1>12, <1>15, <1>16, <1>17 DEF PaneInv

\* One token's record changes, and no other.
LEMMA PostMoves ==
    ASSUME PaneInv, NEW t \in Sends, NEW one \in Posted, post' = [post EXCEPT ![t] = one]
    PROVE  /\ post' \in [Sends -> {Unsent} \union Posted]
           /\ post'[t] = one /\ one # Unsent
           /\ \A u \in Sends : u # t => post'[u] = post[u] /\ (NeverStored(u)' <=> NeverStored(u))
  <1>1. post \in [Sends -> {Unsent} \union Posted]
    BY DEF PaneInv, PaneTypes
  <1>2. one # Unsent
    <2>1. one.step \in {"waiting", "done"}
      BY DEF Posted
    <2> QED BY <2>1 DEF Unsent
  <1>3. post'[t] = one /\ \A u \in Sends : u # t => post'[u] = post[u]
    BY <1>1
  <1>4. \A u \in Sends : u # t => (NeverStored(u)' <=> NeverStored(u))
    BY <1>3 DEF NeverStored
  <1>5. post' \in [Sends -> {Unsent} \union Posted]
    BY <1>1
  <1> QED BY <1>2, <1>3, <1>4, <1>5

\* While the pane, its call and the rows are left alone, so is what holds of them.
LEMMA PostOnly ==
    ASSUME PaneInv, UNCHANGED <<clock, rows, shown, pane, feedCall, late, crossed>>
    PROVE  Timely' /\ Aimed' /\ PassedOver' /\ AnswerHolds' /\ NothingIsMissed'
  BY DEF PaneInv, Timely, Aimed, PassedOver, AnswerHolds, NothingIsMissed, Live, Loaded, Rows,
         AsStored, OfRow, Once

\* A request of a token moves on: what the token's record must say is enough.
LEMMA RequestMoves ==
    ASSUME PaneInv, NEW t \in Sends, NEW one \in Posted,
           post' = [post EXCEPT ![t] = one], post[t] # Unsent,
           one.step = post[t].step, one.home = post[t].home, one.again = post[t].again,
           PostsHold(t)', ~NeverStored(t),
           doubtful \subseteq doubtful', doubtful' \subseteq doubtful \union {t},
           UNCHANGED <<clock, shown, pane, feedCall, isSending, late, crossed>>,
           rows' \in [Texts -> {NoRow} \union PaneRow],
           Timely' /\ Aimed' /\ PassedOver' /\ AnswerHolds' /\ NothingIsMissed',
           \A b \in pane.bubbles : OfRow(b) => OfRow(b)' /\ rows'[b.m].home = rows[b.m].home,
           \A n \in Texts : n # t => rows'[n] = rows[n],
           rows[t] # NoRow => rows'[t] = rows[t],
           upsets' \in Nat
    PROVE  PaneInv'
  <1>1. /\ post' \in [Sends -> {Unsent} \union Posted]
        /\ post'[t] = one /\ one # Unsent
        /\ \A u \in Sends : u # t => post'[u] = post[u] /\ (NeverStored(u)' <=> NeverStored(u))
    BY PostMoves
  <1>2. PaneTypes'
    BY <1>1 DEF PaneInv, PaneTypes, Loaded
  <1>3. Sends \subseteq Texts
    BY DEF Texts
  <1>4. \A u \in Sends : /\ NeverStored(u) => NeverStored(u)'
                         /\ rows[u] # NoRow => rows'[u] = rows[u]
                         /\ post[u] # Unsent => post'[u] # Unsent /\ post'[u].home = post[u].home
                         /\ post'[u].step = post[u].step /\ post'[u].again = post[u].again
    BY <1>1, <1>3
  <1>5. PaneHolds'
    <2>1. \A b \in pane.bubbles :
            IF b.status \in Local THEN Unstored(b)'
            ELSE OfRow(b)' /\ (crossed' \/ rows'[b.m].home = shown')
      BY <1>4, BubblesKept
    <2> QED BY <2>1 DEF PaneInv, PaneHolds, Once
  <1>6. \A u \in Sends : PostsHold(u) /\ Again(u)
    BY PostParts DEF PaneInv
  <1>7. \A u \in Sends : PostsHold(u)'
    BY <1>1, <1>3, <1>6 DEF PostsHold
  <1>8. ASSUME NEW u \in Sends PROVE Again(u)'
    <2>1. post[u].again # None => post[u].again \in Sends
      BY PostsAreKnown DEF PaneInv
    <2>2. Again(u)
      BY <1>6
    <2> QED BY <1>4, <2>1, <2>2 DEF Again
  <1>9. PostHolds'
    BY <1>7, <1>8, PostParts
  <1>10. ComposerIsFreed'
    BY <1>4 DEF PaneInv, ComposerIsFreed
  <1> QED BY <1>2, <1>5, <1>9, <1>10 DEF PaneInv

\* A row that nothing changes keeps its bubbles.
LEMMA RowsAlone ==
    ASSUME PaneInv, rows' = rows
    PROVE  /\ rows' \in [Texts -> {NoRow} \union PaneRow]
           /\ \A b \in pane.bubbles : OfRow(b) => OfRow(b)' /\ rows'[b.m].home = rows[b.m].home
           /\ \A n \in Texts : rows'[n] = rows[n]
  BY DEF PaneInv, PaneTypes, OfRow

\* The sandbox repeats a request: what failed before is doubtful then.
LEMMA BlipKept ==
    ASSUME PaneInv, NEW t \in Sends, Blip(t)
    PROVE  PaneInv'
  <1>1. /\ post[t].step = "waiting" /\ post[t].second = "none" /\ upsets' = upsets + 1
        /\ post' = [post EXCEPT ![t].second = "sent"]
        /\ doubtful' = Doubted(t, post[t].first \in {"denied", "broken"})
        /\ UNCHANGED <<clock, rows, shown, pane, feedCall, isSending, late, crossed>>
    BY DEF Blip, Upset
  <1>2. post[t] # Unsent /\ post[t] \in Posted
    BY <1>1, PostsAreKnown DEF PaneInv
  <1> DEFINE one == [post[t] EXCEPT !.second = "sent"]
  <1>3. /\ one \in Posted /\ one.step = post[t].step /\ one.home = post[t].home
        /\ one.again = post[t].again /\ one.first = post[t].first /\ one.second = "sent"
    BY <1>2 DEF Posted, Outcomes
  <1>4. post' = [post EXCEPT ![t] = one]
    BY <1>1
  <1> HIDE DEF one
  <1>5. post'[t] = one
    BY <1>3, <1>4, PostMoves
  <1>6. PostsHold(t)'
    <2>1. PostsHold(t)
      BY PostParts DEF PaneInv
    <2>2. one.first \in {"denied", "broken"} => t \in doubtful'
      BY <1>1, <1>3 DEF Doubted
    <2> QED BY <1>1, <1>3, <1>5, <2>1, <2>2 DEF PostsHold
  <1>7. ~NeverStored(t)
    BY <1>1 DEF NeverStored
  <1>8. doubtful \subseteq doubtful' /\ doubtful' \subseteq doubtful \union {t}
    BY <1>1 DEF Doubted
  <1>9. upsets' \in Nat
    BY <1>1 DEF PaneInv, PaneTypes
  <1>10. Timely' /\ Aimed' /\ PassedOver' /\ AnswerHolds' /\ NothingIsMissed'
    BY <1>1, PostOnly
  <1> QED BY <1>1, <1>2, <1>3, <1>4, <1>6, <1>7, <1>8, <1>9, <1>10, RowsAlone, RequestMoves

\* One of a token's requests comes to another outcome.
LEMMA OneRequestMoves ==
    ASSUME PaneInv, NEW t \in Sends, NEW r \in Requests, NEW to \in Outcomes \ {"none"},
           post[t][r] \in {"sent", "checked"}, post' = [post EXCEPT ![t][r] = to]
    PROVE  \E one \in Posted :
             /\ post' = [post EXCEPT ![t] = one] /\ post'[t] = one
             /\ post[t] # Unsent /\ ~NeverStored(t)
             /\ one.step = post[t].step /\ one.home = post[t].home /\ one.again = post[t].again
             /\ \/ r = "first" /\ one.first = to /\ one.second = post[t].second
                     /\ post[t].first \in {"sent", "checked"}
                \/ r = "second" /\ one.second = to /\ one.first = post[t].first
                     /\ post[t].second \in {"sent", "checked"}
  <1>1. CASE r = "first"
    <2>1. post[t].first \in {"sent", "checked"} /\ post' = [post EXCEPT ![t].first = to]
      BY <1>1
    <2>2. post[t] # Unsent /\ post[t] \in Posted
      BY <2>1, PostsAreKnown DEF PaneInv
    <2> DEFINE one == [post[t] EXCEPT !.first = to]
    <2>3. /\ one \in Posted /\ one.step = post[t].step /\ one.home = post[t].home
          /\ one.again = post[t].again /\ one.first = to /\ one.second = post[t].second
      BY <2>2 DEF Posted
    <2>4. post' = [post EXCEPT ![t] = one]
      BY <2>1
    <2> HIDE DEF one
    <2>5. post'[t] = one
      BY <2>3, <2>4, PostMoves
    <2>6. ~NeverStored(t)
      BY <2>1 DEF NeverStored
    <2> QED BY <1>1, <2>1, <2>2, <2>3, <2>4, <2>5, <2>6
  <1>2. CASE r = "second"
    <2>1. post[t].second \in {"sent", "checked"} /\ post' = [post EXCEPT ![t].second = to]
      BY <1>2
    <2>2. post[t] # Unsent /\ post[t] \in Posted
      BY <2>1, PostsAreKnown DEF PaneInv
    <2> DEFINE one == [post[t] EXCEPT !.second = to]
    <2>3. /\ one \in Posted /\ one.step = post[t].step /\ one.home = post[t].home
          /\ one.again = post[t].again /\ one.second = to /\ one.first = post[t].first
      BY <2>2 DEF Posted
    <2>4. post' = [post EXCEPT ![t] = one]
      BY <2>1
    <2> HIDE DEF one
    <2>5. post'[t] = one
      BY <2>3, <2>4, PostMoves
    <2>6. ~NeverStored(t)
      BY <2>1 DEF NeverStored
    <2> QED BY <1>2, <2>1, <2>2, <2>3, <2>4, <2>5, <2>6
  <1> QED BY <1>1, <1>2 DEF Requests

\* The route looks for the token and checks: it denies, goes on, or finds a row.
LEMMA ChecksKept ==
    ASSUME PaneInv, NEW t \in Sends, NEW r \in Requests, RouteChecks(t, r)
    PROVE  PaneInv'
  <1>1. PICK to \in IF rows[t] = NoRow THEN {"checked", "denied"} ELSE {"accepted"} :
          /\ post' = [post EXCEPT ![t][r] = to]
          /\ doubtful' = Doubted(t, to = "denied" /\ post[t].second # "none")
    BY DEF RouteChecks
  <1>2. /\ post[t][r] = "sent"
        /\ UNCHANGED <<clock, rows, shown, pane, feedCall, isSending, upsets, late, crossed>>
    BY DEF RouteChecks
  <1>3. to \in Outcomes \ {"none"} /\ to \in {"checked", "denied", "accepted"}
        /\ (to = "accepted" <=> rows[t] # NoRow)
    BY <1>1 DEF Outcomes
  <1>4. PICK one \in Posted :
          /\ post' = [post EXCEPT ![t] = one] /\ post'[t] = one
          /\ post[t] # Unsent /\ ~NeverStored(t)
          /\ one.step = post[t].step /\ one.home = post[t].home /\ one.again = post[t].again
          /\ \/ r = "first" /\ one.first = to /\ one.second = post[t].second
                  /\ post[t].first \in {"sent", "checked"}
             \/ r = "second" /\ one.second = to /\ one.first = post[t].first
                  /\ post[t].second \in {"sent", "checked"}
    BY <1>1, <1>2, <1>3, OneRequestMoves
  <1>5. doubtful \subseteq doubtful' /\ doubtful' \subseteq doubtful \union {t}
        /\ (to = "denied" /\ post[t].second # "none" => t \in doubtful')
    BY <1>1 DEF Doubted
  <1>6. PostsHold(t)'
    <2>1. PostsHold(t)
      BY PostParts DEF PaneInv
    <2>2. rows[t] # NoRow <=> one.first = "accepted" \/ one.second = "accepted"
      BY <1>3, <1>4, <2>1 DEF PostsHold
    <2>3. one.second \in {"denied", "broken"} => t \in doubtful'
      BY <1>3, <1>4, <1>5, <2>1 DEF PostsHold
    <2>4. one.second # "none" /\ one.first \in {"denied", "broken"} => t \in doubtful'
      BY <1>3, <1>4, <1>5, <2>1 DEF PostsHold
    <2> QED BY <1>2, <1>4, <2>2, <2>3, <2>4 DEF PostsHold
  <1>7. upsets' \in Nat
    BY <1>2 DEF PaneInv, PaneTypes
  <1>8. Timely' /\ Aimed' /\ PassedOver' /\ AnswerHolds' /\ NothingIsMissed'
    BY <1>2, PostOnly
  <1> QED BY <1>2, <1>4, <1>5, <1>6, <1>7, <1>8, RowsAlone, RequestMoves

\* The route stores the row, finds that of the other request, or breaks.
LEMMA StoresKept ==
    ASSUME PaneInv, NEW t \in Sends, NEW r \in Requests, RouteStores(t, r)
    PROVE  PaneInv'
  <1>1. /\ post[t][r] = "checked"
        /\ UNCHANGED <<clock, shown, pane, feedCall, isSending, late, crossed>>
    BY DEF RouteStores
  <1>2. PICK to \in {"accepted", "broken"} :
          /\ post' = [post EXCEPT ![t][r] = to]
          /\ to = "broken" => rows' = rows
          /\ to = "accepted" =>
               \/ rows[t] # NoRow /\ rows' = rows
               \/ rows[t] = NoRow
                    /\ rows' = [rows EXCEPT ![t] =
                                  [home |-> post[t].home, status |-> "QUEUED", stamp |-> clock]]
          /\ doubtful' = Doubted(t, to = "broken" /\ post[t].second # "none")
          /\ upsets' \in {upsets, upsets + 1}
    BY DEF RouteStores, OnConflict, Upset, Doubted
  <1>3. to \in Outcomes \ {"none"}
    BY DEF Outcomes
  <1>4. PICK one \in Posted :
          /\ post' = [post EXCEPT ![t] = one] /\ post'[t] = one
          /\ post[t] # Unsent /\ ~NeverStored(t)
          /\ one.step = post[t].step /\ one.home = post[t].home /\ one.again = post[t].again
          /\ \/ r = "first" /\ one.first = to /\ one.second = post[t].second
                  /\ post[t].first \in {"sent", "checked"}
             \/ r = "second" /\ one.second = to /\ one.first = post[t].first
                  /\ post[t].second \in {"sent", "checked"}
    BY <1>1, <1>2, <1>3, OneRequestMoves
  <1>5. doubtful \subseteq doubtful' /\ doubtful' \subseteq doubtful \union {t}
        /\ (to = "broken" /\ post[t].second # "none" => t \in doubtful')
    BY <1>2 DEF Doubted
  <1>6. t \in Texts
    BY DEF Texts
  <1>7. /\ rows' \in [Texts -> {NoRow} \union PaneRow]
        /\ Timely' /\ Aimed' /\ PassedOver' /\ AnswerHolds' /\ NothingIsMissed'
        /\ \A b \in pane.bubbles : OfRow(b) => OfRow(b)' /\ rows'[b.m].home = rows[b.m].home
        /\ \A n \in Texts : n # t => rows'[n] = rows[n]
        /\ rows[t] # NoRow => rows'[t] = rows[t]
        /\ to = "accepted" => rows'[t] # NoRow
        /\ to # "accepted" => rows'[t] = rows[t]
    <2>1. CASE rows' = rows
      <3>1. Timely' /\ Aimed' /\ PassedOver' /\ AnswerHolds' /\ NothingIsMissed'
        BY <1>1, <2>1, PostOnly
      <3>2. to = "accepted" => rows[t] # NoRow
        <4> SUFFICES ASSUME to = "accepted", rows[t] = NoRow
                     PROVE  FALSE
          OBVIOUS
        <4> DEFINE put == [home |-> post[t].home, status |-> "QUEUED", stamp |-> clock]
        <4>1. rows' = [rows EXCEPT ![t] = put]
          BY <1>2
        <4>2. rows'[t] = put
          BY <1>6, <4>1 DEF PaneInv, PaneTypes
        <4>3. put.status = "QUEUED"
          OBVIOUS
        <4>4. put # NoRow
          <5>1. post[t].home \in Conversations
            BY <1>4, PostsAreKnown DEF PaneInv
          <5>2. put.home = post[t].home
            OBVIOUS
          <5> QED BY <1>6, <5>1, <5>2, RowsAreKnown DEF PaneInv
        <4> QED BY <2>1, <4>2, <4>4
      <3> QED BY <2>1, <3>1, <3>2, RowsAlone
    <2>2. CASE rows' # rows
      <3> DEFINE put == [home |-> post[t].home, status |-> "QUEUED", stamp |-> clock]
      <3>1. to = "accepted" /\ rows[t] = NoRow /\ rows' = [rows EXCEPT ![t] = put]
        BY <1>2, <2>2
      <3>2. clock \in Clocks /\ clock <= clock /\ post[t].home \in Conversations
        <4>1. clock \in Clocks /\ clock <= clock
          BY DEF PaneInv, PaneTypes, Clocks
        <4> QED BY <1>4, <4>1, PostsAreKnown DEF PaneInv
      <3>3. put \in PaneRow /\ put.stamp = clock
        BY <3>2 DEF PaneRow, Stored
      <3> HIDE DEF put
      <3>4. /\ rows' \in [Texts -> {NoRow} \union PaneRow]
            /\ Timely' /\ Aimed' /\ PassedOver' /\ AnswerHolds' /\ NothingIsMissed'
            /\ \A b \in pane.bubbles : OfRow(b) => OfRow(b)' /\ rows'[b.m].home = rows[b.m].home
            /\ \A n \in Texts : n # t => rows'[n] = rows[n]
            /\ rows'[t] = put /\ put # NoRow
        BY <1>1, <1>6, <3>1, <3>2, <3>3, RowGrows
      <3> QED BY <3>1, <3>4
    <2> QED BY <2>1, <2>2
  <1>8. PostsHold(t)'
    <2>1. PostsHold(t)
      BY PostParts DEF PaneInv
    <2>2. rows'[t] # NoRow <=> one.first = "accepted" \/ one.second = "accepted"
      BY <1>4, <1>7, <2>1 DEF PostsHold
    <2>3. one.second \in {"denied", "broken"} => t \in doubtful'
      BY <1>4, <1>5, <2>1 DEF PostsHold
    <2>4. one.second # "none" /\ one.first \in {"denied", "broken"} => t \in doubtful'
      BY <1>4, <1>5, <2>1 DEF PostsHold
    <2> QED BY <1>4, <2>2, <2>3, <2>4 DEF PostsHold
  <1>9. upsets' \in Nat
    BY <1>2 DEF PaneInv, PaneTypes
  <1> QED BY <1>1, <1>4, <1>5, <1>7, <1>8, <1>9, RequestMoves

\* A token is used: a bubble without a row, and a request.
LEMMA PerformKept ==
    ASSUME PaneInv, NEW t \in Sends, NEW of \in Sends \union {None}, Perform(t, of),
           of # None => of # t /\ \/ of \in doubtful \/ NeverStored(of)
                                  \/ rows[of] # NoRow /\ rows[of].status = "FAILED"
    PROVE  PaneInv'
  <1> DEFINE one == [step |-> "waiting", home |-> pane.home, from |-> shown,
                     again |-> of, first |-> "sent", second |-> "none"]
  <1>0. PICK mine : mine = [m |-> t, status |-> "LOCAL"]
    OBVIOUS
  <1>1. /\ Loaded /\ post[t] = Unsent
        /\ post' = [post EXCEPT ![t] = one]
        /\ pane' = [pane EXCEPT !.bubbles = Merge(pane.bubbles, {mine})]
        /\ isSending' = TRUE
        /\ UNCHANGED <<clock, rows, shown, feedCall, upsets, late, doubtful, crossed>>
    BY <1>0 DEF Perform
  <1>2. /\ pane.home \in Conversations /\ shown \in Conversations /\ pane.bubbles \subseteq Bubble
        /\ (crossed \/ pane.home = shown)
    BY <1>1 DEF PaneInv, PaneTypes, Aimed
  <1>3. one \in Posted
    BY <1>2 DEF Posted, Outcomes
  <1>4. /\ one.step = "waiting" /\ one.home = pane.home /\ one.again = of
        /\ one.first = "sent" /\ one.second = "none"
    OBVIOUS
  <1>5. mine \in Bubble /\ mine.m = t /\ mine.status = "LOCAL"
    BY <1>0 DEF Bubble, Texts, Local
  <1> HIDE DEF one
  <1>6. /\ post' \in [Sends -> {Unsent} \union Posted] /\ post'[t] = one /\ one # Unsent
        /\ \A u \in Sends : u # t => post'[u] = post[u] /\ (NeverStored(u)' <=> NeverStored(u))
    BY <1>1, <1>3, PostMoves
  <1>7. Once(pane.bubbles) /\ Once({mine})
    BY DEF PaneInv, PaneHolds, Once
  <1>8. /\ Once(Merge(pane.bubbles, {mine}))
        /\ \A b \in Merge(pane.bubbles, {mine}) : b = mine \/ b \in pane.bubbles
        /\ \A b \in pane.bubbles : b.m # t => b \in Merge(pane.bubbles, {mine})
    BY <1>5, <1>7, MergeIsOnce
  <1>9. /\ pane'.home = pane.home /\ pane'.since = pane.since
        /\ pane'.bubbles = Merge(pane.bubbles, {mine})
        /\ pane' \in [home : Conversations \union {None}, since : -1..MaxClock,
                      bubbles : SUBSET Bubble]
    <2>1. pane \in [home : Conversations \union {None}, since : -1..MaxClock,
                    bubbles : SUBSET Bubble]
      BY DEF PaneInv, PaneTypes
    <2>2. Merge(pane.bubbles, {mine}) \subseteq Bubble
      BY <1>2, <1>5, <1>8
    <2> QED BY <1>1, <2>1, <2>2
  <1>10. post[t].first = "none" /\ post[t].second = "none" /\ ~NeverStored(t)
    BY <1>1, PostsAreKnown DEF PaneInv, NeverStored
  <1>11. rows[t] = NoRow
    BY <1>10, PostParts DEF PaneInv, PostsHold
  <1>12. PaneTypes'
    <2>1. {isSending, crossed}' \subseteq BOOLEAN
      BY <1>1 DEF PaneInv, PaneTypes
    <2>2. Loaded' => pane'.home \in Conversations
      BY <1>2, <1>9
    <2> QED BY <1>1, <1>6, <1>9, <2>1, <2>2 DEF PaneInv, PaneTypes
  <1>13. Timely' /\ Aimed'
    BY <1>1, <1>9 DEF PaneInv, Timely, Aimed, Live, Loaded
  <1>14. PassedOver' /\ AnswerHolds'
    BY <1>1, <1>9 DEF PaneInv, PassedOver, AnswerHolds, Live, Rows, AsStored, OfRow, Once
  <1>15. NothingIsMissed'
    <2> SUFFICES ASSUME ~crossed, NEW m \in Rows(shown) \ late, rows[m].stamp < pane.since
                 PROVE  AsStored(m) \in Merge(pane.bubbles, {mine})
      <3>1. Rows(shown)' = Rows(shown)
        BY <1>1 DEF Rows
      <3> QED BY <1>1, <1>9, <3>1 DEF NothingIsMissed, AsStored
    <2>1. AsStored(m) \in pane.bubbles /\ AsStored(m).m = m
      BY DEF PaneInv, NothingIsMissed, AsStored
    <2>2. m # t
      <3>1. m \in Texts
        BY DEF Rows
      <3> QED BY <1>2, <1>11, <3>1, RowsAreKnown DEF PaneInv
    <2> QED BY <1>8, <2>1, <2>2
  <1>16. ASSUME NEW b \in pane.bubbles
         PROVE  IF b.status \in Local THEN Unstored(b)'
                ELSE OfRow(b)' /\ (crossed' \/ rows'[b.m].home = shown')
    <2>1. OfRow(b) => OfRow(b)' /\ rows'[b.m].home = rows[b.m].home
      BY <1>1 DEF OfRow
    <2>2. b.m \in Sends =>
             /\ post[b.m] # Unsent => post'[b.m] # Unsent /\ post'[b.m].home = post[b.m].home
             /\ post[b.m].step = "waiting" => post'[b.m].step = "waiting"
             /\ rows[b.m] # NoRow => rows'[b.m] # NoRow
             /\ NeverStored(b.m) => NeverStored(b.m)'
             /\ b.m \in doubtful => b.m \in doubtful'
      <3>1. CASE b.m = t
        BY <1>1, <1>4, <1>6, <1>10, <3>1
      <3>2. CASE b.m # t
        BY <1>1, <1>6, <3>2
      <3> QED BY <3>1, <3>2
    <2> QED BY <1>1, <2>1, <2>2, BubblesKept
  <1>17. Unstored(mine)'
    BY <1>1, <1>2, <1>4, <1>5, <1>6 DEF Unstored
  <1>18. PaneHolds'
    <2>1. ASSUME NEW b \in Merge(pane.bubbles, {mine})
          PROVE  IF b.status \in Local THEN Unstored(b)'
                 ELSE OfRow(b)' /\ (crossed' \/ rows'[b.m].home = shown')
      <3>1. CASE b = mine
        BY <1>5, <1>17, <3>1 DEF Local
      <3>2. CASE b \in pane.bubbles
        BY <1>16, <3>2
      <3> QED BY <1>8, <3>1, <3>2
    <2> QED BY <1>8, <1>9, <2>1 DEF PaneHolds, Once
  <1>19. PostHolds'
    <2>1. \A u \in Sends : PostsHold(u) /\ Again(u)
      BY PostParts DEF PaneInv
    <2>2. \A u \in Sends : PostsHold(u)'
      BY <1>1, <1>4, <1>6, <1>11, <2>1 DEF PostsHold
    <2>3. ASSUME NEW u \in Sends, u # t PROVE Again(u)'
      <3>1. PICK w : w = post[u].again
        OBVIOUS
      <3>2. w # None => w \in Sends
        BY <3>1, PostsAreKnown DEF PaneInv
      <3>3. w # None =>
              w \in doubtful \/ NeverStored(w) \/ (rows[w] # NoRow /\ rows[w].status = "FAILED")
        BY <2>1, <3>1 DEF Again
      <3>4. NeverStored(w) /\ w # None => NeverStored(w)'
        BY <1>6, <1>10, <3>2
      <3>5. post'[u].again = w
        BY <1>6, <2>3, <3>1
      <3>6. Again(u)' <=>
              (w # None => \/ w \in doubtful' \/ NeverStored(w)'
                           \/ rows'[w] # NoRow /\ rows'[w].status = "FAILED")
        BY <3>5 DEF Again, NeverStored
      <3> QED BY <1>1, <3>3, <3>4, <3>6
    <2>4. Again(t)'
      <3>1. of # None /\ NeverStored(of) => NeverStored(of)'
        BY <1>6
      <3>2. post'[t].again = of
        BY <1>4, <1>6
      <3>3. Again(t)' <=>
              (of # None => \/ of \in doubtful' \/ NeverStored(of)'
                            \/ rows'[of] # NoRow /\ rows'[of].status = "FAILED")
        BY <3>2 DEF Again, NeverStored
      <3> QED BY <1>1, <3>1, <3>3
    <2> QED BY <2>2, <2>3, <2>4, PostParts
  <1>20. ComposerIsFreed'
    BY <1>4, <1>6 DEF ComposerIsFreed
  <1> QED BY <1>12, <1>13, <1>14, <1>15, <1>18, <1>19, <1>20 DEF PaneInv

\* The composer sends a new text.
LEMMA NewTextKept ==
    ASSUME PaneInv, NEW t \in Sends, Submit(t)
    PROVE  PaneInv'
  BY PerformKept DEF Submit

\* A failed bubble is sent again: it was refused, doubted, or its row failed.
LEMMA RetryKept ==
    ASSUME PaneInv, NEW t \in Sends, NEW of \in Sends, Retry(t, of)
    PROVE  PaneInv'
  <1>1. PICK b \in pane.bubbles : b.m = of /\ b.status \in {"REFUSED", "FAILED"}
    BY DEF Retry
  <1>2. Perform(t, of) /\ post[t] = Unsent
    BY DEF Retry, Perform
  <1>3. IF b.status \in Local THEN Unstored(b)
        ELSE OfRow(b) /\ (crossed \/ rows[b.m].home = shown)
    BY DEF PaneInv, PaneHolds
  <1>4. CASE b.status = "REFUSED"
    <2>1. post[of] # Unsent /\ (of \in doubtful \/ NeverStored(of))
      BY <1>1, <1>3, <1>4 DEF Unstored, Local
    <2> QED BY <1>2, <2>1, PerformKept
  <1>5. CASE b.status = "FAILED"
    <2>1. rows[of] # NoRow /\ rows[of].status = "FAILED"
      BY <1>1, <1>3, <1>5 DEF OfRow, Local
    <2>2. of # t
      <3>1. post[t].first = "none" /\ post[t].second = "none"
        BY <1>2, PostsAreKnown DEF PaneInv
      <3>2. rows[t] = NoRow
        BY <3>1, PostParts DEF PaneInv, PostsHold
      <3> QED BY <2>1, <3>2
    <2> QED BY <1>2, <2>1, <2>2, PerformKept
  <1> QED BY <1>1, <1>4, <1>5

\* What a settled bubble was.
LEMMA SettledIs ==
    ASSUME PaneInv, NEW t \in Sends
    PROVE  LET mine == [m |-> t, status |-> "LOCAL"]
               failed == [m |-> t, status |-> "REFUSED"] IN
           /\ Settle(t).home = pane.home /\ Settle(t).since = pane.since
           /\ Settle(t) \in [home : Conversations \union {None}, since : -1..MaxClock,
                             bubbles : SUBSET Bubble]
           /\ \A b \in Settle(t).bubbles :
                (b \in pane.bubbles /\ b # mine) \/ (b = failed /\ mine \in pane.bubbles)
           /\ \A b \in pane.bubbles : b # mine => b \in Settle(t).bubbles
  <1> DEFINE mine == [m |-> t, status |-> "LOCAL"]
             failed == [m |-> t, status |-> "REFUSED"]
             new == {IF b = mine THEN [b EXCEPT !.status = "REFUSED"] ELSE b : b \in pane.bubbles}
  <1>1. pane \in [home : Conversations \union {None}, since : -1..MaxClock,
                  bubbles : SUBSET Bubble]
    BY DEF PaneInv, PaneTypes
  <1>2. Settle(t) = [pane EXCEPT !.bubbles = new]
    BY DEF Settle
  <1>3. [mine EXCEPT !.status = "REFUSED"] = failed
    OBVIOUS
  <1>4. failed \in Bubble
    BY DEF Bubble, Texts, Local
  <1>5. /\ \A b \in new : (b \in pane.bubbles /\ b # mine) \/ (b = failed /\ mine \in pane.bubbles)
        /\ \A b \in pane.bubbles : b # mine => b \in new
    BY <1>3
  <1> HIDE DEF new, mine, failed
  <1>6. new \subseteq Bubble
    BY <1>1, <1>4, <1>5
  <1>7. /\ Settle(t).home = pane.home /\ Settle(t).since = pane.since
        /\ Settle(t).bubbles = new
        /\ Settle(t) \in [home : Conversations \union {None}, since : -1..MaxClock,
                          bubbles : SUBSET Bubble]
    BY <1>1, <1>2, <1>6
  <1> QED BY <1>5, <1>7 DEF mine, failed

\* A request's answer ends the wait for it: what was, is, and nothing starts.
LEMMA WaitEnds ==
    ASSUME PaneInv, NEW t \in Sends, post[t].step = "waiting",
           post' = [post EXCEPT ![t].step = "done"],
           UNCHANGED <<rows>>, doubtful \subseteq doubtful', doubtful' \subseteq doubtful \union {t}
    PROVE  /\ post' \in [Sends -> {Unsent} \union Posted] /\ post[t] \in Posted
           /\ post'[t] # Unsent /\ post'[t].step = "done" /\ post'[t].home = post[t].home
           /\ post'[t].first = post[t].first /\ post'[t].second = post[t].second
           /\ post[t] # Unsent
           /\ \A u \in Sends : /\ u # t => post'[u] = post[u]
                               /\ NeverStored(u) => NeverStored(u)'
           /\ PostHolds'
  <1>1. post[t] \in Posted /\ post[t] # Unsent
    BY PostsAreKnown DEF PaneInv
  <1> DEFINE one == [post[t] EXCEPT !.step = "done"]
  <1>2. /\ one \in Posted /\ one.step = "done" /\ one.home = post[t].home
        /\ one.again = post[t].again /\ one.first = post[t].first /\ one.second = post[t].second
    BY <1>1 DEF Posted
  <1>3. post' = [post EXCEPT ![t] = one]
    OBVIOUS
  <1> HIDE DEF one
  <1>4. /\ post' \in [Sends -> {Unsent} \union Posted] /\ post'[t] = one /\ one # Unsent
        /\ \A u \in Sends : u # t => post'[u] = post[u] /\ (NeverStored(u)' <=> NeverStored(u))
    BY <1>2, <1>3, PostMoves
  <1>5. ~NeverStored(t)
    BY DEF NeverStored
  <1>6. \A u \in Sends : /\ NeverStored(u) => NeverStored(u)'
                         /\ post'[u].again = post[u].again /\ post'[u].first = post[u].first
                         /\ post'[u].second = post[u].second
    BY <1>2, <1>4, <1>5
  <1>7. \A u \in Sends : PostsHold(u) /\ Again(u)
    BY PostParts DEF PaneInv
  <1>8. \A u \in Sends : PostsHold(u)'
    BY <1>6, <1>7 DEF PostsHold
  <1>9. ASSUME NEW u \in Sends PROVE Again(u)'
    <2>1. PICK of : of = post[u].again
      OBVIOUS
    <2>2. of # None => of \in Sends
      BY <2>1, PostsAreKnown DEF PaneInv
    <2>3. of # None =>
            of \in doubtful \/ NeverStored(of) \/ (rows[of] # NoRow /\ rows[of].status = "FAILED")
      BY <1>7, <2>1 DEF Again
    <2>4. Again(u)' <=>
            (of # None => \/ of \in doubtful' \/ NeverStored(of)'
                          \/ rows'[of] # NoRow /\ rows'[of].status = "FAILED")
      BY <1>6, <2>1 DEF Again, NeverStored
    <2>5. of # None /\ NeverStored(of) => NeverStored(of)'
      BY <1>6, <2>2
    <2> QED BY <2>3, <2>4, <2>5
  <1>10. PostHolds'
    BY <1>8, <1>9, PostParts
  <1> QED BY <1>1, <1>2, <1>4, <1>6, <1>10

\* A send that was accepted refreshes, for the conversation it was pressed in.
LEMMA AcceptedKept ==
    ASSUME PaneInv, NEW t \in Sends, Accepted(t)
    PROVE  PaneInv'
  <1>1. /\ post[t].step = "waiting" /\ Answer(t) = "accepted"
        /\ post' = [post EXCEPT ![t].step = "done"] /\ isSending' = FALSE
        /\ feedCall' = Fetch(post[t].from)
        /\ crossed' = (crossed \/ (feedCall = NoCall /\ post[t].from # shown))
        /\ UNCHANGED <<clock, rows, shown, pane, upsets, late, doubtful>>
    BY DEF Accepted
  <1>2. /\ post' \in [Sends -> {Unsent} \union Posted] /\ post[t] \in Posted
        /\ post'[t] # Unsent /\ post'[t].step = "done" /\ post'[t].home = post[t].home
        /\ post[t] # Unsent
        /\ \A u \in Sends : /\ u # t => post'[u] = post[u]
                            /\ NeverStored(u) => NeverStored(u)'
        /\ PostHolds'
    BY <1>1, WaitEnds
  <1>3. post[t].from \in Conversations
    BY <1>2, PostsAreKnown DEF PaneInv
  <1>4. rows[t] # NoRow
    BY <1>1, PostParts DEF Answer, PaneInv, PostsHold
  <1>5. crossed' \in BOOLEAN /\ crossed \in BOOLEAN /\ (crossed => crossed')
    BY <1>1 DEF PaneInv, PaneTypes
  <1>6. /\ Timely' /\ Aimed' /\ PassedOver' /\ AnswerHolds'
        /\ feedCall' \in {NoCall} \union Asking \union Clocked \union Answering
    <2>1. CASE feedCall # NoCall
      <3>1. feedCall' = feedCall /\ crossed' = crossed
        BY <1>1, <1>5, <2>1 DEF Fetch
      <3>2. Timely' /\ Aimed' /\ PassedOver' /\ AnswerHolds'
        BY <1>1, <3>1, PostOnly
      <3> QED BY <3>1, <3>2 DEF PaneInv, PaneTypes
    <2>2. CASE feedCall = NoCall
      <3>1. feedCall' = [step |-> "asked", home |-> post[t].from, since |-> pane.since,
                         isVoid |-> FALSE]
        BY <1>1, <2>2 DEF Fetch
      <3>2. feedCall' \in Asking
        BY <1>3, <3>1 DEF Asking, PaneInv, PaneTypes
      <3>3. /\ feedCall'.step = "asked" /\ feedCall'.since = pane.since
            /\ feedCall'.home = post[t].from
        BY <3>1
      <3>4. ~crossed' => ~crossed /\ post[t].from = shown
        BY <1>1, <1>5, <2>2
      <3>5. Timely'
        BY <1>1, <3>3 DEF PaneInv, Timely
      <3>6. Aimed'
        BY <1>1, <3>3, <3>4 DEF PaneInv, Aimed, Live, Loaded
      <3>7. PassedOver' /\ AnswerHolds'
        BY <3>3 DEF PassedOver, AnswerHolds
      <3> QED BY <3>2, <3>5, <3>6, <3>7
    <2> QED BY <2>1, <2>2
  <1>7. PaneTypes'
    <2>1. {isSending, crossed}' \subseteq BOOLEAN
      BY <1>1, <1>5
    <2> QED BY <1>1, <1>2, <1>6, <2>1 DEF PaneInv, PaneTypes, Loaded
  <1>8. NothingIsMissed'
    <2>1. ~crossed' => ~crossed
      BY <1>5
    <2>2. Rows(shown)' = Rows(shown)
      BY <1>1 DEF Rows
    <2> QED BY <1>1, <2>1, <2>2 DEF PaneInv, NothingIsMissed
  <1>9. PaneHolds'
    <2>1. ASSUME NEW b \in pane.bubbles
          PROVE  (IF b.status \in Local THEN Unstored(b)
                  ELSE OfRow(b) /\ (crossed \/ rows[b.m].home = shown))'
      <3>1. IF b.status \in Local THEN Unstored(b)
            ELSE OfRow(b) /\ (crossed \/ rows[b.m].home = shown)
        BY DEF PaneInv, PaneHolds
      <3>2. CASE b.status \notin Local
        BY <1>1, <1>5, <3>1, <3>2 DEF OfRow
      <3>3. CASE b.status \in Local
        <4>1. Unstored(b)
          BY <3>1, <3>3
        <4>2. /\ b.m \in Sends /\ post'[b.m] # Unsent /\ post'[b.m].home = post[b.m].home
              /\ b.m # t => post'[b.m].step = post[b.m].step
              /\ NeverStored(b.m) => NeverStored(b.m)'
          BY <1>2, <4>1 DEF Unstored
        <4>3. Unstored(b)'
          BY <1>1, <1>4, <1>5, <4>1, <4>2 DEF Unstored
        <4> QED BY <3>3, <4>3
      <3> QED BY <3>2, <3>3
    <2> QED BY <1>1, <2>1 DEF PaneInv, PaneHolds, Once
  <1>10. ComposerIsFreed'
    BY <1>1 DEF ComposerIsFreed
  <1> QED BY <1>2, <1>6, <1>7, <1>8, <1>9, <1>10 DEF PaneInv

\* A bubble whose send failed, or was given up, is marked: only if it has no row.
LEMMA SettleKept ==
    ASSUME PaneInv, NEW t \in Sends, post[t].step = "waiting",
           post' = [post EXCEPT ![t].step = "done"], pane' = Settle(t), isSending' = FALSE,
           doubtful \subseteq doubtful', doubtful' \subseteq doubtful \union {t},
           t \in doubtful' \/ (post[t].second = "none" /\ post[t].first \in {"denied", "broken"}),
           UNCHANGED <<clock, rows, shown, feedCall, late, crossed>>, upsets' \in Nat
    PROVE  PaneInv'
  <1> DEFINE failed == [m |-> t, status |-> "REFUSED"]
  <1>0. PICK mine : mine = [m |-> t, status |-> "LOCAL"]
    OBVIOUS
  <1>1. /\ post' \in [Sends -> {Unsent} \union Posted]
        /\ post'[t] # Unsent /\ post'[t].step = "done" /\ post'[t].home = post[t].home
        /\ post'[t].first = post[t].first /\ post'[t].second = post[t].second
        /\ post[t] # Unsent
        /\ \A u \in Sends : /\ u # t => post'[u] = post[u]
                            /\ NeverStored(u) => NeverStored(u)'
        /\ PostHolds'
    BY WaitEnds
  <1>2. PICK new : new = pane'.bubbles
    OBVIOUS
  <1>3. PICK refused : refused = failed
    OBVIOUS
  <1>4. /\ pane'.home = pane.home /\ pane'.since = pane.since
        /\ pane' \in [home : Conversations \union {None}, since : -1..MaxClock,
                      bubbles : SUBSET Bubble]
        /\ \A b \in new : (b \in pane.bubbles /\ b # mine) \/ (b = refused /\ mine \in pane.bubbles)
        /\ \A b \in pane.bubbles : b # mine => b \in new
    BY <1>0, <1>2, <1>3, SettledIs
  <1>5. mine.m = t /\ mine.status = "LOCAL" /\ refused.m = t /\ refused.status = "REFUSED"
    BY <1>0, <1>3
  <1> HIDE DEF failed
  <1>6. PaneTypes'
    <2>1. {isSending, crossed}' \subseteq BOOLEAN
      BY DEF PaneInv, PaneTypes
    <2>2. Loaded' => pane'.home \in Conversations
      BY <1>4 DEF PaneInv, PaneTypes, Loaded
    <2>3. doubtful' \subseteq Sends
      BY DEF PaneInv, PaneTypes
    <2> QED BY <1>1, <1>4, <2>1, <2>2, <2>3 DEF PaneInv, PaneTypes
  <1>7. Timely' /\ Aimed'
    BY <1>4 DEF PaneInv, Timely, Aimed, Live, Loaded
  <1>8. PassedOver' /\ AnswerHolds'
    BY <1>4 DEF PaneInv, PassedOver, AnswerHolds, Live, Rows, AsStored, OfRow, Once
  <1>9. NothingIsMissed'
    <2> SUFFICES ASSUME ~crossed, NEW m \in Rows(shown) \ late, rows[m].stamp < pane.since
                 PROVE  AsStored(m) \in new
      <3>1. Rows(shown)' = Rows(shown)
        BY DEF Rows
      <3> QED BY <1>2, <1>4, <3>1 DEF NothingIsMissed, AsStored
    <2>1. AsStored(m) \in pane.bubbles
      BY DEF PaneInv, NothingIsMissed, AsStored
    <2>2. AsStored(m).status \in Stored
      <3>1. m \in Texts
        BY DEF Rows
      <3>2. shown \in Conversations
        BY DEF PaneInv, PaneTypes
      <3>3. AsStored(m).status = rows[m].status
        BY DEF AsStored
      <3> QED BY <3>1, <3>2, <3>3, RowsAreKnown DEF PaneInv
    <2>3. AsStored(m) # mine
      BY <1>5, <2>2 DEF Stored
    <2> QED BY <1>4, <2>1, <2>3
  <1>10. ASSUME NEW b \in pane.bubbles, b # mine
         PROVE  (IF b.status \in Local THEN Unstored(b)
                 ELSE OfRow(b) /\ (crossed \/ rows[b.m].home = shown))'
    <2>1. IF b.status \in Local THEN Unstored(b)
          ELSE OfRow(b) /\ (crossed \/ rows[b.m].home = shown)
      BY DEF PaneInv, PaneHolds
    <2>2. CASE b.status \notin Local
      BY <2>1, <2>2 DEF OfRow
    <2>3. CASE b.status \in Local
      <3>1. Unstored(b)
        BY <2>1, <2>3
      <3>2. /\ b.m \in Sends /\ post'[b.m] # Unsent /\ post'[b.m].home = post[b.m].home
            /\ b.m # t => post'[b.m].step = post[b.m].step
            /\ NeverStored(b.m) => NeverStored(b.m)'
        BY <1>1, <3>1 DEF Unstored
      <3>3. ~(b.m = t /\ b.status = "LOCAL")
        <4>1. b \in Bubble
          BY DEF PaneInv, PaneTypes
        <4> QED BY <1>0, <1>10, <4>1 DEF Bubble
      <3>4. Unstored(b)'
        BY <3>1, <3>2, <3>3 DEF Unstored
      <3> QED BY <2>3, <3>4
    <2> QED BY <2>2, <2>3
  <1>11. ASSUME mine \in pane.bubbles
         PROVE  refused.status \in Local /\ Unstored(refused)'
    <2>1. IF mine.status \in Local THEN Unstored(mine)
          ELSE OfRow(mine) /\ (crossed \/ rows[mine.m].home = shown)
      BY <1>11 DEF PaneInv, PaneHolds
    <2>2. crossed \/ post[t].home = shown
      BY <1>5, <2>1 DEF Unstored, Local
    <2>3. t \in doubtful' \/ NeverStored(t)'
      BY <1>1 DEF NeverStored
    <2> QED BY <1>1, <1>5, <2>2, <2>3 DEF Unstored, Local
  <1>12. Once(new)
    <2>1. Once(pane.bubbles)
      BY DEF PaneInv, PaneHolds
    <2> QED BY <1>4, <1>5, <2>1 DEF Once
  <1>13. PaneHolds'
    <2>1. \A b \in new : (IF b.status \in Local THEN Unstored(b)
                          ELSE OfRow(b) /\ (crossed \/ rows[b.m].home = shown))'
      BY <1>4, <1>10, <1>11
    <2> QED BY <1>2, <1>12, <2>1 DEF PaneHolds, Once
  <1>14. ComposerIsFreed'
    BY DEF ComposerIsFreed
  <1> QED BY <1>1, <1>6, <1>7, <1>8, <1>9, <1>13, <1>14 DEF PaneInv

\* A send was denied, or broke.
LEMMA RefusedKept ==
    ASSUME PaneInv, NEW t \in Sends, Refused(t)
    PROVE  PaneInv'
  <1>1. /\ post[t].step = "waiting" /\ Answer(t) \in {"denied", "broken"}
        /\ post' = [post EXCEPT ![t].step = "done"] /\ pane' = Settle(t) /\ isSending' = FALSE
        /\ UNCHANGED <<clock, rows, shown, feedCall, upsets, late, doubtful, crossed>>
    BY DEF Refused
  <1>2. t \in doubtful \/ (post[t].second = "none" /\ post[t].first \in {"denied", "broken"})
    BY <1>1, PostParts DEF Answer, PaneInv, PostsHold
  <1>3. upsets' \in Nat
    BY <1>1 DEF PaneInv, PaneTypes
  <1> QED BY <1>1, <1>2, <1>3, SettleKept

\* No answer came.
LEMMA GivenUpKept ==
    ASSUME PaneInv, NEW t \in Sends, GivenUp(t)
    PROVE  PaneInv'
  <1>1. /\ post[t].step = "waiting" /\ upsets' = upsets + 1
        /\ post' = [post EXCEPT ![t].step = "done"] /\ pane' = Settle(t) /\ isSending' = FALSE
        /\ doubtful' = doubtful \union {t}
        /\ UNCHANGED <<clock, rows, shown, feedCall, late, crossed>>
    BY DEF GivenUp, Upset
  <1>2. upsets' \in Nat
    BY <1>1 DEF PaneInv, PaneTypes
  <1> QED BY <1>1, <1>2, SettleKept

\* The pane opens empty.
LEMMA PaneStart ==
    ASSUME PaneInit
    PROVE  PaneInv
  <1> USE ConversationPaneAssumption DEF PaneInit
  <1>1. /\ pane.home = None /\ pane.since = -1 /\ pane.bubbles = {}
        /\ pane \in [home : Conversations \union {None}, since : -1..MaxClock,
                     bubbles : SUBSET Bubble]
    BY DEF EmptyPane
  <1>2. clock \in Clocks /\ clock = 0
    BY DEF Clocks
  <1>3. feedCall = NoCall /\ feedCall.step = "idle" /\ ~Live
    BY DEF NoCall, Live
  <1>4. \A m \in Texts : rows[m] = NoRow
    OBVIOUS
  <1>5. \A t \in Sends :
          post[t].first = "none" /\ post[t].second = "none" /\ post[t].again = None
    BY DEF Unsent
  <1>6. Sends \subseteq Texts
    BY DEF Texts
  <1>7. PaneTypes
    <2>1. {isSending, crossed} \subseteq BOOLEAN
      OBVIOUS
    <2>2. rows \in [Texts -> {NoRow} \union PaneRow] /\ post \in [Sends -> {Unsent} \union Posted]
      OBVIOUS
    <2>3. ~Loaded
      BY <1>1 DEF Loaded
    <2>4. upsets \in Nat /\ late \subseteq Texts /\ doubtful \subseteq Sends
      OBVIOUS
    <2> QED BY <1>1, <1>2, <1>3, <2>1, <2>2, <2>3, <2>4 DEF PaneTypes
  <1>8. Timely
    BY <1>1, <1>2, <1>3, <1>4 DEF Timely
  <1>9. Aimed /\ PassedOver /\ AnswerHolds
    BY <1>1, <1>3 DEF Aimed, PassedOver, AnswerHolds, Loaded
  <1>10. PaneHolds
    BY <1>1 DEF PaneHolds, Once
  <1>11. PostHolds
    BY <1>4, <1>5, <1>6 DEF PostHolds
  <1>12. NothingIsMissed
    <2>1. ASSUME NEW m \in Rows(shown) PROVE FALSE
      <3>1. m \in Texts
        BY DEF Rows
      <3> QED BY <1>4, <1>7, <2>1, <3>1, RowsAreKnown
    <2> QED BY <2>1 DEF NothingIsMissed
  <1>13. ComposerIsFreed
    BY DEF ComposerIsFreed
  <1> QED BY <1>7, <1>8, <1>9, <1>10, <1>11, <1>12, <1>13 DEF PaneInv

\* Every step keeps the invariant.
LEMMA PaneStep ==
    ASSUME PaneInv, [PaneNext]_paneVars
    PROVE  PaneInv'
  <1>1. CASE Ask \/ ServeClock \/ ServeRead \/ Arrive \/ FeedFails \/ PaneTime
    BY <1>1, AskKept, ClockKept, ReadKept, ArriveKept, FeedFailsKept, TimeKept
  <1>2. CASE \E c \in Conversations : Show(c)
    BY <1>2, ShowKept
  <1>3. CASE \E m \in Texts : Write(m)
    BY <1>3, WriteKept
  <1>4. CASE \E t \in Sends : Submit(t) \/ Blip(t) \/ Accepted(t) \/ Refused(t) \/ GivenUp(t)
    BY <1>4, NewTextKept, BlipKept, AcceptedKept, RefusedKept, GivenUpKept
  <1>5. CASE \E t \in Sends, of \in Sends : Retry(t, of)
    BY <1>5, RetryKept
  <1>6. CASE \E t \in Sends, r \in Requests : RouteChecks(t, r) \/ RouteStores(t, r)
    BY <1>6, ChecksKept, StoresKept
  <1>7. CASE UNCHANGED paneVars
    <2>1. UNCHANGED <<clock, rows, shown, pane, post, isSending, late, doubtful, crossed>>
            /\ feedCall' = feedCall /\ upsets' = upsets
      BY <1>7 DEF paneVars
    <2>2. PaneTypes'
      BY <2>1 DEF PaneInv, PaneTypes, Loaded
    <2>3. Timely' /\ Aimed' /\ PassedOver' /\ AnswerHolds' /\ NothingIsMissed'
      BY <2>1, PostOnly
    <2>4. PaneHolds' /\ PostHolds' /\ ComposerIsFreed'
      BY <2>1, CallOnly
    <2> QED BY <2>2, <2>3, <2>4 DEF PaneInv
  <1> QED BY <1>1, <1>2, <1>3, <1>4, <1>5, <1>6, <1>7 DEF PaneNext

\* The invariant holds.
THEOREM PaneInvariant == PaneSpec => []PaneInv
  <1>1. PaneInit => PaneInv
    BY PaneStart
  <1>2. PaneInv /\ [PaneNext]_paneVars => PaneInv'
    BY PaneStep
  <1> QED BY <1>1, <1>2, PTL DEF PaneSpec

\* The pane, its cursor and the stored rows have their types.
THEOREM PaneIsTyped == PaneSpec => []PaneTypeOK
  <1>1. PaneInv => PaneTypeOK
    BY DEF PaneInv, PaneTypes, PaneTypeOK, PaneRow, Clocks
  <1> QED BY <1>1, PaneInvariant, PTL

\* The pane tells what is stored, once and in its conversation, and what is not
\* stored as such; a second send, and whatever is missed, has a named cause.
THEOREM PaneCorrect == PaneSpec => []PaneIsHonest
  <1>1. PaneInv => PaneIsHonest
    <2> SUFFICES ASSUME PaneInv
                 PROVE  PaneIsHonest
      OBVIOUS
    <2>1. \A t \in Sends : PostsHold(t) /\ Again(t)
      BY PostParts DEF PaneInv
    <2>2. \A t \in Sends : NeverStored(t) => rows[t] = NoRow
      BY <2>1 DEF PostsHold, NeverStored
    <2>3. /\ Once(pane.bubbles)
          /\ \A b \in pane.bubbles :
               IF b.status \in Local THEN Unstored(b)
               ELSE OfRow(b) /\ (crossed \/ rows[b.m].home = shown)
      BY DEF PaneInv, PaneHolds
    <2>4. EachOnceAtHome
      <3>1. ASSUME NEW b \in pane.bubbles
            PROVE  crossed \/ shown = IF b.status \in Local THEN post[b.m].home ELSE rows[b.m].home
        BY <2>3 DEF Unstored
      <3> QED BY <2>3, <3>1 DEF EachOnceAtHome, Once
    <2>5. BubblesAreTrue
      <3>1. ASSUME NEW b \in pane.bubbles
            PROVE  /\ b.status = "LOCAL" => post[b.m].step = "waiting" \/ rows[b.m] # NoRow
                   /\ b.status = "REFUSED" => rows[b.m] = NoRow \/ b.m \in doubtful
        BY <2>2, <2>3 DEF Unstored, Local
      <3> QED BY <3>1 DEF BubblesAreTrue
    <2>6. SecondSendHasACause
      <3>1. ASSUME NEW t \in Sends, post[t].again # None
            PROVE  post[t].again \in Sends
        BY <3>1, PostsAreKnown DEF PaneInv
      <3> QED BY <2>1, <2>2, <3>1 DEF SecondSendHasACause, Again
    <2> QED BY <2>4, <2>5, <2>6 DEF PaneInv, PaneIsHonest
  <1> QED BY <1>1, PaneInvariant, PTL

(***************************************************************************)
(* InboxDesk: the inductive invariant.                                     *)
(***************************************************************************)
InboxRows == [owner : Members \union {Nobody}, closed : BOOLEAN, read : BOOLEAN,
              last : 1..(MaxHitches + 1)]
ThreadPages == [known : {TRUE}, sees : SUBSET Deeds, of : Filters,
                ids : UNION {[1..n -> Threads] : n \in 0..PageSize},
                rows : UNION {[some -> InboxRows] : some \in SUBSET Threads}]
Totals == [known : {TRUE}, sees : SUBSET Deeds, counts : [Filters -> Nat]]
FeedAnswers == ThreadPages \union Totals
AskedOnes == [step : {"asked"}, of : Filters, isVoid : BOOLEAN]
ReadOnes == [step : {"read"}, of : Filters, isVoid : BOOLEAN, answer : FeedAnswers]
FeedRecords == [data : FeedAnswers \union {NoData},
                call : AskedOnes \union ReadOnes \union {Idle},
                isLoading : BOOLEAN, error : Filters \union {"none"}, isSuspended : BOOLEAN,
                lastTouch : Nat]

OpenDeeds == [step : {"asked", "recorded", "done"}, by : Members, kind : Kinds,
              thread : Threads, ok : BOOLEAN, of : Filters]
ReadDeeds == [step : {"read", "patched", "recorded", "done"}, by : Members, kind : Kinds,
              thread : Threads, ok : BOOLEAN, of : Filters, from : Members \union {Nobody}]

InboxTypes ==
    /\ watch \in {"screen", "toast"}
    /\ row \in [Threads -> InboxRows]
    /\ filter \in Filters /\ selected \in Threads \union {Nowhere} /\ search \in BOOLEAN
    /\ feed \in [Feeds -> FeedRecords]
    /\ deed \in [Deeds -> OpenDeeds \union ReadDeeds \union {Undone}]
    /\ seeded \in BOOLEAN /\ seen \in [Threads -> Nat]
    /\ trail \in [Threads -> Members \union {Nobody}]
    /\ quarter \in Nat /\ hitches \in 0..MaxHitches
    /\ \A t \in Threads : row[t].last <= hitches + 1

\* What a feed has read is what it is for.
ReadIsKept(f) ==
    LET these == IF f = "counts" THEN Totals ELSE ThreadPages IN
    /\ feed[f].data \in these \union {NoData}
    /\ feed[f].call \in ReadOnes => feed[f].call.answer \in these
    /\ feed[f].call # Idle /\ feed[f].call.isVoid => f = "list"

\* The list: a void call has emptied it, an empty one waits or says so, and
\* what it has, asks for or complains of is the filter that is pressed.
ListHolds ==
    LET r == feed["list"] IN
    /\ r.call # Idle /\ r.call.isVoid => r.data = NoData /\ "switched" \in noted
    /\ r.data = NoData /\ noted \intersect {"switched", "stopped"} = {} =>
         r.error # "none" \/ (r.call # Idle /\ r.isLoading)
    /\ noted \intersect {"failed", "left"} = {} => r.error \in {"none", filter}
    /\ "left" \notin noted =>
         /\ r.data # NoData => r.data.of = filter
         /\ r.call # Idle /\ ~r.call.isVoid => r.call.of = filter
    /\ r.call \in ReadOnes => r.call.answer.of = r.call.of

\* Whoever has yet to read will see the deed; who has read, has seen it.
DeedIsSeen(d, r) ==
    \/ r.call \in AskedOnes
    \/ r.call \in ReadOnes /\ (r.call.isVoid \/ d \in r.call.answer.sees)
    \/ r.call = Idle /\ (r.data = NoData \/ r.error # "none" \/ d \in r.data.sees)
DeedsAreSeen ==
    watch = "screen" /\ "skipped" \notin noted =>
        \A d \in Deeds, f \in {"list", "counts"} :
            deed[d].step = "done" /\ deed[d].by = "me" /\ deed[d].ok => DeedIsSeen(d, feed[f])

\* The toaster has seen no more than there is, and announced no more than it
\* has seen.
SeenIsBehind ==
    LET r == feed["toast"] IN
    /\ "twice" \notin noted
    /\ \A t \in Threads : seen[t] <= row[t].last
    /\ r.call \in ReadOnes => \A t \in DOMAIN r.call.answer.rows :
         seen[t] <= r.call.answer.rows[t].last /\ r.call.answer.rows[t].last <= row[t].last
    /\ r.data # NoData => \A t \in DOMAIN r.data.rows : seen[t] = r.data.rows[t].last
    /\ \A news \in Announced : news \in Threads \X Nat /\ news[2] <= seen[news[1]]

\* What it has seen that is newer than the first page was announced.
NewsHolds ==
    "early" \notin noted =>
        /\ seeded \/ \A t \in Threads : row[t].last = 1
        /\ \A t \in Threads : seen[t] > 1 => <<t, seen[t]>> \in Announced

\* Old messages were in the first page, unless their conversation was not.
Old(r) == r.last = 1 /\ Holds("mine", r)
OldIsSeen ==
    LET r == feed["toast"] IN
    noted \intersect {"joined", "crowded"} = {} =>
        /\ seeded => \A t \in Threads : Old(row[t]) => seen[t] >= 1
        /\ r.call \in ReadOnes =>
             /\ \A t \in Threads : Old(row[t]) => t \in DOMAIN r.call.answer.rows
             /\ seeded => \A t \in DOMAIN r.call.answer.rows :
                  r.call.answer.rows[t].last = 1 => seen[t] >= 1
        /\ \A news \in Announced : news[2] # 1

\* An assignment under way has the owner it read, or its own is in the row and
\* not in the trail; there is one at a time of a conversation.
UnderWayAt(d, t) ==
    deed[d].step \in {"read", "patched"} /\ Assigns(d) /\ deed[d].thread = t
TrailHolds ==
    "overlap" \in noted \/
        /\ "gap" \notin noted
        /\ \A d, e \in Deeds, t \in Threads : UnderWayAt(d, t) /\ UnderWayAt(e, t) => d = e
        /\ \A d \in Deeds, t \in Threads : UnderWayAt(d, t) => deed[d].from = trail[t]
        /\ \A d \in Deeds, t \in Threads :
             UnderWayAt(d, t) /\ deed[d].step = "patched" => row[t].owner = NewOwner(d)
        /\ \A t \in Threads :
             \/ trail[t] = row[t].owner
             \/ \E d \in Deeds : UnderWayAt(d, t) /\ deed[d].step = "patched"

InboxInv ==
    /\ InboxTypes /\ (\A f \in Feeds : ReadIsKept(f)) /\ ListHolds /\ DeedsAreSeen
    /\ SeenIsBehind /\ NewsHolds /\ OldIsSeen /\ TrailHolds

\* What the assumption says of the constants, and the kinds of records apart.
LEMMA InboxConstants ==
    /\ "mine" \in Filters /\ "none" \notin Filters /\ "counts" \notin Filters
    /\ PageSize \in Nat /\ MaxHitches \in Nat /\ Nobody \notin Members
  BY InboxDeskAssumption DEF Members

\* A feed has read something, or it has not.
LEMMA DataKnown ==
    /\ NoData \notin FeedAnswers
    /\ \A x \in FeedAnswers \union {NoData} : x.known <=> x # NoData
    /\ \A x \in ThreadPages : x \notin Totals
  <1>1. NoData.known = FALSE
    BY DEF NoData
  <1>2. \A x \in FeedAnswers : x.known = TRUE
    BY DEF FeedAnswers, ThreadPages, Totals
  <1>3. NoData \notin FeedAnswers
    BY <1>1, <1>2
  <1>4. ASSUME NEW x \in FeedAnswers \union {NoData}
        PROVE  x.known <=> x # NoData
    BY <1>1, <1>2, <1>3
  <1>5. ASSUME NEW x \in ThreadPages, x \in Totals
        PROVE  FALSE
    <2>1. DOMAIN x = {"known", "sees", "of", "ids", "rows"}
      BY DEF ThreadPages
    <2>2. DOMAIN x = {"known", "sees", "counts"}
      BY <1>5 DEF Totals
    <2> QED BY <2>1, <2>2
  <1> QED BY <1>3, <1>4, <1>5

\* A call is idle, asked or read.
LEMMA CallsApart ==
    /\ Idle \notin AskedOnes /\ Idle \notin ReadOnes
    /\ \A c \in AskedOnes : c \notin ReadOnes /\ c.step = "asked"
    /\ \A c \in ReadOnes : c.step = "read"
    /\ Idle.step = "idle"
    /\ \A of \in Filters : Asked(of) \in AskedOnes /\ Asked(of).of = of /\ ~Asked(of).isVoid
  <1>1. Idle.step = "idle"
    BY DEF Idle
  <1>2. \A c \in AskedOnes : c.step = "asked"
    BY DEF AskedOnes
  <1>3. \A c \in ReadOnes : c.step = "read"
    BY DEF ReadOnes
  <1>4. \A of \in Filters : Asked(of) \in AskedOnes /\ Asked(of).of = of /\ ~Asked(of).isVoid
    BY DEF Asked, AskedOnes
  <1> QED BY <1>1, <1>2, <1>3, <1>4

\* The fields of a feed.
LEMMA FeedFields ==
    ASSUME NEW r \in FeedRecords
    PROVE  /\ r.data \in FeedAnswers \union {NoData}
           /\ r.call \in AskedOnes \union ReadOnes \union {Idle}
           /\ r.isLoading \in BOOLEAN /\ r.error \in Filters \union {"none"}
           /\ r.isSuspended \in BOOLEAN /\ r.lastTouch \in Nat
  BY DEF FeedRecords

\* A feed that is touched, and one that is asked.
LEMMA TouchedIs ==
    ASSUME NEW r \in FeedRecords, quarter \in Nat
    PROVE  /\ Touch(r) \in FeedRecords
           /\ Touch(r).data = r.data /\ Touch(r).call = r.call /\ Touch(r).error = r.error
           /\ Touch(r).isLoading = r.isLoading /\ Touch(r).isSuspended = r.isSuspended
  BY DEF Touch, FeedRecords

\* What a fetch leaves of a feed: it asks if nothing is under way.
Fetched(r, s, of) ==
    /\ s.data = r.data /\ s.error = r.error /\ s.isSuspended = r.isSuspended
    /\ r.call # Idle => s.call = r.call /\ s.isLoading = r.isLoading
    /\ r.call = Idle => /\ s.call = Asked(of)
                        /\ s.isLoading = (r.isLoading \/ ~r.data.known)
LEMMA FetchedIs ==
    ASSUME NEW r \in FeedRecords, NEW of \in Filters
    PROVE  FetchOnce(r, of) \in FeedRecords /\ Fetched(r, FetchOnce(r, of), of)
  <1>1. CASE r.call # Idle
    BY <1>1 DEF FetchOnce, Fetched
  <1>2. CASE r.call = Idle
    <2>1. Asked(of) \in AskedOnes /\ (r.isLoading \/ ~r.data.known) \in BOOLEAN
      BY CallsApart
    <2>2. FetchOnce(r, of) = [r EXCEPT !.call = Asked(of),
                                       !.isLoading = r.isLoading \/ ~r.data.known]
      BY <1>2 DEF FetchOnce, FeedRecords
    <2>3. PICK b \in BOOLEAN : b = (r.isLoading \/ ~r.data.known)
      BY <2>1
    <2>4. FetchOnce(r, of) = [r EXCEPT !.call = Asked(of), !.isLoading = b]
      BY <2>2, <2>3
    <2>5. FetchOnce(r, of) \in FeedRecords
      BY <2>1, <2>4 DEF FeedRecords
    <2>6. /\ FetchOnce(r, of).data = r.data /\ FetchOnce(r, of).error = r.error
          /\ FetchOnce(r, of).isSuspended = r.isSuspended
          /\ FetchOnce(r, of).call = Asked(of) /\ FetchOnce(r, of).isLoading = b
      BY <2>4 DEF FeedRecords
    <2> QED BY <1>2, <2>3, <2>5, <2>6 DEF Fetched
  <1> QED BY <1>1, <1>2

\* A refresh is both.
LEMMA RefreshedIs ==
    ASSUME NEW r \in FeedRecords, NEW of \in Filters, quarter \in Nat
    PROVE  Refresh(r, of) \in FeedRecords /\ Fetched(r, Refresh(r, of), of)
  <1>1. Touch(r) \in FeedRecords
    BY TouchedIs
  <1>2. Refresh(r, of) \in FeedRecords /\ Fetched(Touch(r), Refresh(r, of), of)
    BY <1>1, FetchedIs DEF Refresh
  <1> QED BY <1>2, TouchedIs DEF Fetched

\* A feed that goes on as it was, or asks again.
Goes(r, s) ==
    /\ s.data = r.data /\ s.error = r.error
    /\ \/ s.call = r.call /\ s.isLoading = r.isLoading
       \/ /\ r.call = Idle /\ s.call \in AskedOnes /\ ~s.call.isVoid
          /\ s.isLoading = (r.isLoading \/ ~r.data.known)

\* A fetch is such a step.
LEMMA FetchedGoes ==
    ASSUME NEW r, NEW s, NEW of \in Filters, Fetched(r, s, of)
    PROVE  Goes(r, s) /\ (r.call = Idle => s.call.of = of)
  <1>1. Asked(of) \in AskedOnes /\ Asked(of).of = of /\ ~Asked(of).isVoid
    BY CallsApart
  <1> QED BY <1>1 DEF Fetched, Goes

\* What feeds that go on still have.
LEMMA FeedsGo ==
    ASSUME InboxTypes, \A f \in Feeds : ReadIsKept(f), ListHolds,
           \A f \in Feeds : Goes(feed[f], feed'[f]), filter' = filter, noted \subseteq noted',
           \/ feed'["list"].call = feed["list"].call
           \/ "left" \in noted' \/ feed'["list"].call.of = filter
    PROVE  (\A f \in Feeds : ReadIsKept(f)') /\ ListHolds'
  <1>1. ASSUME NEW f \in Feeds
        PROVE  ReadIsKept(f)'
    <2>1. ReadIsKept(f) /\ Goes(feed[f], feed'[f])
      OBVIOUS
    <2>2. CASE feed'[f].call = feed[f].call
      BY <2>1, <2>2 DEF ReadIsKept, Goes
    <2>3. CASE feed'[f].call \in AskedOnes /\ ~feed'[f].call.isVoid
      BY <2>1, <2>3, CallsApart DEF ReadIsKept, Goes
    <2> QED BY <2>1, <2>2, <2>3 DEF Goes
  <1>2. ListHolds'
    <2>1. PICK r : r = feed["list"]
      OBVIOUS
    <2>2. PICK s : s = feed'["list"]
      OBVIOUS
    <2>3. "list" \in Feeds
      BY DEF Feeds
    <2>4. Goes(r, s) /\ r \in FeedRecords
      BY <2>1, <2>2, <2>3 DEF InboxTypes
    <2>5. r.data.known <=> r.data # NoData
      BY <2>4, DataKnown, FeedFields
    <2>6. s.call # Idle /\ s.call.isVoid => s.data = NoData /\ "switched" \in noted'
      BY <2>1, <2>4 DEF ListHolds, Goes
    <2>7. s.data = NoData /\ noted' \intersect {"switched", "stopped"} = {} =>
            s.error # "none" \/ (s.call # Idle /\ s.isLoading)
      BY <2>1, <2>4, <2>5, CallsApart DEF ListHolds, Goes
    <2>8. noted' \intersect {"failed", "left"} = {} => s.error \in {"none", filter'}
      BY <2>1, <2>4 DEF ListHolds, Goes
    <2>9. "left" \notin noted' =>
            /\ s.data # NoData => s.data.of = filter'
            /\ s.call # Idle /\ ~s.call.isVoid => s.call.of = filter'
      BY <2>1, <2>2, <2>4 DEF ListHolds, Goes
    <2>10. s.call \in ReadOnes => s.call.answer.of = s.call.of
      BY <2>1, <2>4, CallsApart DEF ListHolds, Goes
    <2> QED BY <2>2, <2>6, <2>7, <2>8, <2>9, <2>10 DEF ListHolds
  <1> QED BY <1>1, <1>2

\* A deed that was seen stays so.
LEMMA SeenGoes ==
    ASSUME NEW d, NEW r, NEW s, Goes(r, s), DeedIsSeen(d, r)
    PROVE  DeedIsSeen(d, s)
  <1>1. CASE s.call \in AskedOnes
    BY <1>1 DEF DeedIsSeen
  <1>2. CASE s.call = r.call
    BY <1>2 DEF DeedIsSeen, Goes
  <1> QED BY <1>1, <1>2 DEF Goes

\* The toaster of a step that leaves it alone.
LEMMA ToastStays ==
    ASSUME SeenIsBehind, NewsHolds, OldIsSeen, UNCHANGED toastVars, row' = row,
           feed'["toast"].data = feed["toast"].data,
           feed'["toast"].call \in ReadOnes => feed'["toast"].call = feed["toast"].call,
           noted \subseteq noted', "twice" \notin noted'
    PROVE  SeenIsBehind' /\ NewsHolds' /\ OldIsSeen'
  <1>1. Announced' = Announced /\ seeded' = seeded /\ seen' = seen
    BY DEF Announced, toastVars
  <1>2. SeenIsBehind'
    BY <1>1 DEF SeenIsBehind
  <1>3. NewsHolds'
    BY <1>1 DEF NewsHolds
  <1>4. OldIsSeen'
    BY <1>1 DEF OldIsSeen, Old, Holds
  <1> QED BY <1>2, <1>3, <1>4

\* The trail of a step that leaves the assignments alone.
LEMMA TrailStays ==
    ASSUME TrailHolds, InboxTypes, trail' = trail, noted \subseteq noted',
           "gap" \in noted' => "gap" \in noted \/ "overlap" \in noted',
           \A t \in Threads : row'[t].owner = row[t].owner,
           \A d \in Deeds :
              \/ deed'[d] = deed[d]
              \/ ~(deed[d].step \in {"read", "patched"} /\ Assigns(d))
                   /\ ~(deed'[d].step \in {"read", "patched"} /\ Assigns(d)')
    PROVE  TrailHolds'
  <1>1. CASE "overlap" \in noted'
    BY <1>1 DEF TrailHolds
  <1>2. CASE "overlap" \notin noted'
    <2>0. "overlap" \notin noted
      BY <1>2
    <2>1. ASSUME NEW d \in Deeds, NEW t \in Threads
          PROVE  /\ UnderWayAt(d, t)' <=> UnderWayAt(d, t)
                 /\ UnderWayAt(d, t) => deed'[d] = deed[d] /\ NewOwner(d)' = NewOwner(d)
      BY DEF UnderWayAt, Assigns, NewOwner
    <2>2. "gap" \notin noted'
      BY <1>2, <2>0 DEF TrailHolds
    <2>3. \A d, e \in Deeds, t \in Threads : UnderWayAt(d, t)' /\ UnderWayAt(e, t)' => d = e
      BY <2>0, <2>1 DEF TrailHolds
    <2>4. \A d \in Deeds, t \in Threads : UnderWayAt(d, t)' => deed'[d].from = trail'[t]
      BY <2>0, <2>1 DEF TrailHolds
    <2>5. \A d \in Deeds, t \in Threads :
             UnderWayAt(d, t)' /\ deed'[d].step = "patched" => row'[t].owner = NewOwner(d)'
      BY <2>0, <2>1 DEF TrailHolds
    <2>6. \A t \in Threads :
             trail'[t] = row'[t].owner
               \/ \E d \in Deeds : UnderWayAt(d, t)' /\ deed'[d].step = "patched"
      BY <2>0, <2>1 DEF TrailHolds
    <2> QED BY <2>2, <2>3, <2>4, <2>5, <2>6 DEF TrailHolds
  <1> QED BY <1>1, <1>2

\* One feed is another record.
LEMMA FeedSet ==
    ASSUME feed \in [Feeds -> FeedRecords], NEW f \in Feeds, NEW s \in FeedRecords,
           feed' = [feed EXCEPT ![f] = s]
    PROVE  /\ feed' \in [Feeds -> FeedRecords] /\ feed'[f] = s
           /\ \A g \in Feeds \ {f} : feed'[g] = feed[g]
  OBVIOUS

\* It goes on, and so do the others.
LEMMA FeedGoes ==
    ASSUME feed \in [Feeds -> FeedRecords], NEW f \in Feeds, NEW s \in FeedRecords,
           feed' = [feed EXCEPT ![f] = s], Goes(feed[f], s)
    PROVE  feed' \in [Feeds -> FeedRecords] /\ \A g \in Feeds : Goes(feed[g], feed'[g])
  <1>1. /\ feed' \in [Feeds -> FeedRecords] /\ feed'[f] = s
        /\ \A g \in Feeds \ {f} : feed'[g] = feed[g]
    BY FeedSet
  <1>2. ASSUME NEW g \in Feeds
        PROVE  Goes(feed[g], feed'[g])
    <2>1. CASE g = f
      BY <1>1, <2>1
    <2>2. CASE g # f
      BY <1>1, <2>2 DEF Goes
    <2> QED BY <2>1, <2>2
  <1> QED BY <1>1, <1>2

\* Steps that leave the conversations and the deeds alone, while the feeds go on.
LEMMA ScreenStep ==
    ASSUME InboxInv, UNCHANGED <<watch, row, filter, deed, toastVars, trail, noted>>,
           feed' \in [Feeds -> FeedRecords], \A f \in Feeds : Goes(feed[f], feed'[f]),
           \/ feed'["list"].call = feed["list"].call
           \/ "left" \in noted \/ feed'["list"].call.of = filter,
           selected' \in Threads \union {Nowhere}, search' \in BOOLEAN, quarter' \in Nat,
           hitches' \in 0..MaxHitches, hitches <= hitches'
    PROVE  InboxInv'
  <1>1. InboxTypes'
    <2>1. InboxTypes
      BY DEF InboxInv
    <2>2. \A t \in Threads : row'[t].last <= hitches' + 1
      <3> SUFFICES ASSUME NEW t \in Threads PROVE row'[t].last <= hitches' + 1
        OBVIOUS
      <3>1. row[t].last <= hitches + 1 /\ hitches \in Nat /\ hitches' \in Nat
        BY <2>1, InboxConstants DEF InboxTypes
      <3>2. row[t].last \in Nat
        BY <2>1, InboxConstants DEF InboxTypes, InboxRows
      <3> QED BY <3>1, <3>2
    <2>3. seeded' \in BOOLEAN /\ seen' \in [Threads -> Nat]
      BY <2>1 DEF InboxTypes, toastVars
    <2> QED BY <2>1, <2>2, <2>3 DEF InboxTypes
  <1>2. (\A f \in Feeds : ReadIsKept(f)') /\ ListHolds'
    BY FeedsGo DEF InboxInv
  <1>3. DeedsAreSeen'
    <2> SUFFICES ASSUME watch = "screen", "skipped" \notin noted, NEW d \in Deeds,
                        NEW f \in {"list", "counts"},
                        deed[d].step = "done", deed[d].by = "me", deed[d].ok
                 PROVE  DeedIsSeen(d, feed'[f])
      BY DEF DeedsAreSeen
    <2>1. DeedIsSeen(d, feed[f]) /\ f \in Feeds
      BY DEF InboxInv, DeedsAreSeen, Feeds
    <2>2. Goes(feed[f], feed'[f])
      BY <2>1
    <2> QED BY <2>1, <2>2, SeenGoes
  <1>4. SeenIsBehind' /\ NewsHolds' /\ OldIsSeen'
    <2>1. Goes(feed["toast"], feed'["toast"])
      BY DEF Feeds
    <2>2. /\ feed'["toast"].data = feed["toast"].data
          /\ feed'["toast"].call \in ReadOnes => feed'["toast"].call = feed["toast"].call
      BY <2>1, CallsApart DEF Goes
    <2>3. "twice" \notin noted'
      BY DEF InboxInv, SeenIsBehind
    <2> QED BY <2>2, <2>3, ToastStays DEF InboxInv
  <1>5. TrailHolds'
    BY TrailStays DEF InboxInv
  <1> QED BY <1>1, <1>2, <1>3, <1>4, <1>5 DEF InboxInv

\* tick
LEMMA TickStep ==
    ASSUME InboxInv, NEW f \in Feeds, Tick(f)
    PROVE  InboxInv'
  <1>0. InboxTypes /\ feed \in [Feeds -> FeedRecords] /\ feed[f] \in FeedRecords
    BY DEF InboxInv, InboxTypes
  <1>1. PICK s \in FeedRecords : /\ feed' = [feed EXCEPT ![f] = s] /\ Goes(feed[f], s)
                                 /\ s.call = Idle \/ s.call.of = FilterAsked(f)
    <2>1. CASE quarter > feed[f].lastTouch
      <3>1. PICK s : s = [feed[f] EXCEPT !.isSuspended = TRUE]
        OBVIOUS
      <3>2. s \in FeedRecords /\ Goes(feed[f], s) /\ s.call = feed[f].call
        BY <1>0, <3>1 DEF FeedRecords, Goes
      <3>3. feed' = [feed EXCEPT ![f] = s] /\ feed[f].call = Idle
        BY <2>1, <3>1 DEF Tick
      <3> QED BY <3>2, <3>3
    <2>2. CASE ~(quarter > feed[f].lastTouch)
      <3>1. FilterAsked(f) \in Filters
        BY <1>0, InboxConstants DEF FilterAsked, InboxTypes
      <3>2. PICK s : s = FetchOnce(feed[f], FilterAsked(f))
        OBVIOUS
      <3>3. s \in FeedRecords /\ Fetched(feed[f], s, FilterAsked(f))
        BY <1>0, <3>1, <3>2, FetchedIs
      <3>4. Goes(feed[f], s) /\ (feed[f].call = Idle => s.call.of = FilterAsked(f))
        BY <3>1, <3>3, FetchedGoes
      <3>5. feed' = [feed EXCEPT ![f] = s] /\ feed[f].call = Idle
        BY <2>2, <3>2 DEF Tick
      <3> QED BY <3>3, <3>4, <3>5
    <2> QED BY <2>1, <2>2
  <1>2. feed' \in [Feeds -> FeedRecords] /\ \A g \in Feeds : Goes(feed[g], feed'[g])
    BY <1>0, <1>1, FeedGoes
  <1>3. \/ feed'["list"].call = feed["list"].call \/ feed'["list"].call.of = filter
    <2>1. CASE f = "list"
      BY <1>0, <1>1, <2>1 DEF FilterAsked, Tick
    <2>2. CASE f # "list"
      BY <1>0, <1>1, <2>2 DEF Feeds
    <2> QED BY <2>1, <2>2
  <1>4. /\ UNCHANGED <<watch, row, filter, deed, toastVars, trail, noted>>
        /\ UNCHANGED <<selected, search, quarter, hitches>>
    BY DEF Tick
  <1>5. /\ selected' \in Threads \union {Nowhere} /\ search' \in BOOLEAN /\ quarter' \in Nat
        /\ hitches' \in 0..MaxHitches /\ hitches <= hitches'
    BY <1>0, <1>4, InboxConstants DEF InboxTypes
  <1> QED BY <1>2, <1>3, <1>4, <1>5, ScreenStep

\* What is shown are conversations.
LEMMA VisibleIs ==
    ASSUME InboxTypes, ReadIsKept("list")
    PROVE  Visible \subseteq Threads
  <1>1. feed["list"].data \in ThreadPages \union {NoData}
    BY DEF ReadIsKept
  <1>2. CASE feed["list"].data.known
    <2>1. feed["list"].data \in ThreadPages
      BY <1>1, <1>2 DEF NoData
    <2>2. PICK n \in 0..PageSize : feed["list"].data.ids \in [1..n -> Threads]
      BY <2>1 DEF ThreadPages
    <2>3. Range(Listed) \subseteq Threads
      BY <1>2, <2>2 DEF Listed, Range
    <2> QED BY <2>3 DEF Visible
  <1>3. CASE ~feed["list"].data.known
    BY <1>3 DEF Visible, Listed, Range
  <1> QED BY <1>2, <1>3

\* What is done at the screen.
LEMMA HandStep ==
    ASSUME InboxInv, SetSearch \/ Select \/ ReadAgain \/ QuarterPasses
    PROVE  InboxInv'
  <1>0. /\ InboxTypes /\ feed \in [Feeds -> FeedRecords] /\ quarter \in Nat
        /\ "list" \in Feeds /\ feed["list"] \in FeedRecords /\ hitches \in 0..MaxHitches
        /\ selected \in Threads \union {Nowhere} /\ search \in BOOLEAN /\ filter \in Filters
    BY DEF InboxInv, InboxTypes, Feeds
  <1>1. UNCHANGED <<watch, row, filter, deed, toastVars, trail, noted>>
    BY DEF SetSearch, Select, ReadAgain, QuarterPasses, screenVars
  <1>2. /\ feed' \in [Feeds -> FeedRecords] /\ \A g \in Feeds : Goes(feed[g], feed'[g])
        /\ feed'["list"].call = feed["list"].call \/ feed'["list"].call.of = filter
    <2>1. CASE QuarterPasses
      BY <1>0, <2>1 DEF QuarterPasses, screenVars, Goes
    <2>2. CASE SetSearch \/ Select
      <3>1. PICK s : s = Touch(feed["list"])
        OBVIOUS
      <3>2. /\ s \in FeedRecords /\ s.data = feed["list"].data /\ s.call = feed["list"].call
            /\ s.error = feed["list"].error /\ s.isLoading = feed["list"].isLoading
        BY <1>0, <3>1, TouchedIs
      <3>3. feed' = [feed EXCEPT !["list"] = s]
        BY <2>2, <3>1 DEF SetSearch, Select
      <3>4. Goes(feed["list"], s)
        BY <3>2 DEF Goes
      <3>5. feed' \in [Feeds -> FeedRecords] /\ \A g \in Feeds : Goes(feed[g], feed'[g])
        BY <1>0, <3>2, <3>3, <3>4, FeedGoes
      <3> QED BY <1>0, <3>2, <3>3, <3>5
    <2>3. CASE ReadAgain
      <3>1. PICK s : s = Refresh(feed["list"], filter)
        OBVIOUS
      <3>2. s \in FeedRecords /\ Fetched(feed["list"], s, filter)
        BY <1>0, <3>1, RefreshedIs
      <3>3. feed' = [feed EXCEPT !["list"] = s]
        BY <2>3, <3>1 DEF ReadAgain
      <3>4. Goes(feed["list"], s) /\ (feed["list"].call = Idle => s.call.of = filter)
        BY <1>0, <3>2, FetchedGoes
      <3>5. feed' \in [Feeds -> FeedRecords] /\ \A g \in Feeds : Goes(feed[g], feed'[g])
        BY <1>0, <3>2, <3>3, <3>4, FeedGoes
      <3>6. feed'["list"] = s
        BY <1>0, <3>3
      <3> QED BY <3>2, <3>4, <3>5, <3>6 DEF Fetched
    <2> QED BY <2>1, <2>2, <2>3
  <1>3. selected' \in Threads \union {Nowhere}
    <2>1. Visible \subseteq Threads
      BY <1>0, VisibleIs DEF InboxInv
    <2>2. \A down \in BOOLEAN : NextThread(down) \subseteq Threads
      BY <2>1 DEF NextThread
    <2>3. CASE Select
      BY <2>1, <2>2, <2>3 DEF Select
    <2>4. CASE ~Select
      BY <1>0, <2>4 DEF SetSearch, ReadAgain, QuarterPasses, screenVars
    <2> QED BY <2>3, <2>4
  <1>4. search' \in BOOLEAN
    BY <1>0 DEF SetSearch, Select, ReadAgain, QuarterPasses, screenVars, Typed
  <1>5. quarter' \in Nat
    BY <1>0 DEF SetSearch, Select, ReadAgain, QuarterPasses
  <1>6. hitches' \in 0..MaxHitches /\ hitches <= hitches'
    BY <1>0, InboxConstants DEF SetSearch, Select, ReadAgain, QuarterPasses, Hitch
  <1> QED BY <1>1, <1>2, <1>3, <1>4, <1>5, <1>6, ScreenStep

\* The steps of a deed, and its fields.
LEMMA DeedsApart ==
    /\ Undone.step = "none"
    /\ \A x \in OpenDeeds : x.step \in {"asked", "recorded", "done"}
    /\ \A x \in ReadDeeds : x.step \in {"read", "patched", "recorded", "done"}
    /\ \A x \in OpenDeeds \union ReadDeeds :
         /\ x.by \in Members /\ x.kind \in Kinds /\ x.thread \in Threads /\ x.ok \in BOOLEAN
         /\ x.of \in Filters
    /\ \A x \in ReadDeeds : x.from \in Members \union {Nobody}
  BY DEF Undone, OpenDeeds, ReadDeeds

\* A deed goes on: what is left to show of each step.
LEMMA DeedGoes ==
    ASSUME InboxInv, NEW d \in Deeds, NEW x \in OpenDeeds \union ReadDeeds,
           deed' = [deed EXCEPT ![d] = x],
           UNCHANGED <<watch, filter, toastVars, selected, search, quarter>>,
           row' \in [Threads -> InboxRows], \A t \in Threads : row'[t].last = row[t].last,
           noted \subseteq noted',
           feed' \in [Feeds -> FeedRecords], \A f \in Feeds : Goes(feed[f], feed'[f]),
           \/ feed'["list"].call = feed["list"].call
           \/ "left" \in noted' \/ feed'["list"].call.of = filter,
           trail' \in [Threads -> Members \union {Nobody}],
           hitches' \in 0..MaxHitches, hitches <= hitches',
           \A f \in {"list", "counts"} :
              x.step = "done" /\ x.by = "me" /\ x.ok /\ watch = "screen" /\ "skipped" \notin noted'
                => DeedIsSeen(d, feed'[f]),
           SeenIsBehind', NewsHolds', OldIsSeen', TrailHolds'
    PROVE  InboxInv'
  <1>0. InboxTypes /\ deed'[d] = x /\ \A e \in Deeds \ {d} : deed'[e] = deed[e]
    BY DEF InboxInv, InboxTypes
  <1>1. InboxTypes'
    <2>1. \A t \in Threads : row'[t].last <= hitches' + 1
      <3> SUFFICES ASSUME NEW t \in Threads PROVE row'[t].last <= hitches' + 1
        OBVIOUS
      <3>1. row[t].last <= hitches + 1 /\ hitches \in Nat /\ hitches' \in Nat
        BY <1>0, InboxConstants DEF InboxTypes
      <3>2. row[t].last \in Nat /\ row'[t].last = row[t].last
        BY <1>0, InboxConstants DEF InboxTypes, InboxRows
      <3> QED BY <3>1, <3>2
    <2>2. seeded' \in BOOLEAN /\ seen' \in [Threads -> Nat]
      BY <1>0 DEF InboxTypes, toastVars
    <2>3. deed' \in [Deeds -> OpenDeeds \union ReadDeeds \union {Undone}]
      BY <1>0 DEF InboxTypes
    <2> QED BY <1>0, <2>1, <2>2, <2>3 DEF InboxTypes
  <1>2. (\A f \in Feeds : ReadIsKept(f)') /\ ListHolds'
    BY FeedsGo DEF InboxInv
  <1>3. DeedsAreSeen'
    <2> SUFFICES ASSUME watch = "screen", "skipped" \notin noted', NEW e \in Deeds,
                        NEW f \in {"list", "counts"},
                        deed'[e].step = "done", deed'[e].by = "me", deed'[e].ok
                 PROVE  DeedIsSeen(e, feed'[f])
      BY DEF DeedsAreSeen
    <2>1. CASE e = d
      BY <1>0, <2>1
    <2>2. CASE e # d
      <3>1. DeedIsSeen(e, feed[f]) /\ f \in Feeds
        BY <1>0, <2>2 DEF InboxInv, DeedsAreSeen, Feeds
      <3>2. Goes(feed[f], feed'[f])
        BY <3>1
      <3> QED BY <3>1, <3>2, SeenGoes
    <2> QED BY <2>1, <2>2
  <1> QED BY <1>1, <1>2, <1>3 DEF InboxInv

\* The toaster, while a deed goes on and the conversations are as they were.
LEMMA ToastWaits ==
    ASSUME InboxInv, UNCHANGED <<toastVars, row>>, noted \subseteq noted', "twice" \notin noted',
           \A f \in Feeds : Goes(feed[f], feed'[f])
    PROVE  SeenIsBehind' /\ NewsHolds' /\ OldIsSeen'
  <1>1. Goes(feed["toast"], feed'["toast"])
    BY DEF Feeds
  <1>2. /\ feed'["toast"].data = feed["toast"].data
        /\ feed'["toast"].call \in ReadOnes => feed'["toast"].call = feed["toast"].call
    BY <1>1, CallsApart DEF Goes
  <1> QED BY <1>2, ToastStays DEF InboxInv

\* The feeds that stay go on.
LEMMA FeedsStay ==
    ASSUME InboxInv, feed' = feed
    PROVE  feed' \in [Feeds -> FeedRecords] /\ \A f \in Feeds : Goes(feed[f], feed'[f])
  BY DEF InboxInv, InboxTypes, Goes

\* A deed begins, at the screen or at another.
LEMMA PressStep ==
    ASSUME InboxInv, NEW d \in Deeds, NEW who \in Members, NEW kind \in Kinds, NEW t \in Threads,
           deed[d] = Undone, Begin(d, who, kind, t),
           UNCHANGED <<watch, row, filter, selected, search, toastVars, quarter, trail, noted>>,
           feed' \in [Feeds -> FeedRecords], \A f \in Feeds : Goes(feed[f], feed'[f]),
           feed'["list"].call = feed["list"].call,
           hitches' \in 0..MaxHitches, hitches <= hitches'
    PROVE  InboxInv'
  <1>0. InboxTypes
    BY DEF InboxInv
  <1>1. PICK x : x = [step |-> "asked", by |-> who, kind |-> kind, thread |-> t, ok |-> TRUE,
                      of |-> filter]
    OBVIOUS
  <1>2. x \in OpenDeeds /\ x.step = "asked"
    BY <1>0, <1>1 DEF OpenDeeds, InboxTypes
  <1>3. deed' = [deed EXCEPT ![d] = x]
    BY <1>1 DEF Begin
  <1>4. deed'[d].step = "asked" /\ \A e \in Deeds \ {d} : deed'[e] = deed[e]
    BY <1>0, <1>2, <1>3 DEF InboxTypes
  <1>5. TrailHolds'
    <2>1. deed[d].step = "none"
      BY DeedsApart
    <2>2. \A e \in Deeds :
              \/ deed'[e] = deed[e]
              \/ ~(deed[e].step \in {"read", "patched"} /\ Assigns(e))
                   /\ ~(deed'[e].step \in {"read", "patched"} /\ Assigns(e)')
      BY <1>4, <2>1
    <2> QED BY <2>2, TrailStays DEF InboxInv
  <1>6. "twice" \notin noted'
    BY DEF InboxInv, SeenIsBehind
  <1>7. SeenIsBehind' /\ NewsHolds' /\ OldIsSeen'
    BY <1>6, ToastWaits
  <1>8. row' \in [Threads -> InboxRows] /\ trail' \in [Threads -> Members \union {Nobody}]
    BY <1>0 DEF InboxTypes
  <1> QED BY <1>2, <1>3, <1>5, <1>7, <1>8, DeedGoes

\* A deed that fails before it has read.
LEMMA FailStep ==
    ASSUME InboxInv, NEW d \in Deeds, DeedFails(d)
    PROVE  InboxInv'
  <1>0. InboxTypes /\ UNCHANGED <<watch, row, screenVars, toastVars, quarter, trail, noted>>
    BY DEF InboxInv, DeedFails
  <1>1. deed[d] \in OpenDeeds /\ deed[d].step = "asked"
    BY <1>0, DeedsApart DEF DeedFails, InboxTypes
  <1>2. PICK x : x = [deed[d] EXCEPT !.step = "recorded", !.ok = FALSE]
    OBVIOUS
  <1>3. x \in OpenDeeds /\ x.step = "recorded"
    BY <1>1, <1>2 DEF OpenDeeds
  <1>4. deed' = [deed EXCEPT ![d] = x]
    BY <1>2 DEF DeedFails
  <1>5. deed'[d].step = "recorded" /\ \A e \in Deeds \ {d} : deed'[e] = deed[e]
    BY <1>0, <1>3, <1>4 DEF InboxTypes
  <1>6. TrailHolds'
    <2>1. \A e \in Deeds :
              \/ deed'[e] = deed[e]
              \/ ~(deed[e].step \in {"read", "patched"} /\ Assigns(e))
                   /\ ~(deed'[e].step \in {"read", "patched"} /\ Assigns(e)')
      BY <1>1, <1>5
    <2> QED BY <1>0, <2>1, TrailStays DEF InboxInv
  <1>7. feed' \in [Feeds -> FeedRecords] /\ \A f \in Feeds : Goes(feed[f], feed'[f])
    BY <1>0, FeedsStay DEF screenVars
  <1>8. "twice" \notin noted'
    BY <1>0 DEF InboxInv, SeenIsBehind
  <1>9. SeenIsBehind' /\ NewsHolds' /\ OldIsSeen'
    BY <1>0, <1>7, <1>8, ToastWaits
  <1>10. row' \in [Threads -> InboxRows] /\ trail' \in [Threads -> Members \union {Nobody}]
    BY <1>0 DEF InboxTypes
  <1>11. hitches' \in 0..MaxHitches /\ hitches <= hitches'
    BY <1>0, InboxConstants DEF DeedFails, Hitch, InboxTypes
  <1> QED BY <1>0, <1>3, <1>4, <1>6, <1>7, <1>9, <1>10, <1>11, DeedGoes DEF screenVars

\* A deed is pressed at the screen.
LEMMA PressHere ==
    ASSUME InboxInv, NEW d \in Deeds, NEW kind \in Kinds, Press(d, kind)
    PROVE  InboxInv'
  <1>0. /\ InboxTypes /\ "list" \in Feeds /\ feed \in [Feeds -> FeedRecords] /\ quarter \in Nat
        /\ feed["list"] \in FeedRecords /\ hitches \in 0..MaxHitches
    BY DEF InboxInv, InboxTypes, Feeds
  <1>1. PICK s : s = Touch(feed["list"])
    OBVIOUS
  <1>2. /\ s \in FeedRecords /\ s.data = feed["list"].data /\ s.call = feed["list"].call
        /\ s.error = feed["list"].error /\ s.isLoading = feed["list"].isLoading
    BY <1>0, <1>1, TouchedIs
  <1>3. feed' = [feed EXCEPT !["list"] = s] /\ Goes(feed["list"], s)
    BY <1>1, <1>2 DEF Press, Goes
  <1>4. feed' \in [Feeds -> FeedRecords] /\ \A g \in Feeds : Goes(feed[g], feed'[g])
    BY <1>0, <1>2, <1>3, FeedGoes
  <1>5. feed'["list"].call = feed["list"].call
    BY <1>0, <1>2, <1>3
  <1>6. selected \in Threads /\ "me" \in Members
    BY <1>0 DEF Press, InboxTypes, Members
  <1>7. /\ deed[d] = Undone /\ Begin(d, "me", kind, selected)
        /\ UNCHANGED <<watch, row, filter, selected, search, toastVars, quarter, trail, noted>>
    BY DEF Press
  <1>8. hitches' \in 0..MaxHitches /\ hitches <= hitches'
    BY <1>0, InboxConstants DEF Press
  <1> QED BY <1>4, <1>5, <1>6, <1>7, <1>8, PressStep

\* Or elsewhere.
LEMMA PressThere ==
    ASSUME InboxInv, NEW d \in Deeds, NEW who \in Members, NEW kind \in Kinds, NEW t \in Threads,
           PressElsewhere(d, who, kind, t)
    PROVE  InboxInv'
  <1>1. /\ deed[d] = Undone /\ Begin(d, who, kind, t)
        /\ UNCHANGED <<watch, row, screenVars, toastVars, quarter, trail, noted>>
    BY DEF PressElsewhere
  <1>2. feed' \in [Feeds -> FeedRecords] /\ \A f \in Feeds : Goes(feed[f], feed'[f])
    BY <1>1, FeedsStay DEF screenVars
  <1>3. hitches' \in 0..MaxHitches /\ hitches <= hitches'
    BY InboxConstants DEF PressElsewhere, Hitch, InboxInv, InboxTypes
  <1> QED BY <1>1, <1>2, <1>3, PressStep DEF screenVars

\* It reads its conversation.
LEMMA ReadStep ==
    ASSUME InboxInv, NEW d \in Deeds, DeedReads(d)
    PROVE  InboxInv'
  <1>0. /\ InboxTypes /\ UNCHANGED <<watch, row, screenVars, toastVars, quarter, trail, hitches>>
        /\ noted' = IF Assigns(d) /\ ~Apart(d) THEN noted \union {"overlap"} ELSE noted
    BY DEF InboxInv, DeedReads, Marked
  <1>1. deed[d] \in OpenDeeds /\ deed[d].step = "asked" /\ deed[d].thread \in Threads
    BY <1>0, DeedsApart DEF DeedReads, InboxTypes
  <1>2. PICK x : x = [step |-> "read", by |-> deed[d].by, kind |-> deed[d].kind,
                      thread |-> deed[d].thread, ok |-> TRUE, of |-> deed[d].of,
                      from |-> row[deed[d].thread].owner]
    OBVIOUS
  <1>3. row[deed[d].thread].owner \in Members \union {Nobody}
    BY <1>0, <1>1 DEF InboxTypes, InboxRows
  <1>4. /\ x \in ReadDeeds /\ x.step = "read" /\ x.kind = deed[d].kind
        /\ x.thread = deed[d].thread /\ x.from = row[deed[d].thread].owner
    BY <1>1, <1>2, <1>3, DeedsApart DEF ReadDeeds
  <1>5. deed' = [deed EXCEPT ![d] = x]
    BY <1>0, <1>2 DEF DeedReads, InboxTypes
  <1>6. deed'[d] = x /\ \A e \in Deeds \ {d} : deed'[e] = deed[e]
    BY <1>0, <1>5 DEF InboxTypes
  <1>7. TrailHolds'
    <2>1. CASE "overlap" \in noted'
      BY <2>1 DEF TrailHolds
    <2>2. CASE "overlap" \notin noted' /\ ~Assigns(d)
      <3>1. ~Assigns(d)'
        BY <1>4, <1>6, <2>2 DEF Assigns
      <3>2. \A e \in Deeds :
              \/ deed'[e] = deed[e]
              \/ ~(deed[e].step \in {"read", "patched"} /\ Assigns(e))
                   /\ ~(deed'[e].step \in {"read", "patched"} /\ Assigns(e)')
        BY <1>6, <2>2, <3>1
      <3>3. noted' = noted
        BY <1>0, <2>2
      <3> QED BY <1>0, <3>2, <3>3, TrailStays DEF InboxInv
    <2>3. CASE "overlap" \notin noted' /\ Assigns(d)
      <3>0. Apart(d) /\ noted' = noted /\ "overlap" \notin noted
        BY <1>0, <2>3
      <3>1. ASSUME NEW e \in Deeds \ {d}, NEW t \in Threads
            PROVE  /\ UnderWayAt(e, t)' <=> UnderWayAt(e, t)
                   /\ deed'[e] = deed[e] /\ NewOwner(e)' = NewOwner(e)
                   /\ UnderWayAt(e, t) => t # deed[d].thread
        BY <1>6, <3>0 DEF UnderWayAt, Assigns, NewOwner, Apart
      <3>2. \A t \in Threads : ~UnderWayAt(d, t) /\ (UnderWayAt(d, t)' => t = deed[d].thread)
        BY <1>1, <1>4, <1>6 DEF UnderWayAt
      <3>3. trail[deed[d].thread] = row[deed[d].thread].owner
        BY <1>1, <3>0, <3>1, <3>2 DEF TrailHolds, InboxInv
      <3>4. \A c, e \in Deeds, t \in Threads : UnderWayAt(c, t)' /\ UnderWayAt(e, t)' => c = e
        BY <3>0, <3>1, <3>2 DEF TrailHolds, InboxInv
      <3>5. \A e \in Deeds, t \in Threads : UnderWayAt(e, t)' => deed'[e].from = trail'[t]
        BY <1>0, <1>4, <1>6, <3>0, <3>1, <3>2, <3>3 DEF TrailHolds, InboxInv
      <3>6. \A e \in Deeds, t \in Threads :
               UnderWayAt(e, t)' /\ deed'[e].step = "patched" => row'[t].owner = NewOwner(e)'
        BY <1>0, <1>4, <1>6, <3>0, <3>1 DEF TrailHolds, InboxInv
      <3>7. \A t \in Threads :
               trail'[t] = row'[t].owner
                 \/ \E e \in Deeds : UnderWayAt(e, t)' /\ deed'[e].step = "patched"
        BY <1>0, <3>0, <3>1, <3>2 DEF TrailHolds, InboxInv
      <3>8. "gap" \notin noted'
        BY <3>0 DEF TrailHolds, InboxInv
      <3> QED BY <3>4, <3>5, <3>6, <3>7, <3>8 DEF TrailHolds
    <2> QED BY <2>1, <2>2, <2>3
  <1>8. feed' \in [Feeds -> FeedRecords] /\ \A f \in Feeds : Goes(feed[f], feed'[f])
    BY <1>0, FeedsStay DEF screenVars
  <1>9. noted \subseteq noted' /\ "twice" \notin noted'
    BY <1>0 DEF InboxInv, SeenIsBehind
  <1>10. SeenIsBehind' /\ NewsHolds' /\ OldIsSeen'
    BY <1>0, <1>8, <1>9, ToastWaits
  <1>11. row' \in [Threads -> InboxRows] /\ trail' \in [Threads -> Members \union {Nobody}]
    BY <1>0 DEF InboxTypes
  <1>12. hitches' \in 0..MaxHitches /\ hitches <= hitches'
    BY <1>0, InboxConstants DEF InboxTypes
  <1> QED BY <1>0, <1>4, <1>5, <1>7, <1>8, <1>9, <1>10, <1>11, <1>12, DeedGoes DEF screenVars

\* What a page has are conversations.
LEMMA PageRows ==
    \A x \in ThreadPages : /\ DOMAIN x.rows \subseteq Threads
                           /\ \A t \in DOMAIN x.rows : x.rows[t] \in InboxRows
  <1> SUFFICES ASSUME NEW x \in ThreadPages
               PROVE  /\ DOMAIN x.rows \subseteq Threads
                      /\ \A t \in DOMAIN x.rows : x.rows[t] \in InboxRows
    OBVIOUS
  <1>1. PICK some \in SUBSET Threads : x.rows \in [some -> InboxRows]
    BY DEF ThreadPages
  <1> QED BY <1>1

\* What is written of a conversation.
LEMMA PatchedIs ==
    ASSUME InboxTypes, NEW d \in Deeds, deed[d] \in OpenDeeds \union ReadDeeds
    PROVE  /\ DeedPatched(d) \in InboxRows
           /\ DeedPatched(d).last = row[deed[d].thread].last
           /\ Assigns(d) => DeedPatched(d).owner = NewOwner(d)
           /\ ~Assigns(d) => DeedPatched(d).owner = row[deed[d].thread].owner
  <1>1. /\ deed[d].thread \in Threads /\ deed[d].kind \in Kinds /\ deed[d].by \in Members
    BY DeedsApart
  <1>2. PICK r \in InboxRows : r = row[deed[d].thread]
    BY <1>1 DEF InboxTypes
  <1>3. CASE Assigns(d)
    <2>1. NewOwner(d) \in Members \union {Nobody}
      BY <1>1 DEF NewOwner
    <2>2. deed[d].kind \in {"take", "return"} /\ ~(deed[d].kind \in {"close", "reopen", "read"})
      BY <1>3 DEF Assigns
    <2>3. PICK m : m = NewOwner(d)
      OBVIOUS
    <2>4. DeedPatched(d) = [r EXCEPT !.owner = m]
      BY <1>2, <2>2, <2>3 DEF DeedPatched, Assigns
    <2> QED BY <1>2, <1>3, <2>1, <2>3, <2>4 DEF InboxRows
  <1>4. CASE ~Assigns(d)
    <2>1. deed[d].kind \in {"close", "reopen", "read"}
      BY <1>1, <1>4 DEF Assigns, Kinds
    <2>2. \/ DeedPatched(d) = [r EXCEPT !.closed = TRUE]
          \/ DeedPatched(d) = [r EXCEPT !.closed = FALSE]
          \/ DeedPatched(d) = [r EXCEPT !.read = TRUE]
      BY <1>2, <1>4, <2>1 DEF DeedPatched
    <2> QED BY <1>2, <1>4, <2>2 DEF InboxRows
  <1> QED BY <1>3, <1>4

\* It writes the row.
LEMMA WriteStep ==
    ASSUME InboxInv, NEW d \in Deeds, DeedWrites(d)
    PROVE  InboxInv'
  <1>0. /\ InboxTypes /\ UNCHANGED <<watch, screenVars, toastVars, quarter, trail, hitches>>
        /\ row' = [row EXCEPT ![deed[d].thread] = DeedPatched(d)]
    BY DEF InboxInv, DeedWrites
  <1>1. deed[d] \in ReadDeeds /\ deed[d].step = "read" /\ deed[d].thread \in Threads
    BY <1>0, DeedsApart DEF DeedWrites, InboxTypes
  <1>2. PICK x : x = [deed[d] EXCEPT !.step = "patched"]
    OBVIOUS
  <1>3. /\ x \in ReadDeeds /\ x.step = "patched" /\ x.kind = deed[d].kind /\ x.by = deed[d].by
        /\ x.thread = deed[d].thread /\ x.from = deed[d].from
    BY <1>1, <1>2 DEF ReadDeeds
  <1>4. deed' = [deed EXCEPT ![d] = x]
    BY <1>0, <1>2 DEF DeedWrites, InboxTypes
  <1>5. deed'[d] = x /\ \A e \in Deeds \ {d} : deed'[e] = deed[e]
    BY <1>0, <1>4 DEF InboxTypes
  <1>6. PICK r \in InboxRows :
          /\ r = DeedPatched(d) /\ r.last = row[deed[d].thread].last
          /\ Assigns(d) => r.owner = NewOwner(d)
          /\ ~Assigns(d) => r.owner = row[deed[d].thread].owner
    BY <1>0, <1>1, PatchedIs
  <1>7. /\ row' \in [Threads -> InboxRows] /\ row'[deed[d].thread] = r
        /\ \A t \in Threads \ {deed[d].thread} : row'[t] = row[t]
    BY <1>0, <1>1, <1>6 DEF InboxTypes
  <1>8. \A t \in Threads : row'[t].last = row[t].last
    BY <1>6, <1>7
  <1>9. /\ noted \subseteq noted' /\ noted' \subseteq noted \union {"joined"}
        /\ "joined" \in noted' \/ Holds("mine", row[deed[d].thread]) \/ ~Holds("mine", r)
    BY <1>6 DEF DeedWrites, Marked
  <1>10. TrailHolds'
    <2>1. CASE "overlap" \in noted'
      BY <2>1 DEF TrailHolds
    <2>2. CASE "overlap" \notin noted' /\ ~Assigns(d)
      <3>1. ~Assigns(d)'
        BY <1>3, <1>5, <2>2 DEF Assigns
      <3>2. \A e \in Deeds :
              \/ deed'[e] = deed[e]
              \/ ~(deed[e].step \in {"read", "patched"} /\ Assigns(e))
                   /\ ~(deed'[e].step \in {"read", "patched"} /\ Assigns(e)')
        BY <1>5, <2>2, <3>1
      <3>3. \A t \in Threads : row'[t].owner = row[t].owner
        BY <1>6, <1>7, <2>2
      <3>4. "gap" \in noted' => "gap" \in noted
        BY <1>9
      <3> QED BY <1>0, <1>9, <3>2, <3>3, <3>4, TrailStays DEF InboxInv
    <2>3. CASE "overlap" \notin noted' /\ Assigns(d)
      <3>0. "overlap" \notin noted /\ ("gap" \in noted' => "gap" \in noted)
        BY <1>9, <2>3
      <3>1. ASSUME NEW e \in Deeds, NEW t \in Threads
            PROVE  /\ UnderWayAt(e, t)' <=> UnderWayAt(e, t)
                   /\ NewOwner(e)' = NewOwner(e) \/ ~UnderWayAt(e, t)
                   /\ UnderWayAt(e, t) => deed'[e].from = deed[e].from
                   /\ UnderWayAt(e, t) /\ e # d => deed'[e] = deed[e]
        BY <1>1, <1>3, <1>5 DEF UnderWayAt, Assigns, NewOwner
      <3>2. UnderWayAt(d, deed[d].thread) /\ NewOwner(d)' = NewOwner(d)
        BY <1>1, <1>3, <1>5, <2>3 DEF UnderWayAt, NewOwner
      <3>3. \A e \in Deeds \ {d}, t \in Threads : UnderWayAt(e, t) => t # deed[d].thread
        BY <1>1, <3>0, <3>2 DEF TrailHolds, InboxInv
      <3>4. \A c, e \in Deeds, t \in Threads : UnderWayAt(c, t)' /\ UnderWayAt(e, t)' => c = e
        BY <3>0, <3>1 DEF TrailHolds, InboxInv
      <3>5. \A e \in Deeds, t \in Threads : UnderWayAt(e, t)' => deed'[e].from = trail'[t]
        BY <1>0, <3>0, <3>1 DEF TrailHolds, InboxInv
      <3>6. ASSUME NEW e \in Deeds, NEW t \in Threads, UnderWayAt(e, t)', deed'[e].step = "patched"
            PROVE  row'[t].owner = NewOwner(e)'
        <4>1. CASE e = d
          <5>1. t = deed[d].thread
            BY <3>1, <3>6, <4>1 DEF UnderWayAt
          <5> QED BY <1>6, <1>7, <2>3, <3>2, <4>1, <5>1
        <4>2. CASE e # d
          <5>1. UnderWayAt(e, t) /\ deed[e].step = "patched" /\ t # deed[d].thread
            BY <3>1, <3>3, <3>6, <4>2
          <5> QED BY <1>7, <3>0, <3>1, <5>1 DEF TrailHolds, InboxInv
        <4> QED BY <4>1, <4>2
      <3>7. ASSUME NEW t \in Threads
            PROVE  trail'[t] = row'[t].owner
                     \/ \E e \in Deeds : UnderWayAt(e, t)' /\ deed'[e].step = "patched"
        <4>1. CASE t = deed[d].thread
          BY <1>3, <1>5, <3>1, <3>2, <4>1
        <4>2. CASE t # deed[d].thread
          <5>1. \/ trail[t] = row[t].owner
                \/ \E e \in Deeds : UnderWayAt(e, t) /\ deed[e].step = "patched"
            BY <3>0 DEF TrailHolds, InboxInv
          <5>2. ASSUME NEW e \in Deeds, UnderWayAt(e, t), deed[e].step = "patched"
                PROVE  UnderWayAt(e, t)' /\ deed'[e].step = "patched"
            BY <1>1, <3>1, <5>2
          <5> QED BY <1>0, <1>7, <4>2, <5>1, <5>2
        <4> QED BY <4>1, <4>2
      <3>8. "gap" \notin noted'
        BY <3>0 DEF TrailHolds, InboxInv
      <3> QED BY <3>4, <3>5, <3>6, <3>7, <3>8 DEF TrailHolds
    <2> QED BY <2>1, <2>2, <2>3
  <1>11. SeenIsBehind' /\ NewsHolds' /\ OldIsSeen'
    <2>0. UNCHANGED <<seeded, seen, told, feed>>
      BY <1>0 DEF toastVars, screenVars
    <2>1. Announced' = Announced /\ seeded' = seeded /\ seen' = seen /\ feed' = feed
      BY <2>0 DEF Announced
    <2>2. SeenIsBehind'
      <3>1. feed["toast"].call \in ReadOnes =>
              DOMAIN feed["toast"].call.answer.rows \subseteq Threads
        BY PageRows DEF InboxInv, ReadIsKept, Feeds
      <3>2. SeenIsBehind
        BY DEF InboxInv
      <3>3. \A t \in Threads : seen[t] <= row'[t].last
        BY <1>8, <3>2 DEF SeenIsBehind
      <3>4. feed["toast"].call \in ReadOnes => \A t \in DOMAIN feed["toast"].call.answer.rows :
               /\ seen[t] <= feed["toast"].call.answer.rows[t].last
               /\ feed["toast"].call.answer.rows[t].last <= row'[t].last
        BY <1>8, <3>1, <3>2 DEF SeenIsBehind
      <3>5. "twice" \notin noted'
        BY <1>9, <3>2 DEF SeenIsBehind
      <3> QED BY <2>1, <3>2, <3>3, <3>4, <3>5 DEF SeenIsBehind
    <2>3. NewsHolds'
      BY <1>8, <1>9, <2>1 DEF NewsHolds, InboxInv
    <2>4. OldIsSeen'
      <3>1. CASE noted' \intersect {"joined", "crowded"} # {}
        BY <3>1 DEF OldIsSeen
      <3>2. CASE noted' \intersect {"joined", "crowded"} = {}
        <4>1. noted \intersect {"joined", "crowded"} = {}
          BY <1>9, <3>2
        <4>2. \A t \in Threads : Old(row'[t]) => Old(row[t])
          <5> SUFFICES ASSUME NEW t \in Threads, Old(row'[t]) PROVE Old(row[t])
            OBVIOUS
          <5>1. CASE t = deed[d].thread
            <6>1. row'[t] = r /\ r.last = row[t].last
              BY <1>6, <1>7, <5>1
            <6>2. Holds("mine", r) /\ r.last = 1
              BY <6>1 DEF Old
            <6>3. Holds("mine", row[t])
              BY <1>9, <3>2, <5>1, <6>2
            <6> QED BY <6>1, <6>2, <6>3 DEF Old
          <5>2. CASE t # deed[d].thread
            BY <1>7, <5>2
          <5> QED BY <5>1, <5>2
        <4>3. \A t \in Threads : Old(row[t])' <=> Old(row'[t])
          BY DEF Old, Holds
        <4> QED BY <2>1, <4>1, <4>2, <4>3 DEF OldIsSeen, InboxInv
      <3> QED BY <3>1, <3>2
    <2> QED BY <2>2, <2>3, <2>4
  <1>12. feed' \in [Feeds -> FeedRecords] /\ \A f \in Feeds : Goes(feed[f], feed'[f])
    BY <1>0, FeedsStay DEF screenVars
  <1>13. trail' \in [Threads -> Members \union {Nobody}]
    BY <1>0 DEF InboxTypes
  <1>14. hitches' \in 0..MaxHitches /\ hitches <= hitches'
    BY <1>0, InboxConstants DEF InboxTypes
  <1> QED
    BY <1>0, <1>3, <1>4, <1>7, <1>8, <1>9, <1>10, <1>11, <1>12, <1>13, <1>14, DeedGoes
    DEF screenVars

\* It writes the timeline.
LEMMA RecordStep ==
    ASSUME InboxInv, NEW d \in Deeds, DeedRecorded(d)
    PROVE  InboxInv'
  <1>0. InboxTypes /\ UNCHANGED <<watch, row, screenVars, toastVars, quarter, hitches>>
    BY DEF InboxInv, DeedRecorded
  <1>1. deed[d] \in ReadDeeds /\ deed[d].step = "patched" /\ deed[d].thread \in Threads
    BY <1>0, DeedsApart DEF DeedRecorded, InboxTypes
  <1>2. PICK x : x = [deed[d] EXCEPT !.step = "recorded"]
    OBVIOUS
  <1>3. x \in ReadDeeds /\ x.step = "recorded"
    BY <1>1, <1>2 DEF ReadDeeds
  <1>4. deed' = [deed EXCEPT ![d] = x]
    BY <1>0, <1>2 DEF DeedRecorded, InboxTypes
  <1>5. deed'[d] = x /\ \A e \in Deeds \ {d} : deed'[e] = deed[e]
    BY <1>0, <1>4 DEF InboxTypes
  <1>6. noted \subseteq noted' /\ noted' \subseteq noted \union {"gap"}
    BY DEF DeedRecorded, Marked
  <1>7. /\ Assigns(d) => /\ trail' = [trail EXCEPT ![deed[d].thread] = NewOwner(d)]
                         /\ "gap" \in noted' => \/ "gap" \in noted
                                                 \/ deed[d].from # trail[deed[d].thread]
        /\ ~Assigns(d) => trail' = trail /\ noted' = noted
    BY DEF DeedRecorded, Marked, PreviousOwner
  <1>8. NewOwner(d) \in Members \union {Nobody}
    BY <1>1, DeedsApart DEF NewOwner
  <1>9. trail' \in [Threads -> Members \union {Nobody}]
    BY <1>0, <1>1, <1>7, <1>8 DEF InboxTypes
  <1>10. TrailHolds'
    <2>1. CASE "overlap" \in noted'
      BY <2>1 DEF TrailHolds
    <2>2. CASE "overlap" \notin noted' /\ ~Assigns(d)
      <3>2. \A e \in Deeds :
              \/ deed'[e] = deed[e]
              \/ ~(deed[e].step \in {"read", "patched"} /\ Assigns(e))
                   /\ ~(deed'[e].step \in {"read", "patched"} /\ Assigns(e)')
        BY <1>3, <1>5, <2>2
      <3> QED BY <1>0, <1>7, <2>2, <3>2, TrailStays DEF InboxInv
    <2>3. CASE "overlap" \notin noted' /\ Assigns(d)
      <3>0. "overlap" \notin noted
        BY <1>6, <2>3
      <3>1. ASSUME NEW e \in Deeds \ {d}, NEW t \in Threads
            PROVE  /\ UnderWayAt(e, t)' <=> UnderWayAt(e, t)
                   /\ deed'[e] = deed[e] /\ NewOwner(e)' = NewOwner(e)
        BY <1>5 DEF UnderWayAt, Assigns, NewOwner
      <3>2. \A t \in Threads : ~UnderWayAt(d, t)'
        BY <1>3, <1>5 DEF UnderWayAt
      <3>3. UnderWayAt(d, deed[d].thread)
        BY <1>1, <2>3 DEF UnderWayAt
      <3>4. \A e \in Deeds \ {d}, t \in Threads : UnderWayAt(e, t) => t # deed[d].thread
        BY <1>1, <3>0, <3>3 DEF TrailHolds, InboxInv
      <3>5. deed[d].from = trail[deed[d].thread] /\ row[deed[d].thread].owner = NewOwner(d)
        BY <1>1, <3>0, <3>3 DEF TrailHolds, InboxInv
      <3>6. /\ trail'[deed[d].thread] = NewOwner(d)
            /\ \A t \in Threads \ {deed[d].thread} : trail'[t] = trail[t]
        BY <1>0, <1>1, <1>7, <2>3 DEF InboxTypes
      <3>7. \A c, e \in Deeds, t \in Threads : UnderWayAt(c, t)' /\ UnderWayAt(e, t)' => c = e
        BY <3>0, <3>1, <3>2 DEF TrailHolds, InboxInv
      <3>8. \A e \in Deeds, t \in Threads : UnderWayAt(e, t)' => deed'[e].from = trail'[t]
        BY <3>0, <3>1, <3>2, <3>4, <3>6 DEF TrailHolds, InboxInv
      <3>9. \A e \in Deeds, t \in Threads :
               UnderWayAt(e, t)' /\ deed'[e].step = "patched" => row'[t].owner = NewOwner(e)'
        BY <1>0, <3>0, <3>1, <3>2 DEF TrailHolds, InboxInv
      <3>10. ASSUME NEW t \in Threads
             PROVE  trail'[t] = row'[t].owner
                      \/ \E e \in Deeds : UnderWayAt(e, t)' /\ deed'[e].step = "patched"
        <4>1. CASE t = deed[d].thread
          BY <1>0, <3>5, <3>6, <4>1
        <4>2. CASE t # deed[d].thread
          <5>1. \/ trail[t] = row[t].owner
                \/ \E e \in Deeds : UnderWayAt(e, t) /\ deed[e].step = "patched"
            BY <3>0 DEF TrailHolds, InboxInv
          <5>2. ~UnderWayAt(d, t)
            BY <4>2 DEF UnderWayAt
          <5> QED BY <1>0, <3>1, <3>6, <4>2, <5>1, <5>2
        <4> QED BY <4>1, <4>2
      <3>11. "gap" \notin noted'
        BY <1>7, <2>3, <3>0, <3>5 DEF TrailHolds, InboxInv
      <3> QED BY <3>7, <3>8, <3>9, <3>10, <3>11 DEF TrailHolds
    <2> QED BY <2>1, <2>2, <2>3
  <1>11. feed' \in [Feeds -> FeedRecords] /\ \A f \in Feeds : Goes(feed[f], feed'[f])
    BY <1>0, FeedsStay DEF screenVars
  <1>12. "twice" \notin noted'
    BY <1>6 DEF InboxInv, SeenIsBehind
  <1>13. SeenIsBehind' /\ NewsHolds' /\ OldIsSeen'
    BY <1>0, <1>6, <1>11, <1>12, ToastWaits
  <1>14. row' \in [Threads -> InboxRows]
    BY <1>0 DEF InboxTypes
  <1>15. hitches' \in 0..MaxHitches /\ hitches <= hitches'
    BY <1>0, InboxConstants DEF InboxTypes
  <1> QED
    BY <1>0, <1>3, <1>4, <1>6, <1>9, <1>10, <1>11, <1>13, <1>14, <1>15, DeedGoes
    DEF screenVars

\* It is answered, and wakes the list and the totals.
LEMMA AnswerStep ==
    ASSUME InboxInv, NEW d \in Deeds, Answered(d)
    PROVE  InboxInv'
  <1>0. /\ InboxTypes /\ \A f \in Feeds : ReadIsKept(f)
        /\ UNCHANGED <<watch, row, filter, selected, search, toastVars, quarter, trail, hitches>>
    BY DEF InboxInv, Answered
  <1>1. /\ deed[d] \in OpenDeeds \union ReadDeeds /\ deed[d].step = "recorded"
        /\ deed[d].of \in Filters
    BY <1>0, DeedsApart DEF Answered, InboxTypes
  <1>2. PICK x : x = [deed[d] EXCEPT !.step = "done"]
    OBVIOUS
  <1>3. /\ x \in OpenDeeds \union ReadDeeds /\ x.step = "done"
        /\ x.by = deed[d].by /\ x.ok = deed[d].ok
    BY <1>1, <1>2 DEF OpenDeeds, ReadDeeds
  <1>4. deed' = [deed EXCEPT ![d] = x]
    BY <1>0, <1>2 DEF Answered, InboxTypes
  <1>5. deed'[d] = x /\ \A e \in Deeds \ {d} : deed'[e] = deed[e]
    BY <1>0, <1>4 DEF InboxTypes
  <1>6. TrailHolds'
    <2>0. noted \subseteq noted' /\ ("gap" \in noted' => "gap" \in noted)
      BY DEF Answered
    <2>1. \A e \in Deeds :
              \/ deed'[e] = deed[e]
              \/ ~(deed[e].step \in {"read", "patched"} /\ Assigns(e))
                   /\ ~(deed'[e].step \in {"read", "patched"} /\ Assigns(e)')
      BY <1>1, <1>3, <1>5
    <2> QED BY <1>0, <2>0, <2>1, TrailStays DEF InboxInv
  <1>7. /\ noted \subseteq noted' /\ "twice" \notin noted'
        /\ feed' \in [Feeds -> FeedRecords] /\ (\A f \in Feeds : Goes(feed[f], feed'[f]))
        /\ \/ feed'["list"].call = feed["list"].call
           \/ "left" \in noted' \/ feed'["list"].call.of = filter
        /\ \A f \in {"list", "counts"} :
              x.step = "done" /\ x.by = "me" /\ x.ok /\ watch = "screen" /\ "skipped" \notin noted'
                => DeedIsSeen(d, feed'[f])
    <2>0. "twice" \notin noted
      BY DEF InboxInv, SeenIsBehind
    <2>1. CASE deed[d].by = "me" /\ watch = "screen" /\ (deed[d].kind # "read" \/ deed[d].ok)
      <3>1. feed' = [f \in Feeds |-> IF f \in Wakes THEN Refresh(feed[f], deed[d].of) ELSE feed[f]]
        BY <2>1 DEF Answered
      <3>2. /\ noted \subseteq noted' /\ "twice" \notin noted'
            /\ deed[d].of # filter => "left" \in noted'
            /\ \A f \in {"list", "counts"} :
                 feed[f].call.step = "read" /\ d \notin feed[f].call.answer.sees
                   => "skipped" \in noted'
        BY <2>0, <2>1 DEF Answered
      <3>3. ASSUME NEW f \in Feeds
            PROVE  /\ feed'[f] \in FeedRecords /\ Goes(feed[f], feed'[f])
                   /\ feed[f].call = Idle => feed'[f].call = Asked(deed[d].of) \/ f \notin Wakes
                   /\ feed[f].call # Idle => feed'[f].call = feed[f].call
        <4>1. feed[f] \in FeedRecords /\ quarter \in Nat
          BY <1>0 DEF InboxTypes
        <4>2. CASE f \in Wakes
          <5>1. feed'[f] = Refresh(feed[f], deed[d].of)
            BY <3>1, <4>2
          <5>2. feed'[f] \in FeedRecords /\ Fetched(feed[f], feed'[f], deed[d].of)
            BY <1>1, <4>1, <5>1, RefreshedIs
          <5>3. Goes(feed[f], feed'[f])
            BY <1>1, <5>2, FetchedGoes
          <5> QED BY <5>2, <5>3 DEF Fetched
        <4>3. CASE f \notin Wakes
          BY <3>1, <4>1, <4>3 DEF Goes
        <4> QED BY <4>2, <4>3
      <3>4. feed' \in [Feeds -> FeedRecords]
        BY <3>1, <3>3
      <3>5. \/ feed'["list"].call = feed["list"].call
            \/ "left" \in noted' \/ feed'["list"].call.of = filter
        BY <1>1, <3>2, <3>3, CallsApart DEF Feeds, Wakes
      <3>6. ASSUME NEW f \in {"list", "counts"}, "skipped" \notin noted'
            PROVE  DeedIsSeen(d, feed'[f])
        <4>1. f \in Feeds /\ f \in Wakes /\ feed[f] \in FeedRecords
          BY <1>0 DEF Feeds, Wakes, InboxTypes
        <4>2. CASE feed[f].call = Idle
          BY <1>1, <3>3, <4>1, <4>2, CallsApart DEF DeedIsSeen
        <4>3. CASE feed[f].call \in AskedOnes
          BY <3>3, <4>1, <4>3, CallsApart DEF DeedIsSeen
        <4>4. CASE feed[f].call \in ReadOnes
          BY <3>2, <3>3, <3>6, <4>1, <4>4, CallsApart DEF DeedIsSeen
        <4> QED BY <4>1, <4>2, <4>3, <4>4, FeedFields
      <3> QED BY <3>2, <3>3, <3>4, <3>5, <3>6
    <2>2. CASE ~(deed[d].by = "me" /\ watch = "screen" /\ (deed[d].kind # "read" \/ deed[d].ok))
      <3>1. feed' = feed /\ noted' = noted
        BY <2>2 DEF Answered
      <3>2. feed' \in [Feeds -> FeedRecords] /\ \A f \in Feeds : Goes(feed[f], feed'[f])
        BY <3>1, FeedsStay
      <3> QED BY <1>3, <2>0, <2>2, <3>1, <3>2
    <2> QED BY <2>1, <2>2
  <1>8. SeenIsBehind' /\ NewsHolds' /\ OldIsSeen'
    BY <1>0, <1>7, ToastWaits
  <1>9. /\ row' \in [Threads -> InboxRows] /\ trail' \in [Threads -> Members \union {Nobody}]
        /\ hitches' \in 0..MaxHitches /\ hitches <= hitches'
    BY <1>0, InboxConstants DEF InboxTypes
  <1> QED BY <1>0, <1>3, <1>4, <1>6, <1>7, <1>8, <1>9, DeedGoes

\* What the route answers.
LEMMA AnswerIs ==
    ASSUME InboxTypes, NEW f \in Feeds, feed[f].call \in AskedOnes, NEW answer \in Answers(f)
    PROVE  /\ answer.sees = Patched
           /\ f = "counts" => answer \in Totals
           /\ f # "counts" => /\ answer \in ThreadPages /\ answer.of = feed[f].call.of
                              /\ DOMAIN answer.rows = Range(answer.ids)
                              /\ \A t \in DOMAIN answer.rows : answer.rows[t] = row[t]
  <1>1. Patched \in SUBSET Deeds
    BY DEF Patched
  <1>2. CASE f = "counts"
    <2>1. PICK totals : totals = [k \in Filters |-> Cardinality(Matching(k))]
      OBVIOUS
    <2>2. \A k \in Filters : Cardinality(Matching(k)) \in Nat
      <3> SUFFICES ASSUME NEW k \in Filters PROVE Cardinality(Matching(k)) \in Nat
        OBVIOUS
      <3>1. Matching(k) \subseteq Threads /\ IsFiniteSet(Threads)
        BY InboxDeskAssumption DEF Matching
      <3>2. IsFiniteSet(Matching(k))
        BY <3>1, FS_Subset
      <3> QED BY <3>2, FS_CardinalityType
    <2>3. totals \in [Filters -> Nat]
      BY <2>1, <2>2
    <2>4. answer = [known |-> TRUE, sees |-> Patched, counts |-> totals]
      BY <1>2, <2>1 DEF Answers
    <2> QED BY <1>1, <1>2, <2>3, <2>4 DEF Totals
  <1>3. CASE f # "counts"
    <2>1. PICK of \in Filters : of = feed[f].call.of
      BY DEF AskedOnes
    <2>2. PICK ids \in InboxPages(of) :
            answer = [known |-> TRUE, sees |-> Patched, of |-> of, ids |-> ids,
                      rows |-> [t \in Range(ids) |-> row[t]]]
      BY <1>3, <2>1 DEF Answers
    <2>3. PICK n \in 0..PageSize : ids \in [1..n -> Matching(of)]
      BY DEF InboxPages
    <2>4. Matching(of) \subseteq Threads
      BY DEF Matching
    <2>5. ids \in UNION {[1..k -> Threads] : k \in 0..PageSize} /\ Range(ids) \subseteq Threads
      BY <2>3, <2>4 DEF Range
    <2>6. PICK page : page = [t \in Range(ids) |-> row[t]]
      OBVIOUS
    <2>7. /\ page \in UNION {[some -> InboxRows] : some \in SUBSET Threads}
          /\ DOMAIN page = Range(ids) /\ \A t \in DOMAIN page : page[t] = row[t]
      BY <2>5, <2>6 DEF InboxTypes
    <2>8. answer = [known |-> TRUE, sees |-> Patched, of |-> of, ids |-> ids, rows |-> page]
      BY <2>2, <2>6
    <2>9. answer \in ThreadPages
      BY <1>1, <2>5, <2>7, <2>8 DEF ThreadPages
    <2> QED BY <1>3, <2>1, <2>7, <2>8, <2>9
  <1> QED BY <1>2, <1>3

\* The feeds beside the one that steps, in a step of one feed.
LEMMA FeedStep ==
    ASSUME InboxInv, NEW f \in Feeds, NEW s \in FeedRecords, feed' = [feed EXCEPT ![f] = s],
           UNCHANGED <<watch, row, deed, trail, selected, search, quarter>>,
           filter' \in Filters, hitches' \in 0..MaxHitches, hitches <= hitches',
           seeded' \in BOOLEAN, seen' \in [Threads -> Nat],
           noted \subseteq noted', "gap" \in noted' => "gap" \in noted,
           ReadIsKept(f)', ListHolds',
           watch = "screen" /\ "skipped" \notin noted /\ f \in {"list", "counts"} =>
              \A d \in Deeds : deed[d].step = "done" /\ deed[d].by = "me" /\ deed[d].ok
                  => DeedIsSeen(d, s),
           SeenIsBehind', NewsHolds', OldIsSeen'
    PROVE  InboxInv'
  <1>0. InboxTypes /\ \A g \in Feeds : ReadIsKept(g)
    BY DEF InboxInv
  <1>1. /\ feed' \in [Feeds -> FeedRecords] /\ feed'[f] = s
        /\ \A g \in Feeds \ {f} : feed'[g] = feed[g]
    BY <1>0, FeedSet DEF InboxTypes
  <1>2. InboxTypes'
    <2>1. \A t \in Threads : row'[t].last <= hitches' + 1
      <3> SUFFICES ASSUME NEW t \in Threads PROVE row'[t].last <= hitches' + 1
        OBVIOUS
      <3>1. row[t].last <= hitches + 1 /\ hitches \in Nat /\ hitches' \in Nat
        BY <1>0, InboxConstants DEF InboxTypes
      <3>2. row[t].last \in Nat /\ row'[t].last = row[t].last
        BY <1>0, InboxConstants DEF InboxTypes, InboxRows
      <3> QED BY <3>1, <3>2
    <2> QED BY <1>0, <1>1, <2>1 DEF InboxTypes
  <1>3. \A g \in Feeds : ReadIsKept(g)'
    <2> SUFFICES ASSUME NEW g \in Feeds PROVE ReadIsKept(g)'
      OBVIOUS
    <2>1. CASE g = f
      BY <2>1
    <2>2. CASE g # f
      BY <1>0, <1>1, <2>2 DEF ReadIsKept
    <2> QED BY <2>1, <2>2
  <1>4. DeedsAreSeen'
    <2> SUFFICES ASSUME watch = "screen", "skipped" \notin noted', NEW d \in Deeds,
                        NEW g \in {"list", "counts"},
                        deed[d].step = "done", deed[d].by = "me", deed[d].ok
                 PROVE  DeedIsSeen(d, feed'[g])
      BY DEF DeedsAreSeen
    <2>1. DeedIsSeen(d, feed[g]) /\ g \in Feeds
      BY DEF InboxInv, DeedsAreSeen, Feeds
    <2>2. CASE g = f
      BY <1>1, <2>2
    <2>3. CASE g # f
      BY <1>1, <2>1, <2>3
    <2> QED BY <2>2, <2>3
  <1>5. TrailHolds'
    BY <1>0, TrailStays DEF InboxInv
  <1> QED BY <1>2, <1>3, <1>4, <1>5 DEF InboxInv

\* A feed's call is read.
LEMMA RouteStep ==
    ASSUME InboxInv, NEW f \in Feeds, RouteReads(f)
    PROVE  InboxInv'
  <1>0. /\ InboxTypes /\ ReadIsKept(f) /\ ListHolds /\ feed \in [Feeds -> FeedRecords]
        /\ UNCHANGED <<watch, row, filter, selected, search, deed, toastVars, quarter, trail,
                       hitches>>
        /\ UNCHANGED <<seeded, seen, told>>
    BY DEF InboxInv, InboxTypes, RouteReads, toastVars
  <1>1. feed[f].call \in AskedOnes /\ feed[f] \in FeedRecords /\ feed[f].call # Idle
    BY <1>0, FeedFields, CallsApart DEF RouteReads
  <1>2. PICK answer \in Answers(f) :
          /\ feed' = [feed EXCEPT ![f].call = [step |-> "read", of |-> @.of,
                                               isVoid |-> @.isVoid, answer |-> answer]]
          /\ noted' = IF f = "toast" /\ Range(answer.ids) # Matching("mine")
                      THEN noted \union {"crowded"} ELSE noted
    BY DEF RouteReads, Marked
  <1>3. /\ answer.sees = Patched
        /\ f = "counts" => answer \in Totals
        /\ f # "counts" => /\ answer \in ThreadPages /\ answer.of = feed[f].call.of
                           /\ DOMAIN answer.rows = Range(answer.ids)
                           /\ \A t \in DOMAIN answer.rows : answer.rows[t] = row[t]
    BY <1>0, <1>1, AnswerIs
  <1>4. PICK c : c = [step |-> "read", of |-> feed[f].call.of, isVoid |-> feed[f].call.isVoid,
                      answer |-> answer]
    OBVIOUS
  <1>5. /\ c \in ReadOnes /\ c.of = feed[f].call.of /\ c.isVoid = feed[f].call.isVoid
         /\ c.answer = answer
    <2>1. answer \in FeedAnswers
      BY <1>3 DEF FeedAnswers
    <2>2. feed[f].call.of \in Filters /\ feed[f].call.isVoid \in BOOLEAN
      BY <1>1 DEF AskedOnes
    <2> QED BY <1>4, <2>1, <2>2 DEF ReadOnes
  <1>6. PICK s : s = [feed[f] EXCEPT !.call = c]
    OBVIOUS
  <1>7. /\ s \in FeedRecords /\ s.data = feed[f].data /\ s.call = c /\ s.error = feed[f].error
        /\ s.isLoading = feed[f].isLoading
    BY <1>1, <1>5, <1>6 DEF FeedRecords
  <1>8. feed' = [feed EXCEPT ![f] = s]
    BY <1>0, <1>2, <1>4, <1>6
  <1>9. feed'[f] = s /\ \A g \in Feeds \ {f} : feed'[g] = feed[g]
    BY <1>0, <1>7, <1>8, FeedSet
  <1>10. s.call # Idle /\ s.call \in ReadOnes /\ "list" \in Feeds /\ "toast" \in Feeds
    BY <1>7, <1>5, CallsApart DEF Feeds
  <1>11. ReadIsKept(f)'
    BY <1>0, <1>1, <1>3, <1>5, <1>7, <1>9, <1>10 DEF ReadIsKept
  <1>12. noted \subseteq noted' /\ noted' \subseteq noted \union {"crowded"}
    BY <1>2
  <1>13. ListHolds'
    <2>1. CASE f = "list"
      <3>1. s.call.isVoid => s.data = NoData /\ "switched" \in noted'
        BY <1>0, <1>1, <1>5, <1>7, <1>12, <2>1 DEF ListHolds
      <3>2. s.data = NoData /\ noted' \intersect {"switched", "stopped"} = {} =>
              s.error # "none" \/ s.isLoading
        BY <1>0, <1>7, <1>12, <2>1 DEF ListHolds
      <3>3. noted' \intersect {"failed", "left"} = {} => s.error \in {"none", filter}
        BY <1>0, <1>7, <1>12, <2>1 DEF ListHolds
      <3>4. "left" \notin noted' =>
              /\ s.data # NoData => s.data.of = filter
              /\ ~s.call.isVoid => s.call.of = filter
        BY <1>0, <1>1, <1>5, <1>7, <1>12, <2>1 DEF ListHolds
      <3>5. s.call.answer.of = s.call.of
        BY <1>3, <1>5, <1>7, <2>1
      <3> QED BY <1>0, <1>9, <1>10, <2>1, <3>1, <3>2, <3>3, <3>4, <3>5 DEF ListHolds
    <2>2. CASE f # "list"
      BY <1>0, <1>9, <1>10, <1>12, <2>2 DEF ListHolds
    <2> QED BY <2>1, <2>2
  <1>14. \A d \in Deeds : deed[d].step = "done" /\ deed[d].by = "me" /\ deed[d].ok
           => DeedIsSeen(d, s)
    BY <1>3, <1>5, <1>7, <1>10 DEF DeedIsSeen, Patched
  <1>15. /\ hitches' \in 0..MaxHitches /\ hitches <= hitches' /\ seeded' \in BOOLEAN
         /\ filter' \in Filters /\ seen' \in [Threads -> Nat]
         /\ "gap" \in noted' => "gap" \in noted
    BY <1>0, <1>12, InboxConstants DEF InboxTypes
  <1>16. CASE f # "toast"
    <2>1. feed'["toast"] = feed["toast"] /\ "twice" \notin noted'
      BY <1>9, <1>10, <1>12, <1>16 DEF InboxInv, SeenIsBehind
    <2>2. SeenIsBehind' /\ NewsHolds' /\ OldIsSeen'
      BY <1>0, <1>12, <2>1, ToastStays DEF InboxInv
    <2> QED BY <1>0, <1>7, <1>8, <1>11, <1>12, <1>13, <1>14, <1>15, <2>2, FeedStep
  <1>17. CASE f = "toast"
    <2>0. Announced' = Announced /\ feed'["toast"] = s
      BY <1>0, <1>9, <1>17 DEF Announced
    <2>1. SeenIsBehind'
      <3>1. SeenIsBehind /\ "twice" \notin noted'
        BY <1>12 DEF InboxInv, SeenIsBehind
      <3>2. \A t \in DOMAIN answer.rows :
              seen[t] <= answer.rows[t].last /\ answer.rows[t].last <= row[t].last
        <4> SUFFICES ASSUME NEW t \in DOMAIN answer.rows
                     PROVE  seen[t] <= answer.rows[t].last /\ answer.rows[t].last <= row[t].last
          OBVIOUS
        <4>1. t \in Threads /\ answer.rows[t] = row[t]
          BY <1>3, <1>17, PageRows
        <4>2. row[t].last \in Nat
          BY <1>0, <4>1, InboxConstants DEF InboxTypes, InboxRows
        <4> QED BY <3>1, <4>1, <4>2 DEF SeenIsBehind
      <3>3. s.call.answer = answer /\ s.data = feed["toast"].data
        BY <1>5, <1>7, <1>17
      <3> QED BY <1>0, <2>0, <3>1, <3>2, <3>3 DEF SeenIsBehind
    <2>2. NewsHolds'
      BY <1>0, <1>12, <2>0 DEF NewsHolds, InboxInv
    <2>3. OldIsSeen'
      <3>1. CASE noted' \intersect {"joined", "crowded"} # {}
        BY <3>1 DEF OldIsSeen
      <3>2. CASE noted' \intersect {"joined", "crowded"} = {}
        <4>1. noted \intersect {"joined", "crowded"} = {}
          BY <1>12, <3>2
        <4>2. DOMAIN answer.rows = Matching("mine")
          BY <1>2, <1>3, <1>17, <3>2
        <4>3. \A t \in Threads : Old(row[t]) => t \in DOMAIN answer.rows
          BY <4>2 DEF Matching, Old
        <4>4. seeded => \A t \in DOMAIN answer.rows : answer.rows[t].last = 1 => seen[t] >= 1
          <5> SUFFICES ASSUME seeded, NEW t \in DOMAIN answer.rows, answer.rows[t].last = 1
                       PROVE  seen[t] >= 1
            OBVIOUS
          <5>1. t \in Threads /\ answer.rows[t] = row[t] /\ Holds("mine", row[t])
            BY <1>3, <1>17, <4>2 DEF Matching
          <5>2. Old(row[t])
            BY <5>1 DEF Old
          <5> QED BY <4>1, <5>1, <5>2 DEF OldIsSeen, InboxInv
        <4>5. \A t \in Threads : Old(row[t])' <=> Old(row[t])
          BY <1>0 DEF Old, Holds
        <4>6. s.call.answer = answer
          BY <1>5, <1>7
        <4>7. \A t \in Threads : seeded /\ Old(row[t]) => seen[t] >= 1
          BY <4>1 DEF OldIsSeen, InboxInv
        <4>8. \A news \in Announced : news[2] # 1
          BY <4>1 DEF OldIsSeen, InboxInv
        <4> QED BY <1>0, <2>0, <4>3, <4>4, <4>5, <4>6, <4>7, <4>8 DEF OldIsSeen
      <3> QED BY <3>1, <3>2
    <2> QED BY <1>0, <1>7, <1>8, <1>11, <1>12, <1>13, <1>14, <2>1, <2>2, <2>3, <1>15,
               FeedStep
  <1> QED BY <1>16, <1>17

\* An answer is shown, or dropped.
LEMMA ShownIs ==
    ASSUME NEW r \in FeedRecords, r.call \in ReadOnes
    PROVE  /\ AnswerShown(r) \in FeedRecords
           /\ AnswerShown(r).call = Idle
           /\ r.call.isVoid => AnswerShown(r).data = r.data /\ AnswerShown(r).error = r.error
           /\ ~r.call.isVoid => /\ AnswerShown(r).data = r.call.answer
                                /\ AnswerShown(r).error = "none"
  <1>1. PICK answer \in FeedAnswers : answer = r.call.answer
    BY DEF ReadOnes
  <1>2. CASE r.call.isVoid
    <2>1. AnswerShown(r) = [r EXCEPT !.call = Idle, !.isLoading = FALSE]
      BY <1>2 DEF AnswerShown
    <2> QED BY <1>2, <2>1 DEF FeedRecords
  <1>3. CASE ~r.call.isVoid
    <2>1. AnswerShown(r) = [r EXCEPT !.call = Idle, !.isLoading = FALSE, !.data = answer,
                                     !.error = "none"]
      BY <1>1, <1>3 DEF AnswerShown
    <2> QED BY <1>1, <1>3, <2>1 DEF FeedRecords
  <1> QED BY <1>2, <1>3

\* What the toaster announces of a page.
LEMMA ToastsAre ==
    ASSUME NEW page
    PROVE  /\ UNION {toast.news : toast \in Toasts(page)}
                = {<<t, page[t].last>> : t \in Fresh(page)}
           /\ told' = told \union Toasts(page) =>
                Announced' = Announced \union {<<t, page[t].last>> : t \in Fresh(page)}
  <1>1. UNION {toast.news : toast \in Toasts(page)} = {<<t, page[t].last>> : t \in Fresh(page)}
    <2>1. CASE Cardinality(Fresh(page)) > MaxToasts
      BY <2>1 DEF Toasts
    <2>2. CASE ~(Cardinality(Fresh(page)) > MaxToasts)
      <3>1. Toasts(page) = {[threads |-> {t}, news |-> {<<t, page[t].last>>}] : t \in Fresh(page)}
        BY <2>2 DEF Toasts
      <3>2. ASSUME NEW news \in UNION {toast.news : toast \in Toasts(page)}
            PROVE  \E t \in Fresh(page) : news = <<t, page[t].last>>
        <4>1. PICK toast \in Toasts(page) : news \in toast.news
          OBVIOUS
        <4>2. PICK t \in Fresh(page) :
                toast = [threads |-> {t}, news |-> {<<t, page[t].last>>}]
          BY <3>1
        <4> QED BY <4>1, <4>2
      <3>3. ASSUME NEW t \in Fresh(page)
            PROVE  <<t, page[t].last>> \in UNION {toast.news : toast \in Toasts(page)}
        <4>1. PICK toast : toast = [threads |-> {t}, news |-> {<<t, page[t].last>>}]
          OBVIOUS
        <4>2. toast \in Toasts(page) /\ <<t, page[t].last>> \in toast.news
          BY <3>1, <4>1
        <4> QED BY <4>2
      <3> QED BY <3>2, <3>3
    <2> QED BY <2>1, <2>2
  <1>2. ASSUME told' = told \union Toasts(page)
        PROVE  Announced' = Announced \union UNION {toast.news : toast \in Toasts(page)}
    BY <1>2 DEF Announced
  <1> QED BY <1>1, <1>2

\* The toaster, when a page arrives.
LEMMA ToastArrives ==
    ASSUME InboxInv, feed["toast"].call \in ReadOnes, feed' \in [Feeds -> FeedRecords],
           feed'["toast"].call = Idle, feed'["toast"].data = feed["toast"].call.answer,
           NEW page, page = feed["toast"].call.answer.rows, row' = row,
           seeded' = TRUE, seen' = SeenAfter(page), told' = told \union Toasts(page),
           Marked("twice", \E toast \in Toasts(page) : toast.news \intersect Announced # {})
    PROVE  /\ SeenIsBehind' /\ NewsHolds' /\ OldIsSeen'
           /\ noted' = noted /\ seen' \in [Threads -> Nat]
  <1>0. InboxTypes /\ SeenIsBehind /\ NewsHolds /\ OldIsSeen
    BY DEF InboxInv
  <1>1. feed["toast"].call.answer \in ThreadPages
    BY DEF InboxInv, ReadIsKept, Feeds
  <1>2. DOMAIN page \subseteq Threads /\ \A t \in DOMAIN page : page[t].last \in Nat \ {0}
    BY <1>1, PageRows, InboxConstants DEF InboxRows
  <1>3. /\ \A t \in Threads : seen[t] \in Nat /\ row[t].last \in Nat /\ seen[t] <= row[t].last
        /\ \A t \in DOMAIN page : seen[t] <= page[t].last /\ page[t].last <= row[t].last
    BY <1>0, InboxConstants DEF InboxTypes, InboxRows, SeenIsBehind
  <1>4. /\ \A t \in Threads : seen'[t] = IF t \in DOMAIN page THEN page[t].last ELSE seen[t]
        /\ seen' \in [Threads -> Nat]
    BY <1>2, <1>3 DEF SeenAfter
  <1>5. \A t \in Threads : seen'[t] \in Nat /\ seen[t] <= seen'[t] /\ seen'[t] <= row[t].last
    BY <1>2, <1>3, <1>4
  <1>6. \A t \in Fresh(page) :
          t \in DOMAIN page /\ t \in Threads /\ seeded /\ page[t].last > seen[t]
    BY <1>2 DEF Fresh
  <1>7. /\ UNION {toast.news : toast \in Toasts(page)} = {<<t, page[t].last>> : t \in Fresh(page)}
        /\ Announced' = Announced \union {<<t, page[t].last>> : t \in Fresh(page)}
    BY ToastsAre
  <1>8. \A news \in Announced : news \in Threads \X Nat /\ news[2] <= seen[news[1]]
    BY <1>0 DEF SeenIsBehind
  <1>9. noted' = noted
    <2>1. ASSUME NEW toast \in Toasts(page), NEW news \in toast.news \intersect Announced
          PROVE  FALSE
      <3>1. news \in {<<t, page[t].last>> : t \in Fresh(page)}
        BY <1>7
      <3>2. PICK t \in Fresh(page) : news = <<t, page[t].last>>
        BY <3>1
      <3>3. news[1] = t /\ news[2] = page[t].last
        BY <3>2
      <3> QED BY <1>2, <1>3, <1>6, <1>8, <3>3
    <2> QED BY <2>1 DEF Marked
  <1>10. SeenIsBehind'
    <2>1. "twice" \notin noted'
      BY <1>0, <1>9 DEF SeenIsBehind
    <2>2. feed'["toast"].call \notin ReadOnes
      BY CallsApart
    <2>3. \A t \in DOMAIN page : seen'[t] = page[t].last
      BY <1>2, <1>4
    <2>4. ASSUME NEW news \in Announced'
          PROVE  news \in Threads \X Nat /\ news[2] <= seen'[news[1]]
      <3>1. CASE news \in Announced
        <4>1. /\ news \in Threads \X Nat /\ news[1] \in Threads /\ news[2] \in Nat
              /\ news[2] <= seen[news[1]]
          BY <1>8, <3>1
        <4>2. seen[news[1]] <= seen'[news[1]] /\ seen'[news[1]] \in Nat /\ seen[news[1]] \in Nat
          BY <1>3, <1>5, <4>1
        <4> QED BY <4>1, <4>2
      <3>2. CASE news \in {<<t, page[t].last>> : t \in Fresh(page)}
        <4>1. PICK t \in Fresh(page) : news = <<t, page[t].last>>
          BY <3>2
        <4> QED BY <1>2, <1>6, <2>3, <4>1
      <3> QED BY <1>7, <3>1, <3>2
    <2>5. \A t \in Threads : seen'[t] <= row'[t].last
      BY <1>5
    <2> QED BY <2>1, <2>2, <2>3, <2>4, <2>5 DEF SeenIsBehind
  <1>11. NewsHolds'
    <2> SUFFICES ASSUME "early" \notin noted, NEW t \in Threads, seen'[t] > 1
                 PROVE  <<t, seen'[t]>> \in Announced'
      BY <1>9 DEF NewsHolds
    <2>1. CASE seen'[t] = seen[t]
      BY <1>0, <1>7, <2>1 DEF NewsHolds
    <2>2. CASE seen'[t] # seen[t]
      <3>1. t \in DOMAIN page /\ seen'[t] = page[t].last /\ page[t].last > seen[t]
        BY <1>2, <1>3, <1>4, <2>2
      <3>2. seeded
        BY <1>0, <1>2, <1>3, <3>1 DEF NewsHolds
      <3>3. t \in Fresh(page)
        BY <3>1, <3>2 DEF Fresh
      <3> QED BY <1>7, <3>1, <3>3
    <2> QED BY <2>1, <2>2
  <1>12. OldIsSeen'
    <2> SUFFICES ASSUME noted \intersect {"joined", "crowded"} = {}
                 PROVE  OldIsSeen'
      BY <1>9 DEF OldIsSeen
    <2>1. \A t \in Threads : Old(row'[t]) => seen'[t] >= 1
      <3> SUFFICES ASSUME NEW t \in Threads, Old(row[t]) PROVE seen'[t] >= 1
        OBVIOUS
      <3>1. t \in DOMAIN page
        BY <1>0 DEF OldIsSeen
      <3> QED BY <1>2, <1>4, <3>1
    <2>2. feed'["toast"].call \notin ReadOnes
      BY CallsApart
    <2>3. ASSUME NEW news \in Announced'
          PROVE  news[2] # 1
      <3>1. CASE news \in Announced
        BY <1>0, <3>1 DEF OldIsSeen
      <3>2. CASE news \in {<<t, page[t].last>> : t \in Fresh(page)}
        <4>1. PICK t \in Fresh(page) : news = <<t, page[t].last>>
          BY <3>2
        <4>2. page[t].last = 1 => seen[t] >= 1
          BY <1>0, <1>6 DEF OldIsSeen
        <4> QED BY <1>2, <1>3, <1>6, <4>1, <4>2
      <3> QED BY <1>7, <3>1, <3>2
    <2>4. \A t \in Threads : Old(row[t])' <=> Old(row'[t])
      BY DEF Old, Holds
    <2> QED BY <2>1, <2>2, <2>3, <2>4 DEF OldIsSeen
  <1> QED BY <1>4, <1>9, <1>10, <1>11, <1>12

\* An answer arrives.
LEMMA ArriveStep ==
    ASSUME InboxInv, NEW f \in Feeds, AnswerArrives(f)
    PROVE  InboxInv'
  <1>0. /\ InboxTypes /\ ReadIsKept(f) /\ ListHolds /\ feed \in [Feeds -> FeedRecords]
        /\ UNCHANGED <<watch, row, filter, selected, search, deed, quarter, trail, hitches>>
    BY DEF InboxInv, InboxTypes, AnswerArrives
  <1>1. /\ feed[f] \in FeedRecords /\ feed[f].call \in ReadOnes /\ feed[f].call # Idle
        /\ "list" \in Feeds /\ "toast" \in Feeds
    BY <1>0, FeedFields, CallsApart DEF AnswerArrives, Feeds
  <1>2. PICK s : s = AnswerShown(feed[f])
    OBVIOUS
  <1>3. /\ s \in FeedRecords /\ s.call = Idle
        /\ feed[f].call.isVoid => s.data = feed[f].data /\ s.error = feed[f].error
        /\ ~feed[f].call.isVoid => s.data = feed[f].call.answer /\ s.error = "none"
    BY <1>1, <1>2, ShownIs
  <1>4. feed' = [feed EXCEPT ![f] = s]
    BY <1>0, <1>2 DEF AnswerArrives
  <1>5. /\ feed' \in [Feeds -> FeedRecords] /\ feed'[f] = s
        /\ \A g \in Feeds \ {f} : feed'[g] = feed[g]
    BY <1>0, <1>3, <1>4, FeedSet
  <1>6. ReadIsKept(f)'
    BY <1>0, <1>1, <1>3, <1>5, CallsApart DEF ReadIsKept
  <1>7. noted' = noted /\ seeded' \in BOOLEAN /\ seen' \in [Threads -> Nat]
        /\ SeenIsBehind' /\ NewsHolds' /\ OldIsSeen'
    <2>1. CASE f = "toast"
      <3>1. ~feed[f].call.isVoid
        BY <1>0, <1>1, <2>1 DEF ReadIsKept
      <3>2. PICK page : page = feed["toast"].call.answer.rows
        OBVIOUS
      <3>3. /\ seeded' = TRUE /\ seen' = SeenAfter(page) /\ told' = told \union Toasts(page)
            /\ Marked("twice", \E toast \in Toasts(page) : toast.news \intersect Announced # {})
        BY <2>1, <3>2 DEF AnswerArrives
      <3>4. /\ feed["toast"].call \in ReadOnes /\ feed'["toast"].call = Idle
            /\ feed'["toast"].data = feed["toast"].call.answer /\ row' = row
        BY <1>0, <1>1, <1>3, <1>5, <2>1, <3>1
      <3>5. /\ SeenIsBehind' /\ NewsHolds' /\ OldIsSeen'
            /\ noted' = noted /\ seen' \in [Threads -> Nat]
        BY <1>5, <3>2, <3>3, <3>4, ToastArrives
      <3> QED BY <3>3, <3>5
    <2>2. CASE f # "toast"
      <3>1. UNCHANGED <<toastVars, noted>> /\ UNCHANGED <<seeded, seen, told>>
        BY <2>2 DEF AnswerArrives, toastVars
      <3>2. feed'["toast"] = feed["toast"] /\ "twice" \notin noted'
        BY <1>1, <1>5, <2>2, <3>1 DEF InboxInv, SeenIsBehind
      <3>3. SeenIsBehind' /\ NewsHolds' /\ OldIsSeen'
        BY <1>0, <3>1, <3>2, ToastStays DEF InboxInv
      <3> QED BY <1>0, <3>1, <3>3 DEF InboxTypes
    <2> QED BY <2>1, <2>2
  <1>8. ListHolds'
    <2>1. CASE f = "list"
      <3>1. s.call \notin ReadOnes
        BY <1>3, CallsApart
      <3>2. feed[f].call.answer \in ThreadPages /\ feed[f].call.answer # NoData
        BY <1>0, <1>1, <2>1, DataKnown DEF ReadIsKept, FeedAnswers
      <3>3. s.data = NoData /\ noted \intersect {"switched", "stopped"} = {} => FALSE
        BY <1>0, <1>1, <1>3, <2>1, <3>2 DEF ListHolds
      <3>4. noted \intersect {"failed", "left"} = {} => s.error \in {"none", filter}
        BY <1>0, <1>3, <2>1 DEF ListHolds
      <3>5. "left" \notin noted /\ s.data # NoData => s.data.of = filter
        BY <1>0, <1>1, <1>3, <2>1 DEF ListHolds
      <3> QED BY <1>0, <1>3, <1>5, <1>7, <2>1, <3>1, <3>3, <3>4, <3>5 DEF ListHolds
    <2>2. CASE f # "list"
      BY <1>0, <1>1, <1>5, <1>7, <2>2 DEF ListHolds
    <2> QED BY <2>1, <2>2
  <1>9. ASSUME watch = "screen", "skipped" \notin noted, f \in {"list", "counts"}, NEW d \in Deeds,
               deed[d].step = "done", deed[d].by = "me", deed[d].ok
        PROVE  DeedIsSeen(d, s)
    <2>1. DeedIsSeen(d, feed[f])
      BY <1>9 DEF InboxInv, DeedsAreSeen
    <2>2. feed[f].call.isVoid \/ d \in feed[f].call.answer.sees
      BY <1>1, <2>1, CallsApart DEF DeedIsSeen
    <2>3. CASE feed[f].call.isVoid
      <3>1. s.data = NoData
        BY <1>0, <1>1, <1>3, <2>3 DEF ReadIsKept, ListHolds
      <3> QED BY <1>3, <3>1 DEF DeedIsSeen
    <2>4. CASE ~feed[f].call.isVoid
      BY <1>3, <2>2, <2>4 DEF DeedIsSeen
    <2> QED BY <2>3, <2>4
  <1>10. filter' \in Filters /\ hitches' \in 0..MaxHitches /\ hitches <= hitches'
    BY <1>0, InboxConstants DEF InboxTypes
  <1> QED BY <1>0, <1>3, <1>4, <1>6, <1>7, <1>8, <1>9, <1>10, FeedStep

\* A call fails.
LEMMA CallFails ==
    ASSUME InboxInv, NEW f \in Feeds, FetchFails(f)
    PROVE  InboxInv'
  <1>0. /\ InboxTypes /\ ReadIsKept(f) /\ ListHolds /\ feed \in [Feeds -> FeedRecords]
        /\ UNCHANGED <<watch, row, filter, selected, search, deed, toastVars, quarter, trail,
                       noted>>
        /\ UNCHANGED <<seeded, seen, told>>
    BY DEF InboxInv, InboxTypes, FetchFails, toastVars
  <1>1. /\ feed[f] \in FeedRecords /\ feed[f].call \in AskedOnes \union ReadOnes
        /\ feed[f].call # Idle /\ feed[f].call.of \in Filters
        /\ "list" \in Feeds /\ "toast" \in Feeds
    <2>1. feed[f] \in FeedRecords /\ feed[f].call \in AskedOnes \union ReadOnes
      BY <1>0, FeedFields DEF FetchFails
    <2> QED BY <2>1 DEF FetchFails, AskedOnes, ReadOnes, Feeds
  <1>2. PICK e : e = IF feed[f].call.isVoid THEN feed[f].error ELSE feed[f].call.of
    OBVIOUS
  <1>3. e \in Filters \union {"none"}
    BY <1>1, <1>2, FeedFields
  <1>4. PICK s : s = [feed[f] EXCEPT !.call = Idle, !.isLoading = FALSE, !.error = e]
    OBVIOUS
  <1>5. s \in FeedRecords /\ s.data = feed[f].data /\ s.call = Idle /\ s.error = e
    BY <1>1, <1>3, <1>4 DEF FeedRecords
  <1>6. feed' = [feed EXCEPT ![f] = s]
    <2>1. feed' = [feed EXCEPT ![f] = [feed[f] EXCEPT !.call = Idle, !.isLoading = FALSE,
                      !.error = IF feed[f].call.isVoid THEN feed[f].error ELSE feed[f].call.of]]
      BY <1>0, <1>1 DEF FetchFails
    <2> QED BY <1>2, <1>4, <2>1
  <1>7. feed'[f] = s /\ \A g \in Feeds \ {f} : feed'[g] = feed[g]
    BY <1>0, <1>5, <1>6, FeedSet
  <1>8. ReadIsKept(f)'
    BY <1>0, <1>5, <1>7, CallsApart DEF ReadIsKept
  <1>9. ListHolds'
    <2>1. CASE f = "list"
      <3>1. s.call \notin ReadOnes
        BY <1>5, CallsApart
      <3>2. s.data = NoData /\ noted \intersect {"switched", "stopped"} = {} => s.error # "none"
        BY <1>0, <1>1, <1>2, <1>5, <2>1, InboxConstants DEF ListHolds
      <3>3. noted \intersect {"failed", "left"} = {} => s.error \in {"none", filter}
        BY <1>0, <1>1, <1>2, <1>5, <2>1 DEF ListHolds
      <3>4. "left" \notin noted /\ s.data # NoData => s.data.of = filter
        BY <1>0, <1>5, <2>1 DEF ListHolds
      <3> QED BY <1>0, <1>5, <1>7, <2>1, <3>1, <3>2, <3>3, <3>4 DEF ListHolds
    <2>2. CASE f # "list"
      BY <1>0, <1>1, <1>7, <2>2 DEF ListHolds
    <2> QED BY <2>1, <2>2
  <1>10. SeenIsBehind' /\ NewsHolds' /\ OldIsSeen'
    <2>1. /\ feed'["toast"].data = feed["toast"].data
          /\ feed'["toast"].call \in ReadOnes => feed'["toast"].call = feed["toast"].call
      <3>1. CASE f = "toast"
        BY <1>5, <1>7, <3>1, CallsApart
      <3>2. CASE f # "toast"
        BY <1>1, <1>7, <3>2
      <3> QED BY <3>1, <3>2
    <2>2. "twice" \notin noted'
      BY <1>0 DEF InboxInv, SeenIsBehind
    <2> QED BY <1>0, <2>1, <2>2, ToastStays DEF InboxInv
  <1>11. ASSUME watch = "screen", "skipped" \notin noted, f \in {"list", "counts"}, NEW d \in Deeds
         PROVE  DeedIsSeen(d, s)
    <2>1. CASE feed[f].call.isVoid
      <3>1. s.data = NoData
        BY <1>0, <1>1, <1>5, <2>1 DEF ReadIsKept, ListHolds
      <3> QED BY <1>5, <3>1 DEF DeedIsSeen
    <2>2. CASE ~feed[f].call.isVoid
      BY <1>1, <1>2, <1>5, <2>2, InboxConstants DEF DeedIsSeen
    <2> QED BY <2>1, <2>2
  <1>12. filter' \in Filters /\ hitches' \in 0..MaxHitches /\ hitches <= hitches'
    BY <1>0, InboxConstants DEF FetchFails, Hitch, InboxTypes
  <1>13. seeded' \in BOOLEAN /\ seen' \in [Threads -> Nat]
    BY <1>0 DEF InboxTypes
  <1> QED BY <1>0, <1>5, <1>6, <1>8, <1>9, <1>10, <1>11, <1>12, <1>13, FeedStep

\* The list, for another filter: it is emptied, a call under way is void, and
\* one that does not rest asks.
LEMMA FilteredIs ==
    ASSUME NEW k \in Filters, NEW r \in FeedRecords, r = feed["list"], quarter \in Nat
    PROVE  /\ Filtered(k) \in FeedRecords
           /\ Filtered(k).data = NoData /\ Filtered(k).error = r.error
           /\ r.call # Idle => /\ Filtered(k).call = [r.call EXCEPT !.isVoid = TRUE]
                               /\ Filtered(k).call \in AskedOnes \union ReadOnes
                               /\ Filtered(k).call.isVoid /\ Filtered(k).call.of = r.call.of
                               /\ Filtered(k).call \in ReadOnes =>
                                    /\ r.call \in ReadOnes
                                    /\ Filtered(k).call.answer = r.call.answer
           /\ r.call = Idle => \/ Filtered(k).call = Asked(k) /\ Filtered(k).isLoading
                               \/ Filtered(k).call = Idle /\ r.isSuspended
  <1>1. PICK v : v = IF r.call = Idle THEN Idle ELSE [r.call EXCEPT !.isVoid = TRUE]
    OBVIOUS
  <1>2. /\ r.call = Idle => v = Idle
        /\ r.call # Idle => /\ v = [r.call EXCEPT !.isVoid = TRUE]
                            /\ v \in AskedOnes \union ReadOnes /\ v.isVoid /\ v.of = r.call.of
                            /\ v \in ReadOnes => r.call \in ReadOnes /\ v.answer = r.call.answer
    <2>1. CASE r.call = Idle
      BY <1>1, <2>1
    <2>2. CASE r.call \in AskedOnes
      <3>1. v = [r.call EXCEPT !.isVoid = TRUE]
        BY <1>1, <2>2, CallsApart
      <3>2. v \in AskedOnes /\ v.isVoid /\ v.of = r.call.of
        BY <2>2, <3>1 DEF AskedOnes
      <3> QED BY <2>2, <3>1, <3>2, CallsApart
    <2>3. CASE r.call \in ReadOnes
      <3>1. v = [r.call EXCEPT !.isVoid = TRUE]
        BY <1>1, <2>3, CallsApart
      <3>2. v \in ReadOnes /\ v.isVoid /\ v.of = r.call.of /\ v.answer = r.call.answer
        BY <2>3, <3>1 DEF ReadOnes
      <3> QED BY <2>3, <3>1, <3>2, CallsApart
    <2> QED BY <2>1, <2>2, <2>3, FeedFields
  <1>3. v \in AskedOnes \union ReadOnes \union {Idle}
    BY <1>2
  <1>4. PICK q : q = Touch(r)
    OBVIOUS
  <1>5. /\ q \in FeedRecords /\ q.call = r.call /\ q.error = r.error
        /\ q.isSuspended = r.isSuspended
    BY <1>4, TouchedIs
  <1>6. PICK s : s = [q EXCEPT !.data = NoData, !.call = v]
    OBVIOUS
  <1>7. /\ s \in FeedRecords /\ s.data = NoData /\ s.call = v /\ s.error = r.error
        /\ s.isSuspended = r.isSuspended
    BY <1>3, <1>5, <1>6 DEF FeedRecords
  <1>8. s = [Touch(feed["list"]) EXCEPT !.data = NoData,
                 !.call = IF Touch(feed["list"]).call = Idle THEN Idle
                          ELSE [Touch(feed["list"]).call EXCEPT !.isVoid = TRUE]]
    BY <1>1, <1>4, <1>5, <1>6
  <1>9. Filtered(k) = IF s.isSuspended THEN s ELSE FetchOnce(s, k)
    BY <1>8 DEF Filtered
  <1>10. CASE s.isSuspended
    BY <1>2, <1>7, <1>9, <1>10
  <1>11. CASE ~s.isSuspended
    <2>1. Filtered(k) = FetchOnce(s, k)
      BY <1>9, <1>11
    <2>2. Filtered(k) \in FeedRecords /\ Fetched(s, Filtered(k), k)
      BY <1>7, <2>1, FetchedIs
    <2>3. ~s.data.known
      BY <1>7 DEF NoData
    <2> QED BY <1>2, <1>7, <2>2, <2>3, CallsApart DEF Fetched
  <1> QED BY <1>10, <1>11

\* Another filter.
LEMMA FilterStep ==
    ASSUME InboxInv, NEW k \in Filters, SetFilter(k)
    PROVE  InboxInv'
  <1>0. /\ InboxTypes /\ ReadIsKept("list") /\ ListHolds /\ feed \in [Feeds -> FeedRecords]
        /\ UNCHANGED <<watch, row, selected, search, deed, toastVars, quarter, trail>>
        /\ UNCHANGED <<seeded, seen, told>> /\ filter' = k
        /\ "list" \in Feeds /\ feed["list"] \in FeedRecords /\ quarter \in Nat
    BY DEF InboxInv, InboxTypes, SetFilter, toastVars, Feeds
  <1>1. PICK r \in FeedRecords : r = feed["list"]
    BY <1>0
  <1>2. PICK s : s = Filtered(k)
    OBVIOUS
  <1>3. /\ s \in FeedRecords /\ s.data = NoData /\ s.error = r.error
        /\ r.call # Idle => /\ s.call \in AskedOnes \union ReadOnes
                            /\ s.call.isVoid /\ s.call.of = r.call.of
                            /\ s.call \in ReadOnes =>
                                 /\ r.call \in ReadOnes
                                 /\ s.call.answer = r.call.answer
        /\ r.call = Idle => \/ s.call = Asked(k) /\ s.isLoading
                            \/ s.call = Idle /\ r.isSuspended
    BY <1>0, <1>1, <1>2, FilteredIs
  <1>4. feed' = [feed EXCEPT !["list"] = s]
    BY <1>2 DEF SetFilter
  <1>5. feed'["list"] = s /\ \A g \in Feeds \ {"list"} : feed'[g] = feed[g]
    BY <1>0, <1>3, <1>4, FeedSet
  <1>6. /\ noted \subseteq noted' /\ noted' \subseteq noted \union {"switched", "stopped", "failed"}
        /\ r.call # Idle => "switched" \in noted'
        /\ r.isSuspended => "stopped" \in noted'
        /\ r.error # "none" => "failed" \in noted'
    BY <1>1 DEF SetFilter
  <1>7. s.call = Idle \/ s.call \in AskedOnes \/ s.call \in ReadOnes
    BY <1>3, CallsApart
  <1>8. ReadIsKept("list")'
    <2>1. s.call \in ReadOnes => r.call \in ReadOnes /\ s.call.answer = r.call.answer
      BY <1>3, CallsApart
    <2> QED BY <1>0, <1>1, <1>3, <1>5, <2>1 DEF ReadIsKept
  <1>9. ListHolds'
    <2>1. s.call # Idle /\ s.call.isVoid => s.data = NoData /\ "switched" \in noted'
      BY <1>3, <1>6, CallsApart
    <2>2. noted' \intersect {"switched", "stopped"} = {} => s.call # Idle /\ s.isLoading
      BY <1>3, <1>6, CallsApart
    <2>3. noted' \intersect {"failed", "left"} = {} => s.error \in {"none", filter'}
      BY <1>3, <1>6
    <2>4. s.call # Idle /\ ~s.call.isVoid => s.call.of = filter'
      BY <1>0, <1>3, CallsApart
    <2>5. s.call \in ReadOnes => s.call.answer.of = s.call.of
      BY <1>0, <1>1, <1>3, CallsApart DEF ListHolds
    <2> QED BY <1>3, <1>5, <2>1, <2>2, <2>3, <2>4, <2>5 DEF ListHolds
  <1>10. \A d \in Deeds : DeedIsSeen(d, s)
    BY <1>3, <1>7, CallsApart DEF DeedIsSeen
  <1>11. SeenIsBehind' /\ NewsHolds' /\ OldIsSeen'
    <2>1. feed'["toast"] = feed["toast"] /\ "twice" \notin noted'
      BY <1>5, <1>6 DEF InboxInv, SeenIsBehind, Feeds
    <2> QED BY <1>0, <1>6, <2>1, ToastStays DEF InboxInv
  <1>12. hitches' \in 0..MaxHitches /\ hitches <= hitches' /\ filter' \in Filters
    BY <1>0, InboxConstants DEF SetFilter, Hitch, InboxTypes
  <1>13. seeded' \in BOOLEAN /\ seen' \in [Threads -> Nat]
    BY <1>0 DEF InboxTypes
  <1> QED BY <1>0, <1>3, <1>4, <1>6, <1>8, <1>9, <1>10, <1>11, <1>12, <1>13, FeedStep

\* A message of a customer.
LEMMA NewsStep ==
    ASSUME InboxInv, NEW t \in Threads, NewsComes(t)
    PROVE  InboxInv'
  <1>0. /\ InboxTypes /\ UNCHANGED <<watch, screenVars, deed, toastVars, quarter, trail>>
        /\ UNCHANGED <<filter, selected, search, feed>> /\ UNCHANGED <<seeded, seen, told>>
    BY DEF InboxInv, NewsComes, screenVars, toastVars
  <1>1. /\ hitches < MaxHitches /\ hitches' = hitches + 1 /\ hitches \in Nat
        /\ row[t] \in InboxRows /\ row[t].last \in Nat /\ row[t].last <= hitches + 1
        /\ row[t].last >= 1
    BY <1>0, InboxConstants DEF NewsComes, Hitch, InboxTypes, InboxRows
  <1>2. PICK last \in 1..(MaxHitches + 1) : last = row[t].last + 1
    BY <1>1, InboxConstants
  <1>3. PICK r : r = [row[t] EXCEPT !.last = last, !.read = FALSE, !.closed = FALSE]
    OBVIOUS
  <1>4. r \in InboxRows /\ r.last = row[t].last + 1 /\ r.owner = row[t].owner
    BY <1>1, <1>2, <1>3 DEF InboxRows
  <1>5. row' = [row EXCEPT ![t] = r]
    BY <1>2, <1>3 DEF NewsComes
  <1>6. /\ row' \in [Threads -> InboxRows] /\ row'[t] = r
        /\ \A u \in Threads \ {t} : row'[u] = row[u]
    BY <1>0, <1>4, <1>5 DEF InboxTypes
  <1>7. \A u \in Threads :
          /\ row[u].last \in Nat /\ row'[u].last \in Nat /\ row[u].last <= row'[u].last
          /\ row'[u].owner = row[u].owner /\ seen[u] \in Nat
    <2> SUFFICES ASSUME NEW u \in Threads
                 PROVE  /\ row[u].last \in Nat /\ row'[u].last \in Nat
                        /\ row[u].last <= row'[u].last
                        /\ row'[u].owner = row[u].owner /\ seen[u] \in Nat
      OBVIOUS
    <2>1. row[u].last \in Nat /\ seen[u] \in Nat
      BY <1>0, InboxConstants DEF InboxTypes, InboxRows
    <2>2. CASE u = t
      BY <1>1, <1>4, <1>6, <2>1, <2>2
    <2>3. CASE u # t
      BY <1>6, <2>1, <2>3
    <2> QED BY <2>2, <2>3
  <1>8. noted' = IF ~seeded THEN noted \union {"early"} ELSE noted
    BY DEF NewsComes, Marked
  <1>9. noted \subseteq noted' /\ noted' \subseteq noted \union {"early"}
    BY <1>8
  <1>10. InboxTypes'
    <2>1. \A u \in Threads : row'[u].last <= hitches' + 1
      <3> SUFFICES ASSUME NEW u \in Threads PROVE row'[u].last <= hitches' + 1
        OBVIOUS
      <3>1. CASE u = t
        BY <1>1, <1>4, <1>6, <3>1
      <3>2. CASE u # t
        <4>1. row[u].last <= hitches + 1 /\ row'[u].last = row[u].last /\ row[u].last \in Nat
          BY <1>0, <1>6, <1>7, <3>2 DEF InboxTypes
        <4> QED BY <1>1, <4>1
      <3> QED BY <3>1, <3>2
    <2>2. hitches' \in 0..MaxHitches
      BY <1>1, InboxConstants
    <2> QED BY <1>0, <1>6, <2>1, <2>2 DEF InboxTypes
  <1>11. (\A f \in Feeds : ReadIsKept(f)') /\ ListHolds'
    <2>1. \A f \in Feeds : Goes(feed[f], feed'[f])
      BY <1>0, FeedsStay
    <2> QED BY <1>0, <1>9, <2>1, FeedsGo DEF InboxInv
  <1>12. DeedsAreSeen'
    BY <1>0, <1>9 DEF InboxInv, DeedsAreSeen, DeedIsSeen
  <1>13. SeenIsBehind'
    <2>1. SeenIsBehind /\ Announced' = Announced /\ "twice" \notin noted'
      BY <1>0, <1>9 DEF InboxInv, SeenIsBehind, Announced
    <2>2. \A u \in Threads : seen[u] <= row'[u].last
      BY <1>7, <2>1 DEF SeenIsBehind
    <2>3. feed["toast"].call \in ReadOnes => \A u \in DOMAIN feed["toast"].call.answer.rows :
            /\ seen[u] <= feed["toast"].call.answer.rows[u].last
            /\ feed["toast"].call.answer.rows[u].last <= row'[u].last
      <3> SUFFICES ASSUME feed["toast"].call \in ReadOnes,
                          NEW u \in DOMAIN feed["toast"].call.answer.rows
                   PROVE  /\ seen[u] <= feed["toast"].call.answer.rows[u].last
                          /\ feed["toast"].call.answer.rows[u].last <= row'[u].last
        OBVIOUS
      <3>1. feed["toast"].call.answer \in ThreadPages
        BY DEF InboxInv, ReadIsKept, Feeds
      <3>2. u \in Threads /\ feed["toast"].call.answer.rows[u].last \in Nat
        BY <3>1, PageRows, InboxConstants DEF InboxRows
      <3> QED BY <1>7, <2>1, <3>2 DEF SeenIsBehind
    <2> QED BY <1>0, <2>1, <2>2, <2>3 DEF SeenIsBehind
  <1>14. NewsHolds'
    <2>1. NewsHolds /\ Announced' = Announced
      BY <1>0 DEF InboxInv, Announced
    <2> QED BY <1>0, <1>8, <2>1 DEF NewsHolds
  <1>15. OldIsSeen'
    <2>1. OldIsSeen /\ Announced' = Announced
      BY <1>0 DEF InboxInv, Announced
    <2>2. \A u \in Threads : Old(row[u])' => Old(row[u])
      <3> SUFFICES ASSUME NEW u \in Threads, Old(row[u])' PROVE Old(row[u])
        OBVIOUS
      <3>1. row'[u].last = 1
        BY DEF Old
      <3>2. u # t
        BY <1>1, <1>4, <1>6, <3>1
      <3> QED BY <1>6, <3>2 DEF Old, Holds
    <2>3. noted' \intersect {"joined", "crowded"} = noted \intersect {"joined", "crowded"}
      BY <1>9
    <2> QED BY <1>0, <2>1, <2>2, <2>3 DEF OldIsSeen
  <1>16. TrailHolds'
    <2>1. "gap" \in noted' => "gap" \in noted
      BY <1>9
    <2> QED BY <1>0, <1>7, <1>9, <2>1, TrailStays DEF InboxInv
  <1> QED BY <1>10, <1>11, <1>12, <1>13, <1>14, <1>15, <1>16 DEF InboxInv

\* The inbox is opened.
LEMMA InboxStart ==
    ASSUME InboxInit
    PROVE  InboxInv
  <1>1. \A f \in Feeds : feed[f] = NewFeed
    BY DEF InboxInit
  <1>2. /\ NewFeed \in FeedRecords /\ NewFeed.data = NoData /\ NewFeed.call = Asked("mine")
        /\ NewFeed.isLoading /\ NewFeed.error = "none"
    <2>1. Asked("mine") \in AskedOnes
      BY CallsApart, InboxConstants
    <2> QED BY <2>1 DEF NewFeed, FeedRecords
  <1>3. /\ NewFeed.call \in AskedOnes /\ NewFeed.call \notin ReadOnes /\ NewFeed.call # Idle
        /\ NewFeed.call.of = "mine" /\ ~NewFeed.call.isVoid
    BY <1>2, CallsApart, InboxConstants
  <1>4. \A d \in Deeds : deed[d] = Undone /\ deed[d].step = "none"
    BY DeedsApart DEF InboxInit
  <1>5. \A t \in Threads : /\ row[t] \in InboxRows /\ row[t].last = 1 /\ seen[t] = 0
                           /\ trail[t] = row[t].owner /\ row[t].owner \in Members \union {Nobody}
    <2> SUFFICES ASSUME NEW t \in Threads
                 PROVE  /\ row[t] \in InboxRows /\ row[t].last = 1 /\ seen[t] = 0
                        /\ trail[t] = row[t].owner /\ row[t].owner \in Members \union {Nobody}
      OBVIOUS
    <2>1. row[t] \in [owner : {"me", Nobody}, closed : {FALSE}, read : {TRUE}, last : {1}]
      BY DEF InboxInit
    <2>2. 1 \in 1..(MaxHitches + 1)
      BY InboxConstants
    <2> QED BY <2>1, <2>2 DEF InboxInit, InboxRows, Members
  <1>6. Announced = {}
    BY DEF InboxInit, Announced
  <1>7. InboxTypes
    <2>1. row \in [Threads -> InboxRows] /\ trail \in [Threads -> Members \union {Nobody}]
      BY <1>5 DEF InboxInit
    <2>2. feed \in [Feeds -> FeedRecords]
      BY <1>2 DEF InboxInit
    <2>3. seen \in [Threads -> Nat] /\ hitches = 0 /\ hitches \in 0..MaxHitches
      BY InboxConstants DEF InboxInit
    <2>4. \A t \in Threads : row[t].last <= hitches + 1
      BY <1>5, <2>3
    <2> QED BY <2>1, <2>2, <2>3, <2>4, InboxConstants DEF InboxInit, InboxTypes
  <1>8. \A f \in Feeds : ReadIsKept(f)
    BY <1>1, <1>2, <1>3 DEF ReadIsKept
  <1>9. ListHolds
    BY <1>1, <1>2, <1>3, CallsApart DEF ListHolds, InboxInit, Feeds
  <1>10. DeedsAreSeen
    BY <1>4 DEF DeedsAreSeen
  <1>11. SeenIsBehind
    BY <1>1, <1>2, <1>3, <1>5, <1>6 DEF SeenIsBehind, InboxInit, Feeds
  <1>12. NewsHolds
    BY <1>5 DEF NewsHolds
  <1>13. OldIsSeen
    BY <1>1, <1>2, <1>3, <1>6 DEF OldIsSeen, InboxInit, Feeds
  <1>14. TrailHolds
    BY <1>4, <1>5 DEF TrailHolds, UnderWayAt, InboxInit
  <1> QED BY <1>7, <1>8, <1>9, <1>10, <1>11, <1>12, <1>13, <1>14 DEF InboxInv

\* Every step keeps it.
LEMMA InboxStep ==
    ASSUME InboxInv, [InboxNext]_inboxVars
    PROVE  InboxInv'
  <1>1. ASSUME NEW f \in Feeds, Tick(f) \/ RouteReads(f) \/ AnswerArrives(f) \/ FetchFails(f)
        PROVE  InboxInv'
    BY <1>1, TickStep, RouteStep, ArriveStep, CallFails
  <1>2. ASSUME NEW k \in Filters, SetFilter(k)
        PROVE  InboxInv'
    BY <1>2, FilterStep
  <1>3. CASE SetSearch \/ Select \/ ReadAgain \/ QuarterPasses
    BY <1>3, HandStep
  <1>4. ASSUME NEW d \in Deeds, NEW kind \in Kinds, Press(d, kind)
        PROVE  InboxInv'
    BY <1>4, PressHere
  <1>5. ASSUME NEW d \in Deeds, NEW who \in Members, NEW kind \in Kinds, NEW t \in Threads,
               PressElsewhere(d, who, kind, t)
        PROVE  InboxInv'
    BY <1>5, PressThere
  <1>6. ASSUME NEW d \in Deeds,
               DeedReads(d) \/ DeedWrites(d) \/ DeedRecorded(d) \/ DeedFails(d) \/ Answered(d)
        PROVE  InboxInv'
    BY <1>6, ReadStep, WriteStep, RecordStep, FailStep, AnswerStep
  <1>7. ASSUME NEW t \in Threads, NewsComes(t)
        PROVE  InboxInv'
    BY <1>7, NewsStep
  <1>8. CASE UNCHANGED inboxVars
    <2>1. /\ UNCHANGED <<watch, row, filter, deed, toastVars, trail, noted>>
          /\ UNCHANGED <<selected, search, feed, quarter, hitches>>
      BY <1>8 DEF inboxVars, toastVars
    <2>2. feed' \in [Feeds -> FeedRecords] /\ \A f \in Feeds : Goes(feed[f], feed'[f])
      BY <2>1, FeedsStay
    <2>3. /\ selected' \in Threads \union {Nowhere} /\ search' \in BOOLEAN /\ quarter' \in Nat
          /\ hitches' \in 0..MaxHitches /\ hitches <= hitches'
      BY <2>1, InboxConstants DEF InboxInv, InboxTypes
    <2> QED BY <2>1, <2>2, <2>3, ScreenStep
  <1> QED BY <1>1, <1>2, <1>3, <1>4, <1>5, <1>6, <1>7, <1>8 DEF InboxNext

\* What it says of the inbox.
LEMMA InboxSound ==
    ASSUME InboxInv
    PROVE  InboxTypeOK /\ InboxIsTrue
  <1>0. /\ InboxTypes /\ ListHolds /\ SeenIsBehind /\ NewsHolds /\ OldIsSeen /\ TrailHolds
        /\ \A f \in Feeds : f \in {"list", "counts", "toast"} /\ feed[f] \in FeedRecords
        /\ {"list", "counts", "toast"} \subseteq Feeds
    BY DEF InboxInv, InboxTypes, Feeds
  <1>1. \A f \in Feeds : feed[f].data.known <=> feed[f].data # NoData
    BY <1>0, FeedFields, DataKnown
  <1>2. InboxTypeOK
    <2>1. ASSUME NEW t \in Threads
          PROVE  seen[t] \in 0..(MaxHitches + 1)
      <3>1. /\ seen[t] \in Nat /\ seen[t] <= row[t].last /\ row[t].last \in 1..(MaxHitches + 1)
        BY <1>0 DEF InboxTypes, SeenIsBehind, InboxRows
      <3> QED BY <3>1, InboxConstants
    <2>2. seen \in [Threads -> 0..(MaxHitches + 1)]
      BY <1>0, <2>1 DEF InboxTypes
    <2> QED BY <1>0, <2>2 DEF InboxTypes, InboxTypeOK, InboxRows
  <1>3. EmptyIsRead
    <2> SUFFICES ASSUME Says = "empty", noted \intersect {"switched", "stopped"} = {},
                        ~feed["list"].data.known
                 PROVE  FALSE
      BY DEF EmptyIsRead
    <2>1. feed["list"].data = NoData
      BY <1>0, <1>1
    <2>2. feed["list"].error # "none" \/ feed["list"].isLoading
      BY <1>0, <2>1 DEF ListHolds
    <2> QED BY <2>2 DEF Says
  <1>4. UnavailableIsTrue
    <2> SUFFICES ASSUME Says = "unavailable", noted \intersect {"failed", "left"} = {}
                 PROVE  feed["list"].error = filter
      BY DEF UnavailableIsTrue
    <2>1. feed["list"].error # "none"
      BY DEF Says
    <2> QED BY <1>0, <2>1 DEF ListHolds
  <1>5. RowsAreOfFilter
    BY <1>0, <1>1 DEF ListHolds, RowsAreOfFilter
  <1>6. OwnDeedsAreShown
    <2> SUFFICES ASSUME NEW d \in Deeds, NEW f \in {"list", "counts"}, "skipped" \notin noted,
                        deed[d].step = "done", deed[d].by = "me", deed[d].ok, watch = "screen",
                        feed[f].call = Idle, feed[f].data.known, feed[f].error = "none"
                 PROVE  d \in feed[f].data.sees
      BY DEF OwnDeedsAreShown
    <2>1. DeedIsSeen(d, feed[f])
      BY DEF InboxInv, DeedsAreSeen
    <2>2. feed[f].data # NoData
      BY <1>0, <1>1
    <2> QED BY <2>1, <2>2, CallsApart DEF DeedIsSeen
  <1>7. ToastsAreNews
    BY <1>0 DEF ToastsAreNews, SeenIsBehind, OldIsSeen
  <1>8. NewsIsTold
    <2> SUFFICES ASSUME feed["toast"].data.known, "early" \notin noted,
                        NEW t \in DOMAIN feed["toast"].data.rows,
                        feed["toast"].data.rows[t].last > 1
                 PROVE  <<t, feed["toast"].data.rows[t].last>> \in Announced
      BY DEF NewsIsTold
    <2>1. feed["toast"].data # NoData
      BY <1>0, <1>1
    <2>2. feed["toast"].data \in ThreadPages
      BY <1>0, <2>1 DEF InboxInv, ReadIsKept
    <2>3. t \in Threads
      BY <2>2, PageRows
    <2>4. seen[t] = feed["toast"].data.rows[t].last
      BY <1>0, <2>1 DEF SeenIsBehind
    <2> QED BY <1>0, <2>3, <2>4 DEF NewsHolds
  <1>9. TrailIsTrue
    BY <1>0 DEF TrailHolds, TrailIsTrue, UnderWayAt
  <1> QED BY <1>2, <1>3, <1>4, <1>5, <1>6, <1>7, <1>8, <1>9 DEF InboxIsTrue

\* The state of the inbox is of its type, and the invariant holds.
LEMMA InboxHolds == InboxSpec => []InboxInv
  <1>1. InboxInit => InboxInv
    BY InboxStart
  <1>2. InboxInv /\ [InboxNext]_inboxVars => InboxInv'
    BY InboxStep
  <1> QED BY <1>1, <1>2, PTL DEF InboxSpec

\* The types of the inbox: a message is counted once, and the toaster has seen
\* none that did not come.
THEOREM InboxIsTyped == InboxSpec => []InboxTypeOK
  BY InboxHolds, InboxSound, PTL

\* The list and the totals show what was read for the chip that is pressed,
\* with the rep's own deeds in it; a toast is news, and none is missed; the
\* timeline ends in the owner.  Each with the exceptions the screen has.
THEOREM InboxCorrect == InboxSpec => []InboxIsTrue
  BY InboxHolds, InboxSound, PTL

(***************************************************************************)
(* MCDesk: each behaviour of the desk is one of each component.            *)
(***************************************************************************)
\* What happens at one place is a step of its component, and of no other.
LEMMA DeskImplements ==
    DeskSpec => PaneSpec /\ PressSpec /\ TemplatesSpec /\ RequestsSpec /\ InboxSpec
PROOF
  <1>1. DeskInit => PaneInit /\ PressInit /\ TemplatesInit /\ RequestsInit /\ InboxInit
    BY DEF DeskInit
  <1>2. ASSUME [DeskNext]_deskVars
        PROVE  /\ [PaneNext]_paneVars /\ [PressNext]_pressVars /\ [TemplatesNext]_templateVars
               /\ [RequestsNext]_requestVars /\ [InboxNext]_inboxVars
    <2>1. CASE UNCHANGED deskVars
      BY <2>1 DEF deskVars
    <2>2. CASE DeskNext
      BY <2>2 DEF DeskNext
    <2> QED BY <1>2, <2>1, <2>2
  <1> QED BY <1>1, <1>2, PTL DEF DeskSpec, PaneSpec, PressSpec, TemplatesSpec, RequestsSpec,
                                 InboxSpec

\* A call of a template request is at a step of its own, or has ended.
LEMMA RequestsAreTyped == RequestsSpec => []RequestsTypeOK
PROOF
  <1>1. RequestsInv => RequestsTypeOK
    <2> SUFFICES ASSUME RequestsInv PROVE RequestsTypeOK
      OBVIOUS
    <2>1. ASSUME NEW c \in Calls
          PROVE  call[c].step \in Ended \union
                    {"none", "dead", "resolved", "looking", "threading", "queueing"}
      <3>1. CASE call[c] = NotCalled
        BY <3>1 DEF NotCalled
      <3>2. CASE call[c] # NotCalled
        BY <3>2 DEF RequestsInv, Call, Running
      <3> QED BY <3>1, <3>2
    <2> QED BY <2>1 DEF RequestsInv, RequestsTypeOK
  <1> QED BY <1>1, RequestsInvariant, PTL

\* The rows, bubbles, presses, templates, requests and feeds of the desk are of
\* their types, wherever the rep is at work: the panes of a conversation and
\* the inbox around them, each beside the others.
THEOREM DeskIsTyped == DeskSpec => []DeskTypeOK
PROOF
  <1>1. ASSUME PaneTypeOK, PressTypeOK, TemplatesTypeOK, RequestsTypeOK, InboxTypeOK
        PROVE  DeskTypeOK
    BY <1>1 DEF DeskTypeOK
  <1> QED
    BY <1>1, DeskImplements, PaneIsTyped, PressesAreTyped, TemplatesAreTyped, RequestsAreTyped,
       InboxIsTyped, PTL
===============================================================================
