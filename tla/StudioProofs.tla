---------------------------- MODULE StudioProofs ----------------------------
(***************************************************************************)
(* Proofs about CampaignDesk, for any number of pages and any bounds, and  *)
(* past the launch, where the run of the studio stops: what the writer's   *)
(* and the approver's screens show is what the record says.  Then about    *)
(* Audience, for any people, records, numbers and pages: whom a build lets *)
(* in.  Last, the studio as a whole is of its types.                       *)
(***************************************************************************)
EXTENDS MCStudio, WellFoundedInduction, FiniteSetTheorems, TLAPS

(***************************************************************************)
(* The inductive invariant.                                                *)
(***************************************************************************)
Statuses == {"none", "DRAFT", "SNAPSHOTTING", "READY", "RUNNING"}
Records == [status : Statuses, content : Content, count : 0..BuildPages]
Unread == [old : BOOLEAN, read : {FALSE}]
ReadSample == [old : BOOLEAN, read : {TRUE}, of : Content, rows : BOOLEAN]
Samples == Unread \union ReadSample
Screens == [step : 0..ReviewStep, form : Content, known : BOOLEAN, busy : BOOLEAN,
            shown : {"loading", "sample"}, sample : Samples]
Kinds == {"create", "update", "build"}
Asked == [stage : {"sent", "answered"}, kind : Kinds, step : 1..ReviewStep,
          fields : SUBSET Fields, form : Content, ok : BOOLEAN]
Loaded == [stage : {"loaded", "reopened", "answered"}, kind : {"update"}, step : 1..ReviewStep,
           fields : SUBSET Fields, form : Content, ok : BOOLEAN, status : {"DRAFT", "READY"}]
Requests == Asked \union Loaded
Preflights == [arrived : {TRUE}, total : 0..BuildPages, round : Nat, whole : BOOLEAN]
Details == [open : BOOLEAN, seen : Records, preflight : Preflights \union {NoPreflight},
            modal : Nat \union {-1}, loaded : Records]
Launches == [shown : Nat, total : 0..BuildPages, rows : SUBSET Content, content : Content,
             early : BOOLEAN, again : BOOLEAN]
Slips == {"whileSaving", "unscheduled", "oldCopy", "raced"}

DeskTypes ==
    /\ record \in Records
    /\ built \in [rows : SUBSET Content, pages : 0..BuildPages, round : Nat]
    /\ builder \in Screens \union {Closed}
    /\ call \in Requests \union {NoCall}
    /\ samples \subseteq Samples /\ IsFiniteSet(samples) /\ Cardinality(samples) <= MaxSamples
    /\ detail \in Details
    /\ launched \in Launches \union {[total |-> 0]}
    /\ slip \subseteq Slips /\ strokes \in Nat /\ breaks \in Nat /\ opens \in Nat

Clean == "whileSaving" \notin slip /\ "oldCopy" \notin slip
Kept == Clean /\ "unscheduled" \notin slip
UnderWay == call # NoCall

\* A request carries the fields of the step it was made on.
CallFits ==
    UnderWay =>
      /\ ~call.ok => call.stage = "answered"
      /\ call.kind = "build" <=> call.step = ReviewStep
      /\ call.kind = "create" => call.step = 1
      /\ call.step = 1 => "what" \in call.fields /\ call.fields \subseteq {"what", "schedule"}
                          /\ ("schedule" \in call.fields <=> call.form["schedule"] # 0)
      /\ call.step = 2 => call.fields = {"audience"}
      /\ call.step = 3 => call.fields = {"mapping"}
      /\ call.step = 4 => call.fields = {}

\* One request at a time, of the screen that is open; a clean screen still
\* shows what was sent. The screen knows of the record once it was answered.
BuilderFits ==
    IsOpen =>
      /\ builder.busy <=> UnderWay
      /\ UnderWay => builder.step <= call.step /\ (call.kind = "create" <=> ~builder.known)
      /\ UnderWay /\ Clean => builder.step = call.step /\ builder.form = call.form
      /\ builder.shown = "sample" => builder.sample.read
      /\ builder.known => record.status # "none"
      /\ ~builder.known => builder.step <= 1
      /\ ~builder.known => record.status = "none"
                           \/ (UnderWay /\ call.stage = "answered" /\ call.ok)

\* There is a record from the answered create on.
RecordIsThere ==
    /\ record.status = "none" => record = NoRecord /\ ~detail.open
    /\ UnderWay /\ call.kind = "create" /\ call.stage = "sent" => record.status = "none"
    /\ UnderWay /\ (call.kind # "create" \/ (call.stage = "answered" /\ call.ok))
         => record.status # "none"

\* The screen from step to step on.
Saved(step) ==
    /\ step >= 2 => builder.form["what"] = record.content["what"]
                    /\ builder.form["schedule"] = record.content["schedule"]
    /\ step >= 3 => builder.form["audience"] = record.content["audience"]
    /\ step >= 4 => builder.form["mapping"] = record.content["mapping"]

\* What is behind the step of a clean screen is in the record as it was typed.
StepsAreSaved ==
    Kept /\ IsOpen =>
      /\ builder.form["schedule"] = 0 => record.content["schedule"] = 0
      /\ Saved(builder.step)
      /\ UnderWay /\ call.stage = "answered" /\ call.ok /\ call.kind # "build"
            => Saved(call.step + 1)

\* A sample on its way to Review, or shown there, is of the record, or old.
SamplesFit ==
    Clean /\ IsOpen /\ builder.step = ReviewStep =>
      /\ \A s \in samples : s.read => s.of = record.content \/ s.old \/ s.rows
      /\ builder.shown = "sample" => builder.sample.of = record.content
                                     \/ builder.sample.old \/ builder.sample.rows

\* The record is not written while rows are made or stand: they are of it.
RowsFit ==
    /\ record.status \in {"READY", "SNAPSHOTTING"} =>
         \A c \in built.rows : \A f \in Written : c[f] = record.content[f]
    /\ record.status = "SNAPSHOTTING" => record.count <= built.pages /\ built.pages < BuildPages
    /\ UnderWay /\ call.stage = "loaded" => record.status \in {call.status, "RUNNING"}
    /\ UnderWay /\ call.stage = "reopened" => record.status \in {"DRAFT", "RUNNING"}

Sound == detail.preflight.whole /\ detail.preflight.round = built.round
\* A whole pre-flight of the present round has the record's count, and the
\* modal and the record loaded for the launch have that of the pre-flight.
DetailFits ==
    /\ ~detail.open => detail = NoDetail
    /\ detail.open => detail.seen.status # "none"
    /\ detail.preflight.arrived =>
         /\ detail.preflight.round <= built.round
         /\ Sound => record.status # "SNAPSHOTTING" /\ record.count = detail.preflight.total
    /\ detail.modal # -1 => detail.preflight.arrived /\ detail.modal = detail.preflight.total
    /\ detail.loaded # NoRecord =>
         /\ detail.modal # -1 /\ detail.loaded.status = "READY"
         /\ Sound => detail.loaded.count = detail.preflight.total

DeskInv ==
    /\ DeskTypes /\ CallFits /\ BuilderFits /\ RecordIsThere /\ StepsAreSaved /\ SamplesFit
    /\ RowsFit /\ DetailFits /\ LaunchIsAsConfirmed /\ LaunchFits
-----------------------------------------------------------------------------
(***************************************************************************)
(* Types.                                                                  *)
(***************************************************************************)
\* What there is before anything is done is typed.
LEMMA NothingIsTyped ==
    /\ Blank \in Content /\ NoRecord \in Records /\ NoDetail \in Details
    /\ NoSample \in Samples /\ {} \subseteq Samples
<1>1. Blank \in Content BY DEF Blank, Content, Fields, Written, Values
<1>2. NoRecord \in Records BY <1>1, CampaignDeskAssumption DEF NoRecord, Records, Statuses
<1>3. NoDetail \in Details BY <1>2 DEF NoDetail, Details, Preflights, NoPreflight
<1> QED BY <1>1, <1>2, <1>3 DEF NoSample, Samples, Unread, ReadSample

\* An open builder is a screen.
LEMMA OpenIsScreen ==
    ASSUME DeskTypes, IsOpen
    PROVE  builder \in Screens
BY DEF DeskTypes, IsOpen, Closed

\* A call under way is a request.
LEMMA UnderWayIsRequest ==
    ASSUME DeskTypes, call # NoCall
    PROVE  call \in Requests
BY DEF DeskTypes

\* The screen a builder opens on.
LEMMA OpenedIsTyped ==
    ASSUME NEW seen \in Records
    PROVE  OpenedFrom(seen) \in Screens
<1>1. seen.content \in Content BY DEF Records
<1>2. NoSample \in Samples BY NothingIsTyped
<1> DEFINE at == IF seen.content["audience"] # 0 THEN 3
                 ELSE IF seen.content["what"] # 0 THEN 2 ELSE 0
<1>3. at \in 0..ReviewStep BY DEF ReviewStep
<1> HIDE DEF at
<1>4. [step |-> at, form |-> seen.content, known |-> seen.status # "none", busy |-> FALSE,
       shown |-> "loading", sample |-> NoSample] \in Screens
  BY <1>1, <1>2, <1>3 DEF Screens
<1> QED BY <1>4 DEF OpenedFrom, at

\* A screen at another step.
LEMMA ScreenSteps ==
    ASSUME NEW screen \in Screens, NEW n \in 0..ReviewStep
    PROVE  [screen EXCEPT !.step = n] \in Screens
BY DEF Screens

\* A screen that begins or ends to wait.
LEMMA ScreenWaits ==
    ASSUME NEW screen \in Screens, NEW busy \in BOOLEAN
    PROVE  [screen EXCEPT !.busy = busy] \in Screens
BY DEF Screens

\* A screen whose step was saved.
LEMMA ScreenMovesOn ==
    ASSUME NEW screen \in Screens, screen.step + 1 \in 0..ReviewStep,
           NEW shown \in {"loading", "sample"}
    PROVE  [screen EXCEPT !.busy = FALSE, !.known = TRUE, !.step = @ + 1, !.shown = shown]
             \in Screens
BY DEF Screens

\* A request that is answered, well or not.
LEMMA RequestAnswered ==
    ASSUME NEW c \in Requests
    PROVE  /\ [c EXCEPT !.stage = "answered"] \in Requests
           /\ [c EXCEPT !.stage = "answered", !.ok = FALSE] \in Requests
<1>1. CASE c \in Asked BY <1>1 DEF Asked, Requests
<1>2. CASE c \in Loaded BY <1>2 DEF Loaded, Requests
<1> QED BY <1>1, <1>2 DEF Requests

\* A new preview makes the ones under way old, and there is room for it.
LEMMA SamplesGrowOld ==
    ASSUME DeskTypes, Cardinality(samples) < MaxSamples,
           samples' = {[s EXCEPT !.old = TRUE] : s \in samples} \union {NoSample}
    PROVE  /\ samples' \subseteq Samples
           /\ IsFiniteSet(samples') /\ Cardinality(samples') <= MaxSamples
<1> DEFINE older == {[s EXCEPT !.old = TRUE] : s \in samples}
           aged == [s \in samples |-> [s EXCEPT !.old = TRUE]]
<1>1. \A s \in samples : [s EXCEPT !.old = TRUE] \in Samples
  <2> SUFFICES ASSUME NEW s \in samples PROVE [s EXCEPT !.old = TRUE] \in Samples OBVIOUS
  <2>1. CASE s \in Unread BY <2>1 DEF Unread, Samples
  <2>2. CASE s \in ReadSample BY <2>2 DEF ReadSample, Samples
  <2> QED BY <2>1, <2>2 DEF DeskTypes, Samples
<1>2. aged \in Surjection(samples, older) BY DEF Surjection
<1>3. IsFiniteSet(samples) /\ Cardinality(samples) \in Nat BY FS_CardinalityType DEF DeskTypes
<1>4. IsFiniteSet(older) /\ Cardinality(older) <= Cardinality(samples)
  <2> HIDE DEF older, aged
  <2> QED BY <1>2, <1>3, FS_Surjection
<1>5. older \subseteq Samples BY <1>1
<1> HIDE DEF older
<1>6. Cardinality(older) \in Nat BY <1>4, FS_CardinalityType
<1>7. samples' = older \union {NoSample} BY DEF older
<1>8. /\ IsFiniteSet(older \union {NoSample})
      /\ Cardinality(older \union {NoSample}) <= Cardinality(older) + 1
  BY <1>4, <1>6, FS_AddElement
<1>9. Cardinality(samples') \in Nat BY <1>7, <1>8, FS_CardinalityType
<1>10. MaxSamples \in Nat BY CampaignDeskAssumption
<1>11. Cardinality(samples') <= Cardinality(older) + 1 BY <1>7, <1>8
<1>12. Cardinality(samples') <= MaxSamples BY <1>3, <1>4, <1>6, <1>9, <1>10, <1>11
<1> QED BY <1>5, <1>7, <1>8, <1>12, NothingIsTyped

-----------------------------------------------------------------------------
(***************************************************************************)
(* Each action: the types, then the rest of the invariant.                 *)
(***************************************************************************)
\* A step that moves the detail alone.
LEMMA DetailMoves ==
    ASSUME DeskInv, DeskTypes', RecordIsThere', DetailFits',
           UNCHANGED <<record, built, builder, call, samples, launched, slip>>
    PROVE  DeskInv'
BY DEF DeskInv, CallFits, BuilderFits, StepsAreSaved, Saved, SamplesFit, RowsFit,
       LaunchIsAsConfirmed, LaunchFits, UnderWay, Clean, Kept, IsOpen

\* Types, after opening the builder.
LEMMA OpenBuilderIsTyped == DeskInv /\ OpenBuilder => DeskTypes'
<1> SUFFICES ASSUME DeskInv, DeskTypes, OpenBuilder PROVE DeskTypes' BY DEF DeskInv
<1>0. detail.seen \in Records BY DEF DeskTypes, Details
<1>1. builder' \in Screens \union {Closed}
  BY <1>0, OpenedIsTyped, NothingIsTyped DEF OpenBuilder
<1>2. detail' \in Details BY NothingIsTyped DEF OpenBuilder, DeskTypes
<1>3. slip' \subseteq Slips BY DEF OpenBuilder, DeskTypes, Slips, tallyVars, serverVars
<1> QED BY <1>1, <1>2, <1>3 DEF OpenBuilder, DeskTypes, serverVars

\* The invariant, after opening the builder. On a new campaign nothing is
\* filled in; on the detail's copy all of it is saved, if it is the record's.
LEMMA OpenBuilderKeeps == DeskInv /\ OpenBuilder => DeskInv'
<1> SUFFICES ASSUME DeskInv, OpenBuilder PROVE DeskInv' OBVIOUS
<1>1. DeskTypes' BY OpenBuilderIsTyped
<1>2. UNCHANGED <<record, built, call, samples, launched>> /\ ~IsOpen /\ call = NoCall
  BY DEF OpenBuilder, serverVars
<1>3. CallFits' /\ RowsFit' /\ LaunchIsAsConfirmed'
  BY <1>2 DEF DeskInv, CallFits, RowsFit, LaunchIsAsConfirmed, UnderWay
<1>4. LaunchFits' BY <1>2 DEF DeskInv, LaunchFits, OpenBuilder
<1>5. PICK seen \in Records :
         /\ builder' = OpenedFrom(seen)
         /\ \/ seen = NoRecord /\ record = NoRecord /\ detail' = detail
            \/ seen.status # "none" /\ record.status # "none" /\ detail' = NoDetail
         /\ Clean' => seen.content = record.content
  <2>1. CASE record.status = "none" /\ builder' = OpenedFrom(NoRecord) /\ detail' = detail
    BY <2>1, NothingIsTyped DEF DeskInv, RecordIsThere
  <2>2. CASE /\ detail.open /\ detail.seen.status \in {"DRAFT", "READY"}
             /\ builder' = OpenedFrom(detail.seen) /\ detail' = NoDetail
             /\ slip' = slip \union (IF detail.seen.content # record.content
                                     THEN {"oldCopy"} ELSE {})
    <3>1. detail.seen \in Records BY DEF DeskInv, DeskTypes, Details
    <3>2. record.status # "none" BY <2>2 DEF DeskInv, RecordIsThere
    <3>3. Clean' => detail.seen.content = record.content BY <2>2 DEF Clean
    <3> QED BY <2>2, <3>1, <3>2, <3>3
  <2> QED BY <2>1, <2>2 DEF OpenBuilder
<1>6. /\ builder'.step \in {0, 2, 3} /\ builder'.form = seen.content /\ ~builder'.busy
      /\ builder'.shown = "loading"
      /\ seen.status = "none" => ~builder'.known
      /\ seen.status # "none" => builder'.known
  BY <1>5 DEF OpenedFrom
<1>7. seen = NoRecord => builder'.step = 0 /\ ~builder'.known
  <2>1. NoRecord.content["audience"] = 0 /\ NoRecord.content["what"] = 0
    BY DEF NoRecord, Blank, Fields, Written
  <2>2. NoRecord.status = "none" BY DEF NoRecord
  <2> QED BY <1>5, <2>1, <2>2 DEF OpenedFrom
<1>8. RecordIsThere' BY <1>2, <1>5 DEF DeskInv, RecordIsThere, UnderWay, NoDetail
<1>9. BuilderFits'
  <2>1. NoRecord.status = "none" BY DEF NoRecord
  <2> QED BY <1>2, <1>5, <1>6, <1>7, <2>1 DEF BuilderFits, UnderWay
<1>10. StepsAreSaved'
  BY <1>2, <1>5, <1>6 DEF StepsAreSaved, Saved, UnderWay, Kept, Clean
<1>11. SamplesFit' BY <1>6 DEF SamplesFit, ReviewStep
<1>12. DetailFits'
  <2>1. CASE detail' = detail BY <1>2, <2>1 DEF DeskInv, DetailFits, Sound
  <2>2. CASE detail' = NoDetail BY <2>2 DEF DetailFits, NoDetail, NoPreflight
  <2> QED BY <1>5, <2>1, <2>2
<1> QED BY <1>1, <1>3, <1>4, <1>8, <1>9, <1>10, <1>11, <1>12 DEF DeskInv

\* Types, after an input of the builder.
LEMMA EnterIsTyped ==
    ASSUME DeskInv, NEW f \in Fields, NEW v \in Values, Enter(f, v)
    PROVE  DeskTypes'
<1>0. DeskTypes BY DEF DeskInv
<1>1. builder \in Screens BY <1>0, OpenIsScreen DEF Enter
<1>2. [builder.form EXCEPT ![f] = v] \in Content BY <1>1 DEF Screens, Content
<1>3. builder' = [builder EXCEPT !.form = [builder.form EXCEPT ![f] = v]] BY DEF Enter
<1>4. builder' \in Screens BY <1>1, <1>2, <1>3 DEF Screens
<1>5. slip' \subseteq Slips BY <1>0 DEF Enter, DeskTypes, Slips
<1> QED BY <1>0, <1>4, <1>5 DEF Enter, DeskTypes, serverVars

\* The invariant, after an input of the builder. An input is of a field that
\* is not saved yet at its step.
LEMMA EnterKeeps ==
    ASSUME DeskInv, NEW f \in Fields, NEW v \in Values, Enter(f, v)
    PROVE  DeskInv'
<1>1. DeskTypes' BY EnterIsTyped
<1>2. builder \in Screens /\ IsOpen BY OpenIsScreen DEF Enter, DeskInv
<1>3. /\ builder'.step = builder.step /\ builder'.form = [builder.form EXCEPT ![f] = v]
      /\ builder'.known = builder.known /\ builder'.busy = builder.busy
      /\ builder'.shown = builder.shown /\ builder'.sample = builder.sample
  BY <1>2 DEF Enter, Screens
<1>4. UNCHANGED <<record, built, call, samples, detail, launched>> BY DEF Enter, serverVars
<1>5. Clean' => Clean /\ ~builder.busy BY DEF Clean, Enter
<1>6. Kept' => Kept /\ ~builder.busy /\ ~(f = "schedule" /\ v = 0) BY <1>5 DEF Enter, Kept
<1>7. CallFits' /\ RecordIsThere' /\ RowsFit' /\ DetailFits' /\ LaunchIsAsConfirmed'
  BY <1>4 DEF DeskInv, CallFits, RecordIsThere, RowsFit, DetailFits, Sound,
              LaunchIsAsConfirmed, UnderWay
<1>8. LaunchFits' BY <1>4 DEF DeskInv, LaunchFits, Enter
<1>9. BuilderFits' BY <1>2, <1>3, <1>4, <1>5 DEF DeskInv, BuilderFits, UnderWay, IsOpen
<1>10. SamplesFit' BY <1>2, <1>3, <1>4, <1>5 DEF DeskInv, SamplesFit, IsOpen
<1>11. StepsAreSaved'
  <2> SUFFICES ASSUME Kept', IsOpen' PROVE StepsAreSaved' BY DEF StepsAreSaved
  <2>1. call = NoCall BY <1>2, <1>6 DEF DeskInv, BuilderFits, UnderWay
  <2>2. builder.form \in [Fields -> Values] BY <1>2 DEF Screens, Content
  <2>3. \A g \in Fields : g # f => builder'.form[g] = builder.form[g] BY <1>3, <2>2
  <2>4. builder'.form[f] = v BY <1>3, <2>2
  <2>5. /\ builder.form["schedule"] = 0 => record.content["schedule"] = 0
        /\ Saved(builder.step)
    BY <1>2, <1>6 DEF DeskInv, StepsAreSaved
  <2>6. builder'.form["schedule"] = 0 => record'.content["schedule"] = 0
    BY <1>4, <1>6, <2>3, <2>4, <2>5 DEF Fields
  <2>7. builder.step = AskedAt(f) BY DEF Enter
  <2>8. \/ f = "schedule" /\ builder.step = 0
        \/ f = "what" /\ builder.step = 1
        \/ f = "audience" /\ builder.step = 2
        \/ f = "mapping" /\ builder.step = 3
    <3>1. AskedAt("schedule") = 0 /\ AskedAt("what") = 1 BY DEF AskedAt
    <3>2. AskedAt("audience") = 2 /\ AskedAt("mapping") = 3 BY DEF AskedAt
    <3>3. f \in {"schedule", "what", "audience", "mapping"} BY DEF Fields, Written
    <3>4. CASE f = "schedule" BY <2>7, <3>1, <3>4
    <3>5. CASE f = "what" BY <2>7, <3>1, <3>5
    <3>6. CASE f = "audience" BY <2>7, <3>2, <3>6
    <3>7. CASE f = "mapping" BY <2>7, <3>2, <3>7
    <3> QED BY <3>3, <3>4, <3>5, <3>6, <3>7
  <2>9. Saved(builder.step)' BY <1>3, <1>4, <2>3, <2>5, <2>8 DEF Saved, Fields, Written
  <2> QED BY <1>3, <1>4, <2>1, <2>6, <2>9 DEF StepsAreSaved, UnderWay
<1> QED BY <1>1, <1>7, <1>8, <1>9, <1>10, <1>11 DEF DeskInv

\* Types, after a step back.
LEMMA BackIsTyped == DeskInv /\ Back => DeskTypes'
<1> SUFFICES ASSUME DeskInv, DeskTypes, Back PROVE DeskTypes' BY DEF DeskInv
<1>1. builder \in Screens BY OpenIsScreen DEF Back
<1>2. builder.step - 1 \in 0..ReviewStep BY <1>1 DEF Back, Screens, ReviewStep
<1>3. builder' \in Screens BY <1>1, <1>2, ScreenSteps DEF Back
<1>4. slip' \subseteq Slips BY DEF Back, DeskTypes, Slips
<1> QED BY <1>3, <1>4 DEF Back, DeskTypes, serverVars

\* The invariant, after a step back. While a step is saved Back makes the
\* screen unclean; without one nothing that is behind changes.
LEMMA BackKeeps == DeskInv /\ Back => DeskInv'
<1> SUFFICES ASSUME DeskInv, Back PROVE DeskInv' OBVIOUS
<1>1. DeskTypes' BY BackIsTyped
<1>2. builder \in Screens BY OpenIsScreen DEF Back, DeskInv
<1>3. /\ builder'.step = builder.step - 1 /\ builder'.form = builder.form
      /\ builder'.known = builder.known /\ builder'.busy = builder.busy
      /\ builder'.shown = builder.shown /\ builder'.sample = builder.sample
  BY <1>2 DEF Back, Screens
<1>4. /\ IsOpen /\ builder.step \in 1..4 /\ builder.step # 0 /\ builder'.step # 4
  BY <1>2 DEF Back, Screens, ReviewStep
<1>5. Clean' => Clean /\ ~builder.busy BY DEF Clean, Back
<1>6. Kept' => Kept /\ Clean' BY <1>5 DEF Clean, Back, Kept
<1>7. /\ UNCHANGED <<record, built, call, samples, detail, launched>>
  BY DEF Back, serverVars
<1>8. CallFits' BY <1>7 DEF DeskInv, CallFits, UnderWay
<1>9. BuilderFits'
  <2>1. (UnderWay => builder.step <= call.step /\ call.step \in 1..4)
    BY <1>4, UnderWayIsRequest
    DEF DeskInv, BuilderFits, UnderWay, Requests, Asked, Loaded, ReviewStep
  <2> QED BY <1>3, <1>4, <1>5, <1>7, <2>1 DEF DeskInv, BuilderFits, UnderWay
<1>10. RecordIsThere' BY <1>7 DEF DeskInv, RecordIsThere, UnderWay
<1>11. StepsAreSaved'
  <2>1. Kept' => ~UnderWay BY <1>4, <1>5, <1>6 DEF DeskInv, BuilderFits
  <2> QED BY <1>3, <1>4, <1>6, <1>7, <2>1 DEF DeskInv, StepsAreSaved, Saved, UnderWay
<1>12. SamplesFit' BY <1>3, <1>4 DEF SamplesFit, ReviewStep
<1>13. RowsFit' BY <1>7 DEF DeskInv, RowsFit, UnderWay
<1>14. DetailFits' BY <1>7 DEF DeskInv, DetailFits, Sound
<1>15. LaunchIsAsConfirmed' BY <1>7 DEF DeskInv, LaunchIsAsConfirmed
<1>16. LaunchFits' BY <1>7 DEF DeskInv, LaunchFits, Back
<1> QED BY <1>1, <1>8, <1>9, <1>10, <1>11, <1>12, <1>13, <1>14, <1>15, <1>16 DEF DeskInv

\* Types, after closing the builder.
LEMMA CloseBuilderIsTyped == DeskInv /\ CloseBuilder => DeskTypes'
<1> SUFFICES ASSUME DeskInv, DeskTypes, CloseBuilder PROVE DeskTypes' BY DEF DeskInv
<1> QED BY FS_EmptySet, CampaignDeskAssumption DEF CloseBuilder, DeskTypes, serverVars, tallyVars

\* The invariant, after closing the builder.
LEMMA CloseBuilderKeeps == DeskInv /\ CloseBuilder => DeskInv'
<1> SUFFICES ASSUME DeskInv, CloseBuilder PROVE DeskInv' OBVIOUS
<1>1. DeskTypes' BY CloseBuilderIsTyped
<1>2. UNCHANGED <<record, built, call, detail, launched, slip>> /\ builder' = Closed
  BY DEF CloseBuilder, serverVars, tallyVars
<1>3. /\ CallFits' /\ RecordIsThere' /\ RowsFit' /\ DetailFits' /\ LaunchIsAsConfirmed'
      /\ LaunchFits'
  BY <1>2 DEF DeskInv, CallFits, RecordIsThere, RowsFit, DetailFits, Sound,
              LaunchIsAsConfirmed, LaunchFits, UnderWay
<1>4. ~IsOpen' BY <1>2 DEF IsOpen, Closed
<1>5. BuilderFits' /\ StepsAreSaved' /\ SamplesFit'
  BY <1>4 DEF BuilderFits, StepsAreSaved, SamplesFit
<1> QED BY <1>1, <1>3, <1>5 DEF DeskInv

\* Types, after a step forward.
LEMMA ContinueIsTyped == DeskInv /\ Continue => DeskTypes'
<1> SUFFICES ASSUME DeskInv, DeskTypes, Continue PROVE DeskTypes' BY DEF DeskInv
<1>1. builder \in Screens BY OpenIsScreen DEF Continue
<1>2. builder' \in Screens
  <2>1. CASE builder.step = 0
    <3>1. 1 \in 0..ReviewStep BY DEF ReviewStep
    <3> QED BY <1>1, <2>1, <3>1, ScreenSteps DEF Continue
  <2>2. CASE builder.step # 0 BY <1>1, <2>2, ScreenWaits DEF Continue
  <2> QED BY <2>1, <2>2
<1>3. call' \in Requests \union {NoCall}
  <2>1. CASE builder.step = 0 BY <2>1 DEF Continue, DeskTypes
  <2>2. CASE builder.step # 0
    <3>1. builder.step \in 1..3 BY <1>1, <2>2 DEF Continue, Screens, ReviewStep
    <3>2. Patch(builder.step) \subseteq Fields BY <3>1 DEF Patch, Fields, Written
    <3>3. (IF builder.known THEN "update" ELSE "create") \in Kinds BY DEF Kinds
    <3>4. builder.form \in Content BY <1>1 DEF Screens
    <3>5. call' = [stage |-> "sent", kind |-> IF builder.known THEN "update" ELSE "create",
                   step |-> builder.step, fields |-> Patch(builder.step),
                   form |-> builder.form, ok |-> TRUE]
      BY <2>2 DEF Continue
    <3> HIDE DEF Patch
    <3>6. call' \in Asked BY <3>1, <3>2, <3>3, <3>4, <3>5 DEF Asked, ReviewStep
    <3> QED BY <3>6 DEF Requests
  <2> QED BY <2>1, <2>2
<1> QED BY <1>2, <1>3 DEF Continue, DeskTypes, serverVars, tallyVars

\* The invariant, after a step forward. What a step writes is on the screen it
\* was pressed on.
LEMMA ContinueKeeps == DeskInv /\ Continue => DeskInv'
<1> SUFFICES ASSUME DeskInv, Continue PROVE DeskInv' OBVIOUS
<1>1. DeskTypes' BY ContinueIsTyped
<1>2. builder \in Screens /\ IsOpen BY OpenIsScreen DEF Continue, DeskInv
<1>3. /\ builder.step \in 0..3 /\ ~builder.busy /\ builder'.form = builder.form
      /\ builder'.known = builder.known
      /\ builder'.shown = builder.shown /\ builder'.sample = builder.sample
  BY <1>2 DEF Continue, Screens, ReviewStep
<1>4. /\ UNCHANGED <<record, built, samples, detail, launched, slip>>
  BY DEF Continue, serverVars, tallyVars
<1>5. call = NoCall BY <1>2, <1>3 DEF DeskInv, BuilderFits, UnderWay
<1>6. CASE builder.step = 0
  <2>1. call' = NoCall /\ builder'.step = 1 /\ ~builder'.busy
    BY <1>2, <1>3, <1>5, <1>6 DEF Continue, Screens
  <2>2. CallFits' /\ RecordIsThere' /\ RowsFit'
    BY <1>4, <1>5, <2>1 DEF DeskInv, CallFits, RecordIsThere, RowsFit, UnderWay
  <2>3. BuilderFits'
    BY <1>2, <1>3, <1>4, <1>5, <2>1 DEF DeskInv, BuilderFits, UnderWay, Clean, IsOpen
  <2>4. StepsAreSaved'
    BY <1>2, <1>3, <1>4, <1>6, <2>1 DEF DeskInv, StepsAreSaved, Saved, UnderWay, Clean, Kept, IsOpen
  <2>5. SamplesFit' BY <2>1 DEF SamplesFit, ReviewStep
  <2>6. DetailFits' /\ LaunchIsAsConfirmed' /\ LaunchFits'
    BY <1>4 DEF DeskInv, DetailFits, Sound, LaunchIsAsConfirmed, LaunchFits
  <2> QED BY <1>1, <2>2, <2>3, <2>4, <2>5, <2>6 DEF DeskInv
<1>7. CASE builder.step # 0
  <2>1. builder.step \in 1..3 BY <1>3, <1>7
  <2>2. builder'.step = builder.step /\ builder'.busy BY <1>2, <1>7 DEF Continue, Screens
  <2>3. /\ call'.stage = "sent" /\ call'.step = builder.step /\ call'.form = builder.form
        /\ call'.ok /\ call'.fields = Patch(builder.step)
        /\ call'.kind = IF builder.known THEN "update" ELSE "create"
        /\ call' # NoCall
    BY <1>7 DEF Continue, NoCall
  <2>4. ~builder.known => builder.step = 1 /\ record.status = "none"
    BY <1>2, <1>5, <2>1 DEF DeskInv, BuilderFits, UnderWay
  <2>5. CallFits'
    <3>1. builder.form["schedule"] # 0 <=> "schedule" \in Patch(1) BY DEF Patch
    <3>2. "what" \in Patch(1) /\ Patch(1) \subseteq {"what", "schedule"} BY DEF Patch
    <3>3. Patch(2) = {"audience"} /\ Patch(3) = {"mapping"} BY DEF Patch
    <3> QED BY <2>1, <2>3, <2>4, <3>1, <3>2, <3>3 DEF CallFits, UnderWay, ReviewStep
  <2>6. BuilderFits'
    BY <1>2, <1>3, <1>4, <1>5, <2>1, <2>2, <2>3 DEF DeskInv, BuilderFits, UnderWay, IsOpen
  <2>7. RecordIsThere' BY <1>2, <1>4, <2>3, <2>4 DEF DeskInv, BuilderFits, RecordIsThere
  <2>8. StepsAreSaved'
    BY <1>2, <1>3, <1>4, <2>2, <2>3 DEF DeskInv, StepsAreSaved, Saved, Clean, Kept, IsOpen
  <2>9. SamplesFit' BY <2>1, <2>2 DEF SamplesFit, ReviewStep
  <2>10. RowsFit' BY <1>4, <2>3 DEF DeskInv, RowsFit
  <2>11. DetailFits' /\ LaunchIsAsConfirmed' /\ LaunchFits'
    BY <1>4 DEF DeskInv, DetailFits, Sound, LaunchIsAsConfirmed, LaunchFits
  <2> QED BY <1>1, <2>5, <2>6, <2>7, <2>8, <2>9, <2>10, <2>11 DEF DeskInv
<1> QED BY <1>6, <1>7

\* Types, after asking for a build.
LEMMA PressBuildIsTyped == DeskInv /\ PressBuild => DeskTypes'
<1> SUFFICES ASSUME DeskInv, DeskTypes, PressBuild PROVE DeskTypes' BY DEF DeskInv
<1>1. builder \in Screens BY OpenIsScreen DEF PressBuild
<1>2. builder' \in Screens BY <1>1, ScreenWaits DEF PressBuild
<1>3. call' \in Asked BY <1>1 DEF PressBuild, Screens, Asked, Kinds, ReviewStep
<1> QED BY <1>2, <1>3 DEF PressBuild, DeskTypes, Requests, serverVars, tallyVars

\* The invariant, after asking for a build.
LEMMA PressBuildKeeps == DeskInv /\ PressBuild => DeskInv'
<1> SUFFICES ASSUME DeskInv, PressBuild PROVE DeskInv' OBVIOUS
<1>1. DeskTypes' BY PressBuildIsTyped
<1>2. builder \in Screens /\ IsOpen BY OpenIsScreen DEF PressBuild, DeskInv
<1>3. /\ builder'.step = builder.step /\ builder'.form = builder.form /\ builder'.busy
      /\ builder'.known /\ builder.known /\ builder.step = ReviewStep
      /\ builder'.shown = builder.shown /\ builder'.sample = builder.sample
  BY <1>2 DEF PressBuild, Screens
<1>4. UNCHANGED <<record, built, samples, detail, launched, slip>>
  BY DEF PressBuild, serverVars, tallyVars
<1>5. /\ call'.stage = "sent" /\ call'.kind = "build" /\ call'.step = ReviewStep
      /\ call'.fields = {} /\ call'.form = builder.form /\ call'.ok /\ call' # NoCall
  BY DEF PressBuild, NoCall
<1>6. CallFits' BY <1>5 DEF CallFits, ReviewStep
<1>7. BuilderFits'
  BY <1>2, <1>3, <1>4, <1>5 DEF DeskInv, BuilderFits, UnderWay, IsOpen, ReviewStep
<1>8. RecordIsThere'
  BY <1>2, <1>3, <1>4, <1>5 DEF DeskInv, BuilderFits, RecordIsThere
<1>9. StepsAreSaved'
  BY <1>2, <1>3, <1>4, <1>5 DEF DeskInv, StepsAreSaved, Saved, Kept, Clean, IsOpen
<1>10. SamplesFit' BY <1>2, <1>3, <1>4 DEF DeskInv, SamplesFit, Clean, IsOpen
<1>11. RowsFit' BY <1>4, <1>5 DEF DeskInv, RowsFit
<1>12. DetailFits' /\ LaunchIsAsConfirmed' /\ LaunchFits'
  BY <1>4 DEF DeskInv, DetailFits, Sound, LaunchIsAsConfirmed, LaunchFits
<1> QED BY <1>1, <1>6, <1>7, <1>8, <1>9, <1>10, <1>11, <1>12 DEF DeskInv

\* Types, after the answer of a request.
LEMMA AnsweredIsTyped == DeskInv /\ Answered => DeskTypes'
<1> SUFFICES ASSUME DeskInv, DeskTypes, Answered PROVE DeskTypes' BY DEF DeskInv
<1>1. call \in Requests BY UnderWayIsRequest DEF Answered, NoCall
<1>2. call' \in Requests \union {NoCall} BY DEF Answered
<1>3. detail' \in Details
  <2>1. record.status \in Statuses /\ record \in Records BY DEF DeskTypes, Records
  <2>2. Detail \in Details BY <2>1, NothingIsTyped DEF Detail, Details, NoDetail, NoPreflight
  <2> QED BY <2>2 DEF Answered, DeskTypes
<1>4. CASE ~IsOpen BY <1>2, <1>3, <1>4 DEF Answered, DeskTypes, serverVars, tallyVars
<1>5. CASE IsOpen /\ ~call.ok
  BY <1>2, <1>3, <1>5, OpenIsScreen, ScreenWaits DEF Answered, DeskTypes, serverVars, tallyVars
<1>6. CASE IsOpen /\ call.ok /\ call.kind = "build"
  BY <1>2, <1>3, <1>6, FS_EmptySet, CampaignDeskAssumption
  DEF Answered, DeskTypes, serverVars, tallyVars
<1>7. CASE IsOpen /\ call.ok /\ call.kind # "build"
  <2>1. builder \in Screens BY <1>7, OpenIsScreen
  <2>2. call.step \in 1..ReviewStep BY <1>1 DEF Requests, Asked, Loaded
  <2>3. builder.step <= call.step /\ call.step # ReviewStep
    BY <1>1, <1>7 DEF DeskInv, CallFits, BuilderFits, UnderWay, Answered, NoCall
  <2>4. builder.step + 1 \in 0..ReviewStep BY <2>1, <2>2, <2>3 DEF Screens, ReviewStep
  <2>5. builder' \in Screens
    <3>1. PICK shown \in {"loading", "sample"} :
              shown = IF ShowsSample(call) THEN "loading" ELSE builder.shown
      BY <2>1 DEF Screens
    <3> QED BY <1>7, <2>1, <2>4, <3>1, ScreenMovesOn DEF Answered
  <2>6. samples' \subseteq Samples /\ IsFiniteSet(samples') /\ Cardinality(samples') <= MaxSamples
    <3>1. CASE ~ShowsSample(call) BY <1>7, <3>1 DEF Answered, DeskTypes
    <3>2. CASE ShowsSample(call) BY <1>7, <3>2, SamplesGrowOld DEF Answered
    <3> QED BY <3>1, <3>2
  <2> QED BY <1>2, <1>3, <2>5, <2>6 DEF Answered, DeskTypes, serverVars, tallyVars
<1> QED BY <1>4, <1>5, <1>6, <1>7

\* The invariant, after the answer of a request. Well answered: the step is
\* saved, and of the previews only the new one is not old.
LEMMA AnsweredKeeps == DeskInv /\ Answered => DeskInv'
<1> SUFFICES ASSUME DeskInv, Answered PROVE DeskInv' OBVIOUS
<1>1. DeskTypes' BY AnsweredIsTyped
<1>2. call # NoCall /\ call.stage = "answered" BY DEF Answered, NoCall
<1>3. call \in Requests BY <1>2, UnderWayIsRequest DEF DeskInv
<1>4. call' = NoCall /\ UNCHANGED <<record, built, launched, slip>>
  BY DEF Answered, serverVars, tallyVars
<1>5. CallFits' /\ RowsFit' /\ LaunchIsAsConfirmed' /\ LaunchFits'
  BY <1>4 DEF DeskInv, CallFits, RowsFit, LaunchIsAsConfirmed, LaunchFits, UnderWay
<1>6. \/ detail' = detail
      \/ detail' = Detail /\ record.status # "none"
  BY <1>2 DEF Answered, DeskInv, RecordIsThere, UnderWay
<1>7. RecordIsThere' BY <1>4, <1>6 DEF DeskInv, RecordIsThere, UnderWay
<1>8. DetailFits'
  <2>1. CASE detail' = detail BY <1>4, <2>1 DEF DeskInv, DetailFits, Sound
  <2>2. CASE detail' = Detail /\ record.status # "none"
    BY <1>4, <2>2 DEF Detail, NoDetail, NoPreflight, DetailFits, Sound
  <2> QED BY <1>6, <2>1, <2>2
<1>9. BuilderFits' /\ StepsAreSaved' /\ SamplesFit'
  <2>1. CASE ~IsOpen
    <3>1. ~IsOpen' BY <2>1 DEF Answered, IsOpen
    <3> QED BY <3>1 DEF BuilderFits, StepsAreSaved, SamplesFit
  <2>2. CASE IsOpen /\ call.ok /\ call.kind = "build"
    <3>1. ~IsOpen' BY <2>2 DEF Answered, IsOpen, Closed
    <3> QED BY <3>1 DEF BuilderFits, StepsAreSaved, SamplesFit
  <2>3. CASE IsOpen /\ ~call.ok
    <3>1. builder \in Screens BY <2>3, OpenIsScreen DEF DeskInv
    <3>2. /\ builder'.step = builder.step /\ builder'.form = builder.form /\ ~builder'.busy
          /\ builder'.known = builder.known /\ builder'.shown = builder.shown
          /\ builder'.sample = builder.sample /\ samples' = samples
      BY <2>3, <3>1 DEF Answered, Screens
    <3>3. BuilderFits'
      BY <1>2, <1>4, <2>3, <3>2 DEF DeskInv, BuilderFits, UnderWay, IsOpen, Clean
    <3>4. StepsAreSaved'
      BY <1>4, <2>3, <3>2 DEF DeskInv, StepsAreSaved, Saved, UnderWay, IsOpen, Clean, Kept
    <3>5. SamplesFit' BY <1>4, <2>3, <3>2 DEF DeskInv, SamplesFit, IsOpen, Clean
    <3> QED BY <3>3, <3>4, <3>5
  <2>4. CASE IsOpen /\ call.ok /\ call.kind # "build"
    <3>1. builder \in Screens BY <2>4, OpenIsScreen DEF DeskInv
    <3>2. /\ builder'.step = builder.step + 1 /\ builder'.form = builder.form /\ ~builder'.busy
          /\ builder'.known /\ builder'.sample = builder.sample
          /\ builder'.shown = IF call.step = 3 THEN "loading" ELSE builder.shown
      BY <2>4, <3>1 DEF Answered, Screens, ShowsSample
    <3>3. builder.step \in 0..3 /\ call.step \in 1..3 /\ builder.step <= call.step
      <4>1. call.step \in 1..4 /\ call.step # 4
        BY <1>2, <1>3, <2>4
        DEF Requests, Asked, Loaded, ReviewStep, DeskInv, CallFits, UnderWay
      <4>2. builder.step <= call.step BY <1>2, <2>4 DEF DeskInv, BuilderFits, UnderWay
      <4> QED BY <3>1, <4>1, <4>2 DEF Screens, ReviewStep
    <3>4. record.status # "none"
      BY <1>2, <2>4 DEF DeskInv, BuilderFits, RecordIsThere, UnderWay
    <3>5. BuilderFits'
      BY <1>2, <1>4, <2>4, <3>2, <3>4 DEF DeskInv, BuilderFits, UnderWay, Clean
    <3>6. Clean => builder.step = call.step /\ builder.form = call.form
      BY <1>2, <2>4 DEF DeskInv, BuilderFits, UnderWay
    <3>7. StepsAreSaved'
      BY <1>2, <1>4, <2>4, <3>2, <3>3, <3>6
      DEF DeskInv, StepsAreSaved, Saved, UnderWay, Clean, Kept
    <3>8. SamplesFit'
      <4> SUFFICES ASSUME Clean', IsOpen', builder'.step = ReviewStep
                   PROVE  /\ \A s \in samples' : s.read => s.of = record'.content \/ s.old \/ s.rows
                          /\ builder'.shown # "sample"
        BY DEF SamplesFit
      <4>1. call.step = 3 BY <1>4, <3>2, <3>3, <3>6 DEF Clean, ReviewStep
      <4>2. samples' = {[s EXCEPT !.old = TRUE] : s \in samples} \union {NoSample}
        BY <2>4, <4>1 DEF Answered, ShowsSample
      <4>3. \A s \in samples' : s.read => s.old
        <5>1. \A s \in samples : [s EXCEPT !.old = TRUE].old
          <6> SUFFICES ASSUME NEW s \in samples PROVE [s EXCEPT !.old = TRUE].old OBVIOUS
          <6>1. s \in Unread \/ s \in ReadSample BY DEF DeskInv, DeskTypes, Samples
          <6> QED BY <6>1 DEF Unread, ReadSample
        <5>2. ~NoSample.read BY DEF NoSample
        <5> SUFFICES ASSUME NEW s \in samples', s.read PROVE s.old OBVIOUS
        <5>3. CASE s = NoSample BY <5>2, <5>3
        <5>4. CASE s # NoSample
          <6>1. PICK t \in samples : s = [t EXCEPT !.old = TRUE] BY <4>2, <5>4
          <6> QED BY <5>1, <6>1
        <5> QED BY <5>3, <5>4
      <4> QED BY <3>2, <4>1, <4>3
    <3> QED BY <3>5, <3>7, <3>8
  <2> QED BY <2>1, <2>2, <2>3, <2>4
<1> QED BY <1>1, <1>5, <1>7, <1>8, <1>9 DEF DeskInv

\* Types, after reading a preview.
LEMMA PreviewReadIsTyped ==
    ASSUME DeskInv, NEW s \in samples, PreviewRead(s)
    PROVE  DeskTypes'
<1>0. DeskTypes BY DEF DeskInv
<1>1. PICK rows \in BOOLEAN : rows = (built.rows # {}) OBVIOUS
<1>2. PICK of \in Content :
         of = IF built.rows # {} THEN CHOOSE c \in built.rows : TRUE ELSE record.content
  BY <1>0 DEF DeskTypes, Records
<1>3. PICK read : read = [old |-> s.old, read |-> TRUE, of |-> of, rows |-> rows] OBVIOUS
<1>4. s \in Samples /\ s.old \in BOOLEAN BY <1>0 DEF DeskTypes, Samples, Unread, ReadSample
<1>5. read \in Samples BY <1>1, <1>2, <1>3, <1>4 DEF Samples, ReadSample
<1>6. PICK rest : rest = samples \ {s} OBVIOUS
<1>7. samples' = rest \union {read} BY <1>1, <1>2, <1>3, <1>6 DEF PreviewRead
<1>8. IsFiniteSet(samples) /\ Cardinality(samples) \in Nat BY <1>0, FS_CardinalityType DEF DeskTypes
<1>9. IsFiniteSet(rest) /\ Cardinality(rest) = Cardinality(samples) - 1
  BY <1>6, <1>8, FS_RemoveElement
<1>10. Cardinality(rest) \in Nat BY <1>9, FS_CardinalityType
<1>11. /\ IsFiniteSet(rest \union {read})
       /\ Cardinality(rest \union {read}) <= Cardinality(rest) + 1
  <2>1. /\ IsFiniteSet(rest \union {read})
        /\ Cardinality(rest \union {read}) = IF read \in rest THEN Cardinality(rest)
                                             ELSE Cardinality(rest) + 1
    BY <1>9, FS_AddElement
  <2> QED BY <1>10, <2>1
<1>15. IsFiniteSet(samples') /\ Cardinality(samples') <= Cardinality(samples)
  BY <1>7, <1>8, <1>9, <1>11
<1>12. Cardinality(samples') \in Nat BY <1>15, FS_CardinalityType
<1>13. Cardinality(samples') <= MaxSamples
  BY <1>0, <1>8, <1>12, <1>15, CampaignDeskAssumption DEF DeskTypes
<1>14. samples' \subseteq Samples BY <1>0, <1>5, <1>6, <1>7 DEF DeskTypes
<1> QED BY <1>0, <1>15, <1>13, <1>14 DEF PreviewRead, DeskTypes, serverVars, tallyVars

\* The invariant, after reading a preview.
LEMMA PreviewReadKeeps ==
    ASSUME DeskInv, NEW s \in samples, PreviewRead(s)
    PROVE  DeskInv'
<1>1. DeskTypes' BY PreviewReadIsTyped
<1>2. UNCHANGED <<record, built, builder, call, detail, launched, slip>>
  BY DEF PreviewRead, serverVars, tallyVars
<1>3. /\ CallFits' /\ BuilderFits' /\ RecordIsThere' /\ StepsAreSaved' /\ RowsFit'
      /\ DetailFits' /\ LaunchIsAsConfirmed' /\ LaunchFits'
  BY <1>2 DEF DeskInv, CallFits, BuilderFits, RecordIsThere, StepsAreSaved, Saved, RowsFit,
              DetailFits, Sound, LaunchIsAsConfirmed, LaunchFits, UnderWay, Clean, Kept, IsOpen
<1>4. SamplesFit'
  <2> SUFFICES ASSUME Clean', IsOpen', builder'.step = ReviewStep
               PROVE  \A t \in samples' : t.read => t.of = record.content \/ t.old \/ t.rows
    BY <1>2 DEF DeskInv, SamplesFit, Clean, IsOpen
  <2>1. \A t \in samples : t.read => t.of = record.content \/ t.old \/ t.rows
    BY <1>2 DEF DeskInv, SamplesFit, Clean, IsOpen
  <2> SUFFICES ASSUME NEW t \in samples' PROVE t.read => t.of = record.content \/ t.old \/ t.rows
    OBVIOUS
  <2>2. CASE t \in samples BY <2>1, <2>2
  <2>3. CASE t = [old |-> s.old, read |-> TRUE,
                  of |-> IF built.rows # {} THEN CHOOSE c \in built.rows : TRUE ELSE record.content,
                  rows |-> built.rows # {}]
    BY <2>3
  <2> QED BY <2>2, <2>3 DEF PreviewRead
<1> QED BY <1>1, <1>3, <1>4 DEF DeskInv

\* Types, after showing a preview.
LEMMA ShowSampleIsTyped ==
    ASSUME DeskInv, NEW s \in samples, ShowSample(s)
    PROVE  DeskTypes'
<1>0. DeskTypes BY DEF DeskInv
<1>1. builder \in Screens BY <1>0, OpenIsScreen DEF ShowSample
<1>2. builder' \in Screens BY <1>0, <1>1 DEF ShowSample, Screens, DeskTypes
<1>3. IsFiniteSet(samples) /\ Cardinality(samples) \in Nat BY <1>0, FS_CardinalityType DEF DeskTypes
<1>4. IsFiniteSet(samples') /\ Cardinality(samples') = Cardinality(samples) - 1
  BY <1>3, FS_RemoveElement DEF ShowSample
<1>5. Cardinality(samples') <= MaxSamples
  BY <1>0, <1>3, <1>4, CampaignDeskAssumption DEF DeskTypes
<1> QED BY <1>0, <1>2, <1>4, <1>5 DEF ShowSample, DeskTypes, serverVars, tallyVars

\* The invariant, after showing a preview. The shown preview is one of those
\* under way.
LEMMA ShowSampleKeeps ==
    ASSUME DeskInv, NEW s \in samples, ShowSample(s)
    PROVE  DeskInv'
<1>1. DeskTypes' BY ShowSampleIsTyped
<1>2. builder \in Screens /\ IsOpen /\ s.read BY OpenIsScreen DEF ShowSample, DeskInv
<1>3. /\ builder'.step = builder.step /\ builder'.form = builder.form
      /\ builder'.busy = builder.busy /\ builder'.known = builder.known
      /\ builder'.shown = "sample" /\ builder'.sample = s
  BY <1>2 DEF ShowSample, Screens
<1>4. UNCHANGED <<record, built, call, detail, launched, slip>> /\ samples' \subseteq samples
  BY DEF ShowSample, serverVars, tallyVars
<1>5. /\ CallFits' /\ RecordIsThere' /\ RowsFit' /\ DetailFits' /\ LaunchIsAsConfirmed'
      /\ LaunchFits'
  BY <1>4 DEF DeskInv, CallFits, RecordIsThere, RowsFit, DetailFits, Sound,
              LaunchIsAsConfirmed, LaunchFits, UnderWay
<1>6. BuilderFits'
  BY <1>2, <1>3, <1>4 DEF DeskInv, BuilderFits, UnderWay, IsOpen, Clean
<1>7. StepsAreSaved'
  BY <1>2, <1>3, <1>4 DEF DeskInv, StepsAreSaved, Saved, UnderWay, Kept, Clean, IsOpen
<1>8. SamplesFit' BY <1>2, <1>3, <1>4 DEF DeskInv, SamplesFit, Clean, IsOpen
<1> QED BY <1>1, <1>5, <1>6, <1>7, <1>8 DEF DeskInv

\* Types, after a failure.
LEMMA CallFailsIsTyped == DeskInv /\ CallFails => DeskTypes'
<1> SUFFICES ASSUME DeskInv, DeskTypes, CallFails PROVE DeskTypes' BY DEF DeskInv
<1>1. call \in Requests BY UnderWayIsRequest DEF CallFails, NoCall
<1>2. call' \in Requests BY <1>1, RequestAnswered DEF CallFails
<1>3. record' \in Records /\ detail' \in Details BY NothingIsTyped DEF CallFails, DeskTypes
<1> QED BY <1>2, <1>3 DEF CallFails, DeskTypes

\* The invariant, after a failure. A creation that was not heard of is left
\* behind: the builder's campaign is none again.
LEMMA CallFailsKeeps == DeskInv /\ CallFails => DeskInv'
<1> SUFFICES ASSUME DeskInv, CallFails PROVE DeskInv' OBVIOUS
<1>1. DeskTypes' BY CallFailsIsTyped
<1>2. call # NoCall /\ call.ok BY DEF CallFails, NoCall
<1>3. call \in Requests BY <1>2, UnderWayIsRequest DEF DeskInv
<1>4. /\ call'.stage = "answered" /\ call'.kind = call.kind /\ call'.step = call.step
      /\ call'.fields = call.fields /\ call'.form = call.form /\ ~call'.ok /\ call' # NoCall
  <2>1. CASE call \in Asked BY <2>1 DEF CallFails, Asked, NoCall
  <2>2. CASE call \in Loaded BY <2>2 DEF CallFails, Loaded, NoCall
  <2> QED BY <1>3, <2>1, <2>2 DEF Requests
<1>5. UNCHANGED <<built, launched, builder, samples, slip>> BY DEF CallFails
<1>6. \/ record' = NoRecord /\ detail' = NoDetail /\ call.stage = "answered" /\ call.kind = "create"
      \/ record' = record /\ detail' = detail /\ ~(call.stage = "answered" /\ call.kind = "create")
  BY DEF CallFails
<1>7. CallFits' BY <1>2, <1>4 DEF DeskInv, CallFits, UnderWay
<1>8. RecordIsThere'
  BY <1>2, <1>4, <1>6 DEF DeskInv, RecordIsThere, UnderWay, NoDetail, NoRecord
<1>9. BuilderFits'
  <2>1. CASE record' = record
    <3>1. call.kind = "create" => call.stage \in {"sent", "answered"}
      BY <1>3 DEF Requests, Asked, Loaded
    <3>2. NoRecord.status = "none" BY DEF NoRecord
    <3>3. call.kind = "create" => record.status = "none"
      BY <1>2, <1>6, <2>1, <3>1, <3>2 DEF DeskInv, RecordIsThere, UnderWay
    <3> QED BY <1>2, <1>4, <1>5, <2>1, <3>3 DEF DeskInv, BuilderFits, UnderWay, IsOpen, Clean
  <2>2. CASE record' = NoRecord /\ call.kind = "create"
    BY <1>2, <1>4, <1>5, <2>2 DEF DeskInv, BuilderFits, UnderWay, IsOpen, Clean, NoRecord
  <2> QED BY <1>6, <2>1, <2>2
<1>10. StepsAreSaved'
  <2>1. CASE record' = record
    BY <1>4, <1>5, <2>1 DEF DeskInv, StepsAreSaved, Saved, UnderWay, Clean, Kept, IsOpen
  <2>2. CASE record' = NoRecord /\ call.kind = "create"
    <3>1. IsOpen => builder \in Screens BY OpenIsScreen DEF DeskInv
    <3>2. IsOpen => builder.step <= 1 BY <1>2, <2>2 DEF DeskInv, BuilderFits, UnderWay
    <3>3. IsOpen => ~(builder.step >= 2) /\ ~(builder.step >= 3) /\ ~(builder.step >= 4)
      BY <3>1, <3>2 DEF Screens, ReviewStep
    <3>4. record'.content["schedule"] = 0 BY <2>2 DEF NoRecord, Blank, Fields
    <3> QED BY <1>4, <1>5, <3>3, <3>4 DEF StepsAreSaved, Saved, UnderWay, Clean, Kept, IsOpen
  <2> QED BY <1>6, <2>1, <2>2
<1>11. SamplesFit'
  <2>1. CASE record' = record BY <1>5, <2>1 DEF DeskInv, SamplesFit, Clean, IsOpen
  <2>2. CASE record' = NoRecord /\ call.kind = "create"
    <3>1. IsOpen => builder \in Screens BY OpenIsScreen DEF DeskInv
    <3>2. IsOpen => builder.step <= 1 BY <1>2, <2>2 DEF DeskInv, BuilderFits, UnderWay
    <3>3. IsOpen => builder.step # ReviewStep BY <3>1, <3>2 DEF Screens, ReviewStep
    <3> QED BY <1>5, <3>3 DEF SamplesFit, IsOpen
  <2> QED BY <1>6, <2>1, <2>2
<1>12. RowsFit' BY <1>4, <1>5, <1>6 DEF DeskInv, RowsFit, NoRecord
<1>13. DetailFits' BY <1>5, <1>6 DEF DeskInv, DetailFits, Sound, NoDetail, NoPreflight
<1>14. LaunchIsAsConfirmed' /\ LaunchFits'
  BY <1>5 DEF DeskInv, LaunchIsAsConfirmed, LaunchFits
<1> QED BY <1>1, <1>7, <1>8, <1>9, <1>10, <1>11, <1>12, <1>13, <1>14 DEF DeskInv

\* Types, after the creation.
LEMMA ServeCreateIsTyped == DeskInv /\ ServeCreate => DeskTypes'
<1> SUFFICES ASSUME DeskInv, DeskTypes, ServeCreate PROVE DeskTypes' BY DEF DeskInv
<1>1. call \in Requests BY UnderWayIsRequest DEF ServeCreate, Serving, NoCall
<1>2. call' \in Requests BY <1>1, RequestAnswered DEF ServeCreate
<1>3. call.form \in Content BY <1>1 DEF Requests, Asked, Loaded
<1>4. Merged(Blank) \in Content BY <1>3, NothingIsTyped DEF Merged, Content
<1>5. record' \in Records
  <2>1. NoRecord \in Records BY NothingIsTyped
  <2>2. record' = [NoRecord EXCEPT !.status = "DRAFT", !.content = Merged(Blank)] BY DEF ServeCreate
  <2> QED BY <1>4, <2>1, <2>2 DEF Records, Statuses
<1> QED BY <1>2, <1>5 DEF ServeCreate, DeskTypes, tallyVars

\* The invariant, after the creation. Before the creation there is no record,
\* and so no detail.
LEMMA ServeCreateKeeps == DeskInv /\ ServeCreate => DeskInv'
<1> SUFFICES ASSUME DeskInv, ServeCreate PROVE DeskInv' OBVIOUS
<1>1. DeskTypes' BY ServeCreateIsTyped
<1>2. call # NoCall /\ call.kind = "create" /\ call.stage = "sent"
  BY DEF ServeCreate, Serving, NoCall
<1>3. call \in Asked BY <1>2, UnderWayIsRequest DEF DeskInv, Requests, Loaded
<1>4. /\ call'.stage = "answered" /\ call'.kind = "create" /\ call'.step = call.step
      /\ call'.fields = call.fields /\ call'.form = call.form /\ call'.ok = call.ok
      /\ call' # NoCall
  BY <1>2, <1>3 DEF ServeCreate, Asked, NoCall
<1>5. UNCHANGED <<built, builder, samples, detail, launched, slip>> BY DEF ServeCreate, tallyVars
<1>6. /\ record'.status = "DRAFT" /\ record'.count = 0
      /\ record'.content = Merged(Blank)
  BY DEF ServeCreate, NoRecord
<1>7. /\ call.ok /\ call.step = 1 /\ "what" \in call.fields
      /\ call.fields \subseteq {"what", "schedule"}
      /\ ("schedule" \in call.fields <=> call.form["schedule"] # 0)
  BY <1>2 DEF DeskInv, CallFits, UnderWay
<1>8. ~detail.open /\ ~detail.preflight.arrived
  BY <1>2 DEF DeskInv, RecordIsThere, DetailFits, UnderWay, NoDetail, NoPreflight
<1>9. CallFits' BY <1>2, <1>4 DEF DeskInv, CallFits, UnderWay
<1>10. BuilderFits'
  BY <1>2, <1>4, <1>5, <1>6, <1>7 DEF DeskInv, BuilderFits, UnderWay, IsOpen, Clean
<1>11. RecordIsThere' BY <1>4, <1>6 DEF RecordIsThere
<1>12. /\ record'.content["what"] = call.form["what"]
       /\ record'.content["schedule"] = call.form["schedule"]
  BY <1>6, <1>7 DEF Merged, Blank, Fields, Written
<1>13. IsOpen => builder.step <= 1 /\ builder \in Screens
  BY <1>2, <1>7, OpenIsScreen DEF DeskInv, BuilderFits, UnderWay
<1>14. StepsAreSaved'
  <2> SUFFICES ASSUME Kept', IsOpen' PROVE StepsAreSaved' BY DEF StepsAreSaved
  <2>1. builder'.form = call.form
    BY <1>2, <1>5 DEF DeskInv, BuilderFits, UnderWay, Kept, Clean, IsOpen
  <2>2. builder.step \in 0..1 BY <1>5, <1>13 DEF IsOpen, Screens, ReviewStep
  <2> QED BY <1>4, <1>5, <1>7, <1>12, <2>1, <2>2 DEF StepsAreSaved, Saved
<1>15. SamplesFit' BY <1>5, <1>13 DEF SamplesFit, IsOpen, ReviewStep, Screens
<1>16. RowsFit' BY <1>4, <1>6 DEF RowsFit
<1>17. DetailFits' BY <1>5, <1>8 DEF DeskInv, DetailFits, NoDetail
<1>18. LaunchIsAsConfirmed' /\ LaunchFits'
  BY <1>5 DEF DeskInv, LaunchIsAsConfirmed, LaunchFits
<1> QED BY <1>1, <1>9, <1>10, <1>11, <1>14, <1>15, <1>16, <1>17, <1>18 DEF DeskInv

\* Types, after loading for an update.
LEMMA LoadForUpdateIsTyped == DeskInv /\ LoadForUpdate => DeskTypes'
<1> SUFFICES ASSUME DeskInv, DeskTypes, LoadForUpdate PROVE DeskTypes' BY DEF DeskInv
<1>1. call \in Requests BY UnderWayIsRequest DEF LoadForUpdate, Serving, NoCall
<1>2. [call EXCEPT !.stage = "answered", !.ok = FALSE] \in Requests BY <1>1, RequestAnswered
<1>3. ASSUME record.status \in {"DRAFT", "READY"}
      PROVE  [stage |-> "loaded", kind |-> "update", step |-> call.step,
              fields |-> call.fields, form |-> call.form, ok |-> TRUE,
              status |-> record.status] \in Loaded
  <2>1. /\ call.step \in 1..ReviewStep /\ call.fields \subseteq Fields /\ call.form \in Content
    BY <1>1 DEF Requests, Asked, Loaded
  <2> QED BY <1>3, <2>1 DEF Loaded
<1>4. call' \in Requests BY <1>2, <1>3 DEF LoadForUpdate, Requests
<1> QED BY <1>4 DEF LoadForUpdate, DeskTypes, serverVars, tallyVars

\* The invariant, after loading for an update.
LEMMA LoadForUpdateKeeps == DeskInv /\ LoadForUpdate => DeskInv'
<1> SUFFICES ASSUME DeskInv, LoadForUpdate PROVE DeskInv' OBVIOUS
<1>1. DeskTypes' BY LoadForUpdateIsTyped
<1>2. call # NoCall /\ call.kind = "update" BY DEF LoadForUpdate, Serving, NoCall
<1>3. call \in Requests BY <1>2, UnderWayIsRequest DEF DeskInv
<1>4. /\ call'.kind = call.kind /\ call'.step = call.step /\ call'.fields = call.fields
      /\ call'.form = call.form /\ call' # NoCall
      /\ \/ /\ call'.stage = "loaded" /\ call'.ok /\ call'.status = record.status
            /\ record.status \in {"DRAFT", "READY"}
         \/ call'.stage = "answered" /\ ~call'.ok
  <2>1. CASE record.status \in {"DRAFT", "READY"} BY <1>2, <2>1 DEF LoadForUpdate, NoCall
  <2>2. CASE record.status \notin {"DRAFT", "READY"}
    <3>1. CASE call \in Asked BY <2>2, <3>1 DEF LoadForUpdate, Asked, NoCall
    <3>2. CASE call \in Loaded BY <2>2, <3>2 DEF LoadForUpdate, Loaded, NoCall
    <3> QED BY <1>3, <3>1, <3>2 DEF Requests
  <2> QED BY <2>1, <2>2
<1>5. UNCHANGED <<record, built, launched, builder, samples, detail, slip>>
  BY DEF LoadForUpdate, serverVars, tallyVars
<1>6. CallFits' BY <1>2, <1>4 DEF DeskInv, CallFits, UnderWay
<1>7. BuilderFits'
  BY <1>2, <1>4, <1>5 DEF DeskInv, BuilderFits, RecordIsThere, UnderWay, IsOpen, Clean
<1>8. RecordIsThere' BY <1>2, <1>4, <1>5 DEF DeskInv, RecordIsThere, UnderWay
<1>9. StepsAreSaved'
  BY <1>4, <1>5 DEF DeskInv, StepsAreSaved, Saved, UnderWay, Clean, Kept, IsOpen
<1>10. SamplesFit' BY <1>5 DEF DeskInv, SamplesFit, Clean, IsOpen
<1>11. RowsFit' BY <1>4, <1>5 DEF DeskInv, RowsFit
<1>12. DetailFits' /\ LaunchIsAsConfirmed' /\ LaunchFits'
  BY <1>5 DEF DeskInv, DetailFits, Sound, LaunchIsAsConfirmed, LaunchFits
<1> QED BY <1>1, <1>6, <1>7, <1>8, <1>9, <1>10, <1>11, <1>12 DEF DeskInv

\* Types, after reopening a built campaign.
LEMMA ReopenIsTyped == DeskInv /\ Reopen => DeskTypes'
<1> SUFFICES ASSUME DeskInv, DeskTypes, Reopen PROVE DeskTypes' BY DEF DeskInv
<1>1. call \in Loaded BY UnderWayIsRequest DEF Reopen, Serving, NoCall, Requests, Asked
<1>2. call' \in Loaded BY <1>1 DEF Reopen, Loaded
<1>3. record' \in Records BY DEF Reopen, DeskTypes, Records, Statuses
<1> QED BY <1>2, <1>3 DEF Reopen, DeskTypes, Requests, tallyVars

\* The invariant, after reopening a built campaign. A built campaign is a
\* draft before it is patched, since every step writes a field a build reads.
LEMMA ReopenKeeps == DeskInv /\ Reopen => DeskInv'
<1> SUFFICES ASSUME DeskInv, Reopen PROVE DeskInv' OBVIOUS
<1>1. DeskTypes' BY ReopenIsTyped
<1>2. call # NoCall /\ call.kind = "update" /\ call.stage = "loaded"
  BY DEF Reopen, Serving, NoCall
<1>3. call \in Loaded /\ record \in Records
  BY <1>2, UnderWayIsRequest DEF DeskInv, DeskTypes, Requests, Asked
<1>4. /\ call'.stage = "reopened" /\ call'.kind = "update" /\ call'.step = call.step
      /\ call'.fields = call.fields /\ call'.form = call.form /\ call'.ok = call.ok
      /\ call' # NoCall
  BY <1>2, <1>3 DEF Reopen, Loaded, NoCall
<1>5. UNCHANGED <<built, builder, samples, detail, launched, slip>> BY DEF Reopen, tallyVars
<1>6. /\ call.ok /\ call.fields \intersect Written # {}
  <2>1. call.step \in 1..3
    BY <1>2, <1>3 DEF Loaded, ReviewStep, DeskInv, CallFits, UnderWay
  <2>2. "what" \in call.fields \/ "audience" \in call.fields \/ "mapping" \in call.fields
    BY <1>2, <2>1 DEF DeskInv, CallFits, UnderWay
  <2> QED BY <1>2, <2>2 DEF DeskInv, CallFits, UnderWay, Written
<1>7. /\ record'.content = record.content /\ record'.count = record.count
      /\ record'.status \in {"DRAFT", "RUNNING"}
  <2>1. CASE call.status = "READY"
    BY <1>3, <1>6, <2>1 DEF Reopen, Invalidates, Records
  <2>2. CASE call.status = "DRAFT"
    BY <1>2, <1>3, <2>2 DEF Reopen, Invalidates, DeskInv, RowsFit, UnderWay
  <2> QED BY <1>3, <2>1, <2>2 DEF Loaded
<1>8. record.status # "none" BY <1>2 DEF DeskInv, RecordIsThere, UnderWay
<1>9. CallFits' BY <1>2, <1>4 DEF DeskInv, CallFits, UnderWay
<1>10. BuilderFits'
  BY <1>2, <1>4, <1>5, <1>7, <1>8 DEF DeskInv, BuilderFits, UnderWay, IsOpen, Clean
<1>11. RecordIsThere' BY <1>4, <1>7 DEF RecordIsThere
<1>12. StepsAreSaved'
  BY <1>4, <1>5, <1>7 DEF DeskInv, StepsAreSaved, Saved, UnderWay, Clean, Kept, IsOpen
<1>13. SamplesFit' BY <1>5, <1>7 DEF DeskInv, SamplesFit, Clean, IsOpen
<1>14. RowsFit' BY <1>4, <1>7 DEF RowsFit
<1>15. DetailFits' BY <1>5, <1>7 DEF DeskInv, DetailFits, Sound
<1>16. LaunchIsAsConfirmed' /\ LaunchFits'
  BY <1>5 DEF DeskInv, LaunchIsAsConfirmed, LaunchFits
<1> QED BY <1>1, <1>9, <1>10, <1>11, <1>12, <1>13, <1>14, <1>15, <1>16 DEF DeskInv

\* Types, after the patch.
LEMMA PatchRecordIsTyped == DeskInv /\ PatchRecord => DeskTypes'
<1> SUFFICES ASSUME DeskInv, DeskTypes, PatchRecord PROVE DeskTypes' BY DEF DeskInv
<1>1. call \in Requests BY UnderWayIsRequest DEF PatchRecord, Serving, NoCall
<1>2. call' \in Requests BY <1>1, RequestAnswered DEF PatchRecord
<1>3. call.form \in Content BY <1>1 DEF Requests, Asked, Loaded
<1>4. record \in Records /\ record.content \in Content BY DEF DeskTypes, Records
<1>5. Merged(record.content) \in Content BY <1>3, <1>4 DEF Merged, Content
<1>6. record' \in Records BY <1>4, <1>5 DEF PatchRecord, Records
<1> QED BY <1>2, <1>6 DEF PatchRecord, DeskTypes, tallyVars

\* The invariant, after the patch. The fields of the step are the screen's
\* from now on; nothing is built meanwhile.
LEMMA PatchRecordKeeps == DeskInv /\ PatchRecord => DeskInv'
<1> SUFFICES ASSUME DeskInv, PatchRecord PROVE DeskInv' OBVIOUS
<1>1. DeskTypes' BY PatchRecordIsTyped
<1>2. call # NoCall /\ call.kind = "update" /\ call.stage = "reopened"
  BY DEF PatchRecord, Serving, NoCall
<1>3. call \in Loaded /\ record \in Records
  BY <1>2, UnderWayIsRequest DEF DeskInv, DeskTypes, Requests, Asked
<1>4. /\ call'.stage = "answered" /\ call'.kind = "update" /\ call'.step = call.step
      /\ call'.fields = call.fields /\ call'.form = call.form /\ call'.ok = call.ok
      /\ call' # NoCall
  BY <1>2, <1>3 DEF PatchRecord, Loaded, NoCall
<1>5. UNCHANGED <<built, builder, samples, detail, launched, slip>> BY DEF PatchRecord, tallyVars
<1>6. /\ record'.status = record.status /\ record'.count = record.count
      /\ record'.content = Merged(record.content)
  BY <1>3 DEF PatchRecord, Records
<1>7. call.step \in 1..3 /\ call.ok
  BY <1>2, <1>3 DEF Loaded, ReviewStep, DeskInv, CallFits, UnderWay
<1>8. record.status \in {"DRAFT", "RUNNING"} BY <1>2 DEF DeskInv, RowsFit, UnderWay
<1>9. CallFits' BY <1>2, <1>4 DEF DeskInv, CallFits, UnderWay
<1>10. BuilderFits'
  BY <1>2, <1>4, <1>5, <1>6, <1>8 DEF DeskInv, BuilderFits, UnderWay, IsOpen, Clean
<1>11. RecordIsThere' BY <1>4, <1>6, <1>8 DEF RecordIsThere
<1>12. StepsAreSaved'
  <2> SUFFICES ASSUME Kept', IsOpen' PROVE StepsAreSaved' BY DEF StepsAreSaved
  <2>1. /\ builder'.form = builder.form /\ builder.form = call.form
        /\ builder'.step = builder.step /\ builder.step = call.step
        /\ builder.form["schedule"] = 0 => record.content["schedule"] = 0
        /\ Saved(builder.step)
    BY <1>2, <1>5 DEF DeskInv, BuilderFits, StepsAreSaved, UnderWay, Kept, Clean, IsOpen
  <2>2. \A f \in Fields : record'.content[f] = IF f \in call.fields THEN call.form[f]
                                               ELSE record.content[f]
    BY <1>6 DEF Merged
  <2>3. {"what", "audience", "mapping", "schedule"} \subseteq Fields BY DEF Fields, Written
  <2>4. call.step = 1 => /\ "what" \in call.fields /\ call.fields \subseteq {"what", "schedule"}
                         /\ ("schedule" \in call.fields <=> call.form["schedule"] # 0)
    BY <1>2 DEF DeskInv, CallFits, UnderWay
  <2>5. /\ call.step = 2 => call.fields = {"audience"}
        /\ call.step = 3 => call.fields = {"mapping"}
    BY <1>2 DEF DeskInv, CallFits, UnderWay
  <2>6. CASE call.step = 1
    BY <1>4, <2>1, <2>2, <2>3, <2>4, <2>6 DEF StepsAreSaved, Saved
  <2>7. CASE call.step = 2
    BY <1>4, <2>1, <2>2, <2>3, <2>5, <2>7 DEF StepsAreSaved, Saved
  <2>8. CASE call.step = 3
    BY <1>4, <2>1, <2>2, <2>3, <2>5, <2>8 DEF StepsAreSaved, Saved
  <2> QED BY <1>7, <2>6, <2>7, <2>8
<1>13. SamplesFit'
  BY <1>2, <1>5, <1>7 DEF DeskInv, BuilderFits, SamplesFit, UnderWay, Clean, IsOpen, ReviewStep
<1>14. RowsFit' BY <1>4, <1>6, <1>8 DEF RowsFit
<1>15. DetailFits' BY <1>5, <1>6 DEF DeskInv, DetailFits, Sound
<1>16. LaunchIsAsConfirmed' /\ LaunchFits'
  BY <1>5 DEF DeskInv, LaunchIsAsConfirmed, LaunchFits
<1> QED BY <1>1, <1>9, <1>10, <1>11, <1>12, <1>13, <1>14, <1>15, <1>16 DEF DeskInv

\* Types, after starting a build.
LEMMA ServeBuildIsTyped == DeskInv /\ ServeBuild => DeskTypes'
<1> SUFFICES ASSUME DeskInv, DeskTypes, ServeBuild PROVE DeskTypes' BY DEF DeskInv
<1>1. call \in Requests BY UnderWayIsRequest DEF ServeBuild, Serving, NoCall
<1>2. call' \in Requests BY <1>1, RequestAnswered DEF ServeBuild
<1>3. record' \in Records
  <2>1. 0 \in 0..BuildPages /\ record \in Records BY CampaignDeskAssumption DEF DeskTypes
  <2>2. [record EXCEPT !.status = "SNAPSHOTTING", !.count = 0] \in Records
    BY <2>1 DEF Records, Statuses
  <2> QED BY <2>1, <2>2 DEF ServeBuild, StartsBuild
<1>4. built' \in [rows : SUBSET Content, pages : 0..BuildPages, round : Nat]
  BY CampaignDeskAssumption DEF ServeBuild, StartsBuild, DeskTypes
<1> QED BY <1>2, <1>3, <1>4 DEF ServeBuild, DeskTypes, tallyVars

\* The invariant, after starting a build. No row is left of the last build,
\* and its pre-flight is of another round.
LEMMA ServeBuildKeeps == DeskInv /\ ServeBuild => DeskInv'
<1> SUFFICES ASSUME DeskInv, ServeBuild PROVE DeskInv' OBVIOUS
<1>1. DeskTypes' BY ServeBuildIsTyped
<1>2. call # NoCall /\ call.kind = "build" /\ call.stage = "sent"
  BY DEF ServeBuild, Serving, NoCall
<1>3. call \in Requests /\ record \in Records BY <1>2, UnderWayIsRequest DEF DeskInv, DeskTypes
<1>4. /\ call'.kind = call.kind /\ call'.step = call.step /\ call'.fields = call.fields
      /\ call'.form = call.form /\ call' # NoCall /\ call'.stage = "answered"
  <2>1. CASE call \in Asked BY <2>1 DEF ServeBuild, Asked, NoCall
  <2>2. CASE call \in Loaded BY <1>2, <2>2 DEF Loaded
  <2> QED BY <1>3, <2>1, <2>2 DEF Requests
<1>5. UNCHANGED <<launched, builder, samples, detail, slip>> BY DEF ServeBuild, tallyVars
<1>6. /\ record'.content = record.content /\ record'.status # "none"
      /\ \/ /\ record' = record /\ built' = built
         \/ /\ record'.status = "SNAPSHOTTING" /\ record'.count = 0
            /\ built'.rows = {} /\ built'.pages = 0 /\ built'.round = built.round + 1
  <2>1. record.status # "none" BY <1>2 DEF DeskInv, RecordIsThere, UnderWay
  <2>2. CASE StartsBuild
    <3>1. built \in [rows : SUBSET Content, pages : 0..BuildPages, round : Nat]
      BY DEF DeskInv, DeskTypes
    <3>2. /\ record'.content = record.content /\ record'.status = "SNAPSHOTTING"
          /\ record'.count = 0
      BY <1>3, <2>2 DEF StartsBuild, Records
    <3>3. built'.rows = {} /\ built'.pages = 0 /\ built'.round = built.round + 1
      BY <3>1, <2>2 DEF StartsBuild
    <3> QED BY <3>2, <3>3
  <2>3. CASE record' = record /\ built' = built BY <2>1, <2>3
  <2> QED BY <2>2, <2>3 DEF ServeBuild
<1>7. CallFits' BY <1>2, <1>4 DEF DeskInv, CallFits, UnderWay
<1>8. BuilderFits'
  BY <1>2, <1>4, <1>5, <1>6 DEF DeskInv, BuilderFits, RecordIsThere, UnderWay, IsOpen, Clean
<1>9. RecordIsThere' BY <1>2, <1>4, <1>5, <1>6 DEF DeskInv, RecordIsThere, UnderWay
<1>10. StepsAreSaved'
  BY <1>2, <1>4, <1>5, <1>6 DEF DeskInv, StepsAreSaved, Saved, UnderWay, Clean, Kept, IsOpen
<1>11. SamplesFit' BY <1>5, <1>6 DEF DeskInv, SamplesFit, Clean, IsOpen
<1>12. RowsFit' BY <1>4, <1>6, CampaignDeskAssumption DEF DeskInv, RowsFit
<1>13. DetailFits'
  <2>1. detail.preflight.arrived => detail.preflight.round \in Nat /\ built.round \in Nat
    <3>1. detail.preflight \in Preflights \union {NoPreflight} BY DEF DeskInv, DeskTypes, Details
    <3>2. built.round \in Nat BY DEF DeskInv, DeskTypes
    <3>3. CASE detail.preflight \in Preflights BY <3>2, <3>3 DEF Preflights
    <3>4. CASE detail.preflight = NoPreflight BY <3>4 DEF NoPreflight
    <3> QED BY <3>1, <3>3, <3>4
  <2> QED BY <1>5, <1>6, <2>1 DEF DeskInv, DetailFits, Sound
<1>14. LaunchIsAsConfirmed' /\ LaunchFits'
  BY <1>5 DEF DeskInv, LaunchIsAsConfirmed, LaunchFits
<1> QED BY <1>1, <1>7, <1>8, <1>9, <1>10, <1>11, <1>12, <1>13, <1>14 DEF DeskInv

\* Types, after a page of a build.
LEMMA BuildPageIsTyped == DeskInv /\ BuildPage => DeskTypes'
<1> SUFFICES ASSUME DeskInv, DeskTypes, BuildPage PROVE DeskTypes' BY DEF DeskInv
<1>1. PICK n \in {0, 1} :
         /\ built' = [built EXCEPT !.pages = @ + 1,
                                   !.rows = IF n = 0 THEN @ ELSE @ \union {record.content}]
         /\ record' = [record EXCEPT !.count = @ + n,
                           !.status = IF built.pages + 1 = BuildPages THEN "READY" ELSE @]
  BY DEF BuildPage
<1>2. /\ record \in Records /\ record.content \in Content /\ record.count \in 0..BuildPages
      /\ record.status \in Statuses
  BY DEF DeskTypes, Records
<1>3. built.pages + 1 \in 0..BuildPages /\ record.count + n \in 0..BuildPages
  BY <1>2, CampaignDeskAssumption DEF BuildPage, DeskInv, DeskTypes, RowsFit
<1>4. PICK st \in Statuses : st = IF built.pages + 1 = BuildPages THEN "READY" ELSE record.status
  BY <1>2 DEF Statuses
<1>5. PICK rows \in SUBSET Content :
         rows = IF n = 0 THEN built.rows ELSE built.rows \union {record.content}
  BY <1>2 DEF DeskTypes
<1>6. record' \in Records BY <1>1, <1>2, <1>3, <1>4 DEF Records
<1>7. built' \in [rows : SUBSET Content, pages : 0..BuildPages, round : Nat]
  BY <1>1, <1>3, <1>5 DEF DeskTypes
<1> QED BY <1>6, <1>7 DEF BuildPage, DeskTypes, tallyVars

\* The invariant, after a page of a build. The page is of the record as it is,
\* and counts one or none.
LEMMA BuildPageKeeps == DeskInv /\ BuildPage => DeskInv'
<1> SUFFICES ASSUME DeskInv, BuildPage PROVE DeskInv' OBVIOUS
<1>1. DeskTypes' BY BuildPageIsTyped
<1>2. UNCHANGED <<builder, call, samples, detail, launched, slip>> BY DEF BuildPage, tallyVars
<1>3. /\ record.status = "SNAPSHOTTING" /\ record'.content = record.content
      /\ record'.status \in {"SNAPSHOTTING", "READY"}
      /\ built'.rows \subseteq built.rows \union {record.content}
      /\ record'.status = "SNAPSHOTTING" =>
           /\ built.pages + 1 # BuildPages /\ built'.pages = built.pages + 1
           /\ record'.count \in {record.count, record.count + 1}
      /\ built'.round = built.round
  <2>1. record \in Records /\ built \in [rows : SUBSET Content, pages : 0..BuildPages, round : Nat]
    BY DEF DeskInv, DeskTypes
  <2>2. PICK n \in {0, 1} :
          /\ built' = [built EXCEPT !.pages = @ + 1,
                                    !.rows = IF n = 0 THEN @ ELSE @ \union {record.content}]
          /\ record' = [record EXCEPT !.count = @ + n,
                            !.status = IF built.pages + 1 = BuildPages THEN "READY" ELSE @]
    BY DEF BuildPage
  <2>3. record.count \in Nat BY <2>1, CampaignDeskAssumption DEF Records
  <2> QED BY <2>1, <2>2, <2>3 DEF BuildPage, Records
<1>4. /\ record.count <= built.pages /\ built.pages < BuildPages
      /\ record.count \in Nat /\ built.pages \in Nat /\ BuildPages \in Nat
  BY <1>3, CampaignDeskAssumption DEF DeskInv, DeskTypes, Records, RowsFit
<1>5. CallFits' BY <1>2 DEF DeskInv, CallFits, UnderWay
<1>6. BuilderFits' BY <1>2, <1>3 DEF DeskInv, BuilderFits, UnderWay, IsOpen, Clean
<1>7. RecordIsThere' BY <1>2, <1>3 DEF DeskInv, RecordIsThere, UnderWay
<1>8. StepsAreSaved'
  BY <1>2, <1>3 DEF DeskInv, StepsAreSaved, Saved, UnderWay, Kept, Clean, IsOpen
<1>9. SamplesFit' BY <1>2, <1>3 DEF DeskInv, SamplesFit, Clean, IsOpen
<1>10. RowsFit'
  <2>1. call # NoCall => call.stage # "loaded" /\ call.stage # "reopened"
    <3>1. call # NoCall => call \in Requests BY UnderWayIsRequest DEF DeskInv
    <3> QED BY <1>3, <3>1 DEF DeskInv, RowsFit, UnderWay, Requests, Asked, Loaded
  <2>2. \A c \in built'.rows : \A f \in Written : c[f] = record'.content[f]
    BY <1>3 DEF DeskInv, RowsFit
  <2>3. record'.status = "SNAPSHOTTING" =>
          record'.count <= built'.pages /\ built'.pages < BuildPages
    BY <1>3, <1>4
  <2> QED BY <1>2, <2>1, <2>2, <2>3 DEF RowsFit, UnderWay
<1>11. DetailFits' BY <1>2, <1>3 DEF DeskInv, DetailFits, Sound
<1>12. LaunchIsAsConfirmed' /\ LaunchFits'
  BY <1>2 DEF DeskInv, LaunchIsAsConfirmed, LaunchFits
<1> QED BY <1>1, <1>5, <1>6, <1>7, <1>8, <1>9, <1>10, <1>11, <1>12 DEF DeskInv

\* Types, after opening the detail.
LEMMA OpenDetailIsTyped == DeskInv /\ OpenDetail => DeskTypes'
<1> SUFFICES ASSUME DeskInv, DeskTypes, OpenDetail PROVE DeskTypes' BY DEF DeskInv
<1>1. record \in Records BY DEF DeskTypes
<1>2. Detail \in Details BY <1>1, NothingIsTyped DEF Detail, Details, NoDetail, NoPreflight
<1> QED BY <1>2 DEF OpenDetail, DeskTypes, serverVars, tallyVars

\* The invariant, after opening the detail.
LEMMA OpenDetailKeeps == DeskInv /\ OpenDetail => DeskInv'
<1> SUFFICES ASSUME DeskInv, OpenDetail PROVE DeskInv' OBVIOUS
<1>1. DeskTypes' BY OpenDetailIsTyped
<1>2. UNCHANGED <<record, built, builder, call, samples, launched, slip>>
  BY DEF OpenDetail, serverVars, tallyVars
<1>3. RecordIsThere' BY <1>2 DEF OpenDetail, DeskInv, RecordIsThere, UnderWay
<1>4. DetailFits' BY <1>2 DEF OpenDetail, Detail, NoDetail, NoPreflight, DetailFits, Sound
<1> QED BY <1>1, <1>2, <1>3, <1>4, DetailMoves

\* Types, after closing the detail.
LEMMA CloseDetailIsTyped == DeskInv /\ CloseDetail => DeskTypes'
<1> SUFFICES ASSUME DeskInv, DeskTypes, CloseDetail PROVE DeskTypes' BY DEF DeskInv
<1>1. detail' \in Details BY NothingIsTyped DEF CloseDetail
<1> QED BY <1>1 DEF CloseDetail, DeskTypes, serverVars, tallyVars

\* The invariant, after closing the detail.
LEMMA CloseDetailKeeps == DeskInv /\ CloseDetail => DeskInv'
<1> SUFFICES ASSUME DeskInv, CloseDetail PROVE DeskInv' OBVIOUS
<1>1. DeskTypes' BY CloseDetailIsTyped
<1>2. UNCHANGED <<record, built, builder, call, samples, launched, slip>>
  BY DEF CloseDetail, serverVars, tallyVars
<1>3. RecordIsThere'
  BY <1>2 DEF CloseDetail, DeskInv, RecordIsThere, UnderWay, NoDetail
<1>4. DetailFits' BY DEF CloseDetail, NoDetail, NoPreflight, DetailFits
<1> QED BY <1>1, <1>2, <1>3, <1>4, DetailMoves

\* Types, after a poll.
LEMMA PollIsTyped == DeskInv /\ Poll => DeskTypes'
<1> SUFFICES ASSUME DeskInv, DeskTypes, Poll PROVE DeskTypes' BY DEF DeskInv
<1>1. detail' \in Details BY DEF Poll, DeskTypes, Details
<1> QED BY <1>1 DEF Poll, DeskTypes, serverVars, tallyVars

\* The invariant, after a poll.
LEMMA PollKeeps == DeskInv /\ Poll => DeskInv'
<1> SUFFICES ASSUME DeskInv, Poll PROVE DeskInv' OBVIOUS
<1>1. DeskTypes' BY PollIsTyped
<1>2. UNCHANGED <<record, built, builder, call, samples, launched, slip>>
  BY DEF Poll, serverVars, tallyVars
<1>3. /\ detail.open /\ detail'.open = detail.open /\ detail'.preflight = detail.preflight
      /\ detail'.modal = detail.modal /\ detail'.loaded = detail.loaded
      /\ detail'.seen = record
  BY DEF Poll, DeskInv, DeskTypes, Details
<1>4. RecordIsThere' BY <1>2, <1>3 DEF DeskInv, RecordIsThere, UnderWay
<1>5. DetailFits' BY <1>2, <1>3 DEF DeskInv, RecordIsThere, DetailFits, Sound
<1> QED BY <1>1, <1>2, <1>4, <1>5, DetailMoves

\* Types, after the pre-flight.
LEMMA PreflightArrivesIsTyped == DeskInv /\ PreflightArrives => DeskTypes'
<1> SUFFICES ASSUME DeskInv, DeskTypes, PreflightArrives PROVE DeskTypes' BY DEF DeskInv
<1>1. record.count \in 0..BuildPages /\ built.round \in Nat BY DEF DeskTypes, Records
<1>2. [arrived |-> TRUE, total |-> record.count, round |-> built.round,
       whole |-> record.status = "READY"] \in Preflights BY <1>1 DEF Preflights
<1>3. detail' \in Details BY <1>2 DEF PreflightArrives, DeskTypes, Details
<1> QED BY <1>3 DEF PreflightArrives, DeskTypes, serverVars, tallyVars

\* The invariant, after the pre-flight.
LEMMA PreflightArrivesKeeps == DeskInv /\ PreflightArrives => DeskInv'
<1> SUFFICES ASSUME DeskInv, PreflightArrives PROVE DeskInv' OBVIOUS
<1>1. DeskTypes' BY PreflightArrivesIsTyped
<1>2. UNCHANGED <<record, built, launched, builder, call, samples, slip>>
  BY DEF PreflightArrives, serverVars, tallyVars
<1>3. /\ CallFits' /\ BuilderFits' /\ StepsAreSaved' /\ SamplesFit' /\ RowsFit'
      /\ LaunchIsAsConfirmed' /\ LaunchFits'
  BY <1>2 DEF DeskInv, CallFits, BuilderFits, StepsAreSaved, Saved, SamplesFit, RowsFit,
              LaunchIsAsConfirmed, LaunchFits, UnderWay, Clean, Kept, IsOpen
<1>4. detail \in Details /\ built.round \in Nat BY DEF DeskInv, DeskTypes
<1>5. /\ detail'.open = detail.open /\ detail'.seen = detail.seen /\ detail'.modal = detail.modal
      /\ detail'.loaded = detail.loaded
      /\ detail'.preflight.arrived /\ detail'.preflight.total = record.count
      /\ detail'.preflight.round = built.round
      /\ detail'.preflight.whole => record.status = "READY"
  BY <1>4 DEF PreflightArrives, Details
<1>6. detail.open /\ detail.modal = -1 /\ detail.loaded = NoRecord
  BY DEF PreflightArrives, DeskInv, DetailFits
<1>7. RecordIsThere' BY <1>2, <1>5 DEF DeskInv, RecordIsThere, UnderWay
<1>8. DetailFits' BY <1>2, <1>4, <1>5, <1>6 DEF DeskInv, DetailFits, Sound
<1> QED BY <1>1, <1>3, <1>7, <1>8 DEF DeskInv

\* Types, after the Launch button.
LEMMA PressLaunchIsTyped == DeskInv /\ PressLaunch => DeskTypes'
<1> SUFFICES ASSUME DeskInv, DeskTypes, PressLaunch PROVE DeskTypes' BY DEF DeskInv
<1>1. detail \in Details BY DEF DeskTypes
<1>2. ShownTotal \in Nat
  <2>1. CASE detail.preflight.arrived
    <3>1. detail.preflight \in Preflights BY <1>1, <2>1 DEF Details, NoPreflight
    <3>2. detail.preflight.total \in 0..BuildPages BY <3>1 DEF Preflights
    <3> QED BY <2>1, <3>2, CampaignDeskAssumption DEF ShownTotal
  <2>2. CASE ~detail.preflight.arrived BY <2>2 DEF ShownTotal
  <2> QED BY <2>1, <2>2
<1>3. detail' \in Details BY <1>1, <1>2 DEF PressLaunch, Details
<1> QED BY <1>3 DEF PressLaunch, DeskTypes, serverVars, tallyVars

\* The invariant, after the Launch button.
LEMMA PressLaunchKeeps == DeskInv /\ PressLaunch => DeskInv'
<1> SUFFICES ASSUME DeskInv, PressLaunch PROVE DeskInv' OBVIOUS
<1>1. DeskTypes' BY PressLaunchIsTyped
<1>2. UNCHANGED <<record, built, builder, call, samples, launched, slip>>
  BY DEF PressLaunch, serverVars, tallyVars
<1>3. /\ detail.open /\ detail'.open = detail.open /\ detail'.preflight = detail.preflight
      /\ detail.preflight.arrived /\ detail'.modal = detail.preflight.total
      /\ detail'.loaded = detail.loaded /\ detail'.seen = detail.seen /\ detail.modal = -1
  BY DEF PressLaunch, OffersLaunch, ShownTotal, DeskInv, DeskTypes, Details
<1>4. RecordIsThere' BY <1>2, <1>3 DEF DeskInv, RecordIsThere, UnderWay
<1>5. DetailFits' BY <1>2, <1>3 DEF DeskInv, DetailFits, Sound
<1> QED BY <1>1, <1>2, <1>4, <1>5, DetailMoves

\* Types, after dismissing the confirmation.
LEMMA DismissIsTyped == DeskInv /\ Dismiss => DeskTypes'
<1> SUFFICES ASSUME DeskInv, DeskTypes, Dismiss PROVE DeskTypes' BY DEF DeskInv
<1>1. detail' \in Details BY DEF Dismiss, DeskTypes, Details
<1> QED BY <1>1 DEF Dismiss, DeskTypes, serverVars, tallyVars

\* The invariant, after dismissing the confirmation.
LEMMA DismissKeeps == DeskInv /\ Dismiss => DeskInv'
<1> SUFFICES ASSUME DeskInv, Dismiss PROVE DeskInv' OBVIOUS
<1>1. DeskTypes' BY DismissIsTyped
<1>2. UNCHANGED <<record, built, builder, call, samples, launched, slip>>
  BY DEF Dismiss, serverVars, tallyVars
<1>3. /\ detail'.open = detail.open /\ detail'.preflight = detail.preflight
      /\ detail'.modal = -1 /\ detail'.loaded = NoRecord /\ detail'.seen = detail.seen
      /\ detail.modal # -1
  BY DEF Dismiss, DeskInv, DeskTypes, Details
<1>4. detail.open BY <1>3 DEF DeskInv, DetailFits, NoDetail
<1>5. RecordIsThere' BY <1>2, <1>3 DEF DeskInv, RecordIsThere, UnderWay
<1>6. DetailFits' BY <1>2, <1>3, <1>4 DEF DeskInv, DetailFits, Sound
<1> QED BY <1>1, <1>2, <1>5, <1>6, DetailMoves

\* Types, after the confirmation.
LEMMA ConfirmIsTyped == DeskInv /\ Confirm => DeskTypes'
<1> SUFFICES ASSUME DeskInv, DeskTypes, Confirm PROVE DeskTypes' BY DEF DeskInv
<1>1. detail' \in Details BY DEF Confirm, DeskTypes, Details
<1> QED BY <1>1 DEF Confirm, DeskTypes, serverVars, tallyVars

\* The invariant, after the confirmation.
LEMMA ConfirmKeeps == DeskInv /\ Confirm => DeskInv'
<1> SUFFICES ASSUME DeskInv, Confirm PROVE DeskInv' OBVIOUS
<1>1. DeskTypes' BY ConfirmIsTyped
<1>2. UNCHANGED <<record, built, builder, call, samples, launched, slip>>
  BY DEF Confirm, serverVars, tallyVars
<1>3. /\ detail'.open = detail.open /\ detail'.preflight = detail.preflight
      /\ detail'.seen = detail.seen /\ detail.modal # -1 /\ detail.loaded = NoRecord
      /\ \/ /\ record.status = "READY" /\ detail'.loaded = record
            /\ detail'.modal = detail.modal
         \/ detail'.loaded = NoRecord /\ detail'.modal = -1
  BY DEF Confirm, DeskInv, DeskTypes, Details
<1>4. detail.open BY <1>3 DEF DeskInv, DetailFits, NoDetail
<1>5. RecordIsThere' BY <1>2, <1>3 DEF DeskInv, RecordIsThere, UnderWay
<1>6. DetailFits' BY <1>2, <1>3, <1>4 DEF DeskInv, DetailFits, Sound
<1> QED BY <1>1, <1>2, <1>5, <1>6, DetailMoves

\* Types, after the launch.
LEMMA LaunchIsTyped == DeskInv /\ Launch => DeskTypes'
<1> SUFFICES ASSUME DeskInv, DeskTypes, Launch PROVE DeskTypes' BY DEF DeskInv
<1>1. detail \in Details /\ detail.loaded \in Records BY DEF DeskTypes, Details
<1>2. detail' \in Details BY <1>1, NothingIsTyped DEF Launch, Details
<1>3. detail.preflight.arrived /\ detail.modal \in Nat
  BY <1>1 DEF DeskInv, DetailFits, Launch, Details
<1>4. detail.loaded.count \in 0..BuildPages BY <1>1 DEF Records
<1>5. built.rows \subseteq Content /\ record \in Records /\ record.content \in Content
  BY DEF DeskTypes, Records
<1>6. launched' \in Launches
  <2>1. PICK early \in BOOLEAN : early = (detail.preflight.arrived /\ ~detail.preflight.whole)
    OBVIOUS
  <2>2. PICK again \in BOOLEAN :
            again = (detail.preflight.arrived /\ detail.preflight.round # built.round)
    OBVIOUS
  <2>3. launched' = [shown |-> detail.modal, total |-> detail.loaded.count, rows |-> built.rows,
                     content |-> record.content, early |-> early, again |-> again]
    BY <2>1, <2>2 DEF Launch
  <2> QED BY <1>3, <1>4, <1>5, <2>3 DEF Launches
<1>7. record' \in Records BY <1>5 DEF Launch, Records, Statuses
<1>8. slip' \subseteq Slips BY DEF Launch, DeskTypes, Slips
<1> QED BY <1>2, <1>6, <1>7, <1>8 DEF Launch, DeskTypes

\* The invariant, after the launch. What is counted and built is what was
\* confirmed, unless the record moved in between.
LEMMA LaunchKeeps == DeskInv /\ Launch => DeskInv'
<1> SUFFICES ASSUME DeskInv, Launch PROVE DeskInv' OBVIOUS
<1>1. DeskTypes' BY LaunchIsTyped
<1>2. UNCHANGED <<built, builder, call, samples>> BY DEF Launch
<1>3. /\ detail'.open = detail.open /\ detail'.preflight = detail.preflight
      /\ detail'.seen = detail.seen /\ detail'.modal = -1 /\ detail'.loaded = NoRecord
  BY DEF Launch, DeskInv, DeskTypes, Details
<1>4. /\ detail.loaded # NoRecord /\ detail.modal # -1 /\ detail.loaded.status = "READY"
      /\ Sound => detail.loaded.count = detail.preflight.total
      /\ detail.preflight.arrived /\ detail.modal = detail.preflight.total /\ detail.open
      /\ detail.seen.status # "none"
  BY DEF Launch, DeskInv, DetailFits, NoDetail
<1>5. record.status # "none" BY <1>4 DEF DeskInv, RecordIsThere
<1>6. /\ record'.status = "RUNNING" /\ record'.content = record.content
      /\ record'.count = record.count
  BY DEF Launch, DeskInv, DeskTypes, Records
<1>7. /\ Clean' => Clean
      /\ Kept' => Kept
      /\ "raced" \notin slip' => record = detail.loaded
  BY DEF Launch, Clean, Kept
<1>8. CallFits' BY <1>2 DEF DeskInv, CallFits, UnderWay
<1>9. BuilderFits'
  BY <1>2, <1>5, <1>6, <1>7 DEF DeskInv, BuilderFits, RecordIsThere, UnderWay, IsOpen
<1>10. RecordIsThere' BY <1>2, <1>3, <1>5, <1>6 DEF DeskInv, RecordIsThere, UnderWay
<1>11. StepsAreSaved'
  BY <1>2, <1>6, <1>7 DEF DeskInv, StepsAreSaved, Saved, UnderWay, IsOpen
<1>12. SamplesFit' BY <1>2, <1>6, <1>7 DEF DeskInv, SamplesFit, IsOpen
<1>13. RowsFit' BY <1>2, <1>6 DEF DeskInv, RowsFit, UnderWay
<1>14. DetailFits' BY <1>2, <1>3, <1>4, <1>6 DEF DeskInv, DetailFits, Sound
<1>15. /\ launched'.shown = detail.modal /\ launched'.total = detail.loaded.count
       /\ launched'.rows = built.rows /\ launched'.content = record.content
       /\ ~detail.preflight.whole => launched'.early
       /\ detail.preflight.round # built.round => launched'.again
  BY <1>4 DEF Launch
<1>16. LaunchIsAsConfirmed' BY <1>4, <1>15 DEF LaunchIsAsConfirmed, Sound
<1>17. LaunchFits' BY <1>4, <1>7, <1>15 DEF DeskInv, RowsFit, LaunchFits
<1> QED BY <1>1, <1>8, <1>9, <1>10, <1>11, <1>12, <1>13, <1>14, <1>16, <1>17 DEF DeskInv

-----------------------------------------------------------------------------
\* The invariant holds at first.
LEMMA CampaignDeskStarts == CampaignDeskInit => DeskInv
<1> SUFFICES ASSUME CampaignDeskInit PROVE DeskInv OBVIOUS
<1>1. \A v \in {0, 1} : Filled(v) \in Content BY DEF Filled, Content, Fields, Written, Values
<1>2. record \in Records /\ built \in [rows : SUBSET Content, pages : 0..BuildPages, round : Nat]
  <2>1. 0 \in 0..BuildPages /\ BuildPages \in 0..BuildPages BY CampaignDeskAssumption
  <2>2. CASE record = NoRecord /\ built = [rows |-> {}, pages |-> 0, round |-> 0]
    BY <2>1, <2>2, NothingIsTyped
  <2>3. CASE /\ \E v \in {0, 1} : record = [status |-> "DRAFT", count |-> 0, content |-> Filled(v)]
             /\ built = [rows |-> {}, pages |-> 0, round |-> 0]
    BY <1>1, <2>1, <2>3 DEF Records, Statuses
  <2>4. CASE /\ record = [status |-> "READY", count |-> BuildPages, content |-> Filled(0)]
             /\ built = [rows |-> {Filled(0)}, pages |-> BuildPages, round |-> 0]
    BY <1>1, <2>1, <2>4 DEF Records, Statuses
  <2> QED BY <2>2, <2>3, <2>4 DEF CampaignDeskInit
<1>3. /\ builder = Closed /\ call = NoCall /\ samples = {} /\ detail = NoDetail
      /\ launched = [total |-> 0] /\ strokes = 0 /\ breaks = 0 /\ opens = 0 /\ slip = {}
  BY DEF CampaignDeskInit
<1>4. DeskTypes
  BY <1>2, <1>3, NothingIsTyped, FS_EmptySet, CampaignDeskAssumption DEF DeskTypes
<1>5. /\ record.status = "none" => record = NoRecord
      /\ record.status # "SNAPSHOTTING"
      /\ \A c \in built.rows : c = record.content
  <2>1. CASE record = NoRecord /\ built.rows = {} BY <2>1 DEF NoRecord
  <2>2. CASE record.status = "DRAFT" /\ built.rows = {} BY <2>2
  <2>3. CASE record.status = "READY" /\ built.rows = {Filled(0)} /\ record.content = Filled(0)
    BY <2>3
  <2> QED BY <2>1, <2>2, <2>3 DEF CampaignDeskInit
<1>6. ~IsOpen /\ ~UnderWay BY <1>3 DEF IsOpen, Closed, UnderWay
<1>7. CallFits /\ BuilderFits /\ StepsAreSaved /\ SamplesFit
  BY <1>6 DEF CallFits, BuilderFits, StepsAreSaved, SamplesFit
<1>8. RecordIsThere BY <1>3, <1>5, <1>6 DEF RecordIsThere, NoDetail
<1>9. RowsFit BY <1>5, <1>6 DEF RowsFit
<1>10. DetailFits BY <1>3 DEF DetailFits, NoDetail, NoPreflight
<1>11. LaunchIsAsConfirmed /\ LaunchFits BY <1>3 DEF LaunchIsAsConfirmed, LaunchFits
<1> QED BY <1>4, <1>7, <1>8, <1>9, <1>10, <1>11 DEF DeskInv

\* The invariant survives a stutter.
LEMMA CampaignDeskRests == DeskInv /\ UNCHANGED campaignDeskVars => DeskInv'
<1> SUFFICES ASSUME DeskInv, UNCHANGED campaignDeskVars PROVE DeskInv' OBVIOUS
<1>1. DeskTypes' BY DEF DeskInv, DeskTypes, campaignDeskVars
<1>2. UNCHANGED <<record, built, builder, call, samples, launched, slip, detail>>
  BY DEF campaignDeskVars
<1>3. RecordIsThere' /\ DetailFits'
  BY <1>2 DEF DeskInv, RecordIsThere, DetailFits, Sound, UnderWay
<1> QED BY <1>1, <1>2, <1>3, DetailMoves

\* The invariant gives the types and what the screens promise.
LEMMA DeskInvShows == DeskInv => CampaignDeskTypeOK /\ ScreensAreTrue
<1> SUFFICES ASSUME DeskInv PROVE CampaignDeskTypeOK /\ ScreensAreTrue OBVIOUS
<1>1. IsOpen => builder \in Screens BY OpenIsScreen DEF DeskInv
<1>2. call # NoCall => call \in Requests BY UnderWayIsRequest DEF DeskInv
<1>3. CampaignDeskTypeOK
  <2>1. /\ record.status \in {"none", "DRAFT", "SNAPSHOTTING", "READY", "RUNNING"}
        /\ record.content \in Content /\ record.count \in 0..BuildPages
    BY DEF DeskInv, DeskTypes, Records, Statuses
  <2>2. built.rows \subseteq Content /\ built.pages \in 0..BuildPages /\ built.round \in Nat
    BY DEF DeskInv, DeskTypes
  <2>3. IsOpen => builder.step \in 0..ReviewStep /\ builder.form \in Content
    BY <1>1 DEF Screens
  <2>4. call.stage \in {"none", "sent", "loaded", "reopened", "answered"}
    <3>1. CASE call = NoCall BY <3>1 DEF NoCall
    <3>2. CASE call # NoCall BY <1>2, <3>2 DEF Requests, Asked, Loaded
    <3> QED BY <3>1, <3>2
  <2>5. Cardinality(samples) <= MaxSamples BY DEF DeskInv, DeskTypes
  <2>6. (detail.open => detail.seen.status # "none") /\ (~detail.open => detail = NoDetail)
    BY DEF DeskInv, DetailFits
  <2>7. slip \subseteq {"whileSaving", "unscheduled", "oldCopy", "raced"}
    BY DEF DeskInv, DeskTypes, Slips
  <2> QED BY <2>1, <2>2, <2>3, <2>4, <2>5, <2>6, <2>7 DEF CampaignDeskTypeOK
<1>4. ReviewIsTrue
  <2> SUFFICES ASSUME IsOpen, builder.step = ReviewStep, Kept
               PROVE  builder.form = record.content
    BY DEF ReviewIsTrue, Kept, Clean
  <2>1. Saved(4) BY DEF DeskInv, StepsAreSaved, ReviewStep
  <2>2. \A f \in Fields : builder.form[f] = record.content[f]
    BY <2>1 DEF Saved, Fields, Written
  <2>3. builder.form \in Content /\ record.content \in Content
    BY <1>1 DEF Screens, DeskInv, DeskTypes, Records
  <2> QED BY <2>2, <2>3 DEF Content
<1>5. SampleIsCurrent BY DEF DeskInv, SamplesFit, SampleIsCurrent, Clean
<1> QED BY <1>3, <1>4, <1>5 DEF DeskInv, ScreensAreTrue

\* The invariant is inductive.
LEMMA DeskInvHolds == CampaignDeskSpec => []DeskInv
<1>1. DeskInv /\ CampaignDeskNext => DeskInv'
  <2> SUFFICES ASSUME DeskInv, CampaignDeskNext PROVE DeskInv' OBVIOUS
  <2>1. CASE OpenBuilder \/ Back \/ CloseBuilder \/ Continue \/ PressBuild \/ Answered
    BY <2>1, OpenBuilderKeeps, BackKeeps, CloseBuilderKeeps, ContinueKeeps, PressBuildKeeps,
       AnsweredKeeps
  <2>2. CASE SetSchedule \/ ChooseTemplate \/ ChooseAudience \/ BindVariables
    <3>1. PICK f \in Fields, v \in Values : Enter(f, v)
      BY <2>2
      DEF SetSchedule, ChooseTemplate, ChooseAudience, BindVariables, Fields, Written, Values
    <3> QED BY <3>1, EnterKeeps
  <2>3. CASE \E s \in samples : PreviewRead(s) \/ ShowSample(s)
    BY <2>3, PreviewReadKeeps, ShowSampleKeeps
  <2>4. CASE CallFails \/ ServeCreate \/ LoadForUpdate \/ Reopen \/ PatchRecord \/ ServeBuild
    BY <2>4, CallFailsKeeps, ServeCreateKeeps, LoadForUpdateKeeps, ReopenKeeps,
       PatchRecordKeeps, ServeBuildKeeps
  <2>5. CASE BuildPage \/ OpenDetail \/ CloseDetail \/ Poll \/ PreflightArrives
    BY <2>5, BuildPageKeeps, OpenDetailKeeps, CloseDetailKeeps, PollKeeps, PreflightArrivesKeeps
  <2>6. CASE PressLaunch \/ Dismiss \/ Confirm \/ Launch
    BY <2>6, PressLaunchKeeps, DismissKeeps, ConfirmKeeps, LaunchKeeps
  <2> QED BY <2>1, <2>2, <2>3, <2>4, <2>5, <2>6 DEF CampaignDeskNext
<1> QED BY <1>1, CampaignDeskStarts, CampaignDeskRests, PTL DEF CampaignDeskSpec

\* The record, the requests and both screens keep their types, the detail shows
\* no campaign that is not there, and the previews under way have their bound.
THEOREM CampaignDeskIsTyped == CampaignDeskSpec => []CampaignDeskTypeOK
BY DeskInvHolds, DeskInvShows, PTL

\* What the two of them rely on, for any number of pages: the summary of Review
\* is what the record says, the sample is of the record as it is, nobody
\* launches a number they were not shown, and what is launched was built from
\* what the campaign says; but for the named slips.
THEOREM ScreensHold == CampaignDeskSpec => []ScreensAreTrue
BY DeskInvHolds, DeskInvShows, PTL
-----------------------------------------------------------------------------
(***************************************************************************)
(* Audience: the inductive invariant.                                      *)
(***************************************************************************)
\* What a page decides of a person: a row that follows from the record it was
\* resolved from and from the verdict.
DecidedRows == {RowOf(c, v) : c \in Contacts, v \in Verdicts}
PageRows(page) == [Scan(page) -> DecidedRows]
Requesting == [step : {"retire", "enqueue"}]
AllRows == UNION {PageRows(k) : k \in 1..LastAudiencePage}
Working == {w \in [step : {"write", "next", "note"}, job : Job, rows : AllRows] :
               w.rows \in PageRows(w.job.page)}
HandRecords == {Resting} \union Requesting \union Working
BuildSteps == {"retire", "enqueue", "write", "next"}

AudienceTypes ==
    /\ person \in [Persons -> Contacts] /\ marketing \in BOOLEAN
    /\ campaign \in [status : {"DRAFT", "SNAPSHOTTING", "READY", "FAILED"},
                     recipientCount : Nat, excludedCount : Nat]
    /\ recipients \in [Persons -> RecipientRow \union {NoRow}]
    /\ IsABag(queue) /\ BagToSet(queue) \subseteq Job
    /\ hand \in [Hands -> HandRecords]
    /\ asks \in Nat /\ throws \in Nat /\ edits \in Nat
    /\ mishap \subseteq {"rebuilt", "retried", "late"}

\* A row that was accepted follows the rules, whoever holds it.
Lawful(r) ==
    r.status = "PENDING" =>
        /\ MayBeAsked(r.basis) /\ Fills(r.basis) /\ ResolvedPhone(r.basis) \in Phones
        /\ r.basis.primary \notin Blocked
RowsAreLawful ==
    /\ \A p \in Persons : Lawful(recipients[p])
    /\ \A h \in Hands : At(h, "write") => \A p \in DOMAIN hand[h].rows : Lawful(hand[h].rows[p])

\* A build is at one place: an invocation, or a queued page.  Only a count that
\* is still to be noted is beside it, and none while a build begins.
OnePlace ==
    Settled =>
      /\ \A h, g \in Hands : hand[h].step \in BuildSteps /\ hand[g].step \in BuildSteps => h = g
      /\ \A h \in Hands : hand[h].step \in BuildSteps =>
             BagToSet(queue) = {} /\ campaign.status = "SNAPSHOTTING"
      /\ \A h \in Hands : hand[h].step \in {"retire", "enqueue"} =>
             \A g \in Hands \ {h} : At(g, "rest")
      /\ BagToSet(queue) # {} => campaign.status = "SNAPSHOTTING"
      /\ \A i, j \in BagToSet(queue) : i = j /\ queue[j] = 1

\* The numbers a person was decided beside: those accepted before on the page,
\* and of those accepted on earlier pages the ones that are somebody's primary
\* number on this page.
AcceptedOf(r, people) == {r[q].phone : q \in {q \in people : r[q].reason = "NONE"}}
Before(p) == {q \in Scan(PageOf(p)) : q < p}
EarlierPages(page) == {q \in Persons : PageOf(q) < page}
SeenBy(r, p) ==
    AcceptedOf(r, Before(p))
    \union (AcceptedOf(r, EarlierPages(PageOf(p)))
            \intersect {r[q].basis.primary : q \in Scan(PageOf(p))})

Decided(r, p) ==
    /\ r[p] \in DecidedRows
    /\ r[p] = RowOf(r[p].basis, EvaluateExclusion(r[p].basis, SeenBy(r, p)))
DecidedTo(r, page) == \A p \in Persons : PageOf(p) <= page => Decided(r, p)
UndoneFrom(page) ==
    \A p \in Persons : PageOf(p) >= page => recipients[p].status \in {"none", "SKIPPED"}

Of(r, status, page) == {p \in Persons : PageOf(p) <= page /\ r[p].status = status}
CountsFit(r, page, accepted, excluded) ==
    /\ accepted = Cardinality(Of(r, "PENDING", page))
    /\ excluded = Cardinality(Of(r, "EXCLUDED", page))

\* The pages before a job are decided and written, and counted in it.
JobFits(j) ==
    /\ DecidedTo(recipients, j.page - 1)
    /\ CountsFit(recipients, j.page - 1, j.accepted, j.excluded)

QueueFits(j) == JobFits(j) /\ UndoneFrom(j.page)
WriteFits(h) == /\ QueueFits(hand[h].job)
                /\ DecidedTo(UpsertRecipients(hand[h].rows), hand[h].job.page)
NextFits(h) == /\ JobFits(hand[h].job) /\ UndoneFrom(hand[h].job.page + 1)
               /\ DecidedTo(recipients, hand[h].job.page)
               /\ \A p \in Scan(hand[h].job.page) : hand[h].rows[p] = recipients[p]
ReadyFits == /\ DecidedTo(recipients, LastAudiencePage)
             /\ "late" \in mishap
                \/ CountsFit(recipients, LastAudiencePage,
                             campaign.recipientCount, campaign.excludedCount)

BuildHolds ==
    Settled =>
      /\ \A h \in Hands : At(h, "enqueue") => UndoneFrom(1)
      /\ \A j \in BagToSet(queue) : QueueFits(j)
      /\ \A h \in Hands : At(h, "write") => WriteFits(h)
      /\ \A h \in Hands : At(h, "next") => NextFits(h)
      /\ campaign.status = "READY" => ReadyFits

AudienceInv == AudienceTypes /\ RowsAreLawful /\ OnePlace /\ BuildHolds
-----------------------------------------------------------------------------
(***************************************************************************)
(* Audience: pages and types.                                              *)
(***************************************************************************)
\* The bounds are numbers.
LEMMA AudienceBounds ==
    /\ PersonCount \in Nat \ {0} /\ PageSize \in Nat \ {0}
    /\ MaxBuildAsks \in Nat /\ MaxThrows \in Nat /\ MaxEdits \in Nat
    /\ NoPhone \notin Phones /\ Blocked \subseteq Phones
  BY AudienceAssumption

\* Whole parts do not decrease.
LEMMA WholePartsGrow ==
    ASSUME NEW s \in Nat \ {0}, NEW x \in Nat, NEW y \in Nat, x <= y
    PROVE  /\ x \div s \in Nat /\ x \div s <= y \div s
  <1>1. /\ x \div s \in Nat /\ y \div s \in Nat
        /\ s * (x \div s) <= x /\ y < s * ((y \div s) + 1)
    OBVIOUS
  <1> DEFINE m == x \div s
             n == y \div s
  <1>2. m \in Nat /\ n \in Nat /\ s * m <= x /\ y < s * (n + 1)
    BY <1>1
  <1> HIDE DEF m, n
  <1>3. SUFFICES ASSUME m > n PROVE FALSE
    BY <1>2 DEF m, n
  <1>4. PICK k \in Nat : m = n + 1 + k
    <2>1. m - n - 1 \in Nat /\ m = n + 1 + (m - n - 1)
      BY <1>2, <1>3
    <2> QED BY <2>1
  <1>5. s * m = s * (n + 1) + s * k /\ s * k \in Nat
    BY <1>2, <1>4
  <1>6. s * (n + 1) \in Nat
    BY <1>2
  <1> QED BY <1>2, <1>5, <1>6

\* Pages are numbered from 1, in scan order, up to the last.
LEMMA PagesAreNumbered ==
    /\ Persons \subseteq Nat /\ IsFiniteSet(Persons)
    /\ LastAudiencePage \in Nat \ {0}
    /\ \A p \in Persons : PageOf(p) \in 1..LastAudiencePage
    /\ \A p, q \in Persons : p <= q => PageOf(p) <= PageOf(q)
  <1> USE AudienceBounds
  <1>1. \A p \in Persons : p \in Nat \ {0} /\ p <= PersonCount
    BY DEF Persons
  <1>2. \A p, q \in Persons : p <= q => PageOf(p) \in Nat \ {0} /\ PageOf(p) <= PageOf(q)
    <2> TAKE p, q \in Persons
    <2> HAVE p <= q
    <2>1. p - 1 \in Nat /\ q - 1 \in Nat /\ p - 1 <= q - 1
      BY <1>1
    <2>2. (p - 1) \div PageSize \in Nat /\ (q - 1) \div PageSize \in Nat
      BY <2>1, WholePartsGrow
    <2>3. (p - 1) \div PageSize <= (q - 1) \div PageSize
      BY <2>1, WholePartsGrow
    <2> QED BY <2>2, <2>3 DEF PageOf
  <1>3. PersonCount \in Persons
    BY DEF Persons
  <1>4. IsFiniteSet(Persons)
    BY FS_Interval DEF Persons
  <1> QED BY <1>1, <1>2, <1>3, <1>4 DEF LastAudiencePage

\* A verdict is one of the seven.
LEMMA VerdictsAre ==
    ASSUME NEW c, NEW seen PROVE EvaluateExclusion(c, seen) \in Verdicts
  BY DEF EvaluateExclusion, Verdicts

\* A number has a least one with it, if any.
LEMMA LeastOne ==
    ASSUME NEW S \in SUBSET Nat, S # {}
    PROVE  \E n \in S : \A m \in S : n <= m
  <1> DEFINE less == {ss \in Nat \X Nat : ss[1] < ss[2]}
  <1>1. IsWellFoundedOn(less, Nat)
    BY NatLessThanWellFounded DEF OpToRel
  <1>2. \A m, n \in Nat : <<m, n>> \notin less => n <= m
    OBVIOUS
  <1> HIDE DEF less
  <1>3. \E n \in S : \A m \in S : ~(<<m, n>> \in less)
    BY <1>1, WFMin
  <1> QED BY <1>2, <1>3

\* What a person of a page is decided beside, and to, when the verdicts are v.
BesideOn(page, taken, v, p) ==
    taken \union Remember({q \in Scan(page) : q < p /\ v[q] = "NONE"})
DecidesOn(page, taken, v, p) == EvaluateExclusion(person[p], BesideOn(page, taken, v, p))

\* There are verdicts that follow from one another in scan order.
LEMMA VerdictsFollow ==
    ASSUME NEW page, NEW taken
    PROVE  \E v \in [Scan(page) -> Verdicts] :
             \A p \in Scan(page) : v[p] = DecidesOn(page, taken, v, p)
  <1> DEFINE Follows(v, n) == \A p \in Scan(page) : p <= n => v[p] = DecidesOn(page, taken, v, p)
  <1> DEFINE bad == {n \in Nat : ~ \E v \in [Scan(page) -> Verdicts] : Follows(v, n)}
  <1>1. Scan(page) \subseteq Nat \ {0} /\ \A p \in Scan(page) : p <= PersonCount
    BY AudienceBounds DEF Scan, Persons
  <1>2. ASSUME bad # {} PROVE FALSE
    <2>1. PICK m \in bad : \A n \in bad : m <= n
      BY <1>2, LeastOne
    <2>2. CASE m = 0
      <3> DEFINE v == [p \in Scan(page) |-> "NONE"]
      <3>1. v \in [Scan(page) -> Verdicts]
        BY DEF Verdicts
      <3>2. Follows(v, 0)
        BY <1>1
      <3> QED BY <2>1, <2>2, <3>1, <3>2
    <2>3. CASE m # 0
      <3>1. m \in Nat /\ m - 1 \in Nat /\ m - 1 \notin bad
        BY <2>1, <2>3
      <3>2. PICK v \in [Scan(page) -> Verdicts] : Follows(v, m - 1)
        BY <3>1
      <3> DEFINE w == [p \in Scan(page) |-> IF p = m THEN DecidesOn(page, taken, v, m) ELSE v[p]]
      <3>3. w \in [Scan(page) -> Verdicts]
        BY VerdictsAre DEF DecidesOn
      <3>4. \A p \in Scan(page) : w[p] = IF p = m THEN DecidesOn(page, taken, v, m) ELSE v[p]
        OBVIOUS
      <3> HIDE DEF w
      <3>5. ASSUME NEW p \in Scan(page), p <= m PROVE w[p] = DecidesOn(page, taken, w, p)
        <4>1. {q \in Scan(page) : q < p /\ w[q] = "NONE"}
                = {q \in Scan(page) : q < p /\ v[q] = "NONE"}
          BY <1>1, <3>1, <3>4, <3>5
        <4>2. DecidesOn(page, taken, w, p) = DecidesOn(page, taken, v, p)
          BY <4>1 DEF DecidesOn, BesideOn
        <4>3. CASE p = m
          BY <3>4, <4>2, <4>3
        <4>4. CASE p # m
          <5>1. p <= m - 1
            BY <1>1, <3>1, <3>5, <4>4
          <5> QED BY <3>2, <3>4, <4>2, <4>4, <5>1
        <4> QED BY <4>3, <4>4
      <3>6. Follows(w, m)
        BY <3>5
      <3> QED BY <2>1, <3>3, <3>6
    <2> QED BY <2>2, <2>3
  <1>3. PICK v \in [Scan(page) -> Verdicts] : Follows(v, PersonCount)
    BY <1>2, AudienceBounds
  <1> QED BY <1>1, <1>3

\* A page is decided by verdicts that follow from one another.
LEMMA PageIsDecided ==
    ASSUME NEW page, NEW taken
    PROVE  \E v \in [Scan(page) -> Verdicts] :
             /\ \A p \in Scan(page) : v[p] = DecidesOn(page, taken, v, p)
             /\ DecidePage(page, taken) = [p \in Scan(page) |-> RowOf(person[p], v[p])]
  <1> DEFINE Fits(v) == v = [p \in Scan(page) |-> EvaluateExclusion(person[p],
                taken \union Remember({q \in Scan(page) : q < p /\ v[q] = "NONE"}))]
  <1> DEFINE v == CHOOSE v : Fits(v)
  <1>1. \E u : Fits(u)
    <2>1. PICK u \in [Scan(page) -> Verdicts] :
              \A p \in Scan(page) : u[p] = DecidesOn(page, taken, u, p)
      BY VerdictsFollow
    <2>2. Fits(u)
      BY <2>1 DEF DecidesOn, BesideOn
    <2> QED BY <2>2
  <1>2. Fits(v)
    BY <1>1
  <1>3. DecidePage(page, taken) = [p \in Scan(page) |-> RowOf(person[p], v[p])]
    BY DEF DecidePage
  <1> HIDE DEF v
  <1>4. v \in [Scan(page) -> Verdicts]
    BY <1>2, VerdictsAre
  <1>5. \A p \in Scan(page) : v[p] = DecidesOn(page, taken, v, p)
    BY <1>2 DEF DecidesOn, BesideOn
  <1> QED BY <1>3, <1>4, <1>5

\* A job is put into the queue, or taken from it.
LEMMA QueueGains ==
    ASSUME IsABag(queue), NEW j
    PROVE  /\ IsABag(queue (+) SetToBag({j}))
           /\ BagToSet(queue (+) SetToBag({j})) = BagToSet(queue) \union {j}
           /\ j \notin BagToSet(queue) => (queue (+) SetToBag({j}))[j] = 1
  <1> DEFINE Q == queue (+) SetToBag({j})
  <1>1. DOMAIN Q = DOMAIN queue \union {j}
    BY DEF SetToBag, (+)
  <1>2. \A e \in DOMAIN Q : Q[e] = (IF e \in DOMAIN queue THEN queue[e] ELSE 0)
                                   + (IF e = j THEN 1 ELSE 0)
    BY DEF SetToBag, (+)
  <1>3. \A e \in DOMAIN queue : queue[e] \in Nat /\ queue[e] > 0
    BY DEF IsABag
  <1>4. Q = [e \in DOMAIN Q |-> Q[e]]
    BY DEF (+)
  <1> HIDE DEF Q
  <1>5. \A e \in DOMAIN Q : Q[e] \in Nat /\ Q[e] > 0
    BY <1>1, <1>2, <1>3
  <1>6. IsABag(Q)
    BY <1>4, <1>5 DEF IsABag
  <1>7. j \notin DOMAIN queue => Q[j] = 1
    BY <1>1, <1>2
  <1> QED BY <1>1, <1>6, <1>7 DEF Q, BagToSet

LEMMA QueueLoses ==
    ASSUME IsABag(queue), NEW j \in BagToSet(queue)
    PROVE  /\ IsABag(queue (-) SetToBag({j}))
           /\ BagToSet(queue (-) SetToBag({j})) \subseteq BagToSet(queue)
           /\ queue[j] = 1 => j \notin BagToSet(queue (-) SetToBag({j}))
  <1> DEFINE B == [e \in DOMAIN queue |-> IF e \in {j} THEN queue[e] - SetToBag({j})[e]
                                         ELSE queue[e]]
             Q == queue (-) SetToBag({j})
  <1>1. Q = [e \in {d \in DOMAIN B : B[d] > 0} |-> B[e]]
    BY DEF SetToBag, (-)
  <1>2. \A e \in DOMAIN queue : queue[e] \in Nat /\ queue[e] > 0
    BY DEF IsABag
  <1>3. DOMAIN B = DOMAIN queue
    OBVIOUS
  <1>4. \A e \in DOMAIN queue : B[e] = IF e = j THEN queue[e] - 1 ELSE queue[e]
    BY DEF SetToBag
  <1> HIDE DEF B, Q
  <1>5. \A e \in DOMAIN Q : e \in DOMAIN queue /\ Q[e] = B[e] /\ B[e] > 0
    BY <1>1, <1>3
  <1>6. \A e \in DOMAIN Q : Q[e] \in Nat /\ Q[e] > 0
    BY <1>2, <1>4, <1>5
  <1>7. Q = [e \in DOMAIN Q |-> Q[e]]
    BY <1>1
  <1>8. IsABag(Q)
    BY <1>6, <1>7 DEF IsABag
  <1>9. queue[j] = 1 => j \notin DOMAIN Q
    BY <1>4, <1>5 DEF BagToSet
  <1> QED BY <1>5, <1>8, <1>9 DEF Q, BagToSet

\* What an invocation holds at its step.
LEMMA HandHolds ==
    ASSUME AudienceTypes, NEW h \in Hands
    PROVE  /\ hand[h] \in HandRecords
           /\ hand[h].step \in {"rest"} \union BuildSteps \union {"note"}
           /\ hand[h].step \in {"write", "next", "note"} =>
                /\ hand[h] \in Working /\ hand[h].job \in Job
                /\ hand[h].job.page \in 1..LastAudiencePage
                /\ hand[h].rows \in PageRows(hand[h].job.page)
                /\ \A s \in {"write", "next", "note"} : [hand[h] EXCEPT !.step = s] \in Working
           /\ hand[h].step \in {"retire", "enqueue"} =>
                \A s \in {"retire", "enqueue"} : [hand[h] EXCEPT !.step = s] \in Requesting
           /\ At(h, "rest") => hand[h] = Resting
  <1>1. hand[h] \in HandRecords
    BY DEF AudienceTypes
  <1>2. CASE hand[h] = Resting
    BY <1>1, <1>2 DEF Resting, BuildSteps, At
  <1>3. CASE hand[h] \in Requesting
    BY <1>1, <1>3 DEF Requesting, BuildSteps, At
  <1>4. CASE hand[h] \in Working
    <2>1. /\ hand[h] \in [step : {"write", "next", "note"}, job : Job, rows : AllRows]
          /\ hand[h].rows \in PageRows(hand[h].job.page)
      BY <1>4 DEF Working
    <2>2. hand[h].job.page \in 1..LastAudiencePage
      BY <2>1 DEF Job
    <2>3. ASSUME NEW s \in {"write", "next", "note"}
          PROVE  [hand[h] EXCEPT !.step = s] \in Working
      BY <2>1 DEF Working
    <2> QED BY <1>1, <1>4, <2>1, <2>2, <2>3 DEF BuildSteps, At
  <1> QED BY <1>1, <1>2, <1>3, <1>4 DEF HandRecords

\* One invocation moves.
LEMMA HandMoves ==
    ASSUME AudienceTypes, NEW h \in Hands, NEW r \in HandRecords,
           hand' = [hand EXCEPT ![h] = r]
    PROVE  /\ hand' \in [Hands -> HandRecords]
           /\ hand'[h] = r /\ \A g \in Hands \ {h} : hand'[g] = hand[g]
  BY DEF AudienceTypes

\* A decided row is a row.
LEMMA DecidedRowsAreRows ==
    /\ DecidedRows \subseteq RecipientRow
    /\ \A r \in DecidedRows : /\ r.basis \in Contacts /\ r.reason \in Verdicts
                              /\ r = RowOf(r.basis, r.reason)
                              /\ r.status \in {"PENDING", "EXCLUDED"}
                              /\ r.status = "PENDING" <=> r.reason = "NONE"
                              /\ r.phone = ResolvedPhone(r.basis)
                              /\ r.phone \in Phones \union {NoPhone}
  <1> SUFFICES ASSUME NEW c \in Contacts, NEW v \in Verdicts
               PROVE  LET r == RowOf(c, v) IN
                      /\ r \in RecipientRow /\ r.basis = c /\ r.reason = v
                      /\ r.status \in {"PENDING", "EXCLUDED"}
                      /\ r.status = "PENDING" <=> r.reason = "NONE"
                      /\ r.phone = ResolvedPhone(c)
                      /\ r.phone \in Phones \union {NoPhone}
    BY DEF DecidedRows
  <1>1. ResolvedPhone(c) \in Phones \union {NoPhone}
    BY AudienceAssumption DEF ResolvedPhone
  <1> QED BY <1>1 DEF RowOf, RecipientRow, Verdicts

\* The rows of a page are decided rows of the people on it.
LEMMA PagesAreOfRows ==
    ASSUME AudienceTypes, NEW page, NEW taken
    PROVE  DecidePage(page, taken) \in PageRows(page)
  <1>1. PICK v \in [Scan(page) -> Verdicts] :
           DecidePage(page, taken) = [p \in Scan(page) |-> RowOf(person[p], v[p])]
    BY PageIsDecided
  <1>2. \A p \in Scan(page) : person[p] \in Contacts
    BY DEF AudienceTypes, Scan
  <1> QED BY <1>1, <1>2 DEF PageRows, DecidedRows

\* What is counted is a number.
LEMMA CountsAreNumbers ==
    ASSUME AudienceTypes, NEW h \in Hands, hand[h].step \in {"next", "note"}
    PROVE  Counts(h).accepted \in Nat /\ Counts(h).excluded \in Nat
  <1>1. hand[h].job \in Job /\ hand[h].rows \in PageRows(hand[h].job.page)
    BY HandHolds
  <1>2. DOMAIN hand[h].rows \subseteq Persons
    BY <1>1 DEF PageRows, Scan
  <1>3. /\ IsFiniteSet(Accepted(hand[h].rows)) /\ IsFiniteSet(Excluded(hand[h].rows))
    BY <1>2, PagesAreNumbered, FS_Subset DEF Accepted, Excluded
  <1>4. /\ Cardinality(Accepted(hand[h].rows)) \in Nat
        /\ Cardinality(Excluded(hand[h].rows)) \in Nat
    BY <1>3, FS_CardinalityType
  <1>5. hand[h].job.accepted \in Nat /\ hand[h].job.excluded \in Nat
    BY <1>1 DEF Job
  <1> QED BY <1>4, <1>5 DEF Counts

\* The initial states are of the types.
LEMMA AudienceBegins == AudienceInit => AudienceInv
  <1> SUFFICES ASSUME AudienceInit PROVE AudienceInv
    OBVIOUS
  <1> USE DEF AudienceInit
  <1>1. BagToSet(queue) = {} /\ IsABag(queue)
    BY DEF EmptyBag, SetToBag, BagToSet, IsABag
  <1>2. \A h \in Hands : hand[h] = Resting
    OBVIOUS
  <1>3. AudienceTypes
    BY <1>1 DEF AudienceTypes, HandRecords
  <1>4. RowsAreLawful
    BY <1>2 DEF RowsAreLawful, Lawful, NoRow, Resting, At
  <1>5. OnePlace
    BY <1>1, <1>2 DEF OnePlace, Resting, At, BuildSteps
  <1>6. BuildHolds
    BY <1>1, <1>2 DEF BuildHolds, Resting, At
  <1> QED BY <1>3, <1>4, <1>5, <1>6 DEF AudienceInv

\* A queue that gains a job, or none, is still one.
LEMMA QueueStays ==
    ASSUME AudienceTypes, NEW j \in Job, queue' = queue \/ queue' = queue (+) SetToBag({j})
    PROVE  IsABag(queue') /\ BagToSet(queue') \subseteq Job
  <1>1. /\ IsABag(queue (+) SetToBag({j}))
        /\ BagToSet(queue (+) SetToBag({j})) = BagToSet(queue) \union {j}
    BY QueueGains DEF AudienceTypes
  <1>2. CASE queue' = queue
    BY <1>2 DEF AudienceTypes
  <1>3. CASE queue' = queue (+) SetToBag({j})
    <2>1. IsABag(queue')
      BY <1>1, <1>3
    <2>2. BagToSet(queue') = BagToSet(queue) \union {j}
      BY <1>1, <1>3
    <2> QED BY <2>1, <2>2 DEF AudienceTypes
  <1> QED BY <1>2, <1>3

\* Every step keeps the types.
LEMMA AudienceTypesAreKept ==
    ASSUME AudienceTypes, [AudienceNext]_audienceVars PROVE AudienceTypes'
  <1> USE DEF AudienceTypes
  <1>1. ASSUME NEW h \in Hands, AskBuild(h) PROVE AudienceTypes'
    <2>1. [step |-> "retire"] \in HandRecords
      BY DEF HandRecords, Requesting
    <2>2. hand' \in [Hands -> HandRecords]
      BY <1>1, <2>1, HandMoves DEF AskBuild
    <2>3. asks' \in Nat
      BY <1>1 DEF AskBuild
    <2>4. mishap' \subseteq {"rebuilt", "retried", "late"}
      BY <1>1 DEF AskBuild
    <2>5. UNCHANGED <<person, marketing, edits, recipients, queue, throws>>
      BY <1>1 DEF AskBuild, peopleVars
    <2>6. campaign' \in [status : {"DRAFT", "SNAPSHOTTING", "READY", "FAILED"},
                         recipientCount : Nat, excludedCount : Nat]
      BY <1>1 DEF AskBuild
    <2> QED BY <2>2, <2>3, <2>4, <2>5, <2>6
  <1>2. ASSUME NEW h \in Hands, RetireRows(h) PROVE AudienceTypes'
    <2>1. [hand[h] EXCEPT !.step = "enqueue"] \in HandRecords
      BY <1>2, HandHolds DEF RetireRows, At, HandRecords
    <2>2. hand' \in [Hands -> HandRecords]
      BY <1>2, <2>1 DEF RetireRows, Step
    <2>3. \A p \in Persons : recipients[p].status \in {"PENDING", "EXCLUDED"} =>
             [recipients[p] EXCEPT !.status = "SKIPPED"] \in RecipientRow
      BY DEF RecipientRow, NoRow
    <2>4. recipients' \in [Persons -> RecipientRow \union {NoRow}]
      BY <1>2, <2>3 DEF RetireRows
    <2>5. UNCHANGED <<person, marketing, edits, campaign, queue, asks, throws, mishap>>
      BY <1>2 DEF RetireRows, peopleVars
    <2> QED BY <2>2, <2>4, <2>5
  <1>3. ASSUME NEW h \in Hands, EnqueueFirst(h) PROVE AudienceTypes'
    <2>1. [page |-> 1, accepted |-> 0, excluded |-> 0] \in Job
      BY PagesAreNumbered DEF Job
    <2>2. IsABag(queue') /\ BagToSet(queue') \subseteq Job
      <3>1. \/ queue' = queue
            \/ queue' = queue (+) SetToBag({[page |-> 1, accepted |-> 0, excluded |-> 0]})
        BY <1>3 DEF EnqueueFirst
      <3> QED BY <2>1, <3>1, QueueStays
    <2>3. hand' \in [Hands -> HandRecords]
      BY <1>3 DEF EnqueueFirst, Rest, HandRecords
    <2>4. campaign' \in [status : {"DRAFT", "SNAPSHOTTING", "READY", "FAILED"},
                         recipientCount : Nat, excludedCount : Nat]
      BY <1>3 DEF EnqueueFirst
    <2>5. UNCHANGED <<person, marketing, edits, recipients, asks, throws, mishap>>
      BY <1>3 DEF EnqueueFirst, peopleVars
    <2> QED BY <2>2, <2>3, <2>4, <2>5
  <1>4. ASSUME NEW h \in Hands, NEW j \in BagToSet(queue), DecideJob(h, j) PROVE AudienceTypes'
    <2>1. IsABag(queue') /\ BagToSet(queue') \subseteq Job
      BY <1>4, QueueLoses DEF DecideJob
    <2>2. j \in Job /\ j.page \in 1..LastAudiencePage
      BY DEF Job
    <2> DEFINE rows == DecidePage(j.page, FindExistingPhones(j.page))
    <2>3. rows \in PageRows(j.page)
      BY PagesAreOfRows
    <2> HIDE DEF rows
    <2>4. [step |-> "write", job |-> j, rows |-> rows] \in HandRecords
      BY <2>2, <2>3 DEF HandRecords, Working, AllRows
    <2>5. hand' \in [Hands -> HandRecords]
      BY <1>4, <2>4 DEF DecideJob, rows
    <2>6. UNCHANGED <<person, marketing, edits, campaign, recipients, asks, throws, mishap>>
      BY <1>4 DEF DecideJob, peopleVars
    <2> QED BY <2>1, <2>5, <2>6
  <1>5. ASSUME NEW h \in Hands, WriteRows(h) PROVE AudienceTypes'
    <2>1. hand[h].step = "write" /\ hand[h].rows \in PageRows(hand[h].job.page)
      BY <1>5, HandHolds DEF WriteRows, At
    <2>2. [hand[h] EXCEPT !.step = "next"] \in HandRecords
      BY <2>1, HandHolds DEF HandRecords
    <2>3. hand' \in [Hands -> HandRecords]
      BY <1>5, <2>2 DEF WriteRows, Step
    <2>4. recipients' \in [Persons -> RecipientRow \union {NoRow}]
      BY <1>5, <2>1, DecidedRowsAreRows DEF WriteRows, UpsertRecipients, PageRows
    <2>5. UNCHANGED <<person, marketing, edits, campaign, queue, asks, throws, mishap>>
      BY <1>5 DEF WriteRows, peopleVars
    <2> QED BY <2>3, <2>4, <2>5
  <1>6. ASSUME NEW h \in Hands, QueueNextPage(h) PROVE AudienceTypes'
    <2>1. hand[h].step = "next" /\ hand[h].job.page \in 1..LastAudiencePage
      BY <1>6, HandHolds DEF QueueNextPage, At
    <2>2. [hand[h] EXCEPT !.step = "note"] \in HandRecords
      BY <2>1, HandHolds DEF HandRecords
    <2>3. hand' \in [Hands -> HandRecords]
      BY <1>6, <2>2 DEF QueueNextPage, Step, Rest, HandRecords
    <2>4. hand[h].job.page + 1 \in 1..LastAudiencePage
      BY <1>6, <2>1, PagesAreNumbered DEF QueueNextPage
    <2>5. Counts(h).accepted \in Nat /\ Counts(h).excluded \in Nat
      BY <2>1, CountsAreNumbers
    <2>6. [page |-> hand[h].job.page + 1, accepted |-> Counts(h).accepted,
           excluded |-> Counts(h).excluded] \in Job
      BY <2>4, <2>5 DEF Job
    <2>7. IsABag(queue') /\ BagToSet(queue') \subseteq Job
      <3>1. \/ queue' = queue
            \/ queue' = queue (+) SetToBag({[page |-> hand[h].job.page + 1,
                                           accepted |-> Counts(h).accepted,
                                           excluded |-> Counts(h).excluded]})
        BY <1>6 DEF QueueNextPage
      <3> QED BY <2>6, <3>1, QueueStays
    <2>8. campaign' \in [status : {"DRAFT", "SNAPSHOTTING", "READY", "FAILED"},
                         recipientCount : Nat, excludedCount : Nat]
      BY <1>6 DEF QueueNextPage
    <2>9. UNCHANGED <<person, marketing, edits, recipients, asks, throws, mishap>>
      BY <1>6 DEF QueueNextPage, peopleVars
    <2> QED BY <2>3, <2>7, <2>8, <2>9
  <1>7. ASSUME NEW h \in Hands, NoteCounts(h) PROVE AudienceTypes'
    <2>1. Counts(h).accepted \in Nat /\ Counts(h).excluded \in Nat
      BY <1>7, CountsAreNumbers DEF NoteCounts, At
    <2>2. campaign' \in [status : {"DRAFT", "SNAPSHOTTING", "READY", "FAILED"},
                         recipientCount : Nat, excludedCount : Nat]
      BY <1>7, <2>1 DEF NoteCounts, CountsWritten
    <2>3. hand' \in [Hands -> HandRecords]
      BY <1>7 DEF NoteCounts, Rest, HandRecords
    <2>4. mishap' \subseteq {"rebuilt", "retried", "late"}
      BY <1>7 DEF NoteCounts
    <2>5. UNCHANGED <<person, marketing, edits, recipients, queue, asks, throws>>
      BY <1>7 DEF NoteCounts, peopleVars
    <2> QED BY <2>2, <2>3, <2>4, <2>5
  <1>8. ASSUME NEW h \in Hands, FinishPages(h) PROVE AudienceTypes'
    <2>1. Counts(h).accepted \in Nat /\ Counts(h).excluded \in Nat
      BY <1>8, CountsAreNumbers DEF FinishPages, At
    <2>2. campaign' \in [status : {"DRAFT", "SNAPSHOTTING", "READY", "FAILED"},
                         recipientCount : Nat, excludedCount : Nat]
      BY <1>8, <2>1 DEF FinishPages, CountsWritten
    <2>3. hand' \in [Hands -> HandRecords]
      BY <1>8 DEF FinishPages, Rest, HandRecords
    <2>4. UNCHANGED <<person, marketing, edits, recipients, queue, asks, throws, mishap>>
      BY <1>8 DEF FinishPages, peopleVars
    <2> QED BY <2>2, <2>3, <2>4
  <1>9. ASSUME NEW h \in Hands, Throw(h) PROVE AudienceTypes'
    <2>1. hand' \in [Hands -> HandRecords]
      BY <1>9 DEF Throw, Rest, HandRecords
    <2>2. hand[h].step \in {"write", "next", "note"} => hand[h].job \in Job
      BY HandHolds
    <2>3. IsABag(queue') /\ BagToSet(queue') \subseteq Job
      <3>1. \/ queue' = queue
            \/ /\ hand[h].step \in {"write", "next", "note"}
               /\ queue' = queue (+) SetToBag({hand[h].job})
        BY <1>9 DEF Throw
      <3> QED BY <2>2, <3>1, QueueStays
    <2>4. mishap' \subseteq {"rebuilt", "retried", "late"} /\ throws' \in Nat
      <3>1. mishap' \subseteq mishap \union {"retried"} /\ throws' = throws + 1
        BY <1>9 DEF Throw
      <3> QED BY <3>1
    <2>5. UNCHANGED <<person, marketing, edits, campaign, recipients, asks>>
      BY <1>9 DEF Throw, peopleVars
    <2> QED BY <2>1, <2>3, <2>4, <2>5
  <1>10. ASSUME NEW p \in Persons, NEW c \in Contacts, EditPerson(p, c) PROVE AudienceTypes'
    BY <1>10 DEF EditPerson
  <1>11. CASE UNCHANGED audienceVars
    BY <1>11 DEF audienceVars
  <1> QED BY <1>1, <1>2, <1>3, <1>4, <1>5, <1>6, <1>7, <1>8, <1>9, <1>10, <1>11 DEF AudienceNext

\* A row that is accepted follows the rules.
LEMMA AcceptedIsLawful ==
    ASSUME NEW c \in Contacts, NEW seen
    PROVE  Lawful(RowOf(c, EvaluateExclusion(c, seen)))
  <1>1. ResolvedPhone(c) \in Phones \union {NoPhone}
    BY AudienceAssumption DEF ResolvedPhone
  <1> QED BY <1>1 DEF Lawful, RowOf, EvaluateExclusion

\* Every step keeps the rows lawful.
LEMMA RowsStayLawful ==
    ASSUME AudienceTypes, RowsAreLawful, [AudienceNext]_audienceVars PROVE RowsAreLawful'
  <1>1. marketing' = marketing
    BY DEF AudienceNext, audienceVars, peopleVars, AskBuild, RetireRows, EnqueueFirst, DecideJob,
           WriteRows, QueueNextPage, NoteCounts, FinishPages, Throw, EditPerson
  <1>2. \A r : Lawful(r) => Lawful(r)'
    BY <1>1 DEF Lawful, MayBeAsked
  <1> DEFINE Same == /\ recipients' = recipients
                     /\ \A h \in Hands : hand'[h].step = "write" => hand'[h] = hand[h]
  <1>3. ASSUME Same PROVE RowsAreLawful'
    BY <1>2, <1>3 DEF RowsAreLawful, At
  <1>4. ASSUME NEW h \in Hands, AskBuild(h) PROVE Same
    BY <1>4 DEF AskBuild, AudienceTypes
  <1>5. ASSUME NEW h \in Hands, RetireRows(h) PROVE RowsAreLawful'
    <2>1. \A g \in Hands : hand'[g].step = "write" => hand'[g] = hand[g]
      BY <1>5 DEF RetireRows, Step, AudienceTypes
    <2>2. \A p \in Persons : Lawful(recipients[p]) => Lawful(recipients'[p])
      BY <1>5 DEF RetireRows, Lawful, AudienceTypes
    <2> QED BY <1>2, <2>1, <2>2 DEF RowsAreLawful, At
  <1>6. ASSUME NEW h \in Hands, EnqueueFirst(h) PROVE Same
    BY <1>6 DEF EnqueueFirst, Rest, Resting, AudienceTypes
  <1>7. ASSUME NEW h \in Hands, NEW j \in BagToSet(queue), DecideJob(h, j) PROVE RowsAreLawful'
    <2> DEFINE taken == FindExistingPhones(j.page)
               rows == DecidePage(j.page, taken)
    <2>1. PICK v \in [Scan(j.page) -> Verdicts] :
            /\ \A p \in Scan(j.page) : v[p] = DecidesOn(j.page, taken, v, p)
            /\ rows = [p \in Scan(j.page) |-> RowOf(person[p], v[p])]
      BY PageIsDecided
    <2>2. \A p \in DOMAIN rows : Lawful(rows[p])
      BY <2>1, AcceptedIsLawful DEF DecidesOn, Scan, AudienceTypes
    <2> HIDE DEF rows
    <2>3. \A g \in Hands : hand'[g].step = "write" => hand'[g] = hand[g] \/ hand'[g].rows = rows
      BY <1>7 DEF DecideJob, AudienceTypes, rows
    <2>4. recipients' = recipients
      BY <1>7 DEF DecideJob
    <2> QED BY <1>2, <2>2, <2>3, <2>4 DEF RowsAreLawful, At
  <1>8. ASSUME NEW h \in Hands, WriteRows(h) PROVE RowsAreLawful'
    <2>1. \A g \in Hands : hand'[g].step = "write" => hand'[g] = hand[g]
      BY <1>8 DEF WriteRows, Step, AudienceTypes
    <2>2. \A p \in Persons : \/ recipients'[p] = recipients[p]
                             \/ p \in DOMAIN hand[h].rows /\ recipients'[p] = hand[h].rows[p]
      BY <1>8 DEF WriteRows, UpsertRecipients
    <2>3. At(h, "write")
      BY <1>8 DEF WriteRows
    <2> QED BY <1>2, <2>1, <2>2, <2>3 DEF RowsAreLawful, At
  <1>9. ASSUME NEW h \in Hands, QueueNextPage(h) PROVE Same
    <2>1. Step(h, "note") \/ Rest(h)
      BY <1>9 DEF QueueNextPage
    <2>2. \A g \in Hands : hand'[g].step = "write" => hand'[g] = hand[g]
      <3>1. CASE Rest(h)
        BY <3>1 DEF Rest, Resting, AudienceTypes
      <3>2. CASE Step(h, "note")
        BY <3>2 DEF Step, AudienceTypes
      <3> QED BY <2>1, <3>1, <3>2
    <2> QED BY <1>9, <2>2 DEF QueueNextPage
  <1>10. ASSUME NEW h \in Hands, NoteCounts(h) PROVE Same
    BY <1>10 DEF NoteCounts, Rest, Resting, AudienceTypes
  <1>11. ASSUME NEW h \in Hands, FinishPages(h) PROVE Same
    BY <1>11 DEF FinishPages, Rest, Resting, AudienceTypes
  <1>12. ASSUME NEW h \in Hands, Throw(h) PROVE Same
    BY <1>12 DEF Throw, Rest, Resting, AudienceTypes
  <1>13. ASSUME NEW p \in Persons, NEW c \in Contacts, EditPerson(p, c) PROVE Same
    BY <1>13 DEF EditPerson
  <1>14. CASE UNCHANGED audienceVars
    BY <1>3, <1>14 DEF audienceVars
  <1> QED BY <1>3, <1>4, <1>5, <1>6, <1>7, <1>8, <1>9, <1>10, <1>11, <1>12, <1>13, <1>14
          DEF AudienceNext
-----------------------------------------------------------------------------
(***************************************************************************)
(* Audience: a build is at one place.                                      *)
(***************************************************************************)
\* An invocation takes a step of its work, or rests.
LEMMA HandSteps ==
    ASSUME AudienceTypes, NEW h \in Hands, NEW s
    PROVE  /\ Step(h, s) /\ hand[h].step # "rest" =>
                /\ hand'[h] = [hand[h] EXCEPT !.step = s] /\ hand'[h].step = s
                /\ hand[h].step \in {"write", "next", "note"} =>
                      hand'[h].job = hand[h].job /\ hand'[h].rows = hand[h].rows
                /\ \A g \in Hands \ {h} : hand'[g] = hand[g]
           /\ Rest(h) => /\ hand'[h].step = "rest"
                         /\ \A g \in Hands \ {h} : hand'[g] = hand[g]
  <1>1. ASSUME Rest(h)
        PROVE  hand'[h].step = "rest" /\ \A g \in Hands \ {h} : hand'[g] = hand[g]
    BY <1>1 DEF Rest, Resting, AudienceTypes
  <1>2. ASSUME Step(h, s), hand[h].step # "rest"
        PROVE  /\ hand'[h] = [hand[h] EXCEPT !.step = s] /\ hand'[h].step = s
               /\ hand[h].step \in {"write", "next", "note"} =>
                     hand'[h].job = hand[h].job /\ hand'[h].rows = hand[h].rows
               /\ \A g \in Hands \ {h} : hand'[g] = hand[g]
    <2>1. /\ hand'[h] = [hand[h] EXCEPT !.step = s]
          /\ \A g \in Hands \ {h} : hand'[g] = hand[g]
      BY <1>2 DEF Step, AudienceTypes
    <2>2. hand[h] \in Requesting \/ hand[h] \in Working
      BY <1>2 DEF AudienceTypes, HandRecords, Resting
    <2>3. CASE hand[h] \in Requesting
      BY <2>1, <2>3 DEF Requesting
    <2>4. CASE hand[h] \in Working
      BY <2>1, <2>4 DEF Working
    <2> QED BY <2>1, <2>2, <2>3, <2>4
  <1> QED BY <1>1, <1>2

\* What happened stays in the history.
LEMMA MishapsStay ==
    ASSUME [AudienceNext]_audienceVars PROVE mishap \subseteq mishap' /\ (Settled' => Settled)
  <1>1. mishap \subseteq mishap'
    BY DEF AudienceNext, audienceVars, AskBuild, RetireRows, EnqueueFirst, DecideJob,
           WriteRows, QueueNextPage, NoteCounts, FinishPages, Throw, EditPerson
  <1> QED BY <1>1 DEF Settled

\* Nobody is at a build.
Free == \A h \in Hands : hand[h].step \notin BuildSteps

\* A job is queued where there is none.
LEMMA FirstInQueue ==
    ASSUME AudienceTypes, BagToSet(queue) = {}, NEW j, queue' = queue (+) SetToBag({j})
    PROVE  BagToSet(queue') = {j} /\ queue'[j] = 1
  <1>1. IsABag(queue)
    BY DEF AudienceTypes
  <1>2. /\ BagToSet(queue (+) SetToBag({j})) = BagToSet(queue) \union {j}
        /\ (queue (+) SetToBag({j}))[j] = 1
    BY <1>1, QueueGains
  <1> QED BY <1>2

\* The one job that is queued is taken.
LEMMA LastInQueue ==
    ASSUME AudienceTypes, OnePlace, Settled, NEW j \in BagToSet(queue),
           queue' = queue (-) SetToBag({j})
    PROVE  BagToSet(queue') = {} /\ BagToSet(queue) = {j}
  <1>1. IsABag(queue) /\ queue[j] = 1 /\ \A i \in BagToSet(queue) : i = j
    BY DEF AudienceTypes, OnePlace
  <1>2. /\ BagToSet(queue (-) SetToBag({j})) \subseteq BagToSet(queue)
        /\ j \notin BagToSet(queue (-) SetToBag({j}))
    BY <1>1, QueueLoses
  <1> QED BY <1>1, <1>2

\* Where a build is, when it is at one place.
LEMMA WhereItIs ==
    ASSUME OnePlace, Settled
    PROVE  /\ BagToSet(queue) # {} => Free /\ campaign.status = "SNAPSHOTTING"
           /\ \A h \in Hands : hand[h].step \in BuildSteps =>
                 /\ BagToSet(queue) = {} /\ campaign.status = "SNAPSHOTTING"
                 /\ \A g \in Hands \ {h} : hand[g].step \notin BuildSteps
           /\ \A h \in Hands : hand[h].step \in {"retire", "enqueue"} =>
                 \A g \in Hands \ {h} : hand[g].step = "rest"
  BY DEF OnePlace, Free, At

\* Nobody is at a build that is in the queue, and nobody is at one that ended.
LEMMA PlaceOfQueue ==
    ASSUME Free', \A i, j \in BagToSet(queue') : i = j /\ queue'[j] = 1,
           BagToSet(queue') # {} => campaign'.status = "SNAPSHOTTING"
    PROVE  OnePlace'
  BY DEF Free, OnePlace, BuildSteps, At

\* One invocation is at a build, and the queue is empty.
LEMMA PlaceOfHand ==
    ASSUME NEW h \in Hands, hand'[h].step \in BuildSteps, BagToSet(queue') = {},
           campaign'.status = "SNAPSHOTTING",
           \A g \in Hands \ {h} : /\ hand'[g].step \notin BuildSteps
                                  /\ hand'[h].step \in {"retire", "enqueue"} =>
                                        hand'[g].step = "rest"
    PROVE  OnePlace'
  BY DEF OnePlace, BuildSteps, At

\* Every step keeps the build at one place.
LEMMA BuildStaysAtOnePlace ==
    ASSUME AudienceTypes, OnePlace, [AudienceNext]_audienceVars PROVE OnePlace'
  <1> SUFFICES ASSUME Settled' PROVE OnePlace'
    BY DEF OnePlace
  <1>0. Settled
    BY MishapsStay
  <1>1. ASSUME NEW h \in Hands, AskBuild(h) PROVE OnePlace'
    <2>1. "rebuilt" \notin mishap'
      BY DEF Settled
    <2>2. BagToSet(queue) = {} /\ \A g \in Hands : hand[g].step = "rest"
      BY <1>1, <2>1 DEF AskBuild, At
    <2>3. hand'[h].step = "retire" /\ \A g \in Hands \ {h} : hand'[g] = hand[g]
      BY <1>1 DEF AskBuild, AudienceTypes
    <2>4. queue' = queue /\ campaign'.status = "SNAPSHOTTING"
      BY <1>1 DEF AskBuild
    <2> QED BY <2>2, <2>3, <2>4, PlaceOfHand DEF BuildSteps
  <1>2. ASSUME NEW h \in Hands, RetireRows(h) PROVE OnePlace'
    <2>1. hand[h].step = "retire" /\ queue' = queue /\ campaign' = campaign /\ Step(h, "enqueue")
      BY <1>2 DEF RetireRows, At
    <2>2. hand'[h].step = "enqueue" /\ \A g \in Hands \ {h} : hand'[g] = hand[g]
      BY <2>1, HandSteps
    <2>3. /\ BagToSet(queue) = {} /\ campaign.status = "SNAPSHOTTING"
          /\ \A g \in Hands \ {h} : hand[g].step = "rest"
      BY <1>0, <2>1, WhereItIs DEF BuildSteps
    <2> QED BY <2>1, <2>2, <2>3, PlaceOfHand DEF BuildSteps
  <1>3. ASSUME NEW h \in Hands, EnqueueFirst(h) PROVE OnePlace'
    <2>1. hand[h].step = "enqueue" /\ Rest(h)
      BY <1>3 DEF EnqueueFirst, At
    <2>2. hand'[h].step = "rest" /\ \A g \in Hands \ {h} : hand'[g] = hand[g]
      BY <2>1, HandSteps
    <2>3. /\ BagToSet(queue) = {} /\ campaign.status = "SNAPSHOTTING"
          /\ \A g \in Hands \ {h} : hand[g].step = "rest"
      BY <1>0, <2>1, WhereItIs DEF BuildSteps
    <2>4. Free'
      BY <2>2, <2>3 DEF Free, BuildSteps
    <2>5. CASE queue' = queue
      BY <2>3, <2>4, <2>5, PlaceOfQueue
    <2>6. CASE /\ queue' = queue (+) SetToBag({[page |-> 1, accepted |-> 0, excluded |-> 0]})
               /\ campaign' = campaign
      <3>1. PICK j : queue' = queue (+) SetToBag({j})
        BY <2>6
      <3>2. BagToSet(queue') = {j} /\ queue'[j] = 1
        BY <2>3, <3>1, FirstInQueue
      <3> QED BY <2>3, <2>4, <2>6, <3>2, PlaceOfQueue
    <2> QED BY <1>3, <2>5, <2>6 DEF EnqueueFirst
  <1>4. ASSUME NEW h \in Hands, NEW j \in BagToSet(queue), DecideJob(h, j) PROVE OnePlace'
    <2>1. BagToSet(queue') = {}
      BY <1>0, <1>4, LastInQueue DEF DecideJob
    <2>2. Free /\ campaign.status = "SNAPSHOTTING"
      BY <1>0, WhereItIs
    <2>3. hand'[h].step = "write" /\ \A g \in Hands \ {h} : hand'[g] = hand[g]
      BY <1>4, <2>2 DEF DecideJob, AudienceTypes
    <2>4. campaign' = campaign
      BY <1>4 DEF DecideJob
    <2> QED BY <2>1, <2>2, <2>3, <2>4, PlaceOfHand DEF Free, BuildSteps
  <1>5. ASSUME NEW h \in Hands, WriteRows(h) PROVE OnePlace'
    <2>1. hand[h].step = "write" /\ queue' = queue /\ campaign' = campaign /\ Step(h, "next")
      BY <1>5 DEF WriteRows, At
    <2>2. hand'[h].step = "next" /\ \A g \in Hands \ {h} : hand'[g] = hand[g]
      BY <2>1, HandSteps
    <2>3. /\ BagToSet(queue) = {} /\ campaign.status = "SNAPSHOTTING"
          /\ \A g \in Hands \ {h} : hand[g].step \notin BuildSteps
      BY <1>0, <2>1, WhereItIs DEF BuildSteps
    <2> QED BY <2>1, <2>2, <2>3, PlaceOfHand DEF BuildSteps
  <1>6. ASSUME NEW h \in Hands, QueueNextPage(h) PROVE OnePlace'
    <2>1. hand[h].step = "next" /\ (Step(h, "note") \/ Rest(h))
      BY <1>6 DEF QueueNextPage, At
    <2>2. hand'[h].step \in {"note", "rest"} /\ \A g \in Hands \ {h} : hand'[g] = hand[g]
      BY <2>1, HandSteps
    <2>3. /\ BagToSet(queue) = {} /\ campaign.status = "SNAPSHOTTING"
          /\ \A g \in Hands \ {h} : hand[g].step \notin BuildSteps
      BY <1>0, <2>1, WhereItIs DEF BuildSteps
    <2>4. Free'
      BY <2>2, <2>3 DEF Free, BuildSteps
    <2>5. CASE queue' = queue
      BY <2>3, <2>4, <2>5, PlaceOfQueue
    <2>6. CASE /\ queue' = queue (+) SetToBag({[page |-> hand[h].job.page + 1,
                                           accepted |-> Counts(h).accepted,
                                           excluded |-> Counts(h).excluded]})
               /\ campaign' = campaign
      <3>1. PICK j : queue' = queue (+) SetToBag({j})
        BY <2>6
      <3>2. BagToSet(queue') = {j} /\ queue'[j] = 1
        BY <2>3, <3>1, FirstInQueue
      <3> QED BY <2>3, <2>4, <2>6, <3>2, PlaceOfQueue
    <2> QED BY <1>6, <2>5, <2>6 DEF QueueNextPage
  <1>7. ASSUME NEW h \in Hands, NoteCounts(h) PROVE OnePlace'
    <2>1. Rest(h) /\ queue' = queue /\ campaign'.status = campaign.status /\ hand[h].step = "note"
      BY <1>7 DEF NoteCounts, CountsWritten, At
    <2>2. hand'[h].step = "rest" /\ \A g \in Hands \ {h} : hand'[g] = hand[g]
      BY <2>1, HandSteps
    <2> QED BY <1>0, <2>1, <2>2 DEF OnePlace, BuildSteps, At
  <1>8. ASSUME NEW h \in Hands, FinishPages(h) PROVE OnePlace'
    <2>1. hand[h].step = "next" /\ Rest(h) /\ queue' = queue
      BY <1>8 DEF FinishPages, At
    <2>2. hand'[h].step = "rest" /\ \A g \in Hands \ {h} : hand'[g] = hand[g]
      BY <2>1, HandSteps
    <2>3. /\ BagToSet(queue) = {}
          /\ \A g \in Hands \ {h} : hand[g].step \notin BuildSteps
      BY <1>0, <2>1, WhereItIs DEF BuildSteps
    <2>4. Free'
      BY <2>2, <2>3 DEF Free, BuildSteps
    <2> QED BY <2>1, <2>3, <2>4, PlaceOfQueue
  <1>9. ASSUME NEW h \in Hands, Throw(h) PROVE OnePlace'
    <2>1. Rest(h) /\ campaign' = campaign
      BY <1>9 DEF Throw
    <2>2. hand'[h].step = "rest" /\ \A g \in Hands \ {h} : hand'[g] = hand[g]
      BY <2>1, HandSteps
    <2>3. CASE queue' = queue
      BY <1>0, <2>1, <2>2, <2>3 DEF OnePlace, BuildSteps, At
    <2>4. CASE /\ queue' = queue (+) SetToBag({hand[h].job})
               /\ mishap' = mishap \union (IF At(h, "write") THEN {} ELSE {"retried"})
      <3>1. hand[h].step = "write"
        BY <2>4 DEF Settled, At
      <3>2. /\ BagToSet(queue) = {} /\ campaign.status = "SNAPSHOTTING"
            /\ \A g \in Hands \ {h} : hand[g].step \notin BuildSteps
        BY <1>0, <3>1, WhereItIs DEF BuildSteps
      <3>3. PICK j : queue' = queue (+) SetToBag({j})
        BY <2>4
      <3>4. BagToSet(queue') = {j} /\ queue'[j] = 1
        BY <3>2, <3>3, FirstInQueue
      <3>5. Free'
        BY <2>2, <3>2 DEF Free, BuildSteps
      <3> QED BY <2>1, <3>2, <3>4, <3>5, PlaceOfQueue
    <2> QED BY <1>9, <2>3, <2>4 DEF Throw
  <1>10. ASSUME NEW p \in Persons, NEW c \in Contacts, EditPerson(p, c) PROVE OnePlace'
    BY <1>0, <1>10 DEF EditPerson, OnePlace, At
  <1>11. CASE UNCHANGED audienceVars
    BY <1>0, <1>11 DEF audienceVars, OnePlace, At
  <1> QED BY <1>1, <1>2, <1>3, <1>4, <1>5, <1>6, <1>7, <1>8, <1>9, <1>10, <1>11 DEF AudienceNext
-----------------------------------------------------------------------------
(***************************************************************************)
(* Audience: what a build has decided.                                     *)
(***************************************************************************)
\* A person was decided beside the pages up to its own.
LEMMA DecidedBesideItsPages ==
    ASSUME NEW r, NEW s, NEW page \in Int, \A q \in Persons : PageOf(q) <= page => r[q] = s[q],
           NEW p \in Persons, PageOf(p) <= page
    PROVE  SeenBy(r, p) = SeenBy(s, p) /\ (Decided(r, p) <=> Decided(s, p))
  <1>0. PageOf(p) \in Nat /\ \A q \in Persons : PageOf(q) \in Nat
    BY PagesAreNumbered
  <1>1. \A q \in Before(p) : r[q] = s[q]
    BY <1>0 DEF Before, Scan
  <1>2. \A q \in EarlierPages(PageOf(p)) : r[q] = s[q]
    BY <1>0 DEF EarlierPages
  <1>3. \A q \in Scan(PageOf(p)) : r[q] = s[q]
    BY <1>0 DEF Scan
  <1>4. AcceptedOf(r, Before(p)) = AcceptedOf(s, Before(p))
    BY <1>1 DEF AcceptedOf
  <1>5. AcceptedOf(r, EarlierPages(PageOf(p))) = AcceptedOf(s, EarlierPages(PageOf(p)))
    BY <1>2 DEF AcceptedOf
  <1>6. {r[q].basis.primary : q \in Scan(PageOf(p))} = {s[q].basis.primary : q \in Scan(PageOf(p))}
    BY <1>3
  <1>7. SeenBy(r, p) = SeenBy(s, p)
    BY <1>4, <1>5, <1>6 DEF SeenBy
  <1>8. r[p] = s[p]
    OBVIOUS
  <1> QED BY <1>7, <1>8 DEF Decided

\* Rows that agree up to a page are decided and counted alike up to it.
LEMMA AlikeToAPage ==
    ASSUME NEW r, NEW s, NEW page \in Int, \A q \in Persons : PageOf(q) <= page => r[q] = s[q]
    PROVE  /\ DecidedTo(r, page) => DecidedTo(s, page)
           /\ \A n, m : CountsFit(r, page, n, m) => CountsFit(s, page, n, m)
  <1>1. DecidedTo(r, page) => DecidedTo(s, page)
    BY DecidedBesideItsPages DEF DecidedTo
  <1>2. \A status : Of(r, status, page) = Of(s, status, page)
    BY DEF Of
  <1> QED BY <1>1, <1>2 DEF CountsFit

\* While the rows and the category stay, what is decided stays.
LEMMA DecisionsStay ==
    ASSUME recipients' = recipients, marketing' = marketing
    PROVE  /\ \A page : DecidedTo(recipients, page)' <=> DecidedTo(recipients, page)
           /\ \A page : UndoneFrom(page)' <=> UndoneFrom(page)
           /\ \A j : JobFits(j)' <=> JobFits(j)
           /\ \A j : QueueFits(j)' <=> QueueFits(j)
  <1>1. \A c, seen : EvaluateExclusion(c, seen)' = EvaluateExclusion(c, seen)
    BY DEF EvaluateExclusion, MayBeAsked
  <1>2. \A p : Decided(recipients, p)' <=> Decided(recipients, p)
    BY <1>1 DEF Decided
  <1>3. \A page : DecidedTo(recipients, page)' <=> DecidedTo(recipients, page)
    BY <1>2 DEF DecidedTo
  <1>4. \A page : UndoneFrom(page)' <=> UndoneFrom(page)
    BY DEF UndoneFrom
  <1>5. \A j : JobFits(j)' <=> JobFits(j)
    BY <1>3 DEF JobFits
  <1> QED BY <1>3, <1>4, <1>5 DEF QueueFits

\* One page more is decided.
LEMMA OnePageMore ==
    ASSUME AudienceTypes, NEW page \in 1..LastAudiencePage,
           DecidedTo(recipients, page - 1), UndoneFrom(page),
           NEW rows, rows = DecidePage(page, FindExistingPhones(page))
    PROVE  DecidedTo(UpsertRecipients(rows), page)
  <1> DEFINE r == UpsertRecipients(rows)
             taken == FindExistingPhones(page)
  <1>0. page \in Nat /\ page - 1 \in Int /\ \A q \in Persons : PageOf(q) \in Nat
    BY PagesAreNumbered
  <1>1. PICK v \in [Scan(page) -> Verdicts] :
          /\ \A p \in Scan(page) : v[p] = DecidesOn(page, taken, v, p)
          /\ rows = [p \in Scan(page) |-> RowOf(person[p], v[p])]
    BY PageIsDecided
  <1>2. /\ \A p \in Scan(page) : p \in Persons /\ PageOf(p) = page
        /\ \A p \in Persons : PageOf(p) = page => p \in Scan(page)
    BY DEF Scan
  <1>3. /\ \A p \in Scan(page) : r[p] = RowOf(person[p], v[p])
        /\ \A p \in Persons : PageOf(p) # page => r[p] = recipients[p]
    BY <1>1, <1>2 DEF UpsertRecipients
  <1> HIDE DEF r
  <1>4. ASSUME NEW p \in Persons, PageOf(p) <= page - 1 PROVE Decided(r, p)
    <2>1. \A q \in Persons : PageOf(q) <= page - 1 => recipients[q] = r[q]
      BY <1>0, <1>3
    <2>2. Decided(recipients, p)
      BY <1>4 DEF DecidedTo
    <2> QED BY <1>0, <1>4, <2>1, <2>2, DecidedBesideItsPages
  <1>5. ASSUME NEW p \in Scan(page) PROVE Decided(r, p)
    <2>1. \A q \in Scan(page) : /\ r[q].reason = v[q] /\ r[q].basis = person[q]
                                /\ r[q].phone = ResolvedPhone(person[q])
      <3>1. \A c, w : /\ RowOf(c, w).reason = w /\ RowOf(c, w).basis = c
                      /\ RowOf(c, w).phone = ResolvedPhone(c)
        BY DEF RowOf
      <3> QED BY <1>3, <3>1
    <2>2. AcceptedOf(r, Before(p)) = Remember({q \in Scan(page) : q < p /\ v[q] = "NONE"})
      <3>1. {q \in Before(p) : r[q].reason = "NONE"} = {q \in Scan(page) : q < p /\ v[q] = "NONE"}
        BY <1>2, <2>1 DEF Before
      <3> QED BY <2>1, <3>1 DEF AcceptedOf, Remember
    <2>3. {r[q].basis.primary : q \in Scan(page)} = {person[q].primary : q \in Scan(page)}
      BY <2>1
    <2>4. AcceptedOf(r, EarlierPages(page))
            = {recipients[q].phone : q \in {q \in Persons : Takes(recipients[q])}}
      <3>1. ASSUME NEW q \in Persons
            PROVE  Takes(recipients[q]) <=> q \in EarlierPages(page) /\ r[q].reason = "NONE"
        <4>1. CASE PageOf(q) < page
          <5>1. Decided(recipients, q) /\ r[q] = recipients[q]
            BY <1>0, <1>3, <4>1 DEF DecidedTo
          <5>2. recipients[q].status \in {"PENDING", "EXCLUDED"}
            BY <5>1, DecidedRowsAreRows DEF Decided
          <5> QED BY <4>1, <5>1, <5>2 DEF Takes, EarlierPages
        <4>2. CASE PageOf(q) >= page
          BY <1>0, <4>2 DEF UndoneFrom, Takes, EarlierPages
        <4> QED BY <1>0, <4>1, <4>2
      <3>2. \A q \in EarlierPages(page) : r[q] = recipients[q] /\ q \in Persons
        BY <1>0, <1>3 DEF EarlierPages
      <3>3. {q \in EarlierPages(page) : r[q].reason = "NONE"}
              = {q \in Persons : Takes(recipients[q])}
        BY <3>1, <3>2
      <3> QED BY <3>2, <3>3 DEF AcceptedOf
    <2>5. PageOf(p) = page
      BY <1>2
    <2>6. SeenBy(r, p) = BesideOn(page, taken, v, p)
      BY <2>2, <2>3, <2>4, <2>5 DEF SeenBy, BesideOn, FindExistingPhones
    <2>7. v[p] = EvaluateExclusion(person[p], SeenBy(r, p))
      BY <1>1, <2>6 DEF DecidesOn
    <2>8. r[p] = RowOf(person[p], v[p]) /\ r[p].basis = person[p]
      BY <1>3, <2>1
    <2>9. r[p] \in DecidedRows
      BY <1>1, <1>2, <2>8 DEF DecidedRows, AudienceTypes
    <2> QED BY <2>7, <2>8, <2>9 DEF Decided
  <1>6. \A p \in Persons : PageOf(p) <= page => PageOf(p) <= page - 1 \/ p \in Scan(page)
    BY <1>0, <1>2
  <1> QED BY <1>4, <1>5, <1>6 DEF DecidedTo, r

\* The counts of a page are added to those of the pages before it.
LEMMA CountsAdd ==
    ASSUME AudienceTypes, NEW h \in Hands, At(h, "next"), NextFits(h)
    PROVE  CountsFit(recipients, hand[h].job.page, Counts(h).accepted, Counts(h).excluded)
  <1> DEFINE page == hand[h].job.page
             rows == hand[h].rows
  <1>1. page \in 1..LastAudiencePage /\ rows \in PageRows(page)
    BY HandHolds DEF At
  <1>2. page \in Nat /\ page - 1 \in Int /\ \A q \in Persons : PageOf(q) \in Nat
    <2>1. page \in 1..LastAudiencePage
      BY <1>1
    <2>2. \A q \in Persons : PageOf(q) \in 1..LastAudiencePage
      BY PagesAreNumbered
    <2>3. \A k \in 1..LastAudiencePage : k \in Nat /\ k - 1 \in Int
      BY PagesAreNumbered
    <2> HIDE DEF page
    <2> QED BY <2>1, <2>2, <2>3
  <1>3. DOMAIN rows = Scan(page) /\ \A p \in Scan(page) : rows[p] = recipients[p]
    BY <1>1 DEF PageRows, NextFits
  <1>4. CountsFit(recipients, page - 1, hand[h].job.accepted, hand[h].job.excluded)
    BY DEF NextFits, JobFits
  <1> HIDE DEF page, rows
  <1>5. ASSUME NEW status
        PROVE  Cardinality(Of(recipients, status, page))
                 = Cardinality(Of(recipients, status, page - 1))
                   + Cardinality({p \in DOMAIN rows : rows[p].status = status})
    <2> DEFINE A == Of(recipients, status, page - 1)
               B == {p \in DOMAIN rows : rows[p].status = status}
    <2>1. B = {p \in Persons : PageOf(p) = page /\ recipients[p].status = status}
      BY <1>3 DEF Scan
    <2>2. A \subseteq Persons /\ B \subseteq Persons
      BY <2>1 DEF Of
    <2>3. IsFiniteSet(A) /\ IsFiniteSet(B)
      BY <2>2, PagesAreNumbered, FS_Subset
    <2>4. A \intersect B = {} /\ A \union B = Of(recipients, status, page)
      BY <1>2, <2>1 DEF Of
    <2> HIDE DEF A, B
    <2>5. Cardinality(A \union B) = Cardinality(A) + Cardinality(B) - Cardinality(A \intersect B)
      BY <2>3, FS_Union
    <2>6. Cardinality(A \intersect B) = 0
      BY <2>4, FS_EmptySet
    <2>7. Cardinality(A) \in Nat /\ Cardinality(B) \in Nat
      BY <2>3, FS_CardinalityType
    <2>8. Cardinality(A \union B) = Cardinality(A) + Cardinality(B)
      BY <2>5, <2>6, <2>7
    <2>9. Cardinality(Of(recipients, status, page)) = Cardinality(A) + Cardinality(B)
      BY <2>4, <2>8
    <2> QED BY <2>9 DEF A, B
  <1>6. /\ Cardinality(Of(recipients, "PENDING", page))
             = Cardinality(Of(recipients, "PENDING", page - 1)) + Cardinality(Accepted(rows))
        /\ Cardinality(Of(recipients, "EXCLUDED", page))
             = Cardinality(Of(recipients, "EXCLUDED", page - 1)) + Cardinality(Excluded(rows))
    BY <1>5 DEF Accepted, Excluded
  <1> QED BY <1>4, <1>6 DEF CountsFit, Counts, page, rows

\* What a build holds, where it is after a step.
LEMMA HoldsInQueue ==
    ASSUME Free', NEW j, BagToSet(queue') \subseteq {j}, BagToSet(queue') # {} => QueueFits(j)',
           campaign'.status = "READY" => ReadyFits'
    PROVE  BuildHolds'
  <1>1. \A h \in Hands : hand'[h].step \notin {"enqueue", "write", "next"}
    BY DEF Free, BuildSteps
  <1>2. \A i \in BagToSet(queue') : i = j /\ QueueFits(j)'
    OBVIOUS
  <1> QED BY <1>1, <1>2 DEF BuildHolds, At

LEMMA HoldsInHand ==
    ASSUME OnePlace', Settled', NEW h \in Hands, hand'[h].step \in BuildSteps,
           hand'[h].step = "enqueue" => UndoneFrom(1)',
           hand'[h].step = "write" => WriteFits(h)',
           hand'[h].step = "next" => NextFits(h)'
    PROVE  BuildHolds'
  <1>1. /\ BagToSet(queue') = {} /\ campaign'.status = "SNAPSHOTTING"
        /\ \A g \in Hands : hand'[g].step \in BuildSteps => g = h
    BY DEF OnePlace
  <1> QED BY <1>1 DEF BuildHolds, BuildSteps, At

LEMMA HoldsElsewhere ==
    ASSUME BuildHolds, Settled, recipients' = recipients, marketing' = marketing, queue' = queue,
           \A h \in Hands : hand'[h].step \in BuildSteps => hand'[h] = hand[h],
           campaign'.status = "READY" => ReadyFits'
    PROVE  BuildHolds'
  <1>1. \A j : QueueFits(j)' <=> QueueFits(j)
    BY DecisionsStay
  <1>2. \A j \in BagToSet(queue') : QueueFits(j)'
    BY <1>1 DEF BuildHolds
  <1>3. ASSUME NEW h \in Hands, hand'[h].step = "enqueue" PROVE UndoneFrom(1)'
    <2>1. UndoneFrom(1)
      BY <1>3 DEF BuildHolds, At, BuildSteps
    <2> QED BY <2>1, DecisionsStay
  <1>4. ASSUME NEW h \in Hands, hand'[h].step = "write" PROVE WriteFits(h)'
    <2>1. WriteFits(h) /\ hand'[h] = hand[h]
      BY <1>4 DEF BuildHolds, At, BuildSteps
    <2>2. \A r, page : DecidedTo(r, page)' <=> DecidedTo(r, page)
      BY DEF DecidedTo, Decided, EvaluateExclusion, MayBeAsked
    <2>3. UpsertRecipients(hand[h].rows)' = UpsertRecipients(hand[h].rows)
      BY <2>1 DEF UpsertRecipients
    <2>4. QueueFits(hand[h].job)'
      BY <1>1, <2>1 DEF WriteFits
    <2>5. DecidedTo(UpsertRecipients(hand[h].rows), hand[h].job.page)'
      BY <2>1, <2>2, <2>3 DEF WriteFits
    <2> QED BY <2>4, <2>5 DEF WriteFits
  <1>5. ASSUME NEW h \in Hands, hand'[h].step = "next" PROVE NextFits(h)'
    <2>1. NextFits(h) /\ hand'[h] = hand[h]
      BY <1>5 DEF BuildHolds, At, BuildSteps
    <2> QED BY <2>1, DecisionsStay DEF NextFits
  <1> QED BY <1>2, <1>3, <1>4, <1>5 DEF BuildHolds, At

\* Every step keeps what the build holds.
LEMMA BuildKeepsWhatItHolds ==
    ASSUME AudienceTypes, OnePlace, OnePlace', BuildHolds, [AudienceNext]_audienceVars
    PROVE  BuildHolds'
  <1> SUFFICES ASSUME Settled' PROVE BuildHolds'
    BY DEF BuildHolds
  <1>0. Settled
    BY MishapsStay
  <1>1. ASSUME NEW h \in Hands, AskBuild(h) PROVE BuildHolds'
    <2>1. hand'[h].step = "retire"
      BY <1>1 DEF AskBuild, AudienceTypes
    <2> QED BY <2>1, HoldsInHand DEF BuildSteps
  <1>2. ASSUME NEW h \in Hands, RetireRows(h) PROVE BuildHolds'
    <2>1. hand[h].step = "retire" /\ Step(h, "enqueue")
      BY <1>2 DEF RetireRows, At
    <2>2. hand'[h].step = "enqueue"
      BY <2>1, HandSteps
    <2>3. \A p \in Persons : recipients[p].status \in {"none", "PENDING", "EXCLUDED", "SKIPPED"}
      BY DEF AudienceTypes, RecipientRow, NoRow
    <2>4. \A p \in Persons : recipients'[p].status \in {"none", "SKIPPED"}
      <3>1. ASSUME NEW p \in Persons, recipients[p].status \in {"PENDING", "EXCLUDED"}
            PROVE  recipients'[p].status = "SKIPPED"
        <4>1. recipients[p] \in RecipientRow
          BY <3>1 DEF AudienceTypes, NoRow
        <4>2. recipients'[p] = [recipients[p] EXCEPT !.status = "SKIPPED"]
          BY <1>2, <3>1 DEF RetireRows
        <4> QED BY <4>1, <4>2 DEF RecipientRow
      <3>2. ASSUME NEW p \in Persons, recipients[p].status \notin {"PENDING", "EXCLUDED"}
            PROVE  recipients'[p] = recipients[p]
        BY <1>2, <3>2 DEF RetireRows
      <3> QED BY <2>3, <3>1, <3>2
    <2>5. UndoneFrom(1)'
      BY <2>4 DEF UndoneFrom
    <2> QED BY <2>2, <2>5, HoldsInHand DEF BuildSteps
  <1>3. ASSUME NEW h \in Hands, EnqueueFirst(h) PROVE BuildHolds'
    <2> DEFINE j == [page |-> 1, accepted |-> 0, excluded |-> 0]
    <2>1. /\ hand[h].step = "enqueue" /\ Rest(h)
          /\ recipients' = recipients /\ marketing' = marketing
      BY <1>3 DEF EnqueueFirst, At, peopleVars
    <2>2. hand'[h].step = "rest" /\ \A g \in Hands \ {h} : hand'[g] = hand[g]
      BY <2>1, HandSteps
    <2>3. /\ BagToSet(queue) = {} /\ campaign.status = "SNAPSHOTTING" /\ UndoneFrom(1)
          /\ \A g \in Hands \ {h} : hand[g].step = "rest"
      BY <1>0, <2>1, WhereItIs DEF BuildSteps, BuildHolds, At
    <2>4. Free'
      BY <2>2, <2>3 DEF Free, BuildSteps
    <2>5. campaign'.status # "READY"
      BY <1>3, <2>3 DEF EnqueueFirst, AudienceTypes
    <2>6. BagToSet(queue') \subseteq {j}
      <3>1. CASE queue' = queue
        BY <2>3, <3>1
      <3>2. CASE queue' = queue (+) SetToBag({j})
        BY <2>3, <3>2, FirstInQueue
      <3> QED BY <1>3, <3>1, <3>2 DEF EnqueueFirst
    <2>7. QueueFits(j)
      <3>1. \A p \in Persons : ~(PageOf(p) <= 0)
        BY PagesAreNumbered
      <3>2. j.page = 1 /\ j.page - 1 = 0 /\ j.accepted = 0 /\ j.excluded = 0
        OBVIOUS
      <3> HIDE DEF j
      <3>3. DecidedTo(recipients, 0)
        BY <3>1 DEF DecidedTo
      <3>4. Of(recipients, "PENDING", 0) = {} /\ Of(recipients, "EXCLUDED", 0) = {}
        BY <3>1 DEF Of
      <3>5. CountsFit(recipients, 0, 0, 0)
        BY <3>4, FS_EmptySet DEF CountsFit
      <3> QED BY <2>3, <3>2, <3>3, <3>5 DEF QueueFits, JobFits
    <2> HIDE DEF j
    <2>8. QueueFits(j)'
      <3>1. \A i : QueueFits(i)' <=> QueueFits(i)
        BY <2>1, DecisionsStay
      <3>2. PICK i : i = j
        OBVIOUS
      <3>3. j' = j
        BY DEF j
      <3> QED BY <2>7, <3>1, <3>2, <3>3
    <2> QED BY <2>4, <2>5, <2>6, <2>8, HoldsInQueue
  <1>4. ASSUME NEW h \in Hands, NEW j \in BagToSet(queue), DecideJob(h, j) PROVE BuildHolds'
    <2>1. Free /\ campaign.status = "SNAPSHOTTING" /\ QueueFits(j)
      BY <1>0, WhereItIs DEF BuildHolds
    <2>2. recipients' = recipients /\ marketing' = marketing
      BY <1>4 DEF DecideJob, peopleVars
    <2>3. PICK rows : rows = DecidePage(j.page, FindExistingPhones(j.page))
      OBVIOUS
    <2>4. hand' = [hand EXCEPT ![h] = [step |-> "write", job |-> j, rows |-> rows]]
      BY <1>4, <2>1, <2>3 DEF DecideJob
    <2>5. hand'[h] = [step |-> "write", job |-> j, rows |-> rows]
      BY <2>4 DEF AudienceTypes
    <2>6. hand'[h].step = "write" /\ hand'[h].job = j /\ hand'[h].rows = rows
      BY <2>5
    <2>7. j.page \in 1..LastAudiencePage
      BY DEF AudienceTypes, Job
    <2>8. DecidedTo(UpsertRecipients(rows), j.page)
      BY <2>1, <2>3, <2>7, OnePageMore DEF QueueFits, JobFits
    <2>9. \A r, page : DecidedTo(r, page)' <=> DecidedTo(r, page)
      BY <2>2 DEF DecidedTo, Decided, EvaluateExclusion, MayBeAsked
    <2>10. UpsertRecipients(rows)' = UpsertRecipients(rows)
      BY <2>2 DEF UpsertRecipients
    <2>11. DecidedTo(UpsertRecipients(rows), j.page)'
      BY <2>8, <2>9, <2>10
    <2>12. QueueFits(j)'
      BY <2>1, <2>2, DecisionsStay
    <2>13. WriteFits(h)'
      BY <2>6, <2>11, <2>12 DEF WriteFits
    <2> QED BY <2>6, <2>13, HoldsInHand DEF BuildSteps
  <1>5. ASSUME NEW h \in Hands, WriteRows(h) PROVE BuildHolds'
    <2>1. /\ hand[h].step = "write" /\ Step(h, "next") /\ WriteFits(h)
          /\ marketing' = marketing /\ recipients' = UpsertRecipients(hand[h].rows)
      BY <1>0, <1>5 DEF WriteRows, At, BuildHolds, peopleVars
    <2>2. PICK job, rows : job = hand[h].job /\ rows = hand[h].rows
      OBVIOUS
    <2>3. hand'[h].step = "next" /\ hand'[h].job = job /\ hand'[h].rows = rows
      BY <2>1, <2>2, HandSteps
    <2>4. job.page \in 1..LastAudiencePage /\ rows \in PageRows(job.page)
      BY <2>1, <2>2, HandHolds
    <2>5. /\ job.page \in Nat /\ job.page - 1 \in Int /\ job.page < job.page + 1
          /\ \A q \in Persons : PageOf(q) \in Nat
      BY <2>4, PagesAreNumbered
    <2>6. /\ \A p \in Persons : p \notin Scan(job.page) => recipients'[p] = recipients[p]
          /\ \A p \in Scan(job.page) : rows[p] = recipients'[p]
      BY <2>1, <2>2, <2>4 DEF UpsertRecipients, PageRows, Scan
    <2>7. PICK r, s : r = recipients /\ s = recipients'
      OBVIOUS
    <2>8. /\ DecidedTo(r, job.page - 1) /\ CountsFit(r, job.page - 1, job.accepted, job.excluded)
          /\ DecidedTo(s, job.page)
      BY <2>1, <2>2, <2>7 DEF WriteFits, QueueFits, JobFits
    <2>9. \A q \in Persons : PageOf(q) <= job.page - 1 => r[q] = s[q]
      BY <2>5, <2>6, <2>7 DEF Scan
    <2>10. DecidedTo(s, job.page - 1) /\ CountsFit(s, job.page - 1, job.accepted, job.excluded)
      BY <2>5, <2>8, <2>9, AlikeToAPage
    <2>11. \A q, page : DecidedTo(q, page)' <=> DecidedTo(q, page)
      BY <2>1 DEF DecidedTo, Decided, EvaluateExclusion, MayBeAsked
    <2>12. DecidedTo(s, job.page - 1)' /\ DecidedTo(s, job.page)'
      BY <2>8, <2>10, <2>11
    <2>13. DecidedTo(recipients, job.page - 1)' /\ DecidedTo(recipients, job.page)'
      BY <2>7, <2>12 DEF DecidedTo, Decided
    <2>14. JobFits(job)'
      BY <2>7, <2>10, <2>13 DEF JobFits
    <2>15. UndoneFrom(job.page + 1)'
      BY <2>1, <2>2, <2>5, <2>6 DEF WriteFits, QueueFits, UndoneFrom, Scan
    <2>16. NextFits(h)'
      BY <2>3, <2>6, <2>13, <2>14, <2>15 DEF NextFits
    <2> QED BY <2>3, <2>16, HoldsInHand DEF BuildSteps
  <1>6. ASSUME NEW h \in Hands, QueueNextPage(h) PROVE BuildHolds'
    <2> DEFINE j == [page |-> hand[h].job.page + 1, accepted |-> Counts(h).accepted,
                     excluded |-> Counts(h).excluded]
    <2>1. /\ hand[h].step = "next" /\ (Step(h, "note") \/ Rest(h)) /\ NextFits(h)
          /\ recipients' = recipients /\ marketing' = marketing
      BY <1>0, <1>6 DEF QueueNextPage, At, BuildHolds, peopleVars
    <2>2. hand'[h].step \in {"note", "rest"} /\ \A g \in Hands \ {h} : hand'[g] = hand[g]
      BY <2>1, HandSteps
    <2>3. /\ BagToSet(queue) = {} /\ campaign.status = "SNAPSHOTTING"
          /\ \A g \in Hands \ {h} : hand[g].step \notin BuildSteps
      BY <1>0, <2>1, WhereItIs DEF BuildSteps
    <2>4. Free'
      BY <2>2, <2>3 DEF Free, BuildSteps
    <2>5. campaign'.status # "READY"
      BY <1>6, <2>3 DEF QueueNextPage, AudienceTypes
    <2>6. PICK i : i = j
      OBVIOUS
    <2>7. BagToSet(queue') \subseteq {i}
      <3>1. CASE queue' = queue
        BY <2>3, <3>1
      <3>2. CASE queue' = queue (+) SetToBag({i})
        BY <2>3, <3>2, FirstInQueue
      <3> QED BY <1>6, <2>6, <3>1, <3>2 DEF QueueNextPage
    <2>8. QueueFits(i)
      <3>1. CountsFit(recipients, hand[h].job.page, Counts(h).accepted, Counts(h).excluded)
        BY <2>1, CountsAdd DEF At
      <3>2. hand[h].job.page \in Nat
        <4>1. hand[h].job.page \in 1..LastAudiencePage
          BY <2>1, HandHolds
        <4> QED BY <4>1, PagesAreNumbered
      <3>3. /\ i.page = hand[h].job.page + 1 /\ i.page - 1 = hand[h].job.page
            /\ i.accepted = Counts(h).accepted /\ i.excluded = Counts(h).excluded
        BY <2>6, <3>2
      <3> QED BY <2>1, <3>1, <3>3 DEF QueueFits, JobFits, NextFits
    <2>9. QueueFits(i)'
      BY <2>1, <2>8, DecisionsStay
    <2> QED BY <2>4, <2>5, <2>7, <2>9, HoldsInQueue
  <1>7. ASSUME NEW h \in Hands, NoteCounts(h) PROVE BuildHolds'
    <2>1. /\ Rest(h) /\ queue' = queue /\ recipients' = recipients /\ marketing' = marketing
          /\ campaign'.status = campaign.status
          /\ campaign.status = "READY" => "late" \in mishap'
      BY <1>7 DEF NoteCounts, CountsWritten, peopleVars
    <2>2. hand'[h].step = "rest" /\ \A g \in Hands \ {h} : hand'[g] = hand[g]
      BY <2>1, HandSteps
    <2>3. \A g \in Hands : hand'[g].step \in BuildSteps => hand'[g] = hand[g]
      BY <2>2 DEF BuildSteps
    <2>4. ASSUME campaign'.status = "READY" PROVE ReadyFits'
      <3>1. ReadyFits
        BY <1>0, <2>1, <2>4 DEF BuildHolds
      <3> QED BY <2>1, <2>4, <3>1, DecisionsStay DEF ReadyFits
    <2> QED BY <1>0, <2>1, <2>3, <2>4, HoldsElsewhere
  <1>8. ASSUME NEW h \in Hands, FinishPages(h) PROVE BuildHolds'
    <2>1. /\ hand[h].step = "next" /\ Rest(h) /\ NextFits(h) /\ queue' = queue
          /\ recipients' = recipients /\ marketing' = marketing
          /\ hand[h].job.page = LastAudiencePage
          /\ campaign'.recipientCount = Counts(h).accepted
          /\ campaign'.excludedCount = Counts(h).excluded
      BY <1>0, <1>8 DEF FinishPages, CountsWritten, At, BuildHolds, peopleVars
    <2>2. hand'[h].step = "rest" /\ \A g \in Hands \ {h} : hand'[g] = hand[g]
      BY <2>1, HandSteps
    <2>3. /\ BagToSet(queue) = {}
          /\ \A g \in Hands \ {h} : hand[g].step \notin BuildSteps
      BY <1>0, <2>1, WhereItIs DEF BuildSteps
    <2>4. Free'
      BY <2>2, <2>3 DEF Free, BuildSteps
    <2>5. DecidedTo(recipients, LastAudiencePage)'
      BY <2>1, DecisionsStay DEF NextFits
    <2>6. CountsFit(recipients, LastAudiencePage, Counts(h).accepted, Counts(h).excluded)
      BY <2>1, CountsAdd DEF At
    <2>7. ReadyFits'
      BY <2>1, <2>5, <2>6 DEF ReadyFits
    <2> QED BY <2>1, <2>3, <2>4, <2>7, HoldsInQueue
  <1>9. ASSUME NEW h \in Hands, Throw(h) PROVE BuildHolds'
    <2>1. /\ Rest(h) /\ campaign' = campaign /\ recipients' = recipients /\ marketing' = marketing
      BY <1>9 DEF Throw, peopleVars
    <2>2. hand'[h].step = "rest" /\ \A g \in Hands \ {h} : hand'[g] = hand[g]
      BY <2>1, HandSteps
    <2>3. CASE queue' = queue /\ mishap' = mishap
      <3>1. \A g \in Hands : hand'[g].step \in BuildSteps => hand'[g] = hand[g]
        BY <2>2 DEF BuildSteps
      <3>2. campaign'.status = "READY" => ReadyFits'
        BY <1>0, <2>1, <2>3, DecisionsStay DEF BuildHolds, ReadyFits
      <3> QED BY <1>0, <2>1, <2>3, <3>1, <3>2, HoldsElsewhere
    <2>4. CASE /\ queue' = queue (+) SetToBag({hand[h].job})
               /\ mishap' = mishap \union (IF At(h, "write") THEN {} ELSE {"retried"})
      <3>1. hand[h].step = "write"
        BY <2>4 DEF Settled, At
      <3>2. /\ BagToSet(queue) = {} /\ campaign.status = "SNAPSHOTTING" /\ WriteFits(h)
            /\ \A g \in Hands \ {h} : hand[g].step \notin BuildSteps
        BY <1>0, <3>1, WhereItIs DEF BuildSteps, BuildHolds, At
      <3>3. PICK j : j = hand[h].job
        OBVIOUS
      <3>4. BagToSet(queue') = {j}
        BY <2>4, <3>2, <3>3, FirstInQueue
      <3>5. Free'
        BY <2>2, <3>2 DEF Free, BuildSteps
      <3>6. QueueFits(j)'
        BY <2>1, <3>2, <3>3, DecisionsStay DEF WriteFits
      <3> QED BY <2>1, <3>2, <3>4, <3>5, <3>6, HoldsInQueue
    <2> QED BY <1>9, <2>3, <2>4 DEF Throw
  <1>10. ASSUME NEW p \in Persons, NEW c \in Contacts, EditPerson(p, c) PROVE BuildHolds'
    <2>1. UNCHANGED <<marketing, campaign, recipients, queue, hand, mishap>>
      BY <1>10 DEF EditPerson
    <2>2. campaign'.status = "READY" => ReadyFits'
      BY <1>0, <2>1, DecisionsStay DEF BuildHolds, ReadyFits
    <2> QED BY <1>0, <2>1, <2>2, HoldsElsewhere
  <1>11. CASE UNCHANGED audienceVars
    <2>1. UNCHANGED <<marketing, campaign, recipients, queue, hand, mishap>>
      BY <1>11 DEF audienceVars
    <2>2. campaign'.status = "READY" => ReadyFits'
      BY <1>0, <2>1, DecisionsStay DEF BuildHolds, ReadyFits
    <2> QED BY <1>0, <2>1, <2>2, HoldsElsewhere
  <1> QED BY <1>1, <1>2, <1>3, <1>4, <1>5, <1>6, <1>7, <1>8, <1>9, <1>10, <1>11 DEF AudienceNext
-----------------------------------------------------------------------------
(***************************************************************************)
(* Audience: what follows.                                                 *)
(***************************************************************************)
\* A build that is ready has decided everybody: a row for each, one that the
\* first rule gives that matches.
LEMMA ReadyIsDecided ==
    ASSUME AudienceInv, campaign.status = "READY", Settled
    PROVE  \A p \in Persons :
             /\ recipients[p].basis \in Contacts
             /\ recipients[p].status \in {"PENDING", "EXCLUDED"}
             /\ recipients[p].status = "PENDING" <=> recipients[p].reason = "NONE"
             /\ recipients[p].phone = ResolvedPhone(recipients[p].basis)
             /\ recipients[p].phone \in Phones \union {NoPhone}
             /\ recipients[p].reason
                  = EvaluateExclusion(recipients[p].basis, SeenBy(recipients, p))
  <1> SUFFICES ASSUME NEW p \in Persons
               PROVE  /\ recipients[p].basis \in Contacts
                      /\ recipients[p].status \in {"PENDING", "EXCLUDED"}
                      /\ recipients[p].status = "PENDING" <=> recipients[p].reason = "NONE"
                      /\ recipients[p].phone = ResolvedPhone(recipients[p].basis)
                      /\ recipients[p].phone \in Phones \union {NoPhone}
                      /\ recipients[p].reason
                           = EvaluateExclusion(recipients[p].basis, SeenBy(recipients, p))
    OBVIOUS
  <1>1. DecidedTo(recipients, LastAudiencePage)
    BY DEF AudienceInv, BuildHolds, ReadyFits
  <1>2. PageOf(p) <= LastAudiencePage
    BY PagesAreNumbered
  <1>3. Decided(recipients, p)
    BY <1>1, <1>2 DEF DecidedTo
  <1>4. \A verdict : RowOf(recipients[p].basis, verdict).reason = verdict
    BY DEF RowOf
  <1> QED BY <1>3, <1>4, DecidedRowsAreRows DEF Decided

\* Who is seen by somebody who is ready: one who is in and came before, on the
\* same page or with a number that is a primary one on the page.
LEMMA SeenAreInAudience ==
    ASSUME AudienceInv, campaign.status = "READY", Settled, NEW p \in Persons, NEW phone
    PROVE  /\ phone \in SeenBy(recipients, p) =>
                \E q \in InAudience : q < p /\ recipients[q].phone = phone
           /\ \A q \in InAudience : q < p /\ recipients[q].phone = phone
                /\ (PageOf(q) = PageOf(p) \/ phone = recipients[p].basis.primary)
                => phone \in SeenBy(recipients, p)
  <1>1. \A q \in Persons : q \in InAudience <=> recipients[q].reason = "NONE"
    BY ReadyIsDecided DEF InAudience
  <1>2. /\ p \in Nat /\ PageOf(p) \in Nat
        /\ \A q \in Persons : /\ q \in Nat /\ PageOf(q) \in Nat
                              /\ PageOf(q) < PageOf(p) => q < p
                              /\ q < p => PageOf(q) <= PageOf(p)
    BY PagesAreNumbered
  <1>3. ASSUME phone \in SeenBy(recipients, p)
        PROVE  \E q \in InAudience : q < p /\ recipients[q].phone = phone
    <2>1. PICK q \in Before(p) \union EarlierPages(PageOf(p)) :
             recipients[q].reason = "NONE" /\ recipients[q].phone = phone
      BY <1>3 DEF SeenBy, AcceptedOf
    <2>2. q \in Persons /\ q < p
      BY <1>2 DEF Before, Scan, EarlierPages
    <2> QED BY <1>1, <2>1, <2>2
  <1>4. ASSUME NEW q \in InAudience, q < p, recipients[q].phone = phone,
               PageOf(q) = PageOf(p) \/ phone = recipients[p].basis.primary
        PROVE  phone \in SeenBy(recipients, p)
    <2>1. q \in Persons /\ recipients[q].reason = "NONE"
      BY <1>1 DEF InAudience
    <2>2. CASE PageOf(q) = PageOf(p)
      <3>1. q \in Before(p)
        BY <1>4, <2>1, <2>2 DEF Before, Scan
      <3> QED BY <1>4, <2>1, <3>1 DEF SeenBy, AcceptedOf
    <2>3. CASE PageOf(q) # PageOf(p) /\ phone = recipients[p].basis.primary
      <3>1. q \in EarlierPages(PageOf(p))
        <4>1. PageOf(q) <= PageOf(p) /\ PageOf(q) # PageOf(p)
          BY <1>2, <1>4, <2>1, <2>3
        <4>2. PageOf(q) < PageOf(p)
          <5>1. PageOf(q) \in Nat /\ PageOf(p) \in Nat
            BY <1>2, <2>1
          <5> QED BY <4>1, <5>1
        <4> QED BY <2>1, <4>2 DEF EarlierPages
      <3>2. p \in Scan(PageOf(p))
        BY DEF Scan
      <3>3. phone \in AcceptedOf(recipients, EarlierPages(PageOf(p)))
        BY <1>4, <2>1, <3>1 DEF AcceptedOf
      <3> QED BY <2>3, <3>2, <3>3 DEF SeenBy
    <2> QED BY <1>4, <2>2, <2>3
  <1> QED BY <1>3, <1>4

\* Where every number is a primary one, in is who is eligible and has nobody
\* before it that is in with the number: the reference.
LEMMA ReadyIsTheReference ==
    ASSUME AudienceInv, campaign.status = "READY", Settled,
           \A p \in Persons : recipients[p].basis.primary # NoPhone
    PROVE  InAudience = {p \in Persons : Chosen[p]}
  <1> DEFINE Rule(f, p) ==
               /\ Eligible(recipients[p].basis)
               /\ \A q \in 1..(p - 1) : f[q] =>
                     ResolvedPhone(recipients[q].basis) # ResolvedPhone(recipients[p].basis)
             Fits(f) == f = [p \in Persons |-> Rule(f, p)]
             in == [p \in Persons |-> IF p \in InAudience THEN TRUE ELSE FALSE]
  <1>1. ASSUME NEW p \in Persons PROVE in[p] <=> Rule(in, p)
    <2> DEFINE c == recipients[p].basis
    <2>1. /\ c \in Contacts /\ c.primary # NoPhone
          /\ recipients[p].phone = ResolvedPhone(c) /\ recipients[p].phone = c.primary
          /\ recipients[p].phone \in Phones
          /\ p \in InAudience <=> EvaluateExclusion(c, SeenBy(recipients, p)) = "NONE"
      BY ReadyIsDecided DEF InAudience, ResolvedPhone
    <2>2. p \in InAudience <=> Eligible(c) /\ recipients[p].phone \notin SeenBy(recipients, p)
      <3>1. c.consent = "OPTED_OUT" => ~MayBeAsked(c)
        BY DEF MayBeAsked
      <3> HIDE DEF c
      <3> QED BY <2>1, <3>1 DEF EvaluateExclusion, Eligible
    <2>3. 1..(p - 1) = {q \in Persons : q < p}
      BY AudienceBounds DEF Persons
    <2>4. recipients[p].phone \in SeenBy(recipients, p)
            <=> \E q \in InAudience : q < p /\ recipients[q].phone = recipients[p].phone
      BY <2>1, SeenAreInAudience
    <2>5. \A q \in Persons : /\ in[q] <=> q \in InAudience
                             /\ recipients[q].phone = ResolvedPhone(recipients[q].basis)
      BY ReadyIsDecided
    <2>6. InAudience \subseteq Persons
      BY DEF InAudience
    <2>7. Rule(in, p) <=> /\ Eligible(c)
                          /\ ~ \E q \in InAudience :
                                  q < p /\ recipients[q].phone = recipients[p].phone
      <3>1. Rule(in, p) <=> /\ Eligible(c)
                            /\ \A q \in 1..(p - 1) : q \in InAudience =>
                                  recipients[q].phone # recipients[p].phone
        BY <2>3, <2>5
      <3> QED BY <2>3, <2>6, <3>1
    <2> QED BY <2>2, <2>4, <2>5, <2>7
  <1>2. Fits(in)
    <2>1. ASSUME NEW p \in Persons PROVE in[p] = Rule(in, p)
      <3>1. CASE p \in InAudience
        <4>1. in[p] = TRUE
          BY <3>1
        <4>2. Rule(in, p)
          BY <1>1, <3>1
        <4> HIDE DEF in
        <4>3. Rule(in, p) = TRUE
          BY <4>2
        <4> QED BY <4>1, <4>3
      <3>2. CASE p \notin InAudience
        <4>1. in[p] = FALSE
          BY <3>2
        <4>2. ~Rule(in, p)
          BY <1>1, <3>2
        <4> HIDE DEF in
        <4>3. Rule(in, p) = FALSE
          BY <4>2
        <4> QED BY <4>1, <4>3
      <3> QED BY <3>1, <3>2
    <2> QED BY <2>1
  <1>3. Chosen = CHOOSE f : Fits(f)
    BY DEF Chosen
  <1>4. Fits(Chosen)
    <2> DEFINE first == CHOOSE f : Fits(f)
    <2>1. \E f : Fits(f)
      BY <1>2
    <2>2. Fits(first)
      BY <2>1
    <2>3. Chosen = first
      BY <1>3
    <2> QED BY <2>2, <2>3
  <1>5. \A p \in Persons : Chosen[p] = Rule(Chosen, p)
    BY <1>4
  <1>7. \A p \in Persons : Chosen[p] \in BOOLEAN
    BY <1>5
  <1> DEFINE bad == {p \in Persons : Chosen[p] # in[p]}
  <1>6. ASSUME bad # {} PROVE FALSE
    <2>1. bad \subseteq Nat
      BY PagesAreNumbered
    <2>2. PICK p \in bad : \A q \in bad : p <= q
      BY <1>6, <2>1, LeastOne
    <2>3. 1..(p - 1) = {q \in Persons : q < p}
      BY AudienceBounds DEF Persons
    <2>4. \A q \in 1..(p - 1) : Chosen[q] = in[q]
      <3>1. SUFFICES ASSUME NEW q \in 1..(p - 1), Chosen[q] # in[q] PROVE FALSE
        OBVIOUS
      <3>2. q \in Persons /\ q < p /\ p \in Nat /\ q \in Nat
        BY <2>1, <2>2, <2>3, PagesAreNumbered
      <3>3. q \in bad
        BY <3>1, <3>2
      <3> HIDE DEF bad, in
      <3> QED BY <2>2, <3>2, <3>3
    <2>5. Rule(Chosen, p) <=> Rule(in, p)
      BY <2>4
    <2>6. in[p] <=> Chosen[p]
      BY <1>1, <1>5, <2>2, <2>5
    <2>7. in[p] \in BOOLEAN /\ Chosen[p] \in BOOLEAN /\ Chosen[p] # in[p]
      BY <1>7, <2>2
    <2> QED BY <2>6, <2>7
  <1> QED BY <1>6 DEF InAudience

\* What a build promises follows from the invariant.
LEMMA FairFollows == AudienceInv => AudienceTypeOK /\ AudienceIsFair
  <1> SUFFICES ASSUME AudienceInv PROVE AudienceTypeOK /\ AudienceIsFair
    OBVIOUS
  <1>1. AudienceTypeOK
    <2>1. \A h \in Hands : hand[h].step \in {"rest", "retire", "enqueue", "write", "next", "note"}
      BY HandHolds DEF AudienceInv, BuildSteps
    <2> QED BY <2>1 DEF AudienceInv, AudienceTypes, AudienceTypeOK
  <1>2. NobodyAgainstTheRules
    <2>1. SUFFICES ASSUME NEW p \in InAudience
                   PROVE  LET c == recipients[p].basis
                          IN  /\ MayBeAsked(c) /\ Fills(c) /\ ResolvedPhone(c) \in Phones
                              /\ (c.primary # NoPhone => Eligible(c))
      BY DEF NobodyAgainstTheRules
    <2>2. Lawful(recipients[p]) /\ recipients[p].status = "PENDING"
      BY DEF InAudience, AudienceInv, RowsAreLawful
    <2> QED BY <2>2 DEF Lawful, Eligible, ResolvedPhone
  <1>3. AudienceIsTheReference
    <2>1. SUFFICES ASSUME campaign.status = "READY", Settled
                   PROVE  /\ \A p \in Persons : recipients[p].status \in {"PENDING", "EXCLUDED"}
                          /\ (\A p \in Persons : recipients[p].basis.primary # NoPhone)
                                => InAudience = {p \in Persons : Chosen[p]}
                          /\ "late" \in mishap
                               \/ /\ campaign.recipientCount = Cardinality(InAudience)
                                  /\ campaign.excludedCount = PersonCount - Cardinality(InAudience)
      BY DEF AudienceIsTheReference
    <2>2. \A p \in Persons : recipients[p].status \in {"PENDING", "EXCLUDED"}
      BY <2>1, ReadyIsDecided
    <2>3. (\A p \in Persons : recipients[p].basis.primary # NoPhone)
              => InAudience = {p \in Persons : Chosen[p]}
      BY <2>1, ReadyIsTheReference
    <2>4. ASSUME "late" \notin mishap
          PROVE  /\ campaign.recipientCount = Cardinality(InAudience)
                 /\ campaign.excludedCount = PersonCount - Cardinality(InAudience)
      <3> DEFINE out == {p \in Persons : recipients[p].status = "EXCLUDED"}
      <3>1. \A p \in Persons : PageOf(p) <= LastAudiencePage
        BY PagesAreNumbered
      <3>2. /\ Of(recipients, "PENDING", LastAudiencePage) = InAudience
            /\ Of(recipients, "EXCLUDED", LastAudiencePage) = out
        BY <3>1 DEF Of, InAudience
      <3>3. /\ campaign.recipientCount = Cardinality(InAudience)
            /\ campaign.excludedCount = Cardinality(out)
        BY <2>1, <2>4, <3>2 DEF AudienceInv, BuildHolds, ReadyFits, CountsFit
      <3>4. InAudience \union out = Persons /\ InAudience \intersect out = {}
        BY <2>2 DEF InAudience
      <3> HIDE DEF out
      <3>5. IsFiniteSet(InAudience) /\ IsFiniteSet(out)
        BY <3>4, PagesAreNumbered, FS_Subset
      <3>6. /\ Cardinality(InAudience \union out)
                 = Cardinality(InAudience) + Cardinality(out)
                   - Cardinality(InAudience \intersect out)
            /\ Cardinality(InAudience) \in Nat /\ Cardinality(out) \in Nat
        BY <3>5, FS_Union, FS_CardinalityType
      <3>7. Cardinality(InAudience \intersect out) = 0
        BY <3>4, FS_EmptySet
      <3>8. Cardinality(Persons) = PersonCount /\ PersonCount \in Nat
        BY AudienceBounds, FS_Interval DEF Persons
      <3>9. Cardinality(out) = PersonCount - Cardinality(InAudience)
        BY <3>4, <3>6, <3>7, <3>8
      <3> QED BY <3>3, <3>9
    <2> QED BY <2>2, <2>3, <2>4
  <1>4. NumbersAreOnce
    <2>1. SUFFICES ASSUME campaign.status = "READY", Settled,
                          NEW p \in InAudience, NEW q \in InAudience, p < q,
                          recipients[p].phone = recipients[q].phone
                   PROVE  PageOf(p) < PageOf(q) /\ recipients[q].basis.primary = NoPhone
      BY DEF NumbersAreOnce
    <2>2. p \in Persons /\ q \in Persons /\ recipients[q].status = "PENDING"
      BY DEF InAudience
    <2>3. /\ recipients[q].basis \in Contacts /\ recipients[q].reason = "NONE"
          /\ recipients[q].phone = ResolvedPhone(recipients[q].basis)
          /\ EvaluateExclusion(recipients[q].basis, SeenBy(recipients, q)) = "NONE"
      BY <2>1, <2>2, ReadyIsDecided
    <2>4. recipients[q].phone \notin SeenBy(recipients, q)
      BY <2>3 DEF EvaluateExclusion
    <2>5. PageOf(p) # PageOf(q) /\ recipients[q].phone # recipients[q].basis.primary
      BY <2>1, <2>2, <2>4, SeenAreInAudience
    <2>6. PageOf(p) <= PageOf(q) /\ PageOf(p) \in Nat /\ PageOf(q) \in Nat
      <3>1. p <= q
        BY <2>1, <2>2, PagesAreNumbered
      <3>2. PageOf(p) \in Nat /\ PageOf(q) \in Nat
        BY <2>2, PagesAreNumbered
      <3> QED BY <2>2, <3>1, <3>2, PagesAreNumbered
    <2>7. recipients[q].basis.primary = NoPhone
      BY <2>3, <2>5 DEF ResolvedPhone
    <2> QED BY <2>5, <2>6, <2>7
  <1>5. DuplicatesHaveAFirst
    <2>1. SUFFICES ASSUME campaign.status = "READY", Settled, NEW p \in Persons,
                          recipients[p].reason = "DUPLICATE"
                   PROVE  \E q \in InAudience \ {p} : recipients[q].phone = recipients[p].phone
      BY DEF DuplicatesHaveAFirst
    <2>2. /\ recipients[p].phone = ResolvedPhone(recipients[p].basis)
          /\ EvaluateExclusion(recipients[p].basis, SeenBy(recipients, p)) = "DUPLICATE"
      BY <2>1, ReadyIsDecided
    <2>3. recipients[p].phone \in SeenBy(recipients, p)
      BY <2>2 DEF EvaluateExclusion
    <2>4. PICK q \in InAudience : q < p /\ recipients[q].phone = recipients[p].phone
      BY <2>1, <2>3, SeenAreInAudience
    <2>5. q # p
      BY <2>4, PagesAreNumbered DEF InAudience
    <2> QED BY <2>4, <2>5
  <1> QED BY <1>1, <1>2, <1>3, <1>4, <1>5 DEF AudienceIsFair

\* The type invariant of the people, the rows, the jobs and the invocations
\* (wa-campaign-snapshot).
THEOREM AudienceIsTyped == AudienceSpec => []AudienceTypeOK
  <1>1. AudienceInv /\ [AudienceNext]_audienceVars => AudienceInv'
    BY AudienceTypesAreKept, RowsStayLawful, BuildStaysAtOnePlace, BuildKeepsWhatItHolds
       DEF AudienceInv
  <1> QED BY <1>1, AudienceBegins, FairFollows, PTL DEF AudienceSpec

\* What a build promises is kept, whatever the people and their records, the
\* pages, the builds, the jobs that throw and the edits between the pages
\* (wa-campaign-snapshot, evaluateExclusion, findExistingPhones).
THEOREM AudienceCorrect == AudienceSpec => []AudienceIsFair
  <1>1. AudienceInv /\ [AudienceNext]_audienceVars => AudienceInv'
    BY AudienceTypesAreKept, RowsStayLawful, BuildStaysAtOnePlace, BuildKeepsWhatItHolds
       DEF AudienceInv
  <1> QED BY <1>1, AudienceBegins, FairFollows, PTL DEF AudienceSpec
-----------------------------------------------------------------------------
(***************************************************************************)
(* The studio.                                                             *)
(***************************************************************************)
\* Every behaviour of the studio is one of the audience and one of the desk.
LEMMA StudioImplements == StudioSpec => AudienceSpec /\ CampaignDeskSpec
  <1>1. StudioInit => AudienceInit /\ CampaignDeskInit
    BY DEF StudioInit
  <1>2. [StudioNext]_studioVars
          => [AudienceNext]_audienceVars /\ [CampaignDeskNext]_campaignDeskVars
    BY DEF StudioNext, studioVars
  <1> QED BY <1>1, <1>2, PTL DEF StudioSpec, AudienceSpec, CampaignDeskSpec

\* The type invariants of the audience and of the desk hold together.
THEOREM StudioIsTyped == StudioSpec => []StudioTypeOK
  BY StudioImplements, AudienceIsTyped, CampaignDeskIsTyped, PTL DEF StudioTypeOK
=============================================================================
