------------------------------ MODULE Audience ------------------------------
(***************************************************************************)
(* Who a build lets into a campaign (wa-campaign-snapshot): the people in  *)
(* scan order, page by page, the exclusion matrix over them, and the rows  *)
(* the pages leave.  A page job writes its rows, queues the next page and  *)
(* notes its counts, and the queue runs it again when it throws.           *)
(*                                                                         *)
(* The status is CampaignLifecycle's: here a request and its transition    *)
(* are one step, and the audience definition stays what it is.  A page     *)
(* that dies while it writes has written all of its rows or none.          *)
(***************************************************************************)
EXTENDS Integers, FiniteSets, Bags

CONSTANTS
    PersonCount, PageSize,
    Phones, NoPhone,    \* numbers, canonical
    Contacts,           \* what a person's record can be
    Blocked,            \* numbers whose conversation is blocked
    Hands,              \* invocations that can be running at once
    MaxBuildAsks, MaxThrows, MaxEdits   \* bounds: builds, jobs that throw, records edited

ASSUME AudienceAssumption ==
    /\ {PersonCount, PageSize} \subseteq Nat \ {0}
    /\ {MaxBuildAsks, MaxThrows, MaxEdits} \subseteq Nat
    /\ NoPhone \notin Phones /\ Blocked \subseteq Phones
    /\ Contacts \subseteq [primary : Phones \union {NoPhone},
                           second : Phones \union {NoPhone},
                           consent : {"OPTED_IN", "UNKNOWN", "OPTED_OUT"},
                           fills : BOOLEAN]  \* every variable resolves

VARIABLES
    person,     \* the records
    marketing,  \* the category of the template
    campaign, recipients,   \* the campaign's row and its recipients' rows
    queue,      \* snapshot jobs
    hand,       \* the running invocations
    asks, throws, edits, mishap     \* history

audienceVars == <<person, marketing, campaign, recipients, queue, hand, asks, throws,
                  edits, mishap>>
peopleVars == <<person, marketing, edits>>

Persons == 1..PersonCount                   \* in scan order
PageOf(p) == ((p - 1) \div PageSize) + 1
LastAudiencePage == PageOf(PersonCount)
Scan(page) == {p \in Persons : PageOf(p) = page}

Verdicts == {"NONE", "OPTED_OUT", "NO_CONSENT", "INVALID_PHONE", "DUPLICATE", "BLOCKED",
             "MISSING_VARIABLES"}
NoRow == [status |-> "none"]
RecipientRow == [status : {"PENDING", "EXCLUDED", "SKIPPED"}, reason : Verdicts,
                 phone : Phones \union {NoPhone}, basis : Contacts]
Job == [page : 1..LastAudiencePage, accepted : Nat, excluded : Nat]
Resting == [step |-> "rest"]

At(h, step) == hand[h].step = step
Rest(h) == hand' = [hand EXCEPT ![h] = Resting]
Step(h, step) == hand' = [hand EXCEPT ![h].step = step]
-----------------------------------------------------------------------------
(***************************************************************************)
(* The exclusion matrix and one page of it.                                *)
(***************************************************************************)
\* The number a campaign would write to: the primary, or else the other.
ResolvedPhone(c) == IF c.primary # NoPhone THEN c.primary ELSE c.second

\* Every variable of the template has a value, or a fallback (resolveParameters).
Fills(c) == c.fills

MayBeAsked(c) == c.consent = "OPTED_IN" \/ (c.consent = "UNKNOWN" /\ ~marketing)

\* The first rule that matches.  Blocked conversations were looked up by the
\* primary numbers.
EvaluateExclusion(c, seen) ==
    IF c.consent = "OPTED_OUT" THEN "OPTED_OUT"
    ELSE IF ~MayBeAsked(c) THEN "NO_CONSENT"
    ELSE IF ResolvedPhone(c) = NoPhone THEN "INVALID_PHONE"
    ELSE IF ResolvedPhone(c) \in seen THEN "DUPLICATE"
    ELSE IF c.primary \in Blocked THEN "BLOCKED"
    ELSE IF ~Fills(c) THEN "MISSING_VARIABLES"
    ELSE "NONE"

\* Mutant: the numbers accepted on this page are not remembered.
RememberNot(accepted) == {}

Remember(accepted) == {ResolvedPhone(person[q]) : q \in accepted}

\* basis: the record the row was resolved from.
RowOf(c, verdict) ==
    [status |-> IF verdict = "NONE" THEN "PENDING" ELSE "EXCLUDED", reason |-> verdict,
     phone |-> ResolvedPhone(c), basis |-> c]

\* Each of the page is decided in its turn, beside the numbers of those before it.
DecidePage(page, taken) ==
    LET verdict[p \in Scan(page)] ==
            EvaluateExclusion(person[p],
                taken \union Remember({q \in Scan(page) : q < p /\ verdict[q] = "NONE"}))
    IN [p \in Scan(page) |-> RowOf(person[p], verdict[p])]

Accepted(rows) == {p \in DOMAIN rows : rows[p].status = "PENDING"}
Excluded(rows) == {p \in DOMAIN rows : rows[p].status = "EXCLUDED"}

\* Mutant: a retired row still takes its number.
TakesEver(row) == row.status # "none" /\ row.reason = "NONE"

\* A row that was accepted, and is not of a build since superseded.
Takes(row) == row.status \notin {"none", "SKIPPED"} /\ row.reason = "NONE"

\* Asked of the primary numbers of the page.
FindExistingPhones(page) ==
    {recipients[p].phone : p \in {q \in Persons : Takes(recipients[q])}}
        \intersect {person[p].primary : p \in Scan(page)}

\* Mutant: a row that is there already is left alone.
UpsertSkips(rows) ==
    [p \in Persons |-> IF p \in DOMAIN rows /\ recipients[p] = NoRow THEN rows[p]
                       ELSE recipients[p]]

\* One row per person: created, or written over.
UpsertRecipients(rows) ==
    [p \in Persons |-> IF p \in DOMAIN rows THEN rows[p] ELSE recipients[p]]
-----------------------------------------------------------------------------
(***************************************************************************)
(* The build request.                                                      *)
(***************************************************************************)
AskBuild(h) ==
    /\ At(h, "rest") /\ asks < MaxBuildAsks
    /\ campaign.status \in {"DRAFT", "SNAPSHOTTING", "READY"}
    /\ asks' = asks + 1
    /\ campaign' = [status |-> "SNAPSHOTTING", recipientCount |-> 0, excludedCount |-> 0]
    /\ mishap' = mishap \union
           (IF BagToSet(queue) # {} \/ \E g \in Hands : ~At(g, "rest") THEN {"rebuilt"} ELSE {})
    /\ hand' = [hand EXCEPT ![h] = [step |-> "retire"]]
    /\ UNCHANGED <<peopleVars, recipients, queue, throws>>

RetireRows(h) ==
    /\ At(h, "retire")
    /\ recipients' = [p \in Persons |->
           IF recipients[p].status \in {"PENDING", "EXCLUDED"}
           THEN [recipients[p] EXCEPT !.status = "SKIPPED"] ELSE recipients[p]]
    /\ Step(h, "enqueue")
    /\ UNCHANGED <<peopleVars, campaign, queue, asks, throws, mishap>>

\* A refused job fails the build.
EnqueueFirst(h) ==
    /\ At(h, "enqueue")
    /\ \/ /\ queue' = queue (+) SetToBag({[page |-> 1, accepted |-> 0, excluded |-> 0]})
          /\ campaign' = campaign
       \/ campaign' = [campaign EXCEPT !.status = "FAILED"] /\ queue' = queue
    /\ Rest(h)
    /\ UNCHANGED <<peopleVars, recipients, asks, throws, mishap>>
-----------------------------------------------------------------------------
(***************************************************************************)
(* One page job.                                                           *)
(***************************************************************************)
\* The status is looked at once; the page and the numbers taken are read.
DecideJob(h, j) ==
    /\ At(h, "rest") /\ BagIn(j, queue)
    /\ queue' = queue (-) SetToBag({j})
    /\ hand' = IF campaign.status # "SNAPSHOTTING" THEN hand
               ELSE [hand EXCEPT ![h] =
                        [step |-> "write", job |-> j,
                         rows |-> DecidePage(j.page, FindExistingPhones(j.page))]]
    /\ UNCHANGED <<peopleVars, campaign, recipients, asks, throws, mishap>>

WriteRows(h) ==
    /\ At(h, "write")
    /\ recipients' = UpsertRecipients(hand[h].rows)
    /\ Step(h, "next")
    /\ UNCHANGED <<peopleVars, campaign, queue, asks, throws, mishap>>

\* Mutant: every page begins its counts again.
CountsOfPage(h) == [accepted |-> Cardinality(Accepted(hand[h].rows)),
                    excluded |-> Cardinality(Excluded(hand[h].rows))]

\* The counts a job was given, and this page's.
Counts(h) == [accepted |-> hand[h].job.accepted + Cardinality(Accepted(hand[h].rows)),
              excluded |-> hand[h].job.excluded + Cardinality(Excluded(hand[h].rows))]

CountsWritten(h, status) ==
    [status |-> status, recipientCount |-> Counts(h).accepted,
     excludedCount |-> Counts(h).excluded]

QueueNextPage(h) ==
    /\ At(h, "next") /\ hand[h].job.page < LastAudiencePage
    /\ \/ /\ queue' = queue (+) SetToBag({[page |-> hand[h].job.page + 1,
                                           accepted |-> Counts(h).accepted,
                                           excluded |-> Counts(h).excluded]})
          /\ Step(h, "note")
          /\ campaign' = campaign
       \/ /\ campaign' = [campaign EXCEPT !.status = "FAILED"]
          /\ Rest(h) /\ queue' = queue
    /\ UNCHANGED <<peopleVars, recipients, asks, throws, mishap>>

\* A no-op transition of the copy: the counts are written whatever the status is.
NoteCounts(h) ==
    /\ At(h, "note")
    /\ campaign' = CountsWritten(h, campaign.status)
    /\ mishap' = mishap \union (IF campaign.status # "SNAPSHOTTING" THEN {"late"} ELSE {})
    /\ Rest(h)
    /\ UNCHANGED <<peopleVars, recipients, queue, asks, throws>>

FinishPages(h) ==
    /\ At(h, "next") /\ hand[h].job.page = LastAudiencePage
    /\ campaign' = CountsWritten(h, "READY")
    /\ Rest(h)
    /\ UNCHANGED <<peopleVars, recipients, queue, asks, throws, mishap>>

\* The invocation dies: a build request is gone, a job is run again, with the
\* payload it had, or given up.
Throw(h) ==
    /\ ~At(h, "rest") /\ throws < MaxThrows
    /\ throws' = throws + 1
    /\ \/ /\ hand[h].step \in {"write", "next", "note"}
          /\ queue' = queue (+) SetToBag({hand[h].job})
          /\ mishap' = mishap \union (IF At(h, "write") THEN {} ELSE {"retried"})
       \/ UNCHANGED <<queue, mishap>>
    /\ Rest(h)
    /\ UNCHANGED <<peopleVars, campaign, recipients, asks>>

\* A reply, an import or a colleague changes what a person's record says.
EditPerson(p, c) ==
    /\ edits < MaxEdits /\ c # person[p]
    /\ person' = [person EXCEPT ![p] = c]
    /\ edits' = edits + 1
    /\ UNCHANGED <<marketing, campaign, recipients, queue, hand, asks, throws, mishap>>
-----------------------------------------------------------------------------
AudienceInit ==
    /\ person \in [Persons -> Contacts] /\ marketing \in BOOLEAN
    /\ campaign = [status |-> "DRAFT", recipientCount |-> 0, excludedCount |-> 0]
    /\ recipients = [p \in Persons |-> NoRow]
    /\ queue = EmptyBag
    /\ hand = [h \in Hands |-> Resting]
    /\ asks = 0 /\ throws = 0 /\ edits = 0 /\ mishap = {}

AudienceNext ==
    \/ \E h \in Hands :
         \/ AskBuild(h) \/ RetireRows(h) \/ EnqueueFirst(h)
         \/ \E j \in BagToSet(queue) : DecideJob(h, j)
         \/ WriteRows(h) \/ QueueNextPage(h) \/ NoteCounts(h) \/ FinishPages(h) \/ Throw(h)
    \/ \E p \in Persons, c \in Contacts : EditPerson(p, c)

AudienceSpec == AudienceInit /\ [][AudienceNext]_audienceVars
-----------------------------------------------------------------------------
(***************************************************************************)
(* Properties                                                              *)
(***************************************************************************)
AudienceTypeOK ==
    /\ person \in [Persons -> Contacts] /\ marketing \in BOOLEAN
    /\ campaign.status \in {"DRAFT", "SNAPSHOTTING", "READY", "FAILED"}
    /\ {campaign.recipientCount, campaign.excludedCount} \subseteq Nat
    /\ recipients \in [Persons -> RecipientRow \union {NoRow}]
    /\ BagToSet(queue) \subseteq Job
    /\ \A h \in Hands : hand[h].step \in {"rest", "retire", "enqueue", "write", "next", "note"}
    /\ mishap \subseteq {"rebuilt", "retried", "late"}

InAudience == {p \in Persons : recipients[p].status = "PENDING"}
Settled == mishap \intersect {"rebuilt", "retried"} = {}

\* The reference: who a reader of the rules would let in, in scan order, with
\* no pages, rows or queue.
Eligible(c) == /\ MayBeAsked(c) /\ Fills(c)
               /\ ResolvedPhone(c) \in Phones \ Blocked

Chosen[p \in Persons] ==
    /\ Eligible(recipients[p].basis)
    /\ \A q \in 1..(p - 1) : Chosen[q] =>
           ResolvedPhone(recipients[q].basis) # ResolvedPhone(recipients[p].basis)

\* Who may not be written to is never let in, whatever happens to the build:
\* one who opted out, one who did not opt in (marketing), a record without a
\* usable number or with a variable missing, a number that is blocked.  (A
\* number that is not the person's primary is not looked up.)
NobodyAgainstTheRules ==
    \A p \in InAudience :
        LET c == recipients[p].basis
        IN MayBeAsked(c) /\ Fills(c) /\ ResolvedPhone(c) \in Phones
           /\ (c.primary # NoPhone => Eligible(c))

\* When every number is a primary one and no job ran again and no build
\* overlapped another, READY is the reference, nobody is without a row, and
\* the counts are its counts (until a late note of an earlier page).
AudienceIsTheReference ==
    campaign.status = "READY" /\ Settled =>
        /\ \A p \in Persons : recipients[p].status \in {"PENDING", "EXCLUDED"}
        /\ (\A p \in Persons : recipients[p].basis.primary # NoPhone)
              => InAudience = {p \in Persons : Chosen[p]}
        /\ "late" \in mishap \/ campaign.recipientCount = Cardinality(InAudience)
        /\ "late" \in mishap \/ campaign.excludedCount = PersonCount - Cardinality(InAudience)

\* A number is in the audience once: two rows with it are of two pages, and the
\* later one is not the person's primary number; or builds overlapped or a
\* page ran again.
NumbersAreOnce ==
    campaign.status = "READY" /\ Settled =>
        \A p, q \in InAudience : p < q /\ recipients[p].phone = recipients[q].phone
            => PageOf(p) < PageOf(q) /\ recipients[q].basis.primary = NoPhone

\* Nobody is a duplicate of nobody: who is excluded as one shares the number
\* with somebody who is in.
DuplicatesHaveAFirst ==
    campaign.status = "READY" /\ Settled =>
        \A p \in Persons : recipients[p].reason = "DUPLICATE"
            => \E q \in InAudience \ {p} : recipients[q].phone = recipients[p].phone

\* What a build promises (FR-CAM-3, D-26, D-27): the four above.
AudienceIsFair ==
    NobodyAgainstTheRules /\ AudienceIsTheReference /\ NumbersAreOnce /\ DuplicatesHaveAFirst

\* "so a failure costs one page and a resume costs nothing"
\* (wa-campaign-snapshot.ts:55), "the outcome is one correct row"
\* (campaign-recipients.ts:195): also after a page that ran again.
ResumeCostsNothing ==
    campaign.status = "READY" /\ "rebuilt" \notin mishap =>
        \A p \in Persons : recipients[p].reason = "DUPLICATE"
            => \E q \in InAudience \ {p} : recipients[q].phone = recipients[p].phone
=============================================================================
