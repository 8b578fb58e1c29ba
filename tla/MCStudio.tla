------------------------------- MODULE MCStudio -------------------------------
(***************************************************************************)
(* The studio: whom a build lets into a campaign (Audience), and what its  *)
(* writer and its approver see of it (CampaignDesk).  Each behaviour is    *)
(* one of them (place), the second on one of two instances, and the        *)
(* variables of the other stay as they were.                               *)
(***************************************************************************)
EXTENDS Audience, CampaignDesk, TLC

CONSTANTS a, b, h1, h2

VARIABLE place

studioVars == <<place, audienceVars, campaignDeskVars>>

\* The people: a number and its owner, the same number as somebody's other
\* one, a blocked primary beside a number that is not, a variable missing, and
\* an opt-out.
MCContacts ==
    {[primary |-> a, second |-> NoPhone, consent |-> "OPTED_IN", fills |-> TRUE],
     [primary |-> NoPhone, second |-> a, consent |-> "OPTED_IN", fills |-> TRUE],
     [primary |-> b, second |-> a, consent |-> "UNKNOWN", fills |-> TRUE],
     [primary |-> a, second |-> NoPhone, consent |-> "OPTED_IN", fills |-> FALSE],
     [primary |-> b, second |-> NoPhone, consent |-> "OPTED_OUT", fills |-> TRUE]}

\* Bounds: two builds and a job that throws, or one build and a record edited
\* between two pages of it.  (Of a step.)
PagesBound == /\ edits' > edits => asks = 1 /\ throws = 0 /\ \E h \in Hands : At(h, "next")
              /\ edits' = 1 => asks' + throws' = 1

\* Bounds: a behaviour ends with the launch.  One person has one screen at a
\* time (CampaignsView); of builders, edits, failures and samples under way
\* there are four, and one audience is chosen.  Or two people have a screen each, with one edit by a builder
\* that is opened once, and no call fails.
DeskBound ==
    IF place = "one"
    THEN /\ ~(IsOpen /\ detail.open)
         /\ opens + strokes + breaks + Cardinality(samples) <= 4
         /\ IsOpen => builder.form["audience"] < 2
    ELSE opens <= 1 /\ strokes <= 1 /\ breaks = 0 /\ Cardinality(samples) <= 1

StudioInit ==
    /\ AudienceInit /\ CampaignDeskInit
    /\ place \in {"pages", "one", "two"}
    /\ place = "pages" \/ (~marketing /\ \A p, q \in Persons : person[p] = person[q]
                           /\ person[p].primary = NoPhone)
    /\ place # "pages" \/ record = NoRecord

StudioNext ==
    /\ place' = place
    /\ \/ /\ place = "pages" /\ AudienceNext /\ PagesBound
          /\ UNCHANGED campaignDeskVars
       \/ /\ place \in {"one", "two"} /\ launched.total = 0
          /\ CampaignDeskNext /\ DeskBound'
          /\ UNCHANGED audienceVars

StudioSpec == StudioInit /\ [][StudioNext]_studioVars

StudioTypeOK == AudienceTypeOK /\ CampaignDeskTypeOK

StudioSymmetry == Permutations({h1, h2})
=============================================================================
