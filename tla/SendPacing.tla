----------------------------- MODULE SendPacing -----------------------------
(***************************************************************************)
(* Who sends when (domain/pacing.ts, server/schedule.ts): the function     *)
(* that queues messages gives each an absolute slot and advances the lane's *)
(* cursor on the account, from a copy of the account it read before.       *)
(* Rates are in tenths of a message per second.                            *)
(***************************************************************************)
EXTENDS Integers, Sequences

CONSTANTS
    Pacers,         \* functions that schedule messages
    Ceiling,        \* sendThrottlePerSecond
    Share,          \* interactiveLaneShare, in tenths
    Second,         \* a second, in ticks of the clock
    LaneMinimum,    \* minimumInteractivePerSecond
    MaxBatch,       \* bound: messages scheduled at once
    MaxCursor,      \* bound: cursors from which a lane is scheduled
    MaxClock,       \* bound
    MaxCeiling      \* bound: ceilings LaneRatesFit looks at

ASSUME SendPacingAssumption ==
    /\ Ceiling \in Nat \ {0} /\ Share \in 0..10 /\ Second \in Nat \ {0}
    /\ LaneMinimum \in Nat \ {0}
    /\ {MaxBatch, MaxCursor, MaxClock, MaxCeiling} \subseteq Nat

VARIABLES
    laneClock,
    laneCursor,     \* interactiveCursorAt and campaignCursorAt
    pacer,
    laneSlots,      \* history: the slots given, in order
    laneShared      \* history: lanes on which two callers read one cursor

pacingVars == <<laneClock, laneCursor, pacer, laneSlots, laneShared>>

Lanes == {"INTERACTIVE", "CAMPAIGN"}
NotPacing == [step |-> "idle"]

Least(a, b) == IF a < b THEN a ELSE b
Greatest(a, b) == IF a > b THEN a ELSE b

\* Interactive first, up to what the campaign lane's floor leaves.
LaneRate(lane, ceiling, share) ==
    LET campaignFloor == Least(10, 5 * ceiling)
        interactive == Least(Greatest(10 * LaneMinimum, ceiling * share),
                             10 * ceiling - campaignFloor)
    IN IF lane = "INTERACTIVE" THEN interactive ELSE 10 * ceiling - interactive

Spacing(lane) == (10 * Second) \div LaneRate(lane, Ceiling, Share)

\* computeSlots: from the cursor, or from now if that is later.
SlotStart(cursor, now) == Greatest(now, cursor)
SlotsFrom(lane, start, n) == [i \in 1..n |-> start + (i - 1) * Spacing(lane)]
-----------------------------------------------------------------------------
\* The caller loads the account; scheduling comes several awaits later.
LoadCursor(p, lane, n) ==
    /\ pacer[p] = NotPacing
    /\ laneCursor[lane] <= MaxCursor
    /\ pacer' = [pacer EXCEPT ![p] = [step |-> "loaded", lane |-> lane, n |-> n,
                                      copy |-> laneCursor[lane]]]
    /\ UNCHANGED <<laneClock, laneCursor, laneSlots, laneShared>>

\* Mutant: the cursor advances by one slot, whatever the batch.
AdvanceCursorByOne(p) ==
    /\ pacer[p].step = "loaded"
    /\ LET lane == pacer[p].lane
           start == SlotStart(pacer[p].copy, laneClock)
       IN
       /\ laneCursor' = [laneCursor EXCEPT ![lane] = start + Spacing(lane)]
       /\ pacer' = [pacer EXCEPT ![p] =
              [step |-> "paced", lane |-> lane, n |-> pacer[p].n, start |-> start]]
       /\ laneShared' = IF laneCursor[lane] = pacer[p].copy THEN laneShared
                        ELSE laneShared \union {lane}
    /\ UNCHANGED <<laneClock, laneSlots>>

\* scheduleSend writes the cursor before it enqueues anything.
AdvanceCursor(p) ==
    /\ pacer[p].step = "loaded"
    /\ LET lane == pacer[p].lane
           start == SlotStart(pacer[p].copy, laneClock)
       IN
       /\ laneCursor' = [laneCursor EXCEPT ![lane] = start + pacer[p].n * Spacing(lane)]
       /\ pacer' = [pacer EXCEPT ![p] =
              [step |-> "paced", lane |-> lane, n |-> pacer[p].n, start |-> start]]
       /\ laneShared' = IF laneCursor[lane] = pacer[p].copy THEN laneShared
                        ELSE laneShared \union {lane}
    /\ UNCHANGED <<laneClock, laneSlots>>

\* One job per message; it dies after any number of them.
EnqueueSlots(p) ==
    /\ pacer[p].step = "paced"
    /\ \E landed \in 0..pacer[p].n :
         laneSlots' = [laneSlots EXCEPT ![pacer[p].lane] =
                          @ \o SlotsFrom(pacer[p].lane, pacer[p].start, landed)]
    /\ pacer' = [pacer EXCEPT ![p] = NotPacing]
    /\ UNCHANGED <<laneClock, laneCursor, laneShared>>

PacingTime ==
    /\ laneClock < MaxClock
    /\ laneClock' = laneClock + 1
    /\ UNCHANGED <<laneCursor, pacer, laneSlots, laneShared>>
-----------------------------------------------------------------------------
PacingInit ==
    /\ laneClock = 0
    /\ laneCursor = [l \in Lanes |-> 0]
    /\ pacer = [p \in Pacers |-> NotPacing]
    /\ laneSlots = [l \in Lanes |-> <<>>]
    /\ laneShared = {}

PacingNext ==
    \/ PacingTime
    \/ \E p \in Pacers :
         \/ \E lane \in Lanes, n \in 1..MaxBatch : LoadCursor(p, lane, n)
         \/ AdvanceCursor(p)
         \/ EnqueueSlots(p)

PacingSpec == PacingInit /\ [][PacingNext]_pacingVars
-----------------------------------------------------------------------------
PacingTypeOK ==
    /\ laneClock \in 0..MaxClock
    /\ laneCursor \in [Lanes -> Nat]
    /\ laneSlots \in [Lanes -> Seq(Nat)]
    /\ laneShared \subseteq Lanes

\* Both lanes move, and together they use the ceiling, never more (D-29).
LaneRatesFit ==
    \A ceiling \in 1..MaxCeiling, share \in 0..10 :
        LET rate(l) == LaneRate(l, ceiling, share) IN
        /\ rate("INTERACTIVE") + rate("CAMPAIGN") = 10 * ceiling
        /\ \A l \in Lanes : rate(l) > 0

(***************************************************************************)
(* No two messages of a lane are closer than its rate allows, whatever     *)
(* batches, quiet periods and deaths come between them (D-5, AR-12),       *)
(* unless two callers had read the same cursor; and the two lanes share    *)
(* the account's ceiling exactly.                                          *)
(***************************************************************************)
PaceIsKept ==
    /\ LaneRatesFit
    /\ \A l \in Lanes \ laneShared : \A i, j \in DOMAIN laneSlots[l] :
          i # j => laneSlots[l][j] - laneSlots[l][i] \notin (1 - Spacing(l))..(Spacing(l) - 1)
=============================================================================
