---------------------------- MODULE StatusMachine ----------------------------
(***************************************************************************)
(* The outbound status machine (domain/status-machine.ts): pure functions  *)
(* of a message's status and a receipt.                                    *)
(***************************************************************************)
EXTENDS Integers

MessageStatus == {"QUEUED", "ACCEPTED", "SENT", "DELIVERED", "READ", "PLAYED",
                  "FAILED"}

\* The values of META_STATUS_MAP.
ReceiptStatus == {"SENT", "DELIVERED", "READ", "PLAYED", "FAILED"}

\* READ and PLAYED are peers; FAILED is below everything but QUEUED.
Rank == [s \in MessageStatus |->
            CASE s = "ACCEPTED" -> 1
              [] s = "SENT" -> 2
              [] s = "DELIVERED" -> 3
              [] s \in {"READ", "PLAYED"} -> 4
              [] OTHER -> 0]

\* Mutant: the latest receipt wins.
AdvanceToLatest(current, incoming) ==
    IF current = "FAILED" THEN "FAILED" ELSE incoming

\* FAILED is terminal, and wins over everything below DELIVERED; any other
\* receipt moves the status up or not at all.
AdvanceStatus(current, incoming) ==
    IF current = "FAILED" THEN "FAILED"
    ELSE IF incoming = "FAILED"
    THEN IF Rank[current] >= Rank["DELIVERED"] THEN current ELSE "FAILED"
    ELSE IF Rank[incoming] > Rank[current] THEN incoming ELSE current

\* What a later status may be: never a lower rank, never out of FAILED, and
\* FAILED only from below DELIVERED.
MayFollow(later, earlier) ==
    \/ later = earlier
    \/ earlier # "FAILED" /\ later = "FAILED" /\ Rank[earlier] < Rank["DELIVERED"]
    \/ earlier # "FAILED" /\ later # "FAILED" /\ Rank[later] > Rank[earlier]

\* A status takes a receipt into account: it ranks at least as high, or the
\* message failed; a failure is only overridden by a delivery.
Reflects(status, receipt) ==
    IF receipt = "FAILED"
    THEN status = "FAILED" \/ Rank[status] >= Rank["DELIVERED"]
    ELSE status = "FAILED" \/ Rank[status] >= Rank[receipt]
=============================================================================
