------------------------------- MODULE Accounts -------------------------------
(***************************************************************************)
(* The numbers of the workspaces of one server, and who receives their     *)
(* webhooks: the routing claims, shared by all workspaces, and each        *)
(* workspace's account records.  Both are written by the settings route,   *)
(* step by step; the records also by the health check and account events.  *)
(***************************************************************************)
EXTENDS Naturals, FiniteSets

CONSTANTS
    Workspaces, Numbers, Wabas,
    Nobody,
    Acts            \* bound: requests, checks and events, each used once

ASSUME AccountsAssumption ==
    /\ Numbers \intersect Wabas = {}
    /\ Nobody \notin Workspaces \union Numbers \union Wabas

VARIABLES
    claim,          \* kv, SERVER scope: whose a number is, a WABA is
    account,        \* the record of a number in a workspace
    act,            \* what is running
    heard,          \* the last account_update of a record
    installed,
    amiss           \* history, per workspace and number: what went between the steps

accountVars == <<claim, account, act, heard, installed, amiss>>

Unused == [kind |-> "none", step |-> "none"]
Over == [kind |-> "none", step |-> "done"]
NoAccount == [status |-> "NONE", waba |-> Nobody]

Doing(a, kind, step) == act[a].kind = kind /\ act[a].step = step
Goes(a, step) == act' = [act EXCEPT ![a] = IF step = "done" THEN Over ELSE [@ EXCEPT !.step = step]]
Busy(a) == act[a].step \notin {"none", "done"}

\* Who the act is for; its record.
W(a) == act[a].by
N(a) == act[a].number
Mine(a) == account[W(a)][N(a)]
Patch(a, status) == account' = [account EXCEPT ![W(a)][N(a)].status = status]
Amiss(a, c, when) == amiss' = IF when THEN [amiss EXCEPT ![W(a)][N(a)] = @ \union {c}] ELSE amiss

\* A request of the workspace writes claims: what is begun beside it overlaps.
Writing(w) == \E a \in Acts : act[a].kind \in {"connect", "disconnect", "install"} /\ Busy(a) /\ W(a) = w
Overlaps(w) ==
    amiss' = IF Writing(w) THEN [amiss EXCEPT ![w] = [n \in Numbers |-> @[n] \union {"overlap"}]]
             ELSE amiss
-----------------------------------------------------------------------------
(***************************************************************************)
(* connect                                                                 *)
(***************************************************************************)
\* Mutant: what another holds is taken.
MayClaimAnyway(w, owners) == TRUE

\* Ownership before anything else.
MayClaim(w, owners) == owners \subseteq {w, Nobody}

\* readClaimOwners; a conflict is answered 409.
ConnectAsks(a, w, n, b) ==
    /\ act[a] = Unused /\ installed[w]
    /\ act' = [act EXCEPT ![a] =
           IF MayClaim(w, {claim[n], claim[b]})
           THEN [kind |-> "connect", step |-> "free", by |-> w, number |-> n, waba |-> b,
                 owners |-> [k \in {n, b} |-> claim[k]]]
           ELSE Over]
    /\ Overlaps(w)
    /\ UNCHANGED <<claim, account, heard, installed>>

\* The record is found or made, and follows a number to another WABA.
ConnectRecords(a) ==
    /\ Doing(a, "connect", "free")
    /\ account' = [account EXCEPT ![W(a)][N(a)] =
           IF @ = NoAccount THEN [status |-> "PENDING", waba |-> act[a].waba]
           ELSE [@ EXCEPT !.waba = act[a].waba]]
    /\ Amiss(a, "moved", Mine(a) # NoAccount /\ Mine(a).waba # act[a].waba)
    /\ Goes(a, "recorded")
    /\ UNCHANGED <<claim, heard, installed>>

\* A claim is overwritten or deleted: another workspace's, when it came after
\* the act had looked.
Claim(a, k, owner) ==
    /\ claim' = [claim EXCEPT ![k] = owner]
    /\ amiss' = [w \in Workspaces |-> [n \in Numbers |-> amiss[w][n]
            \union (IF w = claim[k] /\ w # W(a) /\ act[a].owners[k] # claim[k] THEN {"race"} ELSE {})
            \union (IF w = W(a) /\ owner = Nobody THEN {"unproven"} ELSE {})]]
    /\ UNCHANGED <<account, heard, installed>>

ClaimPhone(a) == Doing(a, "connect", "recorded") /\ Claim(a, N(a), W(a)) /\ Goes(a, "phone")
ClaimWaba(a) == Doing(a, "connect", "phone") /\ Claim(a, act[a].waba, W(a)) /\ Goes(a, "claimed")

\* probeNumber; a number that does not answer keeps no claim it did not have.
ConnectProbes(a) ==
    /\ Doing(a, "connect", "claimed")
    /\ \/ Patch(a, "CONNECTED") /\ Goes(a, "done")
          /\ Amiss(a, "barred", heard[W(a)][N(a)] = "restricted")
       \/ Patch(a, "ERROR") /\ Goes(a, "failed") /\ UNCHANGED amiss
    /\ UNCHANGED <<claim, heard, installed>>

\* The rollback: what was nobody's is, again, nobody's.
UnclaimPhone(a) ==
    /\ Doing(a, "connect", "failed")
    /\ IF act[a].owners[N(a)] = Nobody THEN Claim(a, N(a), Nobody)
       ELSE UNCHANGED <<claim, account, heard, installed, amiss>>
    /\ Goes(a, "unclaimed")

UnclaimWaba(a) ==
    /\ Doing(a, "connect", "unclaimed")
    /\ IF act[a].owners[act[a].waba] = Nobody THEN Claim(a, act[a].waba, Nobody)
       ELSE UNCHANGED <<claim, account, heard, installed, amiss>>
    /\ Goes(a, "done")
-----------------------------------------------------------------------------
(***************************************************************************)
(* disconnect                                                              *)
(***************************************************************************)
\* Mutant: the WABA's claim goes with the first number.
InUseNever(w, n) == FALSE

\* countOtherAccountsOnWaba
InUse(w, n) ==
    \E m \in Numbers \ {n} :
        account[w][m].waba = account[w][n].waba /\ account[w][m].status \notin {"NONE", "DISABLED"}

DisconnectAsks(a, w, n) ==
    /\ act[a] = Unused /\ installed[w] /\ account[w][n] # NoAccount
    /\ act' = [act EXCEPT ![a] =
           [kind |-> "disconnect", by |-> w, number |-> n, waba |-> account[w][n].waba,
            step |-> "counted", inUse |-> InUse(w, n)]]
    /\ Overlaps(w)
    /\ UNCHANGED <<claim, account, heard, installed>>

\* clearClaims: ours only.
ClearPhone(a) ==
    /\ Doing(a, "disconnect", "counted")
    /\ act' = [act EXCEPT ![a] = [@ EXCEPT !.step = IF claim[act[a].waba] = W(a) /\ ~act[a].inUse
                                                    THEN "clearing" ELSE "cleared"]]
    /\ claim' = IF claim[N(a)] = W(a) THEN [claim EXCEPT ![N(a)] = Nobody] ELSE claim
    /\ UNCHANGED <<account, heard, installed, amiss>>

ClearWaba(a) ==
    /\ Doing(a, "disconnect", "clearing")
    /\ LET k == act[a].waba IN
         /\ claim' = [claim EXCEPT ![k] = Nobody]
         /\ amiss' = IF claim[k] \in {W(a), Nobody} THEN amiss
                     ELSE [amiss EXCEPT ![claim[k]] = [n \in Numbers |-> @[n] \union {"race"}]]
    /\ Goes(a, "cleared")
    /\ UNCHANGED <<account, heard, installed>>

Disable(a) ==
    /\ Doing(a, "disconnect", "cleared")
    /\ Patch(a, "DISABLED")
    /\ Goes(a, "done")
    /\ UNCHANGED <<claim, heard, installed, amiss>>
-----------------------------------------------------------------------------
(***************************************************************************)
(* The record alone: test, the health check, an account_update.            *)
(***************************************************************************)
\* test takes any account; the check lists those not disabled.
ProbeLists(a, w, n, kind) ==
    /\ act[a] = Unused /\ installed[w]
    /\ account[w][n].status \notin (IF kind = "test" THEN {"NONE"} ELSE {"NONE", "DISABLED"})
    /\ act' = [act EXCEPT ![a] = [kind |-> kind, by |-> w, number |-> n, step |-> "probing"]]
    /\ UNCHANGED <<claim, account, heard, installed, amiss>>

\* A transient failure leaves the status (the check, three times).
ProbeAnswers(a) ==
    /\ act[a].step = "probing"
    /\ \/ Patch(a, "CONNECTED")
       \/ Patch(a, "ERROR")
       \/ act[a].kind = "check" /\ UNCHANGED account
    /\ LET now == account'[W(a)][N(a)].status IN
         amiss' = [amiss EXCEPT ![W(a)][N(a)] = @
              \union (IF Mine(a).status = "DISABLED" /\ now # "DISABLED" THEN {"revived"} ELSE {})
              \union (IF now = "CONNECTED" /\ heard[W(a)][N(a)] = "restricted"
                      THEN {"barred"} ELSE {})]
    /\ Goes(a, "done")
    /\ UNCHANGED <<claim, heard, installed>>

\* processAccountEvent reads the record ...
EventReadsAccount(a, w, n, said) ==
    /\ act[a] = Unused /\ installed[w] /\ account[w][n] # NoAccount
    /\ act' = [act EXCEPT ![a] = [kind |-> said, by |-> w, number |-> n, step |-> "told",
                                  copy |-> account[w][n].status]]
    /\ UNCHANGED <<claim, account, heard, installed, amiss>>

\* ... and clears an error only of a record that had one.
EventPatchesAccount(a) ==
    /\ act[a].step = "told"
    /\ \/ act[a].kind = "restricted" /\ Patch(a, "ERROR")
       \/ act[a].kind = "verified" /\ act[a].copy = "ERROR" /\ Patch(a, "CONNECTED")
       \/ act[a].kind = "verified" /\ act[a].copy # "ERROR" /\ UNCHANGED account
    /\ heard' = [heard EXCEPT ![W(a)][N(a)] = act[a].kind]
    /\ Amiss(a, "revived", Mine(a).status \notin {act[a].copy} \ {"DISABLED"})
    /\ Goes(a, "done")
    /\ UNCHANGED <<claim, installed>>
-----------------------------------------------------------------------------
(***************************************************************************)
(* uninstall; post-install, also of an upgrade.                            *)
(***************************************************************************)
\* One account after another.
Ticks(a, n) ==
    LET left == act[a].todo \ {n} IN
    act' = [act EXCEPT ![a] = IF left = {} THEN Over ELSE [@ EXCEPT !.todo = left]]

\* Nothing else of the workspace runs then.
Uninstall(a, w) ==
    /\ act[a] = Unused /\ installed[w]
    /\ \A b \in Acts : Busy(b) => W(b) # w
    /\ installed' = [installed EXCEPT ![w] = FALSE]
    /\ LET todo == {n \in Numbers : account[w][n] # NoAccount} IN
         act' = [act EXCEPT ![a] =
             IF todo = {} THEN Over
             ELSE [kind |-> "uninstall", step |-> "listed", by |-> w, todo |-> todo]]
    /\ UNCHANGED <<claim, account, heard, amiss>>

\* One account's claims are released, ours only; or that fails, for it alone.
Release(a, n) ==
    /\ Doing(a, "uninstall", "listed") /\ n \in act[a].todo
    /\ LET keys == {k \in {n, account[W(a)][n].waba} : claim[k] = W(a)} IN
         \/ /\ claim' = [k \in DOMAIN claim |-> IF k \in keys THEN Nobody ELSE claim[k]]
            /\ UNCHANGED amiss
         \/ /\ keys # {} /\ UNCHANGED claim
            /\ amiss' = [amiss EXCEPT ![W(a)][n] = @ \union {"died"}]
    /\ Ticks(a, n)
    /\ UNCHANGED <<account, heard, installed>>

\* Only connected records are listed: any other is passed over, and the
\* uninstall had released its claims.
Install(a, w) ==
    /\ act[a] = Unused
    /\ \A b \in Acts : act[b].kind = "uninstall" /\ Busy(b) => W(b) # w
    /\ installed' = [installed EXCEPT ![w] = TRUE]
    /\ LET todo == {n \in Numbers : account[w][n].status = "CONNECTED"} IN
         act' = [act EXCEPT ![a] =
             IF todo = {} THEN Over
             ELSE [kind |-> "install", step |-> "listed", by |-> w, todo |-> todo]]
    /\ IF installed[w] THEN Overlaps(w)
       ELSE amiss' = [amiss EXCEPT ![w] = [n \in Numbers |-> @[n]
                \union (IF account[w][n].status \in {"PENDING", "ERROR"} THEN {"passed"} ELSE {})]]
    /\ UNCHANGED <<claim, account, heard>>

\* repairClaims: what another holds is only reported.
Repair(a, n) ==
    /\ Doing(a, "install", "listed") /\ n \in act[a].todo
    /\ Ticks(a, n)
    /\ LET keys == {n, account[W(a)][n].waba} IN
         IF MayClaim(W(a), {claim[k] : k \in keys})
         THEN /\ claim' = [k \in DOMAIN claim |-> IF k \in keys THEN W(a) ELSE claim[k]]
              /\ amiss' = [amiss EXCEPT ![W(a)][n] = @ \ {"unproven", "died", "revived", "passed"}]
         ELSE /\ UNCHANGED claim
              /\ amiss' = [amiss EXCEPT ![W(a)][n] = @ \union {"taken"}]
    /\ UNCHANGED <<account, heard, installed>>
-----------------------------------------------------------------------------
\* A request dies between two of its steps.
ActDies(a) ==
    /\ act[a].kind \in {"connect", "disconnect"} /\ Busy(a)
    /\ Goes(a, "done")
    /\ Amiss(a, "died", TRUE)
    /\ UNCHANGED <<claim, account, heard, installed>>

\* Nothing yet, or one number that a workspace has connected.
AccountsInit ==
    /\ \E first \in Workspaces \union {Nobody}, number \in Numbers, waba \in Wabas :
         /\ claim = [k \in Numbers \union Wabas |-> IF k \in {number, waba} THEN first ELSE Nobody]
         /\ account = [w \in Workspaces |-> [n \in Numbers |->
                IF w = first /\ n = number THEN [status |-> "CONNECTED", waba |-> waba]
                ELSE NoAccount]]
    /\ act = [a \in Acts |-> Unused]
    /\ heard = [w \in Workspaces |-> [n \in Numbers |-> "none"]]
    /\ installed = [w \in Workspaces |-> TRUE]
    /\ amiss = [w \in Workspaces |-> [n \in Numbers |-> {}]]

AccountsNext ==
    \E a \in Acts :
        \/ ConnectRecords(a) \/ ClaimPhone(a) \/ ClaimWaba(a) \/ ConnectProbes(a)
        \/ UnclaimPhone(a) \/ UnclaimWaba(a)
        \/ ClearPhone(a) \/ ClearWaba(a) \/ Disable(a)
        \/ ProbeAnswers(a) \/ EventPatchesAccount(a) \/ ActDies(a)
        \/ \E w \in Workspaces : Uninstall(a, w) \/ Install(a, w)
        \/ \E n \in Numbers : Release(a, n) \/ Repair(a, n)
        \/ \E w \in Workspaces, n \in Numbers :
             \/ \E b \in Wabas : ConnectAsks(a, w, n, b)
             \/ DisconnectAsks(a, w, n)
             \/ \E kind \in {"test", "check"} : ProbeLists(a, w, n, kind)
             \/ \E said \in {"restricted", "verified"} : EventReadsAccount(a, w, n, said)

AccountsSpec == AccountsInit /\ [][AccountsNext]_accountVars
-----------------------------------------------------------------------------
AccountsTypeOK ==
    /\ claim \in [Numbers \union Wabas -> Workspaces \union {Nobody}]
    /\ \A w \in Workspaces, n \in Numbers :
         /\ account[w][n] = NoAccount \/ account[w][n] \in
               [status : {"PENDING", "CONNECTED", "ERROR", "DISABLED"}, waba : Wabas]
         /\ amiss[w][n] \subseteq
               {"race", "unproven", "revived", "died", "overlap", "moved", "barred", "taken",
                "passed"}

Quiet(w) == \A a \in Acts : Busy(a) => W(a) # w

\* The resolver: the number first, then the WABA.
RoutedTo(n, b) == IF claim[n] # Nobody THEN claim[n] ELSE claim[b]

\* "Writing the claim and the record together ... is what makes that
\* impossible": a number that is shown as connected receives its messages and
\* its account's events, unless its claims were taken back, lost in a race, or
\* a request was interrupted, or the record came to life by itself, or a
\* reinstallation had passed it over.
ConnectedIsReached ==
    \A w \in Workspaces, n \in Numbers :
        account[w][n].status = "CONNECTED" /\ installed[w] /\ Quiet(w) =>
            \/ {RoutedTo(n, account[w][n].waba), claim[account[w][n].waba]} = {w}
            \/ amiss[w][n] \intersect
                 {"race", "unproven", "revived", "died", "overlap", "taken", "passed"} # {}

\* "Clearing it would break the others": and what no number of a workspace
\* needs is free for another.
ClaimIsNeeded ==
    \A k \in Numbers \union Wabas : LET w == claim[k] IN
        w # Nobody /\ Quiet(w) =>
            \E n \in Numbers :
                \/ installed[w] /\ account[w][n].status \notin {"NONE", "DISABLED"} /\ k \in {n, account[w][n].waba}
                \/ amiss[w][n] \intersect {"race", "moved", "died", "overlap"} # {}

\* A number Meta has restricted does not send again before Meta says so, unless
\* a probe was answered meanwhile.
RestrictedIsStopped ==
    \A w \in Workspaces, n \in Numbers :
        heard[w][n] = "restricted" /\ account[w][n].status = "CONNECTED" =>
            "barred" \in amiss[w][n]

(***************************************************************************)
(* A number is whose it says it is.                                        *)
(***************************************************************************)
AccountsAreRouted == ConnectedIsReached /\ ClaimIsNeeded /\ RestrictedIsStopped
=============================================================================
