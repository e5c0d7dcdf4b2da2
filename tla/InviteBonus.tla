---- MODULE InviteBonus ----
(***************************************************************************)
(* The bonus both sides of an invite are granted (apps/web/src/lib/        *)
(* credits.ts): for the invites of one inviter, settlements that decide    *)
(* and re-decide the bonus whenever either side signs in or opens the      *)
(* invites page.  A settlement is a sequence of database calls without a   *)
(* transaction; several run at once.                                       *)
(***************************************************************************)
EXTENDS Integers, FiniteSets

CONSTANTS Invites,     \* the inviter's invites
          Settlers,    \* requests that may be settling at once
          Cap,         \* INVITE_BONUS_MONTHLY_CAP
          MaxFailed    \* settlements that may fail on the way

ASSUME InviteConstants == /\ Invites # {} /\ IsFiniteSet(Invites)
                          /\ Cap \in Nat /\ MaxFailed \in Nat

Sides == {"invitee", "inviter"}

VARIABLES used,        \* invites an account joined on
          network,     \* invites whose two sides are recorded on one network
          confirmed,   \* invites whose invitee confirmed the email
          bonus,       \* [Invites -> [Sides -> invite_bonuses.status]]
          granted,     \* [Invites -> [Sides -> grants in credit_ledger]]
          settler,     \* [Settlers -> how far the settlement is]
          failed,
          crowded      \* history: two settlements were under way at once

inviteVars == <<used, network, confirmed, bonus, granted, settler, failed, crowded>>

Unknown == [s \in Sides |-> "none"]
Free == [pc |-> "free", invite |-> CHOOSE i \in Invites : TRUE, seen |-> Unknown, plan |-> Unknown]

InvitesInit == /\ used = {}
        /\ network = {}
        /\ confirmed = {}
        /\ bonus = [i \in Invites |-> Unknown]
        /\ granted = [i \in Invites |-> [s \in Sides |-> 0]]
        /\ settler = [t \in Settlers |-> Free]
        /\ failed = 0
        /\ crowded = FALSE

Enter(t, i, pc) ==
    /\ settler[t] = Free
    /\ settler' = [settler EXCEPT ![t] = [Free EXCEPT !.pc = pc, !.invite = i]]
    /\ crowded' = (crowded \/ \E other \in Settlers \ {t} : settler[other] # Free)

\* acceptInvite: the invite is claimed (aff_claim_invite), then the invitee's network
\* is recorded, then the bonus is settled.
Accept(t, i) ==
    /\ i \notin used
    /\ used' = used \cup {i}
    /\ Enter(t, i, "network")
    /\ UNCHANGED <<network, confirmed, bonus, granted, failed>>

PutNetwork(t) ==
    /\ settler[t].pc = "network"
    /\ network' \in {network, network \cup {settler[t].invite}}
    /\ settler' = [settler EXCEPT ![t].pc = "read"]
    /\ UNCHANGED <<used, confirmed, bonus, granted, failed, crowded>>

\* settleInvitesFor: a sign-in, or a visit to the invites page, of either side.
Visit(t, i) ==
    /\ i \in used
    /\ Enter(t, i, "read")
    /\ UNCHANGED <<used, network, confirmed, bonus, granted, failed>>

Confirm(i) ==
    /\ i \in used \ confirmed
    /\ confirmed' = confirmed \cup {i}
    /\ UNCHANGED <<used, network, bonus, granted, settler, failed, crowded>>

Undecided(status) == status \in {"none", "pending"}

\* The rows of the two sides, as the settlement will act on them.
Read(t) ==
    /\ settler[t].pc = "read"
    /\ LET rows == bonus[settler[t].invite]
       IN settler' = [settler EXCEPT ![t] =
              IF \E s \in Sides : Undecided(rows[s])
              THEN [@ EXCEPT !.pc = "judge", !.seen = rows] ELSE Free]
    /\ UNCHANGED <<used, network, confirmed, bonus, granted, failed, crowded>>

\* The inviter's grants of the last thirty days (none grows old here).
InviterGrants == Cardinality({i \in Invites : bonus[i]["inviter"] = "granted"})

AtCap == InviterGrants >= Cap

\* bonusVerdict, on the facts read at once; the mailbox checks, fixed for a pair, are
\* denials like the shared network.
Verdict(i) == CASE i \notin confirmed    -> "hold"
                [] i \in network     -> "deny"
                [] OTHER                 -> IF AtCap THEN "cap" ELSE "grant"

\* Writing the verdict itself (mutant).
VerdictAsStatus(verdict, side) == verdict

\* What becomes of an undecided side; the cap holds back the inviter only.
Plan(verdict, side) ==
    CASE verdict = "hold" -> "pending"
      [] verdict = "deny" -> "denied"
      [] verdict = "cap" /\ side = "inviter" -> "pending"
      [] OTHER -> "granted"

\* Writing the row without the grant (mutant).
PutOnly(plan)   == "put"
\* A grant goes to the ledger before the row says so.
FirstCall(plan) == IF plan = "granted" THEN "history" ELSE "put"

\* The sides are served in order, the invitee first; plan is "none" for a side that
\* was decided, or has been served.
Turn(plan) == IF plan["invitee"] # "none" THEN "invitee" ELSE "inviter"
Pursue(t, plan) ==
    settler' = [settler EXCEPT ![t] =
        IF \E s \in Sides : plan[s] # "none"
        THEN [@ EXCEPT !.pc = FirstCall(plan[Turn(plan)]), !.seen = Unknown, !.plan = plan] ELSE Free]

Judge(t) ==
    /\ settler[t].pc = "judge"
    /\ LET v == Verdict(settler[t].invite)
       IN Pursue(t, [s \in Sides |-> IF Undecided(settler[t].seen[s]) THEN Plan(v, s) ELSE "none"])
    /\ UNCHANGED <<used, network, confirmed, bonus, granted, failed, crowded>>

Side(t) == Turn(settler[t].plan)

\* grantOnce looks for the grant in the ledger's history,
History(t) ==
    /\ settler[t].pc = "history"
    /\ settler' = [settler EXCEPT ![t].pc = IF granted[settler[t].invite][Side(t)] > 0 THEN "put" ELSE "insert"]
    /\ UNCHANGED <<used, network, confirmed, bonus, granted, failed, crowded>>

\* and inserts it; the ledger's unique index refuses one that came between.
Inserts(n) == n = 0

Insert(t) ==
    /\ settler[t].pc = "insert"
    /\ LET i == settler[t].invite
       IN granted' = IF Inserts(granted[i][Side(t)])
                     THEN [granted EXCEPT ![i][Side(t)] = @ + 1] ELSE granted
    /\ settler' = [settler EXCEPT ![t].pc = "put"]
    /\ UNCHANGED <<used, network, confirmed, bonus, failed, crowded>>

\* putBonus is an upsert, whatever the row has become.
Put(t) ==
    /\ settler[t].pc = "put"
    /\ bonus' = [bonus EXCEPT ![settler[t].invite][Side(t)] = settler[t].plan[Side(t)]]
    /\ Pursue(t, [settler[t].plan EXCEPT ![Side(t)] = "none"])
    /\ UNCHANGED <<used, network, confirmed, granted, failed, crowded>>

\* A call fails: the settlement is given up, and logged.
GiveUp(t) ==
    /\ settler[t] # Free /\ failed < MaxFailed
    /\ settler' = [settler EXCEPT ![t] = Free]
    /\ failed' = failed + 1
    /\ UNCHANGED <<used, network, confirmed, bonus, granted, crowded>>

Settle(t) == PutNetwork(t) \/ Read(t) \/ Judge(t) \/ History(t) \/ Insert(t) \/ Put(t)

InvitesNext == \/ \E i \in Invites : Confirm(i)
        \/ \E t \in Settlers : \/ \E i \in Invites : Accept(t, i) \/ Visit(t, i)
                               \/ Settle(t) \/ GiveUp(t)

InvitesSpec == InvitesInit /\ [][InvitesNext]_inviteVars

----------------------------------------------------------------------------
InvitesTypeOK ==
    /\ used \subseteq Invites /\ confirmed \subseteq used /\ network \subseteq used
    /\ bonus \in [Invites -> [Sides -> {"none", "pending", "granted", "denied"}]]
    /\ granted \in [Invites -> [Sides -> Nat]]
    /\ settler \in [Settlers ->
           [pc : {"free", "network", "read", "judge", "history", "insert", "put"}, invite : Invites,
            seen : [Sides -> {"none", "pending", "granted", "denied"}],
            plan : [Sides -> {"none", "pending", "granted", "denied"}]]]
    /\ failed \in 0 .. MaxFailed
    /\ crowded \in BOOLEAN

\* Settlements that race, fail half-way or are repeated credit a side of an invite
\* once (credits.ts:432-442 and the ledger's unique index).
CreditedOnce == \A i \in Invites, s \in Sides : granted[i][s] <= 1

\* A row that says granted is backed by the ledger, whichever call failed and however
\* the settlements interleaved: the promised days are never only on paper.
GrantedIsCredited ==
    \A i \in Invites, s \in Sides : bonus[i][s] = "granted" => granted[i][s] > 0

\* Settlements that take turns pay the inviter for no more invites than the cap, also
\* after some of them failed half-way (credits.ts:22-23).
CapHolds == ~crowded => InviterGrants <= Cap

\* A bonus is in the ledger once, when the row says so, and within the cap.
BonusesHold == CreditedOnce /\ GrantedIsCredited /\ CapHolds

\* 'granted' is final (20261026200200_invites_and_billing_lockdown.sql:9-11).
GrantedIsFinal ==
    [][\A i \in Invites, s \in Sides : bonus[i][s] = "granted" => bonus'[i][s] = "granted"]_inviteVars
====
