---- MODULE Credits ----
(***************************************************************************)
(* Invites and credit codes as their tables keep them (apps/web/src/lib/   *)
(* credits.ts over the functions of the migrations): the invites of one    *)
(* inviter, who has a quota, and one credit code with a limit.  Requests   *)
(* interleave between database calls; each function of the database is one *)
(* step.  What an invite earns is the subject of InviteBonus.              *)
(***************************************************************************)
EXTENDS Integers, FiniteSets

CONSTANTS InviteIds, Accounts,
          Handlers,         \* requests served at once
          Quota,            \* INVITE_QUOTA
          MaxRedemptions,   \* of the credit code
          MaxDropped        \* bound: requests that die, or whose answer is lost

ASSUME CreditConstants == /\ {Quota, MaxRedemptions, MaxDropped} \subseteq Nat
                          /\ "nobody" \notin Accounts

VARIABLES usable,      \* invites made, and not revoked
          revoked,
          usedBy,      \* whom an invite brought
          shown,       \* invites whose code the inviter has been given
          sides,       \* invite_network: the sides on record
          redeemedBy, redemptions, codeRevoked,
          codeGrants,  \* grants of the code in each account's ledger
          handler,
          dropped

creditVars == <<usable, revoked, usedBy, shown, sides, redeemedBy, redemptions, codeRevoked, codeGrants, handler, dropped>>

Waiting == [pc |-> "idle", invite |-> "none", who |-> "none"]

CreditsInit ==
    /\ usable = {} /\ revoked = {} /\ shown = {}
    /\ usedBy = [i \in InviteIds |-> "nobody"]
    /\ sides = [i \in InviteIds |-> {}]
    /\ redeemedBy = {} /\ redemptions = 0 /\ codeRevoked = FALSE
    /\ codeGrants = [x \in Accounts |-> 0]
    /\ handler = [h \in Handlers |-> Waiting]
    /\ dropped = 0

Used   == {i \in InviteIds : usedBy[i] # "nobody"}
Becomes(h, pc, i, x) == handler' = [handler EXCEPT ![h] = [pc |-> pc, invite |-> i, who |-> x]]
Ends(h) == handler' = [handler EXCEPT ![h] = Waiting]
-----------------------------------------------------------------------------
(* Making an invite: aff_insert_invite, the inviter's network, the answer.   *)

\* A mutant: a used invite, once revoked, makes room for another.
CountedOpen == usable

\* aff_count_invites: what is not revoked, or was used.
Counted == usable \cup Used

InsertInvite(h, i) ==
    /\ handler[h] = Waiting
    /\ i \notin usable \cup revoked
    /\ Cardinality(Counted) < Quota
    /\ usable' = usable \cup {i}
    /\ Becomes(h, "sender", i, "none")
    /\ UNCHANGED <<revoked, usedBy, shown, sides, redeemedBy, redemptions, codeRevoked, codeGrants, dropped>>

\* putNetwork() merges one side into the row.
Recorded(i, side) == sides' = [sides EXCEPT ![i] = @ \cup {side}]

RecordSender(h) ==
    /\ handler[h].pc = "sender"
    /\ Recorded(handler[h].invite, "inviter")
    /\ shown' = shown \cup {handler[h].invite}
    /\ Ends(h)
    /\ UNCHANGED <<usable, revoked, usedBy, redeemedBy, redemptions, codeRevoked, codeGrants, dropped>>
-----------------------------------------------------------------------------
(* Revoking one: the list is read, and aff_revoke_invite asks nothing more.  *)

StartRevoke(h, i) ==
    /\ handler[h] = Waiting
    /\ i \in usable \cup revoked /\ i \notin Used
    /\ Becomes(h, "revoke", i, "none")
    /\ UNCHANGED <<usable, revoked, usedBy, shown, sides, redeemedBy, redemptions, codeRevoked, codeGrants, dropped>>

Revoke(h) ==
    /\ handler[h].pc = "revoke"
    /\ usable' = usable \ {handler[h].invite}
    /\ revoked' = revoked \cup {handler[h].invite}
    /\ Ends(h)
    /\ UNCHANGED <<usedBy, shown, sides, redeemedBy, redemptions, codeRevoked, codeGrants, dropped>>
-----------------------------------------------------------------------------
(* Accepting one: aff_invited_by, aff_claim_invite, the invitee's network.   *)

Joined(x) == \E i \in InviteIds : usedBy[i] = x

StartAccept(h, i, x) ==
    /\ handler[h] = Waiting
    /\ i \in shown /\ ~Joined(x)
    /\ Becomes(h, "claim", i, x)
    /\ UNCHANGED <<usable, revoked, usedBy, shown, sides, redeemedBy, redemptions, codeRevoked, codeGrants, dropped>>

\* A mutant: what was read before is not asked again.
JoinsUnused(i, x) == i \notin Used

\* One use of an invite, and one invite of an account, which an index also keeps.
MayJoin(i, x) == i \in usable \ Used /\ ~Joined(x)

ClaimInvite(h) ==
    /\ handler[h].pc = "claim"
    /\ LET i == handler[h].invite
           x == handler[h].who
       IN  IF MayJoin(i, x)
           THEN usedBy' = [usedBy EXCEPT ![i] = x] /\ Becomes(h, "invitee", i, x)
           ELSE Ends(h) /\ UNCHANGED usedBy
    /\ UNCHANGED <<usable, revoked, shown, sides, redeemedBy, redemptions, codeRevoked, codeGrants, dropped>>

RecordInvitee(h) ==
    /\ handler[h].pc = "invitee"
    /\ Recorded(handler[h].invite, "invitee")
    /\ Ends(h)
    /\ UNCHANGED <<usable, revoked, usedBy, shown, redeemedBy, redemptions, codeRevoked, codeGrants, dropped>>
-----------------------------------------------------------------------------
(* The credit code: credit_redeem holds the code's row from the first check to the grant. *)

\* A mutant: an account may redeem again, as a retry of a lost answer would.
RedeemableByAll(x) == ~codeRevoked /\ redemptions < MaxRedemptions

Redeemable(x) == ~codeRevoked /\ redemptions < MaxRedemptions /\ x \notin redeemedBy

\* The balance is read, for the answer, after the grant: a request may die between them.
Redeem(h, x) ==
    /\ handler[h] = Waiting /\ Redeemable(x)
    /\ redemptions' = redemptions + 1
    /\ redeemedBy' = redeemedBy \cup {x}
    /\ codeGrants' = [codeGrants EXCEPT ![x] = @ + 1]
    /\ Becomes(h, "balance", "none", x)
    /\ UNCHANGED <<usable, revoked, usedBy, shown, sides, codeRevoked, dropped>>

AnswerBalance(h) ==
    /\ handler[h].pc = "balance"
    /\ Ends(h)
    /\ UNCHANGED <<usable, revoked, usedBy, shown, sides, redeemedBy, redemptions, codeRevoked, codeGrants, dropped>>

RevokeCode ==
    /\ codeRevoked' = TRUE
    /\ UNCHANGED <<usable, revoked, usedBy, shown, sides, redeemedBy, redemptions, codeGrants, handler, dropped>>

\* A call fails, or the server dies; what was written stays.
Drops(h) ==
    /\ handler[h] # Waiting /\ dropped < MaxDropped
    /\ dropped' = dropped + 1
    /\ Ends(h)
    /\ UNCHANGED <<usable, revoked, usedBy, shown, sides, redeemedBy, redemptions, codeRevoked, codeGrants>>

CreditsNext ==
    \/ \E h \in Handlers :
          \/ \E i \in InviteIds : InsertInvite(h, i) \/ StartRevoke(h, i)
          \/ \E i \in InviteIds, x \in Accounts : StartAccept(h, i, x)
          \/ \E x \in Accounts : Redeem(h, x)
          \/ RecordSender(h) \/ Revoke(h) \/ ClaimInvite(h) \/ RecordInvitee(h) \/ AnswerBalance(h) \/ Drops(h)
    \/ RevokeCode

CreditsSpec == CreditsInit /\ [][CreditsNext]_creditVars
-----------------------------------------------------------------------------
CreditsTypeOK ==
    /\ usable \subseteq InviteIds /\ revoked \subseteq InviteIds \ usable
    /\ usedBy \in [InviteIds -> Accounts \cup {"nobody"}]
    /\ shown \subseteq usable \cup revoked
    /\ sides \in [InviteIds -> SUBSET {"inviter", "invitee"}]
    /\ redeemedBy \subseteq Accounts /\ redemptions \in 0..MaxRedemptions /\ codeRevoked \in BOOLEAN
    /\ codeGrants \in [Accounts -> Nat]
    /\ handler \in [Handlers -> [pc : {"idle", "sender", "revoke", "claim", "invitee", "balance"},
                                 invite : InviteIds \cup {"none"}, who : Accounts \cup {"none"}]]
    /\ dropped \in 0..MaxDropped

\* Whatever is made, withdrawn and accepted at once, and although a used invite can be
\* revoked by a request that read it unused: an inviter never has more invites that are out
\* or were used than the quota, and no account joins on two.
QuotaHolds ==
    /\ Cardinality(usable \cup Used) <= Quota
    /\ \A i, j \in Used : usedBy[i] = usedBy[j] => i = j

\* The check for a shared network can count on the inviter's side: an invite is only ever
\* used after it was recorded, also when the request that made it died half-way.
SendersOnRecord == \A i \in Used : "inviter" \in sides[i]

\* However requests die between the grant and the answer: what the code gave is what its
\* counter says, once for an account, and never more than was minted.
CodeSpentOnce ==
    /\ Cardinality(redeemedBy) = redemptions /\ redemptions <= MaxRedemptions
    /\ \A x \in Accounts : codeGrants[x] <= 1 /\ (codeGrants[x] = 1 <=> x \in redeemedBy)

\* Invites and codes are scarce.
CreditsScarce == QuotaHolds /\ SendersOnRecord /\ CodeSpentOnce
=============================================================================
