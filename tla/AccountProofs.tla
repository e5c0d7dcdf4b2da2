---- MODULE AccountProofs ----
(***************************************************************************)
(* What users settle with the web server and entrust to it, each for any   *)
(* values of its constants.  Credits and invites stay scarce, a bonus is   *)
(* granted once, a payment buys a period.  The spend budget holds every    *)
(* day: what was bought is in the ledger, in the buffer or carried between *)
(* them, and unless the tick has still to seed it, the counter counts the  *)
(* buys of its window.  Who signs in with CoinPay comes into an account    *)
(* that is bound to him; the command's sessions survive their renewals;    *)
(* the vault opens and keeps what is in it, and the text of a recovery key *)
(* reads back.                                                             *)
(***************************************************************************)
EXTENDS Credits, InviteBonus, PluginBilling, SpendBudget, SignIn, Vault, Induction,
        SequenceTheorems, FiniteSetTheorems, TLAPS

\* One more element.
LEMMA OneMore ==
    ASSUME NEW S, IsFiniteSet(S), NEW x
    PROVE  /\ IsFiniteSet(S \cup {x}) /\ Cardinality(S) \in Nat /\ Cardinality(S \cup {x}) \in Nat
           /\ Cardinality(S \cup {x}) <= Cardinality(S) + 1
           /\ x \notin S => Cardinality(S \cup {x}) = Cardinality(S) + 1
  <1>1. /\ IsFiniteSet(S \cup {x})
        /\ Cardinality(S \cup {x}) = IF x \in S THEN Cardinality(S) ELSE Cardinality(S) + 1
    BY FS_AddElement
  <1>2. Cardinality(S) \in Nat
    BY FS_CardinalityType
  <1> QED
    BY <1>1, <1>2

-----------------------------------------------------------------------------
(* Invites and credit codes.                                                *)

\* What a request under way knows: the invite it made or read exists, the one it is about
\* to claim was shown, and by then the inviter's side is on record.
RequestsKnow ==
    /\ \A h \in Handlers :
          /\ handler[h].pc \in {"sender", "revoke"} => handler[h].invite \in usable \cup revoked
          /\ handler[h].pc = "claim" => handler[h].invite \in shown /\ handler[h].who \in Accounts
          /\ handler[h].pc = "invitee" => handler[h].invite \in InviteIds
    /\ \A i \in shown : "inviter" \in sides[i]
    /\ Used \subseteq shown

Countable == IsFiniteSet(Counted) /\ IsFiniteSet(redeemedBy)

CInv == CreditsTypeOK /\ RequestsKnow /\ Countable /\ CreditsScarce

\* The credits begin with nothing made, used or owed.
LEMMA CreditsStart == CreditsInit => CInv
  <1> SUFFICES ASSUME CreditsInit PROVE CInv
    OBVIOUS
  <1> USE DEF CreditsInit
  <1>1. Used = {} /\ Counted = {}
    BY DEF Used, Counted
  <1>2. CreditsTypeOK
    <2>1. 0 \in 0..MaxRedemptions /\ 0 \in 0..MaxDropped
      BY CreditConstants
    <2> QED
      BY <2>1 DEF CreditsTypeOK, Waiting
  <1>3. RequestsKnow
    BY <1>1 DEF RequestsKnow, Waiting
  <1>4. Countable /\ Cardinality(Counted) = 0 /\ Cardinality(redeemedBy) = 0
    BY <1>1, FS_EmptySet DEF Countable
  <1>5. QuotaHolds /\ SendersOnRecord
    BY <1>1, <1>4, CreditConstants DEF QuotaHolds, SendersOnRecord, Counted
  <1>6. CodeSpentOnce
    BY <1>4, CreditConstants DEF CodeSpentOnce
  <1> QED
    BY <1>2, <1>3, <1>4, <1>5, <1>6 DEF CInv, CreditsScarce

\* A step that uses no invite and makes none: only requests move, invites are shown or
\* withdrawn, sides are recorded.
LEMMA NoNewUse ==
    ASSUME CInv, CreditsTypeOK', RequestsKnow', usedBy' = usedBy, Counted' \subseteq Counted,
           \A i \in InviteIds : sides[i] \subseteq sides'[i],
           UNCHANGED <<redeemedBy, redemptions, codeGrants>>
    PROVE  CInv'
  <1>1. IsFiniteSet(Counted') /\ Cardinality(Counted') <= Cardinality(Counted)
    BY FS_Subset DEF CInv, Countable
  <1>2. Cardinality(Counted) <= Quota /\ Quota \in Nat
    BY CreditConstants DEF CInv, CreditsScarce, QuotaHolds, Counted
  <1>3. Cardinality(Counted) \in Nat /\ Cardinality(Counted') \in Nat
    BY <1>1, FS_CardinalityType DEF CInv, Countable
  <1>4. Cardinality(Counted') <= Quota
    BY <1>1, <1>2, <1>3
  <1>5. Used' = Used
    BY DEF Used
  <1>6. QuotaHolds'
    BY <1>4, <1>5 DEF CInv, CreditsScarce, QuotaHolds, Counted
  <1>7. SendersOnRecord'
    BY <1>5 DEF CInv, CreditsScarce, SendersOnRecord, Used
  <1>8. CodeSpentOnce' /\ Countable'
    BY <1>1 DEF CInv, CreditsScarce, CodeSpentOnce, Countable
  <1> QED
    BY <1>6, <1>7, <1>8 DEF CInv, CreditsScarce

\* Where a request is after a step of it.
LEMMA HandlerMoves ==
    ASSUME CreditsTypeOK, NEW h \in Handlers,
           NEW pc \in {"idle", "sender", "revoke", "claim", "invitee", "balance"},
           NEW i \in InviteIds \cup {"none"}, NEW x \in Accounts \cup {"none"},
           handler' = [handler EXCEPT ![h] = [pc |-> pc, invite |-> i, who |-> x]]
    PROVE  /\ handler' \in [Handlers -> [pc : {"idle", "sender", "revoke", "claim", "invitee", "balance"},
                                         invite : InviteIds \cup {"none"}, who : Accounts \cup {"none"}]]
           /\ \A g \in Handlers : handler'[g] = IF g = h THEN [pc |-> pc, invite |-> i, who |-> x]
                                                         ELSE handler[g]
  BY DEF CreditsTypeOK

\* No step of the credits breaks their invariant.
LEMMA StepCredits == CInv /\ [CreditsNext]_creditVars => CInv'
  <1> SUFFICES ASSUME CInv, [CreditsNext]_creditVars PROVE CInv'
    OBVIOUS
  <1> USE DEF CInv
  <1>1. ASSUME NEW h \in Handlers, NEW i \in InviteIds, InsertInvite(h, i)
        PROVE  CInv'
    <2>1. CreditsTypeOK' /\ \A g \in Handlers : handler'[g] = IF g = h
              THEN [pc |-> "sender", invite |-> i, who |-> "none"] ELSE handler[g]
      BY <1>1, HandlerMoves DEF InsertInvite, Becomes, CreditsTypeOK
    <2>2. RequestsKnow'
      BY <1>1, <2>1 DEF InsertInvite, RequestsKnow, Used
    <2>3. Used' = Used /\ Counted' = Counted \cup {i}
      BY <1>1 DEF InsertInvite, Used, Counted
    <2>4. IsFiniteSet(Counted') /\ Cardinality(Counted') <= Cardinality(Counted) + 1
      <3>1. IsFiniteSet(Counted \cup {i}) /\ Cardinality(Counted \cup {i}) <= Cardinality(Counted) + 1
        BY OneMore DEF Countable
      <3> QED
        BY <2>3, <3>1
    <2>5. Cardinality(Counted') <= Quota
      <3>1. Cardinality(Counted) < Quota /\ Quota \in Nat /\ Cardinality(Counted) \in Nat
        BY <1>1, CreditConstants, FS_CardinalityType DEF InsertInvite, Countable
      <3>2. Cardinality(Counted') \in Nat
        BY <2>4, FS_CardinalityType
      <3> QED
        BY <2>4, <3>1, <3>2
    <2>6. QuotaHolds'
      BY <1>1, <2>3, <2>5 DEF InsertInvite, CreditsScarce, QuotaHolds, Counted
    <2>7. SendersOnRecord' /\ CodeSpentOnce' /\ Countable'
      BY <1>1, <2>3, <2>4 DEF InsertInvite, CreditsScarce, SendersOnRecord, CodeSpentOnce, Countable
    <2> QED
      BY <2>1, <2>2, <2>6, <2>7 DEF CreditsScarce
  <1>2. ASSUME NEW h \in Handlers, RecordSender(h)
        PROVE  CInv'
    <2>1. handler[h].invite \in usable \cup revoked /\ handler[h].invite \in InviteIds
      BY <1>2 DEF RecordSender, RequestsKnow, CreditsTypeOK
    <2>2. handler' \in [Handlers -> [pc : {"idle", "sender", "revoke", "claim", "invitee", "balance"},
                                    invite : InviteIds \cup {"none"}, who : Accounts \cup {"none"}]]
          /\ \A g \in Handlers : handler'[g] = IF g = h THEN Waiting ELSE handler[g]
      BY <1>2, HandlerMoves DEF RecordSender, Ends, Waiting
    <2>3. sides' \in [InviteIds -> SUBSET {"inviter", "invitee"}]
          /\ \A j \in InviteIds : sides[j] \subseteq sides'[j]
          /\ "inviter" \in sides'[handler[h].invite]
      BY <1>2, <2>1 DEF RecordSender, Recorded, CreditsTypeOK
    <2>4. CreditsTypeOK'
      BY <1>2, <2>1, <2>2, <2>3 DEF RecordSender, CreditsTypeOK
    <2>5. RequestsKnow'
      BY <1>2, <2>2, <2>3 DEF RecordSender, RequestsKnow, CreditsTypeOK, Used, Waiting
    <2>6. Counted' = Counted
      BY <1>2 DEF RecordSender, Counted, Used
    <2> QED
      BY <1>2, <2>3, <2>4, <2>5, <2>6, NoNewUse DEF RecordSender
  <1>3. ASSUME NEW h \in Handlers, NEW i \in InviteIds, StartRevoke(h, i)
        PROVE  CInv'
    <2>1. CreditsTypeOK' /\ \A g \in Handlers : handler'[g] = IF g = h
              THEN [pc |-> "revoke", invite |-> i, who |-> "none"] ELSE handler[g]
      BY <1>3, HandlerMoves DEF StartRevoke, Becomes, CreditsTypeOK
    <2>2. RequestsKnow' /\ Counted' = Counted
      BY <1>3, <2>1 DEF StartRevoke, RequestsKnow, Counted, Used
    <2> QED
      BY <1>3, <2>1, <2>2, NoNewUse DEF StartRevoke
  <1>4. ASSUME NEW h \in Handlers, Revoke(h)
        PROVE  CInv'
    <2>1. handler[h].invite \in InviteIds
      BY <1>4 DEF Revoke, RequestsKnow, CreditsTypeOK
    <2>2. handler' \in [Handlers -> [pc : {"idle", "sender", "revoke", "claim", "invitee", "balance"},
                                    invite : InviteIds \cup {"none"}, who : Accounts \cup {"none"}]]
          /\ \A g \in Handlers : handler'[g] = IF g = h THEN Waiting ELSE handler[g]
      BY <1>4, HandlerMoves DEF Revoke, Ends, Waiting
    <2>3. CreditsTypeOK'
      BY <1>4, <2>1, <2>2 DEF Revoke, CreditsTypeOK
    <2>4. RequestsKnow' /\ Counted' \subseteq Counted
      BY <1>4, <2>2 DEF Revoke, RequestsKnow, Counted, Used, Waiting
    <2> QED
      BY <1>4, <2>3, <2>4, NoNewUse DEF Revoke
  <1>5. ASSUME NEW h \in Handlers, NEW i \in InviteIds, NEW x \in Accounts, StartAccept(h, i, x)
        PROVE  CInv'
    <2>1. CreditsTypeOK' /\ \A g \in Handlers : handler'[g] = IF g = h
              THEN [pc |-> "claim", invite |-> i, who |-> x] ELSE handler[g]
      BY <1>5, HandlerMoves DEF StartAccept, Becomes, CreditsTypeOK
    <2>2. RequestsKnow' /\ Counted' = Counted
      BY <1>5, <2>1 DEF StartAccept, RequestsKnow, Counted, Used
    <2> QED
      BY <1>5, <2>1, <2>2, NoNewUse DEF StartAccept
  <1>6. ASSUME NEW h \in Handlers, ClaimInvite(h)
        PROVE  CInv'
    <2> DEFINE i == handler[h].invite
               x == handler[h].who
    <2>1. i \in shown /\ i \in InviteIds /\ x \in Accounts /\ x # "nobody"
      BY <1>6, CreditConstants DEF ClaimInvite, RequestsKnow, CreditsTypeOK
    <2>2. CASE /\ MayJoin(i, x)
               /\ usedBy' = [usedBy EXCEPT ![i] = x] /\ Becomes(h, "invitee", i, x)
      <3>1. \A g \in Handlers : handler'[g] = IF g = h
                THEN [pc |-> "invitee", invite |-> i, who |-> x] ELSE handler[g]
        BY <2>1, <2>2, HandlerMoves DEF Becomes
      <3>2. CreditsTypeOK'
        BY <1>6, <2>1, <2>2, HandlerMoves DEF ClaimInvite, Becomes, CreditsTypeOK
      <3>3. Used' = Used \cup {i} /\ i \in usable /\ Counted' = Counted
        BY <1>6, <2>1, <2>2 DEF ClaimInvite, CreditsTypeOK, MayJoin, Used, Counted
      <3>4. RequestsKnow'
        BY <1>6, <2>1, <3>1, <3>3 DEF ClaimInvite, RequestsKnow
      <3>5. \A j \in Used : usedBy'[j] = usedBy[j] /\ usedBy[j] # x /\ usedBy'[i] = x
        BY <2>1, <2>2 DEF CreditsTypeOK, MayJoin, Joined, Used
      <3>6. QuotaHolds'
        BY <1>6, <3>3, <3>5 DEF ClaimInvite, CreditsScarce, QuotaHolds, Counted
      <3>7. SendersOnRecord'
        BY <1>6, <2>1, <3>3 DEF ClaimInvite, CreditsScarce, SendersOnRecord, RequestsKnow
      <3>8. CodeSpentOnce' /\ Countable'
        BY <1>6, <3>3 DEF ClaimInvite, CreditsScarce, CodeSpentOnce, Countable
      <3> QED
        BY <3>2, <3>4, <3>6, <3>7, <3>8 DEF CreditsScarce
    <2>3. CASE Ends(h) /\ UNCHANGED usedBy
      <3>1. \A g \in Handlers : handler'[g] = IF g = h THEN Waiting ELSE handler[g]
        BY <2>3, HandlerMoves DEF Ends, Waiting
      <3>2. CreditsTypeOK'
        BY <1>6, <2>3, HandlerMoves DEF ClaimInvite, Ends, Waiting, CreditsTypeOK
      <3>3. RequestsKnow' /\ Counted' = Counted
        BY <1>6, <2>3, <3>1 DEF ClaimInvite, RequestsKnow, Counted, Used, Waiting
      <3> QED
        BY <1>6, <2>3, <3>2, <3>3, NoNewUse DEF ClaimInvite
    <2> QED
      BY <1>6, <2>2, <2>3 DEF ClaimInvite
  <1>7. ASSUME NEW h \in Handlers, RecordInvitee(h)
        PROVE  CInv'
    <2>1. handler[h].invite \in InviteIds
      BY <1>7 DEF RecordInvitee, RequestsKnow
    <2>2. sides' \in [InviteIds -> SUBSET {"inviter", "invitee"}]
          /\ \A j \in InviteIds : sides[j] \subseteq sides'[j]
      BY <1>7, <2>1 DEF RecordInvitee, Recorded, CreditsTypeOK
    <2>3. \A g \in Handlers : handler'[g] = IF g = h THEN Waiting ELSE handler[g]
      BY <1>7, HandlerMoves DEF RecordInvitee, Ends, Waiting
    <2>4. CreditsTypeOK'
      BY <1>7, <2>2, HandlerMoves DEF RecordInvitee, Ends, Waiting, CreditsTypeOK
    <2>5. RequestsKnow' /\ Counted' = Counted
      BY <1>7, <2>2, <2>3 DEF RecordInvitee, RequestsKnow, Counted, Used, Waiting, CreditsTypeOK
    <2> QED
      BY <1>7, <2>2, <2>4, <2>5, NoNewUse DEF RecordInvitee
  <1>8. ASSUME NEW h \in Handlers, NEW x \in Accounts, Redeem(h, x)
        PROVE  CInv'
    <2>1. /\ redeemedBy' = redeemedBy \cup {x} /\ x \notin redeemedBy
          /\ redemptions' = redemptions + 1 /\ redemptions < MaxRedemptions
          /\ codeGrants' = [codeGrants EXCEPT ![x] = @ + 1]
      BY <1>8 DEF Redeem, Redeemable
    <2>2. /\ redemptions \in Nat /\ MaxRedemptions \in Nat
          /\ Cardinality(redeemedBy) = redemptions /\ IsFiniteSet(redeemedBy)
      BY CreditConstants DEF CreditsTypeOK, CreditsScarce, CodeSpentOnce, Countable
    <2>3. IsFiniteSet(redeemedBy') /\ Cardinality(redeemedBy') = redemptions'
      <3>1. /\ IsFiniteSet(redeemedBy \cup {x})
            /\ Cardinality(redeemedBy \cup {x}) = Cardinality(redeemedBy) + 1
        BY <2>1, <2>2, OneMore
      <3> QED
        BY <2>1, <2>2, <3>1
    <2>4. codeGrants[x] = 0
      <3>1. codeGrants[x] \in Nat
        BY DEF CreditsTypeOK
      <3>2. codeGrants[x] <= 1 /\ codeGrants[x] # 1
        BY <2>1 DEF CreditsScarce, CodeSpentOnce
      <3> QED
        BY <3>1, <3>2
    <2>5. CodeSpentOnce'
      <3>1. \A y \in Accounts : codeGrants'[y] = IF y = x THEN 1 ELSE codeGrants[y]
        BY <2>1, <2>4 DEF CreditsTypeOK
      <3>2. redemptions' <= MaxRedemptions
        BY <2>1, <2>2
      <3> QED
        BY <2>1, <2>3, <3>1, <3>2 DEF CreditsScarce, CodeSpentOnce
    <2>6. \A g \in Handlers : handler'[g] = IF g = h
              THEN [pc |-> "balance", invite |-> "none", who |-> x] ELSE handler[g]
      BY <1>8, HandlerMoves DEF Redeem, Becomes
    <2>7. CreditsTypeOK'
      <3>1. redemptions' \in 0..MaxRedemptions /\ codeGrants' \in [Accounts -> Nat]
        BY <2>1, <2>2 DEF CreditsTypeOK
      <3> QED
        BY <1>8, <2>1, <3>1, HandlerMoves DEF Redeem, Becomes, CreditsTypeOK
    <2>8. RequestsKnow' /\ Counted' = Counted /\ Used' = Used
      BY <1>8, <2>6 DEF Redeem, RequestsKnow, Counted, Used
    <2>9. QuotaHolds' /\ SendersOnRecord' /\ Countable'
      BY <1>8, <2>3, <2>8 DEF Redeem, CreditsScarce, QuotaHolds, SendersOnRecord, Countable
    <2> QED
      BY <2>5, <2>7, <2>8, <2>9 DEF CreditsScarce
  <1>9. ASSUME NEW h \in Handlers, AnswerBalance(h) \/ Drops(h)
        PROVE  CInv'
    <2>1. \A g \in Handlers : handler'[g] = IF g = h THEN Waiting ELSE handler[g]
      BY <1>9, HandlerMoves DEF AnswerBalance, Drops, Ends, Waiting
    <2>2. dropped' \in 0..MaxDropped
      BY <1>9, CreditConstants DEF AnswerBalance, Drops, CreditsTypeOK
    <2>3. CreditsTypeOK'
      BY <1>9, <2>2, HandlerMoves DEF AnswerBalance, Drops, Ends, Waiting, CreditsTypeOK
    <2>4. RequestsKnow' /\ Counted' = Counted
      BY <1>9, <2>1 DEF AnswerBalance, Drops, RequestsKnow, Counted, Used, Waiting
    <2> QED
      BY <1>9, <2>3, <2>4, NoNewUse DEF AnswerBalance, Drops
  <1>10. CASE RevokeCode \/ UNCHANGED creditVars
    <2>1. CreditsTypeOK' /\ RequestsKnow' /\ Counted' = Counted
      BY <1>10 DEF RevokeCode, creditVars, CreditsTypeOK, RequestsKnow, Counted, Used
    <2> QED
      BY <1>10, <2>1, NoNewUse DEF RevokeCode, creditVars
  <1> QED
    BY <1>1, <1>2, <1>3, <1>4, <1>5, <1>6, <1>7, <1>8, <1>9, <1>10 DEF CreditsNext

\* Whatever is made, shown, withdrawn, accepted and redeemed at once, and whichever requests
\* die half-way: the quota, the one use of an invite, the record of its sender and the count
\* of a code hold (credits.ts and the functions of the migrations).
THEOREM CreditsStayScarce == CreditsSpec => []CreditsScarce
  BY CreditsStart, StepCredits, PTL DEF CreditsSpec, CInv

-----------------------------------------------------------------------------
(* Bonuses.                                                                 *)

Decisions == {"none", "pending", "granted", "denied"}
SettlerType == [pc : {"free", "network", "read", "judge", "history", "insert", "put"},
                invite : Invites, seen : [Sides -> Decisions], plan : [Sides -> Decisions]]

\* A settlement about to say that a side was granted has put the grant in the ledger.
Backed ==
    \A t \in Settlers :
        settler[t].pc = "put" /\ settler[t].plan[Side(t)] = "granted" =>
            granted[settler[t].invite][Side(t)] > 0

\* While settlements take turns, one that is going to grant the inviter's side leaves room
\* for it, or is repeating what the row says already.
Alone == ~crowded => \A t, u \in Settlers : t # u => settler[t] = Free \/ settler[u] = Free
Room  == ~crowded => \A t \in Settlers :
             settler[t].plan["inviter"] = "granted" =>
                 \/ bonus[settler[t].invite]["inviter"] = "granted"
                 \/ InviterGrants < Cap

\* The network that is recorded is that of an invite in use.
Entered == \A t \in Settlers : settler[t].pc = "network" => settler[t].invite \in used

BInv == InvitesTypeOK /\ Entered /\ Backed /\ Alone /\ Room /\ BonusesHold

\* A settlement at rest has the type of one.
LEMMA FreeType == /\ Free \in SettlerType /\ Free.pc = "free" /\ Free.plan = Unknown
                  /\ Unknown \in [Sides -> Decisions] /\ \A s \in Sides : Unknown[s] = "none"
  BY InviteConstants DEF Free, SettlerType, Unknown, Decisions

\* The grants of the inviter are finitely many.
LEMMA InviterGrantsType == InviterGrants \in Nat
  <1>1. {i \in Invites : bonus[i]["inviter"] = "granted"} \subseteq Invites
    OBVIOUS
  <1> QED
    BY <1>1, InviteConstants, FS_Subset, FS_CardinalityType DEF InviterGrants

\* Before any invite is accepted nothing is granted and nothing credited.
LEMMA BonusStart == InvitesInit => BInv
  <1> SUFFICES ASSUME InvitesInit PROVE BInv
    OBVIOUS
  <1> USE DEF InvitesInit
  <1>1. InvitesTypeOK
    <2>1. failed \in 0 .. MaxFailed
      BY InviteConstants
    <2> QED
      BY <2>1, FreeType DEF InvitesTypeOK, Sides, SettlerType, Decisions, Unknown
  <1>2. Entered /\ Backed /\ Alone
    BY FreeType DEF Entered, Backed, Alone
  <1>3. Room
    BY FreeType DEF Room, Sides
  <1>4. CreditedOnce /\ GrantedIsCredited
    BY FreeType DEF CreditedOnce, GrantedIsCredited
  <1>5. CapHolds
    <2>1. {i \in Invites : bonus[i]["inviter"] = "granted"} = {}
      BY FreeType DEF Sides
    <2>2. InviterGrants = 0
      BY <2>1, FS_EmptySet DEF InviterGrants
    <2> QED
      BY <2>2, InviteConstants DEF CapHolds
  <1> QED
    BY <1>1, <1>2, <1>3, <1>4, <1>5 DEF BInv, BonusesHold

\* A settlement that moves while rows, ledger and network stay: what remains to show.
LEMMA SettlerMoves ==
    ASSUME BInv, NEW t \in Settlers, NEW k \in SettlerType, settler' = [settler EXCEPT ![t] = k],
           UNCHANGED <<bonus, granted>>,
           used \subseteq used', used' \subseteq Invites, network' \subseteq used', confirmed' \subseteq used',
           failed' \in 0 .. MaxFailed, crowded' \in BOOLEAN, crowded => crowded',
           ~crowded' => k = Free \/ \A u \in Settlers \ {t} : settler[u] = Free,
           k.pc = "network" => k.invite \in used',
           k.pc = "put" /\ k.plan[Turn(k.plan)] = "granted" => granted[k.invite][Turn(k.plan)] > 0,
           ~crowded' /\ k.plan["inviter"] = "granted" =>
               bonus[k.invite]["inviter"] = "granted" \/ InviterGrants < Cap
    PROVE  BInv'
  <1> USE DEF BInv
  <1>1. \A u \in Settlers : settler'[u] = IF u = t THEN k ELSE settler[u]
    BY DEF InvitesTypeOK
  <1>2. InvitesTypeOK'
    BY DEF InvitesTypeOK, SettlerType, Decisions
  <1>3. Entered'
    BY <1>1 DEF Entered
  <1>4. Backed'
    BY <1>1 DEF Backed, Side
  <1>5. Alone'
    BY <1>1 DEF Alone
  <1>6. InviterGrants' = InviterGrants
    BY DEF InviterGrants
  <1>7. Room'
    BY <1>1, <1>6 DEF Room
  <1>8. BonusesHold'
    BY <1>6 DEF BonusesHold, CreditedOnce, GrantedIsCredited, CapHolds
  <1> QED
    BY <1>2, <1>3, <1>4, <1>5, <1>7, <1>8

\* Where the rest of a plan leaves a settlement.
LEMMA PursueMoves ==
    ASSUME InvitesTypeOK, NEW t \in Settlers, NEW plan \in [Sides -> Decisions], Pursue(t, plan)
    PROVE  \E k \in SettlerType :
              /\ settler' = [settler EXCEPT ![t] = k]
              /\ k.pc # "network"
              /\ k.pc = "put" => k.plan[Turn(k.plan)] # "granted"
              /\ (k # Free => k.plan = plan /\ k.invite = settler[t].invite)
  <1>1. settler[t] \in SettlerType
    BY DEF InvitesTypeOK, SettlerType, Decisions
  <1>2. CASE \E s \in Sides : plan[s] # "none"
    <2> DEFINE k == [settler[t] EXCEPT !.pc = FirstCall(plan[Turn(plan)]), !.seen = Unknown, !.plan = plan]
    <2>1. settler' = [settler EXCEPT ![t] = k]
      BY <1>2 DEF Pursue
    <2>2. FirstCall(plan[Turn(plan)]) \in {"history", "put"}
          /\ (FirstCall(plan[Turn(plan)]) = "put" => plan[Turn(plan)] # "granted")
      BY DEF FirstCall
    <2>3. k \in SettlerType
      BY <1>1, <2>2, FreeType DEF SettlerType
    <2>4. k.pc = FirstCall(plan[Turn(plan)]) /\ k.plan = plan /\ k.invite = settler[t].invite
      BY <1>1 DEF SettlerType
    <2> HIDE DEF k
    <2> QED
      BY <2>1, <2>2, <2>3, <2>4
  <1>3. CASE ~ \E s \in Sides : plan[s] # "none"
    <2>1. settler' = [settler EXCEPT ![t] = Free]
      BY <1>3 DEF Pursue
    <2> QED
      BY <2>1, FreeType
  <1> QED
    BY <1>2, <1>3

\* No step of acceptance or settlement breaks the invariant of the bonuses.
LEMMA StepBonus == BInv /\ [InvitesNext]_inviteVars => BInv'
  <1> SUFFICES ASSUME BInv, [InvitesNext]_inviteVars PROVE BInv'
    OBVIOUS
  <1> USE DEF BInv
  <1>0. /\ settler \in [Settlers -> SettlerType]
        /\ bonus \in [Invites -> [Sides -> Decisions]]
        /\ granted \in [Invites -> [Sides -> Nat]]
        /\ "invitee" \in Sides /\ "inviter" \in Sides
    BY DEF InvitesTypeOK, SettlerType, Decisions, Sides
  <1>1. ASSUME NEW t \in Settlers, NEW i \in Invites, NEW pc \in {"network", "read"}, Enter(t, i, pc)
        PROVE  /\ \E k \in SettlerType :
                      /\ settler' = [settler EXCEPT ![t] = k]
                      /\ k.pc = pc /\ k.invite = i /\ k.plan = Unknown
               /\ crowded' \in BOOLEAN /\ (crowded => crowded')
               /\ ~crowded' => \A u \in Settlers \ {t} : settler[u] = Free
    <2> DEFINE k == [Free EXCEPT !.pc = pc, !.invite = i]
    <2>1. k \in SettlerType /\ k.pc = pc /\ k.invite = i /\ k.plan = Unknown
      BY FreeType DEF SettlerType
    <2>2. settler' = [settler EXCEPT ![t] = k]
      BY <1>1 DEF Enter
    <2>3. /\ crowded' \in BOOLEAN /\ (crowded => crowded')
          /\ ~crowded' => \A u \in Settlers \ {t} : settler[u] = Free
      BY <1>1 DEF Enter, InvitesTypeOK
    <2> HIDE DEF k
    <2> QED
      BY <2>1, <2>2, <2>3
  <1>2. ASSUME NEW t \in Settlers, NEW i \in Invites, Visit(t, i)
        PROVE  BInv'
    <2>1. PICK k \in SettlerType : /\ settler' = [settler EXCEPT ![t] = k]
                                   /\ k.pc = "read" /\ k.plan = Unknown
      BY <1>1, <1>2 DEF Visit
    <2>2. /\ crowded' \in BOOLEAN /\ (crowded => crowded')
          /\ ~crowded' => \A u \in Settlers \ {t} : settler[u] = Free
      BY <1>1, <1>2 DEF Visit
    <2> QED
      BY <1>0, <1>2, <2>1, <2>2, FreeType, SettlerMoves DEF Visit, InvitesTypeOK
  <1>3. ASSUME NEW t \in Settlers, NEW i \in Invites, Accept(t, i)
        PROVE  BInv'
    <2>1. PICK k \in SettlerType : /\ settler' = [settler EXCEPT ![t] = k]
                                   /\ k.pc = "network" /\ k.invite = i /\ k.plan = Unknown
      BY <1>1, <1>3 DEF Accept
    <2>2. /\ crowded' \in BOOLEAN /\ (crowded => crowded')
          /\ ~crowded' => \A u \in Settlers \ {t} : settler[u] = Free
      BY <1>1, <1>3 DEF Accept
    <2>3. /\ used \subseteq used' /\ i \in used' /\ used' \subseteq Invites
          /\ network' \subseteq used' /\ confirmed' \subseteq used' /\ failed' \in 0 .. MaxFailed
      BY <1>3 DEF Accept, InvitesTypeOK
    <2> QED
      BY <1>0, <1>3, <2>1, <2>2, <2>3, FreeType, SettlerMoves DEF Accept
  <1>4. ASSUME NEW t \in Settlers, settler[t] # Free, NEW k \in SettlerType,
               settler' = [settler EXCEPT ![t] = k], UNCHANGED <<confirmed, bonus, granted, crowded>>,
               used' = used, network' \subseteq used', failed' \in 0 .. MaxFailed, k.pc # "network",
               k.pc = "put" /\ k.plan[Turn(k.plan)] = "granted" => granted[k.invite][Turn(k.plan)] > 0,
               ~crowded /\ k.plan["inviter"] = "granted" =>
                   bonus[k.invite]["inviter"] = "granted" \/ InviterGrants < Cap
        PROVE  BInv'
    <2>1. ~crowded => \A u \in Settlers \ {t} : settler[u] = Free
      BY <1>4 DEF Alone
    <2> QED
      BY <1>4, <2>1, SettlerMoves DEF InvitesTypeOK
  <1>5. ASSUME NEW t \in Settlers, PutNetwork(t)
        PROVE  BInv'
    <2> DEFINE k == [settler[t] EXCEPT !.pc = "read"]
    <2>1. k \in SettlerType /\ k.pc = "read" /\ k.plan = settler[t].plan /\ k.invite = settler[t].invite
      BY <1>0 DEF SettlerType
    <2>2. settler' = [settler EXCEPT ![t] = k] /\ settler[t] # Free
      BY <1>5, FreeType DEF PutNetwork
    <2>3. used' = used /\ network' \subseteq used' /\ failed' \in 0 .. MaxFailed
      BY <1>5 DEF PutNetwork, Entered, InvitesTypeOK
    <2>4. ~crowded /\ k.plan["inviter"] = "granted" =>
              bonus[k.invite]["inviter"] = "granted" \/ InviterGrants < Cap
      BY <2>1 DEF Room
    <2> HIDE DEF k
    <2> QED
      BY <1>4, <1>5, <2>1, <2>2, <2>3, <2>4 DEF PutNetwork
  <1>6. ASSUME NEW t \in Settlers, Read(t)
        PROVE  BInv'
    <2>1. settler[t] # Free /\ UNCHANGED <<confirmed, bonus, granted, crowded, used, network, failed>>
      BY <1>6, FreeType DEF Read
    <2> DEFINE rows == bonus[settler[t].invite]
               k == [settler[t] EXCEPT !.pc = "judge", !.seen = rows]
    <2>2. rows \in [Sides -> Decisions]
      BY <1>0 DEF SettlerType
    <2>3. k \in SettlerType /\ k.pc = "judge" /\ k.plan = settler[t].plan /\ k.invite = settler[t].invite
      <3> HIDE DEF rows
      <3> QED BY <1>0, <2>2 DEF SettlerType
    <2>4. settler' = [settler EXCEPT ![t] = k] \/ settler' = [settler EXCEPT ![t] = Free]
      BY <1>6 DEF Read
    <2>5. ~crowded /\ k.plan["inviter"] = "granted" =>
              bonus[k.invite]["inviter"] = "granted" \/ InviterGrants < Cap
      BY <2>3 DEF Room
    <2>6. network' \subseteq used' /\ failed' \in 0 .. MaxFailed
      BY <2>1 DEF InvitesTypeOK
    <2> HIDE DEF k
    <2>7. CASE settler' = [settler EXCEPT ![t] = k]
      BY <1>4, <2>1, <2>3, <2>5, <2>6, <2>7
    <2>8. CASE settler' = [settler EXCEPT ![t] = Free]
      BY <1>0, <1>4, <2>1, <2>6, <2>8, FreeType
    <2> QED
      BY <2>4, <2>7, <2>8
  <1>7. ASSUME NEW t \in Settlers, NEW plan \in [Sides -> Decisions], Pursue(t, plan),
               settler[t] # Free, UNCHANGED <<confirmed, bonus, granted, crowded, used, network, failed>>,
               ~crowded /\ plan["inviter"] = "granted" =>
                   bonus[settler[t].invite]["inviter"] = "granted" \/ InviterGrants < Cap
        PROVE  BInv'
    <2>1. PICK k \in SettlerType :
              /\ settler' = [settler EXCEPT ![t] = k]
              /\ k.pc # "network"
              /\ k.pc = "put" => k.plan[Turn(k.plan)] # "granted"
              /\ (k # Free => k.plan = plan /\ k.invite = settler[t].invite)
      BY <1>7, PursueMoves
    <2>2. ~crowded /\ k.plan["inviter"] = "granted" =>
              bonus[k.invite]["inviter"] = "granted" \/ InviterGrants < Cap
      BY <1>0, <1>7, <2>1, FreeType
    <2>3. network' \subseteq used' /\ failed' \in 0 .. MaxFailed
      BY <1>7 DEF InvitesTypeOK
    <2> QED
      BY <1>4, <1>7, <2>1, <2>2, <2>3
  <1>8. ASSUME NEW t \in Settlers, Judge(t)
        PROVE  BInv'
    <2> DEFINE i == settler[t].invite
               plan == [s \in Sides |-> IF Undecided(settler[t].seen[s]) THEN Plan(Verdict(i), s) ELSE "none"]
    <2>1. plan \in [Sides -> Decisions]
      BY DEF Plan, Decisions
    <2>2. plan["inviter"] = "granted" => InviterGrants < Cap
      <3>1. plan["inviter"] = "granted" => Plan(Verdict(i), "inviter") = "granted"
        BY <1>0
      <3>2. Plan(Verdict(i), "inviter") = "granted" => Verdict(i) \notin {"hold", "deny", "cap"}
        BY DEF Plan
      <3>3. Verdict(i) \notin {"hold", "deny", "cap"} => ~AtCap
        BY DEF Verdict
      <3> QED
        BY <3>1, <3>2, <3>3, InviterGrantsType, InviteConstants DEF AtCap
    <2>3. Pursue(t, plan) /\ settler[t] # Free
          /\ UNCHANGED <<confirmed, bonus, granted, crowded, used, network, failed>>
      BY <1>8, FreeType DEF Judge
    <2> HIDE DEF plan
    <2> QED
      BY <1>7, <2>1, <2>2, <2>3
  <1>9. ASSUME NEW t \in Settlers, History(t)
        PROVE  BInv'
    <2> DEFINE pc == IF granted[settler[t].invite][Side(t)] > 0 THEN "put" ELSE "insert"
               k == [settler[t] EXCEPT !.pc = pc]
    <2>1. k \in SettlerType /\ k.pc = pc /\ k.plan = settler[t].plan /\ k.invite = settler[t].invite
      BY <1>0 DEF SettlerType
    <2>2. /\ settler' = [settler EXCEPT ![t] = k] /\ settler[t] # Free
          /\ UNCHANGED <<confirmed, bonus, granted, crowded, used, network, failed>>
      BY <1>9, FreeType DEF History
    <2>3. pc = "put" => granted[k.invite][Turn(k.plan)] > 0
      BY <2>1 DEF Side
    <2>4. ~crowded /\ k.plan["inviter"] = "granted" =>
              bonus[k.invite]["inviter"] = "granted" \/ InviterGrants < Cap
      BY <2>1 DEF Room
    <2>5. network' \subseteq used' /\ failed' \in 0 .. MaxFailed /\ pc # "network"
      BY <2>2 DEF InvitesTypeOK
    <2> HIDE DEF k, pc
    <2> QED
      BY <1>4, <2>1, <2>2, <2>3, <2>4, <2>5
  <1>10. ASSUME NEW t \in Settlers, GiveUp(t)
         PROVE  BInv'
    <2>1. failed' \in 0 .. MaxFailed /\ network' \subseteq used'
      BY <1>10, InviteConstants DEF GiveUp, InvitesTypeOK
    <2> QED
      BY <1>0, <1>4, <1>10, <2>1, FreeType DEF GiveUp
  <1>11. ASSUME NEW t \in Settlers, Insert(t)
         PROVE  BInv'
    <2> DEFINE i == settler[t].invite
               s == Side(t)
               k == [settler[t] EXCEPT !.pc = "put"]
    <2>1. i \in Invites /\ s \in Sides
      BY <1>0 DEF SettlerType, Side, Turn
    <2>2. granted' = IF granted[i][s] = 0 THEN [granted EXCEPT ![i][s] = @ + 1] ELSE granted
      BY <1>11 DEF Insert, Inserts
    <2>3. /\ granted' \in [Invites -> [Sides -> Nat]] /\ granted'[i][s] > 0
          /\ \A j \in Invites, r \in Sides : granted'[j][r] >= granted[j][r] /\ granted'[j][r] <= 1
      <3>1. /\ granted[i][s] \in Nat
            /\ \A j \in Invites, r \in Sides : granted[j][r] \in Nat /\ granted[j][r] <= 1
        <4> HIDE DEF i, s
        <4> QED BY <1>0, <2>1 DEF BonusesHold, CreditedOnce
      <3>2. CASE granted[i][s] = 0
        <4>1. /\ granted' \in [Invites -> [Sides -> Nat]]
              /\ \A j \in Invites, r \in Sides :
                     granted'[j][r] = IF j = i /\ r = s THEN 1 ELSE granted[j][r]
          <5> HIDE DEF i, s
          <5> QED BY <1>0, <2>1, <2>2, <3>2
        <4> QED
          BY <2>1, <3>1, <3>2, <4>1
      <3>3. CASE granted[i][s] # 0
        BY <1>0, <2>1, <2>2, <3>1, <3>3
      <3> QED
        BY <3>2, <3>3
    <2>4. /\ settler' = [settler EXCEPT ![t] = k]
          /\ UNCHANGED <<used, network, confirmed, bonus, failed, crowded>>
          /\ settler[t] # Free
      BY <1>11, FreeType DEF Insert
    <2>5. k \in SettlerType /\ k.pc = "put" /\ k.plan = settler[t].plan /\ k.invite = i
      BY <1>0 DEF SettlerType
    <2>6. \A u \in Settlers : settler'[u] = IF u = t THEN k ELSE settler[u]
      BY <1>0, <2>4
    <2> HIDE DEF k
    <2>7. InvitesTypeOK' /\ Entered'
      BY <2>3, <2>4, <2>5, <2>6 DEF InvitesTypeOK, SettlerType, Decisions, Entered
    <2>8. ASSUME NEW u \in Settlers, settler'[u].pc = "put", settler'[u].plan[Turn(settler'[u].plan)] = "granted"
          PROVE  granted'[settler'[u].invite][Turn(settler'[u].plan)] > 0
      <3>1. CASE u = t
        BY <2>3, <2>5, <2>6, <3>1 DEF Side
      <3>2. CASE u # t
        <4>1. settler'[u] = settler[u] /\ settler[u].invite \in Invites /\ Turn(settler[u].plan) \in Sides
          BY <1>0, <2>6, <3>2 DEF SettlerType, Turn
        <4>2. granted[settler[u].invite][Turn(settler[u].plan)] > 0
          BY <2>8, <4>1 DEF Backed, Side
        <4>3. /\ granted[settler[u].invite][Turn(settler[u].plan)] \in Nat
              /\ granted'[settler[u].invite][Turn(settler[u].plan)] \in Nat
          BY <1>0, <2>3, <4>1
        <4> QED
          BY <2>3, <4>1, <4>2, <4>3
      <3> QED BY <3>1, <3>2
    <2>9. Backed'
      BY <2>8 DEF Backed, Side
    <2>10. Alone'
      BY <2>4, <2>6 DEF Alone
    <2>11. InviterGrants' = InviterGrants
      BY <2>4 DEF InviterGrants
    <2>12. Room'
      BY <2>4, <2>5, <2>6, <2>11 DEF Room
    <2>13. CreditedOnce' /\ CapHolds'
      BY <2>3, <2>4, <2>11 DEF CreditedOnce, CapHolds, BonusesHold
    <2>14. GrantedIsCredited'
      <3>1. ASSUME NEW j \in Invites, NEW r \in Sides, bonus[j][r] = "granted"
            PROVE  granted'[j][r] > 0
        <4>1. granted[j][r] > 0 /\ granted[j][r] \in Nat /\ granted'[j][r] \in Nat
          BY <1>0, <2>3, <3>1 DEF BonusesHold, GrantedIsCredited
        <4> QED BY <2>3, <4>1
      <3> QED BY <2>4, <3>1 DEF GrantedIsCredited
    <2> QED
      BY <2>7, <2>9, <2>10, <2>12, <2>13, <2>14 DEF BonusesHold
  <1>12. ASSUME NEW t \in Settlers, Put(t)
         PROVE  BInv'
    <2> DEFINE i == settler[t].invite
               s == Side(t)
               plan == settler[t].plan
               rest == [plan EXCEPT ![s] = "none"]
    <2>1. i \in Invites /\ s \in Sides /\ plan \in [Sides -> Decisions]
      BY <1>0 DEF SettlerType, Side, Turn
    <2>2. /\ bonus' = [bonus EXCEPT ![i][s] = plan[s]] /\ Pursue(t, rest)
          /\ UNCHANGED <<used, network, confirmed, granted, failed, crowded>>
          /\ settler[t].pc = "put" /\ settler[t] # Free
      BY <1>12, FreeType DEF Put
    <2>3. rest \in [Sides -> Decisions] /\ rest[s] = "none" /\ \A r \in Sides \ {s} : rest[r] = plan[r]
      BY <2>1 DEF Decisions
    <2> HIDE DEF i, s, plan, rest
    <2>4. PICK k \in SettlerType :
              /\ settler' = [settler EXCEPT ![t] = k]
              /\ k.pc # "network"
              /\ k.pc = "put" => k.plan[Turn(k.plan)] # "granted"
              /\ (k # Free => k.plan = rest /\ k.invite = i)
      BY <2>2, <2>3, PursueMoves DEF i
    <2>5. \A u \in Settlers : settler'[u] = IF u = t THEN k ELSE settler[u]
      BY <1>0, <2>4
    <2>6. /\ bonus' \in [Invites -> [Sides -> Decisions]]
          /\ \A j \in Invites, r \in Sides :
                bonus'[j][r] = IF j = i /\ r = s THEN plan[s] ELSE bonus[j][r]
      BY <1>0, <2>1, <2>2
    <2>7. InvitesTypeOK' /\ Entered'
      <3>1. settler' \in [Settlers -> SettlerType]
        BY <1>0, <2>4
      <3> QED
        BY <2>2, <2>4, <2>5, <2>6, <3>1 DEF InvitesTypeOK, SettlerType, Decisions, Entered
    <2>8. Backed'
      BY <2>2, <2>4, <2>5 DEF Backed, Side
    <2>9. Alone'
      BY <2>2, <2>5 DEF Alone
    <2>10. plan[s] = "granted" => granted[i][s] > 0
      BY <2>2 DEF Backed, i, s, plan
    <2>11. CreditedOnce' /\ GrantedIsCredited'
      BY <2>2, <2>6, <2>10 DEF BonusesHold, CreditedOnce, GrantedIsCredited
    <2> DEFINE paid == {j \in Invites : bonus[j]["inviter"] = "granted"}
    <2>12. IsFiniteSet(paid) /\ InviterGrants = Cardinality(paid)
      BY InviteConstants, FS_Subset DEF InviterGrants
    <2>13. InviterGrants' = Cardinality({j \in Invites : bonus'[j]["inviter"] = "granted"})
      BY DEF InviterGrants
    <2>14. CASE s = "inviter" /\ plan[s] = "granted"
      <3>1. {j \in Invites : bonus'[j]["inviter"] = "granted"} = paid \cup {i}
        BY <1>0, <2>1, <2>6, <2>14
      <3>2. ~crowded => i \in paid \/ Cardinality(paid) < Cap
        BY <2>1, <2>12, <2>14 DEF Room, i, plan
      <3>3. i \in paid => paid \cup {i} = paid
        OBVIOUS
      <3> HIDE DEF paid
      <3>4. /\ Cardinality(paid) \in Nat /\ Cardinality(paid \cup {i}) \in Nat
            /\ Cardinality(paid \cup {i}) <= Cardinality(paid) + 1
        BY <2>12, OneMore
      <3>5. ~crowded => Cardinality(paid \cup {i}) <= Cap
        <4>1. ASSUME ~crowded, i \in paid PROVE Cardinality(paid \cup {i}) <= Cap
          BY <2>12, <3>3, <4>1 DEF BonusesHold, CapHolds
        <4>2. ASSUME ~crowded, Cardinality(paid) < Cap PROVE Cardinality(paid \cup {i}) <= Cap
          BY <3>4, <4>2, InviteConstants
        <4> QED BY <3>2, <4>1, <4>2
      <3>6. CapHolds'
        BY <2>2, <2>13, <3>1, <3>5 DEF CapHolds
      <3>7. k.plan["inviter"] # "granted"
        BY <1>0, <2>3, <2>4, <2>14, FreeType
      <3>8. Room'
        BY <1>0, <2>2, <2>5, <3>7, FreeType DEF Room, Alone
      <3> QED
        BY <2>7, <2>8, <2>9, <2>11, <3>6, <3>8 DEF BonusesHold
    <2>15. CASE s # "inviter" \/ plan[s] # "granted"
      <3> DEFINE after == {j \in Invites : bonus'[j]["inviter"] = "granted"}
      <3>1. after \subseteq paid
        BY <1>0, <2>1, <2>6, <2>15
      <3>2. /\ Cardinality(after) <= Cardinality(paid)
            /\ Cardinality(after) \in Nat /\ Cardinality(paid) \in Nat
        <4> HIDE DEF after, paid
        <4> QED BY <2>12, <3>1, FS_Subset, FS_CardinalityType
      <3>3. CapHolds'
        <4> HIDE DEF after, paid
        <4>1. ~crowded => Cardinality(after) <= Cap
          BY <2>12, <3>2, InviteConstants DEF BonusesHold, CapHolds
        <4> QED BY <2>2, <2>13, <4>1 DEF CapHolds, after
      <3>4. ~crowded /\ k.plan["inviter"] = "granted" =>
                bonus'[k.invite]["inviter"] = "granted" \/ InviterGrants' < Cap
        <4>1. SUFFICES ASSUME ~crowded, k.plan["inviter"] = "granted"
                       PROVE  bonus'[k.invite]["inviter"] = "granted" \/ InviterGrants' < Cap
          OBVIOUS
        <4>2. k.invite = i /\ rest["inviter"] = "granted"
          BY <1>0, <2>4, <4>1, FreeType
        <4>3. s # "inviter" /\ plan["inviter"] = "granted"
          BY <1>0, <2>3, <4>2
        <4>4. bonus'[i]["inviter"] = bonus[i]["inviter"]
          BY <1>0, <2>1, <2>6, <4>3
        <4>5. bonus[i]["inviter"] = "granted" \/ Cardinality(paid) < Cap
          BY <2>12, <4>1, <4>3 DEF Room, i, plan
        <4>6. Cardinality(paid) < Cap => InviterGrants' < Cap
          <5> HIDE DEF after, paid
          <5> QED BY <2>13, <3>2, InviteConstants DEF after
        <4> QED BY <4>2, <4>4, <4>5, <4>6
      <3>5. Room'
        BY <1>0, <2>2, <2>5, <3>4, FreeType DEF Room, Alone
      <3> QED
        BY <2>7, <2>8, <2>9, <2>11, <3>3, <3>5 DEF BonusesHold
    <2> QED
      BY <2>14, <2>15
  <1>13. CASE UNCHANGED <<used, network, bonus, granted, settler, failed, crowded>> /\ confirmed' \subseteq used
    <2>1. InviterGrants' = InviterGrants
      BY <1>13 DEF InviterGrants
    <2>2. InvitesTypeOK' /\ Entered' /\ Backed' /\ Alone' /\ Room'
      BY <1>13, <2>1 DEF InvitesTypeOK, Entered, Backed, Side, Alone, Room
    <2>3. BonusesHold'
      BY <1>13, <2>1 DEF BonusesHold, CreditedOnce, GrantedIsCredited, CapHolds
    <2> QED
      BY <2>2, <2>3
  <1>14. ASSUME NEW i \in Invites, Confirm(i)
         PROVE  BInv'
    BY <1>13, <1>14 DEF Confirm, InvitesTypeOK
  <1>15. CASE UNCHANGED inviteVars
    BY <1>13, <1>15 DEF inviteVars, InvitesTypeOK
  <1> QED
    BY <1>2, <1>3, <1>5, <1>6, <1>8, <1>9, <1>10, <1>11, <1>12, <1>14, <1>15 DEF InvitesNext, Settle

\* Settlements that race, fail half-way or are repeated credit a side once, never leave a
\* granted row without its grant, and while they take turns keep the inviter's cap
\* (credits.ts, settleInviteBonus).
THEOREM BonusesAreHeld == InvitesSpec => []BonusesHold
  BY BonusStart, StepBonus, PTL DEF InvitesSpec, BInv

-----------------------------------------------------------------------------
(* Plugin invoices.                                                         *)

PaidRows == {i \in Invoices : invoice[i].paid}
Awaiting == {request[r].invoice : r \in {q \in Requests : Extending(q)}}

\* The invoices whose period has been added, or was lost with the request that should have.
Settled == PaidRows \ Awaiting

Paying == {"confirmed", "forwarded"}
RequestType == [pc : {"idle", "ask", "copy", "close", "claim", "mark", "read", "extend", "answer"},
                invoice : Invoices, kind : Kinds \cup {"poll"}, now : 0 .. MaxTime, base : Nat]

\* Rows, events and requests say "paid" of what CoinPay was paid for, and of all of it.
PaidIsPaid ==
    /\ \A i \in Invoices : invoice[i].paid => IsPaid(i)
    /\ \A i \in Invoices : IsPaid(i) => \/ invoice[i].paid
                                        \/ \E e \in due : e.invoice = i /\ e.kind \in Paying
    /\ \A e \in due : e.kind \in Paying => IsPaid(e.invoice)
    /\ \A i \in Invoices \cap Legacy : payment[i] # "retry"

\* A request that claims handles a payment, and is past its claim only once the row is paid.
Claims ==
    \A r \in Requests :
        /\ request[r].now <= now
        /\ request[r].pc = "claim" => IsPaid(request[r].invoice)
        /\ request[r].pc = "copy" => payment[request[r].invoice] \notin {"open", "retry"}
        /\ Extending(r) => invoice[request[r].invoice].paid
        /\ request[r].kind \in Paying /\ request[r].pc # "claim" => invoice[request[r].invoice].paid

\* An invoice is claimed by one request, and two may settle at once only when that shows.
OneClaim ==
    \A r, s \in Requests :
        Extending(r) /\ Extending(s) /\ r # s => request[r].invoice # request[s].invoice /\ overlapped

NoneTwice ==
    /\ paidUntil <= now + Cardinality(Settled)
    /\ \A r \in Requests : request[r].pc = "extend" => request[r].base <= now + Cardinality(Settled)

NoneLost ==
    faults = 0 /\ ~overlapped =>
        /\ paidUntil >= Cardinality(Settled)
        /\ \A r \in Requests : request[r].pc = "extend" => request[r].base = paidUntil

PInv == TypeOK /\ PaidIsPaid /\ Claims /\ OneClaim /\ NoneTwice /\ NoneLost

\* A request at rest has the type of one.
LEMMA IdleType == Idle \in RequestType /\ Idle.pc = "idle" /\ Idle.kind = "poll" /\ Idle.now = 0
  <1>1. (CHOOSE i \in Invoices : TRUE) \in Invoices
    BY BillingConstants
  <1>2. 0 \in 0 .. MaxTime
    BY BillingConstants
  <1> QED
    BY <1>1, <1>2 DEF Idle, RequestType

\* Invoices can be counted.
LEMMA RowsFinite ==
    /\ IsFiniteSet(PaidRows) /\ IsFiniteSet(Settled)
    /\ Cardinality(PaidRows) \in Nat /\ Cardinality(Settled) \in Nat
  <1>1. PaidRows \subseteq Invoices /\ Settled \subseteq Invoices
    BY DEF PaidRows, Settled
  <1> QED
    BY <1>1, BillingConstants, FS_Subset, FS_CardinalityType

\* Before any payment nothing is settled, and nothing extended.
LEMMA PluginStart == Init => PInv
  <1> SUFFICES ASSUME Init PROVE PInv
    OBVIOUS
  <1> USE DEF Init
  <1>1. TypeOK
    <2>1. 0 \in 0 .. MaxTime /\ 0 \in 0 .. MaxFaults
      BY BillingConstants
    <2> QED
      BY <2>1, IdleType DEF TypeOK, RequestType, Statuses
  <1>2. \A r \in Requests : request[r] = Idle /\ ~Extending(r)
    BY IdleType DEF Extending
  <1>3. PaidIsPaid
    BY DEF PaidIsPaid, IsPaid
  <1>4. Claims /\ OneClaim
    BY <1>2, IdleType DEF Claims, OneClaim, Paying
  <1>5. PaidRows = {}
    BY DEF PaidRows
  <1>6. Settled = {} /\ Cardinality(Settled) = 0
    BY <1>5, FS_EmptySet DEF Settled
  <1>7. NoneTwice /\ NoneLost
    BY <1>2, <1>6, IdleType DEF NoneTwice, NoneLost
  <1> QED
    BY <1>1, <1>3, <1>4, <1>7 DEF PInv

\* A step after which the same requests extend, from the same bases, and the same rows are
\* paid.
LEMMA SameSettled ==
    ASSUME PInv, TypeOK', PaidIsPaid', Claims', PaidRows' = PaidRows,
           \A r \in Requests : (request[r].pc \in {"read", "extend"} \/ request'[r].pc \in {"read", "extend"})
                                   => request'[r] = request[r],
           paidUntil' = paidUntil, overlapped' = overlapped, now' >= now, faults' >= faults
    PROVE  PInv'
  <1>1. \A r \in Requests : /\ Extending(r)' <=> Extending(r)
                            /\ Extending(r) => request'[r] = request[r]
    BY DEF Extending
  <1>2. Awaiting' = Awaiting
    BY <1>1 DEF Awaiting
  <1>3. Settled' = Settled
    BY <1>2 DEF Settled
  <1>4. OneClaim'
    BY <1>1 DEF PInv, OneClaim
  <1>5. \A r \in Requests : request'[r].pc = "extend" => request'[r] = request[r]
    OBVIOUS
  <1>6. Cardinality(Settled) \in Nat /\ Cardinality(Settled)' = Cardinality(Settled)
    BY <1>3, RowsFinite
  <1>7. NoneTwice'
    <2>1. now \in Nat /\ now' \in Nat /\ paidUntil \in Nat
      BY BillingConstants DEF PInv, TypeOK
    <2>2. paidUntil' <= now' + Cardinality(Settled')
      BY <1>3, <1>6, <2>1 DEF PInv, NoneTwice
    <2>3. ASSUME NEW r \in Requests, request'[r].pc = "extend"
          PROVE  request'[r].base <= now' + Cardinality(Settled')
      <3>1. request'[r] = request[r] /\ request[r].base \in Nat
        BY <1>5, <2>3 DEF PInv, TypeOK
      <3>2. request[r].base <= now + Cardinality(Settled)
        BY <2>3, <3>1 DEF PInv, NoneTwice
      <3> QED
        BY <1>3, <1>6, <2>1, <3>1, <3>2
    <2> QED
      BY <2>2, <2>3 DEF NoneTwice
  <1>8. NoneLost'
    <2>1. faults' = 0 => faults = 0
      BY BillingConstants DEF PInv, TypeOK
    <2> QED
      BY <1>3, <1>5, <1>6, <2>1 DEF PInv, NoneLost
  <1> QED
    BY <1>4, <1>7, <1>8 DEF PInv

\* What GoOn leaves of a request.
LEMMA GoOnKeeps ==
    ASSUME PInv, NEW r \in Requests, NEW next \in {"answer", "mark", "read", "idle"}, GoOn(r, next)
    PROVE  \E q \in RequestType :
               /\ request' = [request EXCEPT ![r] = q]
               /\ \/ q = Idle /\ next \notin {"mark", "read"}
                  \/ /\ q.pc = next /\ next # "idle" /\ q.invoice = request[r].invoice
                     /\ q.kind = request[r].kind /\ q.now \in {0, request[r].now}
  <1>1. request[r] \in RequestType /\ 0 \in 0 .. MaxTime
    BY BillingConstants DEF PInv, TypeOK, RequestType
  <1>2. CASE next = "answer" /\ request[r].kind # "poll"
    <2> DEFINE q == [request[r] EXCEPT !.pc = next, !.now = 0, !.base = 0]
    <2>1. q \in RequestType /\ q.pc = next /\ q.invoice = request[r].invoice
          /\ q.kind = request[r].kind /\ q.now = 0
      BY <1>1, <1>2 DEF RequestType
    <2>2. request' = [request EXCEPT ![r] = q]
      BY <1>2 DEF GoOn
    <2> QED
      BY <1>2, <2>1, <2>2
  <1>3. CASE next \in {"mark", "read"}
    <2> DEFINE q == [request[r] EXCEPT !.pc = next]
    <2>1. q \in RequestType /\ q.pc = next /\ q.invoice = request[r].invoice
          /\ q.kind = request[r].kind /\ q.now = request[r].now
      BY <1>1, <1>3 DEF RequestType
    <2>2. request' = [request EXCEPT ![r] = q]
      BY <1>3 DEF GoOn
    <2> QED
      BY <1>3, <2>1, <2>2
  <1>4. CASE ~(next = "answer" /\ request[r].kind # "poll") /\ next \notin {"mark", "read"}
    <2>1. request' = [request EXCEPT ![r] = Idle]
      BY <1>4 DEF GoOn
    <2> QED
      BY <1>4, <2>1, IdleType
  <1> QED
    BY <1>2, <1>3, <1>4

\* A request moves that neither was extending nor starts to; no row becomes paid, and an
\* event of a payment is dropped only when its row is.
LEMMA RequestMoves ==
    ASSUME PInv, NEW r \in Requests, NEW q \in RequestType, request' = [request EXCEPT ![r] = q],
           ~Extending(r), q.pc \notin {"read", "extend"}, q.now <= now,
           q.pc = "claim" => IsPaid(q.invoice),
           q.pc = "copy" => payment[q.invoice] \notin {"open", "retry"},
           q.kind \in Paying /\ q.pc # "claim" => invoice[q.invoice].paid,
           invoice' \in [Invoices -> [status : Statuses, paid : BOOLEAN]],
           \A i \in Invoices : invoice'[i].paid = invoice[i].paid,
           due' \subseteq due, \A e \in due \ due' : e.kind \in Paying => invoice[e.invoice].paid,
           UNCHANGED <<now, payment, paidUntil, overlapped>>, faults' \in 0 .. MaxFaults, faults' >= faults
    PROVE  PInv'
  <1>1. \A s \in Requests : request'[s] = IF s = r THEN q ELSE request[s]
    BY DEF PInv, TypeOK
  <1>2. TypeOK'
    BY DEF PInv, TypeOK, RequestType
  <1>3. PaidRows' = PaidRows
    BY DEF PaidRows
  <1>4. \A i \in Invoices : IsPaid(i)' <=> IsPaid(i)
    BY DEF IsPaid
  <1>5. \A e \in due : e.invoice \in Invoices
    BY DEF PInv, TypeOK, Events
  <1>6. PaidIsPaid'
    <2>1. ASSUME NEW i \in Invoices, IsPaid(i)
          PROVE  invoice'[i].paid \/ \E e \in due' : e.invoice = i /\ e.kind \in Paying
      <3>1. CASE invoice[i].paid
        BY <3>1
      <3>2. CASE ~invoice[i].paid
        BY <2>1, <3>2 DEF PInv, PaidIsPaid
      <3> QED BY <3>1, <3>2
    <2> QED
      BY <1>4, <1>5, <2>1 DEF PInv, PaidIsPaid
  <1>7. \A s \in Requests : request[s].invoice \in Invoices /\ request'[s].invoice \in Invoices
    BY <1>1 DEF PInv, TypeOK, RequestType
  <1>8. Claims'
    <2>1. ASSUME NEW s \in Requests
          PROVE  /\ request'[s].now <= now'
                 /\ request'[s].pc = "claim" => payment'[request'[s].invoice] \in {"paid", "forwarded"}
                 /\ request'[s].pc = "copy" => payment'[request'[s].invoice] \notin {"open", "retry"}
                 /\ request'[s].pc \in {"read", "extend"} => invoice'[request'[s].invoice].paid
                 /\ request'[s].kind \in Paying /\ request'[s].pc # "claim" => invoice'[request'[s].invoice].paid
      <3>1. CASE s = r
        BY <1>1, <1>7, <3>1 DEF IsPaid
      <3>2. CASE s # r
        BY <1>1, <1>7, <3>2 DEF PInv, Claims, Extending, IsPaid
      <3> QED BY <3>1, <3>2
    <2> QED
      BY <2>1 DEF Claims, Extending, IsPaid
  <1>9. \A s \in Requests : (request[s].pc \in {"read", "extend"} \/ request'[s].pc \in {"read", "extend"})
                                => request'[s] = request[s]
    BY <1>1 DEF Extending
  <1>10. paidUntil' = paidUntil /\ overlapped' = overlapped /\ now' >= now /\ faults' >= faults
    BY BillingConstants DEF PInv, TypeOK
  <1> QED
    BY <1>2, <1>3, <1>6, <1>8, <1>9, <1>10, SameSettled

\* One more period for an invoice that was being settled.
LEMMA Adds ==
    ASSUME PInv, NEW r \in Requests, Extending(r), NEW q \in RequestType,
           request' = [request EXCEPT ![r] = q], q.pc \notin {"read", "extend"}, invoice' = invoice
    PROVE  /\ Settled' = Settled \cup {request[r].invoice}
           /\ request[r].invoice \notin Settled
           /\ Cardinality(Settled') = Cardinality(Settled) + 1
  <1> DEFINE i == request[r].invoice
  <1>1. \A s \in Requests : request'[s] = IF s = r THEN q ELSE request[s]
    BY DEF PInv, TypeOK
  <1>2. i \in Invoices /\ i \in PaidRows /\ i \in Awaiting
    BY DEF PInv, TypeOK, Claims, PaidRows, Awaiting
  <1>3. \A s \in Requests \ {r} : Extending(s) => request[s].invoice # i
    BY DEF PInv, OneClaim
  <1>4. Awaiting' = Awaiting \ {i}
    <2>1. {s \in Requests : Extending(s)}' = {s \in Requests : Extending(s)} \ {r}
      BY <1>1 DEF Extending
    <2> QED
      BY <1>1, <1>3, <2>1 DEF Awaiting
  <1>5. PaidRows' = PaidRows
    BY DEF PaidRows
  <1>6. Settled' = Settled \cup {i} /\ i \notin Settled
    BY <1>2, <1>4, <1>5 DEF Settled
  <1> HIDE DEF i
  <1>7. Cardinality(Settled \cup {i}) = Cardinality(Settled) + 1
    BY <1>6, RowsFinite, OneMore
  <1> QED
    BY <1>6, <1>7 DEF i

\* The claim of paid_at, conditional on its being unset, keeps the invariant.
LEMMA ClaimSafe == ASSUME PInv, NEW r \in Requests, Claim(r) PROVE PInv'
  <1> DEFINE i == request[r].invoice
             kind == request[r].kind
  <1>0. /\ request[r] \in RequestType /\ i \in Invoices /\ kind \in Kinds \cup {"poll"}
        /\ request[r].pc = "claim" /\ IsPaid(i) /\ ~Extending(r) /\ request[r].now <= now
        /\ now \in Nat /\ UNCHANGED <<now, payment, due, paidUntil, faults>>
    BY BillingConstants DEF Claim, PInv, TypeOK, Claims, RequestType, Extending
  <1>1. CASE ~Claimable(i) /\ GoOn(r, AfterRefusal(kind)) /\ UNCHANGED <<invoice, overlapped>>
    <2>1. invoice[i].paid /\ AfterRefusal(kind) \in {"mark", "answer"}
      BY <1>1 DEF Claimable, AfterRefusal
    <2>2. PICK q \in RequestType :
              /\ request' = [request EXCEPT ![r] = q]
              /\ \/ q = Idle
                 \/ q.pc \in {"mark", "answer"} /\ q.invoice = i /\ q.kind = kind /\ q.now \in {0, request[r].now}
      BY <1>1, <2>1, GoOnKeeps
    <2>3. q.pc \in {"idle", "mark", "answer"} /\ q.now <= now
      BY <1>0, <2>2, IdleType
    <2>4. q.kind \in Paying /\ q.pc # "claim" => invoice[q.invoice].paid
      BY <2>1, <2>2, IdleType DEF Paying
    <2>5. faults' \in 0 .. MaxFaults /\ faults' >= faults /\ due' \subseteq due
          /\ invoice' \in [Invoices -> [status : Statuses, paid : BOOLEAN]]
      BY <1>0, <1>1, BillingConstants DEF PInv, TypeOK
    <2> HIDE DEF i, kind
    <2> QED
      BY <1>0, <1>1, <2>2, <2>3, <2>4, <2>5, RequestMoves
  <1>2. CASE /\ Claimable(i) /\ GoOn(r, "read")
             /\ invoice' = [invoice EXCEPT ![i] =
                               [status |-> IF kind = "forwarded" THEN "forwarded" ELSE "confirmed", paid |-> TRUE]]
             /\ overlapped' = (overlapped \/ \E other \in Requests \ {r} : Extending(other))
    <2>1. PICK q \in RequestType :
              /\ request' = [request EXCEPT ![r] = q]
              /\ q.pc = "read" /\ q.invoice = i /\ q.kind = kind /\ q.now \in {0, request[r].now}
      BY <1>2, GoOnKeeps
    <2>2. \A s \in Requests : request'[s] = IF s = r THEN q ELSE request[s]
      BY <2>1 DEF PInv, TypeOK
    <2>3. /\ \A j \in Invoices : invoice'[j].paid = (j = i \/ invoice[j].paid)
          /\ invoice' \in [Invoices -> [status : Statuses, paid : BOOLEAN]]
      <3> HIDE DEF i, kind
      <3> QED BY <1>0, <1>2 DEF PInv, TypeOK, Statuses
    <2> HIDE DEF kind
    <2>4. TypeOK'
      BY <1>0, <1>2, <2>1, <2>3 DEF PInv, TypeOK, RequestType
    <2>5. PaidIsPaid'
      <3>1. \A j \in Invoices : IsPaid(j)' <=> IsPaid(j)
        BY <1>0 DEF IsPaid
      <3>2. \A e \in due : e.invoice \in Invoices
        BY DEF PInv, TypeOK, Events
      <3> HIDE DEF i
      <3> QED
        BY <1>0, <2>3, <3>1, <3>2 DEF PInv, PaidIsPaid
    <2>6. Claims'
      <3>1. ASSUME NEW s \in Requests
            PROVE  /\ request'[s].now <= now'
                   /\ request'[s].pc = "claim" => IsPaid(request'[s].invoice)
                   /\ request'[s].pc = "copy" => payment'[request'[s].invoice] \notin {"open", "retry"}
                   /\ request'[s].pc \in {"read", "extend"} => invoice'[request'[s].invoice].paid
                   /\ request'[s].kind \in Paying /\ request'[s].pc # "claim" => invoice'[request'[s].invoice].paid
        <4>1. CASE s = r
          BY <1>0, <2>1, <2>2, <2>3, <4>1
        <4>2. CASE s # r
          <5>1. request'[s] = request[s] /\ request[s].invoice \in Invoices
            BY <2>2, <4>2 DEF PInv, TypeOK
          <5> HIDE DEF i
          <5> QED BY <1>0, <2>3, <5>1 DEF PInv, Claims, Extending
        <4> QED BY <4>1, <4>2
      <3> QED
        BY <1>0, <3>1 DEF Claims, Extending, IsPaid
    <2>7. \A s \in Requests : Extending(s)' <=> (s = r \/ Extending(s))
      BY <2>1, <2>2 DEF Extending
    <2>8. \A s \in Requests : Extending(s) => request[s].invoice # i
      BY <1>0, <1>2 DEF PInv, Claims, Claimable
    <2>9. OneClaim'
      <3>1. ASSUME NEW s \in Requests, NEW t \in Requests, Extending(s)', Extending(t)', s # t
            PROVE  request'[s].invoice # request'[t].invoice /\ overlapped'
        <4>1. CASE s # r /\ t # r
          BY <1>2, <2>2, <2>7, <3>1, <4>1 DEF PInv, OneClaim
        <4>2. CASE s = r \/ t = r
          BY <1>2, <2>1, <2>2, <2>7, <2>8, <3>1, <4>2
        <4> QED BY <4>1, <4>2
      <3> QED
        BY <3>1 DEF OneClaim
    <2>10. Settled' = Settled
      <3>1. PaidRows' = PaidRows \cup {i} /\ i \notin PaidRows
        <4> HIDE DEF i
        <4> QED BY <1>0, <1>2, <2>3 DEF PaidRows, Claimable
      <3>2. Awaiting' = Awaiting \cup {i}
        BY <2>1, <2>2, <2>7 DEF Awaiting
      <3> HIDE DEF i
      <3> QED BY <3>1, <3>2 DEF Settled
    <2>11. \A s \in Requests : request'[s].pc = "extend" => request'[s] = request[s]
      BY <2>1, <2>2
    <2>12. NoneTwice'
      BY <1>0, <2>10, <2>11 DEF PInv, NoneTwice
    <2>13. NoneLost'
      BY <1>0, <1>2, <2>10, <2>11 DEF PInv, NoneLost
    <2> QED
      BY <2>4, <2>5, <2>6, <2>9, <2>12, <2>13 DEF PInv
  <1> QED
    BY <1>1, <1>2 DEF Claim

\* A request reads what is paid, or adds a period to it, or is lost while it does.
LEMMA SettlementSafe ==
    ASSUME PInv, NEW r \in Requests, Extending(r), ReadInstall(r) \/ Extend(r) \/ Fail(r)
    PROVE  PInv'
  <1> DEFINE i == request[r].invoice
  <1>0. /\ request[r] \in RequestType /\ request[r].base \in Nat /\ i \in Invoices /\ invoice[i].paid
        /\ request[r].now <= now /\ request[r].now \in Nat /\ now \in Nat /\ paidUntil \in Nat
        /\ UNCHANGED <<now, payment, due, invoice, overlapped>>
    BY BillingConstants DEF PInv, TypeOK, Claims, RequestType, ReadInstall, Extend, Fail
  <1>1. \A j \in Invoices : IsPaid(j)' <=> IsPaid(j)
    BY <1>0 DEF IsPaid
  <1>2. PaidIsPaid'
    <2>1. \A e \in due : e.invoice \in Invoices
      BY DEF PInv, TypeOK, Events
    <2> HIDE DEF i
    <2> QED BY <1>0, <1>1, <2>1 DEF PInv, PaidIsPaid
  <1>3. ASSUME NEW q \in RequestType, request' = [request EXCEPT ![r] = q],
               q.invoice = i \/ q = Idle, q.pc \in {"idle", "extend", "answer"}, q.now <= now,
               paidUntil' \in Nat, faults' \in 0 .. MaxFaults
        PROVE  /\ TypeOK' /\ Claims' /\ OneClaim'
               /\ \A s \in Requests : request'[s] = IF s = r THEN q ELSE request[s]
    <2>1. \A s \in Requests : request'[s] = IF s = r THEN q ELSE request[s]
      BY <1>3 DEF PInv, TypeOK
    <2> HIDE DEF i
    <2>2. TypeOK'
      BY <1>0, <1>3 DEF PInv, TypeOK, RequestType
    <2>3. ASSUME NEW s \in Requests
          PROVE  /\ request'[s].now <= now'
                 /\ request'[s].pc = "claim" => payment'[request'[s].invoice] \in {"paid", "forwarded"}
                 /\ request'[s].pc = "copy" => payment'[request'[s].invoice] \notin {"open", "retry"}
                 /\ request'[s].pc \in {"read", "extend"} => invoice'[request'[s].invoice].paid
                 /\ request'[s].kind \in Paying /\ request'[s].pc # "claim" => invoice'[request'[s].invoice].paid
      <3>1. CASE s = r
        BY <1>0, <1>3, <2>1, <3>1, IdleType DEF Paying
      <3>2. CASE s # r
        BY <1>0, <2>1, <3>2 DEF PInv, Claims, Extending, IsPaid
      <3> QED BY <3>1, <3>2
    <2>4. Claims'
      BY <2>3 DEF Claims, Extending, IsPaid
    <2>5. \A s \in Requests : Extending(s)' => Extending(s) /\ request'[s].invoice = request[s].invoice
      BY <1>3, <2>1, IdleType DEF Extending, i
    <2>6. OneClaim'
      BY <1>0, <2>5 DEF PInv, OneClaim
    <2> QED
      BY <2>1, <2>2, <2>4, <2>6
  <1>4. CASE ReadInstall(r)
    <2> DEFINE q == [request[r] EXCEPT !.pc = "extend", !.base = paidUntil]
    <2>1. /\ q \in RequestType /\ q.pc = "extend" /\ q.invoice = i /\ q.base = paidUntil
          /\ q.now = request[r].now
      BY <1>0 DEF RequestType
    <2>2. /\ request' = [request EXCEPT ![r] = q] /\ paidUntil' = paidUntil /\ faults' = faults
          /\ faults \in 0 .. MaxFaults
      BY <1>4 DEF ReadInstall, PInv, TypeOK
    <2> HIDE DEF q
    <2>3. /\ TypeOK' /\ Claims' /\ OneClaim'
          /\ \A s \in Requests : request'[s] = IF s = r THEN q ELSE request[s]
      BY <1>0, <1>3, <2>1, <2>2
    <2>4. Settled' = Settled
      <3>1. \A s \in Requests : /\ Extending(s)' <=> Extending(s)
                                /\ request'[s].invoice = request[s].invoice
        BY <2>1, <2>3 DEF Extending
      <3>2. Awaiting' = Awaiting
        BY <3>1 DEF Awaiting
      <3>3. PaidRows' = PaidRows
        BY <1>0 DEF PaidRows
      <3> QED BY <3>2, <3>3 DEF Settled
    <2>5. NoneTwice' /\ NoneLost'
      BY <1>0, <2>1, <2>2, <2>3, <2>4 DEF PInv, NoneTwice, NoneLost
    <2> QED
      BY <1>2, <2>3, <2>5 DEF PInv
  <1>5. ASSUME NEW q \in RequestType, request' = [request EXCEPT ![r] = q],
               q.invoice = i \/ q = Idle, q.pc \in {"idle", "answer"}, q.now <= now,
               \/ faults' > 0 /\ paidUntil' = paidUntil
               \/ /\ request[r].pc = "extend" /\ faults' = faults
                  /\ paidUntil' = Extended(request[r].base, request[r].now),
               faults' \in 0 .. MaxFaults
        PROVE  PInv'
    <2>1. /\ Settled' = Settled \cup {i} /\ Cardinality(Settled') = Cardinality(Settled) + 1
          /\ Cardinality(Settled) \in Nat
      BY <1>0, <1>5, Adds, RowsFinite
    <2>2. Extended(request[r].base, request[r].now) \in Nat
      BY <1>0 DEF Extended
    <2>3. paidUntil' \in Nat
      BY <1>0, <1>5, <2>2
    <2>4. /\ TypeOK' /\ Claims' /\ OneClaim'
          /\ \A s \in Requests : request'[s] = IF s = r THEN q ELSE request[s]
      BY <1>3, <1>5, <2>3
    <2> DEFINE c == Cardinality(Settled)
    <2>5. paidUntil' <= now' + c + 1
      <3>1. paidUntil <= now + c
        BY DEF PInv, NoneTwice
      <3>2. request[r].pc = "extend" => request[r].base <= now + c
        BY DEF PInv, NoneTwice
      <3> HIDE DEF c
      <3>3. c \in Nat
        BY <2>1 DEF c
      <3> QED
        BY <1>0, <1>5, <3>1, <3>2, <3>3 DEF Extended
    <2>6. \A s \in Requests : request'[s].pc = "extend" => s # r /\ request'[s] = request[s]
      BY <1>5, <2>4
    <2>7. ASSUME NEW s \in Requests, request'[s].pc = "extend"
          PROVE  request'[s].base <= now' + c + 1
      <3>1. request[s].base <= now + c /\ request[s].base \in Nat
        BY <2>6, <2>7 DEF PInv, NoneTwice, TypeOK
      <3> HIDE DEF c
      <3> QED
        BY <1>0, <2>1, <2>6, <2>7, <3>1 DEF c
    <2>8. NoneTwice'
      <3>1. Cardinality(Settled)' = c + 1 /\ c \in Nat
        BY <2>1
      <3> HIDE DEF c
      <3>2. now' \in Nat /\ now' + c + 1 = now' + (c + 1)
        BY <1>0, <3>1
      <3> QED BY <2>5, <2>7, <3>1, <3>2 DEF NoneTwice
    <2>9. ASSUME faults' = 0, ~overlapped'
          PROVE  /\ paidUntil' >= c + 1
                 /\ \A s \in Requests : request'[s].pc # "extend"
      <3>1. /\ faults = 0 /\ ~overlapped /\ request[r].pc = "extend"
            /\ paidUntil' = Extended(request[r].base, request[r].now)
        BY <1>0, <1>5, <2>9
      <3>2. paidUntil >= c /\ request[r].base = paidUntil
        BY <3>1 DEF PInv, NoneLost
      <3>3. \A s \in Requests \ {r} : ~Extending(s)
        BY <3>1 DEF PInv, OneClaim
      <3>4. \A s \in Requests : request'[s].pc # "extend"
        BY <2>6, <3>3 DEF Extending
      <3> HIDE DEF c
      <3>5. c \in Nat
        BY <2>1 DEF c
      <3>6. paidUntil' >= c + 1
        BY <1>0, <3>1, <3>2, <3>5 DEF Extended
      <3> QED
        BY <3>4, <3>6
    <2>10. NoneLost'
      BY <2>1, <2>9 DEF NoneLost
    <2> QED
      BY <1>2, <2>4, <2>8, <2>10 DEF PInv
  <1>6. CASE Extend(r)
    <2>1. PICK q \in RequestType :
              /\ request' = [request EXCEPT ![r] = q]
              /\ \/ q = Idle
                 \/ q.pc = "answer" /\ q.invoice = i /\ q.now \in {0, request[r].now}
      BY <1>6, GoOnKeeps DEF Extend
    <2>2. q.pc \in {"idle", "answer"} /\ q.now <= now /\ (q.invoice = i \/ q = Idle)
      BY <1>0, <2>1, IdleType
    <2>3. /\ request[r].pc = "extend" /\ faults' = faults /\ faults \in 0 .. MaxFaults
          /\ paidUntil' = Extended(request[r].base, request[r].now)
      BY <1>6 DEF Extend, PInv, TypeOK
    <2> QED
      BY <1>5, <2>1, <2>2, <2>3
  <1>7. CASE Fail(r)
    <2>1. request' = [request EXCEPT ![r] = Idle]
      BY <1>7 DEF Fail, GoOn
    <2>2. faults' \in 0 .. MaxFaults /\ faults' > 0 /\ paidUntil' = paidUntil
      BY <1>7, BillingConstants DEF Fail, PInv, TypeOK
    <2>3. Idle \in RequestType /\ Idle.pc \in {"idle", "answer"} /\ Idle.now <= now
      BY <1>0, IdleType
    <2> HIDE DEF i
    <2> QED
      BY <1>5, <2>1, <2>2, <2>3
  <1> QED
    BY <1>4, <1>6, <1>7

\* No step of a request, of CoinPay or of time breaks the invariant of the billing.
LEMMA StepPlugin == PInv /\ [Next]_billingVars => PInv'
  <1> SUFFICES ASSUME PInv, [Next]_billingVars PROVE PInv'
    OBVIOUS
  <1>0. /\ TypeOK /\ now \in Nat /\ faults \in 0 .. MaxFaults /\ faults >= faults
        /\ invoice \in [Invoices -> [status : Statuses, paid : BOOLEAN]]
    BY BillingConstants DEF PInv, TypeOK
  <1>1. ASSUME TypeOK', PaidIsPaid', now' >= now, UNCHANGED <<invoice, paidUntil, request, faults, overlapped>>,
               \A i \in Invoices : /\ IsPaid(i) => IsPaid(i)'
                                   /\ payment[i] \notin {"open", "retry"} => payment'[i] \notin {"open", "retry"}
        PROVE  PInv'
    <2>1. Claims'
      <3>1. \A r \in Requests : request[r].now \in Nat /\ request[r].invoice \in Invoices /\ now' \in Nat
        BY <1>1, BillingConstants DEF PInv, TypeOK
      <3>2. ASSUME NEW r \in Requests
            PROVE  /\ request[r].now <= now'
                   /\ request[r].pc = "claim" => IsPaid(request[r].invoice)'
                   /\ request[r].pc = "copy" => payment'[request[r].invoice] \notin {"open", "retry"}
        BY <1>0, <1>1, <3>1 DEF PInv, Claims, IsPaid
      <3> QED
        BY <1>1, <3>1, <3>2 DEF PInv, Claims, Extending, IsPaid
    <2>2. PaidRows' = PaidRows
      BY <1>1 DEF PaidRows
    <2>3. faults' >= faults /\ paidUntil' = paidUntil /\ overlapped' = overlapped
      BY <1>0, <1>1
    <2>4. \A r \in Requests : request'[r] = request[r]
      BY <1>1
    <2> QED
      BY <1>1, <2>1, <2>2, <2>3, <2>4, SameSettled
  <1>2. CASE Tick
    <2>1. TypeOK' /\ now' >= now
      BY <1>0, <1>2, BillingConstants DEF Tick, TypeOK
    <2>2. \A i \in Invoices : IsPaid(i)' <=> IsPaid(i)
      BY <1>2 DEF Tick, IsPaid
    <2>3. PaidIsPaid'
      <3>1. \A e \in due : e.invoice \in Invoices
        BY DEF PInv, TypeOK, Events
      <3> QED BY <1>2, <2>2, <3>1 DEF Tick, PInv, PaidIsPaid
    <2> QED
      BY <1>1, <1>2, <2>1, <2>2, <2>3 DEF Tick
  <1>3. ASSUME NEW i \in Invoices, NEW state \in {"open", "retry", "paid", "forwarded", "expired"},
               NEW kind \in Kinds, Report(i, state, kind),
               IsPaid(i) => state \in {"paid", "forwarded"},
               state \in {"paid", "forwarded"} <=> kind \in Paying,
               state = "open" => payment[i] = "open", state = "retry" => payment[i] = "open" /\ i \notin Legacy
        PROVE  PInv'
    <2>1. /\ \A j \in Invoices : payment'[j] = IF j = i THEN state ELSE payment[j]
          /\ due' = due \cup {[invoice |-> i, kind |-> kind]}
          /\ UNCHANGED <<now, invoice, paidUntil, request, faults, overlapped>>
      BY <1>0, <1>3 DEF Report, TypeOK
    <2>2. TypeOK'
      BY <1>0, <1>3 DEF Report, TypeOK, Events
    <2>3. \A j \in Invoices : IsPaid(j)' <=> (IsPaid(j) \/ (j = i /\ kind \in Paying))
      BY <1>3, <2>1 DEF IsPaid
    <2>4. PaidIsPaid'
      <3>1. \A e \in due' : e.invoice \in Invoices
        BY <2>2 DEF TypeOK, Events
      <3>2. ASSUME NEW j \in Invoices, IsPaid(j)'
            PROVE  invoice'[j].paid \/ \E e \in due' : e.invoice = j /\ e.kind \in Paying
        <4>1. CASE IsPaid(j)
          BY <2>1, <4>1 DEF PInv, PaidIsPaid
        <4>2. CASE j = i /\ kind \in Paying
          <5>1. [invoice |-> i, kind |-> kind] \in due'
            BY <2>1
          <5> QED BY <4>2, <5>1
        <4> QED BY <2>3, <3>2, <4>1, <4>2
      <3>3. ASSUME NEW e \in due', e.kind \in Paying
            PROVE  IsPaid(e.invoice)'
        <4>1. CASE e \in due
          BY <2>3, <3>1, <3>3, <4>1 DEF PInv, PaidIsPaid
        <4>2. CASE e = [invoice |-> i, kind |-> kind]
          <5>1. e.invoice = i /\ e.kind = kind
            BY <4>2
          <5> QED BY <2>3, <3>3, <5>1
        <4> QED BY <2>1, <4>1, <4>2
      <3>4. \A j \in Invoices : invoice'[j].paid => IsPaid(j)'
        BY <2>1, <2>3 DEF PInv, PaidIsPaid
      <3>5. \A j \in Invoices \cap Legacy : payment'[j] # "retry"
        BY <1>3, <2>1 DEF PInv, PaidIsPaid
      <3> QED
        BY <3>2, <3>3, <3>4, <3>5 DEF PaidIsPaid
    <2>5. \A j \in Invoices : payment[j] \notin {"open", "retry"} => payment'[j] \notin {"open", "retry"}
      BY <1>3, <2>1
    <2> QED
      BY <1>0, <1>1, <2>1, <2>2, <2>3, <2>4, <2>5
  <1>4. ASSUME NEW i \in Invoices, Pay(i) \/ Forward(i) \/ Lapse(i)
        PROVE  PInv'
    <2>1. CASE Pay(i)
      BY <1>3, <2>1 DEF Pay, Kinds, Paying, IsPaid
    <2>2. CASE Forward(i)
      BY <1>3, <2>2 DEF Forward, Kinds, Paying, IsPaid
    <2>3. CASE Lapse(i) /\ i \in Legacy
      <3>1. Report(i, "expired", "expired") /\ ~IsPaid(i)
        BY <2>3 DEF Lapse, IsPaid
      <3> QED
        BY <1>3, <3>1 DEF Kinds, Paying
    <2>4. CASE Lapse(i) /\ i \notin Legacy
      <3>1. Report(i, "retry", "expired") /\ ~IsPaid(i) /\ payment[i] = "open"
        BY <2>4 DEF Lapse, IsPaid
      <3> QED
        BY <1>3, <2>4, <3>1 DEF Kinds, Paying
    <2> QED BY <1>4, <2>1, <2>2, <2>3, <2>4
  <1>5. ASSUME NEW i \in Invoices, SessionEnds(i)
        PROVE  PInv'
    <2>1. TypeOK'
      BY <1>0, <1>5 DEF SessionEnds, TypeOK
    <2>2. \A j \in Invoices : IsPaid(j)' <=> IsPaid(j)
      BY <1>0, <1>5 DEF SessionEnds, IsPaid, TypeOK
    <2>3. \A j \in Invoices : payment'[j] = payment[j] \/ payment'[j] = "expired"
      BY <1>0, <1>5 DEF SessionEnds, TypeOK
    <2>4. \A j \in Invoices : /\ IsPaid(j) => IsPaid(j)'
                              /\ payment[j] \notin {"open", "retry"} => payment'[j] \notin {"open", "retry"}
      BY <2>2, <2>3
    <2>5. PaidIsPaid'
      <3>1. \A e \in due : e.invoice \in Invoices
        BY DEF PInv, TypeOK, Events
      <3>2. \A j \in Invoices \cap Legacy : payment'[j] # "retry"
        BY <2>3 DEF PInv, PaidIsPaid
      <3> QED BY <1>5, <2>2, <3>1, <3>2 DEF SessionEnds, PInv, PaidIsPaid
    <2>6. now' >= now /\ UNCHANGED <<invoice, paidUntil, request, faults, overlapped>>
      BY <1>0, <1>5 DEF SessionEnds
    <2> QED
      BY <1>1, <2>1, <2>5, <2>4, <2>6
  <1> USE DEF RequestType
  <1>6. ASSUME NEW r \in Requests, NEW e \in Events, Deliver(r, e)
        PROVE  PInv'
    <2> DEFINE next == Handling(e.invoice, e.kind)
               q == [pc |-> next, invoice |-> e.invoice, kind |-> e.kind,
                     now |-> IF next = "claim" THEN now ELSE 0, base |-> 0]
    <2>1. /\ next \in {"claim", "close", "answer"} /\ e.invoice \in Invoices /\ e.kind \in Kinds
          /\ next = "claim" <=> e.kind \in Paying
      BY DEF Handling, Events, Paying, Kinds
    <2>2. /\ q \in RequestType /\ q.pc = next /\ q.invoice = e.invoice /\ q.kind = e.kind /\ q.now <= now
      <3>1. 0 \in 0 .. MaxTime /\ now \in 0 .. MaxTime
        BY <1>0, BillingConstants DEF TypeOK
      <3> HIDE DEF next
      <3> QED BY <2>1, <3>1
    <2>3. e.kind \in Paying => IsPaid(e.invoice)
      BY <1>6 DEF Deliver, PInv, PaidIsPaid
    <2>4. /\ request' = [request EXCEPT ![r] = q] /\ ~Extending(r)
          /\ UNCHANGED <<now, payment, due, invoice, paidUntil, faults, overlapped>>
      BY <1>6 DEF Deliver, Extending
    <2> HIDE DEF q, next
    <2> QED
      BY <1>0, <2>1, <2>2, <2>3, <2>4, RequestMoves
  <1>7. ASSUME NEW r \in Requests, NEW i \in Invoices, Poll(r, i)
        PROVE  PInv'
    <2> DEFINE q == [Idle EXCEPT !.pc = "ask", !.invoice = i]
    <2>1. q \in RequestType /\ q.pc = "ask" /\ q.kind = "poll" /\ q.now = 0
      BY IdleType
    <2>2. /\ request' = [request EXCEPT ![r] = q] /\ ~Extending(r)
          /\ UNCHANGED <<now, payment, due, invoice, paidUntil, faults, overlapped>>
      BY <1>7 DEF Poll, Extending
    <2> HIDE DEF q
    <2>3. q.pc \notin {"read", "extend", "claim", "copy"} /\ q.kind \notin Paying /\ q.now <= now
      BY <1>0, <2>1 DEF Paying
    <2>4. /\ invoice' \in [Invoices -> [status : Statuses, paid : BOOLEAN]]
          /\ faults' \in 0 .. MaxFaults /\ faults' >= faults
      BY <1>0, <2>2
    <2> QED
      BY <2>1, <2>2, <2>3, <2>4, RequestMoves
  <1>8. ASSUME NEW r \in Requests, Ask(r)
        PROVE  PInv'
    <2> DEFINE next == Asked(request[r].invoice)
               q == CASE next = "idle"  -> Idle
                      [] next = "claim" -> [request[r] EXCEPT !.pc = next, !.now = now]
                      [] OTHER          -> [request[r] EXCEPT !.pc = next]
    <2>1. /\ request[r] \in RequestType /\ request[r].pc = "ask" /\ request[r].now <= now /\ now \in 0 .. MaxTime
          /\ ~Extending(r) /\ request[r].invoice \in Invoices
          /\ request[r].kind \in Paying => invoice[request[r].invoice].paid
      BY <1>0, <1>8 DEF Ask, PInv, TypeOK, Claims, Extending
    <2>2. /\ next \in {"idle", "claim", "close", "copy"} /\ (next = "claim" => IsPaid(request[r].invoice))
          /\ next = "copy" => payment[request[r].invoice] \notin {"open", "retry"}
      BY <2>1 DEF Asked, PInv, PaidIsPaid
    <2>3. /\ request' = [request EXCEPT ![r] = q]
          /\ UNCHANGED <<now, payment, due, invoice, paidUntil, faults, overlapped>>
      BY <1>8 DEF Ask
    <2>4. /\ q \in RequestType /\ q.pc = next /\ q.now <= now
          /\ q = Idle \/ (q.invoice = request[r].invoice /\ q.kind = request[r].kind)
      <3> HIDE DEF next
      <3>1. CASE next = "idle"
        BY <1>0, <2>1, <3>1, IdleType
      <3>2. CASE next = "claim"
        <4>1. q = [request[r] EXCEPT !.pc = "claim", !.now = now]
          BY <3>2
        <4> HIDE DEF q
        <4>2. q.pc = "claim" /\ q.now = now /\ q.invoice = request[r].invoice /\ q.kind = request[r].kind
          BY <2>1, <4>1
        <4>3. q \in RequestType
          BY <2>1, <4>1
        <4>4. now <= now
          BY <1>0
        <4> QED BY <3>2, <4>2, <4>3, <4>4
      <3>3. CASE next \in {"close", "copy"}
        BY <2>1, <3>3
      <3> QED BY <2>2, <3>1, <3>2, <3>3
    <2>5. /\ q.pc = "claim" => IsPaid(q.invoice)
          /\ q.pc = "copy" => payment[q.invoice] \notin {"open", "retry"}
      BY <2>2, <2>4, IdleType
    <2>6. q.kind \in Paying /\ q.pc # "claim" => invoice[q.invoice].paid
      BY <2>1, <2>4, IdleType DEF Paying
    <2> HIDE DEF q, next
    <2> QED
      BY <1>0, <2>1, <2>2, <2>3, <2>4, <2>5, <2>6, RequestMoves
  <1>9. ASSUME NEW r \in Requests, NEW next \in {"answer", "idle"}, GoOn(r, next), ~Extending(r),
               next = "answer" => request[r].pc # "claim",
               invoice' \in [Invoices -> [status : Statuses, paid : BOOLEAN]],
               \A i \in Invoices : invoice'[i].paid = invoice[i].paid,
               due' \subseteq due, \A e \in due \ due' : e.kind \in Paying => invoice[e.invoice].paid,
               UNCHANGED <<now, payment, paidUntil, overlapped>>, faults' \in 0 .. MaxFaults, faults' >= faults
        PROVE  PInv'
    <2>1. PICK q \in RequestType :
              /\ request' = [request EXCEPT ![r] = q]
              /\ \/ q = Idle
                 \/ /\ q.pc = "answer" /\ next = "answer" /\ q.invoice = request[r].invoice
                    /\ q.kind = request[r].kind /\ q.now \in {0, request[r].now}
      BY <1>9, GoOnKeeps
    <2>2. /\ request[r].now <= now
          /\ request[r].kind \in Paying /\ request[r].pc # "claim" => invoice[request[r].invoice].paid
      BY DEF PInv, Claims
    <2>3. q.pc \in {"idle", "answer"} /\ q.now <= now
      BY <1>0, <2>1, <2>2, IdleType
    <2>4. q.kind \in Paying => invoice[q.invoice].paid
      BY <1>9, <2>1, <2>2, IdleType DEF Paying
    <2> QED
      BY <1>9, <2>1, <2>3, <2>4, RequestMoves
  <1>10. ASSUME NEW i \in Invoices, NEW status \in Statuses, SetStatus(i, status)
         PROVE  /\ invoice' \in [Invoices -> [status : Statuses, paid : BOOLEAN]]
                /\ \A j \in Invoices : invoice'[j].paid = invoice[j].paid
    BY <1>0, <1>10 DEF SetStatus
  <1>11. \A r \in Requests : request[r].invoice \in Invoices /\ request[r].now <= now
    BY DEF PInv, TypeOK, Claims
  <1>12. ASSUME NEW r \in Requests, Copy(r) \/ Close(r)
         PROVE  PInv'
    <2>1. \E status \in Statuses : SetStatus(request[r].invoice, status)
      <3>1. CASE Copy(r)
        <4>1. payment[request[r].invoice] \in {"paid", "forwarded", "expired"}
          BY <1>0, <1>11, <3>1 DEF TypeOK, Copy, PInv, Claims
        <4> QED
          BY <3>1, <4>1 DEF Copy, Statuses
      <3>2. CASE Close(r)
        BY <3>2 DEF Close, Statuses
      <3> QED BY <1>12, <3>1, <3>2
    <2>2. /\ ~Extending(r) /\ request[r].pc # "claim" /\ due' \subseteq due
          /\ UNCHANGED <<now, payment, due, paidUntil, faults, overlapped>>
          /\ GoOn(r, "idle") \/ GoOn(r, "answer")
      BY <1>12 DEF Copy, Close, Extending
    <2> QED
      BY <1>0, <1>9, <1>10, <1>11, <2>1, <2>2
  <1>13. ASSUME NEW r \in Requests, Mark(r)
         PROVE  PInv'
    <2>1. SetStatus(request[r].invoice, "forwarded") /\ "forwarded" \in Statuses /\ GoOn(r, "answer")
          /\ request[r].pc = "mark" /\ ~Extending(r) /\ due' \subseteq due
          /\ UNCHANGED <<now, payment, due, paidUntil, faults, overlapped>>
      BY <1>13 DEF Mark, Statuses, Extending
    <2> QED
      BY <1>0, <1>9, <1>10, <1>11, <2>1
  <1>14. ASSUME NEW r \in Requests, Answer(r)
         PROVE  PInv'
    <2>1. /\ GoOn(r, "idle") /\ request[r].pc = "answer" /\ ~Extending(r)
          /\ due' = due \ {[invoice |-> request[r].invoice, kind |-> request[r].kind]}
          /\ UNCHANGED <<now, payment, invoice, paidUntil, faults, overlapped>>
      BY <1>14 DEF Answer, Extending
    <2>2. request[r].kind \in Paying => invoice[request[r].invoice].paid
      BY <2>1 DEF PInv, Claims
    <2>3. \A e \in due \ due' : e.kind \in Paying => invoice[e.invoice].paid
      BY <2>1, <2>2
    <2> QED
      BY <1>0, <1>9, <2>1, <2>3
  <1>15. ASSUME NEW r \in Requests, Fail(r), ~Extending(r)
         PROVE  PInv'
    <2>1. /\ GoOn(r, "idle") /\ faults' \in 0 .. MaxFaults /\ faults' >= faults
          /\ UNCHANGED <<now, payment, due, invoice, paidUntil, overlapped>>
      BY <1>0, <1>15, BillingConstants DEF Fail
    <2> QED
      BY <1>0, <1>9, <1>15, <2>1
  <1>16. CASE UNCHANGED billingVars
    <2>1. TypeOK' /\ PaidIsPaid' /\ now' >= now
      BY <1>0, <1>16 DEF billingVars, TypeOK, PInv, PaidIsPaid, IsPaid
    <2>2. \A i \in Invoices : IsPaid(i) => IsPaid(i)'
      BY <1>16 DEF billingVars, IsPaid
    <2> QED
      BY <1>1, <1>16, <2>1, <2>2 DEF billingVars
  <1>17. ASSUME NEW r \in Requests, Step(r) \/ Fail(r)
         PROVE  PInv'
    <2>1. ReadInstall(r) \/ Extend(r) => Extending(r)
      BY DEF ReadInstall, Extend, Extending
    <2> QED
      BY <1>8, <1>12, <1>13, <1>14, <1>15, <1>17, <2>1, ClaimSafe, SettlementSafe DEF Step
  <1> QED
    BY <1>2, <1>4, <1>5, <1>6, <1>7, <1>16, <1>17 DEF Next

\* However the deliveries of an event, the poller and failures interleave, an invoice buys
\* one period and no more; and where no request fails and no two settle at once, not less
\* (plugin-billing.ts, settleInvoice).
THEOREM PaymentsAreWorthTheirPeriod == Spec => []PaymentsAddUp
  <1>1. PInv => PaymentsAddUp
    <2> SUFFICES ASSUME PInv PROVE PaymentsAddUp
      OBVIOUS
    <2>1. IsFiniteSet(PaidInvoices)
      BY BillingConstants, FS_Subset DEF PaidInvoices
    <2>2. Settled \subseteq PaidInvoices
      BY DEF Settled, PaidRows, PaidInvoices, PInv, PaidIsPaid
    <2>3. /\ Cardinality(Settled) <= Cardinality(PaidInvoices)
          /\ Cardinality(Settled) \in Nat /\ Cardinality(PaidInvoices) \in Nat
      BY <2>1, <2>2, FS_Subset, FS_CardinalityType
    <2>4. OnePeriodPerPayment
      <3>1. paidUntil <= now + Cardinality(Settled) /\ paidUntil \in Nat /\ now \in Nat
        BY BillingConstants DEF PInv, NoneTwice, TypeOK
      <3> QED BY <2>3, <3>1 DEF OnePeriodPerPayment
    <2>5. ASSUME Quiet, faults = 0, ~overlapped
          PROVE  paidUntil >= Cardinality(PaidInvoices)
      <3>1. Awaiting = {}
        BY <2>5 DEF Quiet, Awaiting, Extending
      <3>2. PaidInvoices \subseteq PaidRows
        BY <2>5 DEF Quiet, PInv, PaidIsPaid, PaidInvoices, PaidRows
      <3>3. Settled = PaidInvoices
        BY <2>2, <3>1, <3>2 DEF Settled
      <3> QED
        BY <2>5, <3>3 DEF PInv, NoneLost
    <2> QED
      BY <2>4, <2>5 DEF PaymentsAddUp, PaidDaysAdd
  <1> QED
    BY <1>1, PluginStart, StepPlugin, PTL DEF Spec
-----------------------------------------------------------------------------
(* The spend budget.                                                         *)

Sums == [Days -> [Buyers -> Nat]]

\* Days are counted from 0 to LastDay.
LEMMA DaysAre == Days \subseteq Nat /\ LastDay \in Nat /\ \A d \in Days : 0 <= d /\ d <= LastDay
  BY BudgetConstants DEF Days

\* What was spent in a day is the sum over the two buyers.
LEMMA DaySum == ASSUME NEW f \in Sums, NEW d \in Days
                PROVE  OfDay(f, d) \in Nat /\ OfDay(f, d) = f[d]["engine"] + f[d]["agent"]
  <1>1. f[d]["engine"] \in Nat /\ f[d]["agent"] \in Nat
    BY DEF Sums, Buyers
  <1> QED BY <1>1 DEF OfDay

\* The sum over a window: the recursion has a solution up to every day, and Since takes one.
LEMMA SinceUnfolds ==
    ASSUME NEW f \in Sums, NEW start \in Days
    PROVE  \E S : /\ S = [d \in -1..LastDay |-> IF d < start THEN 0 ELSE S[d - 1] + OfDay(f, d)]
                  /\ Since(f, start) = S[LastDay]
  <1> DEFINE Solved(n) == {S \in [-1..n -> Nat] :
                           \A d \in -1..n : S[d] = IF d < start THEN 0 ELSE S[d - 1] + OfDay(f, d)}
             T == {n \in Nat : n <= LastDay => Solved(n) # {}}
  <1>1. start \in Nat /\ LastDay \in Nat
    BY DaysAre
  <1>2. ASSUME NEW n \in Nat, n <= LastDay, NEW S \in [-1..n - 1 -> Nat],
               \A d \in -1..n - 1 : S[d] = IF d < start THEN 0 ELSE S[d - 1] + OfDay(f, d)
        PROVE  Solved(n) # {}
    <2> DEFINE next == IF n < start THEN 0 ELSE S[n - 1] + OfDay(f, n)
               R == [d \in -1..n |-> IF d = n THEN next ELSE S[d]]
    <2>1. n \in Days /\ OfDay(f, n) \in Nat /\ S[n - 1] \in Nat
      BY <1>1, <1>2, DaySum DEF Days
    <2>2. next \in Nat
      BY <2>1
    <2> HIDE DEF next
    <2>3. R \in [-1..n -> Nat]
      BY <2>2
    <2>4. ASSUME NEW d \in -1..n PROVE R[d] = IF d < start THEN 0 ELSE R[d - 1] + OfDay(f, d)
      <3>1. CASE d = n
        <4>1. R[d] = next /\ R[d - 1] = S[n - 1]
          BY <3>1
        <4> QED BY <3>1, <4>1 DEF next
      <3>2. CASE d # n
        <4>1. d \in -1..n - 1 /\ R[d] = S[d]
          BY <3>2
        <4>2. d >= start => d - 1 \in -1..n /\ d - 1 # n /\ R[d - 1] = S[d - 1]
          BY <1>1, <3>2
        <4> QED BY <1>1, <1>2, <4>1, <4>2
      <3> QED BY <3>1, <3>2
    <2> HIDE DEF R
    <2> QED BY <2>3, <2>4
  <1> HIDE DEF Solved
  <1>3. 0 \in T
    <2> DEFINE S == [d \in -1..0 - 1 |-> 0]
    <2>1. S \in [-1..0 - 1 -> Nat]
      OBVIOUS
    <2>2. \A d \in -1..0 - 1 : S[d] = IF d < start THEN 0 ELSE S[d - 1] + OfDay(f, d)
      BY <1>1
    <2> HIDE DEF S
    <2> QED BY <1>1, <1>2, <2>1, <2>2
  <1>4. ASSUME NEW n \in Nat, n \in T PROVE n + 1 \in T
    <2> SUFFICES ASSUME n + 1 <= LastDay PROVE Solved(n + 1) # {}
      OBVIOUS
    <2>1. PICK S : S \in Solved(n)
      BY <1>1, <1>4
    <2>2. S \in [-1..n -> Nat]
          /\ \A d \in -1..n : S[d] = IF d < start THEN 0 ELSE S[d - 1] + OfDay(f, d)
      BY <2>1 DEF Solved
    <2>3. n + 1 \in Nat /\ (n + 1) - 1 = n
      OBVIOUS
    <2> QED BY <1>2, <2>2, <2>3
  <1> HIDE DEF T
  <1>5. LastDay \in T
    BY <1>1, <1>3, <1>4, SetInduction
  <1>6. PICK S : S \in Solved(LastDay)
    BY <1>1, <1>5 DEF T
  <1>7. S = [d \in -1..LastDay |-> IF d < start THEN 0 ELSE S[d - 1] + OfDay(f, d)]
    BY <1>6 DEF Solved
  <1> QED
    BY <1>7 DEF Since

\* What was spent since a day is at least what was spent on any day from there on.
LEMMA SinceCovers ==
    ASSUME NEW f \in Sums, NEW start \in Days, NEW day1 \in Days, start <= day1
    PROVE  Since(f, start) \in Nat /\ OfDay(f, day1) <= Since(f, start)
  <1>1. PICK S : /\ S = [d \in -1..LastDay |-> IF d < start THEN 0 ELSE S[d - 1] + OfDay(f, d)]
                 /\ Since(f, start) = S[LastDay]
    BY SinceUnfolds
  <1> DEFINE Upto(d) == S[d] \in Nat /\ \A k \in Days : start <= k /\ k <= d => OfDay(f, k) <= S[d]
  <1>2. \A d \in -1..LastDay : S[d] = IF d < start THEN 0 ELSE S[d - 1] + OfDay(f, d)
    BY <1>1
  <1>3. Upto(-1)
    BY <1>2, DaysAre
  <1>4. ASSUME NEW d \in Days, Upto(d - 1) PROVE Upto(d)
    <2>1. d \in -1..LastDay /\ d \in Nat
      BY DaysAre
    <2>2. OfDay(f, d) \in Nat
      BY DaySum
    <2>3. CASE d < start
      BY <1>2, <2>1, <2>3, DaysAre
    <2>4. CASE d >= start
      <3>1. S[d] = S[d - 1] + OfDay(f, d)
        BY <1>2, <2>1, <2>4, DaysAre
      <3>2. ASSUME NEW k \in Days, start <= k, k <= d PROVE OfDay(f, k) <= S[d]
        <4>1. k = d \/ k <= d - 1
          BY <2>1, <3>2, DaysAre
        <4>2. OfDay(f, k) \in Nat /\ S[d - 1] \in Nat
          BY <1>4, DaySum
        <4> QED BY <1>4, <2>2, <3>1, <3>2, <4>1, <4>2
      <3> QED BY <1>4, <2>2, <3>1, <3>2
    <2> QED BY <2>1, <2>3, <2>4, DaysAre
  <1> HIDE DEF Upto
  <1>5. Upto(LastDay)
    <2> DEFINE T == {n \in Nat : n <= LastDay => Upto(n)}
    <2>1. 0 \in T
      BY <1>3, <1>4, DaysAre DEF Days
    <2>2. ASSUME NEW n \in Nat, n \in T PROVE n + 1 \in T
      <3> SUFFICES ASSUME n + 1 <= LastDay PROVE Upto(n + 1)
        OBVIOUS
      <3>1. n + 1 \in Days /\ (n + 1) - 1 = n /\ n <= LastDay
        BY DaysAre DEF Days
      <3> QED BY <1>4, <2>2, <3>1
    <2> HIDE DEF T
    <2>3. LastDay \in T
      BY <2>1, <2>2, DaysAre, SetInduction
    <2> QED BY <2>3 DEF T
  <1> QED
    BY <1>1, <1>5, DaysAre DEF Upto

\* A window starts on a day, and not after the day it is asked for.
LEMMA WindowStarts ==
    ASSUME NEW window, NEW d \in Days
    PROVE  /\ WindowStart(window, d) \in Days /\ WindowStart(window, d) <= d
           /\ window = "daily" => WindowStart(window, d) = d
  <1>1. d \in Nat /\ d <= LastDay /\ LastDay \in Nat
    BY DaysAre
  <1>2. d - (d % 7) \in Nat /\ d - (d % 7) <= d
    BY <1>1
  <1> QED BY <1>1, <1>2 DEF WindowStart, Days

\* The counter is as old as the last tick, and no older than the last buy.
CounterOK ==
    /\ counter \in [spent : Nat, start : Days, window : {"daily", "weekly"}]
    /\ counter.start <= day
    /\ counter.start # WindowStart(counter.window, day) => OfDay(filled, day) = 0

BudgetInv ==
    /\ day \in Days /\ seededFor \in Days \cup {-1}
    /\ setting \in {"daily", "weekly"}
    /\ worker.start \in Days /\ worker.start <= day
    /\ worker.pc \in {"idle", "seed", "drain", "insert", "read", "execute", "rewrite", "trade"}
    /\ worker = [pc |-> worker.pc, start |-> worker.start, batch |-> worker.batch, done |-> worker.done,
                 current |-> worker.current]
    /\ buffer \in Sums /\ carry \in Sums /\ ledger \in Sums /\ filled \in Sums
    /\ \A d \in Days : d > day => OfDay(filled, d) = 0
    /\ CounterOK
    /\ forgot \in BOOLEAN
    /\ worker.pc # "insert" => carry = Nothing
    /\ ~forgot => /\ \A d \in Days : OfDay(filled, d) = OfDay(ledger, d) + OfDay(buffer, d) + OfDay(carry, d)
                  /\ SeedDue \/ Covered

\* Nothing adds nothing.
LEMMA NothingIsZero == Nothing \in Sums /\ \A d \in Days : OfDay(Nothing, d) = 0
  BY DEF Nothing, Sums, OfDay, Buyers

\* Sums are added day by day.
LEMMA PlusAdds ==
    ASSUME NEW f \in Sums, NEW g \in Sums
    PROVE  Plus(f, g) \in Sums /\ \A d \in Days : OfDay(Plus(f, g), d) = OfDay(f, d) + OfDay(g, d)
  <1>1. ASSUME NEW d \in Days
        PROVE  /\ Plus(f, g)[d] \in [Buyers -> Nat]
               /\ OfDay(Plus(f, g), d) = OfDay(f, d) + OfDay(g, d)
    <2>1. Plus(f, g)[d] = [b \in Buyers |-> f[d][b] + g[d][b]]
      BY DEF Plus
    <2>2. f[d] \in [Buyers -> Nat] /\ g[d] \in [Buyers -> Nat]
      BY DEF Sums
    <2> QED BY <2>1, <2>2 DEF OfDay, Buyers
  <1>2. Plus(f, g) \in Sums
    BY <1>1 DEF Plus, Sums
  <1> QED BY <1>1, <1>2

\* One purchase counts once, today.
LEMMA UnitIsOne ==
    ASSUME day \in Days, NEW b \in Buyers
    PROVE  Unit(b) \in Sums /\ \A d \in Days : OfDay(Unit(b), d) = IF d = day THEN 1 ELSE 0
  <1>1. Unit(b) = [d \in Days |-> IF d = day THEN [c \in Buyers |-> IF c = b THEN 1 ELSE 0]
                                  ELSE [c \in Buyers |-> 0]]
    BY DEF Unit, Nothing
  <1> QED BY <1>1 DEF Sums, OfDay, Buyers

\* Rolled over, the counter is of the current window, and counts the day.
LEMMA RolledCounts ==
    ASSUME BudgetInv
    PROVE  /\ Rolled \in [spent : Nat, start : Days, window : {"daily", "weekly"}]
           /\ Rolled.start = WindowStart(Rolled.window, day) /\ Rolled.start <= day
           /\ Covered => OfDay(filled, day) <= Rolled.spent
  <1>1. WindowStart(counter.window, day) \in Days /\ WindowStart(counter.window, day) <= day
    BY WindowStarts DEF BudgetInv
  <1>2. CASE counter.start = WindowStart(counter.window, day)
    BY <1>2 DEF Rolled, BudgetInv, CounterOK, Covered
  <1>3. CASE counter.start # WindowStart(counter.window, day)
    <2>1. Rolled = [spent |-> 0, start |-> WindowStart(counter.window, day), window |-> counter.window]
      BY <1>3 DEF Rolled, FreshCounter
    <2>2. OfDay(filled, day) = 0
      BY <1>3 DEF BudgetInv, CounterOK
    <2> QED BY <1>1, <2>1, <2>2 DEF BudgetInv, CounterOK
  <1> QED BY <1>2, <1>3

\* The invariant of the budget holds before anything is spent.
LEMMA BudgetStart == BudgetInit => BudgetInv
  <1> SUFFICES ASSUME BudgetInit PROVE BudgetInv
    OBVIOUS
  <1>1. 0 \in Days /\ -1 # 0
    BY BudgetConstants DEF Days
  <1>2. CounterOK
    BY <1>1, NothingIsZero DEF BudgetInit, CounterOK
  <1>4. /\ worker.pc = "idle" /\ worker.start = 0
        /\ worker = [pc |-> worker.pc, start |-> worker.start, batch |-> worker.batch, done |-> worker.done,
                     current |-> worker.current]
    BY DEF BudgetInit, Asleep
  <1>5. day = 0 /\ buffer = Nothing /\ carry = Nothing /\ ledger = Nothing /\ filled = Nothing
        /\ seededFor = -1 /\ setting \in {"daily", "weekly"} /\ forgot \in BOOLEAN
    BY DEF BudgetInit
  <1>6. \A d \in Days : OfDay(filled, d) = OfDay(ledger, d) + OfDay(buffer, d) + OfDay(carry, d)
    BY <1>5, NothingIsZero
  <1> QED
    BY <1>1, <1>2, <1>4, <1>5, <1>6, NothingIsZero DEF BudgetInv, SeedDue

\* The tick goes on, and nothing is counted.
LEMMA TickGoesOn ==
    ASSUME BudgetInv, UNCHANGED <<day, counter, seededFor, money, forgot>>,
           setting' \in {"daily", "weekly"}, worker.pc # "insert",
           \/ UNCHANGED worker
           \/ /\ worker.pc \in {"read", "execute", "rewrite", "trade"}
              /\ worker'.pc \in {"idle", "execute", "rewrite", "trade"}
              /\ worker'.start \in Days /\ worker'.start <= day
              /\ worker' = [pc |-> worker'.pc, start |-> worker'.start, batch |-> worker'.batch,
                            done |-> worker'.done, current |-> worker'.current]
    PROVE  BudgetInv'
  <1>1. ~forgot => SeedDue' \/ Covered'
    BY DEF BudgetInv, SeedDue, Covered, NeedsSeed, money
  <1>2. CounterOK'
    BY DEF BudgetInv, CounterOK, money
  <1> QED
    BY <1>1, <1>2 DEF BudgetInv, money

\* A buy is counted, or gets lost.
LEMMA TryBuyStep ==
    ASSUME BudgetInv, NEW b \in Buyers, TryBuy(b), worker.pc \in {"execute", "trade"},
           worker' = [worker EXCEPT !.batch = worker'.batch, !.done = worker'.done],
           UNCHANGED <<day, setting, seededFor, carry, ledger>>
    PROVE  BudgetInv'
  <1>0. /\ worker'.pc = worker.pc /\ worker'.start = worker.start
        /\ worker' = [pc |-> worker'.pc, start |-> worker'.start, batch |-> worker'.batch,
                      done |-> worker'.done, current |-> worker'.current]
    BY DEF BudgetInv
  <1>1. day \in Days /\ day \in Nat /\ carry = Nothing /\ (~forgot => Covered) /\ ~SeedDue
    BY DaysAre DEF BudgetInv, SeedDue
  <1>2. /\ Rolled \in [spent : Nat, start : Days, window : {"daily", "weekly"}]
        /\ Rolled.start = WindowStart(Rolled.window, day) /\ Rolled.start <= day
        /\ ~forgot => OfDay(filled, day) <= Rolled.spent
    BY <1>1, RolledCounts
  <1> DEFINE more == Plus(filled, Unit(b))
  <1>3. /\ more \in Sums /\ \A d \in Days : OfDay(more, d) = OfDay(filled, d) + IF d = day THEN 1 ELSE 0
        /\ \A d \in Days : d > day => OfDay(more, d) = 0
    BY <1>1, UnitIsOne, PlusAdds DEF BudgetInv
  <1>4. /\ Plus(buffer, Unit(b)) \in Sums
        /\ \A d \in Days : OfDay(Plus(buffer, Unit(b)), d) = OfDay(buffer, d) + IF d = day THEN 1 ELSE 0
    BY <1>1, UnitIsOne, PlusAdds DEF BudgetInv
  <1> HIDE DEF more
  <1>5. CASE Allowed /\ Buy(b)
    <2>1. /\ counter' = [Rolled EXCEPT !.spent = @ + 1] /\ buffer' = Plus(buffer, Unit(b)) /\ filled' = more
          /\ forgot' = forgot
      BY <1>5 DEF Buy, more
    <2>2. /\ counter' \in [spent : Nat, start : Days, window : {"daily", "weekly"}]
          /\ counter'.spent = Rolled.spent + 1 /\ counter'.start = Rolled.start /\ counter'.window = Rolled.window
      BY <1>2, <2>1
    <2>3. CounterOK'
      BY <1>1, <1>2, <2>2 DEF CounterOK
    <2>4. ~forgot => Covered'
      BY <1>1, <1>2, <1>3, <2>1, <2>2, DaySum DEF Covered, BudgetInv
    <2>6. ~forgot => \A d \in Days : OfDay(more, d) = OfDay(ledger, d) + OfDay(buffer', d) + OfDay(carry, d)
      BY <1>3, <1>4, <2>1, DaySum DEF BudgetInv
    <2> QED
      BY <1>0, <1>1, <1>3, <1>4, <2>1, <2>3, <2>4, <2>6 DEF BudgetInv
  <1>6. CASE Allowed /\ BuyUnanswered(b)
    <2>1. counter' = Rolled /\ filled' = more /\ forgot' = TRUE /\ buffer' = buffer
      BY <1>6 DEF BuyUnanswered, more
    <2>2. CounterOK'
      BY <1>1, <1>2, <2>1 DEF CounterOK
    <2> QED
      BY <1>0, <1>1, <1>3, <2>1, <2>2 DEF BudgetInv
  <1>7. CASE NoBuy
    <2>1. (counter' = Rolled \/ counter' = counter) /\ UNCHANGED <<buffer, filled, forgot>>
      BY <1>7 DEF NoBuy
    <2>2. CounterOK' /\ (~forgot => Covered')
      BY <1>1, <1>2, <2>1 DEF CounterOK, Covered, BudgetInv
    <2> QED
      BY <1>0, <1>1, <2>1, <2>2 DEF BudgetInv
  <1> QED
    BY <1>5, <1>6, <1>7 DEF TryBuy

\* A tick that begins, taking the window as it stands, keeps the invariant.
LEMMA BeginTickStep == BudgetInv /\ BeginTick => BudgetInv'
  <1> SUFFICES ASSUME BudgetInv, BeginTick PROVE BudgetInv'
    OBVIOUS
  <1> DEFINE start == WindowStart(Window, day)
  <1>1. /\ worker.pc = "idle" /\ worker' = [worker EXCEPT !.pc = "seed", !.start = start]
        /\ UNCHANGED <<day, setting, seededFor, buffer, carry, ledger, filled>>
    BY DEF BeginTick, At, money
  <1>2. Window \in {"daily", "weekly"} /\ start \in Days /\ start <= day /\ day \in Nat /\ 0 \in Days
    BY DaysAre, WindowStarts, BudgetConstants DEF Window, BudgetInv, Days
  <1>3. /\ worker'.pc = "seed" /\ worker'.start = start
        /\ worker' = [pc |-> worker'.pc, start |-> worker'.start, batch |-> worker'.batch,
                      done |-> worker'.done, current |-> worker'.current]
    BY <1>1 DEF BudgetInv
  <1> HIDE DEF start
  <1>4. CASE Window = counter.window
    <2>1. counter' = counter /\ (forgot' <=> forgot) /\ forgot' \in BOOLEAN
      BY <1>4 DEF BeginTick
    <2>2. CounterOK'
      BY <1>1, <2>1 DEF BudgetInv, CounterOK
    <2>3. ~forgot' => SeedDue' \/ Covered'
      BY <1>1, <1>2, <1>3, <2>1, DaysAre DEF BudgetInv, SeedDue, Covered, NeedsSeed
    <2> QED BY <1>1, <1>2, <1>3, <2>1, <2>2, <2>3 DEF BudgetInv
  <1>5. CASE Window # counter.window
    <2>1. /\ counter' = [spent |-> 0, start |-> start, window |-> Window]
          /\ forgot' <=> forgot \/ (start = seededFor /\ counter.spent > 0)
          /\ forgot' \in BOOLEAN
      BY <1>5 DEF BeginTick, FreshCounter, start
    <2>2. CounterOK'
      BY <1>1, <1>2, <2>1 DEF BudgetInv, CounterOK, start
    <2>3. ~forgot' => SeedDue' \/ Covered'
      <3> SUFFICES ASSUME ~forgot', seededFor = start PROVE OfDay(filled, day) <= 0
        BY <1>1, <1>3, <2>1 DEF SeedDue, NeedsSeed, Covered
      <3>1. Covered /\ counter.spent = 0
        BY <1>1, <1>2, <2>1, DaysAre DEF BudgetInv, SeedDue, CounterOK
      <3>2. OfDay(filled, day) <= Rolled.spent
        BY <3>1, RolledCounts
      <3>3. Rolled.spent = 0
        BY <3>1 DEF Rolled, FreshCounter
      <3> QED BY <3>2, <3>3
    <2> QED BY <1>1, <1>2, <1>3, <2>1, <2>2, <2>3 DEF BudgetInv
  <1> QED BY <1>4, <1>5

\* Seeding the counter from the ledger, or failing to, keeps it.
LEMMA SeedStep == BudgetInv /\ (Seed \/ SeedFails) => BudgetInv'
  <1> SUFFICES ASSUME BudgetInv, Seed \/ SeedFails PROVE BudgetInv'
    OBVIOUS
  <1>1. /\ worker.pc = "seed" /\ worker' = [worker EXCEPT !.pc = "drain"]
        /\ UNCHANGED <<day, setting, buffer, carry, ledger, filled>>
    BY DEF Seed, SeedFails, At, Go, money
  <1>2. /\ worker'.pc = "drain" /\ worker'.start = worker.start
        /\ worker' = [pc |-> worker'.pc, start |-> worker'.start, batch |-> worker'.batch,
                      done |-> worker'.done, current |-> worker'.current]
    BY <1>1 DEF BudgetInv
  <1>3. CASE ~NeedsSeed /\ Seed
    <2>1. UNCHANGED <<counter, seededFor, forgot>>
      BY <1>3 DEF Seed
    <2>2. CounterOK' /\ (~forgot => Covered')
      BY <1>1, <1>3, <2>1 DEF BudgetInv, CounterOK, SeedDue, Covered
    <2> QED BY <1>1, <1>2, <2>1, <2>2 DEF BudgetInv
  <1>4. CASE SeedFails
    <2>1. forgot' = TRUE /\ UNCHANGED <<counter, seededFor>>
      BY <1>4 DEF SeedFails
    <2>2. CounterOK'
      BY <1>1, <2>1 DEF BudgetInv, CounterOK
    <2> QED BY <1>1, <1>2, <2>1, <2>2 DEF BudgetInv
  <1>5. CASE NeedsSeed /\ Seed
    <2> DEFINE sum == Since(ledger, worker.start)
    <2>1. /\ sum \in Nat /\ OfDay(ledger, day) <= sum
          /\ Since(buffer, worker.start) \in Nat /\ OfDay(buffer, day) <= Since(buffer, worker.start)
      BY SinceCovers DEF BudgetInv
    <2>2. /\ counter' = [counter EXCEPT !.spent = sum] /\ seededFor' = worker.start
          /\ forgot' <=> forgot \/ Since(buffer, worker.start) > 0
          /\ forgot' \in BOOLEAN
      BY <1>5 DEF Seed, Seeded
    <2> HIDE DEF sum
    <2>3. /\ counter' \in [spent : Nat, start : Days, window : {"daily", "weekly"}]
          /\ counter'.spent = sum /\ counter'.start = counter.start /\ counter'.window = counter.window
      BY <2>1, <2>2 DEF BudgetInv, CounterOK
    <2>4. CounterOK'
      BY <1>1, <2>2, <2>3 DEF BudgetInv, CounterOK
    <2>5. ~forgot' => Covered'
      <3> SUFFICES ASSUME ~forgot' PROVE OfDay(filled, day) <= sum
        BY <1>1, <2>3 DEF Covered
      <3>1. OfDay(filled, day) = OfDay(ledger, day) + OfDay(buffer, day) + OfDay(carry, day) /\ carry = Nothing
        BY <1>1, <2>2 DEF BudgetInv
      <3>2. /\ OfDay(carry, day) = 0 /\ OfDay(buffer, day) = 0
            /\ OfDay(ledger, day) \in Nat
        BY <2>1, <2>2, <3>1, NothingIsZero, DaySum DEF BudgetInv
      <3> QED BY <2>1, <3>1, <3>2
    <2> QED BY <1>1, <1>2, <2>2, <2>4, <2>5 DEF BudgetInv
  <1> QED BY <1>3, <1>4, <1>5

\* The buffer goes to the ledger; until it is there, it is carried.
LEMMA LedgerStep == BudgetInv /\ (Drain \/ InsertEntries) => BudgetInv'
  <1> SUFFICES ASSUME BudgetInv, Drain \/ InsertEntries PROVE BudgetInv'
    OBVIOUS
  <1>1. /\ worker.pc \in {"drain", "insert"} /\ worker' = [worker EXCEPT !.pc = worker'.pc]
        /\ worker'.pc = IF worker.pc = "drain" THEN "insert" ELSE "read"
        /\ UNCHANGED <<day, setting, counter, seededFor, filled>>
    BY DEF Drain, InsertEntries, At, Go, BudgetInv
  <1>2. /\ worker'.start = worker.start
        /\ worker' = [pc |-> worker'.pc, start |-> worker'.start, batch |-> worker'.batch,
                      done |-> worker'.done, current |-> worker'.current]
    BY <1>1 DEF BudgetInv
  <1>3. ~forgot => Covered'
    BY <1>1 DEF BudgetInv, SeedDue, Covered
  <1>4. CounterOK'
    BY <1>1 DEF BudgetInv, CounterOK
  <1>5. CASE Drain
    <2>1. carry' = buffer /\ buffer' = Nothing /\ forgot' = forgot /\ ledger' = ledger /\ worker'.pc = "insert"
          /\ carry = Nothing
      BY <1>1, <1>5 DEF Drain, At, BudgetInv
    <2>2. ~forgot => \A d \in Days : OfDay(filled, d) = OfDay(ledger, d) + OfDay(Nothing, d) + OfDay(buffer, d)
      BY <2>1, NothingIsZero, DaySum DEF BudgetInv
    <2> QED BY <1>1, <1>2, <1>3, <1>4, <2>1, <2>2, NothingIsZero DEF BudgetInv
  <1>6. CASE InsertEntries
    <2>1. carry' = Nothing /\ buffer' = buffer /\ worker'.pc = "read"
          /\ \/ ledger' = Plus(ledger, carry) /\ forgot' = forgot
             \/ ledger' = ledger /\ forgot' = TRUE
      BY <1>1, <1>6 DEF InsertEntries, At
    <2>2. ledger' \in Sums /\ forgot' \in BOOLEAN
      BY <2>1, PlusAdds DEF BudgetInv
    <2>3. ~forgot' => \A d \in Days : OfDay(filled, d) = OfDay(ledger', d) + OfDay(buffer, d) + OfDay(Nothing, d)
      BY <2>1, PlusAdds, NothingIsZero, DaySum DEF BudgetInv
    <2> QED BY <1>1, <1>2, <1>3, <1>4, <2>1, <2>2, <2>3, NothingIsZero DEF BudgetInv
  <1> QED BY <1>5, <1>6

\* A restart, which forgets the counter and has it seeded again, keeps it.
LEMMA RestartStep == BudgetInv /\ Restart => BudgetInv'
  <1> SUFFICES ASSUME BudgetInv, Restart PROVE BudgetInv'
    OBVIOUS
  <1>1. /\ counter' = [spent |-> 0, start |-> day, window |-> "daily"] /\ seededFor' = -1
        /\ forgot' <=> forgot \/ buffer # Nothing \/ carry # Nothing
        /\ forgot' \in BOOLEAN /\ buffer' = Nothing /\ carry' = Nothing
        /\ UNCHANGED <<day, setting, ledger, filled>>
    BY WindowStarts DEF Restart, FreshCounter, BudgetInv
  <1>2. /\ worker'.pc = "idle" /\ worker'.start = 0
        /\ worker' = [pc |-> worker'.pc, start |-> worker'.start, batch |-> worker'.batch,
                      done |-> worker'.done, current |-> worker'.current]
    BY DEF Restart, Asleep
  <1>3. 0 \in Days /\ 0 <= day
    BY DaysAre, BudgetConstants DEF BudgetInv, Days
  <1>4. CounterOK'
    BY <1>1, DaysAre, WindowStarts DEF BudgetInv, CounterOK
  <1>5. ~forgot' => \A d \in Days : OfDay(filled, d) = OfDay(ledger, d) + OfDay(Nothing, d) + OfDay(Nothing, d)
    BY <1>1 DEF BudgetInv
  <1>6. SeedDue'
    BY <1>1, <1>2 DEF SeedDue
  <1> QED BY <1>1, <1>2, <1>3, <1>4, <1>5, <1>6, NothingIsZero DEF BudgetInv

\* A new day, which has spent nothing, keeps it.
LEMMA NextDayStep == BudgetInv /\ NextDay => BudgetInv'
  <1> SUFFICES ASSUME BudgetInv, NextDay PROVE BudgetInv'
    OBVIOUS
  <1>1. /\ day' = day + 1 /\ day' \in Days /\ day \in Nat
        /\ UNCHANGED <<setting, counter, seededFor, buffer, carry, ledger, filled, worker, forgot>>
    BY DaysAre DEF NextDay, BudgetInv, Days, money
  <1>2. OfDay(filled, day') = 0
    BY <1>1 DEF BudgetInv
  <1>3. CounterOK' /\ Covered'
    BY <1>1, <1>2, DaysAre DEF BudgetInv, CounterOK, Covered
  <1>4. worker.start <= day' /\ \A d \in Days : d > day' => OfDay(filled, d) = 0
    BY <1>1, DaysAre DEF BudgetInv
  <1> QED BY <1>1, <1>3, <1>4 DEF BudgetInv

\* No step breaks the invariant of the budget.
LEMMA BudgetStep == BudgetInv /\ [BudgetNext]_budgetVars => BudgetInv'
  <1> SUFFICES ASSUME BudgetInv, [BudgetNext]_budgetVars PROVE BudgetInv'
    OBVIOUS
  <1>1. CASE ReadOrders \/ ReadAgain \/ Rewrite \/ EndBudgetTick
    <2>1. /\ worker.pc \in {"read", "execute", "rewrite", "trade"}
          /\ UNCHANGED <<day, setting, counter, seededFor, money, forgot>>
      BY <1>1 DEF ReadOrders, ReadAgain, Rewrite, EndBudgetTick, At
    <2>2. /\ worker'.pc \in {"idle", "execute", "rewrite", "trade"}
          /\ worker'.start \in Days /\ worker'.start <= day
          /\ worker' = [pc |-> worker'.pc, start |-> worker'.start, batch |-> worker'.batch,
                        done |-> worker'.done, current |-> worker'.current]
      <3>1. CASE EndBudgetTick
        BY <3>1, DaysAre, BudgetConstants DEF EndBudgetTick, Asleep, BudgetInv, Days
      <3>2. CASE ReadOrders
        BY <3>2 DEF ReadOrders, BudgetInv
      <3>3. CASE ReadAgain
        BY <3>3 DEF ReadAgain, BudgetInv
      <3>4. CASE Rewrite
        BY <3>4 DEF Rewrite, Go, BudgetInv
      <3> QED BY <1>1, <3>1, <3>2, <3>3, <3>4
    <2> QED BY <2>1, <2>2, TickGoesOn DEF BudgetInv
  <1>2. CASE SwitchWindow \/ WebStep \/ UNCHANGED budgetVars
    <2>1. /\ UNCHANGED <<day, counter, seededFor, money, forgot, worker>> /\ setting' \in {"daily", "weekly"}
      BY <1>2 DEF SwitchWindow, WebStep, ReadQueue, CheckToken, Enqueue, budgetVars, BudgetInv, money
    <2>2. CounterOK' /\ (~forgot => SeedDue' \/ Covered')
      BY <2>1 DEF BudgetInv, CounterOK, SeedDue, NeedsSeed, Covered, money
    <2> QED BY <2>1, <2>2 DEF BudgetInv, money
  <1>3. ASSUME NEW o \in AgentOrders, Execute(o) PROVE BudgetInv'
    <2>1. /\ worker.pc = "execute" /\ TryBuy("agent") /\ UNCHANGED <<day, setting, seededFor, carry, ledger>>
          /\ worker' = [worker EXCEPT !.batch = worker.batch \ {o}, !.done = worker.done \cup {o}]
      BY <1>3 DEF Execute, At
    <2>2. worker' = [worker EXCEPT !.batch = worker'.batch, !.done = worker'.done]
      BY <2>1 DEF BudgetInv
    <2> QED BY <2>1, <2>2, TryBuyStep DEF Buyers
  <1>4. CASE EngineBuys
    <2>1. /\ worker.pc = "trade" /\ TryBuy("engine") /\ UNCHANGED <<day, setting, seededFor, carry, ledger, worker>>
      BY <1>4 DEF EngineBuys, At
    <2>2. worker' = [worker EXCEPT !.batch = worker'.batch, !.done = worker'.done]
      BY <2>1 DEF BudgetInv
    <2> QED BY <2>1, <2>2, TryBuyStep DEF Buyers
  <1>5. CASE BeginTick
    BY <1>5, BeginTickStep
  <1>6. CASE Seed \/ SeedFails
    BY <1>6, SeedStep
  <1>7. CASE Drain \/ InsertEntries
    BY <1>7, LedgerStep
  <1>8. CASE Restart
    BY <1>8, RestartStep
  <1>9. CASE NextDay
    BY <1>9, NextDayStep
  <1> QED
    BY <1>1, <1>2, <1>3, <1>4, <1>5, <1>6, <1>7, <1>8, <1>9 DEF BudgetNext, WorkerStep

\* Whatever the storage delivers, the budget, the orders, the calls, the failed statements,
\* restarts and changes of the window: while no buy has gone missing, every one is in the
\* ledger or on its way there, and a seeded counter is not behind the day's (spend-budget.ts).
THEOREM SpendIsAccounted == BudgetSpec => []SpendAccounted
  <1>1. BudgetInv => SpendAccounted
    BY DEF BudgetInv, SpendAccounted
  <1> QED
    BY <1>1, BudgetStart, BudgetStep, PTL DEF BudgetSpec

\* The types of the budget's variables, with those of what the worker and the calls hold.
SpendTypes ==
    /\ BudgetTypeOK
    /\ worker.start \in Days /\ worker.current \subseteq AgentOrders
    /\ worker = [pc |-> worker.pc, start |-> worker.start, batch |-> worker.batch, done |-> worker.done,
                 current |-> worker.current]
    /\ \A w \in WebCalls : /\ call[w].saw \subseteq AgentOrders
                           /\ call[w].pc # "free" => call[w].order \in AgentOrders
    /\ DOMAIN call = WebCalls

\* Nothing is queued and nothing has happened.
LEMMA SpendTypesStart == BudgetInit => SpendTypes
<1> SUFFICES ASSUME BudgetInit PROVE SpendTypes
  OBVIOUS
<1>1. 0 \in Days /\ -1 \in -1..LastDay
  BY BudgetConstants DEF Days
<1>2. BudgetTypeOK
  BY <1>1, NothingIsZero, BudgetConstants DEF BudgetInit, BudgetTypeOK, Sums
<1>3. NoCall.pc = "free" /\ NoCall.saw = {}
  BY DEF NoCall
<1> QED BY <1>1, <1>2, <1>3 DEF BudgetInit, SpendTypes, Asleep

\* A slip counts to its bound.
LEMMA SlipCounts == ASSUME slips \in 0..MaxSlips, Slip \/ UNCHANGED slips PROVE slips' \in 0..MaxSlips
  BY BudgetConstants DEF Slip

Counters == [spent : Nat, start : Days, window : {"daily", "weekly"}]

\* A counter begun, or rolled over, is one.
LEMMA CountersAre ==
    ASSUME SpendTypes
    PROVE  /\ Rolled \in Counters /\ \A window \in {"daily", "weekly"} : FreshCounter(window) \in Counters
           /\ counter \in Counters /\ Window \in {"daily", "weekly"} /\ WindowStart(Window, day) \in Days
<1>1. \A window : WindowStart(window, day) \in Days
  BY WindowStarts DEF SpendTypes, BudgetTypeOK
<1>2. counter \in Counters
  BY DEF SpendTypes, BudgetTypeOK, Counters
<1>3. \A window \in {"daily", "weekly"} : FreshCounter(window) \in Counters
  BY <1>1 DEF FreshCounter, Counters
<1>4. counter.window \in {"daily", "weekly"}
  BY <1>2 DEF Counters
<1>5. Window \in {"daily", "weekly"}
  BY BudgetConstants DEF Window, SpendTypes, BudgetTypeOK
<1> QED BY <1>1, <1>2, <1>3, <1>4, <1>5 DEF Rolled

\* What a tried order leaves.
LEMMA TriedTyped ==
    ASSUME SpendTypes, NEW b \in Buyers, TryBuy(b)
    PROVE  counter' \in Counters /\ buffer' \in Sums /\ filled' \in Sums /\ (Slip \/ UNCHANGED slips)
<1>1. buffer \in Sums /\ filled \in Sums /\ day \in Days /\ Rolled \in Counters /\ counter \in Counters
  BY CountersAre DEF SpendTypes, BudgetTypeOK, Sums
<1>2. Plus(buffer, Unit(b)) \in Sums /\ Plus(filled, Unit(b)) \in Sums
  BY <1>1, UnitIsOne, PlusAdds
<1>3. [Rolled EXCEPT !.spent = @ + 1] \in Counters
  BY <1>1 DEF Counters
<1>4. CASE Buy(b)
  BY <1>2, <1>3, <1>4 DEF Buy
<1>5. CASE BuyUnanswered(b)
  BY <1>1, <1>2, <1>5 DEF BuyUnanswered
<1>6. CASE NoBuy
  BY <1>1, <1>6 DEF NoBuy
<1> QED BY <1>4, <1>5, <1>6 DEF TryBuy

\* A step of the worker that leaves the queue, the calls and the day.
LEMMA WorkerTyped ==
    ASSUME SpendTypes, UNCHANGED <<day, setting, call>>, inbox' \subseteq AgentOrders, Slip \/ UNCHANGED slips,
           counter' \in Counters, seededFor' \in -1..LastDay, engineBuys' \in 0..MaxBuys, UNCHANGED switches,
           buffer' \in Sums, carry' \in Sums, ledger' \in Sums, filled' \in Sums,
           worker'.start \in Days, worker'.current \in {{}, inbox, worker.current},
           worker' = [pc |-> worker'.pc, start |-> worker'.start, batch |-> worker'.batch, done |-> worker'.done,
                      current |-> worker'.current]
    PROVE  SpendTypes'
<1>1. slips' \in 0..MaxSlips
  BY SlipCounts DEF SpendTypes, BudgetTypeOK
<1>2. BudgetTypeOK'
  BY <1>1 DEF SpendTypes, BudgetTypeOK, Counters, Sums
<1>3. worker'.current \subseteq AgentOrders
  BY DEF SpendTypes, BudgetTypeOK
<1> QED BY <1>2, <1>3 DEF SpendTypes

\* The worker's steps keep the types.
LEMMA WorkerStepTyped == ASSUME SpendTypes, WorkerStep PROVE SpendTypes'
<1>1. /\ buffer \in Sums /\ carry \in Sums /\ ledger \in Sums /\ filled \in Sums /\ counter \in Counters
      /\ seededFor \in -1..LastDay /\ engineBuys \in 0..MaxBuys /\ inbox \subseteq AgentOrders
      /\ worker.start \in Days /\ Nothing \in Sums /\ day \in Days
      /\ worker = [pc |-> worker.pc, start |-> worker.start, batch |-> worker.batch, done |-> worker.done,
                   current |-> worker.current]
  BY CountersAre, NothingIsZero DEF SpendTypes, BudgetTypeOK, Sums
<1>2. /\ Asleep.start \in Days /\ Asleep.current = {}
      /\ Asleep = [pc |-> Asleep.pc, start |-> Asleep.start, batch |-> Asleep.batch, done |-> Asleep.done,
                   current |-> Asleep.current]
  BY BudgetConstants DEF Asleep, Days
<1>3. \A pc : Go(pc) => /\ worker'.current = worker.current /\ worker'.start = worker.start
                        /\ worker' = [pc |-> worker'.pc, start |-> worker'.start, batch |-> worker'.batch,
                                      done |-> worker'.done, current |-> worker'.current]
  BY <1>1 DEF Go
<1>4. \A orders : AnsweredWith(orders) => (Slip \/ UNCHANGED slips)
  BY DEF AnsweredWith
<1>5. ASSUME BeginTick PROVE SpendTypes'
  <2>1. counter' \in Counters /\ WindowStart(Window, day) \in Days
    BY <1>5, CountersAre DEF BeginTick
  <2>2. /\ worker'.start = WindowStart(Window, day) /\ worker'.current = worker.current
        /\ worker' = [pc |-> worker'.pc, start |-> worker'.start, batch |-> worker'.batch,
                      done |-> worker'.done, current |-> worker'.current]
    BY <1>1, <1>5 DEF BeginTick
  <2>3. UNCHANGED <<day, setting, seededFor, buffer, carry, ledger, filled, inbox, call, engineBuys, switches, slips>>
    BY <1>5 DEF BeginTick, money, agents, bounds
  <2> QED BY <1>1, <2>1, <2>2, <2>3, WorkerTyped
<1>6. ASSUME Seed PROVE SpendTypes'
  <2>1. Since(ledger, worker.start) \in Nat
    BY <1>1, SinceCovers, DaysAre
  <2>2. Seeded \in Counters
    BY <1>1, <2>1 DEF Seeded, Counters
  <2>3. counter' \in Counters /\ seededFor' \in -1..LastDay
    <3>1. worker.start \in -1..LastDay
      BY <1>1, DaysAre DEF Days
    <3> QED BY <1>1, <1>6, <2>2, <3>1 DEF Seed
  <2>4. Go("drain") /\ UNCHANGED <<day, setting, buffer, carry, ledger, filled, inbox, call, engineBuys, switches, slips>>
    BY <1>6 DEF Seed, money, agents, bounds
  <2> QED BY <1>1, <1>3, <2>3, <2>4, WorkerTyped
<1>7. ASSUME SeedFails PROVE SpendTypes'
  <2>1. /\ Slip /\ Go("drain")
        /\ UNCHANGED <<day, setting, counter, seededFor, buffer, carry, ledger, filled, inbox, call, engineBuys, switches>>
    BY <1>7 DEF SeedFails, money, agents
  <2> QED BY <1>1, <1>3, <2>1, WorkerTyped
<1>8. ASSUME Drain PROVE SpendTypes'
  <2>1. /\ carry' = buffer /\ buffer' = Nothing /\ Go("insert")
        /\ UNCHANGED <<day, setting, counter, seededFor, ledger, filled, inbox, call, engineBuys, switches, slips>>
    BY <1>8 DEF Drain, agents, bounds
  <2> QED BY <1>1, <1>3, <2>1, WorkerTyped
<1>9. ASSUME InsertEntries PROVE SpendTypes'
  <2>1. /\ ledger' \in {Plus(ledger, carry), ledger} /\ carry' = Nothing /\ Go("read") /\ (Slip \/ UNCHANGED slips)
        /\ UNCHANGED <<day, setting, counter, seededFor, buffer, filled, inbox, call, engineBuys, switches>>
    BY <1>9 DEF InsertEntries, agents
  <2>2. ledger' \in Sums
    BY <1>1, <2>1, PlusAdds
  <2> QED BY <1>1, <1>3, <2>1, <2>2, WorkerTyped
<1>10. ASSUME ReadOrders PROVE SpendTypes'
  <2>1. /\ UNCHANGED <<day, setting, counter, seededFor, buffer, carry, ledger, filled, inbox, call, engineBuys, switches>>
        /\ \E batch : /\ worker' = [worker EXCEPT !.pc = IF batch = {} THEN "trade" ELSE "execute", !.batch = batch]
                      /\ AnsweredWith(batch)
    BY <1>10 DEF ReadOrders, money, agents
  <2>2. /\ worker'.start = worker.start /\ worker'.current = worker.current
        /\ worker' = [pc |-> worker'.pc, start |-> worker'.start, batch |-> worker'.batch,
                      done |-> worker'.done, current |-> worker'.current]
        /\ (Slip \/ UNCHANGED slips)
    BY <1>1, <1>4, <2>1
  <2> QED BY <1>1, <2>1, <2>2, WorkerTyped
<1>11. ASSUME NEW o \in AgentOrders, Execute(o) PROVE SpendTypes'
  <2>1. TryBuy("agent") /\ UNCHANGED <<day, setting, seededFor, carry, ledger, inbox, call, engineBuys, switches>>
    BY <1>11 DEF Execute, agents
  <2>2. /\ worker'.start = worker.start /\ worker'.current = worker.current
        /\ worker' = [pc |-> worker'.pc, start |-> worker'.start, batch |-> worker'.batch,
                      done |-> worker'.done, current |-> worker'.current]
    BY <1>1, <1>11 DEF Execute
  <2>3. counter' \in Counters /\ buffer' \in Sums /\ filled' \in Sums /\ (Slip \/ UNCHANGED slips)
    BY <2>1, TriedTyped DEF Buyers
  <2> QED BY <1>1, <2>1, <2>2, <2>3, WorkerTyped
<1>12. ASSUME ReadAgain PROVE SpendTypes'
  <2>1. /\ UNCHANGED <<day, setting, counter, seededFor, buffer, carry, ledger, filled, inbox, call, engineBuys, switches>>
        /\ \E current \in {inbox, {}} : /\ worker' = [worker EXCEPT !.pc = "rewrite", !.current = current]
                                        /\ AnsweredWith(current)
    BY <1>12 DEF ReadAgain, money, agents
  <2>2. /\ worker'.start = worker.start /\ worker'.current \in {{}, inbox}
        /\ worker' = [pc |-> worker'.pc, start |-> worker'.start, batch |-> worker'.batch,
                      done |-> worker'.done, current |-> worker'.current]
        /\ (Slip \/ UNCHANGED slips)
    BY <1>1, <1>4, <2>1
  <2> QED BY <1>1, <2>1, <2>2, WorkerTyped
<1>13. ASSUME Rewrite PROVE SpendTypes'
  <2>1. worker.current \subseteq AgentOrders
    BY DEF SpendTypes
  <2>2. /\ inbox' \subseteq AgentOrders /\ (Slip \/ UNCHANGED slips) /\ Go("trade")
        /\ UNCHANGED <<day, setting, counter, seededFor, buffer, carry, ledger, filled, call, engineBuys, switches>>
    BY <1>1, <1>13, <2>1 DEF Rewrite, money
  <2> QED BY <1>1, <1>3, <2>2, WorkerTyped
<1>14. ASSUME EngineBuys PROVE SpendTypes'
  <2>1. /\ TryBuy("engine") /\ UNCHANGED <<day, setting, seededFor, carry, ledger, inbox, call, worker, switches>>
        /\ engineBuys' \in 0..MaxBuys
    BY <1>1, <1>14, BudgetConstants DEF EngineBuys, agents
  <2>2. counter' \in Counters /\ buffer' \in Sums /\ filled' \in Sums /\ (Slip \/ UNCHANGED slips)
    BY <2>1, TriedTyped DEF Buyers
  <2> QED BY <1>1, <2>1, <2>2, WorkerTyped
<1>15. ASSUME EndBudgetTick PROVE SpendTypes'
  <2>1. /\ worker' = Asleep
        /\ UNCHANGED <<day, setting, counter, seededFor, buffer, carry, ledger, filled, inbox, call, engineBuys, switches, slips>>
    BY <1>15 DEF EndBudgetTick, money, agents, bounds
  <2> QED BY <1>1, <1>2, <2>1, WorkerTyped
<1>16. (\E o \in AgentOrders : Execute(o)) => SpendTypes'
  BY <1>11
<1> QED BY <1>5, <1>6, <1>7, <1>8, <1>9, <1>10, <1>12, <1>13, <1>14, <1>15, <1>16 DEF WorkerStep

\* So do the calls on the web server.
LEMMA CallsTyped == ASSUME SpendTypes, WebStep PROVE SpendTypes'
<1>1. PICK w \in WebCalls : CheckToken(w) \/ Enqueue(w) \/ \E o \in AgentOrders : ReadQueue(w, o)
  BY DEF WebStep
<1>2. /\ UNCHANGED <<day, setting, counter, seededFor, buffer, carry, ledger, filled, worker, engineBuys, switches, slips>>
      /\ inbox \subseteq AgentOrders
  BY <1>1 DEF CheckToken, Enqueue, ReadQueue, bounds, money, SpendTypes, BudgetTypeOK
<1>3. NoCall.pc = "free" /\ NoCall.saw = {}
  BY DEF NoCall
<1>4. /\ DOMAIN call = WebCalls
      /\ \A v \in WebCalls : call[v].saw \subseteq AgentOrders /\ (call[v].pc # "free" => call[v].order \in AgentOrders)
  BY DEF SpendTypes
<1>5. ASSUME inbox' \subseteq AgentOrders, NEW c, call' = [call EXCEPT ![w] = c],
             c.saw \subseteq AgentOrders, c.pc # "free" => c.order \in AgentOrders
      PROVE  SpendTypes'
  <2>1. BudgetTypeOK'
    BY <1>2, <1>5 DEF SpendTypes, BudgetTypeOK
  <2>2. /\ DOMAIN call' = WebCalls
        /\ \A v \in WebCalls : call'[v].saw \subseteq AgentOrders /\ (call'[v].pc # "free" => call'[v].order \in AgentOrders)
    BY <1>4, <1>5
  <2> QED BY <1>2, <2>1, <2>2 DEF SpendTypes
<1>6. CASE CheckToken(w)
  <2>1. PICK c : c = [call[w] EXCEPT !.pc = "write"]
    OBVIOUS
  <2>2. call' = [call EXCEPT ![w] = NoCall] \/ call' = [call EXCEPT ![w] = c]
    BY <1>4, <1>6, <2>1 DEF CheckToken
  <2>3. (c.saw = call[w].saw /\ c.order = call[w].order) \/ c = call[w]
    BY <2>1
  <2>4. call[w].pc # "free" /\ UNCHANGED inbox
    BY <1>6 DEF CheckToken
  <2> QED BY <1>2, <1>3, <1>4, <1>5, <2>2, <2>3, <2>4
<1>7. CASE Enqueue(w)
  <2>1. call[w].saw \subseteq AgentOrders /\ call[w].order \in AgentOrders
    BY <1>4, <1>7 DEF Enqueue
  <2> QED BY <1>3, <1>5, <1>7, <2>1 DEF Enqueue
<1>8. ASSUME NEW o \in AgentOrders, ReadQueue(w, o) PROVE SpendTypes'
  <2>1. PICK c : c = [pc |-> "check", order |-> o, saw |-> inbox]
    OBVIOUS
  <2>2. (call' = [call EXCEPT ![w] = NoCall] \/ call' = [call EXCEPT ![w] = c]) /\ UNCHANGED inbox
    BY <1>8, <2>1 DEF ReadQueue
  <2> QED BY <1>2, <1>3, <1>5, <2>1, <2>2
<1> QED BY <1>1, <1>6, <1>7, <1>8

\* And whatever else happens.
LEMMA SpendTypesStep == SpendTypes /\ [BudgetNext]_budgetVars => SpendTypes'
<1> SUFFICES ASSUME SpendTypes, [BudgetNext]_budgetVars PROVE SpendTypes'
  OBVIOUS
<1>1. UNCHANGED budgetVars => SpendTypes'
  BY DEF SpendTypes, BudgetTypeOK, budgetVars
<1>2. ASSUME Restart PROVE SpendTypes'
  <2>1. /\ Asleep.start \in Days /\ Asleep.current = {}
        /\ Asleep = [pc |-> Asleep.pc, start |-> Asleep.start, batch |-> Asleep.batch, done |-> Asleep.done,
                     current |-> Asleep.current]
    BY BudgetConstants DEF Asleep, Days
  <2>2. counter' \in Counters /\ Nothing \in Sums /\ -1 \in -1..LastDay
    BY <1>2, CountersAre, NothingIsZero, BudgetConstants DEF Restart
  <2>3. /\ Slip /\ seededFor' = -1 /\ buffer' = Nothing /\ carry' = Nothing /\ worker' = Asleep
        /\ UNCHANGED <<day, setting, ledger, filled, inbox, call, engineBuys, switches>>
    BY <1>2 DEF Restart, agents
  <2>4. ledger \in Sums /\ filled \in Sums /\ inbox \subseteq AgentOrders /\ engineBuys \in 0..MaxBuys
    BY DEF SpendTypes, BudgetTypeOK, Sums
  <2> QED BY <2>1, <2>2, <2>3, <2>4, WorkerTyped
<1>3. ASSUME NextDay PROVE SpendTypes'
  <2>1. day' \in Days
    BY <1>3, BudgetConstants DEF NextDay, SpendTypes, BudgetTypeOK, Days
  <2>2. UNCHANGED <<setting, counter, seededFor, buffer, carry, ledger, filled, worker, inbox, call, engineBuys, switches, slips>>
    BY <1>3 DEF NextDay, money, agents, bounds
  <2> QED BY <2>1, <2>2 DEF SpendTypes, BudgetTypeOK
<1>4. ASSUME SwitchWindow PROVE SpendTypes'
  <2>1. setting' \in {"daily", "weekly"} /\ switches' \in 0..MaxSwitches
    BY <1>4, BudgetConstants DEF SwitchWindow, SpendTypes, BudgetTypeOK
  <2>2. UNCHANGED <<day, counter, seededFor, buffer, carry, ledger, filled, worker, inbox, call, engineBuys, slips>>
    BY <1>4 DEF SwitchWindow, money, agents
  <2> QED BY <2>1, <2>2 DEF SpendTypes, BudgetTypeOK
<1> QED BY <1>1, <1>2, <1>3, <1>4, WorkerStepTyped, CallsTyped DEF BudgetNext

\* Whether the settings are delivered or not.
LEMMA BudgetTypesAre == BudgetSpec => []BudgetTypeOK
<1>1. BudgetSpec => []SpendTypes
  BY SpendTypesStart, SpendTypesStep, PTL DEF BudgetSpec
<1>2. SpendTypes => BudgetTypeOK
  BY DEF SpendTypes
<1> QED BY <1>1, <1>2, PTL

-----------------------------------------------------------------------------
(* Signing in with CoinPay.  A user and a subject are bound to each other   *)
(* alone, an account made for the provider for good (BoundOnce); what a     *)
(* handler knows at each step it still may act on (VisitsOK); and an account*)
(* without a binding is in the hands of a handler that will bind or delete  *)
(* it (Tended).                                                             *)

Users == OwnAccounts \union FreshAccounts
Visits == [step : {"idle", "claims", "look", "mine", "create", "link", "delete", "again", "enter", "unlink"},
           browser : Browsers \union {"none"}, mode : {"none", "login", "connect"},
           sub : Subjects \union {"none"}, cur : Users \union {NobodyIn}, user : Users \union {NobodyIn}]

SignTypes ==
    /\ accounts \subseteq Users /\ OwnAccounts \subseteq accounts
    /\ everBound \subseteq [user : Users, sub : Subjects] /\ bindings \subseteq everBound
    /\ entered \subseteq everBound
    /\ modes \in Seq({"login", "connect"})
    /\ session \in [Browsers -> Users \union {NobodyIn}]
    /\ visit \in [SignHandlers -> Visits] /\ cookie \in [Browsers -> Nat] /\ signMishap \in BOOLEAN

\* An account that CoinPay made and that was bound, or has come in, is bound for good.
Rooted(u) == u \in FreshAccounts => BoundOf(u) # {}
BoundOnce ==
    /\ \A x, y \in bindings : x.user = y.user \/ x.sub = y.sub => x = y
    /\ \A x \in everBound : Placeholder(x.user) => x \in bindings
    /\ \A b \in Browsers : Rooted(session[b])
    /\ \A h \in SignHandlers : Rooted(visit[h].cur)

\* What a handler knows at each of its steps.
VisitOK(v) ==
    /\ v.step \notin {"idle", "unlink"} =>
          v.mode \in {"login", "connect"} /\ v.sub \in Subjects /\ v.browser \in Browsers
    /\ v.step = "mine" => v.cur # NobodyIn /\ v.mode = "connect"
    /\ v.step = "create" => v.mode = "login"
    /\ v.step = "link" => IF v.mode = "connect" THEN v.user = v.cur /\ v.cur # NobodyIn
                                               ELSE v.user \in FreshAccounts
    /\ v.step = "delete" => v.user \in FreshAccounts
    /\ v.step = "enter" => [user |-> v.user, sub |-> v.sub] \in everBound
    /\ v.step = "unlink" => v.user \notin FreshAccounts
VisitsOK == \A h \in SignHandlers : VisitOK(visit[h])

\* Who is to bind an account, or to delete it, has it in hand.
Tended ==
    \A u \in accounts \cap FreshAccounts :
        BoundOf(u) # {} \/ signMishap \/ \E h \in SignHandlers : visit[h].step \in {"link", "delete"} /\ visit[h].user = u

SignInv == SignTypes /\ BoundOnce /\ VisitsOK /\ Tended

\* Nobody signs in yet: only the accounts of their own are there.
LEMMA SignStarts == SignInit => SignInv
<1> SUFFICES ASSUME SignInit PROVE SignInv
  OBVIOUS
<1>1. SignTypes
  BY EmptySeq DEF SignInit, SignTypes, Visits, Users, Idle2
<1>2. BoundOnce
  BY SignConstants DEF SignInit, BoundOnce, Rooted, Idle2
<1>3. VisitsOK /\ Tended
  BY SignConstants DEF SignInit, VisitsOK, VisitOK, Tended, Idle2
<1> QED BY <1>1, <1>2, <1>3 DEF SignInv

\* Signing out keeps it.
LEMMA SignOuts == ASSUME SignInv, NEW b \in Browsers, SignOut(b) PROVE SignInv'
  BY SignConstants DEF SignOut, SignInv, SignTypes, BoundOnce, VisitsOK, VisitOK, Tended, Rooted, Users, BoundOf, Placeholder

\* Setting out for the provider keeps it.
LEMMA StartsSignIn == ASSUME SignInv, NEW b \in Browsers, NEW mode \in {"login", "connect"}, StartSignIn(b, mode) PROVE SignInv'
<1>1. modes' \in Seq({"login", "connect"})
  BY DEF StartSignIn, SignInv, SignTypes
<1>2. Len(modes') \in Nat
  BY <1>1
<1>3. cookie' \in [Browsers -> Nat]
  BY <1>2 DEF StartSignIn, SignInv, SignTypes
<1> QED
  BY <1>1, <1>3 DEF StartSignIn, SignInv, SignTypes, BoundOnce, VisitsOK, VisitOK, Tended, Rooted, BoundOf

\* A handler moves on, or ends, and the table stays.
LEMMA VisitMoves ==
  ASSUME SignInv, NEW h \in SignHandlers, NEW v \in Visits, visit' = [visit EXCEPT ![h] = v],
         VisitOK(v), Rooted(v.cur), cookie' \in [Browsers -> Nat],
         visit[h].step \in {"link", "delete"} => v.step \in {"link", "delete"} /\ v.user = visit[h].user,
         UNCHANGED <<accounts, bindings, modes, session, entered, everBound, signMishap>>
  PROVE  SignInv'
<1>1. SignTypes'
  BY DEF SignInv, SignTypes
<1>2. BoundOnce'
  BY DEF SignInv, SignTypes, BoundOnce, Rooted, BoundOf
<1>3. VisitsOK'
  BY DEF SignInv, SignTypes, VisitsOK, VisitOK
<1>4. Tended'
  BY DEF SignInv, SignTypes, Tended, BoundOf
<1> QED BY <1>1, <1>2, <1>3, <1>4 DEF SignInv

\* A handler at rest knows nothing.
LEMMA IdleVisit == Idle2 \in Visits /\ VisitOK(Idle2) /\ Rooted(Idle2.cur) /\ Idle2.step = "idle"
  BY SignConstants DEF Idle2, Visits, VisitOK, Rooted

\* A handler that sends the browser back, with nothing in hand, keeps it.
LEMMA BackMoves ==
  ASSUME SignInv, NEW h \in SignHandlers, Back(h), visit[h].step \notin {"link", "delete"},
         UNCHANGED <<accounts, bindings, modes, session, entered, everBound, signMishap>>
  PROVE  SignInv'
<1>1. cookie' \in [Browsers -> Nat]
  BY DEF Back, SignInv, SignTypes
<1> QED
  BY <1>1, IdleVisit, VisitMoves DEF Back

\* What a request of the handlers does, call by call.
LEMMA CallbackStep ==
  ASSUME SignInv, NEW h \in SignHandlers, NEW b \in Browsers, NEW n \in 1 .. Len(modes), NEW sub \in Subjects,
         Callback(h, b, n, sub)
  PROVE  SignInv'
<1> DEFINE v == [Idle2 EXCEPT !.step = "claims", !.browser = b, !.mode = modes[n], !.sub = sub]
<1>1. modes[n] \in {"login", "connect"}
  BY DEF SignInv, SignTypes
<1>2. v \in Visits /\ VisitOK(v) /\ Rooted(v.cur)
  BY <1>1, SignConstants DEF Visits, VisitOK, Rooted, Idle2
<1>3. CASE visit' = [visit EXCEPT ![h] = v] /\ UNCHANGED cookie
  <2>1. cookie' \in [Browsers -> Nat] /\ visit[h].step = "idle"
    BY <1>3, IdleVisit DEF Callback, SignInv, SignTypes
  <2> HIDE DEF v
  <2> QED
    BY <1>2, <1>3, <2>1, VisitMoves DEF Callback
<1>4. CASE UNCHANGED visit /\ cookie' \in [Browsers -> Nat]
  BY <1>4 DEF Callback, SignInv, SignTypes, BoundOnce, VisitsOK, VisitOK, Tended, Rooted, BoundOf
<1>5. cookie \in [Browsers -> Nat]
  BY DEF SignInv, SignTypes
<1> QED
  BY <1>3, <1>4, <1>5 DEF Callback

\* The claims are in: who is signed in is read from the browser.
LEMMA ClaimsStep == ASSUME SignInv, NEW h \in SignHandlers, ClaimsFetched(h) PROVE SignInv'
<1> DEFINE v == [visit[h] EXCEPT !.step = "look", !.cur = session[visit[h].browser]]
<1>1. visit[h] \in Visits /\ VisitOK(visit[h]) /\ cookie \in [Browsers -> Nat] /\ visit \in [SignHandlers -> Visits]
  BY DEF SignInv, SignTypes, VisitsOK
<1>2. visit[h].step = "claims" /\ visit[h].browser \in Browsers
  BY <1>1 DEF ClaimsFetched, VisitOK
<1>3. v \in Visits /\ VisitOK(v) /\ Rooted(v.cur)
  BY <1>1, <1>2 DEF SignInv, SignTypes, Visits, VisitOK, BoundOnce
<1>4. CASE Back(h)
  BY <1>2, <1>4, BackMoves DEF ClaimsFetched
<1>5. CASE visit' = [visit EXCEPT ![h].step = "look", ![h].cur = session[visit[h].browser]] /\ UNCHANGED cookie
  <2>1. visit' = [visit EXCEPT ![h] = v]
    BY <1>5, <1>1 DEF Visits
  <2>2. cookie' \in [Browsers -> Nat]
    BY <1>1, <1>5
  <2> HIDE DEF v
  <2> QED
    BY <1>2, <1>3, <2>1, <2>2, VisitMoves DEF ClaimsFetched
<1> QED
  BY <1>4, <1>5 DEF ClaimsFetched

\* Bindings have a user and a subject.
LEMMA BoundUsers ==
  ASSUME SignInv, NEW sub \in Subjects, NEW u \in BoundTo(sub)
  PROVE  u \in Users /\ [user |-> u, sub |-> sub] \in everBound /\ BoundOf(u) # {}
<1>1. PICK y \in bindings : y.sub = sub /\ u = y.user
  BY DEF BoundTo
<1>2. y \in [user : Users, sub : Subjects] /\ y \in everBound
  BY DEF SignInv, SignTypes
<1>3. y = [user |-> u, sub |-> sub]
  BY <1>1, <1>2
<1> QED
  BY <1>1, <1>2, <1>3 DEF BoundOf

\* Looking up the subject keeps it.
LEMMA LookUpStep == ASSUME SignInv, NEW h \in SignHandlers, LookUp(h) PROVE SignInv'
<1>1. /\ visit[h] \in Visits /\ VisitOK(visit[h]) /\ cookie \in [Browsers -> Nat]
      /\ visit \in [SignHandlers -> Visits] /\ visit[h].step = "look" /\ Rooted(visit[h].cur)
  BY DEF SignInv, SignTypes, VisitsOK, LookUp, BoundOnce
<1>2. CASE Back(h)
  BY <1>1, <1>2, BackMoves DEF LookUp
<1>3. CASE /\ visit[h].mode = "connect" /\ visit[h].cur # NobodyIn
           /\ visit' = [visit EXCEPT ![h].step = "mine"] /\ UNCHANGED cookie
  <2> DEFINE v == [visit[h] EXCEPT !.step = "mine"]
  <2>1. v \in Visits /\ VisitOK(v) /\ Rooted(v.cur) /\ visit' = [visit EXCEPT ![h] = v] /\ cookie' = cookie
    BY <1>1, <1>3 DEF Visits, VisitOK
  <2> HIDE DEF v
  <2> QED
    BY <1>1, <2>1, VisitMoves DEF LookUp
<1>4. CASE /\ \E u \in BoundTo(visit[h].sub) : visit' = [visit EXCEPT ![h].step = "enter", ![h].user = u]
           /\ UNCHANGED cookie
  <2>1. PICK u \in BoundTo(visit[h].sub) : visit' = [visit EXCEPT ![h].step = "enter", ![h].user = u]
    BY <1>4
  <2> DEFINE v == [visit[h] EXCEPT !.step = "enter", !.user = u]
  <2>2. visit[h].sub \in Subjects
    BY <1>1 DEF VisitOK
  <2>3. u \in Users /\ [user |-> u, sub |-> visit[h].sub] \in everBound
    BY <2>2, BoundUsers
  <2>4. v \in Visits /\ VisitOK(v) /\ Rooted(v.cur) /\ visit' = [visit EXCEPT ![h] = v] /\ cookie' = cookie
    BY <1>1, <1>4, <2>1, <2>3 DEF Visits, VisitOK
  <2> HIDE DEF v
  <2> QED
    BY <1>1, <2>4, VisitMoves DEF LookUp
<1>5. CASE visit[h].mode = "login" /\ visit' = [visit EXCEPT ![h].step = "create"] /\ UNCHANGED cookie
  <2> DEFINE v == [visit[h] EXCEPT !.step = "create"]
  <2>1. v \in Visits /\ VisitOK(v) /\ Rooted(v.cur) /\ visit' = [visit EXCEPT ![h] = v] /\ cookie' = cookie
    BY <1>1, <1>5 DEF Visits, VisitOK
  <2> HIDE DEF v
  <2> QED
    BY <1>1, <2>1, VisitMoves DEF LookUp
<1> QED
  BY <1>2, <1>3, <1>4, <1>5 DEF LookUp

\* Looking up what the account is bound to keeps it.
LEMMA LookMineStep == ASSUME SignInv, NEW h \in SignHandlers, LookMine(h) PROVE SignInv'
<1>1. /\ visit[h] \in Visits /\ VisitOK(visit[h]) /\ cookie \in [Browsers -> Nat]
      /\ visit \in [SignHandlers -> Visits] /\ visit[h].step = "mine" /\ Rooted(visit[h].cur)
  BY DEF SignInv, SignTypes, VisitsOK, LookMine, BoundOnce
<1>2. CASE Back(h)
  BY <1>1, <1>2, BackMoves DEF LookMine
<1>3. CASE visit' = [visit EXCEPT ![h].step = "link", ![h].user = visit[h].cur] /\ UNCHANGED cookie
  <2> DEFINE v == [visit[h] EXCEPT !.step = "link", !.user = visit[h].cur]
  <2>1. v \in Visits /\ VisitOK(v) /\ Rooted(v.cur) /\ visit' = [visit EXCEPT ![h] = v] /\ cookie' = cookie
    BY <1>1, <1>3 DEF Visits, VisitOK
  <2> HIDE DEF v
  <2> QED
    BY <1>1, <2>1, VisitMoves DEF LookMine
<1> QED
  BY <1>2, <1>3 DEF LookMine

\* Looking up the subject again, after a lost race, keeps it.
LEMMA LookAgainStep == ASSUME SignInv, NEW h \in SignHandlers, LookAgain(h) PROVE SignInv'
<1>1. /\ visit[h] \in Visits /\ VisitOK(visit[h]) /\ cookie \in [Browsers -> Nat]
      /\ visit \in [SignHandlers -> Visits] /\ visit[h].step = "again" /\ Rooted(visit[h].cur)
  BY DEF SignInv, SignTypes, VisitsOK, LookAgain, BoundOnce
<1>2. CASE Back(h)
  BY <1>1, <1>2, BackMoves DEF LookAgain
<1>3. CASE \E u \in BoundTo(visit[h].sub) :
             visit' = [visit EXCEPT ![h].step = "enter", ![h].user = u] /\ UNCHANGED cookie
  <2>1. PICK u \in BoundTo(visit[h].sub) : visit' = [visit EXCEPT ![h].step = "enter", ![h].user = u] /\ UNCHANGED cookie
    BY <1>3
  <2> DEFINE v == [visit[h] EXCEPT !.step = "enter", !.user = u]
  <2>2. visit[h].sub \in Subjects
    BY <1>1 DEF VisitOK
  <2>3. u \in Users /\ [user |-> u, sub |-> visit[h].sub] \in everBound
    BY <2>2, BoundUsers
  <2>4. v \in Visits /\ VisitOK(v) /\ Rooted(v.cur) /\ visit' = [visit EXCEPT ![h] = v] /\ cookie' = cookie
    BY <1>1, <2>1, <2>3 DEF Visits, VisitOK
  <2> HIDE DEF v
  <2> QED
    BY <1>1, <2>4, VisitMoves DEF LookAgain
<1> QED
  BY <1>2, <1>3 DEF LookAgain

\* Asking for a disconnect keeps it: an account made for the provider is turned away.
LEMMA DisconnectStep == ASSUME SignInv, NEW h \in SignHandlers, NEW b \in Browsers, Disconnect(h, b) PROVE SignInv'
<1> DEFINE v == [Idle2 EXCEPT !.step = "unlink", !.browser = b, !.user = session[b]]
<1>1. v \in Visits /\ VisitOK(v) /\ Rooted(v.cur)
  BY SignConstants DEF SignInv, SignTypes, Visits, VisitOK, Rooted, Idle2, Disconnect, Placeholder
<1>2. visit' = [visit EXCEPT ![h] = v] /\ cookie' \in [Browsers -> Nat] /\ visit[h].step = "idle"
  BY IdleVisit DEF Disconnect, SignInv, SignTypes
<1> HIDE DEF v
<1> QED
  BY <1>1, <1>2, VisitMoves DEF Disconnect

\* Making an account keeps it: its handler has it in hand.
LEMMA CreateUserStep == ASSUME SignInv, NEW h \in SignHandlers, CreateUser(h) PROVE SignInv'
<1>1. PICK u \in FreshAccounts \ accounts :
         accounts' = accounts \union {u} /\ visit' = [visit EXCEPT ![h].step = "link", ![h].user = u]
  BY DEF CreateUser
<1> DEFINE v == [visit[h] EXCEPT !.step = "link", !.user = u]
<1>2. /\ visit[h] \in Visits /\ VisitOK(visit[h]) /\ visit \in [SignHandlers -> Visits]
      /\ visit[h].step = "create" /\ Rooted(visit[h].cur)
  BY DEF SignInv, SignTypes, VisitsOK, CreateUser, BoundOnce
<1>3. v \in Visits /\ VisitOK(v) /\ v.cur = visit[h].cur /\ v.step = "link" /\ v.user = u
  BY <1>1, <1>2 DEF Visits, VisitOK, Users
<1>4. visit' = [visit EXCEPT ![h] = v]
  BY <1>1, <1>2 DEF Visits
<1> HIDE DEF v
<1>5. SignTypes'
  BY <1>1, <1>3, <1>4 DEF SignInv, SignTypes, CreateUser, Users
<1>6. BoundOnce'
  BY <1>2, <1>3, <1>4 DEF SignInv, BoundOnce, Rooted, BoundOf, CreateUser, SignTypes
<1>7. VisitsOK'
  BY <1>3, <1>4 DEF SignInv, SignTypes, VisitsOK, VisitOK, CreateUser
<1>8. Tended'
  <2> SUFFICES ASSUME NEW a \in accounts' \cap FreshAccounts
               PROVE  \/ BoundOf(a)' # {} \/ signMishap'
                      \/ \E k \in SignHandlers : visit'[k].step \in {"link", "delete"} /\ visit'[k].user = a
    BY DEF Tended
  <2>1. CASE a = u
    BY <2>1, <1>3, <1>4 DEF SignInv, SignTypes
  <2>2. CASE a # u
    <3>1. a \in accounts \cap FreshAccounts
      BY <2>2, <1>1
    <3>2. \A k \in SignHandlers : visit[k].step \in {"link", "delete"} => visit'[k] = visit[k]
      BY <1>2, <1>4
    <3> QED
      BY <3>1, <3>2 DEF SignInv, Tended, BoundOf, CreateUser
  <2> QED BY <2>1, <2>2
<1> QED BY <1>5, <1>6, <1>7, <1>8 DEF SignInv

\* Binding keeps it, for the table takes a user once and a subject once.
LEMMA LinkAccountStep == ASSUME SignInv, NEW h \in SignHandlers, Link(h) PROVE SignInv'
<1> DEFINE r == visit[h]
           x == [user |-> r.user, sub |-> r.sub]
<1>1. /\ r \in Visits /\ VisitOK(r) /\ visit \in [SignHandlers -> Visits] /\ cookie \in [Browsers -> Nat]
      /\ r.step = "link" /\ Rooted(r.cur)
  BY DEF SignInv, SignTypes, VisitsOK, Link, BoundOnce
<1>2. r.user \in Users /\ r.sub \in Subjects /\ (r.mode # "connect" => r.user \in FreshAccounts)
  BY <1>1 DEF VisitOK, Visits, Users
<1>3. CASE BoundTo(r.sub) # {} \/ BoundOf(r.user) # {}
  <2>1. CASE r.mode = "connect"
    <3>1. Back(h) /\ UNCHANGED <<accounts, bindings, modes, session, entered, everBound, signMishap>>
      BY <1>3, <2>1 DEF Link
    <3>2. cookie' \in [Browsers -> Nat] /\ visit' = [visit EXCEPT ![h] = Idle2]
      BY <1>1, <3>1 DEF Back
    <3>3. Rooted(r.user)
      BY <1>1, <2>1 DEF VisitOK
    <3>4. SignTypes' /\ BoundOnce' /\ VisitsOK'
      BY <3>1, <3>2, IdleVisit DEF SignInv, SignTypes, BoundOnce, Rooted, BoundOf, VisitsOK, VisitOK
    <3>5. Tended'
      BY <3>1, <3>2, <3>3, <1>1 DEF SignInv, Tended, Rooted, BoundOf
    <3> QED BY <3>4, <3>5 DEF SignInv
  <2>2. CASE r.mode # "connect"
    <3> DEFINE v == [visit[h] EXCEPT !.step = "delete"]
    <3>1. v \in Visits /\ VisitOK(v) /\ Rooted(v.cur) /\ visit' = [visit EXCEPT ![h] = v] /\ cookie' = cookie
          /\ v.step = "delete" /\ v.user = r.user
      BY <1>1, <1>2, <1>3, <2>2 DEF Visits, VisitOK, Link
    <3>2. UNCHANGED <<accounts, bindings, modes, session, entered, everBound, signMishap>>
      BY <1>3, <2>2 DEF Link
    <3> HIDE DEF v
    <3> QED
      BY <1>1, <3>1, <3>2, VisitMoves
  <2> QED BY <2>1, <2>2
<1>4. CASE BoundTo(r.sub) = {} /\ BoundOf(r.user) = {}
  <2>1. /\ bindings' = bindings \union {x} /\ everBound' = everBound \union bindings'
        /\ UNCHANGED <<accounts, modes, session, entered, signMishap>>
    BY <1>4 DEF Link
  <2>2. PICK v \in Visits : /\ visit' = [visit EXCEPT ![h] = v] /\ cookie' \in [Browsers -> Nat]
                            /\ Rooted(v.cur) /\ VisitOK(v)'
    <3>1. CASE r.mode = "connect"
      <4>1. visit' = [visit EXCEPT ![h] = Idle2] /\ cookie' \in [Browsers -> Nat]
        BY <1>1, <1>4, <3>1 DEF Link, Back
      <4>2. VisitOK(Idle2)'
        BY IdleVisit DEF VisitOK
      <4> QED BY <4>1, <4>2, IdleVisit
    <3>2. CASE r.mode # "connect"
      <4> PICK v : v = [visit[h] EXCEPT !.step = "enter"]
        OBVIOUS
      <4>1. v \in Visits /\ Rooted(v.cur) /\ visit' = [visit EXCEPT ![h] = v] /\ cookie' = cookie
        BY <1>1, <1>4, <3>2 DEF Visits, Link
      <4>2. VisitOK(v)'
        BY <1>1, <2>1 DEF Visits, VisitOK
      <4> QED BY <1>1, <4>1, <4>2
    <3> QED BY <3>1, <3>2
  <2>3. x \in [user : Users, sub : Subjects]
    BY <1>2
  <2> HIDE DEF x
  <2>4. SignTypes'
    BY <2>1, <2>2, <2>3 DEF SignInv, SignTypes
  <2>5. BoundOnce'
    <3>1. \A y, z \in bindings' : y.user = z.user \/ y.sub = z.sub => y = z
      BY <1>4, <2>1 DEF x, SignInv, BoundOnce, BoundTo, BoundOf
    <3>2. \A y \in everBound' : Placeholder(y.user) => y \in bindings'
      BY <2>1 DEF SignInv, BoundOnce, Placeholder
    <3>3. \A u : Rooted(u) => Rooted(u)'
      BY <2>1 DEF Rooted, BoundOf
    <3>4. (\A b \in Browsers : Rooted(session[b])') /\ (\A k \in SignHandlers : Rooted(visit[k].cur)')
      BY <2>1, <2>2, <3>3 DEF SignInv, BoundOnce, SignTypes, Rooted, BoundOf
    <3> QED BY <3>1, <3>2, <3>4 DEF BoundOnce
  <2>6. VisitsOK'
    BY <2>1, <2>2 DEF SignInv, SignTypes, VisitsOK, VisitOK
  <2>7. Tended'
    <3>1. \A u : u = r.user \/ BoundOf(u) # {} => BoundOf(u)' # {}
      <4> SUFFICES ASSUME NEW u, u = r.user \/ BoundOf(u) # {} PROVE \E y \in bindings' : y.user = u
        BY DEF BoundOf
      <4>1. x.user = r.user
        BY DEF x
      <4> QED BY <4>1, <2>1 DEF BoundOf
    <3>2. \A k \in SignHandlers : k # h => visit'[k] = visit[k]
      BY <1>1, <2>2
    <3> QED
      BY <2>1, <3>1, <3>2 DEF SignInv, Tended
  <2> QED BY <2>4, <2>5, <2>6, <2>7 DEF SignInv
<1> QED BY <1>3, <1>4

\* Deleting the account of a lost race keeps it.
LEMMA DeleteStep == ASSUME SignInv, NEW h \in SignHandlers, DeleteUser(h) PROVE SignInv'
<1> DEFINE v == [visit[h] EXCEPT !.step = "again"]
<1>1. /\ visit[h] \in Visits /\ VisitOK(visit[h]) /\ visit \in [SignHandlers -> Visits]
      /\ visit[h].step = "delete" /\ Rooted(visit[h].cur)
  BY DEF SignInv, SignTypes, VisitsOK, DeleteUser, BoundOnce
<1>2. v \in Visits /\ VisitOK(v) /\ v.cur = visit[h].cur /\ visit' = [visit EXCEPT ![h] = v]
  BY <1>1 DEF Visits, VisitOK, DeleteUser
<1>3. visit[h].user \in FreshAccounts
  BY <1>1 DEF VisitOK
<1> HIDE DEF v
<1>4. SignTypes'
  BY <1>2, <1>3, SignConstants DEF SignInv, SignTypes, DeleteUser
<1>5. BoundOnce' /\ VisitsOK'
  BY <1>1, <1>2 DEF SignInv, SignTypes, BoundOnce, Rooted, BoundOf, VisitsOK, VisitOK, DeleteUser
<1>6. Tended'
  <2>1. CASE signMishap'
    BY <2>1 DEF Tended
  <2>2. CASE accounts' = accounts \ {visit[h].user} /\ UNCHANGED signMishap
    BY <1>1, <1>2, <2>2 DEF SignInv, Tended, BoundOf, DeleteUser
  <2> QED BY <2>1, <2>2 DEF DeleteUser
<1> QED BY <1>4, <1>5, <1>6 DEF SignInv

\* Coming in keeps it: the account was bound to the subject.
LEMMA EnterStep == ASSUME SignInv, NEW h \in SignHandlers, EnterAccount(h) PROVE SignInv'
<1> DEFINE r == visit[h]
           x == [user |-> r.user, sub |-> r.sub]
<1>1. /\ r \in Visits /\ VisitOK(r) /\ visit \in [SignHandlers -> Visits] /\ cookie \in [Browsers -> Nat]
      /\ r.step = "enter" /\ Rooted(r.cur) /\ session \in [Browsers -> Users \union {NobodyIn}]
  BY DEF SignInv, SignTypes, VisitsOK, EnterAccount, BoundOnce
<1>2. visit' = [visit EXCEPT ![h] = Idle2] /\ cookie' \in [Browsers -> Nat]
      /\ UNCHANGED <<accounts, bindings, modes, everBound, signMishap>>
  BY <1>1 DEF EnterAccount, Back
<1>3. x \in everBound
  BY <1>1 DEF VisitOK
<1>4. r.user \in Users /\ Rooted(r.user)
  <2>1. x \in [user : Users, sub : Subjects]
    BY <1>3 DEF SignInv, SignTypes
  <2>2. x.user = r.user /\ x.user \in Users
    BY <2>1
  <2>3. Placeholder(x.user) => x \in bindings
    BY <1>3 DEF SignInv, BoundOnce
  <2> QED BY <2>2, <2>3 DEF Rooted, BoundOf, Placeholder
<1>5. entered' \subseteq everBound
  BY <1>3 DEF EnterAccount, SignInv, SignTypes
<1>6. session' \in [Browsers -> Users \union {NobodyIn}] /\ \A b \in Browsers : Rooted(session'[b])
  <2>1. Rooted(NobodyIn)
    BY SignConstants DEF Rooted
  <2>2. \A b \in Browsers : Rooted(session[b])
    BY DEF SignInv, BoundOnce
  <2>3. \/ session' = [session EXCEPT ![r.browser] = IF r.cur = r.user THEN @ ELSE r.user]
        \/ session' = [session EXCEPT ![r.browser] = NobodyIn]
    BY DEF EnterAccount
  <2> HIDE DEF r
  <2>4. CASE session' = [session EXCEPT ![r.browser] = IF r.cur = r.user THEN @ ELSE r.user]
    BY <2>4, <1>1, <1>4, <2>2
  <2>5. CASE session' = [session EXCEPT ![r.browser] = NobodyIn]
    BY <2>5, <1>1, <2>1, <2>2
  <2> QED BY <2>3, <2>4, <2>5
<1>7. SignTypes' /\ BoundOnce' /\ VisitsOK' /\ Tended'
  <2>1. SignTypes'
    BY <1>2, <1>5, <1>6, IdleVisit DEF SignInv, SignTypes
  <2>2. BoundOnce' /\ VisitsOK'
    BY <1>2, <1>6, IdleVisit DEF SignInv, SignTypes, BoundOnce, Rooted, BoundOf, VisitsOK, VisitOK
  <2>3. Tended'
    BY <1>1, <1>2 DEF SignInv, Tended, BoundOf
  <2> QED BY <2>1, <2>2, <2>3
<1> QED BY <1>7 DEF SignInv

\* A failed call is a mishap, and ends the handler.
LEMMA FailStep == ASSUME SignInv, NEW h \in SignHandlers, CallFails(h) PROVE SignInv'
<1>1. visit' = [visit EXCEPT ![h] = Idle2] /\ cookie' \in [Browsers -> Nat] /\ signMishap' = TRUE
  BY DEF CallFails, Back, SignInv, SignTypes
<1>2. SignTypes'
  BY <1>1, IdleVisit DEF SignInv, SignTypes, CallFails
<1>3. BoundOnce' /\ VisitsOK' /\ Tended'
  BY <1>1, IdleVisit DEF SignInv, SignTypes, BoundOnce, Rooted, BoundOf, VisitsOK, VisitOK, Tended, CallFails
<1> QED BY <1>2, <1>3 DEF SignInv

\* Unbinding keeps it, for it spares the accounts made for the provider.
LEMMA UnlinkStep == ASSUME SignInv, NEW h \in SignHandlers, Unlink(h) PROVE SignInv'
<1>1. /\ visit[h].step = "unlink" /\ visit[h].user \notin FreshAccounts
      /\ visit' = [visit EXCEPT ![h] = Idle2] /\ bindings' = bindings \ BoundOf(visit[h].user)
  BY DEF Unlink, SignInv, VisitsOK, VisitOK
<1>2. \A u \in FreshAccounts : BoundOf(u)' = BoundOf(u)
  BY <1>1 DEF BoundOf
<1>3. SignTypes'
  BY <1>1, IdleVisit DEF SignInv, SignTypes, Unlink
<1>4. BoundOnce'
  <2>1. \A u : Rooted(u) => Rooted(u)'
    BY <1>2 DEF Rooted
  <2>2. \A y \in everBound' : Placeholder(y.user) => y \in bindings'
    BY <1>1 DEF SignInv, BoundOnce, Placeholder, BoundOf, Unlink
  <2>3. (\A b \in Browsers : Rooted(session[b])') /\ (\A k \in SignHandlers : Rooted(visit[k].cur)')
    BY <1>1, <2>1, IdleVisit DEF SignInv, BoundOnce, SignTypes, Rooted, BoundOf, Unlink
  <2>4. \A y, z \in bindings' : y.user = z.user \/ y.sub = z.sub => y = z
    BY <1>1 DEF SignInv, BoundOnce
  <2> QED BY <2>2, <2>3, <2>4 DEF BoundOnce
<1>5. VisitsOK'
  BY <1>1, IdleVisit DEF SignInv, SignTypes, VisitsOK, VisitOK, Unlink
<1>6. Tended'
  BY <1>1, <1>2 DEF SignInv, Tended, Unlink
<1> QED BY <1>3, <1>4, <1>5, <1>6 DEF SignInv

\* No step breaks the invariant of signing in.
LEMMA SignStep == SignInv /\ [SignNext]_signVars => SignInv'
<1> SUFFICES ASSUME SignInv, [SignNext]_signVars PROVE SignInv'
  OBVIOUS
<1>1. CASE UNCHANGED signVars
  BY <1>1 DEF signVars, SignInv, SignTypes, BoundOnce, VisitsOK, VisitOK, Tended, Rooted, BoundOf
<1>2. CASE SignNext
  BY <1>2, SignOuts, StartsSignIn, ClaimsStep, LookUpStep, LookMineStep, CreateUserStep, LinkAccountStep, DeleteStep,
     LookAgainStep, EnterStep, FailStep, UnlinkStep, DisconnectStep, CallbackStep DEF SignNext
<1> QED BY <1>1, <1>2

\* It is enough.
LEMMA SignInvSound == SignInv => SignInSound /\ SignTypeOK
<1> SUFFICES ASSUME SignInv PROVE SignInSound /\ SignTypeOK
  OBVIOUS
<1>1. EntersBound /\ WayInStays
  BY DEF SignInv, SignTypes, BoundOnce, EntersBound, WayInStays
<1>2. NoStrays
  BY DEF SignInv, Tended, NoStrays
<1>3. SignTypeOK
  BY DEF SignInv, SignTypes, BoundOnce, SignTypeOK, Users
<1> QED BY <1>1, <1>2, <1>3 DEF SignInSound

\* Whatever visits, races for a subject, failed calls and disconnects interleave: who comes in
\* came in as the account his subject is bound to, an account made for the provider keeps its
\* binding, and none is left behind without one (api/auth/coinpay).
THEOREM SignInIsSound == SignSpec => []SignInSound
<1>1. SignSpec => []SignInv
  BY SignStarts, SignStep, PTL DEF SignSpec
<1> QED BY <1>1, SignInvSound, PTL

-----------------------------------------------------------------------------
(* The command and its credentials.  A process renews its own token, one    *)
(* renewal at a time (OneFlight); what the server issued is nobody's until  *)
(* the answer is in (AnswersNew); and a token that was spent is spent by a  *)
(* renewal under way or was lost with its answer (SpentKnown).              *)

Issued == Len(spentBy)
Flights == [token : Nat, answer : Int]
Credentials == [user : CliUsers \union {NobodyIn}, token : Nat]
CliClients == [user : CliUsers \union {NobodyIn}, token : Nat, stale : BOOLEAN]
CliRequests == [step : {"idle", "before", "after", "sent", "resent"}, on : Calls \union {NoLeader}]

CliTypes ==
    /\ spentBy \in Seq(Processes \union {NobodyIn}) /\ Issued \in Nat /\ lostTokens \subseteq 1 .. Issued
    /\ credFile \in Credentials /\ credFile.token <= Issued /\ (credFile # NoCredentials => credFile.token > 0)
    /\ clientOf \in [Processes -> CliClients] /\ leader \in [Processes -> Calls \union {NoLeader}]
    /\ \A p \in Processes :
          clientOf[p].token <= Issued /\ (clientOf[p] # NoClient => clientOf[p].token > 0)
    /\ calls \in [Processes -> [Calls -> CliRequests]]
    /\ \A p \in Processes, c \in Calls : calls[p][c].step # "idle" => clientOf[p] # NoClient
    /\ flights \in [Processes -> [Calls -> Flights]]
    /\ selfRefused \in BOOLEAN

Spends(p, c, t) == flights[p][c].token = t /\ flights[p][c].answer > 0

\* A process renews its own token, one renewal at a time ...
OneFlight ==
    \A p \in Processes, c \in Calls :
        IF leader[p] = c THEN flights[p][c].token = clientOf[p].token /\ clientOf[p] # NoClient
                         ELSE flights[p][c] = NoFlight

\* ... and what the server issued is nobody's yet until the answer is in.
AnswersNew ==
    \A p \in Processes, c \in Calls :
        LET a == flights[p][c].answer
        IN  a # Refusal /\ a # 0 =>
              /\ a \in 1 .. Issued /\ spentBy[a] = NobodyIn /\ credFile.token # a
              /\ \A q \in Processes : clientOf[q].token # a
              /\ \A q \in Processes, d \in Calls : flights[q][d].answer = a => q = p /\ d = c

\* A token that its holder, or whoever reads the file, spent before: the answer is on its way
\* or was lost.
SpentKnown ==
    /\ \A p \in Processes : clientOf[p].token # 0 /\ spentBy[clientOf[p].token] = p =>
          clientOf[p].token \in lostTokens \/ \E c \in Calls : Spends(p, c, clientOf[p].token)
    /\ \A p \in Processes : credFile.token # 0 /\ spentBy[credFile.token] = p =>
          credFile.token \in lostTokens \/ \E c \in Calls : Spends(p, c, credFile.token)

CliInv == CliTypes /\ OneFlight /\ AnswersNew /\ SpentKnown /\ OwnTokensGood

\* Nothing has been issued.
LEMMA CliStarts == CliInit => CliInv
<1> SUFFICES ASSUME CliInit PROVE CliInv
  OBVIOUS
<1>1. spentBy \in Seq(Processes \union {NobodyIn}) /\ Issued = 0
  BY EmptySeq DEF CliInit, Issued
<1>2. CliTypes
  <2>1. NoCredentials \in Credentials /\ NoClient \in CliClients /\ NoFlight \in Flights /\ IdleCall \in CliRequests
        /\ NoCredentials.token = 0 /\ NoClient.token = 0 /\ IdleCall.step = "idle"
    BY DEF Flights, Credentials, CliClients, CliRequests, NoCredentials, NoClient, NoFlight, NoLeader, IdleCall
  <2>2. calls \in [Processes -> [Calls -> CliRequests]] /\ flights \in [Processes -> [Calls -> Flights]]
        /\ clientOf \in [Processes -> CliClients] /\ leader \in [Processes -> Calls \union {NoLeader}]
    BY <2>1 DEF CliInit
  <2>3. \A q \in Processes : clientOf[q] = NoClient /\ \A d \in Calls : calls[q][d] = IdleCall
    BY DEF CliInit
  <2>4. credFile = NoCredentials /\ lostTokens = {} /\ selfRefused = FALSE
    BY DEF CliInit
  <2>5. \A q \in Processes : clientOf[q].token <= Issued /\ (clientOf[q] # NoClient => clientOf[q].token > 0)
    BY <1>1, <2>1, <2>3
  <2>6. \A q \in Processes, d \in Calls : calls[q][d].step # "idle" => clientOf[q] # NoClient
    BY <2>1, <2>3
  <2>7. credFile \in Credentials /\ credFile.token <= Issued /\ Issued \in Nat /\ lostTokens \subseteq 1 .. Issued
    BY <1>1, <2>1, <2>4
  <2> QED
    BY <1>1, <2>2, <2>4, <2>5, <2>6, <2>7 DEF CliTypes
<1>3. OneFlight /\ AnswersNew /\ SpentKnown /\ OwnTokensGood
  BY SignConstants DEF CliInit, OneFlight, AnswersNew, SpentKnown, OwnTokensGood, NoCredentials, NoClient, NoFlight, NoLeader
<1> QED BY <1>2, <1>3 DEF CliInv

\* One token more.
LEMMA TokenIssued ==
  ASSUME NEW s, s \in Seq(Processes \union {NobodyIn})
  PROVE  /\ Append(s, NobodyIn) \in Seq(Processes \union {NobodyIn})
         /\ Len(s) \in Nat /\ Len(Append(s, NobodyIn)) = Len(s) + 1
         /\ Append(s, NobodyIn)[Len(s) + 1] = NobodyIn
         /\ \A n \in 1 .. Len(s) : Append(s, NobodyIn)[n] = s[n]
  BY AppendProperties

\* Signing in on the command line keeps it.
LEMMA SaveStep == ASSUME CliInv, NEW u \in CliUsers, SaveCredentials(u) PROVE CliInv'
<1>1. /\ spentBy' \in Seq(Processes \union {NobodyIn}) /\ Issued \in Nat /\ Issued' = Issued + 1
      /\ spentBy'[Issued + 1] = NobodyIn /\ \A n \in 1 .. Issued : spentBy'[n] = spentBy[n]
  BY TokenIssued DEF SaveCredentials, CliInv, CliTypes, Issued
<1>2. credFile' = [user |-> u, token |-> Issued + 1]
  BY <1>1 DEF SaveCredentials, Issued
<1>3. CliTypes'
  <2>1. credFile' \in Credentials /\ credFile'.token = Issued + 1
    BY <1>1, <1>2 DEF Credentials
  <2>2. UNCHANGED <<clientOf, leader, flights, calls, lostTokens, selfRefused>>
    BY DEF SaveCredentials
  <2>3. credFile'.token <= Issued' /\ Issued' \in Nat /\ lostTokens' \subseteq 1 .. Issued' /\ credFile'.token > 0
    BY <1>1, <2>1, <2>2 DEF CliInv, CliTypes
  <2>4. \A q \in Processes : clientOf'[q].token <= Issued'
    BY <1>1, <2>2 DEF CliInv, CliTypes, CliClients
  <2> QED
    BY <1>1, <2>1, <2>2, <2>3, <2>4 DEF CliInv, CliTypes
<1>4. OneFlight' /\ OwnTokensGood'
  BY DEF SaveCredentials, CliInv, OneFlight, OwnTokensGood
<1>5. AnswersNew'
  BY <1>1, <1>2 DEF SaveCredentials, CliInv, CliTypes, AnswersNew
<1>6. SpentKnown'
  <2>1. \A p \in Processes : clientOf[p].token \in 0 .. Issued
    BY DEF CliInv, CliTypes, CliClients
  <2>2. credFile'.token = Issued + 1 /\ \A p \in Processes : p # NobodyIn
    BY <1>2, SignConstants
  <2>3. UNCHANGED <<clientOf, flights, lostTokens>>
    BY DEF SaveCredentials
  <2> QED
    BY <1>1, <2>1, <2>2, <2>3 DEF CliInv, SpentKnown, Spends
<1> QED BY <1>3, <1>4, <1>5, <1>6 DEF CliInv

\* Logging out keeps it.
LEMMA LogoutStep == CliInv /\ Logout => CliInv'
<1> SUFFICES ASSUME CliInv, Logout PROVE CliInv'
  OBVIOUS
<1>1. NoCredentials \in Credentials /\ NoCredentials.token = 0
  BY DEF NoCredentials, Credentials
<1>2. CliTypes' /\ OneFlight' /\ OwnTokensGood'
  BY <1>1 DEF Logout, CliInv, CliTypes, OneFlight, OwnTokensGood, Issued
<1>3. AnswersNew' /\ SpentKnown'
  BY <1>1 DEF Logout, CliInv, CliTypes, AnswersNew, SpentKnown, Spends, Issued
<1> QED BY <1>2, <1>3 DEF CliInv

\* A process that reads the file holds what the file holds.
LEMMA GetClientStep == ASSUME CliInv, NEW p \in Processes, GetApiClient(p) PROVE CliInv'
<1>1. /\ clientOf' = [clientOf EXCEPT ![p] = [user |-> credFile.user, token |-> credFile.token, stale |-> FALSE]]
      /\ clientOf[p] = NoClient /\ credFile.token \in 1 .. Issued /\ Issued \in Nat
  BY DEF GetApiClient, CliInv, CliTypes, Issued, Credentials
<1>2. leader[p] \notin Calls /\ \A c \in Calls : flights[p][c] = NoFlight
  BY <1>1 DEF CliInv, OneFlight
<1>3. /\ clientOf'[p] = [user |-> credFile.user, token |-> credFile.token, stale |-> FALSE]
      /\ \A q \in Processes : q # p => clientOf'[q] = clientOf[q]
  BY <1>1 DEF CliInv, CliTypes
<1>4. CliTypes'
  <2>1. [user |-> credFile.user, token |-> credFile.token, stale |-> FALSE] \in CliClients
    BY DEF CliInv, CliTypes, Credentials, CliClients
  <2>2. clientOf' \in [Processes -> CliClients]
    BY <1>1, <2>1 DEF CliInv, CliTypes
  <2>3. clientOf'[p].token = credFile.token /\ clientOf'[p] # NoClient
    BY <1>1, <1>3 DEF NoClient
  <2> QED
    BY <1>1, <1>3, <2>2, <2>3 DEF GetApiClient, CliInv, CliTypes, Issued
<1>5. OneFlight' /\ OwnTokensGood'
  BY <1>2, <1>3 DEF GetApiClient, CliInv, OneFlight, OwnTokensGood
<1>6. AnswersNew'
  BY <1>2, <1>3 DEF GetApiClient, CliInv, AnswersNew, Issued
<1>7. SpentKnown'
  BY <1>2, <1>3 DEF GetApiClient, CliInv, SpentKnown, Spends
<1> QED BY <1>4, <1>5, <1>6, <1>7 DEF CliInv

\* Whether a session is stale, and what calls wait for, says nothing of tokens.
LEMMA CallsMove ==
  ASSUME CliInv, clientOf' \in [Processes -> CliClients],
         \A p \in Processes : clientOf'[p].token = clientOf[p].token
            /\ ((clientOf'[p] # NoClient) <=> (clientOf[p] # NoClient)),
         calls' \in [Processes -> [Calls -> CliRequests]],
         \A p \in Processes, c \in Calls : calls'[p][c].step # "idle" => clientOf[p] # NoClient,
         UNCHANGED <<credFile, leader, flights, spentBy, lostTokens, selfRefused>>
  PROVE  CliInv'
<1>1. Issued' = Issued
  BY DEF Issued
<1>2. CliTypes'
  BY <1>1 DEF CliInv, CliTypes
<1>3. OneFlight' /\ OwnTokensGood'
  BY DEF CliInv, OneFlight, OwnTokensGood
<1>4. AnswersNew'
  BY <1>1 DEF CliInv, AnswersNew
<1>5. SpentKnown'
  BY DEF CliInv, SpentKnown, Spends
<1> QED BY <1>2, <1>3, <1>4, <1>5 DEF CliInv

\* An expired session keeps it.
LEMMA ExpiresStep == ASSUME CliInv, NEW p \in Processes, Expires(p) PROVE CliInv'
<1>1. clientOf \in [Processes -> CliClients] /\ clientOf[p].token > 0
  BY DEF Expires, CliInv, CliTypes
<1>2. clientOf' \in [Processes -> CliClients]
  BY <1>1 DEF Expires, CliClients
<1>3. \A q \in Processes : q # p => clientOf'[q] = clientOf[q]
  BY <1>1 DEF Expires
<1>4. clientOf'[p].token = clientOf[p].token
  BY <1>1 DEF Expires, CliClients
<1>5. clientOf'[p] # NoClient /\ clientOf[p] # NoClient
  BY <1>1, <1>4 DEF NoClient
<1> QED
  BY <1>2, <1>3, <1>4, <1>5, CallsMove DEF Expires, CliInv, CliTypes

\* One call of one process changes.
LEMMA OneCall ==
  ASSUME NEW S, NEW f \in [Processes -> [Calls -> S]], NEW p \in Processes, NEW c \in Calls, NEW x \in S,
         NEW g, g = [f EXCEPT ![p] = [f[p] EXCEPT ![c] = x]]
  PROVE  /\ g \in [Processes -> [Calls -> S]] /\ g[p][c] = x
         /\ \A q \in Processes, d \in Calls : q # p \/ d # c => g[q][d] = f[q][d]
  OBVIOUS

\* A call that finds the session stale leads a renewal, or waits for the one there is.
LEMMA RefreshStep ==
  ASSUME CliInv, NEW p \in Processes, NEW c \in Calls, NEW step \in {"before", "after"}, Refresh(p, c, step),
         clientOf[p] # NoClient, UNCHANGED <<credFile, clientOf, spentBy, lostTokens, selfRefused>>
  PROVE  CliInv'
<1>1. /\ leader \in [Processes -> Calls \union {NoLeader}] /\ flights \in [Processes -> [Calls -> Flights]]
      /\ calls \in [Processes -> [Calls -> CliRequests]] /\ clientOf \in [Processes -> CliClients]
      /\ \A q \in Processes, d \in Calls : calls[q][d].step # "idle" => clientOf[q] # NoClient
  BY DEF CliInv, CliTypes
<1>2. PICK x \in CliRequests : calls' = [calls EXCEPT ![p] = [calls[p] EXCEPT ![c] = x]]
  BY <1>1 DEF Refresh, CliRequests
<1>3. /\ calls' \in [Processes -> [Calls -> CliRequests]]
      /\ \A q \in Processes, d \in Calls : calls'[q][d].step # "idle" => clientOf[q] # NoClient
  <2>1. /\ calls' \in [Processes -> [Calls -> CliRequests]]
        /\ \A q \in Processes, d \in Calls : q # p \/ d # c => calls'[q][d] = calls[q][d]
    BY <1>1, <1>2, OneCall
  <2> QED BY <1>1, <2>1
<1>4. CASE UNCHANGED <<leader, flights>>
  BY <1>1, <1>3, <1>4, CallsMove
<1>5. CASE /\ leader[p] = NoLeader /\ leader' = [leader EXCEPT ![p] = c]
           /\ flights' = [flights EXCEPT ![p][c].token = clientOf[p].token]
  <2>1. \A d \in Calls : flights[p][d] = NoFlight
    BY <1>5, SignConstants DEF CliInv, OneFlight, NoLeader
  <2>2. [token |-> clientOf[p].token, answer |-> 0] \in Flights
    BY <1>1 DEF Flights, CliClients
  <2>3. flights' = [flights EXCEPT ![p] = [flights[p] EXCEPT ![c] = [token |-> clientOf[p].token, answer |-> 0]]]
    <3>1. [flights[p][c] EXCEPT !.token = clientOf[p].token] = [token |-> clientOf[p].token, answer |-> 0]
      BY <2>1 DEF NoFlight
    <3>2. flights' = [flights EXCEPT ![p] = [flights[p] EXCEPT ![c] = [flights[p][c] EXCEPT !.token = clientOf[p].token]]]
      BY <1>5
    <3> QED BY <3>1, <3>2
  <2>4. /\ flights'[p][c] = [token |-> clientOf[p].token, answer |-> 0]
        /\ \A q \in Processes, d \in Calls : q # p \/ d # c => flights'[q][d] = flights[q][d]
        /\ flights' \in [Processes -> [Calls -> Flights]]
    BY <1>1, <2>2, <2>3, OneCall
  <2>5. leader'[p] = c /\ (\A q \in Processes : q # p => leader'[q] = leader[q]) /\ leader' \in [Processes -> Calls \union {NoLeader}]
    BY <1>1, <1>5
  <2>6. CliTypes'
    BY <1>3, <2>4, <2>5 DEF CliInv, CliTypes, Issued
  <2>7. OneFlight' /\ OwnTokensGood'
    BY <2>1, <2>4, <2>5 DEF CliInv, OneFlight, OwnTokensGood
  <2>8. \A q \in Processes, d \in Calls : flights'[q][d].answer = flights[q][d].answer
    BY <2>1, <2>4 DEF NoFlight
  <2>9. AnswersNew'
    BY <2>8 DEF CliInv, AnswersNew, Issued
  <2>10. SpentKnown'
    <3>1. \A q \in Processes, d \in Calls : \A t : Spends(q, d, t) => Spends(q, d, t)'
      BY <2>1, <2>4 DEF Spends, NoFlight
    <3> QED BY <3>1 DEF CliInv, SpentKnown
  <2> QED BY <2>6, <2>7, <2>9, <2>10 DEF CliInv
<1> QED
  BY <1>4, <1>5 DEF Refresh

\* Requests and their answers keep it.
LEMMA CallsStep == ASSUME CliInv, NEW p \in Processes, NEW c \in Calls, Request(p, c) \/ CallAnswered(p, c) PROVE CliInv'
<1>1. /\ calls \in [Processes -> [Calls -> CliRequests]] /\ clientOf \in [Processes -> CliClients]
      /\ \A q \in Processes, d \in Calls : calls[q][d].step # "idle" => clientOf[q] # NoClient
  BY DEF CliInv, CliTypes
<1>2. clientOf[p] # NoClient /\ UNCHANGED <<credFile, clientOf, spentBy, lostTokens, selfRefused>>
  BY <1>1 DEF Request, CallAnswered
<1>3. CASE Refresh(p, c, "before") \/ Refresh(p, c, "after")
  BY <1>2, <1>3, RefreshStep
<1>4. CASE UNCHANGED <<leader, flights>> /\ \E x \in CliRequests : calls' = [calls EXCEPT ![p] = [calls[p] EXCEPT ![c] = x]]
  <2>1. PICK x \in CliRequests : calls' = [calls EXCEPT ![p] = [calls[p] EXCEPT ![c] = x]]
    BY <1>4
  <2>2. /\ calls' \in [Processes -> [Calls -> CliRequests]]
        /\ \A q \in Processes, d \in Calls : q # p \/ d # c => calls'[q][d] = calls[q][d]
    BY <1>1, <2>1, OneCall
  <2>3. \A q \in Processes, d \in Calls : calls'[q][d].step # "idle" => clientOf[q] # NoClient
    BY <1>1, <1>2, <2>2
  <2> QED
    BY <1>1, <1>2, <1>4, <2>2, <2>3, CallsMove
<1>5. IdleCall \in CliRequests /\ [calls[p][c] EXCEPT !.step = "sent"] \in CliRequests
  BY <1>1 DEF IdleCall, CliRequests
<1>6. [calls EXCEPT ![p][c].step = "sent"] = [calls EXCEPT ![p] = [calls[p] EXCEPT ![c] = [calls[p][c] EXCEPT !.step = "sent"]]]
  OBVIOUS
<1>7. [calls EXCEPT ![p][c] = IdleCall] = [calls EXCEPT ![p] = [calls[p] EXCEPT ![c] = IdleCall]]
  OBVIOUS
<1> QED
  BY <1>3, <1>4, <1>5, <1>6, <1>7 DEF Request, CallAnswered

\* A renewal that is over leaves its process without one.
RenewalEnds(p, c) ==
    /\ leader[p] = c /\ clientOf[p] # NoClient /\ flights[p][c].token = clientOf[p].token
    /\ leader'[p] = NoLeader /\ (\A q \in Processes : q # p => leader'[q] = leader[q])
    /\ leader' \in [Processes -> Calls \union {NoLeader}]
    /\ \A d \in Calls : flights'[p][d] = NoFlight
    /\ \A q \in Processes : q # p => flights'[q] = flights[q]
    /\ flights' \in [Processes -> [Calls -> Flights]]
    /\ \A d \in Calls : d # c => flights[p][d] = NoFlight
    /\ calls' \in [Processes -> [Calls -> CliRequests]]
    /\ \A q \in Processes, d \in Calls : calls'[q][d].step # "idle" => clientOf[q] # NoClient

\* After a renewal its process has none.
LEMMA OverIs ==
  ASSUME CliInv, NEW p \in Processes, NEW c \in Calls, flights[p][c] # NoFlight,
         NEW before \in {"idle", "sent"}, NEW after \in {"idle", "resent"}, Over(p, c, before, after)
  PROVE  RenewalEnds(p, c)
<1>1. /\ leader \in [Processes -> Calls \union {NoLeader}] /\ flights \in [Processes -> [Calls -> Flights]]
      /\ calls \in [Processes -> [Calls -> CliRequests]]
      /\ \A q \in Processes, d \in Calls : calls[q][d].step # "idle" => clientOf[q] # NoClient
  BY DEF CliInv, CliTypes
<1>2. /\ leader[p] = c /\ clientOf[p] # NoClient /\ flights[p][c].token = clientOf[p].token
      /\ \A d \in Calls : d # c => flights[p][d] = NoFlight
  BY DEF CliInv, OneFlight
<1>3. /\ leader'[p] = NoLeader /\ (\A q \in Processes : q # p => leader'[q] = leader[q])
      /\ leader' \in [Processes -> Calls \union {NoLeader}]
  BY <1>1 DEF Over
<1>4. /\ \A d \in Calls : flights'[p][d] = NoFlight
      /\ \A q \in Processes : q # p => flights'[q] = flights[q]
      /\ flights' \in [Processes -> [Calls -> Flights]]
  <2>1. flights' = [flights EXCEPT ![p] = [flights[p] EXCEPT ![c] = NoFlight]]
    BY DEF Over
  <2>2. NoFlight \in Flights
    BY DEF NoFlight, Flights
  <2> QED
    BY <1>1, <1>2, <2>1, <2>2
<1>5. PICK g \in [Calls -> CliRequests] : calls' = [calls EXCEPT ![p] = g]
  <2> DEFINE g == [k \in Calls |-> IF calls[p][k].on # c THEN calls[p][k]
                      ELSE [step |-> IF calls[p][k].step = "before" THEN before ELSE after, on |-> NoLeader]]
  <2>1. calls' = [calls EXCEPT ![p] = g]
    BY DEF Over
  <2>2. ASSUME NEW k \in Calls PROVE g[k] \in CliRequests
    BY <1>1 DEF CliRequests
  <2> QED
    BY <2>1, <2>2
<1>6. /\ calls' \in [Processes -> [Calls -> CliRequests]]
      /\ \A q \in Processes, d \in Calls : calls'[q][d].step # "idle" => clientOf[q] # NoClient
  BY <1>1, <1>2, <1>5
<1> QED
  BY <1>2, <1>3, <1>4, <1>6 DEF RenewalEnds

\* Whoever was answered nothing, or refused, was not on the way to spend.
LEMMA GivesUpStep ==
  ASSUME CliInv, NEW p \in Processes, NEW c \in Calls, RenewalRefused(p, c) \/ RenewalLost(p, c)
  PROVE  CliInv'
<1>1. flights[p][c] # NoFlight
  BY DEF RenewalRefused, RenewalLost, NoFlight, Refusal
<1>2. /\ UNCHANGED <<credFile, clientOf, spentBy, selfRefused>>
      /\ \E before \in {"idle", "sent"}, after \in {"idle", "resent"} : Over(p, c, before, after)
  BY DEF RenewalRefused, RenewalLost
<1>3. RenewalEnds(p, c)
  BY <1>1, <1>2, OverIs
<1> DEFINE t == clientOf[p].token
<1>4. /\ lostTokens \subseteq lostTokens' /\ lostTokens' \subseteq 1 .. Issued
      /\ Spends(p, c, t) => t \in lostTokens'
  <2>1. lostTokens \subseteq 1 .. Issued /\ t \in 0 .. Issued /\ flights[p][c].token = t /\ Issued \in Nat
    BY <1>1, <1>3 DEF RenewalEnds, CliInv, CliTypes, CliClients
  <2>2. CASE RenewalRefused(p, c)
    BY <2>1, <2>2 DEF RenewalRefused, Spends, Refusal
  <2>3. CASE RenewalLost(p, c)
    <3>1. lostTokens' = lostTokens \union (Unissued(p) \cap {t}) /\ t # 0
      BY <2>1, <2>3 DEF RenewalLost
    <3>2. flights[p][c].answer > 0 => t \in Unissued(p)
      BY <2>1 DEF Unissued
    <3>3. Spends(p, c, t) => t \in lostTokens'
      BY <3>1, <3>2 DEF Spends
    <3>4. t \in 1 .. Issued
      BY <2>1, <3>1
    <3>5. lostTokens \subseteq lostTokens' /\ lostTokens' \subseteq lostTokens \union {t}
      BY <3>1
    <3> HIDE DEF t
    <3> QED
      BY <2>1, <3>3, <3>4, <3>5
  <2> QED BY <2>2, <2>3
<1>5. Issued' = Issued
  BY <1>2 DEF Issued
<1>6. CliTypes'
  BY <1>1, <1>2, <1>3, <1>4, <1>5 DEF RenewalEnds, CliInv, CliTypes
<1>7. OneFlight' /\ OwnTokensGood'
  <2>1. leader'[p] \notin Calls
    BY <1>1, <1>3, SignConstants DEF NoLeader, RenewalEnds
  <2>2. OneFlight'
    BY <1>2, <1>3, <2>1 DEF RenewalEnds, CliInv, OneFlight
  <2> QED
    BY <1>2, <2>2 DEF CliInv, OwnTokensGood
<1>8. AnswersNew'
  <2>1. NoFlight.answer = 0
    BY DEF NoFlight
  <2>2. SUFFICES ASSUME NEW q \in Processes, NEW d \in Calls, NEW a, a = flights'[q][d].answer, a # Refusal, a # 0
                 PROVE  /\ a \in 1 .. Issued' /\ spentBy'[a] = NobodyIn /\ credFile'.token # a
                        /\ \A r \in Processes : clientOf'[r].token # a
                        /\ \A r \in Processes, e \in Calls : flights'[r][e].answer = a => r = q /\ e = d
    BY DEF AnswersNew
  <2>3. q # p /\ flights'[q][d] = flights[q][d]
    BY <1>3, <2>1, <2>2 DEF RenewalEnds
  <2>4. /\ a \in 1 .. Issued /\ spentBy[a] = NobodyIn /\ credFile.token # a
        /\ \A r \in Processes : clientOf[r].token # a
        /\ \A r \in Processes, e \in Calls : flights[r][e].answer = a => r = q /\ e = d
    BY <2>2, <2>3 DEF CliInv, AnswersNew
  <2>5. \A r \in Processes, e \in Calls : flights'[r][e].answer = a => flights[r][e].answer = a
    BY <1>3, <2>1, <2>2 DEF RenewalEnds
  <2> QED
    BY <1>2, <1>5, <2>4, <2>5
<1>9. SpentKnown'
  <2>1. \A d \in Calls : \A u : Spends(p, d, u) => d = c /\ u = t
    BY <1>1, <1>3 DEF RenewalEnds, Spends, NoFlight
  <2>2. \A q \in Processes, d \in Calls : \A u : Spends(q, d, u) => Spends(q, d, u)' \/ u \in lostTokens'
    BY <1>1, <1>3, <1>4, <2>1 DEF RenewalEnds, Spends
  <2> QED
    BY <1>2, <1>4, <2>2 DEF CliInv, SpentKnown
<1> QED BY <1>6, <1>7, <1>8, <1>9 DEF CliInv

\* A client's record with another staleness.
LEMMA NotStale ==
  ASSUME NEW S, NEW T, NEW v, NEW x \in [user : S, token : Nat, stale : T]
  PROVE  [x EXCEPT !.stale = v] = [user |-> x.user, token |-> x.token, stale |-> v]
  OBVIOUS

\* A client's record with its next token.
LEMMA NewToken ==
  ASSUME NEW x \in CliClients, NEW n \in Nat
  PROVE  [x EXCEPT !.token = n, !.stale = FALSE] = [user |-> x.user, token |-> n, stale |-> FALSE]
<1>1. PICK y : y = [x EXCEPT !.token = n]
  OBVIOUS
<1>2. y \in CliClients /\ y.user = x.user /\ y.token = n
  BY <1>1 DEF CliClients
<1>3. [y EXCEPT !.stale = FALSE] = [user |-> y.user, token |-> y.token, stale |-> FALSE]
  <2>1. \A T, v : y \in [user : CliUsers \union {NobodyIn}, token : Nat, stale : T] =>
           [y EXCEPT !.stale = v] = [user |-> y.user, token |-> y.token, stale |-> v]
    BY NotStale
  <2> QED BY <1>2, <2>1, Zenon DEF CliClients
<1>4. [y EXCEPT !.stale = FALSE] = [user |-> x.user, token |-> n, stale |-> FALSE]
  BY <1>2, <1>3
<1> QED BY <1>1, <1>4, Zenon

\* A renewal answered hands the next token to the client and to the file.
LEMMA DoneStep == ASSUME CliInv, NEW p \in Processes, NEW c \in Calls, RenewalDone(p, c) PROVE CliInv'
<1> DEFINE n == flights[p][c].answer
<1>1. n > 0 /\ flights[p][c] # NoFlight /\ Over(p, c, "sent", "resent") /\ n # 0 /\ n # Refusal
  BY DEF RenewalDone, NoFlight, Refusal
<1>0. RenewalEnds(p, c)
  BY <1>1, OverIs
<1>2. /\ n \in 1 .. Issued /\ spentBy[n] = NobodyIn
      /\ \A q \in Processes, d \in Calls : flights[q][d].answer = n => q = p /\ d = c
  BY <1>1 DEF CliInv, AnswersNew
<1>3. /\ clientOf \in [Processes -> CliClients] /\ credFile \in Credentials /\ Issued \in Nat
  BY DEF CliInv, CliTypes
<1>4. clientOf' = [clientOf EXCEPT ![p] = [user |-> clientOf[p].user, token |-> n, stale |-> FALSE]]
  <2>1. [clientOf[p] EXCEPT !.token = n, !.stale = FALSE] = [user |-> clientOf[p].user, token |-> n, stale |-> FALSE]
    <3>1. n \in Nat /\ clientOf[p] \in CliClients
      BY <1>2, <1>3
    <3> HIDE DEF n
    <3> QED BY <3>1, NewToken
  <2>2. clientOf' = [clientOf EXCEPT ![p] = [clientOf[p] EXCEPT !.token = n, !.stale = FALSE]]
    BY DEF RenewalDone
  <2> QED BY <2>1, <2>2
<1>5. credFile' = [user |-> clientOf[p].user, token |-> n] /\ UNCHANGED <<spentBy, lostTokens, selfRefused>>
  BY DEF RenewalDone
<1> HIDE DEF n
<1>6. /\ clientOf' \in [Processes -> CliClients] /\ clientOf'[p].token = n /\ clientOf'[p] # NoClient
      /\ \A q \in Processes : q # p => clientOf'[q] = clientOf[q]
  <2>1. [user |-> clientOf[p].user, token |-> n, stale |-> FALSE] \in CliClients
    BY <1>2, <1>3 DEF CliClients
  <2> QED
    BY <1>2, <1>3, <1>4, <2>1 DEF NoClient
<1>7. credFile' \in Credentials /\ credFile'.token = n
  BY <1>2, <1>3, <1>5 DEF Credentials, CliClients
<1>8. Issued' = Issued
  BY <1>5 DEF Issued
<1>9. CliTypes'
  <2>1. clientOf'[p].token <= Issued' /\ clientOf'[p].token > 0 /\ credFile'.token <= Issued' /\ credFile'.token > 0
    BY <1>2, <1>3, <1>6, <1>7, <1>8
  <2>2. \A q \in Processes : clientOf'[q].token <= Issued' /\ (clientOf'[q] # NoClient => clientOf'[q].token > 0)
    BY <1>6, <1>8, <2>1 DEF CliInv, CliTypes
  <2>3. \A q \in Processes, d \in Calls : calls'[q][d].step # "idle" => clientOf'[q] # NoClient
    BY <1>0, <1>6 DEF RenewalEnds
  <2>4. /\ leader' \in [Processes -> Calls \union {NoLeader}] /\ flights' \in [Processes -> [Calls -> Flights]]
        /\ calls' \in [Processes -> [Calls -> CliRequests]]
    BY <1>0 DEF RenewalEnds
  <2> QED
    BY <1>5, <1>6, <1>7, <1>8, <2>1, <2>2, <2>3, <2>4 DEF CliInv, CliTypes
<1>10. OneFlight' /\ OwnTokensGood'
  <2>1. leader'[p] \notin Calls
    BY <1>0, SignConstants DEF NoLeader, RenewalEnds
  <2> QED
    BY <1>0, <1>5, <1>6, <2>1 DEF CliInv, OneFlight, OwnTokensGood, RenewalEnds
<1>11. AnswersNew'
  <2>1. NoFlight.answer = 0
    BY DEF NoFlight
  <2>2. SUFFICES ASSUME NEW q \in Processes, NEW d \in Calls, NEW a, a = flights'[q][d].answer, a # Refusal, a # 0
                 PROVE  /\ a \in 1 .. Issued' /\ spentBy'[a] = NobodyIn /\ credFile'.token # a
                        /\ \A r \in Processes : clientOf'[r].token # a
                        /\ \A r \in Processes, e \in Calls : flights'[r][e].answer = a => r = q /\ e = d
    BY DEF AnswersNew
  <2>3. q # p /\ flights'[q][d] = flights[q][d]
    BY <1>0, <2>1, <2>2 DEF RenewalEnds
  <2>4. a # n
    BY <1>2, <2>2, <2>3
  <2>5. /\ a \in 1 .. Issued /\ spentBy[a] = NobodyIn
        /\ \A r \in Processes : clientOf[r].token # a
        /\ \A r \in Processes, e \in Calls : flights[r][e].answer = a => r = q /\ e = d
    BY <2>2, <2>3 DEF CliInv, AnswersNew
  <2>6. \A r \in Processes, e \in Calls : flights'[r][e].answer = a => flights[r][e].answer = a
    BY <1>0, <2>1, <2>2 DEF RenewalEnds
  <2> QED
    BY <1>5, <1>6, <1>7, <1>8, <2>4, <2>5, <2>6
<1>12. SpentKnown'
  <2>1. \A q \in Processes : q # p => \A d \in Calls : \A u : Spends(q, d, u) => Spends(q, d, u)'
    BY <1>0 DEF Spends, RenewalEnds
  <2>2. \A q \in Processes : q # NobodyIn
    BY SignConstants
  <2> QED
    BY <1>2, <1>5, <1>6, <1>7, <2>1, <2>2 DEF CliInv, SpentKnown
<1> QED BY <1>9, <1>10, <1>11, <1>12 DEF CliInv

\* A process that ends takes its renewals with it: their answers are lost.
LEMMA ExitStep == ASSUME CliInv, NEW p \in Processes, Exit(p) PROVE CliInv'
<1>1. /\ clientOf \in [Processes -> CliClients] /\ Issued \in Nat /\ lostTokens \subseteq 1 .. Issued
      /\ leader \in [Processes -> Calls \union {NoLeader}] /\ flights \in [Processes -> [Calls -> Flights]]
      /\ calls \in [Processes -> [Calls -> CliRequests]] /\ UNCHANGED <<credFile, spentBy, selfRefused>>
      /\ clientOf[p].token \in 1 .. Issued
  BY DEF CliInv, CliTypes, Exit, CliClients
<1>2. /\ NoClient \in CliClients /\ NoFlight \in Flights /\ IdleCall \in CliRequests /\ IdleCall.step = "idle"
      /\ NoClient.token = 0 /\ NoFlight.answer = 0
  BY DEF NoClient, CliClients, NoFlight, Flights, IdleCall, CliRequests
<1>3. /\ clientOf' \in [Processes -> CliClients] /\ clientOf'[p] = NoClient
      /\ leader' \in [Processes -> Calls \union {NoLeader}] /\ leader'[p] = NoLeader
      /\ flights' \in [Processes -> [Calls -> Flights]] /\ calls' \in [Processes -> [Calls -> CliRequests]]
      /\ \A d \in Calls : flights'[p][d] = NoFlight /\ calls'[p][d] = IdleCall
      /\ \A q \in Processes : q # p => /\ clientOf'[q] = clientOf[q] /\ leader'[q] = leader[q]
                                       /\ flights'[q] = flights[q] /\ calls'[q] = calls[q]
  BY <1>1, <1>2 DEF Exit
<1>4. \A d \in Calls : flights[p][d].token # 0 => flights[p][d].token = clientOf[p].token
  BY DEF CliInv, OneFlight, NoFlight
<1>5. /\ lostTokens' = lostTokens \union Unissued(p) /\ lostTokens' \subseteq 1 .. Issued
      /\ \A d \in Calls : \A u : Spends(p, d, u) => u \in lostTokens'
  <2>1. \A d \in Calls : flights[p][d].answer > 0 => flights[p][d].token = clientOf[p].token
    BY DEF CliInv, OneFlight, NoFlight
  <2>2. lostTokens' = lostTokens \union Unissued(p)
    BY DEF Exit
  <2>3. Unissued(p) \subseteq 1 .. Issued
    BY <1>1, <2>1 DEF Unissued
  <2>4. \A d \in Calls : \A u : Spends(p, d, u) => u \in Unissued(p)
    BY DEF Spends, Unissued
  <2> QED BY <1>1, <2>2, <2>3, <2>4
<1>6. Issued' = Issued
  BY <1>1 DEF Issued
<1>7. CliTypes'
  <2>0. \A q \in Processes : clientOf[q].token <= Issued /\ (clientOf[q] # NoClient => clientOf[q].token > 0)
    BY DEF CliInv, CliTypes
  <2>1. \A q \in Processes : clientOf'[q].token <= Issued' /\ (clientOf'[q] # NoClient => clientOf'[q].token > 0)
    <3> SUFFICES ASSUME NEW q \in Processes
                 PROVE  clientOf'[q].token <= Issued' /\ (clientOf'[q] # NoClient => clientOf'[q].token > 0)
      OBVIOUS
    <3>1. CASE q = p
      BY <1>1, <1>2, <1>3, <1>6, <3>1
    <3>2. CASE q # p
      BY <1>3, <1>6, <2>0, <3>2
    <3> QED BY <3>1, <3>2
  <2>2. \A q \in Processes, d \in Calls : calls'[q][d].step # "idle" => clientOf'[q] # NoClient
    BY <1>2, <1>3 DEF CliInv, CliTypes
  <2> QED
    BY <1>1, <1>3, <1>5, <1>6, <2>1, <2>2 DEF CliInv, CliTypes
<1>8. OneFlight' /\ OwnTokensGood'
  <2>1. leader'[p] \notin Calls
    BY <1>3, SignConstants DEF NoLeader
  <2> QED
    BY <1>1, <1>3, <2>1 DEF CliInv, OneFlight, OwnTokensGood
<1>9. AnswersNew'
  <2>1. SUFFICES ASSUME NEW q \in Processes, NEW d \in Calls, NEW a, a = flights'[q][d].answer, a # Refusal, a # 0
                 PROVE  /\ a \in 1 .. Issued' /\ spentBy'[a] = NobodyIn /\ credFile'.token # a
                        /\ \A r \in Processes : clientOf'[r].token # a
                        /\ \A r \in Processes, e \in Calls : flights'[r][e].answer = a => r = q /\ e = d
    BY DEF AnswersNew
  <2>2. q # p /\ flights'[q][d] = flights[q][d]
    BY <1>2, <1>3, <2>1
  <2>3. /\ a \in 1 .. Issued /\ spentBy[a] = NobodyIn /\ credFile.token # a
        /\ \A r \in Processes : clientOf[r].token # a
        /\ \A r \in Processes, e \in Calls : flights[r][e].answer = a => r = q /\ e = d
    BY <2>1, <2>2 DEF CliInv, AnswersNew
  <2>4. \A r \in Processes, e \in Calls : flights'[r][e].answer = a => flights[r][e].answer = a
    BY <1>2, <1>3, <2>1
  <2> QED
    BY <1>1, <1>2, <1>3, <1>6, <2>1, <2>3, <2>4
<1>10. SpentKnown'
  <2>1. \A q \in Processes, d \in Calls : \A u : Spends(q, d, u) => Spends(q, d, u)' \/ u \in lostTokens'
    BY <1>3, <1>5 DEF Spends
  <2>2. \A q \in Processes : clientOf'[q].token # 0 => clientOf'[q] = clientOf[q]
    BY <1>2, <1>3
  <2> QED
    BY <1>1, <1>5, <2>1, <2>2 DEF CliInv, SpentKnown
<1> QED BY <1>7, <1>8, <1>9, <1>10 DEF CliInv

\* The server takes a token once, and issues the next.
LEMMA RenewStep == ASSUME CliInv, NEW p \in Processes, NEW c \in Calls, Renew(p, c) PROVE CliInv'
<1> DEFINE t == flights[p][c].token
<1>1. /\ clientOf \in [Processes -> CliClients] /\ Issued \in Nat /\ lostTokens \subseteq 1 .. Issued
      /\ flights \in [Processes -> [Calls -> Flights]] /\ spentBy \in Seq(Processes \union {NobodyIn})
      /\ UNCHANGED <<credFile, clientOf, leader, calls, lostTokens>>
      /\ credFile \in Credentials /\ credFile.token <= Issued /\ \A q \in Processes : clientOf[q].token <= Issued
  BY DEF CliInv, CliTypes, Renew
<1>2. t # 0 /\ flights[p][c].answer = 0 /\ flights[p][c] # NoFlight
  BY DEF Renew, NoFlight
<1>3. leader[p] = c /\ t = clientOf[p].token /\ t \in 1 .. Issued
      /\ \A d \in Calls : d # c => flights[p][d] = NoFlight
  <2>1. leader[p] = c /\ t = clientOf[p].token /\ \A d \in Calls : d # c => flights[p][d] = NoFlight
    BY <1>2 DEF CliInv, OneFlight
  <2>2. clientOf[p].token \in Nat
    BY <1>1 DEF CliClients
  <2> QED BY <1>1, <1>2, <2>1, <2>2
<1>4. \A d \in Calls : \A u : ~Spends(p, d, u)
  BY <1>2, <1>3 DEF Spends, NoFlight
<1>5. spentBy[t] = p => t \in lostTokens
  BY <1>2, <1>3, <1>4 DEF CliInv, SpentKnown
<1>6. ASSUME NEW answer \in Int, answer # 0, flights' = [flights EXCEPT ![p][c].answer = answer]
      PROVE  /\ flights' \in [Processes -> [Calls -> Flights]] /\ flights'[p][c] = [token |-> t, answer |-> answer]
             /\ \A q \in Processes, d \in Calls : q # p \/ d # c => flights'[q][d] = flights[q][d]
  <2>1. [flights[p][c] EXCEPT !.answer = answer] = [token |-> t, answer |-> answer]
    BY <1>1 DEF Flights
  <2>2. flights' = [flights EXCEPT ![p] = [flights[p] EXCEPT ![c] = [flights[p][c] EXCEPT !.answer = answer]]]
    BY <1>6
  <2>3. [token |-> t, answer |-> answer] \in Flights
    BY <1>1, <1>3, <1>6 DEF Flights
  <2> QED
    BY <1>1, <2>1, <2>2, <2>3, OneCall
<1> HIDE DEF t
<1>7. CASE spentBy[t] # NobodyIn
  <2>1. /\ flights' = [flights EXCEPT ![p][c].answer = Refusal] /\ UNCHANGED spentBy
        /\ selfRefused' = (selfRefused \/ (spentBy[t] = p /\ t \notin lostTokens))
    BY <1>7 DEF Renew, t
  <2>2. selfRefused' = FALSE
    BY <1>5, <2>1 DEF CliInv, OwnTokensGood
  <2>3. /\ flights' \in [Processes -> [Calls -> Flights]] /\ flights'[p][c] = [token |-> t, answer |-> Refusal]
        /\ \A q \in Processes, d \in Calls : q # p \/ d # c => flights'[q][d] = flights[q][d]
    BY <1>6, <2>1, Refusal \in Int /\ Refusal # 0 DEF Refusal
  <2>4. CliTypes'
    BY <1>1, <2>1, <2>2, <2>3 DEF CliInv, CliTypes, Issued
  <2>5. OneFlight' /\ OwnTokensGood'
    BY <1>1, <1>3, <2>2, <2>3 DEF CliInv, OneFlight, OwnTokensGood
  <2>6. AnswersNew'
    <3>1. \A q \in Processes, d \in Calls : flights'[q][d].answer # Refusal => flights'[q][d] = flights[q][d]
      BY <2>3
    <3>2. \A q \in Processes, d \in Calls : \A a : a # 0 /\ a # Refusal /\ flights'[q][d].answer = a => flights[q][d].answer = a
      BY <3>1
    <3> QED
      BY <1>1, <2>1, <3>1, <3>2 DEF CliInv, AnswersNew, Issued
  <2>7. SpentKnown'
    <3>1. \A q \in Processes, d \in Calls : \A u : Spends(q, d, u) => Spends(q, d, u)'
      BY <1>4, <2>3 DEF Spends
    <3> QED
      BY <1>1, <2>1, <3>1 DEF CliInv, SpentKnown
  <2> QED BY <2>4, <2>5, <2>6, <2>7 DEF CliInv
<1>8. CASE spentBy[t] = NobodyIn
  <2>1. /\ spentBy' = Append([spentBy EXCEPT ![t] = p], NobodyIn)
        /\ flights' = [flights EXCEPT ![p][c].answer = Len(spentBy')] /\ UNCHANGED selfRefused
    BY <1>8 DEF Renew, t
  <2>2. /\ [spentBy EXCEPT ![t] = p] \in Seq(Processes \union {NobodyIn})
        /\ Len([spentBy EXCEPT ![t] = p]) = Issued
        /\ \A j \in 1 .. Issued : [spentBy EXCEPT ![t] = p][j] = IF j = t THEN p ELSE spentBy[j]
    BY <1>1, <1>3, ExceptSeq DEF Issued
  <2>3. /\ spentBy' \in Seq(Processes \union {NobodyIn}) /\ Issued' = Issued + 1
        /\ spentBy'[Issued + 1] = NobodyIn
        /\ \A j \in 1 .. Issued : spentBy'[j] = IF j = t THEN p ELSE spentBy[j]
    <3> DEFINE s == [spentBy EXCEPT ![t] = p]
    <3>1. s \in Seq(Processes \union {NobodyIn}) /\ Len(s) = Issued /\ spentBy' = Append(s, NobodyIn)
      BY <2>1, <2>2
    <3>2. \A j \in 1 .. Issued : s[j] = IF j = t THEN p ELSE spentBy[j]
      BY <2>2
    <3> HIDE DEF s
    <3> QED
      BY <3>1, <3>2, TokenIssued DEF Issued
  <2>4. /\ flights' \in [Processes -> [Calls -> Flights]] /\ flights'[p][c] = [token |-> t, answer |-> Issued + 1]
        /\ \A q \in Processes, d \in Calls : q # p \/ d # c => flights'[q][d] = flights[q][d]
    <3>1. flights' = [flights EXCEPT ![p][c].answer = Issued + 1]
      BY <2>1, <2>3 DEF Issued
    <3>2. Issued + 1 \in Int /\ Issued + 1 # 0
      BY <1>1
    <3> QED BY <1>6, <3>1, <3>2
  <2>5. CliTypes'
    <3>1. Issued' \in Nat /\ lostTokens' \subseteq 1 .. Issued' /\ credFile'.token <= Issued'
          /\ \A q \in Processes : clientOf'[q].token <= Issued'
      BY <1>1, <2>3 DEF CliClients, Credentials
    <3> QED
      BY <1>1, <2>1, <2>3, <2>4, <3>1 DEF CliInv, CliTypes
  <2>6. OneFlight' /\ OwnTokensGood'
    BY <1>1, <1>3, <2>1, <2>4 DEF CliInv, OneFlight, OwnTokensGood
  <2>7. AnswersNew'
    <3>1. SUFFICES ASSUME NEW q \in Processes, NEW d \in Calls, NEW a, a = flights'[q][d].answer, a # Refusal, a # 0
                   PROVE  /\ a \in 1 .. Issued' /\ spentBy'[a] = NobodyIn /\ credFile'.token # a
                          /\ \A r \in Processes : clientOf'[r].token # a
                          /\ \A r \in Processes, e \in Calls : flights'[r][e].answer = a => r = q /\ e = d
      BY DEF AnswersNew
    <3>2. \A r \in Processes, e \in Calls : flights[r][e].answer \in Int /\ flights[r][e].answer <= Issued
      <4>1. \A r \in Processes, e \in Calls : flights[r][e].answer \in Int
        BY <1>1 DEF Flights
      <4>2. \A r \in Processes, e \in Calls :
               flights[r][e].answer = Refusal \/ flights[r][e].answer = 0 \/ flights[r][e].answer \in 1 .. Issued
        BY DEF CliInv, AnswersNew
      <4>3. \A n \in Int : n = Refusal \/ n = 0 \/ n \in 1 .. Issued => n <= Issued
        BY <1>1 DEF Refusal
      <4> QED BY <4>1, <4>2, <4>3
    <3>3. CASE q = p /\ d = c
      <4>1. a = Issued + 1
        BY <2>4, <3>1, <3>3
      <4>2. \A r \in Processes, e \in Calls : flights'[r][e].answer = a => r = q /\ e = d
        BY <1>1, <2>4, <3>2, <3>3, <4>1
      <4>3. credFile'.token # a /\ \A r \in Processes : clientOf'[r].token # a
        BY <1>1, <4>1 DEF Credentials, CliClients
      <4> QED BY <1>1, <2>3, <4>1, <4>2, <4>3
    <3>4. CASE ~(q = p /\ d = c)
      <4>1. flights'[q][d] = flights[q][d]
        BY <2>4, <3>4
      <4>2. /\ a \in 1 .. Issued /\ spentBy[a] = NobodyIn /\ credFile.token # a
            /\ \A r \in Processes : clientOf[r].token # a
            /\ \A r \in Processes, e \in Calls : flights[r][e].answer = a => r = q /\ e = d
        BY <3>1, <4>1 DEF CliInv, AnswersNew
      <4>3. a # t /\ a # Issued + 1
        BY <1>1, <1>3, <4>2
      <4>4. \A r \in Processes, e \in Calls : flights'[r][e].answer = a => flights[r][e].answer = a
        BY <2>4, <4>3
      <4> QED BY <1>1, <2>3, <4>2, <4>3, <4>4
    <3> QED BY <3>3, <3>4
  <2>8. SpentKnown'
    <3>1. \A q \in Processes, d \in Calls : \A u : Spends(q, d, u) => Spends(q, d, u)'
      BY <1>4, <2>4 DEF Spends
    <3>2. flights'[p][c].token = t /\ flights'[p][c].answer > 0
      BY <1>1, <2>4
    <3>3. \A u \in 1 .. Issued, q \in Processes : spentBy'[u] = q => spentBy[u] = q \/ (u = t /\ q = p)
      BY <2>3
    <3>4. credFile.token \in 0 .. Issued /\ \A q \in Processes : clientOf[q].token \in 0 .. Issued
      BY <1>1 DEF Credentials, CliClients
    <3>5. \A u \in 1 .. Issued, q \in Processes :
             (u \in lostTokens \/ \E d \in Calls : Spends(q, d, u)) => (u \in lostTokens' \/ \E d \in Calls : Spends(q, d, u)')
      BY <1>1, <3>1
    <3>6. \A u \in 1 .. Issued, q \in Processes :
             (spentBy[u] = q => u \in lostTokens \/ \E d \in Calls : Spends(q, d, u))
             => (spentBy'[u] = q => u \in lostTokens' \/ \E d \in Calls : Spends(q, d, u)')
      <4> SUFFICES ASSUME NEW u \in 1 .. Issued, NEW q \in Processes,
                          spentBy[u] = q => u \in lostTokens \/ \E d \in Calls : Spends(q, d, u), spentBy'[u] = q
                   PROVE  u \in lostTokens' \/ \E d \in Calls : Spends(q, d, u)'
        OBVIOUS
      <4>1. CASE spentBy[u] = q
        BY <3>5, <4>1
      <4>2. CASE u = t /\ q = p
        BY <3>2, <4>2 DEF Spends
      <4> QED BY <3>3, <4>1, <4>2
    <3>7. \A q \in Processes : clientOf'[q].token # 0 /\ spentBy'[clientOf'[q].token] = q =>
             clientOf'[q].token \in lostTokens' \/ \E d \in Calls : Spends(q, d, clientOf[q].token)'
      <4> SUFFICES ASSUME NEW q \in Processes, clientOf[q].token # 0, spentBy'[clientOf[q].token] = q
                   PROVE  clientOf[q].token \in lostTokens' \/ \E d \in Calls : Spends(q, d, clientOf[q].token)'
        BY <1>1
      <4>1. clientOf[q].token \in 1 .. Issued
        BY <3>4
      <4>2. spentBy[clientOf[q].token] = q => clientOf[q].token \in lostTokens \/ \E d \in Calls : Spends(q, d, clientOf[q].token)
        BY DEF CliInv, SpentKnown
      <4> QED BY <1>1, <3>6, <4>1, <4>2
    <3>8. \A q \in Processes : credFile'.token # 0 /\ spentBy'[credFile'.token] = q =>
             credFile'.token \in lostTokens' \/ \E d \in Calls : Spends(q, d, credFile.token)'
      <4> SUFFICES ASSUME NEW q \in Processes, credFile.token # 0, spentBy'[credFile.token] = q
                   PROVE  credFile.token \in lostTokens' \/ \E d \in Calls : Spends(q, d, credFile.token)'
        BY <1>1
      <4>1. credFile.token \in 1 .. Issued
        BY <3>4
      <4>2. spentBy[credFile.token] = q => credFile.token \in lostTokens \/ \E d \in Calls : Spends(q, d, credFile.token)
        BY DEF CliInv, SpentKnown
      <4> QED BY <1>1, <3>6, <4>1, <4>2
    <3> QED
      BY <3>7, <3>8 DEF SpentKnown
  <2> QED BY <2>5, <2>6, <2>7, <2>8 DEF CliInv
<1> QED BY <1>7, <1>8

\* No step breaks the invariant of the command.
LEMMA CliStep == CliInv /\ [CliNext]_cliVars => CliInv'
<1> SUFFICES ASSUME CliInv, [CliNext]_cliVars PROVE CliInv'
  OBVIOUS
<1>1. CASE UNCHANGED cliVars
  <2>1. UNCHANGED <<credFile, clientOf, leader, flights, calls, spentBy, lostTokens, selfRefused>>
    BY <1>1 DEF cliVars
  <2>2. CliTypes' /\ OneFlight' /\ OwnTokensGood'
    BY <2>1 DEF CliInv, CliTypes, OneFlight, OwnTokensGood, Issued
  <2>3. AnswersNew' /\ SpentKnown'
    BY <2>1 DEF CliInv, AnswersNew, SpentKnown, Spends, Issued
  <2> QED BY <2>2, <2>3 DEF CliInv
<1>2. CASE CliNext
  BY <1>2, SaveStep, LogoutStep, GetClientStep, ExpiresStep, ExitStep, CallsStep, RenewStep, DoneStep, GivesUpStep
     DEF CliNext
<1> QED BY <1>1, <1>2

\* It is enough.
LEMMA CliInvKeeps == CliInv => SessionsKept /\ CliTypeOK
<1> SUFFICES ASSUME CliInv PROVE SessionsKept /\ CliTypeOK
  OBVIOUS
<1>1. FileTokenGood
  <2> SUFFICES ASSUME credFile.token # 0, spentBy[credFile.token] # NobodyIn, credFile.token \notin lostTokens
               PROVE  \E p \in Processes, c \in Calls : flights[p][c].token = credFile.token
    BY DEF FileTokenGood
  <2>1. credFile.token \in 1 .. Issued /\ spentBy \in Seq(Processes \union {NobodyIn})
    BY DEF CliInv, CliTypes, Credentials
  <2>2. spentBy[credFile.token] \in Processes
    BY <2>1 DEF Issued
  <2> QED
    BY <2>2 DEF CliInv, SpentKnown, Spends
<1>2. CliTypeOK
  BY DEF CliInv, CliTypes, CliTypeOK, Issued, Credentials, CliClients, CliRequests
<1> QED BY <1>1, <1>2 DEF SessionsKept, CliInv

\* However many calls of however many processes find the session stale at once: no process is
\* refused a token that it spent itself, and the file holds one that the server takes, unless
\* its renewal is under way or the answer was lost (apps/cli).
THEOREM SessionsAreKept == CliSpec => []SessionsKept
<1>1. CliSpec => []CliInv
  BY CliStarts, CliStep, PTL DEF CliSpec
<1> QED BY <1>1, CliInvKeeps, PTL

-----------------------------------------------------------------------------
(* The vault.  Unless it is made anew or sealed with a wiped key there is   *)
(* one vault: every row that is or was, every key a client has in memory and*)
(* every put under way is of the same seal (OneVault), so what a late put   *)
(* writes opens like what it replaces; and while nobody writes from an old  *)
(* row all that a user was told is kept (WriteKeeps).                       *)

LegacyBlob == [key |-> ServerKey, keys |-> LegacyKeys]
HasSeal == stored.seal # NoSeal
OneVault == Spared({"remade", "wiped"})
Tokens(entries) == {e.tok : e \in entries}
KeptTokens == stored.blob.keys \union Tokens(stored.inbox)
PutFields == {"seal", "cipher", "blob", "base", "eaten", "first", "opened", "adds", "seen"}

\* A seal made here: its keys are numbered alike, and the data key in it may be a wiped one.
IsSeal(s) ==
    /\ DOMAIN s = {"dek", "pass", "rec", "box"}
    /\ s.rec \in 1 .. MaxSeals /\ s.box = s.rec /\ s.dek \in {Zeroed, s.rec}

\* A row as it is or was: without a seal it holds what the server's key sealed, or nothing.
RowOK(r) ==
    /\ DOMAIN r = {"seal", "blob", "inbox"}
    /\ IF r.seal = NoSeal THEN r.blob \in {NoBlob, LegacyBlob} /\ r.inbox = {}
       ELSE /\ IsSeal(r.seal) /\ (r.blob = NoBlob \/ r.blob.key \in 1 .. MaxSeals) /\ HasSeal
            /\ OneVault => /\ r.seal.rec = stored.seal.rec /\ r.seal.dek = r.seal.rec
                           /\ OpensUnder(r.blob, r.seal.rec) /\ \A e \in r.inbox : e.box = r.seal.rec

\* What a client sends when it makes a vault ...
FirstOK(p) ==
    \E n \in 1 .. MaxSeals :
        /\ p.seal = NewSeal(n) /\ p.opened = n /\ p.eaten = {} /\ p.adds = {}
        /\ p.cipher \in {"keep", "clear", "new"} /\ (p.cipher = "new" => p.blob = Sealed(n, LegacyKeys))

\* ... and what it sends later.
LaterOK(p) ==
    /\ p.opened \in 0 .. MaxSeals /\ p.cipher \in {"keep", "clear", "new"}
    /\ (p.opened # Zeroed \/ p.seal # NoSeal \/ p.cipher = "new") => HasSeal
    /\ (OneVault /\ p.opened # Zeroed) => p.opened = stored.seal.rec
    /\ p.seal # NoSeal => IsSeal(p.seal) /\ p.cipher = "keep" /\ (OneVault => p.seal.rec = stored.seal.rec)
    /\ IF p.cipher = "new"
       THEN /\ p.blob.key \in 1 .. MaxSeals /\ (OneVault => p.blob.key = stored.seal.rec)
            /\ p.adds \subseteq p.blob.keys
            /\ OpensUnder(p.base, p.blob.key) => p.base.keys \union Tokens(p.eaten) \subseteq p.blob.keys
       ELSE p.eaten = {} /\ p.adds = {}

PutOK(p) == DOMAIN p = PutFields /\ p.first \in BOOLEAN /\ (p.first => FirstOK(p)) /\ (~p.first => LaterOK(p))

ReadOK(p) ==
    /\ \E r : p.seen = <<r>> /\ RowOK(r)
    /\ (p.seal # NoSeal /\ p.cipher = "keep") => stored.blob # LegacyBlob

WrittenOK(p) ==
    /\ p.first => HasSeal /\ (OneVault => p.seal.rec = stored.seal.rec)
    /\ mishap = {} => p.adds \subseteq KeptTokens

NothingTold(p) == (p.first /\ p.cipher = "clear" /\ mishap = {} /\ ~HasSeal) => told = {}

ClientOK(x) ==
    /\ DOMAIN x = {"pc", "view", "dek", "put"}
    /\ x.dek \in 0 .. MaxSeals /\ (x.dek # Zeroed => HasSeal)
    /\ (OneVault /\ x.dek # Zeroed) => x.dek = stored.seal.rec
    /\ x.view = <<>> \/ \E r : x.view = <<r>> /\ RowOK(r)
    /\ PutOK(x.put) /\ NothingTold(x.put)
    /\ x.pc \in {"idle", "wrapping", "sent", "read", "written"}
    /\ x.pc \in {"idle", "wrapping"} => x.put = NoPut
    /\ x.pc = "wrapping" => \E r : /\ x.view = <<r>> /\ r.seal # NoSeal
                                   /\ x.dek \in {Zeroed, r.seal.dek}
    /\ x.pc = "read" => ReadOK(x.put)
    /\ x.pc = "written" => WrittenOK(x.put)

VaultInv ==
    /\ DOMAIN client = Clients /\ RowOK(stored)
    /\ \A c \in Clients : ClientOK(client[c])
    /\ linking = <<>> \/ \E l : linking = <<l>> /\ RowOK(l.seen) /\ l.seen.seal # NoSeal
    /\ OneVault => \A r \in shownKeys : HasSeal /\ r = stored.seal.rec
    /\ ~migration /\ ~HasSeal => told = {}
    /\ mishap = {} => told \subseteq KeptTokens
    /\ Spared({"overlap"}) => stored.seal.pass = lastPass
    /\ fresh \in Nat /\ mishap \subseteq Mishaps

\* A client with nothing to send.
LEMMA BlankPut == DOMAIN NoPut = PutFields /\ NoPut.first = FALSE /\ PutOK(NoPut) /\ NothingTold(NoPut)
<1>1. /\ DOMAIN NoPut = PutFields /\ NoPut.first = FALSE /\ NoPut.opened = 0 /\ NoPut.cipher = "keep"
      /\ NoPut.seal = NoSeal /\ NoPut.eaten = {} /\ NoPut.adds = {}
  BY DEF NoPut, PutFields, Zeroed
<1>2. LaterOK(NoPut)
  BY <1>1, VaultConstants DEF LaterOK, Zeroed
<1> QED BY <1>1, <1>2 DEF PutOK, NothingTold

\* There is no vault yet.
LEMMA VaultStarts == VaultInit => VaultInv
<1> SUFFICES ASSUME VaultInit PROVE VaultInv
  OBVIOUS
<1>1. PICK b \in {NoBlob, LegacyBlob} :
         /\ stored = [seal |-> NoSeal, blob |-> b, inbox |-> {}] /\ told = IF migration THEN b.keys ELSE {}
  BY DEF VaultInit, LegacyBlob
<1>2. RowOK(stored) /\ ~HasSeal /\ stored.seal.pass = 0 /\ stored.blob = b
  BY <1>1 DEF RowOK, HasSeal, NoSeal
<1>3. ASSUME NEW c \in Clients PROVE ClientOK(client[c])
  <2>1. /\ DOMAIN client[c] = {"pc", "view", "dek", "put"} /\ client[c].pc = "idle" /\ client[c].dek = 0
        /\ client[c].put = NoPut /\ (client[c].view = <<>> \/ client[c].view = <<stored>>)
    <3>1. /\ DOMAIN AtRest = {"pc", "view", "dek", "put"} /\ AtRest.pc = "idle" /\ AtRest.dek = 0
          /\ AtRest.put = NoPut /\ AtRest.view = <<>>
      BY DEF AtRest, Zeroed
    <3>2. CASE c \in Tabs
      <4>1. client[c] = [AtRest EXCEPT !.view = <<stored>>]
        BY <3>2 DEF VaultInit
      <4> QED BY <3>1, <4>1
    <3>3. CASE c \notin Tabs
      BY <3>1, <3>3 DEF VaultInit
    <3> QED BY <3>2, <3>3
  <2> QED
    BY <1>2, <2>1, BlankPut, VaultConstants DEF ClientOK, Zeroed
<1>4. DOMAIN client = Clients /\ linking = <<>> /\ fresh = 0 /\ shownKeys = {} /\ mishap = {} /\ lastPass = 0
  BY DEF VaultInit
<1>5. (~migration => told = {}) /\ told \subseteq KeptTokens
  BY <1>1, <1>2 DEF KeptTokens, NoBlob
<1> QED BY <1>2, <1>3, <1>4, <1>5 DEF VaultInv

\* One client moves, and nothing else does.
LEMMA Moves ==
  ASSUME VaultInv, NEW c \in Clients, NEW x, ClientOK(x),
         DOMAIN client' = Clients, client'[c] = x, \A d \in Clients : d # c => client'[d] = client[d],
         RowKept, fresh' \in Nat
  PROVE  VaultInv'
<1>1. UNCHANGED <<stored, migration, linking, shownKeys, told, mishap, lastPass>>
  BY DEF RowKept
<1>3. /\ HasSeal' = HasSeal /\ OneVault' = OneVault /\ KeptTokens' = KeptTokens
      /\ \A ms : Spared(ms)' = Spared(ms)
  BY <1>1 DEF HasSeal, OneVault, KeptTokens, Spared
<1>4. \A r : RowOK(r) => RowOK(r)'
  BY <1>1, <1>3 DEF RowOK
<1>5. \A p : PutOK(p) => PutOK(p)'
  BY <1>1, <1>3 DEF PutOK, FirstOK, LaterOK
<1>6. \A p : ReadOK(p) => ReadOK(p)'
  BY <1>1, <1>4 DEF ReadOK
<1>7. \A p : (WrittenOK(p) => WrittenOK(p)') /\ (NothingTold(p) => NothingTold(p)')
  BY <1>1, <1>3 DEF WrittenOK, NothingTold
<1>8. \A y : ClientOK(y) => ClientOK(y)'
  BY <1>1, <1>3, <1>4, <1>5, <1>6, <1>7 DEF ClientOK
<1>9. \A d \in Clients : ClientOK(client'[d])
  BY DEF VaultInv
<1>10. \A d \in Clients : ClientOK(client[d])'
  BY <1>8, <1>9
<1>11. RowOK(stored)'
  BY <1>1, <1>4 DEF VaultInv
<1>12. (linking = <<>> \/ \E l : linking = <<l>> /\ RowOK(l.seen) /\ l.seen.seal # NoSeal)'
  BY <1>1, <1>4 DEF VaultInv
<1> QED
  BY <1>1, <1>3, <1>10, <1>11, <1>12 DEF VaultInv

\* A client that has the row at hand sends what it put together.
LEMMA Sent ==
  ASSUME VaultInv, NEW c \in Clients, NEW p, PutOK(p), NothingTold(p), Sends(c, p), RowKept, fresh' \in Nat
  PROVE  VaultInv'
<1>1. ClientOK(client[c]) /\ DOMAIN client[c] = {"pc", "view", "dek", "put"} /\ DOMAIN client = Clients
  BY DEF VaultInv, ClientOK
<1>2. PICK x : x = client'[c]
  OBVIOUS
<1>3. /\ DOMAIN client' = Clients /\ \A d \in Clients : d # c => client'[d] = client[d]
      /\ DOMAIN x = {"pc", "view", "dek", "put"} /\ x.pc = "sent" /\ x.put = p
      /\ x.view = client[c].view /\ x.dek = client[c].dek
  BY <1>1, <1>2 DEF Sends
<1>4. ClientOK(x)
  BY <1>1, <1>3 DEF ClientOK
<1> QED
  BY <1>2, <1>3, <1>4, Moves

\* Loading the settings keeps it.
LEMMA LoadStep == ASSUME VaultInv, NEW c \in Clients, LoadSettings(c) PROVE VaultInv'
<1>1. ClientOK(client[c]) /\ DOMAIN client[c] = {"pc", "view", "dek", "put"} /\ DOMAIN client = Clients
  BY DEF VaultInv, ClientOK
<1>2. PICK x : x = client'[c]
  OBVIOUS
<1>3. /\ DOMAIN client' = Clients /\ \A d \in Clients : d # c => client'[d] = client[d]
      /\ DOMAIN x = {"pc", "view", "dek", "put"} /\ x.pc = "idle" /\ x.put = client[c].put
      /\ x.view = <<stored>> /\ x.dek = client[c].dek
  BY <1>1, <1>2 DEF LoadSettings
<1>4. ClientOK(x)
  <2>1. RowOK(stored) /\ client[c].pc = "idle"
    BY DEF VaultInv, LoadSettings
  <2> QED
    BY <1>1, <1>3, <2>1 DEF ClientOK
<1>5. RowKept /\ fresh' \in Nat
  BY DEF LoadSettings, VaultInv
<1> QED
  BY <1>2, <1>3, <1>4, <1>5, Moves

\* Locking, or leaving the tab, keeps it.
LEMMA ForgetStep == ASSUME VaultInv, NEW c \in Clients, ForgetKey(c) PROVE VaultInv'
<1>1. ClientOK(client[c]) /\ DOMAIN client[c] = {"pc", "view", "dek", "put"} /\ DOMAIN client = Clients
  BY DEF VaultInv, ClientOK
<1>2. PICK x : x = client'[c]
  OBVIOUS
<1>3. /\ DOMAIN client' = Clients /\ \A d \in Clients : d # c => client'[d] = client[d]
      /\ DOMAIN x = {"pc", "view", "dek", "put"} /\ x.pc = client[c].pc /\ x.put = client[c].put
      /\ x.view = client[c].view /\ x.dek = Zeroed
  BY <1>1, <1>2 DEF ForgetKey
<1>4. ClientOK(x)
  BY <1>1, <1>3, VaultConstants DEF ClientOK, Zeroed
<1>5. RowKept /\ fresh' \in Nat
  BY DEF ForgetKey, VaultInv
<1> QED
  BY <1>2, <1>3, <1>4, <1>5, Moves

\* The row a client looks at.
LEMMA SeenIs ==
  ASSUME VaultInv, NEW c \in Clients, client[c].view # <<>>
  PROVE  RowOK(Seen(c)) /\ client[c].view = <<Seen(c)>>
<1>1. ClientOK(client[c])
  BY DEF VaultInv
<1>2. PICK r : client[c].view = <<r>> /\ RowOK(r)
  BY <1>1 DEF ClientOK
<1>3. Seen(c) = r
  BY <1>2 DEF Seen
<1> QED BY <1>2, <1>3

\* Asking for another passphrase keeps it.
LEMMA ChangeStep == ASSUME VaultInv, NEW c \in Clients, ChangePassphrase(c) PROVE VaultInv'
<1>1. ClientOK(client[c]) /\ DOMAIN client[c] = {"pc", "view", "dek", "put"} /\ DOMAIN client = Clients
  BY DEF VaultInv, ClientOK
<1>2. PICK x : x = client'[c]
  OBVIOUS
<1>3. /\ DOMAIN client' = Clients /\ \A d \in Clients : d # c => client'[d] = client[d]
      /\ DOMAIN x = {"pc", "view", "dek", "put"} /\ x.pc = "wrapping" /\ x.put = client[c].put
      /\ x.view = client[c].view /\ x.dek = client[c].dek
  BY <1>1, <1>2 DEF ChangePassphrase, Turns
<1>4. client[c].view = <<Seen(c)>> /\ Seen(c).seal.dek = client[c].dek /\ client[c].dek # Zeroed /\ client[c].put = NoPut
  BY <1>1, SeenIs DEF ChangePassphrase, AtHand, ClientOK
<1>5. Seen(c).seal # NoSeal
  BY <1>1, <1>4, VaultConstants DEF NoSeal, ClientOK
<1>6. ClientOK(x)
  BY <1>1, <1>3, <1>4, <1>5 DEF ClientOK
<1>7. RowKept /\ fresh' \in Nat
  BY DEF ChangePassphrase, VaultInv
<1> QED
  BY <1>2, <1>3, <1>6, <1>7, Moves

\* Saving a plain setting keeps it.
LEMMA PlainStep == ASSUME VaultInv, NEW c \in Clients, SavePlain(c) PROVE VaultInv'
<1>1. ClientOK(client[c])
  BY DEF VaultInv
<1>2. PICK p : p = [NoPut EXCEPT !.opened = client[c].dek]
  OBVIOUS
<1>3. /\ DOMAIN p = PutFields /\ p.first = FALSE /\ p.opened = client[c].dek /\ p.cipher = "keep"
      /\ p.seal = NoSeal /\ p.eaten = {} /\ p.adds = {}
  BY <1>2 DEF NoPut, PutFields
<1>4. PutOK(p) /\ NothingTold(p)
  BY <1>1, <1>3 DEF ClientOK, PutOK, LaterOK, NothingTold
<1>5. Sends(c, p) /\ RowKept /\ fresh' \in Nat
  BY <1>2 DEF SavePlain, VaultInv
<1> QED BY <1>4, <1>5, Sent

\* Saving without the key clears the secrets, which keeps it.
LEMMA LockedStep == ASSUME VaultInv, NEW c \in Clients, SaveLocked(c) PROVE VaultInv'
<1>1. PICK p : p = [NoPut EXCEPT !.cipher = "clear", !.base = Seen(c).blob]
  OBVIOUS
<1>2. /\ DOMAIN p = PutFields /\ p.first = FALSE /\ p.opened = Zeroed /\ p.cipher = "clear"
      /\ p.seal = NoSeal /\ p.eaten = {} /\ p.adds = {}
  BY <1>1 DEF NoPut, PutFields
<1>3. PutOK(p) /\ NothingTold(p)
  <2>1. 0 \in 0 .. MaxSeals
    BY VaultConstants
  <2>2. LaterOK(p)
    BY <1>2, <2>1 DEF LaterOK, Zeroed
  <2> QED BY <1>2, <2>2 DEF PutOK, NothingTold
<1>4. Sends(c, p) /\ RowKept /\ fresh' \in Nat
  BY <1>1 DEF SaveLocked, VaultInv
<1> QED BY <1>3, <1>4, Sent

\* Wrapping the data key under another passphrase keeps it.
LEMMA WrapStep == ASSUME VaultInv, NEW c \in Clients, WrapKey(c) PROVE VaultInv'
<1>1. ClientOK(client[c]) /\ client[c].pc = "wrapping" /\ fresh' \in Nat /\ RowKept
  BY DEF VaultInv, WrapKey
<1>2. PICK r : client[c].view = <<r>> /\ r.seal # NoSeal /\ client[c].dek \in {Zeroed, r.seal.dek}
  BY <1>1 DEF ClientOK
<1>3. Seen(c) = r /\ RowOK(r)
  BY <1>2, SeenIs DEF Seen
<1>4. PICK s : s = Rewrap(r.seal, client[c].dek, fresh')
  OBVIOUS
<1>5. IsSeal(r.seal) /\ HasSeal /\ (OneVault => r.seal.rec = stored.seal.rec)
  BY <1>2, <1>3 DEF RowOK
<1>6. DOMAIN s = {"dek", "pass", "rec", "box"} /\ s.dek = client[c].dek /\ s.rec = r.seal.rec /\ s.box = r.seal.box
  BY <1>4, <1>5 DEF Rewrap, IsSeal
<1>7. IsSeal(s) /\ s # NoSeal /\ (OneVault => s.rec = stored.seal.rec)
  <2>1. IsSeal(s)
    BY <1>2, <1>5, <1>6 DEF IsSeal
  <2>2. s.rec # NoSeal.rec
    BY <2>1, VaultConstants DEF IsSeal, NoSeal
  <2> QED BY <1>5, <1>6, <2>1, <2>2
<1>8. PICK p : p = [NoPut EXCEPT !.opened = client[c].dek, !.seal = s]
  OBVIOUS
<1>9. /\ DOMAIN p = PutFields /\ p.first = FALSE /\ p.opened = client[c].dek /\ p.cipher = "keep"
      /\ p.seal = s /\ p.eaten = {} /\ p.adds = {}
  BY <1>8 DEF NoPut, PutFields
<1>10. PutOK(p) /\ NothingTold(p)
  BY <1>1, <1>5, <1>7, <1>9 DEF ClientOK, PutOK, LaterOK, NothingTold
<1>11. Sends(c, p)
  BY <1>3, <1>4, <1>8 DEF WrapKey
<1> QED BY <1>1, <1>10, <1>11, Sent

\* Saving a secret keeps it: the blob sent holds what the client opened, and the new one.
LEMMA SaveSecretStep == ASSUME VaultInv, NEW c \in Clients, NEW k, SaveSecret(c, k) PROVE VaultInv'
<1>1. ClientOK(client[c]) /\ client[c].dek # Zeroed
  BY DEF VaultInv, SaveSecret
<1>2. PICK key : key = client[c].dek
  OBVIOUS
<1>3. PICK b : b = Sealed(key, (IF OpensUnder(Seen(c).blob, key) THEN Seen(c).blob.keys ELSE {}) \union {k})
  OBVIOUS
<1>4. b.key = key /\ k \in b.keys /\ (OpensUnder(Seen(c).blob, key) => Seen(c).blob.keys \subseteq b.keys)
  BY <1>3 DEF Sealed
<1>5. key \in 1 .. MaxSeals /\ HasSeal /\ (OneVault => key = stored.seal.rec)
  BY <1>1, <1>2, VaultConstants DEF ClientOK, Zeroed
<1>6. PICK p : p = [NoPut EXCEPT !.cipher = "new", !.base = Seen(c).blob, !.opened = key, !.adds = {k}, !.blob = b]
  OBVIOUS
<1>7. /\ DOMAIN p = PutFields /\ p.first = FALSE /\ p.opened = key /\ p.cipher = "new" /\ p.blob = b
      /\ p.base = Seen(c).blob /\ p.seal = NoSeal /\ p.eaten = {} /\ p.adds = {k}
  BY <1>6 DEF NoPut, PutFields
<1>8. Tokens(p.eaten) = {}
  BY <1>7 DEF Tokens
<1>9. PutOK(p) /\ NothingTold(p)
  <2>1. key \in 0 .. MaxSeals
    BY <1>5, VaultConstants
  <2> QED
    BY <1>4, <1>5, <1>7, <1>8, <2>1 DEF PutOK, LaterOK, NothingTold
<1>10. Sends(c, p) /\ RowKept /\ fresh' \in Nat
  BY <1>2, <1>3, <1>6 DEF SaveSecret, VaultInv
<1> QED BY <1>9, <1>10, Sent

\* Unlocking keeps it: the inbox is eaten with a blob that holds its tokens.
LEMMA UnlockStep ==
  ASSUME VaultInv, NEW c \in Clients, NEW way, UnlockVault(c, way)
  PROVE  VaultInv'
<1>1. /\ ClientOK(client[c]) /\ DOMAIN client[c] = {"pc", "view", "dek", "put"} /\ DOMAIN client = Clients
      /\ client[c].pc = "idle" /\ client[c].view = <<Seen(c)>> /\ RowOK(Seen(c)) /\ Seen(c).seal # NoSeal
      /\ RowKept /\ fresh' \in Nat
  BY SeenIs DEF VaultInv, UnlockVault, AtHand, ClientOK
<1>2. PICK key, entries : key = Seen(c).seal.dek /\ entries = Openable(Seen(c))
  OBVIOUS
<1>3. /\ HasSeal /\ key \in 0 .. MaxSeals /\ (OneVault /\ key # Zeroed => key = stored.seal.rec)
      /\ IsSeal(Seen(c).seal)
  <2>1. IsSeal(Seen(c).seal) /\ HasSeal /\ (OneVault => Seen(c).seal.rec = stored.seal.rec)
    BY <1>1 DEF RowOK
  <2>2. key \in {Zeroed, Seen(c).seal.rec} /\ Seen(c).seal.rec \in 1 .. MaxSeals
    BY <1>2, <2>1 DEF IsSeal
  <2> QED BY <2>1, <2>2, VaultConstants DEF Zeroed
<1>4. CASE entries = {}
  <2>1. PICK x : x = client'[c]
    OBVIOUS
  <2>2. /\ DOMAIN client' = Clients /\ \A d \in Clients : d # c => client'[d] = client[d]
        /\ DOMAIN x = {"pc", "view", "dek", "put"} /\ x.pc = client[c].pc /\ x.put = client[c].put
        /\ x.view = client[c].view /\ x.dek = key
    BY <1>1, <1>2, <1>4, <2>1 DEF UnlockVault
  <2>3. ClientOK(x)
    BY <1>1, <1>3, <2>2 DEF ClientOK
  <2> QED BY <1>1, <2>1, <2>2, <2>3, Moves
<1>5. CASE entries # {}
  <2>1. key = Seen(c).seal.box /\ key \in 1 .. MaxSeals
    BY <1>2, <1>3, <1>5 DEF UnlockVault, IsSeal
  <2>2. PICK b : b = Sealed(key, Seen(c).blob.keys \union {e.tok : e \in entries})
    OBVIOUS
  <2>3. b.key = key /\ Seen(c).blob.keys \union Tokens(entries) \subseteq b.keys
    BY <2>2 DEF Sealed, Tokens
  <2>4. PICK p : p = [NoPut EXCEPT !.cipher = "new", !.eaten = entries, !.opened = key, !.base = Seen(c).blob, !.blob = b]
    OBVIOUS
  <2>5. /\ DOMAIN p = PutFields /\ p.first = FALSE /\ p.opened = key /\ p.cipher = "new" /\ p.blob = b
        /\ p.base = Seen(c).blob /\ p.seal = NoSeal /\ p.eaten = entries /\ p.adds = {}
    BY <2>4 DEF NoPut, PutFields
  <2>6. OneVault => key = stored.seal.rec
    BY <1>3, <2>1 DEF Zeroed
  <2>7. PutOK(p) /\ NothingTold(p)
    BY <1>3, <2>1, <2>3, <2>5, <2>6 DEF PutOK, LaterOK, NothingTold
  <2>8. Sends(c, p)
    BY <1>2, <1>5, <2>2, <2>4 DEF UnlockVault
  <2> QED BY <1>1, <2>7, <2>8, Sent
<1> QED BY <1>4, <1>5

\* Making a vault keeps it: its keys are fresh.
LEMMA CreateVaultStep == ASSUME VaultInv, NEW c \in Clients, CreateVault(c) PROVE VaultInv'
<1> DEFINE moving == Unsealed(Seen(c)) /\ migration
           secrets == IF moving THEN LegacySecrets ELSE {}
<1>1. /\ RowOK(Seen(c)) /\ Seen(c).seal = NoSeal /\ RowKept /\ RowOK(stored)
      /\ fresh' = fresh + 1 /\ fresh \in Nat /\ fresh' \in 1 .. MaxSeals
      /\ moving => stored.seal = NoSeal
  BY SeenIs, VaultConstants DEF VaultInv, CreateVault, AtHand
<1>2. PICK n : n = fresh'
  OBVIOUS
<1>3. stored.seal = NoSeal => stored.blob \in {NoBlob, LegacyBlob} /\ stored.inbox = {}
  BY <1>1 DEF RowOK
<1>4. secrets # {} => secrets = LegacyKeys
  BY <1>1, <1>3 DEF LegacySecrets, LegacyBlob, NoBlob
<1>5. Unsealed(Seen(c)) /\ secrets = {} /\ mishap = {} /\ ~HasSeal => told = {}
  BY <1>3 DEF VaultInv, HasSeal, KeptTokens, Tokens, LegacySecrets
<1>6. PICK m : m = [NoPut EXCEPT !.seal = NewSeal(n), !.first = TRUE, !.base = Seen(c).blob, !.opened = n]
  OBVIOUS
<1>7. /\ DOMAIN m = PutFields /\ m.first = TRUE /\ m.opened = n /\ m.cipher = "keep"
      /\ m.seal = NewSeal(n) /\ m.eaten = {} /\ m.adds = {}
  BY <1>6 DEF NoPut, PutFields
<1>8. CASE secrets # {}
  <2>1. PICK p : p = [m EXCEPT !.cipher = "new", !.blob = Sealed(n, secrets)]
    OBVIOUS
  <2>2. /\ DOMAIN p = PutFields /\ p.first = TRUE /\ p.opened = n /\ p.cipher = "new" /\ p.blob = Sealed(n, secrets)
        /\ p.seal = NewSeal(n) /\ p.eaten = {} /\ p.adds = {}
    BY <1>7, <2>1 DEF PutFields
  <2>3. PutOK(p) /\ NothingTold(p)
    BY <1>1, <1>2, <1>4, <1>8, <2>2 DEF PutOK, FirstOK, NothingTold
  <2>4. Sends(c, p)
    BY <1>2, <1>6, <1>8, <2>1 DEF CreateVault
  <2> QED BY <1>1, <2>3, <2>4, Sent
<1>9. CASE secrets = {}
  <2>1. PICK p : p = [m EXCEPT !.cipher = IF Unsealed(Seen(c)) THEN "clear" ELSE "keep"]
    OBVIOUS
  <2>2. /\ DOMAIN p = PutFields /\ p.first = TRUE /\ p.opened = n
        /\ p.cipher = (IF Unsealed(Seen(c)) THEN "clear" ELSE "keep")
        /\ p.seal = NewSeal(n) /\ p.eaten = {} /\ p.adds = {}
    BY <1>7, <2>1 DEF PutFields
  <2>3. PutOK(p) /\ NothingTold(p)
    BY <1>1, <1>2, <1>5, <1>9, <2>2 DEF PutOK, FirstOK, NothingTold
  <2>4. Sends(c, p)
    BY <1>2, <1>6, <1>9, <2>1 DEF CreateVault
  <2> QED BY <1>1, <2>3, <2>4, Sent
<1> QED BY <1>8, <1>9

\* What goes on in the store leaves what clients hold in order.
LEMMA Ages ==
  ASSUME VaultInv,
         HasSeal => HasSeal' /\ (OneVault' => stored'.seal.rec = stored.seal.rec),
         stored.blob # LegacyBlob => stored'.blob # LegacyBlob,
         OneVault' => OneVault, mishap' = {} => mishap = {},
         mishap' = {} /\ HasSeal => KeptTokens \subseteq KeptTokens',
         ~HasSeal' => told' \subseteq told
  PROVE  (\A r : RowOK(r) => RowOK(r)') /\ (\A y : ClientOK(y) => ClientOK(y)')
<1>1. \A r : RowOK(r) => RowOK(r)'
  BY DEF RowOK
<1>2. \A p : LaterOK(p) => LaterOK(p)'
  BY DEF LaterOK
<1>3. \A p : PutOK(p) => PutOK(p)'
  BY <1>2 DEF PutOK, FirstOK
<1>4. \A p : ReadOK(p) => ReadOK(p)'
  BY <1>1 DEF ReadOK
<1>5. \A p : NothingTold(p) => NothingTold(p)'
  BY DEF NothingTold
<1>6. ASSUME NEW p, PutOK(p), WrittenOK(p) PROVE WrittenOK(p)'
  <2>1. p.first => HasSeal' /\ (OneVault' => p.seal.rec = stored'.seal.rec)
    BY <1>6 DEF WrittenOK
  <2>2. p.adds = {} \/ HasSeal
    BY <1>6 DEF PutOK, FirstOK, LaterOK
  <2>3. mishap' = {} => p.adds \subseteq KeptTokens'
    BY <1>6, <2>2 DEF WrittenOK
  <2> QED BY <2>1, <2>3 DEF WrittenOK
<1>7. \A y : ClientOK(y) => ClientOK(y)'
  BY <1>1, <1>3, <1>4, <1>5, <1>6 DEF ClientOK
<1> QED BY <1>1, <1>7

\* What the server's key sealed is not what a vault's key did.
LEMMA LegacyIsNoOther == LegacyBlob # NoBlob /\ \A b : b.key \in 1 .. MaxSeals => b # LegacyBlob
  BY VaultConstants DEF LegacyBlob, NoBlob, ServerKey

\* The server reads the row before it writes.
LEMMA PutReadsStep == ASSUME VaultInv, NEW c \in Clients, PutReads(c) PROVE VaultInv'
<1>1. /\ ClientOK(client[c]) /\ DOMAIN client[c] = {"pc", "view", "dek", "put"} /\ DOMAIN client = Clients
      /\ client[c].pc = "sent" /\ RowKept /\ fresh' \in Nat /\ RowOK(stored)
  BY DEF VaultInv, ClientOK, PutReads
<1>2. PICK x, p : x = client'[c] /\ p = client[c].put
  OBVIOUS
<1>3. PutOK(p) /\ NothingTold(p) /\ DOMAIN p = PutFields
  BY <1>1, <1>2 DEF ClientOK, PutOK
<1>4. CASE Refused(p)
  <2>1. /\ DOMAIN client' = Clients /\ \A d \in Clients : d # c => client'[d] = client[d]
        /\ DOMAIN x = {"pc", "view", "dek", "put"} /\ x.pc = "idle" /\ x.put = NoPut
        /\ x.view = client[c].view /\ x.dek = client[c].dek
    BY <1>1, <1>2, <1>4 DEF PutReads
  <2>2. ClientOK(x)
    BY <1>1, <2>1, BlankPut DEF ClientOK
  <2> QED BY <1>1, <1>2, <2>1, <2>2, Moves
<1>5. CASE ~Refused(p)
  <2>1. PICK q : q = [p EXCEPT !.seen = <<stored>>]
    OBVIOUS
  <2>2. /\ DOMAIN client' = Clients /\ \A d \in Clients : d # c => client'[d] = client[d]
        /\ DOMAIN x = {"pc", "view", "dek", "put"} /\ x.pc = "read" /\ x.put = q
        /\ x.view = client[c].view /\ x.dek = client[c].dek
    BY <1>1, <1>2, <1>5, <2>1 DEF PutReads
  <2>3. /\ DOMAIN q = PutFields /\ q.seen = <<stored>> /\ q.seal = p.seal /\ q.cipher = p.cipher /\ q.blob = p.blob
        /\ q.base = p.base /\ q.eaten = p.eaten /\ q.first = p.first /\ q.opened = p.opened /\ q.adds = p.adds
    BY <1>3, <2>1 DEF PutFields
  <2>4. PutOK(q) /\ NothingTold(q)
    BY <1>3, <2>3 DEF PutOK, FirstOK, LaterOK, NothingTold
  <2>5. ReadOK(q)
    <3>1. q.seal # NoSeal /\ q.cipher = "keep" => ~Unsealed(stored)
      BY <1>5, <2>3 DEF Refused
    <3>2. ~Unsealed(stored) => stored.blob # LegacyBlob
      BY <1>1, LegacyIsNoOther DEF RowOK, Unsealed
    <3> QED BY <1>1, <2>3, <3>1, <3>2 DEF ReadOK
  <2>6. ClientOK(x)
    BY <1>1, <2>2, <2>4, <2>5 DEF ClientOK
  <2> QED BY <1>1, <1>2, <2>2, <2>6, Moves
<1> QED BY <1>4, <1>5

\* An answer that is lost keeps it.
LEMMA LostStep == ASSUME VaultInv, NEW c \in Clients, AnswerLost(c) PROVE VaultInv'
<1>1. /\ ClientOK(client[c]) /\ DOMAIN client[c] = {"pc", "view", "dek", "put"} /\ DOMAIN client = Clients
      /\ RowKept /\ fresh' \in Nat
  BY DEF VaultInv, ClientOK, AnswerLost
<1>2. PICK x : x = client'[c]
  OBVIOUS
<1>3. /\ DOMAIN client' = Clients /\ \A d \in Clients : d # c => client'[d] = client[d]
      /\ DOMAIN x = {"pc", "view", "dek", "put"} /\ x.pc = "idle" /\ x.put = NoPut
      /\ x.view = client[c].view /\ x.dek = client[c].dek
  BY <1>1, <1>2 DEF AnswerLost
<1>4. ClientOK(x)
  BY <1>1, <1>3, BlankPut DEF ClientOK
<1> QED BY <1>1, <1>2, <1>3, <1>4, Moves

\* An answer that arrives tells the user what was written before it.
LEMMA AnsweredStep == ASSUME VaultInv, NEW c \in Clients, PutAnswered(c) PROVE VaultInv'
<1> DEFINE p == client[c].put
<1>1. /\ ClientOK(client[c]) /\ DOMAIN client = Clients /\ PutOK(p) /\ WrittenOK(p)
      /\ UNCHANGED <<stored, migration, linking, fresh, mishap, lastPass>>
      /\ told' = told \union p.adds
      /\ shownKeys' = (IF p.first THEN shownKeys \union {p.seal.rec} ELSE shownKeys)
      /\ client' = [client EXCEPT ![c] = [pc |-> "idle", view |-> <<stored>>, put |-> NoPut, dek |-> p.opened]]
  BY DEF VaultInv, ClientOK, PutAnswered
<1> HIDE DEF p
<1>2. /\ HasSeal' = HasSeal /\ OneVault' = OneVault /\ KeptTokens' = KeptTokens /\ \A ms : Spared(ms)' = Spared(ms)
  BY <1>1 DEF HasSeal, OneVault, KeptTokens, Spared
<1>3. p.adds = {} \/ HasSeal
  BY <1>1 DEF PutOK, FirstOK, LaterOK
<1>4. (\A r : RowOK(r) => RowOK(r)') /\ (\A y : ClientOK(y) => ClientOK(y)')
  BY <1>1, <1>2, <1>3, Ages
<1>5. /\ p.opened \in 0 .. MaxSeals /\ (p.opened # Zeroed => HasSeal)
      /\ (OneVault /\ p.opened # Zeroed) => p.opened = stored.seal.rec
  <2>1. CASE p.first
    <3>1. PICK n \in 1 .. MaxSeals : p.seal = NewSeal(n) /\ p.opened = n
      BY <1>1, <2>1 DEF PutOK, FirstOK
    <3>2. p.seal.rec = n
      BY <3>1 DEF NewSeal
    <3> QED BY <1>1, <2>1, <3>1, <3>2, VaultConstants DEF WrittenOK
  <2>2. CASE ~p.first
    BY <1>1, <2>2 DEF PutOK, LaterOK
  <2> QED BY <2>1, <2>2
<1>6. \A d \in Clients : ClientOK(client'[d])
  <2>1. PICK x : x = [pc |-> "idle", view |-> <<stored>>, put |-> NoPut, dek |-> p.opened]
    OBVIOUS
  <2>2. ClientOK(x)
    BY <1>5, <2>1, BlankPut DEF ClientOK, VaultInv
  <2> QED BY <1>1, <2>1, <2>2 DEF VaultInv
<1>7. DOMAIN client' = Clients /\ \A d \in Clients : ClientOK(client[d])'
  BY <1>1, <1>4, <1>6
<1>8. RowOK(stored)' /\ (linking = <<>> \/ \E l : linking = <<l>> /\ RowOK(l.seen) /\ l.seen.seal # NoSeal)'
  BY <1>1, <1>4 DEF VaultInv
<1>9. (OneVault => \A r \in shownKeys : HasSeal /\ r = stored.seal.rec)'
  BY <1>1, <1>2 DEF VaultInv, WrittenOK
<1>10. (~migration /\ ~HasSeal => told = {})' /\ (mishap = {} => told \subseteq KeptTokens)'
  BY <1>1, <1>2, <1>3 DEF VaultInv, WrittenOK
<1>11. (Spared({"overlap"}) => stored.seal.pass = lastPass)' /\ fresh' \in Nat /\ mishap' \subseteq Mishaps
  BY <1>1, <1>2 DEF VaultInv
<1> QED BY <1>7, <1>8, <1>9, <1>10, <1>11 DEF VaultInv

\* What a write of the row does, for a put and the row it was decided on.
Writes(p, r, next) ==
    /\ next = (IF p.seal # NoSeal THEN p.seal ELSE r.seal)
    /\ DOMAIN stored' = {"seal", "blob", "inbox"}
    /\ stored'.seal = (IF next = NoSeal THEN stored.seal ELSE next)
    /\ p.cipher = "keep" => stored'.blob = stored.blob
    /\ p.cipher = "clear" => stored'.blob = NoBlob
    /\ p.cipher = "new" => stored'.blob = p.blob
    /\ stored'.inbox = (IF next = NoSeal THEN stored.inbox
                        ELSE IF p.seal # NoSeal /\ r.seal = NoSeal THEN {} ELSE r.inbox \ p.eaten)
    /\ mishap \subseteq mishap' /\ mishap' \subseteq Mishaps
    /\ Spared({"overlap"})' => r = stored
    /\ mishap' = {} /\ p.cipher # "keep" => p.base = stored.blob
    /\ OneVault' /\ p.first => ~HasSeal
    /\ OneVault' => p.seal.dek # Zeroed
    /\ mishap' = {} => ~(p.cipher = "clear" /\ p.seal = NoSeal)

\* What the server writes, by what it was sent and what it read.
LEMMA WriteIs ==
  ASSUME VaultInv, NEW c \in Clients, NEW r, PutWrites(c), client[c].put.seen = <<r>>
  PROVE  \E next : Writes(client[c].put, r, next)
<1> DEFINE p == client[c].put
<1>1. /\ stored' = RowAfter(p) /\ mishap' = mishap \union MishapsOf(p) /\ mishap \subseteq Mishaps
      /\ p.seen[1] = r
  BY DEF PutWrites, VaultInv
<1> HIDE DEF p
<1>2. PICK next : next = NextSeal(p)
  OBVIOUS
<1>3. MishapsOf(p) \subseteq Mishaps
  BY DEF MishapsOf
<1>4. /\ "overlap" \notin MishapsOf(p) => r = stored
      /\ "outdated" \notin MishapsOf(p) => ~(p.cipher # "keep" /\ p.base # stored.blob)
      /\ "remade" \notin MishapsOf(p) => ~(p.first /\ HasSeal)
      /\ "wiped" \notin MishapsOf(p) => p.seal.dek # Zeroed
      /\ "cleared" \notin MishapsOf(p) => ~(p.cipher = "clear" /\ p.seal = NoSeal)
  BY <1>1 DEF MishapsOf, Mishaps, HasSeal
<1>5. /\ \A ms : Spared(ms)' => \A m \in ms : m \notin MishapsOf(p)
      /\ mishap' = {} => MishapsOf(p) = {}
  BY <1>1 DEF Spared
<1>6. /\ DOMAIN stored' = {"seal", "blob", "inbox"}
      /\ stored'.seal = (IF next = NoSeal THEN stored.seal ELSE next)
      /\ stored'.inbox = (IF next = NoSeal THEN stored.inbox ELSE InboxAfter(p))
  BY <1>1, <1>2 DEF RowAfter
<1>7. /\ p.cipher = "keep" => stored'.blob = stored.blob
      /\ p.cipher = "clear" => stored'.blob = NoBlob
      /\ p.cipher = "new" => stored'.blob = p.blob
  BY <1>1 DEF RowAfter
<1>8. next = (IF p.seal # NoSeal THEN p.seal ELSE r.seal)
  BY <1>1, <1>2 DEF NextSeal
<1>9. InboxAfter(p) = (IF p.seal # NoSeal /\ r.seal = NoSeal THEN {} ELSE r.inbox \ p.eaten)
  BY <1>1 DEF InboxAfter
<1>10. /\ Spared({"overlap"})' => r = stored
       /\ mishap' = {} /\ p.cipher # "keep" => p.base = stored.blob
       /\ OneVault' /\ p.first => ~HasSeal
       /\ OneVault' => p.seal.dek # Zeroed
       /\ mishap' = {} => ~(p.cipher = "clear" /\ p.seal = NoSeal)
  BY <1>4, <1>5 DEF OneVault
<1>11. Writes(p, r, next)
  BY <1>1, <1>3, <1>6, <1>7, <1>8, <1>9, <1>10 DEF Writes
<1> QED BY <1>11 DEF p

\* The put that makes a vault.
LEMMA FirstIs ==
  ASSUME NEW p, PutOK(p), p.first
  PROVE  /\ IsSeal(p.seal) /\ p.seal # NoSeal
         /\ p.cipher = "new" => p.blob.key = p.seal.rec /\ p.blob.keys = LegacyKeys
<1>1. PICK n \in 1 .. MaxSeals : p.seal = NewSeal(n) /\ (p.cipher = "new" => p.blob = Sealed(n, LegacyKeys))
  BY DEF PutOK, FirstOK
<1>2. DOMAIN p.seal = {"dek", "pass", "rec", "box"} /\ p.seal.rec = n /\ p.seal.box = n /\ p.seal.dek = n
  BY <1>1 DEF NewSeal
<1>3. p.seal # NoSeal
  BY <1>2, VaultConstants DEF NoSeal
<1>4. p.cipher = "new" => p.blob.key = n /\ p.blob.keys = LegacyKeys
  BY <1>1 DEF Sealed
<1> QED BY <1>2, <1>3, <1>4 DEF IsSeal

\* Seals stay: the vault that is there is the vault that was.
LEMMA SealStays ==
  ASSUME VaultInv, NEW p, NEW r, NEW next, PutOK(p), RowOK(r), Writes(p, r, next)
  PROVE  /\ HasSeal => HasSeal'
         /\ (HasSeal /\ OneVault') => stored'.seal.rec = stored.seal.rec
         /\ OneVault' => OneVault
         /\ next # NoSeal => IsSeal(next) /\ (OneVault' => next.dek = next.rec)
         /\ (next # NoSeal /\ ~HasSeal) => p.first
<1>1. OneVault' => OneVault
  BY DEF Writes, OneVault, Spared
<1>2. HasSeal => HasSeal'
  BY DEF Writes, HasSeal
<1>3. p.first => IsSeal(p.seal)
  BY FirstIs
<1>4. p.seal # NoSeal => IsSeal(p.seal)
  BY <1>3 DEF PutOK, LaterOK
<1>5. r.seal # NoSeal => IsSeal(r.seal) /\ HasSeal /\ (OneVault => r.seal.rec = stored.seal.rec /\ r.seal.dek = r.seal.rec)
  BY DEF RowOK
<1>6. next # NoSeal => IsSeal(next) /\ (OneVault' => next.dek = next.rec)
  <2>1. CASE p.seal # NoSeal
    BY <1>4, <2>1 DEF Writes, IsSeal
  <2>2. CASE p.seal = NoSeal
    BY <1>1, <1>5, <2>2 DEF Writes
  <2> QED BY <2>1, <2>2
<1>7. (HasSeal /\ OneVault') => stored'.seal.rec = stored.seal.rec
  <2> SUFFICES ASSUME HasSeal, OneVault' PROVE stored'.seal.rec = stored.seal.rec
    OBVIOUS
  <2>1. ~p.first
    BY DEF Writes
  <2>2. p.seal # NoSeal => p.seal.rec = stored.seal.rec
    BY <1>1, <2>1 DEF PutOK, LaterOK
  <2> QED
    BY <1>1, <1>5, <2>2 DEF Writes
<1>8. (next # NoSeal /\ ~HasSeal) => p.first
  BY <1>5 DEF Writes, PutOK, LaterOK
<1> QED BY <1>1, <1>2, <1>6, <1>7, <1>8

\* The row written opens as the one before.
LEMMA RowStaysOK ==
  ASSUME VaultInv, NEW p, NEW r, NEW next, PutOK(p), ReadOK(p), RowOK(r), Writes(p, r, next)
  PROVE  RowOK(stored)' /\ (stored.blob # LegacyBlob => stored'.blob # LegacyBlob)
<1>1. /\ HasSeal => HasSeal'
      /\ (HasSeal /\ OneVault') => stored'.seal.rec = stored.seal.rec
      /\ OneVault' => OneVault
      /\ next # NoSeal => IsSeal(next) /\ (OneVault' => next.dek = next.rec)
      /\ (next # NoSeal /\ ~HasSeal) => p.first
  BY SealStays
<1>2. RowOK(stored)
  BY DEF VaultInv
<1>3. p.cipher \in {"keep", "clear", "new"}
  BY DEF PutOK, FirstOK, LaterOK
<1>4. p.cipher = "new" => /\ p.blob.key \in 1 .. MaxSeals /\ (p.first => p.blob.key = p.seal.rec)
                          /\ (~p.first => HasSeal /\ (OneVault => p.blob.key = stored.seal.rec))
  <2>1. CASE p.first
    <3>1. PICK n \in 1 .. MaxSeals : p.seal = NewSeal(n) /\ (p.cipher = "new" => p.blob = Sealed(n, LegacyKeys))
      BY <2>1 DEF PutOK, FirstOK
    <3> QED BY <2>1, <3>1 DEF NewSeal, Sealed
  <2>2. CASE ~p.first
    BY <2>2 DEF PutOK, LaterOK
  <2> QED BY <2>1, <2>2 DEF PutOK
<1>5. p.first => p.seal # NoSeal /\ p.seal.rec \in 1 .. MaxSeals
  <2> SUFFICES ASSUME p.first PROVE p.seal # NoSeal /\ p.seal.rec \in 1 .. MaxSeals
    OBVIOUS
  <2>1. PICK n \in 1 .. MaxSeals : p.seal = NewSeal(n)
    BY DEF PutOK, FirstOK
  <2>2. p.seal.rec = n
    BY <2>1 DEF NewSeal
  <2> QED BY <2>1, <2>2, VaultConstants DEF NoSeal
<1>6. CASE next = NoSeal
  <2>1. stored'.seal = stored.seal /\ stored'.inbox = stored.inbox /\ ~p.first
    BY <1>5, <1>6 DEF Writes
  <2>2. HasSeal' = HasSeal
    BY <2>1 DEF HasSeal
  <2>3. CASE p.cipher = "keep"
    <3>1. stored'.blob = stored.blob
      BY <2>3 DEF Writes
    <3> QED BY <1>1, <1>2, <2>1, <2>2, <3>1 DEF RowOK, Writes
  <2>4. CASE p.cipher = "clear"
    <3>1. stored'.blob = NoBlob
      BY <2>4 DEF Writes
    <3> QED BY <1>1, <1>2, <2>1, <2>2, <3>1, LegacyIsNoOther DEF RowOK, Writes, OpensUnder
  <2>5. CASE p.cipher = "new"
    <3>1. stored'.blob = p.blob
      BY <2>5 DEF Writes
    <3> QED BY <1>1, <1>2, <1>4, <2>1, <2>2, <2>5, <3>1, LegacyIsNoOther DEF RowOK, Writes, OpensUnder, HasSeal
  <2> QED BY <1>3, <2>3, <2>4, <2>5
<1>7. CASE next # NoSeal
  <2>1. /\ stored'.seal = next /\ HasSeal' /\ DOMAIN stored' = {"seal", "blob", "inbox"}
        /\ stored'.inbox = {} \/ stored'.inbox \subseteq r.inbox
    BY <1>7 DEF Writes, HasSeal
  <2>2. /\ stored'.blob = NoBlob \/ stored'.blob.key \in 1 .. MaxSeals
        /\ OneVault' => OpensUnder(stored'.blob, next.rec)
    <3>1. CASE p.cipher = "keep"
      <4>1. stored'.blob = stored.blob
        BY <3>1 DEF Writes
      <4>2. CASE HasSeal
        BY <1>1, <1>2, <2>1, <4>1, <4>2 DEF RowOK, HasSeal
      <4>3. CASE ~HasSeal
        <5>1. stored.blob = NoBlob
          BY <1>1, <1>2, <1>5, <1>7, <3>1, <4>3 DEF RowOK, ReadOK, HasSeal
        <5> QED BY <4>1, <5>1 DEF OpensUnder
      <4> QED BY <4>2, <4>3
    <3>2. CASE p.cipher = "clear"
      BY <3>2 DEF Writes, OpensUnder
    <3>3. CASE p.cipher = "new"
      <4>1. stored'.blob = p.blob
        BY <3>3 DEF Writes
      <4>2. CASE p.first
        BY <1>4, <1>5, <3>3, <4>1, <4>2 DEF Writes, OpensUnder
      <4>3. CASE ~p.first
        BY <1>1, <1>4, <2>1, <3>3, <4>1, <4>3 DEF OpensUnder
      <4> QED BY <4>2, <4>3
    <3> QED BY <1>3, <3>1, <3>2, <3>3
  <2>3. OneVault' => \A e \in stored'.inbox : e.box = next.rec
    <3> SUFFICES ASSUME OneVault', NEW e \in stored'.inbox PROVE e.box = next.rec
      OBVIOUS
    <3>1. r.inbox # {} /\ e \in r.inbox
      BY <2>1
    <3>2. r.seal # NoSeal
      BY <3>1 DEF RowOK
    <3>3. HasSeal /\ e.box = stored.seal.rec
      BY <1>1, <3>1, <3>2 DEF RowOK
    <3> QED BY <1>1, <2>1, <3>3
  <2>4. stored.blob # LegacyBlob => stored'.blob # LegacyBlob
    BY <2>2, LegacyIsNoOther
  <2> QED
    BY <1>1, <1>7, <2>1, <2>2, <2>3, <2>4 DEF RowOK
<1> QED BY <1>6, <1>7

\* Nobody late, nothing lost.
LEMMA WriteKeeps ==
  ASSUME VaultInv, NEW p, NEW r, NEW next, PutOK(p), NothingTold(p), RowOK(r), Writes(p, r, next), mishap' = {}
  PROVE  /\ HasSeal => KeptTokens \subseteq KeptTokens'
         /\ told \subseteq KeptTokens' /\ p.adds \subseteq KeptTokens'
<1>1. mishap = {} /\ r = stored /\ RowOK(stored) /\ OneVault /\ OneVault'
  BY DEF Writes, VaultInv, OneVault, Spared
<1>2. p.cipher \in {"keep", "clear", "new"}
  BY DEF PutOK, FirstOK, LaterOK
<1>3. HasSeal => KeptTokens \subseteq KeptTokens'
  <2> SUFFICES ASSUME HasSeal PROVE KeptTokens \subseteq KeptTokens'
    OBVIOUS
  <2>1. ~p.first /\ LaterOK(p)
    BY <1>1 DEF Writes, PutOK
  <2>2. next # NoSeal /\ stored'.inbox = stored.inbox \ p.eaten
    BY <1>1 DEF Writes, HasSeal
  <2>3. p.cipher # "clear"
    BY <1>2, <2>1 DEF LaterOK, Writes
  <2>4. CASE p.cipher = "keep"
    BY <2>1, <2>2, <2>4 DEF LaterOK, Writes, KeptTokens, Tokens
  <2>5. CASE p.cipher = "new"
    <3>1. p.blob.key = stored.seal.rec /\ p.base = stored.blob /\ stored'.blob = p.blob
      BY <1>1, <2>1, <2>5 DEF LaterOK, Writes
    <3>2. OpensUnder(p.base, p.blob.key)
      BY <1>1, <3>1 DEF RowOK, HasSeal
    <3>3. stored.blob.keys \union Tokens(p.eaten) \subseteq stored'.blob.keys
      BY <2>1, <2>5, <3>1, <3>2 DEF LaterOK
    <3> QED BY <2>2, <3>3 DEF KeptTokens, Tokens
  <2> QED BY <1>2, <2>3, <2>4, <2>5
<1>4. told \subseteq KeptTokens'
  <2>1. told \subseteq KeptTokens
    BY <1>1 DEF VaultInv
  <2>2. CASE HasSeal
    BY <1>3, <2>1, <2>2
  <2>3. CASE ~HasSeal
    <3>1. stored.inbox = {} /\ stored.blob \in {NoBlob, LegacyBlob} /\ KeptTokens = stored.blob.keys
      BY <1>1, <2>3 DEF RowOK, HasSeal, KeptTokens, Tokens
    <3>2. stored.blob.keys \subseteq LegacyKeys
      BY <3>1 DEF NoBlob, LegacyBlob
    <3>3. p.cipher = "keep" => stored'.blob = stored.blob
      BY DEF Writes
    <3>4. p.cipher = "clear" => told = {}
      BY <1>1, <2>3 DEF Writes, NothingTold, PutOK, LaterOK
    <3>5. p.cipher = "new" => stored'.blob.keys = LegacyKeys
      <4>1. p.cipher = "new" => p.first
        BY <2>3 DEF PutOK, LaterOK
      <4> QED BY <4>1, FirstIs DEF Writes
    <3> QED BY <1>2, <2>1, <3>1, <3>2, <3>3, <3>4, <3>5 DEF KeptTokens
  <2> QED BY <2>2, <2>3
<1>5. p.adds \subseteq KeptTokens'
  <2>1. p.adds = {} \/ (p.cipher = "new" /\ p.adds \subseteq p.blob.keys)
    BY DEF PutOK, FirstOK, LaterOK
  <2> QED BY <2>1 DEF Writes, KeptTokens
<1> QED BY <1>3, <1>4, <1>5

\* Writing the row keeps it.
LEMMA PutWritesStep == ASSUME VaultInv, NEW c \in Clients, PutWrites(c) PROVE VaultInv'
<1>1. /\ ClientOK(client[c]) /\ DOMAIN client[c] = {"pc", "view", "dek", "put"} /\ DOMAIN client = Clients
      /\ client[c].pc = "read"
      /\ UNCHANGED <<migration, linking, fresh, shownKeys, told, vaultMoves>>
  BY DEF VaultInv, ClientOK, PutWrites
<1>2. PICK p : p = client[c].put
  OBVIOUS
<1>3. PutOK(p) /\ NothingTold(p) /\ ReadOK(p)
  BY <1>1, <1>2 DEF ClientOK
<1>4. PICK r : p.seen = <<r>> /\ RowOK(r)
  BY <1>3 DEF ReadOK
<1>5. PICK next : Writes(p, r, next)
  BY <1>2, <1>4, WriteIs
<1>6. /\ HasSeal => HasSeal'
      /\ (HasSeal /\ OneVault') => stored'.seal.rec = stored.seal.rec
      /\ OneVault' => OneVault
  BY <1>3, <1>4, <1>5, SealStays
<1>7. RowOK(stored)' /\ (stored.blob # LegacyBlob => stored'.blob # LegacyBlob)
  BY <1>3, <1>4, <1>5, RowStaysOK
<1>8. mishap' = {} => /\ HasSeal => KeptTokens \subseteq KeptTokens'
                      /\ told \subseteq KeptTokens' /\ p.adds \subseteq KeptTokens'
  BY <1>3, <1>4, <1>5, WriteKeeps
<1>9. mishap' = {} => mishap = {}
  BY <1>5 DEF Writes
<1>10. (\A q : RowOK(q) => RowOK(q)') /\ (\A y : ClientOK(y) => ClientOK(y)')
  BY <1>1, <1>6, <1>7, <1>8, <1>9, Ages
<1>11. \A d \in Clients : ClientOK(client[d])'
  <2>1. PICK x : x = client'[c]
    OBVIOUS
  <2>2. /\ \A d \in Clients : d # c => client'[d] = client[d]
        /\ DOMAIN x = {"pc", "view", "dek", "put"} /\ x.pc = "written" /\ x.put = p
        /\ x.view = client[c].view /\ x.dek = client[c].dek
    BY <1>1, <1>2, <2>1 DEF PutWrites, Turns
  <2>3. PICK y : y = client[c]
    OBVIOUS
  <2>4. ClientOK(y)'
    BY <1>1, <1>10, <2>3
  <2>5. WrittenOK(p)'
    <3>1. p.first => p.seal # NoSeal
      BY <1>3, FirstIs
    <3>2. p.first => HasSeal' /\ stored'.seal = p.seal
      BY <1>5, <3>1 DEF Writes, HasSeal
    <3> QED BY <1>8, <3>2 DEF WrittenOK
  <2>6. ClientOK(x)'
    BY <1>2, <2>2, <2>3, <2>4, <2>5 DEF ClientOK
  <2>7. ASSUME NEW d \in Clients PROVE ClientOK(client[d])'
    <3>1. CASE d = c
      BY <2>1, <2>6, <3>1
    <3>2. CASE d # c
      <4>1. PICK z : z = client[d]
        OBVIOUS
      <4>2. ClientOK(z)' /\ client'[d] = z
        BY <1>10, <2>2, <3>2, <4>1 DEF VaultInv
      <4> QED BY <4>2
    <3> QED BY <3>1, <3>2
  <2> QED BY <2>7
<1>12. (linking = <<>> \/ \E l : linking = <<l>> /\ RowOK(l.seen) /\ l.seen.seal # NoSeal)'
  BY <1>1, <1>10 DEF VaultInv
<1>13. (OneVault => \A k \in shownKeys : HasSeal /\ k = stored.seal.rec)'
  BY <1>1, <1>6 DEF VaultInv
<1>14. (~migration /\ ~HasSeal => told = {})' /\ (mishap = {} => told \subseteq KeptTokens)'
  BY <1>1, <1>6, <1>8 DEF VaultInv
<1>15. (Spared({"overlap"}) => stored.seal.pass = lastPass)'
  <2> SUFFICES ASSUME Spared({"overlap"})' PROVE stored'.seal.pass = lastPass'
    OBVIOUS
  <2>1. r = stored /\ Spared({"overlap"})
    BY <1>5 DEF Writes, Spared
  <2>2. stored'.seal = (IF p.seal # NoSeal THEN p.seal ELSE stored.seal)
    BY <1>5, <2>1 DEF Writes
  <2>3. lastPass' = (IF p.seal # NoSeal THEN p.seal.pass ELSE lastPass)
    BY <1>2 DEF PutWrites
  <2> QED BY <2>1, <2>2, <2>3 DEF VaultInv
<1>16. DOMAIN client' = Clients /\ fresh' \in Nat /\ mishap' \subseteq Mishaps
  BY <1>1, <1>5 DEF VaultInv, PutWrites, Turns, Writes
<1> QED BY <1>7, <1>11, <1>12, <1>13, <1>14, <1>15, <1>16 DEF VaultInv

\* Linking an account through the inbox keeps it.
LEMMA OauthStep == ASSUME VaultInv, (\E k \in OauthKeys : LinkReads(k)) \/ LinkWrites PROVE VaultInv'
<1>1. RowOK(stored) /\ DOMAIN client = Clients
  BY DEF VaultInv
<1>2. CASE \E k \in OauthKeys : LinkReads(k)
  <2>1. PICK k \in OauthKeys : LinkReads(k)
    BY <1>2
  <2>2. /\ UNCHANGED <<stored, migration, client, fresh, shownKeys, told, mishap, lastPass>>
        /\ stored.seal # NoSeal
    BY <2>1 DEF LinkReads
  <2>3. /\ HasSeal' = HasSeal /\ OneVault' = OneVault /\ KeptTokens' = KeptTokens /\ \A ms : Spared(ms)' = Spared(ms)
    BY <2>2 DEF HasSeal, OneVault, KeptTokens, Spared
  <2>4. (\A r : RowOK(r) => RowOK(r)') /\ (\A y : ClientOK(y) => ClientOK(y)')
    BY <2>2, <2>3, Ages
  <2>5. PICK l : l = [seen |-> stored, tok |-> k]
    OBVIOUS
  <2>6. linking' = <<l>> /\ l.seen = stored
    BY <2>1, <2>5 DEF LinkReads
  <2>7. (linking = <<>> \/ \E m : linking = <<m>> /\ RowOK(m.seen) /\ m.seen.seal # NoSeal)'
    BY <1>1, <2>2, <2>4, <2>6
  <2>8. RowOK(stored)' /\ \A d \in Clients : ClientOK(client[d])'
    BY <1>1, <2>2, <2>4 DEF VaultInv
  <2> QED BY <1>1, <2>2, <2>3, <2>7, <2>8 DEF VaultInv
<1>3. CASE LinkWrites
  <2>1. PICK l : linking = <<l>> /\ RowOK(l.seen) /\ l.seen.seal # NoSeal
    BY <1>3 DEF VaultInv, LinkWrites
  <2>2. /\ stored' = [stored EXCEPT !.inbox = l.seen.inbox \union {InboxEntry(l.seen.seal, l.tok)}]
        /\ told' = told \union {l.tok} /\ linking' = <<>>
        /\ mishap' = mishap \union (IF l.seen # stored THEN {"overlap"} ELSE {})
        /\ UNCHANGED <<migration, client, fresh, shownKeys, lastPass>>
    BY <1>3, <2>1 DEF LinkWrites
  <2>3. PICK e : e = InboxEntry(l.seen.seal, l.tok)
    OBVIOUS
  <2>4. /\ stored'.seal = stored.seal /\ stored'.blob = stored.blob /\ DOMAIN stored' = {"seal", "blob", "inbox"}
        /\ stored'.inbox = l.seen.inbox \union {e} /\ e.box = l.seen.seal.box /\ e.tok = l.tok
    BY <1>1, <2>2, <2>3 DEF RowOK, InboxEntry
  <2>5. HasSeal' = HasSeal /\ HasSeal /\ (OneVault' <=> OneVault) /\ (mishap' = {} => mishap = {} /\ l.seen = stored)
    BY <2>1, <2>2, <2>4 DEF HasSeal, OneVault, Spared, RowOK
  <2>6. mishap' = {} => KeptTokens \subseteq KeptTokens' /\ told' \subseteq KeptTokens'
    BY <2>2, <2>4, <2>5 DEF VaultInv, KeptTokens, Tokens
  <2>7. (\A r : RowOK(r) => RowOK(r)') /\ (\A y : ClientOK(y) => ClientOK(y)')
    BY <2>4, <2>5, <2>6, Ages
  <2>8. RowOK(stored)'
    <3>1. l.seen.seal.box = l.seen.seal.rec /\ (OneVault => l.seen.seal.rec = stored.seal.rec /\ \A i \in l.seen.inbox : i.box = l.seen.seal.rec)
      BY <2>1 DEF RowOK, IsSeal
    <3>2. OneVault' => \A i \in stored'.inbox : i.box = stored'.seal.rec
      BY <2>4, <2>5, <3>1
    <3> QED BY <1>1, <2>4, <2>5, <3>2 DEF RowOK, HasSeal
  <2>9. \A d \in Clients : ClientOK(client[d])'
    BY <2>2, <2>7 DEF VaultInv
  <2>10. (Spared({"overlap"}) => stored.seal.pass = lastPass)' /\ mishap' \subseteq Mishaps
    BY <2>2, <2>4 DEF VaultInv, Spared, Mishaps
  <2> QED BY <1>1, <2>2, <2>4, <2>5, <2>6, <2>8, <2>9, <2>10 DEF VaultInv
<1> QED BY <1>2, <1>3

\* No step breaks the invariant of the vault.
LEMMA VaultStep == VaultInv /\ [VaultNext]_vaultVars => VaultInv'
<1> SUFFICES ASSUME VaultInv, [VaultNext]_vaultVars PROVE VaultInv'
  OBVIOUS
<1>1. CASE UNCHANGED vaultVars
  <2>1. UNCHANGED <<stored, migration, client, linking, fresh, shownKeys, told, mishap, lastPass>>
    BY <1>1 DEF vaultVars
  <2>2. /\ HasSeal' = HasSeal /\ OneVault' = OneVault /\ KeptTokens' = KeptTokens /\ \A ms : Spared(ms)' = Spared(ms)
    BY <2>1 DEF HasSeal, OneVault, KeptTokens, Spared
  <2>3. (\A r : RowOK(r) => RowOK(r)') /\ (\A y : ClientOK(y) => ClientOK(y)')
    BY <2>1, <2>2, Ages
  <2> QED BY <2>1, <2>2, <2>3 DEF VaultInv
<1>2. CASE VaultNext
  BY <1>2, LoadStep, CreateVaultStep, PlainStep, LockedStep, ChangeStep, WrapStep, ForgetStep, PutReadsStep, PutWritesStep,
     AnsweredStep, LostStep, UnlockStep, SaveSecretStep, OauthStep
     DEF VaultNext
<1> QED BY <1>1, <1>2

\* It is enough.
LEMMA VaultInvKeeps == VaultInv => VaultOpens /\ RecoveryWorks /\ PassphraseHolds /\ SecretsKept
<1> SUFFICES ASSUME VaultInv PROVE VaultOpens /\ RecoveryWorks /\ PassphraseHolds /\ SecretsKept
  OBVIOUS
<1>1. RowOK(stored)
  BY DEF VaultInv
<1>2. HasSeal /\ OneVault => stored.seal.dek = stored.seal.rec /\ stored.seal.box = stored.seal.rec
  BY <1>1 DEF RowOK, IsSeal, HasSeal
<1>3. VaultOpens
  <2>1. HasSeal => stored.blob.key # ServerKey
    BY <1>1, VaultConstants DEF RowOK, HasSeal, NoBlob, ServerKey
  <2> QED BY <1>1, <1>2, <2>1 DEF VaultOpens, RowOK, HasSeal, OneVault
<1>4. RecoveryWorks /\ PassphraseHolds
  BY <1>2 DEF VaultInv, RecoveryWorks, PassphraseHolds, OneVault
<1>5. SecretsKept
  <2> SUFFICES ASSUME mishap = {} PROVE told \subseteq stored.blob.keys \union {e.tok : e \in Openable(stored)}
    BY DEF SecretsKept, Spared, VaultInv
  <2>1. told \subseteq KeptTokens /\ OneVault
    BY DEF VaultInv, OneVault, Spared
  <2>2. stored.inbox \subseteq Openable(stored)
    BY <1>1, <1>2, <2>1 DEF RowOK, Openable, HasSeal
  <2> QED BY <2>1, <2>2 DEF KeptTokens, Tokens
<1> QED BY <1>3, <1>4, <1>5

\* For any clients, puts that overlap or come late, lost answers and changes of the passphrase:
\* what is stored opens under the key that the passphrase unwraps, a recovery key once shown
\* works, the last passphrase holds, and a secret said to be saved is there (but for the mishaps
\* that each of the four names).
THEOREM VaultHoldsTrue == VaultSpec => [](VaultOpens /\ RecoveryWorks /\ PassphraseHolds /\ SecretsKept)
<1>1. VaultSpec => []VaultInv
  BY VaultStarts, VaultStep, PTL DEF VaultSpec
<1> QED BY <1>1, VaultInvKeeps, PTL

\* No more is started than the bound allows.
FewMoves == vaultMoves \in 0..VaultMoves

\* Every start counts.
LEMMA MovesCount == FewMoves /\ [VaultNext]_vaultVars => FewMoves'
<1>1. VaultNext => VaultMove \/ UNCHANGED vaultMoves
  <2>1. \A c \in Clients : LoadSettings(c) \/ CreateVault(c) \/ SavePlain(c) \/ SaveLocked(c) \/ AnswerLost(c) => VaultMove
    BY DEF LoadSettings, CreateVault, SavePlain, SaveLocked, AnswerLost
  <2>2. \A c \in Clients : ChangePassphrase(c) \/ WrapKey(c) \/ ForgetKey(c) \/ PutReads(c) \/ PutWrites(c) \/ PutAnswered(c)
                           => UNCHANGED vaultMoves
    BY DEF ChangePassphrase, WrapKey, ForgetKey, PutReads, PutWrites, PutAnswered
  <2>3. \A c, way, k : UnlockVault(c, way) \/ SaveSecret(c, k) => VaultMove
    BY DEF UnlockVault, SaveSecret
  <2>4. (\A k \in OauthKeys : LinkReads(k) => VaultMove) /\ (LinkWrites => UNCHANGED vaultMoves)
    BY DEF LinkReads, LinkWrites
  <2> QED BY <2>1, <2>2, <2>3, <2>4 DEF VaultNext
<1>2. FewMoves /\ (VaultMove \/ UNCHANGED vaultMoves) => FewMoves'
  BY VaultConstants DEF VaultMove, FewMoves
<1>3. UNCHANGED vaultVars => UNCHANGED vaultMoves
  BY DEF vaultVars
<1> QED BY <1>1, <1>2, <1>3

\* A row opens under a key that was made, the server's or none.
LEMMA VaultTypesHold == VaultInv /\ FewMoves => VaultTypeOK
<1> SUFFICES ASSUME VaultInv, FewMoves PROVE VaultTypeOK
  OBVIOUS
<1>1. MaxSeals \in Nat /\ NoSeal.dek = -2 /\ NoBlob.key = -2 /\ LegacyBlob.key = -1
  BY VaultConstants DEF NoSeal, NoBlob, LegacyBlob, ServerKey
<1>2. RowOK(stored)
  BY DEF VaultInv
<1>3. stored.seal.dek \in -2..MaxSeals
  <2>1. CASE stored.seal = NoSeal
    BY <1>1, <2>1
  <2>2. CASE stored.seal # NoSeal
    BY <1>1, <1>2, <2>2 DEF RowOK, IsSeal, Zeroed
  <2> QED BY <2>1, <2>2
<1>4. stored.blob.key \in -2..MaxSeals
  <2>1. stored.blob \in {NoBlob, LegacyBlob} \/ stored.blob.key \in 1..MaxSeals
    BY <1>2 DEF RowOK
  <2> QED BY <1>1, <2>1
<1>5. \A c \in Clients : client[c].pc \in {"idle", "wrapping", "sent", "read", "written"}
  BY DEF VaultInv, ClientOK
<1> QED BY <1>3, <1>4, <1>5 DEF VaultInv, VaultTypeOK, FewMoves

\* The types of the vault's variables.
LEMMA VaultTypesAre == VaultSpec => []VaultTypeOK
<1>1. VaultSpec => []VaultInv
  BY VaultStarts, VaultStep, PTL DEF VaultSpec
<1>2. VaultInit => FewMoves
  BY VaultConstants DEF VaultInit, FewMoves
<1>3. VaultSpec => []FewMoves
  BY <1>2, MovesCount, PTL DEF VaultSpec
<1> QED BY <1>1, <1>3, VaultTypesHold, PTL

-----------------------------------------------------------------------------
(* The recovery key of a vault.  The bits of the key are a stream; its bytes  *)
(* and its letters are cut out of it (CutOf), and regrouping bits goes on     *)
(* where it was (Carries), so what is cut again in bytes are the bytes.       *)

Bit == {0, 1}
Byte == [1 .. 8 -> Bit]

\* A unit of bits, cut out of a stream.
CutOf(stream, unit, size, at) ==
    unit \in Seq(Bit) /\ Len(unit) = size /\ \A i \in 1 .. size : unit[i] = stream[at + i]

\* Units of m bits have been taken of a stream k times, and given in units of n.
Carries(holder, stream, m, k, n) ==
    /\ holder.rest \in Seq(Bit) /\ holder.out \in Seq(Seq(Bit))
    /\ Len(holder.rest) < n /\ Len(holder.out) * n + Len(holder.rest) = k * m
    /\ \A j \in 1 .. Len(holder.out) : CutOf(stream, holder.out[j], n, (j - 1) * n)
    /\ CutOf(stream, holder.rest, Len(holder.rest), Len(holder.out) * n)

\* A function on positions is a sequence.
LEMMA PositionsSeq == ASSUME NEW S, NEW n \in Nat, NEW s \in [1 .. n -> S] PROVE s \in Seq(S) /\ Len(s) = n
  OBVIOUS

\* Products of numbers.
LEMMA Multiples == ASSUME NEW a \in Nat, NEW b \in Nat, NEW n \in Nat
                   PROVE  /\ a * n \in Nat /\ (a + b) * n = a * n + b * n /\ (a + 1) * n = a * n + n
                          /\ a <= b => a * n <= b * n
<1>1. a * n \in Nat /\ (a + b) * n = a * n + b * n /\ (a + 1) * n = a * n + n
  OBVIOUS
<1>2. ASSUME a <= b PROVE a * n <= b * n
  <2>1. PICK d \in Nat : b = a + d
    <3>1. b - a \in Nat /\ b = a + (b - a)
      BY <1>2
    <3> QED BY <3>1
  <2>2. b * n = a * n + d * n /\ d * n \in Nat /\ a * n \in Nat
    BY <2>1
  <2> QED BY <2>2
<1> QED BY <1>1, <1>2

\* A quotient by what is left out of it.
LEMMA Left == ASSUME NEW a \in Nat, NEW n \in Nat \ {0}
              PROVE  a \div n \in Nat /\ (a \div n) * n <= a /\ a < (a \div n) * n + n
  OBVIOUS

\* A part of what was cut out of a stream is cut out of it.
LEMMA PartOf ==
    ASSUME NEW stream, NEW bits, NEW size \in Nat, NEW at \in Nat, CutOf(stream, bits, size, at),
           NEW a \in Nat, NEW b \in Nat, a <= b, b <= size
    PROVE  CutOf(stream, SubSeq(bits, a + 1, b), b - a, at + a)
<1>1. PICK part : part = SubSeq(bits, a + 1, b)
  OBVIOUS
<1>2. bits \in Seq(Bit) /\ Len(bits) = size /\ \A i \in 1 .. size : bits[i] = stream[at + i]
  BY DEF CutOf
<1>3. \A i \in a + 1 .. b : bits[i] \in Bit
  <2>1. \A i \in 1 .. Len(bits) : bits[i] \in Bit
    BY <1>2
  <2> QED BY <1>2, <2>1
<1>4. /\ part \in Seq(Bit) /\ Len(part) = (IF a + 1 <= b THEN b - (a + 1) + 1 ELSE 0)
      /\ \A i \in 1 .. b - (a + 1) + 1 : part[i] = bits[a + 1 + i - 1]
  <2>1. a + 1 \in Int /\ b \in Int
    OBVIOUS
  <2>2. PICK c : c = a + 1
    OBVIOUS
  <2>3. \A i \in c .. b : bits[i] \in Bit
    BY <1>3, <2>2
  <2>4. /\ SubSeq(bits, c, b) \in Seq(Bit) /\ Len(SubSeq(bits, c, b)) = (IF c <= b THEN b - c + 1 ELSE 0)
        /\ \A i \in 1 .. b - c + 1 : SubSeq(bits, c, b)[i] = bits[c + i - 1]
    BY <2>1, <2>2, <2>3, SubSeqProperties
  <2> QED BY <1>1, <2>2, <2>4
<1>5. Len(part) = b - a
  BY <1>4
<1>6. \A i \in 1 .. b - a : part[i] = stream[at + a + i]
  <2>1. SUFFICES ASSUME NEW i \in 1 .. b - a PROVE part[i] = stream[at + a + i]
    OBVIOUS
  <2>2. i \in 1 .. b - (a + 1) + 1 /\ a + 1 + i - 1 = a + i /\ a + i \in 1 .. size /\ at + (a + i) = at + a + i
    OBVIOUS
  <2>3. part[i] = bits[a + i]
    BY <1>4, <2>2
  <2> QED BY <1>2, <2>2, <2>3
<1> QED BY <1>1, <1>4, <1>5, <1>6 DEF CutOf

\* Bits cut into whole units, and what is left.
LEMMA Pieces ==
    ASSUME NEW stream, NEW bits, NEW size \in Nat, NEW at \in Nat, CutOf(stream, bits, size, at),
           NEW n \in Nat \ {0}, NEW whole, whole = size \div n
    PROVE  /\ whole \in Nat /\ whole * n \in Nat /\ size - whole * n \in Nat /\ size - whole * n < n
           /\ \A i \in 1 .. whole : CutOf(stream, SubSeq(bits, (i - 1) * n + 1, i * n), n, at + (i - 1) * n)
           /\ CutOf(stream, SubSeq(bits, whole * n + 1, size), size - whole * n, at + whole * n)
<1>1. PICK all : all = whole * n
  OBVIOUS
<1>2. whole \in Nat /\ all \in Nat /\ all <= size /\ size < all + n
  BY <1>1, Left, Multiples
<1>3. CutOf(stream, SubSeq(bits, all + 1, size), size - all, at + all)
  <2>1. size <= size
    OBVIOUS
  <2> QED BY <1>2, <2>1, PartOf
<1>4. ASSUME NEW i \in 1 .. whole PROVE CutOf(stream, SubSeq(bits, (i - 1) * n + 1, i * n), n, at + (i - 1) * n)
  <2>1. PICK h \in Nat : i = h + 1 /\ h = i - 1
    <3>1. i - 1 \in Nat /\ i = (i - 1) + 1
      BY <1>2
    <3> QED BY <3>1
  <2>2. PICK a, b : a = h * n /\ b = i * n
    OBVIOUS
  <2>3. a \in Nat /\ b = a + n
    BY <2>1, <2>2, Multiples
  <2>4. b <= all
    <3>1. i \in Nat /\ i <= whole
      BY <1>2
    <3> QED BY <1>1, <1>2, <2>2, <3>1, Multiples
  <2>5. b \in Nat /\ a <= b /\ b <= size /\ b - a = n
    BY <1>2, <2>3, <2>4
  <2>6. CutOf(stream, SubSeq(bits, a + 1, b), b - a, at + a)
    BY <2>3, <2>5, PartOf
  <2> QED BY <2>1, <2>2, <2>5, <2>6
<1>5. size - all \in Nat /\ size - all < n
  BY <1>2
<1> QED BY <1>1, <1>2, <1>3, <1>4, <1>5

Buffers == [rest : Seq(Bit), out : Seq(Seq(Bit))]

\* The pieces as a sequence.
PiecesOf(bits, whole, n) == [i \in 1 .. whole |-> SubSeq(bits, (i - 1) * n + 1, i * n)]

\* A buffer stays one.
LEMMA TakenIn == ASSUME NEW holder \in Buffers, NEW unit \in Seq(Bit), NEW n \in Nat \ {0}
                 PROVE  Taken(holder, unit, n) \in Buffers
<1>1. PICK bits : bits = holder.rest \o unit
  OBVIOUS
<1>2. PICK size, whole : size = Len(bits) /\ whole = size \div n
  OBVIOUS
<1>3. bits \in Seq(Bit) /\ size \in Nat /\ holder.out \in Seq(Seq(Bit))
  <2>1. holder.rest \in Seq(Bit) /\ holder.out \in Seq(Seq(Bit))
    BY DEF Buffers
  <2>2. bits \in Seq(Bit)
    BY <1>1, <2>1, ConcatProperties
  <2> QED BY <1>2, <2>1, <2>2, LenProperties
<1>4. CutOf(bits, bits, size, 0)
  BY <1>2, <1>3 DEF CutOf
<1>5. /\ whole \in Nat /\ \A i \in 1 .. whole : CutOf(bits, SubSeq(bits, (i - 1) * n + 1, i * n), n, 0 + (i - 1) * n)
      /\ CutOf(bits, SubSeq(bits, whole * n + 1, size), size - whole * n, 0 + whole * n)
  <2>1. 0 \in Nat
    OBVIOUS
  <2> QED BY <1>2, <1>3, <1>4, <2>1, Pieces
<1>6. PICK pieces : pieces = PiecesOf(bits, whole, n)
  OBVIOUS
<1>7. \A i \in 1 .. whole : SubSeq(bits, (i - 1) * n + 1, i * n) \in Seq(Bit)
  BY <1>5 DEF CutOf
<1>8. pieces \in Seq(Seq(Bit))
  <2>1. pieces \in [1 .. whole -> Seq(Bit)]
    BY <1>6, <1>7 DEF PiecesOf
  <2> QED BY <1>5, <2>1, PositionsSeq
<1>9. SubSeq(bits, whole * n + 1, size) \in Seq(Bit)
  BY <1>5 DEF CutOf
<1>10. holder.out \o pieces \in Seq(Seq(Bit))
  BY <1>3, <1>8, ConcatProperties
<1>11. Taken(holder, unit, n) = [rest |-> SubSeq(bits, whole * n + 1, size), out |-> holder.out \o pieces]
  BY <1>1, <1>2, <1>6 DEF Taken, PiecesOf
<1> QED BY <1>9, <1>10, <1>11 DEF Buffers

\* One more unit of the stream.
LEMMA TakenCarries ==
    ASSUME NEW holder, NEW stream, NEW m \in Nat \ {0}, NEW n \in Nat \ {0}, NEW k \in Nat,
           Carries(holder, stream, m, k, n), NEW unit, CutOf(stream, unit, m, k * m)
    PROVE  Carries(Taken(holder, unit, n), stream, m, k + 1, n)
<1>1. PICK rest, out : rest = holder.rest /\ out = holder.out
  OBVIOUS
<1>2. PICK l, r : l = Len(out) /\ r = Len(rest)
  OBVIOUS
<1>3. PICK base, at : base = l * n /\ at = k * m
  OBVIOUS
<1>4. /\ rest \in Seq(Bit) /\ out \in Seq(Seq(Bit)) /\ l \in Nat /\ r \in Nat
      /\ \A j \in 1 .. l : CutOf(stream, out[j], n, (j - 1) * n)
      /\ CutOf(stream, rest, r, base)
  BY <1>1, <1>2, <1>3 DEF Carries
<1>5. base \in Nat /\ at \in Nat /\ base + r = at
  <2>1. base \in Nat /\ at \in Nat
    BY <1>3, <1>4, Multiples
  <2> QED BY <1>1, <1>2, <1>3, <2>1 DEF Carries
<1>6. PICK bits, size : bits = rest \o unit /\ size = r + m
  OBVIOUS
<1>7. CutOf(stream, bits, size, base)
  <2>1. /\ unit \in Seq(Bit) /\ Len(unit) = m /\ (\A i \in 1 .. m : unit[i] = stream[at + i])
        /\ \A i \in 1 .. r : rest[i] = stream[base + i]
    BY <1>3, <1>4 DEF CutOf
  <2>2. /\ bits \in Seq(Bit) /\ Len(bits) = size
        /\ \A i \in 1 .. size : bits[i] = IF i <= r THEN rest[i] ELSE unit[i - r]
    <3>1. /\ rest \o unit \in Seq(Bit) /\ Len(rest \o unit) = Len(rest) + Len(unit)
          /\ \A i \in 1 .. Len(rest) + Len(unit) :
                (rest \o unit)[i] = IF i <= Len(rest) THEN rest[i] ELSE unit[i - Len(rest)]
      BY <1>4, <2>1, ConcatProperties
    <3> QED BY <1>2, <1>6, <2>1, <3>1
  <2>3. ASSUME NEW i \in 1 .. size PROVE bits[i] = stream[base + i]
    <3>1. CASE i <= r
      <4>1. i \in 1 .. r
        BY <1>4, <1>6, <3>1
      <4> QED BY <2>1, <2>2, <3>1, <4>1
    <3>2. CASE ~(i <= r)
      <4>1. i - r \in 1 .. m /\ at + (i - r) = base + i
        BY <1>4, <1>5, <1>6, <3>2
      <4> QED BY <2>1, <2>2, <3>2, <4>1
    <3> QED BY <3>1, <3>2
  <2> QED BY <2>2, <2>3 DEF CutOf
<1>8. size \in Nat
  BY <1>4, <1>6
<1>9. PICK whole, all : whole = size \div n /\ all = whole * n
  OBVIOUS
<1>10. /\ whole \in Nat /\ all \in Nat /\ size - all \in Nat /\ size - all < n
       /\ \A i \in 1 .. whole : CutOf(stream, SubSeq(bits, (i - 1) * n + 1, i * n), n, base + (i - 1) * n)
       /\ CutOf(stream, SubSeq(bits, all + 1, size), size - all, base + all)
  BY <1>5, <1>7, <1>8, <1>9, Pieces
<1>11. PICK pieces, tail, longer : /\ pieces = PiecesOf(bits, whole, n) /\ tail = SubSeq(bits, all + 1, size)
                                   /\ longer = out \o pieces
  OBVIOUS
<1>12. \A i \in 1 .. whole : pieces[i] = SubSeq(bits, (i - 1) * n + 1, i * n)
  BY <1>11 DEF PiecesOf
<1>13. \A i \in 1 .. whole : CutOf(stream, pieces[i], n, base + (i - 1) * n)
  BY <1>10, <1>12
<1>14. pieces \in Seq(Seq(Bit)) /\ Len(pieces) = whole
  <2>1. \A i \in 1 .. whole : pieces[i] \in Seq(Bit)
    BY <1>13 DEF CutOf
  <2>2. pieces \in [1 .. whole -> Seq(Bit)]
    BY <1>11, <1>12, <2>1 DEF PiecesOf
  <2> QED BY <1>10, <2>2, PositionsSeq
<1>15. /\ longer \in Seq(Seq(Bit)) /\ Len(longer) = l + whole
       /\ \A j \in 1 .. l + whole : longer[j] = IF j <= l THEN out[j] ELSE pieces[j - l]
  <2>1. /\ out \o pieces \in Seq(Seq(Bit)) /\ Len(out \o pieces) = Len(out) + Len(pieces)
        /\ \A j \in 1 .. Len(out) + Len(pieces) :
              (out \o pieces)[j] = IF j <= Len(out) THEN out[j] ELSE pieces[j - Len(out)]
    BY <1>4, <1>14, ConcatProperties
  <2> QED BY <1>2, <1>11, <1>14, <2>1
<1>16. ASSUME NEW j \in 1 .. l + whole PROVE CutOf(stream, longer[j], n, (j - 1) * n)
  <2>1. CASE j <= l
    <3>1. j \in 1 .. l
      BY <1>4, <2>1
    <3> QED BY <1>4, <1>15, <2>1, <3>1
  <2>2. CASE ~(j <= l)
    <3>1. PICK i : i = j - l
      OBVIOUS
    <3>2. i \in 1 .. whole /\ i - 1 \in Nat /\ j - 1 = l + (i - 1)
      BY <1>4, <1>10, <2>2, <3>1
    <3>3. (j - 1) * n = base + (i - 1) * n
      <4>1. PICK h : h = i - 1
        OBVIOUS
      <4>2. (l + h) * n = l * n + h * n
        BY <1>4, <3>2, <4>1, Multiples
      <4> QED BY <1>3, <3>2, <4>1, <4>2
    <3>4. longer[j] = pieces[i]
      BY <1>15, <2>2, <3>1
    <3> QED BY <1>13, <3>2, <3>3, <3>4
  <2> QED BY <2>1, <2>2
<1>17. (l + whole) * n = base + all /\ (k + 1) * m = at + m
  BY <1>3, <1>4, <1>9, <1>10, Multiples
<1>18. tail \in Seq(Bit) /\ Len(tail) = size - all /\ CutOf(stream, tail, size - all, base + all)
  BY <1>10, <1>11 DEF CutOf
<1>19. base + all + (size - all) = at + m
  BY <1>4, <1>5, <1>6, <1>10
<1>20. PICK next : next = Taken(holder, unit, n)
  OBVIOUS
<1>21. next.rest = tail /\ next.out = longer
  <2>1. Len(bits) = size
    BY <1>7 DEF CutOf
  <2> QED BY <1>1, <1>6, <1>9, <1>11, <1>20, <2>1 DEF Taken, PiecesOf
<1>22. Carries(next, stream, m, k + 1, n)
  BY <1>10, <1>15, <1>16, <1>17, <1>18, <1>19, <1>21 DEF Carries
<1> QED BY <1>20, <1>22

\* What the units of a stream are regrouped into.
LEMMA Regrouped ==
    ASSUME NEW stream, NEW m \in Nat \ {0}, NEW n \in Nat \ {0}, NEW units \in Seq(Seq(Bit)),
           \A k \in 1 .. Len(units) : CutOf(stream, units[k], m, (k - 1) * m)
    PROVE  Carries(Regroup(units, n), stream, m, Len(units), n)
<1> DEFINE c == Len(units)
           Walks(g) == g = [k \in 0 .. c |-> IF k = 0 THEN EmptyBuffer ELSE Taken(g[k - 1], units[k], n)]
<1>1. c \in Nat /\ \A k \in 1 .. c : units[k] \in Seq(Bit)
  BY ElementOfSeq, LenProperties
<1>2. Regroup(units, n) = (CHOOSE g : Walks(g))[c]
  BY DEF Regroup
<1> HIDE DEF c
<1>3. \E g : Walks(g)
  <2> DEFINE step == [x \in Buffers \X (1 .. c) |-> Taken(x[1], units[x[2]], n)]
  <2>1. ASSUME NEW e \in Buffers, NEW k \in 1 .. c PROVE Taken(e, units[k], n) \in Buffers
    BY <1>1, TakenIn
  <2>2. step \in [Buffers \X (1 .. c) -> Buffers] /\ EmptyBuffer \in Buffers
    <3>1. EmptyBuffer \in Buffers
      <4>1. <<>> \in Seq(Bit) /\ <<>> \in Seq(Seq(Bit))
        BY EmptySeq
      <4> QED BY <4>1 DEF EmptyBuffer, Buffers
    <3> QED BY <2>1, <3>1
  <2>3. PICK g \in [0 .. c -> Buffers] : g[0] = EmptyBuffer /\ \A k \in 1 .. c : g[k] = step[<<g[k - 1], k>>]
    <3> HIDE DEF step
    <3>1. Runs(c, Buffers, EmptyBuffer, step)
      BY <1>1, <2>2, StepsExist
    <3> QED BY <3>1 DEF Runs
  <2>4. \A k \in 1 .. c : g[k] = Taken(g[k - 1], units[k], n)
    <3> SUFFICES ASSUME NEW k \in 1 .. c PROVE g[k] = Taken(g[k - 1], units[k], n)
      OBVIOUS
    <3>1. g[k - 1] \in Buffers
      BY <1>1, <2>3
    <3> QED BY <2>3, <3>1
  <2>5. Walks(g)
    BY <1>1, <2>3, <2>4
  <2> QED BY <2>5
<1>4. ASSUME NEW g, Walks(g) PROVE Carries(g[c], stream, m, c, n)
  <2> DEFINE T == {k \in 0 .. c : Carries(g[k], stream, m, k, n)}
  <2>1. 0 \in T
    <3>1. g[0] = EmptyBuffer
      BY <1>1, <1>4
    <3>2. Carries(EmptyBuffer, stream, m, 0, n)
      <4>1. /\ <<>> \in Seq(Bit) /\ <<>> \in Seq(Seq(Bit)) /\ Len(<<>>) = 0 /\ 0 * n = 0 /\ 0 * m = 0
        BY EmptySeq
      <4>2. EmptyBuffer.rest = <<>> /\ EmptyBuffer.out = <<>>
        BY DEF EmptyBuffer
      <4>3. CutOf(stream, <<>>, 0, 0)
        BY <4>1 DEF CutOf
      <4> QED BY <4>1, <4>2, <4>3 DEF Carries
    <3> QED BY <1>1, <3>1, <3>2
  <2>2. ASSUME NEW k \in 1 .. c, k - 1 \in T PROVE k \in T
    <3>1. g[k] = Taken(g[k - 1], units[k], n) /\ k \in 0 .. c
      BY <1>1, <1>4
    <3>2. PICK h : h = k - 1
      OBVIOUS
    <3>3. h \in Nat /\ k = h + 1
      BY <1>1, <3>2
    <3>4. Carries(g[h], stream, m, h, n) /\ CutOf(stream, units[k], m, h * m)
      BY <2>2, <3>2 DEF c
    <3>5. Carries(Taken(g[h], units[k], n), stream, m, h + 1, n)
      BY <3>3, <3>4, TakenCarries
    <3> QED BY <3>1, <3>2, <3>3, <3>5
  <2> HIDE DEF T
  <2>3. 0 .. c \subseteq T
    BY <1>1, <2>1, <2>2, StepsKeep
  <2> QED BY <1>1, <2>3 DEF T
<1> HIDE DEF Walks
<1> QED BY <1>2, <1>3, <1>4 DEF c

\* What was cut out of the same place is the same.
LEMMA SameCut == ASSUME NEW stream, NEW a, NEW b, NEW size \in Nat, NEW at, CutOf(stream, a, size, at), CutOf(stream, b, size, at)
                 PROVE  a = b
<1>1. a \in Seq(Bit) /\ b \in Seq(Bit) /\ Len(a) = Len(b) /\ \A i \in 1 .. Len(a) : a[i] = b[i]
  BY DEF CutOf
<1> QED BY <1>1, SeqEqual

\* The bits of a key, with zeros after them.
BitsOf(raw) == [p \in Nat |-> IF p \in 1 .. 8 * KeyBytes THEN raw[((p - 1) \div 8) + 1][((p - 1) % 8) + 1] ELSE 0]

\* The bytes are cut out of the bits of the key.
LEMMA BytesCut ==
    ASSUME NEW raw \in [1 .. KeyBytes -> Byte]
    PROVE  /\ KeyBytes \in Nat \ {0} /\ raw \in Seq(Seq(Bit)) /\ Len(raw) = KeyBytes
           /\ \A k \in 1 .. Len(raw) : CutOf(BitsOf(raw), raw[k], 8, (k - 1) * 8)
<1>1. PICK n \in Nat \ {0} : n = KeyBytes
  BY VaultConstants
<1>2. \A k \in 1 .. n : raw[k] \in [1 .. 8 -> Bit]
  BY <1>1 DEF Byte
<1>3. \A k \in 1 .. n : raw[k] \in Seq(Bit) /\ Len(raw[k]) = 8
  <2>1. PICK w \in Nat : w = 8
    OBVIOUS
  <2>2. \A k \in 1 .. n : raw[k] \in [1 .. w -> Bit]
    BY <1>2, <2>1
  <2>3. \A k \in 1 .. n : raw[k] \in Seq(Bit) /\ Len(raw[k]) = w
    BY <2>2, PositionsSeq
  <2> QED BY <2>1, <2>3
<1>4. raw \in Seq(Seq(Bit)) /\ Len(raw) = n
  <2>1. raw \in [1 .. n -> Seq(Bit)]
    BY <1>1, <1>3
  <2> QED BY <1>1, <2>1, PositionsSeq
<1>5. ASSUME NEW k \in 1 .. n, NEW i \in 1 .. 8 PROVE BitsOf(raw)[(k - 1) * 8 + i] = raw[k][i]
  <2>1. PICK p : p = (k - 1) * 8 + i
    OBVIOUS
  <2>2. p \in Nat /\ p \in 1 .. 8 * n /\ ((p - 1) \div 8) + 1 = k /\ ((p - 1) % 8) + 1 = i
    BY <1>1, <2>1
  <2> QED BY <1>1, <2>1, <2>2 DEF BitsOf
<1>6. \A k \in 1 .. n : CutOf(BitsOf(raw), raw[k], 8, (k - 1) * 8)
  BY <1>3, <1>5 DEF CutOf
<1> QED BY <1>1, <1>4, <1>6

\* So are the letters, and there are as many as it takes.
LEMMA LettersCut ==
    ASSUME NEW raw \in [1 .. KeyBytes -> Byte], NEW text, text = Letters(raw)
    PROVE  /\ text \in Seq(Seq(Bit)) /\ \A j \in 1 .. Len(text) : CutOf(BitsOf(raw), text[j], 5, (j - 1) * 5)
           /\ Len(text) \in Nat /\ Len(text) * 5 >= KeyBytes * 8 /\ Len(text) * 5 < KeyBytes * 8 + 5
<1>1. PICK n, stream : n = KeyBytes /\ stream = BitsOf(raw)
  OBVIOUS
<1>2. /\ n \in Nat \ {0} /\ raw \in Seq(Seq(Bit)) /\ Len(raw) = n
      /\ \A k \in 1 .. Len(raw) : CutOf(stream, raw[k], 8, (k - 1) * 8)
  BY <1>1, BytesCut
<1>3. PICK r : r = Regroup(raw, 5)
  OBVIOUS
<1>4. Carries(r, stream, 8, n, 5)
  <2>1. 8 \in Nat \ {0} /\ 5 \in Nat \ {0}
    OBVIOUS
  <2> QED BY <1>2, <1>3, <2>1, Regrouped
<1>5. PICK rest, out : rest = r.rest /\ out = r.out
  OBVIOUS
<1>6. /\ rest \in Seq(Bit) /\ out \in Seq(Seq(Bit)) /\ Len(rest) < 5 /\ Len(out) * 5 + Len(rest) = n * 8
      /\ \A j \in 1 .. Len(out) : CutOf(stream, out[j], 5, (j - 1) * 5)
      /\ CutOf(stream, rest, Len(rest), Len(out) * 5)
  BY <1>4, <1>5 DEF Carries
<1>7. PICK l, m : l = Len(out) /\ m = Len(rest)
  OBVIOUS
<1>8. l \in Nat /\ m \in Nat /\ m < 5 /\ l * 5 + m = n * 8
  BY <1>6, <1>7, LenProperties
<1>9. PICK padded : padded = [i \in 1 .. 5 |-> IF i <= m THEN rest[i] ELSE 0]
  OBVIOUS
<1>10. text = IF rest # <<>> THEN Append(out, padded) ELSE out
  BY <1>3, <1>5, <1>7, <1>9 DEF Letters
<1>11. CASE rest = <<>>
  <2>1. text = out /\ m = 0
    BY <1>7, <1>10, <1>11
  <2> QED BY <1>1, <1>6, <1>7, <1>8, <2>1
<1>12. CASE rest # <<>>
  <2>1. m > 0
    BY <1>6, <1>7, <1>8, <1>12, EmptySeq
  <2>2. \A i \in 1 .. 5 : padded[i] = stream[l * 5 + i] /\ padded[i] \in Bit
    <3>1. SUFFICES ASSUME NEW i \in 1 .. 5 PROVE padded[i] = stream[l * 5 + i] /\ padded[i] \in Bit
      OBVIOUS
    <3>2. CASE i <= m
      <4>1. i \in 1 .. Len(rest)
        BY <1>7, <1>8, <3>2
      <4>2. rest[i] = stream[l * 5 + i] /\ rest[i] \in Bit
        BY <1>6, <1>7, <4>1, ElementOfSeq DEF CutOf
      <4> QED BY <1>9, <3>2, <4>2
    <3>3. CASE ~(i <= m)
      <4>1. padded[i] = 0
        BY <1>9, <3>3
      <4>2. PICK p : p = l * 5 + i
        OBVIOUS
      <4>3. p \in Nat /\ p \notin 1 .. 8 * n
        BY <1>8, <1>2, <3>3, <4>2
      <4>4. stream[p] = 0
        BY <1>1, <4>3 DEF BitsOf
      <4> QED BY <4>1, <4>2, <4>4 DEF Bit
    <3> QED BY <3>2, <3>3
  <2>3. CutOf(stream, padded, 5, l * 5)
    <3>1. PICK w \in Nat : w = 5
      OBVIOUS
    <3>2. padded \in Seq(Bit) /\ Len(padded) = 5
      <4>1. padded \in [1 .. w -> Bit]
        BY <1>9, <2>2, <3>1
      <4>2. padded \in Seq(Bit) /\ Len(padded) = w
        BY <4>1, PositionsSeq
      <4> QED BY <3>1, <4>2
    <3> QED BY <2>2, <3>2 DEF CutOf
  <2>4. /\ text \in Seq(Seq(Bit)) /\ Len(text) = l + 1 /\ text[l + 1] = padded
        /\ \A j \in 1 .. l : text[j] = out[j]
    <3>1. padded \in Seq(Bit)
      BY <2>3 DEF CutOf
    <3>2. text = Append(out, padded)
      BY <1>10, <1>12
    <3> QED BY <1>6, <1>7, <3>1, <3>2, AppendProperties
  <2>5. ASSUME NEW j \in 1 .. l + 1 PROVE CutOf(stream, text[j], 5, (j - 1) * 5)
    <3>1. CASE j = l + 1
      <4>1. (j - 1) * 5 = l * 5
        BY <1>8, <3>1
      <4> QED BY <2>3, <2>4, <3>1, <4>1
    <3>2. CASE j # l + 1
      <4>1. j \in 1 .. l
        BY <1>8, <3>2
      <4> QED BY <1>6, <1>7, <2>4, <4>1
    <3> QED BY <3>1, <3>2
  <2>6. (l + 1) * 5 >= n * 8 /\ (l + 1) * 5 < n * 8 + 5 /\ l + 1 \in Nat
    BY <1>2, <1>8, <2>1
  <2> QED BY <1>1, <2>4, <2>5, <2>6
<1> QED BY <1>11, <1>12

\* Whatever its bytes, and however many: a recovery key comes back from its letters
\* (encodeRecoveryKey, decodeRecoveryKey), and from a letter less it does not.
THEOREM KeyReadsBack ==
    ASSUME NEW raw \in [1 .. KeyBytes -> Byte], NEW text, text = Letters(raw)
    PROVE  RawOf(text) = raw /\ RawOf(SubSeq(text, 1, Len(text) - 1)) = <<>>
<1>1. PICK n, stream, c : n = KeyBytes /\ stream = BitsOf(raw) /\ c = Len(text)
  OBVIOUS
<1>2. /\ n \in Nat \ {0} /\ raw \in Seq(Seq(Bit)) /\ Len(raw) = n
      /\ \A k \in 1 .. n : CutOf(stream, raw[k], 8, (k - 1) * 8)
  BY <1>1, BytesCut
<1>3. /\ text \in Seq(Seq(Bit)) /\ \A j \in 1 .. c : CutOf(stream, text[j], 5, (j - 1) * 5)
      /\ c \in Nat /\ c * 5 >= n * 8 /\ c * 5 < n * 8 + 5
  BY <1>1, LettersCut
<1>4. 8 \in Nat \ {0} /\ 5 \in Nat \ {0}
  OBVIOUS
<1>5. RawOf(text) = raw
  <2>1. PICK out, rest : out = Regroup(text, 8).out /\ rest = Regroup(text, 8).rest
    OBVIOUS
  <2>2. Carries(Regroup(text, 8), stream, 5, c, 8)
    BY <1>1, <1>3, <1>4, Regrouped
  <2>3. /\ rest \in Seq(Bit) /\ out \in Seq(Seq(Bit)) /\ Len(rest) < 8 /\ Len(out) * 8 + Len(rest) = c * 5
        /\ \A j \in 1 .. Len(out) : CutOf(stream, out[j], 8, (j - 1) * 8)
    BY <2>1, <2>2 DEF Carries
  <2>4. Len(out) \in Nat /\ Len(rest) \in Nat
    BY <2>3, LenProperties
  <2>5. Len(out) = n
    <3>1. PICK a \in Nat, b \in Nat : a = Len(out) /\ b = Len(rest)
      BY <2>4
    <3>2. b < 8 /\ a * 8 + b = c * 5 /\ c * 5 >= n * 8 /\ c * 5 < n * 8 + 5
      BY <1>3, <2>3, <3>1
    <3>3. a * 8 < n * 8 + 5 /\ a * 8 > n * 8 - 8
      BY <1>2, <1>3, <3>2
    <3> QED BY <1>2, <3>1, <3>3
  <2>6. \A j \in 1 .. n : out[j] = raw[j]
    BY <1>2, <1>4, <2>3, <2>5, SameCut
  <2>7. out = raw
    BY <1>2, <2>3, <2>5, <2>6, SeqEqual
  <2>8. SubSeq(out, 1, n) = out
    <3>1. /\ SubSeq(out, 1, n) \in Seq(Seq(Bit)) /\ Len(SubSeq(out, 1, n)) = (IF 1 <= n THEN n - 1 + 1 ELSE 0)
          /\ \A i \in 1 .. n - 1 + 1 : SubSeq(out, 1, n)[i] = out[1 + i - 1]
      <4>1. 1 \in Int /\ n \in Int /\ \A i \in 1 .. n : out[i] \in Seq(Bit)
        BY <1>2, <2>3, <2>5, ElementOfSeq
      <4> QED BY <4>1, SubSeqProperties
    <3>2. PICK part : part = SubSeq(out, 1, n)
      OBVIOUS
    <3>3. part \in Seq(Seq(Bit)) /\ Len(part) = Len(out) /\ \A i \in 1 .. Len(part) : part[i] = out[i]
      BY <1>2, <2>5, <3>1, <3>2
    <3> QED BY <2>3, <3>2, <3>3, SeqEqual
  <2> QED BY <1>1, <1>2, <2>1, <2>5, <2>7, <2>8 DEF RawOf
<1>6. RawOf(SubSeq(text, 1, c - 1)) = <<>>
  <2>1. PICK front : front = SubSeq(text, 1, c - 1)
    OBVIOUS
  <2>2. c - 1 \in Nat
    BY <1>2, <1>3
  <2>3. front \in Seq(Seq(Bit)) /\ Len(front) = c - 1 /\ \A j \in 1 .. c - 1 : front[j] = text[j]
    <3>1. PICK d : d = c - 1
      OBVIOUS
    <3>2. 1 \in Int /\ d \in Int /\ \A i \in 1 .. d : text[i] \in Seq(Bit)
      BY <1>1, <1>3, <2>2, <3>1, ElementOfSeq
    <3>3. /\ SubSeq(text, 1, d) \in Seq(Seq(Bit)) /\ Len(SubSeq(text, 1, d)) = (IF 1 <= d THEN d - 1 + 1 ELSE 0)
          /\ \A i \in 1 .. d - 1 + 1 : SubSeq(text, 1, d)[i] = text[1 + i - 1]
      BY <3>2, SubSeqProperties
    <3> QED BY <2>1, <2>2, <3>1, <3>3
  <2>4. \A j \in 1 .. Len(front) : CutOf(stream, front[j], 5, (j - 1) * 5)
    BY <1>3, <2>2, <2>3
  <2>5. Carries(Regroup(front, 8), stream, 5, Len(front), 8)
    BY <1>4, <2>3, <2>4, Regrouped
  <2>6. PICK out, rest : out = Regroup(front, 8).out /\ rest = Regroup(front, 8).rest
    OBVIOUS
  <2>7. rest \in Seq(Bit) /\ out \in Seq(Seq(Bit)) /\ Len(rest) < 8 /\ Len(out) * 8 + Len(rest) = (c - 1) * 5
    BY <2>3, <2>5, <2>6 DEF Carries
  <2>8. Len(out) \in Nat /\ Len(rest) \in Nat
    BY <2>7, LenProperties
  <2>9. Len(out) < n
    BY <1>2, <1>3, <2>7, <2>8
  <2> QED BY <1>1, <2>1, <2>6, <2>9 DEF RawOf
<1> QED BY <1>1, <1>5, <1>6

\* The bytes that the runs try are bytes.
LEMMA TriedAreBytes == SomeBytes \subseteq Byte
  BY DEF SomeBytes, Byte, Bit

\* Keys of these are read back.
LEMMA KeysReadBack == RecoveryKeyReadsBack
<1>1. SUFFICES ASSUME NEW raw \in [1 .. KeyBytes -> SomeBytes]
               PROVE  /\ RawOf(Letters(raw)) = raw
                      /\ RawOf(SubSeq(Letters(raw), 1, Len(Letters(raw)) - 1)) = <<>>
  BY DEF RecoveryKeyReadsBack
<1>2. raw \in [1 .. KeyBytes -> Byte]
  BY TriedAreBytes
<1> QED BY <1>2, KeyReadsBack
====
