---- MODULE PluginBilling ----
(***************************************************************************)
(* How a paid plugin subscription is settled on the web server: CoinPay's  *)
(* webhook and the invoice page's poller, for the invoices of one user and *)
(* one plugin (apps/web/src/lib/plugin-billing.ts and the two routes that  *)
(* call it).  A request is a sequence of database calls; requests of one   *)
(* server, and of several, interleave between any two of them.             *)
(*                                                                         *)
(* Time is counted in subscription periods, `now' and `paidUntil' alike;   *)
(* paidUntil = 0 stands for an install without one, which the code reads   *)
(* as the epoch.                                                           *)
(***************************************************************************)
EXTENDS Integers, FiniteSets

CONSTANTS Invoices,    \* invoices of the user for the plugin, all opened
          Legacy,      \* those paid by a single payment, without a checkout session
          Hooks,       \* requests of the webhook the server may be serving at once
          Polls,       \* those of the invoice page's poller; a name may be of both
          MaxTime,     \* periods that may pass
          MaxFaults    \* requests that may fail or die on the way

ASSUME BillingConstants == /\ Invoices # {} /\ IsFiniteSet(Invoices) /\ Legacy \subseteq Invoices
                           /\ MaxTime \in Nat /\ MaxFaults \in Nat

VARIABLES now,
          payment,     \* [Invoices -> what CoinPay knows of the payment]
          due,         \* the events CoinPay delivers until they are answered 200
          invoice,     \* the plugin_invoices rows: status, and whether paid_at is set
          paidUntil,   \* paid_until of the user_installed_plugins row
          request,     \* [Hooks \cup Polls -> how far the request is]
          faults,
          overlapped   \* history: two settlements were between claim and upsert at once

billingVars == <<now, payment, due, invoice, paidUntil, request, faults, overlapped>>

Requests == Hooks \cup Polls
Kinds    == {"confirmed", "forwarded", "expired"}
Events   == [invoice : Invoices, kind : Kinds]
Statuses == {"pending", "confirmed", "forwarded", "expired"}

\* A request between two calls; kind is "poll" for the poller's.
Idle == [pc |-> "idle", invoice |-> CHOOSE i \in Invoices : TRUE,
         kind |-> "poll", now |-> 0, base |-> 0]

Init == /\ now = 0
        /\ payment = [i \in Invoices |-> "open"]
        /\ due = {}
        /\ invoice = [i \in Invoices |-> [status |-> "pending", paid |-> FALSE]]
        /\ paidUntil = 0
        /\ request = [r \in Requests |-> Idle]
        /\ faults = 0
        /\ overlapped = FALSE

----------------------------------------------------------------------------
(* CoinPay and the clock. *)

Tick == /\ now < MaxTime
        /\ now' = now + 1
        /\ UNCHANGED <<payment, due, invoice, paidUntil, request, faults, overlapped>>

Report(i, state, kind) ==
    /\ payment' = [payment EXCEPT ![i] = state]
    /\ due' = due \cup {[invoice |-> i, kind |-> kind]}
    /\ UNCHANGED <<now, invoice, paidUntil, request, faults, overlapped>>

Pay(i)     == payment[i] \in {"open", "retry"} /\ Report(i, "paid", "confirmed")
Forward(i) == payment[i] = "paid" /\ Report(i, "forwarded", "forwarded")

\* One attempt lapses.  It is the whole of a legacy invoice; a session's buyer may
\* pick another coin.
Lapse(i) == /\ payment[i] = "open"
            /\ Report(i, IF i \in Legacy THEN "expired" ELSE "retry", "expired")

SessionEnds(i) ==
    /\ i \notin Legacy /\ payment[i] \in {"open", "retry"}
    /\ payment' = [payment EXCEPT ![i] = "expired"]
    /\ UNCHANGED <<now, due, invoice, paidUntil, request, faults, overlapped>>

IsPaid(i) == payment[i] \in {"paid", "forwarded"}

----------------------------------------------------------------------------
(* Requests. *)

\* A request keeps what its next calls use; the poller has no event to answer.
GoOn(r, next) ==
    LET q == request[r]
    IN request' = [request EXCEPT ![r] =
           CASE next = "answer" /\ q.kind # "poll" -> [q EXCEPT !.pc = next, !.now = 0, !.base = 0]
             [] next \in {"mark", "read"}          -> [q EXCEPT !.pc = next]
             [] OTHER                              -> Idle]

\* handleCoinPayEvent: the invoice's row is read, then the event's kind decides; an
\* expiry closes only an unpaid legacy invoice.
Handling(i, kind) ==
    CASE kind \in {"confirmed", "forwarded"}                 -> "claim"
      [] kind = "expired" /\ ~invoice[i].paid /\ i \in Legacy -> "close"
      [] OTHER                                               -> "answer"

Deliver(r, e) ==
    /\ r \in Hooks /\ request[r].pc = "idle" /\ e \in due
    /\ LET next == Handling(e.invoice, e.kind)
       IN request' = [request EXCEPT ![r] = [pc |-> next, invoice |-> e.invoice, kind |-> e.kind,
                                             now |-> IF next = "claim" THEN now ELSE 0, base |-> 0]]
    /\ UNCHANGED <<now, payment, due, invoice, paidUntil, faults, overlapped>>

\* The poller asks CoinPay only about an invoice it read as unpaid and pending.
Poll(r, i) ==
    /\ r \in Polls /\ request[r].pc = "idle"
    /\ invoice[i].status = "pending" /\ (~invoice[i].paid \/ i \in Legacy)
    /\ request' = [request EXCEPT ![r] = [Idle EXCEPT !.pc = "ask", !.invoice = i]]
    /\ UNCHANGED <<now, payment, due, invoice, paidUntil, faults, overlapped>>

\* What the poller does with CoinPay's answer: a paid session is settled as by the
\* webhook, a lapsed one is closed; a legacy payment's status is only copied.
Asked(i) ==
    CASE i \notin Legacy /\ IsPaid(i)              -> "claim"
      [] i \notin Legacy /\ payment[i] = "expired" -> "close"
      [] i \in Legacy /\ payment[i] # "open"       -> "copy"
      [] OTHER                                     -> "idle"

Ask(r) ==
    /\ request[r].pc = "ask"
    /\ LET next == Asked(request[r].invoice)
       IN request' = [request EXCEPT ![r] =
              CASE next = "idle"  -> Idle
                [] next = "claim" -> [@ EXCEPT !.pc = next, !.now = now]
                [] OTHER          -> [@ EXCEPT !.pc = next]]
    /\ UNCHANGED <<now, payment, due, invoice, paidUntil, faults, overlapped>>

SetStatus(i, status) == invoice' = [invoice EXCEPT ![i].status = status]

\* The legacy status CoinPay reports, where it tells something new.
Copy(r) ==
    /\ request[r].pc = "copy"
    /\ LET i == request[r].invoice
       IN SetStatus(i, CASE payment[i] = "paid" -> "confirmed" [] OTHER -> payment[i])
    /\ GoOn(r, "idle")
    /\ UNCHANGED <<now, payment, due, paidUntil, faults, overlapped>>

\* The expiry is written without a condition on the row as it now is.
Close(r) ==
    /\ request[r].pc = "close"
    /\ SetStatus(request[r].invoice, "expired")
    /\ GoOn(r, "answer")
    /\ UNCHANGED <<now, payment, due, paidUntil, faults, overlapped>>

\* Updating where the status is pending (mutant).
PendingClaim(i) == invoice[i].status = "pending"

\* settleInvoice's conditional update, where paid_at is null.
Claimable(i) == ~invoice[i].paid

\* An invoice already paid has its forwarding noted, and is answered as handled.
AfterRefusal(kind) == IF kind = "forwarded" THEN "mark" ELSE "answer"

Extending(r) == request[r].pc \in {"read", "extend"}

Claim(r) ==
    /\ request[r].pc = "claim"
    /\ LET i == request[r].invoice
           kind == request[r].kind
       IN \/ /\ Claimable(i)
             /\ invoice' = [invoice EXCEPT ![i] =
                               [status |-> IF kind = "forwarded" THEN "forwarded" ELSE "confirmed", paid |-> TRUE]]
             /\ GoOn(r, "read")
             /\ overlapped' = (overlapped \/ \E other \in Requests \ {r} : Extending(other))
          \/ /\ ~Claimable(i)
             /\ GoOn(r, AfterRefusal(kind))
             /\ UNCHANGED <<invoice, overlapped>>
    /\ UNCHANGED <<now, payment, due, paidUntil, faults>>

Mark(r) ==
    /\ request[r].pc = "mark"
    /\ SetStatus(request[r].invoice, "forwarded")
    /\ GoOn(r, "answer")
    /\ UNCHANGED <<now, payment, due, paidUntil, faults, overlapped>>

ReadInstall(r) ==
    /\ request[r].pc = "read"
    /\ request' = [request EXCEPT ![r].pc = "extend", ![r].base = paidUntil]
    /\ UNCHANGED <<now, payment, due, invoice, paidUntil, faults, overlapped>>

\* One period from the end of what is paid, or from now if that has passed.
Extended(base, at) == (IF base > at THEN base ELSE at) + 1

Extend(r) ==
    /\ request[r].pc = "extend"
    /\ paidUntil' = Extended(request[r].base, request[r].now)
    /\ GoOn(r, "answer")
    /\ UNCHANGED <<now, payment, due, invoice, faults, overlapped>>

\* A 200 ends the deliveries of the event.
Answer(r) ==
    /\ request[r].pc = "answer"
    /\ due' = due \ {[invoice |-> request[r].invoice, kind |-> request[r].kind]}
    /\ GoOn(r, "idle")
    /\ UNCHANGED <<now, payment, invoice, paidUntil, faults, overlapped>>

\* A call fails (the route answers 500, the poller swallows it), or the server dies:
\* the request is gone, its event is delivered again.
Fail(r) ==
    /\ request[r].pc # "idle" /\ faults < MaxFaults
    /\ GoOn(r, "idle")
    /\ faults' = faults + 1
    /\ UNCHANGED <<now, payment, due, invoice, paidUntil, overlapped>>

Step(r) == Ask(r) \/ Copy(r) \/ Close(r) \/ Claim(r) \/ Mark(r) \/ ReadInstall(r) \/ Extend(r) \/ Answer(r)

Next == \/ Tick
        \/ \E i \in Invoices : Pay(i) \/ Forward(i) \/ Lapse(i) \/ SessionEnds(i)
        \/ \E r \in Requests : \/ \E e \in Events : Deliver(r, e)
                               \/ \E i \in Invoices : Poll(r, i)
                               \/ Step(r) \/ Fail(r)

Spec == Init /\ [][Next]_billingVars

----------------------------------------------------------------------------
TypeOK ==
    /\ now \in 0 .. MaxTime
    /\ payment \in [Invoices -> {"open", "retry", "paid", "forwarded", "expired"}]
    /\ due \subseteq Events
    /\ invoice \in [Invoices -> [status : Statuses, paid : BOOLEAN]]
    /\ paidUntil \in Nat
    /\ request \in [Requests ->
           [pc : {"idle", "ask", "copy", "close", "claim", "mark", "read", "extend", "answer"},
            invoice : Invoices, kind : Kinds \cup {"poll"}, now : 0 .. MaxTime, base : Nat]]
    /\ faults \in 0 .. MaxFaults
    /\ overlapped \in BOOLEAN

PaidInvoices == {i \in Invoices : IsPaid(i)}

\* However often an event is delivered, replayed after a failure, or overtaken by the
\* poller, an invoice buys one period: what is paid for never reaches beyond the
\* present by more periods than CoinPay was paid (plugin-billing.ts:6-8).
OnePeriodPerPayment == paidUntil <= now + Cardinality(PaidInvoices)

\* Nothing is being delivered or handled.
Quiet == due = {} /\ \A r \in Requests : request[r].pc = "idle"

\* Without a failed request, and without two settlements of the same plugin at once,
\* every payment CoinPay reported has bought its period: neither a status written
\* meanwhile by the poller or an expiry, nor a renewal before the end of the current
\* period, loses days.
PaidDaysAdd == Quiet /\ faults = 0 /\ ~overlapped => paidUntil >= Cardinality(PaidInvoices)

\* A payment is worth its period: not more, not less.
PaymentsAddUp == OnePeriodPerPayment /\ PaidDaysAdd

\* The same although requests fail: the webhook's 500 is there so that CoinPay's
\* retry completes the settlement (coinpay-webhook/route.ts:17-18).
RetryCompletes == Quiet /\ ~overlapped => paidUntil >= Cardinality(PaidInvoices)
====
