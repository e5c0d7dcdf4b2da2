---- MODULE InventoryLedger ----
(***************************************************************************)
(* One row of the inventory ledger (packages/inventory): what the bot      *)
(* believes it may spend of one token of one venue, and what the chain     *)
(* says.  Amounts are totals, of the ledger as of its callers.  refresh()  *)
(* awaits the chain before it writes, and every other call may run in      *)
(* between.                                                                *)
(***************************************************************************)
EXTENDS Integers

CONSTANTS Balance,    \* what the wallet holds at first, and at most
          MaxOutside, \* bound on what is spent without the ledger
          MaxOverrun, \* bound on what transactions take beyond their reservations
          NoRead      \* no refresh in flight

ASSUME LedgerConstants ==
    Balance \in Nat /\ MaxOutside \in Nat /\ MaxOverrun \in Nat /\ NoRead \notin Nat

VARIABLES chain,     \* the balance on chain
          known,     \* is there an entry?
          available, \* InventoryEntry
          reserved,
          pendingTx,
          reading,   \* the amount a refresh in flight has fetched, or NoRead
          held,      \* the callers' own books: reserved and not sent ...
          sent,      \* ... sent and not mined ...
          landed,    \* ... mined and not settled: what that had reserved ...
          used,      \* ... what it took from the chain ...
          owing,     \* ... and what of that was more than a transaction had reserved
          overran,   \* history: all that transactions took beyond their reservations
          torn,      \* a settlement or an outside spend since the fetch
          stale,     \* the entry was written by such a refresh, or is older than an outside spend
          everStale, \* ... or was once
          outside    \* spent without the ledger

ledgerVars == <<chain, known, available, reserved, pendingTx, reading, held, sent, landed,
                used, owing, overran, torn, stale, everStale, outside>>

entry == <<known, available, reserved, pendingTx>>
books == <<held, sent, landed, used, owing, overran>>
settling == <<landed, used, owing, overran>>
marks == <<torn, stale, everStale, outside>>

LedgerInit ==
    /\ chain = Balance /\ known = FALSE
    /\ available = 0 /\ reserved = 0 /\ pendingTx = 0
    /\ reading = NoRead /\ held = 0 /\ sent = 0 /\ landed = 0 /\ used = 0
    /\ owing = 0 /\ overran = 0
    /\ torn = FALSE /\ stale = FALSE /\ everStale = FALSE /\ outside = 0

\* fetchAvailable() answers with the balance of the moment.
Fetch ==
    /\ reading = NoRead
    /\ reading' = chain /\ torn' = FALSE
    /\ UNCHANGED <<chain, entry, books, stale, everStale, outside>>

\* Dropping the bookkeeping with the old row (mutant).
ForgetBooked == reserved' = 0 /\ pendingTx' = 0

\* "Preserve reserved / pendingTx across a refresh".
KeepBooked == UNCHANGED <<reserved, pendingTx>>

\* ... and refresh() writes the row.
WriteRow ==
    /\ reading # NoRead
    /\ known' = TRUE /\ available' = reading /\ KeepBooked
    /\ reading' = NoRead
    /\ stale' = torn /\ everStale' = (everStale \/ torn)
    /\ UNCHANGED <<chain, books, torn, outside>>

FetchFails ==
    /\ reading # NoRead
    /\ reading' = NoRead
    /\ UNCHANGED <<chain, entry, books, marks>>

\* canAfford()
Free == available - reserved - pendingTx

Reserve(amount) ==
    /\ known /\ Free >= amount
    /\ reserved' = reserved + amount /\ held' = held + amount
    /\ UNCHANGED <<chain, known, available, pendingTx, reading, sent, settling, marks>>

Release(amount) ==
    /\ known /\ amount <= reserved /\ amount <= held
    /\ reserved' = reserved - amount /\ held' = held - amount
    /\ UNCHANGED <<chain, known, available, pendingTx, reading, sent, settling, marks>>

MarkPending(amount) ==
    /\ known /\ amount <= reserved /\ amount <= held
    /\ reserved' = reserved - amount /\ pendingTx' = pendingTx + amount
    /\ held' = held - amount /\ sent' = sent + amount
    /\ UNCHANGED <<chain, known, available, reading, settling, marks>>

\* What x is more than y.
Excess(x, y) == IF x > y THEN x - y ELSE 0

\* A transaction that reserved `amount' is mined.  Gas and slippage decide what it
\* takes: less than that, or more, as far as the wallet has it.
Land(amount, consumed) ==
    /\ amount <= sent /\ consumed <= chain
    /\ overran + Excess(consumed, amount) <= MaxOverrun
    /\ chain' = chain - consumed
    /\ sent' = sent - amount /\ landed' = landed + amount /\ used' = used + consumed
    /\ owing' = owing + Excess(consumed, amount)
    /\ overran' = overran + Excess(consumed, amount)
    /\ UNCHANGED <<entry, reading, held, marks>>

\* The caller settles one of its mined transactions: the totals have room for what that
\* one reserved and took, for its excess and for what it left.
Accounted(amount, consumed) ==
    /\ amount <= landed /\ consumed <= used
    /\ Excess(consumed, amount) <= owing
    /\ Excess(amount, consumed) <= landed - used + owing

\* settle(), once the caller has seen what was consumed.
Settle(amount, consumed) ==
    /\ known /\ amount <= pendingTx /\ Accounted(amount, consumed)
    /\ pendingTx' = pendingTx - amount /\ available' = available - consumed
    /\ landed' = landed - amount /\ used' = used - consumed
    /\ owing' = owing - Excess(consumed, amount)
    /\ torn' = (torn \/ reading # NoRead)
    /\ UNCHANGED <<chain, known, reserved, reading, held, sent, overran, stale, everStale, outside>>

\* Proceeds or a deposit arrive.
Deposit ==
    /\ chain < Balance
    /\ chain' = chain + 1
    /\ UNCHANGED <<entry, reading, books, marks>>

\* The wallet's key is used elsewhere too: the trading source signs with it.
SpendOutside ==
    /\ chain > 0 /\ outside < MaxOutside
    /\ chain' = chain - 1 /\ outside' = outside + 1
    /\ torn' = TRUE /\ stale' = TRUE /\ everStale' = TRUE
    /\ UNCHANGED <<entry, reading, books>>

LedgerNext ==
    \/ Fetch \/ WriteRow \/ FetchFails \/ Deposit \/ SpendOutside
    \/ \E amount \in 1..Balance :
          \/ Reserve(amount) \/ Release(amount) \/ MarkPending(amount)
          \/ \E consumed \in 0..Balance : Land(amount, consumed) \/ Settle(amount, consumed)

LedgerSpec == LedgerInit /\ [][LedgerNext]_ledgerVars
----------------------------------------------------------------------------
LedgerTypeOK ==
    /\ chain \in 0..Balance /\ known \in BOOLEAN
    /\ available \in Int /\ reserved \in Nat /\ pendingTx \in Nat
    /\ reading \in 0..Balance \union {NoRead}
    /\ held \in Nat /\ sent \in Nat /\ landed \in Nat /\ used \in Nat
    /\ owing \in Nat /\ overran \in 0..MaxOverrun
    /\ torn \in BOOLEAN /\ stale \in BOOLEAN /\ everStale \in BOOLEAN
    /\ outside \in 0..MaxOutside

\* What canAfford() calls free is on chain and promised to nobody, however refreshes,
\* reservations and transactions interleave, but for what mined transactions took
\* beyond their reservations and were not settled for yet; only a refresh that fetched
\* before a settlement and wrote after it, or a spend the ledger is not told of, makes
\* it overstate more, until the next refresh.
FreeIsThere == ~stale => Free <= chain - held - sent + owing

\* So what is reserved can be paid, as long as that never happened, up to what
\* transactions took beyond their own reservations: the daemon "never submits a tx
\* that would fail on insufficient balance" (inventory/index.ts:6) only while gas and
\* slippage stay within the estimate.
ReservedIsCovered == ~everStale => held + sent <= chain + overran

\* What the ledger tells the daemon is so: both of the above.
LedgerHonest == FreeIsThere /\ ReservedIsCovered
====
