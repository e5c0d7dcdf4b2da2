---- MODULE MCWeb ----
(* What the web server settles, one thing at a time: plugin subscriptions (an   *)
(* invoice with a checkout session and a legacy one), invite bonuses, invites and  *)
(* credit codes, the crypto budget that agents' orders share with the daemon, the   *)
(* vault of a user's secrets, the ways to sign in.  And what the trading workers     *)
(* reckon with: their books, their dollars, their sizes, the stocks, the charts and   *)
(* the signals read off them.                                                         *)
EXTENDS PluginBilling, InviteBonus, Credits, SpendBudget, TradeBooks, Vault, Equities,
        Signals, SignIn

CONSTANTS i1, i2,
          WebFocuses       \* the things an instance is about

VARIABLE focus

moneyVars == <<bookVars, quoteVars, sized>>
accountVars == <<vaultVars, equityVars, linkVars>>
deskVars == <<chartVars, verdict>>
entryVars == <<signVars, cliVars>>
webVars == <<billingVars, inviteVars, creditVars, budgetVars>>

\* What the indicators of one analysis may say.
MCReadings == [trend : {"above", "below", "mixed"}, aligned : {"up", "down", "none"},
               vwap : {"above", "below"}, bias : {"bull", "bear"}, confirm : {"bull", "bear"},
               rsi : {1, 2, 3, 5}, rsiMoves : {-1, 1}, momentum : {-1, 1}, line : {1},
               range : {"above", "inside", "bottom", "below"},
               last : {"above", "within", "below"}, atr : {0, 2, 3}, narrow : {TRUE},
               volume : {1, 2}, spreadOk : {TRUE}, targetOk : {TRUE}, warm : {TRUE},
               blocked : {FALSE}]

MCInit == /\ focus \in WebFocuses
          /\ Init /\ InvitesInit /\ CreditsInit /\ BudgetInit
          /\ BooksInit /\ QuoteInit /\ SizingInit
          /\ VaultInit /\ EquityInit /\ LinkInit
          /\ ChartsInit /\ VerdictInit /\ SignInit /\ CliInit
          /\ focus # "budget" => setting = "daily"
          /\ focus # "quote" => Open = {}
          /\ focus # "vault" => migration /\ stored.blob = NoBlob
          /\ focus # "stocks" => broker = Primary(Linkable)
          /\ focus # "sign-in" => session = [b \in Browsers |-> NobodyIn]

WebNext == \/ focus = "billing" /\ Next /\ UNCHANGED <<inviteVars, creditVars, budgetVars>>
           \/ focus = "invites" /\ InvitesNext /\ UNCHANGED <<billingVars, creditVars, budgetVars>>
           \/ focus = "credits" /\ CreditsNext /\ UNCHANGED <<billingVars, inviteVars, budgetVars>>
           \/ focus = "budget" /\ BudgetNext /\ UNCHANGED <<billingVars, inviteVars, creditVars>>

MoneyNext == \/ focus = "books" /\ BooksNext /\ UNCHANGED <<quoteVars, sized>>
             \/ focus = "quote" /\ QuoteNext /\ UNCHANGED <<bookVars, sized>>
             \/ focus = "sizing" /\ SizingNext /\ UNCHANGED <<bookVars, quoteVars>>

AccountNext == \/ focus = "vault" /\ VaultNext /\ UNCHANGED <<equityVars, linkVars>>
               \/ focus = "stocks" /\ EquityNext /\ UNCHANGED <<vaultVars, linkVars>>
               \/ focus = "links" /\ LinkNext /\ UNCHANGED <<vaultVars, equityVars>>

DeskNext == \/ focus = "charts" /\ ChartsNext /\ UNCHANGED verdict
            \/ focus = "verdicts" /\ VerdictNext /\ UNCHANGED chartVars

EntryNext == \/ focus = "sign-in" /\ SignNext /\ UNCHANGED cliVars
             \/ focus = "command" /\ CliNext /\ UNCHANGED signVars

MCNext == /\ UNCHANGED focus
          /\ \/ WebNext /\ UNCHANGED <<moneyVars, accountVars, deskVars, entryVars>>
             \/ MoneyNext /\ UNCHANGED <<webVars, accountVars, deskVars, entryVars>>
             \/ AccountNext /\ UNCHANGED <<webVars, moneyVars, deskVars, entryVars>>
             \/ DeskNext /\ UNCHANGED <<webVars, moneyVars, accountVars, entryVars>>
             \/ EntryNext /\ UNCHANGED <<webVars, moneyVars, accountVars, deskVars>>

MCSpec == MCInit /\ [][MCNext]_<<focus, webVars, moneyVars, accountVars, deskVars, entryVars>>

\* A settlement's calls return.
MCFairSpec == MCSpec /\ \A t \in Settlers : WF_inviteVars(focus = "invites" /\ Settle(t))

\* The variables of the modules keep their types.
MCTypeOK == /\ focus = "billing" => TypeOK
            /\ focus = "invites" => InvitesTypeOK
            /\ focus = "credits" => CreditsTypeOK
            /\ focus = "budget" => BudgetTypeOK
            /\ focus = "vault" => VaultTypeOK
            /\ focus = "stocks" => EquityTypeOK
            /\ focus = "links" => LinkTypeOK
            /\ focus \in {"charts", "verdicts"} => SignalsTypeOK
            /\ focus = "sign-in" => SignTypeOK
            /\ focus = "command" => CliTypeOK
            /\ focus \in {"books", "quote", "sizing"} => BooksTypeOK

\* What the workers have earned, may spend and can sell is what their books say of it.
MCBooksHonest == focus \in {"books", "quote", "sizing"} => BooksHonest

\* What users entrust to the vault can be opened, and by them alone.
MCVaultSound == focus = "vault" => VaultSound

\* The equities worker sells what is held, buys below the cap, keeps the day trader rule and
\* the brokers linked.
MCEquitiesSound == focus \in {"stocks", "links"} => EquitiesSound

\* Charts count every snapshot once, and verdicts follow from what the indicators say.
MCSignalsSound == /\ focus = "charts" => ChartsSound
                  /\ focus = "verdicts" => VerdictsSound

\* Signing in leads into one's own account, and the command keeps its session.
MCSignInSound == /\ focus = "sign-in" => SignInSound
                 /\ focus = "command" => SessionsKept
====
