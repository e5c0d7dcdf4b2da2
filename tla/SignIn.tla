---- MODULE SignIn ----
(***************************************************************************)
(* Two ways into an account.                                               *)
(*                                                                         *)
(* Sign in with CoinPay (web lib/coinpay-signin.ts and its routes): a login  *)
(* binds to the subject CoinPay names, in coinpay_identities; a first login    *)
(* makes an account with a placeholder address; a signed-in user connects or   *)
(* disconnects in the settings.  Every handler is cut at its awaits.           *)
(*                                                                         *)
(* The command's session (cli auth.ts, storage-b1dz-api): tokens in one file,  *)
(* read once by each process, and renewed by whoever finds them stale.  A      *)
(* refresh token is good for one renewal.                                     *)
(***************************************************************************)
EXTENDS Integers, Sequences, FiniteSets

CONSTANTS Browsers, Subjects,
          OwnAccounts,      \* accounts with an address of their user's
          Confirmed,        \* those whose address is confirmed
          FreshAccounts,    \* what createUser() may make
          SignHandlers,     \* requests of the callback and disconnect routes
          MaxStarts2,       \* sign-ins started
          Processes, Calls, \* of the command; requests each may have under way
          CliUsers, MaxTokens

NobodyIn == "nobody"

ASSUME SignConstants ==
    /\ Confirmed \subseteq OwnAccounts /\ OwnAccounts \cap FreshAccounts = {}
    /\ NobodyIn \notin OwnAccounts \union FreshAccounts \union Processes
    /\ {MaxStarts2, MaxTokens} \subseteq Nat /\ "none" \notin Calls

VARIABLES accounts,     \* that exist
          bindings,     \* coinpay_identities: [user, sub]
          cookie,       \* [Browsers -> pending sign-in's state, or 0]
          modes,        \* modes of the sign-ins started, by state
          session,      \* [Browsers -> account or NobodyIn]
          visit,      \* [SignHandlers -> handler]
          entered,      \* history: [user, sub] of the sign-ins that succeeded
          everBound,    \* history: every binding there ever was
          signMishap        \* history: a call of a handler failed, or its process died

signVars == <<accounts, bindings, cookie, modes, session, visit, entered, everBound, signMishap>>

Idle2 == [step |-> "idle", browser |-> "none", mode |-> "none", sub |-> "none",
          cur |-> NobodyIn, user |-> NobodyIn]

SignInit ==
    /\ accounts = OwnAccounts /\ bindings = {} /\ modes = <<>>
    /\ cookie = [b \in Browsers |-> 0]
    /\ session \in [Browsers -> OwnAccounts \union {NobodyIn}]
    /\ visit = [h \in SignHandlers |-> Idle2]
    /\ entered = {} /\ everBound = {} /\ signMishap = FALSE

----------------------------------------------------------------------------
\* CoinPay.

Placeholder(u) == u \in FreshAccounts

\* oauth/start and startAuth(): the cookie holds one pending sign-in, the last one.
StartSignIn(b, mode) ==
    /\ Len(modes) < MaxStarts2 /\ (mode = "connect" => session[b] # NobodyIn)
    /\ modes' = Append(modes, mode) /\ cookie' = [cookie EXCEPT ![b] = Len(modes')]
    /\ UNCHANGED <<accounts, bindings, session, visit, entered, everBound, signMishap>>

\* back(): the answer clears the cookie, whichever sign-in it belongs to.
Back(h) == /\ cookie' = [cookie EXCEPT ![visit[h].browser] = 0]
           /\ visit' = [visit EXCEPT ![h] = Idle2]

\* oauth/callback begins: CoinPay sent the browser back with a state.  The cookie is still
\* there for a second callback to find; CoinPay takes a code once, so claims may fail.
Callback(h, b, state, sub) ==
    /\ visit[h] = Idle2
    /\ IF cookie[b] = 0 THEN UNCHANGED <<cookie, visit>>
       ELSE IF cookie[b] # state
       THEN cookie' = [cookie EXCEPT ![b] = 0] /\ UNCHANGED visit
       ELSE visit' = [visit EXCEPT ![h] =
              [Idle2 EXCEPT !.step = "claims", !.browser = b, !.mode = modes[state], !.sub = sub]]
            /\ UNCHANGED cookie
    /\ UNCHANGED <<accounts, bindings, modes, session, entered, everBound, signMishap>>

\* fetchCoinpayClaims() and getUser(): who is signed in now.
ClaimsFetched(h) ==
    /\ visit[h].step = "claims"
    /\ \/ Back(h)
       \/ /\ visit' = [visit EXCEPT ![h].step = "look", ![h].cur = session[visit[h].browser]]
          /\ UNCHANGED cookie
    /\ UNCHANGED <<accounts, bindings, modes, session, entered, everBound, signMishap>>

BoundTo(sub) == {x.user : x \in {y \in bindings : y.sub = sub}}
BoundOf(user) == {y \in bindings : y.user = user}

\* resolveCoinpayUser(): identityBySub().
LookUp(h) ==
    LET r == visit[h]
        bound == BoundTo(r.sub)
    IN /\ r.step = "look"
       /\ \/ r.mode = "connect" /\ (r.cur = NobodyIn \/ bound # {}) /\ Back(h)
          \/ /\ r.mode = "connect" /\ r.cur # NobodyIn /\ bound = {}
             /\ visit' = [visit EXCEPT ![h].step = "mine"] /\ UNCHANGED cookie
          \/ /\ r.mode = "login" /\ bound # {}
             /\ \E u \in bound : visit' = [visit EXCEPT ![h].step = "enter", ![h].user = u]
             /\ UNCHANGED cookie
          \/ /\ r.mode = "login" /\ bound = {}
             /\ visit' = [visit EXCEPT ![h].step = "create"] /\ UNCHANGED cookie
       /\ UNCHANGED <<accounts, bindings, modes, session, entered, everBound, signMishap>>

\* identityByUser(): the account may have another CoinPay account.
LookMine(h) ==
    /\ visit[h].step = "mine"
    /\ IF BoundOf(visit[h].cur) # {} THEN Back(h)
       ELSE visit' = [visit EXCEPT ![h].step = "link", ![h].user = visit[h].cur] /\ UNCHANGED cookie
    /\ UNCHANGED <<accounts, bindings, modes, session, entered, everBound, signMishap>>

\* createUser()
CreateUser(h) ==
    /\ visit[h].step = "create"
    /\ \E u \in FreshAccounts \ accounts :
         accounts' = accounts \union {u} /\ visit' = [visit EXCEPT ![h].step = "link", ![h].user = u]
    /\ UNCHANGED <<bindings, cookie, modes, session, entered, everBound, signMishap>>

\* link(): the table admits a subject once and a user once.
Link(h) ==
    LET r == visit[h]
        conflict == BoundTo(r.sub) # {} \/ BoundOf(r.user) # {}
    IN /\ r.step = "link"
       /\ IF conflict
          THEN /\ UNCHANGED <<bindings, everBound>>
               /\ IF r.mode = "connect" THEN Back(h)
                  ELSE visit' = [visit EXCEPT ![h].step = "delete"] /\ UNCHANGED cookie
          ELSE /\ bindings' = bindings \union {[user |-> r.user, sub |-> r.sub]}
               /\ everBound' = everBound \union bindings'
               /\ IF r.mode = "connect" THEN Back(h)
                  ELSE visit' = [visit EXCEPT ![h].step = "enter"] /\ UNCHANGED cookie
       /\ UNCHANGED <<accounts, modes, session, entered, signMishap>>

\* A parallel first login was faster: deleteUser(), whose failure is swallowed, then theirs.
DeleteUser(h) ==
    /\ visit[h].step = "delete"
    /\ \/ accounts' = accounts \ {visit[h].user} /\ UNCHANGED signMishap
       \/ signMishap' = TRUE /\ UNCHANGED accounts
    /\ visit' = [visit EXCEPT ![h].step = "again"]
    /\ UNCHANGED <<bindings, cookie, modes, session, entered, everBound>>
LookAgain(h) ==
    /\ visit[h].step = "again"
    /\ IF BoundTo(visit[h].sub) = {} THEN Back(h)
       ELSE \E u \in BoundTo(visit[h].sub) :
              visit' = [visit EXCEPT ![h].step = "enter", ![h].user = u] /\ UNCHANGED cookie
    /\ UNCHANGED <<accounts, bindings, modes, session, entered, everBound, signMishap>>

\* mintMagicLinkHash() and verifyOtp(), after the session of another account was ended.
EnterAccount(h) ==
    LET r == visit[h]
        open == r.user \in Confirmed \union FreshAccounts /\ r.user \in accounts
    IN /\ r.step = "enter" /\ Back(h)
       /\ \/ /\ r.cur = r.user \/ open
             /\ session' = [session EXCEPT ![r.browser] = IF r.cur = r.user THEN @ ELSE r.user]
             /\ entered' = entered \union {[user |-> r.user, sub |-> r.sub]}
          \/ r.cur # r.user /\ session' = [session EXCEPT ![r.browser] = NobodyIn] /\ UNCHANGED entered
       /\ UNCHANGED <<accounts, bindings, modes, everBound, signMishap>>

\* A call of the store throws (the callback answers with an error), or the process dies.
CallFails(h) ==
    /\ visit[h].step \notin {"idle", "unlink", "claims"} /\ signMishap' = TRUE /\ Back(h)
    /\ UNCHANGED <<accounts, bindings, modes, session, entered, everBound>>

\* The disconnect route: identityByUser() and the check of the address, then unlink().
Disconnect(h, b) ==
    /\ visit[h] = Idle2 /\ session[b] # NobodyIn /\ BoundOf(session[b]) # {}
    /\ ~Placeholder(session[b])
    /\ visit' = [visit EXCEPT ![h] =
         [Idle2 EXCEPT !.step = "unlink", !.browser = b, !.user = session[b]]]
    /\ UNCHANGED <<accounts, bindings, cookie, modes, session, entered, everBound, signMishap>>
Unlink(h) ==
    /\ visit[h].step = "unlink" /\ bindings' = bindings \ BoundOf(visit[h].user)
    /\ visit' = [visit EXCEPT ![h] = Idle2]
    /\ UNCHANGED <<accounts, cookie, modes, session, entered, everBound, signMishap>>

\* POST /api/auth/logout
SignOut(b) ==
    /\ session[b] # NobodyIn /\ session' = [session EXCEPT ![b] = NobodyIn]
    /\ UNCHANGED <<accounts, bindings, cookie, modes, visit, entered, everBound, signMishap>>

SignNext ==
    \/ \E b \in Browsers : SignOut(b) \/ \E mode \in {"login", "connect"} : StartSignIn(b, mode)
    \/ \E h \in SignHandlers :
         \/ ClaimsFetched(h) \/ LookUp(h) \/ LookMine(h) \/ CreateUser(h) \/ Link(h)
         \/ DeleteUser(h) \/ LookAgain(h) \/ EnterAccount(h) \/ CallFails(h) \/ Unlink(h)
         \/ \E b \in Browsers : \/ Disconnect(h, b)
                                \/ \E n \in 1 .. Len(modes), s \in Subjects : Callback(h, b, n, s)

SignSpec == SignInit /\ [][SignNext]_signVars

----------------------------------------------------------------------------
\* The command.

VARIABLES credFile,     \* credentials.json: [user, token], or NoCredentials
          clientOf,     \* [Processes -> the singleton B1dzApiStorage: [user, token, stale]]
          leader,       \* [Processes -> refreshInFlight: the call that asked, or NoLeader]
          flights,      \* [Processes -> [Calls -> the renewal it asked: [token, answer]]]
          calls,        \* [Processes -> [Calls -> step of request(), and the renewal awaited]]
          spentBy,      \* <<who presented the token, or NobodyIn>>, for every token issued
          lostTokens,   \* history: spent, and the answer with the next one was lost
          selfRefused   \* history: a process was refused a token it had spent itself

cliVars == <<credFile, clientOf, leader, flights, calls, spentBy, lostTokens, selfRefused>>

NoCredentials == [user |-> NobodyIn, token |-> 0]
NoClient == [user |-> NobodyIn, token |-> 0, stale |-> FALSE]
NoFlight == [token |-> 0, answer |-> 0]
NoLeader == "none"
Refusal == -1
IdleCall == [step |-> "idle", on |-> NoLeader]

CliInit ==
    /\ credFile = NoCredentials /\ spentBy = <<>> /\ lostTokens = {} /\ selfRefused = FALSE
    /\ clientOf = [p \in Processes |-> NoClient] /\ leader = [p \in Processes |-> NoLeader]
    /\ flights = [p \in Processes |-> [c \in Calls |-> NoFlight]]
    /\ calls = [p \in Processes |-> [c \in Calls |-> IdleCall]]

\* signup() and login() save what the server issued; they are processes of their own.
SaveCredentials(u) ==
    /\ Len(spentBy) < MaxTokens /\ spentBy' = Append(spentBy, NobodyIn)
    /\ credFile' = [user |-> u, token |-> Len(spentBy')]
    /\ UNCHANGED <<clientOf, leader, flights, calls, lostTokens, selfRefused>>

\* logout() empties the file; running processes keep their tokens.
Logout ==
    /\ credFile # NoCredentials /\ credFile' = NoCredentials
    /\ UNCHANGED <<clientOf, leader, flights, calls, spentBy, lostTokens, selfRefused>>

\* getApiClient() reads the file once in a process.
GetApiClient(p) ==
    /\ clientOf[p] = NoClient /\ credFile # NoCredentials
    /\ clientOf' = [clientOf EXCEPT ![p] =
         [user |-> credFile.user, token |-> credFile.token, stale |-> FALSE]]
    /\ UNCHANGED <<credFile, leader, flights, calls, spentBy, lostTokens, selfRefused>>

\* Time passes: accessTokenExpiresSoon().
Expires(p) ==
    /\ clientOf[p] # NoClient /\ ~clientOf[p].stale
    /\ clientOf' = [clientOf EXCEPT ![p].stale = TRUE]
    /\ UNCHANGED <<credFile, leader, flights, calls, spentBy, lostTokens, selfRefused>>

\* A mutant: each asks for a renewal of its own.
RefreshEach(p, c, step) ==
    /\ calls' = [calls EXCEPT ![p][c] = [step |-> step, on |-> c]]
    /\ leader' = [leader EXCEPT ![p] = c]
    /\ flights' = [flights EXCEPT ![p][c].token = clientOf[p].token]

\* refresh(): whoever finds a renewal under way waits for that one.
Refresh(p, c, step) ==
    IF leader[p] # NoLeader
    THEN /\ calls' = [calls EXCEPT ![p][c] = [step |-> step, on |-> leader[p]]]
         /\ UNCHANGED <<leader, flights>>
    ELSE /\ calls' = [calls EXCEPT ![p][c] = [step |-> step, on |-> c]]
         /\ leader' = [leader EXCEPT ![p] = c]
         /\ flights' = [flights EXCEPT ![p][c].token = clientOf[p].token]

\* request(): a token about to expire is renewed before the call.
Request(p, c) ==
    /\ clientOf[p] # NoClient /\ calls[p][c] = IdleCall
    /\ IF clientOf[p].stale THEN Refresh(p, c, "before")
       ELSE calls' = [calls EXCEPT ![p][c].step = "sent"] /\ UNCHANGED <<leader, flights>>
    /\ UNCHANGED <<credFile, clientOf, spentBy, lostTokens, selfRefused>>

\* The server's answer: a first 401, for the old token perhaps, is followed by a
\* renewal and the call once more.
CallAnswered(p, c) ==
    /\ \/ calls[p][c].step = "sent" /\ Refresh(p, c, "after")
       \/ /\ calls[p][c].step \in {"sent", "resent"}
          /\ calls' = [calls EXCEPT ![p][c] = IdleCall] /\ UNCHANGED <<leader, flights>>
    /\ UNCHANGED <<credFile, clientOf, spentBy, lostTokens, selfRefused>>

\* /api/auth/refresh: the auth server takes a token once and issues the next.
Renew(p, c) ==
    LET t == flights[p][c].token
    IN /\ t # 0 /\ flights[p][c].answer = 0
       /\ IF spentBy[t] = NobodyIn
          THEN /\ Len(spentBy) < MaxTokens
               /\ spentBy' = Append([spentBy EXCEPT ![t] = p], NobodyIn)
               /\ flights' = [flights EXCEPT ![p][c].answer = Len(spentBy')]
               /\ UNCHANGED selfRefused
          ELSE /\ flights' = [flights EXCEPT ![p][c].answer = Refusal]
               /\ selfRefused' = (selfRefused \/ (spentBy[t] = p /\ t \notin lostTokens))
               /\ UNCHANGED spentBy
       /\ UNCHANGED <<credFile, clientOf, leader, calls, lostTokens>>

\* The renewal of call c is over: those waiting for it go on with the next step.
Over(p, c, before, after) ==
    /\ leader' = [leader EXCEPT ![p] = NoLeader]
    /\ flights' = [flights EXCEPT ![p][c] = NoFlight]
    /\ calls' = [calls EXCEPT ![p] = [k \in Calls |->
         IF @[k].on # c THEN @[k]
         ELSE [step |-> IF @[k].step = "before" THEN before ELSE after, on |-> NoLeader]]]

\* Its answer: the new tokens are used, and onRefresh() saves them under the user whose
\* credentials the process read.
RenewalDone(p, c) ==
    LET n == flights[p][c].answer
    IN /\ n > 0 /\ Over(p, c, "sent", "resent")
       /\ clientOf' = [clientOf EXCEPT ![p].token = n, ![p].stale = FALSE]
       /\ credFile' = [user |-> clientOf[p].user, token |-> n]
       /\ UNCHANGED <<spentBy, lostTokens, selfRefused>>
RenewalRefused(p, c) ==
    /\ flights[p][c].answer = Refusal /\ Over(p, c, "sent", "idle")
    /\ UNCHANGED <<credFile, clientOf, spentBy, lostTokens, selfRefused>>

\* The renewal fails on the way, and with it every call that waits for it.
Unissued(p) == {flights[p][c].token : c \in {k \in Calls : flights[p][k].answer > 0}}
RenewalLost(p, c) ==
    /\ flights[p][c].token # 0 /\ Over(p, c, "idle", "idle")
    /\ lostTokens' = lostTokens \union (Unissued(p) \cap {flights[p][c].token})
    /\ UNCHANGED <<credFile, clientOf, spentBy, selfRefused>>

\* The process ends, in the middle of a renewal perhaps.
Exit(p) ==
    /\ clientOf[p] # NoClient
    /\ clientOf' = [clientOf EXCEPT ![p] = NoClient] /\ leader' = [leader EXCEPT ![p] = NoLeader]
    /\ flights' = [flights EXCEPT ![p] = [c \in Calls |-> NoFlight]]
    /\ calls' = [calls EXCEPT ![p] = [c \in Calls |-> IdleCall]]
    /\ lostTokens' = lostTokens \union Unissued(p)
    /\ UNCHANGED <<credFile, spentBy, selfRefused>>

CliNext ==
    \/ \E u \in CliUsers : SaveCredentials(u)
    \/ Logout
    \/ \E p \in Processes :
         \/ GetApiClient(p) \/ Expires(p) \/ Exit(p)
         \/ \E c \in Calls : \/ Request(p, c) \/ CallAnswered(p, c) \/ Renew(p, c)
                             \/ RenewalDone(p, c) \/ RenewalRefused(p, c) \/ RenewalLost(p, c)

CliSpec == CliInit /\ [][CliNext]_cliVars

----------------------------------------------------------------------------
\* Properties.

SignTypeOK ==
    /\ OwnAccounts \subseteq accounts
    /\ bindings \subseteq everBound
    /\ \A x, y \in bindings : x.user = y.user \/ x.sub = y.sub => x = y
    /\ session \in [Browsers -> accounts \union FreshAccounts \union {NobodyIn}]

\* Whoever comes in through CoinPay comes into the account that his subject is or was bound
\* to, never into one made for a login that lost the race.
EntersBound == entered \subseteq everBound

\* An account that CoinPay made keeps its way in: once entered it stays bound, through
\* disconnects and racing logins (the settings refuse to cut the only way).
WayInStays == \A x \in entered : Placeholder(x.user) => x \in bindings

\* No account is left behind that nobody can enter, unless a call failed on the way.
NoStrays ==
    \A u \in accounts \cap FreshAccounts :
        BoundOf(u) # {} \/ signMishap \/ \E h \in SignHandlers : visit[h].user = u

SignInSound == EntersBound /\ WayInStays /\ NoStrays

CliTypeOK ==
    /\ credFile.token \in 0 .. Len(spentBy) /\ lostTokens \subseteq 1 .. Len(spentBy)
    /\ \A p \in Processes :
         /\ clientOf[p].token \in 0 .. Len(spentBy) /\ leader[p] \in Calls \union {NoLeader}
         /\ \A c \in Calls : calls[p][c].on \in Calls \union {NoLeader}

\* However many calls find the session stale at once, a process is never refused a token
\* because it spent that token itself, unless the answer was lost.
OwnTokensGood == ~selfRefused

\* The next command finds a token in the file that the server still takes, unless a renewal
\* of it is under way or its answer was lost.
FileTokenGood ==
    LET t == credFile.token
    IN t # 0 /\ spentBy[t] # NobodyIn =>
         t \in lostTokens \/ \E p \in Processes, c \in Calls : flights[p][c].token = t

SessionsKept == OwnTokensGood /\ FileTokenGood
====
