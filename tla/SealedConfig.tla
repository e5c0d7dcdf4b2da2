---- MODULE SealedConfig ----
(***************************************************************************)
(* The sealed settings of one user: the row in user_settings, the daemon's *)
(* cached copy of it, the data key the UnlockStore lends out and the jobs  *)
(* that use both (apps/daemon/src/user-config.ts, unlock-store.ts,         *)
(* control-server.ts), beside the web app's writers of the same row.       *)
(*                                                                         *)
(* A secret is a token; the row holds tokens in the sealed blob and tokens *)
(* the OAuth callback queued in the inbox.  The store lends out its live   *)
(* buffer and zeroes it when the session ends, so a job that holds buffer  *)
(* n holds the user's key while n is the session and zeros afterwards.     *)
(***************************************************************************)
EXTENDS Integers, FiniteSets

CONSTANTS Loads,         \* concurrent users of the row inside the daemon
          Tokens,        \* OAuth tokens and keys that get linked or refreshed
          SettingsMoves, \* bound on unlocks, locks, links, saves, refreshes, failures
          NoToken        \* what a job that merges nothing holds

ASSUME SealedConstants == SettingsMoves \in Nat /\ NoToken \notin Tokens

Row(v, k, s, i) == [ver |-> v, key |-> k, secrets |-> s, inbox |-> i]
Unreadable == Row(-1, "none", {}, {}) \* what a failed fetch of the row is cached as

VARIABLES row,     \* the row in the database
          cache,   \* <<>> or <<row or Unreadable>>
          session, \* 0, or the buffer of the unlocked session
          buffers, \* buffers handed out so far
          job,     \* job -> [op, pc, buf, snap, tok, key]
          web,     \* <<>> or the web request between its read and its write
          used,    \* tokens that were issued
          linked,  \* history: tokens whose write the database took
          outrun,  \* history: tokens overwritten by a writer who had not read them
          spoiled, \* history: some blob was sealed under zeros
          moved

settingsVars == <<row, cache, session, buffers, job, web, used, linked, outrun, spoiled, moved>>

IdleJob == [op |-> "none", pc |-> "idle", buf |-> 0, snap |-> <<>>, tok |-> NoToken, key |-> "none"]

SettingsInit ==
    /\ row = Row(0, "user", {}, {})
    /\ cache = <<>>
    /\ session = 0 /\ buffers = 0
    /\ job = [j \in Loads |-> IdleJob]
    /\ web = <<>>
    /\ used = {} /\ linked = {} /\ outrun = {} /\ spoiled = FALSE
    /\ moved = 0

Move == moved < SettingsMoves /\ moved' = moved + 1
GoOn(j, pc) == job' = [job EXCEPT ![j].pc = pc]
Done(j) == job' = [job EXCEPT ![j] = IdleJob]
Held(j) == job[j].snap[1] \* the row a job works from
Readable(j) == Held(j) # Unreadable

\* The key a job seals under when it does it now.
KeyIn(buf) == IF buf = session THEN "user" ELSE "zeros"

----------------------------------------------------------------------------
\* What a job starts with.

\* loadUserConfigState(): a cached row is taken as it is.
StartLoad(j) ==
    /\ job[j].pc = "idle"
    /\ job' = [job EXCEPT ![j] = [IdleJob EXCEPT
                  !.op = "load", !.snap = cache,
                  !.pc = IF cache = <<>> THEN "fetching" ELSE "looking"]]
    /\ UNCHANGED <<row, cache, session, buffers, web, used, linked, outrun, spoiled, moved>>

\* mergeUserSecret() with a token the provider has just issued.
StartMerge(j, k) ==
    /\ job[j].pc = "idle" /\ session # 0 /\ k \notin used /\ Move
    /\ cache' = <<>> /\ used' = used \union {k}
    /\ job' = [job EXCEPT ![j] = [IdleJob EXCEPT
                  !.op = "merge", !.pc = "fetching", !.buf = session, !.tok = k]]
    /\ UNCHANGED <<row, session, buffers, web, linked, outrun, spoiled>>

\* POST /unlock with the right key.
StartUnlock(j) ==
    /\ job[j].pc = "idle" /\ Move
    /\ cache' = <<>>
    /\ job' = [job EXCEPT ![j] = [IdleJob EXCEPT !.op = "unlock", !.pc = "fetching"]]
    /\ UNCHANGED <<row, session, buffers, web, used, linked, outrun, spoiled>>

----------------------------------------------------------------------------
\* cachedRow(): the database answers, then the answer is cached.

FetchAnswers(j) ==
    /\ job[j].pc = "fetching"
    /\ \/ job' = [job EXCEPT ![j] = [@ EXCEPT !.pc = "fetched", !.snap = <<row>>]] /\ UNCHANGED moved
       \/ job' = [job EXCEPT ![j] = [@ EXCEPT !.pc = "fetched", !.snap = <<Unreadable>>]] /\ Move
    /\ UNCHANGED <<row, cache, session, buffers, web, used, linked, outrun, spoiled>>

FetchReturns(j) ==
    /\ job[j].pc = "fetched"
    /\ cache' = job[j].snap
    /\ IF job[j].op = "reread" THEN Done(j) ELSE GoOn(j, "looking")
    /\ UNCHANGED <<row, session, buffers, web, used, linked, outrun, spoiled, moved>>

----------------------------------------------------------------------------
\* From the row on.

\* Going on without a seal record (mutant).
AnySeal(j) == TRUE
SealPresent(j) == Readable(j)

\* No seal, or no session for a load: the job ends here.  Otherwise the key is
\* imported and the blob (or the key check) is being opened.
MayOpen(j) == SealPresent(j) /\ (job[j].op = "load" => session # 0)
Buffer(j) == IF job[j].op = "load" THEN session ELSE job[j].buf

Look(j) ==
    /\ job[j].pc = "looking"
    /\ IF MayOpen(j)
       THEN job' = [job EXCEPT ![j] = [@ EXCEPT !.pc = "opening", !.buf = Buffer(j),
                                                !.key = KeyIn(Buffer(j))]]
       ELSE Done(j)
    /\ UNCHANGED <<row, cache, session, buffers, web, used, linked, outrun, spoiled, moved>>

\* The lent buffer is read only when the cipher runs (mutant).
KeyReadLate(j) == KeyIn(job[j].buf)
\* aesKey() takes its own copy of the bytes when it is called.
KeyImported(j) == job[j].key

\* An unlocked session is stored: the one before it is dropped, its key zeroed.
Unlock(j) ==
    /\ job[j].pc = "opening" /\ job[j].op = "unlock"
    /\ buffers' = buffers + 1 /\ session' = buffers + 1
    /\ cache' = <<>>
    /\ Done(j)
    /\ UNCHANGED <<row, web, used, linked, outrun, spoiled, moved>>

Opens(j) == Readable(j) /\ Held(j).key = KeyImported(j)

\* A load that cannot open the blob locks whatever session there is by now.
LoadLocks(j) ==
    /\ job[j].pc = "opening" /\ job[j].op = "load" /\ ~Opens(j)
    /\ session' = 0
    /\ Done(j)
    /\ UNCHANGED <<row, cache, buffers, web, used, linked, outrun, spoiled, moved>>

\* Leaving a single entry for later (mutant).
SeveralWaiting(j) == Cardinality(Held(j).inbox) > 1 /\ KeyIn(job[j].buf) = "user"
\* There are entries, and a key to open them that is not zeros.
InboxWaiting(j) == Held(j).inbox # {} /\ KeyIn(job[j].buf) = "user"

\* Without them the load is done.
LoadOpened(j) ==
    /\ job[j].pc = "opening" /\ job[j].op = "load" /\ Opens(j)
    /\ IF InboxWaiting(j) THEN GoOn(j, "merging") ELSE Done(j)
    /\ UNCHANGED <<row, cache, session, buffers, web, used, linked, outrun, spoiled, moved>>

\* writeSealed(): the blob is sealed under what the buffer holds now.
Seal(j) ==
    /\ \/ job[j].pc = "merging"
       \/ job[j].pc = "opening" /\ job[j].op = "merge" /\ Opens(j)
    /\ job' = [job EXCEPT ![j] = [@ EXCEPT !.pc = "storing", !.key = KeyIn(job[j].buf)]]
    /\ UNCHANGED <<row, cache, session, buffers, web, used, linked, outrun, spoiled, moved>>

MergeThrows(j) ==
    /\ job[j].pc = "opening" /\ job[j].op = "merge" /\ ~Opens(j)
    /\ Done(j)
    /\ UNCHANGED <<row, cache, session, buffers, web, used, linked, outrun, spoiled, moved>>

\* Sealing the blob that was read, without what is merged into it (mutant).
SealUnmerged(j) == Held(j).secrets
MergedSecrets(j) ==
    Held(j).secrets \union (IF job[j].op = "load" THEN Held(j).inbox ELSE {job[j].tok})

\* A load writes back the entries it did not consume, a merge leaves the column.
InboxLeft(j) == IF job[j].op = "load" THEN {} ELSE row.inbox

\* A write that sets the columns to these overwrites what they got since its
\* writer read them; what comes back is no longer counted.
Overwrites(secrets, inbox) ==
    outrun' = (outrun \union (row.secrets \ secrets) \union (row.inbox \ inbox))
                \ (row'.secrets \union row'.inbox)

Written(j) ==
    /\ row' = Row(row.ver + 1, job[j].key, MergedSecrets(j), InboxLeft(j))
    /\ Overwrites(Held(j).secrets, IF job[j].op = "load" THEN Held(j).inbox ELSE row.inbox)
    /\ linked' = IF job[j].op = "merge" THEN linked \union {job[j].tok} ELSE linked
    /\ spoiled' = (spoiled \/ job[j].key = "zeros")

\* The update is taken and acknowledged: the cached row is dropped, and a load
\* reads it again.
Store(j) ==
    /\ job[j].pc = "storing"
    /\ Written(j)
    /\ cache' = <<>>
    /\ IF job[j].op = "load"
       THEN job' = [job EXCEPT ![j] = [IdleJob EXCEPT !.op = "reread", !.pc = "fetching"]]
       ELSE Done(j)
    /\ UNCHANGED <<session, buffers, web, used, moved>>

\* It fails, or only its acknowledgement does: the cached row stays.
StoreFails(j) ==
    /\ job[j].pc = "storing" /\ Move
    /\ \/ Written(j)
       \/ UNCHANGED <<row, linked, outrun, spoiled>>
    /\ Done(j)
    /\ UNCHANGED <<cache, session, buffers, web, used>>

----------------------------------------------------------------------------
\* The session ends, the cached row expires, the daemon restarts.

Lock ==
    /\ session # 0 /\ Move
    /\ session' = 0 /\ cache' = <<>>
    /\ UNCHANGED <<row, buffers, job, web, used, linked, outrun, spoiled>>

SessionExpires ==
    /\ session # 0 /\ Move
    /\ session' = 0
    /\ UNCHANGED <<row, cache, buffers, job, web, used, linked, outrun, spoiled>>

CacheExpires ==
    /\ cache # <<>> /\ cache' = <<>>
    /\ UNCHANGED <<row, session, buffers, job, web, used, linked, outrun, spoiled, moved>>

DaemonRestarts ==
    /\ Move
    /\ session' = 0 /\ cache' = <<>>
    /\ job' = [j \in Loads |-> IdleJob]
    /\ UNCHANGED <<row, buffers, web, used, linked, outrun, spoiled>>

----------------------------------------------------------------------------
\* The web app reads the row, then writes columns of it: the OAuth callback the
\* inbox with one more entry, a save of the settings the browser's new blob and
\* the inbox as it was.

WebReads(k, kind) ==
    /\ web = <<>> /\ k \notin used /\ Move
    /\ kind = "save" => row.key = "user"
    /\ web' = <<[kind |-> kind, tok |-> k, snap |-> row]>>
    /\ used' = used \union {k}
    /\ UNCHANGED <<row, cache, session, buffers, job, linked, outrun, spoiled>>

WebWrites ==
    /\ web # <<>>
    /\ LET w == web[1] IN
       /\ row' = IF w.kind = "link"
                 THEN [row EXCEPT !.ver = @ + 1, !.inbox = w.snap.inbox \union {w.tok}]
                 ELSE Row(row.ver + 1, "user", w.snap.secrets \union {w.tok}, w.snap.inbox)
       /\ linked' = linked \union {w.tok}
       /\ Overwrites(IF w.kind = "link" THEN row.secrets ELSE w.snap.secrets, w.snap.inbox)
    /\ web' = <<>>
    /\ UNCHANGED <<cache, session, buffers, job, used, spoiled, moved>>

----------------------------------------------------------------------------
JobStep(j) ==
    \/ FetchAnswers(j) \/ FetchReturns(j) \/ Look(j) \/ Unlock(j) \/ LoadLocks(j)
    \/ LoadOpened(j) \/ Seal(j) \/ MergeThrows(j) \/ Store(j) \/ StoreFails(j)

SettingsNext ==
    \/ \E j \in Loads : StartLoad(j) \/ StartUnlock(j) \/ JobStep(j)
    \/ \E j \in Loads, k \in Tokens : StartMerge(j, k)
    \/ \E k \in Tokens, kind \in {"link", "save"} : WebReads(k, kind)
    \/ WebWrites \/ Lock \/ SessionExpires \/ CacheExpires \/ DaemonRestarts

SettingsSpec == SettingsInit /\ [][SettingsNext]_settingsVars

\* Ticks load the settings again and again, awaits settle, cached rows expire.
SettingsFairness ==
    /\ \A j \in Loads : WF_settingsVars(JobStep(j)) /\ WF_settingsVars(StartLoad(j))
    /\ WF_settingsVars(CacheExpires)

FairSettingsSpec == SettingsSpec /\ SettingsFairness
----------------------------------------------------------------------------
RowType == [ver : Nat, key : {"user", "zeros"}, secrets : SUBSET Tokens, inbox : SUBSET Tokens]
SettingsTypeOK ==
    /\ row \in RowType
    /\ cache = <<>> \/ cache = <<Unreadable>> \/ cache[1] \in RowType
    /\ session \in 0..buffers /\ moved \in 0..SettingsMoves
    /\ linked \subseteq used /\ used \subseteq Tokens /\ outrun \subseteq Tokens
    /\ \A j \in Loads :
          /\ job[j].op \in {"none", "load", "reread", "merge", "unlock"}
          /\ job[j].buf \in 0..buffers
          /\ job[j].pc \in {"opening", "merging", "storing"} => Held(j) \in RowType

\* Of the tokens that were linked, saved or refreshed, what is in neither the blob
\* nor the inbox entered a column between somebody's read of it and his write of
\* it: a write from an outdated row loses nothing else, and failed fetches and
\* updates, lost acknowledgements, locks in the middle of a merge and restarts
\* lose nothing.
KeepsTokens == linked \subseteq row.secrets \union row.inbox \union outrun

\* The daemon locks a session by itself only after a blob was sealed under zeros:
\* extending or ending the session under a load never costs the next session.
LocksForCause ==
    [][session # 0 /\ session' = 0 => moved' # moved \/ spoiled]_settingsVars

\* While a user stays unlocked, what the web app queued in the inbox is merged.
InboxDrains == row.inbox # {} /\ session # 0 ~> row.inbox = {} \/ session = 0

\* The secrets at rest open with the user's data key: a merge `requires an
\* unlocked session (the data key)'.
SealedUnderUsersKey == row.key = "user"
====
