---- MODULE Vault ----
(***************************************************************************)
(* A user's vault: the user_settings row behind GET and PUT /api/settings, *)
(* the tabs (apps/web settings/vault-panel.tsx and its sections) and the   *)
(* b1dz command (apps/cli vault.ts, setup.ts) that create it, open it, save *)
(* secrets into it and change its passphrase, the migration of what the    *)
(* server's own key had sealed, and the OAuth callback that queues tokens. *)
(*                                                                         *)
(* The n-th seal made has data key n, recovery key n and inbox key pair n; *)
(* the n-th passphrase chosen is n.  A blob opens under the key it was     *)
(* sealed with, and a wrapped key under what it was wrapped with.          *)
(***************************************************************************)
EXTENDS Integers, FiniteSets, Sequences

CONSTANTS Tabs, Shells, \* browser tabs, runs of the command
          ApiKeys,      \* secrets users enter
          OauthKeys,    \* tokens OAuth providers issue
          LegacyKeys,   \* secrets under the server's old key
          MaxSeals, VaultMoves,
          KeyBytes      \* bytes of a recovery key (32)

ASSUME VaultConstants ==
    Tabs \cap Shells = {} /\ {MaxSeals, VaultMoves, KeyBytes} \subseteq Nat /\ KeyBytes > 0

Clients == Tabs \union Shells
Zeroed == 0                          \* a wiped data key
ServerKey == -1                      \* SETTINGS_ENCRYPTION_KEY
NoSeal == [dek |-> -2, pass |-> 0, rec |-> -2, box |-> -2]
NoBlob == [key |-> -2, keys |-> {}]
NoPut == [seal |-> NoSeal, cipher |-> "keep", blob |-> NoBlob, base |-> NoBlob,
          eaten |-> {}, first |-> FALSE, opened |-> Zeroed, adds |-> {}, seen |-> <<>>]

VARIABLES stored,    \* the row: [seal, blob, inbox]
          migration, \* LEGACY_KEY_MIGRATION is on
          client,    \* [Clients -> [pc, view, dek, put]]
          linking,   \* <<>> or the OAuth callback between its read and its write
          fresh,     \* seals and passphrases made so far
          shownKeys, \* recovery keys users were shown
          told,      \* secrets users were told are saved
          mishap,    \* history: what went wrong, see Mishaps
          lastPass,  \* history: the passphrase of the seal last written
          vaultMoves

vaultVars == <<stored, migration, client, linking, fresh, shownKeys, told, mishap, lastPass, vaultMoves>>

\* A write from an outdated row; a blob put together from an outdated one; a second
\* vault over the first; a seal around a wiped key; a save while the tab is locked.
Mishaps == {"overlap", "outdated", "remade", "wiped", "cleared"}

AtRest == [pc |-> "idle", view |-> <<>>, dek |-> Zeroed, put |-> NoPut]

VaultInit ==
    /\ migration \in BOOLEAN
    /\ \E b \in {NoBlob, [key |-> ServerKey, keys |-> LegacyKeys]} :
          /\ stored = [seal |-> NoSeal, blob |-> b, inbox |-> {}]
          /\ told = IF migration THEN b.keys ELSE {}
    /\ client = [c \in Clients |-> IF c \in Tabs THEN [AtRest EXCEPT !.view = <<stored>>] ELSE AtRest]
    /\ linking = <<>> /\ fresh = 0 /\ shownKeys = {} /\ mishap = {}
    /\ lastPass = 0 /\ vaultMoves = 0

VaultMove == vaultMoves < VaultMoves /\ vaultMoves' = vaultMoves + 1
Seen(c) == client[c].view[1]
AtHand(c) == client[c].pc = "idle" /\ client[c].view # <<>>
Unsealed(row) == row.seal = NoSeal /\ row.blob # NoBlob

Turns(c, pc) == client' = [client EXCEPT ![c].pc = pc]
Sends(c, put) == client' = [client EXCEPT ![c].pc = "sent", ![c].put = put]
RowKept == UNCHANGED <<stored, migration, linking, shownKeys, told, mishap, lastPass>>

----------------------------------------------------------------------------
\* The n-th seal made, secrets under a key, a token for the holder of a seal.
NewSeal(n) == [dek |-> n, pass |-> n, rec |-> n, box |-> n]
Sealed(key, secrets) == [key |-> key, keys |-> secrets]
InboxEntry(seal, k) == [box |-> seal.box, tok |-> k]

\* The recovery key as text: the bits of its bytes regrouped into letters of five bits and
\* back.  Of the buffer only the bits that still wait are ever looked at.

\* One more unit of bits into the buffer, and whole units of n bits out of it.
Taken(buffer, unit, n) ==
    LET bits == buffer.rest \o unit
        whole == Len(bits) \div n
    IN [rest |-> SubSeq(bits, whole * n + 1, Len(bits)),
        out |-> buffer.out \o [i \in 1..whole |-> SubSeq(bits, (i - 1) * n + 1, i * n)]]

EmptyBuffer == [rest |-> <<>>, out |-> <<>>]
Regroup(units, n) ==
    LET buffer[k \in 0..Len(units)] == IF k = 0 THEN EmptyBuffer ELSE Taken(buffer[k - 1], units[k], n)
    IN buffer[Len(units)]

\* encodeRecoveryKey(): what is left over is filled up with zeros.
Letters(raw) ==
    LET r == Regroup(raw, 5)
        filled == [i \in 1..5 |-> IF i <= Len(r.rest) THEN r.rest[i] ELSE 0]
    IN IF r.rest # <<>> THEN Append(r.out, filled) ELSE r.out

\* decodeRecoveryKey(): too few letters are refused.
RawOf(text) ==
    LET out == Regroup(text, 8).out
    IN IF Len(out) < KeyBytes THEN <<>> ELSE SubSeq(out, 1, KeyBytes)

----------------------------------------------------------------------------
\* What a client starts.

\* GET /api/settings: a tab that loads, the command's first call.
LoadSettings(c) ==
    /\ client[c].pc = "idle" /\ VaultMove
    /\ client' = [client EXCEPT ![c].view = <<stored>>]
    /\ RowKept /\ UNCHANGED fresh

\* POST /api/settings/legacy-migrate: what the server can still decrypt for its owner.
LegacySecrets == stored.blob.keys

\* createVault(), openVault({create}): the server decrypts the legacy secrets for
\* their owner unless a seal is there by now; they are sealed again under a new key
\* and sent with the seal.  Ciphertext nobody can migrate is cleared.
CreateVault(c) ==
    /\ AtHand(c) /\ Seen(c).seal = NoSeal /\ fresh < MaxSeals /\ VaultMove
    /\ fresh' = fresh + 1
    /\ LET n == fresh'
           moving == Unsealed(Seen(c)) /\ migration
           secrets == IF moving THEN LegacySecrets ELSE {}
           made == [NoPut EXCEPT !.seal = NewSeal(n),
                                 !.first = TRUE, !.base = Seen(c).blob, !.opened = n]
       IN /\ moving => stored.seal = NoSeal
          /\ Sends(c, IF secrets # {}
                      THEN [made EXCEPT !.cipher = "new", !.blob = Sealed(n, secrets)]
                      ELSE [made EXCEPT !.cipher = IF Unsealed(Seen(c)) THEN "clear" ELSE "keep"])
    /\ RowKept

\* Opening a blob under a key: its secrets, or an exception.
OpensUnder(blob, key) == blob = NoBlob \/ blob.key = key

\* unlockSeal(), unlockSealWithRecovery(): the passphrase, or a recovery key that was
\* shown, unwraps a data key, which must open the key check too.
Unwraps(seal, way) ==
    IF way = "passphrase" THEN TRUE ELSE seal.rec \in shownKeys /\ seal.dek = seal.rec

\* openInbox(): the entries under this seal's key pair.
Openable(row) == {e \in row.inbox : e.box = row.seal.box}

\* unlockVault(), openVault(): waiting tokens are merged into the blob and saved.
UnlockVault(c, way) ==
    /\ AtHand(c) /\ client[c].dek = Zeroed /\ VaultMove
    /\ Seen(c).seal # NoSeal /\ Unwraps(Seen(c).seal, way)
    /\ LET key == Seen(c).seal.dek
           entries == Openable(Seen(c))
       IN IF entries = {}
          THEN client' = [client EXCEPT ![c].dek = key]
          ELSE /\ OpensUnder(Seen(c).blob, key) /\ key = Seen(c).seal.box
               /\ Sends(c, [NoPut EXCEPT !.cipher = "new", !.eaten = entries, !.opened = key,
                       !.base = Seen(c).blob,
                       !.blob = Sealed(key, Seen(c).blob.keys \union {e.tok : e \in entries})])
    /\ RowKept /\ UNCHANGED fresh

\* A section's save: the whole secret object, with the user's new secret, is sealed.
\* A blob that does not open counts as empty.
SaveSecret(c, k) ==
    /\ AtHand(c) /\ client[c].dek # Zeroed /\ k \notin told /\ VaultMove
    /\ LET key == client[c].dek
           decrypted == IF OpensUnder(Seen(c).blob, key) THEN Seen(c).blob.keys ELSE {}
       IN Sends(c, [NoPut EXCEPT !.cipher = "new", !.base = Seen(c).blob, !.opened = key,
                       !.adds = {k}, !.blob = Sealed(key, decrypted \union {k})])
    /\ RowKept /\ UNCHANGED fresh

\* A save of plain settings only.
SavePlain(c) ==
    /\ AtHand(c) /\ VaultMove
    /\ Sends(c, [NoPut EXCEPT !.opened = client[c].dek])
    /\ RowKept /\ UNCHANGED fresh

\* The same save in a section that has secrets, in a tab whose vault is locked: what it
\* could decrypt is nothing, and nothing is sent as null.
SaveLocked(c) ==
    /\ c \in Tabs /\ AtHand(c) /\ client[c].dek = Zeroed /\ VaultMove
    /\ Sends(c, [NoPut EXCEPT !.cipher = "clear", !.base = Seen(c).blob])
    /\ RowKept /\ UNCHANGED fresh

\* changePassphrase(), vault passwd: the key is checked against the seal, then the
\* new passphrase is stretched.
ChangePassphrase(c) ==
    /\ AtHand(c) /\ client[c].dek # Zeroed /\ fresh < MaxSeals
    /\ Seen(c).seal.dek = client[c].dek
    /\ Turns(c, "wrapping")
    /\ RowKept /\ UNCHANGED <<fresh, vaultMoves>>

\* rewrapSeal(): the same data key under a new passphrase.
Rewrap(seal, key, pass) == [seal EXCEPT !.dek = key, !.pass = pass]

\* What is wrapped is what the key's buffer holds when the stretching is done.
WrapKey(c) ==
    /\ client[c].pc = "wrapping"
    /\ fresh' = fresh + 1
    /\ Sends(c, [NoPut EXCEPT !.opened = client[c].dek,
                     !.seal = Rewrap(Seen(c).seal, client[c].dek, fresh')])
    /\ RowKept /\ UNCHANGED vaultMoves

\* Locking the vault in a tab wipes the key, a change of passphrase under way or
\* not; a command ends.
ForgetKey(c) ==
    /\ client[c].dek # Zeroed
    /\ client[c].pc \in (IF c \in Tabs THEN {"idle", "wrapping"} ELSE {"idle"})
    /\ client' = [client EXCEPT ![c].dek = Zeroed]
    /\ RowKept /\ UNCHANGED <<fresh, vaultMoves>>

----------------------------------------------------------------------------
\* PUT /api/settings: the row is read, then columns of it are written.

Refused(put) ==
    \/ put.cipher = "new" /\ stored.seal = NoSeal /\ put.seal = NoSeal
    \/ put.seal # NoSeal /\ Unsealed(stored) /\ put.cipher = "keep"

PutReads(c) ==
    /\ client[c].pc = "sent"
    /\ IF Refused(client[c].put)
       THEN client' = [client EXCEPT ![c].pc = "idle", ![c].put = NoPut]
       ELSE client' = [client EXCEPT ![c].pc = "read", ![c].put.seen = <<stored>>]
    /\ RowKept /\ UNCHANGED <<fresh, vaultMoves>>

NextSeal(put) == IF put.seal # NoSeal THEN put.seal ELSE put.seen[1].seal

\* A mutant: every seal starts an empty inbox.
InboxEmptied(put) == IF put.seal # NoSeal THEN {} ELSE put.seen[1].inbox \ put.eaten

\* A first seal starts an empty inbox; otherwise the entries not consumed stay.
InboxAfter(put) ==
    IF put.seal # NoSeal /\ put.seen[1].seal = NoSeal THEN {}
    ELSE put.seen[1].inbox \ put.eaten

RowAfter(put) ==
    [seal |-> IF NextSeal(put) = NoSeal THEN stored.seal ELSE NextSeal(put),
     blob |-> CASE put.cipher = "keep" -> stored.blob
                [] put.cipher = "clear" -> NoBlob
                [] put.cipher = "new" -> put.blob,
     inbox |-> IF NextSeal(put) = NoSeal THEN stored.inbox ELSE InboxAfter(put)]

MishapsOf(put) ==
    {m \in Mishaps :
        CASE m = "overlap" -> put.seen[1] # stored
          [] m = "outdated" -> put.cipher # "keep" /\ put.base # stored.blob
          [] m = "remade" -> put.first /\ stored.seal # NoSeal
          [] m = "wiped" -> put.seal.dek = Zeroed
          [] m = "cleared" -> put.cipher = "clear" /\ put.seal = NoSeal}

PutWrites(c) ==
    /\ client[c].pc = "read"
    /\ LET put == client[c].put IN
       /\ stored' = RowAfter(put)
       /\ mishap' = mishap \union MishapsOf(put)
       /\ lastPass' = IF put.seal # NoSeal THEN put.seal.pass ELSE lastPass
    /\ Turns(c, "written")
    /\ UNCHANGED <<migration, linking, fresh, shownKeys, told, vaultMoves>>

\* The client has the row as it is now, the key, and shows the recovery key of a
\* vault it has just made.
PutAnswered(c) ==
    /\ client[c].pc = "written"
    /\ LET put == client[c].put
       IN /\ shownKeys' = IF put.first THEN shownKeys \union {put.seal.rec} ELSE shownKeys
          /\ told' = told \union put.adds
          /\ client' = [client EXCEPT ![c] = [pc |-> "idle", view |-> <<stored>>, put |-> NoPut,
                                               dek |-> put.opened]]
    /\ UNCHANGED <<stored, migration, linking, fresh, mishap, lastPass, vaultMoves>>

\* The answer does not arrive, or the row cannot be read again for it.
AnswerLost(c) ==
    /\ client[c].pc = "written" /\ VaultMove
    /\ client' = [client EXCEPT ![c].pc = "idle", ![c].put = NoPut]
    /\ RowKept /\ UNCHANGED fresh

\* The OAuth callback reads the row, and later adds a token sealed to its seal.
LinkReads(k) ==
    /\ linking = <<>> /\ stored.seal # NoSeal /\ k \notin told /\ VaultMove
    /\ linking' = <<[seen |-> stored, tok |-> k]>>
    /\ UNCHANGED <<stored, migration, client, fresh, shownKeys, told, mishap, lastPass>>

LinkWrites ==
    /\ linking # <<>>
    /\ LET l == linking[1] IN
       /\ stored' = [stored EXCEPT !.inbox = l.seen.inbox \union {InboxEntry(l.seen.seal, l.tok)}]
       /\ told' = told \union {l.tok}
       /\ mishap' = mishap \union (IF l.seen # stored THEN {"overlap"} ELSE {})
    /\ linking' = <<>>
    /\ UNCHANGED <<migration, client, fresh, shownKeys, lastPass, vaultMoves>>

VaultNext ==
    \/ \E c \in Clients :
          \/ LoadSettings(c) \/ CreateVault(c) \/ SavePlain(c) \/ SaveLocked(c)
          \/ ChangePassphrase(c) \/ WrapKey(c) \/ ForgetKey(c)
          \/ PutReads(c) \/ PutWrites(c) \/ PutAnswered(c) \/ AnswerLost(c)
          \/ \E way \in {"passphrase", "recovery key"} : UnlockVault(c, way)
          \/ \E k \in ApiKeys : SaveSecret(c, k)
    \/ \E k \in OauthKeys : LinkReads(k)
    \/ LinkWrites

VaultSpec == VaultInit /\ [][VaultNext]_vaultVars
----------------------------------------------------------------------------
Spared(ms) == ms \cap mishap = {}

\* Saves that overlap or come late, changes of the passphrase, failed and repeated
\* creations and a migration under way: what is stored always opens under the key
\* that the passphrase unwraps, and is never legacy ciphertext under a seal.  (Not
\* when a tab makes a second vault over one it has not seen, or wraps a wiped key.)
VaultOpens ==
    stored.seal # NoSeal =>
        /\ stored.blob.key # ServerKey
        /\ Spared({"remade", "wiped"}) => OpensUnder(stored.blob, stored.seal.dek)

\* A recovery key a user was shown opens the vault from then on, whatever becomes of
\* the passphrase.
RecoveryWorks ==
    Spared({"remade", "wiped"}) =>
        \A r \in shownKeys : stored.seal.rec = r /\ stored.seal.dek = r

\* Only a save that overlaps a change of the passphrase brings the old one back.
PassphraseHolds == Spared({"overlap"}) => stored.seal.pass = lastPass

\* Nobody writes from an old row: a secret that a user was told is saved, or that was
\* there before the migration, is in the blob or waits in an inbox that opens.
SecretsKept ==
    Spared(Mishaps) =>
        told \subseteq stored.blob.keys \union {e.tok : e \in Openable(stored)}

\* The text of a recovery key gives the key back, and a text that lost a letter none
\* (the bytes 0, 1, 90, 128 and 255).
SomeBytes == {<<0, 0, 0, 0, 0, 0, 0, 0>>, <<0, 0, 0, 0, 0, 0, 0, 1>>, <<0, 1, 0, 1, 1, 0, 1, 0>>,
              <<1, 0, 0, 0, 0, 0, 0, 0>>, <<1, 1, 1, 1, 1, 1, 1, 1>>}
RecoveryKeyReadsBack ==
    vaultMoves = 0 =>
        \A raw \in [1..KeyBytes -> SomeBytes] :
            /\ RawOf(Letters(raw)) = raw
            /\ RawOf(SubSeq(Letters(raw), 1, Len(Letters(raw)) - 1)) = <<>>

VaultSound == RecoveryKeyReadsBack /\ VaultOpens /\ RecoveryWorks /\ PassphraseHolds /\ SecretsKept

VaultTypeOK ==
    /\ stored.seal.dek \in -2..MaxSeals /\ stored.blob.key \in -2..MaxSeals
    /\ \A c \in Clients : client[c].pc \in {"idle", "wrapping", "sent", "read", "written"}
    /\ mishap \subseteq Mishaps /\ vaultMoves \in 0..VaultMoves
====
