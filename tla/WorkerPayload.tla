---- MODULE WorkerPayload ----
(***************************************************************************)
(* The payload of a worker, which the daemon keeps twice: in the row of    *)
(* the database and in the runtime cache (apps/daemon/src/runtime.ts,      *)
(* makeContext).  A tick gets the row; savePayload() merges its patch into *)
(* what the cache has, and reaches the row only if the last time it did is *)
(* DB_SAVE_INTERVAL_MS ago.  A payload maps its fields to values; the      *)
(* empty one stands for an absent row or entry.                            *)
(***************************************************************************)
VARIABLES row, live

Nothing == <<>>

Field(payload, name, default) == IF name \in DOMAIN payload THEN payload[name] ELSE default

\* A mutant: savePayload() replaces what was there.
Replaced(patch) == patch

\* { ...onto, ...patch }
Merge(patch, onto) ==
    [f \in DOMAIN patch \cup DOMAIN onto |-> IF f \in DOMAIN patch THEN patch[f] ELSE onto[f]]

Merged(patch) == Merge(patch, live)

SavePayload(patch, flushes) ==
    /\ live' = Merged(patch)
    /\ row' = IF flushes THEN Merged(patch) ELSE row

\* The status the runtime saves as a tick begins: none of the worker's own fields.
SaveStatus(flushes) == SavePayload(Nothing, flushes)

\* PUT /api/storage/source-state/<source>: the whole payload, in both places.
PutPayload(payload) == row' = payload /\ live' = payload

\* The entry outlives a restart of the daemon, unless SOURCE_STATE_TTL_MS pass first.
EntryAfterRestart == live' \in {live, Nothing}
====
