----------------------------- MODULE EvidenceStore -----------------------------
(***************************************************************************)
(* The encrypted evidence database (expoEncryptedEvidenceStore.ts): how it *)
(* is opened, how the unencrypted queue of older versions is migrated into *)
(* it, how a snapshot of the queue replaces its rows, what a read makes of *)
(* them, and when evidence expires or leaves the quarantine.               *)
(*                                                                         *)
(* An item is a record; its row is the same record, stored in the table    *)
(* Classify names, under the key RecordKey.  Its replayable content is a   *)
(* row of a table of its own with its own expiry.  An exclusive            *)
(* transaction is one step; between two awaits of opening the process may  *)
(* die.                                                                    *)
(***************************************************************************)
EXTENDS Naturals, FiniteSets, Functions

CONSTANTS
    Items,         \* queueItemIds
    KindOf,        \* Items -> what the item is
    LegacyItems,   \* the items an older version left in unencrypted storage
    Blocked,       \* those of them it had blocked for reconciliation
    Owner,         \* the account that signs in
    SensitiveLife, \* 7 days
    Retention,     \* 30 days
    MaxTime,       \* bound: the clock
    MaxTrouble     \* bound: failing operations, unreadable rows, restarts, exports

Kinds == {"event", "completion", "proof", "location"}
Unbound == "legacy-unbound-owner"
Never == MaxTime + Retention + 1
Garbage == "garbage"

ASSUME StoreAssumption ==
    /\ KindOf \in [Items -> Kinds] /\ Unbound # Owner
    /\ Blocked \subseteq LegacyItems /\ LegacyItems \subseteq Items
    /\ \A i \in LegacyItems : KindOf[i] # "completion"
    /\ SensitiveLife \in Nat /\ Retention \in Nat /\ MaxTime \in Nat
    /\ MaxTrouble \in Nat

VARIABLES
    keychain, \* the key in the system's key store, 0 for none
    sealed,   \* the key the database file is encrypted with, 0 before its first write
    legacy,   \* the value in unencrypted storage: "none", Garbage or "queue"
    db,       \* the database
    phase,    \* how far the process is: with opening, or with a save
    process,  \* the rest of the process: the key it uses, its queue, an export
    clock, trouble

storeVars == <<keychain, sealed, legacy, db, phase, process, clock, trouble>>
bounds == <<clock, trouble>>

Terminal == {"ACKNOWLEDGED", "DISCARDED"}

\* An item: [item, owner, blocked (it has a reconciliation record), state, at
\* (enqueuedAt), settled (the last ACK or DISCARD of its journal, else enqueuedAt)].
Closed == [key |-> 0, queue |-> {}, bound |-> FALSE, dirty |-> FALSE,
           payload |-> {}, degraded |-> FALSE, exporting |-> {}]

StoreInit ==
    /\ keychain = 0 /\ sealed = 0
    /\ legacy \in {"none", Garbage, "queue"}
    /\ db = [version |-> 0, rows |-> {}, unreadable |-> {}, replay |-> [k \in {} |-> 0],
             corrupt |-> {}, migrated |-> FALSE, exports |-> {}]
    /\ phase = "closed" /\ process = Closed
    /\ clock = 0 /\ trouble = 0

--------------------------------------------------------------------------------
(* Rows.                                                                      *)

RecordKey(i) == <<i.owner, i.item>>
KeysOf(items) == {RecordKey(i) : i \in items}

Classify(i) ==
    IF i.blocked THEN "migration_quarantine"
    ELSE IF KindOf[i.item] = "location" THEN "location_batches" ELSE "workflow_evidence"

Quarantined(rows) == {r \in rows : Classify(r) = "migration_quarantine"}

(* isOfflineTerminalEvidenceExpired; proofs a completion still waits for and  *)
(* undelivered route ends are OfflineEvidence's.                              *)
Expired(i) == i.state \in Terminal /\ clock - i.settled > Retention
(* hasSensitiveReplayPayload, extractSensitiveReplay: a receipt is part of it.  *)
HasReplay(i) == KindOf[i.item] # "location"
Content(i) == IF KindOf[i.item] = "completion" /\ i.state = "ACKNOWLEDGED"
              THEN "with receipt" ELSE "input"

(* Mutant: every replay payload lives seven days.                             *)
SevenDays(i) == clock + SensitiveLife

(* getSensitiveReplayExpiry.                                                  *)
ReplayUntil(i) ==
    IF KindOf[i.item] = "event" THEN clock + SensitiveLife
    ELSE IF i.state \in Terminal THEN i.settled + Retention ELSE Never

(* The replay rows after the items are written: one whose content did not     *)
(* change keeps the expiry of its first write; what has expired goes.          *)
ReplayFor(items) ==
    LET wanted == {i \in items : HasReplay(i)}
        Written(i) ==
            LET k == RecordKey(i)
            IN  IF k \in DOMAIN db.replay /\ db.replay[k].content = Content(i)
                THEN db.replay[k]
                ELSE [content |-> Content(i), until |-> ReplayUntil(i)]
        all == [k \in KeysOf(wanted) |-> Written(CHOOSE i \in wanted : RecordKey(i) = k)]
    IN  Restrict(all, {k \in DOMAIN all : all[k].until >= clock})

(* Mutant: rows the snapshot no longer has stay.                              *)
KeepsStale(rows, items) == {r \in rows : RecordKey(r) \notin KeysOf(items)}

(* replaceQueueRows deletes what is neither kept by the snapshot nor in        *)
(* quarantine; a quarantined row only with its expired item.                   *)
Untouched(rows, items) ==
    {r \in Quarantined(rows) : RecordKey(r) \notin KeysOf(items)}

ReplaceQueueRows(queue) ==
    LET retained == {i \in queue : ~Expired(i)}
    IN  [db EXCEPT !.rows = Untouched(@, queue) \cup retained,
                   !.unreadable = @ \cap KeysOf(Untouched(db.rows, queue)),
                   !.replay = ReplayFor(retained),
                   !.exports = {e \in @ : clock - e.at <= Retention}]

(* quarantineMalformedEvidenceRow: an unreadable row becomes a redacted        *)
(* summary for what is left of thirty days, or only a diagnostic.              *)
Summaries(rows) ==
    {[of |-> r.item, until |-> r.at + Retention] :
        r \in {s \in rows : clock < s.at + Retention}}

Readable(r) == RecordKey(r) \notin db.unreadable

PurgedRows(rows) == {r \in rows : Readable(r) /\ ~Expired(r)}

(* purgeExpiredEvidence.                                                      *)
PurgeExpired ==
    LET kept == PurgedRows(db.rows)
        broken == {r \in db.rows : ~Readable(r)}
    IN  [db EXCEPT
           !.rows = kept, !.unreadable = {},
           !.corrupt = {c \in @ : clock < c.until} \cup Summaries(broken),
           !.replay = Restrict(@, {k \in DOMAIN @ : /\ @[k].until >= clock
                                                    /\ k \notin KeysOf(db.rows \ kept)}),
           !.exports = {e \in @ : clock - e.at <= Retention}]

(* A row as it is read: without its replay payload it reads as discarded.      *)
AsRead(r, store) ==
    IF HasReplay(r) /\ RecordKey(r) \notin DOMAIN store.replay
    THEN [r EXCEPT !.state = "DISCARDED"] ELSE r

(* The original input of a completion is never given up: getItem throws.       *)
InputMissing(store) ==
    \E r \in store.rows : /\ KindOf[r.item] = "completion"
                          /\ RecordKey(r) \notin DOMAIN store.replay

(* getItem: purge, read; a row that reads as past its retention is malformed.  *)
GetItem(store) == {AsRead(r, store) : r \in {s \in store.rows : ~Expired(AsRead(s, store))}}

AfterGetItem(store) ==
    LET lapsed == {r \in store.rows : Expired(AsRead(r, store))}
    IN  [store EXCEPT !.rows = @ \ lapsed, !.corrupt = @ \cup Summaries(lapsed)]

Normalized(queue) == {i \in queue : ~Expired(i)}

--------------------------------------------------------------------------------
(* Opening: createEncryptedEvidenceStore, one action per write to the disk.    *)

At(p) == phase = p
Goes(p) == phase' = p

FreshKey == CHOOSE k \in 1..2 : k # sealed
KeyInUse == IF keychain = 0 THEN FreshKey ELSE keychain

(* Mutant: the key is saved before the database was read with it.              *)
ProbesNothing(k) == TRUE

(* Reading sqlite_master succeeds with the right key or on an empty file.      *)
Probes(k) == sealed \in {0, k}

(* A key that was generated is saved before anything is written with it.       *)
ReadsKey ==
    /\ At("closed") /\ Probes(KeyInUse)
    /\ Goes("keyed") /\ process' = [process EXCEPT !.key = KeyInUse]
    /\ keychain' = KeyInUse
    /\ UNCHANGED <<sealed, legacy, db, bounds>>

(* The first write seals an empty file; with a wrong key it would fail.        *)
CreatesSchema ==
    /\ At("keyed") /\ Goes("schema")
    /\ sealed' = IF sealed = 0 THEN process.key ELSE sealed
    /\ UNCHANGED <<keychain, legacy, db, process, bounds>>

(* readPersistedQueueItem of a version 1 item.                                *)
FromLegacy(i) ==
    [item |-> i, owner |-> Unbound, blocked |-> i \in Blocked, at |-> 0, settled |-> 0,
     state |-> IF i \in Blocked THEN "QUARANTINED" ELSE "PENDING"]

(* migrateLegacyQueue's transaction, which verifies that the tables hold the   *)
(* migrated items and nothing else.                                           *)
MigratedRows == db.rows \cup {FromLegacy(i) : i \in LegacyItems}

Migratable == Cardinality(MigratedRows) + Cardinality(db.corrupt) = Cardinality(LegacyItems)

Migrates ==
    LET store == [db EXCEPT !.version = 2, !.migrated = legacy # "none"]
    IN  /\ At("schema") /\ db.version < 2 /\ Goes("migrated")
        /\ db' = CASE legacy = "none" -> store
                   [] legacy = Garbage ->
                        [store EXCEPT !.corrupt = {[of |-> Garbage, until |-> clock + Retention]}]
                   [] legacy = "queue" -> [store EXCEPT !.rows = MigratedRows,
                                                        !.replay = ReplayFor(MigratedRows)]
        /\ legacy = "queue" => Migratable
        /\ UNCHANGED <<keychain, sealed, legacy, process, bounds>>

AlreadyMigrated ==
    /\ At("schema") /\ db.version = 2 /\ Goes("migrated")
    /\ UNCHANGED <<keychain, sealed, legacy, db, process, bounds>>

(* The legacy value goes after the commit, or at a later start that finds the  *)
(* marker of the commit (cleanupCommittedLegacyQueue).                         *)
RemovesLegacy ==
    /\ At("migrated") /\ Goes("tidy")
    /\ legacy' = IF db.migrated THEN "none" ELSE legacy
    /\ UNCHANGED <<keychain, sealed, db, process, bounds>>

PurgesAtOpen ==
    /\ At("tidy") /\ Goes("open")
    /\ db' = PurgeExpired
    /\ UNCHANGED <<keychain, sealed, legacy, process, bounds>>

(* An operation of opening or of loading fails: the promise is forgotten and   *)
(* the next caller starts over (getExpoOfflineSubmissionQueue).                *)
OpeningFails ==
    /\ trouble < MaxTrouble /\ trouble' = trouble + 1
    /\ phase \notin {"closed", "ready", "written"}
    /\ Goes("closed") /\ process' = Closed
    /\ UNCHANGED <<keychain, sealed, legacy, db, clock>>

(* createPersistentOfflineSubmissionQueue reads the queue, once.               *)
Loads ==
    LET purged == PurgeExpired
    IN  /\ At("open") /\ ~InputMissing(purged)
        /\ db' = AfterGetItem(purged)
        /\ Goes("ready") /\ process' = [process EXCEPT !.queue = GetItem(purged)]
        /\ UNCHANGED <<keychain, sealed, legacy, bounds>>

--------------------------------------------------------------------------------
(* The queue in memory.  What its operations decide is OfflineEvidence's.      *)

Holds(queue) ==
    process' = [process EXCEPT !.queue = queue, !.dirty = TRUE]

Writable == phase \in {"ready", "written"} /\ ~process.degraded

(* bindAccountOwnerHash: rows of the older version become the account's; the   *)
(* rows are kept by owner and id, the adopted one over the other.              *)
Binds ==
    LET adopted == {i \in process.queue : i.owner = Unbound}
        own == {[i EXCEPT !.owner = Owner] : i \in adopted}
    IN  /\ phase \in {"ready", "written"} /\ ~process.bound
        /\ adopted # {} => Writable
        /\ process' =
             [process EXCEPT !.bound = TRUE, !.dirty = @ \/ adopted # {},
               !.queue = {i \in @ \ adopted : RecordKey(i) \notin KeysOf(own)} \cup own]
        /\ UNCHANGED <<keychain, sealed, legacy, db, phase, bounds>>

Enqueues(id) ==
    /\ Writable /\ process.bound
    /\ id \notin LegacyItems /\ \A i \in process.queue : i.item # id
    /\ \A r \in db.rows : r.item # id
    /\ Holds(process.queue \cup {[item |-> id, owner |-> Owner, blocked |-> FALSE,
                                  state |-> "PENDING", at |-> clock, settled |-> clock]})
    /\ UNCHANGED <<keychain, sealed, legacy, db, phase, bounds>>

Becomes(i, to) == Holds((process.queue \ {i}) \cup {to})

Settles(i) ==
    /\ Writable /\ process.bound /\ i.owner = Owner /\ i.state \notin Terminal
    /\ \E state \in Terminal : Becomes(i, [i EXCEPT !.state = state, !.settled = clock])
    /\ UNCHANGED <<keychain, sealed, legacy, db, phase, bounds>>

BlocksForReconciliation(i) ==
    /\ Writable /\ process.bound /\ i.owner = Owner
    /\ i.state = "PENDING" /\ ~i.blocked /\ KindOf[i.item] # "location"
    /\ Becomes(i, [i EXCEPT !.state = "QUARANTINED", !.blocked = TRUE])
    /\ UNCHANGED <<keychain, sealed, legacy, db, phase, bounds>>

--------------------------------------------------------------------------------
(* Saving: persistLatest writes a snapshot, reads it back and compares.        *)

Saves ==
    /\ At("ready") /\ (process.dirty \/ process.degraded)
    /\ Goes("written")
    /\ process' = [process EXCEPT !.dirty = FALSE, !.payload = Normalized(process.queue)]
    /\ db' = ReplaceQueueRows(process.queue)
    /\ UNCHANGED <<keychain, sealed, legacy, bounds>>

(* Nothing at all in the tables reads as null, which equals no payload.        *)
Verified(purged) ==
    /\ ~InputMissing(purged) /\ purged.rows \cup purged.corrupt # {}
    /\ GetItem(purged) = process.payload

Verifies ==
    LET purged == PurgeExpired
    IN  /\ At("written")
        /\ Goes("ready")
        /\ process' = [process EXCEPT !.payload = {}, !.degraded = ~Verified(purged)]
        /\ db' = IF InputMissing(purged) THEN purged ELSE AfterGetItem(purged)
        /\ UNCHANGED <<keychain, sealed, legacy, bounds>>

(* The write or the read fails.                                               *)
SaveFails ==
    /\ trouble < MaxTrouble /\ trouble' = trouble + 1
    /\ \/ At("written")
       \/ At("ready") /\ (process.dirty \/ process.degraded)
    /\ Goes("ready")
    /\ process' = [process EXCEPT !.payload = {}, !.dirty = FALSE, !.degraded = TRUE]
    /\ UNCHANGED <<keychain, sealed, legacy, db, clock>>

--------------------------------------------------------------------------------
(* Support: a quarantine may be purged before its time once it was exported.   *)

InScope(r, scope) == scope = "global" \/ r.owner = scope

(* The quarantine is read ...                                                 *)
ExportsQuarantine(scope) ==
    /\ phase \in {"ready", "written"} /\ process.exporting = {}
    /\ trouble < MaxTrouble /\ trouble' = trouble + 1
    /\ process' = [process EXCEPT !.exporting =
                     {[scope |-> scope, at |-> clock,
                       keys |-> KeysOf({r \in Quarantined(db.rows) : InScope(r, scope)}),
                       blobs |-> IF scope = Owner THEN {} ELSE db.corrupt]}]
    /\ UNCHANGED <<keychain, sealed, legacy, db, phase, clock>>

(* ... and the marker of what was read is written.                             *)
MarksExport ==
    /\ process.exporting # {}
    /\ db' = [db EXCEPT !.exports = @ \cup process.exporting]
    /\ process' = [process EXCEPT !.exporting = {}]
    /\ UNCHANGED <<keychain, sealed, legacy, phase, bounds>>

(* Mutant: the purge takes whatever is in quarantine now.                      *)
WhateverIsThere(e) == KeysOf(Quarantined(db.rows))

ExportedKeys(e) == e.keys

(* purgeExportedSupportQuarantine, with the scope of its marker.               *)
PurgesExported(e) ==
    LET gone == {r \in Quarantined(db.rows) : /\ RecordKey(r) \in ExportedKeys(e)
                                              /\ InScope(r, e.scope)}
    IN  /\ phase \in {"ready", "written"}
        /\ db' = [db EXCEPT !.rows = @ \ gone, !.unreadable = @ \ KeysOf(gone),
                            !.corrupt = @ \ e.blobs, !.exports = @ \ {e},
                            !.replay = Restrict(@, DOMAIN @ \ KeysOf(gone))]
        /\ UNCHANGED <<keychain, sealed, legacy, phase, process, bounds>>

--------------------------------------------------------------------------------
(* The environment.                                                           *)

Tick ==
    /\ clock < MaxTime /\ clock' = clock + 1
    /\ UNCHANGED <<keychain, sealed, legacy, db, phase, process, trouble>>

Crash ==
    /\ trouble < MaxTrouble /\ trouble' = trouble + 1
    /\ Goes("closed") /\ process' = Closed
    /\ UNCHANGED <<keychain, sealed, legacy, db, clock>>

(* The phone is restored with its files and without its keys.                 *)
KeyIsLost ==
    /\ trouble < MaxTrouble /\ trouble' = trouble + 1
    /\ keychain # 0 /\ keychain' = 0
    /\ Goes("closed") /\ process' = Closed
    /\ UNCHANGED <<sealed, legacy, db, clock>>

RowBreaks(r) ==
    /\ trouble < MaxTrouble /\ trouble' = trouble + 1
    /\ db' = [db EXCEPT !.unreadable = @ \cup {RecordKey(r)}]
    /\ UNCHANGED <<keychain, sealed, legacy, phase, process, clock>>

Opening == ReadsKey \/ CreatesSchema \/ Migrates \/ AlreadyMigrated \/ RemovesLegacy
           \/ PurgesAtOpen \/ Loads

Driver == \/ Binds
          \/ \E id \in Items : Enqueues(id)
          \/ \E i \in process.queue : Settles(i) \/ BlocksForReconciliation(i)

Support == \/ \E scope \in {"global", Owner} : ExportsQuarantine(scope)
           \/ MarksExport
           \/ \E e \in db.exports : PurgesExported(e)

StoreNext ==
    \/ Opening \/ Driver \/ Saves \/ Verifies \/ Support
    \/ OpeningFails \/ SaveFails
    \/ Tick \/ Crash \/ KeyIsLost
    \/ \E r \in db.rows : RowBreaks(r)

(* The next step of opening or of a save can be taken.                        *)
Ready ==
    CASE At("closed") -> Probes(KeyInUse)
      [] At("schema") -> db.version = 2 \/ legacy # "queue" \/ Migratable
      [] At("open") -> ~InputMissing(PurgeExpired)
      [] At("ready") -> process.dirty \/ process.degraded
      [] OTHER -> TRUE

(* What Opening, Saves and Verifies do to the phase, and nothing else does      *)
(* without trouble.                                                           *)
Proceeds ==
    /\ Ready /\ trouble' = trouble
    /\ phase' \in {"keyed", "schema", "migrated", "tidy", "open", "ready", "written"} \ {phase}

(* The store answers, and a queue that is degraded is recovered again and     *)
(* again (the storage recovery scheduler).                                    *)
StoreSpec ==
    /\ StoreInit /\ [][StoreNext]_storeVars
    /\ WF_<<phase, trouble>>(Proceeds)

--------------------------------------------------------------------------------
(* Properties.                                                                *)

(* The key of the database is in the key store before anything is written      *)
(* with it, and no other key ever takes its place: a restart can read what was *)
(* stored, unless the system itself lost the key.                              *)
KeyOpensDatabase ==
    sealed # 0 => keychain = sealed \/ (keychain = 0 /\ trouble > 0)

(* Evidence is in the legacy value or in a table until it was decided and its  *)
(* retention is over; a row support exported, one that is unreadable and an    *)
(* old one that lost what its retry needs may go.                             *)
MayGo(r) ==
    \/ ~Readable(r)
    \/ Expired(r)
    \/ \E i \in process.queue : RecordKey(i) = RecordKey(r) /\ Expired(i)
    \/ KindOf[r.item] = "event" /\ Expired(AsRead(r, PurgeExpired))
    \/ \E e \in db.exports : RecordKey(r) \in e.keys

EvidenceStays ==
    [][/\ \A r \in db.rows : (\A s \in db'.rows : s.item # r.item) => MayGo(r)
       /\ legacy = "queue" /\ legacy' = "none" => db.migrated]_storeVars

(* docs/route-access-flow.md:203, offlineSubmissionQueue.test.ts:1404: a queue *)
(* that became read-only is writable again once its snapshot can be saved.     *)
RecoveryHeals ==
    process.degraded ~> (~process.degraded \/ \A i \in process.queue : Expired(i))

(* However often it was interrupted, the store opens, with whatever it held.   *)
OpensAgain == At("closed") ~> (phase = "ready" \/ ~Probes(KeyInUse))
================================================================================
