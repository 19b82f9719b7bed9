-------------------------- MODULE FingerprintStore --------------------------
(***************************************************************************)
(* One candidate's data across the stores that hold it: the sessions and   *)
(* fingerprints tables, the in-memory session registry and the in-process  *)
(* fingerprint cache.  GET /sessions/{id}/fingerprint fills the cache,     *)
(* _persist writes session rows, the assembly DAG saves fingerprints, and  *)
(* the GDPR purge (DELETE /candidates/{id}) and the tenant purge           *)
(* (DELETE /admin/tenants/{id}) empty all of it, each in one transaction   *)
(* with an await at every statement.                                       *)
(***************************************************************************)
EXTENDS Naturals, FiniteSets

CONSTANTS
  Sessions,      \* sessions of the candidate opened before the purge ends
  Readers,       \* concurrent GET fingerprint requests
  MaxWrites,     \* upserts of one session (create and end: 2)
  MaxRuns,       \* assembly runs of one session
  MaxRestarts,   \* restarts of the API process
  TenantPurges   \* does an administrator purge the whole tenant?

ASSUME StoreAssumption ==
  /\ TenantPurges \in BOOLEAN
  /\ MaxWrites \in Nat /\ MaxRuns \in Nat /\ MaxRestarts \in Nat
  /\ IsFiniteSet(Sessions)

VARIABLES
  candidate,     \* the candidates row: unknown, registered or purged
  session,       \* [Sessions -> new, live in the registry, or gone from it]
  writes,        \* [Sessions -> upserts already attempted]
  row,           \* sessions with a row in the sessions table
  fp,            \* [Sessions -> tenant_id of the fingerprints row, or "none"]
  cache,         \* sessions whose key fp:{owner}:{sid} holds a live entry
  reader,        \* [Readers -> progress of the GET]
  reading,       \* [Readers -> the session it asks for]
  dag,           \* [Sessions -> progress of the assembly run]
  runs,          \* [Sessions -> assembly runs started]
  delivered,     \* sessions whose fingerprint went to the owner's webhooks
  purge,         \* progress of the purge handler
  todo,          \* session ids the purge has still to visit
  onList,        \* history: sessions whose fingerprints the purge asks for
  doomedFp,      \* fingerprints deleted by its open transaction
  doomedRow,     \* session rows deleted by its open transaction
  restarts,
  stray          \* history: <<what, session>> written behind the purge's back

storeVars == <<candidate, session, writes, row, fp, cache, reader, reading, dag, runs,
               delivered, purge, todo, onList, doomedFp, doomedRow, restarts, stray>>

sessionVars == <<session, writes>>
tables      == <<candidate, row, fp>>
readerVars  == <<reader, reading>>
dagVars     == <<dag, runs, delivered>>
purgeVars   == <<purge, todo, onList, doomedFp, doomedRow>>

Tenant   == {"owner", "default"}
ReaderPc == {"idle", "resolved", "querying", "found"}
DagPc    == {"idle", "assembled", "resolved_owner", "resolved_default", "saved"}
PurgePc  == {"idle", "listing", "sweeping", "committing",
             "tenant_fingerprints", "tenant_webhooks", "tenant_rows"}

StoreTypeOK ==
  /\ candidate \in {"unknown", "registered", "purged"}
  /\ session \in [Sessions -> {"new", "live", "gone"}]
  /\ row \subseteq Sessions /\ cache \subseteq Sessions
  /\ writes \in [Sessions -> 0..MaxWrites]
  /\ fp \in [Sessions -> Tenant \cup {"none"}]
  /\ reader \in [Readers -> ReaderPc] /\ reading \in [Readers -> Sessions]
  /\ dag \in [Sessions -> DagPc] /\ runs \in [Sessions -> 0..MaxRuns]
  /\ delivered \subseteq Sessions
  /\ purge \in PurgePc /\ todo \subseteq onList /\ onList \subseteq Sessions
  /\ doomedFp \subseteq Sessions /\ doomedRow \subseteq row
  /\ restarts \in 0..MaxRestarts
  /\ stray \subseteq {"row", "fp", "cache"} \X Sessions

StoreInit ==
  /\ candidate = "unknown"
  /\ session = [s \in Sessions |-> "new"]
  /\ row = {} /\ cache = {}
  /\ writes = [s \in Sessions |-> 0]
  /\ fp = [s \in Sessions |-> "none"]
  /\ reader = [r \in Readers |-> "idle"]
  /\ reading \in [Readers -> Sessions]
  /\ dag = [s \in Sessions |-> "idle"] /\ runs = [s \in Sessions |-> 0]
  /\ delivered = {}
  /\ purge = "idle" /\ todo = {} /\ onList = {} /\ doomedFp = {} /\ doomedRow = {}
  /\ restarts = 0 /\ stray = {}

-----------------------------------------------------------------------------
(* Registration and sessions.                                              *)

RegisterCandidate ==
  /\ candidate = "unknown"
  /\ candidate' = "registered"
  /\ UNCHANGED <<sessionVars, row, fp, cache, readerVars, dagVars, purgeVars,
                 restarts, stray>>

(* No foreign key: a session needs no registered candidate.                *)
OpenSession(s) ==
  /\ candidate # "purged" /\ session[s] = "new"
  /\ session' = [session EXCEPT ![s] = "live"]
  /\ UNCHANGED <<writes, tables, cache, readerVars, dagVars, purgeVars, restarts, stray>>

(* Is the purge past its own DELETE of this, or its own eviction?  For the *)
(* fingerprint of a session it did not list it has none.                   *)
Passed(store, s) ==
  \/ candidate = "purged"
  \/ purge = "committing" /\ (store = "row" \/ s \in onList)
  \/ purge = "sweeping" /\ store # "row" /\ s \in onList \ todo
  \/ purge \in {"tenant_webhooks", "tenant_rows"} /\ store # "row"
  \/ purge = "tenant_fingerprints" /\ store = "cache"

Behind(store, s) == IF Passed(store, s) THEN {<<store, s>>} ELSE {}

(* _persist with the registry's record.  INSERT ... ON CONFLICT waits for  *)
(* the transaction that has deleted the same row; a failure is swallowed.  *)
PersistSession(s) ==
  /\ session[s] = "live" /\ writes[s] < MaxWrites
  /\ s \notin doomedRow
  /\ writes' = [writes EXCEPT ![s] = @ + 1]
  /\ \/ row' = row \cup {s} /\ stray' = stray \cup Behind("row", s)
     \/ UNCHANGED <<row, stray>>
  /\ UNCHANGED <<session, candidate, fp, cache, readerVars, dagVars, purgeVars,
                 restarts>>

-----------------------------------------------------------------------------
(* GET /sessions/{id}/fingerprint.                                         *)

(* What the handler does once it knows the tenant: a cache hit answers.    *)
Lookup(r, s) == reader' = [reader EXCEPT ![r] = IF s \in cache THEN "idle" ELSE "querying"]

(* The tenant comes from the registry at once, or from the sessions table  *)
(* with an await; without either the answer is 404.                        *)
GetStart(r, s) ==
  /\ reader[r] = "idle"
  /\ reading' = [reading EXCEPT ![r] = s]
  /\ \/ session[s] = "live" /\ Lookup(r, s)
     \/ session[s] # "live" /\ s \in row /\ reader' = [reader EXCEPT ![r] = "resolved"]
  /\ UNCHANGED <<sessionVars, tables, cache, dagVars, purgeVars, restarts, stray>>

GetLookup(r) ==
  /\ reader[r] = "resolved"
  /\ Lookup(r, reading[r])
  /\ UNCHANGED <<sessionVars, tables, cache, reading, dagVars, purgeVars, restarts, stray>>

(* Variant: the query does not filter on tenant_id.                        *)
GetQueryAnyTenant(r) ==
  /\ reader[r] = "querying"
  /\ reader' = [reader EXCEPT ![r] = IF fp[reading[r]] # "none" THEN "found" ELSE "idle"]
  /\ UNCHANGED <<sessionVars, tables, cache, reading, dagVars, purgeVars, restarts, stray>>

(* The query filters on tenant_id; no row is a 404.                        *)
GetQuery(r) ==
  /\ reader[r] = "querying"
  /\ reader' = [reader EXCEPT ![r] = IF fp[reading[r]] = "owner" THEN "found" ELSE "idle"]
  /\ UNCHANGED <<sessionVars, tables, cache, reading, dagVars, purgeVars, restarts, stray>>

GetFill(r) ==
  /\ reader[r] = "found"
  /\ reader' = [reader EXCEPT ![r] = "idle"]
  /\ cache' = cache \cup {reading[r]}
  /\ stray' = stray \cup Behind("cache", reading[r])
  /\ UNCHANGED <<sessionVars, tables, reading, dagVars, purgeVars, restarts>>

(* An entry outlives its hour: get() treats it as absent from then on.     *)
Expire(s) ==
  /\ s \in cache
  /\ cache' = cache \ {s}
  /\ UNCHANGED <<sessionVars, tables, readerVars, dagVars, purgeVars, restarts, stray>>

-----------------------------------------------------------------------------
(* The orchid_fingerprint_assembly DAG, a process of its own.              *)

Assemble(s) ==
  /\ dag[s] = "idle" /\ runs[s] < MaxRuns
  /\ session[s] # "new"
  /\ dag' = [dag EXCEPT ![s] = "assembled"]
  /\ runs' = [runs EXCEPT ![s] = @ + 1]
  /\ UNCHANGED <<sessionVars, tables, cache, readerVars, delivered, purgeVars, restarts, stray>>

(* Without a sessions row the fingerprint is filed under tenant "default". *)
ResolveTenant(s) ==
  /\ dag[s] = "assembled"
  /\ dag' = [dag EXCEPT ![s] = IF s \in row THEN "resolved_owner" ELSE "resolved_default"]
  /\ UNCHANGED <<sessionVars, tables, cache, readerVars, runs, delivered, purgeVars,
                 restarts, stray>>

(* Variant: what is filed is what the task knows about the tenant.         *)
SavedTenantRaw(s) == IF fp[s] # "none" THEN fp[s] ELSE dag[s]

(* save_fingerprint: the conflict clause does not touch tenant_id, so the  *)
(* tenant of the first save stays.                                         *)
SavedTenant(s) ==
  IF fp[s] # "none" THEN fp[s]
  ELSE IF dag[s] = "resolved_owner" THEN "owner" ELSE "default"

SaveFingerprint(s) ==
  /\ dag[s] \in {"resolved_owner", "resolved_default"}
  /\ s \notin doomedFp
  /\ fp' = [fp EXCEPT ![s] = SavedTenant(s)]
  /\ dag' = [dag EXCEPT ![s] = "saved"]
  /\ stray' = stray \cup Behind("fp", s)
  /\ UNCHANGED <<sessionVars, candidate, row, cache, readerVars, runs, delivered,
                 purgeVars, restarts>>

(* Variant: the hooks are notified before the fingerprint is saved.        *)
DeliverUnsaved(s) ==
  /\ dag[s] \in {"resolved_owner", "saved"}
  /\ dag' = [dag EXCEPT ![s] = "idle"]
  /\ delivered' = IF s \in row THEN delivered \cup {s} ELSE delivered
  /\ UNCHANGED <<sessionVars, tables, cache, readerVars, runs, purgeVars, restarts, stray>>

(* deliver_fingerprint looks the tenant up again, and gives up without a   *)
(* sessions row.  Failing hooks are logged and skipped.                    *)
Deliver(s) ==
  /\ dag[s] = "saved"
  /\ dag' = [dag EXCEPT ![s] = "idle"]
  /\ delivered' = IF s \in row THEN delivered \cup {s} ELSE delivered
  /\ UNCHANGED <<sessionVars, tables, cache, readerVars, runs, purgeVars, restarts, stray>>

-----------------------------------------------------------------------------
(* DELETE /candidates/{id}.  Deletions are visible to others at commit.    *)

PurgeStart ==
  /\ purge = "idle" /\ candidate = "registered"
  /\ purge' = "listing"
  /\ UNCHANGED <<sessionVars, tables, cache, readerVars, dagVars, todo, onList, doomedFp,
                 doomedRow, restarts, stray>>

PurgeList ==
  /\ purge = "listing"
  /\ purge' = "sweeping"
  /\ todo' = row /\ onList' = row
  /\ UNCHANGED <<sessionVars, tables, cache, readerVars, dagVars, doomedFp, doomedRow,
                 restarts, stray>>

(* Variants: the cache entry is not evicted; the sweep commits as it goes. *)
PurgeSweepCached(s) ==
  /\ purge = "sweeping" /\ s \in todo
  /\ todo' = todo \ {s}
  /\ doomedFp' = IF fp[s] = "owner" THEN doomedFp \cup {s} ELSE doomedFp
  /\ UNCHANGED <<sessionVars, tables, cache, readerVars, dagVars, purge, onList, doomedRow,
                 restarts, stray>>

PurgeSweepAutocommit(s) ==
  /\ purge = "sweeping" /\ s \in todo
  /\ todo' = todo \ {s}
  /\ cache' = cache \ {s}
  /\ fp' = [fp EXCEPT ![s] = IF @ = "owner" THEN "none" ELSE @]
  /\ UNCHANGED <<sessionVars, candidate, row, readerVars, dagVars, purge, onList, doomedFp,
                 doomedRow, restarts, stray>>

(* fingerprint_cache.delete and the DELETE of the fingerprint follow each  *)
(* other, with an await between this session and the next.                 *)
PurgeSweep(s) ==
  /\ purge = "sweeping" /\ s \in todo
  /\ todo' = todo \ {s}
  /\ cache' = cache \ {s}
  /\ doomedFp' = IF fp[s] = "owner" THEN doomedFp \cup {s} ELSE doomedFp
  /\ UNCHANGED <<sessionVars, tables, readerVars, dagVars, purge, onList, doomedRow, restarts,
                 stray>>

(* DELETE FROM sessions, then FROM candidates.                             *)
PurgeRows ==
  /\ \/ purge = "sweeping" /\ todo = {}
     \/ purge = "tenant_rows"
  /\ purge' = "committing"
  /\ doomedRow' = row
  /\ UNCHANGED <<sessionVars, tables, cache, readerVars, dagVars, todo, onList, doomedFp,
                 restarts, stray>>

PurgeCommit ==
  /\ purge = "committing"
  /\ purge' = "idle"
  /\ row' = row \ doomedRow
  /\ fp' = [s \in Sessions |-> IF s \in doomedFp THEN "none" ELSE fp[s]]
  /\ candidate' = "purged"
  /\ doomedRow' = {} /\ doomedFp' = {}
  /\ UNCHANGED <<sessionVars, cache, readerVars, dagVars, todo, onList, restarts, stray>>

(* A statement fails: get_db rolls back, the evictions remain.             *)
PurgeFails ==
  /\ purge # "idle"
  /\ purge' = "idle"
  /\ todo' = {} /\ onList' = {} /\ doomedRow' = {} /\ doomedFp' = {}
  /\ stray' = {}
  /\ UNCHANGED <<sessionVars, tables, cache, readerVars, dagVars, restarts>>

(* DELETE /admin/tenants/{owner}: the cache is cleared before the first    *)
(* await, then the tables follow in the order fingerprints, webhooks,      *)
(* sessions, candidates.  The tenant may have no candidates row at all.    *)
TenantPurgeStart ==
  /\ TenantPurges /\ purge = "idle" /\ candidate # "purged"
  /\ purge' = "tenant_fingerprints"
  /\ cache' = {}
  /\ todo' = {} /\ onList' = Sessions
  /\ UNCHANGED <<sessionVars, tables, readerVars, dagVars, doomedFp, doomedRow,
                 restarts, stray>>

TenantPurgeFingerprints ==
  /\ purge = "tenant_fingerprints"
  /\ purge' = "tenant_webhooks"
  /\ doomedFp' = {s \in Sessions : fp[s] = "owner"}
  /\ UNCHANGED <<sessionVars, tables, cache, readerVars, dagVars, todo, onList, doomedRow,
                 restarts, stray>>

TenantPurgeWebhooks ==
  /\ purge = "tenant_webhooks"
  /\ purge' = "tenant_rows"
  /\ UNCHANGED <<sessionVars, tables, cache, readerVars, dagVars, todo, onList, doomedFp,
                 doomedRow, restarts, stray>>

-----------------------------------------------------------------------------
(* The API process restarts; the database rolls an open transaction back.  *)
Restart ==
  /\ restarts < MaxRestarts
  /\ restarts' = restarts + 1
  /\ session' = [s \in Sessions |-> IF session[s] = "live" THEN "gone" ELSE session[s]]
  /\ cache' = {}
  /\ reader' = [r \in Readers |-> "idle"]
  /\ purge' = "idle" /\ todo' = {} /\ doomedFp' = {} /\ doomedRow' = {}
  /\ stray' = IF candidate = "purged" THEN stray ELSE {}
  /\ onList' = IF candidate = "purged" THEN onList ELSE {}
  /\ UNCHANGED <<writes, tables, reading, dagVars>>

Purging ==
  \/ PurgeList \/ PurgeRows \/ PurgeCommit
  \/ TenantPurgeFingerprints \/ TenantPurgeWebhooks
  \/ \E s \in Sessions : PurgeSweep(s)

Answering(r) == GetLookup(r) \/ GetQuery(r) \/ GetFill(r)

StoreNext ==
  \/ RegisterCandidate \/ PurgeStart \/ TenantPurgeStart \/ Purging \/ PurgeFails
  \/ \E s \in Sessions :
       \/ OpenSession(s) \/ PersistSession(s) \/ Expire(s)
       \/ Assemble(s) \/ ResolveTenant(s) \/ SaveFingerprint(s) \/ Deliver(s)
  \/ \E r \in Readers : Answering(r) \/ \E s \in Sessions : GetStart(r, s)
  \/ Restart

StoreSpec == StoreInit /\ [][StoreNext]_storeVars

-----------------------------------------------------------------------------
(* A purge knows of all there is when it lists the sessions, and takes     *)
(* what it knows of, whatever the interleaving: a fingerprint or a cache   *)
(* entry of the owner is of a session with a row then; and after the       *)
(* commit there is no session row and, of the sessions on the list (of     *)
(* all, for the tenant purge), no fingerprint of the owner and no cache    *)
(* entry, but for what was written after its own DELETE or eviction: a row *)
(* by a late _persist, a fingerprint by a late assembly run, an entry by a *)
(* GET that had read the fingerprint before.  Of a session whose first row *)
(* is younger than the list only the row is promised: see next.            *)
ListedIsPurged ==
  /\ purge = "listing" => \A s \in Sessions : fp[s] = "owner" \/ s \in cache => s \in row
  /\ candidate = "purged" =>
       /\ \A s \in row : <<"row", s>> \in stray
       /\ \A s \in onList : fp[s] = "owner" => <<"fp", s>> \in stray
       /\ \A s \in cache \cap onList : <<"cache", s>> \in stray

(* What DELETE /candidates/{id} says of itself: "remove candidate and all  *)
(* associated data (sessions, fingerprints). Cascades to all stores."  So  *)
(* it leaves no fingerprint whose session it took, unless that was written *)
(* after its DELETE.  The code does not keep this: a session row that      *)
(* comes after the SELECT of the ids goes with the DELETE of the sessions, *)
(* but there is no DELETE of its fingerprint, which stays without session, *)
(* candidate or anything that would remove it.                             *)
NoFingerprintIsOrphaned ==
  candidate = "purged" =>
    \A s \in Sessions \ row : fp[s] = "owner" => <<"fp", s>> \in stray

(* What was given out can be given out again, until a purge: the cache     *)
(* answers only for a fingerprint the owner has in the table, and one that *)
(* went to the owner's webhooks is in the table.  (Not always under the    *)
(* owner's name: a run that met no sessions row filed it under "default".) *)
GivenOutIsStored ==
  candidate # "purged" =>
    /\ \A s \in cache : fp[s] = "owner"
    /\ \A s \in delivered : fp[s] # "none"

(* The purge is all or nothing in the tables: as long as it has not        *)
(* committed, no session row and no fingerprint of the candidate is gone,  *)
(* and one step takes away everything it has deleted: with a row it lists  *)
(* the fingerprint too.                                                    *)
TablesShrinkOnlyAtCommit ==
  [][\A s \in Sessions :
       (s \in row /\ s \notin row') \/ (fp[s] # "none" /\ fp'[s] = "none") =>
         /\ candidate' = "purged"
         /\ s \in row => s \notin row'
         /\ s \in row \cap onList /\ fp[s] = "owner" /\ <<"fp", s>> \notin stray
              => fp'[s] = "none"]_storeVars

=============================================================================
