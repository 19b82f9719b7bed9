---------------------- MODULE FingerprintOutputProofs ----------------------
(***************************************************************************)
(* Proofs about what becomes of a fingerprint.  FingerprintStore, for any  *)
(* number of sessions, readers, assembly runs and restarts: a purge takes  *)
(* all rows and, of the sessions it listed, all fingerprints and cache     *)
(* entries, it is all or nothing in the tables, and what was given out is  *)
(* stored until then.                                                      *)
(* WebhookDelivery, for any number of runs, hooks and attempts: every copy *)
(* of a fingerprint is explained, and a settled hook is left alone.        *)
(***************************************************************************)
EXTENDS FingerprintStore, WebhookDelivery, TLAPS

(* What is still there is going to be deleted by the open transaction, or  *)
(* was written behind the purge's back.                                    *)
RowAccounted(s)   == s \in row => s \in doomedRow \/ <<"row", s>> \in stray
FpAccounted(s)    == fp[s] = "owner" => s \in doomedFp \/ <<"fp", s>> \in stray
CacheAccounted(s) == s \in cache => <<"cache", s>> \in stray

(* What each stage of a purge has dealt with already: fingerprints and     *)
(* cache entries of the sessions on its list, and in the end all rows.     *)
StageInv ==
  /\ purge = "sweeping" =>
       \A s \in onList \ todo : FpAccounted(s) /\ CacheAccounted(s)
  /\ purge \in {"tenant_fingerprints", "tenant_webhooks", "tenant_rows", "committing"} =>
       \A s \in onList : CacheAccounted(s)
  /\ purge \in {"tenant_webhooks", "tenant_rows", "committing"} =>
       \A s \in onList : FpAccounted(s)
  /\ purge = "committing" => \A s \in Sessions : RowAccounted(s)

(* What the open transaction has deleted.                                  *)
DoomedInv ==
  /\ \A s \in doomedFp : fp[s] = "owner"
  /\ purge \in {"idle", "listing", "tenant_fingerprints"} => doomedFp = {}
  /\ purge # "committing" => doomedRow = {}
  /\ purge = "committing" => doomedFp \subseteq doomedRow

(* Until a purge, a fingerprint of the owner has a session row, a cache    *)
(* entry and a reader that found something have a fingerprint of the       *)
(* owner, and what was saved or delivered is in the table.                 *)
StoredInv ==
  candidate # "purged" =>
    /\ \A s \in Sessions :
         /\ dag[s] = "resolved_owner" => s \in row
         /\ dag[s] = "saved" => fp[s] # "none"
         /\ fp[s] = "owner" => s \in row
    /\ \A r \in Readers : reader[r] = "found" => fp[reading[r]] = "owner"
    /\ GivenOutIsStored

PurgedInv ==
  candidate = "purged" =>
    /\ purge = "idle"
    /\ \A s \in row : <<"row", s>> \in stray
    /\ \A s \in onList : fp[s] = "owner" => <<"fp", s>> \in stray
    /\ \A s \in cache \cap onList : <<"cache", s>> \in stray

StoreInv == StoreTypeOK /\ StageInv /\ DoomedInv /\ StoredInv /\ PurgedInv

(* Without a candidate, a row or a fingerprint nothing is owed.            *)
LEMMA InitStoreInv == StoreInit => StoreInv
  BY StoreAssumption DEF StoreInit, StoreInv, StoreTypeOK, StageInv, DoomedInv, StoredInv,
     PurgedInv, GivenOutIsStored, Tenant, ReaderPc, DagPc, PurgePc

(* A counter of calls stays within its bound.                              *)
LEMMA CountUp ==
  ASSUME NEW S, NEW bound \in Nat, NEW count \in [S -> 0..bound],
         NEW s \in S, count[s] < bound
  PROVE  [count EXCEPT ![s] = @ + 1] \in [S -> 0..bound]
  OBVIOUS

(* stray remembers what it knew, and a write behind the purge's back.      *)
LEMMA StrayGrows ==
  ASSUME NEW store \in {"row", "fp", "cache"}, NEW s \in Sessions,
         stray \subseteq {"row", "fp", "cache"} \X Sessions,
         stray' = stray \cup Behind(store, s)
  PROVE  /\ stray \subseteq stray'
         /\ stray' \subseteq {"row", "fp", "cache"} \X Sessions
         /\ Passed(store, s) => <<store, s>> \in stray'
  BY DEF Behind

(* A candidate that registers was unknown, and is not purged.              *)
LEMMA Registration == StoreInv /\ RegisterCandidate => StoreInv'
  BY DEF RegisterCandidate, StoreInv, StoreTypeOK, StageInv, DoomedInv, StoredInv, PurgedInv,
       GivenOutIsStored, RowAccounted, FpAccounted, CacheAccounted,
       sessionVars, readerVars, dagVars, purgeVars

(* Sessions and their rows.                                                *)
LEMMA SessionSteps ==
  ASSUME StoreInv, NEW s \in Sessions,
         OpenSession(s) \/ PersistSession(s) \/ Expire(s)
  PROVE  StoreInv'
<1>. USE StoreAssumption DEF StoreInv, StoreTypeOK, StageInv, DoomedInv, StoredInv, PurgedInv,
       GivenOutIsStored, RowAccounted, FpAccounted, CacheAccounted,
       sessionVars, tables, readerVars, dagVars, purgeVars
<1>1. CASE OpenSession(s)
  BY <1>1 DEF OpenSession
<1>2. CASE PersistSession(s)
  <2>1. writes' \in [Sessions -> 0..MaxWrites]
    BY <1>2, CountUp DEF PersistSession
  <2>2. /\ UNCHANGED <<session, candidate, fp, cache, readerVars, dagVars, purgeVars, restarts>>
        /\ s \notin doomedRow
    BY <1>2 DEF PersistSession
  <2>3. CASE row' = row \cup {s} /\ stray' = stray \cup Behind("row", s)
    <3>1. /\ stray \subseteq stray' /\ stray' \subseteq {"row", "fp", "cache"} \X Sessions
          /\ Passed("row", s) => <<"row", s>> \in stray'
      BY <2>3, StrayGrows
    <3>. QED
      BY <2>1, <2>2, <2>3, <3>1 DEF Passed
  <2>4. CASE UNCHANGED <<row, stray>>
    BY <2>1, <2>2, <2>4
  <2>. QED
    BY <1>2, <2>3, <2>4 DEF PersistSession
<1>3. CASE Expire(s)
  BY <1>3 DEF Expire
<1>. QED
  BY <1>1, <1>2, <1>3

(* A GET and the fingerprint it puts into the cache.                       *)
LEMMA ReaderSteps ==
  ASSUME StoreInv, NEW r \in Readers,
         Answering(r) \/ \E s \in Sessions : GetStart(r, s)
  PROVE  StoreInv'
<1>. USE StoreAssumption DEF StoreInv, StoreTypeOK, StageInv, DoomedInv, StoredInv, PurgedInv,
       GivenOutIsStored, RowAccounted, FpAccounted, CacheAccounted,
       sessionVars, tables, readerVars, dagVars, purgeVars, ReaderPc
<1>1. ASSUME NEW s \in Sessions, GetStart(r, s) PROVE StoreInv'
  <2>1. /\ reading' = [reading EXCEPT ![r] = s]
        /\ \/ reader' = [reader EXCEPT ![r] = "idle"]
           \/ reader' = [reader EXCEPT ![r] = "querying"]
           \/ reader' = [reader EXCEPT ![r] = "resolved"]
        /\ UNCHANGED <<sessionVars, tables, cache, dagVars, purgeVars, restarts, stray>>
    BY <1>1 DEF GetStart, Lookup
  <2>2. \A q \in Readers : reader'[q] = "found" => reader[q] = "found" /\ reading'[q] = reading[q]
    BY <2>1
  <2>3. reader' \in [Readers -> ReaderPc] /\ reading' \in [Readers -> Sessions]
    BY <2>1
  <2>. QED
    BY <2>1, <2>2, <2>3
<1>2. CASE GetLookup(r)
  BY <1>2 DEF GetLookup, Lookup
<1>3. CASE GetQuery(r)
  BY <1>3 DEF GetQuery
<1>4. CASE GetFill(r)
  <2>. DEFINE s == reading[r]
  <2>1. /\ reader' = [reader EXCEPT ![r] = "idle"]
        /\ cache' = cache \cup {s} /\ stray' = stray \cup Behind("cache", s)
        /\ UNCHANGED <<sessionVars, tables, reading, dagVars, purgeVars, restarts>>
    BY <1>4 DEF GetFill
  <2>2. /\ stray \subseteq stray' /\ stray' \subseteq {"row", "fp", "cache"} \X Sessions
        /\ Passed("cache", s) => <<"cache", s>> \in stray'
    BY <2>1, StrayGrows
  <2>3. s \in Sessions /\ (candidate # "purged" => fp[s] = "owner")
    BY <1>4 DEF GetFill
  <2>. HIDE DEF s
  <2>4. StoreTypeOK'
    BY <2>1, <2>2, <2>3
  <2>5. StageInv'
    BY <2>1, <2>2, <2>3 DEF Passed
  <2>6. DoomedInv' /\ StoredInv'
    BY <2>1, <2>3
  <2>7. PurgedInv'
    BY <2>1, <2>2, <2>3 DEF Passed
  <2>. QED
    BY <2>4, <2>5, <2>6, <2>7
<1>. QED
  BY <1>1, <1>2, <1>3, <1>4 DEF Answering

(* An assembly run.                                                        *)
LEMMA DagSteps ==
  ASSUME StoreInv, NEW s \in Sessions,
         Assemble(s) \/ ResolveTenant(s) \/ SaveFingerprint(s) \/ Deliver(s)
  PROVE  StoreInv'
<1>. USE StoreAssumption DEF StoreInv, StoreTypeOK, StageInv, DoomedInv, StoredInv, PurgedInv,
       GivenOutIsStored, RowAccounted, FpAccounted, CacheAccounted,
       sessionVars, tables, readerVars, dagVars, purgeVars, DagPc, Tenant
<1>1. CASE Assemble(s)
  <2>1. runs' \in [Sessions -> 0..MaxRuns]
    BY <1>1, CountUp DEF Assemble
  <2>. QED
    BY <1>1, <2>1 DEF Assemble
<1>2. CASE ResolveTenant(s)
  BY <1>2 DEF ResolveTenant
<1>3. CASE SaveFingerprint(s)
  <2>1. /\ fp' = [fp EXCEPT ![s] = SavedTenant(s)]
        /\ dag' = [dag EXCEPT ![s] = "saved"]
        /\ stray' = stray \cup Behind("fp", s)
        /\ s \notin doomedFp
        /\ UNCHANGED <<sessionVars, candidate, row, cache, readerVars, runs, delivered,
                       purgeVars, restarts>>
    BY <1>3 DEF SaveFingerprint
  <2>2. /\ stray \subseteq stray' /\ stray' \subseteq {"row", "fp", "cache"} \X Sessions
        /\ Passed("fp", s) => <<"fp", s>> \in stray'
    BY <2>1, StrayGrows
  <2>3. /\ SavedTenant(s) \in Tenant
        /\ fp[s] # "none" => SavedTenant(s) = fp[s]
        /\ (candidate # "purged" /\ SavedTenant(s) = "owner") => s \in row
    BY <1>3 DEF SaveFingerprint, SavedTenant
  <2>4. StoreTypeOK'
    BY <2>1, <2>2, <2>3
  <2>5. StageInv'
    BY <2>1, <2>2, <2>3 DEF Passed
  <2>6. DoomedInv' /\ StoredInv'
    BY <2>1, <2>3
  <2>7. PurgedInv'
    BY <2>1, <2>2, <2>3 DEF Passed
  <2>. QED
    BY <2>4, <2>5, <2>6, <2>7
<1>4. CASE Deliver(s)
  BY <1>4 DEF Deliver
<1>. QED
  BY <1>1, <1>2, <1>3, <1>4

(* The purges.                                                             *)
LEMMA PurgeSteps ==
  ASSUME StoreInv, PurgeStart \/ TenantPurgeStart \/ Purging \/ PurgeFails \/ Restart
  PROVE  StoreInv'
<1>. USE StoreAssumption DEF StoreInv, StoreTypeOK, StageInv, DoomedInv, StoredInv, PurgedInv,
       GivenOutIsStored, RowAccounted, FpAccounted, CacheAccounted,
       sessionVars, tables, readerVars, dagVars, purgeVars, PurgePc
<1>1. CASE PurgeStart
  BY <1>1 DEF PurgeStart
<1>2. CASE PurgeList
  BY <1>2 DEF PurgeList
<1>3. ASSUME NEW s \in Sessions, PurgeSweep(s) PROVE StoreInv'
  BY <1>3 DEF PurgeSweep
<1>4. CASE PurgeRows
  BY <1>4 DEF PurgeRows
<1>5. CASE PurgeCommit
  BY <1>5 DEF PurgeCommit
<1>6. CASE PurgeFails
  BY <1>6 DEF PurgeFails
<1>7. CASE TenantPurgeStart
  BY <1>7 DEF TenantPurgeStart
<1>8. CASE TenantPurgeFingerprints
  BY <1>8 DEF TenantPurgeFingerprints
<1>9. CASE TenantPurgeWebhooks
  BY <1>9 DEF TenantPurgeWebhooks
<1>10. CASE Restart
  <2>1. restarts' \in 0..MaxRestarts
    BY <1>10 DEF Restart
  <2>2. /\ cache' = {} /\ reader' = [r \in Readers |-> "idle"]
        /\ purge' = "idle" /\ todo' = {} /\ doomedFp' = {} /\ doomedRow' = {}
        /\ onList' = IF candidate = "purged" THEN onList ELSE {}
        /\ stray' = IF candidate = "purged" THEN stray ELSE {}
        /\ UNCHANGED <<writes, tables, reading, dagVars>>
        /\ session' \in [Sessions -> {"new", "live", "gone"}]
    BY <1>10 DEF Restart
  <2>. QED
    BY <2>1, <2>2 DEF ReaderPc
<1>. QED
  BY <1>1, <1>2, <1>3, <1>4, <1>5, <1>6, <1>7, <1>8, <1>9, <1>10 DEF Purging

(* Every step of the system keeps the invariant.                           *)
LEMMA NextStoreInv == StoreInv /\ [StoreNext]_storeVars => StoreInv'
<1>. SUFFICES ASSUME StoreInv, [StoreNext]_storeVars PROVE StoreInv'
  OBVIOUS
<1>1. CASE UNCHANGED storeVars
  BY <1>1 DEF storeVars, StoreInv, StoreTypeOK, StageInv, DoomedInv, StoredInv, PurgedInv,
       GivenOutIsStored, RowAccounted, FpAccounted, CacheAccounted
<1>2. ASSUME NEW s \in Sessions, OpenSession(s) \/ PersistSession(s) \/ Expire(s)
      PROVE  StoreInv'
  BY <1>2, SessionSteps
<1>3. ASSUME NEW s \in Sessions,
             Assemble(s) \/ ResolveTenant(s) \/ SaveFingerprint(s) \/ Deliver(s)
      PROVE  StoreInv'
  BY <1>3, DagSteps
<1>4. ASSUME NEW r \in Readers, Answering(r) \/ \E s \in Sessions : GetStart(r, s)
      PROVE  StoreInv'
  BY <1>4, ReaderSteps
<1>5. CASE RegisterCandidate
  BY <1>5, Registration
<1>6. CASE PurgeStart \/ TenantPurgeStart \/ Purging \/ PurgeFails \/ Restart
  BY <1>6, PurgeSteps
<1>. QED
  BY <1>1, <1>2, <1>3, <1>4, <1>5, <1>6 DEF StoreNext

(* Every reachable state satisfies the invariant.                          *)
LEMMA StoreInvHolds == StoreSpec => []StoreInv
  BY InitStoreInv, NextStoreInv, PTL DEF StoreSpec

(* Stores and stages keep their types, and no more is doomed than is there.*)
THEOREM StoreTyped == StoreSpec => []StoreTypeOK
<1>1. StoreInv => StoreTypeOK
  BY DEF StoreInv
<1>. QED
  BY <1>1, StoreInvHolds, PTL

(* Whatever a committed purge, of a candidate or of a tenant, left in the  *)
(* sessions table, and of the sessions it had listed in the fingerprints   *)
(* table and in the cache, was written after its own DELETE or eviction.   *)
(* It is no more than that: a session whose row came after the list loses  *)
(* the row and can keep its fingerprint (NoFingerprintIsOrphaned, which    *)
(* the code does not keep).                                                *)
THEOREM PurgeTakesWhatItListed == StoreSpec => []ListedIsPurged
<1>1. StoreInv => ListedIsPurged
  BY DEF StoreInv, StoredInv, GivenOutIsStored, PurgedInv, ListedIsPurged
<1>. QED
  BY <1>1, StoreInvHolds, PTL

(* Until a purge the cache and the webhooks have told nothing that the     *)
(* table could not tell again.                                             *)
THEOREM GivenOutStays == StoreSpec => []GivenOutIsStored
<1>1. StoreInv => GivenOutIsStored
  BY DEF StoreInv, StoredInv, GivenOutIsStored
<1>. QED
  BY <1>1, StoreInvHolds, PTL

(* Only the commit of a purge takes rows away, and it leaves no session    *)
(* half deleted.                                                           *)
LEMMA OnlyCommitShrinks ==
  ASSUME StoreInv, [StoreNext]_storeVars, NEW s \in Sessions,
         (s \in row /\ s \notin row') \/ (fp[s] # "none" /\ fp'[s] = "none")
  PROVE  PurgeCommit
<1>. USE DEF tables
<1>1. ASSUME NEW q \in Sessions,
             OpenSession(q) \/ PersistSession(q) \/ Expire(q) \/ Assemble(q)
               \/ ResolveTenant(q) \/ Deliver(q) \/ PurgeSweep(q)
      PROVE  row \subseteq row' /\ UNCHANGED fp
  BY <1>1 DEF OpenSession, PersistSession, Expire, Assemble, ResolveTenant, Deliver, PurgeSweep
<1>2. ASSUME NEW q \in Sessions, SaveFingerprint(q)
      PROVE  UNCHANGED row /\ (fp[s] # "none" => fp'[s] = fp[s])
  BY <1>2 DEF SaveFingerprint, SavedTenant, StoreInv, StoreTypeOK
<1>3. ASSUME NEW r \in Readers, Answering(r) \/ \E q \in Sessions : GetStart(r, q)
      PROVE  UNCHANGED <<row, fp>>
  BY <1>3 DEF Answering, GetStart, GetLookup, GetQuery, GetFill
<1>4. ASSUME \/ RegisterCandidate \/ PurgeStart \/ TenantPurgeStart \/ PurgeFails \/ Restart
             \/ PurgeList \/ PurgeRows \/ TenantPurgeFingerprints \/ TenantPurgeWebhooks
      PROVE  UNCHANGED <<row, fp>>
  BY <1>4 DEF RegisterCandidate, PurgeStart, TenantPurgeStart, PurgeFails, Restart, PurgeList,
       PurgeRows, TenantPurgeFingerprints, TenantPurgeWebhooks
<1>5. CASE UNCHANGED storeVars
  BY <1>5 DEF storeVars
<1>. QED
  BY <1>1, <1>2, <1>3, <1>4, <1>5 DEF StoreNext, Purging

(* The purge of the tables is all or nothing.                              *)
THEOREM PurgeIsAtomic == StoreSpec => TablesShrinkOnlyAtCommit
<1>1. ASSUME StoreInv, [StoreNext]_storeVars, NEW s \in Sessions,
             (s \in row /\ s \notin row') \/ (fp[s] # "none" /\ fp'[s] = "none")
      PROVE  /\ candidate' = "purged"
             /\ s \in row => s \notin row'
             /\ s \in row \cap onList /\ fp[s] = "owner" /\ <<"fp", s>> \notin stray
                  => fp'[s] = "none"
  <2>1. /\ purge = "committing" /\ candidate' = "purged"
        /\ row' = row \ doomedRow
        /\ fp' = [u \in Sessions |-> IF u \in doomedFp THEN "none" ELSE fp[u]]
    BY <1>1, OnlyCommitShrinks DEF PurgeCommit
  <2>2. s \in doomedRow
    BY <1>1, <2>1 DEF StoreInv, DoomedInv
  <2>3. s \in onList /\ fp[s] = "owner" => s \in doomedFp \/ <<"fp", s>> \in stray
    BY <1>1, <2>1 DEF StoreInv, StageInv, FpAccounted
  <2>. QED
    BY <2>1, <2>2, <2>3
<1>2. StoreInv /\ [StoreNext]_storeVars =>
        [\A s \in Sessions :
           (s \in row /\ s \notin row') \/ (fp[s] # "none" /\ fp'[s] = "none") =>
             /\ candidate' = "purged"
             /\ s \in row => s \notin row'
             /\ s \in row \cap onList /\ fp[s] = "owner" /\ <<"fp", s>> \notin stray
                  => fp'[s] = "none"]_storeVars
  BY <1>1
<1>. QED
  BY <1>2, StoreInvHolds, PTL DEF StoreSpec, TablesShrinkOnlyAtCommit

-----------------------------------------------------------------------------
Inv == DeliveryTypeOK /\ DeliveryInv

(* Counting one request changes one counter, by one.                       *)
LEMMA BumpCounts ==
  ASSUME NEW f \in Counters, NEW r \in Deliveries, NEW h \in Hooks
  PROVE  /\ Bump(f, r, h) \in [Deliveries -> [Hooks -> Int]]
         /\ Bump(f, r, h)[r][h] = f[r][h] + 1
         /\ \A q \in Deliveries, g \in Hooks :
              q # r \/ g # h => Bump(f, r, h)[q][g] = f[q][g]
         /\ f[r][h] < MaxAttempts => Bump(f, r, h) \in Counters
  BY AttemptsAssumption DEF Bump, Counters

(* Settling a hook changes one outcome.                                    *)
LEMMA SettleSets ==
  ASSUME outcome \in [Deliveries -> [Hooks -> {"none", "delivered", "failed"}]],
         NEW r \in Deliveries, NEW h \in Hooks, NEW result \in {"delivered", "failed"}
  PROVE  /\ Settle(r, h, result) \in [Deliveries -> [Hooks -> {"none", "delivered", "failed"}]]
         /\ Settle(r, h, result)[r][h] = result
         /\ \A q \in Deliveries, g \in Hooks :
              q # r \/ g # h => Settle(r, h, result)[q][g] = outcome[q][g]
  BY DEF Settle

(* The hook of the current turn may be counted once more.                  *)
LEMMA AttemptLeft ==
  ASSUME Inv, NEW r \in Deliveries, NEW h \in Hooks, stage[r] = "delivering", posting[r] = h
  PROVE  /\ attempts[r][h] < MaxAttempts
         /\ late[r][h] < MaxAttempts
         /\ copies[r][h] < MaxAttempts
         /\ outcome[r][h] = "none"
         /\ h \in listed[r] \ left[r]
         /\ copies[r][h] = late[r][h]
<1>1. TurnIsOpen(r, h) /\ ExplainedAt(r, h)
  BY DEF Inv, DeliveryInv
<1>2. /\ attempts[r][h] \in 0..MaxAttempts
      /\ late[r][h] \in 0..MaxAttempts
      /\ copies[r][h] \in 0..MaxAttempts
  BY DEF Inv, DeliveryTypeOK, Counters
<1>3. /\ attempts[r][h] < MaxAttempts
      /\ outcome[r][h] = "none"
      /\ h \in listed[r] \ left[r]
  BY <1>1 DEF TurnIsOpen
<1>4. copies[r][h] = late[r][h]
  BY <1>1, <1>2, <1>3 DEF ExplainedAt
<1> QED
  BY <1>1, <1>2, <1>3, <1>4, AttemptsAssumption DEF ExplainedAt

(* Nothing is registered for delivery, counted or settled at first.        *)
LEMMA InitInv == DeliveryInit => Inv
  BY AttemptsAssumption, HooksAssumption
     DEF DeliveryInit, Inv, DeliveryTypeOK, Counters, DeliveryInv, BeforeListing, TurnIsOpen,
         ExplainedAt

(* A step that posts nothing.                                              *)
LEMMA NoPostInv ==
  ASSUME Inv, NEW r \in Deliveries,
         \/ \E h \in Hooks : RegisterWebhook(h) \/ TurnTo(r, h)
         \/ NoSession(r) \/ ListHooks(r) \/ EndDelivery(r)
  PROVE  Inv'
<1> USE DEF Inv, DeliveryTypeOK, DeliveryInv, BeforeListing, TurnIsOpen, ExplainedAt, requests, loop
<1>1. CASE \E h \in Hooks : RegisterWebhook(h)
  BY <1>1 DEF RegisterWebhook
<1>2. CASE \E h \in Hooks : TurnTo(r, h)
  <2>1. PICK h \in Hooks : TurnTo(r, h)
    BY <1>2
  <2>2. DeliveryTypeOK'
    BY <2>1 DEF TurnTo
  <2>3. attempts[r][h] = 0 /\ outcome[r][h] = "none" /\ h \in listed[r]
    BY <2>1 DEF TurnTo
  <2>4. DeliveryInv'
    BY <2>1, <2>3, AttemptsAssumption, HooksAssumption DEF TurnTo
  <2> QED
    BY <2>2, <2>4
<1>3. CASE NoSession(r)
  BY <1>3 DEF NoSession
<1>4. CASE ListHooks(r)
  BY <1>4, HooksAssumption DEF ListHooks, Counters
<1>5. CASE EndDelivery(r)
  BY <1>5 DEF EndDelivery
<1> QED
  BY <1>1, <1>2, <1>3, <1>4, <1>5

(* A request that the hook answered in time.                               *)
LEMMA AcknowledgedInv ==
  ASSUME Inv, NEW r \in Deliveries, NEW h \in Hooks, Acknowledged(r, h)
  PROVE  Inv'
<1>1. /\ stage[r] = "delivering"
      /\ posting[r] = h
      /\ attempts' = Bump(attempts, r, h)
      /\ copies' = Bump(copies, r, h)
      /\ outcome' = Settle(r, h, "delivered")
      /\ posting' = [posting EXCEPT ![r] = NoHook]
      /\ UNCHANGED <<registered, stage, listed, left, late>>
  BY DEF Acknowledged, Posts
<1>2. DeliveryTypeOK /\ DeliveryInv
  BY DEF Inv
<1>3. attempts \in Counters /\ copies \in Counters
  BY <1>2 DEF DeliveryTypeOK
<1>4. DeliveryTypeOK'
  BY <1>1, <1>2, <1>3, BumpCounts, SettleSets, AttemptLeft DEF DeliveryTypeOK
<1>5. \A q \in Deliveries, g \in Hooks : TurnIsOpen(q, g)' /\ ExplainedAt(q, g)'
  <2> TAKE q \in Deliveries, g \in Hooks
  <2>1. CASE q = r /\ g = h
    <3>1. /\ attempts'[r][h] = attempts[r][h] + 1
          /\ copies'[r][h] = copies[r][h] + 1
          /\ outcome'[r][h] = "delivered"
          /\ posting'[r] = NoHook
      BY <1>1, <1>2, <1>3, BumpCounts, SettleSets DEF DeliveryTypeOK
    <3>2. /\ attempts[r][h] \in 0..MaxAttempts
          /\ late[r][h] \in 0..MaxAttempts
          /\ copies[r][h] \in 0..MaxAttempts
      BY <1>2 DEF DeliveryTypeOK, Counters
    <3>3. TurnIsOpen(r, h)'
      BY <3>1, <1>1, AttemptLeft, HooksAssumption DEF TurnIsOpen
    <3>4. ExplainedAt(r, h)'
      BY <3>1, <3>2, <1>1, <1>2, AttemptLeft DEF DeliveryInv, ExplainedAt
    <3> QED
      BY <2>1, <3>3, <3>4
  <2>2. CASE q # r \/ g # h
    <3>1. /\ attempts'[q][g] = attempts[q][g]
          /\ copies'[q][g] = copies[q][g]
          /\ outcome'[q][g] = outcome[q][g]
          /\ posting'[q] = g => posting[q] = g
      BY <2>2, <1>1, <1>2, <1>3, BumpCounts, SettleSets, HooksAssumption DEF DeliveryTypeOK
    <3> QED
      BY <3>1, <1>1, <1>2 DEF DeliveryInv, TurnIsOpen, ExplainedAt
  <2> QED
    BY <2>1, <2>2
<1>6. \A q \in Deliveries : BeforeListing(q)'
  BY <1>1, <1>2 DEF DeliveryTypeOK, DeliveryInv, BeforeListing
<1> QED
  BY <1>4, <1>5, <1>6 DEF Inv, DeliveryInv

(* A request without an answer in time: copies and late are both counted,  *)
(* or neither, and the hook has another turn or has failed for good.       *)
LEMMA UnansweredInv ==
  ASSUME Inv, NEW r \in Deliveries, NEW h \in Hooks, Rejected(r, h) \/ AnsweredLate(r, h)
  PROVE  Inv'
<1>1. /\ stage[r] = "delivering"
      /\ posting[r] = h
      /\ attempts' = Bump(attempts, r, h)
      /\ UNCHANGED <<registered, stage, listed, left>>
  BY DEF Rejected, AnsweredLate, Posts
<1>2. \/ UNCHANGED <<late, copies>>
      \/ late' = Bump(late, r, h) /\ copies' = Bump(copies, r, h)
  BY DEF Rejected, AnsweredLate
<1>3. \/ attempts[r][h] + 1 < MaxAttempts /\ UNCHANGED <<outcome, posting>>
      \/ /\ attempts[r][h] + 1 = MaxAttempts
         /\ outcome' = Settle(r, h, "failed")
         /\ posting' = [posting EXCEPT ![r] = NoHook]
  BY DEF Rejected, AnsweredLate, TriesAgain, GivesUp
<1>4. DeliveryTypeOK /\ DeliveryInv
  BY DEF Inv
<1>5. attempts \in Counters /\ copies \in Counters /\ late \in Counters
  BY <1>4 DEF DeliveryTypeOK
<1>a. /\ attempts[r][h] \in 0..MaxAttempts
      /\ late[r][h] \in 0..MaxAttempts
      /\ copies[r][h] \in 0..MaxAttempts
  BY <1>5 DEF Counters
<1>b. /\ attempts[r][h] < MaxAttempts
      /\ late[r][h] < MaxAttempts
      /\ copies[r][h] < MaxAttempts
      /\ copies[r][h] = late[r][h]
      /\ copies[r][h] <= attempts[r][h]
      /\ h \in listed[r] \ left[r]
  BY <1>1, <1>4, AttemptLeft DEF DeliveryInv, ExplainedAt
<1>c. /\ attempts' \in Counters
      /\ attempts'[r][h] = attempts[r][h] + 1
      /\ \A q \in Deliveries, g \in Hooks : q # r \/ g # h => attempts'[q][g] = attempts[q][g]
  BY <1>1, <1>5, <1>b, BumpCounts
<1>d. /\ late' \in Counters /\ copies' \in Counters
      /\ \/ late'[r][h] = late[r][h] /\ copies'[r][h] = copies[r][h]
         \/ late'[r][h] = late[r][h] + 1 /\ copies'[r][h] = copies[r][h] + 1
      /\ \A q \in Deliveries, g \in Hooks :
           q # r \/ g # h => late'[q][g] = late[q][g] /\ copies'[q][g] = copies[q][g]
  <2>1. CASE UNCHANGED <<late, copies>>
    BY <2>1, <1>5
  <2>2. CASE late' = Bump(late, r, h) /\ copies' = Bump(copies, r, h)
    BY <2>2, <1>5, <1>b, BumpCounts
  <2> QED
    BY <1>2, <2>1, <2>2
<1>e. /\ outcome' \in [Deliveries -> [Hooks -> {"none", "delivered", "failed"}]]
      /\ posting' \in [Deliveries -> Hooks \cup {NoHook}]
      /\ \/ /\ outcome'[r][h] = "none"
            /\ posting'[r] = h
            /\ attempts[r][h] + 1 < MaxAttempts
         \/ /\ outcome'[r][h] = "failed"
            /\ posting'[r] = NoHook
            /\ attempts[r][h] + 1 = MaxAttempts
      /\ \A q \in Deliveries, g \in Hooks : q # r \/ g # h => outcome'[q][g] = outcome[q][g]
      /\ \A q \in Deliveries, g \in Hooks : (q # r \/ g # h) /\ posting'[q] = g => posting[q] = g
  <2>1. CASE attempts[r][h] + 1 < MaxAttempts /\ UNCHANGED <<outcome, posting>>
    BY <2>1, <1>1, <1>4, AttemptLeft DEF DeliveryTypeOK
  <2>2. CASE /\ attempts[r][h] + 1 = MaxAttempts
             /\ outcome' = Settle(r, h, "failed")
             /\ posting' = [posting EXCEPT ![r] = NoHook]
    <3>1. posting \in [Deliveries -> Hooks \cup {NoHook}]
      BY <1>4 DEF DeliveryTypeOK
    <3>2. outcome \in [Deliveries -> [Hooks -> {"none", "delivered", "failed"}]]
      BY <1>4 DEF DeliveryTypeOK
    <3>3. /\ outcome' \in [Deliveries -> [Hooks -> {"none", "delivered", "failed"}]]
          /\ outcome'[r][h] = "failed"
          /\ \A q \in Deliveries, g \in Hooks : q # r \/ g # h => outcome'[q][g] = outcome[q][g]
      BY <2>2, <3>2, SettleSets
    <3> QED
      BY <2>2, <3>1, <3>3, HooksAssumption
  <2> QED
    BY <1>3, <2>1, <2>2
<1>6. DeliveryTypeOK'
  BY <1>1, <1>4, <1>c, <1>d, <1>e DEF DeliveryTypeOK
<1>7. \A q \in Deliveries, g \in Hooks : TurnIsOpen(q, g)' /\ ExplainedAt(q, g)'
  <2> TAKE q \in Deliveries, g \in Hooks
  <2>1. CASE q = r /\ g = h
    <3>1. TurnIsOpen(r, h)'
      BY <1>1, <1>a, <1>b, <1>c, <1>e, HooksAssumption DEF TurnIsOpen
    <3>2. ExplainedAt(r, h)'
      BY <1>1, <1>a, <1>b, <1>c, <1>d, <1>e DEF ExplainedAt
    <3> QED
      BY <2>1, <3>1, <3>2
  <2>2. CASE q # r \/ g # h
    <3>1. /\ attempts'[q][g] = attempts[q][g]
          /\ copies'[q][g] = copies[q][g]
          /\ late'[q][g] = late[q][g]
          /\ outcome'[q][g] = outcome[q][g]
          /\ posting'[q] = g => posting[q] = g
      BY <2>2, <1>c, <1>d, <1>e
    <3> QED
      BY <3>1, <1>1, <1>4 DEF DeliveryInv, TurnIsOpen, ExplainedAt
  <2> QED
    BY <2>1, <2>2
<1>8. \A q \in Deliveries : BeforeListing(q)'
  BY <1>1, <1>3, <1>4 DEF DeliveryTypeOK, DeliveryInv, BeforeListing
<1> QED
  BY <1>6, <1>7, <1>8 DEF Inv, DeliveryInv

(* A task killed between two requests or during one.                       *)
LEMMA KillInv ==
  ASSUME Inv, NEW r \in Deliveries, Kill(r)
  PROVE  Inv'
<1>1. /\ stage[r] = "delivering"
      /\ stage' = [stage EXCEPT ![r] = "killed"]
      /\ UNCHANGED <<registered, listed, left, posting, outcome>>
  BY DEF Kill, requests
<1>2. DeliveryTypeOK /\ DeliveryInv
  BY DEF Inv
<1>3. CASE UNCHANGED requests
  BY <1>1, <1>2, <1>3
     DEF Inv, DeliveryTypeOK, DeliveryInv, BeforeListing, TurnIsOpen, ExplainedAt, requests
<1>4. CASE ~ UNCHANGED requests
  <2> DEFINE h == posting[r]
  <2>1. /\ h \in Hooks
        /\ attempts' = Bump(attempts, r, h)
        /\ late' = Bump(late, r, h)
        /\ copies' = Bump(copies, r, h)
    BY <1>2, <1>4 DEF Kill, DeliveryTypeOK
  <2>2. attempts \in Counters /\ copies \in Counters /\ late \in Counters
    BY <1>2 DEF DeliveryTypeOK
  <2> HIDE DEF h
  <2>3. posting[r] = h
    BY DEF h
  <2>4. DeliveryTypeOK'
    BY <1>1, <1>2, <2>1, <2>2, <2>3, BumpCounts, AttemptLeft DEF DeliveryTypeOK
  <2>5. \A q \in Deliveries, g \in Hooks : TurnIsOpen(q, g)' /\ ExplainedAt(q, g)'
    <3> TAKE q \in Deliveries, g \in Hooks
    <3>1. CASE q = r /\ g = h
      <4>1. /\ attempts[r][h] \in 0..MaxAttempts
            /\ late[r][h] \in 0..MaxAttempts
            /\ copies[r][h] \in 0..MaxAttempts
        BY <2>1, <2>2 DEF Counters
      <4>2. /\ attempts'[r][h] = attempts[r][h] + 1
            /\ late'[r][h] = late[r][h] + 1
            /\ copies'[r][h] = copies[r][h] + 1
        BY <2>1, <2>2, BumpCounts
      <4>3. /\ copies[r][h] = late[r][h]
            /\ copies[r][h] <= attempts[r][h]
            /\ outcome[r][h] = "none"
            /\ h \in listed[r] \ left[r]
        BY <1>1, <1>2, <2>1, <2>3, AttemptLeft DEF DeliveryInv, ExplainedAt
      <4>4. stage'[r] = "killed"
        BY <1>1, <1>2 DEF DeliveryTypeOK
      <4> QED
        BY <3>1, <4>1, <4>2, <4>3, <4>4, <1>1 DEF TurnIsOpen, ExplainedAt
    <3>2. CASE q # r \/ g # h
      <4>1. /\ attempts'[q][g] = attempts[q][g]
            /\ copies'[q][g] = copies[q][g]
            /\ late'[q][g] = late[q][g]
        BY <3>2, <2>1, <2>2, BumpCounts
      <4> QED
        BY <4>1, <1>1, <1>2 DEF DeliveryTypeOK, DeliveryInv, TurnIsOpen, ExplainedAt
    <3> QED
      BY <3>1, <3>2
  <2>6. \A q \in Deliveries : BeforeListing(q)'
    BY <1>1, <1>2 DEF DeliveryTypeOK, DeliveryInv, BeforeListing
  <2> QED
    BY <2>4, <2>5, <2>6 DEF Inv, DeliveryInv
<1> QED
  BY <1>3, <1>4

(* The invariant is inductive.                                             *)
LEMMA NextInv == Inv /\ [DeliveryNext]_deliveryVars => Inv'
<1> SUFFICES ASSUME Inv, [DeliveryNext]_deliveryVars PROVE Inv'
  OBVIOUS
<1>1. CASE UNCHANGED deliveryVars
  BY <1>1 DEF Inv, DeliveryTypeOK, Counters, DeliveryInv, BeforeListing, TurnIsOpen, ExplainedAt,
              deliveryVars, loop, requests
<1>2. ASSUME NEW h \in Hooks, RegisterWebhook(h) PROVE Inv'
  BY <1>2 DEF RegisterWebhook, Inv, DeliveryTypeOK, Counters, DeliveryInv, BeforeListing,
       TurnIsOpen, ExplainedAt, loop, requests
<1>3. ASSUME NEW r \in Deliveries, NoSession(r) \/ ListHooks(r) \/ DeliveryStep(r) \/ Kill(r)
      PROVE  Inv'
  BY <1>3, NoPostInv, AcknowledgedInv, UnansweredInv, KillInv DEF DeliveryStep
<1> QED
  BY <1>1, <1>2, <1>3 DEF DeliveryNext

(* Every reachable state satisfies the invariant.                          *)
LEMMA AlwaysInv == DeliverySpec => []Inv
  BY InitInv, NextInv, PTL DEF DeliverySpec

(* Every variable keeps its type: no counter passes MaxAttempts.           *)
THEOREM DeliveryTyped == DeliverySpec => []DeliveryTypeOK
  BY AlwaysInv, PTL DEF Inv

(* A hook has exactly the copies the log cannot rule out.                  *)
THEOREM EveryCopyExplained == DeliverySpec => []CopiesAreExplained
<1>1. Inv => CopiesAreExplained
  <2>. SUFFICES ASSUME Inv, NEW r \in Deliveries, NEW h \in Hooks
                PROVE  attempts[r][h] <= MaxAttempts /\ ExplainedAt(r, h)
    BY DEF CopiesAreExplained, ExplainedAt
  <2>1. attempts[r][h] \in 0..MaxAttempts
    BY DEF Inv, DeliveryTypeOK, Counters
  <2>. QED
    BY <2>1, AttemptsAssumption DEF Inv, DeliveryInv
<1> QED
  BY <1>1, AlwaysInv, PTL

(* A settled hook is left alone.                                           *)
THEOREM SettledStaysSettled == DeliverySpec => SettledIsNotPosted
<1> DEFINE Quiet == \A r \in Deliveries, h \in Hooks :
                      outcome[r][h] # "none" =>
                        attempts'[r][h] = attempts[r][h] /\ outcome'[r][h] = outcome[r][h]
<1>1. Inv /\ [DeliveryNext]_deliveryVars => [Quiet]_deliveryVars
  <2> SUFFICES ASSUME Inv, DeliveryNext, NEW r \in Deliveries, NEW h \in Hooks, outcome[r][h] # "none"
               PROVE  attempts'[r][h] = attempts[r][h] /\ outcome'[r][h] = outcome[r][h]
    BY DEF Quiet
  <2>1. DeliveryTypeOK /\ attempts \in Counters
    BY DEF Inv, DeliveryTypeOK
  <2>2. ASSUME NEW q \in Deliveries, NEW g \in Hooks,
               Acknowledged(q, g) \/ Rejected(q, g) \/ AnsweredLate(q, g)
        PROVE  attempts'[r][h] = attempts[r][h] /\ outcome'[r][h] = outcome[r][h]
    <3>1. /\ stage[q] = "delivering"
          /\ posting[q] = g
          /\ attempts' = Bump(attempts, q, g)
          /\ \/ UNCHANGED outcome
             \/ \E result \in {"delivered", "failed"} : outcome' = Settle(q, g, result)
      BY <2>2 DEF Acknowledged, Rejected, AnsweredLate, Posts, TriesAgain, GivesUp
    <3>2. q # r \/ g # h
      BY <3>1, AttemptLeft
    <3>3. attempts'[r][h] = attempts[r][h]
      BY <3>1, <3>2, <2>1, BumpCounts
    <3>4. outcome'[r][h] = outcome[r][h]
      <4>1. CASE UNCHANGED outcome
        BY <4>1
      <4>2. ASSUME NEW result \in {"delivered", "failed"}, outcome' = Settle(q, g, result)
            PROVE  outcome'[r][h] = outcome[r][h]
        <5>1. outcome \in [Deliveries -> [Hooks -> {"none", "delivered", "failed"}]]
          BY <2>1 DEF DeliveryTypeOK
        <5> QED
          BY <3>2, <4>2, <5>1, SettleSets
      <4> QED
        BY <3>1, <4>1, <4>2
    <3> QED
      BY <3>3, <3>4
  <2>3. ASSUME NEW q \in Deliveries, Kill(q)
        PROVE  attempts'[r][h] = attempts[r][h] /\ outcome'[r][h] = outcome[r][h]
    <3>1. CASE UNCHANGED requests
      BY <3>1 DEF requests
    <3>2. CASE ~ UNCHANGED requests
      <4>1. /\ stage[q] = "delivering"
            /\ posting[q] \in Hooks
            /\ attempts' = Bump(attempts, q, posting[q])
            /\ UNCHANGED outcome
        BY <2>1, <2>3, <3>2 DEF Kill, DeliveryTypeOK
      <4>2. q # r \/ posting[q] # h
        BY <4>1, AttemptLeft
      <4> QED
        BY <4>1, <4>2, <2>1, BumpCounts
    <3> QED
      BY <3>1, <3>2
  <2>4. ASSUME \/ \E g \in Hooks : RegisterWebhook(g)
               \/ \E q \in Deliveries : \/ \E g \in Hooks : TurnTo(q, g)
                                  \/ NoSession(q) \/ ListHooks(q) \/ EndDelivery(q)
        PROVE  UNCHANGED <<attempts, outcome>>
    BY <2>4 DEF RegisterWebhook, TurnTo, NoSession, ListHooks, EndDelivery, requests
  <2> QED
    BY <2>2, <2>3, <2>4 DEF DeliveryNext, DeliveryStep
<1>2. DeliverySpec => [][Quiet]_deliveryVars
  BY <1>1, AlwaysInv, PTL DEF DeliverySpec
<1> QED
  BY <1>2 DEF SettledIsNotPosted, Quiet
=============================================================================
