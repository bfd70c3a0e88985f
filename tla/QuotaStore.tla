----------------------------- MODULE QuotaStore -----------------------------
(***************************************************************************)
(* Where one user's quota is kept: the database, the batch updater's       *)
(* memory (model/utils.go) and the Redis hash of the user                  *)
(* (model/user_cache.go, common/redis.go).  Changes and reads go through   *)
(* model/user.go; what they do to Redis is left to goroutines that run at  *)
(* any later time, in any order.  A token's quota is kept in the same way  *)
(* (model/token.go, model/token_cache.go).                                 *)
(***************************************************************************)
EXTENDS Integers

CONSTANTS
    Jobs,       \* slots for goroutines: bounds how many are pending
    Start,      \* the quota at the beginning
    Deltas,     \* changes: positive for IncreaseUserQuota, negative for DecreaseUserQuota
    Batching,   \* common.BatchUpdateEnabled
    MaxChanges, \* bound on changes
    MaxLost,    \* bound on failing batch updates
    MaxCrashes  \* bound on crashes

ASSUME QuotaStoreAssumption ==
    /\ Start \in Int /\ Deltas \subseteq Int /\ Batching \in BOOLEAN
    /\ MaxChanges \in Nat /\ MaxLost \in Nat /\ MaxCrashes \in Nat

VARIABLES
    db,         \* users.quota
    store,      \* batchUpdateStores[BatchUpdateTypeUserQuota]
    taken,      \* the map batchUpdate is writing
    updating,   \* batchUpdate is between taking the map and the end
    cache,      \* the Redis hash
    job,        \* the pending goroutines
    truth,      \* history: the sum of the changes
    changes,
    lost,       \* failed batch updates
    crashes

storeVars == <<db, store, taken, updating, cache, job, truth, changes, lost, crashes>>

---------------------------------------------------------------------------
Absent == [there |-> FALSE, complete |-> FALSE, quota |-> 0]
NoJob == [kind |-> "none", value |-> 0, checked |-> FALSE]

\* Values of the quota's copies; between two updates nothing is taken, and an absent hash
\* has no fields.
StoreTypeOK ==
    /\ db \in Int /\ store \in Int /\ taken \in Int /\ truth \in Int /\ updating \in BOOLEAN
    /\ cache \in [there: BOOLEAN, complete: BOOLEAN, quota: Int]
    /\ job \in [Jobs -> [kind: {"none", "incr", "field", "obj"}, value: Int,
                         checked: BOOLEAN]]
    /\ changes \in 0..MaxChanges /\ lost \in 0..MaxLost /\ crashes \in 0..MaxCrashes
    /\ ~updating => taken = 0
    /\ ~cache.there => cache = Absent

StoreInit ==
    /\ db = Start /\ truth = Start /\ store = 0 /\ taken = 0 /\ updating = FALSE
    /\ cache = Absent
    /\ job = [j \in Jobs |-> NoJob]
    /\ changes = 0 /\ lost = 0 /\ crashes = 0

\* gopool.Go
Go(kind, value) ==
    \E j \in Jobs :
        /\ job[j] = NoJob
        /\ job' = [job EXCEPT ![j] = [kind |-> kind, value |-> value, checked |-> FALSE]]

---------------------------------------------------------------------------
\* Variant: the record replaces the one that is there.
AddOver(delta) == delta

\* addNewRecord
AddNewRecord(delta) == store + delta

\* IncreaseUserQuota, DecreaseUserQuota; those that must be exact go to the database.
Change(delta, direct) ==
    /\ changes < MaxChanges /\ changes' = changes + 1
    /\ truth' = truth + delta
    /\ Go("incr", delta)
    /\ IF Batching /\ ~direct
       THEN store' = AddNewRecord(delta) /\ UNCHANGED db
       ELSE db' = db + delta /\ UNCHANGED store
    /\ UNCHANGED <<taken, updating, cache, lost, crashes>>

\* batchUpdate takes the map and leaves an empty one, under the lock of addNewRecord.
TakeStore ==
    /\ Batching /\ ~updating /\ store # 0
    /\ taken' = store /\ store' = 0 /\ updating' = TRUE
    /\ UNCHANGED <<db, cache, job, truth, changes, lost, crashes>>

\* updateUserQuotaUsedQuotaAndRequestCount; an error is logged and the change is dropped.
WriteTaken ==
    /\ updating
    /\ \/ db' = db + taken /\ UNCHANGED lost
       \/ lost < MaxLost /\ lost' = lost + 1 /\ UNCHANGED db
    /\ taken' = 0 /\ updating' = FALSE
    /\ UNCHANGED <<store, cache, job, truth, changes, crashes>>

---------------------------------------------------------------------------
\* Variant: a copy from Redis is written back as well.
ReadUserBack ==
    /\ Go("obj", IF cache.there THEN cache.quota ELSE db)
    /\ UNCHANGED <<db, store, taken, updating, cache, truth, changes, lost, crashes>>

\* GetUserCache: what was read from the database is put into Redis.
ReadUser ==
    /\ ~cache.there
    /\ Go("obj", db)
    /\ UNCHANGED <<db, store, taken, updating, cache, truth, changes, lost, crashes>>

\* GetUserQuota(id, true)
ReadQuota ==
    /\ Go("field", db)
    /\ UNCHANGED <<db, store, taken, updating, cache, truth, changes, lost, crashes>>

\* RedisHIncrBy and RedisHSetField ask for the key's TTL first and leave a missing key alone.
CheckKey(j) ==
    /\ job[j].kind \in {"incr", "field"} /\ ~job[j].checked
    /\ job' = [job EXCEPT ![j] = IF cache.there THEN [@ EXCEPT !.checked = TRUE] ELSE NoJob]
    /\ UNCHANGED <<db, store, taken, updating, cache, truth, changes, lost, crashes>>

\* The write; on a key that has expired meanwhile it makes a hash with the one field.
WriteKey(j) ==
    /\ job[j].kind = "obj" \/ job[j].checked
    /\ cache' = [there |-> TRUE,
                 complete |-> cache.complete \/ job[j].kind = "obj",
                 quota |-> IF job[j].kind = "incr" THEN cache.quota + job[j].value
                           ELSE job[j].value]
    /\ job' = [job EXCEPT ![j] = NoJob]
    /\ UNCHANGED <<db, store, taken, updating, truth, changes, lost, crashes>>

\* The TTL of the hash runs out, or invalidateUserCache deletes it.
Expire ==
    /\ cache.there /\ cache' = Absent
    /\ UNCHANGED <<db, store, taken, updating, job, truth, changes, lost, crashes>>

Crash ==
    /\ crashes < MaxCrashes /\ crashes' = crashes + 1
    /\ store' = 0 /\ taken' = 0 /\ updating' = FALSE
    /\ job' = [j \in Jobs |-> NoJob]
    /\ UNCHANGED <<db, cache, truth, changes, lost>>

StoreNext ==
    \/ \E delta \in Deltas, direct \in BOOLEAN : Change(delta, direct)
    \/ TakeStore \/ WriteTaken \/ ReadUser \/ ReadQuota \/ Expire \/ Crash
    \/ \E j \in Jobs : CheckKey(j) \/ WriteKey(j)

StoreSpec == StoreInit /\ [][StoreNext]_storeVars

\* The batch updater runs every few seconds, goroutines end, and no hash outlives its TTL: a
\* write leaves the TTL as it was.
StoreFairSpec ==
    /\ StoreSpec /\ WF_storeVars(TakeStore) /\ WF_storeVars(WriteTaken) /\ WF_storeVars(Expire)
    /\ \A j \in Jobs : WF_storeVars(CheckKey(j) \/ WriteKey(j))

---------------------------------------------------------------------------
\* Unless the process dies or a batch update fails, every change is in the database or on
\* its way there, exactly once, while batchUpdate and addNewRecord run side by side.
Conserved == lost = 0 /\ crashes = 0 => db + store + taken = truth

\* When changes end, the database gets them all and the copy in Redis, which may be off while its
\* goroutines overtake each other and the batch updater, comes to agree with it for good.
StaleEnds ==
    <>[](/\ cache.there => cache.quota = db
         /\ lost = 0 /\ crashes = 0 => db = truth)

\* Whoever finds a user in Redis finds all of it ("gets complete user cache from hash").
HitIsComplete == cache.there => cache.complete
============================================================================
