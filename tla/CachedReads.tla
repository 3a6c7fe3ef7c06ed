----------------------------- MODULE CachedReads -----------------------------
(****************************************************************************)
(* Reads through the cache of the process (CacheService): a setting, as the *)
(* instance and as a tenant see it, which SettingsService.get fetches and   *)
(* update invalidates; and the scores of a company, where the health score  *)
(* is computed from the cyber score, each behind an entry of its own.  A    *)
(* read that misses fetches from the database, and stores what it fetched   *)
(* when the queries are answered, whatever happened to the entry since.     *)
(****************************************************************************)
EXTENDS Integers

CONSTANTS Readers,                         \* the requests that may overlap
          CyberTtl, HealthTtl, SettingTtl, \* in ticks
          LastTick, MaxWritten             \* bounds, for each subject

ASSUME CacheAssumption == /\ {CyberTtl, HealthTtl, SettingTtl} \subseteq Nat \ {0}
                          /\ {LastTick, MaxWritten} \subseteq [{"setting", "scores"} -> Nat]

VARIABLES
    subject,    \* what is read: the setting or the scores
    tick,
    ownRow,     \* the tenant has a value of its own for the setting
    now,        \* the version in the database of what each key is made from
    outdated,   \* history: when each version was replaced, for each key
    cache,      \* the entry of each key: its version, and when it expires
    reader,     \* where each request is, and the version it has fetched
    dropping,   \* the updates that have written and not dropped the entries yet
    passed,     \* history: a fetch lasted longer than a tick
    overran     \* history: what a fetch had read before an update of the setting was stored after it

cacheVars == <<subject, tick, ownRow, now, outdated, cache, reader, dropping, passed, overran>>

KeysOf == [setting |-> {"instance", "tenant"}, scores |-> {"cyber", "health"}]
Keys == KeysOf[subject]
Versions == 0..MaxWritten[subject]
Ttl == [instance |-> SettingTtl, tenant |-> SettingTtl, cyber |-> CyberTtl, health |-> HealthTtl]
NoEntry == [version |-> -1, until |-> 0]
NoReader == [at |-> "idle", asked |-> "cyber", key |-> "cyber", version |-> -1]

CacheTypeOK ==
    /\ subject \in DOMAIN KeysOf /\ tick \in 0..LastTick[subject]
    /\ now \in [Keys -> Versions] /\ dropping \subseteq KeysOf["setting"]
    /\ \A k \in Keys : /\ \A v \in Versions : outdated[k][v] \in -1..LastTick[subject]
                       /\ cache[k].version \in -1..MaxWritten[subject] /\ cache[k].until \in Nat
    /\ \A r \in Readers : /\ reader[r].at \in {"idle", "fetch", "store"}
                          /\ {reader[r].key, reader[r].asked} \subseteq DOMAIN Ttl
    /\ {ownRow, passed, overran} \subseteq {"no", "yes"}

CacheInit ==
    /\ subject \in DOMAIN KeysOf /\ tick = 0 /\ ownRow = "no"
    /\ now = [k \in Keys |-> 0] /\ outdated = [k \in Keys |-> [v \in Versions |-> -1]]
    /\ cache = [k \in Keys |-> NoEntry] /\ reader = [r \in Readers |-> NoReader]
    /\ dropping = {} /\ passed = "no" /\ overran = "no"

\* get: what has expired is a miss; a hit leaves the expiry as it is.
Live_Slip(k) == cache[k].version # -1 /\ cache[k].until >= tick
Live(k) == cache[k].version # -1 /\ cache[k].until > tick

\* The health score asks for the cyber score among its queries: a cached one is
\* all it needs to know of the database.
Looks(k) ==
    IF k = "health" /\ Live("cyber")
    THEN [at |-> "store", asked |-> k, key |-> k, version |-> cache["cyber"].version]
    ELSE [at |-> "fetch", asked |-> k, version |-> -1,
          key |-> IF k = "health" THEN "cyber" ELSE k]

AskFor(r, k) ==
    /\ reader[r].at = "idle" /\ ~Live(k)
    /\ reader' = [reader EXCEPT ![r] = Looks(k)]
    /\ UNCHANGED <<subject, tick, ownRow, now, outdated, cache, dropping, passed, overran>>

Fetch(r) ==
    /\ reader[r].at = "fetch"
    /\ reader' = [reader EXCEPT ![r].at = "store", ![r].version = now[reader[r].key]]
    /\ UNCHANGED <<subject, tick, ownRow, now, outdated, cache, dropping, passed, overran>>

\* getOrSet and computeForCompany store without looking again.  The health
\* score goes on with the cyber score it was given.
Store(r) ==
    LET k == reader[r].key  v == reader[r].version  asked == reader[r].asked IN
    /\ reader[r].at = "store"
    /\ cache' = [cache EXCEPT ![k] = [version |-> v, until |-> tick + Ttl[k]]]
    /\ reader' = [reader EXCEPT ![r] = IF k = asked THEN NoReader ELSE [@ EXCEPT !.key = asked]]
    /\ overran' = IF subject = "setting" /\ v # now[k] THEN "yes" ELSE overran
    /\ UNCHANGED <<subject, tick, ownRow, now, outdated, dropping, passed>>

\* A write replaces what the keys ks are made from.
Writes(ks) ==
    LET v == 1 + CHOOSE n \in Versions : /\ \E k \in Keys : now[k] = n
                                         /\ \A k \in Keys : now[k] <= n
    IN  /\ v \in Versions
        /\ now' = [k \in Keys |-> IF k \in ks THEN v ELSE now[k]]
        /\ outdated' = [k \in Keys |-> IF k \in ks THEN [outdated[k] EXCEPT ![now[k]] = tick]
                                       ELSE outdated[k]]

\* The other services change what the scores are made from, and leave the cache.
DataChanges ==
    /\ subject = "scores" /\ Writes(Keys)
    /\ UNCHANGED <<subject, tick, ownRow, cache, reader, dropping, passed, overran>>

\* SettingsService.update with a value: a tenant without one of its own is shown
\* that of the instance.
UpdateSetting(scope) ==
    /\ subject = "setting" /\ scope \notin dropping
    /\ Writes(IF scope = "tenant" \/ ownRow = "yes" THEN {scope} ELSE Keys)
    /\ ownRow' = IF scope = "tenant" THEN "yes" ELSE ownRow
    /\ dropping' = dropping \union {scope}
    /\ UNCHANGED <<subject, tick, cache, reader, passed, overran>>

Dropped_Slip(ks) == [k \in Keys |-> IF k = "instance" /\ k \in ks THEN NoEntry ELSE cache[k]]
Dropped(ks) == [k \in Keys |-> IF k \in ks THEN NoEntry ELSE cache[k]]

DropSetting(scope) ==
    /\ scope \in dropping /\ dropping' = dropping \ {scope}
    /\ cache' = Dropped({scope, "instance"})
    /\ UNCHANGED <<subject, tick, ownRow, now, outdated, reader, passed, overran>>

\* CyberScoreService.refresh: the entry is dropped, then asked for.
Refresh(r) ==
    /\ subject = "scores" /\ reader[r].at = "idle" /\ cache["cyber"] # NoEntry
    /\ cache' = Dropped({"cyber"})
    /\ reader' = [reader EXCEPT ![r] = [NoReader EXCEPT !.at = "fetch"]]
    /\ UNCHANGED <<subject, tick, ownRow, now, outdated, dropping, passed, overran>>

TimePasses ==
    /\ tick < LastTick[subject] /\ tick' = tick + 1
    /\ passed' = IF \E r \in Readers : reader[r].at = "store" THEN "yes" ELSE passed
    /\ UNCHANGED <<subject, ownRow, now, outdated, cache, reader, dropping, overran>>

CacheNext ==
    \/ \E r \in Readers : \/ \E k \in Keys : AskFor(r, k)
                          \/ Fetch(r) \/ Store(r) \/ Refresh(r)
    \/ \E s \in KeysOf["setting"] : UpdateSetting(s) \/ DropSetting(s)
    \/ DataChanges \/ TimePasses

CacheSpec == CacheInit /\ [][CacheNext]_cacheVars

(***************************************************************************)
(* Properties.                                                             *)
(***************************************************************************)

\* How old an answer may be: the health score keeps, for its own time, a cyber
\* score that was kept before.
MaxAge == [Ttl EXCEPT !["health"] = CyberTtl + HealthTtl]

\* What the cache answers was true less than that long ago, unless a fetch
\* lasted longer than a tick.  Once an update has returned, nobody is answered
\* the former value of what it wrote, unless a fetch overran it; only a tenant
\* that is shown the instance's value waits for its own entry to expire.
AnswersAreFresh ==
    /\ passed = "no" =>
         \A k \in Keys : Live(k) /\ cache[k].version # now[k] =>
            tick - outdated[k][cache[k].version] < MaxAge[k]
    /\ subject = "setting" /\ overran = "no" /\ dropping = {} =>
         /\ Live("instance") => cache["instance"].version = now["instance"]
         /\ Live("tenant") /\ ownRow = "yes" => cache["tenant"].version = now["tenant"]
=============================================================================
