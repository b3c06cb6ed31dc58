----------------------------- MODULE KeyedStore -----------------------------
(***************************************************************************)
(* The keyed store of enriched webhook records: DatabaseLookupService's    *)
(* store_enriched_record and get_recent_webhook_activity over a TTL cache. *)
(*                                                                         *)
(* A call of store_enriched_record is a request that runs in steps, one    *)
(* per round trip to the cache, so the calls of concurrent webhook         *)
(* requests interleave:                                                    *)
(*   Start        precondition (provider and customer_id) and flattening,  *)
(*                which reads the clock for the record's timestamp token;  *)
(*   SetRecord    cache.set(webhook key, json, ttl);                        *)
(*   GetActivity  cache.get(activity key, []);                              *)
(*   SetActivity  cache.set(activity key, list + [webhook key], ttl);       *)
(*   StoreFails   an exception from any of the three cache calls, caught    *)
(*                and reported as False.                                    *)
(* The cache purges an entry once its TTL has run out: an entry is kept    *)
(* with its expiry time and a read after that time sees the default.       *)
(* A record is abstracted to the two fields the properties tell apart:     *)
(* its workspace_id and the request (event) that produced it.              *)
(***************************************************************************)
EXTENDS Naturals, Sequences, Functions

CONSTANTS
    Workspace,      \* workspace ids, including the "global" sentinel
    Global,         \* the sentinel used when no workspace is given
    Category,       \* the provider-or-type segment of a webhook key
    Request,        \* concurrent calls of store_enriched_record
    TicksPerDay,    \* clock resolution: timestamp tokens per calendar day
    TTLDays,        \* ttl_days of the service (default 7)
    QueryDays,      \* days argument of get_recent_webhook_activity
    MaxTime,        \* bound on the clock
    None            \* Python's None: a missing cache entry, no result yet

ASSUME ConstantsAssumption ==
    /\ Global \in Workspace
    /\ Category # {}
    /\ TicksPerDay \in Nat \ {0}
    /\ TTLDays \in Nat \ {0}
    /\ QueryDays \in Nat \ {0}
    /\ MaxTime \in Nat

VARIABLES
    now,        \* timezone.now(), in ticks
    records,    \* the webhook:{ws}:{category}:{token} entries of the cache
    activity,   \* the webhook_activity:{ws}:{date} entries of the cache
    pc,         \* where each request is in store_enriched_record
    key,        \* the webhook key a request computed
    listRead,   \* the activity list a request read, before appending
    result      \* the value store_enriched_record returned

vars == <<now, records, activity, pc, key, listRead, result>>

-----------------------------------------------------------------------------
Time == 0..MaxTime

\* self.ttl_seconds = 60 * 60 * 24 * ttl_days, in ticks.
TTL == TTLDays * TicksPerDay

\* The calendar day of a timestamp: now.strftime("%Y-%m-%d").
Day(t) == t \div TicksPerDay

Days == 0..Day(MaxTime)

\* _get_webhook_key(category, token, workspace_id="global").
WebhookKey(category, token, workspaceId) ==
    [ws |-> workspaceId, cat |-> category, ts |-> token]

\* A faulty variant: the activity key built without the workspace, as if
\* workspace_id were not passed on and defaulted to "global".
ActivityKeyUnscoped(date, workspaceId) == [ws |-> Global, day |-> date]

\* _get_activity_key(date_str, workspace_id="global").
ActivityKey(date, workspaceId) == [ws |-> workspaceId, day |-> date]

\* A faulty variant: the processor passes the workspace on as it is, None
\* when no workspace was resolved.
StoreWorkspaceIdRaw(workspace) == workspace

\* EventProcessor._store_enriched_record(event_data, notification,
\* workspace): workspace.uuid, or "global" when no workspace was resolved.
StoreWorkspaceId(workspace) == IF workspace = None THEN Global ELSE workspace

RecKey == [ws : Workspace, cat : Category, ts : Time]
IdxKey == [ws : Workspace, day : Days]

\* The stored JSON, reduced to its workspace_id and the event it came from.
Record == [workspace_id : Workspace, event : Request]

RecEntry == [data : Record, exp : Nat]
IdxEntry == [keys : Seq(RecKey), exp : Nat]

\* None is a sentinel: no cache entry and no webhook key is None.
ASSUME NoneAssumption ==
    None \notin RecEntry \cup IdxEntry \cup RecKey \cup Workspace

\* An entry the cache still returns: present and its TTL not run out.
Live(e) == e # None /\ now < e.exp

\* The activity index a request appends to: the one of its key's day.
IndexOf(k) == ActivityKey(Day(k.ts), k.ws)

PC == {"idle", "set_record", "get_activity", "set_activity", "done"}

-----------------------------------------------------------------------------
Init ==
    /\ now = 0
    /\ records = [k \in RecKey |-> None]
    /\ activity = [ik \in IdxKey |-> None]
    /\ pc = [r \in Request |-> "idle"]
    /\ key = [r \in Request |-> None]
    /\ listRead = [r \in Request |-> <<>>]
    /\ result = [r \in Request |-> None]

\* The event processor calls store_enriched_record(event_data,
\* notification, workspace_id=...) for a webhook of workspace ws (None
\* when none was resolved).  Without provider or customer_id it returns
\* False before any I/O; otherwise the record is flattened with the
\* current timestamp.
Start(r, ws, cat, wellFormed) ==
    /\ pc[r] = "idle"
    /\ IF wellFormed
         THEN /\ key' = [key EXCEPT ![r] =
                          WebhookKey(cat, now, StoreWorkspaceId(ws))]
              /\ pc' = [pc EXCEPT ![r] = "set_record"]
              /\ UNCHANGED result
         ELSE /\ result' = [result EXCEPT ![r] = FALSE]
              /\ pc' = [pc EXCEPT ![r] = "done"]
              /\ UNCHANGED key
    /\ UNCHANGED <<now, records, activity, listRead>>

\* cache.set(webhook_key, json.dumps(webhook_data), self.ttl_seconds).
SetRecord(r) ==
    /\ pc[r] = "set_record"
    /\ records' = [records EXCEPT ![key[r]] =
                     [data |-> [workspace_id |-> key[r].ws, event |-> r],
                      exp |-> now + TTL]]
    /\ pc' = [pc EXCEPT ![r] = "get_activity"]
    /\ UNCHANGED <<now, activity, key, listRead, result>>

\* activity_list = cache.get(activity_key, []).
GetActivity(r) ==
    LET e == activity[IndexOf(key[r])] IN
    /\ pc[r] = "get_activity"
    /\ listRead' = [listRead EXCEPT ![r] = IF Live(e) THEN e.keys ELSE <<>>]
    /\ pc' = [pc EXCEPT ![r] = "set_activity"]
    /\ UNCHANGED <<now, records, activity, key, result>>

\* activity_list.append(webhook_key); cache.set(activity_key, ...,
\* self.ttl_seconds); return True.
SetActivity(r) ==
    /\ pc[r] = "set_activity"
    /\ activity' = [activity EXCEPT ![IndexOf(key[r])] =
                      [keys |-> Append(listRead[r], key[r]),
                       exp |-> now + TTL]]
    /\ result' = [result EXCEPT ![r] = TRUE]
    /\ pc' = [pc EXCEPT ![r] = "done"]
    /\ UNCHANGED <<now, records, key, listRead>>

\* A faulty variant: a failed record write is logged and the call goes on
\* to index the key anyway.
StoreFailsSwallowed(r) ==
    \/ /\ pc[r] = "set_record"
       /\ pc' = [pc EXCEPT ![r] = "get_activity"]
       /\ UNCHANGED <<now, records, activity, key, listRead, result>>
    \/ /\ pc[r] \in {"get_activity", "set_activity"}
       /\ result' = [result EXCEPT ![r] = FALSE]
       /\ pc' = [pc EXCEPT ![r] = "done"]
       /\ UNCHANGED <<now, records, activity, key, listRead>>

\* A faulty variant: a failed cache call is retried from the record write.
StoreFailsRetried(r) ==
    /\ pc[r] \in {"set_record", "get_activity", "set_activity"}
    /\ pc' = [pc EXCEPT ![r] = "set_record"]
    /\ UNCHANGED <<now, records, activity, key, listRead, result>>

\* except Exception: return False -- a cache call raised.
StoreFails(r) ==
    /\ pc[r] \in {"set_record", "get_activity", "set_activity"}
    /\ result' = [result EXCEPT ![r] = FALSE]
    /\ pc' = [pc EXCEPT ![r] = "done"]
    /\ UNCHANGED <<now, records, activity, key, listRead>>

\* The clock advances; entries whose TTL runs out disappear from reads.
Tick ==
    /\ now < MaxTime
    /\ now' = now + 1
    /\ UNCHANGED <<records, activity, pc, key, listRead, result>>

\* Every call has returned and the clock is at its bound.
Finished ==
    /\ \A r \in Request : pc[r] = "done"
    /\ now = MaxTime
    /\ UNCHANGED vars

\* The steps of one call after it has been made.
Step(r) ==
    \/ SetRecord(r)
    \/ GetActivity(r)
    \/ SetActivity(r)
    \/ StoreFails(r)

Next ==
    \/ \E r \in Request, ws \in (Workspace \ {Global}) \cup {None},
          cat \in Category,
          wellFormed \in BOOLEAN : Start(r, ws, cat, wellFormed)
    \/ \E r \in Request : Step(r)
    \/ Tick
    \/ Finished

\* A call in progress is served by its request's worker until it returns:
\* each step is a single cache round trip with no retry loop.
Fairness == \A r \in Request : WF_vars(Step(r))

Spec == Init /\ [][Next]_vars /\ Fairness

-----------------------------------------------------------------------------
(***************************************************************************)
(* get_recent_webhook_activity(workspace_id, days): for each of the last  *)
(* `days` calendar days up to today, read that day's activity list and     *)
(* resolve every listed key, skipping keys whose record has expired.       *)
(***************************************************************************)
RecentDays(days) == {d \in Days : d <= Day(now) /\ Day(now) - d < days}

RecentKeys(ws, days) ==
    UNION {IF Live(activity[ActivityKey(d, ws)])
             THEN Range(activity[ActivityKey(d, ws)].keys) ELSE {} :
           d \in RecentDays(days)}

Recent(ws, days) ==
    {records[k].data : k \in {k \in RecentKeys(ws, days) : Live(records[k])}}

-----------------------------------------------------------------------------
TypeOK ==
    /\ now \in Time
    /\ records \in [RecKey -> RecEntry \cup {None}]
    /\ activity \in [IdxKey -> IdxEntry \cup {None}]
    /\ pc \in [Request -> PC]
    /\ key \in [Request -> RecKey \cup {None}]
    /\ listRead \in [Request -> Seq(RecKey)]
    /\ result \in [Request -> BOOLEAN \cup {None}]

(***************************************************************************)
(* Every key an activity index lists belongs to that index's workspace and *)
(* day and names a record that was written to the cache: the record is     *)
(* set before the index is touched, and a failed set aborts the call, so   *)
(* no interleaving of calls, failures and expiries makes the dashboard     *)
(* follow a key to a record that never existed.                            *)
(***************************************************************************)
IndexSound ==
    \A ik \in IdxKey : activity[ik] # None =>
        \A k \in Range(activity[ik].keys) :
            /\ IndexOf(k) = ik
            /\ records[k] # None

(***************************************************************************)
(* Workspace isolation of get_recent_webhook_activity: whatever the calls  *)
(* of other workspaces and of the "global" default did, a query for one    *)
(* workspace never returns a record whose workspace_id is another.         *)
(***************************************************************************)
QueryIsolation ==
    \A ws \in Workspace : \A rec \in Recent(ws, QueryDays) :
        rec.workspace_id = ws

(***************************************************************************)
(* store_enriched_record always returns: there is no retry loop, so a     *)
(* call that has started reaches its return whatever the cache does.       *)
(***************************************************************************)
StoreTerminates ==
    \A r \in Request : (pc[r] # "idle") ~> (pc[r] = "done")

-----------------------------------------------------------------------------
(***************************************************************************)
(* Statements of the spec the store's design does not keep; each has a run *)
(* that expects TLC to find it violated.                                   *)
(***************************************************************************)

(***************************************************************************)
(* "No record write may be lost silently" (spec section 5): once           *)
(* store_enriched_record has returned True, the record it wrote, while it  *)
(* lives and is still its own, is listed in its day's activity index, so   *)
(* get_recent_webhook_activity finds it.  The index is a read-modify-write *)
(* of a list, and two calls of one workspace and day interleave on it.     *)
(***************************************************************************)
StoredRecordIndexed ==
    \A r \in Request :
        (/\ result[r] = TRUE
         /\ Live(records[key[r]])
         /\ records[key[r]].data.event = r)
        => /\ activity[IndexOf(key[r])] # None
           /\ key[r] \in Range(activity[IndexOf(key[r])].keys)

(***************************************************************************)
(* A stored record is "created once ...; never mutated; expires            *)
(* automatically" (spec section 3): no step replaces a record the cache    *)
(* still holds.  The key's token is the timestamp, so two events of one    *)
(* workspace and category in the same tick write the same key.             *)
(***************************************************************************)
RecordNeverReplaced ==
    [][\A k \in RecKey : Live(records[k]) => records'[k] = records[k]]_vars

=============================================================================
