-------------------------- MODULE KeyedStore_proofs --------------------------
(***************************************************************************)
(* Proofs about the keyed store, for every value of the constants.         *)
(*                                                                         *)
(* IndexSound is not inductive by itself: SetActivity appends the key a    *)
(* call computed to the list that call read, so the proof also needs to    *)
(* know, of the calls in flight, that their key was computed (KeyDefined), *)
(* that their record has been written (RecordWritten), and that the list   *)
(* they read was itself sound for their index (ReadSound).                 *)
(***************************************************************************)
EXTENDS KeyedStore, TLAPS

Busy == {"set_record", "get_activity", "set_activity"}

\* A call past its precondition has computed its webhook key.
KeyDefined == \A r \in Request : pc[r] \in Busy => key[r] \in RecKey

TypeInv == TypeOK /\ KeyDefined

\* A call past SetRecord has its record in the cache.
RecordWritten ==
    \A r \in Request : pc[r] \in {"get_activity", "set_activity"} =>
        records[key[r]] # None

\* The list a call read before appending lists only keys of its own index
\* whose records were written.
ReadSound ==
    \A r \in Request : pc[r] = "set_activity" =>
        \A k \in Range(listRead[r]) :
            /\ IndexOf(k) = IndexOf(key[r])
            /\ records[k] # None

IInv == TypeInv /\ IndexSound /\ RecordWritten /\ ReadSound

-----------------------------------------------------------------------------
USE ConstantsAssumption

\* The day of any timestamp of the run is one of the indexed days.
LEMMA DayInDays == \A t \in Time : Day(t) \in Days
  BY DEF Time, Day, Days

\* The activity index of a webhook key is an index key.
LEMMA IndexOfType == \A k \in RecKey : IndexOf(k) \in IdxKey
  BY DayInDays DEF IndexOf, ActivityKey, RecKey, IdxKey

\* Appending a key to a list of keys gives a list of keys whose elements
\* are the old ones and the new one.
LEMMA RangeAppend ==
  ASSUME NEW S, NEW s \in Seq(S), NEW x \in S
  PROVE  /\ Append(s, x) \in Seq(S)
         /\ Range(Append(s, x)) = Range(s) \cup {x}
  <1>1. Append(s, x) \in Seq(S)
    OBVIOUS
  <1>2. Range(Append(s, x)) \subseteq Range(s) \cup {x}
    <2> SUFFICES ASSUME NEW i \in 1..Len(s) + 1 PROVE Append(s, x)[i] \in Range(s) \cup {x}
      BY DEF Range
    <2>1. CASE i = Len(s) + 1
      BY <2>1
    <2>2. CASE i \in 1..Len(s)
      BY <2>2 DEF Range
    <2> QED
      BY <2>1, <2>2
  <1>3. Range(s) \cup {x} \subseteq Range(Append(s, x))
    <2>1. x \in Range(Append(s, x))
      <3> Append(s, x)[Len(s) + 1] = x
        OBVIOUS
      <3> QED
        BY DEF Range
    <2>2. ASSUME NEW i \in 1..Len(s) PROVE s[i] \in Range(Append(s, x))
      <3> Append(s, x)[i] = s[i]
        OBVIOUS
      <3> QED
        BY DEF Range
    <2> QED
      BY <2>1, <2>2 DEF Range
  <1>4. QED
    BY <1>1, <1>2, <1>3

\* The TTL in ticks is a natural number.
LEMMA TTLType == TTL \in Nat
  BY DEF TTL

\* The entry SetRecord writes is a cache entry.
LEMMA RecordEntryType ==
  ASSUME NEW r \in Request, NEW k \in RecKey, NEW t \in Time
  PROVE  [data |-> [workspace_id |-> k.ws, event |-> r], exp |-> t + TTL]
           \in RecEntry
  BY TTLType DEF RecEntry, Record, RecKey, Time

\* The processor's workspace id is a workspace id of the store.
LEMMA StoreWorkspaceIdType ==
  ASSUME NEW ws \in (Workspace \ {Global}) \cup {None}
  PROVE  StoreWorkspaceId(ws) \in Workspace
  BY DEF StoreWorkspaceId

\* An empty activity list lists no key.
LEMMA RangeEmpty == Range(<<>>) = {}
  BY DEF Range

-----------------------------------------------------------------------------
\* The empty cache and idle calls satisfy the typing invariant.
LEMMA TypeInvInit == Init => TypeInv
  BY DEF Init, TypeInv, TypeOK, KeyDefined, Busy, Time, PC

\* Every step of a call, the clock or the final stutter keeps the typing
\* invariant.
LEMMA TypeInvStep == TypeInv /\ [Next]_vars => TypeInv'
    <2> SUFFICES ASSUME TypeInv, [Next]_vars PROVE TypeInv'
      OBVIOUS
    <2> USE DEF TypeInv, TypeOK, KeyDefined, Busy, PC
    <2>1. CASE \E r \in Request, ws \in (Workspace \ {Global}) \cup {None},
                  cat \in Category, wf \in BOOLEAN : Start(r, ws, cat, wf)
      <3>0. PICK r \in Request, ws \in (Workspace \ {Global}) \cup {None},
               cat \in Category, wf \in BOOLEAN : Start(r, ws, cat, wf)
        BY <2>1
      <3>1. CASE wf
        <4>1. WebhookKey(cat, now, StoreWorkspaceId(ws)) \in RecKey
          BY StoreWorkspaceIdType DEF WebhookKey, RecKey, Time
        <4>2. key' \in [Request -> RecKey \cup {None}]
          BY <3>0, <3>1, <4>1 DEF Start
        <4>3. pc' \in [Request -> PC]
          BY <3>0, <3>1 DEF Start
        <4>4. KeyDefined'
          BY <3>0, <3>1, <4>1 DEF Start
        <4>5. QED
          BY <3>0, <3>1, <4>2, <4>3, <4>4 DEF Start
      <3>2. CASE ~wf
        BY <3>0, <3>2 DEF Start
      <3>3. QED
        BY <3>1, <3>2
    <2>2. ASSUME NEW r \in Request, SetRecord(r) PROVE TypeInv'
      <3>1. key[r] \in RecKey
        BY <2>2 DEF SetRecord
      <3>2. TTL \in Nat
        BY DEF TTL
      <3>3. [data |-> [workspace_id |-> key[r].ws, event |-> r],
             exp |-> now + TTL] \in RecEntry
        BY <3>1, <3>2 DEF RecEntry, Record, RecKey, Time
      <3>4. records' \in [RecKey -> RecEntry \cup {None}]
        BY <2>2, <3>3 DEF SetRecord
      <3>5. QED
        BY <2>2, <3>4 DEF SetRecord
    <2>3. ASSUME NEW r \in Request, GetActivity(r) PROVE TypeInv'
      <3>1. activity[IndexOf(key[r])] \in IdxEntry \cup {None}
        BY <2>3, IndexOfType DEF GetActivity
      <3>2. QED
        BY <2>3, <3>1 DEF GetActivity, Live, IdxEntry
    <2>4. ASSUME NEW r \in Request, SetActivity(r) PROVE TypeInv'
      <3>1. IndexOf(key[r]) \in IdxKey
        BY <2>4, IndexOfType DEF SetActivity
      <3>2. Append(listRead[r], key[r]) \in Seq(RecKey)
        BY <2>4 DEF SetActivity
      <3>3. TTL \in Nat
        BY DEF TTL
      <3>4. [keys |-> Append(listRead[r], key[r]), exp |-> now + TTL] \in IdxEntry
        BY <3>2, <3>3 DEF IdxEntry, Time
      <3>5. activity' \in [IdxKey -> IdxEntry \cup {None}]
        BY <2>4, <3>1, <3>4 DEF SetActivity
      <3>6. QED
        BY <2>4, <3>5 DEF SetActivity
    <2>5. ASSUME NEW r \in Request, StoreFails(r) PROVE TypeInv'
      BY <2>5 DEF StoreFails
    <2>6. CASE Tick
      BY <2>6 DEF Tick, Time
    <2>7. CASE Finished \/ UNCHANGED vars
      BY <2>7 DEF Finished, vars
    <2>9. CASE \E r \in Request : Step(r)
      BY <2>2, <2>3, <2>4, <2>5, <2>9 DEF Step
    <2>10. QED
      BY <2>1, <2>6, <2>7, <2>9 DEF Next

\* The typing invariant holds in every reachable state.
LEMMA TypeInvInductive == Spec => []TypeInv
  BY TypeInvInit, TypeInvStep, PTL DEF Spec

(***************************************************************************)
(* Type correctness of the store: the cache, the clock and every call's    *)
(* local state keep their types in every reachable state.                  *)
(***************************************************************************)
THEOREM TypeCorrect == Spec => []TypeOK
  BY TypeInvInductive, PTL DEF TypeInv

-----------------------------------------------------------------------------
\* The empty cache and idle calls satisfy the inductive invariant.
LEMMA IInvInit == Init => IInv
  <1> SUFFICES ASSUME Init PROVE IInv
    OBVIOUS
  <1>1. TypeInv
    BY TypeInvInit
  <1>2. IndexSound
    BY DEF Init, IndexSound
  <1>3. RecordWritten /\ ReadSound
    BY DEF Init, RecordWritten, ReadSound
  <1>4. QED
    BY <1>1, <1>2, <1>3 DEF IInv

\* No step removes a record from the cache's bookkeeping: an expired entry
\* reads as missing, but it was written.
LEMMA RecordsStayWritten ==
  ASSUME TypeInv, [Next]_vars
  PROVE  \A k \in RecKey : records[k] # None => records'[k] # None
  <1> SUFFICES ASSUME NEW k \in RecKey, records[k] # None PROVE records'[k] # None
    OBVIOUS
  <1>1. CASE \E r \in Request : SetRecord(r)
    <2> PICK r \in Request : SetRecord(r)
      BY <1>1
    <2> DEFINE new == [data |-> [workspace_id |-> key[r].ws, event |-> r],
                       exp |-> now + TTL]
    <2>1. k \in DOMAIN records
      BY DEF TypeInv, TypeOK
    <2>2. records'[k] = IF k = key[r] THEN new ELSE records[k]
      BY <2>1 DEF SetRecord
    <2>3. key[r] \in RecKey
      BY DEF SetRecord, TypeInv, KeyDefined, Busy
    <2>4. new \in RecEntry
      BY <2>3, RecordEntryType DEF TypeInv, TypeOK
    <2>5. new # None
      BY <2>4, NoneAssumption
    <2>6. QED
      BY <2>2, <2>5
  <1>2. CASE ~\E r \in Request : SetRecord(r)
    <2>1. records' = records
      <3>1. CASE \E r \in Request, ws \in (Workspace \ {Global}) \cup {None},
                    cat \in Category,
                    wf \in BOOLEAN : Start(r, ws, cat, wf)
        BY <3>1 DEF Start
      <3>2. CASE \E r \in Request : GetActivity(r) \/ SetActivity(r) \/ StoreFails(r)
        BY <3>2 DEF GetActivity, SetActivity, StoreFails
      <3>3. CASE Tick \/ Finished \/ UNCHANGED vars
        BY <3>3 DEF Tick, Finished, vars
      <3>4. QED
        BY <1>2, <3>1, <3>2, <3>3 DEF Next, Step
    <2>2. QED
      BY <2>1
  <1>3. QED
    BY <1>1, <1>2

\* Every step of a call, the clock or the final stutter keeps the inductive
\* invariant of the activity index.
LEMMA IInvStep == IInv /\ [Next]_vars => IInv'
  <1> SUFFICES ASSUME IInv, [Next]_vars PROVE IInv'
    OBVIOUS
  <1>0a. TypeInv'
    BY TypeInvStep DEF IInv
  <1>0b. \A k \in RecKey : records[k] # None => records'[k] # None
    BY RecordsStayWritten DEF IInv
  <1> USE DEF IInv, TypeInv, TypeOK, KeyDefined, Busy, PC
  <1> SUFFICES IndexSound' /\ RecordWritten' /\ ReadSound'
    BY <1>0a
  <1>1. ASSUME NEW r \in Request, NEW ws \in (Workspace \ {Global}) \cup {None},
                 NEW cat \in Category,
               NEW wf \in BOOLEAN, Start(r, ws, cat, wf)
        PROVE IndexSound' /\ RecordWritten' /\ ReadSound'
    <2>1. IndexSound'
      BY <1>1 DEF Start, IndexSound
    <2>2. RecordWritten' /\ ReadSound'
      BY <1>1 DEF Start, RecordWritten, ReadSound
    <2>3. QED
      BY <2>1, <2>2
  <1>2. ASSUME NEW r \in Request, SetRecord(r)
        PROVE IndexSound' /\ RecordWritten' /\ ReadSound'
    <2>1. IndexSound'
      BY <1>2, <1>0b DEF SetRecord, IndexSound
    <2>2. RecordWritten'
      <3> SUFFICES ASSUME NEW r2 \in Request,
                          pc'[r2] \in {"get_activity", "set_activity"}
                   PROVE records'[key'[r2]] # None
        BY DEF RecordWritten
      <3>1. CASE r2 = r
        <4>1. key[r] \in RecKey
          BY <1>2 DEF SetRecord
        <4>2. records'[key[r]] \in RecEntry
          BY <1>2, <4>1, RecordEntryType DEF SetRecord
        <4>3. QED
          BY <1>2, <3>1, <4>2, NoneAssumption DEF SetRecord
      <3>2. CASE r2 # r
        <4>1. pc[r2] \in {"get_activity", "set_activity"} /\ key'[r2] = key[r2]
          BY <1>2, <3>2 DEF SetRecord
        <4>2. key[r2] \in RecKey /\ records[key[r2]] # None
          BY <4>1 DEF RecordWritten
        <4>3. QED
          BY <4>1, <4>2, <1>0b
      <3>3. QED
        BY <3>1, <3>2
    <2>3. ReadSound'
      BY <1>2, <1>0b DEF SetRecord, ReadSound
    <2>4. QED
      BY <2>1, <2>2, <2>3
  <1>3. ASSUME NEW r \in Request, GetActivity(r)
        PROVE IndexSound' /\ RecordWritten' /\ ReadSound'
    <2> DEFINE ik == IndexOf(key[r])
               e == activity[ik]
    <2>0. ik \in IdxKey
      BY <1>3, IndexOfType DEF GetActivity
    <2>1. IndexSound' /\ RecordWritten'
      BY <1>3 DEF GetActivity, IndexSound, RecordWritten
    <2>2. \A k \in Range(listRead'[r]) :
            IndexOf(k) = ik /\ records[k] # None
      <3>1. CASE Live(e)
        <4>1. listRead'[r] = e.keys
          BY <1>3, <3>1 DEF GetActivity
        <4>2. e # None
          BY <3>1 DEF Live
        <4>3. QED
          BY <4>1, <4>2, <2>0 DEF IndexSound
      <3>2. CASE ~Live(e)
        BY <1>3, <3>2, RangeEmpty DEF GetActivity
      <3>3. QED
        BY <3>1, <3>2
    <2>3. ReadSound'
      BY <1>3, <2>2 DEF GetActivity, ReadSound
    <2>4. QED
      BY <2>1, <2>3
  <1>4. ASSUME NEW r \in Request, SetActivity(r)
        PROVE IndexSound' /\ RecordWritten' /\ ReadSound'
    <2> DEFINE ik == IndexOf(key[r])
               newKeys == Append(listRead[r], key[r])
    <2>0. /\ key[r] \in RecKey
          /\ ik \in IdxKey
          /\ records[key[r]] # None
      BY <1>4, IndexOfType DEF SetActivity, RecordWritten
    <2>1. Range(newKeys) = Range(listRead[r]) \cup {key[r]}
      BY <2>0, RangeAppend
    <2>2. \A k \in Range(newKeys) : IndexOf(k) = ik /\ records[k] # None
      BY <1>4, <2>0, <2>1 DEF SetActivity, ReadSound
    <2>3. activity'[ik].keys = newKeys
      BY <1>4, <2>0 DEF SetActivity
    <2>4. IndexSound'
      <3> SUFFICES ASSUME NEW ik2 \in IdxKey, activity'[ik2] # None,
                          NEW k \in Range(activity'[ik2].keys)
                   PROVE IndexOf(k) = ik2 /\ records'[k] # None
        BY DEF IndexSound
      <3>1. CASE ik2 = ik
        BY <1>4, <2>2, <2>3, <3>1 DEF SetActivity
      <3>2. CASE ik2 # ik
        BY <1>4, <3>2 DEF SetActivity, IndexSound
      <3>3. QED
        BY <3>1, <3>2
    <2>5. RecordWritten' /\ ReadSound'
      BY <1>4 DEF SetActivity, RecordWritten, ReadSound
    <2>6. QED
      BY <2>4, <2>5
  <1>5. ASSUME NEW r \in Request, StoreFails(r)
        PROVE IndexSound' /\ RecordWritten' /\ ReadSound'
    BY <1>5 DEF StoreFails, IndexSound, RecordWritten, ReadSound
  <1>6. CASE Tick \/ Finished \/ UNCHANGED vars
    BY <1>6 DEF Tick, Finished, vars, IndexSound, RecordWritten, ReadSound
  <1>7. QED
    BY <1>1, <1>2, <1>3, <1>4, <1>5, <1>6 DEF Next, Step

(***************************************************************************)
(* Every key any activity index lists belongs to that index's workspace   *)
(* and day and names a record that was written, in every state reached by *)
(* any interleaving of concurrent store calls, cache failures and expiry.  *)
(***************************************************************************)
THEOREM IndexSoundness == Spec => []IndexSound
  <1>1. IInv => IndexSound
    BY DEF IInv
  <1>2. QED
    BY IInvInit, IInvStep, <1>1, PTL DEF Spec

-----------------------------------------------------------------------------
(***************************************************************************)
(* Workspace isolation of the activity query.  It rests on IndexSound (a   *)
(* listed key belongs to its index's workspace) and on RecordScoped: a     *)
(* record carries the workspace of the key it is stored under, because     *)
(* SetRecord writes workspace_id from the same workspace id the key was    *)
(* built from.                                                             *)
(***************************************************************************)
RecordScoped ==
    \A k \in RecKey : records[k] # None => records[k].data.workspace_id = k.ws

\* The empty cache holds no record of any workspace.
LEMMA RecordScopedInit == Init => RecordScoped
  BY DEF Init, RecordScoped

\* Every step keeps each stored record under a key of its own workspace.
LEMMA RecordScopedStep ==
  TypeInv /\ RecordScoped /\ [Next]_vars => RecordScoped'
  <1> SUFFICES ASSUME TypeInv, RecordScoped, [Next]_vars PROVE RecordScoped'
    OBVIOUS
  <1>1. CASE \E r \in Request : SetRecord(r)
    <2> PICK r \in Request : SetRecord(r)
      BY <1>1
    <2> SUFFICES ASSUME NEW k \in RecKey, records'[k] # None
                 PROVE  records'[k].data.workspace_id = k.ws
      BY DEF RecordScoped
    <2>1. key[r] \in RecKey
      BY DEF SetRecord, TypeInv, KeyDefined, Busy
    <2>2. k \in DOMAIN records
      BY DEF TypeInv, TypeOK
    <2>3. CASE k = key[r]
      BY <2>1, <2>2, <2>3 DEF SetRecord
    <2>4. CASE k # key[r]
      BY <2>2, <2>4 DEF SetRecord, RecordScoped
    <2>5. QED
      BY <2>3, <2>4
  <1>2. CASE ~\E r \in Request : SetRecord(r)
    <2>1. records' = records
      <3>1. CASE \E r \in Request, ws \in (Workspace \ {Global}) \cup {None},
                    cat \in Category,
                    wf \in BOOLEAN : Start(r, ws, cat, wf)
        BY <3>1 DEF Start
      <3>2. CASE \E r \in Request : GetActivity(r) \/ SetActivity(r) \/ StoreFails(r)
        BY <3>2 DEF GetActivity, SetActivity, StoreFails
      <3>3. CASE Tick \/ Finished \/ UNCHANGED vars
        BY <3>3 DEF Tick, Finished, vars
      <3>4. QED
        BY <1>2, <3>1, <3>2, <3>3 DEF Next, Step
    <2>2. QED
      BY <2>1 DEF RecordScoped
  <1>3. QED
    BY <1>1, <1>2

\* A record is always stored under a key of its own workspace.
LEMMA RecordScopedInductive == Spec => []RecordScoped
  <1>1. TypeInv /\ RecordScoped /\ [Next]_vars => RecordScoped'
    BY RecordScopedStep
  <1>2. QED
    BY <1>1, RecordScopedInit, TypeInvInductive, PTL DEF Spec

\* QueryIsolation follows in any state from the index's soundness, the
\* record's scoping and the types.
LEMMA IsolationFromScoping ==
  TypeOK /\ IndexSound /\ RecordScoped => QueryIsolation
  <1> SUFFICES ASSUME TypeOK, IndexSound, RecordScoped,
                      NEW ws \in Workspace, NEW rec \in Recent(ws, QueryDays)
               PROVE  rec.workspace_id = ws
    BY DEF QueryIsolation
  <1>1. PICK k \in RecentKeys(ws, QueryDays) :
               Live(records[k]) /\ rec = records[k].data
    BY DEF Recent
  <1>2. PICK d \in RecentDays(QueryDays) :
               /\ Live(activity[ActivityKey(d, ws)])
               /\ k \in Range(activity[ActivityKey(d, ws)].keys)
    BY <1>1 DEF RecentKeys
  <1>3. ActivityKey(d, ws) \in IdxKey
    BY DEF RecentDays, ActivityKey, IdxKey
  <1>4. activity[ActivityKey(d, ws)] \in IdxEntry
    BY <1>2, <1>3 DEF TypeOK, Live
  <1>5. k \in RecKey
    BY <1>2, <1>4 DEF IdxEntry, Range
  <1>6. k.ws = ws
    <2>1. IndexOf(k) = ActivityKey(d, ws)
      BY <1>2, <1>3 DEF IndexSound, Live
    <2>2. QED
      BY <2>1 DEF IndexOf, ActivityKey
  <1>7. records[k].data.workspace_id = k.ws
    BY <1>1, <1>5 DEF RecordScoped, Live
  <1>8. QED
    BY <1>1, <1>6, <1>7

(***************************************************************************)
(* For every value of the constants, get_recent_webhook_activity for a    *)
(* workspace returns only records of that workspace, whatever the calls    *)
(* of other workspaces and of the "global" default did and however they    *)
(* interleaved, failed or expired (the invariant of the store run).        *)
(***************************************************************************)
THEOREM QueryIsolated == Spec => []QueryIsolation
  BY TypeCorrect, IndexSoundness, RecordScopedInductive, IsolationFromScoping,
     PTL

=============================================================================
