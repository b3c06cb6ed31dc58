----------------------- MODULE WorkspaceSettings_proofs -----------------------
(***************************************************************************)
(* Proofs about the post_save receiver, for any set of workspaces.        *)
(***************************************************************************)
EXTENDS WorkspaceSettings, TLAPS

\* The two invariants checked by the settings run, together.  Neither is
\* inductive alone: the receiver's insert keeps the count in 0..1 only
\* because a workspace in "signal" has no row yet (SettingsIffCreated), and
\* that in turn needs the count to be a number.
IInv == TypeOK /\ SettingsIffCreated

\* The initial state satisfies the invariant: no workspace has settings or
\* has returned from its creating save().
LEMMA IInvInit == Init => IInv
BY DEF Init, IInv, TypeOK, SettingsIffCreated, WPC

\* Each step of save() and of the receiver preserves the invariant.
LEMMA IInvStep == IInv /\ [Next]_vars => IInv'
<1> SUFFICES ASSUME IInv, [Next]_vars PROVE IInv'
    OBVIOUS
<1>1. CASE \E w \in Workspace : CreateWorkspace(w)
    BY <1>1 DEF IInv, TypeOK, SettingsIffCreated, CreateWorkspace, WPC
<1>2. CASE \E w \in Workspace, created \in BOOLEAN : CreateSettings(w, created)
    <2>1. PICK w \in Workspace, created \in BOOLEAN : CreateSettings(w, created)
        BY <1>2
    <2>2. CASE created
        <3>1. wpc[w] = "signal"
            BY <2>1, <2>2 DEF CreateSettings
        <3>2. settings[w] = 0
            BY <3>1 DEF IInv, TypeOK, SettingsIffCreated
        <3>3. QED
            BY <2>1, <2>2, <3>2 DEF IInv, TypeOK, SettingsIffCreated,
                                     CreateSettings, WPC
    <2>3. CASE ~created
        BY <2>1, <2>3 DEF IInv, TypeOK, SettingsIffCreated, CreateSettings
    <2>4. QED
        BY <2>2, <2>3
<1>3. CASE \E w \in Workspace : SettingsFail(w)
    BY <1>3 DEF IInv, TypeOK, SettingsIffCreated, SettingsFail, WPC
<1>4. CASE UNCHANGED vars
    BY <1>4 DEF IInv, TypeOK, SettingsIffCreated, vars
<1>5. QED
    BY <1>1, <1>2, <1>3, <1>4 DEF Next

(***************************************************************************)
(* For any set of workspaces, save() and the receiver keep the workspace   *)
(* rows, the per-workspace settings count (0 or 1) and each call's place   *)
(* well typed; the count stays in 0..1 because the receiver inserts only   *)
(* for a workspace that has no row yet.                                    *)
(***************************************************************************)
THEOREM TypeCorrect == Spec => []TypeOK
  <1>1. Spec => []IInv
    BY IInvInit, IInvStep, PTL DEF Spec
  <1>2. QED
    BY <1>1, PTL DEF IInv

(***************************************************************************)
(* For any set of workspaces, a workspace has exactly one settings row     *)
(* when its creating save() returned normally and none otherwise: the      *)
(* receiver creates settings on created=True only, and a raising insert    *)
(* leaves no row (the invariants of the settings run).                     *)
(***************************************************************************)
THEOREM SettingsCorrect == Spec => []TypeOK /\ []SettingsIffCreated
<1>1. Spec => []IInv
    BY IInvInit, IInvStep, PTL DEF Spec
<1>2. QED
    BY <1>1, PTL DEF IInv

=============================================================================
