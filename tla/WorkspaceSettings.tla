-------------------------- MODULE WorkspaceSettings --------------------------
(***************************************************************************)
(* Workspace.save() and the post_save receiver of core/signals.py that     *)
(* creates a workspace's NotificationSettings.                             *)
(*                                                                         *)
(* save() inserts (or updates) the workspace row and then, in the same     *)
(* call, sends post_save; the receiver runs after the row is written and   *)
(* creates the settings only when created is True.  The two writes are not *)
(* in one transaction: NotificationSettings.objects.create can raise (or   *)
(* the process die) after the workspace row is in place.                   *)
(***************************************************************************)
EXTENDS Naturals

CONSTANTS
    Workspace   \* workspaces that may be created

VARIABLES
    saved,      \* the workspace rows in the database
    settings,   \* the number of NotificationSettings rows of each workspace
    wpc         \* where each workspace's save() call is

vars == <<saved, settings, wpc>>

WPC == {"new", "signal", "done", "failed"}

-----------------------------------------------------------------------------
Init ==
    /\ saved = {}
    /\ settings = [w \in Workspace |-> 0]
    /\ wpc = [w \in Workspace |-> "new"]

\* Workspace.objects.create(...): the row is inserted; post_save is sent
\* with created=True.
CreateWorkspace(w) ==
    /\ wpc[w] = "new"
    /\ saved' = saved \cup {w}
    /\ wpc' = [wpc EXCEPT ![w] = "signal"]
    /\ UNCHANGED settings

\* A faulty variant: the receiver creates settings on every post_save,
\* without looking at created.
CreateSettingsAlways(w, created) ==
    /\ \/ created /\ wpc[w] = "signal"
       \/ ~created /\ wpc[w] \in {"done", "failed"}
    /\ settings' = [settings EXCEPT ![w] = @ + 1]
    /\ wpc' = [wpc EXCEPT ![w] = IF created THEN "done" ELSE @]
    /\ UNCHANGED saved

\* create_workspace_notification_settings(sender, instance, created): on
\* created, NotificationSettings.objects.create(workspace=instance).  A
\* later save() of the workspace, also of one whose first save() raised,
\* sends post_save with created=False, and the receiver does nothing.
CreateSettings(w, created) ==
    /\ \/ created /\ wpc[w] = "signal"
       \/ ~created /\ wpc[w] \in {"done", "failed"}
    /\ settings' = [settings EXCEPT ![w] = IF created THEN @ + 1 ELSE @]
    /\ wpc' = [wpc EXCEPT ![w] = IF created THEN "done" ELSE @]
    /\ UNCHANGED saved

\* A faulty variant: the settings row is committed and the save() raises
\* all the same.
SettingsFailCommitted(w) ==
    /\ wpc[w] = "signal"
    /\ settings' = [settings EXCEPT ![w] = 1]
    /\ wpc' = [wpc EXCEPT ![w] = "failed"]
    /\ UNCHANGED saved

\* NotificationSettings.objects.create raises (a database error) after the
\* workspace row was written: save() raises, the row stays.
SettingsFail(w) ==
    /\ wpc[w] = "signal"
    /\ wpc' = [wpc EXCEPT ![w] = "failed"]
    /\ UNCHANGED <<saved, settings>>

Next ==
    \/ \E w \in Workspace : CreateWorkspace(w)
    \/ \E w \in Workspace, created \in BOOLEAN : CreateSettings(w, created)
    \/ \E w \in Workspace : SettingsFail(w)

Spec == Init /\ [][Next]_vars

-----------------------------------------------------------------------------
TypeOK ==
    /\ saved \subseteq Workspace
    /\ settings \in [Workspace -> 0..1]
    /\ wpc \in [Workspace -> WPC]

(***************************************************************************)
(* A workspace has its NotificationSettings row exactly when its creating  *)
(* save() returned normally, however many times it is saved again after:  *)
(* the receiver acts on created=True only, and a raising insert leaves no  *)
(* row.                                                                    *)
(***************************************************************************)
SettingsIffCreated ==
    \A w \in Workspace : settings[w] = 1 <=> wpc[w] = "done"

(***************************************************************************)
(* "Workspace creation always atomically creates its default settings     *)
(* record" (spec section 9): once save() has returned or raised, a saved   *)
(* workspace has its settings.  The receiver writes after the workspace    *)
(* row, outside any transaction with it.                                   *)
(***************************************************************************)
WorkspaceHasSettings ==
    \A w \in saved : wpc[w] # "signal" => settings[w] = 1

=============================================================================
