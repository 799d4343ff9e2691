---------------------------- MODULE InstanceViews ----------------------------
(***************************************************************************)
(* What the interface shows of an instance and which messages its buttons  *)
(* send: build_instance_views (crates/backend/src/instances.rs) and the    *)
(* buttons of the instance card and of the details panel                   *)
(* (crates/frontend/src/pages/instances.rs).  Pure: a view is a function   *)
(* of an input, a record with the fields                                   *)
(*   stored      what the storage says: "absent", "pending", "installed"   *)
(*   origin      "Local" or "Backend": whether a manifest published it     *)
(*   kind        the kind of its activity, "Idle" when it has none         *)
(*   creating    it is a local creation that has not finished              *)
(*   installErr, launchErr   an error is remembered                        *)
(*   launchAfter the entry of launch_after_install, "none" for no entry    *)
(*   published   what the catalogs say, one of Published below             *)
(*   blocked     the account it needs is missing (AccountChoice)           *)
(* Names, icons, memory and Java settings of a view are left out.          *)
(***************************************************************************)
EXTENDS Naturals

\* No manifest of its backend is known; the manifest does not list it; it lists
\* it as last synced; it lists another version.
Published == {"Unknown", "Unlisted", "Synced", "Changed"}
Listed(x) == x.origin = "Backend" /\ x.published \in {"Synced", "Changed"}

-----------------------------------------------------------------------------
(***************************************************************************)
(* The status of a view.                                                   *)
(***************************************************************************)
ActivityStatus(x) ==
    CASE x.kind = "Install"    -> "Installing"
      [] x.kind = "LaunchPrep" -> "LaunchPreparing"
      [] OTHER                 -> "Running"

\* Mutant of BaseLocalStatus: the error of the last launch hides the activity.
ErrorBeforeActivity(x) ==
    CASE x.launchErr -> "LaunchFailed"
      [] ~x.launchErr /\ x.kind # "Idle" -> ActivityStatus(x)
      [] ~x.launchErr /\ x.kind = "Idle" /\ x.installErr -> "InstallFailed"
      [] OTHER -> "Installed"

\* base_local_status: what is going on, before what went wrong last.
BaseLocalStatus(x) ==
    CASE x.kind # "Idle" -> ActivityStatus(x)
      [] x.kind = "Idle" /\ x.installErr -> "InstallFailed"
      [] x.kind = "Idle" /\ ~x.installErr /\ x.launchErr -> "LaunchFailed"
      [] OTHER -> "Installed"

\* A stored instance that is at rest is as good as its backend says.
StoredStatus(x) ==
    LET base == BaseLocalStatus(x) IN
    IF base # "Installed" THEN base
    ELSE CASE x.origin = "Backend" /\ x.published = "Unlisted" /\ x.stored = "installed"
                -> "OrphanedFromBackend"
           [] x.stored = "pending" -> "NotInstalled"
           [] Listed(x) /\ x.published = "Changed" /\ x.stored = "installed" -> "Outdated"
           [] OTHER -> "Installed"

\* A local creation and a published instance that nobody has stored show an
\* activity or an error of the installation, else what they wait for.
UnstoredStatus(x, rest) ==
    CASE x.kind # "Idle" -> ActivityStatus(x)
      [] x.kind = "Idle" /\ x.installErr -> "InstallFailed"
      [] OTHER -> rest
CreatingStatus(x) == UnstoredStatus(x, "Installing")
PublishedStatus(x) == UnstoredStatus(x, "NotInstalled")

\* A view is built for what is stored, for what is being created and for what
\* a known manifest lists and no stored instance covers.
HasView(x) == x.stored # "absent" \/ x.creating \/ Listed(x)

\* view_launch_after_install: the checkbox belongs to an installation.
ViewLaunchAfter(x, status) == IF status = "Installing" THEN x.launchAfter ELSE "none"

View(x) ==
    LET status == CASE x.stored # "absent" -> StoredStatus(x)
                    [] x.stored = "absent" /\ x.creating -> CreatingStatus(x)
                    [] OTHER -> PublishedStatus(x)
        orphaned == x.stored # "absent" /\ x.origin = "Backend" /\ x.published = "Unlisted"
    IN [status      |-> status,
        origin      |-> x.origin,
        installed   |-> x.stored = "installed",
        orphaned    |-> orphaned,
        blocked     |-> x.blocked /\ (x.stored # "absent" \/ ~x.creating),
        launchAfter |-> ViewLaunchAfter(x, status)]

\* instance_bucket and the order of the list, the name and the handle aside:
\* local instances first, then each backend's, the installed ones first.
Bucket(v) ==
    CASE v.orphaned -> 2
      [] ~v.orphaned /\ v.installed -> 0
      [] OTHER -> 1
ComesBefore(v, w) ==
    \/ v.origin = "Local" /\ w.origin = "Backend"
    \/ v.origin = w.origin /\ Bucket(v) < Bucket(w)

-----------------------------------------------------------------------------
(***************************************************************************)
(* The buttons, each with the message it sends.  A disabled button sends   *)
(* nothing.                                                                *)
(***************************************************************************)
\* start_add_required_account stands behind "AddAccount".
UnlessBlocked(v, message) == IF v.blocked THEN {"AddAccount"} ELSE {message}

\* action_button: the one of the card.
ActionButton(v) ==
    CASE v.status = "Installing" -> {"CancelInstall"}
      [] v.status \in {"NotInstalled", "Outdated"} ->
            IF v.origin = "Local" THEN {} ELSE UnlessBlocked(v, "InstallInstance")
      [] v.status \in {"LaunchPreparing", "Running"} -> {"KillInstance"}
      [] v.status \in {"Installed", "OrphanedFromBackend", "LaunchFailed"} ->
            UnlessBlocked(v, "Launch")
      [] v.status = "InstallFailed" ->
            IF v.origin = "Local" THEN {"RetryCreateLocal"} ELSE {"InstallInstance"}

\* install_options_slot.
OptionsSlot(v) == IF v.launchAfter = "none" THEN {} ELSE {"SetLaunchAfterInstall"}

DeleteBlocked(v) == v.status \in {"Running", "LaunchPreparing", "Installing"}

\* action_section: those of the details panel.  The two buttons that sync again
\* send InstallInstance too and are told apart here: they are shown while a game
\* runs and the loop refuses them then.
DetailButtons(v) ==
    LET Shown(message, condition) == IF condition THEN {message} ELSE {}
        canLaunch == v.status \in {"Installed", "OrphanedFromBackend", "LaunchFailed"}
        showRemove == v.status = "InstallFailed" /\ ~v.installed /\ v.origin = "Local"
    IN Shown("Launch", canLaunch /\ ~v.blocked)
        \cup Shown("KillInstance", v.status = "Running")
        \cup Shown("Resync", v.origin = "Backend" /\ v.status # "Installing")
        \cup Shown("CancelInstall", showRemove)
        \cup Shown("DeleteInstance", ~showRemove /\ v.installed /\ ~DeleteBlocked(v))
        \cup Shown("InstallInstance", v.status = "Outdated" /\ v.origin = "Backend")

\* status_label: what an instance without its account says of itself.
SaysNoAccount(v) ==
    v.blocked /\ v.status \in {"Installed", "Outdated", "OrphanedFromBackend", "LaunchFailed"}
\* status_badge_color.
BadgeColor(v) ==
    CASE v.orphaned \/ v.status \in {"InstallFailed", "LaunchFailed"} -> "red"
      [] ~v.orphaned /\ v.status \notin {"InstallFailed", "LaunchFailed"} /\ v.blocked -> "yellow"
      [] OTHER -> "muted"

Buttons(v) == ActionButton(v) \cup DetailButtons(v) \cup OptionsSlot(v)
=============================================================================
