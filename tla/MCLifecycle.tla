----------------------------- MODULE MCLifecycle -----------------------------
(***************************************************************************)
(* InstanceLifecycle as TLC checks it: one published or one local          *)
(* instance, two or three tasks (the Lifecycle*.cfg files), and what the   *)
(* interface shows of it (InstanceViews).                                  *)
(***************************************************************************)
EXTENDS InstanceLifecycle, InstanceViews

\* InstanceLiveState and the other inputs of build_instance_views, with what
\* the catalogs and the accounts say left open.
ViewInput(h, published, blocked) ==
    [stored      |-> storage[h],
     origin      |-> IF h \in Local THEN "Local" ELSE "Backend",
     kind        |-> activity[h].kind,
     creating    |-> h \in creating,
     installErr  |-> h \in installErr,
     launchErr   |-> h \in launchErr,
     launchAfter |-> launchAfter[h],
     published   |-> published,
     blocked     |-> blocked]

\* The messages about h that the loop does not turn down at once, accounts
\* aside.  A game that is being killed already counts as killed.
Accepts(h, message) ==
    LET running == activity[h].kind = "Running" IN
    CASE message \in {"InstallInstance", "RetryCreateLocal"} ->
            ~IsBusy(h) /\ (message = "RetryCreateLocal" => h \in creating)
      [] message = "Launch" -> ~IsBusy(h) /\ storage[h] = "installed"
      [] message = "DeleteInstance" -> ~IsBusy(h) /\ storage[h] # "absent"
      [] message = "KillInstance" ->
            \/ activity[h].kind = "LaunchPrep"
            \/ running /\ (activity[h].kill \/ activity[h].task \in killed)
      [] message = "CancelInstall" -> ~running
      [] message = "SetLaunchAfterInstall" -> launchAfter[h] # "none"
      [] OTHER -> TRUE

\* Whatever a published instance went through, every button the interface
\* shows for it does something: the loop does not refuse the message it sends
\* (action_button, action_section and install_options_slot against the checks
\* at the head of each handler).  The buttons that sync again are the exception:
\* they stay while a launch is under way; so is a Mistaken instance, which nobody
\* can stop, and the Launch button of an instance that is only known: it bears
\* the error of a launch whose end was handled after the instance was deleted, or
\* which a deletion that failed has left.
ButtonsWork ==
    \A h \in Remote, published \in Published, blocked \in BOOLEAN :
        LET x == ViewInput(h, published, blocked) IN
        HasView(x) /\ ~Mistaken(h) => \A message \in Buttons(View(x)) \ {"Resync"} :
            \/ Accepts(h, message)
            \/ message = "Launch" /\ storage[h] = "pending" /\ h \in launchErr
=============================================================================
