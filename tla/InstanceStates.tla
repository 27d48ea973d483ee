--------------------------- MODULE InstanceStates ---------------------------
(***************************************************************************)
(* The instance state machine of app/states.py: the statuses of an         *)
(* Instance row, the transition table every handler goes through, and the  *)
(* statuses each user verb may be enqueued from.                           *)
(***************************************************************************)

ALL_STATES ==
    { "provisioning", "booting", "running", "stopping", "stopped", "starting",
      "rebooting", "rebuilding", "resizing", "restoring", "suspended",
      "destroying", "destroyed", "error" }

TERMINAL_STATES == { "destroyed" }

(***************************************************************************)
(* TRANSITIONS[s] is the set of statuses a row in status s may move to.    *)
(***************************************************************************)
TRANSITIONS ==
    [ s \in ALL_STATES |->
        CASE s = "provisioning" -> {"booting", "running", "error", "destroying"}
          [] s = "booting"      -> {"running", "stopping", "error", "destroying"}
          [] s = "running"      -> {"stopping", "rebooting", "rebuilding", "resizing",
                                    "restoring", "suspended", "destroying", "error"}
          [] s = "stopping"     -> {"stopped", "error", "destroying"}
          [] s = "stopped"      -> {"starting", "rebuilding", "resizing", "restoring",
                                    "suspended", "destroying", "error"}
          [] s = "starting"     -> {"running", "booting", "error", "destroying"}
          [] s = "rebooting"    -> {"running", "error", "destroying"}
          [] s = "rebuilding"   -> {"running", "booting", "error", "destroying"}
          [] s = "resizing"     -> {"running", "booting", "stopped", "error", "destroying"}
          [] s = "restoring"    -> {"running", "booting", "stopped", "error", "destroying"}
          [] s = "suspended"    -> {"stopped", "destroying", "error"}
          [] s = "destroying"   -> {"destroyed", "error"}
          [] s = "error"        -> {"rebuilding", "restoring", "destroying"}
          [] s = "destroyed"    -> {} ]

(* transition() raises InvalidTransition when this is false. *)
CanTransition(from, to) == from \in ALL_STATES /\ to \in TRANSITIONS[from]

(* The statuses that a job in progress, and nothing else, should explain. *)
InFlight == ALL_STATES \ { "running", "stopped", "suspended", "destroyed", "error" }

(***************************************************************************)
(* The verbs a user (or the scheduler) enqueues, and the statuses each may *)
(* be enqueued from.  suspend, unsuspend and snapshot are in the table of  *)
(* the source but no request enqueues them and no handler runs them.       *)
(***************************************************************************)
PowerVerbs == { "start", "stop", "reboot" }
BootVerbs  == { "resize", "rebuild", "rollback", "restore_backup" }
Verbs      == PowerVerbs \cup BootVerbs \cup { "backup", "destroy" }

VERB_FROM_STATES ==
    [ v \in Verbs |->
        CASE v = "start"                          -> {"stopped"}
          [] v \in {"stop", "reboot"}             -> {"running"}
          [] v \in {"rebuild", "restore_backup"}  -> {"running", "stopped", "error"}
          [] v \in {"resize", "rollback",
                    "backup"}                     -> {"running", "stopped"}
          [] v = "destroy"                        -> ALL_STATES \ TERMINAL_STATES ]

CanEnqueue(verb, status) == status \in VERB_FROM_STATES[verb]

=============================================================================
