--------------------------- MODULE StatusMachine ---------------------------
(***************************************************************************)
(* What the control plane promises about the status of a server, to users  *)
(* who only see the status: it is created once, moves along the transition *)
(* table of app/states.py or is forced to error while it is not destroyed, *)
(* and never stays in an in-flight status.  Lifecycle implements it.       *)
(***************************************************************************)
EXTENDS InstanceStates

CONSTANT Instances
VARIABLE status

Init == status \in [Instances -> {"absent", "running", "stopped"}]

(* The Instance row is inserted, provisioning. *)
Create(i) ==
    /\ status[i] = "absent"
    /\ status' = [status EXCEPT ![i] = "provisioning"]

(* transition(): one step along the table. *)
Move(i) == \E s \in ALL_STATES :
    /\ CanTransition(status[i], s)
    /\ status' = [status EXCEPT ![i] = s]

(* queue.fail(): error is reachable from every status but destroyed. *)
ForceError(i) ==
    /\ status[i] \in ALL_STATES \ TERMINAL_STATES
    /\ status' = [status EXCEPT ![i] = "error"]

Next == \E i \in Instances : Create(i) \/ Move(i) \/ ForceError(i)

Spec == Init /\ [][Next]_status

(***************************************************************************)
(* No limbo: a server does not stay in an in-flight status.                *)
(***************************************************************************)
Resolve(i) == status[i] \in InFlight /\ (Move(i) \/ ForceError(i))

FairSpec == Spec /\ \A i \in Instances : WF_status(Resolve(i))

=============================================================================
