---------------------------- MODULE ProcessGroups ----------------------------
(***************************************************************************)
(* The processes a production Session starts (production/processes.py).    *)
(* Each runs in a process group of its own: a leader, which Python starts, *)
(* polls and reaps, and, for what `ros2 launch` and `ros2 run` start, a    *)
(* child that the leader forked.  Signals go to the group, but only the    *)
(* leader is ever polled or waited for.                                    *)
(***************************************************************************)
EXTENDS Naturals

CONSTANTS
    Procs,      \* names of the processes
    Launchers   \* those of them whose leader forks a child

ASSUME LaunchersAssumption == Launchers \subseteq Procs

VARIABLE group  \* group[p]: the members of p's group that are alive

Members == {"leader", "child", "stray"}

GroupsTypeOK == group \in [Procs -> SUBSET Members]

(* ManagedProcess.running: the leader answers poll() with None. *)
Running(p) == "leader" \in group[p]

(* Popen with start_new_session: a new group.  What an earlier group of the *)
(* same name left behind is not part of it.                                 *)
Popen(p) ==
    group' = [group EXCEPT ![p] =
                {"leader"} \cup (IF p \in Launchers THEN {"child"} ELSE {})
                           \cup (IF @ = {} THEN {} ELSE {"stray"})]

(* The leader exits on its own; its child goes on or ends with it. *)
Die(p) ==
    /\ Running(p)
    /\ \E ended \in SUBSET (group[p] \cap {"child"}) :
          group' = [group EXCEPT ![p] = @ \ ({"leader"} \cup ended)]

(* The escalation of ManagedProcess.stop. *)
Signals == <<"INT", "TERM", "KILL">>

(* _signal_group followed by _wait: who is alive when the wait is over.     *)
(* `obey` is everybody who acted on the signal.                             *)
SignalGroup(p, obey) ==
    /\ obey \subseteq group[p] \ {"stray"}
    /\ group' = [group EXCEPT ![p] = @ \ obey]
=============================================================================
