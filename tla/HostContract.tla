---------------------------- MODULE HostContract ----------------------------
(***************************************************************************)
(* What the manager counts on when its Jobs run on a node: an install Job  *)
(* that completes leaves a shim that containerd can be pointed at, an      *)
(* uninstall Job that completes leaves none, a Job at work or failing      *)
(* leaves its own shim either way, and no Job touches another shim.  There *)
(* is one exception: an uninstaller that dies while it writes the          *)
(* configuration file may take other shims with it.                        *)
(***************************************************************************)
EXTENDS Naturals

CONSTANT Shims

VARIABLES usable,  \* shim -> its binary is whole and its runtime configured
          job,     \* <<shim, operation>> -> state of the Job
          pods,    \* job -> Pods it has had, 0 unless it runs
          writing  \* uninstallers in the middle of writing the file

contractVars == <<usable, job, pods, writing>>
ContractJobs == Shims \X {"install", "uninstall"}

Init == /\ usable = [s \in Shims |-> FALSE]
        /\ job = [j \in ContractJobs |-> "none"]
        /\ pods = [j \in ContractJobs |-> 0]
        /\ writing = {}

Start(j) ==
  /\ job[j] # "running"
  /\ job' = [job EXCEPT ![j] = "running"]
  /\ pods' = [pods EXCEPT ![j] = 1]
  /\ UNCHANGED <<usable, writing>>

TouchesOwn(j) == \E u \in BOOLEAN : usable' = [usable EXCEPT ![j[1]] = u]

\* A Pod that goes on.
Work(j) ==
  /\ job[j] = "running"
  /\ TouchesOwn(j)
  /\ \/ UNCHANGED writing
     \/ j[2] = "uninstall" /\ writing' = writing \cup {j}
     \/ j \in writing /\ writing' = writing \ {j}
  /\ UNCHANGED <<job, pods>>

Complete(j) ==
  /\ job[j] = "running" /\ j \notin writing
  /\ usable' = [usable EXCEPT ![j[1]] = j[2] = "install"]
  /\ job' = [job EXCEPT ![j] = "complete"]
  /\ pods' = [pods EXCEPT ![j] = 0]
  /\ UNCHANGED writing

\* The Pod is no more; the Job makes another one or is given up.
PodEnds(j) ==
  /\ job[j] = "running"
  /\ \/ pods' = [pods EXCEPT ![j] = @ + 1] /\ UNCHANGED job
     \/ /\ pods' = [pods EXCEPT ![j] = 0]
        /\ job' = [job EXCEPT ![j] = "failed"]

PodFails(j) == PodEnds(j) /\ j \notin writing /\ TouchesOwn(j) /\ UNCHANGED writing

UninstallerDies(j) ==
  /\ PodEnds(j) /\ j \in writing
  /\ \E lost \in SUBSET Shims : usable' = [s \in Shims |-> usable[s] /\ s \notin lost]
  /\ writing' = writing \ {j}

Next == \E j \in ContractJobs : \/ Start(j) \/ Work(j) \/ Complete(j)
                                \/ PodFails(j) \/ UninstallerDies(j)

Spec == Init /\ [][Next]_contractVars
=============================================================================
