------------------------------ MODULE Reconcile -----------------------------
(***************************************************************************)
(* The reconciliation of an agent (agent/internal/agent/reconcile.go) on   *)
(* top of the Docker runtime (agent/internal/runtime/docker.go).  Each     *)
(* call to the daemon is one action; between two of them containers exit,  *)
(* the server's task list and the registry change, calls fail and the      *)
(* agent is restarted.  The daemon and the registry are external: they are *)
(* modelled from how docker.go uses them.                                  *)
(*                                                                         *)
(* A task configuration is reduced to its image, its command and MaxCPU,   *)
(* in quarters of a core; a task list is a function on the names of its    *)
(* tasks, so two tasks of one node never share a container name.           *)
(*                                                                         *)
(* The few definitions that no action uses, each before the definition it  *)
(* resembles, are defects that PROJECT.json substitutes to show that a     *)
(* property would notice them.                                             *)
(***************************************************************************)
EXTENDS Cores, FiniteSets

CONSTANTS
    Name,        \* container names
    Config,      \* task configurations: records [image, command, cpu]
    NoCommand,   \* the empty command
    DefaultCommand, \* what an image runs when it is given no command
    None,        \* nil, or nothing
    InitialTasks,    \* the server's first task list
    InitialContainers, \* the containers the daemon has before the agent starts
    MaxChanges,  \* bound on changes of the task list
    MaxPushes,   \* bound on new versions of an image
    MaxExits,    \* bound on containers that exit by themselves
    MaxFaults,   \* bound on calls that fail
    MaxRestarts  \* bound on restarts of the agent

Image == {cfg.image : cfg \in Config}
Version == 0 .. MaxPushes + 1

\* What the agent sees of a container of the daemon.  The label scoServerLabel holds the
\* configuration the container was created with.  Images and commands are only compared,
\* so those of a container that somebody else made need no values of their own.
Container ==
    [label : Config \cup {None}, state : {"created", "running", "exited"}, image : Image,
     command : ({cfg.command : cfg \in Config} \cup {DefaultCommand}) \ {NoCommand},
     nano : Nat, version : Version]

\* The daemon runs the image's default when a container is created without one.
Command(cfg) == IF cfg.command = NoCommand THEN DefaultCommand ELSE cfg.command

\* A container that has a label was made from the configuration in it.
AsLabelled(c) ==
    c.label # None => /\ c.image = c.label.image
                      /\ c.command = Command(c.label)
                      /\ c.nano = NanoCPUs(c.label.cpu)

ASSUME ReconcileAssumption ==
    /\ \A cfg \in Config : /\ DOMAIN cfg = {"image", "command", "cpu"}
                           /\ {cfg.cpu, NanoCPUs(cfg.cpu)} \subseteq Nat
    /\ None \notin Config \cup Container
    /\ NoCommand # DefaultCommand
    /\ {MaxChanges, MaxPushes, MaxExits, MaxFaults, MaxRestarts} \subseteq Nat

\* What an earlier run of the agent left behind it made as this one does.
ASSUME InitialAssumption ==
    /\ InitialTasks \in [Name -> Config \cup {None}]
    /\ InitialContainers \in [Name -> Container \cup {None}]
    /\ \A n \in Name : InitialContainers[n] # None => AsLabelled(InitialContainers[n])

VARIABLES
    desired,    \* the task list the server answers GetTasks with
    registry,   \* the version of each image in the registry
    local,      \* the version the daemon pulled, 0 if none
    container,  \* the container of each name, or None
    pc,         \* where reconcile is
    tasks,      \* Agent.tasks
    todo,       \* the names left in the loop that is running
    task,       \* the name of the task of this iteration
    status,     \* the variable status of reconcileTask
    budget,     \* how often each disturbance may still happen
    always      \* the names that the server has listed all along (history)

agentVars == <<pc, tasks, todo, task, status>>
vars == <<desired, always, registry, local, container, agentVars, budget>>

Listed(list) == {n \in Name : list[n] # None}

Init ==
    /\ desired = InitialTasks
    /\ always = Listed(InitialTasks)
    /\ registry = [i \in Image |-> 1]
    /\ local = [i \in Image |-> IF \E n \in Name : /\ InitialContainers[n] # None
                                                   /\ InitialContainers[n].image = i
                                THEN 1 ELSE 0]
    /\ container = InitialContainers
    /\ pc = "idle"
    /\ tasks = [n \in Name |-> None]
    /\ todo = {}
    /\ task = None
    /\ status = "UNKNOWN"
    /\ budget = [change |-> MaxChanges, exit |-> MaxExits, fault |-> MaxFaults,
                 restart |-> MaxRestarts]

-----------------------------------------------------------------------------
(* The daemon.                                                             *)

Exists(n) == container[n] # None
State(n) == IF Exists(n) THEN container[n].state ELSE "absent"

\* A container of the agent's.
Labelled(n) == Exists(n) /\ container[n].label # None

\* ContainerStop stops a running container and accepts one that is not running.
Stopped(n) ==
    container' = [container EXCEPT ![n].state = IF @ = "running" THEN "exited" ELSE @]

\* ContainerRemove, without force, refuses a running container.
Removable(n) == Exists(n) /\ State(n) # "running"
Removed(n) == container' = [container EXCEPT ![n] = None]

Spend(what) ==
    /\ budget[what] > 0
    /\ budget' = [budget EXCEPT ![what] = @ - 1]

-----------------------------------------------------------------------------
(* Control of reconcile.                                                   *)

\* Every error inside a loop is logged and the loop continues; every other error
\* ends the pass.
AfterErrorUnlessPull ==
    CASE pc \in {"idle", "list"} -> "idle"
      [] pc \in {"sweep", "sweepRemove"} -> "sweep"
      [] pc = "pull" -> "info"
      [] OTHER -> "tasks"

AfterErrorUnlessTasks ==
    CASE pc = "idle" -> "list"
      [] pc = "list" -> "idle"
      [] pc \in {"sweep", "sweepRemove"} -> "sweep"
      [] OTHER -> "tasks"

AfterError ==
    CASE pc \in {"idle", "list"} -> "idle"
      [] pc \in {"sweep", "sweepRemove"} -> "sweep"
      [] OTHER -> "tasks"

\* A call that had its effect may still report a failure.
Reports(next) ==
    \/ pc' = next /\ UNCHANGED budget
    \/ pc' = AfterError /\ Spend("fault")

\* a.tasks = tasks
GetTasks ==
    /\ pc = "idle"
    /\ tasks' = desired
    /\ pc' = "list"
    /\ UNCHANGED <<desired, always, registry, local, container, todo, task, status, budget>>

\* What ListTasks lists: containers with the label, and, as the option All is not
\* set, only those that run.
ListedByDaemon ==
    {n \in Name : Labelled(n) /\ State(n) = "running"}

ListTasksFound ==
    /\ pc = "list"
    /\ todo' = ListedByDaemon \cap Listed(tasks)
    /\ pc' = "sweep"
    /\ UNCHANGED <<desired, always, registry, local, container, tasks, task, status, budget>>

ListTasks ==
    /\ pc = "list"
    /\ todo' = ListedByDaemon \ Listed(tasks)
    /\ pc' = "sweep"
    /\ UNCHANGED <<desired, always, registry, local, container, tasks, task, status, budget>>

\* The first loop: stop and remove what is no longer in the list.
SweepStop(n) ==
    /\ pc = "sweep"
    /\ n \in todo
    /\ todo' = todo \ {n}
    /\ task' = n
    /\ Exists(n)
    /\ Stopped(n)
    /\ Reports("sweepRemove")
    /\ UNCHANGED <<desired, always, registry, local, tasks, status>>

SweepRemove ==
    /\ pc = "sweepRemove"
    /\ Removable(task)
    /\ Removed(task)
    /\ Reports("sweep")
    /\ UNCHANGED <<desired, always, registry, local, tasks, todo, task, status>>

SweepDone ==
    /\ pc = "sweep"
    /\ todo = {}
    /\ todo' = Listed(tasks)
    /\ pc' = "tasks"
    /\ UNCHANGED <<desired, always, registry, local, container, tasks, task, status, budget>>

-----------------------------------------------------------------------------
(* reconcileTask, for a task of the list.                                  *)

\* GetTaskStatus: a container without the label has status UNKNOWN.
GetTaskStatus(n) ==
    /\ pc = "tasks"
    /\ n \in todo
    /\ todo' = todo \ {n}
    /\ task' = n
    /\ status' = CASE Labelled(n) /\ State(n) = "running" -> "RUNNING"
                   [] Labelled(n) /\ State(n) = "exited" -> "STOPPED"
                   [] OTHER -> "UNKNOWN"
    /\ pc' = "pull"
    /\ UNCHANGED <<desired, always, registry, local, container, tasks, budget>>

\* "Pull before stopping any existing task so a failed pull leaves it running."
PullImage ==
    LET image == tasks[task].image
    IN  /\ pc = "pull"
        /\ local' = [local EXCEPT ![image] = registry[image]]
        /\ Reports("info")
        /\ UNCHANGED <<desired, always, registry, container, tasks, todo, task, status>>

\* TaskConfig.CompareTo, with the information GetTaskInfo reads from the daemon.
SameConfig(t, c) ==
    /\ t.image = c.image
    /\ t.command # NoCommand => t.command = c.command
    /\ SameCPU(t.cpu, c.nano)

\* IsTaskImageCurrent
ImageCurrent(t, c) == c.version = local[t.image]

MustRestartOnConfig(t, c) == ~SameConfig(t, c)
MustRestart(t, c) == ~SameConfig(t, c) \/ ~ImageCurrent(t, c)

\* GetTaskInfo and IsTaskImageCurrent, and the decision that follows.  One action:
\* what they read of the container and of the local image is changed by this loop
\* only.
Decide ==
    LET t == tasks[task]
        c == container[task]
    IN  /\ pc = "info"
        /\ pc' = IF ~Exists(task) THEN "start"
                 ELSE IF MustRestart(t, c)
                      THEN IF status # "STOPPED" THEN "stop" ELSE "remove"
                      ELSE IF status = "RUNNING" THEN "tasks" ELSE "start"
        /\ UNCHANGED <<desired, always, registry, local, container, tasks, todo, task,
                       status, budget>>

StopTask ==
    /\ pc = "stop"
    /\ Exists(task)
    /\ Stopped(task)
    /\ Reports("remove")
    /\ UNCHANGED <<desired, always, registry, local, tasks, todo, task, status>>

RemoveTask ==
    /\ pc = "remove"
    /\ Removable(task)
    /\ Removed(task)
    /\ Reports("start")
    /\ UNCHANGED <<desired, always, registry, local, tasks, todo, task, status>>

\* StartTask: an existing container is started as it is ...
StartFind ==
    /\ pc = "start"
    /\ pc' = CASE State(task) = "running" -> "tasks"
               [] Exists(task) /\ State(task) # "running" -> "run"
               [] OTHER -> "create"
    /\ UNCHANGED <<desired, always, registry, local, container, tasks, todo, task, status,
                   budget>>

\* "container does not exist, create it": any error of the search counts as that.
StartFindFails ==
    /\ pc = "start"
    /\ Spend("fault")
    /\ pc' = "create"
    /\ UNCHANGED <<desired, always, registry, local, container, tasks, todo, task, status>>

\* ... and otherwise created from the local image, with the label.
CreateContainer ==
    LET t == tasks[task]
    IN  /\ pc = "create"
        /\ ~Exists(task) /\ local[t.image] > 0
        /\ container' = [container EXCEPT ![task] =
               [label |-> t, state |-> "created", image |-> t.image,
                command |-> Command(t), nano |-> NanoCPUs(t.cpu),
                version |-> local[t.image]]]
        /\ Reports("run")
        /\ UNCHANGED <<desired, always, registry, local, tasks, todo, task, status>>

StartContainer ==
    /\ pc = "run"
    /\ Exists(task)
    /\ container' = [container EXCEPT ![task].state = "running"]
    /\ Reports("tasks")
    /\ UNCHANGED <<desired, always, registry, local, tasks, todo, task, status>>

\* The pass ends; the next one follows after five seconds.
PassDone ==
    /\ pc = "tasks"
    /\ todo = {}
    /\ pc' = "idle"
    /\ UNCHANGED <<desired, always, registry, local, container, tasks, todo, task, status,
                   budget>>

\* Any other call fails without effect: the daemon or the server reports an error.
CallFails ==
    /\ pc # "start"
    /\ Spend("fault")
    /\ pc' = AfterError
    /\ \/ pc \notin {"sweep", "tasks"} /\ UNCHANGED todo
       \/ pc \in {"sweep", "tasks"} /\ \E n \in todo : todo' = todo \ {n}
    /\ UNCHANGED <<desired, always, registry, local, container, tasks, task, status>>

\* A call on a container that is gone, or in the wrong state, is refused.
CallRefused ==
    /\ \/ pc = "sweepRemove" /\ ~Removable(task) /\ UNCHANGED todo
       \/ pc = "sweep" /\ \E n \in todo : ~Exists(n) /\ todo' = todo \ {n}
       \/ pc \in {"stop", "run"} /\ ~Exists(task) /\ UNCHANGED todo
       \/ pc = "remove" /\ ~Removable(task) /\ UNCHANGED todo
       \/ pc = "create" /\ (Exists(task) \/ local[tasks[task].image] = 0) /\ UNCHANGED todo
    /\ pc' = AfterError
    /\ UNCHANGED <<desired, always, registry, local, container, tasks, task, status, budget>>

-----------------------------------------------------------------------------
(* The environment.                                                        *)

TaskListChanges ==
    /\ Spend("change")
    /\ desired' \in [Name -> Config \cup {None}]
    /\ always' = always \cap Listed(desired')
    /\ UNCHANGED <<registry, local, container, agentVars>>

ImagePushed(i) ==
    /\ registry[i] <= MaxPushes
    /\ registry' = [registry EXCEPT ![i] = @ + 1]
    /\ UNCHANGED <<desired, always, local, container, agentVars, budget>>

ContainerExits(n) ==
    /\ State(n) = "running"
    /\ Spend("exit")
    /\ container' = [container EXCEPT ![n].state = "exited"]
    /\ UNCHANGED <<desired, always, registry, local, agentVars>>

AgentRestarts ==
    /\ Spend("restart")
    /\ pc' = "idle"
    /\ tasks' = [n \in Name |-> None]
    /\ todo' = {}
    /\ task' = None
    /\ status' = "UNKNOWN"
    /\ UNCHANGED <<desired, always, registry, local, container>>

-----------------------------------------------------------------------------
AgentStep ==
    \/ GetTasks
    \/ ListTasks
    \/ \E n \in Name : SweepStop(n)
    \/ SweepRemove
    \/ SweepDone
    \/ \E n \in Name : GetTaskStatus(n)
    \/ PullImage
    \/ Decide
    \/ StopTask
    \/ RemoveTask
    \/ StartFind
    \/ CreateContainer
    \/ StartContainer
    \/ PassDone
    \/ CallRefused

Next ==
    \/ AgentStep
    \/ StartFindFails
    \/ CallFails
    \/ TaskListChanges
    \/ \E i \in Image : ImagePushed(i)
    \/ \E n \in Name : ContainerExits(n)
    \/ AgentRestarts

Spec == Init /\ [][Next]_vars

\* The reconcile loop never ends; the disturbances are bounded by their budgets,
\* and nothing obliges them to happen.
FairSpec == Spec /\ WF_vars(AgentStep)

-----------------------------------------------------------------------------
(* Properties.                                                             *)

\* In the first loop only what is not listed is left to stop, and in the second only
\* what is listed is left to be reconciled.
InLoop == {"pull", "info", "stop", "remove", "start", "create", "run"}

LoopsAreApart ==
    /\ pc \in {"sweep", "sweepRemove"} => todo \cap Listed(tasks) = {}
    /\ pc \in {"tasks"} \cup InLoop => todo \subseteq Listed(tasks)
    /\ pc \in {"sweepRemove"} \cup InLoop => task \in Name
    /\ pc \in InLoop => task \in Listed(tasks)

\* Type invariant of the agent's variables and of what it sees of the daemon; its two
\* loops work on disjoint sets of names.
TypeOK ==
    /\ desired \in [Name -> Config \cup {None}]
    /\ registry \in [Image -> Version]
    /\ local \in [Image -> Version]
    /\ container \in [Name -> Container \cup {None}]
    /\ pc \in {"idle", "list", "sweep", "sweepRemove", "tasks"} \cup InLoop
    /\ tasks \in [Name -> Config \cup {None}]
    /\ todo \subseteq Name
    /\ task \in Name \cup {None}
    /\ status \in {"RUNNING", "STOPPED", "UNKNOWN"}
    /\ always \subseteq Listed(desired)
    /\ LoopsAreApart

\* The agent takes a running container down.
TakesDown(n) ==
    /\ State(n) = "running"
    /\ n \notin {m \in Name : State(m)' = "running"}
    /\ budget'.exit = budget.exit

\* A task that runs in a container made from the very configuration that the list has
\* for it, and from the current image, is never stopped, whatever failed before and
\* however stale the status is.  (runtime.go: CompareTo "returns true if they are equal";
\* the label holds the configuration the container was made from.)
UnchangedIsKept ==
    [][\A n \in Name :
         TakesDown(n) /\ tasks[n] # None =>
             \/ container[n].label # tasks[n]
             \/ ~ImageCurrent(tasks[n], container[n])]_vars

\* A task that the server has listed all along is taken down only as one that the agent
\* knows of, to be replaced, and never as one that "is no longer in the task list": neither
\* a GetTasks that failed or was lost, nor a restart, which forgets the list, looks like an
\* empty list.  (reconcile returns the error of GetTasks before it looks for tasks to stop)
ListedIsNotSwept ==
    [][\A n \in Name : TakesDown(n) /\ n \in always => tasks[n] # None]_vars

\* "Pull before stopping any existing task so a failed pull leaves it running."
\* When a task of the list is stopped, the daemon has its image, of whatever version, to
\* start it again.
StoppedOnlyIfStartable ==
    [][\A n \in Name :
         TakesDown(n) /\ tasks[n] # None => local[tasks[n].image] > 0]_vars

\* The container of a listed task is what CompareTo and IsTaskImageCurrent accept.
Converged(n) ==
    IF desired[n] = None
    THEN State(n) # "running"
    ELSE /\ State(n) = "running"
         /\ SameConfig(desired[n], container[n])
         /\ container[n].version = registry[desired[n].image]

\* Once the disturbances stop, every listed task runs, with its configuration and
\* the newest image, and nothing else with the label runs.
Converges == <>[](\A n \in Name : Converged(n))

\* "stop tasks that are no longer in the task list", logged as "Task stopped and
\* removed": a task that is no longer listed leaves no container behind.
NoOrphans ==
    <>[](\A n \in Name : desired[n] = None => ~Exists(n))

\* "check if the container is a sco task": a container without the label is not
\* the agent's to stop or to remove.
ForeignUntouched ==
    [][\A n \in Name :
         Exists(n) /\ ~Labelled(n) /\ budget'.exit = budget.exit =>
             container'[n] = container[n]]_vars

\* "A nil or empty command uses the image default."
EmptyCommandUsesDefault ==
    <>[](\A n \in Name :
           desired[n] # None /\ Exists(n) => container[n].command = Command(desired[n]))

=============================================================================
