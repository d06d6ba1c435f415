--------------------------- MODULE Reconcile_proofs -------------------------
(***************************************************************************)
(* Proofs about the reconciliation of an agent: what it takes down it can  *)
(* start again, and it takes nothing down that is as the list wants it.    *)
(***************************************************************************)
EXTENDS Reconcile, TLAPS

\* The registry has every image, and the daemon has that of the task, once it was pulled.
Pulled ==
    /\ \A i \in Image : registry[i] > 0
    /\ pc \in InLoop \ {"pull"} => local[tasks[task].image] > 0

\* Every container with a label is what its label says.
LabelsTell == \A n \in Name : Exists(n) => AsLabelled(container[n])

\* What the loop has decided to stop is still there, and still to be replaced.
StopIsDue ==
    pc = "stop" => Exists(task) /\ MustRestart(tasks[task], container[task])

\* Once the agent has asked for the list, it knows of every name listed all along.
AlwaysKnown == pc # "idle" => always \subseteq Listed(tasks)

BudgetOK == budget \in [{"change", "exit", "fault", "restart"} -> Nat]

IInv ==
    /\ TypeOK
    /\ BudgetOK
    /\ LoopsAreApart
    /\ Pulled
    /\ LabelsTell
    /\ StopIsDue
    /\ AlwaysKnown

-----------------------------------------------------------------------------
(* What the steps are made of.                                             *)

ContainerType == container \in [Name -> Container \cup {None}]

\* A container of a name is one the daemon can describe.
LEMMA ContainerOf ==
  ASSUME ContainerType, NEW n \in Name, Exists(n)
  PROVE  container[n] \in Container
  BY DEF ContainerType, Exists

\* A change of its state leaves the rest of a container as it is.
SameButState(c, d) ==
    /\ d.label = c.label /\ d.image = c.image /\ d.command = c.command
    /\ d.nano = c.nano /\ d.version = c.version

LEMMA StateChanges ==
  ASSUME ContainerType, NEW n \in Name, Exists(n),
         NEW s \in {"created", "running", "exited"},
         container' = [container EXCEPT ![n].state = s]
  PROVE  /\ ContainerType'
         /\ \A m \in Name : /\ container'[m] # None <=> container[m] # None
                            /\ SameButState(container[m], container'[m])
<1> DEFINE c == container[n]
           d == container'[n]
<1>1. c \in Container
  BY ContainerOf
<1>2. d \in Container
  BY <1>1 DEF Container, ContainerType
<1>3. \A m \in Name : SameButState(container[m], container'[m])
  BY DEF SameButState
<1>4. ContainerType'
  BY <1>2 DEF ContainerType
<1>5. d # None
  BY <1>2, ReconcileAssumption
<1>. QED BY <1>3, <1>4, <1>5 DEF Exists

\* ContainerStop is such a change.
LEMMA StoppedState ==
  ASSUME ContainerType, NEW n \in Name, Exists(n), Stopped(n)
  PROVE  \E s \in {"created", "running", "exited"} :
             container' = [container EXCEPT ![n].state = s]
<1>1. container[n].state \in {"created", "running", "exited"}
  BY ContainerOf DEF Container
<1>. QED BY <1>1 DEF Stopped

LEMMA SpendType ==
  ASSUME BudgetOK, NEW what \in {"change", "exit", "fault", "restart"}, Spend(what)
  PROVE  BudgetOK'
  BY DEF BudgetOK, Spend

LEMMA ReportsTo ==
  ASSUME BudgetOK, NEW next, Reports(next)
  PROVE  BudgetOK' /\ pc' \in {next, AfterError} /\ budget'.exit = budget.exit
<1>1. CASE pc' = next /\ UNCHANGED budget
  BY <1>1 DEF BudgetOK
<1>2. CASE pc' = AfterError /\ Spend("fault")
  BY <1>2 DEF BudgetOK, Spend
<1>. QED BY <1>1, <1>2 DEF Reports

-----------------------------------------------------------------------------
(* Type correctness.                                                       *)

LEMMA InitInvariant == Init => IInv
<1> SUFFICES ASSUME Init PROVE IInv
  OBVIOUS
<1>1. TypeOK
  <2>1. MaxPushes \in Nat /\ {0, 1} \subseteq Version
    BY ReconcileAssumption DEF Version
  <2>2. registry \in [Image -> Version] /\ local \in [Image -> Version]
    BY <2>1 DEF Init
  <2>3. LoopsAreApart /\ pc \in {"idle"} \cup InLoop
    BY DEF Init, LoopsAreApart, InLoop
  <2>. QED BY <2>2, <2>3, InitialAssumption DEF Init, TypeOK
<1>2. BudgetOK
  BY ReconcileAssumption DEF Init, BudgetOK
<1>3. LoopsAreApart /\ StopIsDue /\ AlwaysKnown
  BY DEF Init, LoopsAreApart, StopIsDue, AlwaysKnown, InLoop
<1>4. Pulled
  BY DEF Init, Pulled, InLoop
<1>5. LabelsTell
  BY InitialAssumption DEF Init, LabelsTell, Exists
<1>. QED BY <1>1, <1>2, <1>3, <1>4, <1>5 DEF IInv

\* The container that a configuration of the list asks for.
LEMMA CreatedType ==
  ASSUME TypeOK, task \in Name, tasks[task] \in Config, CreateContainer
  PROVE  ContainerType' /\ container'[task] \in Container /\ AsLabelled(container'[task])
<1> DEFINE t == tasks[task]
           c == [label |-> t, state |-> "created", image |-> t.image,
                 command |-> Command(t), nano |-> NanoCPUs(t.cpu),
                 version |-> local[t.image]]
<1>1. t.image \in Image /\ NanoCPUs(t.cpu) \in Nat
  BY ReconcileAssumption DEF Image
<1>2. /\ Command(t) \in {cfg.command : cfg \in Config} \cup {DefaultCommand}
      /\ Command(t) # NoCommand
  BY ReconcileAssumption DEF Command
<1>3. local[t.image] \in Version
  BY <1>1 DEF TypeOK
<1>4. c \in Container
  BY <1>1, <1>2, <1>3 DEF Container
<1>5. container' = [container EXCEPT ![task] = c]
  BY DEF CreateContainer
<1>6. AsLabelled(c)
  BY DEF AsLabelled
<1> HIDE DEF c
<1>. QED BY <1>4, <1>5, <1>6 DEF TypeOK, ContainerType

\* What a step may do with a container.
Move ==
    \/ UNCHANGED container
    \/ \E n \in Name : /\ Exists(n)
                       /\ \E s \in {"created", "running", "exited"} :
                              container' = [container EXCEPT ![n].state = s]
    \/ \E n \in Name : Removable(n) /\ Removed(n)
    \/ CreateContainer /\ ~Exists(task)

\* What holds of the container of every name, and of the decision about that of the task.
LEMMA MovesKeep ==
  ASSUME IInv, Move
  PROVE  ContainerType' /\ LabelsTell'
<1> USE DEF IInv
<1>1. ContainerType
  BY DEF TypeOK, ContainerType
<1>2. CASE UNCHANGED container
  BY <1>1, <1>2 DEF ContainerType, LabelsTell, Exists
<1>3. ASSUME NEW n \in Name, Exists(n), NEW s \in {"created", "running", "exited"},
             container' = [container EXCEPT ![n].state = s]
      PROVE  ContainerType' /\ LabelsTell'
  <2>1. /\ ContainerType'
        /\ \A m \in Name : /\ container'[m] # None <=> container[m] # None
                           /\ SameButState(container[m], container'[m])
    BY <1>1, <1>3, StateChanges
  <2>. QED BY <2>1 DEF LabelsTell, Exists, SameButState, AsLabelled
<1>4. ASSUME NEW n \in Name, Removed(n)
      PROVE  ContainerType' /\ LabelsTell'
  BY <1>1, <1>4 DEF Removed, ContainerType, LabelsTell, Exists
<1>5. CASE CreateContainer
  <2>1. task \in Name /\ tasks[task] \in Config
    BY <1>5 DEF CreateContainer, LoopsAreApart, InLoop, Listed, TypeOK
  <2>2. ContainerType' /\ AsLabelled(container'[task])
    BY <1>5, <2>1, CreatedType
  <2>3. \A n \in Name \ {task} : container'[n] = container[n]
    BY <1>5 DEF CreateContainer
  <2>. QED BY <2>2, <2>3 DEF LabelsTell, Exists
<1>. QED BY <1>2, <1>3, <1>4, <1>5 DEF Move

\* Every step moves a container in one of these ways.
LEMMA StepMoves == ASSUME IInv, [Next]_vars PROVE Move
<1> USE DEF IInv
<1>1. ContainerType
  BY DEF TypeOK, ContainerType
<1>2. ASSUME NEW n \in Name, Exists(n), Stopped(n)
      PROVE  Move
  BY <1>1, <1>2, StoppedState DEF Move
<1>3. ASSUME NEW n \in Name, SweepStop(n)
      PROVE  Move
  BY <1>2, <1>3 DEF SweepStop
<1>4. CASE SweepRemove
  BY <1>4 DEF SweepRemove, LoopsAreApart, Move
<1>5. CASE StopTask
  BY <1>2, <1>5 DEF StopTask, LoopsAreApart, InLoop
<1>6. CASE RemoveTask
  BY <1>6 DEF RemoveTask, LoopsAreApart, InLoop, Move
<1>7. CASE CreateContainer
  BY <1>7 DEF CreateContainer, Move
<1>8. CASE StartContainer
  BY <1>8 DEF StartContainer, LoopsAreApart, InLoop, Move
<1>9. ASSUME NEW n \in Name, ContainerExits(n)
      PROVE  Move
  BY <1>9 DEF ContainerExits, State, Move
<1>10. ASSUME UNCHANGED container
       PROVE  Move
  BY <1>10 DEF Move
<1>. QED BY <1>3, <1>4, <1>5, <1>6, <1>7, <1>8, <1>9, <1>10 DEF Next, AgentStep,
    vars, GetTasks, ListTasks, SweepDone, GetTaskStatus, PullImage, Decide,
    StartFind, PassDone, CallRefused, StartFindFails, CallFails, TaskListChanges,
    ImagePushed, AgentRestarts

LEMMA LoopsPreserved == ASSUME IInv, [Next]_vars PROVE LoopsAreApart'
<1> USE DEF IInv, LoopsAreApart, InLoop
<1>1. CASE GetTasks \/ AgentRestarts
  BY <1>1 DEF GetTasks, AgentRestarts
<1>2. CASE ListTasks \/ SweepDone \/ PassDone
  BY <1>2 DEF ListTasks, SweepDone, PassDone
<1>3. ASSUME NEW n \in Name, SweepStop(n)
      PROVE  LoopsAreApart'
  <2>1. pc' \in {"sweepRemove", "sweep"}
    BY <1>3, ReportsTo DEF SweepStop, AfterError
  <2>. QED BY <1>3, <2>1 DEF SweepStop
<1>4. CASE SweepRemove
  <2>1. pc' = "sweep"
    BY <1>4, ReportsTo DEF SweepRemove, AfterError
  <2>. QED BY <1>4, <2>1 DEF SweepRemove
<1>5. ASSUME NEW n \in Name, GetTaskStatus(n)
      PROVE  LoopsAreApart'
  BY <1>5 DEF GetTaskStatus
<1>6. CASE PullImage \/ StopTask \/ RemoveTask \/ CreateContainer \/ StartContainer
  <2>1. pc \in InLoop /\ pc' \in {"tasks"} \cup InLoop /\ UNCHANGED <<tasks, todo, task>>
    BY <1>6, ReportsTo DEF PullImage, StopTask, RemoveTask, CreateContainer,
        StartContainer, AfterError
  <2>. QED BY <2>1
<1>7. CASE Decide \/ StartFind \/ StartFindFails
  BY <1>7 DEF Decide, StartFind, StartFindFails
<1>8. CASE CallRefused \/ CallFails
  <2>1. /\ todo' \subseteq todo
        /\ pc' = AfterError
        /\ UNCHANGED <<tasks, task>>
    BY <1>8 DEF CallRefused, CallFails
  <2>2. \/ pc \in {"idle", "list"} /\ pc' = "idle"
        \/ pc \in {"sweep", "sweepRemove"} /\ pc' = "sweep"
        \/ pc \in {"tasks"} \cup InLoop /\ pc' = "tasks"
    BY <2>1 DEF AfterError, TypeOK
  <2>. QED BY <2>1, <2>2
<1>9. ASSUME UNCHANGED <<pc, tasks, todo, task>>
      PROVE  LoopsAreApart'
  BY <1>9
<1>. QED BY <1>1, <1>2, <1>3, <1>4, <1>5, <1>6, <1>7, <1>8, <1>9 DEF Next,
    AgentStep, vars, agentVars, TaskListChanges, ImagePushed, ContainerExits

LEMMA TypePreserved == ASSUME IInv, [Next]_vars PROVE TypeOK' /\ BudgetOK'
<1> USE DEF IInv, TypeOK
<1>1. ContainerType'
  BY StepMoves, MovesKeep
<1> DEFINE ListsOK == /\ desired \in [Name -> Config \cup {None}]
                      /\ tasks \in [Name -> Config \cup {None}]
           ImagesOK == registry \in [Image -> Version] /\ local \in [Image -> Version]
           LoopOK == /\ pc \in {"idle", "list", "sweep", "sweepRemove", "tasks"} \cup InLoop
                     /\ todo \subseteq Name
                     /\ task \in Name \cup {None}
                     /\ status \in {"RUNNING", "STOPPED", "UNKNOWN"}
<1>2. ListsOK'
  BY DEF Next, AgentStep, vars, agentVars, GetTasks, ListTasks, SweepStop,
      SweepRemove, SweepDone, GetTaskStatus, PullImage, Decide, StopTask,
      RemoveTask, StartFind, CreateContainer, StartContainer, PassDone,
      CallRefused, StartFindFails, CallFails, TaskListChanges, ImagePushed,
      ContainerExits, AgentRestarts
<1>3. ImagesOK'
  <2>1. CASE PullImage
    BY <2>1 DEF PullImage
  <2>2. ASSUME NEW i \in Image, ImagePushed(i)
        PROVE  ImagesOK'
    <3>1. registry[i] + 1 \in Version
      BY <2>2, ReconcileAssumption DEF ImagePushed, Version
    <3>. QED BY <2>2, <3>1 DEF ImagePushed
  <2>. QED BY <2>1, <2>2 DEF Next, AgentStep, vars, GetTasks, ListTasks,
      SweepStop, SweepRemove, SweepDone, GetTaskStatus, Decide, StopTask,
      RemoveTask, StartFind, CreateContainer, StartContainer, PassDone,
      CallRefused, StartFindFails, CallFails, TaskListChanges, ContainerExits,
      AgentRestarts
<1>4. BudgetOK' /\ pc' \in {"idle", "list", "sweep", "sweepRemove", "tasks"} \cup InLoop
  <2>1. AfterError \in {"idle", "sweep", "tasks"}
    BY DEF AfterError
  <2>2. ASSUME NEW what \in {"change", "exit", "fault", "restart"}, Spend(what)
        PROVE  BudgetOK'
    BY <2>2, SpendType
  <2>3. ASSUME NEW next, Reports(next)
        PROVE  BudgetOK' /\ pc' \in {next, AfterError}
    BY <2>3, ReportsTo
  <2>4. UNCHANGED budget => BudgetOK'
    BY DEF BudgetOK
  <2>. QED BY <2>1, <2>2, <2>3, <2>4 DEF InLoop, Next, AgentStep, vars, agentVars,
      GetTasks, ListTasks, SweepStop, SweepRemove, SweepDone, GetTaskStatus,
      PullImage, Decide, StopTask, RemoveTask, StartFind, CreateContainer,
      StartContainer, PassDone, CallRefused, StartFindFails, CallFails,
      TaskListChanges, ImagePushed, ContainerExits, AgentRestarts
<1>5. todo' \subseteq Name /\ task' \in Name \cup {None}
  BY DEF ListedByDaemon, Listed, Next, AgentStep, vars, agentVars, GetTasks,
      ListTasks, SweepStop, SweepRemove, SweepDone, GetTaskStatus, PullImage,
      Decide, StopTask, RemoveTask, StartFind, CreateContainer, StartContainer,
      PassDone, CallRefused, StartFindFails, CallFails, TaskListChanges,
      ImagePushed, ContainerExits, AgentRestarts
<1>6. status' \in {"RUNNING", "STOPPED", "UNKNOWN"}
  BY DEF Next, AgentStep, vars, agentVars, GetTasks, ListTasks, SweepStop,
      SweepRemove, SweepDone, GetTaskStatus, PullImage, Decide, StopTask,
      RemoveTask, StartFind, CreateContainer, StartContainer, PassDone,
      CallRefused, StartFindFails, CallFails, TaskListChanges, ImagePushed,
      ContainerExits, AgentRestarts
<1>7. always' \subseteq Listed(desired')
  <2>1. CASE TaskListChanges
    BY <2>1 DEF TaskListChanges
  <2>. QED BY <2>1 DEF Listed, Next, AgentStep, vars, GetTasks, ListTasks, SweepStop,
      SweepRemove, SweepDone, GetTaskStatus, PullImage, Decide, StopTask,
      RemoveTask, StartFind, CreateContainer, StartContainer, PassDone,
      CallRefused, StartFindFails, CallFails, ImagePushed, ContainerExits,
      AgentRestarts
<1>8. Listed(desired)' = Listed(desired')
  BY DEF Listed
<1>. QED BY <1>1, <1>2, <1>3, <1>4, <1>5, <1>6, <1>7, <1>8, LoopsPreserved
  DEF ContainerType

-----------------------------------------------------------------------------
(* What the agent knows.                                                   *)

LEMMA PulledPreserved == ASSUME IInv, [Next]_vars PROVE Pulled'
<1> USE DEF IInv, Pulled
<1> DEFINE Later == InLoop \ {"pull"}
<1>1. \A i \in Image : registry'[i] > 0
  <2>1. ASSUME NEW i \in Image, ImagePushed(i)
        PROVE  \A j \in Image : registry'[j] > 0
    BY <2>1 DEF ImagePushed, TypeOK, Version
  <2>. QED BY <2>1 DEF Next, AgentStep, vars, GetTasks, ListTasks, SweepStop,
      SweepRemove, SweepDone, GetTaskStatus, PullImage, Decide, StopTask,
      RemoveTask, StartFind, CreateContainer, StartContainer, PassDone,
      CallRefused, StartFindFails, CallFails, TaskListChanges, ContainerExits,
      AgentRestarts
<1>2. CASE PullImage
  <2>1. tasks[task].image \in Image
    BY <1>2 DEF PullImage, LoopsAreApart, InLoop, Listed, TypeOK, Image
  <2>. QED BY <1>2, <2>1 DEF PullImage, TypeOK
<1>3. ASSUME pc \in Later, UNCHANGED <<local, tasks, task>>
      PROVE  Pulled'
  BY <1>1, <1>3
<1>4. ASSUME pc' \notin Later
      PROVE  Pulled'
  BY <1>1, <1>4
<1>5. ASSUME NEW next, next \notin Later, pc \notin Later, Reports(next)
      PROVE  pc' \notin Later
  BY <1>5, ReportsTo DEF AfterError, InLoop
<1>6. CASE pc \notin Later /\ ~PullImage
  <2>1. pc' \notin Later
    BY <1>5, <1>6 DEF InLoop, Next, AgentStep, vars, agentVars, GetTasks,
        ListTasks, SweepStop, SweepRemove, SweepDone, GetTaskStatus, Decide,
        StopTask, RemoveTask, StartFind, CreateContainer, StartContainer,
        PassDone, CallRefused, StartFindFails, CallFails, AfterError,
        TaskListChanges, ImagePushed, ContainerExits, AgentRestarts
  <2>. QED BY <1>4, <2>1
<1>7. CASE pc \in Later /\ ~AgentRestarts
  <2>1. UNCHANGED <<local, tasks, task>>
    BY <1>7 DEF InLoop, Next, AgentStep, vars, agentVars, GetTasks, ListTasks,
        SweepStop, SweepRemove, SweepDone, GetTaskStatus, PullImage, Decide,
        StopTask, RemoveTask, StartFind, CreateContainer, StartContainer,
        PassDone, CallRefused, StartFindFails, CallFails, TaskListChanges,
        ImagePushed, ContainerExits
  <2>. QED BY <1>3, <1>7, <2>1
<1>8. CASE AgentRestarts
  BY <1>8 DEF AgentRestarts, InLoop
<1>. QED BY <1>2, <1>6, <1>7, <1>8

\* Between the decision and the call nothing changes that the decision rests on.
LEMMA StopPreserved == ASSUME IInv, [Next]_vars PROVE StopIsDue'
<1> USE DEF IInv
<1>1. CASE pc = "stop" /\ pc' = "stop"
  <2>1. UNCHANGED <<local, tasks, task>>
    BY <1>1 DEF Next, AgentStep, vars, agentVars, GetTasks, ListTasks, SweepStop,
        SweepRemove, SweepDone, GetTaskStatus, PullImage, Decide, StopTask,
        RemoveTask, StartFind, CreateContainer, StartContainer, PassDone,
        CallRefused, StartFindFails, CallFails, TaskListChanges, ImagePushed,
        ContainerExits, AgentRestarts
  <2>2. task \in Name /\ Exists(task) /\ MustRestart(tasks[task], container[task])
    BY <1>1 DEF StopIsDue, LoopsAreApart, InLoop
  <2>3. CASE UNCHANGED container
    BY <2>1, <2>2, <2>3 DEF StopIsDue, Exists, MustRestart, ImageCurrent
  <2>4. ASSUME NEW n \in Name, ContainerExits(n)
        PROVE  StopIsDue'
    <3>1. Exists(n) /\ container' = [container EXCEPT ![n].state = "exited"]
      BY <2>4 DEF ContainerExits, State
    <3>2. ContainerType
      BY DEF TypeOK, ContainerType
    <3>3. /\ container'[task] # None <=> container[task] # None
          /\ SameButState(container[task], container'[task])
      BY <2>2, <3>1, <3>2, StateChanges
    <3>. QED BY <2>1, <2>2, <3>3 DEF StopIsDue, Exists, MustRestart, ImageCurrent,
        SameConfig, SameButState
  <2>5. UNCHANGED container \/ \E n \in Name : ContainerExits(n)
    BY <1>1, ReportsTo DEF AfterError, Next, AgentStep, vars, GetTasks, ListTasks,
        SweepStop, SweepRemove, SweepDone, GetTaskStatus, PullImage, Decide,
        StopTask, RemoveTask, StartFind, CreateContainer, StartContainer,
        PassDone, CallRefused, StartFindFails, CallFails, TaskListChanges,
        ImagePushed, AgentRestarts
  <2>. QED BY <2>3, <2>4, <2>5
<1>2. CASE Decide
  BY <1>2 DEF Decide, StopIsDue, Exists, MustRestart, ImageCurrent
<1>3. CASE pc # "stop" /\ ~Decide
  <2>1. ASSUME NEW next, next # "stop", Reports(next)
        PROVE  pc' # "stop"
    BY <2>1, ReportsTo DEF AfterError
  <2>2. pc' # "stop"
    BY <1>3, <2>1 DEF AfterError, Next, AgentStep, vars, agentVars, GetTasks,
        ListTasks, SweepStop, SweepRemove, SweepDone, GetTaskStatus, PullImage,
        StopTask, RemoveTask, StartFind, CreateContainer, StartContainer,
        PassDone, CallRefused, StartFindFails, CallFails, TaskListChanges,
        ImagePushed, ContainerExits, AgentRestarts
  <2>. QED BY <2>2 DEF StopIsDue
<1>4. CASE pc' # "stop"
  BY <1>4 DEF StopIsDue
<1>. QED BY <1>1, <1>2, <1>3, <1>4

\* The list that was read last has every name that was listed all along: names leave always
\* and never join it, and no error but that of GetTasks itself leads back to before it.
LEMMA AlwaysPreserved == ASSUME IInv, [Next]_vars PROVE AlwaysKnown'
<1> USE DEF IInv
<1>1. CASE GetTasks
  BY <1>1 DEF GetTasks, TypeOK, AlwaysKnown, Listed
<1>2. CASE AgentRestarts
  BY <1>2 DEF AgentRestarts, AlwaysKnown
<1>3. CASE ~GetTasks /\ ~AgentRestarts
  <2>1. tasks' = tasks /\ always' \subseteq always
    BY <1>3 DEF Next, AgentStep, vars, agentVars, ListTasks, SweepStop, SweepRemove,
      SweepDone, GetTaskStatus, PullImage, Decide, StopTask, RemoveTask, StartFind,
      CreateContainer, StartContainer, PassDone, CallRefused, StartFindFails, CallFails,
      TaskListChanges, ImagePushed, ContainerExits
  <2>2. pc = "idle" => pc' = "idle"
    BY <1>3 DEF AfterError, Next, AgentStep, vars, agentVars, ListTasks, SweepStop,
      SweepRemove, SweepDone, GetTaskStatus, PullImage, Decide, StopTask, RemoveTask,
      StartFind, CreateContainer, StartContainer, PassDone, CallRefused, StartFindFails,
      CallFails, TaskListChanges, ImagePushed, ContainerExits
  <2>. QED BY <2>1, <2>2 DEF AlwaysKnown, Listed
<1>. QED BY <1>1, <1>2, <1>3

-----------------------------------------------------------------------------
(* Theorems.                                                               *)

\* The inductive invariant: the loops work on what they are for, an image was pulled
\* before anything is stopped, labels tell the truth, a decision stays justified, and the
\* agent works with a list that has every name listed all along.
THEOREM InvariantHolds == Spec => []IInv
<1>1. IInv /\ [Next]_vars => IInv'
  <2> SUFFICES ASSUME IInv, [Next]_vars PROVE IInv'
    OBVIOUS
  <2>. QED BY TypePreserved, LoopsPreserved, PulledPreserved, StopPreserved,
      AlwaysPreserved, StepMoves, MovesKeep DEF IInv
<1>. QED BY <1>1, InitInvariant, PTL DEF Spec

\* Type correctness of the agent and of the containers: in particular, a container that
\* the agent creates has a command and a state that the daemon knows.
THEOREM TypeCorrect == Spec => []TypeOK
<1>1. IInv => TypeOK
  BY DEF IInv
<1>. QED BY <1>1, InvariantHolds, PTL

\* The agent takes a container down only in StopTask, or in SweepStop if it is not listed.
LEMMA TakenDown ==
  ASSUME IInv, [Next]_vars, NEW n \in Name, TakesDown(n)
  PROVE  \/ pc = "sweep" /\ tasks[n] = None
         \/ pc = "stop" /\ n = task
<1> USE DEF IInv
<1>1. container[n] # None /\ container[n].state = "running" /\ ContainerType
  BY DEF TakesDown, State, Exists, TypeOK, ContainerType
<1>2. ~ (Exists(n)' /\ container'[n].state = "running") /\ budget'.exit = budget.exit
  BY DEF TakesDown, State
<1>3. ASSUME container'[n] = container[n]
      PROVE  FALSE
  BY <1>1, <1>2, <1>3 DEF Exists
<1>4. CASE SweepStop(n)
  <2>1. pc = "sweep" /\ n \in todo
    BY <1>4 DEF SweepStop
  <2>2. n \notin Listed(tasks)
    BY <2>1 DEF LoopsAreApart
  <2>. QED BY <2>1, <2>2 DEF Listed
<1>5. ASSUME NEW m \in Name \ {n}, SweepStop(m)
      PROVE  FALSE
  BY <1>3, <1>5 DEF SweepStop, Stopped
<1>6. CASE SweepRemove \/ RemoveTask
  BY <1>1, <1>3, <1>6 DEF SweepRemove, RemoveTask, Removable, Removed, State,
      Exists, ContainerType
<1>7. CASE StopTask
  BY <1>3, <1>7 DEF StopTask, Stopped
<1>8. CASE CreateContainer
  BY <1>1, <1>3, <1>8 DEF CreateContainer, Exists
<1>9. CASE StartContainer
  BY <1>1, <1>3, <1>9 DEF StartContainer, ContainerType, Container
<1>10. ASSUME NEW m \in Name, ContainerExits(m)
       PROVE  FALSE
  BY <1>2, <1>10 DEF ContainerExits, Spend, BudgetOK
<1>. QED BY <1>3, <1>4, <1>5, <1>6, <1>7, <1>8, <1>9, <1>10 DEF Next, AgentStep,
    vars, agentVars, GetTasks, ListTasks, SweepDone, GetTaskStatus, PullImage,
    Decide, StartFind, PassDone, CallRefused, StartFindFails, CallFails,
    TaskListChanges, ImagePushed, AgentRestarts

LEMMA TakenDownByStop ==
  ASSUME IInv, [Next]_vars, NEW n \in Name, TakesDown(n), tasks[n] # None
  PROVE  pc = "stop" /\ n = task
  BY TakenDown

\* A task that the server has listed all along is never taken down as one that is no longer
\* listed, whatever calls failed and however often the agent was restarted and forgot the
\* list.  (reconcile returns the error of GetTasks before it looks for tasks to stop)
THEOREM ListedSurvives == Spec => ListedIsNotSwept
<1>1. ASSUME IInv, [Next]_vars, NEW n \in Name, TakesDown(n), n \in always
      PROVE  tasks[n] # None
  <2>1. pc \in {"sweep", "stop"}
    BY <1>1, TakenDown
  <2>. QED BY <1>1, <2>1 DEF IInv, AlwaysKnown, Listed
<1>2. ASSUME IInv, [Next]_vars
      PROVE  [\A n \in Name : TakesDown(n) /\ n \in always => tasks[n] # None]_vars
  BY <1>1, <1>2
<1>. QED BY <1>2, InvariantHolds, PTL DEF Spec, ListedIsNotSwept

\* "Pull before stopping any existing task so a failed pull leaves it running": whatever
\* fails, the daemon has the image of a listed task that is stopped, of whatever version.
THEOREM StartableBeforeStop == Spec => StoppedOnlyIfStartable
<1>1. ASSUME IInv, [Next]_vars
      PROVE  [\A n \in Name :
                  TakesDown(n) /\ tasks[n] # None => local[tasks[n].image] > 0]_vars
  BY <1>1, TakenDownByStop DEF IInv, Pulled, InLoop
<1>. QED BY <1>1, InvariantHolds, PTL DEF Spec, StoppedOnlyIfStartable

\* What MaxCPU becomes on its way to the daemon comes back as it was.  It is not so for
\* every MaxCPU: 2.25 cores come back changed.
CoresReturn == \A cfg \in Config : SameCPU(cfg.cpu, NanoCPUs(cfg.cpu))

\* A running container that was made from the very configuration the list has for its
\* task, and from the current image, is not stopped, whatever failed before and however
\* stale the status is, if limits come back from the daemon as they were.  (CompareTo,
\* IsTaskImageCurrent and reconcileTask)
THEOREM UnchangedStaysUp == ASSUME CoresReturn PROVE Spec => UnchangedIsKept
<1>1. ASSUME IInv, [Next]_vars, NEW n \in Name, TakesDown(n), tasks[n] # None
      PROVE  \/ container[n].label # tasks[n]
             \/ ~ImageCurrent(tasks[n], container[n])
  <2>1. /\ n = task /\ Exists(n)
        /\ ~SameConfig(tasks[n], container[n]) \/ ~ImageCurrent(tasks[n], container[n])
    BY <1>1, TakenDownByStop DEF IInv, StopIsDue, MustRestart
  <2>2. ASSUME container[n].label = tasks[n]
        PROVE  SameConfig(tasks[n], container[n])
    BY <1>1, <2>1, <2>2 DEF CoresReturn, SameConfig, IInv, LabelsTell, AsLabelled,
        Command, TypeOK
  <2>. QED BY <2>1, <2>2
<1>2. ASSUME IInv, [Next]_vars
      PROVE  [\A n \in Name :
                  TakesDown(n) /\ tasks[n] # None =>
                      \/ container[n].label # tasks[n]
                      \/ ~ImageCurrent(tasks[n], container[n])]_vars
  BY <1>1, <1>2
<1>. QED BY <1>2, InvariantHolds, PTL DEF Spec, UnchangedIsKept

=============================================================================
