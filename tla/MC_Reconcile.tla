---------------------------- MODULE MC_Reconcile ----------------------------
(* Instances of Reconcile for TLC: two containers, two images.             *)
EXTENDS Reconcile, TLC

CONSTANTS web, job, imgA, imgB, custom

\* Half a core is the default of the agent; 4.25 cores are rounded on their way to the
\* daemon, and come back as they were; 2.25 cores do not.
plain == [image |-> imgA, command |-> NoCommand, cpu |-> 2]
special == [image |-> imgA, command |-> custom, cpu |-> 2]
other == [image |-> imgB, command |-> NoCommand, cpu |-> 17]
rounded == [image |-> imgA, command |-> NoCommand, cpu |-> 9]

TwoConfigs == {plain, other}
OneImage == {plain, special}
Rounded == {rounded}

\* The task list before any change, and the daemon's containers.
WebListed == [n \in Name |-> IF n = web THEN plain ELSE None]
WebSpecial == [n \in Name |-> IF n = web THEN special ELSE None]
WebRounded == [n \in Name |-> IF n = web THEN rounded ELSE None]
Empty == [n \in Name |-> None]

\* A container with the name of a task that somebody else made.
Made(cfg) ==
    [label |-> None, state |-> "running", image |-> cfg.image,
     command |-> Command(cfg), nano |-> NanoCPUs(cfg.cpu), version |-> 1]

Foreign == [n \in Name |-> IF n = web THEN Made(other) ELSE None]

=============================================================================
