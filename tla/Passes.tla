------------------------------- MODULE Passes -------------------------------
(***************************************************************************)
(* When a provider passes over the tree: the reconciler's loop (Start),    *)
(* the supervisor that connects it first, the AI service's loop (Run), the *)
(* signals of the tree service (signalChange), and the passes that follow  *)
(* one another while a project is being emptied (scheduleFollowUp).        *)
(*                                                                         *)
(* What a pass does is in Reconciler, Purge and Lab. Here it reads the     *)
(* tree, which may fail, and ends with projects still to be emptied or     *)
(* without.                                                                *)
(***************************************************************************)
EXTENDS Naturals

CONSTANTS
    Providers,      \* the loops, each with a channel of its own
    OpenStack,      \* the one that connects first, is triggered, and empties projects
    MaxFollowUps,   \* maxFollowUps
    MaxTimers       \* bound: timers set and not fired; one more counts as one of these

PassesAssumption ==
    /\ OpenStack \in Providers
    /\ MaxFollowUps \in Nat \ {0} /\ MaxTimers \in Nat \ {0}

VARIABLES
    unsignalled,    \* the service wrote and has not signalled the change yet
    behind,         \* the tree has changed since the provider read it
    changes,        \* Changes: room for one signal each
    loop,           \* what the loop is doing
    failed,         \* its last pass could not read the tree
    up,             \* OpenStack answers
    trigger,        \* room for one
    tick,           \* the ticker's channel: room for one
    timers,         \* timers set by scheduleFollowUp
    followUps,      \* how many in a row
    cancelled       \* the context ended

passesVars ==
    <<unsignalled, behind, changes, loop, failed, up, trigger, tick, timers, followUps, cancelled>>

PassesTypeOK ==
    /\ unsignalled \in BOOLEAN
    /\ behind \in [Providers -> BOOLEAN] /\ changes \in [Providers -> BOOLEAN]
    /\ loop \in [Providers -> {"connect", "drain", "read", "work", "wait", "stopped"}]
    /\ failed \in [Providers -> BOOLEAN]
    /\ up \in BOOLEAN /\ trigger \in BOOLEAN
    /\ tick \in [Providers -> BOOLEAN]
    /\ timers \in 0..MaxTimers /\ followUps \in 0..MaxFollowUps
    /\ cancelled \in BOOLEAN

PassesInit ==
    /\ unsignalled = FALSE
    /\ behind = [p \in Providers |-> TRUE]
    /\ changes = [p \in Providers |-> FALSE]
    /\ loop = [p \in Providers |-> IF p = OpenStack THEN "connect" ELSE "read"]
    /\ failed = [p \in Providers |-> FALSE]
    /\ up \in BOOLEAN /\ trigger = FALSE
    /\ tick = [p \in Providers |-> FALSE]
    /\ timers = 0 /\ followUps = 0
    /\ cancelled = FALSE

-----------------------------------------------------------------------------
(* The tree service *)

\* A write of the signalling store, and then its signal to every channel.
Write ==
    /\ ~unsignalled
    /\ unsignalled' = TRUE
    /\ behind' = [p \in Providers |-> TRUE]
    /\ UNCHANGED <<changes, loop, failed, up, trigger, tick, timers, followUps, cancelled>>

SignalChange ==
    /\ unsignalled
    /\ unsignalled' = FALSE
    /\ changes' = [p \in Providers |-> TRUE]
    /\ UNCHANGED <<behind, loop, failed, up, trigger, tick, timers, followUps, cancelled>>

-----------------------------------------------------------------------------
(* connectWithRetry *)

Goes(p, from, to) == loop[p] = from /\ loop' = [loop EXCEPT ![p] = to]

\* An attempt fails while OpenStack is away; after a delay comes the next.
Connect ==
    /\ Goes(OpenStack, "connect", IF up THEN "drain" ELSE "connect")
    /\ UNCHANGED <<unsignalled, behind, changes, failed, up, trigger, tick, timers, followUps,
                   cancelled>>

\* It decides nothing here once the loop runs.
CloudGoesOrComes ==
    /\ loop[OpenStack] \in {"connect", "stopped"}
    /\ up' = ~up
    /\ UNCHANGED <<unsignalled, behind, changes, loop, failed, trigger, tick, timers, followUps,
                   cancelled>>

-----------------------------------------------------------------------------
(* Start and Run *)

\* What changed before is covered by the first pass.
Drain ==
    /\ Goes(OpenStack, "drain", "read")
    /\ changes' = [changes EXCEPT ![OpenStack] = FALSE]
    /\ UNCHANGED <<unsignalled, behind, failed, up, trigger, tick, timers, followUps, cancelled>>

\* The first query of a pass, or the one that fails.
Read(p) ==
    /\ Goes(p, "read", "work")
    /\ \/ behind' = [behind EXCEPT ![p] = FALSE] /\ failed' = [failed EXCEPT ![p] = FALSE]
       \/ failed' = [failed EXCEPT ![p] = TRUE] /\ UNCHANGED behind
    /\ UNCHANGED <<unsignalled, changes, up, trigger, tick, timers, followUps, cancelled>>

\* Mutant of ScheduleFollowUp: one more than the limit.
ScheduleFollowUpOnceMore(purgesPending) ==
    IF ~purgesPending THEN followUps' = 0 /\ UNCHANGED timers
    ELSE IF followUps > MaxFollowUps THEN UNCHANGED <<followUps, timers>>
    ELSE /\ followUps' = followUps + 1
         /\ timers' = IF timers = MaxTimers THEN timers ELSE timers + 1

\* scheduleFollowUp: no more than so many in a row.
ScheduleFollowUp(purgesPending) ==
    IF ~purgesPending THEN followUps' = 0 /\ UNCHANGED timers
    ELSE IF followUps >= MaxFollowUps THEN UNCHANGED <<followUps, timers>>
    ELSE /\ followUps' = followUps + 1
         /\ timers' = IF timers = MaxTimers THEN timers ELSE timers + 1

\* Mutant of EndPass: whatever was signalled during the pass is done with it.
EndPassDraining(p) ==
    /\ Goes(p, "work", "wait")
    /\ changes' = [changes EXCEPT ![p] = FALSE]
    /\ \E purgesPending \in BOOLEAN :
        /\ purgesPending => p = OpenStack /\ ~failed[p]
        /\ IF p = OpenStack THEN ScheduleFollowUp(purgesPending)
           ELSE UNCHANGED <<followUps, timers>>
    /\ UNCHANGED <<unsignalled, behind, failed, up, trigger, tick, cancelled>>

\* A failed pass has no project to empty.
EndPass(p) ==
    /\ Goes(p, "work", "wait")
    /\ \E purgesPending \in BOOLEAN :
        /\ purgesPending => p = OpenStack /\ ~failed[p]
        /\ IF p = OpenStack THEN ScheduleFollowUp(purgesPending)
           ELSE UNCHANGED <<followUps, timers>>
    /\ UNCHANGED <<unsignalled, behind, changes, failed, up, trigger, tick, cancelled>>

Wakes(p) == Goes(p, "wait", "read")

WakeByTick(p) ==
    /\ Wakes(p) /\ tick[p]
    /\ tick' = [tick EXCEPT ![p] = FALSE]
    /\ UNCHANGED <<unsignalled, behind, changes, failed, up, trigger, timers, followUps, cancelled>>

WakeByTrigger ==
    /\ Wakes(OpenStack) /\ trigger
    /\ trigger' = FALSE
    /\ UNCHANGED <<unsignalled, behind, changes, failed, up, tick, timers, followUps, cancelled>>

WakeByChange(p) ==
    /\ Wakes(p) /\ changes[p]
    /\ changes' = [changes EXCEPT ![p] = FALSE]
    /\ UNCHANGED <<unsignalled, behind, failed, up, trigger, tick, timers, followUps, cancelled>>

\* ctx.Done, while connecting or waiting.
StopLoop(p) ==
    /\ cancelled
    /\ Goes(p, "connect", "stopped") \/ Goes(p, "wait", "stopped")
    /\ UNCHANGED <<unsignalled, behind, changes, failed, up, trigger, tick, timers, followUps,
                   cancelled>>

-----------------------------------------------------------------------------
(* What the loops wait for *)

Ready == loop[OpenStack] \notin {"connect", "stopped"}

\* POST /v1/admin/reconcile/trigger, once connected. One that finds no room is
\* dropped, as is a tick.
TriggerReconcile ==
    /\ Ready
    /\ ~trigger /\ trigger' = TRUE
    /\ UNCHANGED <<unsignalled, behind, changes, loop, failed, up, tick, timers, followUps,
                   cancelled>>

FollowUpTimer ==
    /\ timers > 0
    /\ timers' = timers - 1 /\ trigger' = TRUE
    /\ UNCHANGED <<unsignalled, behind, changes, loop, failed, up, tick, followUps, cancelled>>

Tick(p) ==
    /\ loop[p] \notin {"connect", "stopped"}
    /\ ~tick[p] /\ tick' = [tick EXCEPT ![p] = TRUE]
    /\ UNCHANGED <<unsignalled, behind, changes, loop, failed, up, trigger, timers, followUps,
                   cancelled>>

Cancel ==
    /\ ~cancelled /\ cancelled' = TRUE
    /\ UNCHANGED <<unsignalled, behind, changes, loop, failed, up, trigger, tick, timers,
                   followUps>>

-----------------------------------------------------------------------------
LoopStep(p) ==
    \/ p = OpenStack /\ (Connect \/ Drain \/ WakeByTrigger)
    \/ Read(p) \/ EndPass(p) \/ WakeByTick(p) \/ WakeByChange(p) \/ StopLoop(p)

\* What makes a pass other than the last one.
Stimulus == Write \/ TriggerReconcile \/ \E p \in Providers : Tick(p)

PassesNext ==
    \/ \E p \in Providers : LoopStep(p)
    \/ SignalChange \/ FollowUpTimer \/ Stimulus \/ CloudGoesOrComes \/ Cancel

-----------------------------------------------------------------------------
(* Properties *)

\* "A change made mid-run is not lost" (Trigger), "changes that arrive while a
\* provider runs fold into one follow-up run" (signalChange), and the startup does
\* not treat a network error as permanent (Supervisor): once OpenStack stays
\* reachable, whatever changes, the provider reads the tree after it, also if no
\* tick ever came. Only a pass that fails leaves that to the next tick.
UpToDate(p) == behind[p] => (failed[p] \/ cancelled)

ChangesCarriedOut == <>[]up => \A p \in Providers : []<>UpToDate(p)

\* "Something that cannot be deleted must not turn into a pass every half
\* minute for good" (maxFollowUps): left alone, the loop comes to rest,
\* whatever is still to be emptied, and whichever passes fail.
Resting == loop[OpenStack] \in {"wait", "stopped"} \/ ~Ready

FollowUpsEnd == <>[]Resting \/ []<><<Stimulus>>_passesVars

=============================================================================
