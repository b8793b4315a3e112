---------------------------- MODULE TriggerQueue ----------------------------
(***************************************************************************)
(* What starts a run: loop/state/trigger-queue-store.ts (queue.jsonl),     *)
(* loop/trigger/trigger-dispatcher.ts (drainPendingTriggers) and           *)
(* loop/trigger/cron-scheduler.ts.                                         *)
(*                                                                         *)
(* A task is one asynchronous call: the delivery of an event (enqueue and  *)
(* then drain), the drain of the timer, or the deletion of a loop.  Each   *)
(* access to queue.jsonl is a step of its own, as the code awaits it.      *)
(***************************************************************************)
EXTENDS Naturals, Sequences, FiniteSets, SequencesExt, Queues

CONSTANTS
    Loops,
    External,      \* events of webhooks, of polls and of the manual route
    Home,          \* the loop of an external event
    Manual,        \* the events of the manual route, which rethrows errors
    Malformed,     \* webhook and issue events that name no relation and no
                   \* maintenance, which the triggers route accepts
    Maintained,    \* events that name a maintenance
    ResumeEvents,  \* events that resume a paused run and start none
    Cron,          \* loops whose schedule matches every minute
    Managed,       \* loops that a person pauses and deletes
    Tasks,
    NoFile,        \* queue.jsonl.tmp does not exist
    NoEvent,
    AllLoops,      \* the drain of the timer
    MaxMinute, MaxDeliveries, MaxCrashes

CronEvents == Cron \X (0..MaxMinute)
Events     == External \cup CronEvents

EntryState == {"pending", "done", "failed"}
Entries    == [event : Events, state : EntryState]

ASSUME TriggerConstants ==
    /\ Home \in [External -> Loops]
    /\ Manual \subseteq External
    /\ Malformed \subseteq External
    /\ Maintained \subseteq External
    /\ ResumeEvents \subseteq External
    /\ Cron \subseteq Loops
    /\ Managed \subseteq Loops
    /\ MaxMinute \in Nat /\ MaxDeliveries \in Nat /\ MaxCrashes \in Nat
    /\ AllLoops \notin Loops
    /\ NoFile \notin Seq(Entries)

VARIABLES
    queue,         \* queue.jsonl: a sequence of entries
    tmp,           \* queue.jsonl.tmp
    task,
    active,        \* LoopRunService.isRunActive()
    loops,         \* the registry: open, paused or deleted
    minute,        \* the clock, with the precision of a dedupe key
    cron,          \* the memory of CronScheduler
    firedFile,     \* cron-fired.json
    arrivals,      \* enqueue() calls that cron has made
    deliveries,    \* how often external events were delivered
    starts,        \* history: runs started for an event
    accepted,      \* history: events that enqueue() returned
    crashes

vars == <<queue, tmp, task, active, loops, minute, cron, firedFile, arrivals,
          deliveries, starts, accepted, crashes>>

LoopOf(e) == IF e \in External THEN Home[e] ELSE e[1]

IdleTask ==
    [pc |-> "idle", event |-> NoEvent, loop |-> AllLoops, todo |-> <<>>,
     mark |-> "done", content |-> <<>>]

FreshCron ==
    [loaded |-> FALSE, current |-> 0, fired |-> {}, pending |-> {},
     saving |-> FALSE]

Init ==
    /\ queue = <<>>
    /\ tmp = NoFile
    /\ task = [t \in Tasks |-> IdleTask]
    /\ active = [l \in Loops |-> FALSE]
    /\ loops = [l \in Loops |-> "open"]
    /\ minute = 0
    /\ cron = FreshCron
    /\ firedFile = {}
    /\ arrivals = {}
    /\ deliveries = 0
    /\ starts = [e \in Events |-> 0]
    /\ accepted = {}
    /\ crashes = 0

-----------------------------------------------------------------------------
\* TriggerQueueStore.

IsQueued(entries, e) == \E i \in DOMAIN entries : entries[i].event = e

\* findByEventId() and mark() take the first entry of an event.
FirstOf(entries, e) == SelectInSeq(entries, LAMBDA x : x.event = e)

\* Mutant of Marked: a settled event leaves the file.
MarkedAndRemoved(entries, e, state) ==
    Filtered(entries, {x \in Elements(entries) : x.event # e})

Marked(entries, e, state) == [entries EXCEPT ![FirstOf(entries, e)].state = state]

WithoutLoop(entries, l) ==
    Filtered(entries, {x \in Elements(entries) : LoopOf(x.event) # l})

\* Mutant of PendingOf: settled entries are listed too.
AllOf(entries, l) ==
    Filtered(entries, {x \in Elements(entries) : l \in {AllLoops, LoopOf(x.event)}})

\* Mutant of PendingOf: the timer's drain names no loop, and gets no entry.
PendingOfLoop(entries, l) ==
    Filtered(entries, {x \in Elements(entries) :
                         x.state = "pending" /\ l = LoopOf(x.event)})

PendingOf(entries, l) ==
    Filtered(entries, {x \in Elements(entries) :
                         x.state = "pending" /\ l \in {AllLoops, LoopOf(x.event)}})

-----------------------------------------------------------------------------
\* Calls.

At(t, pc) == task[t].pc = pc

Goto(t, pc) == task' = [task EXCEPT ![t].pc = pc]

Return(t) == task' = [task EXCEPT ![t] = IdleTask]

\* The next entry of the drain.
NextEntry(t) ==
    task' = [task EXCEPT ![t].pc = "dispatch", ![t].todo = Tail(@)]

\* enqueue() begins: for an event from outside, or for one that cron fired.
Deliver(t, e) ==
    /\ At(t, "idle")
    /\ \/ /\ e \in External /\ deliveries < MaxDeliveries
          /\ deliveries' = deliveries + 1
          /\ UNCHANGED arrivals
       \/ /\ e \in arrivals
          /\ arrivals' = arrivals \ {e}
          /\ UNCHANGED deliveries
    /\ task' = [task EXCEPT ![t] = [IdleTask EXCEPT !.pc = "find", !.event = e,
                                                    !.loop = LoopOf(e)]]
    /\ UNCHANGED <<queue, tmp, active, loops, minute, cron, firedFile, starts,
                   accepted, crashes>>

\* An event that is on file, in whatever state, is not appended again.
FindByEventId(t) ==
    /\ At(t, "find")
    /\ IF IsQueued(queue, task[t].event)
         THEN Goto(t, "list") /\ accepted' = accepted \cup {task[t].event}
         ELSE Goto(t, "append") /\ UNCHANGED accepted
    /\ UNCHANGED <<queue, tmp, active, loops, minute, cron, firedFile, arrivals,
                   deliveries, starts, crashes>>

AppendEntry(t) ==
    /\ At(t, "append")
    /\ queue' = Append(queue, [event |-> task[t].event, state |-> "pending"])
    /\ accepted' = accepted \cup {task[t].event}
    /\ Goto(t, "list")
    /\ UNCHANGED <<tmp, active, loops, minute, cron, firedFile, arrivals,
                   deliveries, starts, crashes>>

\* The timer of every 30 seconds drains the queue of all loops.
DrainTimer(t) ==
    /\ At(t, "idle")
    /\ Goto(t, "list")
    /\ UNCHANGED <<queue, tmp, active, loops, minute, cron, firedFile, arrivals,
                   deliveries, starts, accepted, crashes>>

ListPending(t) ==
    /\ At(t, "list")
    /\ task' = [task EXCEPT ![t].pc = "dispatch",
                            ![t].todo = PendingOf(queue, task[t].loop)]
    /\ UNCHANGED <<queue, tmp, active, loops, minute, cron, firedFile, arrivals,
                   deliveries, starts, accepted, crashes>>

\* Mutant of Outcome: a loop that takes no runs settles its events as done.
OutcomeDone(l) == "done"

\* startRun() throws for a loop that is paused, archived or deleted.
Outcome(l) == IF loops[l] = "open" THEN "done" ELSE "failed"

Rethrows(t) == task[t].event \in Manual

\* mark() comes next, with this state for the entry.
MarkNext(t, state) ==
    task' = [task EXCEPT ![t].pc = "read", ![t].mark = state]

\* parseTriggerPayload() throws outside the try: the drain ends.
ParseThrows(t, e) ==
    /\ e \in Malformed
    /\ Return(t)
    /\ UNCHANGED <<active, starts>>

\* The run of the loop may be the paused one that the event names: one that is
\* in memory, or was when the server stopped.
MayBePaused(l) ==
    /\ loops[l] # "deleted"
    /\ active[l] \/ (crashes > 0 /\ \E e \in Events : LoopOf(e) = l /\ starts[e] > 0)

\* The resume branch: resumePaused(), or an event that does not match.
DispatchResume(t, e) ==
    /\ e \in ResumeEvents \ Malformed
    /\ \/ /\ MayBePaused(LoopOf(e))
          /\ MarkNext(t, "done")
          /\ active' = [active EXCEPT ![LoopOf(e)] = TRUE]
       \/ MarkNext(t, "failed") /\ UNCHANGED active
    /\ UNCHANGED starts

\* The loop has an active run: the entry stays for the next drain.
LeavePending(t, e) ==
    /\ e \notin Malformed \cup ResumeEvents
    /\ active[LoopOf(e)]
    /\ IF Rethrows(t) THEN Return(t) ELSE NextEntry(t)
    /\ UNCHANGED <<active, starts>>

\* startRun().  The transition of the maintenance behind it may throw: then the
\* entry fails although its run has started.
StartFor(t, e) ==
    LET l == LoopOf(e) IN
    /\ e \notin Malformed \cup ResumeEvents
    /\ ~active[l]
    /\ \/ MarkNext(t, Outcome(l))
       \/ e \in Maintained /\ MarkNext(t, "failed")
    /\ IF loops[l] = "open"
         THEN /\ active' = [active EXCEPT ![l] = TRUE]
              /\ starts' = [starts EXCEPT ![e] = @ + 1]
         ELSE UNCHANGED <<active, starts>>

\* One turn of the loop of drainPendingTriggers(), up to its first await behind
\* what it does.
Dispatch(t) ==
    /\ At(t, "dispatch")
    /\ IF task[t].todo = <<>>
         THEN Return(t) /\ UNCHANGED <<active, starts>>
         ELSE LET e == Head(task[t].todo).event
              IN \/ ParseThrows(t, e)
                 \/ DispatchResume(t, e)
                 \/ LeavePending(t, e)
                 \/ StartFor(t, e)
    /\ UNCHANGED <<queue, tmp, loops, minute, cron, firedFile, arrivals,
                   deliveries, accepted, crashes>>

\* mark() has written its entry, or has found none.  Only a run that could not be
\* started is rethrown.
AfterMark(t) ==
    IF /\ task[t].mark = "failed" /\ Rethrows(t)
       /\ Head(task[t].todo).event \notin ResumeEvents
    THEN Return(t) ELSE NextEntry(t)

\* mark(): the whole file is read, and written again.
ReadForMark(t) ==
    /\ At(t, "read")
    /\ LET e == Head(task[t].todo).event
       IN IF IsQueued(queue, e)
            THEN task' = [task EXCEPT ![t].pc = "write",
                                      ![t].content = Marked(queue, e, task[t].mark)]
            ELSE AfterMark(t)
    /\ UNCHANGED <<queue, tmp, active, loops, minute, cron, firedFile, arrivals,
                   deliveries, starts, accepted, crashes>>

WriteTmp(t) ==
    /\ At(t, "write")
    /\ tmp' = task[t].content
    /\ task' = [task EXCEPT ![t].pc = "rename", ![t].content = <<>>]
    /\ UNCHANGED <<queue, active, loops, minute, cron, firedFile, arrivals,
                   deliveries, starts, accepted, crashes>>

\* rename() fails when another call has renamed the file meanwhile: the drain
\* catches it once, and marks the entry as failed.
Rename(t) ==
    /\ At(t, "rename")
    /\ \/ /\ tmp # NoFile
          /\ queue' = tmp
          /\ tmp' = NoFile
          /\ IF task[t].todo = <<>> THEN Return(t) ELSE AfterMark(t)
       \/ /\ tmp = NoFile
          /\ UNCHANGED <<queue, tmp>>
          /\ IF task[t].todo # <<>> /\ task[t].mark = "done"
               THEN task' = [task EXCEPT ![t].pc = "read", ![t].mark = "failed"]
               ELSE Return(t)
    /\ UNCHANGED <<active, loops, minute, cron, firedFile, arrivals, deliveries,
                   starts, accepted, crashes>>

-----------------------------------------------------------------------------
\* DELETE and PATCH of a loop, and the end of its run.

DeleteLoop(t, l) ==
    /\ At(t, "idle")
    /\ ~active[l] /\ loops[l] # "deleted"
    /\ task' = [task EXCEPT ![t].pc = "delete", ![t].loop = l]
    /\ UNCHANGED <<queue, tmp, active, loops, minute, cron, firedFile, arrivals,
                   deliveries, starts, accepted, crashes>>

DeleteLoopData(t) ==
    /\ At(t, "delete")
    /\ loops' = [loops EXCEPT ![task[t].loop] = "deleted"]
    /\ Goto(t, "remove")
    /\ UNCHANGED <<queue, tmp, active, minute, cron, firedFile, arrivals,
                   deliveries, starts, accepted, crashes>>

RemoveByLoopId(t) ==
    /\ At(t, "remove")
    /\ LET kept == WithoutLoop(queue, task[t].loop)
       IN IF kept = queue
            THEN Return(t)
            ELSE task' = [task EXCEPT ![t].pc = "write", ![t].content = kept]
    /\ UNCHANGED <<queue, tmp, active, loops, minute, cron, firedFile, arrivals,
                   deliveries, starts, accepted, crashes>>

PatchFlag(l) ==
    /\ ~active[l] /\ loops[l] # "deleted"
    /\ loops' = [loops EXCEPT ![l] = IF @ = "open" THEN "paused" ELSE "open"]
    /\ UNCHANGED <<queue, tmp, task, active, minute, cron, firedFile, arrivals,
                   deliveries, starts, accepted, crashes>>

RunEnds(l) ==
    /\ active[l]
    /\ active' = [active EXCEPT ![l] = FALSE]
    /\ UNCHANGED <<queue, tmp, task, loops, minute, cron, firedFile, arrivals,
                   deliveries, starts, accepted, crashes>>

-----------------------------------------------------------------------------
\* CronScheduler.

NextMinute ==
    /\ minute < MaxMinute
    /\ minute' = minute + 1
    /\ UNCHANGED <<queue, tmp, task, active, loops, cron, firedFile, arrivals,
                   deliveries, starts, accepted, crashes>>

\* The keys that count at the start of a tick: those of the file at the first
\* tick of the process, none in a new minute.
FiredKeys ==
    IF ~cron.loaded THEN {k \in firedFile : k[2] = minute}
    ELSE IF cron.current # minute THEN {} ELSE cron.fired

\* Mutant of DueKey: the minute is rounded up.
DueNextMinute(l) == <<l, minute + 1>>

\* cronDedupeKey().
DueKey(l) == <<l, minute>>

\* Mutant of StillWaiting: the waiting triggers are kept for one tick only.
DropsWaiting(idle) == {}

\* drainPending(): the triggers whose loop is still busy.
StillWaiting(idle) == cron.pending \ idle

\* tick(): waiting triggers of idle loops first, then what is due now.
Tick ==
    LET idle    == {k \in cron.pending : ~active[k[1]]}
        waiting == StillWaiting(idle)
        due     == {DueKey(l) : l \in {x \in Cron :
                      /\ loops[x] # "deleted"
                      /\ \A k \in idle : k[1] # x}} \ FiredKeys
        fresh   == {k \in due : ~active[k[1]]}
        queued  == {k \in due \ fresh : \A w \in waiting : w[1] # k[1]}
    IN /\ ~cron.saving
       /\ cron' = [loaded |-> TRUE, current |-> minute,
                   fired |-> FiredKeys \cup idle \cup fresh,
                   pending |-> waiting \cup queued, saving |-> TRUE]
       /\ arrivals' = arrivals \cup idle \cup fresh
       /\ UNCHANGED <<queue, tmp, task, active, loops, minute, firedFile,
                      deliveries, starts, accepted, crashes>>

SaveFired ==
    /\ cron.saving
    /\ firedFile' = cron.fired
    /\ cron' = [cron EXCEPT !.saving = FALSE]
    /\ UNCHANGED <<queue, tmp, task, active, loops, minute, arrivals, deliveries,
                   starts, accepted, crashes>>

-----------------------------------------------------------------------------
\* The server stops and starts again: the files stay, and some of the runs go
\* on after it.
Crash ==
    /\ crashes < MaxCrashes
    /\ crashes' = crashes + 1
    /\ task' = [t \in Tasks |-> IdleTask]
    /\ active' \in {a \in [Loops -> BOOLEAN] : \A l \in Loops : a[l] => active[l]}
    /\ cron' = FreshCron
    /\ arrivals' = {}
    /\ UNCHANGED <<queue, tmp, loops, minute, firedFile, deliveries, starts,
                   accepted>>

Step(t) ==
    \/ FindByEventId(t)
    \/ AppendEntry(t)
    \/ ListPending(t)
    \/ Dispatch(t)
    \/ ReadForMark(t)
    \/ WriteTmp(t)
    \/ Rename(t)
    \/ DeleteLoopData(t)
    \/ RemoveByLoopId(t)

Next ==
    \/ \E t \in Tasks :
         \/ Step(t)
         \/ DrainTimer(t)
         \/ \E e \in Events : Deliver(t, e)
         \/ \E l \in Managed : DeleteLoop(t, l)
    \/ \E l \in Managed : PatchFlag(l)
    \/ \E l \in Loops : RunEnds(l)
    \/ NextMinute
    \/ Tick
    \/ SaveFired
    \/ Crash

Spec == Init /\ [][Next]_vars

\* File accesses complete; timers keep firing, whatever else is delivered; and
\* a run that waits for a person is answered in the end.
Fairness ==
    /\ \A t \in Tasks : WF_vars(Step(t)) /\ WF_vars(DrainTimer(t))
    /\ SF_vars(\E t \in Tasks : \E e \in arrivals : Deliver(t, e))
    /\ \A l \in Loops : WF_vars(RunEnds(l))
    /\ WF_vars(Tick) /\ WF_vars(SaveFired)

FairSpec == Spec /\ Fairness

-----------------------------------------------------------------------------
\* Properties.

\* Every variable has its type.
TypeOK ==
    /\ queue \in Seq(Entries)
    /\ tmp = NoFile \/ tmp \in Seq(Entries)
    /\ active \in [Loops -> BOOLEAN]
    /\ loops \in [Loops -> {"open", "paused", "deleted"}]
    /\ minute \in 0..MaxMinute
    /\ cron.fired \subseteq CronEvents /\ cron.pending \subseteq CronEvents
    /\ firedFile \subseteq CronEvents
    /\ arrivals \subseteq CronEvents
    /\ accepted \subseteq Events
    /\ crashes \in 0..MaxCrashes

IsPending(e) == \E i \in DOMAIN queue : queue[i] = [event |-> e, state |-> "pending"]

\* enqueue() returned the event: it stays on file, across restarts and whatever
\* is marked meanwhile, until its loop is deleted.
AcceptedIsKept ==
    \A e \in accepted : IsQueued(queue, e) \/ loops[LoopOf(e)] = "deleted"

\* The event id is an idempotency key: minutes that tick twice, before and after
\* a restart, and drains that come to an entry again start one run for an event,
\* and at most one more for each crash between the start of the run and the mark.
StartedOnce ==
    \A e \in Events : starts[e] <= 1 + crashes

\* An event that is done had a run: nothing is dropped as done, except what was
\* to resume a run.
DoneHadItsRun ==
    \A i \in DOMAIN queue :
        queue[i].state = "done" /\ queue[i].event \notin ResumeEvents =>
            starts[queue[i].event] > 0

\* The entry of the event is one that no drain can parse, or is behind one.
StandsBehindMalformed(e) ==
    \E i, j \in DOMAIN queue :
        /\ i <= j
        /\ queue[i].state = "pending" /\ queue[i].event \in Malformed
        /\ queue[j] = [event |-> e, state |-> "pending"]

\* Every accepted event is settled in the end: the drains come to it when its
\* loop is idle, whether it was busy, paused or restarted meanwhile.  As events are
\* bounded here, there is again and again a moment when none is pending, except
\* those that an entry which cannot be parsed keeps the drains from.
PendingIsSettled ==
    []<>(\A e \in Events : IsPending(e) => StandsBehindMalformed(e))

\* What is expected of drainPendingTriggers(): a pending event is left for the next
\* drain when the loop is busy, and for no other reason.
AlwaysSettled == []<>(\A e \in Events : ~IsPending(e))

\* A minute that came while its loop was busy is not dropped: unless the server
\* stops, it reaches queue.jsonl.
BusyMinuteIsKept ==
    \A e \in CronEvents :
        (e \in cron.pending /\ crashes = MaxCrashes) ~> IsQueued(queue, e)
=============================================================================
