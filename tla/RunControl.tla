----------------------------- MODULE RunControl -----------------------------
(***************************************************************************)
(* loop/run/turn-loop.ts and loop/run-service.ts over the control plane:   *)
(* a run is started, its turns are executed, judged and recorded, it is    *)
(* suspended, continued, recovered after a restart, and released.          *)
(*                                                                         *)
(* A task whose operation brings a run back to active becomes the task     *)
(* that continues the run, as the resume listener starts continueRun() in  *)
(* the same synchronous step.                                              *)
(***************************************************************************)
EXTENDS ControlPlane

VARIABLES started, crashes   \* runs that were triggered; crashes so far

vars == <<snap, last, ledger, files, task, mem, overlaps, started, crashes>>

NoCheckpoint == [run |-> NoRun, state |-> "none", turn |-> 0]

NoTurn == [turn |-> 0, sub |-> 0]

EmptyMemory ==
    [up         |-> TRUE,
     pending    |-> {},                              \* pending approvals
     states     |-> [r \in Runs |-> "unknown"],      \* statesByRunId
     active     |-> NoRun,                           \* activeByLoop
     registered |-> {},                              \* activeByRunId
     suspended  |-> [r \in Runs |-> NoContext],      \* suspended
     executing  |-> [r \in Runs |-> NoContext],      \* executingContexts
     contexts   |-> [c \in Contexts |-> NoTurn]]

Init ==
    /\ snap = [r \in Runs |-> NoRecord]
    /\ last = NoRun
    /\ ledger = {}
    /\ files = [entries |-> {}, gates |-> [r \in Runs |-> 0],
                checkpoint |-> NoCheckpoint, paused |-> FALSE]
    /\ task = [t \in Tasks |-> IdleTask]
    /\ mem = EmptyMemory
    /\ started = {}
    /\ overlaps = 0
    /\ crashes = 0

-----------------------------------------------------------------------------
\* Memory, as functions from one value of mem to the next.

\* The contexts that nothing refers to.
Fresh(c) ==
    /\ \A r \in Runs : mem.suspended[r] # c /\ mem.executing[r] # c
    /\ \A t \in Tasks : task[t].ctx # c

\* One of them: which one does not matter.
NewContext == CHOOSE c \in Contexts : Fresh(c)

RoomForContext == \E c \in Contexts : Fresh(c)

\* releaseRun(): activeByLoop is cleared whatever run it has.
ReleaseRun(m, r) ==
    [m EXCEPT !.active = IF r \in m.registered THEN NoRun ELSE @,
              !.registered = @ \ {r},
              !.suspended[r] = NoContext]

\* The finally block of runTurns() of a run that is not blocked.
LeaveLoop(m, r) ==
    [m EXCEPT !.active = NoRun, !.registered = @ \ {r},
              !.suspended[r] = NoContext, !.executing[r] = NoContext]

\* Mutant of Suspend: the loop looks free while its run waits.
SuspendReleases(m, r, c) ==
    [m EXCEPT !.suspended[r] = c, !.executing[r] = NoContext, !.active = NoRun]

\* ... and of one that is.
Suspend(m, r, c) == [m EXCEPT !.suspended[r] = c, !.executing[r] = NoContext]

Register(m, r) == [m EXCEPT !.active = r, !.registered = @ \cup {r}]

\* runTurns() begins: the context moves into the loop.
EnterLoop(m, k) == [m EXCEPT !.executing[k.run] = k.ctx]

\* Contexts that nothing refers to any more are gone.
Collect(m, tasks) ==
    [m EXCEPT !.contexts = [c \in Contexts |->
        IF \/ \E r \in Runs : m.suspended[r] = c \/ m.executing[r] = c
           \/ \E t \in Tasks : tasks[t].ctx = c
        THEN @[c] ELSE NoTurn]]

Become(tasks, m) == task' = tasks /\ mem' = Collect(m, tasks)

Becomes(t, k, m) == Become([task EXCEPT ![t] = k], m)

Settle(k) == [k EXCEPT !.op = "none", !.rec = NoRecord, !.entry = NoEntry]

\* An exception.  In the turn loop and in executeRun() it is caught and the run
\* is released; elsewhere it only ends the call.
Caught(m, k) ==
    CASE k.from = "loop"  -> LeaveLoop(m, k.run)
      [] k.from = "start" -> ReleaseRun(m, k.run)
      [] OTHER            -> m

\* The result of an operation of the control plane, thrown or under way.
Proceed(t, k, m) ==
    IF k.pc = "thrown" THEN Becomes(t, IdleTask, Caught(m, k)) ELSE Becomes(t, k, m)

\* Mutant of Save: the snapshot is filed under the run that wrote last.
SaveMisfiled(rec) == last' = rec.run /\ snap' = [snap EXCEPT ![last] = rec]

Save(rec) == snap' = [snap EXCEPT ![rec.run] = rec] /\ last' = rec.run

-----------------------------------------------------------------------------
\* Starting a run: startRun() and executeRun().
StartRun(t, r) ==
    /\ Free(t)
    /\ r \notin started
    /\ mem.active = NoRun
    /\ ~files.paused
    /\ RoomForContext
    /\ Becomes(t, [IdleTask EXCEPT !.pc = "setup", !.run = r, !.ctx = NewContext,
                                  !.from = "start"],
               [Register(mem, r) EXCEPT !.contexts[NewContext] = [turn |-> 1, sub |-> 0]])
    /\ started' = started \cup {r}
    /\ UNCHANGED <<snap, last, ledger, files, crashes>>

\* The run is set up; a contract that the intent agent wrote stops at a gate,
\* which is judged as turn 0.
SetUp(t) ==
    LET k == task[t] IN
    /\ k.pc = "setup"
    /\ \/ Becomes(t, [k EXCEPT !.pc = "turn", !.from = "loop"], EnterLoop(mem, k))
       \/ /\ "intent_gate" \in Ops
          /\ \E b \in Blockers :
                Proceed(t, ApplyJudgment(k, "gate", 0, "blocked", b, FALSE), mem)
    /\ UNCHANGED <<snap, last, ledger, files, overlaps, started, crashes>>

-----------------------------------------------------------------------------
\* The turn loop: runTurns().
Turn(k) == mem.contexts[k.ctx].turn

HasMoreSubtasks(k) == mem.contexts[k.ctx].sub + 1 < Subtasks

\* The end of executeTurn(), and the check for a pause behind it.
EndTurn(t) ==
    LET k == task[t] IN
    /\ k.pc = "turn"
    /\ IF mem.states[k.run] = "paused"
       THEN Becomes(t, IdleTask, Suspend(mem, k.run, k.ctx))
       ELSE Becomes(t, [k EXCEPT !.pc = "verify"], mem)
    /\ UNCHANGED <<snap, last, ledger, files, overlaps, started, crashes>>

\* What the verification may come to.  A subtask that passes is advanced
\* without a judgment while there are more.
Verdicts(k) ==
    IF k.killed THEN {"crashed"}
    ELSE {"crashed", "failed", "blocked"}
         \cup (IF HasMoreSubtasks(k) THEN {"advance"}
               ELSE {"passed"} \cup ({"merge"} \cap Ops))

\* Verification, the merge gate and the control decision.
Judge(t) ==
    LET k == [task[t] EXCEPT !.killed = FALSE] IN
    /\ k.pc = "verify"
    /\ \E j \in Verdicts(task[t]) :
          /\ files' = IF j = "merge" THEN [files EXCEPT !.gates[k.run] = Turn(k)]
                      ELSE files
          /\ IF j = "advance"
             THEN Becomes(t, [k EXCEPT !.pc = "handoff", !.status = "advance"], mem)
             ELSE \E b \in Blockers, cost \in Costs :
                     Proceed(t, ApplyJudgment(k, "judge", Turn(k), j, b, cost), mem)
    /\ UNCHANGED <<snap, last, ledger, overlaps, started, crashes>>

\* The same blocker too often: the run that asks for a person is failed.
IsDeadLoop(k) ==
    /\ k.status = "needs_human"
    /\ \E b \in Blockers :
          /\ \E e \in ledger : e.run = k.run /\ e.turn = Turn(k) /\ e.blocker = b
          /\ RepeatedBlockerCount(k.run, b) - 1 >= RepeatedBlockerThreshold

DetectDeadLoop(t) ==
    LET k    == task[t]
        dead == [k EXCEPT !.status = "failed"]
    IN
    /\ k.pc = "judged"
    /\ Proceed(t, IF IsDeadLoop(k)
                  THEN FailRun(dead, "deadloop", TRUE, [dead EXCEPT !.pc = "handoff"])
                  ELSE [k EXCEPT !.pc = "handoff", !.op = "none"], mem)
    /\ UNCHANGED <<snap, last, ledger, files, overlaps, started, crashes>>

\* The handoff and the checkpoint of the record as it is by now.
WriteCheckpoint(t) ==
    LET k == task[t] IN
    /\ k.pc = "handoff"
    /\ files' = IF HasRecord /\ Rec.run = k.run
                THEN [files EXCEPT !.checkpoint =
                         [run |-> k.run, state |-> Rec.state, turn |-> Rec.turn]]
                ELSE files
    /\ Becomes(t, [k EXCEPT !.pc = "drive"], mem)
    /\ UNCHANGED <<snap, last, ledger, overlaps, started, crashes>>

\* The ledger entry of the turn, and the state machine drive up to its await.
Drive(t) ==
    LET k == [task[t] EXCEPT !.status = "none"]
        s == task[t].status
    IN  /\ k.pc = "drive"
        /\ files' = [files EXCEPT !.entries = @ \cup {k.run}]
        /\ \/ /\ s = "advance"
              /\ Becomes(t, [k EXCEPT !.pc = "advance"],
                         [mem EXCEPT !.contexts[k.ctx] =
                             [turn |-> @.turn + 1, sub |-> @.sub + 1]])
           \/ /\ s = "retry"
              /\ Becomes(t, [k EXCEPT !.pc = "begin"],
                         [mem EXCEPT !.contexts[k.ctx] =
                             [turn |-> @.turn + 1, sub |-> @.sub]])
           \/ s \in Blocked /\ Becomes(t, IdleTask, Suspend(mem, k.run, k.ctx))
           \/ /\ s \notin {"advance", "retry"} \cup Blocked
              /\ Becomes(t, IdleTask, LeaveLoop(mem, k.run))
        /\ UNCHANGED <<snap, last, ledger, overlaps, started, crashes>>

\* advanceSubtaskTurn(), to its first await after the load.
Advance(t) ==
    /\ task[t].pc = "advance"
    /\ \E cost \in Costs :
          Proceed(t, AdvanceSubtaskTurn(task[t], Turn(task[t]) - 1, cost), mem)
    /\ UNCHANGED <<snap, last, ledger, files, overlaps, started, crashes>>

\* beginTurn(), to its first await after the load.
Begin(t) ==
    /\ task[t].pc = "begin"
    /\ Proceed(t, BeginTurn(task[t], Turn(task[t])), mem)
    /\ UNCHANGED <<snap, last, ledger, files, overlaps, started, crashes>>

\* The end of a beginTurn() that lets the turn begin.
Stamp(t) ==
    LET k == task[t]
        m == IF k.from = "continue"
             THEN [mem EXCEPT !.suspended[k.run] = NoContext] ELSE mem
    IN  /\ k.pc = "stamp"
        /\ Save(k.rec)
        /\ Becomes(t, [Settle(k) EXCEPT !.pc = "turn", !.from = "loop"], EnterLoop(m, k))
        /\ UNCHANGED <<ledger, files, overlaps, started, crashes>>

\* Anything in the loop that throws.
TurnThrows(t) ==
    /\ "throws" \in Ops
    /\ task[t].from = "loop"
    /\ task[t].pc \in {"turn", "verify", "judged", "handoff", "drive"}
    /\ Becomes(t, IdleTask, Caught(mem, task[t]))
    /\ UNCHANGED <<snap, last, ledger, files, overlaps, started, crashes>>

-----------------------------------------------------------------------------
\* Continuing a run: rebuildContext() and continueRun().
AdvancesOf(r) == Cardinality({e \in ledger : e.run = r /\ e.name = "subtask_advance"})

Least(a, b) == IF a < b THEN a ELSE b

Rebuildable(r) == HasRecord /\ (r \in files.entries \/ Rec.turn <= 1)

Rebuilt(r) == [turn |-> Rec.turn, sub |-> Least(AdvancesOf(r), Subtasks - 1)]

IsMergeApproval(k) ==
    /\ \/ k.op = "approve" /\ k.status = "approval"
       \/ k.op \in {"advance_subtask", "waive_phases"}
    /\ files.gates[k.run] # 0
    /\ HasRecord /\ Rec.turn = files.gates[k.run]

\* Mutants of Resumed: the subtask stays, the turn stays.
ResumedSameSubtask(k, ctx) == [ctx EXCEPT !.turn = @ + 1]
ResumedSameTurn(k, ctx) ==
    [ctx EXCEPT !.sub = IF k.op = "advance_subtask" THEN Least(@ + 1, Subtasks - 1) ELSE @]

\* An approved restart executes the turn it was in, all else goes to the next.
Resumed(k, ctx) ==
    IF k.op = "approve" /\ k.status = "restart-active" THEN ctx
    ELSE [turn |-> ctx.turn + 1,
          sub  |-> IF k.op = "advance_subtask" THEN Least(ctx.sub + 1, Subtasks - 1)
                   ELSE ctx.sub]

\* The context that continueRun() works with: the suspended one, or a new one.
ContinueIn(t, c, ctx, m) ==
    LET k == [task[t] EXCEPT !.ctx = c, !.from = "continue", !.status = "none"] IN
    IF IsMergeApproval(task[t])
    THEN Becomes(t, [k EXCEPT !.pc = "merge", !.op = "none"],
                 [m EXCEPT !.contexts[c] = ctx])
    ELSE Becomes(t, [k EXCEPT !.pc = "begin", !.op = "none"],
                 [m EXCEPT !.contexts[c] = Resumed(task[t], ctx)])

ContinueRun(t) ==
    LET k == task[t]
        r == k.run
        c == mem.suspended[r]
    IN  /\ k.pc = "continue"
        /\ IF c # NoContext THEN ContinueIn(t, c, mem.contexts[c], mem)
           ELSE IF ~Rebuildable(r) THEN Becomes(t, IdleTask, mem)
           ELSE /\ RoomForContext
                /\ ContinueIn(t, NewContext, Rebuilt(r),
                              IF r \in mem.registered THEN mem ELSE Register(mem, r))
        /\ UNCHANGED <<snap, last, ledger, files, overlaps, started, crashes>>

\* The merge has been tried, settleMerge() records what came of it.
Merge(t) ==
    LET k == task[t] IN
    /\ k.pc = "merge"
    /\ \E ok \in BOOLEAN : Proceed(t, SettleMerge(k, files.gates[k.run], ok), mem)
    /\ UNCHANGED <<snap, last, ledger, files, overlaps, started, crashes>>

-----------------------------------------------------------------------------
\* Crash and restart: resumeAfterRestart().
Crash ==
    /\ mem.up
    /\ crashes < MaxCrashes
    /\ crashes' = crashes + 1
    /\ mem' = [EmptyMemory EXCEPT !.up = FALSE]
    /\ task' = [t \in Tasks |-> IdleTask]
    /\ UNCHANGED <<snap, last, ledger, files, overlaps, started>>

Restart(t) ==
    /\ ~mem.up
    /\ Becomes(t, IF HasRecord /\ Rec.state \in InFlight
                  THEN [IdleTask EXCEPT !.pc = "recover", !.run = Rec.run]
                  ELSE IdleTask, EmptyMemory)
    /\ UNCHANGED <<snap, last, ledger, files, overlaps, started, crashes>>

CheckpointMatches ==
    LET p == files.checkpoint IN
    /\ p.run = Rec.run
    /\ p.state = Rec.state
    /\ p.turn = Rec.turn \/ (Rec.state = "active" /\ p.turn + 1 = Rec.turn)

\* resumeAfterRestart(): park the run that the record is of by now, fail it, or go
\* on with it.  The artifacts or the workspace may have changed even if the
\* checkpoint matches.
Recover(t) ==
    LET k == [task[t] EXCEPT !.run = Rec.run]
        goes == [k EXCEPT !.ctx = NewContext]
    IN  /\ task[t].pc = "recover"
        /\ IF ~(HasRecord /\ Rec.state \in InFlight) THEN Becomes(t, IdleTask, mem)
           ELSE \/ Proceed(t, RequestRestartRecovery(k), mem)
                \/ /\ CheckpointMatches
                   /\ ~Rebuildable(Rec.run)
                   /\ Proceed(t, FailRun(k, "fail", FALSE, IdleTask), mem)
                \/ /\ CheckpointMatches
                   /\ Rebuildable(Rec.run)
                   /\ RoomForContext
                   /\ IF Rec.state = "retry"
                      THEN Becomes(t, [goes EXCEPT !.pc = "begin"],
                                   [Register(mem, k.run) EXCEPT !.contexts[NewContext] =
                                       [Rebuilt(k.run) EXCEPT !.turn = @ + 1]])
                      ELSE Becomes(t, [goes EXCEPT !.pc = "turn", !.from = "loop"],
                                   [EnterLoop(Register(mem, k.run), goes) EXCEPT
                                       !.contexts[NewContext] = Rebuilt(k.run)])
        /\ UNCHANGED <<snap, last, ledger, files, overlaps, started, crashes>>

-----------------------------------------------------------------------------
\* transition(): the steps behind the load, and what each operation does when
\* it returns.  m is the memory by then, rec the record that was returned.

Resumes == {"approve", "request_changes", "advance_subtask", "waive_phases",
            "patch_resume", "supplement"}

\* PATCH sets and clears the pause flag once its transition has returned.
Flagged(op) == [files EXCEPT !.paused = (@ \/ op = "patch_pause") /\ op # "patch_resume"]

Forget(m, r) == [m EXCEPT !.pending = @ \ {r}]

\* pendingFor() of the three operations that ask a person.
Asks(k) == k.op \in {"judge", "gate", "recover"} /\ k.rec.state = "needs_human"

Returned(t, m, rec, idempotent) ==
    LET k    == task[t]
        r    == k.run
        back == Settle(k)
        asks == [m EXCEPT !.pending = @ \cup {r}]
    IN
    \/ /\ k.op = "judge"
       /\ Becomes(t, [back EXCEPT !.pc = "judged", !.status = k.entry.to],
                  IF Asks(k) /\ ~idempotent THEN asks ELSE m)
    \/ /\ k.op = "gate"
       /\ IF k.entry.to = "needs_human"
          THEN Becomes(t, IdleTask,
                       [(IF idempotent THEN m ELSE asks) EXCEPT
                           !.suspended[r] = k.ctx, !.contexts[k.ctx].turn = 0])
          ELSE Becomes(t, [back EXCEPT !.pc = "turn", !.from = "loop"], EnterLoop(m, k))
    \/ k.op = "recover" /\ Becomes(t, IdleTask, asks)
    \/ /\ k.op = "deadloop"
       /\ Becomes(t, [back EXCEPT !.pc = "handoff"], ReleaseRun(Forget(m, r), r))
    \/ /\ k.op \in {"fail", "discard", "reject"}
       /\ Becomes(t, IdleTask, ReleaseRun(Forget(m, r), r))
    \/ k.op = "settle" /\ Becomes(t, IdleTask, ReleaseRun(m, r))
    \/ k.op = "pause" /\ Becomes(t, IdleTask, Forget(m, r))
    \/ /\ k.op = "patch_pause"
       /\ Become(Kill([task EXCEPT ![t] = IdleTask], r), m)
    \/ /\ k.op \in Resumes
       /\ Becomes(t, [back EXCEPT !.pc = "continue", !.op = k.op],
                  IF k.op \in Decisions THEN Forget(m, r) ELSE m)
    \/ /\ k.op = "advance-limit"
       /\ IF idempotent THEN Becomes(t, [back EXCEPT !.pc = "turn"], m)
          ELSE Becomes(t, IdleTask,
                       [Suspend(m, r, k.ctx) EXCEPT !.contexts[k.ctx].turn = k.rec.turn])
    \/ /\ k.op = "begin-limit"
       /\ Becomes(t, IdleTask, IF k.from = "loop" THEN Suspend(m, r, k.ctx)
                               ELSE [m EXCEPT !.suspended[r] = k.ctx])
    \/ /\ k.op = "begin-retry"
       /\ Proceed(t, IF rec.state = "active" THEN BeginActive(back, rec, Turn(k))
                     ELSE Thrown(back), m)
    \/ /\ k.op = "advance"
       /\ Becomes(t, [back EXCEPT !.pc = "turn"], m)

\* Mutant of ReadLedger: the record is saved without a decision behind it.
ReadLedgerSkips(t) ==
    LET k == task[t] IN
    /\ k.pc = "check"
    /\ Becomes(t, [k EXCEPT !.pc = "save"], mem)
    /\ UNCHANGED <<snap, last, ledger, files, overlaps, started, crashes>>

\* A decision that is in the ledger already ends the operation there, and the
\* record is not saved.
ReadLedger(t) ==
    LET k == task[t] IN
    /\ k.pc = "check"
    /\ IF ~Recorded(k.entry) THEN Becomes(t, [k EXCEPT !.pc = "append"], mem)
       ELSE IF k.op = "advance" THEN Becomes(t, [k EXCEPT !.pc = "save"], mem)
       ELSE IF k.op = "advance-over" THEN Becomes(t, LimitAdvance(k), mem)
       ELSE Returned(t, mem, Rec, TRUE)
    /\ files' = IF Recorded(k.entry) THEN Flagged(k.op) ELSE files
    /\ UNCHANGED <<snap, last, ledger, overlaps, started, crashes>>

AppendEntry(t) ==
    LET k == task[t] IN
    /\ k.pc = "append"
    /\ ledger' = ledger \cup {k.entry}
    /\ Becomes(t, IF k.op = "advance-over" THEN LimitAdvance(k)
                  ELSE [k EXCEPT !.pc = "save"], mem)
    /\ UNCHANGED <<snap, last, files, overlaps, started, crashes>>

SaveRecord(t) ==
    LET k == task[t] IN
    /\ k.pc = "save"
    /\ Save(k.rec)
    /\ Returned(t, [mem EXCEPT !.states[k.run] = k.rec.state], k.rec, FALSE)
    /\ files' = Flagged(k.op)
    /\ UNCHANGED <<ledger, overlaps, started, crashes>>

\* The end of a reminder.
SaveReminder(t) ==
    /\ task[t].pc = "resave"
    /\ Save(task[t].rec)
    /\ Becomes(t, IdleTask, mem)
    /\ UNCHANGED <<ledger, files, overlaps, started, crashes>>

\* discardRun() of a run that is discarded already only releases it.
DiscardAgain(t, r) ==
    /\ "discard" \in Ops
    /\ Free(t)
    /\ HasRecord /\ Rec.run = r /\ Rec.state = "discarded"
    /\ Becomes(t, IdleTask, ReleaseRun(mem, r))
    /\ UNCHANGED files

-----------------------------------------------------------------------------
\* A call that comes from outside.
Operation(t) ==
    /\ \/ \E paused \in BOOLEAN : PatchFlag(t, paused)
       \/ \E r \in Runs : DiscardAgain(t, r)
       \/ /\ UNCHANGED files
          /\ \/ \E r \in Runs, a \in Decisions : SubmitDecision(t, r, a)
             \/ PatchPause(t)
             \/ PatchResume(t)
             \/ SupplementBudget(t)
             \/ \E r \in Runs, force \in BOOLEAN : DiscardRun(t, r, force)
             \/ AbandonRun(t)
             \/ RemindHuman(t)
    /\ UNCHANGED <<snap, last, ledger, started, crashes>>

\* A step that a call under way takes by itself.
Step(t) ==
    \/ SetUp(t) \/ EndTurn(t) \/ Judge(t) \/ DetectDeadLoop(t)
    \/ WriteCheckpoint(t) \/ Drive(t) \/ Advance(t) \/ Begin(t) \/ Stamp(t)
    \/ ContinueRun(t) \/ Merge(t) \/ Recover(t)
    \/ ReadLedger(t) \/ AppendEntry(t) \/ SaveRecord(t) \/ SaveReminder(t)

Next ==
    \/ Crash
    \/ \E t \in Tasks : \/ Step(t) \/ Operation(t) \/ TurnThrows(t) \/ Restart(t)
                        \/ \E r \in Runs : StartRun(t, r)

Spec == Init /\ [][Next]_vars

\* Calls under way go on; people, crashes and triggers come as they like.
FairSpec == Spec /\ \A t \in Tasks : WF_vars(Step(t))

-----------------------------------------------------------------------------
\* Properties

\* The persisted state of a run, "none" before the first snapshot.
Shown(r) == IF snap[r] = NoRecord THEN "none" ELSE snap[r].state

\* What is known of a call: its step, operation and run, the context it works in,
\* the record and the decision it has prepared, and where it came from.
Steps == {"idle", "setup", "turn", "verify", "judged", "handoff", "drive", "advance",
          "begin", "stamp", "merge", "continue", "recover", "check", "append", "save",
          "resave"}

OpNames == Resumes \cup Decisions \cup
    {"none", "gate", "judge", "deadloop", "settle", "begin-limit", "begin-retry",
     "advance", "advance-over", "advance-limit", "recover", "fail", "discard", "patch_pause"}

TaskRecord ==
    [pc : Steps, op : OpNames, run : Runs \cup {NoRun},
     ctx : Contexts \cup {NoContext}, rec : RunStateRecord \cup {NoRecord},
     entry : DecisionEntry \cup {NoEntry},
     status : RunState \cup Pendings \cup {"advance"},
     from : {"none", "start", "loop", "continue"}, killed : BOOLEAN]

Files ==
    [entries : SUBSET Runs, gates : [Runs -> Nat],
     checkpoint : [run : Runs \cup {NoRun}, state : RunState \cup {"none"}, turn : Nat],
     paused : BOOLEAN]

Memory ==
    [up : BOOLEAN, pending : SUBSET Runs, states : [Runs -> RunState \cup {"unknown"}],
     active : Runs \cup {NoRun}, registered : SUBSET Runs,
     suspended : [Runs -> Contexts \cup {NoContext}],
     executing : [Runs -> Contexts \cup {NoContext}],
     contexts : [Contexts -> [turn : Nat, sub : Nat]]]

\* The types of the files, the calls and the indexes: a snapshot is filed under
\* its own run, the loop has a record as soon as one was saved, and the run that
\* holds the loop is registered.
TypeOK ==
    /\ snap \in [Runs -> RunStateRecord \cup {NoRecord}]
    /\ \A r \in Runs : snap[r] = NoRecord \/ snap[r].run = r
    /\ last \in Runs \cup {NoRun}
    /\ HasRecord => snap[last] # NoRecord
    /\ ledger \subseteq DecisionEntry /\ IsFiniteSet(ledger)
    /\ files \in Files
    /\ task \in [Tasks -> TaskRecord]
    /\ mem \in Memory
    /\ mem.active \in mem.registered \cup {NoRun}

\* The decisions that may be taken for one run and saved to the record of another:
\* the index of findWaitingRun() finds whatever record the loop has by now, and so
\* does the reload of beginTurn() behind a decision that was recorded before.
Misaddressed == {"reject", "pause", "budget_limited"}

\* transition() appends before it saves: whatever overlaps, and wherever the
\* server crashes, the state in the file has a decision behind it, which is that
\* of its run unless it is one of those above.
RecordBacked ==
    \A r \in Runs :
        Shown(r) \notin {"none", "active"} =>
            \E e \in ledger : e.to = Shown(r) /\ (e.run = r \/ e.name \in Misaddressed)

\* What the decision ledger of a run is for: it explains the state of that run.
LedgerExplains ==
    \A r \in Runs :
        Shown(r) \notin {"none", "active"} =>
            \E e \in ledger : e.run = r /\ e.to = Shown(r)

\* A run that waits for a person says in its record what it asks, so that
\* submitDecision() finds it even after a restart has emptied the index.
WaitingIsAnswerable ==
    \A r \in Runs : Shown(r) = "needs_human" => snap[r].pending # "none"

\* How often a turn of the run was followed by a retry.
RetriesOf(r) == Cardinality({e \in ledger : e.run = r /\ e.name = "retry"})

\* applyJudgment() pays for a retry when it decides it, and every later operation
\* hands the payment on: whatever answers, gates, dead loops, second runs and new
\* limits come in between, a run about to be retried has not been retried more
\* often than the limit that is in force then.
RetriesKept ==
    \A r \in Runs :
        Shown(r) = "retry" =>
            snap[r].budget # NoBudget /\ RetriesOf(r) <= snap[r].budget.maxRetries

\* "The used_* consumption of the previous run must not leak into a new run":
\* what the record of a run has as used, the run has used.
RetriesAreItsOwn ==
    \A r \in Runs :
        Shown(r) # "none" /\ snap[r].budget # NoBudget =>
            snap[r].budget.usedRetries <= RetriesOf(r)

\* A turn works on the subtask behind the ones that the ledger has as advanced,
\* which is how rebuildContext() counts and what the memory of a run must agree
\* with.
SubtaskIsNext ==
    \A t \in Tasks :
        task[t].pc = "turn" =>
            mem.contexts[task[t].ctx].sub = Least(AdvancesOf(task[t].run), Subtasks - 1)

Promise == INSTANCE RunStates WITH state <- [r \in Runs |-> Shown(r)]

\* Refinement: what is saved, operation by operation, are the moves of RunStates.
\* The table holds over the file and not only over the record an operation has
\* loaded, and a new run does not overwrite one that still waits.
FollowsRunStates == Promise!Spec

\* The table alone: no save takes a run from one state to another against it.
StepsAreLegal ==
    [][\A r \in Runs : Shown(r) # "none" /\ Shown(r)' # Shown(r)
                           => <<Shown(r), Shown(r)'>> \in LegalTransitions]_snap

\* Nobody is left behind: when no call is under way, the loop has no run that is
\* active or in retry, for nothing would ever work on it.
NobodyStuck == mem.up /\ Quiet /\ HasRecord => Rec.state \notin InFlight

\* The budget has been supplemented, but not with what it lacks: beginTurn() will
\* take, or has taken, its budget_limited for the one that this turn has already.
Unsupplemented(r) ==
    /\ Shown(r) = "active"
    /\ ExhaustedAtTurnStart(snap[r].budget)
    /\ Recorded(Entry(r, snap[r].turn, "budget_limited", "budget_limited"))

\* A run that was started, or brought back, comes to an end or to a person, except
\* one whose budget was supplemented in vain.
RunsRest ==
    \A r \in Runs :
        (r \in started /\ Shown(r) \in {"none"} \cup InFlight)
            ~> (Shown(r) \notin {"none"} \cup InFlight \/ Unsupplemented(r))
=============================================================================
