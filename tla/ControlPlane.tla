---------------------------- MODULE ControlPlane ----------------------------
(***************************************************************************)
(* loop/control-plane: the control plane of ONE loop.  Its files are the   *)
(* run_state record (append-only snapshots, the last one counts) and the   *)
(* decision ledger of each run; its memory is the indexes of the running   *)
(* server.                                                                 *)
(*                                                                         *)
(* Every operation is an async function: it loads the record, and then     *)
(* transition() reads the ledger, appends the decision and saves the new   *)
(* record, each after an await.  Nothing locks the loop, so a task is      *)
(* somewhere between these steps while others run.  This module has the    *)
(* state and, for each operation, its first step: load the record, check   *)
(* it, prepare the decision and the new record.  RunControl has the turn   *)
(* loop and the steps that operations share.                               *)
(***************************************************************************)
EXTENDS RunStateTable, Naturals, FiniteSets

CONSTANTS
    Runs,                      \* the runs that are triggered, each once
    Tasks,                     \* the async calls that may be under way at once
    Contexts,                  \* RunExecutionContext objects
    Blockers,                  \* blocker fingerprints
    MaxTurns, MaxRetries,      \* the budget of the intent contract
    Subtasks,                  \* the subtasks of the plan, 1 without a plan
    MaxSameFailure,            \* stop_rules.repetition.max_same_failure
    RepeatedBlockerThreshold,  \* loopWatchdog.repeatedBlockerThreshold
    Supplements,               \* what a person may set of the limits of a budget
    Kept,                      \* a limit that is left as it is
    Ops,                       \* the operations and options that are in use
    TurnCap,                   \* bound: nobody asks for a turn beyond this one
    MaxCrashes,                \* bound: how often the server crashes
    MaxOverlaps,               \* bound: calls that come while another is under way
    NoRun, NoContext, NoRecord, NoBudget, NoBlocker, NoEntry

ASSUME ControlPlaneConstants ==
    /\ MaxTurns \in Nat \ {0} /\ MaxRetries \in Nat
    /\ Subtasks \in Nat \ {0}
    /\ Supplements \subseteq [turns : (Nat \ {0}) \cup {Kept}, retries : Nat \cup {Kept},
                              spent : BOOLEAN \cup {Kept}]
    /\ NoRun \notin Runs /\ NoContext \notin Contexts

VARIABLES
    snap,        \* run_state: the last snapshot of each run
    last,        \* run_state: the run that wrote the last snapshot
    ledger,      \* the decision entries
    files,       \* run ledger entries, merge gates, the last checkpoint and
                 \* the pause flag of the loop card
    task,        \* what each async call is doing
    mem,         \* the maps of ControlPlane and LoopRunService
    overlaps     \* calls that came while another was under way

\* The record of the loop, as RunStateStore.load() returns it.
Rec == IF last = NoRun THEN NoRecord ELSE snap[last]

HasRecord == last # NoRun

\* Budget: the turns and the retries.  Of the time and the tokens only whether one
\* of them has reached its limit.
Budgets == [usedTurns : Nat, usedRetries : Nat, maxTurns : Nat \ {0},
            maxRetries : Nat, spent : BOOLEAN]

ASSUME NoBudgetAssumption == NoBudget \notin Budgets

\* The budget of the contract, nothing used.
Contract == [usedTurns |-> 0, usedRetries |-> 0,
             maxTurns |-> MaxTurns, maxRetries |-> MaxRetries, spent |-> FALSE]

\* pending_approval: none, a verdict, or a restart that found the run in a state.
Pendings == {"none", "approval", "restart-active", "restart-retry"}

\* A snapshot of the record: RunStateRecord.
RunStateRecord ==
    [run : Runs, state : RunState, turn : Nat, budget : Budgets \cup {NoBudget},
     pending : Pendings, reminded : BOOLEAN]

ASSUME NoRecordAssumption == NoRecord \notin RunStateRecord

\* The record that an operation makes up when the run has none yet.
Seed(r, turn, budget) ==
    [run |-> r, state |-> "active", turn |-> turn, budget |-> budget,
     pending |-> "none", reminded |-> FALSE]

\* A decision entry: DecisionEntry.  run, turn and name are its decision_id.
DecisionNames ==
    RunState \cup {"approve", "request_changes", "reject", "pause", "subtask_advance",
                   "waive_phases", "resumed-pause", "resumed-budget", "resumed-retry",
                   "restart-recovery", "restart-recovery-failed"}

DecisionEntry ==
    [run : Runs, turn : Nat, name : DecisionNames, to : RunState,
     blocker : Blockers \cup {NoBlocker}]

Entry(r, turn, name, to) ==
    [run |-> r, turn |-> turn, name |-> name, to |-> to, blocker |-> NoBlocker]

SameId(e, f) == e.run = f.run /\ e.turn = f.turn /\ e.name = f.name

Recorded(e) == \E x \in ledger : SameId(x, e)

-----------------------------------------------------------------------------
\* Mutant of CanRetry: the last retry is granted twice.
CanRetryOnceMore(b) ==
    b.usedTurns < b.maxTurns /\ b.usedRetries <= b.maxRetries /\ ~b.spent

\* exhaustedFields() has nothing to say.
CanRetry(b) == b.usedTurns < b.maxTurns /\ b.usedRetries < b.maxRetries /\ ~b.spent

ExhaustedAtTurnStart(b) == b # NoBudget /\ (b.usedTurns >= b.maxTurns \/ b.spent)

\* The usage of a turn may use up the time or the tokens.
Costs == IF "usage" \in Ops THEN BOOLEAN ELSE {FALSE}

\* The budget once the turn has been charged.
Charged(b, turn, cost) == [b EXCEPT !.usedTurns = turn, !.spent = @ \/ cost]

\* decideControl(), with the escalation of policy gates among the "blocked".
DecideControl(j, b) ==
    CASE j = "crashed" -> "failed"
      [] j = "passed"  -> "complete"
      [] j = "failed"  -> IF CanRetry(b) THEN "retry" ELSE "budget_limited"
      [] j \in {"blocked", "merge"} -> "needs_human"

\* How often the run has stopped for this blocker, this time included.
RepeatedBlockerCount(r, b) ==
    1 + Cardinality({e \in ledger : e.run = r /\ e.to = "needs_human" /\ e.blocker = b})

-----------------------------------------------------------------------------
\* Tasks
IdleTask == [pc |-> "idle", op |-> "none", run |-> NoRun, ctx |-> NoContext,
             rec |-> NoRecord, entry |-> NoEntry, status |-> "none",
             from |-> "none", killed |-> FALSE]

Idle(t) == task[t].pc = "idle"

Quiet == \A t \in Tasks : Idle(t)

\* A call may come: the server is up.
Free(t) ==
    /\ mem.up
    /\ Idle(t)
    /\ Quiet \/ overlaps < MaxOverlaps
    /\ overlaps' = IF Quiet THEN overlaps ELSE overlaps + 1

\* assertLegalTransition() has accepted the step; reading the ledger comes next.
Request(k, op, e, new) ==
    [k EXCEPT !.pc = "check", !.op = op, !.entry = e, !.rec = new]

Legal(old, new) == <<old.state, new.state>> \in LegalTransitions

\* The record with its new state; entering a blocking state forgets reminders.
To(rec, s) == [rec EXCEPT !.state = s, !.reminded = @ /\ s \notin Blocked]

Answered(rec, s) == [To(rec, s) EXCEPT !.pending = "none"]

\* An operation of a person or a timer begins in task t.
Call(t, op, r, status, e, old, new) ==
    /\ Free(t)
    /\ Legal(old, new)
    /\ task' = [task EXCEPT ![t] =
          Request([IdleTask EXCEPT !.run = r, !.status = status], op, e, new)]

-----------------------------------------------------------------------------
\* Operations of people and timers

\* Bound of the model on the operations that bring on another turn.
MayGoOn ==
    /\ Rec.turn < TurnCap
    /\ \A c \in Contexts : mem.contexts[c].turn < TurnCap

\* The gate of this turn waits for its merge: approving it brings on no turn.
GateWaits(r) == files.gates[r] # 0 /\ files.gates[r] = Rec.turn

\* findWaitingRun(): the index does not look at whose record it finds, the scan
\* of the files goes by what the record says is pending.
IsWaiting(r) ==
    /\ HasRecord /\ Rec.state = "needs_human"
    /\ r \in mem.pending \/ (Rec.run = r /\ Rec.pending # "none")

DecisionTarget(a) ==
    CASE a = "reject" -> "failed" [] a = "pause" -> "paused" [] OTHER -> "active"

\* advance_subtask has the id of the automatic advance, the others their own.
DecisionName(a) == IF a = "advance_subtask" THEN "subtask_advance" ELSE a

Decisions == {"approve", "request_changes", "reject", "pause",
              "advance_subtask", "waive_phases"}

\* submitDecision().  An approval has feedback: without it the code refuses to
\* approve a blocker that has come back.
SubmitDecision(t, r, a) ==
    /\ a \in Ops \cap Decisions
    /\ IsWaiting(r)
    /\ DecisionTarget(a) = "active" => MayGoOn \/ GateWaits(r)
    /\ Call(t, a, r, Rec.pending,
            Entry(r, Rec.turn, DecisionName(a), DecisionTarget(a)),
            Rec, Answered(Rec, DecisionTarget(a)))
    /\ mem' = [mem EXCEPT !.pending = @ \cup {r}]

\* The turn and the budget of a run that pauseActiveRun() and discardRun() take
\* from the context in the turn loop.
SeedOf(r, ctx) ==
    Seed(r,
         IF ctx # NoContext THEN mem.contexts[ctx].turn ELSE 1,
         IF ctx # NoContext THEN Contract ELSE NoBudget)

\* pauseActiveRun() and pauseActive(): the record, or a seed in its place when
\* the registered run has none yet.
Pausable ==
    IF HasRecord /\ Rec.state = "active" THEN Rec
    ELSE SeedOf(mem.active, mem.executing[mem.active])

CanPause ==
    \/ HasRecord /\ Rec.state = "active"
    \/ /\ mem.active # NoRun
       /\ HasRecord => Rec.state \in {"complete", "failed"} /\ Rec.run # mem.active

\* PATCH pause and resume of a loop without such a run set the flag only.
PatchFlag(t, paused) ==
    /\ (IF paused THEN "patch_pause" ELSE "patch_resume") \in Ops
    /\ Free(t)
    /\ IF paused
       THEN mem.active = NoRun /\ HasRecord => Rec.state \in {"complete", "failed"}
       ELSE files.paused /\ (HasRecord => Rec.state # "paused")
    /\ files' = [files EXCEPT !.paused = paused]
    /\ UNCHANGED <<task, mem>>

PatchPause(t) ==
    /\ "patch_pause" \in Ops
    /\ CanPause
    /\ Call(t, "patch_pause", Pausable.run, "none",
            Entry(Pausable.run, Pausable.turn, "paused", "paused"),
            Pausable, To(Pausable, "paused"))
    /\ UNCHANGED mem

\* resumePaused()
PatchResume(t) ==
    /\ "patch_resume" \in Ops
    /\ HasRecord /\ Rec.state = "paused" /\ MayGoOn
    /\ Call(t, "patch_resume", Rec.run, "none",
            Entry(Rec.run, Rec.turn, "resumed-pause", "active"),
            Rec, To(Rec, "active"))
    /\ UNCHANGED mem

Given(new, old) == IF new = Kept THEN old ELSE new

\* The limits of the patch take the place of the ones in the record, above or
\* below them.
Supplemented(b, s) ==
    [b EXCEPT !.maxTurns   = Given(s.turns, @),
              !.maxRetries = Given(s.retries, @),
              !.spent      = Given(s.spent, @)]

\* supplementBudget()
SupplementBudget(t) ==
    /\ "supplement" \in Ops
    /\ HasRecord /\ Rec.state = "budget_limited"
    /\ Rec.budget # NoBudget
    /\ \E s \in Supplements :
       /\ ExhaustedAtTurnStart(Supplemented(Rec.budget, s)) \/ MayGoOn
       /\ Call(t, "supplement", Rec.run, "none",
               Entry(Rec.run, Rec.turn, "resumed-budget", "active"),
               Rec, [To(Rec, "active") EXCEPT !.budget = Supplemented(@, s)])
    /\ UNCHANGED mem

\* terminateExecuting(): the process of the turn dies, the turn ends failed.
Kill(tasks, r) ==
    [u \in Tasks |-> IF tasks[u].pc = "turn" /\ tasks[u].run = r
                     THEN [tasks[u] EXCEPT !.killed = TRUE] ELSE tasks[u]]

\* The state of a run that getRun() shows.
ShownState(r) ==
    IF mem.states[r] = "unknown" /\ r \in mem.registered THEN "active"
    ELSE mem.states[r]

\* discardRun() of the run service and of the control plane.  A run whose
\* record has been replaced is discarded through a seed.
DiscardRun(t, r, force) ==
    LET ctx == IF mem.executing[r] # NoContext THEN mem.executing[r]
               ELSE mem.suspended[r]
        old == IF HasRecord /\ Rec.run = r THEN Rec
               ELSE IF ctx = NoContext /\ r \notin mem.registered
                    THEN Seed(r, 0, NoBudget) ELSE SeedOf(r, ctx)
        new == Answered(old, "discarded")
    IN  /\ "discard" \in Ops
        /\ r \in mem.registered \/ r \in files.entries
        /\ Free(t)
        /\ Legal(old, new)
        /\ force \/ (old.state \notin InFlight /\ ShownState(r) \notin InFlight)
        /\ task' = [(IF force THEN Kill(task, r) ELSE task) EXCEPT ![t] =
              Request([IdleTask EXCEPT !.run = r], "discard",
                      Entry(r, old.turn, "discarded", "discarded"), new)]
        /\ UNCHANGED mem

\* sweepHumanSla() past the deadline under auto_abandon: failRun(), forced.
\* From the other blocking states the transition is illegal and throws.
AbandonRun(t) ==
    /\ "abandon" \in Ops
    /\ HasRecord /\ Rec.state = "needs_human"
    /\ Call(t, "fail", Rec.run, "none",
            Entry(Rec.run, Rec.turn, "restart-recovery-failed", "failed"),
            Rec, Answered(Rec, "failed"))
    /\ UNCHANGED mem

\* sweepHumanSla() past the reminder: the loaded record is saved again, marked.
RemindHuman(t) ==
    /\ "remind" \in Ops
    /\ HasRecord /\ Rec.state = "needs_human" /\ ~Rec.reminded
    /\ Free(t)
    /\ task' = [task EXCEPT ![t] =
          [IdleTask EXCEPT !.pc = "resave", !.run = Rec.run,
                           !.rec = [Rec EXCEPT !.reminded = TRUE]]]
    /\ UNCHANGED mem

-----------------------------------------------------------------------------
\* Operations of the turn loop, up to the first await after the load.  Each
\* gives the next value of the task; Thrown is the exception.
Thrown(k) == [k EXCEPT !.pc = "thrown", !.rec = NoRecord, !.entry = NoEntry]

\* The budget after the decision: a retry is paid for when it is decided.
JudgedBudget(b, kind) ==
    [b EXCEPT !.usedRetries = IF kind = "retry" THEN @ + 1 ELSE @]

\* applyJudgment() of a turn that came to j, for the blocker b.  The stop rule
\* on repeated blockers turns needs_human into failed but keeps its id.
ApplyJudgment(k, op, turn, j, b, cost) ==
    LET own    == HasRecord /\ Rec.run = k.run
        base   == IF own /\ Rec.budget # NoBudget THEN Rec.budget ELSE Contract
        budget == Charged(base, turn, cost)
        kind   == DecideControl(j, budget)
        asks   == kind = "needs_human"
        to     == IF asks /\ RepeatedBlockerCount(k.run, b) > MaxSameFailure
                  THEN "failed" ELSE kind
        old    == IF own THEN Rec ELSE Seed(k.run, turn, base)
        new    == [To(old, to) EXCEPT
                      !.turn = turn, !.budget = JudgedBudget(budget, kind),
                      !.pending = IF to = "needs_human" THEN "approval" ELSE "none"]
        e      == [Entry(k.run, turn, kind, to) EXCEPT
                      !.blocker = IF asks THEN b ELSE NoBlocker]
        replay == /\ own /\ Rec.turn = turn /\ Rec.state # "active"
                  /\ Recorded(Entry(k.run, turn, Rec.state, Rec.state))
    IN  IF replay THEN [k EXCEPT !.pc = "judged", !.op = op, !.status = Rec.state]
        ELSE IF Legal(old, new) THEN Request(k, op, e, new)
        ELSE Thrown(k)

\* beginTurn() from an active record: the budget check, then the new turn.
BeginActive(k, rec, turn) ==
    IF ExhaustedAtTurnStart(rec.budget)
    THEN Request(k, "begin-limit",
                 Entry(k.run, rec.turn, "budget_limited", "budget_limited"),
                 To(rec, "budget_limited"))
    ELSE [k EXCEPT !.pc = "stamp", !.rec = [rec EXCEPT !.turn = turn]]

\* beginTurn()
BeginTurn(k, turn) ==
    IF ~(HasRecord /\ Rec.run = k.run) THEN Thrown(k)
    ELSE IF Rec.state = "retry"
         THEN Request(k, "begin-retry", Entry(k.run, Rec.turn, "resumed-retry", "active"),
                      To(Rec, "active"))
    ELSE IF Rec.state = "active" THEN BeginActive(k, Rec, turn)
    ELSE Thrown(k)

\* advanceSubtaskTurn() after the turn done: the record is made active for the
\* next turn whatever it was; its budget is the one in the file, whichever run
\* that is of.
AdvanceSubtaskTurn(k, done, cost) ==
    LET base == IF HasRecord /\ Rec.budget # NoBudget THEN Rec.budget ELSE Contract
        b    == Charged(base, done, cost)
        old  == IF HasRecord THEN Rec ELSE Seed(k.run, done, b)
        over == done + 1 > b.maxTurns
    IN  Request(k, IF over THEN "advance-over" ELSE "advance",
                Entry(k.run, done, "subtask_advance", "active"),
                [old EXCEPT !.run = k.run, !.state = "active", !.budget = b,
                            !.turn = IF over THEN done ELSE done + 1])

\* The rest of advanceSubtaskTurn() when there is no budget for the next turn.
LimitAdvance(k) ==
    Request(k, "advance-limit",
            Entry(k.run, k.rec.turn, "budget_limited", "budget_limited"),
            To(k.rec, "budget_limited"))

\* failRun(); otherwise is what comes next when there is nothing to fail.
FailRun(k, op, force, otherwise) ==
    IF \/ ~(HasRecord /\ Rec.run = k.run)
       \/ Rec.state \in {"complete", "failed", "discarded"}
       \/ ~force /\ Rec.state \notin InFlight
    THEN otherwise
    ELSE IF Legal(Rec, To(Rec, "failed"))
         THEN Request(k, op,
                      Entry(k.run, Rec.turn, "restart-recovery-failed", "failed"),
                      Answered(Rec, "failed"))
    ELSE Thrown(k)

\* settleMerge()
SettleMerge(k, turn, ok) ==
    LET to == IF ok THEN "complete" ELSE "failed" IN
    IF HasRecord /\ Rec.run = k.run /\ Rec.state = "active"
    THEN Request(k, "settle", Entry(k.run, turn, to, to), To(Rec, to))
    ELSE Thrown(k)

\* Mutant of RequestRestartRecovery: nothing says what is asked of a person.
RequestRestartRecoverySilent(k) ==
    IF Legal(Rec, To(Rec, "needs_human"))
    THEN Request(k, "recover", Entry(k.run, Rec.turn, "restart-recovery", "needs_human"),
                 To(Rec, "needs_human"))
    ELSE Thrown(k)

\* requestRestartRecovery() of an active or retry record.
RequestRestartRecovery(k) ==
    LET new == [To(Rec, "needs_human") EXCEPT
                   !.pending = IF Rec.state = "retry" THEN "restart-retry"
                               ELSE "restart-active"]
    IN  IF Legal(Rec, new)
        THEN Request(k, "recover",
                     Entry(k.run, Rec.turn, "restart-recovery", "needs_human"), new)
        ELSE Thrown(k)
=============================================================================
