-------------------------- MODULE RunControl_proofs --------------------------
(***************************************************************************)
(* Proofs about RunControl, for any runs, any number of calls under way at *)
(* once, any budget and plan, any operations in use and any crashes.       *)
(***************************************************************************)
EXTENDS RunControl, FiniteSetTheorems, TLAPS

-----------------------------------------------------------------------------
(* The inductive invariant.                                                *)

\* A record in order: it says what is asked of a person, and a retry is within the
\* limit of its budget.
RecOK(x) ==
    /\ x \in RunStateRecord
    /\ x.state = "needs_human" => x.pending # "none"
    /\ x.state = "retry" =>
          x.budget \in Budgets /\ x.budget.usedRetries <= x.budget.maxRetries

\* The entries l explain the state of the record x.
Backed(x, l) ==
    \/ x.state = "active"
    \/ \E e \in l : e.to = x.state /\ (e.run = x.run \/ e.name \in Misaddressed)

RecordsOK ==
    \A r \in Runs : snap[r] # NoRecord => RecOK(snap[r]) /\ Backed(snap[r], ledger)

\* The steps of transition(), and the operations that the turn loop awaits there.
Deciding == {"check", "append", "save"}

LoopOps == {"judge", "gate", "deadloop", "settle", "begin-limit", "begin-retry",
            "advance", "advance-over", "advance-limit"}

\* A call that works in a context.
InLoop(k) ==
    \/ k.pc \in {"setup", "turn", "verify", "judged", "handoff", "drive",
                 "advance", "begin", "stamp", "merge"}
    \/ k.pc \in Deciding /\ k.op \in LoopOps

\* The decision e explains the state of the record x once it is in the ledger.
Covers(e, x) ==
    /\ e.to = x.state
    /\ e.run = x.run \/ e.name \in Misaddressed \/ x.state = "active"

\* The record x is one that advanceSubtaskTurn() may prepare, if op is a part of it.
Fits(op, x) ==
    /\ op \in {"advance", "advance-over"} => x.state = "active"
    /\ op \in {"advance-over", "advance-limit"} => x.turn # 0

\* A call in order, when the ledger is l and n wrote the last snapshot: it knows
\* its run and its context, the record it is going to save is one in order, and
\* has its decision in the ledger from the moment that only the save is left.
TaskOK(k, l, n) ==
    /\ k \in TaskRecord
    /\ k.pc # "idle" => k.run \in Runs
    /\ InLoop(k) => k.ctx \in Contexts
    /\ k.pc \in Deciding =>
          /\ RecOK(k.rec) /\ k.entry \in DecisionEntry /\ Covers(k.entry, k.rec)
          /\ Fits(k.op, k.rec)
          /\ k.op = "begin-retry" => n # NoRun
    /\ k.pc \in {"save", "stamp", "resave"} => RecOK(k.rec) /\ Backed(k.rec, l)

\* Until its first turn a run has its context to itself: the gate of a new
\* contract sets the turn of the context back to 0.
Alone(k) == k.pc = "setup" \/ (k.pc \in Deciding /\ k.op = "gate")

Refers(c) == \E r \in Runs : mem.suspended[r] = c \/ mem.executing[r] = c

GatesAlone ==
    \A t \in Tasks :
        Alone(task[t]) =>
            /\ ~Refers(task[t].ctx)
            /\ \A u \in Tasks \ {t} : task[u].ctx # task[t].ctx

\* The turn that advanceSubtaskTurn() closes is the one before the context's.
AdvancePositive ==
    \A t \in Tasks : task[t].pc = "advance" => mem.contexts[task[t].ctx].turn >= 1

DownIsQuiet == mem.up \/ Quiet

\* The invariant in two halves: the files, and the calls with their memory.
PersistOK ==
    /\ snap \in [Runs -> RunStateRecord \cup {NoRecord}]
    /\ \A r \in Runs : snap[r] = NoRecord \/ snap[r].run = r
    /\ last \in Runs \cup {NoRun}
    /\ HasRecord => snap[last] # NoRecord
    /\ ledger \subseteq DecisionEntry /\ IsFiniteSet(ledger)
    /\ files \in Files
    /\ RecordsOK

MemOK(m) == m \in Memory /\ m.active \in m.registered \cup {NoRun}

CallsOK ==
    /\ task \in [Tasks -> TaskRecord]
    /\ MemOK(mem)
    /\ \A t \in Tasks : TaskOK(task[t], ledger, last)
    /\ GatesAlone
    /\ AdvancePositive
    /\ DownIsQuiet

IInv == PersistOK /\ CallsOK

-----------------------------------------------------------------------------
(* Records, decisions and budgets.                                         *)

\* The constants as the proofs use them.
LEMMA Constants ==
    /\ MaxTurns \in Nat \ {0} /\ MaxRetries \in Nat /\ Subtasks \in Nat \ {0}
    /\ Supplements \subseteq [turns : (Nat \ {0}) \cup {Kept}, retries : Nat \cup {Kept},
                              spent : BOOLEAN \cup {Kept}]
    /\ NoRun \notin Runs /\ NoContext \notin Contexts /\ NoRecord \notin RunStateRecord
BY ControlPlaneConstants, NoRecordAssumption

\* The loop's record, when it has one.
LEMMA RecFacts ==
    ASSUME PersistOK, HasRecord
    PROVE  /\ Rec = snap[last] /\ last \in Runs /\ Rec.run = last
           /\ RecOK(Rec) /\ Backed(Rec, ledger)
BY DEF PersistOK, HasRecord, Rec, RecordsOK

\* A record that is moved to a state in which nothing is asked stays in order.
LEMMA ToFacts ==
    ASSUME NEW x, RecOK(x), NEW s \in RunState, s \notin {"needs_human", "retry"}
    PROVE  /\ RecOK(To(x, s)) /\ To(x, s).state = s /\ To(x, s).run = x.run
           /\ RecOK(Answered(x, s)) /\ Answered(x, s).state = s
           /\ Answered(x, s).run = x.run
BY DEF RecOK, RunStateRecord, To, Answered, Pendings

\* A record that is made up is in order when its budget is.
LEMMA SeedFacts ==
    ASSUME NEW r \in Runs, NEW turn \in Nat, NEW b \in Budgets \cup {NoBudget}
    PROVE  /\ RecOK(Seed(r, turn, b)) /\ Seed(r, turn, b).state = "active"
           /\ Seed(r, turn, b).run = r /\ Seed(r, turn, b).turn = turn
<1>1. /\ Seed(r, turn, b).state = "active" /\ Seed(r, turn, b).run = r
      /\ Seed(r, turn, b).turn = turn
  BY DEF Seed
<1>2. Seed(r, turn, b) \in RunStateRecord
  BY DEF RunStateRecord, Seed, Pendings, RunState
<1> QED BY <1>1, <1>2 DEF RecOK

\* The budget of the contract is one.
LEMMA ContractFacts == Contract \in Budgets
BY Constants DEF Contract, Budgets

\* The decision entry has the parts it is built from.
LEMMA EntryFacts ==
    ASSUME NEW r \in Runs, NEW turn \in Nat, NEW name \in DecisionNames, NEW to \in RunState
    PROVE  /\ Entry(r, turn, name, to) \in DecisionEntry
           /\ Entry(r, turn, name, to).run = r
           /\ Entry(r, turn, name, to).name = name
           /\ Entry(r, turn, name, to).to = to
BY DEF Entry, DecisionEntry

\* transition() accepts a decision: the call is in order.
LEMMA RequestFacts ==
    ASSUME NEW k \in TaskRecord, k.run \in Runs, NEW op \in OpNames, NEW l, NEW n,
           NEW e \in DecisionEntry, NEW x, RecOK(x), Covers(e, x),
           op \in LoopOps => k.ctx \in Contexts,
           Fits(op, x),
           op = "begin-retry" => n # NoRun
    PROVE  /\ TaskOK(Request(k, op, e, x), l, n)
           /\ Request(k, op, e, x).pc = "check" /\ Request(k, op, e, x).op = op
           /\ Request(k, op, e, x).run = k.run /\ Request(k, op, e, x).ctx = k.ctx
           /\ Request(k, op, e, x).from = k.from
<1> DEFINE q == Request(k, op, e, x)
<1>1. /\ q.pc = "check" /\ q.op = op /\ q.run = k.run /\ q.ctx = k.ctx
      /\ q.from = k.from /\ q.rec = x /\ q.entry = e
  BY DEF Request, TaskRecord
<1>2. q \in TaskRecord
  BY DEF Request, TaskRecord, Steps, RecOK
<1> HIDE DEF q
<1>3. TaskOK(q, l, n)
  BY <1>1, <1>2 DEF TaskOK, InLoop, Deciding
<1> QED BY <1>1, <1>3 DEF q

-----------------------------------------------------------------------------
(* A step of one call.                                                     *)

\* The contexts that a step of t may refer to: none, its own, one that a run has,
\* or a new one.
Within(t, c) ==
    \/ c = NoContext
    \/ c = task[t].ctx
    \/ Refers(c)
    \/ c \in Contexts /\ Fresh(c)

\* The step takes no context of another call back, or not before its first turn.
TurnsKept(t, m) ==
    \A u \in Tasks \ {t} :
        task[u].ctx \in Contexts =>
            \/ m.contexts[task[u].ctx].turn >= mem.contexts[task[u].ctx].turn
            \/ m.contexts[task[u].ctx].turn >= 1

\* A memory that a step of t may leave behind.
Follows(t, m) ==
    /\ MemOK(m) /\ m.up
    /\ \A r \in Runs : Within(t, m.suspended[r]) /\ Within(t, m.executing[r])
    /\ TurnsKept(t, m)

\* The call k that t becomes fits in that memory.
Placed(t, k, m) ==
    /\ Within(t, k.ctx)
    /\ k.pc = "advance" => m.contexts[k.ctx].turn >= 1
    /\ Alone(k) =>
          /\ m.suspended = mem.suspended /\ m.executing = mem.executing
          /\ \/ k.ctx \in Contexts /\ Fresh(k.ctx)
             \/ Alone(task[t]) /\ k.ctx = task[t].ctx

\* Only the call t takes a step; others are killed at most.
Alike(t, tasks) ==
    \A u \in Tasks \ {t} :
        tasks[u] = task[u] \/ tasks[u] = [task[u] EXCEPT !.killed = TRUE]

\* A call stays in order while the ledger grows and when it is killed.
LEMMA TaskStays ==
    ASSUME NEW k, NEW l, NEW n, TaskOK(k, l, n), NEW l2, l \subseteq l2, NEW n2,
           n # NoRun => n2 # NoRun
    PROVE  /\ TaskOK(k, l2, n2)
           /\ TaskOK([k EXCEPT !.killed = TRUE], l2, n2)
<1>1. TaskOK(k, l2, n2)
  BY DEF TaskOK, Backed
<1> DEFINE q == [k EXCEPT !.killed = TRUE]
<1>2. /\ q \in TaskRecord /\ q.pc = k.pc /\ q.op = k.op /\ q.run = k.run
      /\ q.ctx = k.ctx /\ q.rec = k.rec /\ q.entry = k.entry
  BY DEF TaskOK, TaskRecord
<1> HIDE DEF q
<1>3. TaskOK(q, l2, n2)
  BY <1>1, <1>2 DEF TaskOK, InLoop
<1> QED BY <1>1, <1>3 DEF q

\* A step that is placed in a memory that follows keeps the calls in order.
LEMMA CallStep ==
    ASSUME CallsOK, NEW t \in Tasks, NEW k, TaskOK(k, ledger', last'),
           ledger \subseteq ledger', HasRecord => HasRecord',
           task' \in [Tasks -> TaskRecord], task'[t] = k, Alike(t, task'),
           Follows(t, mem'), Placed(t, k, mem')
    PROVE  CallsOK'
<1>1. MemOK(mem') /\ mem'.up
  BY DEF Follows
<1>2. ASSUME NEW u \in Tasks PROVE TaskOK(task'[u], ledger', last')
  <2>1. TaskOK(task[u], ledger, last)
    BY DEF CallsOK
  <2>2. last # NoRun => last' # NoRun
    BY DEF HasRecord
  <2>3. TaskOK(task[u], ledger', last') /\ TaskOK([task[u] EXCEPT !.killed = TRUE], ledger', last')
    BY <2>1, <2>2, TaskStays
  <2> QED BY <2>3 DEF Alike
<1>3. ASSUME NEW u \in Tasks \ {t}
      PROVE  /\ task'[u].ctx = task[u].ctx /\ task'[u].pc = task[u].pc
             /\ Alone(task'[u]) <=> Alone(task[u])
  <2>1. /\ task'[u].ctx = task[u].ctx /\ task'[u].pc = task[u].pc
        /\ task'[u].op = task[u].op
    BY DEF Alike, CallsOK, TaskRecord
  <2> QED BY <2>1 DEF Alone
<1>4. ASSUME NEW u \in Tasks, Alone(task'[u])
      PROVE  /\ ~\E r \in Runs : mem'.suspended[r] = task'[u].ctx
                                 \/ mem'.executing[r] = task'[u].ctx
             /\ \A v \in Tasks \ {u} : task'[v].ctx # task'[u].ctx
  <2>1. \A v \in Tasks : Alone(task[v]) => task[v].ctx \in Contexts
    BY DEF CallsOK, TaskOK, InLoop, Alone, LoopOps
  <2>2. ASSUME NEW v \in Tasks \ {t}, Alone(task[v]), NEW c, Within(t, c)
        PROVE  c # task[v].ctx
    <3>1. ~Refers(task[v].ctx) /\ task[t].ctx # task[v].ctx /\ task[v].ctx # NoContext
      BY <2>1, <2>2, Constants DEF CallsOK, GatesAlone
    <3>2. ~Fresh(task[v].ctx)
      BY DEF Fresh
    <3> QED BY <3>1, <3>2, <2>2 DEF Within
  <2>3. CASE u # t
    <3>1. Alone(task[u]) /\ task'[u].ctx = task[u].ctx
      BY <1>3, <1>4, <2>3
    <3>2. ~\E r \in Runs : mem'.suspended[r] = task[u].ctx \/ mem'.executing[r] = task[u].ctx
      BY <2>2, <2>3, <3>1 DEF Follows
    <3>3. task'[t].ctx # task[u].ctx
      BY <2>2, <2>3, <3>1 DEF Placed
    <3>4. \A v \in Tasks \ {u, t} : task'[v].ctx # task[u].ctx
      BY <1>3, <2>3, <3>1 DEF CallsOK, GatesAlone
    <3> QED BY <3>1, <3>2, <3>3, <3>4
  <2>4. CASE u = t
    <3>1. /\ mem'.suspended = mem.suspended /\ mem'.executing = mem.executing
          /\ Fresh(k.ctx) \/ (Alone(task[t]) /\ k.ctx = task[t].ctx)
      BY <1>4, <2>4 DEF Placed
    <3>2. CASE Fresh(k.ctx)
      BY <1>3, <2>4, <3>1, <3>2 DEF Fresh
    <3>3. CASE Alone(task[t]) /\ k.ctx = task[t].ctx
      BY <1>3, <2>4, <3>1, <3>3 DEF CallsOK, GatesAlone, Refers
    <3> QED BY <3>1, <3>2, <3>3
  <2> QED BY <2>3, <2>4
<1>5. GatesAlone'
  BY <1>4 DEF GatesAlone, Refers
<1>6. AdvancePositive'
  <2> SUFFICES ASSUME NEW u \in Tasks, task'[u].pc = "advance"
               PROVE  mem'.contexts[task'[u].ctx].turn >= 1
    BY DEF AdvancePositive
  <2>1. CASE u = t
    BY <2>1 DEF Placed
  <2>2. CASE u # t
    <3>1. task[u].pc = "advance" /\ task'[u].ctx = task[u].ctx
      BY <1>3, <2>2
    <3>2. task[u].ctx \in Contexts /\ mem.contexts[task[u].ctx].turn >= 1
      BY <3>1 DEF CallsOK, TaskOK, InLoop, AdvancePositive
    <3>3. \/ mem'.contexts[task[u].ctx].turn >= mem.contexts[task[u].ctx].turn
          \/ mem'.contexts[task[u].ctx].turn >= 1
      BY <2>2, <3>2 DEF Follows, TurnsKept
    <3>4. mem.contexts[task[u].ctx].turn \in Nat /\ mem'.contexts[task[u].ctx].turn \in Nat
      BY <1>1, <3>2 DEF CallsOK, MemOK, Memory
    <3> QED BY <3>1, <3>2, <3>3, <3>4
  <2> QED BY <2>1, <2>2
<1> QED BY <1>1, <1>2, <1>5, <1>6 DEF CallsOK, DownIsQuiet

\* Collecting contexts changes nothing that somebody refers to.
LEMMA CollectFacts ==
    ASSUME NEW m, MemOK(m), NEW tasks
    PROVE  LET d == Collect(m, tasks) IN
           /\ MemOK(d) /\ d.up = m.up
           /\ d.suspended = m.suspended /\ d.executing = m.executing
           /\ \A t \in Tasks : tasks[t].ctx \in Contexts =>
                  d.contexts[tasks[t].ctx] = m.contexts[tasks[t].ctx]
<1> DEFINE f == [c \in Contexts |->
                   IF \/ \E r \in Runs : m.suspended[r] = c \/ m.executing[r] = c
                      \/ \E t \in Tasks : tasks[t].ctx = c
                   THEN m.contexts[c] ELSE NoTurn]
<1>1. f \in [Contexts -> [turn : Nat, sub : Nat]]
  BY DEF MemOK, Memory, NoTurn
<1>2. \A t \in Tasks : tasks[t].ctx \in Contexts => f[tasks[t].ctx] = m.contexts[tasks[t].ctx]
  OBVIOUS
<1>3. Collect(m, tasks) = [m EXCEPT !.contexts = f]
  BY DEF Collect, MemOK, Memory
<1> HIDE DEF f
<1> DEFINE e == [m EXCEPT !.contexts = f]
<1>4. /\ e \in Memory /\ e.contexts = f /\ e.up = m.up /\ e.suspended = m.suspended
      /\ e.executing = m.executing /\ e.active = m.active
      /\ e.registered = m.registered
  BY <1>1 DEF MemOK, Memory
<1>5. Collect(m, tasks) = e
  BY <1>3
<1> HIDE DEF e
<1> QED BY <1>2, <1>4, <1>5 DEF MemOK

\* The same through the steps' own form, with any other calls killed.
LEMMA BecomeStep ==
    ASSUME CallsOK, NEW t \in Tasks, NEW tasks, NEW k, NEW m, Become(tasks, m),
           tasks \in [Tasks -> TaskRecord], tasks[t] = k, Alike(t, tasks),
           TaskOK(k, ledger', last'), ledger \subseteq ledger', HasRecord => HasRecord',
           Follows(t, m), Placed(t, k, m)
    PROVE  CallsOK'
<1>1. task' = tasks /\ mem' = Collect(m, tasks)
  BY DEF Become
<1>2. /\ MemOK(mem') /\ mem'.up
      /\ mem'.suspended = m.suspended /\ mem'.executing = m.executing
      /\ \A u \in Tasks : tasks[u].ctx \in Contexts =>
             mem'.contexts[tasks[u].ctx] = m.contexts[tasks[u].ctx]
  BY <1>1, CollectFacts DEF Follows
<1>3. \A u \in Tasks \ {t} : tasks[u].ctx = task[u].ctx
  BY DEF Alike, CallsOK, TaskRecord
<1>4. Follows(t, mem')
  BY <1>2, <1>3 DEF Follows, TurnsKept
<1>5. Placed(t, k, mem')
  <2>1. k.pc = "advance" => k.ctx \in Contexts
    BY DEF TaskOK, InLoop
  <2> QED BY <1>2, <2>1 DEF Placed
<1> QED BY <1>1, <1>4, <1>5, CallStep

\* The same when no call is killed.
LEMMA BecomesStep ==
    ASSUME CallsOK, NEW t \in Tasks, NEW k, NEW m, Becomes(t, k, m),
           TaskOK(k, ledger', last'), ledger \subseteq ledger', HasRecord => HasRecord',
           Follows(t, m), Placed(t, k, m)
    PROVE  CallsOK'
<1> DEFINE tasks == [task EXCEPT ![t] = k]
<1>1. /\ tasks \in [Tasks -> TaskRecord] /\ tasks[t] = k /\ Alike(t, tasks)
      /\ Become(tasks, m)
  BY DEF CallsOK, TaskOK, Alike, Becomes
<1> HIDE DEF tasks
<1> QED BY <1>1, BecomeStep

\* A call that is over is in order anywhere.
LEMMA IdleFacts ==
    /\ IdleTask \in TaskRecord /\ IdleTask.pc = "idle" /\ IdleTask.ctx = NoContext
    /\ IdleTask.op = "none" /\ IdleTask.from = "none"
    /\ \A l, n : TaskOK(IdleTask, l, n)
    /\ \A t, m : Placed(t, IdleTask, m)
<1>1. /\ IdleTask \in TaskRecord /\ IdleTask.pc = "idle" /\ IdleTask.ctx = NoContext
      /\ IdleTask.op = "none" /\ IdleTask.from = "none"
  BY DEF IdleTask, TaskRecord, Steps, OpNames, Pendings
<1> QED BY <1>1 DEF TaskOK, InLoop, Deciding, Placed, Within, Alone

\* A call under way means that the server is up, and its memory is one that a
\* step may leave as it is.
LEMMA UpFacts ==
    ASSUME CallsOK, NEW t \in Tasks, mem.up \/ task[t].pc # "idle"
    PROVE  Follows(t, mem)
<1>1. mem.up
  BY DEF CallsOK, DownIsQuiet, Quiet, Idle
<1>2. \A r \in Runs : Within(t, mem.suspended[r]) /\ Within(t, mem.executing[r])
  BY DEF Within, Refers
<1>3. TurnsKept(t, mem)
  BY DEF TurnsKept, CallsOK, MemOK, Memory
<1> QED BY <1>1, <1>2, <1>3 DEF Follows, CallsOK

\* What the turn loop and the run service do to their maps.
LEMMA MemoryMoves ==
    ASSUME NEW t \in Tasks, NEW m, Follows(t, m), NEW r \in Runs
    PROVE  /\ Follows(t, ReleaseRun(m, r))
           /\ Follows(t, LeaveLoop(m, r))
           /\ Follows(t, Register(m, r))
           /\ Follows(t, Forget(m, r))
           /\ Follows(t, [m EXCEPT !.pending = @ \cup {r}])
           /\ \A s \in RunState : Follows(t, [m EXCEPT !.states[r] = s])
<1> USE DEF Follows, TurnsKept, MemOK, Memory
<1>1. Follows(t, ReleaseRun(m, r))
  BY DEF ReleaseRun, Within
<1>2. Follows(t, LeaveLoop(m, r))
  BY DEF LeaveLoop, Within
<1>3. Follows(t, Register(m, r))
  BY DEF Register
<1>4. Follows(t, Forget(m, r))
  BY DEF Forget
<1>5. Follows(t, [m EXCEPT !.pending = @ \cup {r}])
  OBVIOUS
<1>6. ASSUME NEW s \in RunState PROVE Follows(t, [m EXCEPT !.states[r] = s])
  OBVIOUS
<1> QED BY <1>1, <1>2, <1>3, <1>4, <1>5, <1>6

\* The same for a context that a run gets.
LEMMA ContextMoves ==
    ASSUME NEW t \in Tasks, NEW m, Follows(t, m), NEW r \in Runs,
           NEW c \in Contexts \cup {NoContext}, Within(t, c)
    PROVE  /\ Follows(t, Suspend(m, r, c))
           /\ Follows(t, [m EXCEPT !.suspended[r] = c])
           /\ Follows(t, [m EXCEPT !.executing[r] = c])
<1> USE DEF Follows, TurnsKept, MemOK, Memory
<1>1. Follows(t, Suspend(m, r, c))
  BY DEF Suspend, Within
<1>2. Follows(t, [m EXCEPT !.suspended[r] = c])
  OBVIOUS
<1>3. Follows(t, [m EXCEPT !.executing[r] = c])
  OBVIOUS
<1> QED BY <1>1, <1>2, <1>3

-----------------------------------------------------------------------------
(* The operations up to their first await: what becomes of the call.       *)

\* The call k0 has become k: it throws, or it is in order, for the same run and
\* in the same context.
Outcome(k0, k) ==
    /\ k.run = k0.run /\ k.ctx = k0.ctx /\ k.from = k0.from
    /\ k.pc = "thrown" \/ (TaskOK(k, ledger, last) /\ k.pc # "advance")

\* An exception is an outcome.
LEMMA ThrownFacts ==
    ASSUME NEW k \in TaskRecord
    PROVE  Outcome(k, Thrown(k)) /\ Thrown(k).pc = "thrown"
BY DEF Thrown, Outcome, TaskRecord

\* So is a decision that transition() has accepted.
LEMMA RequestOutcome ==
    ASSUME NEW k \in TaskRecord, k.run \in Runs, NEW op \in OpNames,
           NEW e \in DecisionEntry, NEW x, RecOK(x), Covers(e, x),
           op \in LoopOps => k.ctx \in Contexts,
           Fits(op, x),
           op = "begin-retry" => HasRecord
    PROVE  /\ Outcome(k, Request(k, op, e, x))
           /\ Request(k, op, e, x).pc = "check" /\ Request(k, op, e, x).op = op
<1>1. op = "begin-retry" => last # NoRun
  BY DEF HasRecord
<1> DEFINE q == Request(k, op, e, x)
<1>2. /\ TaskOK(q, ledger, last) /\ q.pc = "check" /\ q.op = op
      /\ q.run = k.run /\ q.ctx = k.ctx /\ q.from = k.from
  BY <1>1, RequestFacts
<1> HIDE DEF q
<1>3. Outcome(k, q)
  BY <1>2 DEF Outcome
<1> QED BY <1>2, <1>3 DEF q

\* The budget that an operation works with: the one of the record or the contract.
LEMMA BudgetFacts ==
    ASSUME PersistOK, HasRecord, Rec.budget # NoBudget
    PROVE  Rec.budget \in Budgets
BY RecFacts DEF RecOK, RunStateRecord

\* The usage that a turn may have.
LEMMA CostsFacts == Costs \subseteq BOOLEAN
BY DEF Costs

\* The charge of a turn touches neither the retries nor the limits.
LEMMA ChargedFacts ==
    ASSUME NEW b \in Budgets, NEW turn \in Nat, NEW cost \in BOOLEAN
    PROVE  /\ Charged(b, turn, cost) \in Budgets
           /\ Charged(b, turn, cost).usedRetries = b.usedRetries
           /\ Charged(b, turn, cost).usedTurns = turn
           /\ Charged(b, turn, cost).maxTurns = b.maxTurns
           /\ Charged(b, turn, cost).maxRetries = b.maxRetries
<1> DEFINE spent == b.spent \/ cost
<1>1. spent \in BOOLEAN
  BY DEF Budgets
<1>2. Charged(b, turn, cost) = [b EXCEPT !.usedTurns = turn, !.spent = spent]
  BY DEF Charged, Budgets
<1> HIDE DEF spent
<1> QED BY <1>1, <1>2 DEF Budgets

\* What a turn comes to is a state, and a retry is only granted while there is one.
LEMMA DecideFacts ==
    ASSUME NEW j \in {"crashed", "passed", "failed", "blocked", "merge"},
           NEW b \in Budgets
    PROVE  LET kind == DecideControl(j, b)
               jb   == JudgedBudget(b, kind)
           IN  /\ kind \in RunState /\ jb \in Budgets
               /\ jb.usedRetries = IF kind = "retry" THEN b.usedRetries + 1 ELSE b.usedRetries
               /\ jb.maxRetries = b.maxRetries
               /\ kind = "retry" => jb.usedRetries <= jb.maxRetries
<1> DEFINE kind == DecideControl(j, b)
           jb   == JudgedBudget(b, kind)
<1>1. kind \in RunState
  BY DEF DecideControl, RunState
<1>2. kind = "retry" => b.usedRetries < b.maxRetries
  BY DEF DecideControl, CanRetry
<1> HIDE DEF kind
<1> DEFINE used == IF kind = "retry" THEN b.usedRetries + 1 ELSE b.usedRetries
<1>3. used \in Nat /\ (kind = "retry" => used <= b.maxRetries)
  BY <1>2 DEF Budgets
<1>4. jb = [b EXCEPT !.usedRetries = used]
  BY DEF JudgedBudget, Budgets
<1> HIDE DEF used, jb
<1>5. jb \in Budgets /\ jb.usedRetries = used /\ jb.maxRetries = b.maxRetries
  BY <1>3, <1>4 DEF Budgets
<1> QED BY <1>1, <1>3, <1>5 DEF kind, jb, used

\* applyJudgment() replays a decision, prepares one or throws.
LEMMA ApplyJudgmentOutcome ==
    ASSUME PersistOK, NEW k \in TaskRecord, k.run \in Runs, k.ctx \in Contexts,
           NEW op \in {"judge", "gate"}, NEW turn \in Nat,
           NEW j \in {"crashed", "passed", "failed", "blocked", "merge"},
           NEW b \in Blockers, NEW cost \in BOOLEAN
    PROVE  LET q == ApplyJudgment(k, op, turn, j, b, cost)
           IN  Outcome(k, q) /\ (q.pc = "thrown" \/ (q.pc \in {"judged", "check"} /\ q.op = op))
<1> DEFINE own  == HasRecord /\ Rec.run = k.run
           base == IF own /\ Rec.budget # NoBudget THEN Rec.budget ELSE Contract
           bt   == Charged(base, turn, cost)
           kind == DecideControl(j, bt)
           asks == kind = "needs_human"
           to   == IF asks /\ RepeatedBlockerCount(k.run, b) > MaxSameFailure
                   THEN "failed" ELSE kind
           old  == IF own THEN Rec ELSE Seed(k.run, turn, base)
           jb   == JudgedBudget(bt, kind)
           pend == IF to = "needs_human" THEN "approval" ELSE "none"
           new  == [To(old, to) EXCEPT !.turn = turn, !.budget = jb, !.pending = pend]
           blk  == IF asks THEN b ELSE NoBlocker
           e    == [Entry(k.run, turn, kind, to) EXCEPT !.blocker = blk]
<1>1. base \in Budgets
  BY BudgetFacts, ContractFacts
<1> HIDE DEF base
<1>a. bt \in Budgets
  BY <1>1, ChargedFacts
<1> HIDE DEF bt
<1>2. /\ kind \in RunState /\ jb \in Budgets
      /\ kind = "retry" => jb.usedRetries <= jb.maxRetries
  BY <1>a, DecideFacts
<1>3. RecOK(old) /\ old.run = k.run
  BY <1>1, RecFacts, SeedFacts
<1> HIDE DEF kind, old, own, jb
<1>4. /\ to \in RunState /\ pend \in Pendings /\ (to = "needs_human" => pend # "none")
      /\ to = "retry" => jb.usedRetries <= jb.maxRetries
  BY <1>2 DEF RunState, Pendings
<1>5. blk \in Blockers \cup {NoBlocker}
  OBVIOUS
<1> HIDE DEF to, pend, blk
<1>6. RecOK(new) /\ new.state = to /\ new.run = k.run
  BY <1>2, <1>3, <1>4 DEF RecOK, RunStateRecord, To
<1>7. e \in DecisionEntry /\ e.run = k.run /\ e.to = to
  BY <1>2, <1>4, <1>5 DEF Entry, DecisionEntry, DecisionNames
<1> HIDE DEF new, e
<1>8. Covers(e, new)
  BY <1>6, <1>7 DEF Covers
<1> DEFINE replayed == [k EXCEPT !.pc = "judged", !.op = op, !.status = Rec.state]
           replay == /\ own /\ Rec.turn = turn /\ Rec.state # "active"
                     /\ Recorded(Entry(k.run, turn, Rec.state, Rec.state))
           q == ApplyJudgment(k, op, turn, j, b, cost)
<1>9. q = IF replay THEN replayed
          ELSE IF Legal(old, new) THEN Request(k, op, e, new) ELSE Thrown(k)
  BY DEF ApplyJudgment, own, base, bt, kind, asks, to, old, jb, pend, new, blk, e
<1>10. CASE replay
  <2>1. Rec.state \in RunState
    BY <1>10, RecFacts DEF own, RecOK, RunStateRecord
  <2>a. op \in OpNames
    BY DEF OpNames
  <2>2. /\ replayed \in TaskRecord /\ replayed.pc = "judged" /\ replayed.op = op
        /\ replayed.run = k.run /\ replayed.ctx = k.ctx /\ replayed.from = k.from
    BY <2>1, <2>a DEF TaskRecord, Steps
  <2> HIDE DEF replayed
  <2>3. TaskOK(replayed, ledger, last)
    BY <2>2 DEF TaskOK, Deciding
  <2> QED BY <1>9, <1>10, <2>2, <2>3 DEF Outcome
<1>11. CASE ~replay /\ Legal(old, new)
  <2>1. op \in OpNames /\ op \notin {"advance", "advance-over", "advance-limit", "begin-retry"}
    BY DEF OpNames
  <2>2. Outcome(k, Request(k, op, e, new)) /\ Request(k, op, e, new).pc = "check"
        /\ Request(k, op, e, new).op = op
    BY <1>6, <1>7, <1>8, <2>1, RequestOutcome DEF Fits
  <2> QED BY <1>9, <1>11, <2>2
<1>12. CASE ~replay /\ ~Legal(old, new)
  BY <1>9, <1>12, ThrownFacts
<1> HIDE DEF q
<1> QED BY <1>10, <1>11, <1>12 DEF q

\* beginTurn() of an active record: the turn begins or the budget is exhausted.
LEMMA BeginActiveOutcome ==
    ASSUME NEW k \in TaskRecord, k.run \in Runs, k.ctx \in Contexts,
           NEW x, RecOK(x), x.state = "active", NEW turn \in Nat
    PROVE  LET q == BeginActive(k, x, turn)
           IN  Outcome(k, q) /\ (q.pc = "stamp" \/ (q.pc = "check" /\ q.op = "begin-limit"))
<1> DEFINE q == BeginActive(k, x, turn)
<1>1. CASE ExhaustedAtTurnStart(x.budget)
  <2> DEFINE e == Entry(k.run, x.turn, "budget_limited", "budget_limited")
             y == To(x, "budget_limited")
  <2>1. e \in DecisionEntry /\ e.to = "budget_limited" /\ e.name \in Misaddressed
    <3>1. x.turn \in Nat
      BY DEF RecOK, RunStateRecord
    <3>2. "budget_limited" \in DecisionNames /\ "budget_limited" \in RunState
      BY DEF DecisionNames, RunState
    <3> QED BY <3>1, <3>2, EntryFacts DEF Misaddressed
  <2>2. RecOK(y) /\ y.state = "budget_limited"
    BY ToFacts DEF RunState
  <2>3. q = Request(k, "begin-limit", e, y)
    BY <1>1 DEF BeginActive
  <2> HIDE DEF e, y, q
  <2>4. Covers(e, y)
    BY <2>1, <2>2 DEF Covers
  <2>5. "begin-limit" \in OpNames
    BY DEF OpNames
  <2>6. Outcome(k, q) /\ q.pc = "check" /\ q.op = "begin-limit"
    BY <2>1, <2>2, <2>3, <2>4, <2>5, RequestOutcome DEF Fits
  <2> QED BY <2>6 DEF q
<1>2. CASE ~ExhaustedAtTurnStart(x.budget)
  <2> DEFINE y == [x EXCEPT !.turn = turn]
  <2>1. RecOK(y) /\ y.state = "active"
    BY DEF RecOK, RunStateRecord
  <2>2. y \in RunStateRecord
    BY <2>1 DEF RecOK
  <2>3. q = [k EXCEPT !.pc = "stamp", !.rec = y]
    BY <1>2 DEF BeginActive
  <2> HIDE DEF y, q
  <2>4. /\ q \in TaskRecord /\ q.pc = "stamp" /\ q.rec = y /\ q.run = k.run
        /\ q.ctx = k.ctx /\ q.from = k.from
    BY <2>2, <2>3 DEF TaskRecord, Steps
  <2>5. Outcome(k, q)
    BY <2>1, <2>4 DEF Outcome, TaskOK, Deciding, Backed
  <2> QED BY <2>4, <2>5 DEF q
<1> QED BY <1>1, <1>2

\* beginTurn().
LEMMA BeginTurnOutcome ==
    ASSUME PersistOK, NEW k \in TaskRecord, k.run \in Runs, k.ctx \in Contexts,
           NEW turn \in Nat
    PROVE  LET q == BeginTurn(k, turn)
           IN  /\ Outcome(k, q)
               /\ \/ q.pc \in {"thrown", "stamp"}
                  \/ q.pc = "check" /\ q.op \in {"begin-limit", "begin-retry"}
<1> DEFINE q == BeginTurn(k, turn)
           own == HasRecord /\ Rec.run = k.run
<1>1. CASE own /\ Rec.state = "retry"
  <2> DEFINE e == Entry(k.run, Rec.turn, "resumed-retry", "active")
             y == To(Rec, "active")
  <2>1. RecOK(Rec) /\ HasRecord
    BY <1>1, RecFacts
  <2>2. e \in DecisionEntry /\ e.to = "active"
    <3>1. Rec.turn \in Nat
      BY <2>1 DEF RecOK, RunStateRecord
    <3>2. "resumed-retry" \in DecisionNames /\ "active" \in RunState
      BY DEF DecisionNames, RunState
    <3> QED BY <3>1, <3>2, EntryFacts
  <2>3. RecOK(y) /\ y.state = "active"
    BY <2>1, ToFacts DEF RunState
  <2>4. q = Request(k, "begin-retry", e, y)
    BY <1>1 DEF BeginTurn
  <2> HIDE DEF e, y, q
  <2>5. Covers(e, y) /\ "begin-retry" \in OpNames
    BY <2>2, <2>3 DEF Covers, OpNames
  <2>6. Outcome(k, q) /\ q.pc = "check" /\ q.op = "begin-retry"
    BY <2>1, <2>2, <2>3, <2>4, <2>5, RequestOutcome DEF Fits
  <2> QED BY <2>6 DEF q
<1>2. CASE own /\ Rec.state = "active"
  <2>1. q = BeginActive(k, Rec, turn)
    BY <1>2 DEF BeginTurn
  <2> QED BY <1>2, <2>1, RecFacts, BeginActiveOutcome
<1>3. CASE ~own \/ Rec.state \notin {"retry", "active"}
  <2>1. q = Thrown(k)
    BY <1>3 DEF BeginTurn
  <2> QED BY <2>1, ThrownFacts
<1> HIDE DEF q
<1> QED BY <1>1, <1>2, <1>3 DEF q

\* advanceSubtaskTurn(): the record is active for the next turn.
LEMMA AdvanceOutcome ==
    ASSUME PersistOK, NEW k \in TaskRecord, k.run \in Runs, k.ctx \in Contexts,
           NEW done \in Nat, NEW cost \in BOOLEAN
    PROVE  LET q == AdvanceSubtaskTurn(k, done, cost)
           IN  Outcome(k, q) /\ q.pc = "check" /\ q.op \in {"advance", "advance-over"}
<1> DEFINE base == IF HasRecord /\ Rec.budget # NoBudget THEN Rec.budget ELSE Contract
           b    == Charged(base, done, cost)
           old  == IF HasRecord THEN Rec ELSE Seed(k.run, done, b)
           over == done + 1 > b.maxTurns
           op   == IF over THEN "advance-over" ELSE "advance"
           turn == IF over THEN done ELSE done + 1
           e    == Entry(k.run, done, "subtask_advance", "active")
           y    == [old EXCEPT !.run = k.run, !.state = "active", !.budget = b, !.turn = turn]
           q    == AdvanceSubtaskTurn(k, done, cost)
<1>1. q = Request(k, op, e, y)
  BY DEF AdvanceSubtaskTurn
<1>2. base \in Budgets
  BY BudgetFacts, ContractFacts
<1> HIDE DEF base
<1>3. b \in Budgets
  BY <1>2, ChargedFacts
<1> HIDE DEF b
<1>4. RecOK(old)
  BY <1>3, RecFacts, SeedFacts
<1>5. turn \in Nat /\ op \in {"advance", "advance-over"} /\ (op = "advance-over" => turn # 0)
  BY <1>3 DEF Budgets
<1> HIDE DEF old, over, op, turn, q
<1>6. RecOK(y) /\ y.state = "active" /\ y.turn = turn
  BY <1>3, <1>4, <1>5 DEF RecOK, RunStateRecord, RunState
<1>7. e \in DecisionEntry /\ e.to = "active"
  BY EntryFacts DEF RunState, DecisionNames
<1> HIDE DEF y, e
<1>8. Covers(e, y) /\ op \in OpNames /\ op # "begin-retry"
  BY <1>5, <1>6, <1>7 DEF Covers, OpNames
<1>9. Outcome(k, q) /\ q.pc = "check" /\ q.op = op
  BY <1>1, <1>5, <1>6, <1>7, <1>8, RequestOutcome DEF Fits
<1> QED BY <1>5, <1>9 DEF q

\* The rest of it without a budget for the next turn.
LEMMA LimitAdvanceOutcome ==
    ASSUME NEW k \in TaskRecord, k.run \in Runs, k.ctx \in Contexts, RecOK(k.rec),
           k.rec.turn # 0
    PROVE  LET q == LimitAdvance(k)
           IN  Outcome(k, q) /\ q.pc = "check" /\ q.op = "advance-limit"
<1> DEFINE e == Entry(k.run, k.rec.turn, "budget_limited", "budget_limited")
           y == To(k.rec, "budget_limited")
           q == LimitAdvance(k)
<1>1. e \in DecisionEntry /\ e.to = "budget_limited" /\ e.name \in Misaddressed
  <2>1. k.rec.turn \in Nat
    BY DEF RecOK, RunStateRecord
  <2>2. "budget_limited" \in DecisionNames /\ "budget_limited" \in RunState
    BY DEF DecisionNames, RunState
  <2> QED BY <2>1, <2>2, EntryFacts DEF Misaddressed
<1>2. RecOK(y) /\ y.state = "budget_limited" /\ y.turn # 0
  <2>1. RecOK(y) /\ y.state = "budget_limited"
    BY ToFacts DEF RunState
  <2>2. y.turn = k.rec.turn
    BY DEF To, RecOK, RunStateRecord
  <2> QED BY <2>1, <2>2
<1>3. q = Request(k, "advance-limit", e, y)
  BY DEF LimitAdvance
<1> HIDE DEF e, y, q
<1>4. Covers(e, y) /\ "advance-limit" \in OpNames
  BY <1>1, <1>2 DEF Covers, OpNames
<1>5. Outcome(k, q) /\ q.pc = "check" /\ q.op = "advance-limit"
  BY <1>1, <1>2, <1>3, <1>4, RequestOutcome DEF Fits
<1> QED BY <1>5 DEF q

\* failRun() fails the run, throws, or has nothing to fail.
LEMMA FailRunOutcome ==
    ASSUME PersistOK, NEW k \in TaskRecord, k.run \in Runs, NEW op \in {"deadloop", "fail"},
           op = "deadloop" => k.ctx \in Contexts, NEW force \in BOOLEAN, NEW otherwise
    PROVE  LET q == FailRun(k, op, force, otherwise)
           IN  \/ q = otherwise
               \/ Outcome(k, q) /\ (q.pc = "thrown" \/ (q.pc = "check" /\ q.op = op))
<1> DEFINE q == FailRun(k, op, force, otherwise)
           nothing == \/ ~(HasRecord /\ Rec.run = k.run)
                      \/ Rec.state \in {"complete", "failed", "discarded"}
                      \/ ~force /\ Rec.state \notin InFlight
           e == Entry(k.run, Rec.turn, "restart-recovery-failed", "failed")
           y == Answered(Rec, "failed")
<1>1. q = IF nothing THEN otherwise
          ELSE IF Legal(Rec, To(Rec, "failed")) THEN Request(k, op, e, y) ELSE Thrown(k)
  BY DEF FailRun
<1>2. CASE ~nothing
  <2>1. RecOK(Rec) /\ Rec.run = k.run
    BY <1>2, RecFacts
  <2>2. e \in DecisionEntry /\ e.to = "failed" /\ e.run = k.run
    BY <2>1, EntryFacts DEF RecOK, RunStateRecord, RunState, DecisionNames
  <2>3. RecOK(y) /\ y.state = "failed" /\ y.run = k.run
    BY <2>1, ToFacts DEF RunState
  <2> HIDE DEF e, y, q, nothing
  <2>4. Covers(e, y) /\ op \in OpNames
    BY <2>2, <2>3 DEF Covers, OpNames
  <2>5. Outcome(k, Request(k, op, e, y)) /\ Request(k, op, e, y).pc = "check"
        /\ Request(k, op, e, y).op = op
    BY <2>2, <2>3, <2>4, RequestOutcome DEF LoopOps, Fits
  <2> QED BY <1>1, <1>2, <2>5, ThrownFacts DEF q
<1> QED BY <1>1, <1>2

\* settleMerge().
LEMMA SettleMergeOutcome ==
    ASSUME PersistOK, NEW k \in TaskRecord, k.run \in Runs, k.ctx \in Contexts,
           NEW turn \in Nat, NEW ok \in BOOLEAN
    PROVE  LET q == SettleMerge(k, turn, ok)
           IN  Outcome(k, q) /\ (q.pc = "thrown" \/ (q.pc = "check" /\ q.op = "settle"))
<1> DEFINE q  == SettleMerge(k, turn, ok)
           to == IF ok THEN "complete" ELSE "failed"
           e  == Entry(k.run, turn, to, to)
           y  == To(Rec, to)
           own == HasRecord /\ Rec.run = k.run /\ Rec.state = "active"
<1>1. q = IF own THEN Request(k, "settle", e, y) ELSE Thrown(k)
  BY DEF SettleMerge
<1>2. CASE own
  <2>1. RecOK(Rec) /\ Rec.run = k.run
    BY <1>2, RecFacts
  <2>2. to \in RunState /\ to \notin {"needs_human", "retry"} /\ to \in DecisionNames
    BY DEF RunState, DecisionNames
  <2> HIDE DEF to
  <2>3. e \in DecisionEntry /\ e.to = to /\ e.run = k.run
    BY <2>2, EntryFacts
  <2>4. RecOK(y) /\ y.state = to /\ y.run = k.run
    BY <2>1, <2>2, ToFacts
  <2> HIDE DEF e, y, q, own
  <2>5. Covers(e, y) /\ "settle" \in OpNames
    BY <2>3, <2>4 DEF Covers, OpNames
  <2>6. Outcome(k, Request(k, "settle", e, y)) /\ Request(k, "settle", e, y).pc = "check"
        /\ Request(k, "settle", e, y).op = "settle"
    BY <2>3, <2>4, <2>5, RequestOutcome DEF Fits
  <2> QED BY <1>1, <1>2, <2>6 DEF q
<1>3. CASE ~own
  BY <1>1, <1>3, ThrownFacts
<1> QED BY <1>2, <1>3

\* requestRestartRecovery() asks a person.
LEMMA RecoveryOutcome ==
    ASSUME PersistOK, HasRecord, NEW k \in TaskRecord, k.run = Rec.run
    PROVE  LET q == RequestRestartRecovery(k)
           IN  Outcome(k, q) /\ (q.pc = "thrown" \/ (q.pc = "check" /\ q.op = "recover"))
<1> DEFINE q == RequestRestartRecovery(k)
           pend == IF Rec.state = "retry" THEN "restart-retry" ELSE "restart-active"
           e == Entry(k.run, Rec.turn, "restart-recovery", "needs_human")
           y == [To(Rec, "needs_human") EXCEPT !.pending = pend]
<1>1. q = IF Legal(Rec, y) THEN Request(k, "recover", e, y) ELSE Thrown(k)
  BY DEF RequestRestartRecovery
<1>2. RecOK(Rec) /\ k.run \in Runs
  BY RecFacts
<1>3. e \in DecisionEntry /\ e.to = "needs_human" /\ e.run = k.run
  BY <1>2, EntryFacts DEF RecOK, RunStateRecord, RunState, DecisionNames
<1>4. RecOK(y) /\ y.state = "needs_human" /\ y.run = k.run
  BY <1>2 DEF RecOK, RunStateRecord, RunState, To, Pendings
<1> HIDE DEF e, y, q, pend
<1>5. Covers(e, y) /\ "recover" \in OpNames
  BY <1>3, <1>4 DEF Covers, OpNames
<1>6. Outcome(k, Request(k, "recover", e, y)) /\ Request(k, "recover", e, y).pc = "check"
      /\ Request(k, "recover", e, y).op = "recover"
  BY <1>2, <1>3, <1>4, <1>5, RequestOutcome DEF LoopOps, Fits
<1> QED BY <1>1, <1>6, ThrownFacts DEF q

-----------------------------------------------------------------------------
(* What the steps have in common.                                          *)

\* The files stay as they are, but for what no record depends on.
LEMMA PersistStays ==
    ASSUME PersistOK, UNCHANGED <<snap, last, ledger>>, files' \in Files
    PROVE  PersistOK'
BY DEF PersistOK, RecordsOK, HasRecord

\* A snapshot in order, with its decision in the ledger, is saved.
LEMMA PersistSave ==
    ASSUME PersistOK, NEW x, RecOK(x), Backed(x, ledger), Save(x), ledger' = ledger,
           files' \in Files
    PROVE  PersistOK' /\ HasRecord'
<1>1. x \in RunStateRecord /\ x.run \in Runs /\ x # NoRecord
  BY Constants DEF RecOK, RunStateRecord
<1>2. snap' = [snap EXCEPT ![x.run] = x] /\ last' = x.run
  BY DEF Save
<1>3. snap'[x.run] = x /\ \A r \in Runs \ {x.run} : snap'[r] = snap[r]
  BY <1>1, <1>2 DEF PersistOK
<1>4. snap' \in [Runs -> RunStateRecord \cup {NoRecord}]
  BY <1>1, <1>2 DEF PersistOK
<1>5. \A r \in Runs : snap'[r] = NoRecord \/ snap'[r].run = r
  BY <1>3 DEF PersistOK
<1>6. RecordsOK'
  BY <1>3 DEF PersistOK, RecordsOK
<1>7. HasRecord' /\ snap'[last'] # NoRecord
  BY <1>1, <1>2, <1>3, Constants DEF HasRecord
<1> QED BY <1>1, <1>2, <1>4, <1>5, <1>6, <1>7 DEF PersistOK

\* What is known of a call.
LEMMA TaskFacts ==
    ASSUME IInv, NEW t \in Tasks
    PROVE  /\ task[t] \in TaskRecord /\ TaskOK(task[t], ledger, last)
           /\ task[t].pc # "idle" => task[t].run \in Runs /\ Follows(t, mem)
           /\ InLoop(task[t]) => task[t].ctx \in Contexts
           /\ Within(t, task[t].ctx)
           /\ mem.up => Follows(t, mem)
           /\ MemOK(mem)
BY UpFacts DEF IInv, CallsOK, TaskOK, Within

\* The context that is made is one, and new.
LEMMA NewContextFacts ==
    ASSUME RoomForContext
    PROVE  NewContext \in Contexts /\ Fresh(NewContext)
BY DEF RoomForContext, NewContext

\* A context is set that is new, or nobody else's, or moves on.
LEMMA ContextSet ==
    ASSUME NEW t \in Tasks, NEW m, Follows(t, m), NEW c \in Contexts,
           NEW v \in [turn : Nat, sub : Nat],
           \/ \A u \in Tasks \ {t} : task[u].ctx # c
           \/ v.turn >= mem.contexts[c].turn
           \/ v.turn >= 1
    PROVE  /\ Follows(t, [m EXCEPT !.contexts[c] = v])
           /\ [m EXCEPT !.contexts[c] = v].contexts[c] = v
           /\ [m EXCEPT !.contexts[c] = v].suspended = m.suspended
           /\ [m EXCEPT !.contexts[c] = v].executing = m.executing
BY DEF Follows, TurnsKept, MemOK, Memory

\* The result of an operation: the call goes on, or the exception is caught.
LEMMA ProceedStep ==
    ASSUME CallsOK, NEW t \in Tasks, NEW k0, NEW k, NEW m, Outcome(k0, k),
           Proceed(t, k, m), ledger' = ledger, HasRecord => HasRecord',
           Follows(t, m), k.run \in Runs, Within(t, k.ctx),
           Alone(k) => m = mem /\ Alone(task[t]) /\ k.ctx = task[t].ctx
    PROVE  CallsOK'
<1>1. CASE k.pc = "thrown"
  <2>1. Becomes(t, IdleTask, Caught(m, k))
    BY <1>1 DEF Proceed
  <2>2. Follows(t, Caught(m, k))
    BY MemoryMoves DEF Caught
  <2> QED BY <2>1, <2>2, IdleFacts, BecomesStep
<1>2. CASE k.pc # "thrown"
  <2>1. Becomes(t, k, m) /\ TaskOK(k, ledger, last) /\ k.pc # "advance"
    BY <1>2 DEF Proceed, Outcome
  <2>2. TaskOK(k, ledger', last')
    BY <2>1, TaskStays DEF HasRecord
  <2>3. Placed(t, k, m)
    BY <2>1 DEF Placed
  <2> QED BY <2>1, <2>2, <2>3, BecomesStep
<1> QED BY <1>1, <1>2

\* A call comes to a step in which it has prepared nothing.
LEMMA PlainStep ==
    ASSUME CallsOK, NEW t \in Tasks, NEW k \in TaskRecord, NEW m, Becomes(t, k, m),
           k.pc \in {"turn", "verify", "judged", "handoff", "drive", "begin", "merge",
                     "continue", "recover"},
           k.run \in Runs, InLoop(k) => k.ctx \in Contexts, Within(t, k.ctx),
           Follows(t, m), ledger' = ledger, HasRecord => HasRecord'
    PROVE  CallsOK'
<1>1. TaskOK(k, ledger', last') /\ Placed(t, k, m)
  BY DEF TaskOK, Deciding, Placed, Alone
<1> QED BY <1>1, BecomesStep

\* A call is over.
LEMMA IdleStep ==
    ASSUME CallsOK, NEW t \in Tasks, NEW m, Becomes(t, IdleTask, m),
           Follows(t, m), ledger' = ledger, HasRecord => HasRecord'
    PROVE  CallsOK'
BY IdleFacts, BecomesStep

-----------------------------------------------------------------------------
(* The steps of the turn loop.                                             *)

\* The invariant holds initially.
LEMMA InitInv == Init => IInv
<1> SUFFICES ASSUME Init PROVE IInv
  OBVIOUS
<1>1. PersistOK
  <2>1. IsFiniteSet(ledger)
    BY FS_EmptySet DEF Init
  <2>2. files \in Files
    BY DEF Init, Files, NoCheckpoint
  <2> QED BY <2>1, <2>2 DEF Init, PersistOK, RecordsOK, HasRecord
<1>2. MemOK(mem) /\ mem.up
  BY DEF Init, EmptyMemory, MemOK, Memory, NoTurn
<1>3. \A t \in Tasks : task[t] = IdleTask /\ task[t].pc = "idle"
  BY IdleFacts DEF Init
<1>4. task \in [Tasks -> TaskRecord] /\ \A t \in Tasks : TaskOK(task[t], ledger, last)
  BY <1>3, IdleFacts DEF Init
<1>5. GatesAlone /\ AdvancePositive
  BY <1>3 DEF GatesAlone, AdvancePositive, Alone, Deciding
<1> QED BY <1>1, <1>2, <1>4, <1>5 DEF IInv, CallsOK, DownIsQuiet

\* A run is started in a context of its own.
LEMMA StartRunInv ==
    ASSUME IInv, NEW t \in Tasks, NEW r \in Runs, StartRun(t, r)
    PROVE  IInv'
<1> DEFINE c == NewContext
           k == [IdleTask EXCEPT !.pc = "setup", !.run = r, !.ctx = c, !.from = "start"]
           v == [turn |-> 1, sub |-> 0]
           m == [Register(mem, r) EXCEPT !.contexts[c] = v]
<1>1. /\ mem.up /\ RoomForContext /\ Becomes(t, k, m)
      /\ UNCHANGED <<snap, last, ledger, files>>
  BY DEF StartRun, Free
<1>2. c \in Contexts /\ Fresh(c)
  BY <1>1, NewContextFacts
<1> HIDE DEF c
<1>3. /\ k \in TaskRecord /\ k.pc = "setup" /\ k.run = r /\ k.ctx = c
  BY <1>2, IdleFacts DEF TaskRecord, Steps
<1>4. Follows(t, Register(mem, r))
  BY <1>1, TaskFacts, MemoryMoves
<1>5. v \in [turn : Nat, sub : Nat]
  OBVIOUS
<1>6. Follows(t, m) /\ m.suspended = Register(mem, r).suspended
      /\ m.executing = Register(mem, r).executing
  <2>1. \A u \in Tasks \ {t} : task[u].ctx # c
    BY <1>2 DEF Fresh
  <2> HIDE DEF v
  <2> QED BY <1>2, <1>4, <1>5, <2>1, ContextSet
<1>7. Register(mem, r).suspended = mem.suspended /\ Register(mem, r).executing = mem.executing
  BY TaskFacts DEF Register, MemOK, Memory
<1> HIDE DEF k, m
<1>8. TaskOK(k, ledger', last')
  BY <1>2, <1>3 DEF TaskOK, Deciding
<1>9. Placed(t, k, m)
  BY <1>2, <1>3, <1>6, <1>7 DEF Placed, Within
<1>10. CallsOK'
  BY <1>1, <1>6, <1>8, <1>9, BecomesStep DEF IInv, HasRecord
<1>11. PersistOK'
  BY <1>1, PersistStays DEF IInv, PersistOK
<1> QED BY <1>10, <1>11 DEF IInv

\* The set-up ends in the first turn or at the gate.
LEMMA SetUpInv ==
    ASSUME IInv, NEW t \in Tasks, SetUp(t)
    PROVE  IInv'
<1> DEFINE k == task[t]
<1>1. /\ k.pc = "setup" /\ UNCHANGED <<snap, last, ledger, files>>
      /\ ledger' = ledger
  BY DEF SetUp
<1>2. /\ k \in TaskRecord /\ k.run \in Runs /\ k.ctx \in Contexts /\ Follows(t, mem)
      /\ Within(t, k.ctx)
  BY <1>1, TaskFacts DEF InLoop
<1>3. PersistOK'
  BY <1>1, PersistStays DEF IInv, PersistOK
<1>4. HasRecord => HasRecord'
  BY <1>1 DEF HasRecord
<1>5. CASE Becomes(t, [k EXCEPT !.pc = "turn", !.from = "loop"], EnterLoop(mem, k))
  <2> DEFINE q == [k EXCEPT !.pc = "turn", !.from = "loop"]
  <2>1. q \in TaskRecord /\ q.pc = "turn" /\ q.run = k.run /\ q.ctx = k.ctx
    BY <1>2 DEF TaskRecord, Steps
  <2>2. Follows(t, EnterLoop(mem, k))
    BY <1>2, ContextMoves DEF EnterLoop
  <2> HIDE DEF q
  <2>3. TaskOK(q, ledger', last') /\ Placed(t, q, EnterLoop(mem, k))
    BY <1>2, <2>1 DEF TaskOK, Deciding, Placed, Alone
  <2>4. Becomes(t, q, EnterLoop(mem, k))
    BY <1>5 DEF q
  <2>5. CallsOK'
    BY <1>1, <1>4, <2>2, <2>3, <2>4, BecomesStep DEF IInv
  <2> QED BY <1>3, <2>5 DEF IInv
<1>6. CASE \E b \in Blockers : Proceed(t, ApplyJudgment(k, "gate", 0, "blocked", b, FALSE), mem)
  <2>1. PICK b \in Blockers : Proceed(t, ApplyJudgment(k, "gate", 0, "blocked", b, FALSE), mem)
    BY <1>6
  <2> DEFINE q == ApplyJudgment(k, "gate", 0, "blocked", b, FALSE)
  <2>2. Outcome(k, q)
    BY <1>2, ApplyJudgmentOutcome DEF IInv
  <2> HIDE DEF q
  <2>3. q.run = k.run /\ q.ctx = k.ctx
    BY <2>2 DEF Outcome
  <2>4. Alone(k)
    BY <1>1 DEF Alone
  <2>5. Proceed(t, q, mem)
    BY <2>1 DEF q
  <2>6. CallsOK'
    BY <1>1, <1>2, <1>4, <2>2, <2>3, <2>4, <2>5, ProceedStep DEF IInv
  <2> QED BY <1>3, <2>6 DEF IInv
<1> QED BY <1>5, <1>6 DEF SetUp

\* The end of a turn: the run is paused, or its turn is verified.
LEMMA EndTurnInv ==
    ASSUME IInv, NEW t \in Tasks, EndTurn(t)
    PROVE  IInv'
<1> DEFINE k == task[t]
           q == [k EXCEPT !.pc = "verify"]
<1>1. /\ k.pc = "turn" /\ UNCHANGED <<snap, last, ledger, files>>
      /\ \/ Becomes(t, IdleTask, Suspend(mem, k.run, k.ctx))
         \/ Becomes(t, q, mem)
  BY DEF EndTurn
<1>2. /\ k \in TaskRecord /\ k.run \in Runs /\ k.ctx \in Contexts /\ Follows(t, mem)
      /\ Within(t, k.ctx)
  BY <1>1, TaskFacts DEF InLoop
<1>3. PersistOK' /\ (HasRecord => HasRecord')
  BY <1>1, PersistStays DEF IInv, PersistOK, HasRecord
<1>4. /\ q \in TaskRecord /\ q.pc = "verify" /\ q.run = k.run /\ q.ctx = k.ctx
  BY <1>2 DEF TaskRecord, Steps
<1> HIDE DEF q
<1>5. Follows(t, Suspend(mem, k.run, k.ctx))
  BY <1>2, ContextMoves
<1>6. CallsOK'
  BY <1>1, <1>2, <1>3, <1>4, <1>5, PlainStep, IdleStep DEF IInv
<1> QED BY <1>3, <1>6 DEF IInv

\* The turn of a context is a number.
LEMMA TurnFacts ==
    ASSUME IInv, NEW k, k.ctx \in Contexts
    PROVE  Turn(k) \in Nat
BY DEF IInv, CallsOK, MemOK, Memory, Turn

\* The judgment of a turn, with the gate that a merge waits behind.
LEMMA JudgeInv ==
    ASSUME IInv, NEW t \in Tasks, Judge(t)
    PROVE  IInv'
<1> DEFINE k == [task[t] EXCEPT !.killed = FALSE]
<1>1. PICK j \in Verdicts(task[t]) :
         /\ task[t].pc = "verify" /\ UNCHANGED <<snap, last, ledger>>
         /\ files' = IF j = "merge" THEN [files EXCEPT !.gates[k.run] = Turn(k)] ELSE files
         /\ IF j = "advance"
            THEN Becomes(t, [k EXCEPT !.pc = "handoff", !.status = "advance"], mem)
            ELSE \E b \in Blockers, cost \in Costs :
                    Proceed(t, ApplyJudgment(k, "judge", Turn(k), j, b, cost), mem)
  <2>1. k.pc = task[t].pc
    BY TaskFacts DEF TaskRecord
  <2> QED BY <2>1 DEF Judge
<1>2. /\ task[t] \in TaskRecord /\ task[t].run \in Runs /\ task[t].ctx \in Contexts
      /\ Follows(t, mem) /\ Within(t, task[t].ctx)
  BY <1>1, TaskFacts DEF InLoop
<1>3. /\ k \in TaskRecord /\ k.run \in Runs /\ k.ctx \in Contexts /\ k.ctx = task[t].ctx
  BY <1>2 DEF TaskRecord
<1> HIDE DEF k
<1>4. Turn(k) \in Nat
  BY <1>3, TurnFacts
<1>5. files' \in Files
  BY <1>1, <1>3, <1>4 DEF IInv, PersistOK, Files
<1>6. PersistOK' /\ (HasRecord => HasRecord')
  BY <1>1, <1>5, PersistStays DEF IInv, HasRecord
<1>7. CASE j = "advance"
  <2> DEFINE q == [k EXCEPT !.pc = "handoff", !.status = "advance"]
  <2>1. q \in TaskRecord /\ q.pc = "handoff" /\ q.run = k.run /\ q.ctx = k.ctx
    BY <1>3 DEF TaskRecord, Steps
  <2>2. Becomes(t, q, mem)
    BY <1>1, <1>7
  <2> HIDE DEF q
  <2>3. CallsOK'
    BY <1>1, <1>2, <1>3, <1>6, <2>1, <2>2, PlainStep DEF IInv
  <2> QED BY <1>6, <2>3 DEF IInv
<1>8. CASE j # "advance"
  <2>1. PICK b \in Blockers, cost \in BOOLEAN :
          Proceed(t, ApplyJudgment(k, "judge", Turn(k), j, b, cost), mem)
    BY <1>1, <1>8, CostsFacts
  <2> DEFINE q == ApplyJudgment(k, "judge", Turn(k), j, b, cost)
  <2>2. j \in {"crashed", "passed", "failed", "blocked", "merge"}
    BY <1>8 DEF Verdicts
  <2>3. Outcome(k, q) /\ (q.pc = "thrown" \/ (q.pc \in {"judged", "check"} /\ q.op = "judge"))
    BY <1>3, <1>4, <2>2, ApplyJudgmentOutcome DEF IInv
  <2>4. Proceed(t, q, mem)
    BY <2>1
  <2> HIDE DEF q
  <2>5. q.run = k.run /\ q.ctx = k.ctx /\ ~Alone(q)
    BY <2>3 DEF Outcome, Alone, Deciding
  <2>6. CallsOK'
    BY <1>1, <1>2, <1>3, <1>6, <2>3, <2>4, <2>5, ProceedStep DEF IInv
  <2> QED BY <1>6, <2>6 DEF IInv
<1> QED BY <1>7, <1>8

\* The dead-loop check fails the run or goes on to the handoff.
LEMMA DetectDeadLoopInv ==
    ASSUME IInv, NEW t \in Tasks, DetectDeadLoop(t)
    PROVE  IInv'
<1> DEFINE k    == task[t]
           dead == [k EXCEPT !.status = "failed"]
           on   == [dead EXCEPT !.pc = "handoff"]
           off  == [k EXCEPT !.pc = "handoff", !.op = "none"]
           f    == FailRun(dead, "deadloop", TRUE, on)
<1>1. /\ k.pc = "judged" /\ UNCHANGED <<snap, last, ledger, files>>
      /\ Proceed(t, f, mem) \/ Proceed(t, off, mem)
  BY DEF DetectDeadLoop
<1>2. /\ k \in TaskRecord /\ k.run \in Runs /\ k.ctx \in Contexts /\ Follows(t, mem)
      /\ Within(t, k.ctx)
  BY <1>1, TaskFacts DEF InLoop
<1>3. PersistOK' /\ (HasRecord => HasRecord')
  BY <1>1, PersistStays DEF IInv, PersistOK, HasRecord
<1>4. dead \in TaskRecord /\ dead.run = k.run /\ dead.ctx = k.ctx
  BY <1>2 DEF TaskRecord, RunState
<1>5. on \in TaskRecord /\ on.pc = "handoff" /\ on.run = k.run /\ on.ctx = k.ctx
  BY <1>2 DEF TaskRecord, RunState, Steps
<1>6. off \in TaskRecord /\ off.pc = "handoff" /\ off.run = k.run /\ off.ctx = k.ctx
  <2>1. "none" \in OpNames
    BY DEF OpNames
  <2> QED BY <1>2, <2>1 DEF TaskRecord, Steps
<1> HIDE DEF dead, on, off
<1>7. f = on \/ (Outcome(dead, f) /\ (f.pc = "thrown" \/ (f.pc = "check" /\ f.op = "deadloop")))
  BY <1>2, <1>4, FailRunOutcome DEF IInv
<1> HIDE DEF f
<1>8. \A q : q.pc = "handoff" => (Proceed(t, q, mem) => Becomes(t, q, mem))
  BY DEF Proceed
<1>9. CASE Becomes(t, on, mem) \/ Becomes(t, off, mem)
  <2>1. CallsOK'
    BY <1>1, <1>2, <1>3, <1>5, <1>6, <1>9, PlainStep DEF IInv
  <2> QED BY <1>3, <2>1 DEF IInv
<1>10. CASE f # on /\ Proceed(t, f, mem)
  <2>1. f.run = k.run /\ f.ctx = k.ctx /\ ~Alone(f)
    BY <1>4, <1>7, <1>10 DEF Outcome, Alone, Deciding
  <2>2. CallsOK'
    BY <1>1, <1>2, <1>3, <1>7, <1>10, <2>1, ProceedStep DEF IInv
  <2> QED BY <1>3, <2>2 DEF IInv
<1> QED BY <1>1, <1>5, <1>6, <1>8, <1>9, <1>10

\* The checkpoint has the state and the turn of a record.
LEMMA WriteCheckpointInv ==
    ASSUME IInv, NEW t \in Tasks, WriteCheckpoint(t)
    PROVE  IInv'
<1> DEFINE k == task[t]
           q == [k EXCEPT !.pc = "drive"]
<1>1. /\ k.pc = "handoff" /\ UNCHANGED <<snap, last, ledger>> /\ Becomes(t, q, mem)
  BY DEF WriteCheckpoint
<1>2. /\ k \in TaskRecord /\ k.run \in Runs /\ k.ctx \in Contexts /\ Follows(t, mem)
      /\ Within(t, k.ctx)
  BY <1>1, TaskFacts DEF InLoop
<1>3. files' \in Files
  <2>1. HasRecord => Rec.state \in RunState /\ Rec.turn \in Nat
    BY RecFacts DEF IInv, RecOK, RunStateRecord
  <2>2. files \in Files
    BY DEF IInv, PersistOK
  <2>3. HasRecord => [run |-> k.run, state |-> Rec.state, turn |-> Rec.turn]
                        \in [run : Runs \cup {NoRun}, state : RunState \cup {"none"}, turn : Nat]
    BY <1>2, <2>1
  <2> QED BY <2>2, <2>3 DEF WriteCheckpoint, Files
<1>4. PersistOK' /\ (HasRecord => HasRecord')
  BY <1>1, <1>3, PersistStays DEF IInv, HasRecord
<1>5. q \in TaskRecord /\ q.pc = "drive" /\ q.run = k.run /\ q.ctx = k.ctx
  BY <1>2 DEF TaskRecord, Steps
<1> HIDE DEF q
<1>6. CallsOK'
  BY <1>1, <1>2, <1>4, <1>5, PlainStep DEF IInv
<1> QED BY <1>4, <1>6 DEF IInv

\* The state machine drive: the next subtask, the next turn, or the end of the loop.
LEMMA DriveInv ==
    ASSUME IInv, NEW t \in Tasks, Drive(t)
    PROVE  IInv'
<1> DEFINE k   == [task[t] EXCEPT !.status = "none"]
           adv == [k EXCEPT !.pc = "advance"]
           beg == [k EXCEPT !.pc = "begin"]
           c   == task[t].ctx
           x   == mem.contexts[c]
           v1  == [turn |-> x.turn + 1, sub |-> x.sub]
           v2  == [turn |-> x.turn + 1, sub |-> x.sub + 1]
           m1  == [mem EXCEPT !.contexts[c] = v1]
           m2  == [mem EXCEPT !.contexts[c] = v2]
<1>1. task[t].pc = "drive" /\ UNCHANGED <<snap, last, ledger>>
  <2>1. k.pc = task[t].pc
    BY TaskFacts DEF TaskRecord
  <2> QED BY <2>1 DEF Drive
<1>2. /\ task[t] \in TaskRecord /\ task[t].run \in Runs /\ c \in Contexts
      /\ Follows(t, mem) /\ Within(t, c)
  BY <1>1, TaskFacts DEF InLoop
<1>3. k \in TaskRecord /\ k.run = task[t].run /\ k.ctx = c
  BY <1>2 DEF TaskRecord, Pendings
<1>4. adv \in TaskRecord /\ adv.pc = "advance" /\ adv.run = k.run /\ adv.ctx = c
  BY <1>2 DEF TaskRecord, Pendings, Steps
<1>5. beg \in TaskRecord /\ beg.pc = "begin" /\ beg.run = k.run /\ beg.ctx = c
  BY <1>2 DEF TaskRecord, Pendings, Steps
<1>6. files' \in Files
  <2>1. files' = [files EXCEPT !.entries = @ \cup {k.run}]
    BY DEF Drive
  <2> QED BY <1>2, <1>3, <2>1 DEF IInv, PersistOK, Files
<1>7. PersistOK' /\ (HasRecord => HasRecord')
  BY <1>1, <1>6, PersistStays DEF IInv, HasRecord
<1>8. Follows(t, m1) /\ Follows(t, m2) /\ m2.contexts[c].turn >= 1
  <2>1. x \in [turn : Nat, sub : Nat]
    BY <1>2 DEF IInv, CallsOK, MemOK, Memory
  <2>2. /\ v1 \in [turn : Nat, sub : Nat] /\ v1.turn >= x.turn
        /\ v2 \in [turn : Nat, sub : Nat] /\ v2.turn >= x.turn /\ v2.turn >= 1
    BY <2>1
  <2> HIDE DEF v1, v2
  <2> QED BY <1>2, <2>2, ContextSet
<1>9. \/ Becomes(t, adv, m2) \/ Becomes(t, beg, m1)
      \/ Becomes(t, IdleTask, Suspend(mem, k.run, k.ctx))
      \/ Becomes(t, IdleTask, LeaveLoop(mem, k.run))
  <2>1. /\ [mem EXCEPT !.contexts[k.ctx] = [turn |-> @.turn + 1, sub |-> @.sub + 1]] = m2
        /\ [mem EXCEPT !.contexts[k.ctx] = [turn |-> @.turn + 1, sub |-> @.sub]] = m1
    BY <1>3
  <2> HIDE DEF m1, m2, adv, beg
  <2> QED BY <2>1 DEF Drive, adv, beg
<1> HIDE DEF k, adv, beg, m1, m2
<1>10. CASE Becomes(t, adv, m2)
  <2>1. TaskOK(adv, ledger', last') /\ Placed(t, adv, m2)
    BY <1>2, <1>3, <1>4, <1>8 DEF TaskOK, Deciding, Placed, Alone
  <2>2. CallsOK'
    BY <1>1, <1>7, <1>8, <1>10, <2>1, BecomesStep DEF IInv
  <2> QED BY <1>7, <2>2 DEF IInv
<1>11. CASE Becomes(t, beg, m1)
  <2>1. CallsOK'
    BY <1>1, <1>2, <1>3, <1>5, <1>7, <1>8, <1>11, PlainStep DEF IInv
  <2> QED BY <1>7, <2>1 DEF IInv
<1>12. CASE \/ Becomes(t, IdleTask, Suspend(mem, k.run, k.ctx))
            \/ Becomes(t, IdleTask, LeaveLoop(mem, k.run))
  <2>1. Follows(t, Suspend(mem, k.run, k.ctx)) /\ Follows(t, LeaveLoop(mem, k.run))
    BY <1>2, <1>3, ContextMoves, MemoryMoves
  <2>2. CallsOK'
    BY <1>1, <1>7, <1>12, <2>1, IdleStep DEF IInv
  <2> QED BY <1>7, <2>2 DEF IInv
<1> QED BY <1>9, <1>10, <1>11, <1>12

\* A step of the loop that is the first half of an operation.
LEMMA OutcomeStep ==
    ASSUME IInv, NEW t \in Tasks, InLoop(task[t]), task[t].pc # "idle", NEW q,
           Outcome(task[t], q), Proceed(t, q, mem), ~Alone(q),
           UNCHANGED <<snap, last, ledger, files>>
    PROVE  IInv'
<1>1. /\ task[t].run \in Runs /\ Follows(t, mem) /\ Within(t, task[t].ctx)
  BY TaskFacts
<1>2. q.run = task[t].run /\ q.ctx = task[t].ctx
  BY DEF Outcome
<1>3. PersistOK' /\ (HasRecord => HasRecord')
  BY PersistStays DEF IInv, PersistOK, HasRecord
<1>4. CallsOK'
  BY <1>1, <1>2, <1>3, ProceedStep DEF IInv
<1> QED BY <1>3, <1>4 DEF IInv

\* advanceSubtaskTurn() begins; the turn it closes is the one before.
LEMMA AdvanceInv ==
    ASSUME IInv, NEW t \in Tasks, Advance(t)
    PROVE  IInv'
<1> DEFINE k == task[t]
<1>0. PICK cost \in BOOLEAN : Proceed(t, AdvanceSubtaskTurn(k, Turn(k) - 1, cost), mem)
  BY CostsFacts DEF Advance
<1> DEFINE q == AdvanceSubtaskTurn(k, Turn(k) - 1, cost)
<1>1. /\ k.pc = "advance" /\ Proceed(t, q, mem) /\ UNCHANGED <<snap, last, ledger, files>>
  BY <1>0 DEF Advance
<1>2. k \in TaskRecord /\ k.run \in Runs /\ InLoop(k) /\ k.ctx \in Contexts
  BY <1>1, TaskFacts DEF InLoop
<1>3. Turn(k) - 1 \in Nat
  <2>1. Turn(k) \in Nat /\ Turn(k) >= 1
    BY <1>1, <1>2, TurnFacts DEF IInv, CallsOK, AdvancePositive, Turn
  <2> QED BY <2>1
<1>4. Outcome(k, q) /\ q.pc = "check" /\ q.op \in {"advance", "advance-over"}
  BY <1>2, <1>3, AdvanceOutcome DEF IInv
<1> HIDE DEF q
<1>5. ~Alone(q)
  BY <1>4 DEF Alone
<1> QED BY <1>1, <1>2, <1>4, <1>5, OutcomeStep

\* beginTurn() begins.
LEMMA BeginInv ==
    ASSUME IInv, NEW t \in Tasks, Begin(t)
    PROVE  IInv'
<1> DEFINE k == task[t]
           q == BeginTurn(k, Turn(k))
<1>1. /\ k.pc = "begin" /\ Proceed(t, q, mem) /\ UNCHANGED <<snap, last, ledger, files>>
  BY DEF Begin
<1>2. k \in TaskRecord /\ k.run \in Runs /\ InLoop(k) /\ k.ctx \in Contexts
  BY <1>1, TaskFacts DEF InLoop
<1>3. Turn(k) \in Nat
  BY <1>2, TurnFacts
<1>4. /\ Outcome(k, q)
      /\ \/ q.pc \in {"thrown", "stamp"}
         \/ q.pc = "check" /\ q.op \in {"begin-limit", "begin-retry"}
  BY <1>2, <1>3, BeginTurnOutcome DEF IInv
<1> HIDE DEF q
<1>5. ~Alone(q)
  BY <1>4 DEF Alone, Deciding
<1> QED BY <1>1, <1>2, <1>4, <1>5, OutcomeStep

\* The merge has been tried.
LEMMA MergeInv ==
    ASSUME IInv, NEW t \in Tasks, Merge(t)
    PROVE  IInv'
<1> DEFINE k == task[t]
<1>1. PICK ok \in BOOLEAN :
         /\ k.pc = "merge" /\ Proceed(t, SettleMerge(k, files.gates[k.run], ok), mem)
         /\ UNCHANGED <<snap, last, ledger, files>>
  BY DEF Merge
<1> DEFINE q == SettleMerge(k, files.gates[k.run], ok)
<1>2. k \in TaskRecord /\ k.run \in Runs /\ InLoop(k) /\ k.ctx \in Contexts
  BY <1>1, TaskFacts DEF InLoop
<1>3. files.gates[k.run] \in Nat
  BY <1>2 DEF IInv, PersistOK, Files
<1>4. Outcome(k, q) /\ (q.pc = "thrown" \/ (q.pc = "check" /\ q.op = "settle"))
  BY <1>2, <1>3, SettleMergeOutcome DEF IInv
<1>5. Proceed(t, q, mem)
  BY <1>1
<1> HIDE DEF q
<1>6. ~Alone(q)
  BY <1>4 DEF Alone, Deciding
<1> QED BY <1>1, <1>2, <1>4, <1>5, <1>6, OutcomeStep

\* beginTurn() saves its record and the turn begins.
LEMMA StampInv ==
    ASSUME IInv, NEW t \in Tasks, Stamp(t)
    PROVE  IInv'
<1> DEFINE k == task[t]
           q == [Settle(k) EXCEPT !.pc = "turn", !.from = "loop"]
           m == IF k.from = "continue"
                THEN [mem EXCEPT !.suspended[k.run] = NoContext] ELSE mem
<1>1. /\ k.pc = "stamp" /\ UNCHANGED <<ledger, files>> /\ Save(k.rec)
      /\ Becomes(t, q, EnterLoop(m, k))
  BY DEF Stamp
<1>2. /\ k \in TaskRecord /\ k.run \in Runs /\ k.ctx \in Contexts /\ Follows(t, mem)
      /\ Within(t, k.ctx)
  BY <1>1, TaskFacts DEF InLoop
<1>3. RecOK(k.rec) /\ Backed(k.rec, ledger)
  BY <1>1, TaskFacts DEF TaskOK
<1>4. PersistOK' /\ HasRecord'
  BY <1>1, <1>3, PersistSave DEF IInv, PersistOK
<1>5. q \in TaskRecord /\ q.pc = "turn" /\ q.run = k.run /\ q.ctx = k.ctx
  <2>1. "none" \in OpNames
    BY DEF OpNames
  <2> QED BY <1>2, <2>1 DEF Settle, TaskRecord, Steps
<1>6. Follows(t, m)
  BY <1>2, ContextMoves DEF Within
<1> HIDE DEF q, m
<1>7. Follows(t, EnterLoop(m, k))
  BY <1>2, <1>6, ContextMoves DEF EnterLoop
<1>8. CallsOK'
  BY <1>1, <1>2, <1>4, <1>5, <1>7, PlainStep DEF IInv
<1> QED BY <1>4, <1>8 DEF IInv

\* An exception in the loop.
LEMMA TurnThrowsInv ==
    ASSUME IInv, NEW t \in Tasks, TurnThrows(t)
    PROVE  IInv'
<1>1. /\ task[t].pc # "idle" /\ Becomes(t, IdleTask, Caught(mem, task[t]))
      /\ UNCHANGED <<snap, last, ledger, files>>
  BY DEF TurnThrows
<1>2. Follows(t, Caught(mem, task[t]))
  BY <1>1, TaskFacts, MemoryMoves DEF Caught
<1>3. PersistOK' /\ (HasRecord => HasRecord')
  BY <1>1, PersistStays DEF IInv, PersistOK, HasRecord
<1>4. CallsOK'
  BY <1>1, <1>2, <1>3, IdleStep DEF IInv
<1> QED BY <1>3, <1>4 DEF IInv

-----------------------------------------------------------------------------
(* Continuing and recovering a run.                                        *)

\* The subtask that a run is rebuilt for is one of the plan.
LEMMA RebuiltFacts ==
    ASSUME PersistOK, HasRecord, NEW r
    PROVE  Rebuilt(r) \in [turn : Nat, sub : Nat]
<1>1. AdvancesOf(r) \in Nat
  BY FS_Subset, FS_CardinalityType DEF PersistOK, AdvancesOf
<1>2. Rec.turn \in Nat
  BY RecFacts DEF RecOK, RunStateRecord
<1> QED BY <1>1, <1>2, Constants DEF Rebuilt, Least

\* A resumed context does not go back.
LEMMA ResumedFacts ==
    ASSUME NEW k, NEW ctx \in [turn : Nat, sub : Nat]
    PROVE  Resumed(k, ctx) \in [turn : Nat, sub : Nat] /\ Resumed(k, ctx).turn >= ctx.turn
BY Constants DEF Resumed, Least

\* continueRun() goes on in a context that was suspended or made.
LEMMA ContinueInStep ==
    ASSUME IInv, NEW t \in Tasks, task[t].pc = "continue", NEW c \in Contexts,
           Within(t, c), NEW ctx \in [turn : Nat, sub : Nat],
           \/ \A u \in Tasks \ {t} : task[u].ctx # c
           \/ ctx.turn >= mem.contexts[c].turn,
           NEW m, Follows(t, m), ContinueIn(t, c, ctx, m),
           ledger' = ledger, HasRecord => HasRecord'
    PROVE  CallsOK'
<1> DEFINE k  == [task[t] EXCEPT !.ctx = c, !.from = "continue", !.status = "none"]
           k1 == [k EXCEPT !.pc = "merge", !.op = "none"]
           k2 == [k EXCEPT !.pc = "begin", !.op = "none"]
           v  == Resumed(task[t], ctx)
           m1 == [m EXCEPT !.contexts[c] = ctx]
           m2 == [m EXCEPT !.contexts[c] = v]
<1>1. Becomes(t, k1, m1) \/ Becomes(t, k2, m2)
  BY DEF ContinueIn
<1>2. task[t] \in TaskRecord /\ task[t].run \in Runs
  BY TaskFacts
<1>3. "none" \in OpNames
  BY DEF OpNames
<1>4. k \in TaskRecord /\ k.run = task[t].run /\ k.ctx = c
  BY <1>2 DEF TaskRecord, Pendings
<1> HIDE DEF k
<1>5. /\ k1 \in TaskRecord /\ k1.pc = "merge" /\ k1.run = task[t].run /\ k1.ctx = c
      /\ k2 \in TaskRecord /\ k2.pc = "begin" /\ k2.run = task[t].run /\ k2.ctx = c
  BY <1>3, <1>4 DEF TaskRecord, Steps
<1>6. Follows(t, m1)
  BY ContextSet
<1>7. Follows(t, m2)
  <2>1. mem.contexts[c].turn \in Nat
    BY DEF IInv, CallsOK, MemOK, Memory
  <2>2. v \in [turn : Nat, sub : Nat] /\ v.turn >= ctx.turn
    BY ResumedFacts
  <2> HIDE DEF v
  <2>3. \/ \A u \in Tasks \ {t} : task[u].ctx # c
        \/ v.turn >= mem.contexts[c].turn
    BY <2>1, <2>2
  <2> QED BY <2>2, <2>3, ContextSet
<1> HIDE DEF k1, k2, m1, m2
<1> QED BY <1>1, <1>2, <1>5, <1>6, <1>7, PlainStep DEF IInv

\* continueRun(), for a suspended run or for one that is rebuilt.
LEMMA ContinueRunInv ==
    ASSUME IInv, NEW t \in Tasks, ContinueRun(t)
    PROVE  IInv'
<1> DEFINE r == task[t].run
           c == mem.suspended[r]
<1>1. task[t].pc = "continue" /\ UNCHANGED <<snap, last, ledger, files>>
  BY DEF ContinueRun
<1>2. /\ task[t] \in TaskRecord /\ r \in Runs /\ Follows(t, mem)
  BY <1>1, TaskFacts
<1>3. PersistOK' /\ (HasRecord => HasRecord')
  BY <1>1, PersistStays DEF IInv, PersistOK, HasRecord
<1>4. CASE c # NoContext
  <2>1. c \in Contexts /\ mem.contexts[c] \in [turn : Nat, sub : Nat]
    BY <1>2, <1>4 DEF IInv, CallsOK, MemOK, Memory
  <2>2. Within(t, c)
    BY <1>2 DEF Within, Refers
  <2>3. ContinueIn(t, c, mem.contexts[c], mem)
    BY <1>4 DEF ContinueRun
  <2> DEFINE v == mem.contexts[c]
  <2>4. v \in [turn : Nat, sub : Nat] /\ v.turn >= mem.contexts[c].turn
    BY <2>1
  <2>5. CallsOK'
    <3> HIDE DEF c
    <3>1. ContinueIn(t, c, v, mem)
      BY <2>3
    <3> HIDE DEF v
    <3> QED BY <1>1, <1>2, <1>3, <2>1, <2>2, <2>4, <3>1, ContinueInStep
  <2> QED BY <1>3, <2>5 DEF IInv
<1>5. CASE c = NoContext /\ ~Rebuildable(r)
  <2>1. Becomes(t, IdleTask, mem)
    BY <1>5 DEF ContinueRun
  <2>2. CallsOK'
    BY <1>1, <1>2, <1>3, <2>1, IdleStep DEF IInv
  <2> QED BY <1>3, <2>2 DEF IInv
<1>6. CASE c = NoContext /\ Rebuildable(r)
  <2> DEFINE d == NewContext
             m == IF r \in mem.registered THEN mem ELSE Register(mem, r)
             v == Rebuilt(r)
  <2>1. RoomForContext /\ ContinueIn(t, d, v, m)
    BY <1>6 DEF ContinueRun
  <2>2. d \in Contexts /\ Fresh(d)
    BY <2>1, NewContextFacts
  <2>3. v \in [turn : Nat, sub : Nat]
    BY <1>6, RebuiltFacts DEF IInv, Rebuildable
  <2>4. Follows(t, m)
    BY <1>2, MemoryMoves
  <2> HIDE DEF d, m, v
  <2>5. Within(t, d) /\ \A u \in Tasks \ {t} : task[u].ctx # d
    BY <2>2 DEF Within, Fresh
  <2>6. CallsOK'
    BY <1>1, <1>3, <2>1, <2>2, <2>3, <2>4, <2>5, ContinueInStep
  <2> QED BY <1>3, <2>6 DEF IInv
<1> QED BY <1>4, <1>5, <1>6

\* A call after a restart that finds a run in flight.
LEMMA RecoverInv ==
    ASSUME IInv, NEW t \in Tasks, Recover(t)
    PROVE  IInv'
<1> DEFINE k    == [task[t] EXCEPT !.run = Rec.run]
           goes == [k EXCEPT !.ctx = NewContext]
<1>1. task[t].pc = "recover" /\ UNCHANGED <<snap, last, ledger, files>>
  BY DEF Recover
<1>2. task[t] \in TaskRecord /\ Follows(t, mem) /\ Within(t, task[t].ctx)
  BY <1>1, TaskFacts
<1>3. PersistOK' /\ (HasRecord => HasRecord')
  BY <1>1, PersistStays DEF IInv, PersistOK, HasRecord
<1>4. CASE Becomes(t, IdleTask, mem)
  <2>1. CallsOK'
    BY <1>1, <1>2, <1>3, <1>4, IdleStep DEF IInv
  <2> QED BY <1>3, <2>1 DEF IInv
<1>5. CASE HasRecord /\ Proceed(t, RequestRestartRecovery(k), mem)
  <2> DEFINE q == RequestRestartRecovery(k)
  <2>1. /\ k \in TaskRecord /\ k.run = Rec.run /\ k.run \in Runs /\ k.ctx = task[t].ctx
    BY <1>2, <1>5, RecFacts DEF IInv, TaskRecord
  <2> HIDE DEF k
  <2>2. Outcome(k, q) /\ (q.pc = "thrown" \/ (q.pc = "check" /\ q.op = "recover"))
    BY <1>5, <2>1, RecoveryOutcome DEF IInv
  <2>3. Proceed(t, q, mem)
    BY <1>5
  <2> HIDE DEF q
  <2>4. q.run = k.run /\ q.ctx = k.ctx /\ ~Alone(q)
    BY <2>2 DEF Outcome, Alone, Deciding
  <2>5. CallsOK'
    BY <1>1, <1>2, <1>3, <2>1, <2>2, <2>3, <2>4, ProceedStep DEF IInv
  <2> QED BY <1>3, <2>5 DEF IInv
<1>6. CASE HasRecord /\ Proceed(t, FailRun(k, "fail", FALSE, IdleTask), mem)
  <2> DEFINE q == FailRun(k, "fail", FALSE, IdleTask)
  <2>1. /\ k \in TaskRecord /\ k.run = Rec.run /\ k.run \in Runs /\ k.ctx = task[t].ctx
    BY <1>2, <1>6, RecFacts DEF IInv, TaskRecord
  <2> HIDE DEF k
  <2>2. \/ q = IdleTask
        \/ Outcome(k, q) /\ (q.pc = "thrown" \/ (q.pc = "check" /\ q.op = "fail"))
    BY <2>1, FailRunOutcome DEF IInv
  <2>3. Proceed(t, q, mem)
    BY <1>6
  <2> HIDE DEF q
  <2>4. CASE q = IdleTask
    <3>1. Becomes(t, IdleTask, mem)
      BY <2>3, <2>4, IdleFacts DEF Proceed
    <3>2. CallsOK'
      BY <1>1, <1>2, <1>3, <3>1, IdleStep DEF IInv
    <3> QED BY <1>3, <3>2 DEF IInv
  <2>5. CASE q # IdleTask
    <3>1. Outcome(k, q) /\ q.run = k.run /\ q.ctx = k.ctx /\ ~Alone(q)
      BY <2>2, <2>5 DEF Outcome, Alone, Deciding
    <3>2. CallsOK'
      BY <1>1, <1>2, <1>3, <2>1, <2>3, <3>1, ProceedStep DEF IInv
    <3> QED BY <1>3, <3>2 DEF IInv
  <2> QED BY <2>4, <2>5
<1>7. CASE /\ HasRecord /\ RoomForContext
           /\ \/ Becomes(t, [goes EXCEPT !.pc = "begin"],
                          [Register(mem, k.run) EXCEPT !.contexts[NewContext] =
                              [Rebuilt(k.run) EXCEPT !.turn = @ + 1]])
              \/ Becomes(t, [goes EXCEPT !.pc = "turn", !.from = "loop"],
                          [EnterLoop(Register(mem, k.run), goes) EXCEPT
                              !.contexts[NewContext] = Rebuilt(k.run)])
  <2> DEFINE c  == NewContext
             r  == Rec.run
             k1 == [goes EXCEPT !.pc = "begin"]
             k2 == [goes EXCEPT !.pc = "turn", !.from = "loop"]
             v1 == [Rebuilt(r) EXCEPT !.turn = @ + 1]
             v2 == Rebuilt(r)
             e  == EnterLoop(Register(mem, r), goes)
             m1 == [Register(mem, r) EXCEPT !.contexts[c] = v1]
             m2 == [e EXCEPT !.contexts[c] = v2]
  <2>1. c \in Contexts /\ Fresh(c) /\ r \in Runs
    BY <1>7, NewContextFacts, RecFacts DEF IInv
  <2>2. k.run = r
    BY <1>2 DEF TaskRecord
  <2>3. /\ k1 \in TaskRecord /\ k1.pc = "begin" /\ k1.run = r /\ k1.ctx = c
        /\ k2 \in TaskRecord /\ k2.pc = "turn" /\ k2.run = r /\ k2.ctx = c
        /\ goes.run = r /\ goes.ctx = c
    <3> DEFINE a == task[t]
    <3>1. a \in TaskRecord
      BY <1>2
    <3> HIDE DEF r, c, a
    <3>2. LET g == [[a EXCEPT !.run = r] EXCEPT !.ctx = c]
          IN  g \in TaskRecord /\ g.run = r /\ g.ctx = c
      BY <2>1, <3>1 DEF TaskRecord
    <3>3. goes \in TaskRecord /\ goes.run = r /\ goes.ctx = c
      BY <3>2 DEF a, r, c
    <3> HIDE DEF goes
    <3>4. "begin" \in Steps /\ "turn" \in Steps /\ "loop" \in {"none", "start", "loop", "continue"}
      BY DEF Steps
    <3>5. k1 \in TaskRecord /\ k1.pc = "begin" /\ k1.run = goes.run /\ k1.ctx = goes.ctx
      BY <3>3, <3>4 DEF TaskRecord
    <3>6. k2 \in TaskRecord /\ k2.pc = "turn" /\ k2.run = goes.run /\ k2.ctx = goes.ctx
      BY <3>3, <3>4 DEF TaskRecord
    <3> QED BY <3>3, <3>5, <3>6
  <2>4. Becomes(t, k1, m1) \/ Becomes(t, k2, m2)
    BY <1>7, <2>2
  <2>5. Within(t, c) /\ \A u \in Tasks \ {t} : task[u].ctx # c
    BY <2>1 DEF Within, Fresh
  <2>6. v2 \in [turn : Nat, sub : Nat]
    BY <1>7, RebuiltFacts DEF IInv
  <2>7. v1 \in [turn : Nat, sub : Nat]
    BY <2>6
  <2>8. Follows(t, Register(mem, r))
    BY <1>2, <2>1, MemoryMoves
  <2> HIDE DEF v1, v2, c, r
  <2>9. Follows(t, m1)
    BY <2>1, <2>5, <2>7, <2>8, ContextSet
  <2>10. Follows(t, e)
    BY <2>1, <2>3, <2>5, <2>8, ContextMoves DEF EnterLoop
  <2> HIDE DEF e, k1, k2
  <2>11. Follows(t, m2)
    BY <2>1, <2>5, <2>6, <2>10, ContextSet
  <2> HIDE DEF m1, m2
  <2>12. CallsOK'
    BY <1>1, <1>3, <2>1, <2>3, <2>4, <2>5, <2>9, <2>11, PlainStep DEF IInv
  <2> QED BY <1>3, <2>12 DEF IInv
<1> HIDE DEF k, goes
<1> QED BY <1>4, <1>5, <1>6, <1>7 DEF Recover, k, goes

-----------------------------------------------------------------------------
(* The steps of transition().                                              *)

\* What a settled call has kept.
LEMMA SettleFacts ==
    ASSUME NEW k \in TaskRecord
    PROVE  /\ Settle(k) \in TaskRecord /\ Settle(k).run = k.run /\ Settle(k).ctx = k.ctx
           /\ Settle(k).from = k.from
<1>1. "none" \in OpNames
  BY DEF OpNames
<1> QED BY <1>1 DEF Settle, TaskRecord

\* A call that moves on keeps what it does not set.
LEMMA MovesOn ==
    ASSUME NEW k \in TaskRecord, NEW pc \in Steps
    PROVE  /\ \A op \in OpNames :
                LET q == [k EXCEPT !.pc = pc, !.op = op]
                IN  q \in TaskRecord /\ q.pc = pc /\ q.run = k.run /\ q.ctx = k.ctx
           /\ \A status \in RunState :
                LET q == [k EXCEPT !.pc = pc, !.status = status]
                IN  q \in TaskRecord /\ q.pc = pc /\ q.run = k.run /\ q.ctx = k.ctx
BY DEF TaskRecord

\* What transition() has once it is under way.
LEMMA DecidingFacts ==
    ASSUME IInv, NEW t \in Tasks, task[t].pc \in Deciding
    PROVE  /\ task[t] \in TaskRecord /\ task[t].run \in Runs /\ Follows(t, mem)
           /\ Within(t, task[t].ctx)
           /\ task[t].op \in LoopOps => task[t].ctx \in Contexts
           /\ RecOK(task[t].rec) /\ task[t].entry \in DecisionEntry
           /\ Covers(task[t].entry, task[t].rec) /\ task[t].entry.to \in RunState
           /\ Fits(task[t].op, task[t].rec)
           /\ task[t].op = "begin-retry" => HasRecord
           /\ task[t].pc = "save" => Backed(task[t].rec, ledger)
BY TaskFacts DEF TaskOK, InLoop, Deciding, DecisionEntry, HasRecord

\* An operation returns: what becomes of its call and of the memory.
LEMMA ReturnedStep ==
    ASSUME IInv, NEW t \in Tasks, task[t].pc \in Deciding, NEW m, Follows(t, m),
           NEW x, task[t].op = "begin-retry" => RecOK(x), NEW idempotent,
           Returned(t, m, x, idempotent), ledger' = ledger, HasRecord => HasRecord'
    PROVE  CallsOK'
<1> DEFINE k    == task[t]
           r    == k.run
           back == Settle(k)
           asks == [m EXCEPT !.pending = @ \cup {r}]
<1>1. /\ k \in TaskRecord /\ r \in Runs /\ Within(t, k.ctx) /\ k.entry.to \in RunState
      /\ k.op \in LoopOps => k.ctx \in Contexts
  BY DecidingFacts
<1>2. back \in TaskRecord /\ back.run = r /\ back.ctx = k.ctx /\ back.from = k.from
  BY <1>1, SettleFacts
<1>3. Follows(t, asks) /\ Follows(t, Forget(m, r)) /\ Follows(t, ReleaseRun(m, r))
  BY <1>1, MemoryMoves
<1>4. Follows(t, ReleaseRun(Forget(m, r), r))
  BY <1>1, <1>3, MemoryMoves
<1>5. k.ctx \in Contexts \cup {NoContext}
  BY <1>1 DEF TaskRecord
<1> HIDE DEF back, asks
<1>6. CASE k.op = "judge" /\ Returned(t, m, x, idempotent)
  <2> DEFINE q == [back EXCEPT !.pc = "judged", !.status = k.entry.to]
  <2>0. "judged" \in Steps
    BY DEF Steps
  <2>1. q \in TaskRecord /\ q.pc = "judged" /\ q.run = r /\ q.ctx = k.ctx
    <3> DEFINE s == k.entry.to
    <3>1. s \in RunState
      BY <1>1
    <3> HIDE DEF s
    <3>2. LET p == [back EXCEPT !.pc = "judged", !.status = s]
          IN  p \in TaskRecord /\ p.pc = "judged" /\ p.run = back.run /\ p.ctx = back.ctx
      BY <1>2, <2>0, <3>1, MovesOn
    <3> QED BY <1>2, <3>2 DEF s
  <2>2. Becomes(t, q, asks) \/ Becomes(t, q, m)
    BY <1>6 DEF Returned, Resumes, back, asks
  <2>3. k.ctx \in Contexts
    BY <1>1, <1>6 DEF LoopOps
  <2> HIDE DEF q
  <2> QED BY <1>1, <1>3, <2>1, <2>2, <2>3, PlainStep DEF IInv
<1>7. CASE k.op = "gate" /\ Returned(t, m, x, idempotent)
  <2> DEFINE m0 == IF idempotent THEN m ELSE asks
             q  == [back EXCEPT !.pc = "turn", !.from = "loop"]
             m1 == [m0 EXCEPT !.suspended[r] = k.ctx, !.contexts[k.ctx].turn = 0]
  <2>1. Becomes(t, IdleTask, m1) \/ Becomes(t, q, EnterLoop(m, k))
    BY <1>7 DEF Returned, Resumes, back, asks
  <2>2. k.ctx \in Contexts
    BY <1>1, <1>7 DEF LoopOps
  <2>3. q \in TaskRecord /\ q.pc = "turn" /\ q.run = r /\ q.ctx = k.ctx
    BY <1>2 DEF TaskRecord, Steps
  <2>4. Follows(t, EnterLoop(m, k))
    BY <1>1, <1>5, ContextMoves DEF EnterLoop
  <2>5. Follows(t, m0)
    BY <1>3
  <2> HIDE DEF q, m0
  <2>6. Follows(t, m1)
    <3>1. \A u \in Tasks \ {t} : task[u].ctx # k.ctx
      BY <1>7 DEF IInv, CallsOK, GatesAlone, Alone
    <3> DEFINE m2 == [m0 EXCEPT !.suspended[r] = k.ctx]
               v  == [m2.contexts[k.ctx] EXCEPT !.turn = 0]
    <3>2. Follows(t, m2)
      BY <1>1, <1>5, <2>5, ContextMoves
    <3>3. m1 = [m2 EXCEPT !.contexts[k.ctx] = v]
      BY <2>2, <2>5 DEF Follows, MemOK, Memory
    <3> HIDE DEF m1, m2
    <3>4. v \in [turn : Nat, sub : Nat]
      <4>1. m2.contexts[k.ctx] \in [turn : Nat, sub : Nat]
        BY <2>2, <3>2 DEF Follows, MemOK, Memory
      <4> QED BY <4>1
    <3> HIDE DEF v
    <3> QED BY <2>2, <3>1, <3>2, <3>3, <3>4, ContextSet
  <2> HIDE DEF m1
  <2> QED BY <1>1, <2>1, <2>2, <2>3, <2>4, <2>6, PlainStep, IdleStep DEF IInv
<1>8. CASE k.op = "deadloop" /\ Returned(t, m, x, idempotent)
  <2> DEFINE q == [back EXCEPT !.pc = "handoff"]
  <2>1. q \in TaskRecord /\ q.pc = "handoff" /\ q.run = r /\ q.ctx = k.ctx
    BY <1>2 DEF TaskRecord, Steps
  <2>2. Becomes(t, q, ReleaseRun(Forget(m, r), r))
    BY <1>8 DEF Returned, Resumes, back
  <2>3. k.ctx \in Contexts
    BY <1>1, <1>8 DEF LoopOps
  <2> HIDE DEF q
  <2> QED BY <1>1, <1>4, <2>1, <2>2, <2>3, PlainStep DEF IInv
<1>9. CASE \/ Becomes(t, IdleTask, asks)
           \/ Becomes(t, IdleTask, ReleaseRun(Forget(m, r), r))
           \/ Becomes(t, IdleTask, ReleaseRun(m, r))
           \/ Becomes(t, IdleTask, Forget(m, r))
           \/ Becomes(t, IdleTask, Suspend(m, r, k.ctx))
           \/ Becomes(t, IdleTask, [m EXCEPT !.suspended[r] = k.ctx])
  <2>1. Follows(t, Suspend(m, r, k.ctx)) /\ Follows(t, [m EXCEPT !.suspended[r] = k.ctx])
    BY <1>1, <1>5, ContextMoves
  <2> QED BY <1>3, <1>4, <1>9, <2>1, IdleStep DEF IInv
<1>10. CASE k.op = "patch_pause" /\ Returned(t, m, x, idempotent)
  <2> DEFINE ended == [task EXCEPT ![t] = IdleTask]
             tasks == Kill(ended, r)
  <2>1. Become(tasks, m)
    BY <1>10 DEF Returned, Resumes
  <2>2. ended \in [Tasks -> TaskRecord] /\ ended[t] = IdleTask
        /\ \A u \in Tasks \ {t} : ended[u] = task[u]
    BY IdleFacts DEF IInv, CallsOK
  <2> HIDE DEF ended
  <2>3. \A u \in Tasks : tasks[u] = ended[u] \/ tasks[u] = [ended[u] EXCEPT !.killed = TRUE]
    BY DEF Kill
  <2>4. tasks \in [Tasks -> TaskRecord]
    <3>1. ASSUME NEW u \in Tasks PROVE [ended[u] EXCEPT !.killed = TRUE] \in TaskRecord
      <4>1. ended[u] \in TaskRecord
        BY <2>2
      <4> QED BY <4>1 DEF TaskRecord
    <3> QED BY <2>2, <3>1 DEF Kill
  <2>5. tasks[t] = IdleTask
    BY <2>2, IdleFacts DEF Kill
  <2>6. Alike(t, tasks)
    BY <2>2, <2>3 DEF Alike
  <2> HIDE DEF tasks
  <2> QED BY <2>1, <2>4, <2>5, <2>6, IdleFacts, BecomeStep DEF IInv
<1>11. CASE k.op \in Resumes /\ Returned(t, m, x, idempotent)
  <2> DEFINE q == [back EXCEPT !.pc = "continue", !.op = k.op]
  <2>0. "continue" \in Steps /\ k.op \in OpNames
    BY <1>1 DEF Steps, TaskRecord
  <2>1. q \in TaskRecord /\ q.pc = "continue" /\ q.run = r /\ q.ctx = k.ctx
    <3> DEFINE o == k.op
    <3>1. o \in OpNames
      BY <2>0
    <3> HIDE DEF o
    <3>2. LET p == [back EXCEPT !.pc = "continue", !.op = o]
          IN  p \in TaskRecord /\ p.pc = "continue" /\ p.run = back.run /\ p.ctx = back.ctx
      BY <1>2, <2>0, <3>1, MovesOn
    <3> QED BY <1>2, <3>2 DEF o
  <2>2. Becomes(t, q, Forget(m, r)) \/ Becomes(t, q, m)
    BY <1>11 DEF Returned, Resumes, back
  <2> HIDE DEF q
  <2>3. ~InLoop(q)
    BY <2>1 DEF InLoop, Deciding
  <2> QED BY <1>1, <1>3, <2>1, <2>2, <2>3, PlainStep DEF IInv
<1>12. CASE k.op = "begin-retry" /\ Returned(t, m, x, idempotent)
  <2> DEFINE q == IF x.state = "active" THEN BeginActive(back, x, Turn(k)) ELSE Thrown(back)
  <2>1. Proceed(t, q, m)
    BY <1>12 DEF Returned, Resumes, back
  <2>2. k.ctx \in Contexts /\ Turn(k) \in Nat
    BY <1>1, <1>12, TurnFacts DEF LoopOps
  <2>3. /\ Outcome(back, q)
        /\ q.pc \in {"thrown", "stamp"} \/ (q.pc = "check" /\ q.op = "begin-limit")
    BY <1>1, <1>2, <1>12, <2>2, BeginActiveOutcome, ThrownFacts
  <2> HIDE DEF q
  <2>4. q.run = r /\ q.ctx = k.ctx /\ ~Alone(q)
    BY <1>2, <2>3 DEF Outcome, Alone, Deciding
  <2> QED BY <1>1, <2>1, <2>3, <2>4, ProceedStep DEF IInv
<1>13. CASE k.op = "advance" /\ Returned(t, m, x, idempotent)
  <2> DEFINE q == [back EXCEPT !.pc = "turn"]
  <2>1. q \in TaskRecord /\ q.pc = "turn" /\ q.run = r /\ q.ctx = k.ctx
    BY <1>2 DEF TaskRecord, Steps
  <2>2. Becomes(t, q, m)
    BY <1>13 DEF Returned, Resumes, back
  <2>3. k.ctx \in Contexts
    BY <1>1, <1>13 DEF LoopOps
  <2> HIDE DEF q
  <2> QED BY <1>1, <2>1, <2>2, <2>3, PlainStep DEF IInv
<1>15. CASE k.op = "advance-limit" /\ Returned(t, m, x, idempotent)
  <2> DEFINE q  == [back EXCEPT !.pc = "turn"]
             m1 == Suspend(m, r, k.ctx)
             m2 == [m1 EXCEPT !.contexts[k.ctx].turn = k.rec.turn]
             v  == [m1.contexts[k.ctx] EXCEPT !.turn = k.rec.turn]
  <2>1. q \in TaskRecord /\ q.pc = "turn" /\ q.run = r /\ q.ctx = k.ctx
    BY <1>2 DEF TaskRecord, Steps
  <2>2. Becomes(t, q, m) \/ Becomes(t, IdleTask, m2)
    BY <1>15 DEF Returned, Resumes, back
  <2>3. k.ctx \in Contexts /\ k.rec.turn \in Nat /\ k.rec.turn >= 1
    BY <1>1, <1>15, DecidingFacts DEF LoopOps, RecOK, RunStateRecord, Fits
  <2>4. Follows(t, m1)
    BY <1>1, <1>5, ContextMoves
  <2> HIDE DEF q, m1
  <2>5. m2 = [m1 EXCEPT !.contexts[k.ctx] = v]
    BY <2>3, <2>4 DEF Follows, MemOK, Memory
  <2>6. v \in [turn : Nat, sub : Nat] /\ v.turn >= 1
    <3>1. m1.contexts[k.ctx] \in [turn : Nat, sub : Nat]
      BY <2>3, <2>4 DEF Follows, MemOK, Memory
    <3> QED BY <2>3, <3>1
  <2> HIDE DEF m2, v
  <2>7. Follows(t, m2)
    BY <2>3, <2>4, <2>5, <2>6, ContextSet
  <2> QED BY <1>1, <2>1, <2>2, <2>3, <2>7, PlainStep, IdleStep DEF IInv
<1>14. \/ k.op \in {"judge", "gate", "deadloop", "patch_pause", "begin-retry", "advance",
                   "advance-limit"}
       \/ k.op \in Resumes
       \/ Becomes(t, IdleTask, asks)
       \/ Becomes(t, IdleTask, ReleaseRun(Forget(m, r), r))
       \/ Becomes(t, IdleTask, ReleaseRun(m, r))
       \/ Becomes(t, IdleTask, Forget(m, r))
       \/ Becomes(t, IdleTask, Suspend(m, r, k.ctx))
       \/ Becomes(t, IdleTask, [m EXCEPT !.suspended[r] = k.ctx])
  BY DEF Returned, asks
<1> QED BY <1>6, <1>7, <1>8, <1>9, <1>10, <1>11, <1>12, <1>13, <1>14, <1>15

\* The pause flag is set or cleared, nothing else of the files.
LEMMA FlaggedFacts ==
    ASSUME PersistOK, NEW op
    PROVE  Flagged(op) \in Files
BY DEF PersistOK, Files, Flagged

\* The ledger is read: append, go on without, or return what was decided before.
LEMMA ReadLedgerInv ==
    ASSUME IInv, NEW t \in Tasks, ReadLedger(t)
    PROVE  IInv'
<1> DEFINE k   == task[t]
           app == [k EXCEPT !.pc = "append"]
           sav == [k EXCEPT !.pc = "save"]
<1>1. /\ k.pc = "check" /\ k.pc \in Deciding /\ UNCHANGED <<snap, last, ledger>>
      /\ files' \in {files, Flagged(k.op)}
  BY DEF ReadLedger, Deciding
<1>2. /\ k \in TaskRecord /\ k.run \in Runs /\ Follows(t, mem) /\ Within(t, k.ctx)
      /\ k.op \in LoopOps => k.ctx \in Contexts
      /\ RecOK(k.rec) /\ k.entry \in DecisionEntry /\ Covers(k.entry, k.rec)
      /\ Fits(k.op, k.rec)
      /\ k.op = "begin-retry" => HasRecord
  BY <1>1, DecidingFacts
<1>3. PersistOK' /\ (HasRecord => HasRecord')
  BY <1>1, FlaggedFacts, PersistStays DEF IInv, PersistOK, HasRecord
<1>4. /\ app \in TaskRecord /\ app.pc = "append" /\ app.op = k.op /\ app.run = k.run
      /\ app.ctx = k.ctx /\ app.rec = k.rec /\ app.entry = k.entry
  BY <1>2 DEF TaskRecord, Steps
<1>5. /\ sav \in TaskRecord /\ sav.pc = "save" /\ sav.op = k.op /\ sav.run = k.run
      /\ sav.ctx = k.ctx /\ sav.rec = k.rec /\ sav.entry = k.entry
  BY <1>2 DEF TaskRecord, Steps
<1> HIDE DEF app, sav
<1>6. CASE Becomes(t, app, mem)
  <2>1. TaskOK(app, ledger', last')
    BY <1>1, <1>2, <1>4 DEF TaskOK, InLoop, Deciding, HasRecord
  <2>2. Placed(t, app, mem)
    BY <1>1, <1>2, <1>4 DEF Placed, Alone, Deciding
  <2>3. CallsOK'
    BY <1>1, <1>2, <1>3, <1>6, <2>1, <2>2, BecomesStep DEF IInv
  <2> QED BY <1>3, <2>3 DEF IInv
<1>7. CASE k.op = "advance" /\ Becomes(t, sav, mem)
  <2>1. TaskOK(sav, ledger', last')
    BY <1>1, <1>2, <1>5, <1>7 DEF TaskOK, InLoop, Deciding, HasRecord, Backed, Fits
  <2>2. Placed(t, sav, mem)
    BY <1>1, <1>2, <1>5, <1>7 DEF Placed, Alone, Deciding
  <2>3. CallsOK'
    BY <1>1, <1>2, <1>3, <1>7, <2>1, <2>2, BecomesStep DEF IInv
  <2> QED BY <1>3, <2>3 DEF IInv
<1>8. CASE k.op = "advance-over" /\ Becomes(t, LimitAdvance(k), mem)
  <2> DEFINE q == LimitAdvance(k)
  <2>1. Outcome(k, q) /\ q.pc = "check" /\ q.op = "advance-limit"
    BY <1>2, <1>8, LimitAdvanceOutcome DEF LoopOps, Fits
  <2> HIDE DEF q
  <2>2. Proceed(t, q, mem) /\ q.run = k.run /\ q.ctx = k.ctx /\ ~Alone(q)
    BY <1>8, <2>1 DEF Proceed, Outcome, Alone, q
  <2>3. CallsOK'
    BY <1>1, <1>2, <1>3, <2>1, <2>2, ProceedStep DEF IInv
  <2> QED BY <1>3, <2>3 DEF IInv
<1>9. CASE Returned(t, mem, Rec, TRUE)
  <2>1. k.op = "begin-retry" => RecOK(Rec)
    BY <1>2, RecFacts DEF IInv
  <2>2. CallsOK'
    BY <1>1, <1>2, <1>3, <1>9, <2>1, ReturnedStep
  <2> QED BY <1>3, <2>2 DEF IInv
<1> QED BY <1>6, <1>7, <1>8, <1>9 DEF ReadLedger, app, sav

\* The decision is appended before the record is saved.
LEMMA AppendEntryInv ==
    ASSUME IInv, NEW t \in Tasks, AppendEntry(t)
    PROVE  IInv'
<1> DEFINE k   == task[t]
           sav == [k EXCEPT !.pc = "save"]
<1>1. /\ k.pc = "append" /\ k.pc \in Deciding /\ UNCHANGED <<snap, last, files>>
      /\ ledger' = ledger \cup {k.entry}
      /\ \/ k.op = "advance-over" /\ Becomes(t, LimitAdvance(k), mem)
         \/ Becomes(t, sav, mem)
  BY DEF AppendEntry, Deciding
<1>2. /\ k \in TaskRecord /\ k.run \in Runs /\ Follows(t, mem) /\ Within(t, k.ctx)
      /\ k.op \in LoopOps => k.ctx \in Contexts
      /\ RecOK(k.rec) /\ k.entry \in DecisionEntry /\ Covers(k.entry, k.rec)
      /\ Fits(k.op, k.rec)
      /\ k.op = "begin-retry" => HasRecord
  BY <1>1, DecidingFacts
<1>3. PersistOK'
  <2>1. IsFiniteSet(ledger') /\ ledger' \subseteq DecisionEntry /\ ledger \subseteq ledger'
    BY <1>1, <1>2, FS_AddElement DEF IInv, PersistOK
  <2>2. RecordsOK'
    BY <1>1, <2>1 DEF IInv, PersistOK, RecordsOK, Backed
  <2> QED BY <1>1, <2>1, <2>2 DEF IInv, PersistOK, HasRecord
<1>4. HasRecord => HasRecord'
  BY <1>1 DEF HasRecord
<1>5. ledger \subseteq ledger'
  BY <1>1
<1>6. CASE Becomes(t, sav, mem)
  <2>1. /\ sav \in TaskRecord /\ sav.pc = "save" /\ sav.op = k.op /\ sav.run = k.run
        /\ sav.ctx = k.ctx /\ sav.rec = k.rec /\ sav.entry = k.entry
    BY <1>2 DEF TaskRecord, Steps
  <2>2. Backed(k.rec, ledger')
    BY <1>1, <1>2 DEF Covers, Backed
  <2> HIDE DEF sav
  <2>3. TaskOK(sav, ledger', last')
    BY <1>1, <1>2, <2>1, <2>2 DEF TaskOK, InLoop, Deciding, HasRecord
  <2>4. Placed(t, sav, mem)
    BY <1>1, <1>2, <2>1 DEF Placed, Alone, Deciding
  <2>5. CallsOK'
    BY <1>2, <1>4, <1>5, <1>6, <2>3, <2>4, BecomesStep DEF IInv
  <2> QED BY <1>3, <2>5 DEF IInv
<1>7. CASE k.op = "advance-over" /\ Becomes(t, LimitAdvance(k), mem)
  <2> DEFINE q == LimitAdvance(k)
  <2>1. Outcome(k, q) /\ q.pc = "check" /\ q.op = "advance-limit"
    BY <1>2, <1>7, LimitAdvanceOutcome DEF LoopOps, Fits
  <2>2. Becomes(t, q, mem)
    BY <1>7
  <2> HIDE DEF q
  <2>3. TaskOK(q, ledger', last')
    BY <1>1, <1>5, <2>1, TaskStays DEF Outcome
  <2>4. Placed(t, q, mem)
    BY <1>2, <2>1 DEF Placed, Outcome, Alone
  <2>5. CallsOK'
    BY <1>2, <1>4, <1>5, <2>2, <2>3, <2>4, BecomesStep DEF IInv
  <2> QED BY <1>3, <2>5 DEF IInv
<1> QED BY <1>1, <1>6, <1>7

\* The record is saved and the operation returns.
LEMMA SaveRecordInv ==
    ASSUME IInv, NEW t \in Tasks, SaveRecord(t)
    PROVE  IInv'
<1> DEFINE k == task[t]
           m == [mem EXCEPT !.states[k.run] = k.rec.state]
<1>1. /\ k.pc = "save" /\ k.pc \in Deciding /\ Save(k.rec) /\ ledger' = ledger
      /\ Returned(t, m, k.rec, FALSE) /\ files' = Flagged(k.op)
  BY DEF SaveRecord, Deciding
<1>2. /\ k.run \in Runs /\ Follows(t, mem) /\ RecOK(k.rec) /\ Backed(k.rec, ledger)
  BY <1>1, DecidingFacts
<1>3. PersistOK' /\ HasRecord'
  BY <1>1, <1>2, FlaggedFacts, PersistSave DEF IInv
<1>4. Follows(t, m)
  <2>1. k.rec.state \in RunState
    BY <1>2 DEF RecOK, RunStateRecord
  <2> QED BY <1>2, <2>1, MemoryMoves
<1> HIDE DEF m
<1>5. CallsOK'
  BY <1>1, <1>2, <1>3, <1>4, ReturnedStep
<1> QED BY <1>3, <1>5 DEF IInv

\* The reminded record is saved.
LEMMA SaveReminderInv ==
    ASSUME IInv, NEW t \in Tasks, SaveReminder(t)
    PROVE  IInv'
<1>1. /\ task[t].pc = "resave" /\ Save(task[t].rec) /\ Becomes(t, IdleTask, mem)
      /\ UNCHANGED <<ledger, files>>
  BY DEF SaveReminder
<1>2. /\ RecOK(task[t].rec) /\ Backed(task[t].rec, ledger) /\ Follows(t, mem)
  BY <1>1, TaskFacts DEF TaskOK
<1>3. PersistOK' /\ HasRecord'
  BY <1>1, <1>2, PersistSave DEF IInv, PersistOK
<1>4. CallsOK'
  BY <1>1, <1>2, <1>3, IdleStep DEF IInv
<1> QED BY <1>3, <1>4 DEF IInv

-----------------------------------------------------------------------------
(* The calls from outside.                                                 *)

\* A call comes: its decision is one in order, and the memory changes at most by
\* what is pending.
LEMMA CalledStep ==
    ASSUME IInv, NEW t \in Tasks, mem.up, NEW r \in Runs, NEW op \in OpNames, op \notin LoopOps,
           NEW e \in DecisionEntry, NEW x, RecOK(x), Covers(e, x),
           NEW k0 \in TaskRecord, k0.run = r, k0.ctx = NoContext,
           task' \in [Tasks -> TaskRecord], task'[t] = Request(k0, op, e, x),
           Alike(t, task'), mem' \in {mem, [mem EXCEPT !.pending = @ \cup {r}]},
           UNCHANGED <<snap, last, ledger, files>>
    PROVE  IInv'
<1> DEFINE k == Request(k0, op, e, x)
<1>1. PersistOK' /\ (HasRecord => HasRecord') /\ ledger \subseteq ledger'
  BY PersistStays DEF IInv, PersistOK, HasRecord
<1>3. task'[t] = k
  OBVIOUS
<1>4. op \notin {"advance", "advance-over", "advance-limit", "begin-retry"}
  BY DEF LoopOps
<1>5. TaskOK(k, ledger', last') /\ k.pc = "check" /\ k.op = op /\ k.ctx = NoContext
  <2>1. k0.run \in Runs /\ (op \in LoopOps => k0.ctx \in Contexts)
    OBVIOUS
  <2>2. Fits(op, x) /\ (op = "begin-retry" => last' # NoRun)
    BY <1>4 DEF Fits
  <2> DEFINE l == ledger'
             n == last'
  <2> HIDE DEF l, n
  <2>3. TaskOK(k, l, n) /\ k.pc = "check" /\ k.op = op /\ k.ctx = k0.ctx
    BY <1>4, <2>1, <2>2, RequestFacts
  <2> QED BY <2>3 DEF l, n
<1> HIDE DEF k
<1>6. Placed(t, k, mem')
  BY <1>5 DEF Placed, Within, Alone, Deciding, LoopOps
<1>7. Follows(t, mem')
  BY TaskFacts, MemoryMoves
<1>8. CallsOK'
  BY <1>1, <1>3, <1>5, <1>6, <1>7, CallStep DEF IInv
<1> QED BY <1>1, <1>8 DEF IInv

\* The same through the operations' own form.
LEMMA CalledInv ==
    ASSUME IInv, NEW t \in Tasks, NEW r \in Runs, NEW op \in OpNames, op \notin LoopOps,
           NEW status \in Pendings, NEW e \in DecisionEntry, NEW old, NEW x, RecOK(x),
           Covers(e, x), Call(t, op, r, status, e, old, x),
           mem' \in {mem, [mem EXCEPT !.pending = @ \cup {r}]},
           UNCHANGED <<snap, last, ledger, files>>
    PROVE  IInv'
<1> DEFINE k0 == [IdleTask EXCEPT !.run = r, !.status = status]
           k  == Request(k0, op, e, x)
<1>1. mem.up /\ task' = [task EXCEPT ![t] = k]
  BY DEF Call, Free
<1>2. k \in TaskRecord
  <2>1. k0 \in TaskRecord
    BY IdleFacts DEF TaskRecord
  <2> HIDE DEF k0
  <2> QED BY <2>1 DEF Request, TaskRecord, Steps, RecOK
<1> HIDE DEF k
<1>3. task' \in [Tasks -> TaskRecord] /\ task'[t] = k /\ Alike(t, task')
  BY <1>1, <1>2 DEF IInv, CallsOK, Alike
<1>4. task'[t] = Request(k0, op, e, x)
  BY <1>3 DEF k
<1>5. k0 \in TaskRecord /\ k0.run = r /\ k0.ctx = NoContext
  BY IdleFacts DEF TaskRecord
<1> HIDE DEF k0
<1> QED BY <1>1, <1>3, <1>4, <1>5, CalledStep

\* A person decides on the record that the index leads to.
LEMMA SubmitDecisionInv ==
    ASSUME IInv, NEW t \in Tasks, NEW r \in Runs, NEW a \in Decisions,
           SubmitDecision(t, r, a), UNCHANGED <<snap, last, ledger, files>>
    PROVE  IInv'
<1> DEFINE to == DecisionTarget(a)
           e  == Entry(r, Rec.turn, DecisionName(a), to)
           x  == Answered(Rec, to)
<1>1. /\ HasRecord /\ Call(t, a, r, Rec.pending, e, Rec, x)
      /\ mem' = [mem EXCEPT !.pending = @ \cup {r}]
  BY DEF SubmitDecision, IsWaiting
<1>2. RecOK(Rec) /\ Rec.turn \in Nat /\ Rec.pending \in Pendings
  BY <1>1, RecFacts DEF IInv, RecOK, RunStateRecord
<1>3. /\ to \in RunState /\ to \notin {"needs_human", "retry"}
      /\ DecisionName(a) \in DecisionNames
      /\ to = "active" \/ DecisionName(a) \in Misaddressed
  BY DEF Decisions, DecisionTarget, DecisionName, DecisionNames, RunState, Misaddressed
<1>4. a \in OpNames /\ a \notin LoopOps
  BY DEF Decisions, OpNames, LoopOps
<1> HIDE DEF to
<1>5. e \in DecisionEntry /\ e.to = to /\ e.name = DecisionName(a)
  BY <1>2, <1>3, EntryFacts
<1>6. RecOK(x) /\ x.state = to
  BY <1>2, <1>3, ToFacts
<1> HIDE DEF e, x
<1>7. Covers(e, x)
  BY <1>3, <1>5, <1>6 DEF Covers
<1> QED BY <1>1, <1>2, <1>4, <1>5, <1>6, <1>7, CalledInv

\* The record that is made up for a run in the loop.
LEMMA SeedOfFacts ==
    ASSUME IInv, NEW r \in Runs, NEW c \in Contexts \cup {NoContext}
    PROVE  /\ RecOK(SeedOf(r, c)) /\ SeedOf(r, c).state = "active"
           /\ SeedOf(r, c).run = r /\ SeedOf(r, c).turn \in Nat
<1> DEFINE turn == IF c # NoContext THEN mem.contexts[c].turn ELSE 1
           b    == IF c # NoContext THEN Contract ELSE NoBudget
<1>1. turn \in Nat
  BY DEF IInv, CallsOK, MemOK, Memory
<1>2. b \in Budgets \cup {NoBudget}
  BY ContractFacts
<1>3. SeedOf(r, c) = Seed(r, turn, b)
  BY DEF SeedOf
<1> HIDE DEF turn, b
<1> QED BY <1>1, <1>2, <1>3, SeedFacts

\* The run in the loop is paused.
LEMMA PatchPauseInv ==
    ASSUME IInv, NEW t \in Tasks, PatchPause(t), UNCHANGED <<snap, last, ledger, files>>
    PROVE  IInv'
<1> DEFINE e == Entry(Pausable.run, Pausable.turn, "paused", "paused")
           x == To(Pausable, "paused")
<1>1. /\ CanPause /\ mem' = mem
      /\ Call(t, "patch_pause", Pausable.run, "none", e, Pausable, x)
  BY DEF PatchPause
<1>2. RecOK(Pausable)
  <2>1. CASE HasRecord /\ Rec.state = "active"
    BY <2>1, RecFacts DEF IInv, Pausable
  <2>2. CASE ~(HasRecord /\ Rec.state = "active")
    <3>1. mem.active \in Runs
      BY <1>1, <2>2 DEF CanPause, IInv, CallsOK, MemOK, Memory
    <3>2. mem.executing[mem.active] \in Contexts \cup {NoContext}
      BY <3>1 DEF IInv, CallsOK, MemOK, Memory
    <3>3. Pausable = SeedOf(mem.active, mem.executing[mem.active])
      BY <2>2 DEF Pausable
    <3> QED BY <3>1, <3>2, <3>3, SeedOfFacts
  <2> QED BY <2>1, <2>2
<1>3. Pausable.run \in Runs /\ Pausable.turn \in Nat
  BY <1>2 DEF RecOK, RunStateRecord
<1>4. "paused" \in DecisionNames /\ "paused" \in RunState /\ "none" \in Pendings
  BY DEF DecisionNames, RunState, Pendings
<1>5. e \in DecisionEntry /\ e.to = "paused" /\ e.run = Pausable.run
  BY <1>3, <1>4, EntryFacts
<1>6. RecOK(x) /\ x.state = "paused" /\ x.run = Pausable.run
  BY <1>2, <1>4, ToFacts
<1> HIDE DEF e, x
<1>7. Covers(e, x)
  BY <1>5, <1>6 DEF Covers
<1>8. "patch_pause" \in OpNames /\ "patch_pause" \notin LoopOps
  BY DEF OpNames, LoopOps
<1> QED BY <1>1, <1>3, <1>4, <1>5, <1>6, <1>7, <1>8, CalledInv

\* A paused run is resumed.
LEMMA PatchResumeInv ==
    ASSUME IInv, NEW t \in Tasks, PatchResume(t), UNCHANGED <<snap, last, ledger, files>>
    PROVE  IInv'
<1> DEFINE e == Entry(Rec.run, Rec.turn, "resumed-pause", "active")
           x == To(Rec, "active")
<1>1. HasRecord /\ mem' = mem /\ Call(t, "patch_resume", Rec.run, "none", e, Rec, x)
  BY DEF PatchResume
<1>2. RecOK(Rec) /\ Rec.run \in Runs /\ Rec.turn \in Nat
  BY <1>1, RecFacts DEF IInv, RecOK, RunStateRecord
<1>3. "resumed-pause" \in DecisionNames /\ "active" \in RunState /\ "none" \in Pendings
  BY DEF DecisionNames, RunState, Pendings
<1>4. e \in DecisionEntry /\ e.to = "active"
  BY <1>2, <1>3, EntryFacts
<1>5. RecOK(x) /\ x.state = "active"
  BY <1>2, <1>3, ToFacts
<1> HIDE DEF e, x
<1>6. Covers(e, x)
  BY <1>4, <1>5 DEF Covers
<1>7. "patch_resume" \in OpNames /\ "patch_resume" \notin LoopOps
  BY DEF OpNames, Resumes, LoopOps
<1> QED BY <1>1, <1>2, <1>3, <1>4, <1>5, <1>6, <1>7, CalledInv

\* New limits are limits; what is used stays as it is.
LEMMA SupplementFacts ==
    ASSUME NEW b \in Budgets, NEW s \in Supplements
    PROVE  /\ Supplemented(b, s) \in Budgets
           /\ Supplemented(b, s).usedRetries = b.usedRetries
<1> DEFINE turns   == Given(s.turns, b.maxTurns)
           retries == Given(s.retries, b.maxRetries)
           spent   == Given(s.spent, b.spent)
<1>1. turns \in Nat \ {0} /\ retries \in Nat /\ spent \in BOOLEAN
  BY Constants DEF Budgets, Given
<1>2. Supplemented(b, s) = [b EXCEPT !.maxTurns = turns, !.maxRetries = retries,
                                     !.spent = spent]
  BY DEF Supplemented, Budgets
<1> HIDE DEF turns, retries, spent
<1> QED BY <1>1, <1>2 DEF Budgets

\* A person sets new limits.
LEMMA SupplementBudgetInv ==
    ASSUME IInv, NEW t \in Tasks, SupplementBudget(t), UNCHANGED <<snap, last, ledger, files>>
    PROVE  IInv'
<1> DEFINE e == Entry(Rec.run, Rec.turn, "resumed-budget", "active")
           x(s) == [To(Rec, "active") EXCEPT !.budget = Supplemented(@, s)]
<1>1. PICK s \in Supplements : Call(t, "supplement", Rec.run, "none", e, Rec, x(s))
  BY DEF SupplementBudget
<1>2. HasRecord /\ mem' = mem /\ Rec.budget # NoBudget
  BY DEF SupplementBudget
<1>3. RecOK(Rec) /\ Rec.run \in Runs /\ Rec.turn \in Nat
  BY <1>2, RecFacts DEF IInv, RecOK, RunStateRecord
<1>4. "resumed-budget" \in DecisionNames /\ "active" \in RunState /\ "none" \in Pendings
  BY DEF DecisionNames, RunState, Pendings
<1>5. e \in DecisionEntry /\ e.to = "active"
  BY <1>3, <1>4, EntryFacts
<1>6. RecOK(x(s)) /\ x(s).state = "active"
  <2> DEFINE a == To(Rec, "active")
             b == Supplemented(a.budget, s)
  <2>1. RecOK(a) /\ a.state = "active"
    BY <1>3, <1>4, ToFacts
  <2>2. a.budget = Rec.budget
    BY <1>3 DEF To, RecOK, RunStateRecord
  <2>3. a.budget \in Budgets
    BY <1>2, <2>1, <2>2 DEF RecOK, RunStateRecord
  <2> HIDE DEF a
  <2>4. b \in Budgets
    BY <2>3, SupplementFacts
  <2>5. x(s) = [a EXCEPT !.budget = b]
    BY <2>1 DEF RecOK, RunStateRecord, a
  <2> HIDE DEF b
  <2>6. RecOK([a EXCEPT !.budget = b]) /\ [a EXCEPT !.budget = b].state = "active"
    BY <2>1, <2>4 DEF RecOK, RunStateRecord
  <2> QED BY <2>5, <2>6
<1> HIDE DEF e, x
<1>7. Covers(e, x(s))
  BY <1>5, <1>6 DEF Covers
<1>8. "supplement" \in OpNames /\ "supplement" \notin LoopOps
  BY DEF OpNames, Resumes, LoopOps
<1> QED BY <1>1, <1>2, <1>3, <1>4, <1>5, <1>6, <1>7, <1>8, CalledInv

\* Killing the turn of a run changes nothing else of a call.
LEMMA KillFacts ==
    ASSUME NEW tasks \in [Tasks -> TaskRecord], NEW r
    PROVE  /\ Kill(tasks, r) \in [Tasks -> TaskRecord]
           /\ \A u \in Tasks : \/ Kill(tasks, r)[u] = tasks[u]
                               \/ Kill(tasks, r)[u] = [tasks[u] EXCEPT !.killed = TRUE]
<1>1. ASSUME NEW u \in Tasks PROVE [tasks[u] EXCEPT !.killed = TRUE] \in TaskRecord
  <2>1. tasks[u] \in TaskRecord
    OBVIOUS
  <2> QED BY <2>1 DEF TaskRecord
<1> QED BY <1>1 DEF Kill

\* A run is discarded, by its record or by one that is made up for it.
LEMMA DiscardRunInv ==
    ASSUME IInv, NEW t \in Tasks, NEW r \in Runs, NEW force \in BOOLEAN,
           DiscardRun(t, r, force), UNCHANGED <<snap, last, ledger, files>>
    PROVE  IInv'
<1> DEFINE ctx == IF mem.executing[r] # NoContext THEN mem.executing[r]
                  ELSE mem.suspended[r]
           old == IF HasRecord /\ Rec.run = r THEN Rec
                  ELSE IF ctx = NoContext /\ r \notin mem.registered
                       THEN Seed(r, 0, NoBudget) ELSE SeedOf(r, ctx)
           x == Answered(old, "discarded")
           e == Entry(r, old.turn, "discarded", "discarded")
           k0 == [IdleTask EXCEPT !.run = r]
           k  == Request(k0, "discard", e, x)
           others == IF force THEN Kill(task, r) ELSE task
<1>1. /\ mem.up /\ mem' = mem /\ task' = [others EXCEPT ![t] = k]
  BY DEF DiscardRun, Free
<1>2. ctx \in Contexts \cup {NoContext}
  BY DEF IInv, CallsOK, MemOK, Memory
<1>3. RecOK(old) /\ old.run = r
  <2>1. HasRecord /\ Rec.run = r => RecOK(Rec)
    BY RecFacts DEF IInv
  <2>2. RecOK(Seed(r, 0, NoBudget)) /\ Seed(r, 0, NoBudget).run = r
    BY SeedFacts
  <2>3. RecOK(SeedOf(r, ctx)) /\ SeedOf(r, ctx).run = r
    BY <1>2, SeedOfFacts
  <2> HIDE DEF ctx
  <2> QED BY <2>1, <2>2, <2>3
<1> HIDE DEF old, ctx
<1>4. old.turn \in Nat
  BY <1>3 DEF RecOK, RunStateRecord
<1>5. "discarded" \in DecisionNames /\ "discarded" \in RunState /\ "none" \in Pendings
  BY DEF DecisionNames, RunState, Pendings
<1>6. e \in DecisionEntry /\ e.to = "discarded" /\ e.run = r
  BY <1>4, <1>5, EntryFacts
<1>7. RecOK(x) /\ x.state = "discarded" /\ x.run = r
  BY <1>3, <1>5, ToFacts
<1> HIDE DEF e, x
<1>8. Covers(e, x)
  BY <1>6, <1>7 DEF Covers
<1>9. "discard" \in OpNames /\ "discard" \notin LoopOps
  BY DEF OpNames, LoopOps
<1>10. k0 \in TaskRecord /\ k0.run = r /\ k0.ctx = NoContext
  BY IdleFacts DEF TaskRecord
<1> HIDE DEF k0
<1>11. k \in TaskRecord
  <2>1. "discard" \notin {"advance", "advance-over", "advance-limit", "begin-retry"}
    OBVIOUS
  <2>2. TaskOK(k, ledger, last)
    BY <1>6, <1>7, <1>8, <1>9, <1>10, <2>1, RequestFacts DEF Fits
  <2> QED BY <2>2 DEF TaskOK
<1> HIDE DEF k
<1>12. /\ others \in [Tasks -> TaskRecord]
       /\ \A u \in Tasks : others[u] = task[u] \/ others[u] = [task[u] EXCEPT !.killed = TRUE]
  BY KillFacts DEF IInv, CallsOK
<1> HIDE DEF others
<1>13. task' \in [Tasks -> TaskRecord] /\ task'[t] = k /\ Alike(t, task')
  BY <1>1, <1>11, <1>12 DEF Alike
<1>14. task'[t] = Request(k0, "discard", e, x)
  BY <1>13 DEF k
<1> QED BY <1>1, <1>6, <1>7, <1>8, <1>9, <1>10, <1>13, <1>14, CalledStep

\* A reminder that nobody answers fails the run.
LEMMA AbandonRunInv ==
    ASSUME IInv, NEW t \in Tasks, AbandonRun(t), UNCHANGED <<snap, last, ledger, files>>
    PROVE  IInv'
<1> DEFINE e == Entry(Rec.run, Rec.turn, "restart-recovery-failed", "failed")
           x == Answered(Rec, "failed")
<1>1. HasRecord /\ mem' = mem /\ Call(t, "fail", Rec.run, "none", e, Rec, x)
  BY DEF AbandonRun
<1>2. RecOK(Rec) /\ Rec.run \in Runs /\ Rec.turn \in Nat
  BY <1>1, RecFacts DEF IInv, RecOK, RunStateRecord
<1>3. "restart-recovery-failed" \in DecisionNames /\ "failed" \in RunState /\ "none" \in Pendings
  BY DEF DecisionNames, RunState, Pendings
<1>4. e \in DecisionEntry /\ e.to = "failed" /\ e.run = Rec.run
  BY <1>2, <1>3, EntryFacts
<1>5. RecOK(x) /\ x.state = "failed" /\ x.run = Rec.run
  BY <1>2, <1>3, ToFacts
<1> HIDE DEF e, x
<1>6. Covers(e, x)
  BY <1>4, <1>5 DEF Covers
<1>7. "fail" \in OpNames /\ "fail" \notin LoopOps
  BY DEF OpNames, LoopOps
<1> QED BY <1>1, <1>2, <1>3, <1>4, <1>5, <1>6, <1>7, CalledInv

\* A reminder is due: the record that was loaded is going to be saved.
LEMMA RemindHumanInv ==
    ASSUME IInv, NEW t \in Tasks, RemindHuman(t), UNCHANGED <<snap, last, ledger, files>>
    PROVE  IInv'
<1> DEFINE x == [Rec EXCEPT !.reminded = TRUE]
           k == [IdleTask EXCEPT !.pc = "resave", !.run = Rec.run, !.rec = x]
<1>1. HasRecord /\ mem.up /\ mem' = mem /\ task' = [task EXCEPT ![t] = k]
  BY DEF RemindHuman, Free
<1>2. RecOK(Rec) /\ Backed(Rec, ledger) /\ Rec.run \in Runs
  BY <1>1, RecFacts DEF IInv, RecOK, RunStateRecord
<1>3. RecOK(x) /\ Backed(x, ledger) /\ x \in RunStateRecord
  BY <1>2 DEF RecOK, RunStateRecord, Backed
<1> HIDE DEF x
<1>4. k \in TaskRecord /\ k.pc = "resave" /\ k.run = Rec.run /\ k.ctx = NoContext /\ k.rec = x
  <2>1. "resave" \in Steps
    BY DEF Steps
  <2> QED BY <1>2, <1>3, <2>1, IdleFacts DEF TaskRecord
<1> HIDE DEF k
<1>5. TaskOK(k, ledger', last') /\ Placed(t, k, mem')
  BY <1>2, <1>3, <1>4 DEF TaskOK, InLoop, Deciding, Placed, Within, Alone
<1>6. task' \in [Tasks -> TaskRecord] /\ task'[t] = k /\ Alike(t, task')
  BY <1>1, <1>4 DEF IInv, CallsOK, Alike
<1>7. PersistOK' /\ (HasRecord => HasRecord') /\ ledger \subseteq ledger'
  BY PersistStays DEF IInv, PersistOK, HasRecord
<1>8. Follows(t, mem')
  BY <1>1, TaskFacts
<1>9. CallsOK'
  BY <1>5, <1>6, <1>7, <1>8, CallStep DEF IInv
<1> QED BY <1>7, <1>9 DEF IInv

\* What holds of the calls does not depend on the files.
LEMMA CallsStay ==
    ASSUME CallsOK, UNCHANGED <<last, ledger, task, mem>>
    PROVE  CallsOK'
BY DEF CallsOK, GatesAlone, AdvancePositive, DownIsQuiet, Refers, Quiet, Idle

\* The pause flag alone is set.
LEMMA PatchFlagInv ==
    ASSUME IInv, NEW t \in Tasks, NEW paused \in BOOLEAN, PatchFlag(t, paused),
           UNCHANGED <<snap, last, ledger>>
    PROVE  IInv'
<1>1. files' = [files EXCEPT !.paused = paused] /\ UNCHANGED <<task, mem>>
  BY DEF PatchFlag
<1>2. files' \in Files
  BY <1>1 DEF IInv, PersistOK, Files
<1> QED BY <1>1, <1>2, PersistStays, CallsStay DEF IInv

\* A discarded run is released again.
LEMMA DiscardAgainInv ==
    ASSUME IInv, NEW t \in Tasks, NEW r \in Runs, DiscardAgain(t, r),
           UNCHANGED <<snap, last, ledger>>
    PROVE  IInv'
<1>1. mem.up /\ Becomes(t, IdleTask, ReleaseRun(mem, r)) /\ UNCHANGED files
  BY DEF DiscardAgain, Free
<1>2. Follows(t, ReleaseRun(mem, r))
  BY <1>1, TaskFacts, MemoryMoves
<1>3. PersistOK' /\ (HasRecord => HasRecord')
  BY <1>1, PersistStays DEF IInv, PersistOK, HasRecord
<1>4. CallsOK'
  BY <1>1, <1>2, <1>3, IdleStep DEF IInv
<1> QED BY <1>3, <1>4 DEF IInv

\* Any call from outside.
LEMMA OperationInv ==
    ASSUME IInv, NEW t \in Tasks, Operation(t)
    PROVE  IInv'
BY PatchFlagInv, DiscardAgainInv, SubmitDecisionInv, PatchPauseInv, PatchResumeInv,
   SupplementBudgetInv, DiscardRunInv, AbandonRunInv, RemindHumanInv DEF Operation

-----------------------------------------------------------------------------
(* Crash and restart.                                                      *)

\* The memory of a server that has just started.
LEMMA EmptyFacts ==
    /\ MemOK(EmptyMemory) /\ EmptyMemory.up
    /\ MemOK([EmptyMemory EXCEPT !.up = FALSE])
BY DEF EmptyMemory, MemOK, Memory, NoTurn

\* A crash ends every call and empties the memory; the files are as they were.
LEMMA CrashInv ==
    ASSUME IInv, Crash
    PROVE  IInv'
<1>1. /\ mem' = [EmptyMemory EXCEPT !.up = FALSE] /\ task' = [t \in Tasks |-> IdleTask]
      /\ UNCHANGED <<snap, last, ledger, files>>
  BY DEF Crash
<1>2. PersistOK'
  BY <1>1, PersistStays DEF IInv, PersistOK
<1>3. \A t \in Tasks : task'[t] = IdleTask
  BY <1>1
<1>4. task' \in [Tasks -> TaskRecord] /\ \A t \in Tasks : TaskOK(task'[t], ledger', last')
  BY <1>1, <1>3, IdleFacts
<1>5. GatesAlone' /\ AdvancePositive' /\ DownIsQuiet'
  BY <1>3, IdleFacts DEF GatesAlone, AdvancePositive, DownIsQuiet, Quiet, Idle, Alone, Deciding
<1>6. CallsOK'
  BY <1>1, <1>4, <1>5, EmptyFacts DEF CallsOK
<1> QED BY <1>2, <1>6 DEF IInv

\* The server starts again, with a call that recovers the run it was working on.
LEMMA RestartInv ==
    ASSUME IInv, NEW t \in Tasks, Restart(t)
    PROVE  IInv'
<1> DEFINE goes == [IdleTask EXCEPT !.pc = "recover", !.run = Rec.run]
           k == IF HasRecord /\ Rec.state \in InFlight THEN goes ELSE IdleTask
           tasks == [task EXCEPT ![t] = k]
<1>1. /\ ~mem.up /\ task' = tasks /\ mem' = Collect(EmptyMemory, tasks)
      /\ UNCHANGED <<snap, last, ledger, files>>
  BY DEF Restart, Becomes, Become
<1>2. PersistOK'
  BY <1>1, PersistStays DEF IInv, PersistOK
<1>3. /\ k \in TaskRecord /\ k.pc \in {"idle", "recover"}
      /\ k.pc = "recover" => k.run \in Runs
  <2>1. HasRecord => Rec.run \in Runs
    BY RecFacts DEF IInv, RecOK, RunStateRecord
  <2>2. HasRecord => goes \in TaskRecord /\ goes.pc = "recover" /\ goes.run = Rec.run
    BY <2>1, IdleFacts DEF TaskRecord, Steps
  <2> HIDE DEF goes
  <2> QED BY <2>1, <2>2, IdleFacts
<1> HIDE DEF k
<1>4. TaskOK(k, ledger', last')
  BY <1>3 DEF TaskOK, InLoop, Deciding
<1>5. task' \in [Tasks -> TaskRecord] /\ task'[t] = k
      /\ \A u \in Tasks \ {t} : task'[u] = task[u]
  BY <1>1, <1>3 DEF IInv, CallsOK
<1>6. \A u \in Tasks : task'[u].pc \in {"idle", "recover"}
  BY <1>1, <1>3, <1>5 DEF IInv, CallsOK, DownIsQuiet, Quiet, Idle
<1>7. \A u \in Tasks : TaskOK(task'[u], ledger', last')
  BY <1>1, <1>4, <1>5 DEF IInv, CallsOK
<1>8. GatesAlone' /\ AdvancePositive'
  BY <1>6 DEF GatesAlone, AdvancePositive, Alone, Deciding
<1>9. MemOK(mem') /\ mem'.up
  BY <1>1, EmptyFacts, CollectFacts
<1>10. CallsOK'
  BY <1>5, <1>7, <1>8, <1>9 DEF CallsOK, DownIsQuiet
<1> QED BY <1>2, <1>10 DEF IInv

-----------------------------------------------------------------------------
(* The theorems.                                                           *)

\* Every step keeps the invariant, and so does one that changes nothing.
LEMMA NextInv ==
    ASSUME IInv, [Next]_vars
    PROVE  IInv'
<1>1. ASSUME NEW t \in Tasks, Step(t) PROVE IInv'
  BY <1>1, SetUpInv, EndTurnInv, JudgeInv, DetectDeadLoopInv, WriteCheckpointInv, DriveInv,
     AdvanceInv, BeginInv, StampInv, ContinueRunInv, MergeInv, RecoverInv, ReadLedgerInv,
     AppendEntryInv, SaveRecordInv, SaveReminderInv DEF Step
<1>2. CASE Next
  BY <1>1, <1>2, CrashInv, OperationInv, TurnThrowsInv, RestartInv, StartRunInv DEF Next
<1>3. CASE UNCHANGED vars
  <2>1. UNCHANGED <<snap, last, ledger, files, task, mem>>
    BY <1>3 DEF vars
  <2>2. PersistOK'
    BY <2>1, PersistStays DEF IInv, PersistOK
  <2> QED BY <2>1, <2>2, CallsStay DEF IInv
<1> QED BY <1>2, <1>3

\* The inductive invariant holds in every state the control plane can reach.
THEOREM RunControlInvariant == Spec => []IInv
BY InitInv, NextInv, PTL DEF Spec

\* The files, the calls and the maps have their types, a snapshot is filed under
\* its own run, and the run that holds the loop is registered.
THEOREM ControlTypes == Spec => []TypeOK
<1>1. IInv => TypeOK
  BY DEF IInv, PersistOK, CallsOK, MemOK, TypeOK
<1> QED BY <1>1, RunControlInvariant, PTL

\* transition() appends before it saves: however many calls overlap and wherever
\* the server crashes, a decision explains the state of every record.
THEOREM RecordsAreBacked == Spec => []RecordBacked
<1>1. IInv => RecordBacked
  <2> SUFFICES ASSUME IInv, NEW r \in Runs, Shown(r) \notin {"none", "active"}
               PROVE  \E e \in ledger : e.to = Shown(r) /\ (e.run = r \/ e.name \in Misaddressed)
    BY DEF RecordBacked
  <2>1. snap[r] # NoRecord /\ snap[r].state = Shown(r) /\ snap[r].run = r
    BY DEF Shown, IInv, PersistOK
  <2>2. Backed(snap[r], ledger)
    BY <2>1 DEF IInv, PersistOK, RecordsOK
  <2> QED BY <2>1, <2>2 DEF Backed
<1> QED BY <1>1, RunControlInvariant, PTL

\* Whoever a run waits for can see in its record what is asked.
THEOREM WaitingAnswerable == Spec => []WaitingIsAnswerable
<1>1. IInv => WaitingIsAnswerable
  BY DEF IInv, PersistOK, RecordsOK, RecOK, WaitingIsAnswerable, Shown
<1> QED BY <1>1, RunControlInvariant, PTL
=============================================================================
