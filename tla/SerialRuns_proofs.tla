------------------------- MODULE SerialRuns_proofs -------------------------
(***************************************************************************)
(* Proofs about RunControl when calls come one at a time and the server    *)
(* does not crash: the runs implement RunStates, each turn works on the    *)
(* next subtask, and every retry has been paid for.                        *)
(***************************************************************************)
EXTENDS RunControl_proofs

-----------------------------------------------------------------------------
(* The inductive invariant, as a predicate of the call under way k, the    *)
(* snapshots S, the run n that wrote last, the ledger L, the memory m and  *)
(* the runs g that were started.                                           *)

\* One call at a time, no crash, nothing thrown; runs are not discarded; and a
\* contract that stops at its gate allows the blocker of the gate.
Serial ==
    /\ MaxOverlaps = 0 /\ MaxCrashes = 0
    /\ Ops \cap {"discard", "throws"} = {}
    /\ "intent_gate" \in Ops => MaxSameFailure \in Nat \ {0}

Terminal == {"complete", "failed", "discarded"}

Over == {"none"} \cup Terminal

\* Decisions that only end a run, and the operations that do.
EndNames == {"complete", "failed", "reject", "restart-recovery-failed", "discarded"}

EndOps == {"reject", "fail", "deadloop", "settle"}

JudgeNames == {"complete", "failed", "retry", "needs_human", "budget_limited"}

\* The operations that work in a context which the run is about to go on with.
BeginOps == {"begin-limit", "begin-retry", "advance-limit"}

AdvanceOps == {"advance", "advance-over"}

\* The operations of people and timers.
CallOps == Decisions \cup {"fail", "patch_resume", "supplement", "patch_pause"}

\* What a snapshot shows of a run.
Seen(S, r) == IF S[r] = NoRecord THEN "none" ELSE S[r].state

\* A run that is at work, or about to be.
Working(S, r) == Seen(S, r) \in {"none", "active"}

\* A move that RunStates allows: along the table, or the beginning of a run.
Allowed(s, u) ==
    \/ s = u
    \/ <<s, u>> \in LegalTransitions
    \/ s = "none" /\ (u = "active" \/ <<"active", u>> \in LegalTransitions)

\* The runs are serial: one holds the loop, all others are over; and the indexes
\* agree with the files.
RunsOK(S, n, L, m, g) ==
    /\ m.up
    /\ m.active \in g \cup {NoRun}
    /\ m.registered = IF m.active = NoRun THEN {} ELSE {m.active}
    /\ m.active # NoRun /\ Seen(S, m.active) # "none" => n = m.active
    /\ \A r \in Runs :
         /\ Seen(S, r) \notin Over => r = m.active
         /\ r \notin g => Seen(S, r) = "none" /\ \A e \in L : e.run # r
         /\ m.states[r] \in {"unknown", Seen(S, r)}
         /\ S[r] # NoRecord => S[r].pending \in {"none", "approval"}

\* Who is in the index of pending approvals waits for one.
PendingOK(S, m) ==
    /\ m.pending \subseteq {m.active} \cap Runs
    /\ \A r \in m.pending : Seen(S, r) = "needs_human"

\* The call k is about to save what e says.
Saving(k, e) == k.pc = "save" /\ k.entry = e

\* A decision that ends a run is final; a decision on a record that waits for a
\* person, or for its retry, is new.
LedgerOK(k, S, L, m) ==
    \A e \in L :
        /\ e.name \in EndNames => e.to \in Terminal
        /\ e.to \in Terminal => Seen(S, e.run) \in Terminal \/ Saving(k, e)
        /\ e.run = m.active /\ Seen(S, e.run) # "none" /\ e.turn >= S[e.run].turn
              /\ ~Saving(k, e) =>
             /\ Seen(S, e.run) = "needs_human" => e.name = "needs_human"
             /\ Seen(S, e.run) = "retry" => e.name # "resumed-retry"

\* The decisions of the run r are of turns before n.
Before(L, r, n) == \A e \in L : e.run = r => e.turn < n

\* The record of r is of a turn before n, if there is one.
TurnBefore(S, r, n) == Seen(S, r) # "none" => S[r].turn < n

Advances(L, r) == Cardinality({e \in L : e.run = r /\ e.name = "subtask_advance"})

\* In the context x, record and ledger of r are behind its turn, and its subtask,
\* moved by a, is the one behind the advances in the ledger and b more.
Progress(S, L, r, x, i, j, a, b) ==
    /\ TurnBefore(S, r, x.turn + i)
    /\ Before(L, r, x.turn + j)
    /\ x.sub < Subtasks
    /\ Least(x.sub + a, Subtasks - 1) = Least(Advances(L, r) + b, Subtasks - 1)

-----------------------------------------------------------------------------
(* The calls between the load of a record and its save.                    *)

\* The state in which a record is when an operation of a person or a timer has
\* loaded it.
LoadedIn(op) ==
    IF op = "patch_resume" THEN "paused"
    ELSE IF op = "supplement" THEN "budget_limited"
    ELSE IF op = "patch_pause" THEN "active"
    ELSE "needs_human"

\* What a person or a timer has decided.
CalledOK(k, S) ==
    /\ k.op \in CallOps
    /\ Seen(S, k.run) = LoadedIn(k.op)
    /\ k.entry.turn = S[k.run].turn /\ k.rec.turn = S[k.run].turn
    /\ k.op \in Resumes => k.entry.to = "active"
    /\ k.op \in {"pause", "patch_pause"} => k.entry.to = "paused"
    /\ k.entry.name \notin {"needs_human", "resumed-retry"}
    /\ k.entry.name = "subtask_advance" <=> k.op = "advance_subtask"

\* The judgment of a turn.
JudgeOK(k, S, L, x) ==
    /\ Working(S, k.run) /\ k.from = "loop"
    /\ k.entry.turn = x.turn /\ k.rec.turn = x.turn
    /\ Progress(S, L, k.run, x, 1, IF k.pc = "save" THEN 1 ELSE 0, 0, 0)
    /\ \A e \in L : e.run = k.run /\ e.turn = x.turn => e = k.entry
    /\ k.entry.to \in {"complete", "failed", "retry"} \cup Blocked
    /\ k.entry.name \in JudgeNames
    /\ k.entry.to = "needs_human" => k.entry.name = "needs_human"

\* The gate of a new contract.
GateOK(k, S, L, x) ==
    /\ Seen(S, k.run) = "none" /\ x.sub = 0
    /\ k.entry.turn = 0 /\ k.rec.turn = 0
    /\ \A e \in L : e.run = k.run => e = k.entry /\ k.pc = "save"
    /\ k.entry.to = "needs_human" /\ k.entry.name = "needs_human"

\* The beginning of the next turn.
BeginningOK(k, S, L, x) ==
    /\ k.rec.turn < x.turn /\ k.entry.turn < x.turn
    /\ Progress(S, L, k.run, x, 0, 0, 0, 0)
    /\ k.entry.name # "subtask_advance"
    /\ k.op = "begin-limit" =>
         Seen(S, k.run) = "active" /\ k.entry.to = "budget_limited"
    /\ k.op = "advance-limit" =>
         /\ Working(S, k.run) /\ k.from = "loop"
         /\ k.entry.to = "budget_limited" /\ k.rec.turn = x.turn - 1
         /\ k.pc = "save" \/ ~ \E e \in L : SameId(e, k.entry)
    /\ k.op = "begin-retry" =>
         /\ Seen(S, k.run) = "retry" /\ k.entry.to = "active"
         /\ k.rec.turn = S[k.run].turn /\ k.entry.turn = S[k.run].turn
         /\ k.entry.name = "resumed-retry"

\* The advance to the next subtask.
AdvancingOK(k, S, L, x) ==
    /\ Working(S, k.run) /\ k.from = "loop"
    /\ k.entry.turn + 1 = x.turn /\ k.rec.state = "active"
    /\ k.rec.turn = IF k.op = "advance" THEN x.turn ELSE x.turn - 1
    /\ k.entry.name = "subtask_advance"
    /\ IF k.pc = "save" THEN k.op = "advance" /\ Progress(S, L, k.run, x, 0, 0, 0, 0)
       ELSE Progress(S, L, k.run, x, 0, 0 - 1, 0, 1)

DecisionOK(k, S, L, m) ==
    LET r == k.run
        x == m.contexts[k.ctx]
    IN  /\ k.rec.run = r /\ k.entry.run = r /\ r = m.active
        /\ k.rec.pending \in {"none", "approval"}
        /\ Seen(S, r) \notin Terminal
        /\ Allowed(Seen(S, r), k.rec.state) /\ k.entry.to = k.rec.state
        /\ k.op \in EndOps => k.entry.name \in EndNames
        /\ k.entry.name \in EndNames => k.entry.to \in Terminal
        /\ k.pc = "save" => k.entry \in L
        /\ k.op \notin LoopOps => CalledOK(k, S)
        /\ k.op = "judge" => JudgeOK(k, S, L, x)
        /\ k.op = "gate" => GateOK(k, S, L, x)
        /\ k.op \in BeginOps =>
             /\ k.from = "loop" \/ (k.from = "continue" /\ m.suspended[r] = k.ctx)
             /\ BeginningOK(k, S, L, x)
        /\ k.op \in AdvanceOps => AdvancingOK(k, S, L, x)
        /\ k.op = "deadloop" => k.status = "failed"
        /\ k.op = "settle" => Seen(S, r) = "active"

-----------------------------------------------------------------------------
(* The calls in the turn loop, and those that are not.                     *)

\* A turn is done, and judged or about to be advanced.
JudgedOK(k, S, L, m) ==
    LET r == k.run
        x == m.contexts[k.ctx]
    IN  \/ /\ k.status = "advance" /\ k.pc # "judged"
           /\ r = m.active /\ Working(S, r) /\ k.from = "loop"
           /\ x.sub + 1 < Subtasks
           /\ Progress(S, L, r, x, 1, 0, 0, 0)
        \/ /\ k.status \in {"retry"} \cup Blocked
           /\ r = m.active /\ Seen(S, r) = k.status /\ k.from = "loop"
           /\ Progress(S, L, r, x, 1, 1, 0, 0)
        \/ /\ k.status \in {"complete", "failed"} /\ Seen(S, r) \in Terminal
           /\ r = m.active \/ (m.active = NoRun /\ k.pc # "judged")

WorkOK(k, S, L, m) ==
    LET r == k.run
        x == m.contexts[k.ctx]
    IN  /\ k.pc \in {"judged", "handoff", "drive"} \/ r = m.active
        /\ k.pc = "setup" =>
             /\ Seen(S, r) = "none" /\ x.turn = 1 /\ x.sub = 0
             /\ \A e \in L : e.run # r
        /\ k.pc \in {"turn", "verify"} =>
             Working(S, r) /\ k.from = "loop" /\ Progress(S, L, r, x, 1, 0, 0, 0)
        /\ k.pc \in {"judged", "handoff", "drive"} => JudgedOK(k, S, L, m)
        /\ k.pc = "advance" =>
             /\ Working(S, r) /\ k.from = "loop"
             /\ x.turn >= 1 /\ Progress(S, L, r, x, 0, 0 - 1, 0, 1)
        /\ k.pc \in {"begin", "stamp"} =>
             /\ k.from = "loop" \/ (k.from = "continue" /\ m.suspended[r] = k.ctx)
             /\ Seen(S, r) \notin Over
             /\ Progress(S, L, r, x, 0, 0, 0, 0)
        /\ k.pc = "begin" /\ k.from = "loop" => Seen(S, r) = "retry"
        /\ k.pc = "stamp" =>
             /\ Seen(S, r) = "active" /\ k.rec.run = r
             /\ k.rec.state = "active" /\ k.rec.turn = x.turn
             /\ k.rec.pending \in {"none", "approval"}
        /\ k.pc = "merge" => Seen(S, r) = "active" /\ k.from = "continue"

\* The call does not work in a context of its own.
Rests(k) ==
    \/ k.pc \in {"idle", "continue", "resave"}
    \/ k.pc \in Deciding /\ k.op \notin LoopOps

\* The run that holds the loop waits in its context.
SuspendedOK(k, S, L, m) ==
    LET r == m.active
        c == m.suspended[r]
        a == IF k.op = "advance_subtask" /\ k.pc \in {"save", "continue"} THEN 1 ELSE 0
    IN  c \in Contexts /\ Seen(S, r) \notin Over /\ Progress(S, L, r, m.contexts[c], 1, 1, a, 0)

\* A call that waits for nothing in the loop.
RestOK(k, S, m) ==
    /\ k.pc # "idle" => k.run = m.active
    /\ k.pc = "continue" =>
         /\ k.op \in Resumes
         /\ k.op \in Decisions => Seen(S, k.run) = "active"
    /\ k.pc = "resave" =>
         /\ k.rec.run = k.run /\ k.rec.state = "needs_human"
         /\ Seen(S, k.run) = "needs_human" /\ k.rec.turn = S[k.run].turn
         /\ k.rec.pending \in {"none", "approval"}

SerialOK(k, S, n, L, m, g) ==
    /\ RunsOK(S, n, L, m, g) /\ PendingOK(S, m)
    /\ LedgerOK(k, S, L, m)
    /\ k.pc # "recover" /\ k.status # "restart-active"
    /\ k.pc \in Deciding => DecisionOK(k, S, L, m)
    /\ k.pc \notin Deciding /\ ~Rests(k) => WorkOK(k, S, L, m)
    /\ Rests(k) => RestOK(k, S, m)
    /\ Rests(k) /\ m.active # NoRun => SuspendedOK(k, S, L, m)

\* At most one call is under way.
Lone == \A t, u \in Tasks : ~Idle(t) /\ ~Idle(u) => t = u

SerialInv ==
    /\ Lone /\ overlaps = 0 /\ crashes = 0
    /\ \A t \in Tasks : ~Idle(t) => SerialOK(task[t], snap, last, ledger, mem, started)
    /\ Quiet => SerialOK(IdleTask, snap, last, ledger, mem, started)

-----------------------------------------------------------------------------
(* Reading the invariant, and a step of a call.                            *)

\* When a call is under way no other is, and the invariant speaks about it.
LEMMA Under ==
    ASSUME IInv, SerialInv, NEW t \in Tasks, ~Idle(t)
    PROVE  /\ SerialOK(task[t], snap, last, ledger, mem, started)
           /\ \A u \in Tasks \ {t} : Idle(u)
           /\ overlaps = 0 /\ crashes = 0 /\ mem.up
           /\ task[t].run \in Runs /\ task[t] \in TaskRecord
<1>1. task[t].run \in Runs /\ task[t] \in TaskRecord
  BY TaskFacts DEF Idle
<1>2. SerialOK(task[t], snap, last, ledger, mem, started)
  BY DEF SerialInv
<1>3. \A u \in Tasks \ {t} : Idle(u)
  BY DEF SerialInv, Lone
<1> QED BY <1>1, <1>2, <1>3 DEF SerialInv, SerialOK, RunsOK

\* A call only comes when no other is under way.
LEMMA AtRest ==
    ASSUME Serial, IInv, SerialInv, NEW t \in Tasks, Free(t)
    PROVE  /\ Quiet /\ overlaps' = 0 /\ overlaps = 0 /\ crashes = 0 /\ mem.up
           /\ SerialOK(IdleTask, snap, last, ledger, mem, started)
<1>1. overlaps = 0 /\ crashes = 0
  BY DEF SerialInv
<1>2. Quiet
  BY <1>1 DEF Free, Serial
<1> QED BY <1>1, <1>2 DEF Free, SerialInv

\* What the invariant knows of the memory m is known of m2.
Resembles(k, m, m2) ==
    /\ m2.up = m.up /\ m2.active = m.active /\ m2.registered = m.registered
    /\ m2.states = m.states /\ m2.pending = m.pending /\ m2.suspended = m.suspended
    /\ InLoop(k) => m2.contexts[k.ctx] = m.contexts[k.ctx]
    /\ m.active # NoRun /\ m.suspended[m.active] \in Contexts =>
          m2.contexts[m.suspended[m.active]] = m.contexts[m.suspended[m.active]]

\* The invariant holds in a memory that is alike.
LEMMA SerialAlike ==
    ASSUME NEW k, NEW S, NEW n, NEW L, NEW m, NEW m2, NEW g,
           SerialOK(k, S, n, L, m, g), Resembles(k, m, m2)
    PROVE  SerialOK(k, S, n, L, m2, g)
<1>1. RunsOK(S, n, L, m2, g) /\ PendingOK(S, m2) /\ LedgerOK(k, S, L, m2)
  BY DEF SerialOK, Resembles, RunsOK, PendingOK, LedgerOK
<1>2. ASSUME k.pc \in Deciding PROVE DecisionOK(k, S, L, m2)
  <2>1. DecisionOK(k, S, L, m)
    BY <1>2 DEF SerialOK
  <2>2. k.op \in LoopOps => m2.contexts[k.ctx] = m.contexts[k.ctx]
    BY <1>2 DEF Resembles, InLoop
  <2>3. k.op \in {"judge", "gate"} \cup BeginOps \cup AdvanceOps => k.op \in LoopOps
    BY DEF LoopOps, BeginOps, AdvanceOps
  <2> QED BY <2>1, <2>2, <2>3 DEF DecisionOK, Resembles
<1>3. ASSUME k.pc \notin Deciding, ~Rests(k) PROVE WorkOK(k, S, L, m2)
  <2>1. WorkOK(k, S, L, m)
    BY <1>3 DEF SerialOK
  <2>2. k.pc \in {"setup", "turn", "verify", "judged", "handoff", "drive",
                 "advance", "begin", "stamp", "merge"} =>
          m2.contexts[k.ctx] = m.contexts[k.ctx]
    BY DEF Resembles, InLoop
  <2>3. JudgedOK(k, S, L, m) /\ k.pc \in {"judged", "handoff", "drive"} => JudgedOK(k, S, L, m2)
    BY <2>2 DEF JudgedOK, Resembles
  <2> QED BY <2>1, <2>2, <2>3 DEF WorkOK, Resembles
<1>4. ASSUME Rests(k), m.active # NoRun PROVE SuspendedOK(k, S, L, m2)
  <2>1. SuspendedOK(k, S, L, m)
    BY <1>4 DEF SerialOK
  <2>2. m2.contexts[m.suspended[m.active]] = m.contexts[m.suspended[m.active]]
    BY <2>1, <1>4 DEF SuspendedOK, Resembles
  <2> QED BY <2>1, <2>2 DEF SuspendedOK, Resembles
<1>5. Rests(k) => RestOK(k, S, m2)
  BY DEF SerialOK, RestOK, Resembles
<1>6. k.pc # "recover" /\ k.status # "restart-active"
  BY DEF SerialOK
<1>7. m2.active = m.active
  BY DEF Resembles
<1> QED BY <1>1, <1>2, <1>3, <1>4, <1>5, <1>6, <1>7 DEF SerialOK

\* A call takes a step to k and to a memory that is collected.
LEMMA SerialStep ==
    ASSUME IInv, IInv', NEW t \in Tasks, \A u \in Tasks \ {t} : Idle(u), NEW k, NEW m,
           MemOK(m), Becomes(t, k, m), overlaps' = 0, crashes' = 0,
           SerialOK(k, snap', last', ledger', m, started'),
           k.pc = "idle" => k = IdleTask
    PROVE  SerialInv'
<1> DEFINE tasks == [task EXCEPT ![t] = k]
<1>1. task' = tasks /\ mem' = Collect(m, tasks)
  BY DEF Becomes, Become
<1>2. tasks[t] = k /\ \A u \in Tasks \ {t} : tasks[u] = task[u]
  BY DEF IInv, CallsOK
<1> HIDE DEF tasks
<1>3. TaskOK(k, ledger', last') /\ (InLoop(k) => k.ctx \in Contexts)
  BY <1>1, <1>2 DEF IInv, CallsOK, TaskOK
<1>4. Resembles(k, m, mem')
  <2> DEFINE f == [c \in Contexts |->
                     IF \/ \E r \in Runs : m.suspended[r] = c \/ m.executing[r] = c
                        \/ \E u \in Tasks : tasks[u].ctx = c
                     THEN m.contexts[c] ELSE NoTurn]
  <2>1. mem' = [m EXCEPT !.contexts = f]
    BY <1>1 DEF Collect, MemOK, Memory
  <2>2. InLoop(k) => f[k.ctx] = m.contexts[k.ctx]
    BY <1>2, <1>3
  <2>3. m.active \in Runs /\ m.suspended[m.active] \in Contexts =>
          f[m.suspended[m.active]] = m.contexts[m.suspended[m.active]]
    OBVIOUS
  <2> HIDE DEF f
  <2>4. /\ mem'.contexts = f /\ mem'.up = m.up /\ mem'.active = m.active
        /\ mem'.registered = m.registered /\ mem'.states = m.states
        /\ mem'.pending = m.pending /\ mem'.suspended = m.suspended
    BY <2>1 DEF MemOK, Memory
  <2>5. m.active # NoRun => m.active \in Runs
    BY DEF MemOK, Memory
  <2> QED BY <2>2, <2>3, <2>4, <2>5 DEF Resembles
<1>5. SerialOK(k, snap', last', ledger', mem', started')
  BY <1>4, SerialAlike
<1>6. \A u \in Tasks \ {t} : task'[u].pc = "idle"
  BY <1>1, <1>2 DEF Idle
<1>7. task'[t] = k
  BY <1>1, <1>2
<1>8. Lone'
  BY <1>6 DEF Lone, Idle
<1>9. Quiet' => k = IdleTask
  BY <1>7 DEF Quiet, Idle
<1>10. \A u \in Tasks : ~Idle(u)' => u = t
  BY <1>6 DEF Idle
<1> QED BY <1>5, <1>7, <1>8, <1>9, <1>10 DEF SerialInv

-----------------------------------------------------------------------------
(* The turns, the subtasks and the decisions of a run.                     *)

Snapshots == [Runs -> RunStateRecord \cup {NoRecord}]

Turns == [turn : Nat, sub : Nat]

\* The files and contexts have their types.
LEMMA Types ==
    ASSUME IInv
    PROVE  /\ snap \in Snapshots /\ ledger \subseteq DecisionEntry /\ IsFiniteSet(ledger)
           /\ \A c \in Contexts : mem.contexts[c] \in Turns
           /\ MemOK(mem) /\ Subtasks \in Nat \ {0}
           /\ mem.active \in Runs \cup {NoRun}
BY Constants DEF IInv, PersistOK, CallsOK, MemOK, Memory, Snapshots, Turns

\* A run that is shown has a record, with its turn.
LEMMA SeenFacts ==
    ASSUME NEW S \in Snapshots, NEW r \in Runs
    PROVE  /\ Seen(S, r) \in RunState \cup {"none"}
           /\ Seen(S, r) = "none" <=> S[r] = NoRecord
           /\ Seen(S, r) # "none" => S[r].turn \in Nat /\ Seen(S, r) = S[r].state
BY Constants DEF Snapshots, Seen, RunStateRecord, RunState

\* Before a run has a decision, nothing has been advanced.
LEMMA AdvancesNone ==
    ASSUME NEW L, NEW r, \A e \in L : e.run = r => e.name # "subtask_advance"
    PROVE  Advances(L, r) = 0
<1>1. {e \in L : e.run = r /\ e.name = "subtask_advance"} = {}
  OBVIOUS
<1> QED BY <1>1, FS_EmptySet DEF Advances

\* Only an advance of the run counts.
LEMMA AdvancesSame ==
    ASSUME NEW L, NEW r, NEW e, e.run = r => e.name # "subtask_advance"
    PROVE  Advances(L \cup {e}, r) = Advances(L, r)
<1>1. {d \in L \cup {e} : d.run = r /\ d.name = "subtask_advance"}
      = {d \in L : d.run = r /\ d.name = "subtask_advance"}
  OBVIOUS
<1> QED BY <1>1 DEF Advances

\* ... and one that is new counts once.
LEMMA AdvancesMore ==
    ASSUME NEW L, IsFiniteSet(L), NEW r, NEW e, e \notin L, e.run = r,
           e.name = "subtask_advance"
    PROVE  Advances(L \cup {e}, r) = Advances(L, r) + 1
<1> DEFINE A == {d \in L : d.run = r /\ d.name = "subtask_advance"}
           B == {d \in L \cup {e} : d.run = r /\ d.name = "subtask_advance"}
<1>1. A \subseteq L /\ e \notin A /\ B = A \cup {e}
  OBVIOUS
<1>2. Advances(L, r) = Cardinality(A) /\ Advances(L \cup {e}, r) = Cardinality(B)
  BY DEF Advances
<1> HIDE DEF A, B
<1>3. IsFiniteSet(A)
  BY <1>1, FS_Subset
<1>4. Cardinality(A \cup {e}) = Cardinality(A) + 1
  BY <1>1, <1>3, FS_AddElement
<1> QED BY <1>1, <1>2, <1>4

\* Advances are counted.
LEMMA AdvancesNat ==
    ASSUME NEW L, IsFiniteSet(L), NEW r
    PROVE  Advances(L, r) \in Nat
<1> DEFINE A == {d \in L : d.run = r /\ d.name = "subtask_advance"}
<1>1. A \subseteq L /\ Advances(L, r) = Cardinality(A)
  BY DEF Advances
<1> HIDE DEF A
<1> QED BY <1>1, FS_Subset, FS_CardinalityType

\* The progress of a run, read in another context, is progress as far as the turn of
\* that is not behind and its subtask is the one to work on.
LEMMA ProgressIn ==
    ASSUME NEW S \in Snapshots, NEW L, L \subseteq DecisionEntry, NEW r \in Runs,
           NEW x \in Turns, NEW y \in Turns, NEW i \in Int, NEW j \in Int,
           NEW i2 \in Int, NEW j2 \in Int, NEW a, NEW b, NEW a2, NEW b2,
           Progress(S, L, r, x, i, j, a, b),
           x.turn + i <= y.turn + i2, x.turn + j <= y.turn + j2, y.sub < Subtasks,
           Least(y.sub + a2, Subtasks - 1) = Least(Advances(L, r) + b2, Subtasks - 1)
    PROVE  Progress(S, L, r, y, i2, j2, a2, b2)
<1>1. TurnBefore(S, r, y.turn + i2)
  <2>1. TurnBefore(S, r, x.turn + i)
    BY DEF Progress
  <2>2. Seen(S, r) # "none" => S[r].turn \in Nat
    BY SeenFacts
  <2>3. x.turn + i \in Int /\ y.turn + i2 \in Int
    BY DEF Turns
  <2> QED BY <2>1, <2>2, <2>3 DEF TurnBefore
<1>2. Before(L, r, y.turn + j2)
  <2>1. Before(L, r, x.turn + j)
    BY DEF Progress
  <2>2. \A e \in L : e.turn \in Nat
    BY DEF DecisionEntry
  <2>3. x.turn + j \in Int /\ y.turn + j2 \in Int
    BY DEF Turns
  <2> QED BY <2>1, <2>2, <2>3 DEF Before
<1> QED BY <1>1, <1>2 DEF Progress

\* In its own context the progress of a run may be read more weakly.
LEMMA ProgressWeaker ==
    ASSUME NEW S \in Snapshots, NEW L, L \subseteq DecisionEntry, NEW r \in Runs,
           NEW x \in Turns, NEW i \in Int, NEW j \in Int,
           NEW i2 \in Int, NEW j2 \in Int, NEW a, NEW b,
           Progress(S, L, r, x, i, j, a, b), i <= i2, j <= j2
    PROVE  Progress(S, L, r, x, i2, j2, a, b)
<1>1. x.turn + i <= x.turn + i2 /\ x.turn + j <= x.turn + j2
  BY DEF Turns
<1>2. /\ x.sub < Subtasks
      /\ Least(x.sub + a, Subtasks - 1) = Least(Advances(L, r) + b, Subtasks - 1)
  BY DEF Progress
<1> QED BY <1>1, <1>2, ProgressIn

\* A record of the run is saved: only the turn of the record matters.
LEMMA ProgressSaved ==
    ASSUME NEW S, NEW r, NEW S2, NEW L, NEW x, NEW i, NEW i2, NEW j, NEW a, NEW b,
           Progress(S, L, r, x, i, j, a, b), S2[r].turn < x.turn + i2
    PROVE  Progress(S2, L, r, x, i2, j, a, b)
BY DEF Progress, TurnBefore

\* The run that waits where nothing has been done yet, or has just begun.
LEMMA ProgressNone ==
    ASSUME NEW S, NEW L, NEW r, NEW x \in Turns, NEW i, NEW j,
           TurnBefore(S, r, x.turn + i), Before(L, r, x.turn + j), x.sub = 0,
           \A e \in L : e.run = r => e.name # "subtask_advance"
    PROVE  Progress(S, L, r, x, i, j, 0, 0)
<1>1. Advances(L, r) = 0
  BY AdvancesNone
<1>2. Subtasks \in Nat /\ 0 < Subtasks
  BY Constants
<1> QED BY <1>1, <1>2 DEF Progress

\* A decision other than an advance is recorded.
LEMMA ProgressDecided ==
    ASSUME NEW S, NEW L, L \subseteq DecisionEntry, NEW r \in Runs, NEW e, NEW x \in Turns,
           NEW i, NEW j \in Int, NEW j2 \in Int, NEW a, NEW b,
           Progress(S, L, r, x, i, j, a, b), j <= j2, e.turn < x.turn + j2,
           e.name # "subtask_advance"
    PROVE  Progress(S, L \cup {e}, r, x, i, j2, a, b)
<1>1. Advances(L \cup {e}, r) = Advances(L, r)
  BY AdvancesSame
<1>2. Before(L \cup {e}, r, x.turn + j2)
  <2>1. Before(L, r, x.turn + j)
    BY DEF Progress
  <2>2. \A d \in L : d.turn \in Nat
    BY DEF DecisionEntry
  <2>3. x.turn + j \in Int /\ x.turn + j2 \in Int /\ x.turn + j <= x.turn + j2
    BY DEF Turns
  <2> QED BY <2>1, <2>2, <2>3 DEF Before
<1> QED BY <1>1, <1>2 DEF Progress

\* An advance is recorded.
LEMMA ProgressAdvanced ==
    ASSUME NEW S, NEW L, L \subseteq DecisionEntry, IsFiniteSet(L), NEW r \in Runs,
           NEW e, e \notin L, e.run = r, e.name = "subtask_advance", NEW x \in Turns,
           NEW i, NEW j \in Int, NEW j2 \in Int, NEW a, NEW b, NEW a2, NEW b2,
           Progress(S, L, r, x, i, j, a, b), j <= j2, e.turn < x.turn + j2,
           Least(x.sub + a2, Subtasks - 1) = Least(Advances(L, r) + 1 + b2, Subtasks - 1)
    PROVE  Progress(S, L \cup {e}, r, x, i, j2, a2, b2)
<1>1. Advances(L \cup {e}, r) = Advances(L, r) + 1
  BY AdvancesMore
<1>2. Before(L \cup {e}, r, x.turn + j2)
  <2>1. Before(L, r, x.turn + j)
    BY DEF Progress
  <2>2. \A d \in L : d.turn \in Nat
    BY DEF DecisionEntry
  <2>3. x.turn + j \in Int /\ x.turn + j2 \in Int /\ x.turn + j <= x.turn + j2
    BY DEF Turns
  <2> QED BY <2>1, <2>2, <2>3 DEF Before
<1> QED BY <1>1, <1>2 DEF Progress

\* One subtask on is one subtask on, below the last one.
LEMMA LeastMore ==
    ASSUME NEW p \in Nat, NEW q \in Nat, NEW l \in Int, Least(p, l) = Least(q, l)
    PROVE  Least(p + 1, l) = Least(q + 1, l)
BY DEF Least

\* The least of two numbers is bounded by both.
LEMMA LeastFacts ==
    ASSUME NEW p \in Nat, NEW l \in Nat
    PROVE  /\ Least(p, l) \in Nat /\ Least(p, l) <= l /\ Least(Least(p, l), l) = Least(p, l)
           /\ p <= l => Least(p, l) = p
BY DEF Least

-----------------------------------------------------------------------------
(* The parts of the invariant when no file changes.                        *)

\* The maps that tell who holds the loop and what is known of the runs.
Keeps(m, m2) ==
    /\ m2.up = m.up /\ m2.active = m.active /\ m2.registered = m.registered
    /\ m2.states = m.states /\ m2.pending = m.pending

\* What is known of the runs stays while these maps do.
LEMMA RunsStay ==
    ASSUME NEW k, NEW S, NEW n, NEW L, NEW m, NEW g, NEW m2, NEW q,
           SerialOK(k, S, n, L, m, g), k.pc # "save", Keeps(m, m2)
    PROVE  RunsOK(S, n, L, m2, g) /\ PendingOK(S, m2) /\ LedgerOK(q, S, L, m2)
<1>1. RunsOK(S, n, L, m2, g)
  BY DEF SerialOK, RunsOK, Keeps
<1>2. PendingOK(S, m2)
  BY DEF SerialOK, PendingOK, Keeps
<1>3. LedgerOK(q, S, L, m2)
  BY DEF SerialOK, LedgerOK, Keeps, Saving
<1> QED BY <1>1, <1>2, <1>3

\* The run that is at work, or that waits, has written the loop's record.
LEMMA ActiveRec ==
    ASSUME IInv, NEW k, SerialOK(k, snap, last, ledger, mem, started),
           NEW r \in Runs, r = mem.active
    PROVE  /\ Seen(snap, r) # "none" <=> HasRecord /\ Rec.run = r
           /\ Seen(snap, r) # "none" =>
                /\ last = r /\ Rec = snap[r] /\ Rec.state = Seen(snap, r)
                /\ Rec.turn \in Nat /\ RecOK(Rec) /\ Rec.pending \in {"none", "approval"}
<1>1. PersistOK
  BY DEF IInv
<1>2. HasRecord => Rec = snap[last] /\ last \in Runs /\ Rec.run = last /\ RecOK(Rec)
                   /\ snap[last] # NoRecord
  BY <1>1, RecFacts DEF PersistOK
<1>3. r # NoRun
  BY Constants
<1>4. Seen(snap, r) # "none" => last = r
  BY <1>3 DEF SerialOK, RunsOK
<1>5. Seen(snap, r) = "none" <=> snap[r] = NoRecord
  BY Types, SeenFacts
<1>6. snap[r] # NoRecord => snap[r].pending \in {"none", "approval"}
  BY DEF SerialOK, RunsOK
<1> QED BY <1>2, <1>3, <1>4, <1>5, <1>6, Types, SeenFacts DEF HasRecord, Rec

\* A run that is at rest and not over is the one that has the loop.
LEMMA WhoWaits ==
    ASSUME IInv, NEW k, SerialOK(k, snap, last, ledger, mem, started),
           HasRecord, Rec.state \notin Terminal
    PROVE  /\ Rec.run \in Runs /\ Rec.run = mem.active
           /\ Rec = snap[Rec.run] /\ Seen(snap, Rec.run) = Rec.state
           /\ Rec.turn \in Nat /\ RecOK(Rec) /\ Rec.pending \in {"none", "approval"}
<1>1. PersistOK
  BY DEF IInv
<1>2. Rec = snap[last] /\ last \in Runs /\ Rec.run = last /\ RecOK(Rec) /\ snap[last] # NoRecord
  BY <1>1, RecFacts DEF PersistOK
<1>3. Seen(snap, last) = Rec.state /\ Rec.turn \in Nat
  BY <1>2, Types, SeenFacts
<1>4. Seen(snap, last) \notin Over
  BY <1>2, <1>3 DEF Over, RecOK, RunStateRecord, RunState
<1> QED BY <1>2, <1>3, <1>4 DEF SerialOK, RunsOK

-----------------------------------------------------------------------------
(* The maps of the memory after the moves of the loop.                     *)

\* A run gets the context in which it waits.
LEMMA SuspendFields ==
    ASSUME NEW m, MemOK(m), NEW r \in Runs, NEW c \in Contexts
    PROVE  LET d == Suspend(m, r, c) IN
              MemOK(d) /\ Keeps(m, d) /\ d.suspended[r] = c /\ d.contexts = m.contexts
BY DEF MemOK, Memory, Keeps, Suspend

\* The same, while it is not in the loop, or when it goes on.
LEMMA WaitFields ==
    ASSUME NEW m, MemOK(m), NEW r \in Runs, NEW c \in Contexts \cup {NoContext}
    PROVE  LET d == [m EXCEPT !.suspended[r] = c] IN
              MemOK(d) /\ Keeps(m, d) /\ d.suspended[r] = c /\ d.contexts = m.contexts
BY DEF MemOK, Memory, Keeps

\* The context of a call moves into the loop.
LEMMA EnterFields ==
    ASSUME NEW m, MemOK(m), NEW k, k.run \in Runs, k.ctx \in Contexts
    PROVE  LET d == EnterLoop(m, k) IN
              /\ MemOK(d) /\ Keeps(m, d)
              /\ d.suspended = m.suspended /\ d.contexts = m.contexts
BY DEF MemOK, Memory, Keeps, EnterLoop

\* A context is set to a turn.
LEMMA TurnFields ==
    ASSUME NEW m, MemOK(m), NEW c \in Contexts, NEW v \in Turns
    PROVE  LET d == [m EXCEPT !.contexts[c] = v] IN
              /\ MemOK(d) /\ Keeps(m, d)
              /\ d.suspended = m.suspended /\ d.contexts[c] = v
BY DEF MemOK, Memory, Keeps, Turns

\* The pending approvals and the states change, and nothing else.
LEMMA IndexFields ==
    ASSUME NEW m, MemOK(m), NEW r \in Runs
    PROVE  /\ LET d == Forget(m, r) IN
                 /\ MemOK(d) /\ d.up = m.up /\ d.active = m.active
                 /\ d.registered = m.registered /\ d.states = m.states
                 /\ d.pending = m.pending \ {r}
                 /\ d.suspended = m.suspended /\ d.contexts = m.contexts
           /\ LET d == [m EXCEPT !.pending = @ \cup {r}] IN
                 /\ MemOK(d) /\ d.up = m.up /\ d.active = m.active
                 /\ d.registered = m.registered /\ d.states = m.states
                 /\ d.pending = m.pending \cup {r}
                 /\ d.suspended = m.suspended /\ d.contexts = m.contexts
           /\ \A s \in RunState :
              LET d == [m EXCEPT !.states[r] = s] IN
                 /\ MemOK(d) /\ d.up = m.up /\ d.active = m.active
                 /\ d.registered = m.registered
                 /\ d.states = [m.states EXCEPT ![r] = s]
                 /\ d.pending = m.pending
                 /\ d.suspended = m.suspended /\ d.contexts = m.contexts
BY DEF MemOK, Memory, Forget

\* The run that holds the loop leaves it.
LEMMA LeaveFields ==
    ASSUME NEW m, MemOK(m), NEW r \in Runs,
           m.registered = IF m.active = NoRun THEN {} ELSE {m.active},
           m.active \in {r, NoRun}
    PROVE  /\ LET d == LeaveLoop(m, r) IN
                 /\ MemOK(d) /\ d.up = m.up /\ d.active = NoRun /\ d.registered = {}
                 /\ d.states = m.states /\ d.pending = m.pending
           /\ LET d == ReleaseRun(m, r) IN
                 /\ MemOK(d) /\ d.up = m.up /\ d.active = NoRun /\ d.registered = {}
                 /\ d.states = m.states /\ d.pending = m.pending
BY Constants DEF MemOK, Memory, LeaveLoop, ReleaseRun

-----------------------------------------------------------------------------
(* The steps of a call that change no file of the run.                     *)

\* A step of a call that was not at its save, in two parts: what holds of the runs
\* stays, and what the call has become fits.
LEMMA CallMoves ==
    ASSUME IInv, IInv', SerialInv, NEW t \in Tasks, ~Idle(t), task[t].pc # "save",
           NEW q, NEW m, MemOK(m), Keeps(mem, m), Becomes(t, q, m),
           UNCHANGED <<snap, last, ledger, overlaps, started, crashes>>,
           q.pc # "recover", q.status # "restart-active",
           q.pc \in Deciding => DecisionOK(q, snap, ledger, m),
           q.pc \notin Deciding /\ ~Rests(q) => WorkOK(q, snap, ledger, m),
           Rests(q) => RestOK(q, snap, m),
           Rests(q) /\ m.active # NoRun => SuspendedOK(q, snap, ledger, m),
           q.pc = "idle" => q = IdleTask
    PROVE  SerialInv'
<1>1. /\ SerialOK(task[t], snap, last, ledger, mem, started)
      /\ \A u \in Tasks \ {t} : Idle(u)
      /\ overlaps' = 0 /\ crashes' = 0
  BY Under
<1>2. RunsOK(snap, last, ledger, m, started) /\ PendingOK(snap, m)
      /\ LedgerOK(q, snap, ledger, m)
  BY <1>1, RunsStay
<1>3. SerialOK(q, snap, last, ledger, m, started)
  BY <1>2 DEF SerialOK
<1> QED BY <1>1, <1>3, SerialStep

\* The call becomes one that works in the loop.
LEMMA WorkMoves ==
    ASSUME IInv, IInv', SerialInv, NEW t \in Tasks, ~Idle(t), task[t].pc # "save",
           NEW q, NEW m, MemOK(m), Keeps(mem, m), Becomes(t, q, m),
           UNCHANGED <<snap, last, ledger, overlaps, started, crashes>>,
           q.pc \in {"turn", "verify", "judged", "handoff", "drive", "advance",
                     "begin", "stamp", "merge"},
           q.status # "restart-active", WorkOK(q, snap, ledger, m)
    PROVE  SerialInv'
BY CallMoves DEF Rests, Deciding

\* The call is about to record a decision of the turn loop.
LEMMA DecisionMoves ==
    ASSUME IInv, IInv', SerialInv, NEW t \in Tasks, ~Idle(t), task[t].pc # "save",
           NEW q, NEW m, MemOK(m), Keeps(mem, m), Becomes(t, q, m),
           UNCHANGED <<snap, last, ledger, overlaps, started, crashes>>,
           q.pc \in Deciding, q.op \in LoopOps, q.status # "restart-active",
           DecisionOK(q, snap, ledger, m)
    PROVE  SerialInv'
BY CallMoves DEF Rests, Deciding

\* The call ends, and the run waits.
LEMMA IdleMoves ==
    ASSUME IInv, IInv', SerialInv, NEW t \in Tasks, ~Idle(t), task[t].pc # "save",
           NEW m, MemOK(m), Keeps(mem, m), Becomes(t, IdleTask, m),
           UNCHANGED <<snap, last, ledger, overlaps, started, crashes>>,
           m.active # NoRun => SuspendedOK(IdleTask, snap, ledger, m)
    PROVE  SerialInv'
<1>1. IdleTask.pc = "idle" /\ IdleTask.status # "restart-active"
  BY DEF IdleTask
<1>2. RestOK(IdleTask, snap, m)
  BY <1>1 DEF RestOK
<1> QED BY <1>1, <1>2, CallMoves DEF Deciding, Rests

\* The call in a step of the loop, and its context.
LEMMA Working1 ==
    ASSUME IInv, SerialInv, NEW t \in Tasks, InLoop(task[t]), task[t].pc \notin Deciding
    PROVE  LET k == task[t] IN
           /\ k \in TaskRecord /\ k.run \in Runs /\ k.ctx \in Contexts
           /\ ~Idle(t) /\ k.pc # "save" /\ k.status # "restart-active"
           /\ SerialOK(k, snap, last, ledger, mem, started)
           /\ WorkOK(k, snap, ledger, mem)
           /\ mem.contexts[k.ctx] \in Turns /\ MemOK(mem)
<1>1. ~Idle(t) /\ task[t].pc # "save" /\ ~Rests(task[t])
  BY DEF InLoop, Idle, Deciding, Rests
<1>2. /\ task[t] \in TaskRecord /\ task[t].run \in Runs
      /\ SerialOK(task[t], snap, last, ledger, mem, started)
  BY <1>1, Under
<1>3. task[t].ctx \in Contexts
  BY TaskFacts
<1>4. WorkOK(task[t], snap, ledger, mem) /\ task[t].status # "restart-active"
  BY <1>1, <1>2 DEF SerialOK
<1> QED BY <1>1, <1>2, <1>3, <1>4, Types

\* A run is started when no other has the loop.
LEMMA StartRunSerial ==
    ASSUME Serial, IInv, IInv', SerialInv, NEW t \in Tasks, NEW r \in Runs, StartRun(t, r)
    PROVE  SerialInv'
<1> DEFINE c == NewContext
           q == [IdleTask EXCEPT !.pc = "setup", !.run = r, !.ctx = c, !.from = "start"]
           v == [turn |-> 1, sub |-> 0]
           m == [Register(mem, r) EXCEPT !.contexts[c] = v]
<1>1. /\ Quiet /\ overlaps' = 0 /\ crashes = 0
      /\ SerialOK(IdleTask, snap, last, ledger, mem, started)
  BY AtRest DEF StartRun
<1>2. /\ r \notin started /\ mem.active = NoRun /\ c \in Contexts
      /\ Becomes(t, q, m) /\ started' = started \cup {r}
      /\ UNCHANGED <<snap, last, ledger, crashes>>
  BY NewContextFacts DEF StartRun
<1> HIDE DEF c
<1>3. MemOK(mem) /\ snap \in Snapshots /\ ledger \subseteq DecisionEntry
  BY Types
<1>4. /\ MemOK(m) /\ m.up = mem.up /\ m.active = r /\ m.registered = mem.registered \cup {r}
      /\ m.states = mem.states /\ m.pending = mem.pending /\ m.contexts[c] = v
  BY <1>2, <1>3 DEF Register, MemOK, Memory
<1>5. /\ q.pc = "setup" /\ q.run = r /\ q.ctx = c /\ q.status = "none" /\ q.entry = NoEntry
  BY DEF IdleTask
<1>6. v.turn = 1 /\ v.sub = 0
  OBVIOUS
<1> HIDE DEF q, m, v
<1>7. RunsOK(snap, last, ledger, mem, started) /\ PendingOK(snap, mem)
      /\ LedgerOK(IdleTask, snap, ledger, mem) /\ NoRun \notin Runs
  BY <1>1, Constants DEF SerialOK
<1>8. Seen(snap, r) = "none" /\ \A e \in ledger : e.run # r
  BY <1>2, <1>7 DEF RunsOK
<1>9. RunsOK(snap, last, ledger, m, started \cup {r})
  BY <1>2, <1>4, <1>7, <1>8 DEF RunsOK
<1>10. PendingOK(snap, m)
  BY <1>2, <1>4, <1>7 DEF PendingOK
<1>11. LedgerOK(q, snap, ledger, m)
  BY <1>4, <1>7, <1>8 DEF LedgerOK, Saving, IdleTask
<1>12. WorkOK(q, snap, ledger, m)
  BY <1>4, <1>5, <1>6, <1>8 DEF WorkOK
<1>13. SerialOK(q, snap, last, ledger, m, started \cup {r})
  BY <1>5, <1>9, <1>10, <1>11, <1>12 DEF SerialOK, Rests, Deciding
<1>14. \A u \in Tasks \ {t} : Idle(u)
  BY <1>1 DEF Quiet
<1> QED BY <1>1, <1>2, <1>4, <1>5, <1>13, <1>14, SerialStep

\* A new run has no record and no decision, so its gate is a first decision.
LEMMA GateDecision ==
    ASSUME Serial, IInv, SerialInv, NEW t \in Tasks, task[t].pc = "setup",
           "intent_gate" \in Ops, NEW b \in Blockers
    PROVE  LET q == ApplyJudgment(task[t], "gate", 0, "blocked", b, FALSE)
           IN  /\ q.pc = "check" /\ q.op = "gate" /\ q.status # "restart-active"
               /\ DecisionOK(q, snap, ledger, mem)
<1> DEFINE k    == task[t]
           own  == HasRecord /\ Rec.run = k.run
           base == IF own /\ Rec.budget # NoBudget THEN Rec.budget ELSE Contract
           bt   == Charged(base, 0, FALSE)
           kind == DecideControl("blocked", bt)
           asks == kind = "needs_human"
           to   == IF asks /\ RepeatedBlockerCount(k.run, b) > MaxSameFailure
                   THEN "failed" ELSE kind
           old  == IF own THEN Rec ELSE Seed(k.run, 0, base)
           jb   == JudgedBudget(bt, kind)
           pend == IF to = "needs_human" THEN "approval" ELSE "none"
           new  == [To(old, to) EXCEPT !.turn = 0, !.budget = jb, !.pending = pend]
           blk  == IF asks THEN b ELSE NoBlocker
           e    == [Entry(k.run, 0, kind, to) EXCEPT !.blocker = blk]
           q    == ApplyJudgment(k, "gate", 0, "blocked", b, FALSE)
<1>1. /\ k \in TaskRecord /\ k.run \in Runs /\ k.ctx \in Contexts /\ k.status # "restart-active"
      /\ SerialOK(k, snap, last, ledger, mem, started)
      /\ WorkOK(k, snap, ledger, mem)
  BY Working1 DEF InLoop, Deciding
<1>2. /\ k.run = mem.active /\ Seen(snap, k.run) = "none" /\ mem.contexts[k.ctx].sub = 0
      /\ \A d \in ledger : d.run # k.run
  BY <1>1 DEF WorkOK
<1>3. ~own
  BY <1>1, <1>2, ActiveRec
<1>4. kind = "needs_human"
  BY DEF DecideControl
<1>5. to = "needs_human"
  <2>1. {d \in ledger : d.run = k.run /\ d.to = "needs_human" /\ d.blocker = b} = {}
    BY <1>2
  <2>2. RepeatedBlockerCount(k.run, b) = 1
    BY <2>1, FS_EmptySet DEF RepeatedBlockerCount
  <2> HIDE DEF kind, k
  <2>3. ~(RepeatedBlockerCount(k.run, b) > MaxSameFailure)
    BY <2>2 DEF Serial
  <2> QED BY <1>4, <2>3
<1>6. old = Seed(k.run, 0, base)
  BY <1>3
<1>7. q = IF Legal(old, new) THEN Request(k, "gate", e, new) ELSE Thrown(k)
  BY <1>3 DEF ApplyJudgment
<1> HIDE DEF k, own, base, kind
<1>8. e.run = k.run /\ e.turn = 0 /\ e.name = "needs_human" /\ e.to = "needs_human"
  BY <1>4, <1>5 DEF Entry
<1> HIDE DEF jb, to
<1>9. /\ old.state = "active"
      /\ new.run = k.run /\ new.turn = 0 /\ new.state = "needs_human" /\ new.pending = "approval"
  BY <1>5, <1>6 DEF Seed, To
<1> HIDE DEF e, new, old
<1>10. Legal(old, new)
  BY <1>9 DEF Legal, LegalTransitions
<1>11. q = Request(k, "gate", e, new)
  BY <1>7, <1>10
<1> HIDE DEF q
<1>12. /\ q.pc = "check" /\ q.op = "gate" /\ q.run = k.run /\ q.ctx = k.ctx /\ q.rec = new
       /\ q.entry = e /\ q.status = k.status /\ q.from = k.from
  BY <1>1, <1>11 DEF Request, TaskRecord
<1>13. GateOK(q, snap, ledger, mem.contexts[q.ctx])
  BY <1>2, <1>8, <1>9, <1>12 DEF GateOK
<1>14. Allowed(Seen(snap, q.run), q.rec.state)
  BY <1>2, <1>9, <1>12 DEF Allowed, LegalTransitions
<1>15. DecisionOK(q, snap, ledger, mem)
  BY <1>2, <1>8, <1>9, <1>12, <1>13, <1>14
     DEF DecisionOK, LoopOps, EndOps, EndNames, BeginOps, AdvanceOps, Terminal
<1> QED BY <1>1, <1>12, <1>15 DEF q, k

\* The run is set up, and goes into its first turn or stops at the gate.
LEMMA SetUpSerial ==
    ASSUME Serial, IInv, IInv', SerialInv, NEW t \in Tasks, SetUp(t)
    PROVE  SerialInv'
<1> DEFINE k == task[t]
           q == [k EXCEPT !.pc = "turn", !.from = "loop"]
           m == EnterLoop(mem, k)
<1>1. /\ k.pc = "setup" /\ UNCHANGED <<snap, last, ledger, overlaps, started, crashes>>
      /\ \/ Becomes(t, q, m)
         \/ /\ "intent_gate" \in Ops
            /\ \E b \in Blockers : Proceed(t, ApplyJudgment(k, "gate", 0, "blocked", b, FALSE), mem)
  BY DEF SetUp
<1>2. /\ k \in TaskRecord /\ k.run \in Runs /\ k.ctx \in Contexts
      /\ ~Idle(t) /\ k.status # "restart-active"
      /\ SerialOK(k, snap, last, ledger, mem, started)
      /\ WorkOK(k, snap, ledger, mem)
      /\ mem.contexts[k.ctx] \in Turns /\ MemOK(mem)
  BY <1>1, Working1 DEF InLoop, Deciding
<1>3. CASE Becomes(t, q, m)
  <2>1. /\ k.run = mem.active /\ Seen(snap, k.run) = "none"
        /\ mem.contexts[k.ctx].turn = 1 /\ mem.contexts[k.ctx].sub = 0
        /\ \A e \in ledger : e.run # k.run
    BY <1>1, <1>2 DEF WorkOK
  <2>2. /\ q.pc = "turn" /\ q.run = k.run /\ q.ctx = k.ctx /\ q.from = "loop"
        /\ q.status = k.status
    BY <1>2 DEF TaskRecord
  <2>3. MemOK(m) /\ Keeps(mem, m) /\ m.contexts = mem.contexts
    BY <1>2, EnterFields
  <2> HIDE DEF k, q, m
  <2>4. Progress(snap, ledger, k.run, mem.contexts[k.ctx], 1, 0, 0, 0)
    <3>1. TurnBefore(snap, k.run, mem.contexts[k.ctx].turn + 1)
      BY <2>1 DEF TurnBefore
    <3>2. Before(ledger, k.run, mem.contexts[k.ctx].turn + 0)
      BY <2>1 DEF Before
    <3> QED BY <1>2, <2>1, <3>1, <3>2, ProgressNone
  <2>5. WorkOK(q, snap, ledger, m)
    BY <2>1, <2>2, <2>3, <2>4 DEF WorkOK, Keeps, Working
  <2> QED BY <1>1, <1>2, <1>3, <2>2, <2>3, <2>5, WorkMoves DEF k
<1>4. ASSUME "intent_gate" \in Ops, NEW b \in Blockers,
             Proceed(t, ApplyJudgment(k, "gate", 0, "blocked", b, FALSE), mem)
      PROVE  SerialInv'
  <2> DEFINE g == ApplyJudgment(k, "gate", 0, "blocked", b, FALSE)
  <2>1. /\ g.pc = "check" /\ g.op = "gate" /\ g.status # "restart-active"
        /\ DecisionOK(g, snap, ledger, mem)
    BY <1>1, <1>4, GateDecision
  <2>2. Proceed(t, g, mem)
    BY <1>4
  <2> HIDE DEF g
  <2>3. Becomes(t, g, mem) /\ Keeps(mem, mem)
    BY <2>1, <2>2 DEF Proceed, Keeps
  <2> QED BY <1>1, <1>2, <2>1, <2>3, DecisionMoves DEF Deciding, LoopOps
<1> QED BY <1>1, <1>3, <1>4

\* No pause is on record while a turn is executed.
LEMMA EndTurnSerial ==
    ASSUME IInv, IInv', SerialInv, NEW t \in Tasks, EndTurn(t)
    PROVE  SerialInv'
<1> DEFINE k == task[t]
           q == [k EXCEPT !.pc = "verify"]
<1>1. /\ k.pc = "turn" /\ UNCHANGED <<snap, last, ledger, overlaps, started, crashes>>
  BY DEF EndTurn
<1>2. /\ k \in TaskRecord /\ k.run \in Runs /\ k.ctx \in Contexts
      /\ ~Idle(t) /\ k.status # "restart-active"
      /\ SerialOK(k, snap, last, ledger, mem, started)
      /\ WorkOK(k, snap, ledger, mem) /\ MemOK(mem)
  BY <1>1, Working1 DEF InLoop, Deciding
<1>3. mem.states[k.run] \in {"unknown", Seen(snap, k.run)} /\ Working(snap, k.run)
  BY <1>1, <1>2 DEF SerialOK, RunsOK, WorkOK
<1>4. Becomes(t, q, mem)
  BY <1>3 DEF EndTurn, Working
<1>5. /\ q.pc = "verify" /\ q.run = k.run /\ q.ctx = k.ctx /\ q.from = k.from
      /\ q.status = k.status
  BY <1>2 DEF TaskRecord
<1> HIDE DEF q
<1>6. WorkOK(q, snap, ledger, mem) /\ Keeps(mem, mem)
  BY <1>1, <1>2, <1>5 DEF WorkOK, Keeps
<1> QED BY <1>1, <1>2, <1>4, <1>5, <1>6, WorkMoves

\* What the judgment of a turn prepares: a decision on the turn just done.
LEMMA JudgeDecision ==
    ASSUME IInv, SerialInv, NEW t \in Tasks, task[t].pc = "verify",
           NEW k \in TaskRecord, k = [task[t] EXCEPT !.killed = FALSE],
           NEW j \in {"crashed", "passed", "failed", "blocked", "merge"}, NEW b \in Blockers,
           NEW cost \in Costs
    PROVE  LET q == ApplyJudgment(k, "judge", Turn(k), j, b, cost)
           IN  /\ q.pc = "check" /\ q.op = "judge" /\ q.status # "restart-active"
               /\ DecisionOK(q, snap, ledger, mem)
<1> DEFINE turn == Turn(k)
           own  == HasRecord /\ Rec.run = k.run
           base == IF own /\ Rec.budget # NoBudget THEN Rec.budget ELSE Contract
           bt   == Charged(base, turn, cost)
           kind == DecideControl(j, bt)
           asks == kind = "needs_human"
           to   == IF asks /\ RepeatedBlockerCount(k.run, b) > MaxSameFailure
                   THEN "failed" ELSE kind
           old  == IF own THEN Rec ELSE Seed(k.run, turn, base)
           jb   == JudgedBudget(bt, kind)
           pend == IF to = "needs_human" THEN "approval" ELSE "none"
           new  == [To(old, to) EXCEPT !.turn = turn, !.budget = jb, !.pending = pend]
           blk  == IF asks THEN b ELSE NoBlocker
           e    == [Entry(k.run, turn, kind, to) EXCEPT !.blocker = blk]
           q    == ApplyJudgment(k, "judge", turn, j, b, cost)
           x    == mem.contexts[k.ctx]
<1>1. /\ task[t] \in TaskRecord /\ task[t].run \in Runs /\ task[t].ctx \in Contexts
      /\ task[t].status # "restart-active"
      /\ SerialOK(task[t], snap, last, ledger, mem, started)
      /\ WorkOK(task[t], snap, ledger, mem) /\ mem.contexts[task[t].ctx] \in Turns
  BY Working1 DEF InLoop, Deciding
<1>2. /\ k.run = task[t].run /\ k.ctx = task[t].ctx /\ k.status = task[t].status
      /\ k.from = task[t].from /\ k.pc = "verify"
  BY <1>1 DEF TaskRecord
<1>3. /\ k.run = mem.active /\ Working(snap, k.run) /\ k.from = "loop" /\ x \in Turns
      /\ Progress(snap, ledger, k.run, x, 1, 0, 0, 0)
  BY <1>1, <1>2 DEF WorkOK
<1>4. turn = x.turn /\ turn \in Nat
  BY <1>3 DEF Turn, Turns
<1>5. own <=> Seen(snap, k.run) = "active"
  BY <1>1, <1>2, <1>3, ActiveRec DEF Working
<1>6. own => Rec.state = "active" /\ Rec.run = k.run
  BY <1>1, <1>2, <1>3, <1>5, ActiveRec
<1>7. q = IF Legal(old, new) THEN Request(k, "judge", e, new) ELSE Thrown(k)
  BY <1>6 DEF ApplyJudgment
<1> HIDE DEF turn, q, base
<1>8. kind \in {"complete", "failed", "retry", "needs_human", "budget_limited"}
  BY DEF DecideControl
<1>9. old.state = "active" /\ old.run = k.run
  BY <1>6 DEF Seed
<1> HIDE DEF kind, own, old, jb
<1>10. /\ to \in {"complete", "failed", "retry", "needs_human", "budget_limited"}
       /\ to = "needs_human" => kind = "needs_human"
       /\ kind \in {"complete", "failed"} => to = kind
       /\ pend \in {"none", "approval"}
  BY <1>8
<1> HIDE DEF to, pend, blk
<1>11. e.run = k.run /\ e.turn = turn /\ e.name = kind /\ e.to = to
  BY DEF Entry
<1>12. new.run = k.run /\ new.turn = turn /\ new.state = to /\ new.pending = pend
  <2>1. /\ To(old, to) = [old EXCEPT !.state = to, !.reminded = @ /\ to \notin Blocked]
    BY DEF To
  <2> QED BY <2>1, <1>9
<1> HIDE DEF e, new
<1>13. Legal(old, new)
  BY <1>9, <1>10, <1>12 DEF Legal, LegalTransitions
<1>14. q = Request(k, "judge", e, new)
  BY <1>7, <1>13
<1>15. /\ q.pc = "check" /\ q.op = "judge" /\ q.run = k.run /\ q.ctx = k.ctx /\ q.rec = new
       /\ q.entry = e /\ q.status = k.status /\ q.from = k.from
  BY <1>2, <1>14 DEF Request, TaskRecord
<1>16. JudgeOK(q, snap, ledger, x)
  <2>1. \A d \in ledger : d.run = q.run /\ d.turn = x.turn => d = q.entry
    <3>1. Before(ledger, k.run, x.turn + 0) /\ x.turn + 0 = x.turn
      BY <1>3 DEF Progress, Turns
    <3> QED BY <1>3, <1>15, <3>1 DEF Before, Turns
  <2> QED BY <1>3, <1>4, <1>8, <1>10, <1>11, <1>12, <1>15, <2>1
          DEF JudgeOK, JudgeNames, Blocked
<1>17. Allowed(Seen(snap, q.run), q.rec.state)
  BY <1>3, <1>10, <1>12, <1>15 DEF Working, Allowed, LegalTransitions
<1>18. Seen(snap, q.run) \notin Terminal
  BY <1>3, <1>15 DEF Working, Terminal
<1>19. e.name \in EndNames => e.to \in Terminal
  BY <1>8, <1>10, <1>11 DEF EndNames, Terminal
<1>20. DecisionOK(q, snap, ledger, mem)
  BY <1>3, <1>10, <1>11, <1>12, <1>15, <1>16, <1>17, <1>18, <1>19
     DEF DecisionOK, LoopOps, EndOps, BeginOps, AdvanceOps, x
<1> QED BY <1>1, <1>2, <1>15, <1>20 DEF q, turn

\* A turn is verified and judged, or its subtask is done.
LEMMA JudgeSerial ==
    ASSUME IInv, IInv', SerialInv, NEW t \in Tasks, Judge(t)
    PROVE  SerialInv'
<1> DEFINE k == [task[t] EXCEPT !.killed = FALSE]
           q == [k EXCEPT !.pc = "handoff", !.status = "advance"]
           x == mem.contexts[k.ctx]
<1>1. /\ task[t].pc = "verify" /\ UNCHANGED <<snap, last, ledger, overlaps, started, crashes>>
      /\ \E j \in Verdicts(task[t]) :
            IF j = "advance" THEN Becomes(t, q, mem)
            ELSE \E b \in Blockers, cost \in Costs :
                    Proceed(t, ApplyJudgment(k, "judge", Turn(k), j, b, cost), mem)
  <2>1. k.pc = task[t].pc
    BY TaskFacts DEF TaskRecord
  <2> QED BY <2>1 DEF Judge
<1>2. /\ task[t] \in TaskRecord /\ task[t].run \in Runs /\ task[t].ctx \in Contexts
      /\ ~Idle(t) /\ task[t].status # "restart-active"
      /\ SerialOK(task[t], snap, last, ledger, mem, started)
      /\ WorkOK(task[t], snap, ledger, mem) /\ mem.contexts[task[t].ctx] \in Turns
      /\ MemOK(mem)
  BY <1>1, Working1 DEF InLoop, Deciding
<1>3. /\ k \in TaskRecord /\ k.run = task[t].run /\ k.ctx = task[t].ctx
      /\ k.from = task[t].from /\ k.pc = "verify"
  BY <1>1, <1>2 DEF TaskRecord
<1>4. /\ k.run = mem.active /\ Working(snap, k.run) /\ k.from = "loop" /\ x \in Turns
      /\ Progress(snap, ledger, k.run, x, 1, 0, 0, 0)
  BY <1>1, <1>2, <1>3 DEF WorkOK
<1>5. /\ Verdicts(task[t]) \subseteq {"advance", "crashed", "passed", "failed", "blocked", "merge"}
      /\ "advance" \in Verdicts(task[t]) => x.sub + 1 < Subtasks
  BY <1>3 DEF Verdicts, HasMoreSubtasks
<1>6. CASE "advance" \in Verdicts(task[t]) /\ Becomes(t, q, mem)
  <2>1. /\ q.pc = "handoff" /\ q.run = k.run /\ q.ctx = k.ctx /\ q.from = k.from
        /\ q.status = "advance"
    BY <1>3 DEF TaskRecord
  <2> HIDE DEF q, k
  <2>2. JudgedOK(q, snap, ledger, mem)
    BY <1>4, <1>5, <1>6, <2>1 DEF JudgedOK, x
  <2>3. WorkOK(q, snap, ledger, mem) /\ Keeps(mem, mem)
    BY <2>1, <2>2 DEF WorkOK, Keeps
  <2> QED BY <1>1, <1>2, <1>6, <2>1, <2>3, WorkMoves
<1>7. ASSUME NEW j \in Verdicts(task[t]) \ {"advance"}, NEW b \in Blockers,
             NEW cost \in Costs, Proceed(t, ApplyJudgment(k, "judge", Turn(k), j, b, cost), mem)
      PROVE  SerialInv'
  <2> DEFINE g == ApplyJudgment(k, "judge", Turn(k), j, b, cost)
  <2>1. j \in {"crashed", "passed", "failed", "blocked", "merge"}
    BY <1>5, <1>7
  <2>2. /\ g.pc = "check" /\ g.op = "judge" /\ g.status # "restart-active"
        /\ DecisionOK(g, snap, ledger, mem)
    BY <1>1, <1>3, <2>1, JudgeDecision
  <2>3. Proceed(t, g, mem)
    BY <1>7
  <2> HIDE DEF g
  <2>4. Becomes(t, g, mem) /\ Keeps(mem, mem)
    BY <2>2, <2>3 DEF Proceed, Keeps
  <2> QED BY <1>1, <1>2, <2>2, <2>4, DecisionMoves DEF Deciding, LoopOps
<1> HIDE DEF q, k
<1> QED BY <1>1, <1>6, <1>7

\* A run that stopped for the same blocker too often is failed, others go on.
LEMMA DetectDeadLoopSerial ==
    ASSUME IInv, IInv', SerialInv, NEW t \in Tasks, DetectDeadLoop(t)
    PROVE  SerialInv'
<1> DEFINE k    == task[t]
           dead == [k EXCEPT !.status = "failed"]
           on   == [dead EXCEPT !.pc = "handoff"]
           q    == [k EXCEPT !.pc = "handoff", !.op = "none"]
           r    == k.run
<1>1. /\ k.pc = "judged" /\ UNCHANGED <<snap, last, ledger, overlaps, started, crashes>>
      /\ Proceed(t, IF IsDeadLoop(k) THEN FailRun(dead, "deadloop", TRUE, on) ELSE q, mem)
  BY DEF DetectDeadLoop
<1>2. /\ k \in TaskRecord /\ k.run \in Runs /\ k.ctx \in Contexts
      /\ ~Idle(t) /\ k.pc # "save" /\ k.status # "restart-active"
      /\ SerialOK(k, snap, last, ledger, mem, started)
      /\ WorkOK(k, snap, ledger, mem) /\ MemOK(mem)
  BY <1>1, Working1 DEF InLoop, Deciding
<1>3. JudgedOK(k, snap, ledger, mem) /\ Keeps(mem, mem)
  BY <1>1, <1>2 DEF WorkOK, Keeps
<1>4. CASE IsDeadLoop(k)
  <2>1. k.status = "needs_human" /\ r = mem.active /\ Seen(snap, r) = "needs_human"
    BY <1>3, <1>4 DEF IsDeadLoop, JudgedOK, Blocked
  <2>2. /\ HasRecord /\ Rec.run = r /\ Rec.state = "needs_human" /\ Rec.turn \in Nat
        /\ Rec.pending \in {"none", "approval"}
    BY <1>2, <2>1, ActiveRec
  <2>3. dead.run = r /\ dead.status = "failed" /\ dead \in TaskRecord
    BY <1>2 DEF TaskRecord, RunState
  <2> DEFINE e == Entry(r, Rec.turn, "restart-recovery-failed", "failed")
             y == Answered(Rec, "failed")
             g == Request(dead, "deadloop", e, y)
  <2>4. Legal(Rec, To(Rec, "failed"))
    <3>1. To(Rec, "failed") = [Rec EXCEPT !.state = "failed", !.reminded = @ /\ "failed" \notin Blocked]
      BY DEF To
    <3>2. Rec \in RunStateRecord
      BY <1>2, <2>1, ActiveRec DEF RecOK
    <3>3. To(Rec, "failed").state = "failed"
      BY <3>1, <3>2 DEF RunStateRecord
    <3> QED BY <2>2, <3>3 DEF Legal, LegalTransitions
  <2>5. FailRun(dead, "deadloop", TRUE, on) = g
    <3> HIDE DEF dead, on
    <3> QED BY <2>2, <2>3, <2>4 DEF FailRun
  <2>6. y.run = r /\ y.state = "failed" /\ y.pending = "none" /\ y.turn = Rec.turn
    <3>1. Rec \in RunStateRecord
      BY <1>2, <2>1, ActiveRec DEF RecOK
    <3> QED BY <2>2, <3>1 DEF Answered, To, RunStateRecord
  <2>7. /\ e.run = r /\ e.turn = Rec.turn /\ e.name = "restart-recovery-failed"
        /\ e.to = "failed"
    BY DEF Entry
  <2> HIDE DEF e, y, dead
  <2>8. /\ g.pc = "check" /\ g.op = "deadloop" /\ g.run = r /\ g.rec = y /\ g.entry = e
        /\ g.status = "failed"
    BY <2>3 DEF Request, TaskRecord
  <2>9. Proceed(t, g, mem)
    BY <1>1, <1>4, <2>5
  <2> HIDE DEF g
  <2>10. Becomes(t, g, mem)
    BY <2>8, <2>9 DEF Proceed
  <2>11. DecisionOK(g, snap, ledger, mem)
    BY <2>1, <2>6, <2>7, <2>8
       DEF DecisionOK, LoopOps, EndOps, EndNames, BeginOps, AdvanceOps, Terminal,
           Allowed, LegalTransitions
  <2> QED BY <1>1, <1>2, <1>3, <2>8, <2>10, <2>11, DecisionMoves DEF Deciding, LoopOps
<1>5. CASE ~IsDeadLoop(k)
  <2>1. /\ q.pc = "handoff" /\ q.run = k.run /\ q.ctx = k.ctx /\ q.from = k.from
        /\ q.status = k.status
    BY <1>2 DEF TaskRecord
  <2>2. Becomes(t, q, mem)
    BY <1>1, <1>5, <2>1 DEF Proceed
  <2> HIDE DEF q
  <2>3. JudgedOK(q, snap, ledger, mem)
    BY <1>1, <1>3, <2>1 DEF JudgedOK
  <2>4. WorkOK(q, snap, ledger, mem)
    BY <2>1, <2>3 DEF WorkOK
  <2> QED BY <1>1, <1>2, <1>3, <2>1, <2>2, <2>4, WorkMoves
<1> QED BY <1>4, <1>5

\* The handoff and the checkpoint change neither record nor decisions.
LEMMA WriteCheckpointSerial ==
    ASSUME IInv, IInv', SerialInv, NEW t \in Tasks, WriteCheckpoint(t)
    PROVE  SerialInv'
<1> DEFINE k == task[t]
           q == [k EXCEPT !.pc = "drive"]
<1>1. /\ k.pc = "handoff" /\ UNCHANGED <<snap, last, ledger, overlaps, started, crashes>>
      /\ Becomes(t, q, mem)
  BY DEF WriteCheckpoint
<1>2. /\ k \in TaskRecord /\ k.run \in Runs /\ k.ctx \in Contexts
      /\ ~Idle(t) /\ k.pc # "save" /\ k.status # "restart-active"
      /\ SerialOK(k, snap, last, ledger, mem, started)
      /\ WorkOK(k, snap, ledger, mem) /\ MemOK(mem)
  BY <1>1, Working1 DEF InLoop, Deciding
<1>3. JudgedOK(k, snap, ledger, mem) /\ Keeps(mem, mem)
  BY <1>1, <1>2 DEF WorkOK, Keeps
<1>4. /\ q.pc = "drive" /\ q.run = k.run /\ q.ctx = k.ctx /\ q.from = k.from
      /\ q.status = k.status
  BY <1>2 DEF TaskRecord
<1> HIDE DEF q
<1>5. JudgedOK(q, snap, ledger, mem)
  BY <1>1, <1>3, <1>4 DEF JudgedOK
<1>6. WorkOK(q, snap, ledger, mem)
  BY <1>4, <1>5 DEF WorkOK
<1> QED BY <1>1, <1>2, <1>3, <1>4, <1>6, WorkMoves

\* A run that is over leaves the loop.
LEMMA OverMoves ==
    ASSUME IInv, IInv', SerialInv, NEW t \in Tasks, ~Idle(t), task[t].pc # "save",
           mem.active \in {task[t].run, NoRun}, Seen(snap, task[t].run) \in Terminal,
           Becomes(t, IdleTask, LeaveLoop(mem, task[t].run)),
           UNCHANGED <<snap, last, ledger, overlaps, started, crashes>>
    PROVE  SerialInv'
<1> DEFINE r == task[t].run
           m == LeaveLoop(mem, r)
<1>1. /\ SerialOK(task[t], snap, last, ledger, mem, started)
      /\ \A u \in Tasks \ {t} : Idle(u)
      /\ overlaps' = 0 /\ crashes' = 0 /\ r \in Runs
  BY Under
<1>2. RunsOK(snap, last, ledger, mem, started) /\ PendingOK(snap, mem)
      /\ LedgerOK(task[t], snap, ledger, mem)
  BY <1>1 DEF SerialOK
<1>3. MemOK(mem) /\ snap \in Snapshots /\ ledger \subseteq DecisionEntry /\ NoRun \notin Runs
  BY Types, Constants
<1>4. mem.registered = IF mem.active = NoRun THEN {} ELSE {mem.active}
  BY <1>2 DEF RunsOK
<1>5. /\ MemOK(m) /\ m.up = mem.up /\ m.active = NoRun /\ m.registered = {}
      /\ m.states = mem.states /\ m.pending = mem.pending
  BY <1>1, <1>3, <1>4, LeaveFields
<1> HIDE DEF m
<1>6. \A p \in Runs : Seen(snap, p) \in Over
  BY <1>2, <1>3 DEF RunsOK, Over, Terminal
<1>7. RunsOK(snap, last, ledger, m, started)
  BY <1>2, <1>5, <1>6 DEF RunsOK
<1>8. PendingOK(snap, m)
  <2>1. mem.pending = {}
    BY <1>2, <1>3, <1>6 DEF PendingOK, Over, Terminal
  <2> QED BY <1>5, <2>1 DEF PendingOK
<1>9. LedgerOK(IdleTask, snap, ledger, m)
  BY <1>2, <1>3, <1>5 DEF LedgerOK, Saving, DecisionEntry
<1>10. IdleTask.pc = "idle" /\ IdleTask.status # "restart-active"
  BY DEF IdleTask
<1>11. SerialOK(IdleTask, snap, last, ledger, m, started)
  BY <1>5, <1>7, <1>8, <1>9, <1>10 DEF SerialOK, Rests, RestOK, Deciding
<1> QED BY <1>1, <1>5, <1>11, SerialStep DEF m

\* After its turn a run goes on, waits, or leaves the loop.
LEMMA DriveSerial ==
    ASSUME IInv, IInv', SerialInv, NEW t \in Tasks, Drive(t)
    PROVE  SerialInv'
<1> DEFINE k == task[t]
           s == k.status
           o == [k EXCEPT !.status = "none"]
           x == mem.contexts[k.ctx]
           r == k.run
<1>1. /\ k \in TaskRecord /\ k.run \in Runs /\ k.ctx \in Contexts /\ k.pc = "drive"
      /\ ~Idle(t) /\ k.pc # "save" /\ k.status # "restart-active"
      /\ SerialOK(k, snap, last, ledger, mem, started)
      /\ WorkOK(k, snap, ledger, mem) /\ x \in Turns /\ MemOK(mem)
  <2>1. k.pc = "drive"
    BY TaskFacts DEF Drive, TaskRecord
  <2> QED BY <2>1, Working1 DEF InLoop, Deciding
<1>2. /\ UNCHANGED <<snap, last, ledger, overlaps, started, crashes>>
      /\ \/ /\ s = "advance"
            /\ Becomes(t, [o EXCEPT !.pc = "advance"],
                       [mem EXCEPT !.contexts[o.ctx] =
                           [turn |-> @.turn + 1, sub |-> @.sub + 1]])
         \/ /\ s = "retry"
            /\ Becomes(t, [o EXCEPT !.pc = "begin"],
                       [mem EXCEPT !.contexts[o.ctx] =
                           [turn |-> @.turn + 1, sub |-> @.sub]])
         \/ s \in Blocked /\ Becomes(t, IdleTask, Suspend(mem, o.run, o.ctx))
         \/ /\ s \notin {"advance", "retry"} \cup Blocked
            /\ Becomes(t, IdleTask, LeaveLoop(mem, o.run))
  BY DEF Drive
<1>3. o \in TaskRecord /\ o.run = r /\ o.ctx = k.ctx /\ o.from = k.from /\ o.status = "none"
  BY <1>1 DEF TaskRecord, Pendings
<1>4. JudgedOK(k, snap, ledger, mem)
  BY <1>1 DEF WorkOK
<1>5. x.turn \in Nat /\ x.sub \in Nat
  BY <1>1 DEF Turns
<1>6. snap \in Snapshots /\ ledger \subseteq DecisionEntry /\ IsFiniteSet(ledger)
  BY Types
<1>7. CASE s = "advance"
  <2> DEFINE v == [turn |-> x.turn + 1, sub |-> x.sub + 1]
             q == [o EXCEPT !.pc = "advance"]
             m == [mem EXCEPT !.contexts[k.ctx] = v]
  <2>1. Becomes(t, q, m)
    BY <1>2, <1>3, <1>7 DEF Blocked
  <2>2. v \in Turns /\ v.turn = x.turn + 1 /\ v.sub = x.sub + 1
    BY <1>5 DEF Turns
  <2>3. /\ q.pc = "advance" /\ q.run = r /\ q.ctx = k.ctx /\ q.from = k.from
        /\ q.status = "none"
    BY <1>3 DEF TaskRecord
  <2> HIDE DEF v, q
  <2>4. MemOK(m) /\ Keeps(mem, m) /\ m.contexts[k.ctx] = v
    BY <1>1, <2>2, TurnFields
  <2> HIDE DEF m
  <2>5. /\ r = mem.active /\ Working(snap, r) /\ k.from = "loop" /\ x.sub + 1 < Subtasks
        /\ Progress(snap, ledger, r, x, 1, 0, 0, 0)
    BY <1>4, <1>7 DEF JudgedOK, Blocked
  <2>6. Progress(snap, ledger, r, v, 0, 0 - 1, 0, 1)
    <3>1. Least(x.sub + 0, Subtasks - 1) = Least(Advances(ledger, r) + 0, Subtasks - 1)
      BY <2>5 DEF Progress
    <3>2. Advances(ledger, r) \in Nat /\ Subtasks - 1 \in Int
      BY <1>6, AdvancesNat, Constants
    <3>3. Least(x.sub + 1, Subtasks - 1) = Least(Advances(ledger, r) + 1, Subtasks - 1)
      BY <1>5, <3>1, <3>2, LeastMore
    <3>4. Least(v.sub + 0, Subtasks - 1) = Least(Advances(ledger, r) + 1, Subtasks - 1)
      BY <1>5, <2>2, <3>3
    <3>5. x.turn + 1 <= v.turn + 0 /\ x.turn + 0 <= v.turn + (0 - 1) /\ v.sub < Subtasks
      BY <1>5, <2>2, <2>5
    <3>6. 0 - 1 \in Int /\ 0 \in Int /\ 1 \in Int
      OBVIOUS
    <3> HIDE DEF x, r, k
    <3>7. x \in Turns /\ r \in Runs
      BY <1>1 DEF r
    <3> QED BY <1>6, <2>2, <2>5, <3>4, <3>5, <3>6, <3>7, ProgressIn
  <2>7. v.turn >= 1
    BY <1>5, <2>2
  <2>8. WorkOK(q, snap, ledger, m)
    BY <2>3, <2>4, <2>5, <2>6, <2>7 DEF WorkOK, Keeps
  <2> QED BY <1>1, <1>2, <2>1, <2>3, <2>4, <2>8, WorkMoves
<1>8. CASE s = "retry"
  <2> DEFINE v == [turn |-> x.turn + 1, sub |-> x.sub]
             q == [o EXCEPT !.pc = "begin"]
             m == [mem EXCEPT !.contexts[k.ctx] = v]
  <2>1. Becomes(t, q, m)
    BY <1>2, <1>3, <1>8 DEF Blocked
  <2>2. v \in Turns /\ v.turn = x.turn + 1 /\ v.sub = x.sub
    BY <1>5 DEF Turns
  <2>3. /\ q.pc = "begin" /\ q.run = r /\ q.ctx = k.ctx /\ q.from = k.from
        /\ q.status = "none"
    BY <1>3 DEF TaskRecord
  <2> HIDE DEF v, q
  <2>4. MemOK(m) /\ Keeps(mem, m) /\ m.contexts[k.ctx] = v
    BY <1>1, <2>2, TurnFields
  <2> HIDE DEF m
  <2>5. /\ r = mem.active /\ Seen(snap, r) = "retry" /\ k.from = "loop"
        /\ Progress(snap, ledger, r, x, 1, 1, 0, 0)
    BY <1>4, <1>8 DEF JudgedOK, Blocked
  <2>6. Progress(snap, ledger, r, v, 0, 0, 0, 0)
    <3>1. /\ Least(v.sub + 0, Subtasks - 1) = Least(Advances(ledger, r) + 0, Subtasks - 1)
          /\ v.sub < Subtasks
      BY <2>2, <2>5 DEF Progress
    <3>2. x.turn + 1 <= v.turn + 0
      BY <1>5, <2>2
    <3> HIDE DEF x, r, k
    <3>3. x \in Turns /\ r \in Runs
      BY <1>1 DEF r
    <3> QED BY <1>6, <2>2, <2>5, <3>1, <3>2, <3>3, ProgressIn
  <2>7. WorkOK(q, snap, ledger, m)
    BY <2>3, <2>4, <2>5, <2>6 DEF WorkOK, Keeps, Over, Terminal
  <2> QED BY <1>1, <1>2, <2>1, <2>3, <2>4, <2>7, WorkMoves
<1>9. CASE s \in Blocked
  <2> DEFINE m == Suspend(mem, r, k.ctx)
  <2>1. Becomes(t, IdleTask, m)
    BY <1>2, <1>3, <1>9 DEF Blocked
  <2>2. MemOK(m) /\ Keeps(mem, m) /\ m.suspended[r] = k.ctx /\ m.contexts = mem.contexts
    BY <1>1, SuspendFields
  <2> HIDE DEF m
  <2>3. /\ r = mem.active /\ Seen(snap, r) = s
        /\ Progress(snap, ledger, r, x, 1, 1, 0, 0)
    BY <1>4, <1>9 DEF JudgedOK, Blocked
  <2>4. SuspendedOK(IdleTask, snap, ledger, m)
    BY <1>1, <1>9, <2>2, <2>3 DEF SuspendedOK, IdleTask, Keeps, Over, Terminal, Blocked
  <2> QED BY <1>1, <1>2, <2>1, <2>2, <2>4, IdleMoves
<1>10. CASE s \notin {"advance", "retry"} \cup Blocked
  <2>1. Becomes(t, IdleTask, LeaveLoop(mem, r))
    BY <1>2, <1>3, <1>10
  <2>2. Seen(snap, r) \in Terminal /\ mem.active \in {r, NoRun}
    BY <1>4, <1>10 DEF JudgedOK
  <2> QED BY <1>1, <1>2, <2>1, <2>2, OverMoves
<1> QED BY <1>7, <1>8, <1>9, <1>10

\* The advance to the next subtask: the record, or what takes its place, is made
\* active for the next turn.
LEMMA AdvanceSerial ==
    ASSUME IInv, IInv', SerialInv, NEW t \in Tasks, Advance(t)
    PROVE  SerialInv'
<1>0. PICK cost \in Costs :
        Proceed(t, AdvanceSubtaskTurn(task[t], Turn(task[t]) - 1, cost), mem)
  BY DEF Advance
<1> DEFINE k    == task[t]
           x    == mem.contexts[k.ctx]
           done == Turn(k) - 1
           base == IF HasRecord /\ Rec.budget # NoBudget THEN Rec.budget ELSE Contract
           b    == Charged(base, done, cost)
           old  == IF HasRecord THEN Rec ELSE Seed(k.run, done, b)
           over == done + 1 > b.maxTurns
           op   == IF over THEN "advance-over" ELSE "advance"
           turn == IF over THEN done ELSE done + 1
           e    == Entry(k.run, done, "subtask_advance", "active")
           y    == [old EXCEPT !.run = k.run, !.state = "active", !.budget = b, !.turn = turn]
           q    == AdvanceSubtaskTurn(k, done, cost)
<1>1. /\ k.pc = "advance" /\ UNCHANGED <<snap, last, ledger, overlaps, started, crashes>>
      /\ Proceed(t, q, mem)
  BY <1>0 DEF Advance
<1>2. /\ k \in TaskRecord /\ k.run \in Runs /\ k.ctx \in Contexts
      /\ ~Idle(t) /\ k.pc # "save" /\ k.status # "restart-active"
      /\ SerialOK(k, snap, last, ledger, mem, started)
      /\ WorkOK(k, snap, ledger, mem) /\ x \in Turns /\ MemOK(mem)
  BY <1>1, Working1 DEF InLoop, Deciding
<1>3. /\ k.run = mem.active /\ Working(snap, k.run) /\ k.from = "loop"
      /\ x.turn >= 1 /\ Progress(snap, ledger, k.run, x, 0, 0 - 1, 0, 1)
  BY <1>1, <1>2 DEF WorkOK
<1>4. done + 1 = x.turn /\ x.turn \in Nat /\ done \in Nat
  BY <1>2, <1>3 DEF Turn, Turns
<1>5. q = Request(k, op, e, y)
  BY DEF AdvanceSubtaskTurn
<1>6. HasRecord => Rec \in RunStateRecord /\ Rec.pending \in {"none", "approval"}
  <2>1. HasRecord => Rec = snap[last] /\ last \in Runs /\ RecOK(Rec) /\ snap[last] # NoRecord
    BY RecFacts DEF IInv, PersistOK
  <2>2. RunsOK(snap, last, ledger, mem, started)
    BY <1>2 DEF SerialOK
  <2> QED BY <2>1, <2>2 DEF RunsOK, RecOK
<1>7. /\ op \in {"advance", "advance-over"}
      /\ turn = IF op = "advance" THEN x.turn ELSE x.turn - 1
  <2> HIDE DEF over
  <2> QED BY <1>4
<1> HIDE DEF base, b, over, q, done, op, turn
<1>8. old.pending \in {"none", "approval"} /\ y = [old EXCEPT !.run = k.run, !.state = "active", !.budget = b, !.turn = turn]
  BY <1>6 DEF Seed
<1>9. /\ DOMAIN old = {"run", "state", "turn", "budget", "pending", "reminded"}
  BY <1>6 DEF Seed, RunStateRecord
<1> HIDE DEF old
<1>10. y.run = k.run /\ y.state = "active" /\ y.turn = turn /\ y.pending \in {"none", "approval"}
  BY <1>8, <1>9
<1>11. e.run = k.run /\ e.turn = done /\ e.name = "subtask_advance" /\ e.to = "active"
  BY DEF Entry
<1> HIDE DEF e, y
<1>12. /\ q.pc = "check" /\ q.op = op /\ q.run = k.run /\ q.ctx = k.ctx /\ q.rec = y
       /\ q.entry = e /\ q.status = k.status /\ q.from = k.from
  BY <1>2, <1>5 DEF Request, TaskRecord
<1>13. AdvancingOK(q, snap, ledger, x)
  BY <1>3, <1>4, <1>7, <1>10, <1>11, <1>12 DEF AdvancingOK
<1>14. /\ Allowed(Seen(snap, q.run), q.rec.state) /\ Seen(snap, q.run) \notin Terminal
  BY <1>3, <1>10, <1>12 DEF Working, Allowed, Terminal
<1>15. DecisionOK(q, snap, ledger, mem)
  BY <1>3, <1>7, <1>10, <1>11, <1>12, <1>13, <1>14
     DEF DecisionOK, LoopOps, EndOps, EndNames, BeginOps
<1>16. Becomes(t, q, mem) /\ Keeps(mem, mem)
  BY <1>1, <1>12 DEF Proceed, Keeps
<1> QED BY <1>1, <1>2, <1>7, <1>12, <1>15, <1>16, DecisionMoves DEF Deciding, LoopOps

\* The call k may begin the turn that its context is in, with the active record rec.
MayBegin(k, rec, S, L, m) ==
    /\ k \in TaskRecord /\ rec \in RunStateRecord
    /\ rec.state = "active" /\ rec.pending \in {"none", "approval"}
    /\ rec.run = k.run /\ k.run = m.active
    /\ Seen(S, k.run) = "active" /\ rec.turn < m.contexts[k.ctx].turn
    /\ k.from = "loop" \/ (k.from = "continue" /\ m.suspended[k.run] = k.ctx)
    /\ Progress(S, L, k.run, m.contexts[k.ctx], 0, 0, 0, 0)

\* Then the turn begins, or the budget is exhausted.
LEMMA BeginsActive ==
    ASSUME NEW S, NEW L, NEW m, NEW k, NEW rec, MayBegin(k, rec, S, L, m),
           NEW q, q = BeginActive(k, rec, m.contexts[k.ctx].turn)
    PROVE  /\ q.run = k.run /\ q.ctx = k.ctx /\ q.from = k.from /\ q.status = k.status
           /\ \/ q.pc = "stamp" /\ WorkOK(q, S, L, m)
              \/ q.pc = "check" /\ q.op = "begin-limit" /\ DecisionOK(q, S, L, m)
<1> DEFINE x == m.contexts[k.ctx]
           e == Entry(k.run, rec.turn, "budget_limited", "budget_limited")
           y == To(rec, "budget_limited")
           z == [rec EXCEPT !.turn = x.turn]
<1> USE DEF MayBegin
<1>1. CASE ExhaustedAtTurnStart(rec.budget)
  <2>1. q = Request(k, "begin-limit", e, y)
    BY <1>1 DEF BeginActive
  <2>2. y.run = k.run /\ y.state = "budget_limited" /\ y.turn = rec.turn
        /\ y.pending = rec.pending
    BY DEF To, RunStateRecord
  <2>3. e.run = k.run /\ e.turn = rec.turn /\ e.name = "budget_limited"
        /\ e.to = "budget_limited"
    BY DEF Entry
  <2> HIDE DEF e, y
  <2>4. /\ q.pc = "check" /\ q.op = "begin-limit" /\ q.run = k.run /\ q.ctx = k.ctx
        /\ q.rec = y /\ q.entry = e /\ q.status = k.status /\ q.from = k.from
    BY <2>1 DEF Request, TaskRecord
  <2>5. BeginningOK(q, S, L, x)
    BY <2>2, <2>3, <2>4 DEF BeginningOK, Working
  <2>6. Allowed(Seen(S, q.run), q.rec.state) /\ Seen(S, q.run) \notin Terminal
    BY <2>2, <2>4 DEF Allowed, LegalTransitions, Terminal
  <2>7. DecisionOK(q, S, L, m)
    BY <2>2, <2>3, <2>4, <2>5, <2>6
       DEF DecisionOK, LoopOps, EndOps, EndNames, AdvanceOps
  <2> QED BY <2>4, <2>7
<1>2. CASE ~ExhaustedAtTurnStart(rec.budget)
  <2>1. q = [k EXCEPT !.pc = "stamp", !.rec = z]
    BY <1>2 DEF BeginActive
  <2>2. z.run = k.run /\ z.state = "active" /\ z.turn = x.turn /\ z.pending = rec.pending
    BY DEF RunStateRecord
  <2> HIDE DEF z
  <2>3. /\ q.pc = "stamp" /\ q.run = k.run /\ q.ctx = k.ctx
        /\ q.rec = z /\ q.status = k.status /\ q.from = k.from
    BY <2>1 DEF TaskRecord
  <2>4. WorkOK(q, S, L, m)
    BY <2>2, <2>3 DEF WorkOK, Over, Terminal
  <2> QED BY <2>3, <2>4
<1> QED BY <1>1, <1>2

\* The beginning of a turn: of a retry, of an active run, or not at all.
LEMMA BeginSerial ==
    ASSUME IInv, IInv', SerialInv, NEW t \in Tasks, Begin(t)
    PROVE  SerialInv'
<1> DEFINE k == task[t]
           x == mem.contexts[k.ctx]
           q == BeginTurn(k, Turn(k))
<1>1. /\ k.pc = "begin" /\ UNCHANGED <<snap, last, ledger, overlaps, started, crashes>>
      /\ Proceed(t, q, mem)
  BY DEF Begin
<1>2. /\ k \in TaskRecord /\ k.run \in Runs /\ k.ctx \in Contexts
      /\ ~Idle(t) /\ k.pc # "save" /\ k.status # "restart-active"
      /\ SerialOK(k, snap, last, ledger, mem, started)
      /\ WorkOK(k, snap, ledger, mem) /\ x \in Turns /\ MemOK(mem)
  BY <1>1, Working1 DEF InLoop, Deciding
<1>3. /\ k.run = mem.active /\ Seen(snap, k.run) \notin Over
      /\ k.from = "loop" \/ (k.from = "continue" /\ mem.suspended[k.run] = k.ctx)
      /\ k.from = "loop" => Seen(snap, k.run) = "retry"
      /\ Progress(snap, ledger, k.run, x, 0, 0, 0, 0)
  BY <1>1, <1>2 DEF WorkOK
<1>4. /\ HasRecord /\ Rec.run = k.run /\ Rec = snap[k.run]
      /\ Rec.state = Seen(snap, k.run) /\ Rec.turn \in Nat /\ Rec \in RunStateRecord
      /\ Rec.pending \in {"none", "approval"}
  BY <1>2, <1>3, ActiveRec DEF RecOK, Over
<1>5. Rec.turn < x.turn
  <2>1. TurnBefore(snap, k.run, x.turn + 0) /\ x.turn + 0 = x.turn
    BY <1>2, <1>3 DEF Progress, Turns
  <2> QED BY <1>3, <1>4, <2>1 DEF TurnBefore, Over
<1>6. Keeps(mem, mem)
  BY DEF Keeps
<1>7. CASE Rec.state = "retry"
  <2> DEFINE e == Entry(k.run, Rec.turn, "resumed-retry", "active")
             y == To(Rec, "active")
  <2>1. q = Request(k, "begin-retry", e, y)
    BY <1>4, <1>7 DEF BeginTurn
  <2>2. y.run = k.run /\ y.state = "active" /\ y.turn = Rec.turn /\ y.pending = Rec.pending
    BY <1>4 DEF To, RunStateRecord
  <2>3. e.run = k.run /\ e.turn = Rec.turn /\ e.name = "resumed-retry" /\ e.to = "active"
    BY DEF Entry
  <2> HIDE DEF q, e, y
  <2>4. /\ q.pc = "check" /\ q.op = "begin-retry" /\ q.run = k.run /\ q.ctx = k.ctx
        /\ q.rec = y /\ q.entry = e /\ q.status = k.status /\ q.from = k.from
    BY <1>2, <2>1 DEF Request, TaskRecord
  <2>5. BeginningOK(q, snap, ledger, x)
    BY <1>3, <1>4, <1>5, <1>7, <2>2, <2>3, <2>4 DEF BeginningOK
  <2>6. Allowed(Seen(snap, q.run), q.rec.state) /\ Seen(snap, q.run) \notin Terminal
    BY <1>4, <1>7, <2>2, <2>4 DEF Allowed, LegalTransitions, Terminal
  <2>7. DecisionOK(q, snap, ledger, mem)
    BY <1>3, <1>4, <2>2, <2>3, <2>4, <2>5, <2>6
       DEF DecisionOK, LoopOps, EndOps, EndNames, AdvanceOps
  <2>8. Becomes(t, q, mem)
    BY <1>1, <2>4 DEF Proceed
  <2> QED BY <1>1, <1>2, <1>6, <2>4, <2>7, <2>8, DecisionMoves DEF Deciding, LoopOps
<1>8. CASE Rec.state = "active"
  <2>1. q = BeginActive(k, Rec, x.turn)
    BY <1>4, <1>8 DEF BeginTurn, Turn
  <2> HIDE DEF q
  <2>2. /\ q.status = k.status
        /\ \/ q.pc = "stamp" /\ WorkOK(q, snap, ledger, mem)
           \/ q.pc = "check" /\ q.op = "begin-limit" /\ DecisionOK(q, snap, ledger, mem)
    <3>1. MayBegin(k, Rec, snap, ledger, mem)
      BY <1>2, <1>3, <1>4, <1>5, <1>8 DEF MayBegin
    <3>2. q = BeginActive(k, Rec, mem.contexts[k.ctx].turn)
      BY <2>1
    <3> HIDE DEF k, x
    <3> QED BY <3>1, <3>2, BeginsActive
  <2>3. Becomes(t, q, mem)
    BY <1>1, <2>2 DEF Proceed
  <2>4. CASE q.pc = "stamp" /\ WorkOK(q, snap, ledger, mem)
    BY <1>1, <1>2, <1>6, <2>2, <2>3, <2>4, WorkMoves
  <2>5. CASE q.pc = "check" /\ q.op = "begin-limit" /\ DecisionOK(q, snap, ledger, mem)
    BY <1>1, <1>2, <1>6, <2>2, <2>3, <2>5, DecisionMoves DEF Deciding, LoopOps
  <2> QED BY <2>2, <2>4, <2>5
<1>9. CASE Rec.state \notin {"retry", "active"}
  <2>1. q = Thrown(k)
    BY <1>9 DEF BeginTurn
  <2>2. q.pc = "thrown" /\ q.from = "continue"
    BY <1>2, <1>3, <1>4, <1>9, <2>1 DEF Thrown, TaskRecord
  <2> HIDE DEF q
  <2>3. Becomes(t, IdleTask, mem)
    BY <1>1, <2>2 DEF Proceed, Caught
  <2>4. Progress(snap, ledger, k.run, x, 1, 1, 0, 0)
    <3> HIDE DEF k, x
    <3>1. x \in Turns /\ k.run \in Runs
      BY <1>2
    <3> QED BY <1>3, <3>1, Types, ProgressWeaker
  <2>5. k.from = "continue" /\ mem.suspended[k.run] = k.ctx
    BY <1>3, <1>4, <1>9
  <2>6. SuspendedOK(IdleTask, snap, ledger, mem)
    BY <1>2, <1>3, <2>4, <2>5 DEF SuspendedOK, IdleTask
  <2> QED BY <1>1, <1>2, <1>6, <2>3, <2>6, IdleMoves
<1> QED BY <1>7, <1>8, <1>9

\* The merge has been tried, and ends the run.
LEMMA MergeSerial ==
    ASSUME IInv, IInv', SerialInv, NEW t \in Tasks, Merge(t)
    PROVE  SerialInv'
<1> DEFINE k == task[t]
<1>1. PICK ok \in BOOLEAN :
         /\ k.pc = "merge" /\ UNCHANGED <<snap, last, ledger, overlaps, started, crashes>>
         /\ Proceed(t, SettleMerge(k, files.gates[k.run], ok), mem)
  BY DEF Merge
<1>2. /\ k \in TaskRecord /\ k.run \in Runs /\ k.ctx \in Contexts
      /\ ~Idle(t) /\ k.pc # "save" /\ k.status # "restart-active"
      /\ SerialOK(k, snap, last, ledger, mem, started)
      /\ WorkOK(k, snap, ledger, mem) /\ MemOK(mem)
  BY <1>1, Working1 DEF InLoop, Deciding
<1>3. k.run = mem.active /\ Seen(snap, k.run) = "active"
  BY <1>1, <1>2 DEF WorkOK
<1>4. /\ HasRecord /\ Rec.run = k.run /\ Rec.state = "active" /\ Rec \in RunStateRecord
      /\ Rec.pending \in {"none", "approval"}
  BY <1>2, <1>3, ActiveRec DEF RecOK
<1> DEFINE to == IF ok THEN "complete" ELSE "failed"
           e  == Entry(k.run, files.gates[k.run], to, to)
           y  == To(Rec, to)
           q  == SettleMerge(k, files.gates[k.run], ok)
<1>5. q = Request(k, "settle", e, y)
  BY <1>4 DEF SettleMerge
<1>6. to \in {"complete", "failed"}
  OBVIOUS
<1> HIDE DEF q, to
<1>7. y.run = k.run /\ y.state = to /\ y.pending = Rec.pending
  BY <1>4 DEF To, RunStateRecord
<1>8. e.run = k.run /\ e.name = to /\ e.to = to
  BY DEF Entry
<1> HIDE DEF e, y
<1>9. /\ q.pc = "check" /\ q.op = "settle" /\ q.run = k.run /\ q.ctx = k.ctx
      /\ q.rec = y /\ q.entry = e /\ q.status = k.status /\ q.from = k.from
  BY <1>2, <1>5 DEF Request, TaskRecord
<1>10. Allowed(Seen(snap, q.run), q.rec.state) /\ Seen(snap, q.run) \notin Terminal
  BY <1>3, <1>6, <1>7, <1>9 DEF Allowed, LegalTransitions, Terminal
<1>11. DecisionOK(q, snap, ledger, mem)
  BY <1>3, <1>4, <1>6, <1>7, <1>8, <1>9, <1>10
     DEF DecisionOK, LoopOps, EndOps, EndNames, AdvanceOps, BeginOps, Terminal
<1>12. Proceed(t, q, mem)
  BY <1>1 DEF q
<1>13. Becomes(t, q, mem) /\ Keeps(mem, mem)
  BY <1>9, <1>12 DEF Proceed, Keeps
<1> QED BY <1>1, <1>2, <1>9, <1>11, <1>13, DecisionMoves DEF Deciding, LoopOps

-----------------------------------------------------------------------------
(* The run that waits goes on.                                             *)

\* The context of a run that waits, set to the turn it goes on with.
LEMMA ResumedProgress ==
    ASSUME IInv, SerialInv, NEW t \in Tasks, task[t].pc = "continue"
    PROVE  LET k == task[t]
               c == mem.suspended[k.run]
               v == Resumed(k, mem.contexts[c])
           IN  /\ k.run = mem.active /\ c \in Contexts /\ Seen(snap, k.run) \notin Over
               /\ k.op \in Resumes /\ (k.op \in Decisions => Seen(snap, k.run) = "active")
               /\ v \in Turns /\ Progress(snap, ledger, k.run, v, 0, 0, 0, 0)
<1> DEFINE k == task[t]
           r == k.run
           c == mem.suspended[r]
           x == mem.contexts[c]
           v == Resumed(k, x)
           N == Subtasks - 1
           A == Advances(ledger, r)
<1>1. /\ SerialOK(k, snap, last, ledger, mem, started) /\ r \in Runs /\ k \in TaskRecord
  BY Under DEF Idle
<1>2. RestOK(k, snap, mem) /\ k.status # "restart-active"
  BY <1>1 DEF SerialOK, Rests
<1>3. r = mem.active /\ k.op \in Resumes /\ (k.op \in Decisions => Seen(snap, r) = "active")
  BY <1>2 DEF RestOK
<1>4. SuspendedOK(k, snap, ledger, mem)
  BY <1>1, <1>3, Constants DEF SerialOK, Rests
<1> DEFINE a == IF k.op = "advance_subtask" THEN 1 ELSE 0
<1>5. /\ c \in Contexts /\ Seen(snap, r) \notin Over
      /\ Progress(snap, ledger, r, x, 1, 1, a, 0)
  BY <1>3, <1>4 DEF SuspendedOK
<1>6. /\ x \in Turns /\ snap \in Snapshots /\ ledger \subseteq DecisionEntry
      /\ IsFiniteSet(ledger) /\ Subtasks \in Nat \ {0}
  BY <1>5, Types
<1>7. x.turn \in Nat /\ x.sub \in Nat /\ x.sub < Subtasks /\ N \in Nat /\ A \in Nat
      /\ Least(x.sub + a, N) = Least(A + 0, N)
  <2>1. x.turn \in Nat /\ x.sub \in Nat /\ N \in Nat
    BY <1>6 DEF Turns
  <2>2. A \in Nat
    BY <1>6, AdvancesNat
  <2>3. x.sub < Subtasks /\ Least(x.sub + a, N) = Least(A + 0, N)
    BY <1>5 DEF Progress
  <2> QED BY <2>1, <2>2, <2>3
<1> DEFINE s == IF k.op = "advance_subtask" THEN Least(x.sub + 1, N) ELSE x.sub
<1>8. v = [turn |-> x.turn + 1, sub |-> s]
  BY <1>2 DEF Resumed
<1> HIDE DEF A, N, v, x
<1>9. s \in Nat /\ s <= N /\ Least(s, N) = Least(A, N)
  <2>1. CASE k.op = "advance_subtask"
    <3>1. a = 1 /\ s = Least(x.sub + 1, N)
      BY <2>1
    <3> HIDE DEF a, s
    <3>2. x.sub + 1 \in Nat
      BY <1>7
    <3>3. s \in Nat /\ s <= N /\ Least(s, N) = Least(x.sub + 1, N)
      BY <1>7, <3>1, <3>2, LeastFacts
    <3> QED BY <1>7, <3>1, <3>3
  <2>2. CASE k.op # "advance_subtask"
    <3>1. a = 0 /\ s = x.sub
      BY <2>2
    <3> HIDE DEF a, s
    <3>2. x.sub <= N
      BY <1>6, <1>7 DEF N
    <3> QED BY <1>7, <3>1, <3>2
  <2> QED BY <2>1, <2>2
<1>10. v \in Turns /\ v.turn = x.turn + 1 /\ v.sub = s
  BY <1>7, <1>8, <1>9 DEF Turns
<1> HIDE DEF s, a
<1>11. Least(v.sub + 0, N) = Least(A + 0, N) /\ v.sub < Subtasks
  BY <1>6, <1>7, <1>9, <1>10 DEF N
<1>12. Progress(snap, ledger, r, v, 0, 0, 0, 0)
  <2>1. x.turn + 1 <= v.turn + 0
    BY <1>7, <1>10
  <2> HIDE DEF r
  <2> QED BY <1>1, <1>5, <1>6, <1>10, <1>11, <2>1, ProgressIn DEF N, A
<1> QED BY <1>3, <1>5, <1>10, <1>12 DEF v, x

\* The run goes on in the context in which it waited.
LEMMA ContinueRunSerial ==
    ASSUME IInv, IInv', SerialInv, NEW t \in Tasks, ContinueRun(t)
    PROVE  SerialInv'
<1> DEFINE k == task[t]
           r == k.run
           c == mem.suspended[r]
           x == mem.contexts[c]
           v == Resumed(k, x)
           o == [k EXCEPT !.ctx = c, !.from = "continue", !.status = "none"]
           g == [o EXCEPT !.pc = "merge", !.op = "none"]
           q == [o EXCEPT !.pc = "begin", !.op = "none"]
<1>1. k.pc = "continue" /\ UNCHANGED <<snap, last, ledger, overlaps, started, crashes>>
  BY DEF ContinueRun
<1>2. /\ k \in TaskRecord /\ r \in Runs /\ ~Idle(t) /\ k.pc # "save"
      /\ SerialOK(k, snap, last, ledger, mem, started)
  BY <1>1, Under DEF Idle
<1>3. /\ r = mem.active /\ c \in Contexts /\ Seen(snap, r) \notin Over
      /\ k.op \in Decisions => Seen(snap, r) = "active"
      /\ v \in Turns /\ Progress(snap, ledger, r, v, 0, 0, 0, 0)
  BY <1>1, ResumedProgress
<1>4. MemOK(mem) /\ x \in Turns
  BY <1>3, Types
<1>5. IF IsMergeApproval(k) THEN Becomes(t, g, [mem EXCEPT !.contexts[c] = x])
      ELSE Becomes(t, q, [mem EXCEPT !.contexts[c] = v])
  <2>1. c # NoContext
    BY <1>3, Constants
  <2>2. ContinueIn(t, c, x, mem)
    BY <2>1 DEF ContinueRun
  <2> QED BY <2>2 DEF ContinueIn
<1>6. /\ g.pc = "merge" /\ g.run = r /\ g.ctx = c /\ g.from = "continue" /\ g.status = "none"
      /\ q.pc = "begin" /\ q.run = r /\ q.ctx = c /\ q.from = "continue" /\ q.status = "none"
  BY <1>2 DEF TaskRecord
<1> HIDE DEF g, q, v, x, o
<1>7. CASE IsMergeApproval(k)
  <2> DEFINE m == [mem EXCEPT !.contexts[c] = x]
  <2>1. MemOK(m) /\ Keeps(mem, m) /\ m.suspended = mem.suspended
    BY <1>3, <1>4, TurnFields
  <2>2. Seen(snap, r) = "active"
    BY <1>3, <1>7 DEF IsMergeApproval, Decisions
  <2>3. Becomes(t, g, m)
    BY <1>5, <1>7
  <2> HIDE DEF m
  <2>4. WorkOK(g, snap, ledger, m)
    BY <1>3, <1>6, <2>1, <2>2 DEF WorkOK, Keeps
  <2> QED BY <1>1, <1>2, <1>6, <2>1, <2>3, <2>4, WorkMoves
<1>8. CASE ~IsMergeApproval(k)
  <2> DEFINE m == [mem EXCEPT !.contexts[c] = v]
  <2>1. MemOK(m) /\ Keeps(mem, m) /\ m.suspended = mem.suspended /\ m.contexts[c] = v
    BY <1>3, <1>4, TurnFields
  <2>2. Becomes(t, q, m)
    BY <1>5, <1>8
  <2> HIDE DEF m
  <2>3. WorkOK(q, snap, ledger, m)
    BY <1>3, <1>6, <2>1 DEF WorkOK, Keeps
  <2> QED BY <1>1, <1>2, <1>6, <2>1, <2>2, <2>3, WorkMoves
<1> QED BY <1>7, <1>8

-----------------------------------------------------------------------------
(* The calls of people and timers.                                         *)

\* A call of a person or a timer comes while the run that has the loop waits.
LEMMA CallComes ==
    ASSUME Serial, IInv, IInv', SerialInv, NEW t \in Tasks, NEW q, NEW pend,
           mem.up, Quiet, overlaps' = 0, crashes = 0,
           task' = [task EXCEPT ![t] = q], mem' = [mem EXCEPT !.pending = pend],
           UNCHANGED <<snap, last, ledger, started, crashes>>,
           q.pc \in {"check", "resave"}, q.op \notin LoopOps, q.run = mem.active,
           q.status # "restart-active", mem.active \in Runs,
           q.pc = "check" => q.op \in CallOps /\ DecisionOK(q, snap, ledger, mem),
           RestOK(q, snap, mem),
           pend = mem.pending
           \/ (pend = mem.pending \cup {q.run} /\ Seen(snap, q.run) = "needs_human")
    PROVE  SerialInv'
<1>1. SerialOK(IdleTask, snap, last, ledger, mem, started)
  BY DEF SerialInv
<1>2. /\ mem'.up = mem.up /\ mem'.active = mem.active /\ mem'.registered = mem.registered
      /\ mem'.states = mem.states /\ mem'.pending = pend /\ mem'.contexts = mem.contexts
      /\ mem'.suspended = mem.suspended
  BY Types DEF MemOK, Memory
<1>3. /\ task'[t] = q /\ \A u \in Tasks \ {t} : task'[u].pc = "idle"
  BY DEF IInv, CallsOK, Quiet, Idle
<1>4. RunsOK(snap, last, ledger, mem', started)
  BY <1>1, <1>2 DEF SerialOK, RunsOK
<1>5. PendingOK(snap, mem')
  BY <1>1, <1>2 DEF SerialOK, PendingOK
<1>6. LedgerOK(q, snap, ledger, mem')
  BY <1>1, <1>2 DEF SerialOK, LedgerOK, Saving, IdleTask
<1>7. q.pc \in Deciding => DecisionOK(q, snap, ledger, mem')
  <2>1. q.op \notin {"judge", "gate"} \cup BeginOps \cup AdvanceOps
    BY DEF LoopOps, BeginOps, AdvanceOps
  <2> QED BY <1>2, <2>1 DEF DecisionOK, Deciding
<1>8. Rests(q)
  BY DEF Rests, Deciding
<1>9. RestOK(q, snap, mem')
  BY <1>2 DEF RestOK
<1>10. SuspendedOK(q, snap, ledger, mem')
  <2>1. SuspendedOK(IdleTask, snap, ledger, mem)
    BY <1>1, Constants DEF SerialOK, Rests, IdleTask
  <2> QED BY <1>2, <2>1 DEF SuspendedOK, IdleTask
<1>11. q.pc # "recover" /\ (q.pc \notin Deciding /\ ~Rests(q) => FALSE)
  BY <1>8
<1>12. SerialOK(q, snap, last, ledger, mem', started)
  BY <1>4, <1>5, <1>6, <1>7, <1>8, <1>9, <1>10, <1>11 DEF SerialOK
<1>13. Lone' /\ ~Quiet' /\ \A u \in Tasks : ~Idle(u)' => u = t
  BY <1>3 DEF Lone, Quiet, Idle
<1> QED BY <1>3, <1>12, <1>13 DEF SerialInv

\* The decision e on the loop's record, and the record x with it, as the operation op
\* of a person or a timer prepares them.
Decided(op, status, e, x) ==
    /\ op \in CallOps /\ status \in {"none", "approval"}
    /\ HasRecord /\ Rec.run \in Runs /\ Rec.state = LoadedIn(op)
    /\ x.run = Rec.run /\ x.pending \in {"none", "approval"} /\ x.turn = Rec.turn
    /\ e.run = Rec.run /\ e.turn = Rec.turn /\ e.to = x.state
    /\ op \in EndOps => e.name \in EndNames
    /\ e.name \in EndNames => e.to \in Terminal
    /\ op \in Resumes => e.to = "active"
    /\ op \in {"pause", "patch_pause"} => e.to = "paused"
    /\ e.name \notin {"needs_human", "resumed-retry"}
    /\ e.name = "subtask_advance" <=> op = "advance_subtask"

\* The same for one that takes a decision, which the table allows.
LEMMA CalledSerial ==
    ASSUME Serial, IInv, IInv', SerialInv, NEW t \in Tasks, NEW op, NEW status,
           NEW e, NEW x, Decided(op, status, e, x),
           Call(t, op, Rec.run, status, e, Rec, x),
           NEW pend, mem' = [mem EXCEPT !.pending = pend],
           UNCHANGED <<snap, last, ledger, started, crashes>>,
           pend = mem.pending
           \/ (pend = mem.pending \cup {Rec.run} /\ Rec.state = "needs_human")
    PROVE  SerialInv'
<1> USE DEF Decided
<1> DEFINE r == Rec.run
           k0 == [IdleTask EXCEPT !.run = r, !.status = status]
           q  == Request(k0, op, e, x)
<1>1. Quiet /\ overlaps' = 0 /\ crashes = 0 /\ mem.up
      /\ SerialOK(IdleTask, snap, last, ledger, mem, started)
  BY AtRest DEF Call
<1>2. task' = [task EXCEPT ![t] = q] /\ Legal(Rec, x)
  BY DEF Call
<1>3. /\ q.pc = "check" /\ q.op = op /\ q.run = r /\ q.entry = e /\ q.rec = x
      /\ q.status = status
  BY DEF Request, IdleTask
<1> HIDE DEF q
<1>4. LoadedIn(op) \in {"paused", "budget_limited", "active", "needs_human"}
  BY DEF LoadedIn
<1>5. /\ r = mem.active /\ Rec = snap[r] /\ Seen(snap, r) = Rec.state
  BY <1>1, <1>4, WhoWaits DEF Terminal
<1>6. op \notin LoopOps
  BY DEF CallOps, LoopOps, Decisions
<1>7. CalledOK(q, snap)
  BY <1>3, <1>5 DEF CalledOK
<1>8. Allowed(Seen(snap, r), x.state) /\ Seen(snap, r) \notin Terminal
  BY <1>2, <1>4, <1>5 DEF Legal, Allowed, Terminal
<1>9. DecisionOK(q, snap, ledger, mem)
  <2>1. op \notin {"judge", "gate", "deadloop", "settle"} \cup BeginOps \cup AdvanceOps
    BY <1>6 DEF LoopOps, BeginOps, AdvanceOps
  <2> QED BY <1>3, <1>5, <1>7, <1>8, <2>1 DEF DecisionOK
<1>10. RestOK(q, snap, mem)
  BY <1>3, <1>5 DEF RestOK
<1> QED BY <1>1, <1>2, <1>3, <1>5, <1>6, <1>9, <1>10, CallComes

\* A person answers the run that waits.
LEMMA SubmitDecisionSerial ==
    ASSUME Serial, IInv, IInv', SerialInv, NEW t \in Tasks, NEW r \in Runs,
           NEW a \in Decisions, SubmitDecision(t, r, a),
           UNCHANGED <<snap, last, ledger, started, crashes>>
    PROVE  SerialInv'
<1> DEFINE to == DecisionTarget(a)
           e  == Entry(r, Rec.turn, DecisionName(a), to)
           x  == Answered(Rec, to)
           p  == mem.pending \cup {r}
<1>1. /\ IsWaiting(r) /\ Call(t, a, r, Rec.pending, e, Rec, x)
      /\ mem' = [mem EXCEPT !.pending = p]
  BY DEF SubmitDecision
<1>2. SerialOK(IdleTask, snap, last, ledger, mem, started)
  BY <1>1, AtRest DEF Call
<1>3. HasRecord /\ Rec.state = "needs_human"
  BY <1>1 DEF IsWaiting
<1>4. /\ Rec.run \in Runs /\ Rec.run = mem.active /\ Rec \in RunStateRecord
      /\ Rec.pending \in {"none", "approval"}
  BY <1>2, <1>3, WhoWaits DEF Terminal, RecOK
<1>5. Rec.run = r
  <2>1. r \in mem.pending => r = mem.active
    BY <1>2 DEF SerialOK, PendingOK
  <2> QED BY <1>1, <1>4, <2>1 DEF IsWaiting
<1>6. /\ to \in {"failed", "paused", "active"}
      /\ a \in Resumes => to = "active"
      /\ a = "pause" => to = "paused"
      /\ a \in EndOps => a = "reject"
      /\ a = "reject" => to = "failed"
  BY DEF DecisionTarget, Resumes, EndOps, Decisions
<1>7. /\ a \in CallOps /\ a # "patch_pause" /\ LoadedIn(a) = "needs_human"
  BY DEF CallOps, Decisions, LoadedIn
<1>8. /\ DecisionName(a) \notin {"needs_human", "resumed-retry"}
      /\ DecisionName(a) = "subtask_advance" <=> a = "advance_subtask"
      /\ DecisionName(a) \in EndNames => a = "reject"
      /\ a = "reject" => DecisionName(a) \in EndNames
  BY DEF DecisionName, Decisions, EndNames
<1> HIDE DEF to
<1>9. /\ e.run = r /\ e.turn = Rec.turn /\ e.name = DecisionName(a) /\ e.to = to
  BY DEF Entry
<1>10. x.run = r /\ x.state = to /\ x.pending = "none" /\ x.turn = Rec.turn
  BY <1>4, <1>5 DEF Answered, To, RunStateRecord
<1> HIDE DEF e, x, p
<1>11. /\ a \in EndOps => e.name \in EndNames
       /\ e.name \in EndNames => e.to \in Terminal
       /\ a \in {"pause", "patch_pause"} => e.to = "paused"
  BY <1>6, <1>7, <1>8, <1>9 DEF Terminal
<1>12. Decided(a, Rec.pending, e, x)
  BY <1>3, <1>4, <1>5, <1>6, <1>7, <1>8, <1>9, <1>10, <1>11 DEF Decided
<1> QED BY <1>1, <1>3, <1>5, <1>12, CalledSerial DEF p

\* PATCH pauses the run that is active.
LEMMA PatchPauseSerial ==
    ASSUME Serial, IInv, IInv', SerialInv, NEW t \in Tasks, PatchPause(t),
           UNCHANGED <<snap, last, ledger, started, crashes>>
    PROVE  SerialInv'
<1>1. /\ CanPause /\ mem' = mem
      /\ Call(t, "patch_pause", Pausable.run, "none",
              Entry(Pausable.run, Pausable.turn, "paused", "paused"),
              Pausable, To(Pausable, "paused"))
  BY DEF PatchPause
<1>2. SerialOK(IdleTask, snap, last, ledger, mem, started)
  BY <1>1, AtRest DEF Call
<1>3. mem.active # NoRun => HasRecord /\ Rec.run = mem.active
  <2>1. mem.active # NoRun => Seen(snap, mem.active) # "none"
    BY <1>2 DEF SerialOK, Rests, SuspendedOK, IdleTask, Over
  <2>2. mem.active \in Runs \cup {NoRun}
    BY Types
  <2> QED BY <1>2, <2>1, <2>2, ActiveRec
<1>4. HasRecord /\ Rec.state = "active"
  BY <1>1, <1>3 DEF CanPause
<1>5. /\ Rec.run \in Runs /\ Rec \in RunStateRecord /\ Rec.pending \in {"none", "approval"}
  BY <1>2, <1>4, WhoWaits DEF Terminal, RecOK
<1>6. Pausable = Rec
  BY <1>4 DEF Pausable
<1> DEFINE r == Rec.run
           e == Entry(r, Rec.turn, "paused", "paused")
           x == To(Rec, "paused")
           p == mem.pending
<1>7. Call(t, "patch_pause", r, "none", e, Rec, x)
  BY <1>1, <1>6
<1>8. mem' = [mem EXCEPT !.pending = p]
  BY <1>1, Types DEF MemOK, Memory
<1>9. /\ e.run = r /\ e.turn = Rec.turn /\ e.name = "paused" /\ e.to = "paused"
  BY DEF Entry
<1>10. x.run = r /\ x.state = "paused" /\ x.pending = Rec.pending /\ x.turn = Rec.turn
  BY <1>5 DEF To, RunStateRecord
<1> HIDE DEF e, x, p
<1>11. /\ "patch_pause" \in CallOps /\ LoadedIn("patch_pause") = "active"
       /\ "patch_pause" \notin Resumes /\ "patch_pause" \notin EndOps
       /\ "paused" \notin EndNames
  BY DEF CallOps, LoadedIn, Resumes, EndOps, EndNames
<1>12. Decided("patch_pause", "none", e, x)
  BY <1>4, <1>5, <1>9, <1>10, <1>11 DEF Decided
<1> QED BY <1>7, <1>8, <1>12, CalledSerial DEF p

\* PATCH resumes the run that is paused.
LEMMA PatchResumeSerial ==
    ASSUME Serial, IInv, IInv', SerialInv, NEW t \in Tasks, PatchResume(t),
           UNCHANGED <<snap, last, ledger, started, crashes>>
    PROVE  SerialInv'
<1> DEFINE r == Rec.run
           e == Entry(r, Rec.turn, "resumed-pause", "active")
           x == To(Rec, "active")
           p == mem.pending
<1>1. /\ HasRecord /\ Rec.state = "paused" /\ mem' = mem
      /\ Call(t, "patch_resume", r, "none", e, Rec, x)
  BY DEF PatchResume
<1>2. SerialOK(IdleTask, snap, last, ledger, mem, started)
  BY <1>1, AtRest DEF Call
<1>5. /\ Rec.run \in Runs /\ Rec \in RunStateRecord /\ Rec.pending \in {"none", "approval"}
  BY <1>1, <1>2, WhoWaits DEF Terminal, RecOK
<1>8. mem' = [mem EXCEPT !.pending = p]
  BY <1>1, Types DEF MemOK, Memory
<1>9. /\ e.run = r /\ e.turn = Rec.turn /\ e.name = "resumed-pause" /\ e.to = "active"
  BY DEF Entry
<1>10. x.run = r /\ x.state = "active" /\ x.pending = Rec.pending /\ x.turn = Rec.turn
  BY <1>5 DEF To, RunStateRecord
<1> HIDE DEF e, x, p
<1>11. /\ "patch_resume" \in CallOps /\ LoadedIn("patch_resume") = "paused"
       /\ "patch_resume" \notin EndOps /\ "resumed-pause" \notin EndNames
  BY DEF CallOps, LoadedIn, EndOps, EndNames
<1>13. Decided("patch_resume", "none", e, x)
  BY <1>1, <1>5, <1>9, <1>10, <1>11 DEF Decided
<1> QED BY <1>1, <1>8, <1>13, CalledSerial DEF p

\* A person sets the limits of the run that waits for it.
LEMMA SupplementBudgetSerial ==
    ASSUME Serial, IInv, IInv', SerialInv, NEW t \in Tasks, SupplementBudget(t),
           UNCHANGED <<snap, last, ledger, started, crashes>>
    PROVE  SerialInv'
<1> DEFINE r == Rec.run
           e == Entry(r, Rec.turn, "resumed-budget", "active")
           y == To(Rec, "active")
           p == mem.pending
<1>1. PICK s \in Supplements :
         /\ HasRecord /\ Rec.state = "budget_limited" /\ Rec.budget # NoBudget /\ mem' = mem
         /\ Call(t, "supplement", r, "none", e, Rec,
                 [y EXCEPT !.budget = Supplemented(@, s)])
  BY DEF SupplementBudget
<1> DEFINE x == [y EXCEPT !.budget = Supplemented(@, s)]
<1>2. SerialOK(IdleTask, snap, last, ledger, mem, started)
  BY <1>1, AtRest DEF Call
<1>5. /\ Rec.run \in Runs /\ Rec \in RunStateRecord /\ Rec.pending \in {"none", "approval"}
  BY <1>1, <1>2, WhoWaits DEF Terminal, RecOK
<1>8. mem' = [mem EXCEPT !.pending = p]
  BY <1>1, Types DEF MemOK, Memory
<1>9. /\ e.run = r /\ e.turn = Rec.turn /\ e.name = "resumed-budget" /\ e.to = "active"
  BY DEF Entry
<1>10. x.run = r /\ x.state = "active" /\ x.pending = Rec.pending /\ x.turn = Rec.turn
  <2>1. /\ y.run = r /\ y.state = "active" /\ y.pending = Rec.pending /\ y.turn = Rec.turn
        /\ DOMAIN y = {"run", "state", "turn", "budget", "pending", "reminded"}
    BY <1>5 DEF To, RunStateRecord
  <2> HIDE DEF y
  <2> QED BY <2>1
<1>12. Call(t, "supplement", r, "none", e, Rec, x)
  BY <1>1
<1> HIDE DEF e, x, y, p
<1>11. /\ "supplement" \in CallOps /\ LoadedIn("supplement") = "budget_limited"
       /\ "supplement" \notin EndOps /\ "resumed-budget" \notin EndNames
  BY DEF CallOps, LoadedIn, EndOps, EndNames
<1>13. Decided("supplement", "none", e, x)
  BY <1>1, <1>5, <1>9, <1>10, <1>11 DEF Decided
<1> QED BY <1>1, <1>8, <1>12, <1>13, CalledSerial DEF p

\* Nobody has answered for too long: the run is failed.
LEMMA AbandonRunSerial ==
    ASSUME Serial, IInv, IInv', SerialInv, NEW t \in Tasks, AbandonRun(t),
           UNCHANGED <<snap, last, ledger, started, crashes>>
    PROVE  SerialInv'
<1> DEFINE r == Rec.run
           e == Entry(r, Rec.turn, "restart-recovery-failed", "failed")
           x == Answered(Rec, "failed")
           p == mem.pending
<1>1. /\ HasRecord /\ Rec.state = "needs_human" /\ mem' = mem
      /\ Call(t, "fail", r, "none", e, Rec, x)
  BY DEF AbandonRun
<1>2. SerialOK(IdleTask, snap, last, ledger, mem, started)
  BY <1>1, AtRest DEF Call
<1>5. /\ Rec.run \in Runs /\ Rec \in RunStateRecord
  BY <1>1, <1>2, WhoWaits DEF Terminal, RecOK
<1>8. mem' = [mem EXCEPT !.pending = p]
  BY <1>1, Types DEF MemOK, Memory
<1>9. /\ e.run = r /\ e.turn = Rec.turn /\ e.name = "restart-recovery-failed"
      /\ e.to = "failed"
  BY DEF Entry
<1>10. x.run = r /\ x.state = "failed" /\ x.pending = "none" /\ x.turn = Rec.turn
  BY <1>5 DEF Answered, To, RunStateRecord
<1> HIDE DEF e, x, p
<1>11. /\ "fail" \in CallOps /\ LoadedIn("fail") = "needs_human" /\ "fail" \notin Resumes
       /\ "restart-recovery-failed" \in EndNames /\ "failed" \in Terminal
  BY DEF CallOps, LoadedIn, Resumes, EndNames, Terminal
<1>13. Decided("fail", "none", e, x)
  BY <1>1, <1>5, <1>9, <1>10, <1>11 DEF Decided
<1> QED BY <1>1, <1>8, <1>13, CalledSerial DEF p

\* A person is reminded: the record is about to be saved again.
LEMMA RemindHumanSerial ==
    ASSUME Serial, IInv, IInv', SerialInv, NEW t \in Tasks, RemindHuman(t),
           UNCHANGED <<snap, last, ledger, started, crashes>>
    PROVE  SerialInv'
<1> DEFINE x == [Rec EXCEPT !.reminded = TRUE]
           q == [IdleTask EXCEPT !.pc = "resave", !.run = Rec.run, !.rec = x]
<1>1. /\ HasRecord /\ Rec.state = "needs_human" /\ Free(t) /\ mem' = mem
      /\ task' = [task EXCEPT ![t] = q]
  BY DEF RemindHuman
<1>2. /\ Quiet /\ overlaps' = 0 /\ crashes = 0 /\ mem.up
      /\ SerialOK(IdleTask, snap, last, ledger, mem, started)
  BY <1>1, AtRest
<1>3. /\ Rec.run \in Runs /\ Rec \in RunStateRecord /\ Rec.pending \in {"none", "approval"}
      /\ Rec.run = mem.active /\ Rec = snap[Rec.run] /\ Seen(snap, Rec.run) = "needs_human"
  BY <1>1, <1>2, WhoWaits DEF Terminal, RecOK
<1>4. x.run = Rec.run /\ x.state = "needs_human" /\ x.pending = Rec.pending /\ x.turn = Rec.turn
  BY <1>1, <1>3 DEF RunStateRecord
<1> HIDE DEF x
<1>5. /\ q.pc = "resave" /\ q.op = "none" /\ q.run = Rec.run /\ q.rec = x /\ q.status = "none"
  BY DEF IdleTask
<1> HIDE DEF q
<1>6. mem' = [mem EXCEPT !.pending = mem.pending]
  BY <1>1, Types DEF MemOK, Memory
<1>7. RestOK(q, snap, mem)
  BY <1>3, <1>4, <1>5 DEF RestOK
<1>8. q.op \notin LoopOps
  BY <1>5 DEF LoopOps
<1> QED BY <1>1, <1>2, <1>3, <1>5, <1>6, <1>7, <1>8, CallComes

\* PATCH sets the flag of a loop without a run to pause or resume.
LEMMA PatchFlagSerial ==
    ASSUME Serial, IInv, SerialInv, NEW t \in Tasks, NEW paused \in BOOLEAN,
           PatchFlag(t, paused), UNCHANGED <<snap, last, ledger, started, crashes>>
    PROVE  SerialInv'
<1>1. UNCHANGED <<task, mem>> /\ Free(t)
  BY DEF PatchFlag
<1>2. overlaps' = 0
  BY <1>1, AtRest
<1> QED BY <1>1, <1>2 DEF SerialInv, Lone, Quiet, Idle

\* What comes from outside.
LEMMA OperationSerial ==
    ASSUME Serial, IInv, IInv', SerialInv, NEW t \in Tasks, Operation(t)
    PROVE  SerialInv'
<1>1. UNCHANGED <<snap, last, ledger, started, crashes>>
  BY DEF Operation
<1>2. "discard" \notin Ops
  BY DEF Serial
<1>3. \/ \E paused \in BOOLEAN : PatchFlag(t, paused)
      \/ \E r \in Runs, a \in Decisions : SubmitDecision(t, r, a)
      \/ PatchPause(t) \/ PatchResume(t) \/ SupplementBudget(t)
      \/ AbandonRun(t) \/ RemindHuman(t)
  BY <1>2 DEF Operation, DiscardAgain, DiscardRun
<1> QED BY <1>1, <1>3, PatchFlagSerial, SubmitDecisionSerial, PatchPauseSerial,
           PatchResumeSerial, SupplementBudgetSerial, AbandonRunSerial, RemindHumanSerial

-----------------------------------------------------------------------------
(* transition(): the ledger is read, and the decision is appended.         *)

\* What is known of a call that is taking a decision.
LEMMA DecidingNow ==
    ASSUME IInv, SerialInv, NEW t \in Tasks, task[t].pc \in Deciding
    PROVE  LET k == task[t] IN
           /\ k \in TaskRecord /\ k.run \in Runs /\ ~Idle(t) /\ k.status # "restart-active"
           /\ SerialOK(k, snap, last, ledger, mem, started)
           /\ DecisionOK(k, snap, ledger, mem)
           /\ k.entry \in DecisionEntry /\ RecOK(k.rec)
           /\ k.op \in LoopOps => k.ctx \in Contexts /\ mem.contexts[k.ctx] \in Turns
           /\ k.op \notin LoopOps => CalledOK(k, snap) /\ RestOK(k, snap, mem)
                                     /\ SuspendedOK(k, snap, ledger, mem)
<1>1. ~Idle(t)
  BY DEF Idle, Deciding
<1>2. /\ task[t] \in TaskRecord /\ task[t].run \in Runs
      /\ SerialOK(task[t], snap, last, ledger, mem, started)
  BY <1>1, Under
<1>3. /\ task[t].entry \in DecisionEntry /\ RecOK(task[t].rec)
      /\ task[t].op \in LoopOps => task[t].ctx \in Contexts
  BY DecidingFacts
<1>4. DecisionOK(task[t], snap, ledger, mem) /\ task[t].status # "restart-active"
  BY <1>2 DEF SerialOK
<1>5. task[t].op \notin LoopOps =>
          CalledOK(task[t], snap) /\ RestOK(task[t], snap, mem)
          /\ SuspendedOK(task[t], snap, ledger, mem)
  <2>1. mem.active # NoRun
    BY <1>2, <1>4, Constants DEF DecisionOK
  <2> QED BY <1>2, <1>4, <2>1 DEF SerialOK, DecisionOK, Rests
<1> QED BY <1>1, <1>2, <1>3, <1>4, <1>5, Types

\* A decision that is recorded already is a pause, a resumption or a budget limit of
\* the turn: all others are new.
LEMMA RecordedBefore ==
    ASSUME IInv, SerialInv, NEW t \in Tasks, task[t].pc = "check", Recorded(task[t].entry)
    PROVE  \/ task[t].op \in {"patch_pause", "patch_resume", "supplement"}
           \/ task[t].op = "begin-limit" /\ Seen(snap, task[t].run) = "active"
<1> DEFINE k == task[t]
           r == k.run
           x == mem.contexts[k.ctx]
<1>1. /\ k \in TaskRecord /\ r \in Runs /\ k.pc = "check"
      /\ SerialOK(k, snap, last, ledger, mem, started)
      /\ DecisionOK(k, snap, ledger, mem) /\ k.entry \in DecisionEntry
      /\ k.op \in LoopOps => x \in Turns
      /\ k.op \notin LoopOps => CalledOK(k, snap)
  BY DecidingNow DEF Deciding
<1>2. PICK d \in ledger : SameId(d, k.entry)
  BY DEF Recorded
<1>3. k.entry.run = r /\ r = mem.active /\ Seen(snap, r) \notin Terminal
  BY <1>1 DEF DecisionOK
<1>4. d.run = r /\ d.turn = k.entry.turn /\ d.name = k.entry.name /\ d \in DecisionEntry
  BY <1>2, <1>3, Types DEF SameId
<1>5. LedgerOK(k, snap, ledger, mem)
  BY <1>1 DEF SerialOK
<1>6. ~Saving(k, d)
  BY <1>1 DEF Saving
<1> HIDE DEF k, r, x
<1>7. /\ d.name \notin EndNames
      /\ Seen(snap, r) # "none" /\ d.turn >= snap[r].turn =>
           /\ Seen(snap, r) = "needs_human" => d.name = "needs_human"
           /\ Seen(snap, r) = "retry" => d.name # "resumed-retry"
  BY <1>3, <1>4, <1>5, <1>6 DEF LedgerOK
<1>8. k.op \notin EndOps
  BY <1>1, <1>4, <1>7 DEF DecisionOK
<1>9. CASE k.op \notin LoopOps
  <2>1. /\ k.op \in CallOps /\ Seen(snap, r) = LoadedIn(k.op)
        /\ k.entry.turn = snap[r].turn /\ k.entry.name # "needs_human"
    BY <1>1, <1>9 DEF CalledOK, r
  <2>2. snap[r].turn \in Nat
    BY <1>4, <2>1 DEF DecisionEntry
  <2>3. LoadedIn(k.op) # "needs_human"
    <3>1. LoadedIn(k.op) # "none"
      BY DEF LoadedIn
    <3>2. d.turn >= snap[r].turn
      BY <1>4, <2>1, <2>2
    <3> QED BY <1>4, <1>7, <2>1, <3>1, <3>2
  <2> QED BY <2>1, <2>3 DEF LoadedIn, k
<1>10. CASE k.op \in LoopOps
  <2>1. x \in Turns /\ x.turn \in Nat /\ k.entry.turn \in Nat
    BY <1>1, <1>10 DEF Turns, DecisionEntry
  <2>2. k.op # "judge"
    <3> SUFFICES ASSUME k.op = "judge" PROVE FALSE
      OBVIOUS
    <3>1. JudgeOK(k, snap, ledger, x)
      BY <1>1 DEF DecisionOK, x
    <3>2. k.entry.turn = x.turn /\ Before(ledger, r, x.turn + 0)
      BY <1>1, <3>1 DEF JudgeOK, Progress, r
    <3>3. d.turn < x.turn + 0
      BY <1>4, <3>2 DEF Before
    <3> QED BY <1>4, <2>1, <3>2, <3>3
  <2>3. k.op # "gate"
    BY <1>1, <1>4 DEF DecisionOK, GateOK, r
  <2>4. k.op \notin AdvanceOps
    <3> SUFFICES ASSUME k.op \in AdvanceOps PROVE FALSE
      OBVIOUS
    <3>1. AdvancingOK(k, snap, ledger, x)
      BY <1>1 DEF DecisionOK, x
    <3>2. k.entry.turn + 1 = x.turn /\ Before(ledger, r, x.turn + (0 - 1))
      BY <1>1, <3>1 DEF AdvancingOK, Progress, r
    <3>3. d.turn < x.turn + (0 - 1)
      BY <1>4, <3>2 DEF Before
    <3> QED BY <1>4, <2>1, <3>2, <3>3
  <2>5. k.op \in BeginOps => BeginningOK(k, snap, ledger, x)
    BY <1>1 DEF DecisionOK, x
  <2>6. k.op # "begin-retry"
    <3> SUFFICES ASSUME k.op = "begin-retry" PROVE FALSE
      OBVIOUS
    <3>1. /\ Seen(snap, r) = "retry" /\ k.entry.turn = snap[r].turn
          /\ k.entry.name = "resumed-retry"
      BY <2>5 DEF BeginningOK, BeginOps, r
    <3>2. d.turn >= snap[r].turn
      BY <1>4, <2>1, <3>1
    <3> QED BY <1>4, <1>7, <3>1, <3>2
  <2>7. k.op = "begin-limit" => Seen(snap, r) = "active"
    BY <2>5 DEF BeginningOK, BeginOps, r
  <2>8. k.op # "advance-limit"
    BY <1>1, <1>2, <2>5 DEF BeginningOK, BeginOps
  <2> QED BY <1>8, <1>10, <2>2, <2>3, <2>4, <2>6, <2>7, <2>8
          DEF LoopOps, EndOps, AdvanceOps, k, r
<1> QED BY <1>9, <1>10

\* A call that has not found its decision is about to append it.
LEMMA NotRecordedSerial ==
    ASSUME IInv, IInv', SerialInv, NEW t \in Tasks, task[t].pc = "check",
           NEW q, q = [task[t] EXCEPT !.pc = "append"], Becomes(t, q, mem),
           UNCHANGED <<snap, last, ledger, overlaps, started, crashes>>
    PROVE  SerialInv'
<1> DEFINE k == task[t]
           x == mem.contexts[k.ctx]
<1>1. /\ k \in TaskRecord /\ k.run \in Runs /\ ~Idle(t) /\ k.status # "restart-active"
      /\ DecisionOK(k, snap, ledger, mem)
      /\ k.op \notin LoopOps => CalledOK(k, snap) /\ RestOK(k, snap, mem)
                                /\ SuspendedOK(k, snap, ledger, mem)
  BY DecidingNow DEF Deciding
<1>2. /\ q.pc = "append" /\ q.op = k.op /\ q.run = k.run /\ q.ctx = k.ctx /\ q.rec = k.rec
      /\ q.entry = k.entry /\ q.status = k.status /\ q.from = k.from
  BY <1>1 DEF TaskRecord
<1>3. DecisionOK(q, snap, ledger, mem)
  <2>1. k.op = "judge" => JudgeOK(q, snap, ledger, x)
    BY <1>1, <1>2 DEF DecisionOK, JudgeOK
  <2>2. k.op = "gate" => GateOK(q, snap, ledger, x)
    BY <1>1, <1>2 DEF DecisionOK, GateOK
  <2>3. k.op \in BeginOps => BeginningOK(q, snap, ledger, x)
    BY <1>1, <1>2 DEF DecisionOK, BeginningOK
  <2>4. k.op \in AdvanceOps => AdvancingOK(q, snap, ledger, x)
    BY <1>1, <1>2 DEF DecisionOK, AdvancingOK
  <2>5. k.op \notin LoopOps => CalledOK(q, snap)
    BY <1>1, <1>2 DEF CalledOK
  <2> QED BY <1>1, <1>2, <2>1, <2>2, <2>3, <2>4, <2>5 DEF DecisionOK
<1>4. Rests(q) => k.op \notin LoopOps
  BY <1>2 DEF Rests
<1>5. Rests(q) => RestOK(q, snap, mem)
  BY <1>1, <1>2, <1>4 DEF RestOK
<1>6. Rests(q) => SuspendedOK(q, snap, ledger, mem)
  BY <1>1, <1>2, <1>4 DEF SuspendedOK
<1>7. Keeps(mem, mem) /\ MemOK(mem) /\ q.pc \in Deciding
  BY <1>2, Types DEF Keeps, Deciding
<1> QED BY <1>1, <1>2, <1>3, <1>5, <1>6, <1>7, CallMoves

\* Killing the process of a turn does nothing to a call that is over.
LEMMA KillNone ==
    ASSUME NEW t \in Tasks, task \in [Tasks -> TaskRecord],
           \A u \in Tasks \ {t} : Idle(u), NEW r
    PROVE  Kill([task EXCEPT ![t] = IdleTask], r) = [task EXCEPT ![t] = IdleTask]
<1> DEFINE tasks == [task EXCEPT ![t] = IdleTask]
<1>1. \A u \in Tasks : tasks[u].pc = "idle"
  BY DEF Idle, IdleTask
<1>2. tasks = [u \in Tasks |-> tasks[u]]
  OBVIOUS
<1> HIDE DEF tasks
<1>3. Kill(tasks, r) = [u \in Tasks |-> tasks[u]]
  BY <1>1 DEF Kill
<1> QED BY <1>2, <1>3 DEF tasks

\* A decision that is recorded ends the operation there: the run waits, or is
\* continued.
LEMMA RecordedSerial ==
    ASSUME IInv, IInv', SerialInv, NEW t \in Tasks, task[t].pc = "check",
           Recorded(task[t].entry), Returned(t, mem, Rec, TRUE),
           UNCHANGED <<snap, last, ledger, overlaps, started, crashes>>
    PROVE  SerialInv'
<1> DEFINE k == task[t]
           r == k.run
           x == mem.contexts[k.ctx]
<1>1. /\ k \in TaskRecord /\ r \in Runs /\ ~Idle(t) /\ k.status # "restart-active"
      /\ k.pc = "check"
      /\ DecisionOK(k, snap, ledger, mem)
      /\ k.op \in LoopOps => k.ctx \in Contexts /\ x \in Turns
      /\ k.op \notin LoopOps => CalledOK(k, snap) /\ RestOK(k, snap, mem)
                                /\ SuspendedOK(k, snap, ledger, mem)
  BY DecidingNow DEF Deciding
<1>2. Keeps(mem, mem) /\ MemOK(mem) /\ r = mem.active
  BY <1>1, Types DEF Keeps, DecisionOK
<1>3. \A u \in Tasks \ {t} : Idle(u)
  BY <1>1, Under
<1>4. CASE k.op = "patch_pause"
  <2>1. Become(Kill([task EXCEPT ![t] = IdleTask], r), mem)
    BY <1>4 DEF Returned, Resumes, Decisions
  <2>2. Becomes(t, IdleTask, mem)
    BY <1>3, <2>1, KillNone DEF Becomes, IInv, CallsOK
  <2>3. SuspendedOK(IdleTask, snap, ledger, mem)
    BY <1>1, <1>4 DEF SuspendedOK, IdleTask, LoopOps
  <2> QED BY <1>1, <1>2, <2>2, <2>3, IdleMoves
<1>5. CASE k.op \in {"patch_resume", "supplement"}
  <2> DEFINE q == [Settle(k) EXCEPT !.pc = "continue", !.op = k.op]
  <2>1. Becomes(t, q, mem)
    BY <1>5 DEF Returned, Resumes, Decisions
  <2>2. q.pc = "continue" /\ q.op = k.op /\ q.run = r /\ q.status = k.status
    BY <1>1 DEF Settle, TaskRecord
  <2> HIDE DEF q
  <2>3. k.op \in Resumes /\ k.op \notin Decisions /\ k.op \notin LoopOps /\ k.op # "advance_subtask"
    BY <1>5 DEF Resumes, Decisions, LoopOps
  <2>4. RestOK(q, snap, mem)
    BY <1>2, <2>2, <2>3 DEF RestOK
  <2>5. SuspendedOK(q, snap, ledger, mem)
    BY <1>1, <2>2, <2>3 DEF SuspendedOK
  <2>6. q.pc \notin Deciding /\ Rests(q) /\ q.pc # "recover" /\ q.pc # "idle"
    BY <2>2 DEF Deciding, Rests
  <2> QED BY <1>1, <1>2, <2>1, <2>2, <2>4, <2>5, <2>6, CallMoves
<1>6. CASE k.op = "begin-limit" /\ Seen(snap, r) = "active"
  <2> DEFINE m == IF k.from = "loop" THEN Suspend(mem, r, k.ctx)
                  ELSE [mem EXCEPT !.suspended[r] = k.ctx]
  <2>1. Becomes(t, IdleTask, m)
    BY <1>6 DEF Returned, Resumes, Decisions
  <2>2. k.ctx \in Contexts /\ x \in Turns
    BY <1>1, <1>6 DEF LoopOps
  <2>3. MemOK(m) /\ Keeps(mem, m) /\ m.suspended[r] = k.ctx /\ m.contexts = mem.contexts
    <3>1. CASE k.from = "loop"
      BY <1>1, <1>2, <2>2, <3>1, SuspendFields
    <3>2. CASE k.from # "loop"
      BY <1>1, <1>2, <2>2, <3>2, WaitFields
    <3> QED BY <3>1, <3>2
  <2> HIDE DEF m
  <2>4. Progress(snap, ledger, r, x, 0, 0, 0, 0)
    BY <1>1, <1>6 DEF DecisionOK, BeginningOK, BeginOps
  <2>5. Progress(snap, ledger, r, x, 1, 1, 0, 0)
    <3> HIDE DEF r, x
    <3> QED BY <1>1, <2>2, <2>4, Types, ProgressWeaker
  <2>6. SuspendedOK(IdleTask, snap, ledger, m)
    BY <1>2, <1>6, <2>2, <2>3, <2>5 DEF SuspendedOK, IdleTask, Keeps, Over, Terminal
  <2> QED BY <1>1, <2>1, <2>3, <2>6, IdleMoves
<1> QED BY <1>1, <1>4, <1>5, <1>6, RecordedBefore

\* The ledger has been read.
LEMMA ReadLedgerSerial ==
    ASSUME IInv, IInv', SerialInv, NEW t \in Tasks, ReadLedger(t)
    PROVE  SerialInv'
<1>1. /\ task[t].pc = "check" /\ UNCHANGED <<snap, last, ledger, overlaps, started, crashes>>
  BY DEF ReadLedger
<1>2. CASE ~Recorded(task[t].entry)
  <2>1. Becomes(t, [task[t] EXCEPT !.pc = "append"], mem)
    BY <1>2 DEF ReadLedger
  <2> QED BY <1>1, <2>1, NotRecordedSerial
<1>3. CASE Recorded(task[t].entry)
  <2>1. task[t].op \notin {"advance", "advance-over"}
    BY <1>1, <1>3, RecordedBefore
  <2>2. Returned(t, mem, Rec, TRUE)
    BY <1>3, <2>1 DEF ReadLedger
  <2> QED BY <1>1, <1>3, <2>2, RecordedSerial
<1> QED BY <1>2, <1>3

\* The decision of a call goes into the ledger: what holds of the runs stays, for the
\* call is about to save it, or it says that the run goes on.
LEMMA EntryAppended ==
    ASSUME NEW k, NEW S, NEW n, NEW L, NEW m, NEW g, SerialOK(k, S, n, L, m, g),
           k.pc # "save", NEW e, e.run = m.active, m.active # NoRun,
           e.name \in EndNames => e.to \in Terminal, NEW q,
           Saving(q, e) \/ (e.to = "active" /\ Working(S, e.run))
    PROVE  RunsOK(S, n, L \cup {e}, m, g) /\ PendingOK(S, m) /\ LedgerOK(q, S, L \cup {e}, m)
<1>1. RunsOK(S, n, L, m, g) /\ PendingOK(S, m) /\ LedgerOK(k, S, L, m)
  BY DEF SerialOK
<1>2. RunsOK(S, n, L \cup {e}, m, g)
  BY <1>1 DEF RunsOK
<1>3. \A d \in L : ~Saving(k, d)
  BY DEF Saving
<1>4. ASSUME NEW d \in L
      PROVE  /\ d.name \in EndNames => d.to \in Terminal
             /\ d.to \in Terminal => Seen(S, d.run) \in Terminal
             /\ d.run = m.active /\ Seen(S, d.run) # "none" /\ d.turn >= S[d.run].turn =>
                  /\ Seen(S, d.run) = "needs_human" => d.name = "needs_human"
                  /\ Seen(S, d.run) = "retry" => d.name # "resumed-retry"
  BY <1>1, <1>3 DEF LedgerOK
<1>5. /\ e.name \in EndNames => e.to \in Terminal
      /\ e.to \in Terminal => Saving(q, e)
      /\ Saving(q, e) \/ Seen(S, e.run) \notin {"needs_human", "retry"}
  BY DEF Terminal, Working
<1>6. LedgerOK(q, S, L \cup {e}, m)
  <2> SUFFICES ASSUME NEW d \in L \cup {e}
      PROVE  /\ d.name \in EndNames => d.to \in Terminal
             /\ d.to \in Terminal => Seen(S, d.run) \in Terminal \/ Saving(q, d)
             /\ d.run = m.active /\ Seen(S, d.run) # "none" /\ d.turn >= S[d.run].turn
                   /\ ~Saving(q, d) =>
                  /\ Seen(S, d.run) = "needs_human" => d.name = "needs_human"
                  /\ Seen(S, d.run) = "retry" => d.name # "resumed-retry"
    BY DEF LedgerOK
  <2>1. CASE d \in L
    BY <1>4, <2>1
  <2>2. CASE d = e
    BY <1>5, <2>2
  <2> QED BY <2>1, <2>2
<1> QED BY <1>1, <1>2, <1>6

\* An advance that goes into the ledger is new, and is counted.
LEMMA AdvanceCounted ==
    ASSUME IInv, SerialInv, NEW t \in Tasks, task[t].pc = "append",
           task[t].op \in AdvanceOps
    PROVE  LET k == task[t]
               e == k.entry
               x == mem.contexts[k.ctx]
           IN  /\ Progress(snap, ledger \cup {e}, k.run, x, 0, 0, 0, 0)
               /\ e.turn \in Nat /\ x.turn \in Nat /\ e.turn + 1 = x.turn
               /\ \A d \in ledger : d.run = k.run => d.turn # e.turn
<1> DEFINE k == task[t]
           r == k.run
           e == k.entry
           x == mem.contexts[k.ctx]
           L == ledger \cup {e}
<1>1. /\ r \in Runs /\ e \in DecisionEntry /\ DecisionOK(k, snap, ledger, mem)
      /\ x \in Turns
  BY DecidingNow DEF Deciding, AdvanceOps, LoopOps
<1>2. snap \in Snapshots /\ ledger \subseteq DecisionEntry /\ IsFiniteSet(ledger)
  BY Types
<1>3. AdvancingOK(k, snap, ledger, x) /\ e.run = r
  BY <1>1 DEF DecisionOK
<1>4. /\ Progress(snap, ledger, r, x, 0, 0 - 1, 0, 1)
      /\ e.turn + 1 = x.turn /\ e.name = "subtask_advance"
  BY <1>3 DEF AdvancingOK
<1>5. e.turn \in Nat /\ x.turn \in Nat /\ x.sub \in Nat /\ e.turn < x.turn + 0
  BY <1>1, <1>4 DEF DecisionEntry, Turns
<1>6. \A d \in ledger : d.run = r => d.turn # e.turn
  <2>1. Before(ledger, r, x.turn + (0 - 1))
    BY <1>4 DEF Progress
  <2> QED BY <1>4, <1>5, <2>1 DEF Before
<1>7. e \notin ledger
  BY <1>3, <1>6
<1>8. Least(x.sub + 0, Subtasks - 1) = Least(Advances(ledger, r) + 1 + 0, Subtasks - 1)
  <2>1. Advances(ledger, r) \in Nat
    BY <1>2, AdvancesNat
  <2> QED BY <1>4, <2>1 DEF Progress
<1> HIDE DEF k, r, e, x
<1>9. Progress(snap, L, r, x, 0, 0, 0, 0)
  BY <1>1, <1>2, <1>3, <1>4, <1>5, <1>7, <1>8, ProgressAdvanced
<1> QED BY <1>4, <1>5, <1>6, <1>9 DEF k, r, e, x, L

\* A decision that is appended is a decision about to be saved.
LEMMA AppendedDecision ==
    ASSUME IInv, SerialInv, NEW t \in Tasks, task[t].pc = "append",
           task[t].op # "advance-over", NEW q, q = [task[t] EXCEPT !.pc = "save"]
    PROVE  DecisionOK(q, snap, ledger \cup {task[t].entry}, mem)
<1> DEFINE k == task[t]
           r == k.run
           e == k.entry
           x == mem.contexts[k.ctx]
           L == ledger \cup {e}
<1>1. /\ k \in TaskRecord /\ r \in Runs /\ e \in DecisionEntry
      /\ DecisionOK(k, snap, ledger, mem)
      /\ k.op \in LoopOps => x \in Turns
      /\ k.op \notin LoopOps => CalledOK(k, snap)
  BY DecidingNow DEF Deciding
<1>2. /\ q.pc = "save" /\ q.op = k.op /\ q.run = r /\ q.ctx = k.ctx /\ q.rec = k.rec
      /\ q.entry = e /\ q.status = k.status /\ q.from = k.from /\ k.pc = "append"
      /\ k.op # "advance-over"
  BY <1>1 DEF TaskRecord
<1>3. e.run = r
  BY <1>1 DEF DecisionOK
<1>4. snap \in Snapshots /\ ledger \subseteq DecisionEntry /\ IsFiniteSet(ledger)
  BY Types
<1>5. k.op = "judge" => JudgeOK(q, snap, L, x)
  <2> SUFFICES ASSUME k.op = "judge" PROVE JudgeOK(q, snap, L, x)
    OBVIOUS
  <2>1. JudgeOK(k, snap, ledger, x) /\ x \in Turns /\ x.turn \in Nat
    BY <1>1 DEF DecisionOK, LoopOps, Turns
  <2>2. /\ Progress(snap, ledger, r, x, 1, 0, 0, 0)
        /\ e.turn = x.turn /\ e.name # "subtask_advance"
    BY <1>2, <2>1 DEF JudgeOK, JudgeNames
  <2>3. e.turn < x.turn + 1
    BY <2>1, <2>2
  <2>4. Progress(snap, L, r, x, 1, 1, 0, 0)
    <3> HIDE DEF k, r, e, x
    <3> QED BY <1>1, <1>4, <2>1, <2>2, <2>3, ProgressDecided
  <2> QED BY <1>2, <2>1, <2>4 DEF JudgeOK
<1>6. k.op = "gate" => GateOK(q, snap, L, x)
  BY <1>1, <1>2 DEF DecisionOK, GateOK
<1>7. k.op \in BeginOps => BeginningOK(q, snap, L, x)
  <2> SUFFICES ASSUME k.op \in BeginOps PROVE BeginningOK(q, snap, L, x)
    OBVIOUS
  <2>1. BeginningOK(k, snap, ledger, x) /\ x \in Turns /\ x.turn \in Nat
    BY <1>1 DEF DecisionOK, LoopOps, BeginOps, Turns
  <2>2. /\ Progress(snap, ledger, r, x, 0, 0, 0, 0)
        /\ e.turn < x.turn + 0 /\ e.name # "subtask_advance"
    BY <2>1 DEF BeginningOK
  <2>3. Progress(snap, L, r, x, 0, 0, 0, 0)
    <3> HIDE DEF k, r, e, x
    <3> QED BY <1>1, <1>4, <2>1, <2>2, ProgressDecided
  <2> QED BY <1>2, <2>1, <2>3 DEF BeginningOK
<1>8. k.op \in AdvanceOps => AdvancingOK(q, snap, L, x)
  <2> SUFFICES ASSUME k.op \in AdvanceOps PROVE AdvancingOK(q, snap, L, x)
    OBVIOUS
  <2>1. AdvancingOK(k, snap, ledger, x) /\ k.op = "advance"
    BY <1>1, <1>2 DEF DecisionOK, AdvanceOps
  <2>2. Progress(snap, L, r, x, 0, 0, 0, 0)
    BY <1>2, AdvanceCounted
  <2> QED BY <1>2, <2>1, <2>2 DEF AdvancingOK
<1>9. k.op \notin LoopOps => CalledOK(q, snap)
  BY <1>1, <1>2 DEF CalledOK
<1>10. q.entry \in L
  BY <1>2
<1> QED BY <1>1, <1>2, <1>5, <1>6, <1>7, <1>8, <1>9, <1>10 DEF DecisionOK

\* The run that waits for the call has its decision in the ledger.
LEMMA AppendedSuspended ==
    ASSUME IInv, SerialInv, NEW t \in Tasks, task[t].pc = "append",
           task[t].op \notin LoopOps, NEW q, q = [task[t] EXCEPT !.pc = "save"]
    PROVE  SuspendedOK(q, snap, ledger \cup {task[t].entry}, mem)
<1> DEFINE k == task[t]
           r == k.run
           e == k.entry
           c == mem.suspended[r]
           x == mem.contexts[c]
           L == ledger \cup {e}
<1>1. /\ k \in TaskRecord /\ r \in Runs /\ e \in DecisionEntry
      /\ SerialOK(k, snap, last, ledger, mem, started)
      /\ DecisionOK(k, snap, ledger, mem)
      /\ CalledOK(k, snap) /\ SuspendedOK(k, snap, ledger, mem)
  BY DecidingNow DEF Deciding
<1>2. /\ q.pc = "save" /\ q.op = k.op /\ k.pc = "append" /\ r = mem.active /\ e.run = r
  BY <1>1 DEF TaskRecord, DecisionOK
<1>3. /\ snap \in Snapshots /\ ledger \subseteq DecisionEntry /\ IsFiniteSet(ledger)
      /\ Subtasks \in Nat \ {0}
  BY Types
<1>4. /\ c \in Contexts /\ Seen(snap, r) \notin Over
      /\ Progress(snap, ledger, r, x, 1, 1, 0, 0)
  BY <1>1, <1>2 DEF SuspendedOK
<1>5. x \in Turns /\ x.turn \in Nat /\ x.sub \in Nat
  BY <1>4, Types DEF Turns
<1>6. e.turn = snap[r].turn /\ e.turn < x.turn + 1
  <2>1. e.turn = snap[r].turn
    BY <1>1 DEF CalledOK
  <2>2. TurnBefore(snap, r, x.turn + 1)
    BY <1>4 DEF Progress
  <2> QED BY <1>4, <2>1, <2>2 DEF TurnBefore, Over
<1>7. e.name = "subtask_advance" <=> k.op = "advance_subtask"
  BY <1>1 DEF CalledOK
<1>8. CASE k.op = "advance_subtask"
  <2>1. Seen(snap, r) = "needs_human"
    BY <1>1, <1>8 DEF CalledOK, LoadedIn
  <2>2. e \notin ledger
    <3> SUFFICES ASSUME e \in ledger PROVE FALSE
      OBVIOUS
    <3>1. LedgerOK(k, snap, ledger, mem) /\ ~Saving(k, e)
      BY <1>1, <1>2 DEF SerialOK, Saving
    <3>2. e.turn >= snap[r].turn
      BY <1>1, <1>6 DEF DecisionEntry
    <3>3. e.name = "needs_human"
      BY <1>2, <2>1, <3>1, <3>2 DEF LedgerOK
    <3> QED BY <1>7, <1>8, <3>3
  <2>3. Least(x.sub + 1, Subtasks - 1) = Least(Advances(ledger, r) + 1 + 0, Subtasks - 1)
    <3>1. Advances(ledger, r) \in Nat
      BY <1>3, AdvancesNat
    <3>2. Least(x.sub, Subtasks - 1) = Least(Advances(ledger, r), Subtasks - 1)
      <4>1. x.sub + 0 = x.sub /\ Advances(ledger, r) + 0 = Advances(ledger, r)
        BY <1>5, <3>1
      <4> QED BY <1>4, <4>1 DEF Progress
    <3>3. Subtasks - 1 \in Int
      BY <1>3
    <3>4. Least(x.sub + 1, Subtasks - 1) = Least(Advances(ledger, r) + 1, Subtasks - 1)
      <4> HIDE DEF x, r
      <4> QED BY <1>5, <3>1, <3>2, <3>3, LeastMore
    <3> QED BY <3>1, <3>4
  <2>4. Progress(snap, L, r, x, 1, 1, 1, 0)
    <3> HIDE DEF k, r, e, x
    <3> QED BY <1>1, <1>2, <1>3, <1>4, <1>5, <1>6, <1>7, <1>8, <2>2, <2>3, ProgressAdvanced
  <2> QED BY <1>2, <1>4, <1>8, <2>4 DEF SuspendedOK
<1>9. CASE k.op # "advance_subtask"
  <2>1. Progress(snap, L, r, x, 1, 1, 0, 0)
    <3> HIDE DEF k, r, e, x
    <3> QED BY <1>1, <1>3, <1>4, <1>5, <1>6, <1>7, <1>9, ProgressDecided
  <2> QED BY <1>2, <1>4, <1>9, <2>1 DEF SuspendedOK
<1> QED BY <1>8, <1>9

\* A decision of the turn loop, or of a call from outside, is appended.
LEMMA SavingSerial ==
    ASSUME IInv, IInv', SerialInv, NEW t \in Tasks, task[t].pc = "append",
           task[t].op # "advance-over", ledger' = ledger \cup {task[t].entry},
           Becomes(t, [task[t] EXCEPT !.pc = "save"], mem),
           UNCHANGED <<snap, last, overlaps, started, crashes>>
    PROVE  SerialInv'
<1> DEFINE k == task[t]
           q == [k EXCEPT !.pc = "save"]
<1>1. /\ k \in TaskRecord /\ k.run \in Runs /\ ~Idle(t) /\ k.status # "restart-active"
      /\ SerialOK(k, snap, last, ledger, mem, started)
      /\ DecisionOK(k, snap, ledger, mem)
      /\ k.op \notin LoopOps => RestOK(k, snap, mem)
  BY DecidingNow DEF Deciding
<1>2. /\ q.pc = "save" /\ q.op = k.op /\ q.run = k.run /\ q.entry = k.entry
      /\ q.status = k.status
  BY <1>1 DEF TaskRecord
<1>3. /\ DecisionOK(q, snap, ledger', mem)
      /\ k.op \notin LoopOps => SuspendedOK(q, snap, ledger', mem)
  BY AppendedDecision, AppendedSuspended
<1> HIDE DEF q
<1>4. /\ RunsOK(snap, last, ledger', mem, started) /\ PendingOK(snap, mem)
      /\ LedgerOK(q, snap, ledger', mem)
  <2>1. /\ k.entry.run = mem.active /\ mem.active # NoRun
        /\ k.entry.name \in EndNames => k.entry.to \in Terminal
    BY <1>1, Constants DEF DecisionOK
  <2>2. Saving(q, k.entry)
    BY <1>2 DEF Saving
  <2> HIDE DEF k
  <2>3. k.pc # "save"
    BY DEF k
  <2>4. ledger' = ledger \cup {k.entry}
    BY DEF k
  <2> QED BY <1>1, <2>1, <2>2, <2>3, <2>4, EntryAppended
<1>5. SerialOK(q, snap, last, ledger', mem, started)
  <2>1. Rests(q) => k.op \notin LoopOps
    BY <1>2 DEF Rests
  <2>2. Rests(q) => RestOK(q, snap, mem)
    BY <1>1, <1>2, <2>1 DEF RestOK
  <2>3. q.pc \in Deciding /\ q.pc # "recover"
    BY <1>2 DEF Deciding
  <2> QED BY <1>1, <1>2, <1>3, <1>4, <2>1, <2>2, <2>3 DEF SerialOK
<1>6. /\ \A u \in Tasks \ {t} : Idle(u)
      /\ overlaps' = 0 /\ crashes' = 0 /\ MemOK(mem)
  BY <1>1, Under, Types
<1>7. Becomes(t, q, mem)
  BY DEF q
<1> QED BY <1>2, <1>5, <1>6, <1>7, SerialStep

\* The last advance that the budget has room for is appended, and the run is about
\* to be limited.
LEMMA LimitAdvanceSerial ==
    ASSUME IInv, IInv', SerialInv, NEW t \in Tasks, task[t].pc = "append",
           task[t].op = "advance-over", ledger' = ledger \cup {task[t].entry},
           Becomes(t, LimitAdvance(task[t]), mem),
           UNCHANGED <<snap, last, overlaps, started, crashes>>
    PROVE  SerialInv'
<1> DEFINE k == task[t]
           r == k.run
           x == mem.contexts[k.ctx]
           e == Entry(r, k.rec.turn, "budget_limited", "budget_limited")
           y == To(k.rec, "budget_limited")
           q == LimitAdvance(k)
<1>1. /\ k \in TaskRecord /\ r \in Runs /\ ~Idle(t) /\ k.status # "restart-active"
      /\ SerialOK(k, snap, last, ledger, mem, started)
      /\ DecisionOK(k, snap, ledger, mem) /\ RecOK(k.rec)
  BY DecidingNow DEF Deciding
<1>2. /\ k.rec.run = r /\ k.entry.run = r /\ r = mem.active
      /\ k.rec.pending \in {"none", "approval"}
      /\ k.entry.to = k.rec.state /\ AdvancingOK(k, snap, ledger, x)
  BY <1>1 DEF DecisionOK, AdvanceOps
<1>3. /\ Working(snap, r) /\ k.from = "loop" /\ k.rec.state = "active"
      /\ k.rec.turn = x.turn - 1 /\ k.entry.name = "subtask_advance"
  BY <1>2 DEF AdvancingOK
<1>4. /\ Progress(snap, ledger', r, x, 0, 0, 0, 0)
      /\ k.entry.turn \in Nat /\ x.turn \in Nat /\ k.entry.turn + 1 = x.turn
      /\ \A d \in ledger : d.run = r => d.turn # k.entry.turn
  BY AdvanceCounted DEF AdvanceOps
<1>5. y.run = r /\ y.state = "budget_limited" /\ y.turn = k.rec.turn
      /\ y.pending = k.rec.pending
  BY <1>1, <1>2 DEF To, RecOK, RunStateRecord
<1>6. e.run = r /\ e.turn = k.rec.turn /\ e.name = "budget_limited" /\ e.to = "budget_limited"
  BY DEF Entry
<1>7. q = Request(k, "advance-limit", e, y)
  BY DEF LimitAdvance
<1> HIDE DEF e, y, q
<1>8. /\ q.pc = "check" /\ q.op = "advance-limit" /\ q.run = r /\ q.ctx = k.ctx
      /\ q.rec = y /\ q.entry = e /\ q.status = k.status /\ q.from = "loop"
  BY <1>1, <1>3, <1>7 DEF Request, TaskRecord
<1>9. BeginningOK(q, snap, ledger', x)
  <2>1. k.rec.turn < x.turn /\ k.rec.turn = k.entry.turn
    BY <1>3, <1>4
  <2>2. ~ \E d \in ledger' : SameId(d, e)
    BY <1>3, <1>4, <1>6, <2>1 DEF SameId
  <2> QED BY <1>3, <1>4, <1>5, <1>6, <1>8, <2>1, <2>2 DEF BeginningOK
<1>10. DecisionOK(q, snap, ledger', mem)
  <2>1. Allowed(Seen(snap, r), "budget_limited") /\ Seen(snap, r) \notin Terminal
    BY <1>3 DEF Working, Allowed, LegalTransitions, Terminal
  <2> QED BY <1>2, <1>5, <1>6, <1>8, <1>9, <2>1
          DEF DecisionOK, LoopOps, EndOps, EndNames, AdvanceOps
<1>11. /\ RunsOK(snap, last, ledger', mem, started) /\ PendingOK(snap, mem)
       /\ LedgerOK(q, snap, ledger', mem)
  <2>1. /\ k.entry.run = mem.active /\ mem.active # NoRun
        /\ k.entry.name \in EndNames => k.entry.to \in Terminal
        /\ k.entry.to = "active" /\ Working(snap, k.entry.run)
    BY <1>1, <1>2, <1>3, Constants DEF EndNames
  <2>2. k.pc # "save" /\ ledger' = ledger \cup {k.entry}
    OBVIOUS
  <2> HIDE DEF k
  <2> QED BY <1>1, <2>1, <2>2, EntryAppended
<1>12. SerialOK(q, snap, last, ledger', mem, started)
  BY <1>1, <1>8, <1>10, <1>11 DEF SerialOK, Deciding, Rests, LoopOps
<1>13. /\ \A u \in Tasks \ {t} : Idle(u)
       /\ overlaps' = 0 /\ crashes' = 0 /\ MemOK(mem)
  BY <1>1, Under, Types
<1>14. Becomes(t, q, mem)
  BY DEF q
<1> QED BY <1>8, <1>12, <1>13, <1>14, SerialStep

\* The decision is in the ledger.
LEMMA AppendEntrySerial ==
    ASSUME IInv, IInv', SerialInv, NEW t \in Tasks, AppendEntry(t)
    PROVE  SerialInv'
<1>1. /\ task[t].pc = "append" /\ ledger' = ledger \cup {task[t].entry}
      /\ UNCHANGED <<snap, last, overlaps, started, crashes>>
      /\ Becomes(t, IF task[t].op = "advance-over" THEN LimitAdvance(task[t])
                    ELSE [task[t] EXCEPT !.pc = "save"], mem)
  BY DEF AppendEntry
<1> QED BY <1>1, SavingSerial, LimitAdvanceSerial

-----------------------------------------------------------------------------
(* The record is saved.                                                    *)

\* What a snapshot shows once the record x is saved.
LEMMA SavedFacts ==
    ASSUME IInv, NEW x \in RunStateRecord, Save(x)
    PROVE  /\ x.run \in Runs /\ snap' \in Snapshots /\ last' = x.run /\ snap'[x.run] = x
           /\ Seen(snap', x.run) = x.state /\ x.state \in RunState /\ x.turn \in Nat
           /\ \A r \in Runs \ {x.run} : snap'[r] = snap[r] /\ Seen(snap', r) = Seen(snap, r)
<1>1. x.run \in Runs /\ x # NoRecord /\ x.state \in RunState /\ x.turn \in Nat
  BY Constants DEF RunStateRecord
<1>2. snap \in Snapshots
  BY Types
<1>3. snap' = [snap EXCEPT ![x.run] = x] /\ last' = x.run
  BY DEF Save
<1>4. snap'[x.run] = x /\ \A r \in Runs \ {x.run} : snap'[r] = snap[r]
  BY <1>1, <1>2, <1>3 DEF Snapshots
<1>5. snap' \in Snapshots
  BY <1>2, <1>3 DEF Snapshots
<1> QED BY <1>1, <1>3, <1>4, <1>5 DEF Seen

\* A memory in which the save of x is known: its run still holds the loop, or has
\* come to its end.
Filed(m, x) ==
    /\ MemOK(m) /\ m.up
    /\ \A r \in Runs : m.states[r] = mem.states[r] \/ (r = x.run /\ m.states[r] = x.state)
    /\ m.states[x.run] \in {"unknown", x.state}
    /\ \/ m.active = mem.active /\ m.registered = mem.registered
       \/ m.active = NoRun /\ m.registered = {} /\ x.state \in Terminal
    /\ m.pending \subseteq {m.active} \cap Runs
    /\ m.pending # {} => x.state = "needs_human"

\* The runs stay serial when the run that holds the loop saves a record.
LEMMA SavedRuns ==
    ASSUME IInv, NEW k, SerialOK(k, snap, last, ledger, mem, started),
           NEW x \in RunStateRecord, x.run = mem.active, x.pending \in {"none", "approval"},
           Save(x), NEW m, Filed(m, x)
    PROVE  RunsOK(snap', last', ledger, m, started) /\ PendingOK(snap', m)
<1>1. RunsOK(snap, last, ledger, mem, started)
  BY DEF SerialOK
<1>2. /\ x.run \in Runs /\ last' = x.run /\ snap'[x.run] = x
      /\ Seen(snap', x.run) = x.state
      /\ \A r \in Runs \ {x.run} : snap'[r] = snap[r] /\ Seen(snap', r) = Seen(snap, r)
  BY SavedFacts
<1>3. x.run \in started
  BY <1>1, <1>2, Constants DEF RunsOK
<1>4. \A r \in Runs : /\ Seen(snap', r) \notin Over => r = m.active
                      /\ r \notin started => Seen(snap', r) = "none" /\ \A e \in ledger : e.run # r
                      /\ m.states[r] \in {"unknown", Seen(snap', r)}
                      /\ snap'[r] # NoRecord => snap'[r].pending \in {"none", "approval"}
  <2> SUFFICES ASSUME NEW r \in Runs
      PROVE  /\ Seen(snap', r) \notin Over => r = m.active
             /\ r \notin started => Seen(snap', r) = "none" /\ \A e \in ledger : e.run # r
             /\ m.states[r] \in {"unknown", Seen(snap', r)}
             /\ snap'[r] # NoRecord => snap'[r].pending \in {"none", "approval"}
    OBVIOUS
  <2>1. CASE r = x.run
    BY <1>2, <1>3, <2>1 DEF Filed, Over
  <2>2. CASE r # x.run
    BY <1>1, <1>2, <2>2 DEF Filed, RunsOK
  <2> QED BY <2>1, <2>2
<1>5. /\ m.up /\ m.active \in started \cup {NoRun}
      /\ m.registered = IF m.active = NoRun THEN {} ELSE {m.active}
      /\ m.active # NoRun => last' = m.active
  BY <1>1, <1>2 DEF Filed, RunsOK
<1>6. PendingOK(snap', m)
  <2> SUFFICES ASSUME NEW r \in m.pending PROVE Seen(snap', r) = "needs_human"
    BY DEF PendingOK, Filed
  <2>1. r = m.active /\ r \in Runs /\ x.state = "needs_human"
    BY DEF Filed
  <2>2. r = x.run
    BY <2>1, Constants DEF Filed
  <2> QED BY <1>2, <2>1, <2>2
<1> QED BY <1>4, <1>5, <1>6 DEF RunsOK

\* Nothing in the ledger is about a record that was saved since, but the decision
\* behind it.
LEMMA SavedLedger ==
    ASSUME IInv, SerialInv, NEW t \in Tasks, task[t].pc = "save", Save(task[t].rec),
           NEW m, m.active \in {mem.active, NoRun}, NEW q
    PROVE  LedgerOK(q, snap', ledger, m)
<1> DEFINE k == task[t]
           r == k.run
           e == k.entry
           x == mem.contexts[k.ctx]
<1>1. /\ r \in Runs /\ SerialOK(k, snap, last, ledger, mem, started)
      /\ DecisionOK(k, snap, ledger, mem)
      /\ k.rec \in RunStateRecord
      /\ k.op \in LoopOps => x \in Turns
      /\ k.op \notin LoopOps => CalledOK(k, snap)
  BY DecidingNow DEF Deciding, RecOK
<1>2. /\ k.rec.run = r /\ e.run = r /\ r = mem.active /\ Seen(snap, r) \notin Terminal
      /\ Allowed(Seen(snap, r), k.rec.state) /\ e.to = k.rec.state
      /\ k.op \in EndOps => e.name \in EndNames
      /\ e.name \in EndNames => e.to \in Terminal
  BY <1>1 DEF DecisionOK
<1>3. /\ snap'[r] = k.rec /\ Seen(snap', r) = k.rec.state /\ k.rec.turn \in Nat
      /\ \A u \in Runs \ {r} : Seen(snap', u) = Seen(snap, u)
  BY <1>1, <1>2, SavedFacts
<1>4. LedgerOK(k, snap, ledger, mem) /\ ledger \subseteq DecisionEntry /\ NoRun \notin Runs
  BY <1>1, Types, Constants DEF SerialOK
<1>5. k.rec.state \in {"needs_human", "retry"} =>
        /\ k.op \in {"judge", "gate"}
        /\ k.rec.state = "needs_human" => e.name = "needs_human"
        /\ k.rec.state = "retry" => e.name # "resumed-retry"
        /\ \A d \in ledger : d.run = r /\ d.turn >= k.rec.turn => d = e
  <2> SUFFICES ASSUME k.rec.state \in {"needs_human", "retry"}
      PROVE  /\ k.op \in {"judge", "gate"}
             /\ k.rec.state = "needs_human" => e.name = "needs_human"
             /\ k.rec.state = "retry" => e.name # "resumed-retry"
             /\ \A d \in ledger : d.run = r /\ d.turn >= k.rec.turn => d = e
    OBVIOUS
  <2>1. k.op \notin EndOps
    BY <1>2 DEF Terminal
  <2>2. k.op \in LoopOps
    <3> SUFFICES ASSUME k.op \notin LoopOps PROVE FALSE
      OBVIOUS
    <3>1. CalledOK(k, snap) /\ k.op \in CallOps
      BY <1>1 DEF CalledOK
    <3>2. k.op \in Resumes \cup {"pause", "patch_pause"}
      BY <2>1, <3>1 DEF CallOps, EndOps, Decisions, Resumes
    <3> QED BY <1>2, <3>1, <3>2 DEF CalledOK
  <2>3. k.op \notin BeginOps /\ k.op \notin AdvanceOps
    BY <1>1, <1>2 DEF DecisionOK, BeginningOK, AdvancingOK, BeginOps, AdvanceOps
  <2>4. k.op \in {"judge", "gate"}
    BY <2>1, <2>2, <2>3 DEF LoopOps, EndOps, BeginOps, AdvanceOps
  <2>5. CASE k.op = "gate"
    BY <1>1, <1>2, <2>5 DEF DecisionOK, GateOK
  <2>6. CASE k.op = "judge"
    <3>1. JudgeOK(k, snap, ledger, x) /\ x.turn \in Nat
      BY <1>1, <2>6 DEF DecisionOK, LoopOps, Turns
    <3>2. /\ k.rec.turn = x.turn /\ Before(ledger, r, x.turn + 1)
          /\ \A d \in ledger : d.run = r /\ d.turn = x.turn => d = e
          /\ e.name \in JudgeNames
          /\ e.to = "needs_human" => e.name = "needs_human"
      BY <3>1 DEF JudgeOK, Progress
    <3>3. \A d \in ledger : d.run = r => d.turn \in Nat /\ d.turn < x.turn + 1
      BY <1>4, <3>2 DEF Before, DecisionEntry
    <3>4. \A d \in ledger : d.run = r /\ d.turn >= k.rec.turn => d = e
      <4> SUFFICES ASSUME NEW d \in ledger, d.run = r, d.turn >= k.rec.turn PROVE d = e
        OBVIOUS
      <4>1. d.turn = x.turn
        BY <3>1, <3>2, <3>3
      <4> QED BY <3>2, <4>1
    <3> QED BY <1>2, <2>6, <3>1, <3>2, <3>4 DEF JudgeOK, JudgeNames
  <2> QED BY <2>4, <2>5, <2>6
<1> SUFFICES ASSUME NEW d \in ledger
    PROVE  /\ d.name \in EndNames => d.to \in Terminal
           /\ d.to \in Terminal => Seen(snap', d.run) \in Terminal
           /\ d.run = m.active /\ Seen(snap', d.run) # "none" /\ d.turn >= snap'[d.run].turn =>
                /\ Seen(snap', d.run) = "needs_human" => d.name = "needs_human"
                /\ Seen(snap', d.run) = "retry" => d.name # "resumed-retry"
  BY DEF LedgerOK
<1>6. /\ d.run \in Runs
      /\ d.name \in EndNames => d.to \in Terminal
      /\ d.to \in Terminal => Seen(snap, d.run) \in Terminal \/ Saving(k, d)
  BY <1>4 DEF LedgerOK, DecisionEntry
<1>7. d.to \in Terminal => Seen(snap', d.run) \in Terminal
  BY <1>2, <1>3, <1>6 DEF Saving
<1>8. d.run = m.active => d.run = r
  BY <1>2, <1>4, <1>6
<1>9. ASSUME d.run = r, d.turn >= snap'[r].turn
      PROVE  /\ Seen(snap', r) = "needs_human" => d.name = "needs_human"
             /\ Seen(snap', r) = "retry" => d.name # "resumed-retry"
  <2>1. k.rec.state \in {"needs_human", "retry"} => d = e
    BY <1>3, <1>5, <1>9
  <2> QED BY <1>3, <1>5, <2>1
<1> QED BY <1>6, <1>7, <1>8, <1>9

\* What the call has become fits.
Suits(k, S, L, m) ==
    /\ k.pc \notin {"save", "recover"} /\ k.status # "restart-active"
    /\ k.pc = "idle" => k = IdleTask
    /\ k.pc \in Deciding => DecisionOK(k, S, L, m)
    /\ k.pc \notin Deciding /\ ~Rests(k) => WorkOK(k, S, L, m)
    /\ Rests(k) => RestOK(k, S, m)
    /\ Rests(k) /\ m.active # NoRun => SuspendedOK(k, S, L, m)

\* A call saves its record, and becomes one that fits.
LEMMA SaveMoves ==
    ASSUME IInv, IInv', SerialInv, NEW t \in Tasks, task[t].pc = "save", Save(task[t].rec),
           UNCHANGED <<ledger, overlaps, started, crashes>>,
           NEW q, NEW m, Becomes(t, q, m), Filed(m, task[t].rec), Suits(q, snap', ledger, m)
    PROVE  SerialInv'
<1> DEFINE k == task[t]
<1>1. /\ ~Idle(t) /\ SerialOK(k, snap, last, ledger, mem, started)
      /\ k.rec \in RunStateRecord /\ k.rec.run = mem.active
      /\ k.rec.pending \in {"none", "approval"}
  BY DecidingNow DEF Deciding, RecOK, DecisionOK
<1>2. RunsOK(snap', last', ledger, m, started) /\ PendingOK(snap', m)
  <2> HIDE DEF k
  <2>1. Save(k.rec) /\ Filed(m, k.rec)
    BY DEF k
  <2> QED BY <1>1, <2>1, SavedRuns
<1>3. LedgerOK(q, snap', ledger, m)
  <2>1. m.active \in {mem.active, NoRun}
    BY DEF Filed
  <2> QED BY <2>1, SavedLedger
<1>4. SerialOK(q, snap', last', ledger', m, started')
  BY <1>2, <1>3 DEF SerialOK, Suits
<1>5. /\ \A u \in Tasks \ {t} : Idle(u)
      /\ overlaps' = 0 /\ crashes' = 0 /\ MemOK(m) /\ (q.pc = "idle" => q = IdleTask)
  BY <1>1, Under DEF Filed, Suits
<1> QED BY <1>4, <1>5, SerialStep

-----------------------------------------------------------------------------
(* transition() returns: what each operation does then.                    *)

\* The memory by then, and the save.
SavedMem(k) == [mem EXCEPT !.states[k.run] = k.rec.state]

Saves(t) ==
    /\ task[t].pc = "save" /\ Save(task[t].rec)
    /\ UNCHANGED <<ledger, overlaps, started, crashes>>

\* What is known of a call that saves its record, and of the files then.
LEMMA SavingNow ==
    ASSUME IInv, SerialInv, NEW t \in Tasks, Saves(t)
    PROVE  LET k == task[t] IN
           /\ k \in TaskRecord /\ k.run \in Runs /\ k.status # "restart-active"
           /\ DecisionOK(k, snap, ledger, mem)
           /\ k.rec \in RunStateRecord /\ k.rec.run = k.run /\ k.run = mem.active
           /\ k.rec.state = k.entry.to /\ k.rec.state \in RunState /\ k.rec.turn \in Nat
           /\ k.op \in LoopOps => k.ctx \in Contexts /\ mem.contexts[k.ctx] \in Turns
           /\ k.op \notin LoopOps => CalledOK(k, snap) /\ SuspendedOK(k, snap, ledger, mem)
           /\ snap' \in Snapshots
           /\ Seen(snap', k.run) = k.rec.state /\ snap'[k.run].turn = k.rec.turn
           /\ mem.pending \subseteq {k.run}
           /\ Seen(snap, k.run) # "needs_human" => mem.pending = {}
           /\ mem.registered = {mem.active} /\ mem.active # NoRun
<1> DEFINE k == task[t]
<1>1. /\ k \in TaskRecord /\ k.run \in Runs /\ k.status # "restart-active"
      /\ SerialOK(k, snap, last, ledger, mem, started)
      /\ DecisionOK(k, snap, ledger, mem) /\ k.rec \in RunStateRecord
      /\ k.op \in LoopOps => k.ctx \in Contexts /\ mem.contexts[k.ctx] \in Turns
      /\ k.op \notin LoopOps => CalledOK(k, snap) /\ SuspendedOK(k, snap, ledger, mem)
  BY DecidingNow DEF Deciding, RecOK, Saves
<1>2. k.rec.run = k.run /\ k.run = mem.active /\ k.rec.state = k.entry.to
  BY <1>1 DEF DecisionOK
<1>3. /\ snap' \in Snapshots /\ Seen(snap', k.run) = k.rec.state
      /\ snap'[k.run] = k.rec /\ k.rec.state \in RunState /\ k.rec.turn \in Nat
  BY <1>1, <1>2, SavedFacts DEF Saves
<1>4. /\ mem.pending \subseteq {k.run}
      /\ Seen(snap, k.run) # "needs_human" => mem.pending = {}
      /\ mem.registered = {mem.active} /\ mem.active # NoRun
  BY <1>1, <1>2, Constants DEF SerialOK, PendingOK, RunsOK
<1> QED BY <1>1, <1>2, <1>3, <1>4

\* The memory by then is one in which the save is known.
LEMMA SavedMemFields ==
    ASSUME IInv, SerialInv, NEW t \in Tasks, Saves(t)
    PROVE  LET m0 == SavedMem(task[t]) IN
           /\ MemOK(m0) /\ m0.up = mem.up /\ m0.active = mem.active
           /\ m0.registered = mem.registered /\ m0.pending = mem.pending
           /\ m0.states = [mem.states EXCEPT ![task[t].run] = task[t].rec.state]
           /\ m0.suspended = mem.suspended /\ m0.contexts = mem.contexts
<1> DEFINE r == task[t].run
           s == task[t].rec.state
<1>1. r \in Runs /\ s \in RunState /\ MemOK(mem)
  BY SavingNow, Types
<1>2. SavedMem(task[t]) = [mem EXCEPT !.states[r] = s]
  BY DEF SavedMem
<1> HIDE DEF r, s
<1>3. LET d == [mem EXCEPT !.states[r] = s] IN
      /\ MemOK(d) /\ d.up = mem.up /\ d.active = mem.active
      /\ d.registered = mem.registered /\ d.pending = mem.pending
      /\ d.states = [mem.states EXCEPT ![r] = s]
      /\ d.suspended = mem.suspended /\ d.contexts = mem.contexts
  BY <1>1 DEF MemOK, Memory
<1> QED BY <1>2, <1>3 DEF r, s

\* ... as is any that differs in who is pending, and in who holds the loop when the
\* run is over.
LEMMA FiledFields ==
    ASSUME IInv, SerialInv, NEW t \in Tasks, Saves(t), NEW m, MemOK(m), m.up = mem.up,
           m.states = SavedMem(task[t]).states,
           m.pending # {} => task[t].rec.state = "needs_human",
           \/ /\ m.active = mem.active /\ m.registered = mem.registered
              /\ m.pending \subseteq {task[t].run}
           \/ /\ m.active = NoRun /\ m.registered = {} /\ m.pending = {}
              /\ task[t].rec.state \in Terminal
    PROVE  Filed(m, task[t].rec)
<1> DEFINE k == task[t]
<1>1. /\ k.run \in Runs /\ k.rec.run = k.run /\ k.run = mem.active /\ k.rec.state \in RunState
  BY SavingNow
<1>2. m.states = [mem.states EXCEPT ![k.run] = k.rec.state]
  BY SavedMemFields
<1>3. mem.up /\ mem.states \in [Runs -> RunState \cup {"unknown"}]
  <2>1. ~Idle(t)
    BY DEF Saves, Idle
  <2> QED BY <2>1, Under, Types DEF MemOK, Memory
<1> HIDE DEF k
<1>4. /\ m.states[k.run] = k.rec.state
      /\ \A r \in Runs : m.states[r] = mem.states[r] \/ (r = k.run /\ m.states[r] = k.rec.state)
  BY <1>1, <1>2, <1>3
<1> QED BY <1>1, <1>3, <1>4 DEF Filed, k

\* The judgment of a turn is saved.
LEMMA JudgedSaved ==
    ASSUME IInv, IInv', SerialInv, NEW t \in Tasks, Saves(t), task[t].op = "judge",
           Returned(t, SavedMem(task[t]), task[t].rec, FALSE)
    PROVE  SerialInv'
<1> DEFINE k  == task[t]
           r  == k.run
           x  == mem.contexts[k.ctx]
           m0 == SavedMem(k)
           m1 == [m0 EXCEPT !.pending = @ \cup {r}]
           m  == IF Asks(k) THEN m1 ELSE m0
           q  == [Settle(k) EXCEPT !.pc = "judged", !.status = k.entry.to]
<1>1. /\ k \in TaskRecord /\ r \in Runs /\ r = mem.active
      /\ k.rec.state = k.entry.to /\ k.rec.turn \in Nat
      /\ x \in Turns /\ x.turn \in Nat
      /\ Seen(snap', r) = k.rec.state /\ snap'[r].turn = k.rec.turn
      /\ mem.pending \subseteq {r}
      /\ Seen(snap, r) # "needs_human" => mem.pending = {}
  BY SavingNow DEF LoopOps, Turns
<1>2. JudgeOK(k, snap, ledger, x) /\ k.pc = "save"
  BY SavingNow DEF DecisionOK, Saves
<1>3. /\ Working(snap, r) /\ k.from = "loop" /\ k.rec.turn = x.turn
      /\ Progress(snap, ledger, r, x, 1, 1, 0, 0)
      /\ k.rec.state \in {"complete", "failed", "retry"} \cup Blocked
  BY <1>1, <1>2 DEF JudgeOK
<1>4. Becomes(t, q, m)
  BY DEF Returned, Resumes, Decisions
<1>5. /\ q.pc = "judged" /\ q.status = k.rec.state /\ q.run = r /\ q.ctx = k.ctx
      /\ q.from = "loop"
  BY <1>1, <1>3 DEF Settle, TaskRecord
<1>6. /\ MemOK(m0) /\ m0.up = mem.up /\ m0.active = mem.active
      /\ m0.registered = mem.registered /\ m0.pending = mem.pending
      /\ m0.contexts = mem.contexts
  BY SavedMemFields
<1>7. mem.pending = {}
  BY <1>1, <1>3 DEF Working
<1> HIDE DEF q, m0
<1>8. /\ MemOK(m1) /\ m1.up = m0.up /\ m1.active = m0.active
      /\ m1.registered = m0.registered /\ m1.states = m0.states
      /\ m1.pending = m0.pending \cup {r} /\ m1.contexts = m0.contexts
  BY <1>1, <1>6, IndexFields
<1> HIDE DEF m1
<1>9. /\ MemOK(m) /\ m.up = mem.up /\ m.active = mem.active
      /\ m.registered = mem.registered /\ m.states = m0.states
      /\ m.contexts = mem.contexts /\ m.pending \subseteq {r}
      /\ m.pending # {} => k.rec.state = "needs_human"
  BY <1>6, <1>7, <1>8 DEF Asks
<1> HIDE DEF m
<1>10. Filed(m, k.rec)
  BY <1>9, FiledFields DEF m0
<1>11. Progress(snap', ledger, r, x, 1, 1, 0, 0)
  <2>1. snap'[r].turn < x.turn + 1
    BY <1>1, <1>3
  <2> HIDE DEF r, x
  <2> QED BY <1>3, <2>1, ProgressSaved
<1>12. JudgedOK(q, snap', ledger, m)
  BY <1>1, <1>3, <1>5, <1>9, <1>11 DEF JudgedOK, Terminal
<1>13. Suits(q, snap', ledger, m)
  <2>1. q.status # "restart-active"
    BY <1>3, <1>5 DEF Blocked
  <2> QED BY <1>5, <1>12, <2>1 DEF Suits, WorkOK, Rests, Deciding
<1> QED BY <1>4, <1>10, <1>13, SaveMoves DEF Saves

\* The run waits in its context, which is at turn 0.
Gated(m, r, c) == [m EXCEPT !.suspended[r] = c, !.contexts[c].turn = 0]

\* Nothing else changes.
LEMMA GateFields ==
    ASSUME NEW m, MemOK(m), NEW r \in Runs, NEW c \in Contexts
    PROVE  /\ MemOK(Gated(m, r, c)) /\ Keeps(m, Gated(m, r, c))
           /\ Gated(m, r, c).suspended[r] = c
           /\ Gated(m, r, c).contexts[c] = [m.contexts[c] EXCEPT !.turn = 0]
<1> DEFINE v == [m.contexts[c] EXCEPT !.turn = 0]
           w == [m EXCEPT !.suspended[r] = c]
<1>1. v \in Turns
  BY DEF MemOK, Memory, Turns
<1>2. /\ MemOK(w) /\ Keeps(m, w) /\ w.suspended[r] = c /\ w.contexts = m.contexts
  BY WaitFields
<1>3. Gated(m, r, c) = [w EXCEPT !.contexts[c] = v]
  BY DEF MemOK, Memory, Gated
<1> HIDE DEF v, w
<1> DEFINE d == [w EXCEPT !.contexts[c] = v]
<1>4. MemOK(d) /\ Keeps(w, d) /\ d.suspended = w.suspended /\ d.contexts[c] = v
  BY <1>1, <1>2, TurnFields
<1> HIDE DEF d
<1>5. Gated(m, r, c) = d
  BY <1>3 DEF d
<1> QED BY <1>2, <1>4, <1>5 DEF Keeps, v

\* The gate of a new contract is saved, and asks a person.
LEMMA GateSaved ==
    ASSUME IInv, IInv', SerialInv, NEW t \in Tasks, Saves(t), task[t].op = "gate",
           Returned(t, SavedMem(task[t]), task[t].rec, FALSE)
    PROVE  SerialInv'
<1> DEFINE k  == task[t]
           r  == k.run
           x  == mem.contexts[k.ctx]
           m0 == SavedMem(k)
           m1 == [m0 EXCEPT !.pending = @ \cup {r}]
           m  == [m1 EXCEPT !.suspended[r] = k.ctx, !.contexts[k.ctx].turn = 0]
<1>1. /\ r \in Runs /\ r = mem.active /\ k.rec.turn \in Nat
      /\ k.ctx \in Contexts /\ x \in Turns
      /\ Seen(snap', r) = k.rec.state /\ snap'[r].turn = k.rec.turn
      /\ k.rec.state = k.entry.to /\ mem.pending \subseteq {r}
  BY SavingNow DEF LoopOps
<1>2. GateOK(k, snap, ledger, x)
  BY SavingNow DEF DecisionOK
<1>3. /\ x.sub = 0 /\ k.entry.turn = 0 /\ k.rec.turn = 0
      /\ \A e \in ledger : e.run = r => e = k.entry
      /\ k.entry.to = "needs_human" /\ k.entry.name = "needs_human"
  BY <1>2 DEF GateOK
<1>4. Becomes(t, IdleTask, m)
  BY <1>3 DEF Returned, Resumes, Decisions
<1>5. /\ MemOK(m0) /\ m0.up = mem.up /\ m0.active = mem.active
      /\ m0.registered = mem.registered /\ m0.pending = mem.pending
      /\ m0.contexts = mem.contexts
  BY SavedMemFields
<1> HIDE DEF m0
<1>6. /\ MemOK(m1) /\ m1.up = m0.up /\ m1.active = m0.active
      /\ m1.registered = m0.registered /\ m1.states = m0.states
      /\ m1.pending = m0.pending \cup {r} /\ m1.contexts = m0.contexts
  BY <1>1, <1>5, IndexFields
<1> HIDE DEF m1
<1>7. /\ MemOK(m) /\ m.up = m1.up /\ m.active = m1.active /\ m.registered = m1.registered
      /\ m.states = m1.states /\ m.pending = m1.pending
      /\ m.suspended[r] = k.ctx
      /\ m.contexts[k.ctx] = [m1.contexts[k.ctx] EXCEPT !.turn = 0]
  <2>1. m = Gated(m1, r, k.ctx)
    BY DEF Gated
  <2> HIDE DEF k, r, m
  <2> QED BY <1>1, <1>6, <2>1, GateFields DEF Keeps
<1> HIDE DEF m
<1>8. Filed(m, k.rec)
  BY <1>1, <1>3, <1>5, <1>6, <1>7, FiledFields DEF m0
<1> DEFINE y == m.contexts[k.ctx]
<1>9. y \in Turns /\ y.turn = 0 /\ y.sub = 0
  BY <1>1, <1>3, <1>5, <1>6, <1>7 DEF Turns
<1>10. Progress(snap', ledger, r, y, 1, 1, 0, 0)
  <2>1. TurnBefore(snap', r, y.turn + 1)
    BY <1>1, <1>3, <1>9 DEF TurnBefore
  <2>2. Before(ledger, r, y.turn + 1)
    BY <1>3, <1>9 DEF Before
  <2>3. \A e \in ledger : e.run = r => e.name # "subtask_advance"
    BY <1>3
  <2> HIDE DEF r, y
  <2> QED BY <1>9, <2>1, <2>2, <2>3, ProgressNone
<1>11. SuspendedOK(IdleTask, snap', ledger, m)
  <2>1. Seen(snap', r) = "needs_human"
    BY <1>1, <1>3
  <2> QED BY <1>1, <1>5, <1>6, <1>7, <1>10, <2>1 DEF SuspendedOK, IdleTask, Over, Terminal
<1>12. Suits(IdleTask, snap', ledger, m)
  BY <1>11 DEF Suits, IdleTask, Rests, Deciding, RestOK
<1> QED BY <1>4, <1>8, <1>12, SaveMoves DEF Saves

\* A pending approval is forgotten, and nothing else.
LEMMA ForgetFields ==
    ASSUME NEW m, MemOK(m), NEW r \in Runs
    PROVE  /\ MemOK(Forget(m, r)) /\ Forget(m, r).up = m.up
           /\ Forget(m, r).active = m.active
           /\ Forget(m, r).registered = m.registered /\ Forget(m, r).states = m.states
           /\ Forget(m, r).pending = m.pending \ {r}
           /\ Forget(m, r).suspended = m.suspended /\ Forget(m, r).contexts = m.contexts
BY DEF MemOK, Memory, Forget

\* A memory in which the run has been released, with its pending approval forgotten
\* or without one.
LEMMA ReleasedMem ==
    ASSUME IInv, SerialInv, NEW t \in Tasks, Saves(t), task[t].rec.state \in Terminal,
           NEW m, \/ m = ReleaseRun(Forget(SavedMem(task[t]), task[t].run), task[t].run)
                  \/ /\ m = ReleaseRun(SavedMem(task[t]), task[t].run)
                     /\ Seen(snap, task[t].run) = "active"
    PROVE  Filed(m, task[t].rec) /\ m.active = NoRun
<1> DEFINE k  == task[t]
           r  == k.run
           m0 == SavedMem(k)
           m1 == Forget(m0, r)
<1>1. /\ r \in Runs /\ r = mem.active /\ mem.registered = {mem.active} /\ mem.active # NoRun
      /\ mem.pending \subseteq {r}
      /\ Seen(snap, r) # "needs_human" => mem.pending = {}
  BY SavingNow
<1>2. /\ MemOK(m0) /\ m0.up = mem.up /\ m0.active = mem.active
      /\ m0.registered = mem.registered /\ m0.pending = mem.pending
  BY SavedMemFields
<1> HIDE DEF m0
<1>3. /\ MemOK(m1) /\ m1.up = m0.up /\ m1.active = m0.active
      /\ m1.registered = m0.registered /\ m1.states = m0.states
      /\ m1.pending = m0.pending \ {r}
  <2> HIDE DEF r
  <2> QED BY <1>1, <1>2, ForgetFields
<1> HIDE DEF m1
<1>4. m = ReleaseRun(m1, r) \/ (m = ReleaseRun(m0, r) /\ Seen(snap, r) = "active")
  BY DEF m0, m1
<1>5. ASSUME NEW d, MemOK(d), d.up = mem.up, d.active = r, d.registered = {r},
             d.states = m0.states, d.pending = {}, m = ReleaseRun(d, r)
      PROVE  Filed(m, k.rec) /\ m.active = NoRun
  <2> HIDE DEF k, r
  <2>1. /\ MemOK(m) /\ m.up = d.up /\ m.active = NoRun /\ m.registered = {}
        /\ m.states = d.states /\ m.pending = d.pending
    <3>1. d.registered = IF d.active = NoRun THEN {} ELSE {d.active}
      BY <1>1, <1>5
    <3> QED BY <1>1, <1>5, <3>1, LeaveFields
  <2> QED BY <1>5, <2>1, FiledFields DEF m0, k
<1>6. mem.pending \ {r} = {}
  BY <1>1
<1>7. CASE m = ReleaseRun(m1, r)
  BY <1>1, <1>2, <1>3, <1>5, <1>6, <1>7
<1>8. CASE m = ReleaseRun(m0, r) /\ Seen(snap, r) = "active"
  BY <1>1, <1>2, <1>5, <1>8
<1> QED BY <1>4, <1>7, <1>8

\* A decision that ends the run is saved: the loop is free.
LEMMA EndedSaved ==
    ASSUME IInv, IInv', SerialInv, NEW t \in Tasks, Saves(t),
           task[t].op \in {"fail", "reject", "settle"},
           Returned(t, SavedMem(task[t]), task[t].rec, FALSE)
    PROVE  SerialInv'
<1> DEFINE k  == task[t]
           r  == k.run
           m0 == SavedMem(k)
           m  == IF k.op = "settle" THEN ReleaseRun(m0, r) ELSE ReleaseRun(Forget(m0, r), r)
<1>1. Becomes(t, IdleTask, m)
  BY DEF Returned, Resumes, Decisions
<1>2. DecisionOK(k, snap, ledger, mem) /\ k.rec.state = k.entry.to
  BY SavingNow
<1>3. k.rec.state \in Terminal /\ (k.op = "settle" => Seen(snap, r) = "active")
  BY <1>2 DEF DecisionOK, EndOps
<1>4. Filed(m, k.rec) /\ m.active = NoRun
  <2>1. \/ m = ReleaseRun(Forget(SavedMem(task[t]), task[t].run), task[t].run)
        \/ /\ m = ReleaseRun(SavedMem(task[t]), task[t].run)
           /\ Seen(snap, task[t].run) = "active"
    BY <1>3
  <2> HIDE DEF m
  <2> QED BY <1>3, <2>1, ReleasedMem
<1> HIDE DEF m
<1>5. Suits(IdleTask, snap', ledger, m)
  BY <1>4 DEF Suits, IdleTask, Rests, Deciding, RestOK
<1> QED BY <1>1, <1>4, <1>5, SaveMoves DEF Saves

\* The dead loop is failed, and released before its turn is closed.
LEMMA DeadLoopSaved ==
    ASSUME IInv, IInv', SerialInv, NEW t \in Tasks, Saves(t), task[t].op = "deadloop",
           Returned(t, SavedMem(task[t]), task[t].rec, FALSE)
    PROVE  SerialInv'
<1> DEFINE k  == task[t]
           r  == k.run
           m  == ReleaseRun(Forget(SavedMem(k), r), r)
           q  == [Settle(k) EXCEPT !.pc = "handoff"]
<1>1. Becomes(t, q, m)
  BY DEF Returned, Resumes, Decisions
<1>2. /\ k \in TaskRecord /\ DecisionOK(k, snap, ledger, mem) /\ k.rec.state = k.entry.to
      /\ Seen(snap', r) = k.rec.state
  BY SavingNow
<1>3. k.rec.state \in Terminal /\ k.status = "failed"
  BY <1>2 DEF DecisionOK, EndOps
<1>4. q.pc = "handoff" /\ q.run = r /\ q.status = "failed"
  BY <1>2, <1>3 DEF Settle, TaskRecord
<1> HIDE DEF q
<1>5. Filed(m, k.rec) /\ m.active = NoRun
  BY <1>3, ReleasedMem
<1> HIDE DEF m
<1>6. JudgedOK(q, snap', ledger, m)
  BY <1>2, <1>3, <1>4, <1>5 DEF JudgedOK
<1>7. Suits(q, snap', ledger, m)
  BY <1>4, <1>6 DEF Suits, WorkOK, Rests, Deciding
<1> QED BY <1>1, <1>5, <1>7, SaveMoves DEF Saves

\* A memory in which the run keeps the loop, and waits in the same context.
LEMMA KeptMem ==
    ASSUME IInv, SerialInv, NEW t \in Tasks, Saves(t), task[t].rec.state # "needs_human",
           NEW m, \/ m = Forget(SavedMem(task[t]), task[t].run)
                  \/ m = SavedMem(task[t]) /\ Seen(snap, task[t].run) # "needs_human"
    PROVE  /\ Filed(m, task[t].rec) /\ m.active = mem.active
           /\ m.suspended = mem.suspended /\ m.contexts = mem.contexts
<1> DEFINE k  == task[t]
           r  == k.run
           m0 == SavedMem(k)
           m1 == Forget(m0, r)
<1>1. /\ r \in Runs /\ r = mem.active
      /\ mem.pending \subseteq {r}
      /\ Seen(snap, r) # "needs_human" => mem.pending = {}
  BY SavingNow
<1>2. /\ MemOK(m0) /\ m0.up = mem.up /\ m0.active = mem.active
      /\ m0.registered = mem.registered /\ m0.pending = mem.pending
      /\ m0.suspended = mem.suspended /\ m0.contexts = mem.contexts
  BY SavedMemFields
<1> HIDE DEF m0
<1>3. /\ MemOK(m1) /\ m1.up = m0.up /\ m1.active = m0.active
      /\ m1.registered = m0.registered /\ m1.states = m0.states
      /\ m1.pending = m0.pending \ {r}
      /\ m1.suspended = m0.suspended /\ m1.contexts = m0.contexts
  <2> HIDE DEF r
  <2> QED BY <1>1, <1>2, ForgetFields
<1> HIDE DEF m1
<1>4. m = m1 \/ (m = m0 /\ Seen(snap, r) # "needs_human")
  BY DEF m0, m1
<1>5. /\ MemOK(m) /\ m.up = mem.up /\ m.active = mem.active
      /\ m.registered = mem.registered /\ m.states = m0.states /\ m.pending = {}
      /\ m.suspended = mem.suspended /\ m.contexts = mem.contexts
  <2>1. mem.pending \ {r} = {}
    BY <1>1
  <2> QED BY <1>1, <1>2, <1>3, <1>4, <2>1
<1> QED BY <1>5, FiledFields DEF m0

\* The run that a person has paused waits on.
LEMMA PausedSaved ==
    ASSUME IInv, IInv', SerialInv, NEW t \in Tasks, Saves(t),
           task[t].op \in {"pause", "patch_pause"},
           Returned(t, SavedMem(task[t]), task[t].rec, FALSE)
    PROVE  SerialInv'
<1> DEFINE k  == task[t]
           r  == k.run
           m0 == SavedMem(k)
           m  == IF k.op = "pause" THEN Forget(m0, r) ELSE m0
           c  == mem.suspended[r]
           x  == mem.contexts[c]
<1>1. /\ k.run \in Runs /\ r = mem.active /\ k.rec.state = k.entry.to
      /\ CalledOK(k, snap) /\ SuspendedOK(k, snap, ledger, mem)
      /\ Seen(snap', r) = k.rec.state /\ snap'[r].turn = k.rec.turn
  BY SavingNow DEF LoopOps
<1>2. /\ k.rec.state = "paused" /\ k.rec.turn = snap[r].turn
      /\ k.op = "patch_pause" => Seen(snap, r) = "active"
  BY <1>1 DEF CalledOK, LoadedIn
<1>3. Becomes(t, IdleTask, m)
  <2>1. CASE k.op = "pause"
    BY <2>1 DEF Returned, Resumes, Decisions
  <2>2. CASE k.op = "patch_pause"
    <3>1. Become(Kill([task EXCEPT ![t] = IdleTask], r), m0)
      BY <2>2 DEF Returned, Resumes, Decisions
    <3>2. \A u \in Tasks \ {t} : Idle(u)
      BY Under DEF Saves, Idle
    <3>3. Kill([task EXCEPT ![t] = IdleTask], r) = [task EXCEPT ![t] = IdleTask]
      BY <3>2, KillNone DEF IInv, CallsOK
    <3> QED BY <2>2, <3>1, <3>3 DEF Becomes
  <2> QED BY <2>1, <2>2
<1>4. /\ Filed(m, k.rec) /\ m.active = mem.active
      /\ m.suspended = mem.suspended /\ m.contexts = mem.contexts
  <2>1. \/ m = Forget(SavedMem(task[t]), task[t].run)
        \/ m = SavedMem(task[t]) /\ Seen(snap, task[t].run) # "needs_human"
    BY <1>2
  <2> HIDE DEF m
  <2> QED BY <1>2, <2>1, KeptMem
<1> HIDE DEF m
<1>5. c \in Contexts /\ Seen(snap, r) \notin Over /\ Progress(snap, ledger, r, x, 1, 1, 0, 0)
  BY <1>1 DEF SuspendedOK
<1>6. Progress(snap', ledger, r, x, 1, 1, 0, 0)
  <2>1. snap'[r].turn < x.turn + 1
    BY <1>1, <1>2, <1>5 DEF Progress, TurnBefore, Over
  <2> HIDE DEF r, x
  <2> QED BY <1>5, <2>1, ProgressSaved
<1>7. SuspendedOK(IdleTask, snap', ledger, m)
  BY <1>1, <1>2, <1>4, <1>5, <1>6 DEF SuspendedOK, IdleTask, Over, Terminal
<1>8. Suits(IdleTask, snap', ledger, m)
  BY <1>7 DEF Suits, IdleTask, Rests, Deciding, RestOK
<1> QED BY <1>3, <1>4, <1>8, SaveMoves DEF Saves

\* The run that a person has brought back is continued.
LEMMA ResumedSaved ==
    ASSUME IInv, IInv', SerialInv, NEW t \in Tasks, Saves(t), task[t].op \in Resumes,
           Returned(t, SavedMem(task[t]), task[t].rec, FALSE)
    PROVE  SerialInv'
<1> DEFINE k  == task[t]
           r  == k.run
           m0 == SavedMem(k)
           m  == IF k.op \in Decisions THEN Forget(m0, r) ELSE m0
           c  == mem.suspended[r]
           x  == mem.contexts[c]
           q  == [Settle(k) EXCEPT !.pc = "continue", !.op = k.op]
           a  == IF k.op = "advance_subtask" THEN 1 ELSE 0
<1>1. /\ k \in TaskRecord /\ k.run \in Runs /\ r = mem.active /\ k.rec.state = k.entry.to
      /\ CalledOK(k, snap) /\ SuspendedOK(k, snap, ledger, mem)
      /\ Seen(snap', r) = k.rec.state /\ snap'[r].turn = k.rec.turn
      /\ k.status # "restart-active" /\ k.pc = "save"
  BY SavingNow DEF LoopOps, Resumes, Saves
<1>2. /\ k.rec.state = "active" /\ k.rec.turn = snap[r].turn
      /\ k.op \notin Decisions => Seen(snap, r) # "needs_human"
  BY <1>1 DEF CalledOK, LoadedIn, Resumes, Decisions
<1>3. Becomes(t, q, m)
  BY DEF Returned, Resumes, Decisions
<1>4. /\ q.pc = "continue" /\ q.op = k.op /\ q.run = r /\ q.status = k.status
  BY <1>1 DEF Settle, TaskRecord
<1> HIDE DEF q
<1>5. /\ Filed(m, k.rec) /\ m.active = mem.active
      /\ m.suspended = mem.suspended /\ m.contexts = mem.contexts
  <2>1. \/ m = Forget(SavedMem(task[t]), task[t].run)
        \/ m = SavedMem(task[t]) /\ Seen(snap, task[t].run) # "needs_human"
    BY <1>2
  <2> HIDE DEF m
  <2> QED BY <1>2, <2>1, KeptMem
<1> HIDE DEF m
<1>6. c \in Contexts /\ Seen(snap, r) \notin Over /\ Progress(snap, ledger, r, x, 1, 1, a, 0)
  BY <1>1 DEF SuspendedOK
<1>7. Progress(snap', ledger, r, x, 1, 1, a, 0)
  <2>1. snap'[r].turn < x.turn + 1
    BY <1>1, <1>2, <1>6 DEF Progress, TurnBefore, Over
  <2> HIDE DEF r, x, a
  <2> QED BY <1>6, <2>1, ProgressSaved
<1>8. SuspendedOK(q, snap', ledger, m)
  BY <1>1, <1>2, <1>4, <1>5, <1>6, <1>7 DEF SuspendedOK, Over, Terminal
<1>9. RestOK(q, snap', m)
  BY <1>1, <1>2, <1>4, <1>5 DEF RestOK
<1>10. Suits(q, snap', ledger, m)
  BY <1>1, <1>4, <1>8, <1>9 DEF Suits, Rests, Deciding
<1> QED BY <1>3, <1>5, <1>10, SaveMoves DEF Saves

\* The budget is exhausted, and the run waits in its context.
LEMMA LimitSaved ==
    ASSUME IInv, IInv', SerialInv, NEW t \in Tasks, Saves(t), task[t].op = "begin-limit",
           Returned(t, SavedMem(task[t]), task[t].rec, FALSE)
    PROVE  SerialInv'
<1> DEFINE k  == task[t]
           r  == k.run
           c  == k.ctx
           x  == mem.contexts[c]
           m0 == SavedMem(k)
           m  == IF k.from = "loop" THEN Suspend(m0, r, c) ELSE [m0 EXCEPT !.suspended[r] = c]
<1>1. /\ r \in Runs /\ r = mem.active /\ k.rec.state = k.entry.to /\ k.rec.turn \in Nat
      /\ c \in Contexts /\ x \in Turns /\ x.turn \in Nat
      /\ snap \in Snapshots /\ snap' \in Snapshots
      /\ Seen(snap', r) = k.rec.state /\ snap'[r].turn = k.rec.turn
      /\ mem.pending \subseteq {r}
      /\ Seen(snap, r) # "needs_human" => mem.pending = {}
      /\ ledger \subseteq DecisionEntry
  BY SavingNow, Types DEF LoopOps, Turns
<1>2. BeginningOK(k, snap, ledger, x)
  BY SavingNow DEF DecisionOK, BeginOps
<1>3. /\ k.rec.turn < x.turn /\ Progress(snap, ledger, r, x, 0, 0, 0, 0)
      /\ Seen(snap, r) = "active" /\ k.rec.state = "budget_limited"
  BY <1>1, <1>2 DEF BeginningOK
<1>4. Becomes(t, IdleTask, m)
  BY DEF Returned, Resumes, Decisions
<1>5. /\ MemOK(m0) /\ m0.up = mem.up /\ m0.active = mem.active
      /\ m0.registered = mem.registered /\ m0.pending = mem.pending
      /\ m0.contexts = mem.contexts
  BY SavedMemFields
<1> HIDE DEF m0
<1>6. MemOK(m) /\ Keeps(m0, m) /\ m.suspended[r] = c /\ m.contexts = m0.contexts
  <2> HIDE DEF r, c
  <2>1. /\ MemOK(Suspend(m0, r, c)) /\ Keeps(m0, Suspend(m0, r, c))
        /\ Suspend(m0, r, c).suspended[r] = c /\ Suspend(m0, r, c).contexts = m0.contexts
    BY <1>1, <1>5, SuspendFields
  <2> DEFINE d == [m0 EXCEPT !.suspended[r] = c]
  <2>2. MemOK(d) /\ Keeps(m0, d) /\ d.suspended[r] = c /\ d.contexts = m0.contexts
    BY <1>1, <1>5, WaitFields
  <2> QED BY <2>1, <2>2
<1> HIDE DEF m
<1>7. mem.pending = {}
  BY <1>1, <1>3
<1>8. Filed(m, k.rec)
  BY <1>5, <1>6, <1>7, FiledFields DEF Keeps, m0
<1>9. Progress(snap', ledger, r, x, 1, 1, 0, 0)
  <2> HIDE DEF r, x
  <2>1. snap'[r].turn < x.turn + 0
    BY <1>1, <1>3
  <2>2. Progress(snap', ledger, r, x, 0, 0, 0, 0)
    BY <1>3, <2>1, ProgressSaved
  <2> QED BY <1>1, <2>2, ProgressWeaker
<1>10. SuspendedOK(IdleTask, snap', ledger, m)
  BY <1>1, <1>3, <1>5, <1>6, <1>9 DEF SuspendedOK, IdleTask, Over, Terminal, Keeps
<1>11. Suits(IdleTask, snap', ledger, m)
  BY <1>10 DEF Suits, IdleTask, Rests, Deciding, RestOK
<1> QED BY <1>4, <1>8, <1>11, SaveMoves DEF Saves

\* A context goes back to the turn n, and nothing else changes.
BackAt(m, c, n) == [m EXCEPT !.contexts[c].turn = n]

LEMMA BackFields ==
    ASSUME NEW m, MemOK(m), NEW c \in Contexts, NEW n \in Nat
    PROVE  /\ MemOK(BackAt(m, c, n)) /\ Keeps(m, BackAt(m, c, n))
           /\ BackAt(m, c, n).suspended = m.suspended
           /\ BackAt(m, c, n).contexts[c] = [m.contexts[c] EXCEPT !.turn = n]
<1> DEFINE v == [m.contexts[c] EXCEPT !.turn = n]
<1>1. v \in Turns
  BY DEF MemOK, Memory, Turns
<1>2. BackAt(m, c, n) = [m EXCEPT !.contexts[c] = v]
  BY DEF MemOK, Memory, BackAt
<1> HIDE DEF v
<1> DEFINE d == [m EXCEPT !.contexts[c] = v]
<1>3. MemOK(d) /\ Keeps(m, d) /\ d.suspended = m.suspended /\ d.contexts[c] = v
  BY <1>1, TurnFields
<1> HIDE DEF d
<1>4. BackAt(m, c, n) = d
  BY <1>2 DEF d
<1> QED BY <1>3, <1>4 DEF v

\* There is no budget for the turn after the advance: the run waits in its context,
\* which goes back to the turn that is done.
LEMMA LimitAdvanceSaved ==
    ASSUME IInv, IInv', SerialInv, NEW t \in Tasks, Saves(t), task[t].op = "advance-limit",
           Returned(t, SavedMem(task[t]), task[t].rec, FALSE)
    PROVE  SerialInv'
<1> DEFINE k  == task[t]
           r  == k.run
           c  == k.ctx
           x  == mem.contexts[c]
           m0 == SavedMem(k)
           m1 == Suspend(m0, r, c)
           m  == [m1 EXCEPT !.contexts[c].turn = k.rec.turn]
           y  == m.contexts[c]
<1>1. /\ r \in Runs /\ r = mem.active /\ k.rec.state = k.entry.to /\ k.rec.turn \in Nat
      /\ c \in Contexts /\ x \in Turns /\ x.turn \in Nat
      /\ snap \in Snapshots /\ snap' \in Snapshots
      /\ Seen(snap', r) = k.rec.state /\ snap'[r].turn = k.rec.turn
      /\ mem.pending \subseteq {r}
      /\ Seen(snap, r) # "needs_human" => mem.pending = {}
      /\ ledger \subseteq DecisionEntry
  BY SavingNow, Types DEF LoopOps, Turns
<1>2. BeginningOK(k, snap, ledger, x)
  BY SavingNow DEF DecisionOK, BeginOps
<1>3. /\ k.rec.turn = x.turn - 1 /\ Progress(snap, ledger, r, x, 0, 0, 0, 0)
      /\ Working(snap, r) /\ k.rec.state = "budget_limited"
  BY <1>1, <1>2 DEF BeginningOK
<1>4. Becomes(t, IdleTask, m)
  BY DEF Returned, Resumes, Decisions
<1>5. /\ MemOK(m0) /\ m0.up = mem.up /\ m0.active = mem.active
      /\ m0.registered = mem.registered /\ m0.pending = mem.pending
      /\ m0.contexts = mem.contexts
  BY SavedMemFields
<1> HIDE DEF m0
<1>6. MemOK(m1) /\ Keeps(m0, m1) /\ m1.suspended[r] = c /\ m1.contexts = m0.contexts
  BY <1>1, <1>5, SuspendFields
<1> HIDE DEF m1
<1>7. /\ MemOK(m) /\ Keeps(m1, m) /\ m.suspended = m1.suspended
      /\ y = [m1.contexts[c] EXCEPT !.turn = k.rec.turn]
  <2>1. m = BackAt(m1, c, k.rec.turn)
    BY DEF BackAt
  <2> HIDE DEF k, c, m
  <2> QED BY <1>1, <1>6, <2>1, BackFields
<1> HIDE DEF m
<1>8. y.turn = k.rec.turn /\ y.sub = x.sub
  BY <1>1, <1>5, <1>6, <1>7 DEF Turns
<1>9. mem.pending = {}
  BY <1>1, <1>3 DEF Working
<1>10. Filed(m, k.rec)
  BY <1>5, <1>6, <1>7, <1>9, FiledFields DEF Keeps, m0
<1>11. Progress(snap', ledger, r, y, 1, 1, 0, 0)
  <2>1. TurnBefore(snap', r, y.turn + 1)
    BY <1>1, <1>8 DEF TurnBefore
  <2>2. Before(ledger, r, y.turn + 1)
    BY <1>1, <1>3, <1>8 DEF Progress, Before
  <2> QED BY <1>3, <1>8, <2>1, <2>2 DEF Progress
<1>12. SuspendedOK(IdleTask, snap', ledger, m)
  BY <1>1, <1>3, <1>5, <1>6, <1>7, <1>11 DEF SuspendedOK, IdleTask, Over, Terminal, Keeps
<1>13. Suits(IdleTask, snap', ledger, m)
  BY <1>12 DEF Suits, IdleTask, Rests, Deciding, RestOK
<1> QED BY <1>4, <1>10, <1>13, SaveMoves DEF Saves

\* The retry has become active: its turn begins, or the budget is exhausted.
LEMMA RetrySaved ==
    ASSUME IInv, IInv', SerialInv, NEW t \in Tasks, Saves(t), task[t].op = "begin-retry",
           Returned(t, SavedMem(task[t]), task[t].rec, FALSE)
    PROVE  SerialInv'
<1> DEFINE k    == task[t]
           r    == k.run
           x    == mem.contexts[k.ctx]
           m0   == SavedMem(k)
           back == Settle(k)
           q    == BeginActive(back, k.rec, m0.contexts[back.ctx].turn)
<1>1. /\ k \in TaskRecord /\ r \in Runs /\ r = mem.active /\ k.rec.run = r
      /\ k.rec \in RunStateRecord /\ k.rec.state = k.entry.to /\ k.rec.turn \in Nat
      /\ k.ctx \in Contexts /\ x \in Turns /\ k.status # "restart-active"
      /\ Seen(snap', r) = k.rec.state /\ snap'[r].turn = k.rec.turn
      /\ mem.pending \subseteq {r}
      /\ Seen(snap, r) # "needs_human" => mem.pending = {}
  BY SavingNow DEF LoopOps
<1>2. /\ BeginningOK(k, snap, ledger, x)
      /\ k.from = "loop" \/ (k.from = "continue" /\ mem.suspended[r] = k.ctx)
      /\ k.rec.pending \in {"none", "approval"}
  BY SavingNow DEF DecisionOK, BeginOps
<1>3. /\ k.rec.turn < x.turn /\ Progress(snap, ledger, r, x, 0, 0, 0, 0)
      /\ Seen(snap, r) = "retry" /\ k.rec.state = "active"
  BY <1>1, <1>2 DEF BeginningOK
<1>4. /\ MemOK(m0) /\ m0.up = mem.up /\ m0.active = mem.active
      /\ m0.registered = mem.registered /\ m0.pending = mem.pending
      /\ m0.suspended = mem.suspended /\ m0.contexts = mem.contexts
  BY SavedMemFields
<1>5. /\ back \in TaskRecord /\ back.run = r /\ back.ctx = k.ctx /\ back.from = k.from
      /\ back.status = k.status
  BY <1>1 DEF Settle, TaskRecord, OpNames
<1>6. Proceed(t, q, m0)
  <2>1. Proceed(t, BeginActive(back, k.rec, Turn(k)), m0)
    BY <1>3 DEF Returned, Resumes, Decisions
  <2>2. Turn(k) = m0.contexts[back.ctx].turn
    BY <1>4, <1>5 DEF Turn
  <2> QED BY <2>1, <2>2
<1> HIDE DEF m0, back
<1>7. Progress(snap', ledger, r, x, 0, 0, 0, 0)
  <2> HIDE DEF r, x
  <2>1. snap'[r].turn < x.turn + 0
    BY <1>1, <1>3 DEF Turns, x
  <2> QED BY <1>3, <2>1, ProgressSaved
<1>8. MayBegin(back, k.rec, snap', ledger, m0)
  BY <1>1, <1>2, <1>3, <1>4, <1>5, <1>7 DEF MayBegin
<1>9. /\ q.status = k.status
      /\ \/ q.pc = "stamp" /\ WorkOK(q, snap', ledger, m0)
         \/ q.pc = "check" /\ q.op = "begin-limit" /\ DecisionOK(q, snap', ledger, m0)
  <2> HIDE DEF k
  <2> QED BY <1>5, <1>8, BeginsActive
<1> HIDE DEF q
<1>10. Becomes(t, q, m0)
  BY <1>6, <1>9 DEF Proceed
<1>11. Filed(m0, k.rec)
  <2>1. mem.pending = {}
    BY <1>1, <1>3
  <2> QED BY <1>4, <2>1, FiledFields DEF m0
<1>12. Suits(q, snap', ledger, m0)
  BY <1>1, <1>9 DEF Suits, Rests, Deciding, LoopOps
<1> QED BY <1>10, <1>11, <1>12, SaveMoves DEF Saves

\* The advance is saved, and the next subtask is worked on.
LEMMA AdvanceSaved ==
    ASSUME IInv, IInv', SerialInv, NEW t \in Tasks, Saves(t), task[t].op = "advance",
           Returned(t, SavedMem(task[t]), task[t].rec, FALSE)
    PROVE  SerialInv'
<1> DEFINE k  == task[t]
           r  == k.run
           x  == mem.contexts[k.ctx]
           m0 == SavedMem(k)
           q  == [Settle(k) EXCEPT !.pc = "turn"]
<1>1. /\ k \in TaskRecord /\ r \in Runs /\ r = mem.active
      /\ k.rec.state = k.entry.to /\ k.rec.turn \in Nat /\ k.status # "restart-active"
      /\ k.ctx \in Contexts /\ x \in Turns /\ x.turn \in Nat
      /\ snap \in Snapshots /\ snap' \in Snapshots /\ ledger \subseteq DecisionEntry
      /\ Seen(snap', r) = k.rec.state /\ snap'[r].turn = k.rec.turn
      /\ mem.pending \subseteq {r}
      /\ Seen(snap, r) # "needs_human" => mem.pending = {}
  BY SavingNow, Types DEF LoopOps, Turns
<1>2. AdvancingOK(k, snap, ledger, x) /\ k.pc = "save"
  BY SavingNow DEF DecisionOK, AdvanceOps, Saves
<1>3. /\ Working(snap, r) /\ k.from = "loop" /\ k.rec.state = "active"
      /\ k.rec.turn = x.turn /\ Progress(snap, ledger, r, x, 0, 0, 0, 0)
  BY <1>2 DEF AdvancingOK
<1>4. Becomes(t, q, m0)
  BY DEF Returned, Resumes, Decisions
<1>5. /\ q.pc = "turn" /\ q.run = r /\ q.ctx = k.ctx /\ q.from = "loop"
      /\ q.status = k.status
  BY <1>1, <1>3 DEF Settle, TaskRecord
<1> HIDE DEF q
<1>6. /\ MemOK(m0) /\ m0.up = mem.up /\ m0.active = mem.active
      /\ m0.registered = mem.registered /\ m0.pending = mem.pending
      /\ m0.contexts = mem.contexts
  BY SavedMemFields
<1>7. mem.pending = {}
  BY <1>1, <1>3 DEF Working
<1> HIDE DEF m0
<1>8. Filed(m0, k.rec)
  BY <1>6, <1>7, FiledFields DEF m0
<1>9. Progress(snap', ledger, r, x, 1, 0, 0, 0)
  <2> HIDE DEF r, x
  <2>1. snap'[r].turn < x.turn + 1
    BY <1>1, <1>3
  <2> QED BY <1>3, <2>1, ProgressSaved
<1>10. WorkOK(q, snap', ledger, m0)
  BY <1>1, <1>3, <1>5, <1>6, <1>9 DEF WorkOK, Working
<1>11. Suits(q, snap', ledger, m0)
  BY <1>1, <1>5, <1>10 DEF Suits, Rests, Deciding
<1> QED BY <1>4, <1>8, <1>11, SaveMoves DEF Saves

\* The record of a decision is saved.
LEMMA SaveRecordSerial ==
    ASSUME Serial, IInv, IInv', SerialInv, NEW t \in Tasks, SaveRecord(t)
    PROVE  SerialInv'
<1> DEFINE k == task[t]
<1>1. Saves(t) /\ Returned(t, SavedMem(k), k.rec, FALSE)
  BY DEF SaveRecord, Saves, SavedMem
<1>2. k.op \notin LoopOps => k.op \in CallOps
  BY <1>1, SavingNow DEF CalledOK
<1>3. k.op # "advance-over"
  BY <1>1, SavingNow DEF DecisionOK, AdvancingOK, AdvanceOps, Saves
<1>4. \/ k.op \in {"fail", "reject", "settle"} \/ k.op = "deadloop"
      \/ k.op \in {"pause", "patch_pause"} \/ k.op \in Resumes
      \/ k.op = "judge" \/ k.op = "gate" \/ k.op = "begin-limit" \/ k.op = "begin-retry"
      \/ k.op = "advance" \/ k.op = "advance-limit"
  BY <1>2, <1>3 DEF LoopOps, CallOps, Decisions, Resumes
<1> HIDE DEF k
<1>5. CASE k.op \in {"fail", "reject", "settle"}
  BY <1>1, <1>5, EndedSaved DEF k
<1>6. CASE k.op = "deadloop"
  BY <1>1, <1>6, DeadLoopSaved DEF k
<1>7. CASE k.op \in {"pause", "patch_pause"}
  BY <1>1, <1>7, PausedSaved DEF k
<1>8. CASE k.op \in Resumes
  BY <1>1, <1>8, ResumedSaved DEF k
<1>9. CASE k.op = "judge"
  BY <1>1, <1>9, JudgedSaved DEF k
<1>10. CASE k.op = "gate"
  BY <1>1, <1>10, GateSaved DEF k
<1>11. CASE k.op = "begin-limit"
  BY <1>1, <1>11, LimitSaved DEF k
<1>12. CASE k.op = "begin-retry"
  BY <1>1, <1>12, RetrySaved DEF k
<1>13. CASE k.op = "advance"
  BY <1>1, <1>13, AdvanceSaved DEF k
<1>14. CASE k.op = "advance-limit"
  BY <1>1, <1>14, LimitAdvanceSaved DEF k
<1> QED BY <1>4, <1>5, <1>6, <1>7, <1>8, <1>9, <1>10, <1>11, <1>12, <1>13, <1>14

-----------------------------------------------------------------------------
(* The saves behind which there is no decision.                            *)

\* The record x of the run that holds the loop is saved in the state that it has:
\* as the active record of a turn, or as it was.
Again(x) ==
    /\ x \in RunStateRecord /\ Save(x)
    /\ x.run = mem.active /\ x.pending \in {"none", "approval"}
    /\ x.state = Seen(snap, x.run)
    /\ x.state = "active" \/ x.turn = snap[x.run].turn
    /\ UNCHANGED <<ledger, overlaps, started, crashes>>

\* What the decisions say of such a record stays true.
LEMMA AgainLedger ==
    ASSUME IInv, SerialInv, NEW t \in Tasks, ~Idle(t), task[t].pc # "save",
           NEW x, Again(x), NEW q
    PROVE  LedgerOK(q, snap', ledger, mem)
<1> DEFINE k == task[t]
           r == x.run
<1>1. LedgerOK(k, snap, ledger, mem) /\ ~Idle(t) /\ ledger \subseteq DecisionEntry
  BY Under, Types DEF SerialOK
<1>2. /\ r \in Runs /\ snap'[r] = x /\ Seen(snap', r) = x.state
      /\ \A u \in Runs : Seen(snap', u) = Seen(snap, u)
  BY SavedFacts DEF Again
<1>3. x.state \in {"needs_human", "retry"} => x.turn = snap[r].turn
  BY DEF Again
<1> SUFFICES ASSUME NEW d \in ledger
    PROVE  /\ d.name \in EndNames => d.to \in Terminal
           /\ d.to \in Terminal => Seen(snap', d.run) \in Terminal
           /\ d.run = mem.active /\ Seen(snap', d.run) # "none" /\ d.turn >= snap'[d.run].turn =>
                /\ Seen(snap', d.run) = "needs_human" => d.name = "needs_human"
                /\ Seen(snap', d.run) = "retry" => d.name # "resumed-retry"
  BY DEF LedgerOK
<1>4. d.run \in Runs /\ ~Saving(k, d)
  BY <1>1 DEF Saving, DecisionEntry
<1>5. /\ d.name \in EndNames => d.to \in Terminal
      /\ d.to \in Terminal => Seen(snap, d.run) \in Terminal
  BY <1>1, <1>4 DEF LedgerOK
<1>6. ASSUME d.run = mem.active, Seen(snap', d.run) # "none", d.turn >= snap'[d.run].turn
      PROVE  /\ Seen(snap', d.run) = "needs_human" => d.name = "needs_human"
             /\ Seen(snap', d.run) = "retry" => d.name # "resumed-retry"
  <2>1. d.run = r /\ Seen(snap, r) = x.state
    BY <1>6 DEF Again
  <2>2. CASE x.state \in {"needs_human", "retry"}
    <3>1. d.turn >= snap[r].turn /\ Seen(snap, r) # "none"
      BY <1>2, <1>3, <1>6, <2>1, <2>2
    <3> QED BY <1>1, <1>2, <1>4, <1>6, <2>1, <3>1 DEF LedgerOK
  <2>3. CASE x.state \notin {"needs_human", "retry"}
    BY <1>2, <2>1, <2>3
  <2> QED BY <2>2, <2>3
<1> QED BY <1>2, <1>4, <1>5, <1>6

\* A call saves such a record, and becomes one that fits.
LEMMA AgainMoves ==
    ASSUME IInv, IInv', SerialInv, NEW t \in Tasks, ~Idle(t), task[t].pc # "save",
           NEW x, Again(x), NEW q, NEW m, Becomes(t, q, m), MemOK(m), Keeps(mem, m),
           Suits(q, snap', ledger, m)
    PROVE  SerialInv'
<1>1. /\ SerialOK(task[t], snap, last, ledger, mem, started)
      /\ \A u \in Tasks \ {t} : Idle(u)
      /\ overlaps = 0 /\ crashes = 0 /\ mem.up
  BY Under
<1>2. RunsOK(snap, last, ledger, mem, started) /\ PendingOK(snap, mem)
  BY <1>1 DEF SerialOK
<1>3. x.run \in Runs /\ mem.states[x.run] \in {"unknown", x.state}
  BY <1>2, SavedFacts DEF RunsOK, Again
<1>4. Filed(m, x)
  <2>1. m.pending # {} => x.state = "needs_human"
    BY <1>2 DEF PendingOK, Keeps, Again
  <2> QED BY <1>1, <1>2, <1>3, <2>1 DEF Filed, Keeps, PendingOK
<1>5. RunsOK(snap', last', ledger, m, started) /\ PendingOK(snap', m)
  BY <1>1, <1>4, SavedRuns DEF Again
<1>6. LedgerOK(q, snap', ledger, m)
  <2>1. LedgerOK(q, snap', ledger, mem)
    BY AgainLedger
  <2> QED BY <2>1 DEF LedgerOK, Keeps
<1>7. SerialOK(q, snap', last', ledger', m, started')
  BY <1>5, <1>6 DEF SerialOK, Suits, Again
<1>8. overlaps' = 0 /\ crashes' = 0 /\ (q.pc = "idle" => q = IdleTask)
  BY <1>1 DEF Again, Suits
<1> QED BY <1>1, <1>7, <1>8, SerialStep

\* The record of the turn that begins is the one of its run, active already.
LEMMA StampAgain ==
    ASSUME IInv, SerialInv, NEW t \in Tasks, Stamp(t)
    PROVE  Again(task[t].rec) /\ task[t].rec.turn \in Nat /\ snap' \in Snapshots
<1> DEFINE k == task[t]
<1>1. k.pc = "stamp" /\ Save(k.rec) /\ UNCHANGED <<ledger, overlaps, started, crashes>>
  BY DEF Stamp
<1>2. WorkOK(k, snap, ledger, mem)
  BY <1>1, Working1 DEF InLoop, Deciding
<1>3. k.rec \in RunStateRecord
  BY <1>1 DEF IInv, CallsOK, TaskOK, RecOK
<1>4. Again(k.rec)
  BY <1>1, <1>2, <1>3 DEF WorkOK, Again
<1> QED BY <1>1, <1>3, <1>4, SavedFacts

\* The turn has been stamped on the record, and begins.
LEMMA StampSerial ==
    ASSUME IInv, IInv', SerialInv, NEW t \in Tasks, Stamp(t)
    PROVE  SerialInv'
<1> DEFINE k  == task[t]
           r  == k.run
           x  == mem.contexts[k.ctx]
           m0 == [mem EXCEPT !.suspended[r] = NoContext]
           m1 == IF k.from = "continue" THEN m0 ELSE mem
           m  == EnterLoop(m1, k)
           q  == [Settle(k) EXCEPT !.pc = "turn", !.from = "loop"]
<1>1. k.pc = "stamp" /\ Becomes(t, q, m)
  BY DEF Stamp
<1>2. /\ k \in TaskRecord /\ r \in Runs /\ k.ctx \in Contexts /\ ~Idle(t)
      /\ k.status # "restart-active" /\ WorkOK(k, snap, ledger, mem)
      /\ x \in Turns /\ x.turn \in Nat /\ MemOK(mem)
  BY <1>1, Working1 DEF InLoop, Deciding, Turns
<1>3. /\ r = mem.active /\ Seen(snap, r) = "active" /\ k.rec.run = r
      /\ k.rec.turn = x.turn /\ k.rec.state = "active"
      /\ Progress(snap, ledger, r, x, 0, 0, 0, 0)
  BY <1>1, <1>2 DEF WorkOK
<1>4. Again(k.rec)
  BY StampAgain
<1>5. Seen(snap', r) = "active" /\ snap'[r].turn = x.turn
  BY <1>3, <1>4, SavedFacts DEF Again
<1>6. MemOK(m1) /\ Keeps(mem, m1) /\ m1.contexts = mem.contexts
  <2> HIDE DEF r
  <2>1. MemOK(m0) /\ Keeps(mem, m0) /\ m0.contexts = mem.contexts
    BY <1>2, WaitFields
  <2>2. MemOK(mem) /\ Keeps(mem, mem)
    BY <1>2 DEF Keeps
  <2> QED BY <2>1, <2>2
<1> HIDE DEF m1
<1>7. MemOK(m) /\ Keeps(mem, m) /\ m.contexts = mem.contexts
  <2>1. MemOK(m) /\ Keeps(m1, m) /\ m.contexts = m1.contexts
    BY <1>2, <1>6, EnterFields
  <2> QED BY <1>6, <2>1 DEF Keeps
<1> HIDE DEF m
<1>8. /\ q.pc = "turn" /\ q.run = r /\ q.ctx = k.ctx /\ q.from = "loop"
      /\ q.status = k.status
  BY <1>2 DEF Settle, TaskRecord
<1> HIDE DEF q
<1>9. Progress(snap', ledger, r, x, 1, 0, 0, 0)
  <2> HIDE DEF r, x
  <2>1. snap'[r].turn < x.turn + 1
    BY <1>2, <1>5
  <2> QED BY <1>3, <2>1, ProgressSaved
<1>10. WorkOK(q, snap', ledger, m)
  BY <1>3, <1>5, <1>7, <1>8, <1>9 DEF WorkOK, Working, Keeps
<1>11. Suits(q, snap', ledger, m)
  BY <1>2, <1>8, <1>10 DEF Suits, Rests, Deciding
<1>12. k.pc # "save"
  BY <1>1
<1> QED BY <1>1, <1>2, <1>4, <1>7, <1>11, <1>12, AgainMoves

\* The record of a reminder is that of the run that waits.
LEMMA ReminderAgain ==
    ASSUME IInv, SerialInv, NEW t \in Tasks, SaveReminder(t)
    PROVE  Again(task[t].rec)
<1> DEFINE k == task[t]
<1>1. /\ k.pc = "resave" /\ Save(k.rec)
      /\ UNCHANGED <<ledger, overlaps, started, crashes>>
  BY DEF SaveReminder
<1>2. SerialOK(k, snap, last, ledger, mem, started)
  BY <1>1, Under DEF Idle
<1>3. RestOK(k, snap, mem)
  BY <1>1, <1>2 DEF SerialOK, Rests
<1>4. k.rec \in RunStateRecord
  BY <1>1 DEF IInv, CallsOK, TaskOK, RecOK
<1> QED BY <1>1, <1>3, <1>4 DEF RestOK, Again

\* A person has been reminded: the run waits on.
LEMMA SaveReminderSerial ==
    ASSUME IInv, IInv', SerialInv, NEW t \in Tasks, SaveReminder(t)
    PROVE  SerialInv'
<1> DEFINE k == task[t]
           r == mem.active
           x == mem.contexts[mem.suspended[r]]
<1>1. k.pc = "resave" /\ Becomes(t, IdleTask, mem) /\ ~Idle(t)
  BY DEF SaveReminder, Idle
<1>2. /\ SerialOK(k, snap, last, ledger, mem, started) /\ k.run \in Runs
      /\ MemOK(mem) /\ Again(k.rec)
  BY <1>1, Under, Types, ReminderAgain
<1>3. /\ RestOK(k, snap, mem) /\ r \in Runs /\ SuspendedOK(k, snap, ledger, mem)
  BY <1>1, <1>2, Constants DEF SerialOK, Rests, RestOK
<1>4. /\ mem.suspended[r] \in Contexts /\ Seen(snap, r) \notin Over
      /\ Progress(snap, ledger, r, x, 1, 1, 0, 0)
  BY <1>1, <1>3 DEF SuspendedOK
<1>5. Seen(snap', r) = Seen(snap, r) /\ snap'[r].turn = snap[r].turn
  BY <1>1, <1>2, <1>3, SavedFacts DEF Again, RestOK
<1>6. Progress(snap', ledger, r, x, 1, 1, 0, 0)
  <2>1. snap'[r].turn < x.turn + 1
    BY <1>4, <1>5 DEF Progress, TurnBefore, Over
  <2> HIDE DEF r, x
  <2> QED BY <1>4, <2>1, ProgressSaved
<1>7. SuspendedOK(IdleTask, snap', ledger, mem)
  BY <1>4, <1>5, <1>6 DEF SuspendedOK, IdleTask
<1>8. Suits(IdleTask, snap', ledger, mem)
  BY <1>7 DEF Suits, IdleTask, Rests, Deciding, RestOK
<1>9. Keeps(mem, mem) /\ k.pc # "save"
  BY <1>1 DEF Keeps
<1> QED BY <1>1, <1>2, <1>8, <1>9, AgainMoves

-----------------------------------------------------------------------------
(* The invariant, of every behaviour.                                      *)

\* At first no run has begun and no call is under way.
LEMMA InitSerial ==
    ASSUME Init
    PROVE  SerialInv
<1>1. \A t \in Tasks : task[t] = IdleTask
  BY DEF Init
<1>2. \A t \in Tasks : Idle(t)
  BY <1>1 DEF Idle, IdleTask
<1>3. /\ mem.up /\ mem.active = NoRun /\ mem.registered = {} /\ mem.pending = {}
      /\ \A r \in Runs : mem.states[r] = "unknown"
  BY DEF Init, EmptyMemory
<1>4. \A r \in Runs : snap[r] = NoRecord /\ Seen(snap, r) = "none"
  BY DEF Init, Seen
<1>5. ledger = {} /\ overlaps = 0 /\ crashes = 0
  BY DEF Init
<1>6. RunsOK(snap, last, ledger, mem, started) /\ PendingOK(snap, mem)
  BY <1>3, <1>4, <1>5 DEF RunsOK, PendingOK, Over
<1>7. LedgerOK(IdleTask, snap, ledger, mem)
  BY <1>5 DEF LedgerOK
<1>8. SerialOK(IdleTask, snap, last, ledger, mem, started)
  BY <1>3, <1>6, <1>7 DEF SerialOK, IdleTask, Deciding, Rests, RestOK
<1> QED BY <1>2, <1>5, <1>8 DEF SerialInv, Lone

\* The server is up.
LEMMA AlwaysUp ==
    ASSUME IInv, SerialInv
    PROVE  mem.up
<1>1. CASE Quiet
  BY <1>1 DEF SerialInv, SerialOK, RunsOK
<1>2. CASE ~Quiet
  <2>1. PICK t \in Tasks : ~Idle(t)
    BY <1>2 DEF Quiet
  <2> QED BY <2>1, Under
<1> QED BY <1>1, <1>2

\* No call recovers a run.
LEMMA NeverRecovers ==
    ASSUME IInv, SerialInv, NEW t \in Tasks
    PROVE  task[t].pc # "recover"
<1> SUFFICES ASSUME task[t].pc = "recover" PROVE FALSE
  OBVIOUS
<1>1. ~Idle(t)
  BY DEF Idle
<1> QED BY <1>1, Under DEF SerialOK

\* Every step keeps the invariant, and so does one that changes nothing.
LEMMA NextSerial ==
    ASSUME Serial, IInv, IInv', SerialInv, [Next]_vars
    PROVE  SerialInv'
<1>1. ASSUME NEW t \in Tasks, Step(t) PROVE SerialInv'
  <2>1. ~Recover(t)
    BY NeverRecovers DEF Recover
  <2> QED BY <1>1, <2>1, SetUpSerial, EndTurnSerial, JudgeSerial, DetectDeadLoopSerial,
             WriteCheckpointSerial, DriveSerial, AdvanceSerial, BeginSerial, StampSerial,
             ContinueRunSerial, MergeSerial, ReadLedgerSerial, AppendEntrySerial,
             SaveRecordSerial, SaveReminderSerial DEF Step
<1>2. ~Crash
  BY DEF Serial, SerialInv, Crash
<1>3. \A t \in Tasks : ~Restart(t) /\ ~TurnThrows(t)
  BY AlwaysUp DEF Restart, TurnThrows, Serial
<1>4. CASE Next
  BY <1>1, <1>2, <1>3, <1>4, OperationSerial, StartRunSerial DEF Next
<1>5. CASE UNCHANGED vars
  <2>1. UNCHANGED <<snap, last, ledger, task, mem, overlaps, started, crashes>>
    BY <1>5 DEF vars
  <2> QED BY <2>1 DEF SerialInv, Lone, Quiet, Idle
<1> QED BY <1>4, <1>5

\* Calls come one at a time and the server stays up: one run holds the loop, all
\* others are over, and what each call knows of the run, its record, its decisions
\* and its context fits.
THEOREM RunsAreSerial == Serial => (Spec => [](IInv /\ SerialInv))
<1> SUFFICES ASSUME Serial PROVE Spec => [](IInv /\ SerialInv)
  OBVIOUS
<1>1. Init => IInv /\ SerialInv
  BY InitInv, InitSerial
<1>2. IInv /\ SerialInv /\ [Next]_vars => (IInv /\ SerialInv)'
  BY NextInv, NextSerial
<1> QED BY <1>1, <1>2, PTL DEF Spec

-----------------------------------------------------------------------------
(* The refinement.                                                         *)

\* What a step saves: the record of the run that holds the loop, in a state that
\* the run may move to.
Moves(x) == /\ x \in RunStateRecord /\ Save(x) /\ x.run = mem.active
            /\ Allowed(Seen(snap, x.run), x.state)

\* A step of a call leaves the snapshots alone, or makes such a move.
LEMMA StepMoves ==
    ASSUME IInv, SerialInv, NEW t \in Tasks, Step(t)
    PROVE  snap' = snap \/ Moves(task[t].rec)
<1>1. CASE Stamp(t)
  BY <1>1, StampAgain DEF Again, Moves, Allowed
<1>2. CASE SaveReminder(t)
  BY <1>2, ReminderAgain DEF Again, Moves, Allowed
<1>3. CASE SaveRecord(t)
  <2>1. Saves(t)
    BY <1>3 DEF SaveRecord, Saves
  <2>2. /\ task[t].rec \in RunStateRecord /\ task[t].rec.run = mem.active
        /\ task[t].rec.run = task[t].run /\ DecisionOK(task[t], snap, ledger, mem)
    BY <2>1, SavingNow
  <2> QED BY <2>1, <2>2 DEF Moves, Saves, DecisionOK
<1>4. CASE ~Stamp(t) /\ ~SaveReminder(t) /\ ~SaveRecord(t)
  BY <1>4 DEF Step, SetUp, EndTurn, Judge, DetectDeadLoop, WriteCheckpoint, Drive, Advance,
              Begin, ContinueRun, Merge, Recover, ReadLedger, AppendEntry
<1> QED BY <1>1, <1>2, <1>3, <1>4

\* Any other step leaves them alone.
LEMMA NextMoves ==
    ASSUME IInv, SerialInv, [Next]_vars
    PROVE  snap' = snap \/ \E x \in RunStateRecord : Moves(x)
<1>1. ASSUME NEW t \in Tasks, Step(t) PROVE snap' = snap \/ \E x \in RunStateRecord : Moves(x)
  BY <1>1, StepMoves DEF Moves
<1>2. ASSUME NEW t \in Tasks, Operation(t) \/ TurnThrows(t) \/ Restart(t) PROVE snap' = snap
  BY <1>2 DEF Operation, TurnThrows, Restart
<1>3. ASSUME NEW t \in Tasks, NEW r \in Runs, StartRun(t, r) PROVE snap' = snap
  BY <1>3 DEF StartRun
<1>4. Crash => snap' = snap
  BY DEF Crash
<1> QED BY <1>1, <1>2, <1>3, <1>4 DEF Next, vars

\* The states that RunStates has are the ones that the snapshots show.
LEMMA ShownIsSeen == \A r : Shown(r) = Seen(snap, r)
BY DEF Shown, Seen

\* A run makes a move: it begins when all others are over, it moves along the
\* table, or it stays what it was.
LEMMA MovesRefine ==
    ASSUME IInv, SerialInv, NEW x \in RunStateRecord, Moves(x)
    PROVE  [Promise!Next]_([r \in Runs |-> Shown(r)])
<1> DEFINE r == x.run
           s == x.state
           f == [p \in Runs |-> Shown(p)]
<1>1. /\ r \in Runs /\ Seen(snap', r) = s /\ s \in RunState
      /\ \A p \in Runs \ {r} : Seen(snap', p) = Seen(snap, p)
  BY SavedFacts DEF Moves
<1>2. \A p \in Runs : f[p] = Seen(snap, p) /\ f'[p] = Seen(snap', p)
  BY DEF Shown, Seen
<1>3. f' = [f EXCEPT ![r] = s]
  <2>1. f' = [p \in Runs |-> Seen(snap', p)] /\ f = [p \in Runs |-> Seen(snap, p)]
    BY DEF Shown, Seen
  <2> HIDE DEF f, r, s
  <2> QED BY <1>1, <2>1
<1>4. \A p \in Runs \ {r} : f[p] \in Promise!Ended
  <2>1. \E k : SerialOK(k, snap, last, ledger, mem, started)
    <3>1. CASE Quiet
      BY <3>1 DEF SerialInv
    <3>2. CASE ~Quiet
      BY <3>2 DEF SerialInv, Quiet
    <3> QED BY <3>1, <3>2
  <2>2. \A p \in Runs : Seen(snap, p) \notin Over => p = r
    BY <2>1 DEF SerialOK, RunsOK, Moves
  <2> QED BY <1>2, <2>2 DEF Promise!Ended, Over, Terminal
<1>5. Allowed(f[r], s)
  BY <1>1, <1>2 DEF Moves
<1>6. Promise!RunState = RunState /\ Promise!LegalTransitions = LegalTransitions
  BY DEF Promise!RunState, RunState, Promise!LegalTransitions, LegalTransitions
<1>7. CASE f[r] = s
  <2>1. f' = f
    <3> HIDE DEF r, s
    <3> QED BY <1>1, <1>3, <1>7
  <2> QED BY <2>1
<1>8. CASE <<f[r], s>> \in LegalTransitions
  <2>1. Promise!Move(r)
    BY <1>1, <1>3, <1>6, <1>8 DEF Promise!Move
  <2> QED BY <1>1, <2>1 DEF Promise!Next
<1>9. CASE f[r] = "none" /\ (s = "active" \/ <<"active", s>> \in LegalTransitions)
  <2>1. Promise!Begin(r)
    BY <1>1, <1>3, <1>4, <1>6, <1>9 DEF Promise!Begin
  <2> QED BY <1>1, <2>1 DEF Promise!Next
<1> QED BY <1>5, <1>7, <1>8, <1>9 DEF Allowed

\* The runs of a loop implement RunStates: every save moves a run along the table,
\* or begins it when all earlier runs are over.
THEOREM RunsFollowStates == Serial => (Spec => FollowsRunStates)
<1> SUFFICES ASSUME Serial PROVE Spec => FollowsRunStates
  OBVIOUS
<1>1. Init => Promise!Init
  BY DEF Init, Promise!Init, Shown
<1>2. IInv /\ SerialInv /\ [Next]_vars => [Promise!Next]_([r \in Runs |-> Shown(r)])
  <2> SUFFICES ASSUME IInv, SerialInv, [Next]_vars
      PROVE  [Promise!Next]_([r \in Runs |-> Shown(r)])
    OBVIOUS
  <2>1. CASE snap' = snap
    BY <2>1 DEF Shown
  <2>2. CASE \E x \in RunStateRecord : Moves(x)
    BY <2>2, MovesRefine
  <2> QED BY <2>1, <2>2, NextMoves
<1>3. Spec => [](IInv /\ SerialInv)
  BY RunsAreSerial
<1> QED BY <1>1, <1>2, <1>3, PTL DEF Spec, FollowsRunStates, Promise!Spec

\* Every turn works on the subtask behind the ones that the ledger has as advanced.
THEOREM TurnsWorkOnTheNextSubtask == Serial => (Spec => []SubtaskIsNext)
<1> SUFFICES ASSUME Serial PROVE Spec => []SubtaskIsNext
  OBVIOUS
<1>1. IInv /\ SerialInv => SubtaskIsNext
  <2> SUFFICES ASSUME IInv, SerialInv, NEW t \in Tasks, task[t].pc = "turn"
      PROVE  mem.contexts[task[t].ctx].sub = Least(AdvancesOf(task[t].run), Subtasks - 1)
    BY DEF SubtaskIsNext
  <2> DEFINE r == task[t].run
             x == mem.contexts[task[t].ctx]
  <2>1. WorkOK(task[t], snap, ledger, mem) /\ x \in Turns
    BY Working1 DEF InLoop, Deciding
  <2>2. Progress(snap, ledger, r, x, 1, 0, 0, 0)
    BY <2>1 DEF WorkOK
  <2>3. Advances(ledger, r) = AdvancesOf(r) /\ Advances(ledger, r) \in Nat
    BY Types, AdvancesNat DEF Advances, AdvancesOf
  <2> HIDE DEF r, x
  <2>4. x.sub \in Nat /\ x.sub < Subtasks /\ Subtasks \in Nat \ {0}
    BY <2>1, <2>2, Types DEF Turns, Progress
  <2>5. Least(x.sub + 0, Subtasks - 1) = Least(AdvancesOf(r) + 0, Subtasks - 1)
    BY <2>2, <2>3 DEF Progress
  <2>6. x.sub = Least(AdvancesOf(r), Subtasks - 1)
    BY <2>3, <2>4, <2>5 DEF Least
  <2> QED BY <2>6 DEF r, x
<1> QED BY <1>1, RunsAreSerial, PTL

-----------------------------------------------------------------------------
(* Every retry has been paid for.                                          *)

\* The retries of the run r among the decisions L.
Retried(L, r) == Cardinality({e \in L : e.run = r /\ e.name = "retry"})

\* The retries that a budget has as used.
Used(b) == IF b = NoBudget THEN 0 ELSE b.usedRetries

\* Each snapshot has paid for the retries of its run.
Paid(L, S) ==
    \A r \in Runs : Retried(L, r) <= IF S[r] = NoRecord THEN 0 ELSE Used(S[r].budget)

\* A call that holds a record to save.
Holds(k) == k.pc \in Deciding \cup {"stamp", "resave"}

\* Its record has paid for the retries of its run, the one that it decides on
\* included; and only a judgment decides on one.
Pays(k, L) ==
    /\ Holds(k) =>
         Retried(IF k.pc \in Deciding THEN L \cup {k.entry} ELSE L, k.rec.run)
         <= Used(k.rec.budget)
    /\ k.pc \in Deciding /\ k.entry.name = "retry" => k.op = "judge"

\* The decisions whose records are about to be saved.
Unsaved == {task[t].entry : t \in {u \in Tasks : task[u].pc = "save"}}

PaidInv ==
    /\ \A t \in Tasks : Pays(task[t], ledger)
    /\ Paid(ledger \ Unsaved, snap)

\* Retries are counted, and there are no more of them among fewer decisions.
LEMMA RetriedNat ==
    ASSUME NEW L, IsFiniteSet(L), NEW r
    PROVE  Retried(L, r) \in Nat
<1> DEFINE A == {d \in L : d.run = r /\ d.name = "retry"}
<1>1. A \subseteq L /\ Retried(L, r) = Cardinality(A)
  BY DEF Retried
<1> HIDE DEF A
<1> QED BY <1>1, FS_Subset, FS_CardinalityType

LEMMA RetriedLess ==
    ASSUME NEW L, IsFiniteSet(L), NEW K, K \subseteq L, NEW r
    PROVE  Retried(K, r) <= Retried(L, r)
<1> DEFINE A == {d \in K : d.run = r /\ d.name = "retry"}
           B == {d \in L : d.run = r /\ d.name = "retry"}
<1>1. A \subseteq B /\ B \subseteq L
  OBVIOUS
<1>2. Retried(K, r) = Cardinality(A) /\ Retried(L, r) = Cardinality(B)
  BY DEF Retried
<1> HIDE DEF A, B
<1> QED BY <1>1, <1>2, FS_Subset

\* A decision that is not a retry of the run does not count, with the others or
\* without them.
LEMMA RetriedSame ==
    ASSUME NEW L, NEW r, NEW e, ~(e.run = r /\ e.name = "retry")
    PROVE  Retried(L \cup {e}, r) = Retried(L, r) /\ Retried(L \ {e}, r) = Retried(L, r)
<1>1. /\ {d \in L \cup {e} : d.run = r /\ d.name = "retry"}
         = {d \in L : d.run = r /\ d.name = "retry"}
      /\ {d \in L \ {e} : d.run = r /\ d.name = "retry"}
         = {d \in L : d.run = r /\ d.name = "retry"}
  OBVIOUS
<1> QED BY <1>1 DEF Retried

\* One more decision is at most one more retry.
LEMMA RetriedMore ==
    ASSUME NEW L, IsFiniteSet(L), NEW r, NEW e
    PROVE  Retried(L \cup {e}, r) <= Retried(L, r) + 1
<1> DEFINE A == {d \in L : d.run = r /\ d.name = "retry"}
           B == {d \in L \cup {e} : d.run = r /\ d.name = "retry"}
<1>1. A \subseteq L /\ B \subseteq A \cup {e}
  OBVIOUS
<1>2. Retried(L, r) = Cardinality(A) /\ Retried(L \cup {e}, r) = Cardinality(B)
  BY DEF Retried
<1> HIDE DEF A, B
<1>3. IsFiniteSet(A) /\ Cardinality(A) \in Nat
  BY <1>1, FS_Subset, FS_CardinalityType
<1>4. IsFiniteSet(A \cup {e}) /\ Cardinality(A \cup {e}) <= Cardinality(A) + 1
  <2>1. /\ IsFiniteSet(A \cup {e})
        /\ e \in A \/ Cardinality(A \cup {e}) = Cardinality(A) + 1
    BY <1>3, FS_AddElement
  <2>2. ASSUME e \in A PROVE Cardinality(A \cup {e}) = Cardinality(A)
    <3>1. A \cup {e} = A
      BY <2>2
    <3> QED BY <3>1
  <2>3. CASE e \in A
    BY <1>3, <2>1, <2>2, <2>3
  <2>4. CASE Cardinality(A \cup {e}) = Cardinality(A) + 1
    BY <1>3, <2>1, <2>4
  <2> QED BY <2>1, <2>3, <2>4
<1>5. Cardinality(B) <= Cardinality(A \cup {e}) /\ Cardinality(B) \in Nat
      /\ Cardinality(A \cup {e}) \in Nat
  BY <1>1, <1>4, FS_Subset, FS_CardinalityType
<1> QED BY <1>2, <1>3, <1>4, <1>5

\* What a step leaves behind: the call has become k, and no other is under way.
LEMMA PaidStep ==
    ASSUME IInv, NEW t \in Tasks, \A u \in Tasks \ {t} : Idle(u), NEW k,
           task' = [task EXCEPT ![t] = k], Pays(k, ledger'),
           Paid(IF k.pc = "save" THEN ledger' \ {k.entry} ELSE ledger', snap')
    PROVE  PaidInv'
<1>1. task'[t] = k /\ \A u \in Tasks \ {t} : task'[u].pc = "idle"
  BY DEF IInv, CallsOK, Idle
<1>2. \A u \in Tasks : Pays(task'[u], ledger')
  BY <1>1 DEF Pays, Holds, Deciding
<1>3. Unsaved' = IF k.pc = "save" THEN {k.entry} ELSE {}
  BY <1>1 DEF Unsaved
<1>4. Paid(ledger' \ Unsaved', snap')
  <2>1. CASE k.pc = "save"
    BY <1>3, <2>1
  <2>2. CASE k.pc # "save"
    <3>1. ledger' \ Unsaved' = ledger'
      BY <1>3, <2>2
    <3> QED BY <2>2, <3>1
  <2> QED BY <2>1, <2>2
<1> QED BY <1>2, <1>4 DEF PaidInv

\* Before a call saves, the snapshots have paid for all the retries.
LEMMA PaidNow ==
    ASSUME PaidInv, NEW t \in Tasks, \A u \in Tasks \ {t} : Idle(u), task[t].pc # "save"
    PROVE  Paid(ledger, snap)
<1>1. Unsaved = {}
  BY DEF Unsaved, Idle
<1>2. ledger \ Unsaved = ledger
  BY <1>1
<1> QED BY <1>2 DEF PaidInv

\* A step after which no record is to be saved, and that has saved none.
LEMMA PaidWaits ==
    ASSUME IInv, PaidInv, NEW t \in Tasks, \A u \in Tasks \ {t} : Idle(u),
           task[t].pc # "save", UNCHANGED <<snap, ledger>>, NEW k,
           task' = [task EXCEPT ![t] = k], k.pc # "save", Pays(k, ledger)
    PROVE  PaidInv'
BY PaidNow, PaidStep

\* The record of the loop has paid for the retries of its run.
LEMMA RecPaid ==
    ASSUME IInv, Paid(ledger, snap), HasRecord
    PROVE  /\ Rec.run \in Runs /\ Rec \in RunStateRecord
           /\ Retried(ledger, Rec.run) <= Used(Rec.budget)
<1>1. /\ Rec = snap[last] /\ last \in Runs /\ Rec.run = last /\ Rec \in RunStateRecord
  BY RecFacts DEF IInv, RecOK
<1>2. snap[last] # NoRecord
  BY <1>1, Constants
<1> QED BY <1>1, <1>2 DEF Paid

\* The budget that an operation of the run r works with has paid for its retries.
LEMMA BasePaid ==
    ASSUME IInv, Paid(ledger, snap), NEW k, SerialOK(k, snap, last, ledger, mem, started),
           NEW r \in Runs, r = mem.active,
           NEW base, base = (IF HasRecord /\ Rec.run = r /\ Rec.budget # NoBudget
                             THEN Rec.budget ELSE Contract)
                     \/ base = (IF HasRecord /\ Rec.budget # NoBudget
                                THEN Rec.budget ELSE Contract)
    PROVE  /\ base \in Budgets /\ Retried(ledger, r) \in Nat
           /\ Retried(ledger, r) <= base.usedRetries
<1>1. base \in Budgets
  BY BudgetFacts, ContractFacts DEF IInv
<1>2. base.usedRetries \in Nat /\ Contract.usedRetries = 0
  BY <1>1 DEF Budgets, Contract
<1>3. IsFiniteSet(ledger) /\ Retried(ledger, r) \in Nat
  BY Types, RetriedNat
<1>4. CASE HasRecord /\ Rec.run = r
  <2>1. Retried(ledger, r) <= Used(Rec.budget)
    BY <1>4, RecPaid
  <2>2. CASE Rec.budget # NoBudget
    BY <1>1, <1>3, <1>4, <2>1, <2>2 DEF Used
  <2>3. CASE Rec.budget = NoBudget
    BY <1>1, <1>2, <1>3, <1>4, <2>1, <2>3 DEF Used
  <2> QED BY <2>2, <2>3
<1>5. CASE ~(HasRecord /\ Rec.run = r)
  <2>1. snap[r] = NoRecord
    BY <1>5, ActiveRec, Types, SeenFacts
  <2>2. Retried(ledger, r) <= 0
    BY <2>1 DEF Paid
  <2> QED BY <1>1, <1>2, <1>3, <2>2
<1> QED BY <1>1, <1>3, <1>4, <1>5

\* transition() accepts a decision that is not a retry.
LEMMA RequestPays ==
    ASSUME NEW k \in TaskRecord, NEW op, NEW e, NEW x, NEW q, q = Request(k, op, e, x),
           NEW L, e.name # "retry", Retried(L, x.run) <= Used(x.budget)
    PROVE  q.pc = "check" /\ q.op = op /\ q.entry = e /\ q.rec = x /\ Pays(q, L)
<1>1. q.pc = "check" /\ q.op = op /\ q.entry = e /\ q.rec = x
  BY DEF Request, TaskRecord
<1>2. Retried(L \cup {e}, x.run) = Retried(L, x.run)
  BY RetriedSame
<1> QED BY <1>1, <1>2 DEF Pays, Holds, Deciding

\* A record keeps its run and its budget when it is moved.
LEMMA ToBudget ==
    ASSUME NEW x \in RunStateRecord, NEW s
    PROVE  /\ To(x, s).run = x.run /\ To(x, s).budget = x.budget
           /\ Answered(x, s).run = x.run /\ Answered(x, s).budget = x.budget
BY DEF To, Answered, RunStateRecord

\* A call that holds nothing owes nothing.
LEMMA EmptyPays ==
    ASSUME NEW k, ~Holds(k), NEW L
    PROVE  Pays(k, L)
BY DEF Pays, Holds

\* A call goes on without saving anything.
LEMMA PaidMoves ==
    ASSUME IInv, SerialInv, PaidInv, NEW t \in Tasks, ~Idle(t), task[t].pc # "save",
           UNCHANGED <<snap, ledger>>, NEW q, NEW m, Becomes(t, q, m),
           q.pc # "save", Pays(q, ledger)
    PROVE  PaidInv'
<1>1. \A u \in Tasks \ {t} : Idle(u)
  BY Under
<1>2. task' = [task EXCEPT ![t] = q]
  BY DEF Becomes, Become
<1> QED BY <1>1, <1>2, PaidWaits

\* The same for what an operation of the control plane comes to.
LEMMA PaidProceeds ==
    ASSUME IInv, SerialInv, PaidInv, NEW t \in Tasks, ~Idle(t), task[t].pc # "save",
           UNCHANGED <<snap, ledger>>, NEW q, Proceed(t, q, mem),
           q.pc # "save", Pays(q, ledger)
    PROVE  PaidInv'
<1>1. CASE q.pc = "thrown"
  <2>1. Becomes(t, IdleTask, Caught(mem, q)) /\ IdleTask.pc = "idle"
    BY <1>1 DEF Proceed, IdleTask
  <2>2. Pays(IdleTask, ledger)
    BY <2>1, EmptyPays DEF Holds, Deciding
  <2> QED BY <2>1, <2>2, PaidMoves
<1>2. CASE q.pc # "thrown"
  BY <1>2, PaidMoves DEF Proceed
<1> QED BY <1>1, <1>2

\* A step of the loop after which the call has no record in its hands.
LEMMA PlainPaid ==
    ASSUME IInv, SerialInv, PaidInv, NEW t \in Tasks,
           EndTurn(t) \/ WriteCheckpoint(t) \/ Drive(t) \/ ContinueRun(t)
    PROVE  PaidInv'
<1>1. /\ task[t] \in TaskRecord /\ ~Idle(t) /\ task[t].pc # "save"
      /\ UNCHANGED <<snap, ledger>>
  BY TaskFacts DEF EndTurn, WriteCheckpoint, Drive, ContinueRun, Idle
<1>2. \E q, m : Becomes(t, q, m) /\ q.pc \in {"idle", "verify", "drive", "advance", "begin",
                                             "merge"}
  <2>1. IdleTask.pc = "idle"
    BY DEF IdleTask
  <2>2. CASE EndTurn(t)
    BY <1>1, <2>1, <2>2 DEF EndTurn, TaskRecord
  <2>3. CASE WriteCheckpoint(t)
    BY <1>1, <2>1, <2>3 DEF WriteCheckpoint, TaskRecord
  <2>4. CASE Drive(t)
    <3> DEFINE k == [task[t] EXCEPT !.status = "none"]
               a == [k EXCEPT !.pc = "advance"]
               b == [k EXCEPT !.pc = "begin"]
    <3>1. a.pc = "advance" /\ b.pc = "begin"
      BY <1>1 DEF TaskRecord
    <3>2. \E m : Becomes(t, a, m) \/ Becomes(t, b, m) \/ Becomes(t, IdleTask, m)
      BY <2>4 DEF Drive
    <3> HIDE DEF a, b
    <3> QED BY <2>1, <3>1, <3>2
  <2>5. CASE ContinueRun(t)
    <3>1. ASSUME NEW c, NEW ctx, NEW m, ContinueIn(t, c, ctx, m)
          PROVE  \E q, n : Becomes(t, q, n) /\ q.pc \in {"begin", "merge"}
      <4> DEFINE k == [task[t] EXCEPT !.ctx = c, !.from = "continue", !.status = "none"]
                 a == [k EXCEPT !.pc = "merge", !.op = "none"]
                 b == [k EXCEPT !.pc = "begin", !.op = "none"]
      <4>1. a.pc = "merge" /\ b.pc = "begin"
        BY <1>1 DEF TaskRecord
      <4>2. \E n : Becomes(t, a, n) \/ Becomes(t, b, n)
        BY <3>1 DEF ContinueIn
      <4> HIDE DEF a, b
      <4> QED BY <4>1, <4>2
    <3> QED BY <2>1, <2>5, <3>1 DEF ContinueRun
  <2> QED BY <2>2, <2>3, <2>4, <2>5
<1>3. PICK q, m : Becomes(t, q, m) /\ q.pc \in {"idle", "verify", "drive", "advance",
                                               "begin", "merge"}
  BY <1>2
<1>4. Pays(q, ledger)
  BY <1>3, EmptyPays DEF Holds, Deciding
<1> QED BY <1>1, <1>3, <1>4, PaidMoves

\* A run is triggered.
LEMMA StartRunPaid ==
    ASSUME Serial, IInv, SerialInv, PaidInv, NEW t \in Tasks, NEW r \in Runs, StartRun(t, r)
    PROVE  PaidInv'
<1> DEFINE q == [IdleTask EXCEPT !.pc = "setup", !.run = r, !.ctx = NewContext, !.from = "start"]
<1>1. /\ Free(t) /\ task' = [task EXCEPT ![t] = q] /\ UNCHANGED <<snap, ledger>>
  BY DEF StartRun, Becomes, Become
<1>2. q.pc = "setup"
  BY DEF IdleTask
<1>3. Pays(q, ledger)
  BY <1>2, EmptyPays DEF Holds, Deciding
<1>4. \A u \in Tasks : task[u].pc = "idle"
  BY <1>1, AtRest DEF Quiet, Idle
<1> HIDE DEF q
<1> QED BY <1>1, <1>2, <1>3, <1>4, PaidWaits DEF Idle

\* applyJudgment() pays for the retry that it decides on.
LEMMA JudgmentPays ==
    ASSUME IInv, Paid(ledger, snap), NEW h, SerialOK(h, snap, last, ledger, mem, started),
           NEW k \in TaskRecord, k.run \in Runs, k.run = mem.active, k.pc \in {"setup", "verify"},
           NEW op \in {"judge", "gate"}, NEW turn \in Nat,
           NEW j \in {"crashed", "passed", "failed", "blocked", "merge"},
           op = "gate" => j = "blocked", NEW b \in Blockers, NEW cost \in BOOLEAN
    PROVE  LET q == ApplyJudgment(k, op, turn, j, b, cost)
           IN  q.pc # "save" /\ Pays(q, ledger)
<1> DEFINE own  == HasRecord /\ Rec.run = k.run
           base == IF own /\ Rec.budget # NoBudget THEN Rec.budget ELSE Contract
           bt   == Charged(base, turn, cost)
           kind == DecideControl(j, bt)
           asks == kind = "needs_human"
           to   == IF asks /\ RepeatedBlockerCount(k.run, b) > MaxSameFailure
                   THEN "failed" ELSE kind
           old  == IF own THEN Rec ELSE Seed(k.run, turn, base)
           jb   == JudgedBudget(bt, kind)
           pend == IF to = "needs_human" THEN "approval" ELSE "none"
           new  == [To(old, to) EXCEPT !.turn = turn, !.budget = jb, !.pending = pend]
           blk  == IF asks THEN b ELSE NoBlocker
           e    == [Entry(k.run, turn, kind, to) EXCEPT !.blocker = blk]
           n    == Retried(ledger, k.run)
           q    == ApplyJudgment(k, op, turn, j, b, cost)
<1>1. base \in Budgets /\ n \in Nat /\ n <= base.usedRetries
  <2>1. base = (IF HasRecord /\ Rec.run = k.run /\ Rec.budget # NoBudget
                THEN Rec.budget ELSE Contract)
    OBVIOUS
  <2> HIDE DEF base
  <2> QED BY <2>1, BasePaid
<1>2. own => Rec \in RunStateRecord
  BY RecFacts DEF IInv, RecOK
<1>3. \/ q = [k EXCEPT !.pc = "judged", !.op = op, !.status = Rec.state]
      \/ q = Request(k, op, e, new)
      \/ q = Thrown(k)
  BY DEF ApplyJudgment
<1> HIDE DEF base, q
<1>4. bt \in Budgets /\ bt.usedRetries = base.usedRetries
  BY <1>1, ChargedFacts
<1> HIDE DEF bt
<1>5. /\ jb \in Budgets
      /\ jb.usedRetries = IF kind = "retry" THEN bt.usedRetries + 1 ELSE bt.usedRetries
  BY <1>4, DecideFacts
<1>6. op = "gate" => kind # "retry"
  BY DEF DecideControl
<1>7. old.run = k.run
  BY DEF Seed
<1>8. old \in RunStateRecord
  <2>1. Seed(k.run, turn, base) \in RunStateRecord
    BY <1>1, SeedFacts DEF RecOK
  <2> QED BY <1>2, <2>1
<1> HIDE DEF jb, kind, old, to, pend
<1>9. new.run = k.run /\ new.budget = jb
  BY <1>7, <1>8 DEF To, RunStateRecord
<1>10. e.run = k.run /\ e.name = kind
  BY DEF Entry
<1> HIDE DEF new, e
<1>11. Retried(ledger \cup {e}, k.run) <= Used(jb)
  <2>1. Used(jb) = jb.usedRetries
    BY <1>5, NoBudgetAssumption DEF Used
  <2>2. IsFiniteSet(ledger) /\ base.usedRetries \in Nat
    BY <1>1, Types DEF Budgets
  <2>3. CASE kind = "retry"
    <3>1. Retried(ledger \cup {e}, k.run) <= n + 1
      BY <2>2, RetriedMore
    <3>2. Retried(ledger \cup {e}, k.run) \in Nat
      BY <2>2, FS_AddElement, RetriedNat
    <3> QED BY <1>1, <1>4, <1>5, <2>1, <2>2, <2>3, <3>1, <3>2
  <2>4. CASE kind # "retry"
    <3>1. Retried(ledger \cup {e}, k.run) = n
      BY <1>10, <2>4, RetriedSame
    <3> QED BY <1>1, <1>4, <1>5, <2>1, <2>2, <2>4, <3>1
  <2> QED BY <2>3, <2>4
<1>12. CASE q = Request(k, op, e, new)
  <2>1. q.pc = "check" /\ q.op = op /\ q.entry = e /\ q.rec = new
    BY <1>12 DEF Request, TaskRecord
  <2> QED BY <1>6, <1>9, <1>10, <1>11, <2>1 DEF Pays, Holds, Deciding, q
<1>13. CASE q # Request(k, op, e, new)
  <2>1. q.pc \in {"judged", "thrown"}
    BY <1>3, <1>13 DEF Thrown, TaskRecord
  <2> QED BY <2>1, EmptyPays DEF Holds, Deciding, q
<1> QED BY <1>12, <1>13

\* A run is set up, and may stop at the gate of its contract.
LEMMA SetUpPaid ==
    ASSUME IInv, SerialInv, PaidInv, NEW t \in Tasks, SetUp(t)
    PROVE  PaidInv'
<1> DEFINE k == task[t]
           q == [k EXCEPT !.pc = "turn", !.from = "loop"]
<1>1. /\ k.pc = "setup" /\ UNCHANGED <<snap, ledger>>
      /\ \/ Becomes(t, q, EnterLoop(mem, k))
         \/ \E b \in Blockers : Proceed(t, ApplyJudgment(k, "gate", 0, "blocked", b, FALSE), mem)
  BY DEF SetUp
<1>2. /\ k \in TaskRecord /\ k.run \in Runs /\ ~Idle(t) /\ k.pc # "save"
      /\ SerialOK(k, snap, last, ledger, mem, started) /\ WorkOK(k, snap, ledger, mem)
  BY <1>1, Working1 DEF InLoop, Deciding
<1>3. k.run = mem.active
  BY <1>1, <1>2 DEF WorkOK
<1>4. CASE Becomes(t, q, EnterLoop(mem, k))
  <2>1. q.pc = "turn"
    BY <1>2 DEF TaskRecord
  <2> HIDE DEF q
  <2>2. Pays(q, ledger)
    BY <2>1, EmptyPays DEF Holds, Deciding
  <2> QED BY <1>1, <1>2, <1>4, <2>1, <2>2, PaidMoves
<1>5. ASSUME NEW b \in Blockers,
             Proceed(t, ApplyJudgment(k, "gate", 0, "blocked", b, FALSE), mem)
      PROVE  PaidInv'
  <2> DEFINE g == ApplyJudgment(k, "gate", 0, "blocked", b, FALSE)
  <2>1. \A u \in Tasks \ {t} : Idle(u)
    BY <1>2, Under
  <2>2. Paid(ledger, snap)
    BY <1>2, <2>1, PaidNow
  <2>3. g.pc # "save" /\ Pays(g, ledger)
    BY <1>1, <1>2, <1>3, <2>2, JudgmentPays
  <2>4. Proceed(t, g, mem)
    BY <1>5
  <2> HIDE DEF g
  <2> QED BY <1>1, <1>2, <2>3, <2>4, PaidProceeds
<1> QED BY <1>1, <1>4, <1>5

\* A turn is judged.
LEMMA JudgePaid ==
    ASSUME IInv, SerialInv, PaidInv, NEW t \in Tasks, Judge(t)
    PROVE  PaidInv'
<1> DEFINE k == [task[t] EXCEPT !.killed = FALSE]
           q == [k EXCEPT !.pc = "handoff", !.status = "advance"]
<1>1. /\ task[t].pc = "verify" /\ UNCHANGED <<snap, ledger>>
      /\ \E j \in Verdicts(task[t]) :
            IF j = "advance" THEN Becomes(t, q, mem)
            ELSE \E b \in Blockers, cost \in Costs :
                    Proceed(t, ApplyJudgment(k, "judge", Turn(k), j, b, cost), mem)
  <2>1. k.pc = task[t].pc
    BY TaskFacts DEF TaskRecord
  <2> QED BY <2>1 DEF Judge
<1>2. /\ task[t] \in TaskRecord /\ task[t].run \in Runs /\ task[t].ctx \in Contexts
      /\ ~Idle(t) /\ task[t].pc # "save"
      /\ SerialOK(task[t], snap, last, ledger, mem, started)
      /\ WorkOK(task[t], snap, ledger, mem) /\ mem.contexts[task[t].ctx] \in Turns
  BY <1>1, Working1 DEF InLoop, Deciding
<1>3. /\ k \in TaskRecord /\ k.run = task[t].run /\ k.ctx = task[t].ctx /\ k.pc = "verify"
  BY <1>1, <1>2 DEF TaskRecord
<1>4. k.run = mem.active /\ Turn(k) \in Nat
  BY <1>1, <1>2, <1>3 DEF WorkOK, Turn, Turns
<1>5. CASE Becomes(t, q, mem)
  <2>1. q.pc = "handoff"
    BY <1>3 DEF TaskRecord
  <2> HIDE DEF q
  <2>2. Pays(q, ledger)
    BY <2>1, EmptyPays DEF Holds, Deciding
  <2> QED BY <1>1, <1>2, <1>5, <2>1, <2>2, PaidMoves
<1>6. ASSUME NEW j \in Verdicts(task[t]) \ {"advance"}, NEW b \in Blockers, NEW cost \in Costs,
             Proceed(t, ApplyJudgment(k, "judge", Turn(k), j, b, cost), mem)
      PROVE  PaidInv'
  <2> DEFINE g == ApplyJudgment(k, "judge", Turn(k), j, b, cost)
  <2>1. j \in {"crashed", "passed", "failed", "blocked", "merge"} /\ cost \in BOOLEAN
    BY <1>6, CostsFacts DEF Verdicts
  <2>2. \A u \in Tasks \ {t} : Idle(u)
    BY <1>2, Under
  <2>3. Paid(ledger, snap)
    BY <1>2, <2>2, PaidNow
  <2>4. g.pc # "save" /\ Pays(g, ledger)
    <3> HIDE DEF k
    <3> QED BY <1>2, <1>3, <1>4, <2>1, <2>3, JudgmentPays
  <2>5. Proceed(t, g, mem)
    BY <1>6
  <2> HIDE DEF g
  <2> QED BY <1>1, <1>2, <2>4, <2>5, PaidProceeds
<1> HIDE DEF q, k
<1> QED BY <1>1, <1>5, <1>6

\* A run is failed by the dead loop detection.
LEMMA DetectDeadLoopPaid ==
    ASSUME IInv, SerialInv, PaidInv, NEW t \in Tasks, DetectDeadLoop(t)
    PROVE  PaidInv'
<1> DEFINE k    == task[t]
           dead == [k EXCEPT !.status = "failed"]
           on   == [dead EXCEPT !.pc = "handoff"]
           q    == [k EXCEPT !.pc = "handoff", !.op = "none"]
           g    == FailRun(dead, "deadloop", TRUE, on)
           e    == Entry(dead.run, Rec.turn, "restart-recovery-failed", "failed")
           y    == Answered(Rec, "failed")
<1>1. /\ k.pc = "judged" /\ UNCHANGED <<snap, ledger>>
      /\ Proceed(t, g, mem) \/ Proceed(t, q, mem)
  BY DEF DetectDeadLoop
<1>2. /\ k \in TaskRecord /\ k.run \in Runs /\ ~Idle(t) /\ k.pc # "save"
  BY <1>1, Working1 DEF InLoop, Deciding
<1>3. dead \in TaskRecord /\ on.pc = "handoff" /\ q.pc = "handoff"
  BY <1>2 DEF TaskRecord, RunState
<1>4. /\ g = on \/ g = Thrown(dead) \/ g = Request(dead, "deadloop", e, y)
      /\ g = Request(dead, "deadloop", e, y) \/ HasRecord \/ g = on
  BY DEF FailRun
<1>5. g = on \/ HasRecord
  BY DEF FailRun
<1>6. e.name = "restart-recovery-failed"
  BY DEF Entry
<1> HIDE DEF dead, on, q, g, e
<1>7. CASE Proceed(t, q, mem)
  <2>1. Pays(q, ledger)
    BY <1>3, EmptyPays DEF Holds, Deciding
  <2> QED BY <1>1, <1>2, <1>3, <1>7, <2>1, PaidProceeds
<1>8. CASE Proceed(t, g, mem)
  <2>1. CASE g = on \/ g = Thrown(dead)
    <3>1. g.pc \in {"handoff", "thrown"}
      BY <1>3, <2>1 DEF Thrown, TaskRecord
    <3>2. Pays(g, ledger)
      BY <3>1, EmptyPays DEF Holds, Deciding
    <3> QED BY <1>1, <1>2, <1>8, <3>1, <3>2, PaidProceeds
  <2>2. CASE g = Request(dead, "deadloop", e, y) /\ HasRecord
    <3>1. \A u \in Tasks \ {t} : Idle(u)
      BY <1>2, Under
    <3>2. Paid(ledger, snap)
      BY <1>2, <3>1, PaidNow
    <3>3. Rec \in RunStateRecord /\ Retried(ledger, Rec.run) <= Used(Rec.budget)
      BY <2>2, <3>2, RecPaid
    <3>4. y.run = Rec.run /\ y.budget = Rec.budget
      BY <3>3, ToBudget
    <3> HIDE DEF y
    <3>5. g.pc = "check" /\ Pays(g, ledger)
      BY <1>3, <1>6, <2>2, <3>3, <3>4, RequestPays
    <3> QED BY <1>1, <1>2, <1>8, <3>5, PaidProceeds
  <2> QED BY <1>4, <1>5, <2>1, <2>2
<1> QED BY <1>1, <1>7, <1>8

\* A subtask is advanced.
LEMMA AdvancePaid ==
    ASSUME IInv, SerialInv, PaidInv, NEW t \in Tasks, Advance(t)
    PROVE  PaidInv'
<1>0. PICK cost \in Costs :
        Proceed(t, AdvanceSubtaskTurn(task[t], Turn(task[t]) - 1, cost), mem)
  BY DEF Advance
<1> DEFINE k    == task[t]
           done == Turn(k) - 1
           base == IF HasRecord /\ Rec.budget # NoBudget THEN Rec.budget ELSE Contract
           b    == Charged(base, done, cost)
           old  == IF HasRecord THEN Rec ELSE Seed(k.run, done, b)
           over == done + 1 > b.maxTurns
           op   == IF over THEN "advance-over" ELSE "advance"
           turn == IF over THEN done ELSE done + 1
           e    == Entry(k.run, done, "subtask_advance", "active")
           y    == [old EXCEPT !.run = k.run, !.state = "active", !.budget = b, !.turn = turn]
           q    == AdvanceSubtaskTurn(k, done, cost)
<1>1. /\ k.pc = "advance" /\ UNCHANGED <<snap, ledger>> /\ Proceed(t, q, mem)
  BY <1>0 DEF Advance
<1>2. /\ k \in TaskRecord /\ k.run \in Runs /\ ~Idle(t) /\ k.pc # "save"
      /\ SerialOK(k, snap, last, ledger, mem, started)
      /\ WorkOK(k, snap, ledger, mem) /\ mem.contexts[k.ctx] \in Turns
  BY <1>1, Working1 DEF InLoop, Deciding
<1>3. k.run = mem.active /\ done \in Nat
  <2>1. k.run = mem.active /\ mem.contexts[k.ctx].turn >= 1
    BY <1>1, <1>2 DEF WorkOK
  <2> QED BY <1>2, <2>1 DEF Turn, Turns
<1>4. q = Request(k, op, e, y)
  BY DEF AdvanceSubtaskTurn
<1>5. Paid(ledger, snap)
  <2>1. \A u \in Tasks \ {t} : Idle(u)
    BY <1>2, Under
  <2> QED BY <1>2, <2>1, PaidNow
<1>6. /\ base \in Budgets /\ Retried(ledger, k.run) \in Nat
      /\ Retried(ledger, k.run) <= base.usedRetries
  <2>1. base = (IF HasRecord /\ Rec.budget # NoBudget THEN Rec.budget ELSE Contract)
    OBVIOUS
  <2> HIDE DEF base, done
  <2> QED BY <1>2, <1>3, <1>5, <2>1, BasePaid
<1> HIDE DEF base, q
<1>7. b \in Budgets /\ b.usedRetries = base.usedRetries
  <2> HIDE DEF done
  <2> QED BY <1>3, <1>6, CostsFacts, ChargedFacts
<1>8. old \in RunStateRecord
  <2>1. HasRecord => Rec \in RunStateRecord
    BY RecFacts DEF IInv, RecOK
  <2>2. Seed(k.run, done, b) \in RunStateRecord
    <3> HIDE DEF done, b
    <3> QED BY <1>2, <1>3, <1>7, SeedFacts DEF RecOK
  <2> QED BY <2>1, <2>2
<1> HIDE DEF b, old, over, op, turn, done
<1>9. y.run = k.run /\ y.budget = b
  BY <1>8 DEF RunStateRecord
<1>10. Retried(ledger, y.run) <= Used(y.budget)
  BY <1>6, <1>7, <1>9, NoBudgetAssumption DEF Used
<1>11. e.name # "retry"
  BY DEF Entry
<1> HIDE DEF e, y
<1>12. q.pc = "check" /\ Pays(q, ledger)
  BY <1>2, <1>4, <1>10, <1>11, RequestPays
<1> QED BY <1>1, <1>2, <1>12, PaidProceeds

\* beginTurn() of an active record, which has paid.
LEMMA BeginActivePays ==
    ASSUME NEW k \in TaskRecord, NEW x \in RunStateRecord, NEW turn \in Nat, NEW L,
           Retried(L, x.run) <= Used(x.budget)
    PROVE  BeginActive(k, x, turn).pc # "save" /\ Pays(BeginActive(k, x, turn), L)
<1> DEFINE q == BeginActive(k, x, turn)
<1>1. CASE ExhaustedAtTurnStart(x.budget)
  <2> DEFINE e == Entry(k.run, x.turn, "budget_limited", "budget_limited")
             y == To(x, "budget_limited")
  <2>1. q = Request(k, "begin-limit", e, y)
    BY <1>1 DEF BeginActive
  <2>2. y.run = x.run /\ y.budget = x.budget
    BY ToBudget
  <2>3. e.name # "retry"
    BY DEF Entry
  <2> HIDE DEF e, y, q
  <2>4. q.pc = "check" /\ Pays(q, L)
    BY <2>1, <2>2, <2>3, RequestPays
  <2> QED BY <2>4 DEF q
<1>2. CASE ~ExhaustedAtTurnStart(x.budget)
  <2> DEFINE y == [x EXCEPT !.turn = turn]
  <2>1. q = [k EXCEPT !.pc = "stamp", !.rec = y]
    BY <1>2 DEF BeginActive
  <2>2. y.run = x.run /\ y.budget = x.budget
    BY DEF RunStateRecord
  <2> HIDE DEF y
  <2>3. q.pc = "stamp" /\ q.rec = y
    BY <2>1 DEF TaskRecord
  <2> HIDE DEF q
  <2>4. Pays(q, L)
    BY <2>2, <2>3 DEF Pays, Deciding
  <2> QED BY <2>3, <2>4 DEF q
<1> QED BY <1>1, <1>2

\* The next turn begins.
LEMMA BeginPaid ==
    ASSUME IInv, SerialInv, PaidInv, NEW t \in Tasks, Begin(t)
    PROVE  PaidInv'
<1> DEFINE k == task[t]
           e == Entry(k.run, Rec.turn, "resumed-retry", "active")
           y == To(Rec, "active")
           q == BeginTurn(k, Turn(k))
<1>1. /\ k.pc = "begin" /\ UNCHANGED <<snap, ledger>> /\ Proceed(t, q, mem)
  BY DEF Begin
<1>2. /\ k \in TaskRecord /\ k.run \in Runs /\ ~Idle(t) /\ k.pc # "save"
      /\ mem.contexts[k.ctx] \in Turns
  BY <1>1, Working1 DEF InLoop, Deciding
<1>3. Turn(k) \in Nat
  BY <1>2 DEF Turn, Turns
<1>4. Paid(ledger, snap)
  <2>1. \A u \in Tasks \ {t} : Idle(u)
    BY <1>2, Under
  <2> QED BY <1>2, <2>1, PaidNow
<1>5. \/ q = Thrown(k)
      \/ HasRecord /\ q = Request(k, "begin-retry", e, y)
      \/ HasRecord /\ q = BeginActive(k, Rec, Turn(k))
  BY DEF BeginTurn
<1>6. HasRecord => Rec \in RunStateRecord /\ Retried(ledger, Rec.run) <= Used(Rec.budget)
  BY <1>4, RecPaid
<1>7. HasRecord => y.run = Rec.run /\ y.budget = Rec.budget
  BY <1>6, ToBudget
<1>8. e.name # "retry"
  BY DEF Entry
<1> HIDE DEF q, e, y
<1>9. q.pc # "save" /\ Pays(q, ledger)
  <2>1. CASE q = Thrown(k)
    <3>1. q.pc = "thrown"
      BY <1>2, <2>1 DEF Thrown, TaskRecord
    <3> QED BY <3>1, EmptyPays DEF Holds, Deciding
  <2>2. CASE HasRecord /\ q = Request(k, "begin-retry", e, y)
    BY <1>2, <1>6, <1>7, <1>8, <2>2, RequestPays
  <2>3. CASE HasRecord /\ q = BeginActive(k, Rec, Turn(k))
    BY <1>2, <1>3, <1>6, <2>3, BeginActivePays
  <2> QED BY <1>5, <2>1, <2>2, <2>3
<1> QED BY <1>1, <1>2, <1>9, PaidProceeds

\* A merge is settled.
LEMMA MergePaid ==
    ASSUME IInv, SerialInv, PaidInv, NEW t \in Tasks, Merge(t)
    PROVE  PaidInv'
<1> DEFINE k == task[t]
<1>1. PICK ok \in BOOLEAN : /\ k.pc = "merge" /\ UNCHANGED <<snap, ledger>>
                            /\ Proceed(t, SettleMerge(k, files.gates[k.run], ok), mem)
  BY DEF Merge
<1> DEFINE to == IF ok THEN "complete" ELSE "failed"
           e  == Entry(k.run, files.gates[k.run], to, to)
           y  == To(Rec, to)
           q  == SettleMerge(k, files.gates[k.run], ok)
<1>2. /\ k \in TaskRecord /\ ~Idle(t) /\ k.pc # "save"
  BY <1>1, Working1 DEF InLoop, Deciding
<1>3. Paid(ledger, snap)
  <2>1. \A u \in Tasks \ {t} : Idle(u)
    BY <1>2, Under
  <2> QED BY <1>2, <2>1, PaidNow
<1>4. q = Thrown(k) \/ (HasRecord /\ q = Request(k, "settle", e, y))
  BY DEF SettleMerge
<1>5. HasRecord => Rec \in RunStateRecord /\ Retried(ledger, Rec.run) <= Used(Rec.budget)
  BY <1>3, RecPaid
<1>6. HasRecord => y.run = Rec.run /\ y.budget = Rec.budget
  <2> HIDE DEF to
  <2> QED BY <1>5, ToBudget
<1>7. e.name # "retry" /\ Proceed(t, q, mem)
  BY <1>1 DEF Entry
<1> HIDE DEF q, e, y
<1>8. q.pc # "save" /\ Pays(q, ledger)
  <2>1. CASE q = Thrown(k)
    <3>1. q.pc = "thrown"
      BY <1>2, <2>1 DEF Thrown, TaskRecord
    <3> QED BY <3>1, EmptyPays DEF Holds, Deciding
  <2>2. CASE HasRecord /\ q = Request(k, "settle", e, y)
    BY <1>2, <1>5, <1>6, <1>7, <2>2, RequestPays
  <2> QED BY <1>4, <2>1, <2>2
<1> QED BY <1>1, <1>2, <1>7, <1>8, PaidProceeds

\* What is used is counted.
LEMMA UsedNat ==
    ASSUME NEW b \in Budgets \cup {NoBudget}
    PROVE  Used(b) \in Nat
BY DEF Used, Budgets

\* An operation of a person or a timer: the record that it prepares has used what
\* the loaded one has.
LEMMA CalledPaid ==
    ASSUME Serial, IInv, SerialInv, PaidInv, NEW t \in Tasks, NEW op, NEW r, NEW status,
           NEW e, NEW old, NEW x, Call(t, op, r, status, e, old, x), UNCHANGED <<snap, ledger>>,
           HasRecord, x.run = Rec.run, Used(x.budget) = Used(Rec.budget), e.name # "retry"
    PROVE  PaidInv'
<1> DEFINE q == Request([IdleTask EXCEPT !.run = r, !.status = status], op, e, x)
<1>1. /\ Free(t) /\ task' = [task EXCEPT ![t] = q]
  BY DEF Call
<1>2. /\ q.pc = "check" /\ q.entry = e /\ q.rec = x
  BY DEF Request, IdleTask
<1> HIDE DEF q
<1>3. \A u \in Tasks : task[u].pc = "idle"
  BY <1>1, AtRest DEF Quiet, Idle
<1>4. Paid(ledger, snap)
  BY <1>3, PaidNow DEF Idle
<1>5. Retried(ledger, Rec.run) <= Used(Rec.budget)
  BY <1>4, RecPaid
<1>6. Retried(ledger \cup {e}, x.run) = Retried(ledger, Rec.run)
  BY RetriedSame
<1>7. Pays(q, ledger)
  BY <1>2, <1>5, <1>6 DEF Pays, Holds, Deciding
<1> QED BY <1>1, <1>2, <1>3, <1>7, PaidWaits DEF Idle

\* What comes from outside.
LEMMA OperationPaid ==
    ASSUME Serial, IInv, SerialInv, PaidInv, NEW t \in Tasks, Operation(t)
    PROVE  PaidInv'
<1>1. UNCHANGED <<snap, ledger>>
  BY DEF Operation
<1>2. HasRecord => Rec \in RunStateRecord
  BY RecFacts DEF IInv, RecOK
<1>3. \/ \E paused \in BOOLEAN : PatchFlag(t, paused)
      \/ \E r \in Runs, a \in Decisions : SubmitDecision(t, r, a)
      \/ PatchPause(t) \/ PatchResume(t) \/ SupplementBudget(t)
      \/ AbandonRun(t) \/ RemindHuman(t)
  BY DEF Serial, Operation, DiscardAgain, DiscardRun
<1>4. ASSUME NEW paused \in BOOLEAN, PatchFlag(t, paused) PROVE PaidInv'
  <2>1. task' = task
    BY <1>4 DEF PatchFlag
  <2> QED BY <1>1, <2>1 DEF PaidInv, Unsaved
<1>5. ASSUME NEW r \in Runs, NEW a \in Decisions, SubmitDecision(t, r, a) PROVE PaidInv'
  <2> DEFINE to == DecisionTarget(a)
             e  == Entry(r, Rec.turn, DecisionName(a), to)
             x  == Answered(Rec, to)
  <2>1. HasRecord /\ Call(t, a, r, Rec.pending, e, Rec, x)
    BY <1>5 DEF SubmitDecision, IsWaiting
  <2>2. x.run = Rec.run /\ x.budget = Rec.budget
    <3> HIDE DEF to
    <3> QED BY <1>2, <2>1, ToBudget
  <2>3. e.name # "retry"
    BY DEF Entry, DecisionName, Decisions
  <2> HIDE DEF e, x
  <2> QED BY <1>1, <2>1, <2>2, <2>3, CalledPaid
<1>6. CASE PatchPause(t)
  <2> DEFINE e == Entry(Pausable.run, Pausable.turn, "paused", "paused")
             x == To(Pausable, "paused")
  <2>1. CanPause /\ Call(t, "patch_pause", Pausable.run, "none", e, Pausable, x)
    BY <1>6 DEF PatchPause
  <2>2. SerialOK(IdleTask, snap, last, ledger, mem, started)
    BY <2>1, AtRest DEF Call
  <2>3. mem.active # NoRun => HasRecord /\ Rec.run = mem.active
    <3>1. mem.active # NoRun => Seen(snap, mem.active) # "none"
      BY <2>2 DEF SerialOK, Rests, SuspendedOK, IdleTask, Over
    <3>2. mem.active \in Runs \cup {NoRun}
      BY Types
    <3> QED BY <2>2, <3>1, <3>2, ActiveRec
  <2>4. HasRecord /\ Rec.state = "active"
    BY <2>1, <2>3 DEF CanPause
  <2>5. Pausable = Rec
    BY <2>4 DEF Pausable
  <2>6. x.run = Rec.run /\ x.budget = Rec.budget
    BY <1>2, <2>4, <2>5, ToBudget
  <2>7. e.name # "retry"
    BY DEF Entry
  <2> HIDE DEF e, x
  <2> QED BY <1>1, <2>1, <2>4, <2>6, <2>7, CalledPaid
<1>7. CASE PatchResume(t)
  <2> DEFINE e == Entry(Rec.run, Rec.turn, "resumed-pause", "active")
             x == To(Rec, "active")
  <2>1. HasRecord /\ Call(t, "patch_resume", Rec.run, "none", e, Rec, x)
    BY <1>7 DEF PatchResume
  <2>2. x.run = Rec.run /\ x.budget = Rec.budget
    BY <1>2, <2>1, ToBudget
  <2>3. e.name # "retry"
    BY DEF Entry
  <2> HIDE DEF e, x
  <2> QED BY <1>1, <2>1, <2>2, <2>3, CalledPaid
<1>8. CASE SupplementBudget(t)
  <2> DEFINE e == Entry(Rec.run, Rec.turn, "resumed-budget", "active")
             y == To(Rec, "active")
  <2>1. PICK s \in Supplements :
           /\ HasRecord /\ Rec.budget # NoBudget
           /\ Call(t, "supplement", Rec.run, "none", e, Rec,
                   [y EXCEPT !.budget = Supplemented(@, s)])
    BY <1>8 DEF SupplementBudget
  <2> DEFINE b == Supplemented(Rec.budget, s)
             x == [y EXCEPT !.budget = Supplemented(@, s)]
  <2>2. y.run = Rec.run /\ y.budget = Rec.budget
    BY <1>2, <2>1, ToBudget
  <2>3. y \in RunStateRecord /\ Rec.budget \in Budgets
    BY <2>1, RecFacts, ToFacts DEF IInv, RecOK, RunState, RunStateRecord
  <2>4. b \in Budgets /\ b.usedRetries = Rec.budget.usedRetries
    BY <2>3, SupplementFacts
  <2> HIDE DEF y, e
  <2>5. x.run = Rec.run /\ x.budget = b
    BY <2>2, <2>3 DEF RunStateRecord
  <2>6. Used(x.budget) = Used(Rec.budget)
    BY <2>3, <2>4, <2>5, NoBudgetAssumption DEF Used
  <2>7. e.name # "retry"
    BY DEF Entry, e
  <2>8. Call(t, "supplement", Rec.run, "none", e, Rec, x)
    BY <2>1
  <2> HIDE DEF x
  <2> QED BY <1>1, <2>1, <2>5, <2>6, <2>7, <2>8, CalledPaid
<1>9. CASE AbandonRun(t)
  <2> DEFINE e == Entry(Rec.run, Rec.turn, "restart-recovery-failed", "failed")
             x == Answered(Rec, "failed")
  <2>1. HasRecord /\ Call(t, "fail", Rec.run, "none", e, Rec, x)
    BY <1>9 DEF AbandonRun
  <2>2. x.run = Rec.run /\ x.budget = Rec.budget
    BY <1>2, <2>1, ToBudget
  <2>3. e.name # "retry"
    BY DEF Entry
  <2> HIDE DEF e, x
  <2> QED BY <1>1, <2>1, <2>2, <2>3, CalledPaid
<1>10. CASE RemindHuman(t)
  <2> DEFINE x == [Rec EXCEPT !.reminded = TRUE]
             q == [IdleTask EXCEPT !.pc = "resave", !.run = Rec.run, !.rec = x]
  <2>1. HasRecord /\ Free(t) /\ task' = [task EXCEPT ![t] = q]
    BY <1>10 DEF RemindHuman
  <2>2. x.run = Rec.run /\ x.budget = Rec.budget
    BY <1>2, <2>1 DEF RunStateRecord
  <2> HIDE DEF x
  <2>3. q.pc = "resave" /\ q.rec = x
    BY DEF IdleTask
  <2> HIDE DEF q
  <2>4. \A u \in Tasks : task[u].pc = "idle"
    BY <2>1, AtRest DEF Quiet, Idle
  <2>5. Retried(ledger, Rec.run) <= Used(Rec.budget)
    BY <2>1, <2>4, PaidNow, RecPaid DEF Idle
  <2>6. Pays(q, ledger)
    BY <2>2, <2>3, <2>5 DEF Pays, Deciding
  <2> QED BY <1>1, <2>1, <2>3, <2>4, <2>6, PaidWaits DEF Idle
<1> QED BY <1>3, <1>4, <1>5, <1>6, <1>7, <1>8, <1>9, <1>10

\* What becomes of a call when its transition has returned.
LEMMA ReturnedTask ==
    ASSUME IInv, NEW t \in Tasks, task[t] \in TaskRecord, \A u \in Tasks \ {t} : Idle(u),
           NEW m, NEW rec, NEW idempotent, Returned(t, m, rec, idempotent),
           task[t].op # "begin-retry"
    PROVE  \E q : /\ task' = [task EXCEPT ![t] = q]
                  /\ q.pc \in {"idle", "judged", "turn", "handoff", "continue"}
<1> DEFINE k    == task[t]
           back == Settle(k)
           a == [back EXCEPT !.pc = "judged", !.status = k.entry.to]
           b == [back EXCEPT !.pc = "turn", !.from = "loop"]
           c == [back EXCEPT !.pc = "handoff"]
           d == [back EXCEPT !.pc = "continue", !.op = k.op]
           e == [back EXCEPT !.pc = "turn"]
<1>1. /\ a.pc = "judged" /\ b.pc = "turn" /\ c.pc = "handoff" /\ d.pc = "continue"
      /\ e.pc = "turn" /\ IdleTask.pc = "idle"
  BY DEF Settle, TaskRecord, IdleTask
<1>2. \/ \E n : \/ Becomes(t, a, n) \/ Becomes(t, b, n) \/ Becomes(t, c, n)
                \/ Becomes(t, d, n) \/ Becomes(t, e, n) \/ Becomes(t, IdleTask, n)
      \/ Become(Kill([task EXCEPT ![t] = IdleTask], k.run), m)
  BY DEF Returned
<1>3. Kill([task EXCEPT ![t] = IdleTask], k.run) = [task EXCEPT ![t] = IdleTask]
  BY KillNone DEF IInv, CallsOK
<1>4. \/ task' = [task EXCEPT ![t] = a] \/ task' = [task EXCEPT ![t] = b]
      \/ task' = [task EXCEPT ![t] = c] \/ task' = [task EXCEPT ![t] = d]
      \/ task' = [task EXCEPT ![t] = e] \/ task' = [task EXCEPT ![t] = IdleTask]
  BY <1>2, <1>3 DEF Becomes, Become
<1> HIDE DEF a, b, c, d, e
<1> QED BY <1>1, <1>4

\* The ledger has been read.
LEMMA ReadLedgerPaid ==
    ASSUME IInv, SerialInv, PaidInv, NEW t \in Tasks, ReadLedger(t)
    PROVE  PaidInv'
<1> DEFINE k == task[t]
<1>1. k.pc = "check" /\ UNCHANGED <<snap, ledger>>
  BY DEF ReadLedger
<1>2. k \in TaskRecord /\ ~Idle(t) /\ \A u \in Tasks \ {t} : Idle(u)
  BY <1>1, Under DEF Idle
<1>3. CASE ~Recorded(k.entry)
  <2> DEFINE q == [k EXCEPT !.pc = "append"]
  <2>1. Becomes(t, q, mem)
    BY <1>3 DEF ReadLedger
  <2>2. q.pc = "append" /\ q.entry = k.entry /\ q.rec = k.rec /\ q.op = k.op
    BY <1>2 DEF TaskRecord
  <2> HIDE DEF q
  <2>3. Pays(k, ledger)
    BY DEF PaidInv
  <2>4. Pays(q, ledger)
    BY <1>1, <2>2, <2>3 DEF Pays, Holds, Deciding
  <2> QED BY <1>1, <1>2, <2>1, <2>2, <2>4, PaidMoves
<1>4. CASE Recorded(k.entry)
  <2>1. k.op \in {"patch_pause", "patch_resume", "supplement", "begin-limit"}
    BY <1>1, <1>4, RecordedBefore
  <2>2. Returned(t, mem, Rec, TRUE)
    BY <1>4, <2>1 DEF ReadLedger
  <2>3. PICK q : /\ task' = [task EXCEPT ![t] = q]
                 /\ q.pc \in {"idle", "judged", "turn", "handoff", "continue"}
    BY <1>2, <2>1, <2>2, ReturnedTask
  <2>4. Pays(q, ledger)
    BY <2>3, EmptyPays DEF Holds, Deciding
  <2> QED BY <1>1, <1>2, <2>3, <2>4, PaidWaits
<1> QED BY <1>3, <1>4

\* The decision goes into the ledger.
LEMMA AppendEntryPaid ==
    ASSUME IInv, SerialInv, PaidInv, NEW t \in Tasks, AppendEntry(t)
    PROVE  PaidInv'
<1> DEFINE k == task[t]
           a == [k EXCEPT !.pc = "save"]
           l == LimitAdvance(k)
           q == IF k.op = "advance-over" THEN l ELSE a
<1>1. /\ k.pc = "append" /\ ledger' = ledger \cup {k.entry} /\ snap' = snap
      /\ task' = [task EXCEPT ![t] = q]
  BY DEF AppendEntry, Becomes, Become
<1>2. /\ k \in TaskRecord /\ ~Idle(t) /\ \A u \in Tasks \ {t} : Idle(u)
      /\ DecisionOK(k, snap, ledger, mem) /\ RecOK(k.rec)
  BY <1>1, DecidingNow, Under DEF Deciding
<1>3. Pays(k, ledger) /\ Paid(ledger, snap)
  BY <1>1, <1>2, PaidNow DEF PaidInv
<1>4. Retried(ledger', k.rec.run) <= Used(k.rec.budget)
  BY <1>1, <1>3 DEF Pays, Holds, Deciding
<1>5. CASE k.op # "advance-over"
  <2>1. a.pc = "save" /\ a.entry = k.entry /\ a.rec = k.rec /\ a.op = k.op
    BY <1>2 DEF TaskRecord
  <2>2. q = a
    BY <1>5
  <2> HIDE DEF a
  <2>3. ledger' \cup {k.entry} = ledger'
    BY <1>1
  <2>4. Pays(a, ledger')
    BY <1>1, <1>3, <1>4, <2>1, <2>3 DEF Pays, Holds, Deciding
  <2>5. Paid(ledger' \ {k.entry}, snap')
    <3> DEFINE L == ledger' \ {k.entry}
    <3>1. L \subseteq ledger /\ IsFiniteSet(ledger) /\ IsFiniteSet(L)
      BY <1>1, Types, FS_Subset
    <3> HIDE DEF L
    <3> SUFFICES ASSUME NEW r \in Runs
                 PROVE  Retried(L, r) <= IF snap[r] = NoRecord THEN 0 ELSE Used(snap[r].budget)
      BY <1>1 DEF Paid, L
    <3> DEFINE n == IF snap[r] = NoRecord THEN 0 ELSE Used(snap[r].budget)
    <3>2. n \in Nat
      BY Types, UsedNat DEF Snapshots, RunStateRecord
    <3>3. Retried(ledger, r) <= n
      BY <1>3 DEF Paid
    <3>4. Retried(L, r) <= Retried(ledger, r) /\ Retried(L, r) \in Nat
          /\ Retried(ledger, r) \in Nat
      BY <3>1, RetriedLess, RetriedNat
    <3> HIDE DEF n
    <3> QED BY <3>2, <3>3, <3>4 DEF n
  <2> QED BY <1>1, <1>2, <2>1, <2>2, <2>4, <2>5, PaidStep
<1>6. CASE k.op = "advance-over"
  <2> DEFINE e == Entry(k.run, k.rec.turn, "budget_limited", "budget_limited")
             y == To(k.rec, "budget_limited")
  <2>1. q = Request(k, "advance-limit", e, y)
    BY <1>6 DEF LimitAdvance
  <2>2. y.run = k.rec.run /\ y.budget = k.rec.budget
    BY <1>2, ToBudget DEF RecOK
  <2>3. e.name # "retry"
    BY DEF Entry
  <2> HIDE DEF e, y, q
  <2>4. Pays(q, ledger') /\ q.pc = "check"
    <3>1. Retried(ledger', y.run) <= Used(y.budget)
      BY <1>4, <2>2
    <3> HIDE DEF k
    <3> QED BY <1>2, <2>1, <2>3, <3>1, RequestPays
  <2>5. k.entry.name = "subtask_advance"
    BY <1>2, <1>6 DEF DecisionOK, AdvancingOK, AdvanceOps
  <2>6. \A r \in Runs : Retried(ledger', r) = Retried(ledger, r)
    BY <1>1, <2>5, RetriedSame
  <2>7. Paid(ledger', snap')
    BY <1>1, <1>3, <2>6 DEF Paid
  <2> QED BY <1>1, <1>2, <2>4, <2>7, PaidStep
<1> QED BY <1>5, <1>6

\* A record that has paid is saved.
LEMMA PaidSaved ==
    ASSUME IInv, NEW x \in RunStateRecord, Save(x), Retried(ledger, x.run) <= Used(x.budget),
           \A r \in Runs \ {x.run} :
              Retried(ledger, r) <= IF snap[r] = NoRecord THEN 0 ELSE Used(snap[r].budget)
    PROVE  Paid(ledger, snap')
<1>1. snap'[x.run] = x /\ x # NoRecord /\ \A r \in Runs \ {x.run} : snap'[r] = snap[r]
  BY SavedFacts, Constants
<1> QED BY <1>1 DEF Paid

\* A turn begins, or a person has been reminded.
LEMMA AgainPaid ==
    ASSUME IInv, SerialInv, PaidInv, NEW t \in Tasks, Stamp(t) \/ SaveReminder(t)
    PROVE  PaidInv'
<1> DEFINE k == task[t]
           q == [Settle(k) EXCEPT !.pc = "turn", !.from = "loop"]
<1>1. /\ k.pc \in {"stamp", "resave"} /\ Save(k.rec) /\ ledger' = ledger
      /\ task' = [task EXCEPT ![t] = q] \/ task' = [task EXCEPT ![t] = IdleTask]
  BY DEF Stamp, SaveReminder, Becomes, Become
<1>2. /\ k \in TaskRecord /\ k.rec \in RunStateRecord /\ \A u \in Tasks \ {t} : Idle(u)
  BY <1>1, Under DEF Idle, IInv, CallsOK, TaskOK, RecOK
<1>3. Paid(ledger, snap) /\ Pays(k, ledger)
  BY <1>1, <1>2, PaidNow DEF PaidInv
<1>4. Retried(ledger, k.rec.run) <= Used(k.rec.budget)
  BY <1>1, <1>3 DEF Pays, Holds, Deciding
<1>5. Paid(ledger, snap')
  BY <1>1, <1>2, <1>3, <1>4, PaidSaved DEF Paid
<1>6. q.pc = "turn" /\ IdleTask.pc = "idle"
  BY <1>2 DEF Settle, TaskRecord, IdleTask
<1> HIDE DEF q
<1>7. Pays(q, ledger') /\ Pays(IdleTask, ledger')
  BY <1>6, EmptyPays DEF Holds, Deciding
<1> QED BY <1>1, <1>2, <1>5, <1>6, <1>7, PaidStep

\* The record of a decision is saved.
LEMMA SaveRecordPaid ==
    ASSUME IInv, SerialInv, PaidInv, NEW t \in Tasks, SaveRecord(t)
    PROVE  PaidInv'
<1> DEFINE k == task[t]
           m == SavedMem(k)
<1>1. Saves(t) /\ Returned(t, m, k.rec, FALSE)
  BY DEF SaveRecord, Saves, SavedMem
<1>2. /\ k.pc = "save" /\ Save(k.rec) /\ ledger' = ledger
  BY <1>1 DEF Saves
<1>3. /\ k \in TaskRecord /\ k.run \in Runs /\ DecisionOK(k, snap, ledger, mem)
      /\ k.rec \in RunStateRecord /\ k.rec.run = k.run
      /\ k.op \in LoopOps => k.ctx \in Contexts /\ mem.contexts[k.ctx] \in Turns
  BY <1>1, SavingNow
<1>4. \A u \in Tasks \ {t} : Idle(u)
  BY <1>2, Under DEF Idle
<1>5. k.entry.run = k.run /\ k.entry \in ledger
  BY <1>2, <1>3 DEF DecisionOK
<1>6. Paid(ledger \ {k.entry}, snap) /\ Pays(k, ledger)
  <2>1. Unsaved = {k.entry}
    BY <1>2, <1>4 DEF Unsaved, Idle
  <2> QED BY <2>1 DEF PaidInv
<1>7. Retried(ledger, k.rec.run) <= Used(k.rec.budget)
  <2>1. ledger \cup {k.entry} = ledger
    BY <1>5
  <2> QED BY <1>2, <1>6, <2>1 DEF Pays, Holds, Deciding
<1>8. ASSUME NEW r \in Runs \ {k.rec.run}
      PROVE  Retried(ledger, r) <= IF snap[r] = NoRecord THEN 0 ELSE Used(snap[r].budget)
  <2>1. Retried(ledger \ {k.entry}, r) = Retried(ledger, r)
    BY <1>3, <1>5, RetriedSame
  <2> QED BY <1>6, <2>1 DEF Paid
<1>9. Paid(ledger, snap')
  BY <1>2, <1>3, <1>7, <1>8, PaidSaved
<1>10. CASE k.op # "begin-retry"
  <2>1. PICK q : /\ task' = [task EXCEPT ![t] = q]
                 /\ q.pc \in {"idle", "judged", "turn", "handoff", "continue"}
    <3> HIDE DEF m
    <3> QED BY <1>1, <1>3, <1>4, <1>10, ReturnedTask
  <2>2. Pays(q, ledger')
    BY <2>1, EmptyPays DEF Holds, Deciding
  <2> QED BY <1>2, <1>4, <1>9, <2>1, <2>2, PaidStep
<1>11. CASE k.op = "begin-retry"
  <2> DEFINE back == Settle(k)
             q    == BeginActive(back, k.rec, Turn(k))
             g    == IF k.rec.state = "active" THEN q ELSE Thrown(back)
  <2>1. Proceed(t, g, m)
    BY <1>1, <1>11 DEF Returned, Resumes, Decisions
  <2>2. back \in TaskRecord /\ Turn(k) \in Nat
    BY <1>3, <1>11 DEF Settle, TaskRecord, Turn, Turns, LoopOps, OpNames
  <2> HIDE DEF back
  <2>3. /\ g.pc # "save" /\ Pays(g, ledger)
        /\ Thrown(back).pc = "thrown"
    <3>1. q.pc # "save" /\ Pays(q, ledger)
      BY <1>3, <1>7, <2>2, BeginActivePays
    <3>2. Thrown(back).pc = "thrown"
      BY <2>2 DEF Thrown, TaskRecord
    <3>3. Pays(Thrown(back), ledger)
      BY <3>2, EmptyPays DEF Holds, Deciding
    <3> QED BY <3>1, <3>2, <3>3
  <2> HIDE DEF g
  <2>4. task' = [task EXCEPT ![t] = g] \/ task' = [task EXCEPT ![t] = IdleTask]
    BY <2>1 DEF Proceed, Becomes, Become
  <2>5. IdleTask.pc = "idle"
    BY DEF IdleTask
  <2>6. Pays(IdleTask, ledger)
    BY <2>5, EmptyPays DEF Holds, Deciding
  <2> QED BY <1>2, <1>4, <1>9, <2>3, <2>4, <2>5, <2>6, PaidStep
<1> QED BY <1>10, <1>11

\* Every step keeps the payments, and so does one that changes nothing.
LEMMA NextPaid ==
    ASSUME Serial, IInv, SerialInv, PaidInv, [Next]_vars
    PROVE  PaidInv'
<1>1. ASSUME NEW t \in Tasks, Step(t) PROVE PaidInv'
  <2>1. ~Recover(t)
    BY NeverRecovers DEF Recover
  <2> QED BY <1>1, <2>1, SetUpPaid, PlainPaid, JudgePaid, DetectDeadLoopPaid, AdvancePaid,
             BeginPaid, AgainPaid, MergePaid, ReadLedgerPaid, AppendEntryPaid,
             SaveRecordPaid DEF Step
<1>2. ~Crash
  BY DEF Serial, SerialInv, Crash
<1>3. \A t \in Tasks : ~Restart(t) /\ ~TurnThrows(t)
  BY AlwaysUp DEF Restart, TurnThrows, Serial
<1>4. CASE Next
  BY <1>1, <1>2, <1>3, <1>4, OperationPaid, StartRunPaid DEF Next
<1>5. CASE UNCHANGED vars
  BY <1>5 DEF vars, PaidInv, Unsaved
<1> QED BY <1>4, <1>5

\* At first there is nothing to pay for.
LEMMA InitPaid ==
    ASSUME Init
    PROVE  PaidInv
<1>1. \A t \in Tasks : task[t] = IdleTask
  BY DEF Init
<1>2. \A t \in Tasks : task[t].pc = "idle"
  BY <1>1 DEF IdleTask
<1>3. \A t \in Tasks : Pays(task[t], ledger)
  BY <1>2, EmptyPays DEF Holds, Deciding
<1>4. ledger \ Unsaved = {}
  BY DEF Init
<1>5. \A r : Retried({}, r) = 0
  <2> TAKE r
  <2>1. {e \in {} : e.run = r /\ e.name = "retry"} = {}
    OBVIOUS
  <2> QED BY <2>1, FS_EmptySet DEF Retried
<1>6. \A r \in Runs : snap[r] = NoRecord
  BY DEF Init
<1> QED BY <1>3, <1>4, <1>5, <1>6 DEF PaidInv, Paid

\* A run that is about to be retried has not been retried more often than its limit
\* allows, whatever limits a person has set in the meantime.
THEOREM RetriesArePaid == Serial => (Spec => []RetriesKept)
<1> SUFFICES ASSUME Serial PROVE Spec => []RetriesKept
  OBVIOUS
<1>1. IInv /\ SerialInv /\ PaidInv => RetriesKept
  <2> SUFFICES ASSUME IInv, SerialInv, PaidInv, NEW r \in Runs, Shown(r) = "retry"
      PROVE  snap[r].budget # NoBudget /\ RetriesOf(r) <= snap[r].budget.maxRetries
    BY DEF RetriesKept
  <2> DEFINE b == snap[r].budget
  <2>1. /\ snap[r] # NoRecord /\ Seen(snap, r) = "retry" /\ b \in Budgets
        /\ b.usedRetries <= b.maxRetries /\ b.usedRetries \in Nat /\ b.maxRetries \in Nat
    BY DEF Shown, Seen, IInv, PersistOK, RecordsOK, RecOK, Budgets
  <2>2. b # NoBudget /\ Used(b) = b.usedRetries
    BY <2>1, NoBudgetAssumption DEF Used
  <2>3. Retried(ledger \ Unsaved, r) <= b.usedRetries
    BY <2>1, <2>2 DEF PaidInv, Paid
  <2>4. Retried(ledger \ Unsaved, r) = Retried(ledger, r)
    <3>1. CASE \A t \in Tasks : task[t].pc # "save"
      <4>1. ledger \ Unsaved = ledger
        BY <3>1 DEF Unsaved
      <4> QED BY <4>1
    <3>2. ASSUME NEW t \in Tasks, task[t].pc = "save"
          PROVE  Retried(ledger \ Unsaved, r) = Retried(ledger, r)
      <4> DEFINE k == task[t]
      <4>1. DecisionOK(k, snap, ledger, mem) /\ \A u \in Tasks \ {t} : Idle(u)
        BY <3>2, DecidingNow, Under DEF Deciding
      <4>2. Unsaved = {k.entry}
        BY <3>2, <4>1 DEF Unsaved, Idle
      <4>3. k.entry.name = "retry" => k.op = "judge"
        BY <3>2 DEF PaidInv, Pays, Deciding
      <4>4. ~(k.entry.run = r /\ k.entry.name = "retry")
        BY <2>1, <4>1, <4>3 DEF DecisionOK, JudgeOK, Working
      <4> QED BY <4>2, <4>4, RetriedSame
    <3> QED BY <3>1, <3>2
  <2>5. Retried(ledger, r) = RetriesOf(r) /\ Retried(ledger, r) \in Nat
    BY Types, RetriedNat DEF Retried, RetriesOf
  <2> QED BY <2>1, <2>2, <2>3, <2>4, <2>5
<1>2. Init => PaidInv
  BY InitPaid
<1>3. IInv /\ SerialInv /\ PaidInv /\ [Next]_vars => PaidInv'
  BY NextPaid
<1>4. Spec => [](IInv /\ SerialInv)
  BY RunsAreSerial
<1> QED BY <1>1, <1>2, <1>3, <1>4, PTL DEF Spec

=============================================================================
