----------------------------- MODULE Supervisor -----------------------------
(***************************************************************************)
(* supervisor/Supervisor.ts with its ProcessPool and WorkerQueue: how      *)
(* calls to start, resume and message a session find, queue for, preempt   *)
(* and start worker processes, and how processes leave again.              *)
(*                                                                         *)
(* Every call is an async function, so the code between two of its awaits  *)
(* is one action and calls interleave at the awaits.  A call starts at     *)
(* most one process; the process has the name of its call.  A process is   *)
(* what SessionProcess models, seen from outside: working (in-turn,        *)
(* waiting-input or hold), idle or terminated.                             *)
(***************************************************************************)
EXTENDS Naturals, Sequences, FiniteSets, Queues

CONSTANTS
    Calls,         \* the calls of the session routes, each made once
    Sessions,      \* the session ids that providers report
    KindOf,        \* what a call is: startSession, resumeSession, ...
    SessionOf,     \* the session a call is about or, for a start, creates
    MaxWorkers,    \* maxWorkers, 0 for no limit
    MaxQueueSize,  \* maxQueueSize, 0 for no limit
    NoProcess      \* no process

Kinds == {"start", "resume", "send"}

ASSUME ConstantsAssumption ==
    /\ IsFiniteSet(Calls)
    /\ KindOf \in [Calls -> Kinds]
    /\ SessionOf \in [Calls -> Sessions]
    /\ MaxWorkers \in Nat
    /\ MaxQueueSize \in Nat
    /\ NoProcess \notin Calls
    /\ Sessions \cap Calls = {}

\* A new process is known by a random temporary id, here its own name, until
\* the provider's init message brings the real one.
Ids == Sessions \cup Calls

VARIABLES
    call,             \* where each call stands
    target,           \* the process a call toggles the thinking mode of
    workerQueue,      \* WorkerQueue.queue
    drained,          \* calls that a loop of processQueue() has taken over
    processes,        \* ProcessPool.processes
    sessionToProcess, \* sessionToProcess
    proc,             \* the state of each process
    sid               \* the session id of each process

vars == <<call, target, workerQueue, drained, processes, sessionToProcess,
          proc, sid>>

\* Awaits: setMaxThinkingTokens, the abort before a restart, the one of a
\* preemption, the provider's start, waitForSessionId.
Awaits == {"asking", "toggling", "restarting", "preempting", "starting", "naming"}

\* Answers to the caller.  "duplicate" is the queued position of another call.
Answers == {"served", "failed", "full", "duplicate", "cancelled"}

Phases == {"new", "queued"} \cup Awaits \cup Answers

ProcessStates == {"none", "working", "idle", "terminated"}

-----------------------------------------------------------------------------
IsAtCapacity(pool) == MaxWorkers > 0 /\ Cardinality(pool) >= MaxWorkers

QueueFull(q) == MaxQueueSize > 0 /\ Len(q) >= MaxQueueSize

\* What the shared steps below thread through a handler: the calls, the queue
\* and the calls in the hands of processQueue().
Work == [call |-> call, queue |-> workerQueue, drained |-> drained]

Phase(w, c, phase) == [w EXCEPT !.call[c] = phase]

Becomes(w) == call' = w.call /\ workerQueue' = w.queue /\ drained' = w.drained

\* Mutant of ProcessQueue: peek() in the place of dequeue().
ProcessQueuePeeks(pool, w) ==
    IF w.queue # <<>> /\ ~IsAtCapacity(pool)
    THEN LET c == Head(w.queue)
         IN  [Phase(w, c, "starting") EXCEPT !.drained = @ \cup {c}]
    ELSE w

\* processQueue() up to its await: take over the head of the queue if the pool
\* has room.  A start in flight is not in the pool yet.
ProcessQueue(pool, w) ==
    IF w.queue # <<>> /\ ~IsAtCapacity(pool)
    THEN LET c == Head(w.queue)
         IN  [Phase(w, c, "starting") EXCEPT !.queue = Tail(@),
                                             !.drained = @ \cup {c}]
    ELSE w

\* Mutant of Leave: only the current session id is deleted.
LeaveCurrentId(gone) ==
    /\ processes' = processes \ gone
    /\ sessionToProcess' = [s \in Ids |->
           IF \E p \in gone : s = sid[p] /\ sessionToProcess[s] = p
           THEN NoProcess ELSE sessionToProcess[s]]

\* The deletions of unregisterProcess(): the pool entries and every session id
\* that points to one of the processes.
Leave(gone) ==
    /\ processes' = processes \ gone
    /\ sessionToProcess' = [s \in Ids |->
           IF sessionToProcess[s] \in gone THEN NoProcess ELSE sessionToProcess[s]]

\* unregisterProcess() of p, as the last thing that a step does.
UnregisterProcess(p, w) ==
    IF p \in processes
    THEN Leave({p}) /\ Becomes(ProcessQueue(processes \ {p}, w))
    ELSE Becomes(w) /\ UNCHANGED <<processes, sessionToProcess>>

\* findPreemptable(): how long a worker has been idle is not modelled, any idle
\* worker may be the one that is past the threshold, or none is.
Preemptable(pool) == {p \in pool : proc[p] = "idle"}

\* The common tail of startSession, createSession and resumeSession, after the
\* processes in gone have left: start at once, preempt an idle worker, or
\* queue.  The abort of a preempted worker unregisters it, which lets the queue
\* have the free place first.
Admit(c, gone, w) ==
    LET pool == processes \ gone IN
    \/ /\ ~IsAtCapacity(pool)
       /\ Leave(gone)
       /\ Becomes(Phase(w, c, "starting"))
       /\ UNCHANGED proc
    \/ \E p \in Preemptable(pool) :
       /\ IsAtCapacity(pool)
       /\ proc' = [proc EXCEPT ![p] = "terminated"]
       /\ Leave(gone \cup {p})
       /\ Becomes(ProcessQueue(pool \ {p}, Phase(w, c, "preempting")))
    \/ /\ IsAtCapacity(pool)
       /\ Leave(gone)
       /\ Becomes(IF QueueFull(w.queue)
                  THEN Phase(w, c, "full")
                  ELSE [Phase(w, c, "queued") EXCEPT !.queue = Append(@, c)])
       /\ UNCHANGED proc

\* findBySessionId(): only requests of resumeSession carry a session id.
QueuedFor(q, s) ==
    \E i \in DOMAIN q : KindOf[q[i]] # "start" /\ SessionOf[q[i]] = s

\* resumeSession() from its check of the queue on.
AdmitResume(c, gone, w) ==
    IF QueuedFor(w.queue, SessionOf[c])
    THEN Leave(gone) /\ Becomes(Phase(w, c, "duplicate")) /\ UNCHANGED proc
    ELSE Admit(c, gone, w)

\* queueMessage() of a process that is not terminated.
Message(p) == proc' = [proc EXCEPT ![p] = "working"]

-----------------------------------------------------------------------------
Init ==
    /\ call = [c \in Calls |-> "new"]
    /\ target = [c \in Calls |-> NoProcess]
    /\ workerQueue = <<>>
    /\ drained = {}
    /\ processes = {}
    /\ sessionToProcess = [s \in Ids |-> NoProcess]
    /\ proc = [p \in Calls |-> "none"]
    /\ sid = [p \in Calls |-> p]

-----------------------------------------------------------------------------
(* The calls.                                                              *)

StartSession(c) ==
    /\ call[c] = "new" /\ KindOf[c] = "start"
    /\ Admit(c, {}, Work)
    /\ UNCHANGED <<target, sid>>

\* The process that a session id leads to: getProcessForSession().
ProcessFor(s) ==
    IF sessionToProcess[s] \in processes THEN sessionToProcess[s] ELSE NoProcess

\* The common part of resumeSession() and queueMessageToSession() for a process
\* that has not terminated: the thinking settings are the same, can be changed
\* in the running process, or need a restart.  asks is the await of the change.
UseProcess(c, p, asks) ==
    \/ /\ Message(p)
       /\ Becomes(Phase(Work, c, "served"))
       /\ UNCHANGED <<target, processes, sessionToProcess>>
    \/ /\ target' = [target EXCEPT ![c] = p]
       /\ Becomes(Phase(Work, c, asks))
       /\ UNCHANGED <<proc, processes, sessionToProcess>>
    \/ /\ proc' = [proc EXCEPT ![p] = "terminated"]
       /\ UnregisterProcess(p, Phase(Work, c, "restarting"))
       /\ UNCHANGED target

\* resumeSession() up to its first await.
Resume(c) ==
    LET p == ProcessFor(SessionOf[c]) IN
    CASE p = NoProcess ->
           AdmitResume(c, {}, Work) /\ UNCHANGED target
      [] p # NoProcess /\ proc[p] = "terminated" ->
           /\ AdmitResume(c, {p}, ProcessQueue(processes \ {p}, Work))
           /\ UNCHANGED target
      [] OTHER -> UseProcess(c, p, "toggling")

ResumeSession(c) ==
    /\ call[c] = "new" /\ KindOf[c] = "resume"
    /\ Resume(c)
    /\ UNCHANGED sid

\* queueMessageToSession() up to its first await: never starts a process for a
\* session that has none.
QueueMessageToSession(c) ==
    /\ call[c] = "new" /\ KindOf[c] = "send"
    /\ LET p == ProcessFor(SessionOf[c]) IN
       IF p # NoProcess /\ proc[p] # "terminated"
       THEN UseProcess(c, p, "asking")
       ELSE /\ Becomes(Phase(Work, c, "failed"))
            /\ UNCHANGED <<target, proc, processes, sessionToProcess>>
    /\ UNCHANGED sid

\* setMaxThinkingTokens() returned: the message goes to the process, whether
\* the pool still has it or not.  When the process has terminated,
\* queueMessageToSession() gives up and resumeSession() goes on.
Toggled(c) ==
    /\ call[c] \in {"asking", "toggling"}
    /\ LET p == target[c] IN
       IF proc[p] # "terminated"
       THEN /\ Message(p)
            /\ Becomes(Phase(Work, c, "served"))
            /\ UNCHANGED <<processes, sessionToProcess>>
       ELSE IF call[c] = "asking"
       THEN /\ Becomes(Phase(Work, c, "failed"))
            /\ UNCHANGED <<proc, processes, sessionToProcess>>
       ELSE AdmitResume(c, {}, Work)
    /\ target' = [target EXCEPT ![c] = NoProcess]
    /\ UNCHANGED sid

\* The abort before a restart returned.  queueMessageToSession() calls
\* resumeSession(), which looks for a process again; resumeSession() goes on.
Restarted(c) ==
    /\ call[c] = "restarting"
    /\ \/ KindOf[c] = "send" /\ Resume(c)
       \/ KindOf[c] = "resume" /\ AdmitResume(c, {}, Work) /\ UNCHANGED target
    /\ UNCHANGED sid

\* The abort of the preempted worker returned; the call starts its process
\* without looking at the pool again.
Preempted(c) ==
    /\ call[c] = "preempting"
    /\ Becomes(Phase(Work, c, "starting"))
    /\ UNCHANGED <<target, processes, sessionToProcess, proc, sid>>

\* Mutant of LoopOn: processQueue() starts one request and returns.
LoopOnce(c, pool, w) == Becomes([w EXCEPT !.drained = @ \ {c}])

\* The end of a call that processQueue() took over: its loop goes on.
LoopOn(c, pool, w) ==
    Becomes(IF c \in drained
            THEN ProcessQueue(pool, [w EXCEPT !.drained = @ \ {c}])
            ELSE w)

\* registerProcess(): last step of every start.
RegisterProcess(c, id) ==
    /\ processes' = processes \cup {c}
    /\ sessionToProcess' = [sessionToProcess EXCEPT ![id] = c]
    /\ LoopOn(c, processes \cup {c}, Phase(Work, c, "served"))

\* The provider's startSession() failed.
StartFails(c) ==
    /\ call[c] = "starting"
    /\ LoopOn(c, processes,
              Phase(Work, c, IF c \in drained THEN "cancelled" ELSE "failed"))
    /\ UNCHANGED <<target, processes, sessionToProcess, proc, sid>>

\* tempSessionId: the id that is resumed or else a random one.  The mutant has
\* no id for a new session.
NoTempId(c) == IF KindOf[c] = "start" THEN NoProcess ELSE SessionOf[c]

TempSessionId(c) == IF KindOf[c] = "start" THEN c ELSE SessionOf[c]

\* The provider's startSession() returned: create the process.  A resumed
\* session has its id and is registered at once, a new one waits for its id.
Started(c) ==
    /\ call[c] = "starting"
    /\ proc' = [proc EXCEPT ![c] = "working"]
    /\ sid' = [sid EXCEPT ![c] = TempSessionId(c)]
    /\ IF KindOf[c] = "start"
       THEN /\ Becomes(Phase(Work, c, "naming"))
            /\ UNCHANGED <<processes, sessionToProcess>>
       ELSE RegisterProcess(c, SessionOf[c])
    /\ UNCHANGED target

\* Mutant of Named: no timeout, the provider must send its init message.
NamedWithoutTimeout(c) ==
    /\ call[c] = "naming" /\ sid[c] # c
    /\ RegisterProcess(c, sid[c])
    /\ UNCHANGED <<target, proc, sid>>

\* waitForSessionId() returned, with the real id or after its timeout.
Named(c) ==
    /\ call[c] = "naming"
    /\ RegisterProcess(c, sid[c])
    /\ UNCHANGED <<target, proc, sid>>

CancelQueuedRequest(c) ==
    /\ call[c] = "queued"
    /\ Becomes([Phase(Work, c, "cancelled") EXCEPT !.queue = Without(@, c)])
    /\ UNCHANGED <<target, processes, sessionToProcess, proc, sid>>

-----------------------------------------------------------------------------
(* The processes.                                                          *)

\* Mutant of SessionIdChanged: the Supervisor does not learn of the new id.
SessionIdUnmapped(p) ==
    /\ proc[p] \in {"working", "idle"} /\ sid[p] = p
    /\ sid' = [sid EXCEPT ![p] = SessionOf[p]]
    /\ UNCHANGED <<call, target, workerQueue, drained, processes,
                   sessionToProcess, proc>>

\* The init message arrives; the Supervisor maps the new id too and keeps the
\* temporary one.
SessionIdChanged(p) ==
    /\ proc[p] \in {"working", "idle"} /\ sid[p] = p
    /\ sid' = [sid EXCEPT ![p] = SessionOf[p]]
    /\ sessionToProcess' =
         IF p \in processes
         THEN [sessionToProcess EXCEPT ![SessionOf[p]] = p]
         ELSE sessionToProcess
    /\ UNCHANGED <<call, target, workerQueue, drained, processes, proc>>

TurnEnds(p) ==
    /\ proc[p] = "working"
    /\ proc' = [proc EXCEPT ![p] = "idle"]
    /\ UNCHANGED <<call, target, workerQueue, drained, processes,
                   sessionToProcess, sid>>

\* Mutant of Terminates: "complete" is not emitted.
TerminatesSilently(p) ==
    /\ proc[p] \in {"working", "idle"}
    /\ proc' = [proc EXCEPT ![p] = "terminated"]
    /\ UNCHANGED <<call, target, workerQueue, drained, processes,
                   sessionToProcess, sid>>

\* markTerminated(), by the death of the agent or by terminateStaleProcesses():
\* "complete" reaches the Supervisor only if it has subscribed.
Terminates(p) ==
    /\ proc[p] \in {"working", "idle"}
    /\ proc' = [proc EXCEPT ![p] = "terminated"]
    /\ UnregisterProcess(p, Work)
    /\ UNCHANGED <<target, sid>>

\* The idle timer emits "complete" without terminating the process.
IdleCompletes(p) ==
    /\ proc[p] = "idle" /\ p \in processes
    /\ UnregisterProcess(p, Work)
    /\ UNCHANGED <<target, proc, sid>>

\* abortProcess(): also of a process that has terminated already.
AbortProcess(p) ==
    /\ p \in processes
    /\ proc' = [proc EXCEPT ![p] = "terminated"]
    /\ UnregisterProcess(p, Work)
    /\ UNCHANGED <<target, sid>>

-----------------------------------------------------------------------------
Next ==
    \E c \in Calls :
       \/ StartSession(c) \/ ResumeSession(c) \/ QueueMessageToSession(c)
       \/ Toggled(c) \/ Restarted(c) \/ Preempted(c)
       \/ StartFails(c) \/ Started(c) \/ Named(c)
       \/ CancelQueuedRequest(c)
       \/ SessionIdChanged(c) \/ TurnEnds(c) \/ Terminates(c)
       \/ IdleCompletes(c) \/ AbortProcess(c)

Spec == Init /\ [][Next]_vars

\* Every await settles: aborts and waitForSessionId have timeouts, providers
\* answer.  Nothing is assumed of the users, the agents or the idle timers.
Fairness ==
    \A c \in Calls :
        /\ WF_vars(Toggled(c)) /\ WF_vars(Restarted(c))
        /\ WF_vars(Preempted(c))
        /\ WF_vars(StartFails(c) \/ Started(c)) /\ WF_vars(Named(c))

FairSpec == Spec /\ Fairness

-----------------------------------------------------------------------------
(* Properties.                                                             *)

TypeOK ==
    /\ call \in [Calls -> Phases]
    /\ target \in [Calls -> Calls \cup {NoProcess}]
    /\ workerQueue \in Seq(Calls)
    /\ drained \subseteq Calls
    /\ processes \subseteq Calls
    /\ sessionToProcess \in [Ids -> Calls \cup {NoProcess}]
    /\ proc \in [Calls -> ProcessStates]
    /\ sid \in [Calls -> Ids]

\* A session id leads to no process that the pool has let go, whichever of
\* preemption, abort, restart, staleness and idle timeout removed it.
MappingsLeadToPool ==
    \A s \in Ids : sessionToProcess[s] # NoProcess => sessionToProcess[s] \in processes

\* A worker in the pool can be found by its session id.  The exception is a
\* worker of a session for which another one was started in the meantime.
WorkersAreFound ==
    \A p \in processes :
        \/ sessionToProcess[sid[p]] = p
        \/ \E q \in Calls \ {p} : sid[q] = sid[p]

\* No wake-up of processQueue() is lost: requests wait only while the pool is
\* full or a loop of processQueue() will look at the queue again.
QueueWaitsForWorker ==
    workerQueue # <<>> => IsAtCapacity(processes) \/ drained # {}

\* The queue holds exactly the calls that were told to wait, each once, and a
\* call that processQueue() took over is being started.
QueueIsExact ==
    /\ Elements(workerQueue) = {c \in Calls : call[c] = "queued"}
    /\ Distinct(workerQueue)
    /\ \A c \in drained : call[c] \in {"starting", "naming"}

\* A terminated process is out of the pool at once, unless startSession() made
\* it: such a process may terminate while its start still waits for its session
\* id, when nobody is subscribed yet, and stays in the pool.
DeadWorkersWereNew ==
    \A p \in processes : proc[p] = "terminated" => KindOf[p] = "start"

\* Every call is answered: with a result or with a place in the queue.
CallsAreAnswered ==
    \A c \in Calls : call[c] \in Awaits ~> call[c] \in Answers \cup {"queued"}

\* What maxWorkers promises: at most so many processes at the same time.
MaxWorkersKept ==
    MaxWorkers > 0 => Cardinality(processes) <= MaxWorkers

\* What the check at the top of resumeSession() is for: a session has one
\* process in the pool.
OneProcessPerSession ==
    \A p, q \in processes : sid[p] = sid[q] => p = q

\* What findBySessionId() is for: a message for a session that is already
\* queued is not dropped.
QueuedMessagesKept == \A c \in Calls : call[c] # "duplicate"
=============================================================================
