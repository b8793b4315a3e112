-------------------------- MODULE Supervisor_proofs --------------------------
(***************************************************************************)
(* Proofs about Supervisor, for any number of calls of any kind, any       *)
(* sessions and any limits of the pool and of the queue.                   *)
(***************************************************************************)
EXTENDS Supervisor, Queues_proofs, FiniteSetTheorems, TLAPS

-----------------------------------------------------------------------------
(* The inductive invariant.                                                *)

\* A process lives from the moment its start returned: while its call waits for
\* the session id and, served, in the pool or after it.
Lives ==
    /\ \A c \in Calls : proc[c] # "none" => call[c] \in {"naming", "served"}
    /\ \A c \in Calls : call[c] = "naming" => proc[c] # "none" /\ KindOf[c] = "start"
    /\ \A p \in processes : call[p] = "served" /\ proc[p] # "none"

\* A call toggles the thinking mode of a process that was once started.
TogglesProcess ==
    \A c \in Calls :
        call[c] \in {"asking", "toggling"} => target[c] \in Calls /\ proc[target[c]] # "none"

\* A process has its temporary id or the id of its session.
IdsKnown ==
    \A p \in Calls :
        /\ sid[p] \in {p, SessionOf[p]}
        /\ proc[p] = "none" => sid[p] = p

IInv ==
    /\ TypeOK
    /\ QueueIsExact
    /\ QueueWaitsForWorker
    /\ MappingsLeadToPool
    /\ WorkersAreFound
    /\ DeadWorkersWereNew
    /\ Lives
    /\ TogglesProcess
    /\ IdsKnown

-----------------------------------------------------------------------------
(* The calls, the queue and the calls in the hands of processQueue(), as   *)
(* the handlers thread them from step to step.                             *)

\* A consistent record of them.
WorkOK(w) ==
    /\ w \in [call : [Calls -> Phases], queue : Seq(Calls), drained : SUBSET Calls]
    /\ Distinct(w.queue)
    /\ Elements(w.queue) = {c \in Calls : w.call[c] = "queued"}
    /\ \A c \in w.drained : w.call[c] \in {"starting", "naming"}

\* QueueWaitsForWorker for such a record and a pool.
Waits(pool, w) == w.queue # <<>> => IsAtCapacity(pool) \/ w.drained # {}

\* Only queued calls move, and only to their start.
OnlyStarts(w, v) ==
    \A c \in Calls : \/ v.call[c] = w.call[c]
                     \/ w.call[c] = "queued" /\ v.call[c] = "starting"

\* The state's own record is consistent.
LEMMA WorkIsOK == IInv => WorkOK(Work) /\ Waits(processes, Work)
<1> SUFFICES ASSUME IInv PROVE WorkOK(Work) /\ Waits(processes, Work)
  OBVIOUS
<1>1. Work \in [call : [Calls -> Phases], queue : Seq(Calls), drained : SUBSET Calls]
  BY DEF IInv, TypeOK, Work
<1>2. Work.call = call /\ Work.queue = workerQueue /\ Work.drained = drained
  BY DEF Work
<1> QED
  BY <1>1, <1>2 DEF IInv, QueueIsExact, QueueWaitsForWorker, WorkOK, Waits

\* processQueue() keeps the record consistent, moves at most the head of the
\* queue to its start, and leaves nothing waiting that could go on.
LEMMA ProcessQueueFacts ==
    ASSUME NEW w, WorkOK(w), NEW pool
    PROVE  LET v == ProcessQueue(pool, w)
           IN  WorkOK(v) /\ Waits(pool, v) /\ OnlyStarts(w, v)
<1> DEFINE v == ProcessQueue(pool, w)
<1>1. CASE ~(w.queue # <<>> /\ ~IsAtCapacity(pool))
  BY <1>1 DEF ProcessQueue, Waits, OnlyStarts
<1>2. CASE w.queue # <<>> /\ ~IsAtCapacity(pool)
  <2> DEFINE c == Head(w.queue)
  <2>1. /\ w.queue \in Seq(Calls) /\ w.call \in [Calls -> Phases]
        /\ w.drained \subseteq Calls
    BY DEF WorkOK
  <2>2. /\ c \in Calls /\ Tail(w.queue) \in Seq(Calls)
        /\ Distinct(Tail(w.queue))
        /\ Elements(Tail(w.queue)) = Elements(w.queue) \ {c}
        /\ c \in Elements(w.queue)
    BY <1>2, <2>1, HeadTailFacts DEF WorkOK
  <2>3. w.call[c] = "queued"
    BY <2>2 DEF WorkOK
  <2> HIDE DEF c
  <2>4. v = [call |-> [w.call EXCEPT ![c] = "starting"],
             queue |-> Tail(w.queue), drained |-> w.drained \cup {c}]
    BY <1>2 DEF ProcessQueue, Phase, WorkOK, c
  <2>5. v \in [call : [Calls -> Phases], queue : Seq(Calls), drained : SUBSET Calls]
    BY <2>1, <2>2, <2>4 DEF Phases, Awaits
  <2>6. Distinct(v.queue)
    BY <2>2, <2>4
  <2>7. Elements(v.queue) = {d \in Calls : v.call[d] = "queued"}
    BY <2>1, <2>2, <2>4 DEF WorkOK
  <2>8. \A d \in v.drained : v.call[d] \in {"starting", "naming"}
    BY <2>1, <2>2, <2>4 DEF WorkOK
  <2>9. Waits(pool, v) /\ OnlyStarts(w, v)
    BY <2>1, <2>2, <2>3, <2>4 DEF Waits, OnlyStarts
  <2> QED BY <2>5, <2>6, <2>7, <2>8, <2>9 DEF WorkOK
<1> QED BY <1>1, <1>2

\* A call that is not in the queue moves to a phase that is not the queue's.
LEMMA PhaseFacts ==
    ASSUME NEW w, WorkOK(w), NEW c \in Calls, NEW ph \in Phases \ {"queued"},
           w.call[c] # "queued",
           c \in w.drained => ph \in {"starting", "naming"}
    PROVE  /\ WorkOK(Phase(w, c, ph))
           /\ Phase(w, c, ph) = [w EXCEPT !.call = [w.call EXCEPT ![c] = ph]]
           /\ Phase(w, c, ph).call = [w.call EXCEPT ![c] = ph]
           /\ Phase(w, c, ph).queue = w.queue
           /\ Phase(w, c, ph).drained = w.drained
<1> DEFINE v == Phase(w, c, ph)
<1>1. v = [call |-> [w.call EXCEPT ![c] = ph], queue |-> w.queue, drained |-> w.drained]
  BY DEF Phase, WorkOK
<1>2. v \in [call : [Calls -> Phases], queue : Seq(Calls), drained : SUBSET Calls]
  BY <1>1 DEF WorkOK
<1>3. Distinct(v.queue) /\ Elements(v.queue) = {d \in Calls : v.call[d] = "queued"}
  BY <1>1 DEF WorkOK
<1>4. \A d \in v.drained : v.call[d] \in {"starting", "naming"}
  BY <1>1 DEF WorkOK
<1> QED BY <1>1, <1>2, <1>3, <1>4 DEF WorkOK

\* What Becomes(v) says of the next state's record.
LEMMA BecomesFacts ==
    ASSUME NEW v, WorkOK(v), Becomes(v)
    PROVE  /\ call' \in [Calls -> Phases] /\ workerQueue' \in Seq(Calls)
           /\ drained' \subseteq Calls
           /\ QueueIsExact'
           /\ \A pool : Waits(pool, v) <=>
                  (workerQueue' # <<>> => IsAtCapacity(pool) \/ drained' # {})
BY DEF WorkOK, Becomes, QueueIsExact, Waits

-----------------------------------------------------------------------------
(* Steps in which processes only leave the pool.                           *)

\* The ids of the processes that remain are kept, all others are deleted.
PoolShrinks ==
    /\ processes' \subseteq processes
    /\ sessionToProcess' =
         [s \in Ids |-> IF sessionToProcess[s] \in processes'
                        THEN sessionToProcess[s] ELSE NoProcess]

\* Only started processes change, and what terminates leaves the pool.
ProcessesMove ==
    /\ proc' \in [Calls -> ProcessStates]
    /\ \A p \in Calls :
          proc'[p] # proc[p] => /\ proc[p] # "none" /\ proc'[p] # "none"
                                /\ proc'[p] = "terminated" => p \notin processes'

\* Calls that were not served yet go on, but to no new process, and toggle only
\* what has been started.
CallsMove ==
    \A d \in Calls :
       \/ call'[d] = call[d] /\ (call[d] \in {"asking", "toggling"} => target'[d] = target[d])
       \/ /\ call[d] \notin {"served", "naming"} /\ call'[d] # "naming"
          /\ call'[d] \in {"asking", "toggling"} => target'[d] \in Calls /\ proc[target'[d]] # "none"

\* Such a step preserves the invariant.
LEMMA ShrinkingStep ==
    ASSUME IInv, NEW v, WorkOK(v), Becomes(v), Waits(processes', v),
           PoolShrinks, ProcessesMove, CallsMove, sid' = sid,
           target' \in [Calls -> Calls \cup {NoProcess}]
    PROVE  IInv'
<1> USE DEF IInv
<1>1. TypeOK'
  BY BecomesFacts DEF TypeOK, PoolShrinks, ProcessesMove
<1>2. QueueIsExact' /\ QueueWaitsForWorker'
  BY BecomesFacts DEF QueueWaitsForWorker
<1>3. MappingsLeadToPool'
  BY DEF MappingsLeadToPool, PoolShrinks
<1>4. WorkersAreFound'
  <2> SUFFICES ASSUME NEW p \in processes'
               PROVE  \/ sessionToProcess'[sid[p]] = p
                      \/ \E q \in Calls \ {p} : sid[q] = sid[p]
    BY DEF WorkersAreFound
  <2>1. p \in processes /\ sid[p] \in Ids
    BY DEF PoolShrinks, TypeOK
  <2> QED BY <2>1 DEF WorkersAreFound, PoolShrinks
<1>5. DeadWorkersWereNew'
  BY DEF DeadWorkersWereNew, PoolShrinks, ProcessesMove, TypeOK
<1>6. Lives'
  <2>1. \A c \in Calls : proc'[c] # "none" => call'[c] \in {"naming", "served"}
    BY DEF Lives, ProcessesMove, CallsMove
  <2>2. \A c \in Calls : call'[c] = "naming" => proc'[c] # "none" /\ KindOf[c] = "start"
    BY DEF Lives, ProcessesMove, CallsMove
  <2>3. \A p \in processes' : call'[p] = "served" /\ proc'[p] # "none"
    BY DEF Lives, ProcessesMove, CallsMove, PoolShrinks, TypeOK
  <2> QED BY <2>1, <2>2, <2>3 DEF Lives
<1>7. TogglesProcess'
  BY DEF TogglesProcess, CallsMove, ProcessesMove
<1>8. IdsKnown'
  BY DEF IdsKnown, ProcessesMove
<1> QED BY <1>1, <1>2, <1>3, <1>4, <1>5, <1>6, <1>7, <1>8

\* Leave() deletes nothing but what leads to the processes that leave.
LEMMA LeaveShrinks ==
    ASSUME IInv, NEW gone, Leave(gone)
    PROVE  PoolShrinks /\ processes' = processes \ gone
BY DEF IInv, TypeOK, MappingsLeadToPool, Leave, PoolShrinks

\* A step that leaves the pool alone.
LEMMA PoolStays ==
    ASSUME IInv, UNCHANGED <<processes, sessionToProcess>>
    PROVE  PoolShrinks
<1>1. sessionToProcess = [s \in Ids |-> sessionToProcess[s]]
  BY DEF IInv, TypeOK
<1>2. \A s \in Ids : sessionToProcess[s] \in processes \/ sessionToProcess[s] = NoProcess
  BY DEF IInv, MappingsLeadToPool
<1> QED BY <1>1, <1>2 DEF PoolShrinks

\* unregisterProcess(): what comes of the record and of the pool.
LEMMA UnregisterFacts ==
    ASSUME IInv, NEW p, NEW w, WorkOK(w), Waits(processes, w), UnregisterProcess(p, w)
    PROVE  /\ PoolShrinks /\ p \notin processes'
           /\ \E v : WorkOK(v) /\ Becomes(v) /\ Waits(processes', v) /\ OnlyStarts(w, v)
<1>1. CASE p \in processes
  <2>1. Leave({p}) /\ Becomes(ProcessQueue(processes \ {p}, w))
    BY <1>1 DEF UnregisterProcess
  <2>2. PoolShrinks /\ processes' = processes \ {p}
    BY <2>1, LeaveShrinks
  <2> QED BY <2>1, <2>2, ProcessQueueFacts
<1>2. CASE p \notin processes
  <2>1. Becomes(w) /\ UNCHANGED <<processes, sessionToProcess>>
    BY <1>2 DEF UnregisterProcess
  <2>2. OnlyStarts(w, w)
    BY DEF OnlyStarts
  <2> QED BY <1>2, <2>1, <2>2, PoolStays
<1> QED BY <1>1, <1>2

\* A process terminates or is let go, and the queue has its place.
LEMMA UnregisterStep ==
    ASSUME IInv, NEW p \in Calls, UnregisterProcess(p, Work),
           \/ proc' = proc
           \/ proc[p] # "none" /\ proc' = [proc EXCEPT ![p] = "terminated"],
           UNCHANGED <<target, sid>>
    PROVE  IInv'
<1>1. WorkOK(Work) /\ Waits(processes, Work)
  BY WorkIsOK
<1>2. PICK v : WorkOK(v) /\ Becomes(v) /\ Waits(processes', v) /\ OnlyStarts(Work, v)
  BY <1>1, UnregisterFacts
<1>3. PoolShrinks /\ p \notin processes'
  BY <1>1, UnregisterFacts
<1>4. ProcessesMove
  BY <1>3 DEF ProcessesMove, IInv, TypeOK, ProcessStates
<1>5. CallsMove
  BY <1>2 DEF CallsMove, OnlyStarts, Becomes, Work
<1>6. target' \in [Calls -> Calls \cup {NoProcess}]
  BY DEF IInv, TypeOK
<1> QED BY <1>2, <1>3, <1>4, <1>5, <1>6, ShrinkingStep

-----------------------------------------------------------------------------
(* The calls.                                                              *)

\* A call that is not in the queue joins it at the end.
LEMMA EnqueueFacts ==
    ASSUME NEW w, WorkOK(w), NEW c \in Calls, w.call[c] # "queued", c \notin w.drained
    PROVE  LET v == [Phase(w, c, "queued") EXCEPT !.queue = Append(@, c)]
           IN  /\ WorkOK(v)
               /\ v.call = [w.call EXCEPT ![c] = "queued"]
<1> DEFINE v == [Phase(w, c, "queued") EXCEPT !.queue = Append(@, c)]
<1>1. v = [call |-> [w.call EXCEPT ![c] = "queued"],
           queue |-> Append(w.queue, c), drained |-> w.drained]
  <2>1. Phase(w, c, "queued") = [call |-> [w.call EXCEPT ![c] = "queued"],
                                 queue |-> w.queue, drained |-> w.drained]
    BY DEF Phase, WorkOK
  <2>2. ASSUME NEW a, NEW b, NEW d
        PROVE  [[call |-> a, queue |-> b, drained |-> d] EXCEPT !.queue = Append(@, c)]
                 = [call |-> a, queue |-> Append(b, c), drained |-> d]
    OBVIOUS
  <2> QED BY <2>1, <2>2, Zenon
<1> HIDE DEF v
<1>2. w.queue \in Seq(Calls) /\ w.call \in [Calls -> Phases] /\ w.drained \subseteq Calls
  BY DEF WorkOK
<1>3. c \notin Elements(w.queue)
  BY DEF WorkOK
<1>4. /\ Append(w.queue, c) \in Seq(Calls)
      /\ Distinct(Append(w.queue, c))
      /\ Elements(Append(w.queue, c)) = Elements(w.queue) \cup {c}
  BY <1>2, <1>3, AppendFacts DEF WorkOK
<1>5. v \in [call : [Calls -> Phases], queue : Seq(Calls), drained : SUBSET Calls]
  BY <1>1, <1>2, <1>4 DEF Phases
<1>6. Elements(v.queue) = {d \in Calls : v.call[d] = "queued"}
  BY <1>1, <1>2, <1>4 DEF WorkOK
<1>7. \A d \in v.drained : v.call[d] \in {"starting", "naming"}
  BY <1>1, <1>2 DEF WorkOK
<1> QED BY <1>1, <1>4, <1>5, <1>6, <1>7 DEF WorkOK, v

\* Where a call may stand that asks for a process.
Asking(c, w) == w.call[c] \in {"new", "asking", "toggling", "restarting"}

\* What Admit() may do with a call.
Admitted(c, w, v) ==
    /\ v.call[c] \in {"starting", "preempting", "queued", "full", "duplicate"}
    /\ \A d \in Calls \ {c} : \/ v.call[d] = w.call[d]
                              \/ w.call[d] = "queued" /\ v.call[d] = "starting"

\* Admit() starts, preempts, queues or refuses: the record stays consistent and
\* nothing waits that could go on, also behind a call that preempts.
LEMMA AdmitFacts ==
    ASSUME IInv, NEW c \in Calls, NEW gone, NEW w, WorkOK(w), Asking(c, w),
           Waits(processes \ gone, w), Admit(c, gone, w)
    PROVE  /\ PoolShrinks /\ ProcessesMove
           /\ \E v : WorkOK(v) /\ Becomes(v) /\ Waits(processes', v) /\ Admitted(c, w, v)
<1> DEFINE pool == processes \ gone
<1>1. c \notin w.drained
  BY DEF Asking, WorkOK
<1>2. w.call \in [Calls -> Phases]
  BY DEF WorkOK
<1>3. proc \in [Calls -> ProcessStates] /\ processes \subseteq Calls
  BY DEF IInv, TypeOK
<1>4. CASE ~IsAtCapacity(pool) /\ Leave(gone) /\ Becomes(Phase(w, c, "starting")) /\ UNCHANGED proc
  <2> DEFINE v == Phase(w, c, "starting")
  <2>1. /\ WorkOK(v) /\ v.call = [w.call EXCEPT ![c] = "starting"]
        /\ v.queue = w.queue /\ v.drained = w.drained
    BY <1>1, PhaseFacts DEF Asking, Phases, Awaits
  <2>2. PoolShrinks /\ processes' = pool
    BY <1>4, LeaveShrinks
  <2>3. ProcessesMove
    BY <1>3, <1>4 DEF ProcessesMove
  <2>4. Waits(processes', v)
    BY <2>1, <2>2 DEF Waits
  <2>5. Admitted(c, w, v)
    BY <1>2, <2>1 DEF Admitted
  <2> QED BY <1>4, <2>1, <2>2, <2>3, <2>4, <2>5
<1>5. ASSUME NEW p \in Preemptable(pool),
             proc' = [proc EXCEPT ![p] = "terminated"],
             Leave(gone \cup {p}),
             Becomes(ProcessQueue(pool \ {p}, Phase(w, c, "preempting")))
      PROVE  /\ PoolShrinks /\ ProcessesMove
             /\ \E v : WorkOK(v) /\ Becomes(v) /\ Waits(processes', v) /\ Admitted(c, w, v)
  <2> DEFINE u == Phase(w, c, "preempting")
  <2> DEFINE v == ProcessQueue(pool \ {p}, u)
  <2>1. WorkOK(u) /\ u.call = [w.call EXCEPT ![c] = "preempting"]
    BY <1>1, PhaseFacts DEF Asking, Phases, Awaits
  <2>2. WorkOK(v) /\ Waits(pool \ {p}, v) /\ OnlyStarts(u, v)
    BY <2>1, ProcessQueueFacts
  <2>3. PoolShrinks /\ processes' = processes \ (gone \cup {p})
    BY <1>5, LeaveShrinks
  <2>4. processes' = pool \ {p} /\ p \in Calls /\ proc[p] = "idle"
    BY <1>3, <2>3 DEF Preemptable
  <2>5. ProcessesMove
    BY <1>3, <1>5, <2>4 DEF ProcessesMove, ProcessStates
  <2>6. Admitted(c, w, v)
    <3>1. v.call[c] = "preempting"
      BY <1>2, <2>1, <2>2 DEF OnlyStarts
    <3>2. ASSUME NEW d \in Calls \ {c}
          PROVE  v.call[d] = w.call[d] \/ (w.call[d] = "queued" /\ v.call[d] = "starting")
      BY <1>2, <2>1, <2>2 DEF OnlyStarts
    <3> QED BY <3>1, <3>2 DEF Admitted
  <2> QED BY <1>5, <2>2, <2>3, <2>4, <2>5, <2>6
<1>6. CASE /\ IsAtCapacity(pool) /\ Leave(gone) /\ UNCHANGED proc
           /\ Becomes(IF QueueFull(w.queue)
                      THEN Phase(w, c, "full")
                      ELSE [Phase(w, c, "queued") EXCEPT !.queue = Append(@, c)])
  <2>1. PoolShrinks /\ processes' = pool
    BY <1>6, LeaveShrinks
  <2>2. ProcessesMove
    BY <1>3, <1>6 DEF ProcessesMove
  <2>3. \A v : Waits(processes', v)
    BY <1>6, <2>1 DEF Waits
  <2>4. PICK v : /\ WorkOK(v) /\ Becomes(v)
                 /\ \E ph \in {"full", "queued"} : v.call = [w.call EXCEPT ![c] = ph]
    <3>1. CASE QueueFull(w.queue)
      <4>1. /\ WorkOK(Phase(w, c, "full"))
            /\ Phase(w, c, "full").call = [w.call EXCEPT ![c] = "full"]
        BY <1>1, PhaseFacts DEF Asking, Phases, Answers
      <4> QED BY <1>6, <3>1, <4>1
    <3>2. CASE ~QueueFull(w.queue)
      <4> DEFINE e == [Phase(w, c, "queued") EXCEPT !.queue = Append(@, c)]
      <4>1. WorkOK(e) /\ e.call = [w.call EXCEPT ![c] = "queued"]
        BY <1>1, EnqueueFacts DEF Asking
      <4>2. Becomes(e)
        BY <1>6, <3>2
      <4> QED BY <4>1, <4>2
    <3> QED BY <3>1, <3>2
  <2>5. Admitted(c, w, v)
    BY <1>2, <2>4 DEF Admitted
  <2> QED BY <2>1, <2>2, <2>3, <2>4, <2>5
<1> QED BY <1>4, <1>5, <1>6 DEF Admit

\* resumeSession() from its check of the queue on preserves the invariant, with
\* or without a stale process that has just been taken out.
LEMMA AdmitResumeStep ==
    ASSUME IInv, NEW c \in Calls, NEW gone, NEW w, WorkOK(w), Asking(c, w),
           OnlyStarts(Work, w), Waits(processes \ gone, w),
           AdmitResume(c, gone, w) \/ Admit(c, gone, w), sid' = sid,
           target' \in [Calls -> Calls \cup {NoProcess}],
           \A d \in Calls \ {c} : target'[d] = target[d]
    PROVE  IInv'
<1>1. /\ PoolShrinks /\ ProcessesMove
      /\ \E v : WorkOK(v) /\ Becomes(v) /\ Waits(processes', v) /\ Admitted(c, w, v)
  <2>1. CASE Admit(c, gone, w)
    BY <2>1, AdmitFacts
  <2>2. CASE Leave(gone) /\ Becomes(Phase(w, c, "duplicate")) /\ UNCHANGED proc
    <3> DEFINE v == Phase(w, c, "duplicate")
    <3>1. c \notin w.drained /\ w.call \in [Calls -> Phases]
      BY DEF Asking, WorkOK
    <3>2. /\ WorkOK(v) /\ v.call = [w.call EXCEPT ![c] = "duplicate"]
          /\ v.queue = w.queue /\ v.drained = w.drained
      BY <3>1, PhaseFacts DEF Asking, Phases, Answers
    <3>3. PoolShrinks /\ processes' = processes \ gone
      BY <2>2, LeaveShrinks
    <3>4. ProcessesMove
      BY <2>2 DEF ProcessesMove, IInv, TypeOK
    <3>5. Waits(processes', v) /\ Admitted(c, w, v)
      BY <3>1, <3>2, <3>3 DEF Waits, Admitted
    <3> QED BY <2>2, <3>2, <3>3, <3>4, <3>5
  <2> QED BY <2>1, <2>2 DEF AdmitResume
<1>2. PICK v : WorkOK(v) /\ Becomes(v) /\ Waits(processes', v) /\ Admitted(c, w, v)
  BY <1>1
<1>3. CallsMove
  <2>1. call' = v.call /\ Work.call = call
    BY <1>2 DEF Becomes, Work
  <2>2. ASSUME NEW d \in Calls \ {c}
        PROVE  \/ call'[d] = call[d] /\ target'[d] = target[d]
               \/ call[d] = "queued" /\ call'[d] = "starting"
    BY <1>2, <2>1 DEF Admitted, OnlyStarts
  <2>3. call[c] \notin {"served", "naming"} /\ call'[c] \notin {"naming", "asking", "toggling"}
    BY <1>2, <2>1 DEF Admitted, OnlyStarts, Asking
  <2> QED BY <2>2, <2>3 DEF CallsMove
<1> QED BY <1>1, <1>2, <1>3, ShrinkingStep

\* startSession() and createSession().
LEMMA StartSessionInv == ASSUME IInv, NEW c \in Calls, StartSession(c) PROVE IInv'
<1>1. WorkOK(Work) /\ Waits(processes \ {}, Work)
  BY WorkIsOK
<1>2. OnlyStarts(Work, Work) /\ Asking(c, Work)
  BY DEF OnlyStarts, Asking, Work, StartSession
<1>3. Admit(c, {}, Work) /\ UNCHANGED <<target, sid>>
  BY DEF StartSession
<1> QED BY <1>1, <1>2, <1>3, AdmitResumeStep DEF IInv, TypeOK

\* A call that stands at its first step or behind an await goes on without
\* touching the pool.
LEMMA PhaseStep ==
    ASSUME IInv, NEW c \in Calls,
           call[c] \in {"new", "asking", "toggling", "restarting", "preempting"},
           NEW ph \in Phases \ {"queued", "naming"}, Becomes(Phase(Work, c, ph)),
           UNCHANGED <<processes, sessionToProcess, sid>>, ProcessesMove,
           target' \in [Calls -> Calls \cup {NoProcess}],
           \A d \in Calls \ {c} : target'[d] = target[d],
           ph \in {"asking", "toggling"} => target'[c] \in Calls /\ proc[target'[c]] # "none"
    PROVE  IInv'
<1> DEFINE v == Phase(Work, c, ph)
<1>1. WorkOK(Work) /\ Waits(processes, Work) /\ Work.call = call
  BY WorkIsOK DEF Work
<1>2. c \notin Work.drained
  BY <1>1 DEF WorkOK
<1>3. /\ WorkOK(v) /\ v.call = [call EXCEPT ![c] = ph]
      /\ v.queue = Work.queue /\ v.drained = Work.drained
  BY <1>1, <1>2, PhaseFacts
<1>4. Waits(processes', v)
  BY <1>1, <1>3 DEF Waits
<1>5. CallsMove
  BY <1>3 DEF CallsMove, Becomes, IInv, TypeOK
<1>6. PoolShrinks
  BY PoolStays
<1> QED BY <1>3, <1>4, <1>5, <1>6, ShrinkingStep

\* queueMessage() changes nothing but a process that was started.
LEMMA MessageMoves ==
    ASSUME IInv, NEW p \in Calls, proc[p] # "none", Message(p)
    PROVE  ProcessesMove
BY DEF IInv, TypeOK, Message, ProcessesMove, ProcessStates

\* A process that has not terminated takes the message, toggles or restarts.
LEMMA UseProcessStep ==
    ASSUME IInv, NEW c \in Calls, call[c] \in {"new", "restarting"},
           NEW p \in processes, NEW asks \in {"asking", "toggling"},
           UseProcess(c, p, asks), sid' = sid
    PROVE  IInv'
<1>1. p \in Calls /\ proc[p] # "none"
  BY DEF IInv, TypeOK, Lives
<1>2. /\ target \in [Calls -> Calls \cup {NoProcess}]
      /\ proc \in [Calls -> ProcessStates]
  BY DEF IInv, TypeOK
<1>3. CASE /\ Message(p)
           /\ Becomes(Phase(Work, c, "served"))
           /\ UNCHANGED <<target, processes, sessionToProcess>>
  <2>1. ProcessesMove
    BY <1>1, <1>3, MessageMoves
  <2> QED BY <1>2, <1>3, <2>1, PhaseStep DEF Phases, Answers
<1>4. CASE /\ target' = [target EXCEPT ![c] = p]
           /\ Becomes(Phase(Work, c, asks))
           /\ UNCHANGED <<proc, processes, sessionToProcess>>
  <2>1. ProcessesMove
    BY <1>2, <1>4 DEF ProcessesMove
  <2>2. /\ target' \in [Calls -> Calls \cup {NoProcess}] /\ target'[c] = p
        /\ \A d \in Calls \ {c} : target'[d] = target[d]
    BY <1>1, <1>2, <1>4
  <2> QED BY <1>1, <1>4, <2>1, <2>2, PhaseStep DEF Phases, Awaits
<1>5. CASE /\ proc' = [proc EXCEPT ![p] = "terminated"]
           /\ UnregisterProcess(p, Phase(Work, c, "restarting"))
           /\ UNCHANGED target
  <2> DEFINE w == Phase(Work, c, "restarting")
  <2>1. WorkOK(Work) /\ Waits(processes, Work) /\ Work.call = call
    BY WorkIsOK DEF Work
  <2>2. c \notin Work.drained
    BY <2>1 DEF WorkOK
  <2>3. /\ WorkOK(w) /\ w.call = [call EXCEPT ![c] = "restarting"]
        /\ w.queue = Work.queue /\ w.drained = Work.drained
    BY <2>1, <2>2, PhaseFacts DEF Phases, Awaits
  <2>4. Waits(processes, w)
    BY <2>1, <2>3 DEF Waits
  <2>5. PoolShrinks /\ p \notin processes'
    BY <1>5, <2>3, <2>4, UnregisterFacts
  <2>6. PICK v : WorkOK(v) /\ Becomes(v) /\ Waits(processes', v) /\ OnlyStarts(w, v)
    BY <1>5, <2>3, <2>4, UnregisterFacts
  <2>7. ProcessesMove
    BY <1>1, <1>2, <1>5, <2>5 DEF ProcessesMove, ProcessStates
  <2>8. CallsMove
    BY <1>5, <2>3, <2>6 DEF CallsMove, OnlyStarts, Becomes, IInv, TypeOK
  <2> QED BY <1>2, <1>5, <2>5, <2>6, <2>7, <2>8, ShrinkingStep
<1> QED BY <1>3, <1>4, <1>5 DEF UseProcess

\* resumeSession() up to its first await: no process, a stale one or a live one.
LEMMA ResumeStep ==
    ASSUME IInv, NEW c \in Calls, call[c] \in {"new", "restarting"}, Resume(c), sid' = sid
    PROVE  IInv'
<1> DEFINE p == ProcessFor(SessionOf[c])
<1>1. p \in processes \/ p = NoProcess
  BY DEF ProcessFor
<1>2. NoProcess \notin processes /\ target \in [Calls -> Calls \cup {NoProcess}]
  BY ConstantsAssumption DEF IInv, TypeOK
<1>3. WorkOK(Work) /\ Waits(processes, Work) /\ Work.call = call
  BY WorkIsOK DEF Work
<1> HIDE DEF p
<1>4. CASE p = NoProcess
  <2>1. AdmitResume(c, {}, Work) /\ UNCHANGED target
    BY <1>4 DEF Resume, p
  <2>2. Asking(c, Work) /\ OnlyStarts(Work, Work) /\ Waits(processes \ {}, Work)
    BY <1>3 DEF Asking, OnlyStarts
  <2> QED BY <1>2, <1>3, <2>1, <2>2, AdmitResumeStep
<1>5. CASE p \in processes /\ proc[p] = "terminated"
  <2> DEFINE w == ProcessQueue(processes \ {p}, Work)
  <2>1. AdmitResume(c, {p}, w) /\ UNCHANGED target
    BY <1>2, <1>5 DEF Resume, p
  <2>2. WorkOK(w) /\ Waits(processes \ {p}, w) /\ OnlyStarts(Work, w)
    BY <1>3, ProcessQueueFacts
  <2>3. Asking(c, w)
    BY <1>3, <2>2 DEF Asking, OnlyStarts
  <2> QED BY <1>2, <2>1, <2>2, <2>3, AdmitResumeStep
<1>6. CASE p \in processes /\ proc[p] # "terminated"
  <2>1. UseProcess(c, p, "toggling")
    BY <1>2, <1>6 DEF Resume, p
  <2> QED BY <1>6, <2>1, UseProcessStep
<1> QED BY <1>1, <1>4, <1>5, <1>6

\* resumeSession().
LEMMA ResumeSessionInv == ASSUME IInv, NEW c \in Calls, ResumeSession(c) PROVE IInv'
BY ResumeStep DEF ResumeSession

\* queueMessageToSession().
LEMMA QueueMessageInv ==
    ASSUME IInv, NEW c \in Calls, QueueMessageToSession(c) PROVE IInv'
<1> DEFINE p == ProcessFor(SessionOf[c])
<1>1. p \in processes \/ p = NoProcess
  BY DEF ProcessFor
<1>2. CASE p # NoProcess /\ proc[p] # "terminated"
  <2>1. UseProcess(c, p, "asking") /\ sid' = sid /\ call[c] = "new"
    BY <1>2 DEF QueueMessageToSession
  <2> QED BY <1>1, <1>2, <2>1, UseProcessStep
<1>3. CASE ~(p # NoProcess /\ proc[p] # "terminated")
  <2>1. /\ Becomes(Phase(Work, c, "failed")) /\ call[c] = "new"
        /\ UNCHANGED <<target, proc, processes, sessionToProcess, sid>>
    BY <1>3 DEF QueueMessageToSession
  <2>2. ProcessesMove /\ target \in [Calls -> Calls \cup {NoProcess}]
    BY <2>1 DEF ProcessesMove, IInv, TypeOK
  <2> QED BY <2>1, <2>2, PhaseStep DEF Phases, Answers
<1> QED BY <1>2, <1>3

\* setMaxThinkingTokens() returned: the process it was asked of may be gone.
LEMMA ToggledInv == ASSUME IInv, NEW c \in Calls, Toggled(c) PROVE IInv'
<1> DEFINE p == target[c]
<1>1. /\ call[c] \in {"asking", "toggling"} /\ p \in Calls /\ proc[p] # "none"
      /\ target' = [target EXCEPT ![c] = NoProcess] /\ sid' = sid
  BY DEF Toggled, IInv, TogglesProcess
<1>2. target' \in [Calls -> Calls \cup {NoProcess}]
  BY <1>1 DEF IInv, TypeOK
<1>3. \A d \in Calls \ {c} : target'[d] = target[d]
  BY <1>1 DEF IInv, TypeOK
<1>4. CASE proc[p] # "terminated"
  <2>1. /\ Message(p) /\ Becomes(Phase(Work, c, "served"))
        /\ UNCHANGED <<processes, sessionToProcess>>
    BY <1>4 DEF Toggled
  <2>2. ProcessesMove
    BY <1>1, <2>1, MessageMoves
  <2> QED BY <1>1, <1>2, <1>3, <2>1, <2>2, PhaseStep DEF Phases, Answers
<1>5. CASE proc[p] = "terminated" /\ call[c] = "asking"
  <2>1. /\ Becomes(Phase(Work, c, "failed"))
        /\ UNCHANGED <<proc, processes, sessionToProcess>>
    BY <1>5 DEF Toggled
  <2>2. ProcessesMove
    BY <2>1 DEF ProcessesMove, IInv, TypeOK
  <2> QED BY <1>1, <1>2, <1>3, <2>1, <2>2, PhaseStep DEF Phases, Answers
<1>6. CASE proc[p] = "terminated" /\ call[c] # "asking"
  <2>1. AdmitResume(c, {}, Work)
    BY <1>6 DEF Toggled
  <2>2. WorkOK(Work) /\ Waits(processes \ {}, Work) /\ Work.call = call
    BY WorkIsOK DEF Work
  <2>3. Asking(c, Work) /\ OnlyStarts(Work, Work)
    BY <1>1, <2>2 DEF Asking, OnlyStarts
  <2> QED BY <1>1, <1>2, <1>3, <2>1, <2>2, <2>3, AdmitResumeStep
<1> QED BY <1>4, <1>5, <1>6

\* The abort before a restart returned.
LEMMA RestartedInv == ASSUME IInv, NEW c \in Calls, Restarted(c) PROVE IInv'
<1>1. call[c] = "restarting" /\ sid' = sid
  BY DEF Restarted
<1>2. CASE Resume(c)
  BY <1>1, <1>2, ResumeStep
<1>3. CASE AdmitResume(c, {}, Work) /\ UNCHANGED target
  <2>1. WorkOK(Work) /\ Waits(processes \ {}, Work) /\ Work.call = call
    BY WorkIsOK DEF Work
  <2>2. Asking(c, Work) /\ OnlyStarts(Work, Work)
    BY <1>1, <2>1 DEF Asking, OnlyStarts
  <2>3. target' \in [Calls -> Calls \cup {NoProcess}]
    BY <1>3 DEF IInv, TypeOK
  <2> QED BY <1>1, <1>3, <2>1, <2>2, <2>3, AdmitResumeStep
<1> QED BY <1>2, <1>3 DEF Restarted

\* The abort of a preempted worker returned.
LEMMA PreemptedInv == ASSUME IInv, NEW c \in Calls, Preempted(c) PROVE IInv'
<1>1. ProcessesMove /\ target' \in [Calls -> Calls \cup {NoProcess}]
  BY DEF Preempted, ProcessesMove, IInv, TypeOK
<1> QED BY <1>1, PhaseStep DEF Preempted, Phases, Awaits

\* A larger pool is at its capacity if the smaller one is.
LEMMA CapacityMonotone ==
    ASSUME NEW big \in SUBSET Calls, NEW small \in SUBSET big, IsAtCapacity(small)
    PROVE  IsAtCapacity(big)
<1>1. IsFiniteSet(big)
  BY ConstantsAssumption, FS_Subset
<1>2. Cardinality(small) <= Cardinality(big) /\ IsFiniteSet(small)
  BY <1>1, FS_Subset
<1>3. Cardinality(small) \in Nat /\ Cardinality(big) \in Nat
  BY <1>1, <1>2, FS_CardinalityType
<1> QED BY <1>2, <1>3, ConstantsAssumption DEF IsAtCapacity

\* The end of a start, whether a loop of processQueue() made it or the call
\* itself: the loop goes on, and no request is left waiting.
LEMMA LoopOnFacts ==
    ASSUME IInv, NEW c \in Calls, call[c] \in {"starting", "naming"},
           NEW ph \in Answers, NEW pool \in SUBSET Calls, processes \subseteq pool,
           LoopOn(c, pool, Phase(Work, c, ph))
    PROVE  \E v : /\ WorkOK(v) /\ Becomes(v) /\ Waits(pool, v)
                  /\ v.call[c] = ph
                  /\ \A d \in Calls \ {c} : \/ v.call[d] = call[d]
                                            \/ call[d] = "queued" /\ v.call[d] = "starting"
<1> DEFINE u == Phase(Work, c, ph)
<1>1. /\ WorkOK(Work) /\ Waits(processes, Work)
      /\ Work = [call |-> call, queue |-> workerQueue, drained |-> drained]
  BY WorkIsOK DEF Work
<1>2. /\ u = [call |-> [call EXCEPT ![c] = ph], queue |-> workerQueue,
              drained |-> drained]
      /\ ph \in Phases /\ ph # "queued" /\ call \in [Calls -> Phases]
  BY <1>1 DEF Phase, Phases, Answers, IInv, TypeOK
<1> HIDE DEF u
<1>3. CASE c \in drained
  <2> DEFINE w == [u EXCEPT !.drained = @ \ {c}]
  <2> DEFINE v == ProcessQueue(pool, w)
  <2>1. w = [call |-> [call EXCEPT ![c] = ph], queue |-> workerQueue,
             drained |-> drained \ {c}]
    <3>1. ASSUME NEW a, NEW b, NEW d
          PROVE  [[call |-> a, queue |-> b, drained |-> d] EXCEPT !.drained = @ \ {c}]
                   = [call |-> a, queue |-> b, drained |-> d \ {c}]
      OBVIOUS
    <3> QED BY <1>2, <3>1, Zenon
  <2>2. WorkOK(w)
    <3>1. w \in [call : [Calls -> Phases], queue : Seq(Calls), drained : SUBSET Calls]
      BY <1>2, <2>1 DEF IInv, TypeOK
    <3>2. Distinct(w.queue) /\ Elements(w.queue) = {d \in Calls : w.call[d] = "queued"}
      BY <1>2, <2>1 DEF IInv, QueueIsExact
    <3>3. \A d \in w.drained : w.call[d] \in {"starting", "naming"}
      BY <1>2, <2>1 DEF IInv, QueueIsExact, TypeOK
    <3> QED BY <3>1, <3>2, <3>3 DEF WorkOK
  <2>3. w.call = [call EXCEPT ![c] = ph]
    BY <2>1
  <2>4. Becomes(v)
    BY <1>3 DEF LoopOn, u
  <2> HIDE DEF w
  <2>5. WorkOK(v) /\ Waits(pool, v) /\ OnlyStarts(w, v)
    BY <2>2, ProcessQueueFacts
  <2> HIDE DEF v
  <2>6. v.call[c] = ph
    BY <1>2, <2>3, <2>5 DEF OnlyStarts
  <2>7. ASSUME NEW d \in Calls \ {c}
        PROVE  v.call[d] = call[d] \/ (call[d] = "queued" /\ v.call[d] = "starting")
    BY <1>2, <2>3, <2>5 DEF OnlyStarts
  <2> QED BY <2>4, <2>5, <2>6, <2>7
<1>4. CASE c \notin drained
  <2>1. WorkOK(u) /\ u.call = [call EXCEPT ![c] = ph]
    <3>1. Work.call[c] # "queued" /\ c \notin Work.drained
      BY <1>1, <1>4
    <3>2. WorkOK(u)
      BY <1>1, <1>2, <3>1, PhaseFacts DEF u
    <3> QED BY <1>2, <3>2
  <2>2. Becomes(u)
    BY <1>4 DEF LoopOn, u
  <2>3. Waits(pool, u)
    BY <1>1, <1>2, CapacityMonotone DEF Waits
  <2> QED BY <1>2, <2>1, <2>2, <2>3
<1> QED BY <1>3, <1>4

\* A start that failed.
LEMMA StartFailsInv == ASSUME IInv, NEW c \in Calls, StartFails(c) PROVE IInv'
<1> DEFINE ph == IF c \in drained THEN "cancelled" ELSE "failed"
<1>1. /\ call[c] = "starting" /\ LoopOn(c, processes, Phase(Work, c, ph))
      /\ UNCHANGED <<target, processes, sessionToProcess, proc, sid>>
  BY DEF StartFails
<1>2. ph \in Answers \ {"served"} /\ processes \in SUBSET Calls
  BY DEF Answers, IInv, TypeOK
<1> HIDE DEF ph
<1>3. PICK v : /\ WorkOK(v) /\ Becomes(v) /\ Waits(processes, v) /\ v.call[c] = ph
               /\ \A d \in Calls \ {c} : \/ v.call[d] = call[d]
                                         \/ call[d] = "queued" /\ v.call[d] = "starting"
  BY <1>1, <1>2, LoopOnFacts
<1>4. CallsMove
  BY <1>1, <1>2, <1>3 DEF CallsMove, Becomes, Answers
<1>5. PoolShrinks
  BY <1>1, PoolStays
<1>6. ProcessesMove /\ target' \in [Calls -> Calls \cup {NoProcess}]
  BY <1>1 DEF ProcessesMove, IInv, TypeOK
<1> QED BY <1>1, <1>3, <1>4, <1>5, <1>6, ShrinkingStep

\* A queued request is cancelled.
LEMMA CancelInv == ASSUME IInv, NEW c \in Calls, CancelQueuedRequest(c) PROVE IInv'
<1> DEFINE v == [Phase(Work, c, "cancelled") EXCEPT !.queue = Without(@, c)]
<1>1. /\ call[c] = "queued" /\ Becomes(v)
      /\ UNCHANGED <<target, processes, sessionToProcess, proc, sid>>
  BY DEF CancelQueuedRequest
<1>2. v = [call |-> [call EXCEPT ![c] = "cancelled"],
           queue |-> Without(workerQueue, c), drained |-> drained]
  <2>1. Phase(Work, c, "cancelled") = [call |-> [call EXCEPT ![c] = "cancelled"],
                                       queue |-> workerQueue, drained |-> drained]
    BY DEF Phase, Work
  <2>2. ASSUME NEW a, NEW b, NEW d
        PROVE  [[call |-> a, queue |-> b, drained |-> d] EXCEPT !.queue = Without(@, c)]
                 = [call |-> a, queue |-> Without(b, c), drained |-> d]
    OBVIOUS
  <2> QED BY <2>1, <2>2, Zenon
<1> HIDE DEF v
<1>3. /\ call \in [Calls -> Phases] /\ workerQueue \in Seq(Calls)
      /\ drained \subseteq Calls
  BY DEF IInv, TypeOK
<1>4. /\ Distinct(workerQueue)
      /\ Elements(workerQueue) = {d \in Calls : call[d] = "queued"}
      /\ \A d \in drained : call[d] \in {"starting", "naming"}
  BY DEF IInv, QueueIsExact
<1>5. /\ Without(workerQueue, c) \in Seq(Calls)
      /\ Distinct(Without(workerQueue, c))
      /\ Elements(Without(workerQueue, c)) = Elements(workerQueue) \ {c}
  BY <1>3, <1>4, WithoutFacts
<1>6. WorkOK(v)
  <2>1. v \in [call : [Calls -> Phases], queue : Seq(Calls), drained : SUBSET Calls]
    BY <1>2, <1>3, <1>5 DEF Phases, Answers
  <2>2. Distinct(v.queue) /\ Elements(v.queue) = {d \in Calls : v.call[d] = "queued"}
    BY <1>2, <1>3, <1>4, <1>5
  <2>3. \A d \in v.drained : v.call[d] \in {"starting", "naming"}
    BY <1>1, <1>2, <1>3, <1>4
  <2> QED BY <2>1, <2>2, <2>3 DEF WorkOK
<1>7. Waits(processes', v)
  <2>1. workerQueue # <<>>
    BY <1>1, <1>4 DEF Elements
  <2> QED BY <1>1, <1>2, <2>1 DEF Waits, IInv, QueueWaitsForWorker
<1>8. CallsMove
  BY <1>1, <1>2, <1>3 DEF CallsMove, Becomes
<1>9. PoolShrinks /\ ProcessesMove /\ target' \in [Calls -> Calls \cup {NoProcess}]
  BY <1>1, PoolStays DEF ProcessesMove, IInv, TypeOK
<1> QED BY <1>1, <1>6, <1>7, <1>8, <1>9, ShrinkingStep

-----------------------------------------------------------------------------
(* The steps that bring a process or an id into the pool.                  *)

\* registerProcess(), of a process that has just been created or that waited
\* for its id: its id leads to it, and a worker that the id led to before is
\* one for whose session another process was started.
LEMMA RegisterStep ==
    ASSUME IInv, NEW c \in Calls, call[c] \in {"starting", "naming"},
           NEW id \in {c, SessionOf[c]}, RegisterProcess(c, id),
           proc' \in [Calls -> ProcessStates], sid' = [sid EXCEPT ![c] = id],
           \A d \in Calls \ {c} : proc'[d] = proc[d],
           proc'[c] # "none",
           proc'[c] = "terminated" => KindOf[c] = "start",
           sid[c] \in {c, id}, UNCHANGED target
    PROVE  IInv'
<1>0. TypeOK /\ Lives /\ IdsKnown
  BY DEF IInv
<1>1. /\ processes' = processes \cup {c}
      /\ sessionToProcess' = [sessionToProcess EXCEPT ![id] = c]
      /\ LoopOn(c, processes \cup {c}, Phase(Work, c, "served"))
  BY DEF RegisterProcess
<1>2. c \notin processes
  BY <1>0 DEF Lives
<1>3. id \in Ids /\ \A d \in Calls : d \in Ids /\ SessionOf[d] \in Ids
  BY ConstantsAssumption DEF Ids
<1>4. PICK v : /\ WorkOK(v) /\ Becomes(v) /\ Waits(processes \cup {c}, v)
               /\ v.call[c] = "served"
               /\ \A d \in Calls \ {c} : \/ v.call[d] = call[d]
                                         \/ call[d] = "queued" /\ v.call[d] = "starting"
  <2>1. processes \cup {c} \in SUBSET Calls /\ "served" \in Answers
    BY <1>0 DEF TypeOK, Answers
  <2> QED BY <1>1, <2>1, LoopOnFacts
<1>5. /\ call'[c] = "served"
      /\ \A d \in Calls \ {c} : \/ call'[d] = call[d]
                                \/ call[d] = "queued" /\ call'[d] = "starting"
  BY <1>4 DEF Becomes
<1>6. TypeOK'
  BY <1>0, <1>1, <1>3, <1>4, BecomesFacts DEF TypeOK
<1>7. QueueIsExact' /\ QueueWaitsForWorker'
  BY <1>1, <1>4, BecomesFacts DEF QueueWaitsForWorker
<1>8. MappingsLeadToPool'
  BY <1>0, <1>1 DEF IInv, MappingsLeadToPool, TypeOK
<1>9. WorkersAreFound'
  <2> SUFFICES ASSUME NEW p \in processes'
               PROVE  \/ sessionToProcess'[sid'[p]] = p
                      \/ \E q \in Calls \ {p} : sid'[q] = sid'[p]
    BY DEF WorkersAreFound
  <2>1. CASE p = c
    BY <1>0, <1>1, <1>3, <2>1 DEF TypeOK
  <2>2. CASE p # c /\ sid[p] = id
    BY <1>0, <1>1, <2>2 DEF TypeOK
  <2>3. CASE p # c /\ sid[p] # id
    <3>1. p \in processes /\ p \in Calls /\ sid'[p] = sid[p] /\ sid[p] \in Ids
      BY <1>0, <1>1, <2>3 DEF TypeOK
    <3>2. sessionToProcess'[sid[p]] = sessionToProcess[sid[p]]
      BY <1>0, <1>1, <2>3, <3>1 DEF TypeOK
    <3>3. sid[p] # c
      BY <1>0, <2>3, <3>1, ConstantsAssumption DEF IdsKnown
    <3>4. \A q \in Calls \ {p} : sid[q] = sid[p] => q # c /\ sid'[q] = sid[q]
      BY <1>0, <2>3, <3>3 DEF TypeOK
    <3> QED BY <3>1, <3>2, <3>4 DEF IInv, WorkersAreFound
  <2> QED BY <2>1, <2>2, <2>3
<1>10. DeadWorkersWereNew'
  BY <1>0, <1>1 DEF IInv, DeadWorkersWereNew, TypeOK
<1>11. Lives'
  <2>1. \A d \in Calls : proc'[d] # "none" => call'[d] \in {"naming", "served"}
    BY <1>0, <1>5 DEF Lives
  <2>2. \A d \in Calls : call'[d] = "naming" => proc'[d] # "none" /\ KindOf[d] = "start"
    BY <1>0, <1>5 DEF Lives
  <2>3. \A p \in processes' : call'[p] = "served" /\ proc'[p] # "none"
    BY <1>0, <1>1, <1>2, <1>5 DEF Lives, TypeOK
  <2> QED BY <2>1, <2>2, <2>3 DEF Lives
<1>12. TogglesProcess'
  BY <1>5 DEF IInv, TogglesProcess
<1>13. IdsKnown'
  BY <1>0 DEF IdsKnown, TypeOK
<1> QED BY <1>6, <1>7, <1>8, <1>9, <1>10, <1>11, <1>12, <1>13 DEF IInv

\* The provider's startSession() returned.
LEMMA StartedInv == ASSUME IInv, NEW c \in Calls, Started(c) PROVE IInv'
<1>1. /\ call[c] = "starting" /\ proc' = [proc EXCEPT ![c] = "working"]
      /\ sid' = [sid EXCEPT ![c] = TempSessionId(c)] /\ UNCHANGED target
  BY DEF Started
<1>2. TypeOK /\ Lives /\ IdsKnown
  BY DEF IInv
<1>3. proc[c] = "none" /\ sid[c] = c /\ c \notin processes
  BY <1>1, <1>2 DEF Lives, IdsKnown
<1>4. /\ proc' \in [Calls -> ProcessStates] /\ proc'[c] = "working"
      /\ \A d \in Calls \ {c} : proc'[d] = proc[d]
  BY <1>1, <1>2 DEF TypeOK, ProcessStates
<1>5. CASE KindOf[c] = "start"
  <2>1. /\ Becomes(Phase(Work, c, "naming")) /\ UNCHANGED <<processes, sessionToProcess>>
        /\ sid' = sid
    BY <1>1, <1>2, <1>3, <1>5 DEF Started, TempSessionId, TypeOK
  <2> DEFINE v == Phase(Work, c, "naming")
  <2>2. WorkOK(Work) /\ Waits(processes, Work) /\ Work.call = call
    BY WorkIsOK DEF Work
  <2>3. /\ WorkOK(v) /\ v.call = [call EXCEPT ![c] = "naming"]
        /\ v.queue = Work.queue /\ v.drained = Work.drained
    BY <1>1, <2>2, PhaseFacts DEF Phases, Awaits
  <2>4. call' = [call EXCEPT ![c] = "naming"]
    BY <2>1, <2>3 DEF Becomes
  <2> HIDE DEF v
  <2>5. TypeOK'
    BY <1>1, <1>2, <1>4, <2>1, <2>3, BecomesFacts DEF TypeOK, v
  <2>6. QueueIsExact' /\ QueueWaitsForWorker'
    BY <2>1, <2>2, <2>3, BecomesFacts DEF QueueWaitsForWorker, Waits, v
  <2>7. MappingsLeadToPool' /\ WorkersAreFound' /\ DeadWorkersWereNew'
    BY <1>2, <1>3, <1>4, <2>1
    DEF IInv, MappingsLeadToPool, WorkersAreFound, DeadWorkersWereNew, TypeOK
  <2>8. Lives'
    BY <1>2, <1>3, <1>4, <1>5, <2>1, <2>4 DEF Lives, TypeOK
  <2>9. TogglesProcess'
    BY <1>1, <1>2, <1>4, <2>4 DEF IInv, TogglesProcess, TypeOK
  <2>10. IdsKnown'
    BY <1>2, <1>3, <1>4, <2>1 DEF IdsKnown
  <2> QED BY <2>5, <2>6, <2>7, <2>8, <2>9, <2>10 DEF IInv
<1>6. CASE KindOf[c] # "start"
  <2>1. RegisterProcess(c, SessionOf[c]) /\ sid' = [sid EXCEPT ![c] = SessionOf[c]]
    BY <1>1, <1>6 DEF Started, TempSessionId
  <2> QED BY <1>1, <1>3, <1>4, <2>1, RegisterStep
<1> QED BY <1>5, <1>6

\* waitForSessionId() returned.
LEMMA NamedInv == ASSUME IInv, NEW c \in Calls, Named(c) PROVE IInv'
<1>1. /\ call[c] = "naming" /\ RegisterProcess(c, sid[c])
      /\ UNCHANGED <<target, proc, sid>>
  BY DEF Named
<1>2. TypeOK /\ Lives /\ IdsKnown
  BY DEF IInv
<1>3. sid[c] \in {c, SessionOf[c]} /\ proc[c] # "none" /\ KindOf[c] = "start"
  BY <1>1, <1>2 DEF Lives, IdsKnown
<1>4. sid' = [sid EXCEPT ![c] = sid[c]] /\ proc' \in [Calls -> ProcessStates]
  BY <1>1, <1>2 DEF TypeOK
<1> QED BY <1>1, <1>3, <1>4, RegisterStep

\* The init message brings the real session id.
LEMMA SessionIdChangedInv ==
    ASSUME IInv, NEW p \in Calls, SessionIdChanged(p) PROVE IInv'
<1>1. /\ proc[p] \in {"working", "idle"} /\ sid[p] = p
      /\ sid' = [sid EXCEPT ![p] = SessionOf[p]]
      /\ sessionToProcess' = IF p \in processes
                             THEN [sessionToProcess EXCEPT ![SessionOf[p]] = p]
                             ELSE sessionToProcess
      /\ UNCHANGED <<call, target, workerQueue, drained, processes, proc>>
  BY DEF SessionIdChanged
<1>2. TypeOK /\ Lives /\ IdsKnown
  BY DEF IInv
<1>3. SessionOf[p] \in Ids
  BY ConstantsAssumption DEF Ids
<1>4. TypeOK'
  BY <1>1, <1>2, <1>3 DEF TypeOK
<1>5. QueueIsExact' /\ QueueWaitsForWorker'
  BY <1>1 DEF IInv, QueueIsExact, QueueWaitsForWorker
<1>6. MappingsLeadToPool'
  BY <1>1, <1>2 DEF IInv, MappingsLeadToPool, TypeOK
<1>7. WorkersAreFound'
  <2> SUFFICES ASSUME NEW x \in processes
               PROVE  \/ sessionToProcess'[sid'[x]] = x
                      \/ \E q \in Calls \ {x} : sid'[q] = sid'[x]
    BY <1>1 DEF WorkersAreFound
  <2>1. CASE x = p
    BY <1>1, <1>2, <1>3, <2>1 DEF TypeOK
  <2>2. CASE x # p /\ sid[x] = SessionOf[p]
    BY <1>1, <1>2, <2>2 DEF TypeOK
  <2>3. CASE x # p /\ sid[x] # SessionOf[p]
    <3>1. x \in Calls /\ sid'[x] = sid[x] /\ sid[x] \in Ids
      BY <1>1, <1>2, <2>3 DEF TypeOK
    <3>2. sessionToProcess'[sid[x]] = sessionToProcess[sid[x]]
      BY <1>1, <1>2, <2>3, <3>1 DEF TypeOK
    <3>3. sid[x] # p
      BY <1>2, <2>3, <3>1, ConstantsAssumption DEF IdsKnown
    <3>4. \A q \in Calls \ {x} : sid[q] = sid[x] => q # p /\ sid'[q] = sid[q]
      BY <1>1, <1>2, <3>3 DEF TypeOK
    <3> QED BY <3>1, <3>2, <3>4 DEF IInv, WorkersAreFound
  <2> QED BY <2>1, <2>2, <2>3
<1>8. DeadWorkersWereNew' /\ Lives' /\ TogglesProcess'
  BY <1>1 DEF IInv, DeadWorkersWereNew, Lives, TogglesProcess
<1>9. IdsKnown'
  BY <1>1, <1>2 DEF IdsKnown, TypeOK
<1> QED BY <1>4, <1>5, <1>6, <1>7, <1>8, <1>9 DEF IInv

-----------------------------------------------------------------------------
(* The processes.                                                          *)

\* A turn ends.
LEMMA TurnEndsInv == ASSUME IInv, NEW p \in Calls, TurnEnds(p) PROVE IInv'
<1>1. /\ proc[p] = "working" /\ proc' = [proc EXCEPT ![p] = "idle"]
      /\ UNCHANGED <<call, target, workerQueue, drained, processes,
                     sessionToProcess, sid>>
  BY DEF TurnEnds
<1>2. WorkOK(Work) /\ Waits(processes', Work)
  BY <1>1, WorkIsOK
<1>3. Becomes(Work)
  BY <1>1 DEF Becomes, Work
<1>4. ProcessesMove
  BY <1>1 DEF ProcessesMove, IInv, TypeOK, ProcessStates
<1>5. CallsMove /\ PoolShrinks /\ target' \in [Calls -> Calls \cup {NoProcess}]
  BY <1>1, PoolStays DEF CallsMove, IInv, TypeOK
<1> QED BY <1>1, <1>2, <1>3, <1>4, <1>5, ShrinkingStep

\* A process terminates by itself, is given up by its idle timer, or is aborted.
LEMMA LeavingInv ==
    ASSUME IInv, NEW p \in Calls, Terminates(p) \/ IdleCompletes(p) \/ AbortProcess(p)
    PROVE  IInv'
<1>1. CASE Terminates(p)
  BY <1>1, UnregisterStep DEF Terminates
<1>2. CASE IdleCompletes(p)
  BY <1>2, UnregisterStep DEF IdleCompletes
<1>3. CASE AbortProcess(p)
  BY <1>3, UnregisterStep DEF AbortProcess, IInv, Lives
<1> QED BY <1>1, <1>2, <1>3

-----------------------------------------------------------------------------
(* The theorems.                                                           *)

\* The initial states satisfy the inductive invariant.
LEMMA InitInv == Init => IInv
<1> SUFFICES ASSUME Init PROVE IInv
  OBVIOUS
<1>1. workerQueue = <<>> /\ <<>> \in Seq(Calls)
  BY SeqFacts DEF Init
<1>2. TypeOK
  BY <1>1 DEF Init, TypeOK, Phases, ProcessStates, Ids
<1>3. QueueIsExact /\ QueueWaitsForWorker
  BY <1>1 DEF Init, QueueIsExact, QueueWaitsForWorker, Distinct, Elements
<1>4. MappingsLeadToPool /\ WorkersAreFound /\ DeadWorkersWereNew
  BY DEF Init, MappingsLeadToPool, WorkersAreFound, DeadWorkersWereNew
<1>5. Lives /\ TogglesProcess /\ IdsKnown
  BY DEF Init, Lives, TogglesProcess, IdsKnown
<1> QED BY <1>2, <1>3, <1>4, <1>5 DEF IInv

\* A step that changes nothing.
LEMMA StutterInv == ASSUME IInv, UNCHANGED vars PROVE IInv'
BY DEF IInv, vars, TypeOK, QueueIsExact, QueueWaitsForWorker, MappingsLeadToPool,
       WorkersAreFound, DeadWorkersWereNew, Lives, TogglesProcess, IdsKnown

\* Every step preserves the inductive invariant.
LEMMA NextInv == IInv /\ [Next]_vars => IInv'
<1> SUFFICES ASSUME IInv, [Next]_vars PROVE IInv'
  OBVIOUS
<1>1. ASSUME NEW c \in Calls,
             \/ StartSession(c) \/ ResumeSession(c) \/ QueueMessageToSession(c)
             \/ Toggled(c) \/ Restarted(c) \/ Preempted(c)
      PROVE  IInv'
  BY <1>1, StartSessionInv, ResumeSessionInv, QueueMessageInv, ToggledInv,
     RestartedInv, PreemptedInv
<1>2. ASSUME NEW c \in Calls,
             StartFails(c) \/ Started(c) \/ Named(c) \/ CancelQueuedRequest(c)
      PROVE  IInv'
  BY <1>2, StartFailsInv, StartedInv, NamedInv, CancelInv
<1>3. ASSUME NEW p \in Calls,
             \/ SessionIdChanged(p) \/ TurnEnds(p) \/ Terminates(p)
             \/ IdleCompletes(p) \/ AbortProcess(p)
      PROVE  IInv'
  BY <1>3, SessionIdChangedInv, TurnEndsInv, LeavingInv
<1> QED BY <1>1, <1>2, <1>3, StutterInv DEF Next

\* The inductive invariant of the Supervisor holds in every reachable state,
\* however calls, awaits and the ends of processes interleave.
THEOREM SupervisorInvariant == Spec => []IInv
BY InitInv, NextInv, PTL DEF Spec

\* Every variable keeps its type.
THEOREM SupervisorTypes == Spec => []TypeOK
<1>1. IInv => TypeOK
  BY DEF IInv
<1> QED BY <1>1, SupervisorInvariant, PTL

\* unregisterProcess() leaves no session id behind that leads to a process
\* which is out of the pool.
THEOREM IdsLeadToPool == Spec => []MappingsLeadToPool
<1>1. IInv => MappingsLeadToPool
  BY DEF IInv
<1> QED BY <1>1, SupervisorInvariant, PTL

\* A worker of the pool can be found by its session id, unless another process
\* was started for its session in the meantime.
THEOREM PoolIsFound == Spec => []WorkersAreFound
<1>1. IInv => WorkersAreFound
  BY DEF IInv
<1> QED BY <1>1, SupervisorInvariant, PTL

\* No wake-up of processQueue() is lost: a request waits only while the pool is
\* full or a loop will look at the queue again.
THEOREM NoLostWakeup == Spec => []QueueWaitsForWorker
<1>1. IInv => QueueWaitsForWorker
  BY DEF IInv
<1> QED BY <1>1, SupervisorInvariant, PTL

\* The queue holds exactly the calls that were told to wait, each once.
THEOREM QueueMatchesCalls == Spec => []QueueIsExact
<1>1. IInv => QueueIsExact
  BY DEF IInv
<1> QED BY <1>1, SupervisorInvariant, PTL

\* A process that terminated is out of the pool, unless it did so before its
\* start had its session id.
THEOREM DeadLeavePool == Spec => []DeadWorkersWereNew
<1>1. IInv => DeadWorkersWereNew
  BY DEF IInv
<1> QED BY <1>1, SupervisorInvariant, PTL
=============================================================================
