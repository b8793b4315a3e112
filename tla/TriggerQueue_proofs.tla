------------------------- MODULE TriggerQueue_proofs -------------------------
(***************************************************************************)
(* Proofs about TriggerQueue.  What the types say, and that an event is    *)
(* marked as done only after its run was started, is proved for any number *)
(* of calls at once; that accepted events are kept and started once, for   *)
(* calls that come one at a time, since it fails for two (run "lost").     *)
(***************************************************************************)
EXTENDS TriggerQueue, Queues_proofs, TLAPS

-----------------------------------------------------------------------------
(* The inductive invariant for any number of calls.                        *)

TaskRecord ==
    [pc : {"idle", "find", "list", "append", "dispatch", "read", "write", "rename",
           "delete", "remove"},
     event : Events \cup {NoEvent}, loop : Loops \cup {AllLoops},
     todo : Seq(Entries), mark : {"done", "failed"}, content : Seq(Entries)]

CronRecord ==
    [loaded : BOOLEAN, current : 0..MaxMinute, fired : SUBSET CronEvents,
     pending : SUBSET CronEvents, saving : BOOLEAN]

\* A call has what its next step uses.
TaskOK(r) ==
    /\ r.pc \in {"find", "append"} => r.event \in Events
    /\ r.pc \in {"delete", "remove"} => r.loop \in Loops
    /\ r.pc = "read" => r.todo # <<>>
    /\ r.pc \notin {"dispatch", "read", "write", "rename"} => r.todo = <<>>

TypeInv ==
    /\ TypeOK
    /\ task \in [Tasks -> TaskRecord]
    /\ cron \in CronRecord
    /\ starts \in [Events -> Nat]
    /\ \A t \in Tasks : TaskOK(task[t])

\* The event had its run, or is one that starts none.
HadRun(e) == e \notin ResumeEvents => starts[e] > 0

\* The entries of a file, or of a rewritten one, that are done had their run.
Ran(entries) ==
    \A i \in DOMAIN entries : entries[i].state = "done" => HadRun(entries[i].event)

\* What a call is about to write and to mark is true, too.
RanTask(r) ==
    /\ Ran(r.content)
    /\ r.pc = "read" /\ r.mark = "done" => HadRun(Head(r.todo).event)

DoneInv ==
    /\ Ran(queue)
    /\ tmp # NoFile => Ran(tmp)
    /\ \A t \in Tasks : RanTask(task[t])

IInv == TypeInv /\ DoneInv

-----------------------------------------------------------------------------
(* What is inductive in addition when calls come one at a time.            *)

OneCall == \A t, u \in Tasks : t = u

\* No event has two entries.
Unique(entries) ==
    \A i, j \in DOMAIN entries : entries[i].event = entries[j].event => i = j

PendingIn(entries, e) ==
    \E i \in DOMAIN entries : entries[i].event = e /\ entries[i].state = "pending"

Settled(entries, e) ==
    \E i \in DOMAIN entries : entries[i].event = e /\ entries[i].state # "pending"

Deleted(e) == loops[LoopOf(e)] = "deleted"

\* The content that will replace the queue loses no entry of a loop that is not
\* deleted, and settles the first event of the drain and no other.
Rewrites(content, todo) ==
    /\ Unique(content)
    /\ \A e \in Events : IsQueued(queue, e) => IsQueued(content, e) \/ Deleted(e)
    /\ \A e \in Events : Settled(queue, e) => Settled(content, e) \/ Deleted(e)
    /\ todo # <<>> =>
         /\ Settled(content, Head(todo).event)
         /\ \A k \in 2..Len(todo) : PendingIn(content, todo[k].event)

\* A drain works on events that are pending in the file.
SerialTask(r) ==
    /\ r.pc = "append" => ~IsQueued(queue, r.event)
    /\ r.pc = "remove" => loops[r.loop] = "deleted"
    /\ r.pc \in {"dispatch", "read", "write", "rename"} =>
         /\ Unique(r.todo)
         /\ \A k \in DOMAIN r.todo : PendingIn(queue, r.todo[k].event)
    /\ r.pc = "write" => Rewrites(r.content, r.todo)
    /\ r.pc = "rename" => tmp # NoFile /\ Rewrites(tmp, r.todo)

\* The call has started the run of e, or has been refused it, and marks e next.
Marks(r, e) ==
    r.pc \in {"read", "write", "rename"} /\ r.todo # <<>> /\ Head(r.todo).event = e

\* An event that may be started again was started at most once per crash.
StartsBounded ==
    \A e \in Events :
        /\ starts[e] <= 1 + crashes
        /\ \/ starts[e] <= crashes
           \/ Settled(queue, e)
           \/ Deleted(e)
           \/ \E t \in Tasks : Marks(task[t], e)

SerialInv ==
    /\ Unique(queue)
    /\ AcceptedIsKept
    /\ StartsBounded
    /\ \A t \in Tasks : SerialTask(task[t])

-----------------------------------------------------------------------------
(* Operators.                                                              *)

\* Every event belongs to a loop.
LEMMA LoopOfType == ASSUME NEW e \in Events PROVE LoopOf(e) \in Loops
<1>1. CASE e \in External
  BY <1>1, TriggerConstants DEF LoopOf
<1>2. CASE e \notin External
  <2>1. e \in Cron \X (0..MaxMinute)
    BY <1>2 DEF Events, CronEvents
  <2>2. e[1] \in Cron
    BY <2>1
  <2> QED BY <1>2, <2>2, TriggerConstants DEF LoopOf
<1> QED BY <1>1, <1>2

\* mark() replaces one entry of the event by the marked one.
LEMMA MarkedFacts ==
    ASSUME NEW q \in Seq(Entries), NEW e \in Events, IsQueued(q, e),
           NEW m \in EntryState
    PROVE  /\ Marked(q, e, m) \in Seq(Entries)
           /\ Len(Marked(q, e, m)) = Len(q)
           /\ \E k \in 1..Len(q) :
                /\ q[k].event = e
                /\ \A i \in 1..Len(q) :
                     Marked(q, e, m)[i] = IF i = k THEN [event |-> e, state |-> m] ELSE q[i]
<1> DEFINE I == {i \in 1..Len(q) : q[i].event = e}
           k == FirstOf(q, e)
<1>1. I # {} /\ I \in SUBSET Nat
  BY DEF IsQueued
<1>2. \E i \in I : \A j \in I : i <= j
  <2> HIDE DEF I
  <2> QED BY <1>1, LeastElement
<1>3. k = Min(I)
  BY <1>1 DEF FirstOf, SelectInSeq
<1>4. k \in I
  BY <1>2, <1>3 DEF Min
<1>5. Marked(q, e, m) = [q EXCEPT ![k].state = m]
  BY DEF Marked
<1> HIDE DEF k
<1>6. q[k] \in Entries /\ k \in 1..Len(q) /\ q[k].event = e
  BY <1>4
<1>7. [q[k] EXCEPT !.state = m] = [event |-> e, state |-> m]
  BY <1>6 DEF Entries
<1> DEFINE x == [event |-> e, state |-> m]
<1>8. x \in Entries
  BY DEF Entries
<1>9. Marked(q, e, m) = [q EXCEPT ![k] = x]
  BY <1>5, <1>6, <1>7
<1> HIDE DEF x
<1>10. /\ [q EXCEPT ![k] = x] \in Seq(Entries)
       /\ Len([q EXCEPT ![k] = x]) = Len(q)
       /\ \A i \in 1..Len(q) : [q EXCEPT ![k] = x][i] = IF i = k THEN x ELSE q[i]
  BY <1>6, <1>8
<1> QED BY <1>6, <1>9, <1>10 DEF x

\* Filtering keeps an event in one entry if it was in one.
LEMMA FilteredUnique ==
    ASSUME NEW q \in Seq(Entries), NEW keep, Unique(q)
    PROVE  Unique(Filtered(q, keep))
<1> DEFINE f == Filtered(q, keep)
<1>1. f \in Seq(Entries)
  BY FilteredFacts
<1>2. PICK h \in [1..Len(f) -> 1..Len(q)] :
        /\ \A i, j \in 1..Len(f) : i < j => h[i] < h[j]
        /\ \A i \in 1..Len(f) : f[i] = q[h[i]]
  BY FilteredFacts
<1> HIDE DEF f
<1>3. ASSUME NEW i \in 1..Len(f), NEW j \in 1..Len(f), f[i].event = f[j].event
      PROVE  i = j
  <2>1. h[i] \in 1..Len(q) /\ h[j] \in 1..Len(q)
    OBVIOUS
  <2>2. q[h[i]].event = q[h[j]].event
    BY <1>2, <1>3
  <2>3. h[i] = h[j]
    BY <2>1, <2>2 DEF Unique
  <2>4. ~(i < j) /\ ~(j < i)
    BY <1>2, <2>1, <2>3
  <2> QED BY <2>4
<1> QED BY <1>1, <1>3 DEF Unique, f

\* removeByLoopId() keeps the entries of the other loops.
LEMMA WithoutLoopFacts ==
    ASSUME NEW q \in Seq(Entries), NEW l
    PROVE  /\ WithoutLoop(q, l) \in Seq(Entries)
           /\ \A x : x \in Elements(WithoutLoop(q, l)) <=>
                       x \in Elements(q) /\ LoopOf(x.event) # l
           /\ Unique(q) => Unique(WithoutLoop(q, l))
<1> DEFINE keep == {x \in Elements(q) : LoopOf(x.event) # l}
<1>1. WithoutLoop(q, l) = Filtered(q, keep)
  BY DEF WithoutLoop
<1>2. /\ Filtered(q, keep) \in Seq(Entries)
      /\ Elements(Filtered(q, keep)) = Elements(q) \cap keep
  <2> HIDE DEF keep
  <2> QED BY FilteredFacts
<1>3. Unique(q) => Unique(Filtered(q, keep))
  BY FilteredUnique
<1> QED BY <1>1, <1>2, <1>3

\* listPending() returns pending entries of the file.
LEMMA PendingOfFacts ==
    ASSUME NEW q \in Seq(Entries), NEW l
    PROVE  /\ PendingOf(q, l) \in Seq(Entries)
           /\ \A x \in Elements(PendingOf(q, l)) : x \in Elements(q) /\ x.state = "pending"
           /\ Unique(q) => Unique(PendingOf(q, l))
<1> DEFINE keep == {x \in Elements(q) : x.state = "pending" /\ l \in {AllLoops, LoopOf(x.event)}}
<1>1. PendingOf(q, l) = Filtered(q, keep)
  BY DEF PendingOf
<1>2. /\ Filtered(q, keep) \in Seq(Entries)
      /\ Elements(Filtered(q, keep)) = Elements(q) \cap keep
  <2> HIDE DEF keep
  <2> QED BY FilteredFacts
<1>3. Unique(q) => Unique(Filtered(q, keep))
  BY FilteredUnique
<1> QED BY <1>1, <1>2, <1>3

-----------------------------------------------------------------------------
(* What a step makes of its call.                                          *)

\* The call t becomes r: another phase, other work, the same event and loop.
Becomes(t, r, pc, todo, mark, content) ==
    /\ task' = [task EXCEPT ![t] = r]
    /\ r = [pc |-> pc, event |-> task[t].event, loop |-> task[t].loop,
            todo |-> todo, mark |-> mark, content |-> content]

\* The record of a call, written out.
LEMMA TaskFields ==
    ASSUME TypeInv, NEW t \in Tasks
    PROVE  /\ task[t] = [pc |-> task[t].pc, event |-> task[t].event, loop |-> task[t].loop,
                         todo |-> task[t].todo, mark |-> task[t].mark,
                         content |-> task[t].content]
           /\ task[t].event \in Events \cup {NoEvent} /\ task[t].loop \in Loops \cup {AllLoops}
           /\ task[t].todo \in Seq(Entries) /\ task[t].mark \in {"done", "failed"}
           /\ task[t].content \in Seq(Entries)
BY DEF TypeInv, TaskRecord

\* Two fields of a call's record are set, one after the other.
LEMMA TaskUpdates ==
    ASSUME TypeInv, NEW t \in Tasks, NEW x, NEW y
    PROVE  /\ [task[t] EXCEPT !.pc = x, !.todo = y] =
                [pc |-> x, event |-> task[t].event, loop |-> task[t].loop,
                 todo |-> y, mark |-> task[t].mark, content |-> task[t].content]
           /\ [task[t] EXCEPT !.pc = x, !.mark = y] =
                [pc |-> x, event |-> task[t].event, loop |-> task[t].loop,
                 todo |-> task[t].todo, mark |-> y, content |-> task[t].content]
           /\ [task[t] EXCEPT !.pc = x, !.content = y] =
                [pc |-> x, event |-> task[t].event, loop |-> task[t].loop,
                 todo |-> task[t].todo, mark |-> task[t].mark, content |-> y]
           /\ [task[t] EXCEPT !.pc = x, !.loop = y] =
                [pc |-> x, event |-> task[t].event, loop |-> y,
                 todo |-> task[t].todo, mark |-> task[t].mark, content |-> task[t].content]
<1>0. PICK r \in TaskRecord : r = task[t]
  BY DEF TypeInv
<1>1. PICK e, l, q, m, c : /\ e = r.event /\ l = r.loop /\ q = r.todo
                           /\ m = r.mark /\ c = r.content
  OBVIOUS
<1> DEFINE s == [pc |-> x, event |-> e, loop |-> l, todo |-> q, mark |-> m, content |-> c]
<1>2. [r EXCEPT !.pc = x] = s
  BY <1>1 DEF TaskRecord
<1>3. /\ [r EXCEPT !.pc = x, !.todo = y] = [[r EXCEPT !.pc = x] EXCEPT !.todo = y]
      /\ [r EXCEPT !.pc = x, !.mark = y] = [[r EXCEPT !.pc = x] EXCEPT !.mark = y]
      /\ [r EXCEPT !.pc = x, !.content = y] = [[r EXCEPT !.pc = x] EXCEPT !.content = y]
      /\ [r EXCEPT !.pc = x, !.loop = y] = [[r EXCEPT !.pc = x] EXCEPT !.loop = y]
  OBVIOUS
<1>4. [s EXCEPT !.todo = y] =
        [pc |-> x, event |-> e, loop |-> l, todo |-> y, mark |-> m, content |-> c]
  OBVIOUS
<1>5. [s EXCEPT !.mark = y] =
        [pc |-> x, event |-> e, loop |-> l, todo |-> q, mark |-> y, content |-> c]
  OBVIOUS
<1>6. [s EXCEPT !.content = y] =
        [pc |-> x, event |-> e, loop |-> l, todo |-> q, mark |-> m, content |-> y]
  OBVIOUS
<1>7. [s EXCEPT !.loop = y] =
        [pc |-> x, event |-> e, loop |-> y, todo |-> q, mark |-> m, content |-> c]
  OBVIOUS
<1> HIDE DEF s
<1> QED BY <1>0, <1>1, <1>2, <1>3, <1>4, <1>5, <1>6, <1>7

\* A call that goes on to another phase.
LEMMA GotoBecomes ==
    ASSUME TypeInv, NEW t \in Tasks,
           NEW pc \in {"list", "append", "remove"}, Goto(t, pc)
    PROVE  \E r \in TaskRecord :
             Becomes(t, r, pc, task[t].todo, task[t].mark, task[t].content)
<1>1. task \in [Tasks -> TaskRecord] /\ task[t] \in TaskRecord
  BY DEF TypeInv
<1>2. [task[t] EXCEPT !.pc = pc]
        = [pc |-> pc, event |-> task[t].event, loop |-> task[t].loop,
           todo |-> task[t].todo, mark |-> task[t].mark, content |-> task[t].content]
  BY <1>1 DEF TaskRecord
<1>3. [task[t] EXCEPT !.pc = pc] \in TaskRecord
  BY <1>1, <1>2 DEF TaskRecord
<1>4. task' = [task EXCEPT ![t] = [task[t] EXCEPT !.pc = pc]]
  BY <1>1 DEF Goto
<1> QED BY <1>2, <1>3, <1>4 DEF Becomes

\* A call that begins to dispatch: at the head of a list of pending entries.
LEMMA ListBecomes ==
    ASSUME TypeInv, NEW t \in Tasks, NEW todo \in Seq(Entries),
           task' = [task EXCEPT ![t].pc = "dispatch", ![t].todo = todo]
    PROVE  \E r \in TaskRecord :
             Becomes(t, r, "dispatch", todo, task[t].mark, task[t].content)
<1>1. task \in [Tasks -> TaskRecord] /\ task[t] \in TaskRecord
  BY DEF TypeInv
<1>2. [task[t] EXCEPT !.pc = "dispatch", !.todo = todo]
        = [pc |-> "dispatch", event |-> task[t].event, loop |-> task[t].loop,
           todo |-> todo, mark |-> task[t].mark, content |-> task[t].content]
  BY TaskUpdates
<1>3. [task[t] EXCEPT !.pc = "dispatch", !.todo = todo] \in TaskRecord
  BY <1>1, <1>2 DEF TaskRecord
<1>4. task' = [task EXCEPT ![t] = [task[t] EXCEPT !.pc = "dispatch", !.todo = todo]]
  BY <1>1
<1> QED BY <1>2, <1>3, <1>4 DEF Becomes

\* A call that goes on with the rest of its list.
LEMMA NextBecomes ==
    ASSUME TypeInv, NEW t \in Tasks, task[t].todo # <<>>, NextEntry(t)
    PROVE  \E r \in TaskRecord :
             Becomes(t, r, "dispatch", Tail(task[t].todo), task[t].mark, task[t].content)
<1>1. task \in [Tasks -> TaskRecord] /\ task[t] \in TaskRecord
  BY DEF TypeInv
<1>2. Tail(task[t].todo) \in Seq(Entries)
  BY <1>1, SeqFacts DEF TaskRecord
<1>3. task' = [task EXCEPT ![t].pc = "dispatch", ![t].todo = Tail(task[t].todo)]
  BY <1>1 DEF NextEntry, TaskRecord
<1> QED BY <1>2, <1>3, ListBecomes

\* A call that will read the file to mark its entry.
LEMMA ReadBecomes ==
    ASSUME TypeInv, NEW t \in Tasks, NEW mark \in {"done", "failed"},
           task' = [task EXCEPT ![t].pc = "read", ![t].mark = mark]
    PROVE  \E r \in TaskRecord :
             Becomes(t, r, "read", task[t].todo, mark, task[t].content)
<1>1. task \in [Tasks -> TaskRecord] /\ task[t] \in TaskRecord
  BY DEF TypeInv
<1>2. [task[t] EXCEPT !.pc = "read", !.mark = mark]
        = [pc |-> "read", event |-> task[t].event, loop |-> task[t].loop,
           todo |-> task[t].todo, mark |-> mark, content |-> task[t].content]
  BY TaskUpdates
<1>3. [task[t] EXCEPT !.pc = "read", !.mark = mark] \in TaskRecord
  BY <1>1, <1>2 DEF TaskRecord
<1>4. task' = [task EXCEPT ![t] = [task[t] EXCEPT !.pc = "read", !.mark = mark]]
  BY <1>1
<1> QED BY <1>2, <1>3, <1>4 DEF Becomes

\* A call that has prepared a content, and one that has written it.
LEMMA WriteBecomes ==
    ASSUME TypeInv, NEW t \in Tasks, NEW pc \in {"write", "rename"},
           NEW content \in Seq(Entries),
           task' = [task EXCEPT ![t].pc = pc, ![t].content = content]
    PROVE  \E r \in TaskRecord :
             Becomes(t, r, pc, task[t].todo, task[t].mark, content)
<1>1. task \in [Tasks -> TaskRecord] /\ task[t] \in TaskRecord
  BY DEF TypeInv
<1>2. [task[t] EXCEPT !.pc = pc, !.content = content]
        = [pc |-> pc, event |-> task[t].event, loop |-> task[t].loop,
           todo |-> task[t].todo, mark |-> task[t].mark, content |-> content]
  BY TaskUpdates
<1>3. [task[t] EXCEPT !.pc = pc, !.content = content] \in TaskRecord
  BY <1>1, <1>2 DEF TaskRecord
<1>4. task' = [task EXCEPT ![t] = [task[t] EXCEPT !.pc = pc, !.content = content]]
  BY <1>1
<1> QED BY <1>2, <1>3, <1>4 DEF Becomes

\* An idle call is well formed.
LEMMA IdleTaskFacts ==
    /\ IdleTask \in TaskRecord
    /\ TaskOK(IdleTask)
    /\ RanTask(IdleTask) /\ RanTask(IdleTask)'
<1>1. <<>> \in Seq(Entries)
  BY SeqFacts
<1>2. IdleTask \in TaskRecord
  BY <1>1 DEF IdleTask, TaskRecord
<1> QED BY <1>2 DEF IdleTask, TaskOK, RanTask, Ran

-----------------------------------------------------------------------------
(* Preservation of the invariant, action by action.                        *)

\* Runs are only ever added.
StartsGrow ==
    /\ starts' \in [Events -> Nat]
    /\ \A e \in Events : starts[e] > 0 => starts'[e] > 0

\* What had its run still had it.
LEMMA RanGrows ==
    ASSUME NEW c \in Seq(Entries), Ran(c), StartsGrow
    PROVE  Ran(c)'
<1>1. ASSUME NEW i \in DOMAIN c, c[i].state = "done" PROVE HadRun(c[i].event)'
  <2>1. c[i] \in Entries
    OBVIOUS
  <2>2. c[i].event \in Events
    BY <2>1 DEF Entries
  <2>3. HadRun(c[i].event)
    BY <1>1 DEF Ran
  <2> QED BY <2>2, <2>3 DEF StartsGrow, HadRun
<1> QED BY <1>1 DEF Ran

\* A step that leaves the files alone keeps what they say true.
LEMMA FilesStay ==
    ASSUME IInv, StartsGrow, UNCHANGED <<queue, tmp>>
    PROVE  Ran(queue)' /\ (tmp' # NoFile => Ran(tmp)')
<1>1. PICK q, p : q = queue /\ p = tmp
  OBVIOUS
<1>2. q \in Seq(Entries) /\ (p # NoFile => p \in Seq(Entries))
  BY <1>1 DEF IInv, TypeInv, TypeOK
<1>3. Ran(q) /\ (p # NoFile => Ran(p))
  BY <1>1 DEF IInv, DoneInv
<1>4. Ran(q)' /\ (p # NoFile => Ran(p)')
  BY <1>2, <1>3, RanGrows
<1>5. queue' = q /\ tmp' = p
  BY <1>1
<1> QED BY <1>4, <1>5 DEF Ran

\* So does one that changes a call: the other calls stay as they are.
LEMMA CallStep ==
    ASSUME IInv, StartsGrow, TypeOK', cron' \in CronRecord,
           Ran(queue)', tmp' # NoFile => Ran(tmp)',
           NEW t \in Tasks, NEW r \in TaskRecord, TaskOK(r), RanTask(r)',
           task' = [task EXCEPT ![t] = r]
    PROVE  IInv'
<1>1. task \in [Tasks -> TaskRecord] /\ task' \in [Tasks -> TaskRecord]
  BY DEF IInv, TypeInv
<1>2. task'[t] = r /\ \A u \in Tasks : u # t => task'[u] = task[u]
  BY <1>1
<1>3. ASSUME NEW u \in Tasks PROVE TaskOK(task'[u]) /\ RanTask(task[u])'
  <2>1. CASE u = t
    <3>1. task'[u] = r
      BY <1>2, <2>1
    <3> QED BY <3>1 DEF RanTask, Ran, HadRun
  <2>2. CASE u # t
    <3>1. PICK x \in TaskRecord : x = task[u]
      BY <1>1
    <3>2. TaskOK(x) /\ RanTask(x)
      BY <3>1 DEF IInv, TypeInv, DoneInv
    <3>3. x.content \in Seq(Entries) /\ x.todo \in Seq(Entries)
      BY DEF TaskRecord
    <3>4. Ran(x.content)'
      BY <3>2, <3>3, RanGrows DEF RanTask
    <3>5. x.pc = "read" => Head(x.todo).event \in Events
      <4>1. x.pc = "read" => Head(x.todo) \in Entries
        BY <3>2, <3>3, SeqFacts DEF TaskOK
      <4> QED BY <4>1 DEF Entries
    <3>6. RanTask(x)'
      BY <3>2, <3>4, <3>5 DEF RanTask, StartsGrow, HadRun
    <3>7. task'[u] = x
      BY <1>2, <2>2, <3>1
    <3> QED BY <3>2, <3>6, <3>7 DEF RanTask, Ran, HadRun
  <2> QED BY <2>1, <2>2
<1>4. TypeInv'
  BY <1>1, <1>3 DEF TypeInv, StartsGrow
<1>5. DoneInv'
  BY <1>3 DEF DoneInv
<1> QED BY <1>4, <1>5 DEF IInv

\* A step without a call, that starts nothing and leaves the queue alone.
LEMMA OtherStep ==
    ASSUME IInv, UNCHANGED <<task, queue, tmp, starts>>, TypeOK', cron' \in CronRecord
    PROVE  IInv'
<1>1. TypeInv'
  BY DEF IInv, TypeInv
<1>2. DoneInv'
  BY DEF IInv, DoneInv, RanTask, Ran, HadRun
<1> QED BY <1>1, <1>2 DEF IInv

\* The facts of the invariant about one call.
LEMMA CallFacts ==
    ASSUME IInv, NEW t \in Tasks
    PROVE  /\ TypeInv /\ TypeOK /\ cron \in CronRecord /\ starts \in [Events -> Nat]
           /\ task[t] \in TaskRecord /\ TaskOK(task[t]) /\ RanTask(task[t])
           /\ task[t].todo \in Seq(Entries) /\ task[t].content \in Seq(Entries)
           /\ task[t].todo # <<>> => /\ Head(task[t].todo) \in Entries
                                     /\ Head(task[t].todo).event \in Events
<1>1. /\ task[t] \in TaskRecord /\ TaskOK(task[t]) /\ RanTask(task[t])
      /\ TypeInv /\ TypeOK /\ cron \in CronRecord /\ starts \in [Events -> Nat]
  BY DEF IInv, TypeInv, DoneInv
<1>2. task[t].todo \in Seq(Entries) /\ task[t].content \in Seq(Entries)
  BY <1>1 DEF TaskRecord
<1>3. task[t].todo # <<>> => Head(task[t].todo) \in Entries
  BY <1>2, SeqFacts
<1>4. \A x \in Entries : x.event \in Events
  BY DEF Entries
<1> QED BY <1>1, <1>2, <1>3, <1>4

\* The record with which enqueue() begins.
LEMMA DeliverBecomes ==
    ASSUME NEW e \in Events
    PROVE  [IdleTask EXCEPT !.pc = "find", !.event = e, !.loop = LoopOf(e)]
             = [pc |-> "find", event |-> e, loop |-> LoopOf(e), todo |-> <<>>,
                mark |-> "done", content |-> <<>>]
<1> DEFINE l == LoopOf(e)
           r == [pc |-> "find", event |-> NoEvent, loop |-> AllLoops, todo |-> <<>>,
                 mark |-> "done", content |-> <<>>]
           s == [pc |-> "find", event |-> e, loop |-> AllLoops, todo |-> <<>>,
                 mark |-> "done", content |-> <<>>]
<1> HIDE DEF l
<1>1. [IdleTask EXCEPT !.pc = "find"] = r
  BY DEF IdleTask
<1>2. [r EXCEPT !.event = e] = s
  OBVIOUS
<1>3. [s EXCEPT !.loop = l] = [pc |-> "find", event |-> e, loop |-> l, todo |-> <<>>,
                               mark |-> "done", content |-> <<>>]
  OBVIOUS
<1>4. [IdleTask EXCEPT !.pc = "find", !.event = e, !.loop = l]
        = [[[IdleTask EXCEPT !.pc = "find"] EXCEPT !.event = e] EXCEPT !.loop = l]
  OBVIOUS
<1> QED BY <1>1, <1>2, <1>3, <1>4 DEF l

\* The beginning of a delivery, of a timer's drain and of a deletion.
LEMMA BeginsInv ==
    ASSUME IInv, NEW t \in Tasks,
           \/ \E e \in Events : Deliver(t, e)
           \/ DrainTimer(t)
           \/ \E l \in Managed : DeleteLoop(t, l)
    PROVE  IInv'
<1>0. /\ TypeInv /\ TypeOK /\ cron \in CronRecord /\ starts \in [Events -> Nat]
      /\ task[t] \in TaskRecord /\ TaskOK(task[t]) /\ RanTask(task[t])
  BY CallFacts
<1>1. UNCHANGED <<queue, tmp, active, loops, minute, cron, firedFile, starts, accepted, crashes>>
      /\ arrivals' \subseteq arrivals
  BY DEF Deliver, DrainTimer, DeleteLoop
<1>2. TypeOK' /\ cron' \in CronRecord /\ StartsGrow
  BY <1>0, <1>1 DEF TypeOK, StartsGrow
<1>3. Ran(queue)' /\ (tmp' # NoFile => Ran(tmp)')
  BY <1>1, <1>2, FilesStay
<1>4. CASE \E e \in Events : Deliver(t, e)
  <2>1. PICK e \in Events : Deliver(t, e)
    BY <1>4
  <2>2. PICK r : r = [pc |-> "find", event |-> e, loop |-> LoopOf(e), todo |-> <<>>,
                      mark |-> "done", content |-> <<>>]
    OBVIOUS
  <2>3. task' = [task EXCEPT ![t] = r]
    BY <2>1, <2>2, DeliverBecomes DEF Deliver
  <2>4. r \in TaskRecord
    BY <2>2, LoopOfType, SeqFacts DEF TaskRecord
  <2>5. TaskOK(r) /\ RanTask(r)'
    BY <2>2 DEF TaskOK, RanTask, Ran
  <2> QED BY <1>2, <1>3, <2>3, <2>4, <2>5, CallStep
<1>5. CASE DrainTimer(t)
  <2>1. PICK r \in TaskRecord :
          Becomes(t, r, "list", task[t].todo, task[t].mark, task[t].content)
    BY <1>0, <1>5, GotoBecomes DEF DrainTimer
  <2>2. TaskOK(r) /\ RanTask(r)'
    <3>1. task[t].pc = "idle"
      BY <1>5 DEF DrainTimer, At
    <3>2. r.pc = "list" /\ r.todo = task[t].todo /\ r.content = task[t].content
      BY <2>1 DEF Becomes
    <3>3. TaskOK(r)
      BY <1>0, <3>1, <3>2 DEF TaskOK
    <3>4. Ran(r.content)
      BY <1>0, <3>2 DEF RanTask
    <3> QED BY <1>1, <3>2, <3>3, <3>4 DEF RanTask, Ran, HadRun
  <2> QED BY <1>2, <1>3, <2>1, <2>2, CallStep DEF Becomes
<1>6. CASE \E l \in Managed : DeleteLoop(t, l)
  <2>1. PICK l \in Managed : DeleteLoop(t, l)
    BY <1>6
  <2>2. l \in Loops
    BY TriggerConstants
  <2>3. PICK r : r = [pc |-> "delete", event |-> task[t].event, loop |-> l,
                      todo |-> task[t].todo, mark |-> task[t].mark,
                      content |-> task[t].content]
    OBVIOUS
  <2>4. task' = [task EXCEPT ![t] = r]
    <3>1. task' = [task EXCEPT ![t] = [task[t] EXCEPT !.pc = "delete", !.loop = l]]
      BY <1>0, <2>1 DEF DeleteLoop, TypeInv
    <3>2. [task[t] EXCEPT !.pc = "delete", !.loop = l] = r
      BY <1>0, <2>3, TaskUpdates
    <3> QED BY <3>1, <3>2
  <2>5. r \in TaskRecord
    BY <1>0, <2>2, <2>3, TaskFields DEF TaskRecord
  <2>6. TaskOK(r) /\ RanTask(r)'
    <3>1. task[t].pc = "idle"
      BY <2>1 DEF DeleteLoop, At
    <3>2. r.pc = "delete" /\ r.loop = l /\ r.todo = task[t].todo /\ r.content = task[t].content
      BY <2>3
    <3>3. TaskOK(r)
      BY <1>0, <2>2, <3>1, <3>2 DEF TaskOK
    <3>4. Ran(r.content)
      BY <1>0, <3>2 DEF RanTask
    <3> QED BY <1>1, <3>2, <3>3, <3>4 DEF RanTask, Ran, HadRun
  <2> QED BY <1>2, <1>3, <2>4, <2>5, <2>6, CallStep
<1> QED BY <1>4, <1>5, <1>6

\* A call that keeps its content has it true still.
LEMMA ContentStays ==
    ASSUME IInv, StartsGrow, NEW t \in Tasks, NEW r, r.content = task[t].content
    PROVE  Ran(r.content)'
<1>1. PICK c \in Seq(Entries) : c = task[t].content
  BY CallFacts
<1>2. Ran(c)
  BY <1>1, CallFacts DEF RanTask
<1>3. Ran(c)'
  BY <1>2, RanGrows
<1> QED BY <1>1, <1>3 DEF Ran

\* A return, whatever was done before it.
LEMMA ReturnStep ==
    ASSUME IInv, StartsGrow, TypeOK', cron' \in CronRecord,
           Ran(queue)', tmp' # NoFile => Ran(tmp)', NEW t \in Tasks, Return(t)
    PROVE  IInv'
BY IdleTaskFacts, CallStep DEF Return

\* Going on with the rest of the list, whatever was done before it.
LEMMA NextEntryStep ==
    ASSUME IInv, StartsGrow, TypeOK', cron' \in CronRecord,
           Ran(queue)', tmp' # NoFile => Ran(tmp)', NEW t \in Tasks,
           task[t].todo # <<>>, NextEntry(t)
    PROVE  IInv'
<1>1. PICK r \in TaskRecord :
        Becomes(t, r, "dispatch", Tail(task[t].todo), task[t].mark, task[t].content)
  BY CallFacts, NextBecomes
<1>2. r.pc = "dispatch" /\ r.content = task[t].content
  BY <1>1 DEF Becomes
<1>3. TaskOK(r)
  BY <1>2 DEF TaskOK
<1>4. RanTask(r)'
  BY <1>2, ContentStays DEF RanTask
<1> QED BY <1>1, <1>3, <1>4, CallStep DEF Becomes

\* A step that leaves the files alone and starts nothing keeps all but the call.
LEMMA QuietFacts ==
    ASSUME IInv, UNCHANGED <<queue, tmp, active, loops, minute, cron, firedFile,
                             arrivals, starts, crashes>>,
           accepted' \subseteq Events
    PROVE  /\ TypeOK' /\ cron' \in CronRecord /\ StartsGrow
           /\ Ran(queue)' /\ (tmp' # NoFile => Ran(tmp)')
<1>1. TypeOK /\ cron \in CronRecord /\ starts \in [Events -> Nat]
  BY DEF IInv, TypeInv
<1>2. TypeOK' /\ cron' \in CronRecord /\ StartsGrow
  BY <1>1 DEF TypeOK, StartsGrow
<1> QED BY <1>2, FilesStay

\* findByEventId().
LEMMA FindInv == ASSUME IInv, NEW t \in Tasks, FindByEventId(t) PROVE IInv'
<1>1. /\ task[t] \in TaskRecord /\ TaskOK(task[t]) /\ task[t].pc = "find" /\ TypeInv /\ TypeOK
  BY CallFacts DEF FindByEventId, At
<1>2. task[t].event \in Events /\ accepted \subseteq Events
  BY <1>1 DEF TaskOK, TypeOK
<1>3. accepted' \subseteq Events
  BY <1>2 DEF FindByEventId
<1>4. /\ TypeOK' /\ cron' \in CronRecord /\ StartsGrow
      /\ Ran(queue)' /\ (tmp' # NoFile => Ran(tmp)')
  BY <1>3, QuietFacts DEF FindByEventId
<1>5. PICK pc \in {"list", "append"} : Goto(t, pc)
  BY DEF FindByEventId
<1>6. PICK r \in TaskRecord :
        Becomes(t, r, pc, task[t].todo, task[t].mark, task[t].content)
  BY <1>1, <1>5, GotoBecomes
<1>7. /\ r.pc \in {"list", "append"} /\ r.todo = task[t].todo
      /\ r.event = task[t].event /\ r.content = task[t].content
  BY <1>6 DEF Becomes
<1>8. TaskOK(r)
  BY <1>1, <1>2, <1>7 DEF TaskOK
<1>9. RanTask(r)'
  BY <1>4, <1>7, ContentStays DEF RanTask
<1> QED BY <1>4, <1>6, <1>8, <1>9, CallStep DEF Becomes

\* enqueue() appends a pending entry.
LEMMA AppendInv == ASSUME IInv, NEW t \in Tasks, AppendEntry(t) PROVE IInv'
<1>1. /\ task[t] \in TaskRecord /\ TaskOK(task[t]) /\ task[t].pc = "append"
      /\ TypeInv /\ TypeOK /\ cron \in CronRecord /\ starts \in [Events -> Nat]
  BY CallFacts DEF AppendEntry, At
<1>2. PICK e \in Events : e = task[t].event
  BY <1>1 DEF TaskOK
<1>3. PICK x : x = [event |-> e, state |-> "pending"]
  OBVIOUS
<1>4. x \in Entries
  BY <1>3 DEF Entries, EntryState
<1>5. PICK q \in Seq(Entries) : q = queue
  BY <1>1 DEF TypeOK
<1>6. queue' = Append(q, x)
  BY <1>2, <1>3, <1>5 DEF AppendEntry
<1>7. /\ Append(q, x) \in Seq(Entries)
      /\ \A i \in DOMAIN Append(q, x) :
           (i \in DOMAIN q /\ Append(q, x)[i] = q[i]) \/ Append(q, x)[i] = x
  BY <1>4
<1>8. TypeOK'
  <2>1. accepted' \subseteq Events
    BY <1>1, <1>2 DEF AppendEntry, TypeOK
  <2>2. queue' \in Seq(Entries)
    BY <1>6, <1>7
  <2> QED BY <1>1, <2>1, <2>2 DEF AppendEntry, TypeOK
<1>9. cron' \in CronRecord /\ StartsGrow
  BY <1>1 DEF AppendEntry, StartsGrow
<1>10. Ran(queue)'
  <2>1. Ran(q)
    BY <1>5 DEF IInv, DoneInv
  <2>2. Ran(q)'
    BY <1>9, <2>1, RanGrows
  <2>3. Ran(Append(q, x))'
    BY <1>3, <1>7, <2>2 DEF Ran
  <2> QED BY <1>6, <2>3 DEF Ran
<1>11. tmp' # NoFile => Ran(tmp)'
  BY DEF AppendEntry, IInv, DoneInv, Ran, HadRun
<1>12. PICK r \in TaskRecord :
        Becomes(t, r, "list", task[t].todo, task[t].mark, task[t].content)
  BY <1>1, GotoBecomes DEF AppendEntry
<1>13. r.pc = "list" /\ r.todo = task[t].todo /\ r.content = task[t].content
  BY <1>12 DEF Becomes
<1>14. TaskOK(r)
  BY <1>1, <1>13 DEF TaskOK
<1>15. RanTask(r)'
  BY <1>9, <1>13, ContentStays DEF RanTask
<1> QED BY <1>8, <1>9, <1>10, <1>11, <1>12, <1>14, <1>15, CallStep DEF Becomes

\* listPending().
LEMMA ListInv == ASSUME IInv, NEW t \in Tasks, ListPending(t) PROVE IInv'
<1>1. TypeInv /\ TypeOK
  BY CallFacts
<1>2. /\ TypeOK' /\ cron' \in CronRecord /\ StartsGrow
      /\ Ran(queue)' /\ (tmp' # NoFile => Ran(tmp)')
  <2>1. accepted' \subseteq Events
    BY <1>1 DEF ListPending, TypeOK
  <2> QED BY <2>1, QuietFacts DEF ListPending
<1>3. PICK todo \in Seq(Entries) : todo = PendingOf(queue, task[t].loop)
  BY <1>1, PendingOfFacts DEF TypeOK
<1>4. PICK r \in TaskRecord : Becomes(t, r, "dispatch", todo, task[t].mark, task[t].content)
  BY <1>1, <1>3, ListBecomes DEF ListPending
<1>5. r.pc = "dispatch" /\ r.content = task[t].content
  BY <1>4 DEF Becomes
<1>6. TaskOK(r)
  BY <1>5 DEF TaskOK
<1>7. RanTask(r)'
  BY <1>2, <1>5, ContentStays DEF RanTask
<1> QED BY <1>2, <1>4, <1>6, <1>7, CallStep DEF Becomes

\* A run is started, and counted, before its event is marked as done.
LEMMA DispatchInv == ASSUME IInv, NEW t \in Tasks, Dispatch(t) PROVE IInv'
<1>1. /\ TypeInv /\ TypeOK /\ cron \in CronRecord /\ starts \in [Events -> Nat]
      /\ task[t] \in TaskRecord /\ TaskOK(task[t])
  BY CallFacts
<1>2. CASE UNCHANGED <<active, starts>> /\ Return(t)
  <2>1. accepted' \subseteq Events
    BY <1>1 DEF Dispatch, TypeOK
  <2>2. /\ TypeOK' /\ cron' \in CronRecord /\ StartsGrow
        /\ Ran(queue)' /\ (tmp' # NoFile => Ran(tmp)')
    BY <1>2, <2>1, QuietFacts DEF Dispatch
  <2> QED BY <1>2, <2>2, ReturnStep
<1>3. CASE UNCHANGED <<active, starts>> /\ NextEntry(t) /\ task[t].todo # <<>>
  <2>1. accepted' \subseteq Events
    BY <1>1 DEF Dispatch, TypeOK
  <2>2. /\ TypeOK' /\ cron' \in CronRecord /\ StartsGrow
        /\ Ran(queue)' /\ (tmp' # NoFile => Ran(tmp)')
    BY <1>3, <2>1, QuietFacts DEF Dispatch
  <2> QED BY <1>3, <2>2, NextEntryStep
<1>4. ASSUME task[t].todo # <<>>, NEW m \in {"done", "failed"}, MarkNext(t, m),
             StartsGrow, active' \in [Loops -> BOOLEAN],
             \A e : e = Head(task[t].todo).event /\ m = "done" => HadRun(e)'
      PROVE  IInv'
  <2>1. TypeOK' /\ cron' \in CronRecord
    BY <1>1, <1>4 DEF Dispatch, TypeOK
  <2>2. Ran(queue)' /\ (tmp' # NoFile => Ran(tmp)')
    BY <1>4, FilesStay DEF Dispatch
  <2>3. PICK r \in TaskRecord : Becomes(t, r, "read", task[t].todo, m, task[t].content)
    BY <1>1, <1>4, ReadBecomes DEF MarkNext
  <2>4. r.pc = "read" /\ r.todo = task[t].todo /\ r.mark = m /\ r.content = task[t].content
    BY <2>3 DEF Becomes
  <2>5. TaskOK(r)
    BY <1>4, <2>4 DEF TaskOK
  <2>6. Ran(r.content)'
    BY <1>4, <2>4, ContentStays
  <2>7. PICK e : e = Head(task[t].todo).event
    OBVIOUS
  <2>8. (m = "done" => HadRun(e)') /\ Head(r.todo).event = e
    BY <1>4, <2>4, <2>7
  <2>9. RanTask(r)'
    BY <2>4, <2>6, <2>8 DEF RanTask, HadRun
  <2> QED BY <1>4, <2>1, <2>2, <2>3, <2>5, <2>9, CallStep DEF Becomes
<1>5. CASE task[t].todo = <<>>
  BY <1>2, <1>5 DEF Dispatch
<1>6. CASE task[t].todo # <<>>
  <2>1. PICK e \in Events : e = Head(task[t].todo).event
    BY <1>6, CallFacts
  <2>2. LoopOf(e) \in Loops /\ active \in [Loops -> BOOLEAN]
    BY <1>1, LoopOfType DEF TypeOK
  <2>3. UNCHANGED starts => StartsGrow
    BY <1>1 DEF StartsGrow
  <2>4. CASE ParseThrows(t, e)
    BY <1>2, <2>4 DEF ParseThrows
  <2>5. CASE DispatchResume(t, e)
    <3>1. PICK m \in {"done", "failed"} : MarkNext(t, m)
      BY <2>5 DEF DispatchResume
    <3>2. StartsGrow /\ active' \in [Loops -> BOOLEAN] /\ HadRun(e)'
      BY <2>2, <2>3, <2>5 DEF DispatchResume, HadRun
    <3> QED BY <1>4, <1>6, <2>1, <3>1, <3>2
  <2>6. CASE LeavePending(t, e)
    BY <1>2, <1>3, <1>6, <2>6 DEF LeavePending
  <2>7. CASE StartFor(t, e)
    <3> DEFINE l == LoopOf(e)
    <3>1. PICK m \in {"done", "failed"} : MarkNext(t, m) /\ (m = "done" => m = Outcome(l))
      BY <2>7 DEF StartFor, Outcome
    <3>2. StartsGrow /\ active' \in [Loops -> BOOLEAN] /\ (m = "done" => starts'[e] > 0)
      <4>1. CASE loops[l] = "open"
        <5>1. /\ active' = [active EXCEPT ![l] = TRUE]
              /\ starts' = [starts EXCEPT ![e] = starts[e] + 1] /\ starts[e] \in Nat
          BY <1>1, <2>7, <4>1 DEF StartFor
        <5> QED BY <1>1, <2>2, <5>1 DEF StartsGrow
      <4>2. CASE loops[l] # "open"
        <5>1. m # "done" /\ UNCHANGED <<active, starts>>
          BY <2>7, <3>1, <4>2 DEF StartFor, Outcome
        <5> QED BY <2>2, <2>3, <5>1
      <4> QED BY <4>1, <4>2
    <3>3. m = "done" => HadRun(e)'
      BY <3>2 DEF HadRun
    <3> QED BY <1>4, <1>6, <2>1, <3>1, <3>2, <3>3
  <2> QED BY <1>6, <2>1, <2>4, <2>5, <2>6, <2>7 DEF Dispatch
<1> QED BY <1>5, <1>6

\* mark() has its entry, or has found none.
LEMMA AfterMarkStep ==
    ASSUME IInv, StartsGrow, TypeOK', cron' \in CronRecord,
           Ran(queue)', tmp' # NoFile => Ran(tmp)', NEW t \in Tasks,
           task[t].todo # <<>>, AfterMark(t)
    PROVE  IInv'
<1>1. CASE Return(t)
  BY <1>1, ReturnStep
<1>2. CASE NextEntry(t)
  BY <1>2, NextEntryStep
<1> QED BY <1>1, <1>2 DEF AfterMark

\* A rewritten file is prepared: its content must be true.
LEMMA WriteStep ==
    ASSUME IInv, StartsGrow, TypeOK', cron' \in CronRecord,
           Ran(queue)', tmp' # NoFile => Ran(tmp)', NEW t \in Tasks,
           NEW pc \in {"write", "rename"}, NEW c \in Seq(Entries), Ran(c),
           task' = [task EXCEPT ![t].pc = pc, ![t].content = c]
    PROVE  IInv'
<1>1. PICK r \in TaskRecord : Becomes(t, r, pc, task[t].todo, task[t].mark, c)
  BY CallFacts, WriteBecomes
<1>2. r.pc = pc /\ r.content = c
  BY <1>1 DEF Becomes
<1>3. TaskOK(r)
  BY <1>2 DEF TaskOK
<1>4. Ran(c)'
  BY RanGrows
<1>5. RanTask(r)'
  BY <1>2, <1>4 DEF RanTask
<1> QED BY <1>1, <1>3, <1>5, CallStep DEF Becomes

\* mark() reads the file.
LEMMA ReadInv == ASSUME IInv, NEW t \in Tasks, ReadForMark(t) PROVE IInv'
<1>1. /\ TypeInv /\ TypeOK /\ task[t] \in TaskRecord /\ TaskOK(task[t]) /\ RanTask(task[t])
      /\ task[t].pc = "read"
  BY CallFacts DEF ReadForMark, At
<1>2. task[t].todo # <<>>
  BY <1>1 DEF TaskOK
<1>3. /\ TypeOK' /\ cron' \in CronRecord /\ StartsGrow
      /\ Ran(queue)' /\ (tmp' # NoFile => Ran(tmp)')
  <2>1. accepted' \subseteq Events
    BY <1>1 DEF ReadForMark, TypeOK
  <2> QED BY <2>1, QuietFacts DEF ReadForMark
<1>4. PICK e \in Events : e = Head(task[t].todo).event
  BY <1>2, CallFacts
<1>5. PICK q \in Seq(Entries) : q = queue
  BY <1>1 DEF TypeOK
<1>6. PICK m \in {"done", "failed"} : m = task[t].mark
  BY <1>1, TaskFields
<1>7. CASE IsQueued(q, e)
  <2>1. PICK c : c = Marked(q, e, m)
    OBVIOUS
  <2>2. task' = [task EXCEPT ![t].pc = "write", ![t].content = c]
    BY <1>4, <1>5, <1>6, <1>7, <2>1 DEF ReadForMark
  <2>3. m \in EntryState
    BY DEF EntryState
  <2>4. /\ c \in Seq(Entries) /\ Len(c) = Len(q)
        /\ \E k \in 1..Len(q) :
             /\ q[k].event = e
             /\ \A i \in 1..Len(q) : c[i] = IF i = k THEN [event |-> e, state |-> m] ELSE q[i]
    BY <1>7, <2>1, <2>3, MarkedFacts
  <2>5. PICK k \in 1..Len(q) :
          \A i \in 1..Len(q) : c[i] = IF i = k THEN [event |-> e, state |-> m] ELSE q[i]
    BY <2>4
  <2>6. m = "done" => HadRun(e)
    BY <1>1, <1>4, <1>6 DEF RanTask
  <2>7. Ran(q)
    BY <1>5 DEF IInv, DoneInv
  <2>8. ASSUME NEW i \in DOMAIN c, c[i].state = "done" PROVE HadRun(c[i].event)
    <3>1. i \in 1..Len(q)
      BY <2>4
    <3>2. CASE i = k
      BY <2>5, <2>6, <2>8, <3>1, <3>2
    <3>3. CASE i # k
      <4>1. c[i] = q[i] /\ i \in DOMAIN q
        BY <2>5, <3>1, <3>3
      <4> QED BY <2>7, <2>8, <4>1 DEF Ran
    <3> QED BY <3>2, <3>3
  <2>9. Ran(c)
    BY <2>8 DEF Ran
  <2> QED BY <1>3, <2>2, <2>4, <2>9, WriteStep
<1>8. CASE ~IsQueued(q, e)
  <2>1. AfterMark(t)
    BY <1>4, <1>5, <1>8 DEF ReadForMark
  <2> QED BY <1>2, <1>3, <2>1, AfterMarkStep
<1> QED BY <1>7, <1>8

\* The content goes to queue.jsonl.tmp.
LEMMA WriteInv == ASSUME IInv, NEW t \in Tasks, WriteTmp(t) PROVE IInv'
<1>1. /\ TypeInv /\ TypeOK /\ cron \in CronRecord /\ starts \in [Events -> Nat]
      /\ task[t] \in TaskRecord /\ RanTask(task[t])
  BY CallFacts
<1>2. PICK c \in Seq(Entries) : c = task[t].content
  BY CallFacts
<1>3. tmp' = c /\ Ran(c)
  BY <1>1, <1>2 DEF WriteTmp, RanTask
<1>4. TypeOK' /\ cron' \in CronRecord /\ StartsGrow
  BY <1>1, <1>3 DEF WriteTmp, TypeOK, StartsGrow
<1>5. Ran(queue)'
  <2>1. PICK q \in Seq(Entries) : q = queue
    BY <1>1 DEF TypeOK
  <2>2. Ran(q)'
    BY <1>4, <2>1, RanGrows DEF IInv, DoneInv
  <2>3. queue' = q
    BY <2>1 DEF WriteTmp
  <2> QED BY <2>2, <2>3 DEF Ran
<1>6. Ran(tmp)'
  <2>1. Ran(c)'
    BY <1>3, <1>4, RanGrows
  <2> QED BY <1>3, <2>1 DEF Ran
<1>7. <<>> \in Seq(Entries) /\ Ran(<<>>)
  BY SeqFacts DEF Ran
<1>8. task' = [task EXCEPT ![t].pc = "rename", ![t].content = <<>>]
  BY DEF WriteTmp
<1> QED BY <1>4, <1>5, <1>6, <1>7, <1>8, WriteStep

\* The file is replaced, or another call was faster.
LEMMA RenameInv == ASSUME IInv, NEW t \in Tasks, Rename(t) PROVE IInv'
<1>1. /\ TypeInv /\ TypeOK /\ cron \in CronRecord /\ starts \in [Events -> Nat]
  BY CallFacts
<1>2. CASE tmp # NoFile /\ queue' = tmp /\ tmp' = NoFile
           /\ (IF task[t].todo = <<>> THEN Return(t) ELSE AfterMark(t))
  <2>1. PICK q \in Seq(Entries) : q = tmp
    BY <1>1, <1>2 DEF TypeOK
  <2>2. TypeOK' /\ cron' \in CronRecord /\ StartsGrow
    BY <1>1, <1>2, <2>1 DEF Rename, TypeOK, StartsGrow
  <2>3. Ran(queue)'
    <3>1. Ran(q)'
      BY <1>2, <2>1, <2>2, RanGrows DEF IInv, DoneInv
    <3> QED BY <1>2, <2>1, <3>1 DEF Ran
  <2> QED BY <1>2, <2>2, <2>3, ReturnStep, AfterMarkStep
<1>3. CASE tmp = NoFile /\ UNCHANGED <<queue, tmp>>
           /\ (IF task[t].todo # <<>> /\ task[t].mark = "done"
                 THEN task' = [task EXCEPT ![t].pc = "read", ![t].mark = "failed"]
                 ELSE Return(t))
  <2>1. /\ TypeOK' /\ cron' \in CronRecord /\ StartsGrow
        /\ Ran(queue)' /\ (tmp' # NoFile => Ran(tmp)')
    <3>1. accepted' \subseteq Events
      BY <1>1 DEF Rename, TypeOK
    <3> QED BY <1>3, <3>1, QuietFacts DEF Rename
  <2>2. CASE Return(t)
    BY <2>1, <2>2, ReturnStep
  <2>3. CASE task[t].todo # <<>>
             /\ task' = [task EXCEPT ![t].pc = "read", ![t].mark = "failed"]
    <3>1. PICK r \in TaskRecord :
            Becomes(t, r, "read", task[t].todo, "failed", task[t].content)
      BY <1>1, <2>3, ReadBecomes
    <3>2. /\ r.pc = "read" /\ r.todo = task[t].todo /\ r.mark = "failed"
          /\ r.content = task[t].content
      BY <3>1 DEF Becomes
    <3>3. TaskOK(r)
      BY <2>3, <3>2 DEF TaskOK
    <3>4. RanTask(r)'
      BY <2>1, <3>2, ContentStays DEF RanTask
    <3> QED BY <2>1, <3>1, <3>3, <3>4, CallStep DEF Becomes
  <2> QED BY <1>3, <2>2, <2>3
<1> QED BY <1>2, <1>3 DEF Rename

\* deleteLoopData().
LEMMA DeleteInv == ASSUME IInv, NEW t \in Tasks, DeleteLoopData(t) PROVE IInv'
<1>1. /\ TypeInv /\ TypeOK /\ cron \in CronRecord /\ starts \in [Events -> Nat]
      /\ task[t] \in TaskRecord /\ TaskOK(task[t]) /\ task[t].pc = "delete"
  BY CallFacts DEF DeleteLoopData, At
<1>2. task[t].loop \in Loops
  BY <1>1 DEF TaskOK
<1>3. TypeOK' /\ cron' \in CronRecord /\ StartsGrow
  BY <1>1, <1>2 DEF DeleteLoopData, TypeOK, StartsGrow
<1>4. Ran(queue)' /\ (tmp' # NoFile => Ran(tmp)')
  BY <1>3, FilesStay DEF DeleteLoopData
<1>5. PICK r \in TaskRecord :
        Becomes(t, r, "remove", task[t].todo, task[t].mark, task[t].content)
  BY <1>1, GotoBecomes DEF DeleteLoopData
<1>6. /\ r.pc = "remove" /\ r.todo = task[t].todo /\ r.loop = task[t].loop
      /\ r.content = task[t].content
  BY <1>5 DEF Becomes
<1>7. TaskOK(r)
  BY <1>1, <1>2, <1>6 DEF TaskOK
<1>8. RanTask(r)'
  BY <1>3, <1>6, ContentStays DEF RanTask
<1> QED BY <1>3, <1>4, <1>5, <1>7, <1>8, CallStep DEF Becomes

\* removeByLoopId() reads the file.
LEMMA RemoveInv == ASSUME IInv, NEW t \in Tasks, RemoveByLoopId(t) PROVE IInv'
<1>1. TypeInv /\ TypeOK
  BY CallFacts
<1>2. /\ TypeOK' /\ cron' \in CronRecord /\ StartsGrow
      /\ Ran(queue)' /\ (tmp' # NoFile => Ran(tmp)')
  <2>1. accepted' \subseteq Events
    BY <1>1 DEF RemoveByLoopId, TypeOK
  <2> QED BY <2>1, QuietFacts DEF RemoveByLoopId
<1>3. PICK q \in Seq(Entries) : q = queue
  BY <1>1 DEF TypeOK
<1>4. PICK c \in Seq(Entries) : c = WithoutLoop(q, task[t].loop)
  BY WithoutLoopFacts
<1>5. Ran(c)
  <2>1. Ran(q)
    BY <1>3 DEF IInv, DoneInv
  <2>2. ASSUME NEW i \in DOMAIN c, c[i].state = "done" PROVE HadRun(c[i].event)
    <3>1. c[i] \in Elements(c)
      BY DEF Elements
    <3>2. c[i] \in Elements(q)
      BY <1>4, <3>1, WithoutLoopFacts
    <3>3. PICK j \in DOMAIN q : q[j] = c[i]
      BY <3>2 DEF Elements
    <3> QED BY <2>1, <2>2, <3>3 DEF Ran
  <2> QED BY <2>2 DEF Ran
<1>6. CASE Return(t)
  BY <1>2, <1>6, ReturnStep
<1>7. CASE task' = [task EXCEPT ![t].pc = "write", ![t].content = c]
  BY <1>2, <1>5, <1>7, WriteStep
<1> QED BY <1>3, <1>4, <1>6, <1>7 DEF RemoveByLoopId

-----------------------------------------------------------------------------
(* Steps that no call takes.                                               *)

\* PATCH of a loop, the end of a run and the clock.
LEMMA OthersInv ==
    ASSUME IInv, \/ \E l \in Managed : PatchFlag(l)
                 \/ \E l \in Loops : RunEnds(l)
                 \/ NextMinute
                 \/ SaveFired
    PROVE  IInv'
<1>1. TypeOK /\ cron \in CronRecord
  BY DEF IInv, TypeInv
<1>2. CASE \E l \in Managed : PatchFlag(l)
  <2>1. PICK l \in Loops : PatchFlag(l)
    BY <1>2, TriggerConstants
  <2>2. loops' \in [Loops -> {"open", "paused", "deleted"}]
    BY <1>1, <2>1 DEF PatchFlag, TypeOK
  <2>3. TypeOK' /\ cron' \in CronRecord
    BY <1>1, <2>1, <2>2 DEF PatchFlag, TypeOK
  <2> QED BY <2>1, <2>3, OtherStep DEF PatchFlag
<1>3. CASE \E l \in Loops : RunEnds(l)
  <2>1. PICK l \in Loops : RunEnds(l)
    BY <1>3
  <2>2. TypeOK' /\ cron' \in CronRecord
    BY <1>1, <2>1 DEF RunEnds, TypeOK
  <2> QED BY <2>1, <2>2, OtherStep DEF RunEnds
<1>4. CASE NextMinute
  <2>1. minute' \in 0..MaxMinute
    BY <1>1, <1>4, TriggerConstants DEF NextMinute, TypeOK
  <2>2. TypeOK' /\ cron' \in CronRecord
    BY <1>1, <1>4, <2>1 DEF NextMinute, TypeOK
  <2> QED BY <1>4, <2>2, OtherStep DEF NextMinute
<1>5. CASE SaveFired
  <2>1. cron' = [cron EXCEPT !.saving = FALSE] /\ firedFile' = cron.fired
    BY <1>5 DEF SaveFired
  <2>2. cron' \in CronRecord /\ cron'.fired = cron.fired /\ cron'.pending = cron.pending
    BY <1>1, <2>1 DEF CronRecord
  <2>3. TypeOK'
    BY <1>1, <1>5, <2>1, <2>2 DEF SaveFired, TypeOK
  <2> QED BY <1>5, <2>2, <2>3, OtherStep DEF SaveFired
<1> QED BY <1>2, <1>3, <1>4, <1>5

\* A tick fires keys of loops with a schedule, at this minute or at an earlier one.
LEMMA TickInv == ASSUME IInv, Tick PROVE IInv'
<1>1. TypeOK /\ cron \in CronRecord
  BY DEF IInv, TypeInv
<1>2. minute \in 0..MaxMinute
  BY <1>1 DEF TypeOK
<1> DEFINE idle    == {k \in cron.pending : ~active[k[1]]}
           waiting == StillWaiting(idle)
           due     == {DueKey(l) : l \in {x \in Cron :
                         /\ loops[x] # "deleted"
                         /\ \A k \in idle : k[1] # x}} \ FiredKeys
           fresh   == {k \in due : ~active[k[1]]}
           queued  == {k \in due \ fresh : \A w \in waiting : w[1] # k[1]}
<1>3. idle \subseteq CronEvents /\ waiting \subseteq CronEvents
  BY <1>1 DEF TypeOK, StillWaiting
<1>4. due \subseteq CronEvents
  BY <1>2 DEF DueKey, CronEvents
<1>5. fresh \subseteq CronEvents /\ queued \subseteq CronEvents
  BY <1>4
<1>6. FiredKeys \subseteq CronEvents
  BY <1>1 DEF FiredKeys, TypeOK
<1>7. /\ cron' = [loaded |-> TRUE, current |-> minute,
                  fired |-> FiredKeys \cup idle \cup fresh,
                  pending |-> waiting \cup queued, saving |-> TRUE]
      /\ arrivals' = arrivals \cup idle \cup fresh
      /\ UNCHANGED <<queue, tmp, task, active, loops, minute, firedFile,
                     deliveries, starts, accepted, crashes>>
  BY DEF Tick
<1> HIDE DEF idle, waiting, due, fresh, queued
<1>8. cron' \in CronRecord
  BY <1>2, <1>3, <1>5, <1>6, <1>7 DEF CronRecord
<1>9. cron'.fired \subseteq CronEvents /\ cron'.pending \subseteq CronEvents
  BY <1>8 DEF CronRecord
<1>10. arrivals' \subseteq CronEvents
  BY <1>1, <1>3, <1>5, <1>7 DEF TypeOK
<1>11. TypeOK'
  BY <1>1, <1>7, <1>9, <1>10 DEF TypeOK
<1> QED BY <1>7, <1>8, <1>11, OtherStep

\* The restart of the server.
LEMMA CrashInv == ASSUME IInv, Crash PROVE IInv'
<1>1. TypeOK /\ starts \in [Events -> Nat]
  BY DEF IInv, TypeInv
<1>2. cron' \in CronRecord /\ cron'.fired = {} /\ cron'.pending = {}
  BY TriggerConstants DEF Crash, FreshCron, CronRecord
<1>3. crashes' \in 0..MaxCrashes
  BY <1>1, TriggerConstants DEF Crash, TypeOK
<1>4. active' \in [Loops -> BOOLEAN]
  BY DEF Crash
<1>5. TypeOK'
  BY <1>1, <1>2, <1>3, <1>4 DEF Crash, TypeOK
<1>6. TypeInv'
  <2>1. task' \in [Tasks -> TaskRecord] /\ \A t \in Tasks : TaskOK(task'[t])
    BY IdleTaskFacts DEF Crash
  <2>2. starts' = starts
    BY DEF Crash
  <2> QED BY <1>1, <1>2, <1>5, <2>1, <2>2 DEF TypeInv
<1>7. DoneInv'
  <2>1. Ran(queue)' /\ (tmp' # NoFile => Ran(tmp)')
    BY <1>1, FilesStay DEF Crash, StartsGrow
  <2>2. ASSUME NEW t \in Tasks PROVE RanTask(task[t])'
    <3>1. task'[t] = IdleTask
      BY DEF Crash
    <3> QED BY <3>1 DEF RanTask, Ran, HadRun, IdleTask
  <2> QED BY <2>1, <2>2 DEF DoneInv
<1> QED BY <1>6, <1>7 DEF IInv

-----------------------------------------------------------------------------
(* The theorems for any number of calls.                                   *)

\* The first state satisfies the invariant.
LEMMA InitInv == ASSUME Init PROVE IInv
<1>1. TypeOK
  <2>1. <<>> \in Seq(Entries)
    BY SeqFacts
  <2> QED BY <2>1, TriggerConstants DEF Init, FreshCron, TypeOK
<1>2. task \in [Tasks -> TaskRecord] /\ \A t \in Tasks : TaskOK(task[t])
  BY IdleTaskFacts DEF Init
<1>3. cron \in CronRecord
  BY TriggerConstants DEF Init, FreshCron, CronRecord
<1>4. starts \in [Events -> Nat]
  BY DEF Init
<1>5. DoneInv
  BY DEF Init, DoneInv, RanTask, Ran, IdleTask
<1> QED BY <1>1, <1>2, <1>3, <1>4, <1>5 DEF IInv, TypeInv

\* No step invalidates the invariant.
LEMMA NextInv == ASSUME IInv, [Next]_vars PROVE IInv'
<1>1. CASE \E t \in Tasks : Step(t)
  <2>1. PICK t \in Tasks : Step(t)
    BY <1>1
  <2> QED BY <2>1, FindInv, AppendInv, ListInv, DispatchInv, ReadInv, WriteInv,
             RenameInv, DeleteInv, RemoveInv DEF Step
<1>2. CASE \E t \in Tasks : \/ DrainTimer(t)
                            \/ \E e \in Events : Deliver(t, e)
                            \/ \E l \in Managed : DeleteLoop(t, l)
  BY <1>2, BeginsInv
<1>3. CASE (\E l \in Managed : PatchFlag(l)) \/ (\E l \in Loops : RunEnds(l))
           \/ NextMinute \/ SaveFired
  BY <1>3, OthersInv
<1>4. CASE Tick
  BY <1>4, TickInv
<1>5. CASE Crash
  BY <1>5, CrashInv
<1>6. CASE UNCHANGED vars
  BY <1>6, OtherStep DEF vars, IInv, TypeInv, TypeOK
<1>7. CASE Next
  BY <1>1, <1>2, <1>3, <1>4, <1>5, <1>7 DEF Next
<1> QED BY <1>6, <1>7

\* The invariant holds in every state, whatever calls overlap and whenever the
\* server restarts.
THEOREM TriggerInvariant == Spec => []IInv
BY InitInv, NextInv, PTL DEF Spec

\* Every variable keeps its type: in particular the file of the queue is made
\* of entries only, and cron has fired and saved only keys of loops that have a
\* schedule.
THEOREM TriggerTypes == Spec => []TypeOK
<1>1. IInv => TypeOK
  BY DEF IInv, TypeInv
<1> QED BY <1>1, TriggerInvariant, PTL

\* An event that queue.jsonl calls done had a run, although the mark is written
\* steps after the start, from a copy of the file that other calls may have
\* replaced meanwhile: nothing is dropped as done.
THEOREM DoneEventsRan == Spec => []DoneHadItsRun
<1>1. IInv => DoneHadItsRun
  BY DEF IInv, DoneInv, Ran, HadRun, DoneHadItsRun
<1> QED BY <1>1, TriggerInvariant, PTL

-----------------------------------------------------------------------------
(* One call at a time.                                                     *)

\* What the invariant says about the only call.
LEMMA SerialFacts ==
    ASSUME OneCall, IInv, SerialInv, NEW t \in Tasks
    PROVE  /\ TypeInv /\ TypeOK /\ task[t] \in TaskRecord /\ TaskOK(task[t])
           /\ queue \in Seq(Entries) /\ Unique(queue) /\ AcceptedIsKept
           /\ SerialTask(task[t])
           /\ crashes \in Nat /\ starts \in [Events -> Nat]
           /\ \A e \in Events :
                /\ starts[e] <= 1 + crashes
                /\ starts[e] <= crashes \/ Settled(queue, e) \/ Deleted(e) \/ Marks(task[t], e)
<1>1. /\ TypeInv /\ TypeOK /\ task[t] \in TaskRecord /\ TaskOK(task[t])
      /\ starts \in [Events -> Nat]
  BY CallFacts
<1>2. queue \in Seq(Entries) /\ crashes \in Nat
  BY <1>1, TriggerConstants DEF TypeOK
<1>3. Unique(queue) /\ AcceptedIsKept /\ SerialTask(task[t])
  BY DEF SerialInv
<1>4. ASSUME NEW e \in Events
      PROVE  /\ starts[e] <= 1 + crashes
             /\ starts[e] <= crashes \/ Settled(queue, e) \/ Deleted(e) \/ Marks(task[t], e)
  <2>1. /\ starts[e] <= 1 + crashes
        /\ \/ starts[e] <= crashes \/ Settled(queue, e) \/ Deleted(e)
           \/ \E u \in Tasks : Marks(task[u], e)
    BY DEF SerialInv, StartsBounded
  <2>2. ASSUME NEW u \in Tasks, Marks(task[u], e) PROVE Marks(task[t], e)
    <3>1. u = t
      BY DEF OneCall
    <3> QED BY <2>2, <3>1
  <2> QED BY <2>1, <2>2
<1> QED BY <1>1, <1>2, <1>3, <1>4

\* A step of the only call.
LEMMA SerialCallStep ==
    ASSUME OneCall, IInv, NEW t \in Tasks, NEW r,
           task' = [task EXCEPT ![t] = r],
           Unique(queue)', AcceptedIsKept', SerialTask(r)',
           \A e \in Events :
             /\ starts'[e] <= 1 + crashes'
             /\ \/ starts'[e] <= crashes' \/ Settled(queue', e) \/ Deleted(e)'
                \/ Marks(r, e)
    PROVE  SerialInv'
<1>1. task'[t] = r
  BY DEF IInv, TypeInv
<1>2. ASSUME NEW u \in Tasks PROVE SerialTask(task[u])'
  <2>1. task'[u] = r
    BY <1>1 DEF OneCall
  <2> QED BY <2>1 DEF SerialTask, Rewrites, Deleted
<1>3. StartsBounded'
  BY <1>1 DEF StartsBounded
<1> QED BY <1>2, <1>3 DEF SerialInv

\* A step of the only call that leaves the queue and the loops alone, starts
\* nothing and still marks what it was about to mark.
LEMMA SerialQuiet ==
    ASSUME OneCall, IInv, SerialInv, NEW t \in Tasks, NEW r,
           task' = [task EXCEPT ![t] = r],
           UNCHANGED <<queue, loops, starts, crashes>>,
           AcceptedIsKept', SerialTask(r)',
           \A e \in Events : Marks(task[t], e) => Marks(r, e)
    PROVE  SerialInv'
<1>1. Unique(queue)'
  BY SerialFacts DEF Unique
<1>2. \A e \in Events : Deleted(e)' <=> Deleted(e)
  BY DEF Deleted
<1>3. \A e \in Events :
        /\ starts'[e] <= 1 + crashes'
        /\ starts'[e] <= crashes' \/ Settled(queue', e) \/ Deleted(e)' \/ Marks(r, e)
  BY <1>2, SerialFacts
<1> QED BY <1>1, <1>3, SerialCallStep

\* Accepted events are kept by a step that keeps the queue, the loops and them.
LEMMA AcceptedStays ==
    ASSUME SerialInv, UNCHANGED <<queue, loops, accepted>>
    PROVE  AcceptedIsKept'
BY DEF SerialInv, AcceptedIsKept

\* A rewritten content stays right as long as the queue does.
LEMMA RewritesStay ==
    ASSUME NEW c, NEW todo, Rewrites(c, todo), UNCHANGED <<queue>>,
           \A e \in Events : Deleted(e) => Deleted(e)'
    PROVE  Rewrites(c, todo)'
BY DEF Rewrites

\* An idle call, or one that returns, owes nothing.
LEMMA SerialIdle == SerialTask(IdleTask) /\ SerialTask(IdleTask)'
BY DEF SerialTask, IdleTask

\* Calls begin.
LEMMA BeginsSerial ==
    ASSUME OneCall, IInv, SerialInv, NEW t \in Tasks,
           \/ \E e \in Events : Deliver(t, e)
           \/ DrainTimer(t)
           \/ \E l \in Managed : DeleteLoop(t, l)
    PROVE  SerialInv'
<1>1. /\ TypeInv /\ task[t] \in TaskRecord /\ task[t].pc = "idle"
      /\ UNCHANGED <<queue, loops, starts, crashes, accepted>>
  BY SerialFacts DEF Deliver, DrainTimer, DeleteLoop, At
<1>2. AcceptedIsKept'
  BY <1>1, AcceptedStays
<1>3. \A e \in Events : ~Marks(task[t], e)
  BY <1>1 DEF Marks
<1>4. PICK r : task' = [task EXCEPT ![t] = r] /\ r.pc \in {"find", "list", "delete"}
  <2>1. CASE \E e \in Events : Deliver(t, e)
    <3>1. PICK e \in Events : Deliver(t, e)
      BY <2>1
    <3>2. PICK r : r = [pc |-> "find", event |-> e, loop |-> LoopOf(e), todo |-> <<>>,
                        mark |-> "done", content |-> <<>>]
      OBVIOUS
    <3>3. task' = [task EXCEPT ![t] = r] /\ r.pc = "find"
      BY <3>1, <3>2, DeliverBecomes DEF Deliver
    <3> QED BY <3>3
  <2>2. CASE DrainTimer(t)
    BY <1>1, <2>2, GotoBecomes DEF DrainTimer, Becomes
  <2>3. CASE \E l \in Managed : DeleteLoop(t, l)
    <3>1. PICK l \in Managed : DeleteLoop(t, l)
      BY <2>3
    <3>2. PICK r : r = [pc |-> "delete", event |-> task[t].event, loop |-> l,
                        todo |-> task[t].todo, mark |-> task[t].mark,
                        content |-> task[t].content]
      OBVIOUS
    <3>3. task' = [task EXCEPT ![t] = [task[t] EXCEPT !.pc = "delete", !.loop = l]]
      BY <1>1, <3>1 DEF DeleteLoop, TypeInv
    <3>4. [task[t] EXCEPT !.pc = "delete", !.loop = l] = r
      BY <1>1, <3>2, TaskUpdates
    <3>5. task' = [task EXCEPT ![t] = r] /\ r.pc = "delete"
      BY <3>2, <3>3, <3>4
    <3> QED BY <3>5
  <2> QED BY <2>1, <2>2, <2>3
<1>5. SerialTask(r)'
  BY <1>4 DEF SerialTask
<1> QED BY <1>1, <1>2, <1>3, <1>4, <1>5, SerialQuiet

\* findByEventId(): the event is on file, or it is not and will be appended.
LEMMA FindSerial ==
    ASSUME OneCall, IInv, SerialInv, NEW t \in Tasks, FindByEventId(t)
    PROVE  SerialInv'
<1>1. /\ TypeInv /\ task[t] \in TaskRecord /\ task[t].pc = "find"
      /\ UNCHANGED <<queue, loops, starts, crashes>> /\ AcceptedIsKept
  BY SerialFacts DEF FindByEventId, At
<1>2. \A e \in Events : ~Marks(task[t], e)
  BY <1>1 DEF Marks
<1>3. AcceptedIsKept'
  BY <1>1 DEF FindByEventId, AcceptedIsKept
<1>4. CASE IsQueued(queue, task[t].event)
  <2>1. PICK r : Becomes(t, r, "list", task[t].todo, task[t].mark, task[t].content)
    BY <1>1, <1>4, GotoBecomes DEF FindByEventId
  <2>2. task' = [task EXCEPT ![t] = r] /\ r.pc = "list"
    BY <2>1 DEF Becomes
  <2>3. SerialTask(r)'
    BY <2>2 DEF SerialTask
  <2> QED BY <1>1, <1>2, <1>3, <2>2, <2>3, SerialQuiet
<1>5. CASE ~IsQueued(queue, task[t].event)
  <2>1. PICK r : Becomes(t, r, "append", task[t].todo, task[t].mark, task[t].content)
    BY <1>1, <1>5, GotoBecomes DEF FindByEventId
  <2>2. task' = [task EXCEPT ![t] = r] /\ r.pc = "append" /\ r.event = task[t].event
    BY <2>1 DEF Becomes
  <2>3. SerialTask(r)'
    BY <1>1, <1>5, <2>2 DEF SerialTask
  <2> QED BY <1>1, <1>2, <1>3, <2>2, <2>3, SerialQuiet
<1> QED BY <1>4, <1>5

\* appendFile(): the event was not on file, and gets its only entry.
LEMMA AppendSerial ==
    ASSUME OneCall, IInv, SerialInv, NEW t \in Tasks, AppendEntry(t)
    PROVE  SerialInv'
<1>1. /\ TypeInv /\ task[t] \in TaskRecord /\ TaskOK(task[t]) /\ task[t].pc = "append"
      /\ UNCHANGED <<loops, starts, crashes>> /\ AcceptedIsKept
      /\ SerialTask(task[t]) /\ Unique(queue)
  BY SerialFacts DEF AppendEntry, At
<1>2. PICK e \in Events : e = task[t].event
  BY <1>1 DEF TaskOK
<1>3. PICK x : x = [event |-> e, state |-> "pending"]
  OBVIOUS
<1>4. x \in Entries
  BY <1>3 DEF Entries, EntryState
<1>5. PICK q \in Seq(Entries) : q = queue
  BY SerialFacts
<1>6. PICK p : p = Append(q, x)
  OBVIOUS
<1>7. queue' = p
  BY <1>2, <1>3, <1>5, <1>6 DEF AppendEntry
<1>8. /\ DOMAIN q = 1..Len(q) /\ DOMAIN p = 1..(Len(q) + 1) /\ Len(q) \in Nat
      /\ p[Len(q) + 1] = x
      /\ \A i \in 1..Len(q) : p[i] = q[i]
  BY <1>4, <1>6
<1>9. ~IsQueued(q, e)
  BY <1>1, <1>2, <1>5 DEF SerialTask
<1>10. Unique(p)
  <2>1. \A i \in 1..Len(q) : q[i].event # e
    BY <1>8, <1>9 DEF IsQueued
  <2>2. \A i, j \in 1..Len(q) : q[i].event = q[j].event => i = j
    BY <1>1, <1>5, <1>8 DEF Unique
  <2> QED BY <1>3, <1>8, <2>1, <2>2 DEF Unique
<1>11. \A f : /\ IsQueued(q, f) => IsQueued(p, f)
              /\ Settled(q, f) => Settled(p, f)
  BY <1>8 DEF IsQueued, Settled
<1>12. IsQueued(p, e)
  BY <1>3, <1>8 DEF IsQueued
<1>13. AcceptedIsKept'
  <2>1. accepted' = accepted \cup {e}
    BY <1>2 DEF AppendEntry
  <2> QED BY <1>1, <1>5, <1>7, <1>11, <1>12, <2>1 DEF AcceptedIsKept
<1>14. PICK r : Becomes(t, r, "list", task[t].todo, task[t].mark, task[t].content)
  BY <1>1, GotoBecomes DEF AppendEntry
<1>15. task' = [task EXCEPT ![t] = r] /\ r.pc = "list"
  BY <1>14 DEF Becomes
<1>16. SerialTask(r)'
  BY <1>15 DEF SerialTask
<1>17. ASSUME NEW f \in Events
       PROVE  /\ starts'[f] <= 1 + crashes'
              /\ starts'[f] <= crashes' \/ Settled(queue', f) \/ Deleted(f)' \/ Marks(r, f)
  <2>1. ~Marks(task[t], f)
    BY <1>1 DEF Marks
  <2>2. Deleted(f)' <=> Deleted(f)
    BY <1>1 DEF Deleted
  <2>3. Settled(queue, f) => Settled(queue', f)
    BY <1>5, <1>7, <1>11
  <2> QED BY <1>1, <2>1, <2>2, <2>3, SerialFacts
<1>18. Unique(queue)'
  BY <1>7, <1>10 DEF Unique
<1> QED BY <1>13, <1>15, <1>16, <1>17, <1>18, SerialCallStep

\* The rest of a list.
LEMMA RestFacts ==
    ASSUME NEW s \in Seq(Entries), s # <<>>, Unique(s)
    PROVE  /\ Head(s) = s[1] /\ 1 \in DOMAIN s /\ Unique(Tail(s))
           /\ \A k \in DOMAIN Tail(s) : k + 1 \in 2..Len(s) /\ Tail(s)[k] = s[k + 1]
           /\ \A k \in 2..Len(s) : k \in DOMAIN s /\ s[k].event # Head(s).event
<1>1. /\ Head(s) = s[1] /\ DOMAIN s = 1..Len(s) /\ Len(s) \in Nat \ {0}
      /\ Tail(s) \in Seq(Entries) /\ Len(Tail(s)) = Len(s) - 1
      /\ DOMAIN Tail(s) = 1..(Len(s) - 1)
      /\ \A k \in 1..(Len(s) - 1) : Tail(s)[k] = s[k + 1]
  OBVIOUS
<1>2. \A i, j \in 1..Len(s) : s[i].event = s[j].event => i = j
  BY <1>1 DEF Unique
<1>3. Unique(Tail(s))
  BY <1>1, <1>2 DEF Unique
<1> QED BY <1>1, <1>2, <1>3

\* A pending event has no settled entry, if it has only one.
LEMMA PendingNotSettled ==
    ASSUME NEW q, NEW e, Unique(q), PendingIn(q, e)
    PROVE  ~Settled(q, e) /\ IsQueued(q, e)
BY DEF Unique, PendingIn, Settled, IsQueued

\* The drain goes on with the rest of its list.
LEMMA NextEntrySerial ==
    ASSUME OneCall, IInv, NEW t \in Tasks, task[t].todo # <<>>, NextEntry(t),
           Unique(queue)', AcceptedIsKept', Unique(task[t].todo),
           \A k \in 2..Len(task[t].todo) : PendingIn(queue', task[t].todo[k].event),
           \A e \in Events :
             /\ starts'[e] <= 1 + crashes'
             /\ starts'[e] <= crashes' \/ Settled(queue', e) \/ Deleted(e)'
    PROVE  SerialInv'
<1>1. PICK s \in Seq(Entries) : s = task[t].todo
  BY CallFacts
<1>2. PICK r : Becomes(t, r, "dispatch", Tail(s), task[t].mark, task[t].content)
  BY <1>1, NextBecomes, CallFacts
<1>3. task' = [task EXCEPT ![t] = r] /\ r.pc = "dispatch" /\ r.todo = Tail(s)
  BY <1>2 DEF Becomes
<1>4. Unique(Tail(s)) /\ \A k \in DOMAIN Tail(s) : PendingIn(queue', Tail(s)[k].event)
  BY <1>1, RestFacts
<1>5. SerialTask(r)'
  BY <1>3, <1>4 DEF SerialTask
<1> QED BY <1>3, <1>5, SerialCallStep

\* The call returns.
LEMMA ReturnSerial ==
    ASSUME OneCall, IInv, NEW t \in Tasks, Return(t),
           Unique(queue)', AcceptedIsKept',
           \A e \in Events :
             /\ starts'[e] <= 1 + crashes'
             /\ starts'[e] <= crashes' \/ Settled(queue', e) \/ Deleted(e)'
    PROVE  SerialInv'
<1>1. PICK r : r = IdleTask
  OBVIOUS
<1>2. SerialTask(r)'
  BY <1>1, SerialIdle DEF IdleTask, SerialTask
<1> QED BY <1>1, <1>2, SerialCallStep DEF Return

\* listPending(): the drain gets the pending events of the file, each once.
LEMMA ListSerial ==
    ASSUME OneCall, IInv, SerialInv, NEW t \in Tasks, ListPending(t)
    PROVE  SerialInv'
<1>1. /\ TypeInv /\ task[t] \in TaskRecord /\ task[t].pc = "list"
      /\ UNCHANGED <<queue, loops, starts, crashes, accepted>> /\ Unique(queue)
  BY SerialFacts DEF ListPending, At
<1>2. AcceptedIsKept'
  BY <1>1, AcceptedStays
<1>3. \A e \in Events : ~Marks(task[t], e)
  BY <1>1 DEF Marks
<1>4. PICK q \in Seq(Entries) : q = queue
  BY SerialFacts
<1>5. PICK todo \in Seq(Entries) : todo = PendingOf(q, task[t].loop)
  BY PendingOfFacts
<1>6. Unique(todo)
  BY <1>1, <1>4, <1>5, PendingOfFacts
<1>7. ASSUME NEW k \in DOMAIN todo PROVE PendingIn(q, todo[k].event)
  <2>1. todo[k] \in Elements(todo)
    BY DEF Elements
  <2>2. todo[k] \in Elements(q) /\ todo[k].state = "pending"
    BY <1>5, <2>1, PendingOfFacts
  <2> QED BY <2>2 DEF Elements, PendingIn
<1>8. PICK r : Becomes(t, r, "dispatch", todo, task[t].mark, task[t].content)
  BY <1>1, <1>4, <1>5, ListBecomes DEF ListPending
<1>9. task' = [task EXCEPT ![t] = r] /\ r.pc = "dispatch" /\ r.todo = todo
  BY <1>8 DEF Becomes
<1>10. SerialTask(r)'
  BY <1>1, <1>4, <1>6, <1>7, <1>9 DEF SerialTask
<1> QED BY <1>1, <1>2, <1>3, <1>9, <1>10, SerialQuiet

\* startRun(): the event is pending in its only entry and its loop is open, so
\* it was not started since the last crash, and it is marked next.
LEMMA DispatchSerial ==
    ASSUME OneCall, IInv, SerialInv, NEW t \in Tasks, Dispatch(t)
    PROVE  SerialInv'
<1>1. /\ TypeInv /\ task[t] \in TaskRecord /\ task[t].pc = "dispatch"
      /\ UNCHANGED <<queue, loops, crashes, accepted>> /\ Unique(queue)
      /\ SerialTask(task[t]) /\ crashes \in Nat /\ starts \in [Events -> Nat]
  BY SerialFacts DEF Dispatch, At
<1>2. AcceptedIsKept'
  BY <1>1, AcceptedStays
<1>3. \A e \in Events : starts[e] <= crashes \/ Settled(queue, e) \/ Deleted(e)
  BY <1>1, SerialFacts DEF Marks
<1>4. Unique(queue)' /\ \A e \in Events : Deleted(e)' <=> Deleted(e)
  BY <1>1 DEF Unique, Deleted
<1>5. PICK s \in Seq(Entries) : s = task[t].todo
  BY CallFacts
<1>6. Unique(s) /\ \A k \in DOMAIN s : PendingIn(queue, s[k].event)
  BY <1>1, <1>5 DEF SerialTask
<1>7. ASSUME UNCHANGED starts
      PROVE  \A e \in Events :
               /\ starts'[e] <= 1 + crashes'
               /\ starts'[e] <= crashes' \/ Settled(queue', e) \/ Deleted(e)'
  BY <1>1, <1>3, <1>4, <1>7, SerialFacts
<1>8. CASE UNCHANGED <<active, starts>> /\ Return(t)
  BY <1>2, <1>4, <1>7, <1>8, ReturnSerial
<1>9. CASE UNCHANGED <<active, starts>> /\ NextEntry(t) /\ task[t].todo # <<>>
  <2>1. \A k \in 2..Len(s) : PendingIn(queue', s[k].event)
    BY <1>1, <1>5, <1>6, <1>9, RestFacts
  <2> QED BY <1>2, <1>4, <1>5, <1>6, <1>7, <1>9, <2>1, NextEntrySerial
<1>10. ASSUME task[t].todo # <<>>, NEW m \in {"done", "failed"}, MarkNext(t, m),
              NEW e \in Events, e = Head(task[t].todo).event,
              \/ starts' = starts
              \/ /\ loops[LoopOf(e)] = "open"
                 /\ starts' = [starts EXCEPT ![e] = starts[e] + 1]
       PROVE  SerialInv'
  <2>1. PICK r : Becomes(t, r, "read", task[t].todo, m, task[t].content)
    BY <1>1, <1>10, ReadBecomes DEF MarkNext
  <2>2. task' = [task EXCEPT ![t] = r] /\ r.pc = "read" /\ r.todo = s
    BY <1>5, <2>1 DEF Becomes
  <2>3. SerialTask(r)'
    BY <1>1, <1>6, <2>2 DEF SerialTask
  <2>4. Marks(r, e)
    BY <1>5, <1>10, <2>2 DEF Marks
  <2>5. PendingIn(queue, e)
    BY <1>5, <1>6, <1>10, RestFacts
  <2>6. ~Settled(queue, e)
    BY <1>1, <2>5, PendingNotSettled
  <2>7. ASSUME NEW f \in Events
        PROVE  /\ starts'[f] <= 1 + crashes'
               /\ starts'[f] <= crashes' \/ Settled(queue', f) \/ Deleted(f)' \/ Marks(r, f)
    <3>1. CASE /\ loops[LoopOf(e)] = "open"
               /\ starts' = [starts EXCEPT ![e] = starts[e] + 1]
      <4>1. starts' = [starts EXCEPT ![e] = starts[e] + 1] /\ starts[e] \in Nat
        BY <1>1, <1>10, <3>1
      <4>2. ~Deleted(e)
        BY <3>1 DEF Deleted
      <4>3. starts[e] <= crashes
        BY <1>3, <1>10, <2>6, <4>2
      <4>4. CASE f = e
        BY <1>1, <2>4, <4>1, <4>3, <4>4
      <4>5. CASE f # e
        <5>1. starts'[f] = starts[f]
          BY <1>1, <4>1, <4>5
        <5> QED BY <1>1, <1>3, <1>4, <5>1, SerialFacts
      <4> QED BY <4>4, <4>5
    <3>2. CASE UNCHANGED starts
      BY <1>7, <3>2
    <3> QED BY <1>10, <3>1, <3>2
  <2> QED BY <1>2, <1>4, <2>2, <2>3, <2>7, SerialCallStep
<1>11. CASE task[t].todo = <<>>
  BY <1>8, <1>11 DEF Dispatch
<1>12. CASE task[t].todo # <<>>
  <2>1. PICK e \in Events : e = Head(task[t].todo).event
    BY <1>12, CallFacts
  <2>2. CASE ParseThrows(t, e)
    BY <1>8, <2>2 DEF ParseThrows
  <2>3. CASE DispatchResume(t, e)
    <3>1. PICK m \in {"done", "failed"} : MarkNext(t, m)
      BY <2>3 DEF DispatchResume
    <3>2. starts' = starts
      BY <2>3 DEF DispatchResume
    <3>3. e = Head(task[t].todo).event
      BY <2>1
    <3> QED BY <1>10, <1>12, <3>1, <3>2, <3>3
  <2>4. CASE LeavePending(t, e)
    BY <1>8, <1>9, <1>12, <2>4 DEF LeavePending
  <2>5. CASE StartFor(t, e)
    <3>1. PICK m \in {"done", "failed"} : MarkNext(t, m)
      BY <2>5 DEF StartFor, Outcome
    <3>2. \/ starts' = starts
          \/ /\ loops[LoopOf(e)] = "open"
             /\ starts' = [starts EXCEPT ![e] = starts[e] + 1]
      BY <2>5 DEF StartFor
    <3>3. e = Head(task[t].todo).event
      BY <2>1
    <3> QED BY <1>10, <1>12, <3>1, <3>2, <3>3
  <2> QED BY <1>12, <2>1, <2>2, <2>3, <2>4, <2>5 DEF Dispatch
<1> QED BY <1>11, <1>12

\* mark() has read the file: the copy that it will write settles the event of
\* the call and leaves the other entries as they are.
LEMMA ReadSerial ==
    ASSUME OneCall, IInv, SerialInv, NEW t \in Tasks, ReadForMark(t)
    PROVE  SerialInv'
<1>1. /\ TypeInv /\ task[t] \in TaskRecord /\ TaskOK(task[t]) /\ task[t].pc = "read"
      /\ UNCHANGED <<queue, loops, starts, crashes, accepted>> /\ Unique(queue)
      /\ SerialTask(task[t])
  BY SerialFacts DEF ReadForMark, At
<1>2. AcceptedIsKept'
  BY <1>1, AcceptedStays
<1>3. PICK s \in Seq(Entries) : s = task[t].todo
  BY CallFacts
<1>4. s # <<>> /\ Unique(s) /\ \A k \in DOMAIN s : PendingIn(queue, s[k].event)
  BY <1>1, <1>3 DEF TaskOK, SerialTask
<1>5. PICK q \in Seq(Entries) : q = queue
  BY SerialFacts
<1>6. PICK e \in Events : e = Head(s).event
  BY <1>3, <1>4, CallFacts
<1>7. PendingIn(q, e) /\ IsQueued(q, e)
  BY <1>1, <1>4, <1>5, <1>6, RestFacts, PendingNotSettled
<1>8. PICK m \in {"done", "failed"} : m = task[t].mark
  BY <1>1, TaskFields
<1>9. PICK c : c = Marked(q, e, m)
  OBVIOUS
<1>10. m \in EntryState
  BY DEF EntryState
<1>11. /\ c \in Seq(Entries) /\ Len(c) = Len(q)
       /\ \E k \in 1..Len(q) :
            /\ q[k].event = e
            /\ \A i \in 1..Len(q) : c[i] = IF i = k THEN [event |-> e, state |-> m] ELSE q[i]
  BY <1>7, <1>9, <1>10, MarkedFacts
<1>12. PICK n \in 1..Len(q) :
         /\ q[n].event = e
         /\ \A i \in 1..Len(q) : c[i] = IF i = n THEN [event |-> e, state |-> m] ELSE q[i]
  BY <1>11
<1>13. DOMAIN q = 1..Len(q) /\ DOMAIN c = 1..Len(q)
  BY <1>11
<1>14. \A i \in 1..Len(q) : c[i].event = q[i].event
  BY <1>12
<1>15. Unique(c)
  BY <1>1, <1>5, <1>13, <1>14 DEF Unique
<1>16. \A f : IsQueued(q, f) => IsQueued(c, f)
  BY <1>13, <1>14 DEF IsQueued
<1>17. Settled(c, e)
  <2>1. c[n].event = e /\ c[n].state = m
    BY <1>12
  <2> QED BY <1>13, <2>1 DEF Settled
<1>18. \A f : Settled(q, f) => Settled(c, f)
  <2>1. ASSUME NEW f, NEW i \in 1..Len(q), q[i].event = f, q[i].state # "pending"
        PROVE  Settled(c, f)
    <3>1. CASE i = n
      BY <1>12, <1>17, <2>1, <3>1
    <3>2. CASE i # n
      <4>1. c[i] = q[i]
        BY <1>12, <3>2
      <4> QED BY <1>13, <2>1, <4>1 DEF Settled
    <3> QED BY <3>1, <3>2
  <2> QED BY <1>13, <2>1 DEF Settled
<1>19. \A k \in 2..Len(s) : PendingIn(c, s[k].event)
  <2>1. ASSUME NEW k \in 2..Len(s) PROVE PendingIn(c, s[k].event)
    <3>1. k \in DOMAIN s /\ s[k].event # e
      BY <1>4, <1>6, RestFacts
    <3>2. PICK i \in 1..Len(q) : q[i].event = s[k].event /\ q[i].state = "pending"
      BY <1>4, <1>5, <1>13, <3>1 DEF PendingIn
    <3>3. i # n
      BY <1>12, <3>1, <3>2
    <3>4. c[i] = q[i]
      BY <1>12, <3>3
    <3> QED BY <1>13, <3>2, <3>4 DEF PendingIn
  <2> QED BY <2>1
<1>20. Rewrites(c, s)
  BY <1>5, <1>6, <1>15, <1>16, <1>17, <1>18, <1>19 DEF Rewrites
<1>21. Rewrites(c, s)'
  BY <1>1, <1>20, RewritesStay DEF Deleted
<1>22. task' = [task EXCEPT ![t].pc = "write", ![t].content = c]
  BY <1>3, <1>5, <1>6, <1>7, <1>8, <1>9 DEF ReadForMark
<1>23. PICK r : Becomes(t, r, "write", s, m, c)
  BY <1>1, <1>3, <1>8, <1>11, <1>22, WriteBecomes
<1>24. task' = [task EXCEPT ![t] = r] /\ r.pc = "write" /\ r.todo = s /\ r.content = c
  BY <1>23 DEF Becomes
<1>25. SerialTask(r)'
  BY <1>1, <1>4, <1>21, <1>24 DEF SerialTask
<1>26. \A f \in Events : Marks(task[t], f) => Marks(r, f)
  BY <1>3, <1>24 DEF Marks
<1> QED BY <1>1, <1>2, <1>24, <1>25, <1>26, SerialQuiet

\* The copy goes to queue.jsonl.tmp.
LEMMA WriteSerial ==
    ASSUME OneCall, IInv, SerialInv, NEW t \in Tasks, WriteTmp(t)
    PROVE  SerialInv'
<1>1. /\ TypeInv /\ task[t] \in TaskRecord /\ task[t].pc = "write"
      /\ UNCHANGED <<queue, loops, starts, crashes, accepted>>
      /\ SerialTask(task[t])
  BY SerialFacts DEF WriteTmp, At
<1>2. AcceptedIsKept'
  BY <1>1, AcceptedStays
<1>3. PICK s, c \in Seq(Entries) : s = task[t].todo /\ c = task[t].content
  BY CallFacts
<1>4. /\ Unique(s) /\ \A k \in DOMAIN s : PendingIn(queue, s[k].event)
      /\ Rewrites(c, s)
  BY <1>1, <1>3 DEF SerialTask
<1>5. Rewrites(c, s)'
  BY <1>1, <1>4, RewritesStay DEF Deleted
<1>6. tmp' = c /\ c # NoFile
  BY <1>3, TriggerConstants DEF WriteTmp
<1>7. <<>> \in Seq(Entries)
  BY SeqFacts
<1>8. PICK r : Becomes(t, r, "rename", s, task[t].mark, <<>>)
  BY <1>1, <1>3, <1>7, WriteBecomes DEF WriteTmp
<1>9. task' = [task EXCEPT ![t] = r] /\ r.pc = "rename" /\ r.todo = s
  BY <1>8 DEF Becomes
<1>10. Rewrites(tmp, s)'
  BY <1>5, <1>6 DEF Rewrites, Deleted
<1>11. SerialTask(r)'
  BY <1>1, <1>4, <1>6, <1>9, <1>10 DEF SerialTask
<1>12. \A f \in Events : Marks(task[t], f) => Marks(r, f)
  BY <1>1, <1>3, <1>9 DEF Marks
<1> QED BY <1>1, <1>2, <1>9, <1>11, <1>12, SerialQuiet

\* rename(): the file that replaces the queue is the one this call has written.
LEMMA RenameSerial ==
    ASSUME OneCall, IInv, SerialInv, NEW t \in Tasks, Rename(t)
    PROVE  SerialInv'
<1>1. /\ TypeInv /\ TypeOK /\ task[t] \in TaskRecord /\ task[t].pc = "rename"
      /\ UNCHANGED <<loops, starts, crashes, accepted>>
      /\ SerialTask(task[t]) /\ AcceptedIsKept
  BY SerialFacts DEF Rename, At
<1>2. PICK s \in Seq(Entries) : s = task[t].todo
  BY CallFacts
<1>3. Unique(s) /\ tmp # NoFile /\ Rewrites(tmp, s)
  BY <1>1, <1>2 DEF SerialTask
<1>4. /\ queue' = tmp
      /\ IF s = <<>> THEN Return(t) ELSE AfterMark(t)
  BY <1>2, <1>3 DEF Rename
<1>5. \A e \in Events : Deleted(e)' <=> Deleted(e)
  BY <1>1 DEF Deleted
<1>6. Unique(queue)'
  BY <1>3, <1>4 DEF Rewrites, Unique
<1>7. AcceptedIsKept'
  <2>1. ASSUME NEW e \in accepted PROVE IsQueued(tmp, e) \/ loops[LoopOf(e)] = "deleted"
    <3>1. e \in Events
      BY <1>1 DEF TypeOK
    <3>2. IsQueued(queue, e) \/ loops[LoopOf(e)] = "deleted"
      BY <1>1 DEF AcceptedIsKept
    <3> QED BY <1>3, <3>1, <3>2 DEF Rewrites, Deleted
  <2> QED BY <1>1, <1>4, <2>1 DEF AcceptedIsKept
<1>8. ASSUME NEW e \in Events
      PROVE  /\ starts'[e] <= 1 + crashes'
             /\ starts'[e] <= crashes' \/ Settled(queue', e) \/ Deleted(e)'
  <2>1. /\ starts[e] <= 1 + crashes
        /\ starts[e] <= crashes \/ Settled(queue, e) \/ Deleted(e) \/ Marks(task[t], e)
    BY SerialFacts
  <2>2. Settled(queue, e) => Settled(tmp, e) \/ Deleted(e)
    BY <1>3 DEF Rewrites
  <2>3. Marks(task[t], e) => Settled(tmp, e)
    BY <1>2, <1>3 DEF Rewrites, Marks
  <2> QED BY <1>1, <1>4, <1>5, <2>1, <2>2, <2>3
<1>9. CASE s = <<>>
  BY <1>4, <1>6, <1>7, <1>8, <1>9, ReturnSerial
<1>10. CASE s # <<>>
  <2>1. \A k \in 2..Len(s) : PendingIn(queue', s[k].event)
    BY <1>3, <1>4, <1>10 DEF Rewrites
  <2>2. CASE Return(t)
    BY <1>6, <1>7, <1>8, <2>2, ReturnSerial
  <2>3. CASE NextEntry(t)
    BY <1>2, <1>3, <1>6, <1>7, <1>8, <1>10, <2>1, <2>3, NextEntrySerial
  <2> QED BY <1>4, <1>10, <2>2, <2>3 DEF AfterMark
<1> QED BY <1>9, <1>10

\* deleteLoopData(): a loop that is deleted stays deleted.
LEMMA DeleteSerial ==
    ASSUME OneCall, IInv, SerialInv, NEW t \in Tasks, DeleteLoopData(t)
    PROVE  SerialInv'
<1>1. /\ TypeInv /\ TypeOK /\ task[t] \in TaskRecord /\ TaskOK(task[t])
      /\ task[t].pc = "delete" /\ UNCHANGED <<queue, starts, crashes, accepted>>
      /\ Unique(queue) /\ AcceptedIsKept
  BY SerialFacts DEF DeleteLoopData, At
<1>2. PICK l \in Loops : l = task[t].loop
  BY <1>1 DEF TaskOK
<1>3. /\ loops' = [loops EXCEPT ![l] = "deleted"]
      /\ loops \in [Loops -> {"open", "paused", "deleted"}]
  BY <1>1, <1>2 DEF DeleteLoopData, TypeOK
<1>4. loops'[l] = "deleted" /\ \A x : loops[x] = "deleted" /\ x \in Loops => loops'[x] = "deleted"
  BY <1>3
<1>5. \A e \in Events : Deleted(e) => Deleted(e)'
  BY <1>4, LoopOfType DEF Deleted
<1>6. Unique(queue)'
  BY <1>1 DEF Unique
<1>7. AcceptedIsKept'
  <2>1. \A e \in accepted : e \in Events
    BY <1>1 DEF TypeOK
  <2>2. \A e \in accepted : loops[LoopOf(e)] = "deleted" => loops'[LoopOf(e)] = "deleted"
    BY <1>4, <2>1, LoopOfType
  <2> QED BY <1>1, <2>2 DEF AcceptedIsKept
<1>8. PICK r : Becomes(t, r, "remove", task[t].todo, task[t].mark, task[t].content)
  BY <1>1, GotoBecomes DEF DeleteLoopData
<1>9. task' = [task EXCEPT ![t] = r] /\ r.pc = "remove" /\ r.loop = l
  BY <1>2, <1>8 DEF Becomes
<1>10. SerialTask(r)'
  BY <1>4, <1>9 DEF SerialTask
<1>11. \A e \in Events :
         /\ starts'[e] <= 1 + crashes'
         /\ starts'[e] <= crashes' \/ Settled(queue', e) \/ Deleted(e)' \/ Marks(r, e)
  BY <1>1, <1>5, SerialFacts DEF Marks
<1> QED BY <1>6, <1>7, <1>9, <1>10, <1>11, SerialCallStep

\* removeByLoopId(): only entries of the deleted loop are left out.
LEMMA RemoveSerial ==
    ASSUME OneCall, IInv, SerialInv, NEW t \in Tasks, RemoveByLoopId(t)
    PROVE  SerialInv'
<1>1. /\ TypeInv /\ task[t] \in TaskRecord /\ TaskOK(task[t]) /\ task[t].pc = "remove"
      /\ UNCHANGED <<queue, loops, starts, crashes, accepted>> /\ Unique(queue)
      /\ SerialTask(task[t])
  BY SerialFacts DEF RemoveByLoopId, At
<1>2. AcceptedIsKept'
  BY <1>1, AcceptedStays
<1>3. \A e \in Events : ~Marks(task[t], e)
  BY <1>1 DEF Marks
<1>4. task[t].todo = <<>>
  BY <1>1 DEF TaskOK
<1>5. PICK l \in Loops : l = task[t].loop /\ loops[l] = "deleted"
  BY <1>1 DEF TaskOK, SerialTask
<1>6. PICK q \in Seq(Entries) : q = queue
  BY SerialFacts
<1>7. PICK c \in Seq(Entries) : c = WithoutLoop(q, l)
  BY WithoutLoopFacts
<1>8. /\ Unique(c)
      /\ \A x \in Elements(q) : x \in Elements(c) \/ loops[LoopOf(x.event)] = "deleted"
  BY <1>1, <1>5, <1>6, <1>7, WithoutLoopFacts
<1>9. \A e : /\ IsQueued(q, e) => IsQueued(c, e) \/ Deleted(e)
             /\ Settled(q, e) => Settled(c, e) \/ Deleted(e)
  BY <1>8 DEF IsQueued, Settled, Deleted, Elements
<1>10. Rewrites(c, <<>>)
  BY <1>6, <1>8, <1>9 DEF Rewrites
<1>11. Rewrites(c, <<>>)'
  BY <1>1, <1>10, RewritesStay DEF Deleted
<1>12. CASE Return(t)
  BY <1>1, <1>2, <1>3, <1>12, ReturnSerial, SerialFacts DEF Unique, Deleted
<1>13. CASE task' = [task EXCEPT ![t].pc = "write", ![t].content = c]
  <2>1. PICK r : Becomes(t, r, "write", <<>>, task[t].mark, c)
    BY <1>1, <1>4, <1>13, WriteBecomes
  <2>2. task' = [task EXCEPT ![t] = r] /\ r.pc = "write" /\ r.todo = <<>> /\ r.content = c
    BY <2>1 DEF Becomes
  <2>3. Unique(<<>>) /\ DOMAIN <<>> = {}
    BY DEF Unique
  <2>4. SerialTask(r)'
    BY <1>11, <2>2, <2>3 DEF SerialTask
  <2> QED BY <1>1, <1>2, <1>3, <2>2, <2>4, SerialQuiet
<1> QED BY <1>5, <1>6, <1>7, <1>12, <1>13 DEF RemoveByLoopId

\* Steps that no call takes, other than the restart: no loop is deleted by them,
\* or comes back.
LEMMA OthersSerial ==
    ASSUME IInv, SerialInv,
           UNCHANGED <<queue, tmp, task, starts, accepted, crashes>>,
           \A l \in Loops : loops'[l] = "deleted" <=> loops[l] = "deleted"
    PROVE  SerialInv'
<1>1. Unique(queue)'
  BY DEF SerialInv, Unique
<1>2. \A e \in Events : Deleted(e)' <=> Deleted(e)
  BY LoopOfType DEF Deleted
<1>3. AcceptedIsKept'
  <2>1. \A e \in accepted : e \in Events
    BY DEF IInv, TypeInv, TypeOK
  <2>2. \A e \in accepted : IsQueued(queue, e) \/ Deleted(e)
    BY DEF SerialInv, AcceptedIsKept, Deleted
  <2>3. \A e \in accepted : IsQueued(queue, e) \/ Deleted(e)'
    BY <1>2, <2>1, <2>2
  <2> QED BY <2>3 DEF AcceptedIsKept, Deleted
<1>4. StartsBounded'
  BY <1>2 DEF SerialInv, StartsBounded
<1>5. ASSUME NEW u \in Tasks PROVE SerialTask(task[u])'
  <2>1. PICK r, p : r = task[u] /\ p = tmp
    OBVIOUS
  <2>2. SerialTask(r) /\ task'[u] = r /\ tmp' = p /\ TaskOK(r)
    BY <2>1 DEF SerialInv, IInv, TypeInv
  <2>3. r.pc = "write" => Rewrites(r.content, r.todo)'
    BY <1>2, <2>2, RewritesStay DEF SerialTask
  <2>4. r.pc = "rename" => p # NoFile /\ Rewrites(p, r.todo)'
    BY <1>2, <2>1, <2>2, RewritesStay DEF SerialTask
  <2>5. r.pc = "rename" => tmp' # NoFile /\ Rewrites(tmp, r.todo)'
    BY <2>2, <2>4 DEF Rewrites, Deleted
  <2>6. r.pc = "remove" => loops'[r.loop] = "deleted"
    BY <2>2 DEF TaskOK, SerialTask
  <2>7. SerialTask(r)'
    BY <2>2, <2>3, <2>5, <2>6 DEF SerialTask
  <2> QED BY <2>2, <2>7 DEF SerialTask, Rewrites, Deleted
<1> QED BY <1>1, <1>3, <1>4, <1>5 DEF SerialInv

\* The restart forgets the calls, and counts as a crash.
LEMMA CrashSerial ==
    ASSUME IInv, SerialInv, Crash PROVE SerialInv'
<1>1. Unique(queue)' /\ AcceptedIsKept'
  BY DEF SerialInv, Crash, Unique, AcceptedIsKept
<1>2. StartsBounded'
  <2>1. starts \in [Events -> Nat] /\ crashes \in Nat
    BY TriggerConstants DEF IInv, TypeInv, TypeOK
  <2>2. starts' = starts /\ crashes' = crashes + 1
    BY DEF Crash
  <2>3. \A e \in Events : starts'[e] <= crashes' /\ starts'[e] <= 1 + crashes'
    BY <2>1, <2>2 DEF SerialInv, StartsBounded
  <2> QED BY <2>3 DEF StartsBounded
<1>3. ASSUME NEW u \in Tasks PROVE SerialTask(task[u])'
  <2>1. task'[u] = IdleTask
    BY DEF Crash
  <2> QED BY <2>1 DEF SerialTask, IdleTask
<1> QED BY <1>1, <1>2, <1>3 DEF SerialInv

\* The first state: nothing is queued, accepted or started.
LEMMA InitSerial == ASSUME Init PROVE SerialInv
<1>1. Unique(queue) /\ AcceptedIsKept
  BY DEF Init, Unique, AcceptedIsKept
<1>2. StartsBounded
  BY DEF Init, StartsBounded
<1>3. \A t \in Tasks : SerialTask(task[t])
  BY SerialIdle DEF Init
<1> QED BY <1>1, <1>2, <1>3 DEF SerialInv

\* No step invalidates what holds for one call at a time.
LEMMA NextSerial == ASSUME OneCall, IInv, SerialInv, [Next]_vars PROVE SerialInv'
<1>1. CASE \E t \in Tasks : Step(t)
  <2>1. PICK t \in Tasks : Step(t)
    BY <1>1
  <2> QED BY <2>1, FindSerial, AppendSerial, ListSerial, DispatchSerial, ReadSerial,
             WriteSerial, RenameSerial, DeleteSerial, RemoveSerial DEF Step
<1>2. CASE \E t \in Tasks : \/ DrainTimer(t)
                            \/ \E e \in Events : Deliver(t, e)
                            \/ \E l \in Managed : DeleteLoop(t, l)
  BY <1>2, BeginsSerial
<1>3. CASE \E l \in Managed : PatchFlag(l)
  <2>1. PICK l \in Loops : PatchFlag(l)
    BY <1>3, TriggerConstants
  <2>2. loops \in [Loops -> {"open", "paused", "deleted"}] /\ loops[l] # "deleted"
    BY <2>1 DEF IInv, TypeInv, TypeOK, PatchFlag
  <2>3. \A x \in Loops : loops'[x] = "deleted" <=> loops[x] = "deleted"
    BY <2>1, <2>2 DEF PatchFlag
  <2> QED BY <2>1, <2>3, OthersSerial DEF PatchFlag
<1>4. CASE \E l \in Loops : RunEnds(l)
  BY <1>4, OthersSerial DEF RunEnds
<1>5. CASE NextMinute \/ Tick \/ SaveFired \/ UNCHANGED vars
  BY <1>5, OthersSerial DEF NextMinute, Tick, SaveFired, vars
<1>6. CASE Crash
  BY <1>6, CrashSerial
<1>7. CASE Next
  BY <1>1, <1>2, <1>3, <1>4, <1>5, <1>6, <1>7 DEF Next
<1> QED BY <1>5, <1>7

\* With one call at a time, what is pending, prepared and started stays in step.
THEOREM SerialInvariant == ASSUME OneCall PROVE Spec => []SerialInv
<1>1. Init => IInv /\ SerialInv
  BY InitInv, InitSerial
<1>2. (IInv /\ SerialInv) /\ [Next]_vars => (IInv /\ SerialInv)'
  BY OneCall, NextInv, NextSerial
<1> QED BY <1>1, <1>2, PTL DEF Spec

\* While calls come one at a time, an event that enqueue() returned stays on
\* file until its loop is deleted: mark() and removeByLoopId() write the whole
\* file from a copy, and the copy loses nothing; a restart between the write and
\* the rename leaves the old file. Run "lost" shows two calls lose an event.
THEOREM AcceptedEventsAreKept == ASSUME OneCall PROVE Spec => []AcceptedIsKept
<1>1. SerialInv => AcceptedIsKept
  BY DEF SerialInv
<1> QED BY <1>1, SerialInvariant, PTL

\* While calls come one at a time, an event starts one run, and one more for each
\* restart of the server at most, whatever is delivered, fired or drained again.
THEOREM EventsStartOnce == ASSUME OneCall PROVE Spec => []StartedOnce
<1>1. SerialInv => StartedOnce
  BY DEF SerialInv, StartsBounded, StartedOnce
<1> QED BY <1>1, SerialInvariant, PTL
=============================================================================
