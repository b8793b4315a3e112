----------------------- MODULE SessionProcess_proofs -----------------------
(***************************************************************************)
(* Proofs about SessionProcess, for any sets of requests and messages, any *)
(* tools and any combination of provider features.                         *)
(***************************************************************************)
EXTENDS SessionProcess, Queues_proofs, TLAPS

-----------------------------------------------------------------------------
(* The inductive invariant.                                                *)

\* A waiting-input state always carries a request that was put to the user.
WaitingShows ==
    st = "waiting-input" =>
        /\ shown \in Requests
        /\ verdict[shown] \in {"pending", "orphan", "allow", "deny"}

\* A failed transport has been reported: the Supervisor has let go.
FailedIsReleased == transportFailed => ~registered

\* The agent's stream and its OS process: a running stream has a process, and
\* a termination error is only ever sent by a stream whose process is gone.
AgentGone ==
    /\ streamOpen => alive
    /\ "died" \in Elements(out) => ~streamOpen /\ ~alive

IInv ==
    /\ TypeOK
    /\ ApprovalsTracked
    /\ WaitingShows
    /\ ShownFirst
    /\ TerminatedIsClean
    /\ SleepsOnlyWhileHeld
    /\ FailedIsReleased
    /\ IdleIsTimed
    /\ AgentGone
    /\ NoOrphanAgent

\* The parts of IInv that the approvals decide, and the others.
ApprovalPart == ApprovalsTracked /\ WaitingShows /\ ShownFirst
ControlPart  == /\ TerminatedIsClean /\ SleepsOnlyWhileHeld
                /\ FailedIsReleased /\ IdleIsTimed

-----------------------------------------------------------------------------
(* Type correctness, action by action.                                     *)

\* The initial states satisfy the inductive invariant.
LEMMA InitInv == Init => IInv
<1> SUFFICES ASSUME Init PROVE IInv
  OBVIOUS
<1>1. queue \in Seq(Messages)
  BY SeqFacts DEF Init
<1>2. accepted \subseteq Messages
  BY <1>1 DEF Init, Elements
<1>3. TypeOK
  <2>1. /\ approvalQueue \in Seq(Requests) /\ deferredQueue \in Seq(Messages)
        /\ inbox \in Seq(Messages) /\ out \in Seq(Events)
    BY SeqFacts DEF Init
  <2> QED BY <1>1, <1>2, <2>1 DEF Init, TypeOK, States, Verdicts, Modes
<1>4. ApprovalsTracked
  BY DEF Init, ApprovalsTracked, Distinct, Elements, pendingToolApprovals, OpenVerdicts
<1>5. AgentGone /\ NoOrphanAgent
  BY DEF Init, AgentGone, NoOrphanAgent, Elements
<1> QED BY <1>3, <1>4, <1>5
    DEF Init, IInv, WaitingShows, ShownFirst, TerminatedIsClean,
        SleepsOnlyWhileHeld, FailedIsReleased, IdleIsTimed

\* The steps that several actions share keep the types of what they change.
LEMMA PushType ==
    ASSUME TypeOK, NEW m \in Messages, Push(m)
    PROVE  /\ queue' \in Seq(Messages) /\ inbox' \in Seq(Messages)
           /\ genWaiting' \in BOOLEAN
<1>1. queue \in Seq(Messages) /\ inbox \in Seq(Messages) /\ genWaiting \in BOOLEAN
  BY DEF TypeOK
<1>2. Append(queue, m) \in Seq(Messages) /\ Append(inbox, m) \in Seq(Messages)
  BY <1>1, SeqFacts
<1> QED BY <1>1, <1>2 DEF Push

\* queueMessage() hands the message over, into the turn or the queue.
LEMMA SteerOrPushType ==
    ASSUME TypeOK, NEW m \in Messages, SteerOrPush(m)
    PROVE  /\ queue' \in Seq(Messages) /\ inbox' \in Seq(Messages)
           /\ genWaiting' \in BOOLEAN
           /\ steering' \subseteq Messages /\ accepted' \subseteq Messages
BY PushType DEF TypeOK, SteerOrPush

\* queueMessage() as a whole keeps the types of what it changes.
LEMMA DeliverType ==
    ASSUME TypeOK, NEW m \in Messages, NEW t \in BOOLEAN, Deliver(m, t)
    PROVE  /\ queue' \in Seq(Messages) /\ inbox' \in Seq(Messages)
           /\ genWaiting' \in BOOLEAN
           /\ steering' \subseteq Messages /\ accepted' \subseteq Messages
           /\ st' \in States /\ shown' \in Requests \cup {NoRequest}
           /\ idleTimer' \in BOOLEAN
BY SteerOrPushType DEF TypeOK, Deliver, SetState, States

\* transitionToIdle() keeps the types, whether it feeds a deferred message,
\* drops it or becomes idle.
LEMMA TransitionToIdleType ==
    ASSUME TypeOK, TransitionToIdle
    PROVE  /\ queue' \in Seq(Messages) /\ inbox' \in Seq(Messages)
           /\ genWaiting' \in BOOLEAN
           /\ steering' \subseteq Messages /\ accepted' \subseteq Messages
           /\ deferredQueue' \in Seq(Messages) /\ refused' \subseteq Messages
           /\ st' \in States /\ shown' \in Requests \cup {NoRequest}
           /\ idleTimer' \in BOOLEAN
<1>1. CASE deferredQueue # <<>>
  <2>1. Head(deferredQueue) \in Messages /\ Tail(deferredQueue) \in Seq(Messages)
    BY <1>1 DEF TypeOK
  <2>2. CASE Refuses
    BY <1>1, <2>1, <2>2 DEF TransitionToIdle, TypeOK
  <2>3. CASE ~Refuses
    BY <1>1, <2>1, <2>3, DeliverType DEF TransitionToIdle, TypeOK
  <2> QED BY <2>2, <2>3
<1>2. CASE deferredQueue = <<>>
  BY <1>2 DEF TransitionToIdle, TypeOK, SetState, States, msgVars
<1> QED BY <1>1, <1>2

\* markTerminated() keeps the types.
LEMMA MarkTerminatedType ==
    ASSUME TypeOK, NEW a, MarkTerminated(a)
    PROVE  /\ st' \in States /\ shown' \in Requests \cup {NoRequest}
           /\ isHeld' \in BOOLEAN /\ iteratorDone' \in BOOLEAN
           /\ idleTimer' \in BOOLEAN /\ registered' \in BOOLEAN
           /\ verdict' \in [Requests -> Verdicts]
           /\ approvalQueue' \in Seq(Requests)
<1>1. <<>> \in Seq(Requests) /\ approvalQueue \in Seq(Requests)
  BY SeqFacts DEF TypeOK
<1>2. approvalQueue' \in Seq(Requests)
  BY <1>1 DEF MarkTerminated
<1>3. verdict' \in [Requests -> Verdicts]
  BY DEF TypeOK, MarkTerminated, Verdicts, OpenVerdicts
<1> QED BY <1>2, <1>3 DEF TypeOK, MarkTerminated, SetState, States

\* emitNextPendingApproval() keeps the types, whatever the queue is.
LEMMA EmitNextType ==
    ASSUME NEW q \in Seq(Requests), NEW v, EmitNextPendingApproval(q, v)
    PROVE  /\ st' \in States /\ shown' \in Requests \cup {NoRequest}
           /\ st' \in {"waiting-input", "in-turn"}
           /\ st' = "waiting-input" => shown' = q[1] /\ q # <<>> /\ shown' \in Requests
BY DEF EmitNextPendingApproval, SetState, States

-----------------------------------------------------------------------------
(* Frames: what keeps a part of the invariant when little changes.         *)

\* The invariant's agent part.
AgentPart == AgentGone /\ NoOrphanAgent

\* The inductive invariant gives each of its parts.
LEMMA IInvParts ==
    IInv <=> TypeOK /\ ApprovalPart /\ ControlPart /\ AgentPart
BY DEF IInv, ApprovalPart, ControlPart, AgentPart

\* A step that leaves the approvals alone, and shows no request that was not
\* shown before, preserves the approval part.
LEMMA ApprovalFrame ==
    ASSUME ApprovalPart, UNCHANGED <<verdict, approvalQueue>>,
           st' = "waiting-input" => st = "waiting-input" /\ shown' = shown
    PROVE  ApprovalPart'
BY DEF ApprovalPart, ApprovalsTracked, WaitingShows, ShownFirst, Distinct,
       Elements, pendingToolApprovals

\* A step that leaves the process state alone preserves the control part.
LEMMA ControlFrame ==
    ASSUME ControlPart, UNCHANGED <<procVars, approvalQueue>>
    PROVE  ControlPart'
BY DEF ControlPart, TerminatedIsClean, SleepsOnlyWhileHeld, FailedIsReleased,
       IdleIsTimed, procVars

\* A step that leaves agent and ownership alone preserves the agent part.
LEMMA AgentFrame ==
    ASSUME AgentPart, UNCHANGED <<streamOpen, alive, killed, registered>>,
           Elements(out') \subseteq Elements(out)
    PROVE  AgentPart'
BY DEF AgentPart, AgentGone, NoOrphanAgent

\* Reading an event from the stream adds none.
LEMMA TailElements ==
    ASSUME NEW S, NEW q \in Seq(S), q # <<>>
    PROVE  Elements(Tail(q)) \subseteq Elements(q) /\ Head(q) \in Elements(q)
<1>1. ASSUME NEW x \in Elements(Tail(q)) PROVE x \in Elements(q)
  <2>1. PICK i \in 1..Len(Tail(q)) : x = Tail(q)[i]
    BY DEF Elements
  <2>2. i + 1 \in 1..Len(q) /\ q[i + 1] = x
    BY <2>1
  <2> QED BY <2>2 DEF Elements
<1>2. Head(q) \in Elements(q)
  <2>1. 1 \in 1..Len(q) /\ Head(q) = q[1]
    OBVIOUS
  <2> QED BY <2>1 DEF Elements
<1> QED BY <1>1, <1>2

\* Where transitionToIdle() can lead: idle with the timer armed, back to work,
\* or nowhere, with the timer disarmed.
LEMMA TransitionToIdleState ==
    ASSUME TypeOK, TransitionToIdle
    PROVE  \/ st' = "idle" /\ idleTimer'
           \/ st' = "in-turn"
           \/ /\ st' = st /\ shown' = shown /\ ~idleTimer'
              /\ st = "idle" => transportFailed
<1>1. CASE deferredQueue # <<>> /\ Refuses
  BY <1>1 DEF TransitionToIdle, Refuses
<1>2. CASE deferredQueue # <<>> /\ ~Refuses
  BY <1>2 DEF TransitionToIdle, Deliver, SetState
<1>3. CASE deferredQueue = <<>>
  BY <1>3 DEF TransitionToIdle, SetState
<1> QED BY <1>1, <1>2, <1>3

-----------------------------------------------------------------------------
(* The loop of processMessages() preserves the invariant.                  *)

\* The end of a turn, read by the loop, preserves the invariant.
LEMMA LoopResultInv == ASSUME IInv, LoopResult PROVE IInv'
<1> USE DEF IInv
<1>1. Tail(out) \in Seq(Events) /\ Elements(Tail(out)) \subseteq Elements(out)
  BY SeqFacts, TailElements DEF LoopResult, TypeOK
<1>2. TypeOK'
  BY <1>1, TransitionToIdleType
     DEF LoopResult, LoopAfterMessage, TypeOK, apprVars, SetState
<1>3. ApprovalPart'
  BY ApprovalFrame, TransitionToIdleState, IInvParts DEF LoopResult, apprVars
<1>4. ControlPart'
  BY TransitionToIdleState
     DEF LoopResult, LoopAfterMessage, ControlPart, TerminatedIsClean,
         SleepsOnlyWhileHeld, FailedIsReleased, IdleIsTimed, apprVars
<1>5. AgentPart'
  BY <1>1, AgentFrame, IInvParts DEF LoopResult
<1> QED BY <1>2, <1>3, <1>4, <1>5 DEF ApprovalPart, ControlPart, AgentPart

\* The end of the stream or a plain error preserves the invariant.
LEMMA LoopEndInv == ASSUME IInv, LoopEnd PROVE IInv'
<1> USE DEF IInv
<1>1. Tail(out) \in Seq(Events) /\ Elements(Tail(out)) \subseteq Elements(out)
  BY SeqFacts, TailElements DEF LoopEnd, TypeOK
<1>2. TypeOK'
  <2>1. CASE st # "waiting-input"
    BY <1>1, <2>1, TransitionToIdleType DEF LoopEnd, TypeOK, apprVars
  <2>2. CASE st = "waiting-input"
    BY <1>1, <2>2 DEF LoopEnd, TypeOK, apprVars, msgVars
  <2> QED BY <2>1, <2>2
<1>3. ApprovalPart'
  BY ApprovalFrame, TransitionToIdleState, IInvParts DEF LoopEnd, apprVars
<1>4. ControlPart'
  BY TransitionToIdleState
     DEF LoopEnd, ControlPart, TerminatedIsClean,
         SleepsOnlyWhileHeld, FailedIsReleased, IdleIsTimed, apprVars
<1>5. AgentPart'
  BY <1>1, AgentFrame, IInvParts DEF LoopEnd
<1> QED BY <1>2, <1>3, <1>4, <1>5 DEF ApprovalPart, ControlPart, AgentPart

\* markTerminated() establishes the approval part from nothing.
LEMMA MarkTerminatedApprovals ==
    ASSUME IInv, NEW a, MarkTerminated(a)
    PROVE  ApprovalPart'
<1>1. CASE st = "terminated"
  BY <1>1, ApprovalFrame, IInvParts DEF MarkTerminated
<1>2. CASE st # "terminated"
  <2>1. approvalQueue' = <<>> /\ st' = "terminated"
    BY <1>2 DEF MarkTerminated, SetState
  <2>2. pendingToolApprovals' = {}
    BY <1>2 DEF MarkTerminated, pendingToolApprovals, OpenVerdicts
  <2> QED BY <2>1, <2>2
      DEF ApprovalPart, ApprovalsTracked, WaitingShows, ShownFirst, Distinct, Elements
<1> QED BY <1>1, <1>2

\* A process termination error preserves the invariant.
LEMMA LoopDiedInv == ASSUME IInv, LoopDied PROVE IInv'
<1> USE DEF IInv
<1>1. /\ Tail(out) \in Seq(Events) /\ Elements(Tail(out)) \subseteq Elements(out)
      /\ "died" \in Elements(out)
  BY SeqFacts, TailElements DEF LoopDied, TypeOK
<1>2. TypeOK'
  BY <1>1, MarkTerminatedType DEF LoopDied, TypeOK, msgVars
<1>3. ApprovalPart'
  BY MarkTerminatedApprovals DEF LoopDied
<1>4. ControlPart'
  BY DEF LoopDied, MarkTerminated, SetState, ControlPart, TerminatedIsClean,
         SleepsOnlyWhileHeld, FailedIsReleased, IdleIsTimed
<1>5. AgentPart'
  BY <1>1 DEF LoopDied, AgentPart, AgentGone, NoOrphanAgent
<1> QED BY <1>2, <1>3, <1>4, <1>5 DEF ApprovalPart, ControlPart, AgentPart

\* A message that ends no turn preserves the invariant.
LEMMA LoopMessageInv == ASSUME IInv, LoopMessage PROVE IInv'
<1> USE DEF IInv
<1>1. TypeOK'
  BY DEF LoopMessage, LoopAfterMessage, TypeOK, apprVars, msgVars, agentVars
<1>2. ApprovalPart'
  BY ApprovalFrame, IInvParts DEF LoopMessage, apprVars
<1>3. ControlPart'
  BY DEF LoopMessage, LoopAfterMessage, ControlPart, TerminatedIsClean, apprVars,
         SleepsOnlyWhileHeld, FailedIsReleased, IdleIsTimed
<1>4. AgentPart'
  BY AgentFrame, IInvParts DEF LoopMessage, agentVars
<1> QED BY <1>1, <1>2, <1>3, <1>4 DEF ApprovalPart, ControlPart, AgentPart

\* The loop that leaves waitUntilResumed() preserves the invariant.
LEMMA LoopWokenInv == ASSUME IInv, LoopWoken PROVE IInv'
<1> USE DEF IInv
<1>1. TypeOK'
  BY DEF LoopWoken, TypeOK, apprVars, msgVars, agentVars
<1>2. ApprovalPart'
  BY ApprovalFrame, IInvParts DEF LoopWoken, apprVars
<1>3. ControlPart'
  BY DEF LoopWoken, ControlPart, TerminatedIsClean, apprVars,
         SleepsOnlyWhileHeld, FailedIsReleased, IdleIsTimed
<1>4. AgentPart'
  BY AgentFrame, IInvParts DEF LoopWoken, agentVars
<1> QED BY <1>1, <1>2, <1>3, <1>4 DEF ApprovalPart, ControlPart, AgentPart

-----------------------------------------------------------------------------
(* The canUseTool callback preserves the invariant.                        *)

\* handleToolApproval() puts a new request at the end of the line, and shows
\* it exactly when the line was empty.
LEMMA AskUserApprovals ==
    ASSUME IInv, NEW r \in Requests, AskUser(r),
           verdict[r] \in {"none", "hook", "hookAborted"}
    PROVE  /\ ApprovalPart'
           /\ approvalQueue' \in Seq(Requests)
           /\ verdict' \in [Requests -> Verdicts]
           /\ isFirstPending' \subseteq Requests
           /\ shown' \in Requests \cup {NoRequest}
           /\ st' \in {st, "waiting-input"}
           /\ st = "terminated" => st' = "waiting-input"
<1> USE DEF IInv
<1>1. /\ approvalQueue \in Seq(Requests) /\ Distinct(approvalQueue)
      /\ Elements(approvalQueue) = pendingToolApprovals
      /\ r \notin Elements(approvalQueue)
  BY DEF TypeOK, ApprovalsTracked, pendingToolApprovals, OpenVerdicts
<1>2. /\ approvalQueue' \in Seq(Requests)
      /\ Distinct(approvalQueue')
      /\ Elements(approvalQueue') = Elements(approvalQueue) \cup {r}
      /\ approvalQueue'[1] = IF approvalQueue = <<>> THEN r ELSE approvalQueue[1]
  BY <1>1, AppendFacts DEF AskUser
<1>3. /\ verdict' \in [Requests -> Verdicts]
      /\ verdict'[r] \in OpenVerdicts
      /\ \A x \in Requests \ {r} : verdict'[x] = verdict[x]
  BY DEF AskUser, TypeOK, Verdicts, OpenVerdicts
<1>4. pendingToolApprovals' = pendingToolApprovals \cup {r}
  BY <1>3 DEF pendingToolApprovals
<1>5. ApprovalsTracked'
  BY <1>1, <1>2, <1>4 DEF ApprovalsTracked, Distinct
<1>6. CASE pendingToolApprovals = {}
  <2>1. approvalQueue = <<>>
    <3>1. approvalQueue # <<>> => Head(approvalQueue) \in Elements(approvalQueue)
      BY <1>1, TailElements
    <3> QED BY <3>1, <1>1, <1>6
  <2> QED BY <1>2, <1>3, <1>5, <1>6, <2>1
      DEF AskUser, TypeOK, ApprovalPart, WaitingShows, ShownFirst, OpenVerdicts
<1>7. CASE pendingToolApprovals # {}
  <2>1. approvalQueue # <<>>
    BY <1>1, <1>7 DEF Elements
  <2>2. st # "terminated"
    BY <2>1 DEF TerminatedIsClean
  <2>3. UNCHANGED <<isFirstPending, st, shown>>
    BY <1>7 DEF AskUser
  <2>4. WaitingShows'
    BY <1>3, <2>3 DEF WaitingShows, OpenVerdicts
  <2>5. ShownFirst'
    <3> SUFFICES ASSUME st = "waiting-input", verdict'[shown] \in OpenVerdicts
                 PROVE  shown = approvalQueue'[1]
      BY <2>3 DEF ShownFirst
    <3>1. shown \in Requests
      BY DEF WaitingShows
    <3>2. shown # r
      BY DEF WaitingShows
    <3> QED BY <3>1, <3>2, <1>2, <1>3, <2>1 DEF ShownFirst
  <2> QED BY <1>2, <1>3, <1>5, <2>2, <2>3, <2>4, <2>5 DEF TypeOK, ApprovalPart
<1> QED BY <1>6, <1>7

\* The two ways on from the permission rules and the hook, together.
LEMMA DecideApprovals ==
    ASSUME IInv, NEW r \in Requests,
           verdict[r] \in {"none", "hook", "hookAborted"},
           \/ DecideByMode(r)
           \/ \E v \in {"allow", "deny", "hook", "hookAborted"} :
                /\ verdict' = [verdict EXCEPT ![r] = v]
                /\ UNCHANGED <<approvalQueue, isFirstPending, st, shown>>
    PROVE  /\ ApprovalPart'
           /\ approvalQueue' \in Seq(Requests)
           /\ verdict' \in [Requests -> Verdicts]
           /\ isFirstPending' \subseteq Requests
           /\ shown' \in Requests \cup {NoRequest}
           /\ st' \in {st, "waiting-input"}
           /\ st' = "terminated" => approvalQueue' = approvalQueue
<1>1. CASE AskUser(r)
  BY <1>1, AskUserApprovals
<1>2. CASE \E v \in {"allow", "deny", "hook", "hookAborted"} :
                /\ verdict' = [verdict EXCEPT ![r] = v]
                /\ UNCHANGED <<approvalQueue, isFirstPending, st, shown>>
  <2> USE DEF IInv
  <2>1. PICK v \in {"allow", "deny", "hook", "hookAborted"} :
                /\ verdict' = [verdict EXCEPT ![r] = v]
                /\ UNCHANGED <<approvalQueue, isFirstPending, st, shown>>
    BY <1>2
  <2>2. verdict' \in [Requests -> Verdicts]
    BY <2>1 DEF TypeOK, Verdicts
  <2>3. pendingToolApprovals' = pendingToolApprovals
    BY <2>1 DEF TypeOK, pendingToolApprovals, OpenVerdicts
  <2>4. st = "waiting-input" => shown # r /\ verdict'[shown] = verdict[shown]
    BY <2>1 DEF WaitingShows, TypeOK
  <2>5. ApprovalPart'
    BY <2>1, <2>3, <2>4
       DEF ApprovalPart, ApprovalsTracked, WaitingShows, ShownFirst, Distinct, Elements
  <2> QED BY <2>1, <2>2, <2>5 DEF TypeOK
<1> QED BY <1>1, <1>2 DEF DecideByMode

\* A canUseTool call preserves the invariant, whichever tier decides it.
LEMMA HandleToolApprovalInv ==
    ASSUME IInv, NEW r \in Requests, HandleToolApproval(r)
    PROVE  IInv'
<1>0. /\ ApprovalPart'
      /\ approvalQueue' \in Seq(Requests)
      /\ verdict' \in [Requests -> Verdicts]
      /\ isFirstPending' \subseteq Requests
      /\ shown' \in Requests \cup {NoRequest}
      /\ st' \in {st, "waiting-input"}
      /\ st' = "terminated" => approvalQueue' = approvalQueue
  BY DecideApprovals DEF HandleToolApproval
<1> USE DEF IInv
<1>1. TypeOK'
  BY <1>0 DEF HandleToolApproval, TypeOK, States, msgVars, agentVars
<1>2. ApprovalPart'
  BY <1>0
<1>3. ControlPart'
  BY <1>0 DEF HandleToolApproval, ControlPart, TerminatedIsClean,
         SleepsOnlyWhileHeld, FailedIsReleased, IdleIsTimed
<1>4. AgentPart'
  BY AgentFrame, IInvParts DEF HandleToolApproval, agentVars
<1> QED BY <1>1, <1>2, <1>3, <1>4 DEF ApprovalPart, ControlPart, AgentPart

\* The return of an awaited hook preserves the invariant, although the state
\* may have changed during the await.
LEMMA HookReturnsInv ==
    ASSUME IInv, NEW r \in Requests, HookReturns(r)
    PROVE  IInv'
<1>0. /\ ApprovalPart'
      /\ approvalQueue' \in Seq(Requests)
      /\ verdict' \in [Requests -> Verdicts]
      /\ isFirstPending' \subseteq Requests
      /\ shown' \in Requests \cup {NoRequest}
      /\ st' \in {st, "waiting-input"}
      /\ st' = "terminated" => approvalQueue' = approvalQueue
  BY DecideApprovals DEF HookReturns
<1> USE DEF IInv
<1>1. TypeOK'
  BY <1>0 DEF HookReturns, TypeOK, States, msgVars, agentVars
<1>2. ApprovalPart'
  BY <1>0
<1>3. ControlPart'
  BY <1>0 DEF HookReturns, ControlPart, TerminatedIsClean,
         SleepsOnlyWhileHeld, FailedIsReleased, IdleIsTimed
<1>4. AgentPart'
  BY AgentFrame, IInvParts DEF HookReturns, agentVars
<1> QED BY <1>1, <1>2, <1>3, <1>4 DEF ApprovalPart, ControlPart, AgentPart

\* Resolving one open request takes exactly it out of the line; what is shown
\* afterwards is the new head, or what was shown before.
LEMMA ResolveApprovals ==
    ASSUME IInv, NEW r \in Requests, verdict[r] \in OpenVerdicts,
           NEW v \in {"allow", "deny"},
           verdict' = [verdict EXCEPT ![r] = v],
           approvalQueue' = Without(approvalQueue, r),
           \/ EmitNextPendingApproval(approvalQueue', verdict')
           \/ UNCHANGED <<st, shown>>
    PROVE  /\ ApprovalPart'
           /\ approvalQueue' \in Seq(Requests)
           /\ verdict' \in [Requests -> Verdicts]
           /\ st' \in States
           /\ shown' \in Requests \cup {NoRequest}
           /\ st \notin {"terminated"}
           /\ st' \in {st, "waiting-input", "in-turn"}
<1> USE DEF IInv
<1>1. /\ approvalQueue \in Seq(Requests) /\ Distinct(approvalQueue)
      /\ Elements(approvalQueue) = pendingToolApprovals
  BY DEF TypeOK, ApprovalsTracked
<1>2. /\ approvalQueue' \in Seq(Requests)
      /\ Distinct(approvalQueue')
      /\ Elements(approvalQueue') = Elements(approvalQueue) \ {r}
      /\ (approvalQueue # <<>> /\ approvalQueue[1] # r) =>
             approvalQueue' # <<>> /\ approvalQueue'[1] = approvalQueue[1]
  BY <1>1, WithoutFacts
<1>3. /\ verdict' \in [Requests -> Verdicts]
      /\ verdict'[r] = v
      /\ \A x \in Requests \ {r} : verdict'[x] = verdict[x]
  BY DEF TypeOK, Verdicts
<1>4. pendingToolApprovals' = pendingToolApprovals \ {r}
  BY <1>3 DEF pendingToolApprovals, OpenVerdicts
<1>5. ApprovalsTracked'
  BY <1>1, <1>2, <1>4 DEF ApprovalsTracked, Distinct
<1>6. r \in Elements(approvalQueue) /\ approvalQueue # <<>>
  BY <1>1 DEF pendingToolApprovals, Elements
<1>7. st # "terminated"
  BY <1>6 DEF TerminatedIsClean
<1>8. CASE EmitNextPendingApproval(approvalQueue', verdict')
  <2>1. /\ st' \in {"waiting-input", "in-turn"}
        /\ shown' \in Requests \cup {NoRequest}
        /\ st' = "waiting-input" => shown' = approvalQueue'[1]
                                    /\ approvalQueue' # <<>> /\ shown' \in Requests
    BY <1>2, <1>8, EmitNextType
  <2>2. st' = "waiting-input" => verdict'[shown'] \in OpenVerdicts
    BY <1>8 DEF EmitNextPendingApproval, SetState
  <2> QED BY <2>1, <2>2, <1>2, <1>3, <1>5, <1>7
      DEF ApprovalPart, WaitingShows, ShownFirst, OpenVerdicts, States
<1>9. CASE UNCHANGED <<st, shown>>
  <2>1. WaitingShows'
    BY <1>9, <1>3 DEF WaitingShows, TypeOK
  <2>2. ShownFirst'
    <3> SUFFICES ASSUME st = "waiting-input", verdict'[shown] \in OpenVerdicts
                 PROVE  shown = approvalQueue'[1]
      BY <1>9 DEF ShownFirst
    <3>1. shown \in Requests /\ shown # r
      BY <1>3 DEF WaitingShows, OpenVerdicts
    <3>2. shown = approvalQueue[1]
      BY <3>1, <1>3 DEF ShownFirst
    <3> QED BY <3>1, <3>2, <1>2, <1>6
  <2> QED BY <2>1, <2>2, <1>2, <1>3, <1>5, <1>7, <1>9 DEF ApprovalPart, TypeOK
<1> QED BY <1>8, <1>9

\* The abort of a call's signal preserves the invariant.
LEMMA OnAbortInv ==
    ASSUME IInv, NEW r \in Requests, OnAbort(r)
    PROVE  IInv'
<1>0. /\ ApprovalPart'
      /\ approvalQueue' \in Seq(Requests)
      /\ verdict' \in [Requests -> Verdicts]
      /\ st' \in States
      /\ shown' \in Requests \cup {NoRequest}
      /\ st' = "terminated" => st = "terminated" /\ approvalQueue' = approvalQueue
      /\ st' = "idle" => st = "idle"
  <2>1. CASE verdict[r] = "hook"
    BY <2>1, DecideApprovals DEF OnAbort, IInv, TypeOK, States
  <2>2. CASE verdict[r] = "pending"
    BY <2>2, ResolveApprovals DEF OnAbort, OpenVerdicts
  <2> QED BY <2>1, <2>2 DEF OnAbort
<1> USE DEF IInv
<1>1. TypeOK'
  BY <1>0 DEF OnAbort, TypeOK, States, msgVars, agentVars
<1>2. ApprovalPart'
  BY <1>0
<1>3. ControlPart'
  BY <1>0 DEF OnAbort, ControlPart, TerminatedIsClean,
         SleepsOnlyWhileHeld, FailedIsReleased, IdleIsTimed
<1>4. AgentPart'
  BY AgentFrame, IInvParts DEF OnAbort, agentVars
<1> QED BY <1>1, <1>2, <1>3, <1>4 DEF ApprovalPart, ControlPart, AgentPart

-----------------------------------------------------------------------------
(* The HTTP handlers and the Supervisor preserve the invariant.            *)

\* The state check of POST /input preserves the invariant.
LEMMA CheckInputInv == ASSUME IInv, CheckInput PROVE IInv'
<1> USE DEF IInv
<1>1. TypeOK'
  BY DEF CheckInput, TypeOK, procVars, msgVars, agentVars
<1>2. ApprovalPart'
  BY ApprovalFrame, IInvParts DEF CheckInput, procVars
<1>3. ControlPart'
  BY ControlFrame, IInvParts DEF CheckInput
<1>4. AgentPart'
  BY AgentFrame, IInvParts DEF CheckInput, agentVars, procVars
<1> QED BY <1>1, <1>2, <1>3, <1>4 DEF ApprovalPart, ControlPart, AgentPart

\* An answer to a request that is gone preserves the invariant.
LEMMA RespondUnknownInv ==
    ASSUME IInv, NEW r \in Requests, RespondUnknown(r)
    PROVE  IInv'
<1> USE DEF IInv
<1>1. TypeOK'
  <2>1. /\ st' \in States /\ shown' \in Requests \cup {NoRequest}
        /\ posting' \in BOOLEAN /\ mode' \in Modes
    BY DEF RespondUnknown, SetState, TypeOK, States, Modes
  <2> QED BY <2>1 DEF RespondUnknown, TypeOK, msgVars, agentVars
<1>2. ApprovalPart'
  BY ApprovalFrame, IInvParts DEF RespondUnknown, SetState
<1>3. ControlPart'
  BY DEF RespondUnknown, SetState, ControlPart, TerminatedIsClean,
         SleepsOnlyWhileHeld, FailedIsReleased, IdleIsTimed
<1>4. AgentPart'
  BY AgentFrame, IInvParts DEF RespondUnknown, agentVars
<1> QED BY <1>1, <1>2, <1>3, <1>4 DEF ApprovalPart, ControlPart, AgentPart

\* An answer to an open request preserves the invariant, in whatever state it
\* finds the process after the await.
LEMMA RespondToInputInv ==
    ASSUME IInv, NEW r \in Requests, NEW response, RespondToInput(r, response)
    PROVE  IInv'
<1>0. /\ ApprovalPart'
      /\ approvalQueue' \in Seq(Requests)
      /\ verdict' \in [Requests -> Verdicts]
      /\ shown' \in Requests \cup {NoRequest}
      /\ st' \in {"waiting-input", "in-turn"}
  <2>1. PICK v \in {"allow", "deny"} : verdict' = [verdict EXCEPT ![r] = v]
    BY DEF RespondToInput
  <2>2. approvalQueue' = Without(approvalQueue, r) /\ verdict[r] \in OpenVerdicts
        /\ EmitNextPendingApproval(approvalQueue', verdict')
    BY DEF RespondToInput
  <2>3. /\ ApprovalPart' /\ approvalQueue' \in Seq(Requests)
        /\ verdict' \in [Requests -> Verdicts]
        /\ shown' \in Requests \cup {NoRequest}
    BY <2>1, <2>2, ResolveApprovals
  <2> QED BY <2>2, <2>3, EmitNextType
<1> USE DEF IInv
<1>1. TypeOK'
  <2>1. /\ queue' \in Seq(Messages) /\ inbox' \in Seq(Messages)
        /\ genWaiting' \in BOOLEAN /\ steering' \subseteq Messages
        /\ accepted' \subseteq Messages /\ idleTimer' \in BOOLEAN
    <3>1. CASE response = "followup" /\ ~Refuses
      <4>1. PICK m \in Messages : SteerOrPush(m)
        BY <3>1 DEF RespondToInput, Unsent
      <4> QED BY <3>1, <4>1, SteerOrPushType DEF RespondToInput
    <3>2. CASE ~(response = "followup" /\ ~Refuses)
      BY <3>2 DEF RespondToInput, TypeOK
    <3> QED BY <3>1, <3>2
  <2>2. mode' \in Modes
    BY DEF RespondToInput, ModeAfterResponse, TypeOK, Modes,
           ModeAfterApproval
  <2>3. /\ approvalQueue' \in Seq(Requests) /\ verdict' \in [Requests -> Verdicts]
        /\ shown' \in Requests \cup {NoRequest} /\ st' \in States
    BY <1>0 DEF States
  <2> HIDE DEF IInv
  <2>4. TypeOK
    BY DEF IInv
  <2> QED BY <2>1, <2>2, <2>3, <2>4 DEF RespondToInput, TypeOK, agentVars
<1>2. ApprovalPart'
  BY <1>0
<1>3. ControlPart'
  BY <1>0 DEF RespondToInput, ControlPart, TerminatedIsClean,
         SleepsOnlyWhileHeld, FailedIsReleased, IdleIsTimed
<1>4. AgentPart'
  BY AgentFrame, IInvParts DEF RespondToInput, agentVars
<1> QED BY <1>1, <1>2, <1>3, <1>4 DEF ApprovalPart, ControlPart, AgentPart

\* A user message preserves the invariant.
LEMMA QueueMessageInv ==
    ASSUME IInv, NEW m \in Messages, QueueMessage(m)
    PROVE  IInv'
<1> USE DEF IInv
<1>0. idleTimer \in BOOLEAN /\ Deliver(m, idleTimer)
  BY DEF QueueMessage, TypeOK
<1>1. TypeOK'
  BY <1>0, DeliverType DEF QueueMessage, TypeOK, apprVars, agentVars
<1>2. ApprovalPart'
  BY ApprovalFrame, IInvParts DEF QueueMessage, Deliver, SetState, apprVars
<1>3. ControlPart'
  BY DEF QueueMessage, Deliver, SetState, ControlPart, TerminatedIsClean,
         SleepsOnlyWhileHeld, FailedIsReleased, IdleIsTimed, apprVars
<1>4. AgentPart'
  BY AgentFrame, IInvParts DEF QueueMessage, agentVars
<1> QED BY <1>1, <1>2, <1>3, <1>4 DEF ApprovalPart, ControlPart, AgentPart

\* A settled steer call preserves the invariant.
LEMMA SteerSettlesInv ==
    ASSUME IInv, NEW m \in Messages, SteerSettles(m)
    PROVE  IInv'
<1> USE DEF IInv
<1>1. TypeOK'
  <2>1. /\ queue' \in Seq(Messages) /\ inbox' \in Seq(Messages)
        /\ genWaiting' \in BOOLEAN /\ handled' \subseteq Messages
    BY PushType DEF SteerSettles, TypeOK
  <2> QED BY <2>1 DEF SteerSettles, TypeOK, procVars, apprVars
<1>2. ApprovalPart'
  BY ApprovalFrame, IInvParts DEF SteerSettles, procVars, apprVars
<1>3. ControlPart'
  BY ControlFrame, IInvParts DEF SteerSettles, apprVars
<1>4. AgentPart'
  BY AgentFrame, IInvParts DEF SteerSettles, procVars
<1> QED BY <1>1, <1>2, <1>3, <1>4 DEF ApprovalPart, ControlPart, AgentPart

\* Deferring a message and cancelling a deferred one preserve the invariant.
LEMMA DeferredInv ==
    ASSUME IInv, NEW m \in Messages, DeferMessage(m) \/ CancelDeferredMessage(m)
    PROVE  IInv'
<1> USE DEF IInv
<1>0. /\ deferredQueue' \in Seq(Messages)
      /\ UNCHANGED <<procVars, apprVars, queue, genWaiting, steering, accepted,
                     refused, inbox, agentVars>>
  BY SeqFacts, WithoutType DEF DeferMessage, CancelDeferredMessage, TypeOK
<1>1. TypeOK'
  BY <1>0 DEF TypeOK, procVars, apprVars, agentVars
<1>2. ApprovalPart'
  BY <1>0, ApprovalFrame, IInvParts DEF procVars, apprVars
<1>3. ControlPart'
  BY <1>0, ControlFrame, IInvParts DEF apprVars
<1>4. AgentPart'
  BY <1>0, AgentFrame, IInvParts DEF procVars, agentVars
<1> QED BY <1>1, <1>2, <1>3, <1>4 DEF ApprovalPart, ControlPart, AgentPart

\* Holding the process preserves the invariant.
LEMMA HoldOnInv == ASSUME IInv, HoldOn PROVE IInv'
<1> USE DEF IInv
<1>1. TypeOK'
  BY DEF HoldOn, SetState, TypeOK, States, apprVars, msgVars, agentVars
<1>2. ApprovalPart'
  BY ApprovalFrame, IInvParts DEF HoldOn, SetState, apprVars
<1>3. ControlPart'
  BY DEF HoldOn, SetState, ControlPart, TerminatedIsClean,
         SleepsOnlyWhileHeld, FailedIsReleased, IdleIsTimed
<1>4. AgentPart'
  BY AgentFrame, IInvParts DEF HoldOn, agentVars
<1> QED BY <1>1, <1>2, <1>3, <1>4 DEF ApprovalPart, ControlPart, AgentPart

\* Releasing the hold preserves the invariant: the loop is woken.
LEMMA HoldOffInv == ASSUME IInv, HoldOff PROVE IInv'
<1> USE DEF IInv
<1>1. TypeOK'
  <2>1. CASE iteratorDone
    BY <2>1, TransitionToIdleType DEF HoldOff, WakeLoop, TypeOK, apprVars, agentVars
  <2>2. CASE ~iteratorDone
    BY <2>2 DEF HoldOff, WakeLoop, SetState, TypeOK, States, apprVars, msgVars, agentVars
  <2> QED BY <2>1, <2>2
<1>2. ApprovalPart'
  BY ApprovalFrame, TransitionToIdleState, IInvParts DEF HoldOff, SetState, apprVars
<1>3. ControlPart'
  <2>1. st # "terminated"
    BY DEF HoldOff, WakeLoop, TerminatedIsClean
  <2> QED BY <2>1, TransitionToIdleState
      DEF HoldOff, WakeLoop, SetState, ControlPart, TerminatedIsClean,
          SleepsOnlyWhileHeld, FailedIsReleased, IdleIsTimed
<1>4. AgentPart'
  BY AgentFrame, IInvParts DEF HoldOff, agentVars
<1> QED BY <1>1, <1>2, <1>3, <1>4 DEF ApprovalPart, ControlPart, AgentPart

\* A change of the permission mode preserves the invariant.
LEMMA SetPermissionModeInv ==
    ASSUME IInv, NEW m \in Modes, SetPermissionMode(m)
    PROVE  IInv'
<1> USE DEF IInv
<1>1. TypeOK'
  BY DEF SetPermissionMode, TypeOK, procVars, msgVars, agentVars
<1>2. ApprovalPart'
  BY ApprovalFrame, IInvParts DEF SetPermissionMode, procVars
<1>3. ControlPart'
  BY ControlFrame, IInvParts DEF SetPermissionMode
<1>4. AgentPart'
  BY AgentFrame, IInvParts DEF SetPermissionMode, agentVars, procVars
<1> QED BY <1>1, <1>2, <1>3, <1>4 DEF ApprovalPart, ControlPart, AgentPart

\* abort() and terminate() preserve the invariant.
LEMMA KillInv == ASSUME IInv, Kill PROVE IInv'
<1> USE DEF IInv
<1>1. TypeOK'
  BY MarkTerminatedType DEF Kill, WakeLoop, TypeOK, msgVars
<1>2. ApprovalPart'
  BY MarkTerminatedApprovals DEF Kill
<1>3. ControlPart'
  BY DEF Kill, WakeLoop, MarkTerminated, SetState, ControlPart, TerminatedIsClean,
         SleepsOnlyWhileHeld, FailedIsReleased, IdleIsTimed
<1>4. AgentPart'
  BY DEF Kill, AgentPart, AgentGone, NoOrphanAgent
<1> QED BY <1>1, <1>2, <1>3, <1>4 DEF ApprovalPart, ControlPart, AgentPart

\* The idle timer preserves the invariant: it is armed again or the process is
\* given up.
LEMMA IdleTimerFiresInv == ASSUME IInv, IdleTimerFires PROVE IInv'
<1> USE DEF IInv
<1>1. TypeOK'
  <2>1. idleTimer' \in BOOLEAN /\ registered' \in BOOLEAN
    BY DEF IdleTimerFires, TypeOK
  <2> QED BY <2>1 DEF IdleTimerFires, TypeOK, apprVars, msgVars, agentVars
<1>2. ApprovalPart'
  BY ApprovalFrame, IInvParts DEF IdleTimerFires, apprVars
<1>3. ControlPart'
  BY DEF IdleTimerFires, ControlPart, TerminatedIsClean, apprVars,
         SleepsOnlyWhileHeld, FailedIsReleased, IdleIsTimed, TypeOK
<1>4. AgentPart'
  BY DEF IdleTimerFires, AgentPart, AgentGone, NoOrphanAgent, agentVars, TypeOK
<1> QED BY <1>1, <1>2, <1>3, <1>4 DEF ApprovalPart, ControlPart, AgentPart

-----------------------------------------------------------------------------
(* The agent preserves the invariant.                                      *)

\* The agent's reading of its input preserves the invariant.
LEMMA AgentReadsInv ==
    ASSUME IInv, AgentPull \/ AgentStartsTurn
    PROVE  IInv'
<1> USE DEF IInv
<1>0. /\ queue' \in Seq(Messages) /\ inbox' \in Seq(Messages)
      /\ genWaiting' \in BOOLEAN /\ handled' \subseteq Messages
      /\ agentTurn' \in BOOLEAN
      /\ UNCHANGED <<procVars, apprVars, deferredQueue, steering, accepted,
                     refused, streamOpen, alive, killed, out>>
  <2>1. CASE AgentPull
    <3>1. CASE queue # <<>>
      <4>1. Head(queue) \in Messages /\ Tail(queue) \in Seq(Messages)
            /\ Append(inbox, Head(queue)) \in Seq(Messages)
        BY <3>1, SeqFacts DEF TypeOK
      <4> QED BY <2>1, <3>1, <4>1 DEF AgentPull, TypeOK, agentVars
    <3>2. CASE queue = <<>>
      BY <2>1, <3>2 DEF AgentPull, TypeOK, agentVars
    <3> QED BY <3>1, <3>2
  <2>2. CASE AgentStartsTurn
    <3>1. Head(inbox) \in Messages /\ Tail(inbox) \in Seq(Messages)
      BY <2>2, SeqFacts DEF AgentStartsTurn, TypeOK
    <3> QED BY <2>2, <3>1 DEF AgentStartsTurn, TypeOK
  <2> QED BY <2>1, <2>2
<1>1. TypeOK'
  BY <1>0 DEF TypeOK, procVars, apprVars
<1>2. ApprovalPart'
  BY <1>0, ApprovalFrame, IInvParts DEF procVars, apprVars
<1>3. ControlPart'
  BY <1>0, ControlFrame, IInvParts DEF apprVars
<1>4. AgentPart'
  BY <1>0, AgentFrame, IInvParts DEF procVars
<1> QED BY <1>1, <1>2, <1>3, <1>4 DEF ApprovalPart, ControlPart, AgentPart

\* The end of a turn in the agent preserves the invariant.
LEMMA AgentEndsTurnInv == ASSUME IInv, AgentEndsTurn PROVE IInv'
<1> USE DEF IInv
<1>0. /\ out' \in Seq(Events)
      /\ "died" \in Elements(out') => "died" \in Elements(out)
  <2>1. out' \in Seq(Events)
    BY SeqFacts DEF AgentEndsTurn, TypeOK, Events
  <2>2. ASSUME NEW i \in 1..Len(Append(out, "result")), Append(out, "result")[i] = "died"
        PROVE  i \in 1..Len(out) /\ out[i] = "died"
    BY <2>2 DEF TypeOK
  <2> QED BY <2>1, <2>2 DEF AgentEndsTurn, Elements
<1>1. TypeOK'
  <2>1. agentTurn' \in BOOLEAN
    BY DEF AgentEndsTurn
  <2>2. UNCHANGED <<procVars, apprVars, msgVars, handled, streamOpen, alive, killed>>
    BY DEF AgentEndsTurn
  <2> QED BY <1>0, <2>1, <2>2 DEF TypeOK, procVars, apprVars, msgVars
<1>2. ApprovalPart'
  BY ApprovalFrame, IInvParts DEF AgentEndsTurn, procVars, apprVars
<1>3. ControlPart'
  BY ControlFrame, IInvParts DEF AgentEndsTurn, apprVars
<1>4. AgentPart'
  BY <1>0 DEF AgentEndsTurn, AgentPart, AgentGone, NoOrphanAgent, procVars
<1> QED BY <1>1, <1>2, <1>3, <1>4 DEF ApprovalPart, ControlPart, AgentPart

\* The end of the agent's stream preserves the invariant.
LEMMA AgentExitsInv ==
    ASSUME IInv, NEW e \in Events \ {"result"}, AgentExits(e)
    PROVE  IInv'
<1> USE DEF IInv
<1>0. /\ out' \in Seq(Events)
      /\ "died" \in Elements(out') => e = "died" \/ "died" \in Elements(out)
  <2>1. out' \in Seq(Events)
    BY SeqFacts DEF AgentExits, TypeOK
  <2>2. ASSUME NEW i \in 1..Len(Append(out, e)), Append(out, e)[i] = "died", e # "died"
        PROVE  i \in 1..Len(out) /\ out[i] = "died"
    BY <2>2 DEF TypeOK
  <2> QED BY <2>1, <2>2 DEF AgentExits, Elements
<1>1. TypeOK'
  <2>1. alive' \in BOOLEAN /\ streamOpen' \in BOOLEAN /\ agentTurn' \in BOOLEAN
    BY DEF AgentExits
  <2> QED BY <1>0, <2>1 DEF AgentExits, TypeOK, procVars, apprVars, msgVars
<1>2. ApprovalPart'
  BY ApprovalFrame, IInvParts DEF AgentExits, procVars, apprVars
<1>3. ControlPart'
  BY ControlFrame, IInvParts DEF AgentExits, apprVars
<1>4. AgentPart'
  \* An open stream has a process, so an unregistered process was killed.
  BY <1>0 DEF AgentExits, AgentPart, AgentGone, NoOrphanAgent, procVars
<1> QED BY <1>1, <1>2, <1>3, <1>4 DEF ApprovalPart, ControlPart, AgentPart

-----------------------------------------------------------------------------
(* The theorems.                                                           *)

\* A stuttering step preserves the invariant.
LEMMA StutterInv == ASSUME IInv, UNCHANGED vars PROVE IInv'
<1> USE DEF IInv
<1>1. TypeOK'
  BY DEF TypeOK, vars, procVars, apprVars, msgVars, agentVars
<1>2. ApprovalPart'
  BY ApprovalFrame, IInvParts DEF vars, procVars, apprVars
<1>3. ControlPart'
  BY ControlFrame, IInvParts DEF vars, apprVars
<1>4. AgentPart'
  BY AgentFrame, IInvParts DEF vars, procVars, agentVars
<1> QED BY <1>1, <1>2, <1>3, <1>4 DEF ApprovalPart, ControlPart, AgentPart

\* Every step of the session preserves the inductive invariant.
LEMMA NextInv == IInv /\ [Next]_vars => IInv'
<1> SUFFICES ASSUME IInv, [Next]_vars PROVE IInv'
  OBVIOUS
<1>1. CASE LoopResult \/ LoopMessage \/ LoopEnd \/ LoopDied \/ LoopWoken
  BY <1>1, LoopResultInv, LoopMessageInv, LoopEndInv, LoopDiedInv, LoopWokenInv
<1>2. CASE \E r \in Requests : HandleToolApproval(r) \/ HookReturns(r)
                             \/ OnAbort(r) \/ RespondUnknown(r)
  BY <1>2, HandleToolApprovalInv, HookReturnsInv, OnAbortInv, RespondUnknownInv
<1>3. CASE \E r \in Requests, response \in Responses : RespondToInput(r, response)
  BY <1>3, RespondToInputInv
<1>4. CASE \E m \in Messages : QueueMessage(m) \/ SteerSettles(m)
                             \/ DeferMessage(m) \/ CancelDeferredMessage(m)
  BY <1>4, QueueMessageInv, SteerSettlesInv, DeferredInv
<1>5. CASE CheckInput \/ HoldOn \/ HoldOff \/ Kill \/ IdleTimerFires
  BY <1>5, CheckInputInv, HoldOnInv, HoldOffInv, KillInv, IdleTimerFiresInv
<1>6. CASE \E m \in Modes : SetPermissionMode(m)
  BY <1>6, SetPermissionModeInv
<1>7. CASE AgentPull \/ AgentStartsTurn \/ AgentEndsTurn
  BY <1>7, AgentReadsInv, AgentEndsTurnInv
<1>8. CASE \E e \in Events \ {"result"} : AgentExits(e)
  BY <1>8, AgentExitsInv
<1>9. CASE UNCHANGED vars
  BY <1>9, StutterInv
<1> QED BY <1>1, <1>2, <1>3, <1>4, <1>5, <1>6, <1>7, <1>8, <1>9 DEF Next

\* Every reachable state of a session satisfies the inductive invariant.
THEOREM SessionInvariant == Spec => []IInv
BY InitInv, NextInv, PTL DEF Spec

\* The state of a session keeps its types.
THEOREM SessionTypes == Spec => []TypeOK
<1>1. IInv => TypeOK
  BY DEF IInv
<1> QED BY <1>1, SessionInvariant, PTL

\* The resolvers and the line of handleToolApproval() agree, and an open
\* request that is shown is the oldest one, for any number of tool calls.
THEOREM ApprovalsInOrder == Spec => [](ApprovalsTracked /\ ShownFirst)
<1>1. IInv => ApprovalsTracked /\ ShownFirst
  BY DEF IInv
<1> QED BY <1>1, SessionInvariant, PTL

\* The user is never shown an open request ahead of an older one, for any number
\* of tool calls that are asked, answered and aborted in any order.
THEOREM OldestIsShown == Spec => []ShownFirst
<1>1. IInv => ShownFirst
  BY DEF IInv
<1> QED BY <1>1, SessionInvariant, PTL

\* markTerminated() leaves no approval, timer, owner or sleeping loop behind.
THEOREM TerminationIsClean == Spec => []TerminatedIsClean
<1>1. IInv => TerminatedIsClean
  BY DEF IInv
<1> QED BY <1>1, SessionInvariant, PTL

\* processMessages() sleeps only while the process is held.
THEOREM HoldWakesLoop == Spec => []SleepsOnlyWhileHeld
<1>1. IInv => SleepsOnlyWhileHeld
  BY DEF IInv
<1> QED BY <1>1, SessionInvariant, PTL

\* An owned idle process has its cleanup timer armed.
THEOREM IdleTimerArmed == Spec => []IdleIsTimed
<1>1. IInv => IdleIsTimed
  BY DEF IInv
<1> QED BY <1>1, SessionInvariant, PTL

\* With a liveness check no agent outlives the Supervisor's interest in it
\* without having been killed.
THEOREM AgentsNotOrphaned == Spec => []NoOrphanAgent
<1>1. IInv => NoOrphanAgent
  BY DEF IInv
<1> QED BY <1>1, SessionInvariant, PTL

\* What the acceptEdits branch of handleToolApproval() is meant to be: each of
\* default, acceptEdits and bypassPermissions allows all that the one before it
\* allows, and no mode allows a tool that needs an answer of the user.
THEOREM ModesAreOrdered ==
    \A tool \in [name : STRING, planFile : BOOLEAN] :
        /\ AutoAllowed("default", tool) => AutoAllowed("acceptEdits", tool)
        /\ AutoAllowed("acceptEdits", tool) => AutoAllowed("bypassPermissions", tool)
        /\ tool.name \in InteractiveTools =>
               \A m \in Modes : ~AutoAllowed(m, tool)
BY DEF AutoAllowed, InteractiveTools, ReadOnlyTools, EditTools, Modes

-----------------------------------------------------------------------------
(* Messages.  MessagesConserved is inductive together with IInv, which     *)
(* says that a process that refuses messages has been let go.              *)

\* MessagesConserved, with its places written out: the accepted messages, and
\* those that are deferred or refused.
PlacesApart ==
    /\ accepted = Elements(queue) \cup Elements(inbox) \cup steering \cup handled
    /\ Elements(queue) \cap Elements(inbox) = {}
    /\ Elements(queue) \cap steering = {}
    /\ Elements(queue) \cap handled = {}
    /\ Elements(inbox) \cap steering = {}
    /\ Elements(inbox) \cap handled = {}
    /\ steering \cap handled = {}
    /\ Distinct(queue) /\ Distinct(inbox)

DeferredApart ==
    /\ Distinct(deferredQueue)
    /\ Elements(deferredQueue) \cap (accepted \cup refused) = {}
    /\ refused \cap accepted = {}
    /\ refused # {} => ~registered

\* The two parts are what MessagesConserved says.
LEMMA ConservedParts == MessagesConserved <=> PlacesApart /\ DeferredApart
<1>1. UNION {Places[i] : i \in 1..4}
        = Elements(queue) \cup Elements(inbox) \cup steering \cup handled
  <2>1. {Places[i] : i \in 1..4} = {Places[1], Places[2], Places[3], Places[4]}
    BY DEF Places
  <2> QED BY <2>1 DEF Places
<1>2. (\A i, j \in 1..4 : i # j => Places[i] \cap Places[j] = {}) <=>
        /\ Elements(queue) \cap Elements(inbox) = {}
        /\ Elements(queue) \cap steering = {}
        /\ Elements(queue) \cap handled = {}
        /\ Elements(inbox) \cap steering = {}
        /\ Elements(inbox) \cap handled = {}
        /\ steering \cap handled = {}
  BY DEF Places
<1> QED BY <1>1, <1>2 DEF MessagesConserved, PlacesApart, DeferredApart

\* A process that refuses messages has been let go.
LEMMA RefusesIsReleased == ASSUME IInv, Refuses PROVE ~registered
BY DEF IInv, Refuses, TerminatedIsClean, FailedIsReleased

\* MessageQueue.push() puts a new message into exactly one of queue and inbox.
LEMMA PushPlaces ==
    ASSUME TypeOK, PlacesApart, NEW m \in Messages, Push(m),
           m \notin Elements(queue), m \notin Elements(inbox)
    PROVE  /\ Distinct(queue') /\ Distinct(inbox')
           /\ \/ /\ Elements(queue') = Elements(queue) \cup {m}
                 /\ Elements(inbox') = Elements(inbox)
              \/ /\ Elements(queue') = Elements(queue)
                 /\ Elements(inbox') = Elements(inbox) \cup {m}
<1>1. queue \in Seq(Messages) /\ Distinct(queue)
  BY DEF TypeOK, PlacesApart
<1>2. inbox \in Seq(Messages) /\ Distinct(inbox)
  BY DEF TypeOK, PlacesApart
<1>3. /\ Distinct(Append(queue, m))
      /\ Elements(Append(queue, m)) = Elements(queue) \cup {m}
  BY <1>1, AppendFacts
<1>4. /\ Distinct(Append(inbox, m))
      /\ Elements(Append(inbox, m)) = Elements(inbox) \cup {m}
  BY <1>2, AppendFacts
<1> QED BY <1>1, <1>2, <1>3, <1>4 DEF Push

\* queueMessage() gives a message that it has not accepted before one place.
LEMMA SteerOrPushPlaces ==
    ASSUME TypeOK, PlacesApart, NEW m \in Messages \ accepted, SteerOrPush(m),
           UNCHANGED handled
    PROVE  PlacesApart' /\ accepted' = accepted \cup {m}
<1>1. /\ m \notin Elements(queue) /\ m \notin Elements(inbox)
      /\ m \notin steering /\ m \notin handled
  BY DEF PlacesApart
<1>2. accepted' = accepted \cup {m}
  BY DEF SteerOrPush
<1>3. CASE st = "in-turn" /\ "steer" \in Features
  <2>1. steering' = steering \cup {m} /\ UNCHANGED <<queue, inbox>>
    BY <1>3 DEF SteerOrPush
  <2> QED BY <1>1, <1>2, <2>1 DEF PlacesApart
<1>4. CASE ~(st = "in-turn" /\ "steer" \in Features)
  <2>1. Push(m) /\ UNCHANGED steering
    BY <1>4 DEF SteerOrPush
  <2>2. /\ Distinct(queue') /\ Distinct(inbox')
        /\ \/ /\ Elements(queue') = Elements(queue) \cup {m}
              /\ Elements(inbox') = Elements(inbox)
           \/ /\ Elements(queue') = Elements(queue)
              /\ Elements(inbox') = Elements(inbox) \cup {m}
    BY <1>1, <2>1, PushPlaces
  <2> QED BY <1>1, <1>2, <2>1, <2>2 DEF PlacesApart
<1> QED BY <1>2, <1>3, <1>4

\* A message that queueMessage() accepts outside the deferred queue keeps the
\* deferred and the refused messages apart from the accepted ones.
LEMMA SentConserved ==
    ASSUME TypeOK, PlacesApart, DeferredApart, NEW m \in Unsent, SteerOrPush(m),
           UNCHANGED <<handled, deferredQueue, refused>>, registered' = registered
    PROVE  PlacesApart' /\ DeferredApart'
<1>1. m \in Messages \ accepted /\ m \notin refused /\ m \notin Elements(deferredQueue)
  BY DEF Unsent
<1>2. PlacesApart' /\ accepted' = accepted \cup {m}
  BY <1>1, SteerOrPushPlaces
<1> QED BY <1>1, <1>2 DEF DeferredApart

\* transitionToIdle() moves a deferred message to the accepted or, in a process
\* that was let go, to the refused ones.
LEMMA TransitionToIdleConserved ==
    ASSUME IInv, PlacesApart, DeferredApart, TransitionToIdle,
           UNCHANGED handled, UNCHANGED registered
    PROVE  PlacesApart' /\ DeferredApart'
<1>0. TypeOK
  BY DEF IInv
<1>1. CASE deferredQueue = <<>>
  <2>1. UNCHANGED msgVars
    BY <1>1 DEF TransitionToIdle
  <2> QED BY <2>1 DEF PlacesApart, DeferredApart, msgVars
<1>2. CASE deferredQueue # <<>>
  <2> DEFINE m == Head(deferredQueue)
  <2>1. deferredQueue' = Tail(deferredQueue)
    BY <1>2 DEF TransitionToIdle
  <2>2. deferredQueue \in Seq(Messages) /\ Distinct(deferredQueue)
    BY <1>0 DEF TypeOK, DeferredApart
  <2>3. /\ m \in Messages /\ m \in Elements(deferredQueue)
        /\ Distinct(Tail(deferredQueue))
        /\ Elements(Tail(deferredQueue)) = Elements(deferredQueue) \ {m}
    BY <1>2, <2>2, HeadTailFacts
  <2> HIDE DEF m
  <2>4. m \notin accepted /\ m \notin refused
    BY <2>3 DEF DeferredApart
  <2>5. CASE Refuses
    <3>1. refused' = refused \cup {m} /\ UNCHANGED <<queue, inbox, steering, accepted>>
      BY <1>2, <2>5 DEF TransitionToIdle, m
    <3>2. ~registered
      BY <2>5, RefusesIsReleased
    <3>3. PlacesApart'
      BY <3>1 DEF PlacesApart
    <3> QED BY <2>1, <2>3, <2>4, <3>1, <3>2, <3>3 DEF DeferredApart
  <2>6. CASE ~Refuses
    <3>1. SteerOrPush(m) /\ UNCHANGED refused
      BY <1>2, <2>6 DEF TransitionToIdle, Deliver, m
    <3>2. PlacesApart' /\ accepted' = accepted \cup {m}
      BY <1>0, <2>3, <2>4, <3>1, SteerOrPushPlaces
    <3> QED BY <2>1, <2>3, <2>4, <3>1, <3>2 DEF DeferredApart
  <2> QED BY <2>5, <2>6
<1> QED BY <1>1, <1>2

\* A step that changes nothing of the messages, and lets nobody take the
\* process back, conserves them.
LEMMA ConservedFrame ==
    ASSUME PlacesApart, DeferredApart, UNCHANGED msgVars, UNCHANGED handled,
           registered' => registered
    PROVE  PlacesApart' /\ DeferredApart'
BY DEF PlacesApart, DeferredApart, msgVars

\* The steps of the loop conserve the messages.
LEMMA LoopConserved ==
    ASSUME IInv, PlacesApart, DeferredApart,
           LoopResult \/ LoopMessage \/ LoopEnd \/ LoopDied \/ LoopWoken
    PROVE  PlacesApart' /\ DeferredApart'
<1>1. CASE LoopResult
  BY <1>1, TransitionToIdleConserved DEF LoopResult
<1>2. CASE LoopEnd
  <2>0. UNCHANGED handled /\ UNCHANGED registered
    BY <1>2 DEF LoopEnd
  <2>1. CASE st # "waiting-input"
    BY <1>2, <2>0, <2>1, TransitionToIdleConserved DEF LoopEnd
  <2>2. CASE st = "waiting-input"
    <3>1. UNCHANGED msgVars
      BY <1>2, <2>2 DEF LoopEnd
    <3> QED BY <2>0, <3>1, ConservedFrame
  <2> QED BY <2>1, <2>2
<1>3. CASE LoopDied
  <2>1. UNCHANGED msgVars /\ UNCHANGED handled /\ (registered' => registered)
    BY <1>3 DEF LoopDied, MarkTerminated
  <2> QED BY <2>1, ConservedFrame
<1>4. CASE LoopWoken \/ LoopMessage
  <2>1. UNCHANGED msgVars /\ UNCHANGED handled /\ (registered' => registered)
    BY <1>4 DEF LoopWoken, LoopMessage, agentVars
  <2> QED BY <2>1, ConservedFrame
<1> QED BY <1>1, <1>2, <1>3, <1>4

\* Asking for an approval, and answering one, conserve the messages: the
\* follow-up of a denial is a message that was not sent before.
LEMMA ApprovalsConserve ==
    ASSUME IInv, PlacesApart, DeferredApart, NEW r \in Requests,
           \/ HandleToolApproval(r) \/ HookReturns(r) \/ OnAbort(r)
           \/ RespondUnknown(r) \/ \E response \in Responses : RespondToInput(r, response)
    PROVE  PlacesApart' /\ DeferredApart'
<1>1. CASE HandleToolApproval(r) \/ HookReturns(r) \/ OnAbort(r) \/ RespondUnknown(r)
  <2>1. UNCHANGED msgVars /\ UNCHANGED handled /\ (registered' => registered)
    BY <1>1 DEF HandleToolApproval, HookReturns, OnAbort, RespondUnknown, agentVars
  <2> QED BY <2>1, ConservedFrame
<1>2. CASE \E response \in Responses : RespondToInput(r, response)
  <2>0. PICK response \in Responses : RespondToInput(r, response)
    BY <1>2
  <2>1. UNCHANGED <<handled, deferredQueue, refused>> /\ registered' = registered
    BY <2>0 DEF RespondToInput, agentVars
  <2>2. CASE response = "followup" /\ ~Refuses
    <3>1. PICK m \in Unsent : SteerOrPush(m)
      BY <2>0, <2>2 DEF RespondToInput
    <3>2. TypeOK
      BY DEF IInv
    <3> QED BY <2>1, <3>1, <3>2, SentConserved
  <2>3. CASE ~(response = "followup" /\ ~Refuses)
    <3>1. UNCHANGED <<queue, genWaiting, inbox, steering, accepted>>
      BY <2>0, <2>3 DEF RespondToInput
    <3>2. UNCHANGED msgVars /\ UNCHANGED handled /\ (registered' => registered)
      BY <2>1, <3>1 DEF msgVars
    <3> QED BY <3>2, ConservedFrame
  <2> QED BY <2>2, <2>3
<1> QED BY <1>1, <1>2

\* Sending, steering, deferring and cancelling a message conserve them all.
LEMMA MessagesConserve ==
    ASSUME IInv, PlacesApart, DeferredApart, NEW m \in Messages,
           \/ QueueMessage(m) \/ SteerSettles(m)
           \/ DeferMessage(m) \/ CancelDeferredMessage(m)
    PROVE  PlacesApart' /\ DeferredApart'
<1>0. TypeOK
  BY DEF IInv
<1>1. CASE QueueMessage(m)
  <2>1. /\ m \in Unsent /\ SteerOrPush(m)
        /\ UNCHANGED <<handled, deferredQueue, refused>> /\ registered' = registered
    BY <1>1 DEF QueueMessage, Deliver, agentVars
  <2> QED BY <1>0, <2>1, SentConserved
<1>2. CASE SteerSettles(m)
  <2>1. /\ m \in steering /\ steering' = steering \ {m}
        /\ UNCHANGED <<accepted, refused, deferredQueue>> /\ registered' = registered
    BY <1>2 DEF SteerSettles, procVars
  <2>2. m \in accepted /\ m \notin Elements(queue) /\ m \notin Elements(inbox)
    BY <2>1 DEF PlacesApart
  <2>3. DeferredApart'
    BY <2>1 DEF DeferredApart
  <2>4. CASE handled' = handled \cup {m} /\ UNCHANGED <<queue, genWaiting, inbox>>
    BY <2>1, <2>2, <2>3, <2>4 DEF PlacesApart
  <2>5. CASE Push(m) /\ UNCHANGED handled
    <3>1. /\ Distinct(queue') /\ Distinct(inbox')
          /\ \/ /\ Elements(queue') = Elements(queue) \cup {m}
                /\ Elements(inbox') = Elements(inbox)
             \/ /\ Elements(queue') = Elements(queue)
                /\ Elements(inbox') = Elements(inbox) \cup {m}
      BY <1>0, <2>2, <2>5, PushPlaces
    <3>2. PlacesApart'
      BY <2>1, <2>2, <2>5, <3>1 DEF PlacesApart
    <3> QED BY <2>3, <3>2
  <2> QED BY <1>2, <2>4, <2>5 DEF SteerSettles
<1>3. CASE DeferMessage(m)
  <2>1. /\ m \in Unsent /\ deferredQueue' = Append(deferredQueue, m)
        /\ UNCHANGED <<queue, steering, accepted, refused, inbox, handled>>
        /\ registered' = registered
    BY <1>3 DEF DeferMessage, agentVars, procVars
  <2>2. /\ Distinct(Append(deferredQueue, m))
        /\ Elements(Append(deferredQueue, m)) = Elements(deferredQueue) \cup {m}
    <3>1. /\ deferredQueue \in Seq(Messages) /\ Distinct(deferredQueue)
          /\ m \notin Elements(deferredQueue)
      BY <1>0, <2>1 DEF TypeOK, DeferredApart, Unsent
    <3> QED BY <3>1, AppendFacts
  <2>3. m \notin accepted /\ m \notin refused
    BY <2>1 DEF Unsent
  <2>4. PlacesApart'
    BY <2>1 DEF PlacesApart
  <2> QED BY <2>1, <2>2, <2>3, <2>4 DEF DeferredApart
<1>4. CASE CancelDeferredMessage(m)
  <2>1. /\ deferredQueue' = Without(deferredQueue, m)
        /\ UNCHANGED <<queue, steering, accepted, refused, inbox, handled>>
        /\ registered' = registered
    BY <1>4 DEF CancelDeferredMessage, agentVars, procVars
  <2>2. /\ Distinct(Without(deferredQueue, m))
        /\ Elements(Without(deferredQueue, m)) = Elements(deferredQueue) \ {m}
    <3>1. deferredQueue \in Seq(Messages) /\ Distinct(deferredQueue)
      BY <1>0 DEF TypeOK, DeferredApart
    <3> QED BY <3>1, WithoutFacts
  <2>3. PlacesApart'
    BY <2>1 DEF PlacesApart
  <2> QED BY <2>1, <2>2, <2>3 DEF DeferredApart
<1> QED BY <1>1, <1>2, <1>3, <1>4

\* Holding, killing, switching modes and the idle timer conserve the messages.
LEMMA HandlersConserve ==
    ASSUME IInv, PlacesApart, DeferredApart,
           \/ CheckInput \/ HoldOn \/ HoldOff \/ Kill \/ IdleTimerFires
           \/ \E m \in Modes : SetPermissionMode(m)
    PROVE  PlacesApart' /\ DeferredApart'
<1>1. CASE \/ CheckInput \/ HoldOn \/ Kill \/ IdleTimerFires
           \/ \E m \in Modes : SetPermissionMode(m)
  <2>1. UNCHANGED msgVars /\ UNCHANGED handled /\ (registered' => registered)
    BY <1>1 DEF CheckInput, HoldOn, Kill, MarkTerminated, IdleTimerFires,
                SetPermissionMode, procVars, agentVars
  <2> QED BY <2>1, ConservedFrame
<1>2. CASE HoldOff
  <2>0. UNCHANGED handled /\ UNCHANGED registered
    BY <1>2 DEF HoldOff, agentVars
  <2>1. CASE iteratorDone
    BY <1>2, <2>0, <2>1, TransitionToIdleConserved DEF HoldOff
  <2>2. CASE ~iteratorDone
    <3>1. UNCHANGED msgVars
      BY <1>2, <2>2 DEF HoldOff
    <3> QED BY <2>0, <3>1, ConservedFrame
  <2> QED BY <2>1, <2>2
<1> QED BY <1>1, <1>2

\* The agent pulls a message from the queue, and starts on one of its inbox:
\* each goes from one place to the next.
LEMMA AgentConserves ==
    ASSUME IInv, PlacesApart, DeferredApart,
           \/ AgentPull \/ AgentStartsTurn \/ AgentEndsTurn
           \/ \E e \in Events \ {"result"} : AgentExits(e)
    PROVE  PlacesApart' /\ DeferredApart'
<1>0. /\ queue \in Seq(Messages) /\ Distinct(queue)
      /\ inbox \in Seq(Messages) /\ Distinct(inbox)
  BY DEF IInv, TypeOK, PlacesApart
<1>1. CASE AgentEndsTurn \/ \E e \in Events \ {"result"} : AgentExits(e)
  <2>1. UNCHANGED msgVars /\ UNCHANGED handled /\ (registered' => registered)
    <3>1. CASE AgentEndsTurn
      BY <3>1 DEF AgentEndsTurn, procVars
    <3>2. CASE \E e \in Events \ {"result"} : AgentExits(e)
      BY <3>2 DEF AgentExits, procVars
    <3> QED BY <1>1, <3>1, <3>2
  <2> QED BY <2>1, ConservedFrame
<1>2. CASE AgentPull
  <2>1. /\ UNCHANGED <<accepted, refused, deferredQueue, steering, handled>>
        /\ registered' = registered
    BY <1>2 DEF AgentPull, agentVars, procVars
  <2>2. DeferredApart'
    BY <2>1 DEF DeferredApart
  <2>3. CASE queue = <<>>
    <3>1. UNCHANGED <<inbox, queue>>
      BY <1>2, <2>3 DEF AgentPull
    <3> QED BY <2>1, <2>2, <3>1 DEF PlacesApart
  <2>4. CASE queue # <<>>
    <3> DEFINE m == Head(queue)
    <3>1. inbox' = Append(inbox, m) /\ queue' = Tail(queue)
      BY <1>2, <2>4 DEF AgentPull
    <3>2. /\ m \in Messages /\ m \in Elements(queue)
          /\ Distinct(Tail(queue)) /\ Elements(Tail(queue)) = Elements(queue) \ {m}
      BY <1>0, <2>4, HeadTailFacts
    <3> HIDE DEF m
    <3>3. m \notin Elements(inbox) /\ m \notin steering /\ m \notin handled
      BY <3>2 DEF PlacesApart
    <3>4. /\ Distinct(Append(inbox, m))
          /\ Elements(Append(inbox, m)) = Elements(inbox) \cup {m}
      BY <1>0, <3>2, <3>3, AppendFacts
    <3>5. PlacesApart'
      BY <2>1, <3>1, <3>2, <3>3, <3>4 DEF PlacesApart
    <3> QED BY <2>2, <3>5
  <2> QED BY <2>3, <2>4
<1>3. CASE AgentStartsTurn
  <2> DEFINE m == Head(inbox)
  <2>1. /\ UNCHANGED <<accepted, refused, deferredQueue, steering, queue>>
        /\ registered' = registered
        /\ inbox # <<>> /\ inbox' = Tail(inbox) /\ handled' = handled \cup {m}
    BY <1>3 DEF AgentStartsTurn, procVars
  <2>2. /\ m \in Elements(inbox)
        /\ Distinct(Tail(inbox)) /\ Elements(Tail(inbox)) = Elements(inbox) \ {m}
    BY <1>0, <2>1, HeadTailFacts
  <2> HIDE DEF m
  <2>3. DeferredApart'
    BY <2>1 DEF DeferredApart
  <2>4. PlacesApart'
    BY <2>1, <2>2 DEF PlacesApart
  <2> QED BY <2>3, <2>4
<1> QED BY <1>1, <1>2, <1>3

\* No accepted message is lost, doubled or in two places, whatever the
\* interleaving of the routes, the loop, the steer calls and the agent.
THEOREM MessagesAreConserved == Spec => []MessagesConserved
<1>1. Init => PlacesApart /\ DeferredApart
  <2> SUFFICES ASSUME Init PROVE PlacesApart /\ DeferredApart
    OBVIOUS
  <2>1. Distinct(queue)
    BY DEF Init, Distinct
  <2>2. Elements(<<>>) = {} /\ Distinct(<<>>)
    BY DEF Elements, Distinct
  <2> QED BY <2>1, <2>2 DEF Init, PlacesApart, DeferredApart
<1>2. IInv /\ PlacesApart /\ DeferredApart /\ [Next]_vars
        => PlacesApart' /\ DeferredApart'
  <2> SUFFICES ASSUME IInv, PlacesApart, DeferredApart, [Next]_vars
               PROVE  PlacesApart' /\ DeferredApart'
    OBVIOUS
  <2>1. CASE LoopResult \/ LoopMessage \/ LoopEnd \/ LoopDied \/ LoopWoken
    BY <2>1, LoopConserved
  <2>2. CASE \E r \in Requests :
               \/ HandleToolApproval(r) \/ HookReturns(r) \/ OnAbort(r)
               \/ RespondUnknown(r)
               \/ \E response \in Responses : RespondToInput(r, response)
    BY <2>2, ApprovalsConserve
  <2>3. CASE \E m \in Messages : \/ QueueMessage(m) \/ SteerSettles(m)
                                 \/ DeferMessage(m) \/ CancelDeferredMessage(m)
    BY <2>3, MessagesConserve
  <2>4. CASE \/ CheckInput \/ HoldOn \/ HoldOff \/ Kill \/ IdleTimerFires
             \/ \E m \in Modes : SetPermissionMode(m)
    BY <2>4, HandlersConserve
  <2>5. CASE \/ AgentPull \/ AgentStartsTurn \/ AgentEndsTurn
             \/ \E e \in Events \ {"result"} : AgentExits(e)
    BY <2>5, AgentConserves
  <2>6. CASE UNCHANGED vars
    <3>1. UNCHANGED msgVars /\ UNCHANGED handled /\ (registered' => registered)
      BY <2>6 DEF vars, procVars, agentVars
    <3> QED BY <3>1, ConservedFrame
  <2> QED BY <2>1, <2>2, <2>3, <2>4, <2>5, <2>6 DEF Next
<1>3. PlacesApart /\ DeferredApart => MessagesConserved
  BY ConservedParts
<1> QED BY <1>1, <1>2, <1>3, SessionInvariant, PTL DEF Spec
=============================================================================
