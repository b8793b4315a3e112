--------------------------- MODULE SessionProcess ---------------------------
(***************************************************************************)
(* One supervised agent session: supervisor/Process.ts with the            *)
(* MessageQueue of sdk/messageQueue.ts, the session routes that call it    *)
(* and, as its environment, the provider's agent and the user.             *)
(*                                                                         *)
(* Everything between two awaits of the code is one action.  The actors    *)
(* are the loop of processMessages(), the canUseTool callbacks of the      *)
(* agent, the HTTP handlers, the idle timer and the agent itself, which    *)
(* runs on its own and talks to the loop through a buffered stream.        *)
(***************************************************************************)
EXTENDS Naturals, Sequences, Queues, ToolPolicy

CONSTANTS
    Requests,    \* the tool calls the agent may ask approval for, each once
    Messages,    \* the user messages, each sent once
    ToolOf,      \* the tool call a request is about
    Features,    \* the optional behaviours of provider and user in this model
    MaxOut,      \* bound: agent events buffered and not yet read by the loop
    NoRequest    \* no request is shown

\* Optional behaviours: the loop's approval hook; steering, deny follow-ups,
\* isProcessAlive ("liveness") and aborted signals, which depend on the
\* provider; the others are actions of the user.
AllFeatures == {"hook", "steer", "followup", "liveness", "hold", "mode",
                "signal", "defer", "kill"}

ASSUME ConstantsAssumption ==
    /\ ToolOf \in [Requests -> [name : STRING, planFile : BOOLEAN]]
    /\ Features \subseteq AllFeatures
    /\ MaxOut \in Nat \ {0}
    /\ NoRequest \notin Requests

VARIABLES
    st,              \* _state.type
    shown,           \* _state.request of a waiting-input state
    isHeld,          \* _isHeld
    loop,            \* where processMessages() is: its await, or exited
    iteratorDone,    \* iteratorDone
    transportFailed, \* transportFailed
    idleTimer,       \* idleTimer is armed
    registered,      \* no "complete" was emitted yet: the Supervisor owns it
    verdict,         \* per request, where its canUseTool call stands
    approvalQueue,   \* pendingToolApprovalQueue
    isFirstPending,  \* requests whose call captured isFirstPending = true
    posting,         \* a POST /input passed its state check, awaits its body
    mode,            \* _permissionMode
    deferredQueue,   \* deferredQueue
    queue,           \* MessageQueue.queue
    genWaiting,      \* MessageQueue.waiting is set: the agent awaits input
    steering,        \* messages whose steerFn call is in flight
    accepted,        \* history: messages that queueMessage() took
    refused,         \* history: deferred messages that queueMessage() refused
    inbox,           \* agent: messages it has pulled and not yet started on
    handled,         \* agent: messages it has started on
    agentTurn,       \* agent: a turn is running
    streamOpen,      \* agent: its message stream has not ended
    alive,           \* agent: its OS process exists
    killed,          \* agent: abortFn() was called, its signals are aborted
    out              \* agent: events the loop has not read

procVars  == <<st, shown, isHeld, loop, iteratorDone, transportFailed,
               idleTimer, registered>>
apprVars  == <<verdict, approvalQueue, isFirstPending, posting, mode>>
msgVars   == <<deferredQueue, queue, genWaiting, steering, accepted, refused,
               inbox>>
agentVars == <<handled, agentTurn, streamOpen, alive, killed, out>>
vars      == <<procVars, apprVars, msgVars, agentVars>>

States == {"in-turn", "idle", "waiting-input", "hold", "terminated"}

\* A request's call: not made, awaiting the hook (its signal aborted or not),
\* awaiting the user (idem), or resolved.
Verdicts == {"none", "hook", "hookAborted", "pending", "orphan",
             "allow", "deny"}

\* The verdicts of the requests in the map pendingToolApprovals: the promise
\* is unresolved and respondToInput() can still resolve it.
OpenVerdicts == {"pending", "orphan"}

\* What the stream yields: the end of a turn, its own end, an error that
\* isProcessTerminationError() recognises, any other error.
Events == {"result", "done", "died", "failed"}

pendingToolApprovals == {r \in Requests : verdict[r] \in OpenVerdicts}

-----------------------------------------------------------------------------
(* Shared steps of several operations.  Each leaves to its caller the      *)
(* variables that it does not name.                                        *)

\* setState() to a state without a request.
SetState(s) == st' = s /\ shown' = NoRequest

\* Mutants of Push: the waiting generator is not woken; the message is handed
\* over and stored as well.
PushUnheard(m) == queue' = Append(queue, m) /\ UNCHANGED <<inbox, genWaiting>>

PushTwice(m) ==
    /\ queue' = Append(queue, m)
    /\ IF genWaiting
       THEN inbox' = Append(inbox, m) /\ genWaiting' = FALSE
       ELSE UNCHANGED <<inbox, genWaiting>>

\* MessageQueue.push(): hand the message to the waiting generator or store it.
Push(m) ==
    IF genWaiting
    THEN inbox' = Append(inbox, m) /\ genWaiting' = FALSE /\ UNCHANGED queue
    ELSE queue' = Append(queue, m) /\ UNCHANGED <<inbox, genWaiting>>

\* The checks at the top of queueMessage().
Refuses == st = "terminated" \/ transportFailed

\* Where queueMessage() sends a message: into the running turn, or the queue.
SteerOrPush(m) ==
    /\ accepted' = accepted \cup {m}
    /\ IF st = "in-turn" /\ "steer" \in Features
       THEN /\ steering' = steering \cup {m}
            /\ UNCHANGED <<queue, genWaiting, inbox>>
       ELSE Push(m) /\ UNCHANGED steering

\* The rest of queueMessage(): an idle process goes back to work.
\* timerAfter is the idle timer's value when the state does not change.
Deliver(m, timerAfter) ==
    /\ SteerOrPush(m)
    /\ IF st = "idle"
       THEN SetState("in-turn") /\ idleTimer' = FALSE
       ELSE idleTimer' = timerAfter /\ UNCHANGED <<st, shown>>

\* A message that no call has carried yet.
Unsent == Messages \ (accepted \cup refused \cup Elements(deferredQueue))

\* Mutant of TransitionToIdle: no startIdleTimer().
TransitionToIdleUntimed ==
    /\ deferredQueue = <<>>
    /\ SetState("idle")
    /\ idleTimer' = FALSE
    /\ UNCHANGED msgVars

\* transitionToIdle(): feed one deferred message, or become idle and arm the
\* timer.  A fed message that queueMessage() refuses is dropped.
TransitionToIdle ==
    IF deferredQueue # <<>>
    THEN /\ deferredQueue' = Tail(deferredQueue)
         /\ IF Refuses
            THEN /\ refused' = refused \cup {Head(deferredQueue)}
                 /\ idleTimer' = FALSE
                 /\ UNCHANGED <<st, shown, queue, genWaiting, inbox,
                                steering, accepted>>
            ELSE Deliver(Head(deferredQueue), FALSE) /\ UNCHANGED refused
    ELSE /\ SetState("idle")
         /\ idleTimer' = TRUE
         /\ UNCHANGED msgVars

\* emitNextPendingApproval(), after the queue became q and the map v.
EmitNextPendingApproval(q, v) ==
    IF q # <<>> /\ v[Head(q)] \in OpenVerdicts
    THEN st' = "waiting-input" /\ shown' = Head(q)
    ELSE SetState("in-turn")

\* Releasing the hold: _holdResolve() wakes a loop that sleeps in
\* waitUntilResumed().  The mutant forgets the resolver.
WakeNobody == UNCHANGED loop

WakeLoop == loop' = IF loop = "held" THEN "woken" ELSE loop

\* Mutant of MarkTerminated: no clearIdleTimer().
MarkTerminatedTimed(aborted) ==
    /\ st' = "terminated" /\ shown' = NoRequest
    /\ iteratorDone' = TRUE /\ isHeld' = FALSE /\ registered' = FALSE
    /\ verdict' = [r \in Requests |->
                     IF verdict[r] \in OpenVerdicts THEN "deny" ELSE verdict[r]]
    /\ approvalQueue' = <<>>
    /\ UNCHANGED idleTimer

\* markTerminated(): idempotent; deny every open approval, let go of the
\* hold, disarm the timer, tell the Supervisor.  The loop's wake-up is the
\* caller's; aborted says that abortFn() has just aborted the calls' signals.
MarkTerminated(aborted) ==
    IF st = "terminated"
    THEN UNCHANGED <<st, shown, isHeld, iteratorDone, idleTimer, registered,
                     verdict, approvalQueue>>
    ELSE /\ idleTimer' = FALSE
         /\ iteratorDone' = TRUE
         /\ isHeld' = FALSE
         /\ verdict' = [r \in Requests |->
                          CASE verdict[r] \in OpenVerdicts -> "deny"
                            [] verdict[r] = "hook" /\ aborted -> "hookAborted"
                            [] OTHER -> verdict[r]]
         /\ approvalQueue' = <<>>
         /\ SetState("terminated")
         /\ registered' = FALSE

-----------------------------------------------------------------------------
Init ==
    /\ st = "in-turn"
    /\ shown = NoRequest
    /\ isHeld = FALSE
    /\ loop = "next"
    /\ iteratorDone = FALSE
    /\ transportFailed = FALSE
    /\ idleTimer = FALSE
    /\ registered = TRUE
    /\ verdict = [r \in Requests |-> "none"]
    /\ approvalQueue = <<>>
    /\ isFirstPending = {}
    /\ posting = FALSE
    /\ mode = "default"
    /\ deferredQueue = <<>>
    /\ \/ queue = <<>>                          \* createSession
       \/ \E m \in Messages : queue = <<m>>     \* startSession
    /\ genWaiting = FALSE
    /\ steering = {}
    /\ accepted = Elements(queue)
    /\ refused = {}
    /\ inbox = <<>>
    /\ handled = {}
    /\ agentTurn = FALSE
    /\ streamOpen = TRUE
    /\ alive = TRUE
    /\ killed = FALSE
    /\ out = <<>>

-----------------------------------------------------------------------------
(* The loop of processMessages().                                          *)

\* The finally block and the loop test: the loop ends once iteratorDone is
\* set; otherwise it pauses before next() while the process is held.
LoopAfterMessage ==
    loop' = IF iteratorDone THEN "exited" ELSE IF isHeld THEN "held" ELSE "next"

\* next() yields the result message of a finished turn.
LoopResult ==
    /\ loop = "next" /\ out # <<>> /\ Head(out) = "result"
    /\ out' = Tail(out)
    /\ TransitionToIdle
    /\ LoopAfterMessage
    /\ UNCHANGED <<isHeld, iteratorDone, transportFailed, registered, apprVars,
                   handled, agentTurn, streamOpen, alive, killed>>

\* next() yields a message that ends no turn: what follows it shows only when
\* the process is held or terminated.
LoopMessage ==
    /\ loop = "next" /\ out = <<>> /\ streamOpen /\ (isHeld \/ iteratorDone)
    /\ LoopAfterMessage
    /\ UNCHANGED <<st, shown, isHeld, iteratorDone, transportFailed, idleTimer,
                   registered, apprVars, msgVars, agentVars>>

\* next() reports done, or throws an error that does not mean that the
\* process is gone: idle, unless the user is being asked.
LoopEnd ==
    /\ loop = "next" /\ out # <<>> /\ Head(out) \in {"done", "failed"}
    /\ out' = Tail(out)
    /\ iteratorDone' = (iteratorDone \/ Head(out) = "done")
    /\ loop' = "exited"
    /\ IF st # "waiting-input"
       THEN TransitionToIdle
       ELSE UNCHANGED <<st, shown, idleTimer, msgVars>>
    /\ UNCHANGED <<isHeld, transportFailed, registered, apprVars,
                   handled, agentTurn, streamOpen, alive, killed>>

\* next() throws a process termination error.
LoopDied ==
    /\ loop = "next" /\ out # <<>> /\ Head(out) = "died"
    /\ out' = Tail(out)
    /\ transportFailed' = TRUE
    /\ MarkTerminated(FALSE)
    /\ loop' = "exited"
    /\ UNCHANGED <<isFirstPending, posting, mode, msgVars,
                   handled, agentTurn, streamOpen, alive, killed>>

\* waitUntilResumed() was resolved: leave if terminated while held, else read on.
LoopWoken ==
    /\ loop = "woken"
    /\ loop' = IF iteratorDone \/ st = "terminated" THEN "exited" ELSE "next"
    /\ UNCHANGED <<st, shown, isHeld, iteratorDone, transportFailed, idleTimer,
                   registered, apprVars, msgVars, agentVars>>

-----------------------------------------------------------------------------
(* The canUseTool callback: handleToolApproval().                          *)

\* Mutant of AskUser: every request is shown when it arrives.
AskUserAtOnce(r) ==
    /\ verdict' = [verdict EXCEPT ![r] =
                     IF @ = "hookAborted" THEN "orphan" ELSE "pending"]
    /\ approvalQueue' = Append(approvalQueue, r)
    /\ isFirstPending' = isFirstPending \cup {r}
    /\ st' = "waiting-input" /\ shown' = r

\* The tail of handleToolApproval(): enqueue the request; only the first
\* pending one changes the state.
AskUser(r) ==
    /\ verdict' = [verdict EXCEPT ![r] =
                     IF @ = "hookAborted" THEN "orphan" ELSE "pending"]
    /\ approvalQueue' = Append(approvalQueue, r)
    /\ IF pendingToolApprovals = {}
       THEN /\ isFirstPending' = isFirstPending \cup {r}
            /\ st' = "waiting-input" /\ shown' = r
       ELSE UNCHANGED <<isFirstPending, st, shown>>

\* The permission-mode switch, then the user.
DecideByMode(r) ==
    IF AutoAllowed(mode, ToolOf[r])
    THEN /\ verdict' = [verdict EXCEPT ![r] = "allow"]
         /\ UNCHANGED <<approvalQueue, isFirstPending, st, shown>>
    ELSE AskUser(r)

\* The agent calls canUseTool; what the permission rules say about the call
\* is any of allow, deny and nothing.
HandleToolApproval(r) ==
    /\ agentTurn /\ verdict[r] = "none"
    /\ \/ \E v \in {"allow", "deny"} :
             /\ killed => v = "deny"            \* options.signal.aborted
             /\ verdict' = [verdict EXCEPT ![r] = v]
             /\ UNCHANGED <<approvalQueue, isFirstPending, st, shown>>
       \/ /\ ~killed /\ "hook" \in Features
          /\ verdict' = [verdict EXCEPT ![r] = "hook"]
          /\ UNCHANGED <<approvalQueue, isFirstPending, st, shown>>
       \/ /\ ~killed /\ "hook" \notin Features
          /\ DecideByMode(r)
    /\ UNCHANGED <<isHeld, loop, iteratorDone, transportFailed, idleTimer,
                   registered, posting, mode, msgVars, agentVars>>

\* The awaited _toolApprovalHook returns: a result, or undefined.
HookReturns(r) ==
    /\ verdict[r] \in {"hook", "hookAborted"}
    /\ \/ \E v \in {"allow", "deny"} :
             /\ verdict' = [verdict EXCEPT ![r] = v]
             /\ UNCHANGED <<approvalQueue, isFirstPending, st, shown>>
       \/ DecideByMode(r)
    /\ UNCHANGED <<isHeld, loop, iteratorDone, transportFailed, idleTimer,
                   registered, posting, mode, msgVars, agentVars>>

\* onAbort(): the agent aborts the signal of an open call.  The listener was
\* added too late for a call whose signal was already aborted.
OnAbort(r) ==
    /\ "signal" \in Features /\ verdict[r] \in {"hook", "pending"}
    /\ IF verdict[r] = "hook"
       THEN /\ verdict' = [verdict EXCEPT ![r] = "hookAborted"]
            /\ UNCHANGED <<approvalQueue, st, shown>>
       ELSE /\ verdict' = [verdict EXCEPT ![r] = "deny"]
            /\ approvalQueue' = Without(approvalQueue, r)
            /\ IF r \in isFirstPending
               THEN EmitNextPendingApproval(approvalQueue', verdict')
               ELSE UNCHANGED <<st, shown>>
    /\ UNCHANGED <<isHeld, loop, iteratorDone, transportFailed, idleTimer,
                   registered, isFirstPending, posting, mode, msgVars, agentVars>>

-----------------------------------------------------------------------------
(* The HTTP handlers and the Supervisor.                                   *)

\* POST /input reads process.state before it awaits the request body.
CheckInput ==
    /\ registered /\ st = "waiting-input" /\ ~posting
    /\ posting' = TRUE
    /\ UNCHANGED <<procVars, verdict, approvalQueue, isFirstPending, mode,
                   msgVars, agentVars>>

Responses == {"approve", "deny"}
             \cup (IF "mode" \in Features THEN {"approve_accept_edits"} ELSE {})
             \cup (IF "followup" \in Features THEN {"followup"} ELSE {})

\* respondToInput() for a request that is not in the map: the user sees an
\* unknown id refused, or the dead request that is still shown taken away.
RespondUnknown(r) ==
    /\ posting /\ verdict[r] \notin OpenVerdicts \cup {"none"}
    /\ posting' = FALSE
    /\ IF st = "waiting-input" /\ shown = r
       THEN /\ SetState("in-turn")
            /\ \E response \in Responses :
                 mode' = IF response = "approve_accept_edits" THEN "acceptEdits" ELSE mode
       ELSE UNCHANGED <<st, shown, mode>>
    /\ UNCHANGED <<isHeld, loop, iteratorDone, transportFailed, idleTimer,
                   registered, verdict, approvalQueue, isFirstPending,
                   msgVars, agentVars>>

\* The mode after an answer: EnterPlanMode and ExitPlanMode switch it, and so
\* does the handler for approve_accept_edits.  The mutant takes the word of the
\* answer for the mode.
ModeIsResponse(r, response) ==
    IF response = "approve_accept_edits" THEN response ELSE mode

ModeAfterResponse(r, response) ==
    CASE response = "approve" -> ModeAfterApproval(mode, ToolOf[r])
      [] response = "approve_accept_edits" -> "acceptEdits"
      [] OTHER -> mode

\* respondToInput() for an open request.  Approval may switch the mode (the
\* handler itself does for approve_accept_edits); a denial with feedback may
\* queue a follow-up message before the next request is shown.
RespondToInput(r, response) ==
    /\ posting /\ verdict[r] \in OpenVerdicts
    /\ posting' = FALSE
    /\ verdict' = [verdict EXCEPT ![r] =
                     IF response \in {"deny", "followup"} THEN "deny" ELSE "allow"]
    /\ approvalQueue' = Without(approvalQueue, r)
    /\ mode' = ModeAfterResponse(r, response)
    /\ IF response = "followup" /\ ~Refuses
       THEN /\ \E m \in Unsent : SteerOrPush(m)
            /\ idleTimer' = (idleTimer /\ st # "idle")
       ELSE UNCHANGED <<queue, genWaiting, inbox, steering, accepted, idleTimer>>
    /\ EmitNextPendingApproval(approvalQueue', verdict')
    /\ UNCHANGED <<isHeld, loop, iteratorDone, transportFailed, registered,
                   isFirstPending, deferredQueue, refused, agentVars>>

\* POST /messages: queueMessage() of a registered process.
QueueMessage(m) ==
    /\ registered /\ m \in Unsent /\ ~Refuses
    /\ Deliver(m, idleTimer)
    /\ UNCHANGED <<isHeld, loop, iteratorDone, transportFailed, registered,
                   apprVars, deferredQueue, refused, agentVars>>

\* The steerFn promise settles: steered, or push to the queue after all.
SteerSettles(m) ==
    /\ m \in steering
    /\ steering' = steering \ {m}
    /\ \/ /\ agentTurn /\ handled' = handled \cup {m}
          /\ UNCHANGED <<queue, genWaiting, inbox>>
       \/ Push(m) /\ UNCHANGED handled
    /\ UNCHANGED <<procVars, apprVars, deferredQueue, accepted, refused,
                   agentTurn, streamOpen, alive, killed, out>>

\* POST /messages with deferred: deferMessage(), in whatever state.
DeferMessage(m) ==
    /\ "defer" \in Features /\ registered /\ m \in Unsent /\ st # "terminated"
    /\ deferredQueue' = Append(deferredQueue, m)
    /\ UNCHANGED <<procVars, apprVars, queue, genWaiting, steering, accepted,
                   refused, inbox, agentVars>>

CancelDeferredMessage(m) ==
    /\ registered /\ m \in Elements(deferredQueue)
    /\ deferredQueue' = Without(deferredQueue, m)
    /\ UNCHANGED <<procVars, apprVars, queue, genWaiting, steering, accepted,
                   refused, inbox, agentVars>>

\* PUT /hold with true: setHold(true).
HoldOn ==
    /\ "hold" \in Features /\ registered /\ ~isHeld
    /\ isHeld' = TRUE
    /\ idleTimer' = FALSE
    /\ SetState("hold")
    /\ UNCHANGED <<loop, iteratorDone, transportFailed, registered,
                   apprVars, msgVars, agentVars>>

\* PUT /hold with false: setHold(false) wakes the loop and leaves hold.
HoldOff ==
    /\ registered /\ isHeld
    /\ isHeld' = FALSE
    /\ WakeLoop
    /\ IF iteratorDone
       THEN TransitionToIdle
       ELSE SetState("in-turn") /\ UNCHANGED <<idleTimer, msgVars>>
    /\ UNCHANGED <<iteratorDone, transportFailed, registered, apprVars,
                   agentVars>>

\* PUT /mode: setPermissionMode().
SetPermissionMode(m) ==
    /\ "mode" \in Features /\ registered /\ m # mode
    /\ mode' = m
    /\ UNCHANGED <<procVars, verdict, approvalQueue, isFirstPending, posting,
                   msgVars, agentVars>>

\* abort() and terminate(): kill the agent, then markTerminated().
Kill ==
    /\ "kill" \in Features /\ registered
    /\ killed' = TRUE
    /\ MarkTerminated(TRUE)
    /\ WakeLoop
    /\ UNCHANGED <<transportFailed, isFirstPending, posting, mode, msgVars,
                   handled, agentTurn, streamOpen, alive, out>>

\* Mutants of IdleTimerFires: an agent that is alive does not keep the process;
\* the timer is not started again for one.
IdleTimerIgnoresAgent ==
    /\ idleTimer
    /\ idleTimer' = FALSE
    /\ registered' = (registered /\ st # "idle")
    /\ UNCHANGED <<st, shown, isHeld, loop, iteratorDone, transportFailed,
                   apprVars, msgVars, agentVars>>

IdleTimerFiresOnce ==
    /\ idleTimer
    /\ idleTimer' = FALSE
    /\ registered' = (registered /\ (st # "idle" \/ alive))
    /\ UNCHANGED <<st, shown, isHeld, loop, iteratorDone, transportFailed,
                   apprVars, msgVars, agentVars>>

\* The idle timer fires.  A live agent keeps the timer running; otherwise the
\* Supervisor is told that the process is complete.
IdleTimerFires ==
    /\ idleTimer
    /\ IF st = "idle" /\ alive /\ "liveness" \in Features
       THEN UNCHANGED <<idleTimer, registered>>
       ELSE /\ idleTimer' = FALSE
            /\ registered' = (registered /\ st # "idle")
    /\ UNCHANGED <<st, shown, isHeld, loop, iteratorDone, transportFailed,
                   apprVars, msgVars, agentVars>>

-----------------------------------------------------------------------------
(* The agent behind the provider, as the code uses it.                     *)

\* MessageQueue.next(), called by the generator that the agent reads.
AgentPull ==
    /\ streamOpen /\ ~genWaiting
    /\ IF queue # <<>>
       THEN inbox' = Append(inbox, Head(queue)) /\ queue' = Tail(queue)
            /\ UNCHANGED genWaiting
       ELSE genWaiting' = TRUE /\ UNCHANGED <<inbox, queue>>
    /\ UNCHANGED <<procVars, apprVars, deferredQueue, steering, accepted, refused,
                   agentVars>>

AgentStartsTurn ==
    /\ streamOpen /\ ~agentTurn /\ inbox # <<>>
    /\ agentTurn' = TRUE
    /\ inbox' = Tail(inbox)
    /\ handled' = handled \cup {Head(inbox)}
    /\ UNCHANGED <<procVars, apprVars, deferredQueue, queue, genWaiting, steering,
                   accepted, refused, streamOpen, alive, killed, out>>

\* A turn ends when none of its tool calls is waiting for an answer.
AgentEndsTurn ==
    /\ agentTurn /\ Len(out) < MaxOut
    /\ \A r \in Requests : verdict[r] \notin {"hook", "pending"}
    /\ agentTurn' = FALSE
    /\ out' = Append(out, "result")
    /\ UNCHANGED <<procVars, apprVars, msgVars, handled, streamOpen, alive, killed>>

\* The stream ends: the agent left, crashed, or the provider failed.
AgentExits(e) ==
    /\ streamOpen /\ Len(out) < MaxOut
    /\ streamOpen' = FALSE
    /\ agentTurn' = FALSE
    /\ alive' \in (IF e = "failed" THEN BOOLEAN ELSE {FALSE})
    /\ out' = Append(out, e)
    /\ UNCHANGED <<procVars, apprVars, msgVars, handled, killed>>

-----------------------------------------------------------------------------
Next ==
    \/ LoopResult \/ LoopMessage \/ LoopEnd \/ LoopDied \/ LoopWoken
    \/ \E r \in Requests :
          \/ HandleToolApproval(r) \/ HookReturns(r) \/ OnAbort(r)
          \/ RespondUnknown(r)
          \/ \E response \in Responses : RespondToInput(r, response)
    \/ CheckInput
    \/ \E m \in Messages :
          \/ QueueMessage(m) \/ SteerSettles(m)
          \/ DeferMessage(m) \/ CancelDeferredMessage(m)
    \/ HoldOn \/ HoldOff
    \/ \E m \in Modes : SetPermissionMode(m)
    \/ Kill \/ IdleTimerFires
    \/ AgentPull \/ AgentStartsTurn \/ AgentEndsTurn
    \/ \E e \in Events \ {"result"} : AgentExits(e)

Spec == Init /\ [][Next]_vars

\* The event loop runs what is ready and timers fire; a provider settles its
\* steer calls and hooks, pulls its input, works off its turns, and ends its
\* stream after abortFn().  Nothing is assumed of the user.
Fairness ==
    /\ WF_vars(LoopResult) /\ WF_vars(LoopEnd) /\ WF_vars(LoopDied)
    /\ WF_vars(LoopWoken) /\ WF_vars(IdleTimerFires)
    /\ WF_vars(AgentPull) /\ WF_vars(AgentStartsTurn) /\ WF_vars(AgentEndsTurn)
    /\ \A m \in Messages : WF_vars(SteerSettles(m))
    /\ \A r \in Requests : WF_vars(HookReturns(r))
    /\ WF_vars(killed /\ \E e \in Events \ {"result"} : AgentExits(e))

FairSpec == Spec /\ Fairness

-----------------------------------------------------------------------------
(* Properties.                                                             *)

TypeOK ==
    /\ st \in States
    /\ shown \in Requests \cup {NoRequest}
    /\ isHeld \in BOOLEAN
    /\ loop \in {"next", "held", "woken", "exited"}
    /\ iteratorDone \in BOOLEAN
    /\ transportFailed \in BOOLEAN
    /\ idleTimer \in BOOLEAN
    /\ registered \in BOOLEAN
    /\ verdict \in [Requests -> Verdicts]
    /\ approvalQueue \in Seq(Requests)
    /\ isFirstPending \subseteq Requests
    /\ posting \in BOOLEAN
    /\ mode \in Modes
    /\ deferredQueue \in Seq(Messages)
    /\ queue \in Seq(Messages)
    /\ genWaiting \in BOOLEAN
    /\ steering \subseteq Messages
    /\ accepted \subseteq Messages
    /\ refused \subseteq Messages
    /\ inbox \in Seq(Messages)
    /\ handled \subseteq Messages
    /\ agentTurn \in BOOLEAN
    /\ streamOpen \in BOOLEAN
    /\ alive \in BOOLEAN
    /\ killed \in BOOLEAN
    /\ out \in Seq(Events)

\* The map of resolvers and the queue of ids of handleToolApproval() agree
\* whatever answers, aborted signals, hooks and terminations do: no canUseTool
\* promise is unresolved without being in line, none is in line twice.
ApprovalsTracked ==
    /\ Distinct(approvalQueue)
    /\ Elements(approvalQueue) = pendingToolApprovals

\* The user is asked in the order in which the agent asked: an open request
\* that the waiting-input state shows is the oldest open one.
ShownFirst ==
    (st = "waiting-input" /\ verdict[shown] \in OpenVerdicts)
        => shown = approvalQueue[1]

\* markTerminated() leaves nothing behind: while the state is terminated there
\* is no open approval, no armed timer, no owner, and the loop is not asleep.
TerminatedIsClean ==
    st = "terminated" =>
        /\ approvalQueue = <<>> /\ ~idleTimer /\ ~isHeld
        /\ iteratorDone /\ ~registered /\ loop # "held"

\* Whoever ends a hold wakes the loop: processMessages() sleeps in
\* waitUntilResumed() only while the process is held.
SleepsOnlyWhileHeld == loop = "held" => isHeld

\* An idle process that the Supervisor owns has its cleanup timer armed, so
\* that a dead agent is noticed.
IdleIsTimed == registered /\ st = "idle" => idleTimer

\* The places a message that queueMessage() accepted can be in.
Places == <<Elements(queue), Elements(inbox), steering, handled>>

\* Every accepted message is in exactly one place, once, and none is still
\* deferred; a deferred message is dropped only by a process that has
\* terminated.
MessagesConserved ==
    /\ accepted = UNION {Places[i] : i \in 1..4}
    /\ \A i, j \in 1..4 : i # j => Places[i] \cap Places[j] = {}
    /\ Distinct(queue) /\ Distinct(inbox) /\ Distinct(deferredQueue)
    /\ Elements(deferredQueue) \cap (accepted \cup refused) = {}
    /\ refused \cap accepted = {}
    /\ refused # {} => ~registered

\* With a liveness check, the Supervisor lets go of a process only after it
\* has killed the agent or the agent is gone.
NoOrphanAgent ==
    "liveness" \in Features /\ ~registered => killed \/ ~alive

\* abort() and terminate() end the loop of processMessages(), also when they
\* find it asleep in a hold.
KilledLoopExits == killed ~> loop = "exited"

\* No wake-up is lost between push() and next() of the MessageQueue: what
\* queueMessage() accepted reaches the agent, unless its stream ends or one of
\* its tool calls is unanswered.
AcceptedIsHandled ==
    \A m \in Messages :
        m \in accepted ~>
            \/ m \in handled
            \/ ~streamOpen
            \/ \E r \in Requests : verdict[r] = "pending"

\* A session whose agent has died while idle is given up in the end.
DeadIdleReleased ==
    (registered /\ st = "idle" /\ ~alive) ~> (~registered \/ st # "idle")

\* What the comment above the pending approvals promises: the first pending
\* approval is shown to the user, the others wait in line.
FirstPendingIsShown ==
    (registered /\ ~isHeld /\ approvalQueue # <<>>)
        => st = "waiting-input" /\ shown = approvalQueue[1]

\* What isTerminated promises: a terminated process cannot accept messages,
\* so it never leaves that state.
TerminatedIsFinal == [][st = "terminated" => st' = "terminated"]_st

\* What AgentActivity promises ("what the agent is doing"): a process that the
\* loop sees as idle, with nothing of the stream unread, has no running turn.
IdleAgentRests ==
    (st = "idle" /\ out = <<>> /\ registered) => ~agentTurn
=============================================================================
