---------------------------- MODULE OperationQueue ----------------------------
(***************************************************************************)
(* The operations of one chainHead subscription, from the observables of   *)
(* observable-client, which retry what the server refused with             *)
(* "limitReached" (getWithRecovery), through the promises of               *)
(* substrate-client (createOperationPromise), to a server that runs at     *)
(* most Limit of them at a time. Both directions of the connection keep    *)
(* the order of their messages.                                            *)
(***************************************************************************)
EXTENDS Integers, Sequences, FiniteSets, SequencesExt

CONSTANTS Task,   \* operations, each subscribed to at most once
          Urgent, \* those with top priority: the rest of a storage query
          Limit   \* operations the server runs at a time

ASSUME TaskAssumption == Urgent \subseteq Task /\ IsFiniteSet(Task)
ASSUME LimitAssumption == Limit \in Nat \ {0}

VARIABLES
    status,       \* task -> what its observable is doing
    pendingTasks, \* queue of those that wait for a slot
    abortedTasks, \* unsubscribed from before the response: ~isRunning
    taskRequests, \* requests on their way, in order
    taskResponses,\* responses and events on their way, in order
    slots         \* operations the server runs

queueClientVars == <<status, pendingTasks, abortedTasks>>
queueVars == <<queueClientVars, taskRequests, taskResponses, slots>>

\* "requested" and "started" are the two states of a task that `process` left
\* with a subscription: its teardown wakes the queue. A task is "cancelled" if it
\* was not sent, and "stopped" if it was.
Statuses ==
    {"idle", "queued", "requested", "started", "done", "cancelled", "stopped"}

Requests == [kind : {"operation", "stopOperation"}, task : Task]
TaskMessages == [kind : {"started", "limitReached", "done"}, task : Task]

QueueTypeOK ==
    /\ status \in [Task -> Statuses]
    /\ pendingTasks \in Seq(Task)
    /\ abortedTasks \subseteq Task
    /\ taskRequests \in Seq(Requests)
    /\ taskResponses \in Seq(TaskMessages)
    /\ slots \subseteq Task

QueueInit ==
    /\ status = [t \in Task |-> "idle"]
    /\ pendingTasks = <<>>
    /\ abortedTasks = {}
    /\ taskRequests = <<>>
    /\ taskResponses = <<>>
    /\ slots = {}

TaskOperation(t) == [kind |-> "operation", task |-> t]
StopTask(t) == [kind |-> "stopOperation", task |-> t]
TaskMessage(k, t) == [kind |-> k, task |-> t]

-------------------------------------------------------------------------------
(***************************************************************************)
(* The client. onEmptySlot pops the first pending task and processes it:   *)
(* `rest` are the requests that were sent before that.                     *)
(***************************************************************************)
OnEmptySlot(st, rest) ==
    IF pendingTasks = <<>>
      THEN /\ status' = st
           /\ taskRequests' = rest
           /\ UNCHANGED pendingTasks
      ELSE /\ status' = [st EXCEPT ![Head(pendingTasks)] = "requested"]
           /\ taskRequests' = Append(rest, TaskOperation(Head(pendingTasks)))
           /\ pendingTasks' = Tail(pendingTasks)

\* A task that comes while others wait waits too, behind them unless it is
\* urgent.
Subscribe(t) ==
    /\ status[t] = "idle"
    /\ IF pendingTasks = <<>>
         THEN /\ status' = [status EXCEPT ![t] = "requested"]
              /\ taskRequests' = Append(taskRequests, TaskOperation(t))
              /\ UNCHANGED pendingTasks
         ELSE /\ status' = [status EXCEPT ![t] = "queued"]
              /\ pendingTasks' = IF t \in Urgent THEN <<t>> \o pendingTasks
                                 ELSE Append(pendingTasks, t)
              /\ UNCHANGED taskRequests
    /\ UNCHANGED <<abortedTasks, taskResponses, slots>>

UnsubscribeQueued(t) ==
    /\ status[t] = "queued"
    /\ status' = [status EXCEPT ![t] = "cancelled"]
    /\ \E i \in 1 .. Len(pendingTasks) :
          /\ pendingTasks[i] = t
          /\ pendingTasks' = RemoveAt(pendingTasks, i)
    /\ UNCHANGED <<abortedTasks, taskRequests, taskResponses, slots>>

\* The promise waits for the response to learn which operation to stop, the
\* queue does not.
UnsubscribeRequested(t) ==
    /\ status[t] = "requested"
    /\ abortedTasks' = abortedTasks \cup {t}
    /\ OnEmptySlot([status EXCEPT ![t] = "stopped"], taskRequests)
    /\ UNCHANGED <<taskResponses, slots>>

UnsubscribeStarted(t) ==
    /\ status[t] = "started"
    /\ OnEmptySlot([status EXCEPT ![t] = "stopped"],
                   Append(taskRequests, StopTask(t)))
    /\ UNCHANGED <<abortedTasks, taskResponses, slots>>

TaskReceives(k, t) ==
    /\ taskResponses # <<>>
    /\ Head(taskResponses) = TaskMessage(k, t)
    /\ taskResponses' = Tail(taskResponses)

\* Mutant: nobody stops an operation that started after it was given up.
OnTaskStartedIgnored(t) ==
    /\ TaskReceives("started", t)
    /\ status' = IF t \in abortedTasks THEN status
                 ELSE [status EXCEPT ![t] = "started"]
    /\ UNCHANGED <<pendingTasks, abortedTasks, taskRequests, slots>>

OnTaskStarted(t) ==
    /\ TaskReceives("started", t)
    /\ IF t \in abortedTasks
         THEN /\ taskRequests' = Append(taskRequests, StopTask(t))
              /\ UNCHANGED status
         ELSE /\ status' = [status EXCEPT ![t] = "started"]
              /\ UNCHANGED taskRequests
    /\ UNCHANGED <<pendingTasks, abortedTasks, slots>>

\* Mutant: the refused task is not tried again.
OnLimitReachedDropped(t) ==
    /\ TaskReceives("limitReached", t)
    /\ UNCHANGED <<status, pendingTasks, abortedTasks, taskRequests, slots>>

\* The refused task goes to the head of the queue, until a slot is free.
OnLimitReached(t) ==
    /\ TaskReceives("limitReached", t)
    /\ IF t \in abortedTasks
         THEN UNCHANGED <<status, pendingTasks>>
         ELSE /\ status' = [status EXCEPT ![t] = "queued"]
              /\ pendingTasks' = <<t>> \o pendingTasks
    /\ UNCHANGED <<abortedTasks, taskRequests, slots>>

\* Mutant: the end of an operation wakes nobody.
OnTaskDoneSilently(t) ==
    /\ TaskReceives("done", t)
    /\ status' = IF status[t] = "started" THEN [status EXCEPT ![t] = "done"]
                 ELSE status
    /\ UNCHANGED <<pendingTasks, abortedTasks, taskRequests, slots>>

OnTaskDone(t) ==
    /\ TaskReceives("done", t)
    /\ IF status[t] = "started"
         THEN OnEmptySlot([status EXCEPT ![t] = "done"], taskRequests)
         ELSE UNCHANGED <<status, pendingTasks, taskRequests>>
    /\ UNCHANGED <<abortedTasks, slots>>

-------------------------------------------------------------------------------
(***************************************************************************)
(* The server.                                                             *)
(***************************************************************************)
ServeOperation(t) ==
    /\ taskRequests # <<>>
    /\ Head(taskRequests) = TaskOperation(t)
    /\ taskRequests' = Tail(taskRequests)
    /\ IF Cardinality(slots) < Limit
         THEN /\ slots' = slots \cup {t}
              /\ taskResponses' = Append(taskResponses, TaskMessage("started", t))
         ELSE /\ taskResponses' = Append(taskResponses, TaskMessage("limitReached", t))
              /\ UNCHANGED slots
    /\ UNCHANGED queueClientVars

ServeStop(t) ==
    /\ taskRequests # <<>>
    /\ Head(taskRequests) = StopTask(t)
    /\ taskRequests' = Tail(taskRequests)
    /\ slots' = slots \ {t}
    /\ UNCHANGED <<queueClientVars, taskResponses>>

\* A result, an error or "inaccessible": the operation is over.
TaskEnds(t) ==
    /\ t \in slots
    /\ slots' = slots \ {t}
    /\ taskResponses' = Append(taskResponses, TaskMessage("done", t))
    /\ UNCHANGED <<queueClientVars, taskRequests>>

-------------------------------------------------------------------------------
QueueUser == \E t \in Task :
    \/ Subscribe(t) \/ UnsubscribeQueued(t)
    \/ UnsubscribeRequested(t) \/ UnsubscribeStarted(t)

QueueClient == \E t \in Task : OnTaskStarted(t) \/ OnLimitReached(t) \/ OnTaskDone(t)

QueueServer == \E t \in Task : ServeOperation(t) \/ ServeStop(t)

QueueNext == QueueUser \/ QueueClient \/ QueueServer \/ \E t \in Task : TaskEnds(t)

QueueSpec == QueueInit /\ [][QueueNext]_queueVars

\* Messages arrive and operations end; users owe nothing.
QueueFairness ==
    /\ WF_queueVars(QueueClient)
    /\ WF_queueVars(QueueServer)
    /\ \A t \in Task : WF_queueVars(TaskEnds(t))

-------------------------------------------------------------------------------
Active == {t \in Task : status[t] \in {"requested", "started"}}

Stopped == {t \in Task : status[t] = "stopped"}

\* The tasks that wait are woken by the end of another one, so there is one
\* (unless a task was stopped: see NobodyWaitsForever).
SomebodyWillWake ==
    pendingTasks # <<>> => Active # {} \/ Stopped # {}

\* Each task waits once, and all that wait are in the queue.
QueueIsRight ==
    /\ Range(pendingTasks) = {t \in Task : status[t] = "queued"}
    /\ Len(pendingTasks) = Cardinality(Range(pendingTasks))

\* The server runs no operation for nobody: it is the operation of a task, or
\* its stop is on its way, or the response that makes the client stop it is.
NoLeakedOperation ==
    \A t \in slots :
        \/ t \in Active
        \/ StopTask(t) \in Range(taskRequests)
        \/ t \in abortedTasks /\ TaskMessage("started", t) \in Range(taskResponses)

\* Whoever waits is in the queue, once, and somebody will wake it.
QueueMoves == QueueIsRight /\ SomebodyWillWake

Ended(t) == status[t] \in {"done", "cancelled", "stopped"}

\* What a user asked for comes, however many operations the limit refuses.
EveryTaskEnds ==
    \A t \in Task : status[t] # "idle" ~> Ended(t) \/ Stopped # {}

\* It comes too when users stop other operations at any time.
NobodyWaitsForever ==
    \A t \in Task : status[t] # "idle" ~> Ended(t)
===============================================================================
