--------------------------------- MODULE Tasks ---------------------------------
(***************************************************************************)
(* TasksService: the task rows and the timeline of events each task keeps. *)
(*                                                                         *)
(* Every operation but create reads the task first and writes the row and  *)
(* its event in a later transaction.  The transaction takes the lock of    *)
(* the task's row with its first statement, so the events of a task are    *)
(* written in the order of their commits.                                  *)
(***************************************************************************)
EXTENDS Desk

CONSTANT Tasks  \* task ids

VARIABLES
    task,       \* Task rows
    timeline,   \* the TaskEvent rows of each task, oldest first
    taskCall    \* local state of the calls

tasksVars == <<task, timeline, taskCall>>

TaskStatus == {"PENDING", "IN_PROGRESS", "COMPLETED", "CANCELLED"}

TaskRow == [state: {"none", "live", "deleted"}, status: TaskStatus]

TaskEvent ==
    [type: {"CREATED", "UPDATED", "STATUS_CHANGED", "DELETED"},
     from: TaskStatus \cup {None}, to: TaskStatus]

TaskCall ==
    [pc: {"idle", "update", "status", "remove", "done", "refused"},
     task: Tasks \cup {None}, seen: TaskStatus, to: TaskStatus]

TasksTypeOK ==
    /\ task \in [Tasks -> TaskRow]
    /\ timeline \in [Tasks -> Seq(TaskEvent)]
    /\ taskCall \in [Calls -> TaskCall]

TasksInit ==
    /\ task = [t \in Tasks |-> [state |-> "none", status |-> "PENDING"]]
    /\ timeline = [t \in Tasks |-> <<>>]
    /\ taskCall = [c \in Calls |->
          [pc |-> "idle", task |-> None, seen |-> "PENDING", to |-> "PENDING"]]

AllowedTransitions ==
    [s \in TaskStatus |->
        CASE s = "PENDING"     -> {"IN_PROGRESS", "COMPLETED", "CANCELLED"}
          [] s = "IN_PROGRESS" -> {"PENDING", "COMPLETED", "CANCELLED"}
          [] OTHER             -> {"PENDING", "IN_PROGRESS"}]

\* findVisibleTaskOrThrow finds it.
Visible(t) == task[t].state = "live"

LogEvent(t, type, from, to) ==
    timeline' = [timeline EXCEPT ![t] = Append(@, [type |-> type, from |-> from, to |-> to])]

Finish(c, answer) == taskCall' = [taskCall EXCEPT ![c].pc = answer]

-----------------------------------------------------------------------------
\* The task and its first event, in one transaction.
CreateTask(c, t) ==
    /\ Admitted(taskCall, c)
    /\ task[t].state = "none"
    /\ task' = [task EXCEPT ![t] = [state |-> "live", status |-> "PENDING"]]
    /\ LogEvent(t, "CREATED", None, "PENDING")
    /\ Finish(c, "done")

\* The task is read, and the transition asked for is checked against what was read.
OpenTaskCall(c, t, kind, to) ==
    /\ Admitted(taskCall, c)
    /\ Visible(t)
    /\ kind = "status" => to \in AllowedTransitions[task[t].status]
    /\ taskCall' = [taskCall EXCEPT
          ![c] = [pc |-> kind, task |-> t, seen |-> task[t].status, to |-> to]]
    /\ UNCHANGED <<task, timeline>>

\* No such task, or an invalid transition.
RefuseTaskCall(c, t, to) ==
    /\ Admitted(taskCall, c)
    /\ ~Visible(t) \/ to \notin AllowedTransitions[task[t].status]
    /\ Finish(c, "refused")
    /\ UNCHANGED <<task, timeline>>

\* Mutant: the event of an edit repeats the status its call had read.
StatusLoggedAsRead(c) == taskCall[c].seen

\* The status the event of an edit carries: the one of the row the update returned.
StatusLogged(c) == task[taskCall[c].task].status

\* An edit of title, description, due date or assignee, by id.
UpdateTask(c) ==
    /\ taskCall[c].pc = "update"
    /\ LogEvent(taskCall[c].task, "UPDATED", StatusLogged(c), StatusLogged(c))
    /\ Finish(c, "done")
    /\ UNCHANGED task

\* The status is stored by id, with no condition on the row as it is now; the
\* event starts at the status that was read.
UpdateStatus(c) ==
    LET call == taskCall[c] IN
    /\ call.pc = "status"
    /\ task' = [task EXCEPT ![call.task].status = call.to]
    /\ LogEvent(call.task, "STATUS_CHANGED", call.seen, call.to)
    /\ Finish(c, "done")

\* Mutant: the deletion forgets what it deletes.
RemoveTaskUnlogged(c) ==
    LET call == taskCall[c] IN
    /\ call.pc = "remove"
    /\ task' = [task EXCEPT ![call.task].state = "deleted"]
    /\ Finish(c, "done")
    /\ UNCHANGED timeline

\* A soft deletion, by id.
RemoveTask(c) ==
    LET call == taskCall[c] IN
    /\ call.pc = "remove"
    /\ task' = [task EXCEPT ![call.task].state = "deleted"]
    /\ LogEvent(call.task, "DELETED", call.seen, call.seen)
    /\ Finish(c, "done")

\* An edit with nothing in it, an assignee outside the organization, a lost
\* connection or a crash: nothing was written.
StopTaskCall(c) ==
    /\ c \in InService(taskCall)
    /\ Finish(c, "refused")
    /\ UNCHANGED <<task, timeline>>

TasksNext ==
    \E c \in Calls :
        \/ \E t \in Tasks :
              \/ CreateTask(c, t)
              \/ \E to \in TaskStatus :
                    \/ OpenTaskCall(c, t, "status", to)
                    \/ RefuseTaskCall(c, t, to)
              \/ \E kind \in {"update", "remove"} : OpenTaskCall(c, t, kind, "PENDING")
        \/ UpdateTask(c)
        \/ UpdateStatus(c)
        \/ RemoveTask(c)
        \/ StopTaskCall(c)

TasksSpec == (DeskInit /\ TasksInit) /\ [][TasksNext /\ UNCHANGED serving]_<<serving, tasksVars>>

-----------------------------------------------------------------------------
(* Properties *)

\* The timeline ends where the task is: the last event of a task that is not
\* deleted names the status its row holds, although calls log what they read
\* before their transaction and any number of them interleave.
TimelineTellsStatus ==
    \A t \in Tasks : Visible(t) =>
        /\ timeline[t] # <<>>
        /\ timeline[t][Len(timeline[t])].to = task[t].status

\* A task's history: it starts with the creation, every event starts where the one
\* before ended and makes an allowed transition, and nothing follows a deletion.
IsHistory(events) ==
    \A i \in DOMAIN events :
        /\ events[i].type = "CREATED" <=> i = 1
        /\ i > 1 => events[i].from = events[i - 1].to
        /\ events[i].type = "STATUS_CHANGED" =>
              events[i].to \in AllowedTransitions[events[i].from] \ {events[i].from}
        /\ events[i].type = "DELETED" => i = Len(events)

\* One call at a time, the timeline is a history of the task, and ends with a
\* deletion exactly when the task is deleted.
TimelineIsAHistory ==
    serving = 1 =>
        \A t \in Tasks :
            LET events == timeline[t] IN
            /\ IsHistory(events)
            /\ task[t].state = "deleted" <=> (events # <<>> /\ events[Len(events)].type = "DELETED")
=============================================================================
