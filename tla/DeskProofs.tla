------------------------------ MODULE DeskProofs ------------------------------
(***************************************************************************)
(* What "one call at a time" means for the services behind the desk, and   *)
(* three of them, TasksService, ExpensesService and ReportsService over    *)
(* the money of SalesService, proved for any number of rows, calls and     *)
(* calls served at once: their types, that a timeline ends where its task  *)
(* is, that the only dangling receipts are those an upload owes, that the  *)
(* overview of a closed period stands, that every cut of the completed     *)
(* sales adds up; and, one call at a time, that timelines are histories,   *)
(* that a status is the one the payments imply, and that an overview nets  *)
(* out to what was charged and cancelled.                                  *)
(***************************************************************************)
EXTENDS Tasks, Expenses, Reports, Sums, FiniteSetTheorems, TLAPS


\* With one call served at a time, a call is admitted only when none is in service.
LEMMA AdmittedAlone ==
    ASSUME NEW call, NEW c, serving = 1, Admitted(call, c)
    PROVE  InService(call) = {}
  <1>1. IsFiniteSet(InService(call))
    BY DeskAssumption, FS_Subset DEF InService
  <1>2. Cardinality(InService(call)) \in Nat /\ Cardinality(InService(call)) < 1
    BY <1>1, FS_CardinalityType DEF Admitted
  <1>3. Cardinality(InService(call)) = 0
    BY <1>2
  <1> QED BY <1>1, <1>3, FS_EmptySet

-----------------------------------------------------------------------------
(* TasksService *)


\* A call that is past its read has a task, and the task has a row.
CallsHaveTasks ==
    \A c \in InService(taskCall) :
        taskCall[c].task \in Tasks /\ task[taskCall[c].task].state # "none"

\* What holds of tasks, calls and timelines whatever calls interleave.
TasksInv == TasksTypeOK /\ CallsHaveTasks /\ TimelineTellsStatus

\* What a step that logs an event of t does to the timelines.
EventAdded(t, e) ==
    /\ timeline' \in [Tasks -> Seq(TaskEvent)]
    /\ timeline'[t] = Append(timeline[t], e)
    /\ timeline'[t] # <<>>
    /\ timeline'[t][Len(timeline'[t])] = e
    /\ \A u \in Tasks \ {t} : timeline'[u] = timeline[u]

-----------------------------------------------------------------------------
\* One more event leaves a timeline, and is its last.
LEMMA LogEventType ==
    ASSUME TasksTypeOK, NEW t \in Tasks, NEW e \in TaskEvent,
           timeline' = [timeline EXCEPT ![t] = Append(@, e)]
    PROVE  EventAdded(t, e)
  <1>1. timeline \in [Tasks -> Seq(TaskEvent)] /\ timeline[t] \in Seq(TaskEvent)
    BY DEF TasksTypeOK
  <1>2. timeline'[t] = Append(timeline[t], e) /\ timeline'[t] \in Seq(TaskEvent)
    BY <1>1
  <1> QED BY <1>1, <1>2 DEF EventAdded

\* A call that is answered is no longer in service, and changes no other.
LEMMA FinishType ==
    ASSUME TasksTypeOK, NEW c \in Calls, NEW answer \in Answered, Finish(c, answer)
    PROVE  /\ taskCall' \in [Calls -> TaskCall]
           /\ InService(taskCall)' = InService(taskCall) \ {c}
           /\ \A d \in Calls \ {c} : taskCall'[d] = taskCall[d]
  <1>1. taskCall' = [taskCall EXCEPT ![c] = [taskCall[c] EXCEPT !.pc = answer]]
    BY DEF Finish
  <1>2. [taskCall[c] EXCEPT !.pc = answer] \in TaskCall
    BY DEF TasksTypeOK, TaskCall, Answered
  <1>3. taskCall'[c].pc \in Answered
    BY <1>1 DEF TasksTypeOK, TaskCall
  <1> QED BY <1>1, <1>2, <1>3 DEF TasksTypeOK, InService

\* An answer keeps what the calls in service know, if no row disappears.
LEMMA FinishHasTasks ==
    ASSUME TasksTypeOK, CallsHaveTasks, NEW c \in Calls, NEW answer \in Answered, Finish(c, answer),
           \A t \in Tasks : task[t].state # "none" => task'[t].state # "none"
    PROVE  CallsHaveTasks'
  <1>1. \A d \in InService(taskCall)' : d \in InService(taskCall) /\ taskCall'[d] = taskCall[d]
    BY FinishType DEF InService
  <1> QED BY <1>1 DEF CallsHaveTasks

\* The first state of the desk and its tasks.
LEMMA TasksInitInv == DeskInit /\ TasksInit => TasksInv
  BY DEF TasksInit, TasksInv, TasksTypeOK, CallsHaveTasks, TimelineTellsStatus, Visible,
         InService, Answered, TaskRow, TaskEvent, TaskCall, TaskStatus

\* Every step of every call keeps it.
LEMMA TasksNextInv == TasksInv /\ [TasksNext /\ UNCHANGED serving]_<<serving, tasksVars>> => TasksInv'
  <1> SUFFICES ASSUME TasksInv, [TasksNext /\ UNCHANGED serving]_<<serving, tasksVars>>
               PROVE  TasksInv'
    OBVIOUS
  <1>1. ASSUME NEW c \in Calls, NEW t \in Tasks, CreateTask(c, t)
        PROVE  TasksInv'
    <2> DEFINE e == [type |-> "CREATED", from |-> None, to |-> "PENDING"]
    <2>1. EventAdded(t, e)
      <3>1. timeline' = [timeline EXCEPT ![t] = Append(@, e)] /\ e \in TaskEvent
        BY <1>1 DEF CreateTask, LogEvent, TaskEvent, TaskStatus
      <3> QED BY <3>1, LogEventType DEF TasksInv
    <2>2. Finish(c, "done") /\ "done" \in Answered
      BY <1>1 DEF CreateTask, Answered
    <2>3. /\ task' \in [Tasks -> TaskRow]
          /\ task'[t] = [state |-> "live", status |-> "PENDING"]
          /\ \A u \in Tasks \ {t} : task'[u] = task[u]
          /\ \A u \in Tasks : task[u].state # "none" => task'[u].state # "none"
      BY <1>1 DEF CreateTask, TasksInv, TasksTypeOK, TaskRow, TaskStatus
    <2>4. TasksTypeOK'
      BY <2>1, <2>2, <2>3, FinishType DEF TasksInv, TasksTypeOK, EventAdded
    <2>5. CallsHaveTasks'
      BY <2>2, <2>3, FinishHasTasks DEF TasksInv
    <2>6. TimelineTellsStatus'
      <3> SUFFICES ASSUME NEW u \in Tasks, task'[u].state = "live"
                   PROVE  timeline'[u] # <<>> /\ timeline'[u][Len(timeline'[u])].to = task'[u].status
        BY DEF TimelineTellsStatus, Visible
      <3>1. CASE u = t
        BY <3>1, <2>1, <2>3 DEF EventAdded, TaskRow
      <3>2. CASE u # t
        BY <3>2, <2>1, <2>3 DEF EventAdded, TasksInv, TimelineTellsStatus, Visible
      <3> QED BY <3>1, <3>2
    <2> QED BY <2>4, <2>5, <2>6 DEF TasksInv
  <1>2. ASSUME NEW c \in Calls, NEW t \in Tasks, NEW kind \in {"update", "status", "remove"},
               NEW to \in TaskStatus, OpenTaskCall(c, t, kind, to)
        PROVE  TasksInv'
    <2> DEFINE call == [pc |-> kind, task |-> t, seen |-> task[t].status, to |-> to]
    <2>1. taskCall' = [taskCall EXCEPT ![c] = call] /\ task' = task /\ timeline' = timeline
      BY <1>2 DEF OpenTaskCall
    <2>2. call \in TaskCall /\ task[t].state # "none"
      BY <1>2 DEF OpenTaskCall, Visible, TasksInv, TasksTypeOK, TaskCall, TaskRow
    <2>3. TasksTypeOK'
      BY <2>1, <2>2 DEF TasksInv, TasksTypeOK
    <2>4. \A d \in InService(taskCall)' : d # c => d \in InService(taskCall) /\ taskCall'[d] = taskCall[d]
      <3>1. \A d \in Calls \ {c} : taskCall'[d] = taskCall[d]
        BY <2>1 DEF TasksInv, TasksTypeOK
      <3> QED BY <3>1 DEF InService
    <2>5. CallsHaveTasks'
      BY <2>1, <2>2, <2>4 DEF TasksInv, TasksTypeOK, CallsHaveTasks
    <2>6. TimelineTellsStatus'
      BY <2>1 DEF TasksInv, TimelineTellsStatus, Visible
    <2> QED BY <2>3, <2>5, <2>6 DEF TasksInv
  <1>3. ASSUME NEW c \in Calls, Finish(c, "refused"), UNCHANGED <<task, timeline>>
        PROVE  TasksInv'
    <2>1. "refused" \in Answered
      BY DEF Answered
    <2>2. TasksTypeOK'
      BY <1>3, <2>1, FinishType DEF TasksInv, TasksTypeOK
    <2>3. CallsHaveTasks'
      BY <1>3, <2>1, FinishHasTasks DEF TasksInv
    <2>4. TimelineTellsStatus'
      BY <1>3 DEF TasksInv, TimelineTellsStatus, Visible
    <2> QED BY <2>2, <2>3, <2>4 DEF TasksInv
  <1>4. ASSUME NEW c \in Calls, UpdateTask(c)
        PROVE  TasksInv'
    <2> DEFINE t == taskCall[c].task
               e == [type |-> "UPDATED", from |-> task[t].status, to |-> task[t].status]
    <2>1. c \in InService(taskCall) /\ t \in Tasks /\ task[t].state # "none" /\ task[t] \in TaskRow
      BY <1>4 DEF UpdateTask, TasksInv, CallsHaveTasks, InService, Answered, TasksTypeOK
    <2>2. taskCall[c] \in TaskCall /\ e \in TaskEvent
      BY <2>1 DEF TasksInv, TasksTypeOK, TaskCall, TaskEvent, TaskRow
    <2>3. EventAdded(t, e) /\ Finish(c, "done") /\ "done" \in Answered
      <3>1. timeline' = [timeline EXCEPT ![t] = Append(@, e)] /\ Finish(c, "done")
        BY <1>4 DEF UpdateTask, LogEvent, StatusLogged
      <3> QED BY <3>1, <2>1, <2>2, LogEventType DEF TasksInv, Answered
    <2>4. task' = task
      BY <1>4 DEF UpdateTask
    <2>5. TasksTypeOK'
      BY <2>3, <2>4, FinishType DEF TasksInv, TasksTypeOK, EventAdded
    <2>6. CallsHaveTasks'
      <3>1. \A u \in Tasks : task[u].state # "none" => task'[u].state # "none"
        BY <2>4
      <3> QED BY <2>3, <3>1, FinishHasTasks DEF TasksInv
    <2>7. TimelineTellsStatus'
      <3> SUFFICES ASSUME NEW u \in Tasks, task'[u].state = "live"
                   PROVE  timeline'[u] # <<>> /\ timeline'[u][Len(timeline'[u])].to = task'[u].status
        BY DEF TimelineTellsStatus, Visible
      <3>1. CASE u = t
        BY <3>1, <2>1, <2>3, <2>4 DEF EventAdded, TaskRow
      <3>2. CASE u # t
        BY <3>2, <2>3, <2>4 DEF EventAdded, TasksInv, TimelineTellsStatus, Visible
      <3> QED BY <3>1, <3>2
    <2> QED BY <2>5, <2>6, <2>7 DEF TasksInv
  <1>5. ASSUME NEW c \in Calls, UpdateStatus(c)
        PROVE  TasksInv'
    <2> DEFINE t == taskCall[c].task
               e == [type |-> "STATUS_CHANGED", from |-> taskCall[c].seen, to |-> taskCall[c].to]
    <2>1. c \in InService(taskCall) /\ t \in Tasks /\ task[t].state # "none" /\ task[t] \in TaskRow
      BY <1>5 DEF UpdateStatus, TasksInv, CallsHaveTasks, InService, Answered, TasksTypeOK
    <2>2. taskCall[c] \in TaskCall /\ e \in TaskEvent
      BY <2>1 DEF TasksInv, TasksTypeOK, TaskCall, TaskEvent, TaskRow
    <2>3. EventAdded(t, e) /\ Finish(c, "done") /\ "done" \in Answered
      <3>1. timeline' = [timeline EXCEPT ![t] = Append(@, e)] /\ Finish(c, "done")
        BY <1>5 DEF UpdateStatus, LogEvent
      <3> QED BY <3>1, <2>1, <2>2, LogEventType DEF TasksInv, Answered
    <2>4. /\ task' \in [Tasks -> TaskRow]
          /\ task'[t] = [task[t] EXCEPT !.status = taskCall[c].to]
          /\ \A u \in Tasks \ {t} : task'[u] = task[u]
          /\ \A u \in Tasks : task[u].state # "none" => task'[u].state # "none"
      BY <1>5, <2>1, <2>2 DEF UpdateStatus, TasksInv, TasksTypeOK, TaskRow, TaskCall
    <2>5. TasksTypeOK'
      BY <2>3, <2>4, FinishType DEF TasksInv, TasksTypeOK, EventAdded
    <2>6. CallsHaveTasks'
      <3>1. \A u \in Tasks : task[u].state # "none" => task'[u].state # "none"
        BY <2>4
      <3> QED BY <2>3, <3>1, FinishHasTasks DEF TasksInv
    <2>7. TimelineTellsStatus'
      <3> SUFFICES ASSUME NEW u \in Tasks, task'[u].state = "live"
                   PROVE  timeline'[u] # <<>> /\ timeline'[u][Len(timeline'[u])].to = task'[u].status
        BY DEF TimelineTellsStatus, Visible
      <3>1. CASE u = t
        BY <3>1, <2>1, <2>3, <2>4 DEF EventAdded, TaskRow
      <3>2. CASE u # t
        BY <3>2, <2>3, <2>4 DEF EventAdded, TasksInv, TimelineTellsStatus, Visible
      <3> QED BY <3>1, <3>2
    <2> QED BY <2>5, <2>6, <2>7 DEF TasksInv
  <1>6. ASSUME NEW c \in Calls, RemoveTask(c)
        PROVE  TasksInv'
    <2> DEFINE t == taskCall[c].task
               e == [type |-> "DELETED", from |-> taskCall[c].seen, to |-> taskCall[c].seen]
    <2>1. c \in InService(taskCall) /\ t \in Tasks /\ task[t].state # "none" /\ task[t] \in TaskRow
      BY <1>6 DEF RemoveTask, TasksInv, CallsHaveTasks, InService, Answered, TasksTypeOK
    <2>2. taskCall[c] \in TaskCall /\ e \in TaskEvent
      BY <2>1 DEF TasksInv, TasksTypeOK, TaskCall, TaskEvent, TaskRow
    <2>3. EventAdded(t, e) /\ Finish(c, "done") /\ "done" \in Answered
      <3>1. timeline' = [timeline EXCEPT ![t] = Append(@, e)] /\ Finish(c, "done")
        BY <1>6 DEF RemoveTask, LogEvent
      <3> QED BY <3>1, <2>1, <2>2, LogEventType DEF TasksInv, Answered
    <2>4. /\ task' \in [Tasks -> TaskRow]
          /\ task'[t] = [task[t] EXCEPT !.state = "deleted"]
          /\ \A u \in Tasks \ {t} : task'[u] = task[u]
          /\ \A u \in Tasks : task[u].state # "none" => task'[u].state # "none"
      BY <1>6, <2>1, <2>2 DEF RemoveTask, TasksInv, TasksTypeOK, TaskRow, TaskCall
    <2>5. TasksTypeOK'
      BY <2>3, <2>4, FinishType DEF TasksInv, TasksTypeOK, EventAdded
    <2>6. CallsHaveTasks'
      <3>1. \A u \in Tasks : task[u].state # "none" => task'[u].state # "none"
        BY <2>4
      <3> QED BY <2>3, <3>1, FinishHasTasks DEF TasksInv
    <2>7. TimelineTellsStatus'
      <3> SUFFICES ASSUME NEW u \in Tasks, task'[u].state = "live"
                   PROVE  timeline'[u] # <<>> /\ timeline'[u][Len(timeline'[u])].to = task'[u].status
        BY DEF TimelineTellsStatus, Visible
      <3>1. CASE u = t
        BY <3>1, <2>1, <2>3, <2>4 DEF EventAdded, TaskRow
      <3>2. CASE u # t
        BY <3>2, <2>3, <2>4 DEF EventAdded, TasksInv, TimelineTellsStatus, Visible
      <3> QED BY <3>1, <3>2
    <2> QED BY <2>5, <2>6, <2>7 DEF TasksInv
  <1>7. CASE UNCHANGED <<serving, tasksVars>>
    BY <1>7 DEF tasksVars, TasksInv, TasksTypeOK, CallsHaveTasks, TimelineTellsStatus, Visible, InService
  <1>8. ASSUME TasksNext
        PROVE  TasksInv'
    <2>1. PICK c \in Calls :
            \/ \E t \in Tasks :
                  \/ CreateTask(c, t)
                  \/ \E to \in TaskStatus :
                        OpenTaskCall(c, t, "status", to) \/ RefuseTaskCall(c, t, to)
                  \/ \E kind \in {"update", "remove"} : OpenTaskCall(c, t, kind, "PENDING")
            \/ UpdateTask(c) \/ UpdateStatus(c) \/ RemoveTask(c) \/ StopTaskCall(c)
      BY <1>8 DEF TasksNext
    <2>2. CASE \E t \in Tasks : CreateTask(c, t)
      BY <2>2, <1>1
    <2>3. CASE \E t \in Tasks, to \in TaskStatus : OpenTaskCall(c, t, "status", to)
      BY <2>3, <1>2
    <2>4. CASE \E t \in Tasks, kind \in {"update", "remove"} : OpenTaskCall(c, t, kind, "PENDING")
      BY <2>4, <1>2 DEF TaskStatus
    <2>5. CASE StopTaskCall(c) \/ \E t \in Tasks, to \in TaskStatus : RefuseTaskCall(c, t, to)
      BY <2>5, <1>3 DEF RefuseTaskCall, StopTaskCall
    <2>6. CASE UpdateTask(c) \/ UpdateStatus(c) \/ RemoveTask(c)
      BY <2>6, <1>4, <1>5, <1>6
    <2> QED BY <2>1, <2>2, <2>3, <2>4, <2>5, <2>6
  <1> QED BY <1>7, <1>8

\* Rows, events and calls keep their types.
THEOREM TasksTypeCorrect == TasksSpec => []TasksTypeOK
  <1>1. TasksInv => TasksTypeOK
    BY DEF TasksInv
  <1> QED BY <1>1, TasksInitInv, TasksNextInv, PTL DEF TasksSpec

\* However many calls interleave, the last event of a task that is not deleted
\* names the status of its row (updateStatus logs what it stores, update what the
\* update returned, under the lock of the task's row).
THEOREM TimelineFollowsTask == TasksSpec => []TimelineTellsStatus
  <1>1. TasksInv => TimelineTellsStatus
    BY DEF TasksInv
  <1> QED BY <1>1, TasksInitInv, TasksNextInv, PTL DEF TasksSpec

-----------------------------------------------------------------------------
(* One call at a time *)

\* TaskCallsAlone, a call in service finds the task as it read it, and its transition is allowed.
TaskCallsAlone ==
    serving = 1 =>
        /\ \A c, d \in InService(taskCall) : c = d
        /\ \A c \in InService(taskCall) :
              /\ Visible(taskCall[c].task)
              /\ taskCall[c].seen = task[taskCall[c].task].status
              /\ taskCall[c].pc = "status" => taskCall[c].to \in AllowedTransitions[taskCall[c].seen]

\* Timelines are empty exactly where there is no task.
EmptyTimelines == \A t \in Tasks : task[t].state = "none" <=> timeline[t] = <<>>

HistoryInv == TasksInv /\ EmptyTimelines /\ TaskCallsAlone /\ TimelineIsAHistory

\* No transition leads back to where it starts.
LEMMA TransitionsMove ==
    ASSUME NEW s \in TaskStatus
    PROVE  AllowedTransitions[s] \subseteq TaskStatus \ {s}
  BY DEF AllowedTransitions, TaskStatus

\* An event that starts where a history ends extends it.
LEMMA AppendHistory ==
    ASSUME NEW events \in Seq(TaskEvent), NEW e \in TaskEvent, IsHistory(events),
           IF events = <<>>
           THEN e.type = "CREATED"
           ELSE /\ e.type # "CREATED"
                /\ e.from = events[Len(events)].to
                /\ events[Len(events)].type # "DELETED"
                /\ e.type = "STATUS_CHANGED" => e.to \in AllowedTransitions[e.from]
    PROVE  IsHistory(Append(events, e))
  <1> DEFINE longer == Append(events, e)
  <1>1. /\ Len(events) \in Nat /\ Len(longer) = Len(events) + 1
        /\ DOMAIN events = 1..Len(events) /\ DOMAIN longer = 1..(Len(events) + 1)
        /\ longer[Len(longer)] = e
        /\ events # <<>> => Len(events) \in DOMAIN events
        /\ \A i \in DOMAIN events : longer[i] = events[i]
    OBVIOUS
  <1>2. \A i \in DOMAIN events : events[i].type # "DELETED"
    BY <1>1 DEF IsHistory
  <1>3. e.type = "STATUS_CHANGED" => e.from \in TaskStatus
    <2>1. events # <<>> => events[Len(events)] \in TaskEvent
      BY <1>1
    <2> QED BY <2>1 DEF TaskEvent
  <1> SUFFICES ASSUME NEW i \in DOMAIN longer
               PROVE  /\ longer[i].type = "CREATED" <=> i = 1
                      /\ i > 1 => longer[i].from = longer[i - 1].to
                      /\ longer[i].type = "STATUS_CHANGED" =>
                            longer[i].to \in AllowedTransitions[longer[i].from] \ {longer[i].from}
                      /\ longer[i].type = "DELETED" => i = Len(longer)
    BY DEF IsHistory
  <1>4. CASE i \in DOMAIN events
    <2>1. i > 1 => i - 1 \in DOMAIN events
      BY <1>1, <1>4
    <2> QED BY <1>1, <1>2, <1>4, <2>1 DEF IsHistory
  <1>5. CASE i = Len(longer)
    <2>1. events = <<>> => i = 1 /\ e.type = "CREATED"
      BY <1>1, <1>5
    <2>2. events # <<>> => i > 1 /\ i - 1 = Len(events) /\ longer[i - 1] = events[Len(events)]
      BY <1>1, <1>5
    <2>3. e.type = "STATUS_CHANGED" => e.to \in AllowedTransitions[e.from] \ {e.from}
      BY <1>3, TransitionsMove
    <2>4. longer[i] = e
      BY <1>1, <1>5
    <2>5. CASE events = <<>>
      BY <1>5, <2>1, <2>4, <2>5
    <2>6. CASE events # <<>>
      BY <1>5, <2>2, <2>3, <2>4, <2>6
    <2> QED BY <2>5, <2>6
  <1> QED BY <1>1, <1>4, <1>5

\* Empty timelines are the histories of no tasks.
LEMMA HistoryInitInv == DeskInit /\ TasksInit => HistoryInv
  <1> SUFFICES ASSUME DeskInit, TasksInit
               PROVE  HistoryInv
    OBVIOUS
  <1>1. TasksInv
    BY TasksInitInv
  <1>2. InService(taskCall) = {} /\ \A t \in Tasks : task[t].state = "none" /\ timeline[t] = <<>>
    BY DEF TasksInit, InService, Answered
  <1> QED BY <1>1, <1>2 DEF HistoryInv, EmptyTimelines, TaskCallsAlone, TimelineIsAHistory, IsHistory

\* What the three writing steps of a call have in common: they log an event that
\* starts where the task is, of the transition that was checked.
LEMMA WriteKeepsHistory ==
    ASSUME HistoryInv, TasksInv', serving' = serving,
           NEW c \in InService(taskCall), Finish(c, "done"),
           NEW t \in Tasks, t = taskCall[c].task, NEW e \in TaskEvent, EventAdded(t, e),
           task'[t].state # "none", \A u \in Tasks \ {t} : task'[u] = task[u],
           e.type # "CREATED",
           serving = 1 =>
               /\ e.from = task[t].status
               /\ e.type = "STATUS_CHANGED" => e.to \in AllowedTransitions[e.from]
               /\ task'[t].state = "deleted" <=> e.type = "DELETED"
    PROVE  HistoryInv'
  <1>1. EmptyTimelines'
    BY DEF EmptyTimelines, EventAdded, HistoryInv
  <1>2. TaskCallsAlone'
    <2> SUFFICES ASSUME serving = 1
                 PROVE  TaskCallsAlone'
      BY DEF TaskCallsAlone
    <2>1. InService(taskCall)' = InService(taskCall) \ {c}
      BY FinishType DEF HistoryInv, TasksInv, Answered, InService
    <2>2. InService(taskCall)' = {}
      BY <2>1 DEF HistoryInv, TaskCallsAlone
    <2> QED BY <2>2 DEF TaskCallsAlone
  <1>3. TimelineIsAHistory'
    <2> SUFFICES ASSUME serving = 1, NEW u \in Tasks
                 PROVE  /\ IsHistory(timeline'[u])
                        /\ task'[u].state = "deleted" <=>
                              (timeline'[u] # <<>> /\ timeline'[u][Len(timeline'[u])].type = "DELETED")
      BY DEF TimelineIsAHistory, IsHistory
    <2>1. CASE u # t
      BY <2>1 DEF EventAdded, HistoryInv, TimelineIsAHistory
    <2>2. CASE u = t
      <3>1. task[t].state = "live"
        BY DEF HistoryInv, TaskCallsAlone, Visible
      <3>2. /\ IsHistory(timeline[t]) /\ timeline[t] \in Seq(TaskEvent) /\ timeline[t] # <<>>
            /\ timeline[t][Len(timeline[t])].type # "DELETED"
            /\ timeline[t][Len(timeline[t])].to = task[t].status
        BY <3>1 DEF HistoryInv, TimelineIsAHistory, EmptyTimelines, TasksInv, TasksTypeOK,
                    TimelineTellsStatus, Visible
      <3>3. IsHistory(Append(timeline[t], e))
        BY <3>2, AppendHistory
      <3> QED BY <2>2, <3>3 DEF EventAdded
    <2> QED BY <2>1, <2>2
  <1> QED BY <1>1, <1>2, <1>3 DEF HistoryInv

\* Every step keeps the histories.
LEMMA HistoryNextInv ==
    HistoryInv /\ [TasksNext /\ UNCHANGED serving]_<<serving, tasksVars>> => HistoryInv'
  <1> SUFFICES ASSUME HistoryInv, [TasksNext /\ UNCHANGED serving]_<<serving, tasksVars>>
               PROVE  HistoryInv'
    OBVIOUS
  <1>0. TasksInv /\ TasksInv' /\ serving' = serving
    BY TasksNextInv DEF HistoryInv, tasksVars
  <1>1. ASSUME NEW c \in Calls, NEW t \in Tasks, CreateTask(c, t)
        PROVE  HistoryInv'
    <2> DEFINE e == [type |-> "CREATED", from |-> None, to |-> "PENDING"]
    <2>1. EventAdded(t, e) /\ e \in TaskEvent
      <3>1. timeline' = [timeline EXCEPT ![t] = Append(@, e)] /\ e \in TaskEvent
        BY <1>1 DEF CreateTask, LogEvent, TaskEvent, TaskStatus
      <3> QED BY <1>0, <3>1, LogEventType DEF TasksInv
    <2>2. /\ Finish(c, "done") /\ Admitted(taskCall, c) /\ task[t].state = "none" /\ timeline[t] = <<>>
          /\ task'[t] = [state |-> "live", status |-> "PENDING"]
          /\ \A u \in Tasks \ {t} : task'[u] = task[u]
      BY <1>1 DEF CreateTask, HistoryInv, EmptyTimelines, TasksInv, TasksTypeOK
    <2>3. EmptyTimelines'
      <3>1. task'[t].state # "none" /\ timeline'[t] # <<>>
        BY <2>1, <2>2 DEF EventAdded
      <3>2. \A u \in Tasks \ {t} : task'[u].state = "none" <=> timeline'[u] = <<>>
        BY <2>1, <2>2 DEF EventAdded, EmptyTimelines, HistoryInv
      <3> QED BY <3>1, <3>2 DEF EmptyTimelines
    <2>4. TaskCallsAlone'
      <3>1. serving = 1 => InService(taskCall)' = {}
        <4>1. serving = 1 => InService(taskCall) = {}
          BY <2>2, AdmittedAlone
        <4> QED BY <1>0, <2>2, <4>1, FinishType DEF TasksInv, Answered
      <3> QED BY <1>0, <3>1 DEF TaskCallsAlone
    <2>5. TimelineIsAHistory'
      <3> SUFFICES ASSUME serving = 1, NEW u \in Tasks
                   PROVE  /\ IsHistory(timeline'[u])
                          /\ task'[u].state = "deleted" <=>
                                (timeline'[u] # <<>> /\ timeline'[u][Len(timeline'[u])].type = "DELETED")
        BY <1>0 DEF TimelineIsAHistory, IsHistory
      <3>1. CASE u # t
        BY <2>1, <2>2, <3>1 DEF EventAdded, HistoryInv, TimelineIsAHistory
      <3>2. CASE u = t
        <4>1. IsHistory(timeline[t]) /\ timeline[t] \in Seq(TaskEvent)
          BY <1>0 DEF HistoryInv, TimelineIsAHistory, TasksInv, TasksTypeOK
        <4>2. IsHistory(Append(timeline[t], e))
          BY <2>1, <2>2, <4>1, AppendHistory
        <4> QED BY <2>1, <2>2, <3>2, <4>2 DEF EventAdded
      <3> QED BY <3>1, <3>2
    <2> QED BY <1>0, <2>3, <2>4, <2>5 DEF HistoryInv
  <1>2. ASSUME NEW c \in Calls, NEW t \in Tasks, NEW kind \in {"update", "status", "remove"},
               NEW to \in TaskStatus, OpenTaskCall(c, t, kind, to)
        PROVE  HistoryInv'
    <2> DEFINE call == [pc |-> kind, task |-> t, seen |-> task[t].status, to |-> to]
    <2>1. /\ taskCall' = [taskCall EXCEPT ![c] = call] /\ task' = task /\ timeline' = timeline
          /\ Admitted(taskCall, c) /\ Visible(t)
          /\ kind = "status" => to \in AllowedTransitions[task[t].status]
      BY <1>2 DEF OpenTaskCall
    <2>2. taskCall'[c] = call /\ \A d \in Calls \ {c} : taskCall'[d] = taskCall[d]
      BY <1>0, <2>1 DEF TasksInv, TasksTypeOK
    <2>3. serving = 1 => \A d \in InService(taskCall)' : d = c
      <3>1. serving = 1 => InService(taskCall) = {}
        BY <2>1, AdmittedAlone
      <3> QED BY <2>2, <3>1 DEF InService
    <2>4. TaskCallsAlone'
      <3> SUFFICES ASSUME serving = 1
                   PROVE  TaskCallsAlone'
        BY <1>0 DEF TaskCallsAlone
      <3>1. \A d \in InService(taskCall)' : d = c
        BY <2>3
      <3>2. /\ taskCall'[c].task = t /\ taskCall'[c].seen = task'[t].status
            /\ taskCall'[c].pc = "status" => taskCall'[c].to \in AllowedTransitions[taskCall'[c].seen]
            /\ task'[t].state = "live"
        BY <2>1, <2>2 DEF Visible
      <3> QED BY <3>1, <3>2 DEF TaskCallsAlone, Visible
    <2>5. EmptyTimelines' /\ TimelineIsAHistory'
      BY <1>0, <2>1 DEF HistoryInv, EmptyTimelines, TimelineIsAHistory, IsHistory
    <2> QED BY <1>0, <2>4, <2>5 DEF HistoryInv
  <1>3. ASSUME NEW c \in Calls, Finish(c, "refused"), UNCHANGED <<task, timeline>>
        PROVE  HistoryInv'
    <2>1. /\ \A d \in InService(taskCall)' : d \in InService(taskCall) /\ taskCall'[d] = taskCall[d]
      BY <1>0, <1>3, FinishType DEF TasksInv, Answered, InService
    <2>2. TaskCallsAlone'
      BY <1>0, <1>3, <2>1 DEF HistoryInv, TaskCallsAlone, Visible
    <2>3. EmptyTimelines' /\ TimelineIsAHistory'
      BY <1>0, <1>3 DEF HistoryInv, EmptyTimelines, TimelineIsAHistory, IsHistory
    <2> QED BY <1>0, <2>2, <2>3 DEF HistoryInv
  <1>4. ASSUME NEW c \in Calls, UpdateTask(c)
        PROVE  HistoryInv'
    <2> DEFINE t == taskCall[c].task
               e == [type |-> "UPDATED", from |-> task[t].status, to |-> task[t].status]
    <2>1. c \in InService(taskCall) /\ t \in Tasks /\ task[t].state # "none" /\ task[t] \in TaskRow
      BY <1>0, <1>4 DEF UpdateTask, TasksInv, CallsHaveTasks, InService, Answered, TasksTypeOK
    <2>2. e \in TaskEvent
      BY <1>0, <2>1 DEF TasksInv, TasksTypeOK, TaskCall, TaskEvent, TaskRow
    <2>3. EventAdded(t, e) /\ Finish(c, "done")
      <3>1. timeline' = [timeline EXCEPT ![t] = Append(@, e)] /\ Finish(c, "done")
        BY <1>4 DEF UpdateTask, LogEvent, StatusLogged
      <3> QED BY <1>0, <3>1, <2>1, <2>2, LogEventType DEF TasksInv
    <2>4. /\ task'[t].state = task[t].state
          /\ \A u \in Tasks \ {t} : task'[u] = task[u]
      BY <1>0, <1>4, <2>1 DEF UpdateTask, TasksInv, TasksTypeOK, TaskRow
    <2>5. serving = 1 => /\ Visible(t) /\ taskCall[c].seen = task[t].status
                         /\ taskCall[c].pc = "status" => taskCall[c].to \in AllowedTransitions[taskCall[c].seen]
      BY <2>1 DEF HistoryInv, TaskCallsAlone
    <2> QED BY <1>0, <1>4, <2>1, <2>2, <2>3, <2>4, <2>5, WriteKeepsHistory DEF UpdateTask, Visible
  <1>5. ASSUME NEW c \in Calls, UpdateStatus(c)
        PROVE  HistoryInv'
    <2> DEFINE t == taskCall[c].task
               e == [type |-> "STATUS_CHANGED", from |-> taskCall[c].seen, to |-> taskCall[c].to]
    <2>1. c \in InService(taskCall) /\ t \in Tasks /\ task[t].state # "none" /\ task[t] \in TaskRow
      BY <1>0, <1>5 DEF UpdateStatus, TasksInv, CallsHaveTasks, InService, Answered, TasksTypeOK
    <2>2. e \in TaskEvent
      BY <1>0, <2>1 DEF TasksInv, TasksTypeOK, TaskCall, TaskEvent, TaskRow
    <2>3. EventAdded(t, e) /\ Finish(c, "done")
      <3>1. timeline' = [timeline EXCEPT ![t] = Append(@, e)] /\ Finish(c, "done")
        BY <1>5 DEF UpdateStatus, LogEvent
      <3> QED BY <1>0, <3>1, <2>1, <2>2, LogEventType DEF TasksInv
    <2>4. /\ task'[t].state = task[t].state
          /\ \A u \in Tasks \ {t} : task'[u] = task[u]
      BY <1>0, <1>5, <2>1 DEF UpdateStatus, TasksInv, TasksTypeOK, TaskRow
    <2>5. serving = 1 => /\ Visible(t) /\ taskCall[c].seen = task[t].status
                         /\ taskCall[c].pc = "status" => taskCall[c].to \in AllowedTransitions[taskCall[c].seen]
      BY <2>1 DEF HistoryInv, TaskCallsAlone
    <2> QED BY <1>0, <1>5, <2>1, <2>2, <2>3, <2>4, <2>5, WriteKeepsHistory DEF UpdateStatus, Visible
  <1>6. ASSUME NEW c \in Calls, RemoveTask(c)
        PROVE  HistoryInv'
    <2> DEFINE t == taskCall[c].task
               e == [type |-> "DELETED", from |-> taskCall[c].seen, to |-> taskCall[c].seen]
    <2>1. c \in InService(taskCall) /\ t \in Tasks /\ task[t].state # "none" /\ task[t] \in TaskRow
      BY <1>0, <1>6 DEF RemoveTask, TasksInv, CallsHaveTasks, InService, Answered, TasksTypeOK
    <2>2. e \in TaskEvent
      BY <1>0, <2>1 DEF TasksInv, TasksTypeOK, TaskCall, TaskEvent, TaskRow
    <2>3. EventAdded(t, e) /\ Finish(c, "done")
      <3>1. timeline' = [timeline EXCEPT ![t] = Append(@, e)] /\ Finish(c, "done")
        BY <1>6 DEF RemoveTask, LogEvent
      <3> QED BY <1>0, <3>1, <2>1, <2>2, LogEventType DEF TasksInv
    <2>4. /\ task'[t].state = "deleted"
          /\ \A u \in Tasks \ {t} : task'[u] = task[u]
      BY <1>0, <1>6, <2>1 DEF RemoveTask, TasksInv, TasksTypeOK, TaskRow
    <2>5. serving = 1 => /\ Visible(t) /\ taskCall[c].seen = task[t].status
                         /\ taskCall[c].pc = "status" => taskCall[c].to \in AllowedTransitions[taskCall[c].seen]
      BY <2>1 DEF HistoryInv, TaskCallsAlone
    <2> QED BY <1>0, <1>6, <2>1, <2>2, <2>3, <2>4, <2>5, WriteKeepsHistory DEF RemoveTask, Visible
  <1>7. CASE UNCHANGED <<serving, tasksVars>>
    BY <1>0, <1>7 DEF tasksVars, HistoryInv, EmptyTimelines, TaskCallsAlone, TimelineIsAHistory, IsHistory, Visible, InService
  <1>8. ASSUME TasksNext
        PROVE  HistoryInv'
    <2>1. PICK c \in Calls :
            \/ \E t \in Tasks :
                  \/ CreateTask(c, t)
                  \/ \E to \in TaskStatus :
                        OpenTaskCall(c, t, "status", to) \/ RefuseTaskCall(c, t, to)
                  \/ \E kind \in {"update", "remove"} : OpenTaskCall(c, t, kind, "PENDING")
            \/ UpdateTask(c) \/ UpdateStatus(c) \/ RemoveTask(c) \/ StopTaskCall(c)
      BY <1>8 DEF TasksNext
    <2>2. CASE \E t \in Tasks : CreateTask(c, t)
      BY <2>2, <1>1
    <2>3. CASE \E t \in Tasks, to \in TaskStatus : OpenTaskCall(c, t, "status", to)
      BY <2>3, <1>2
    <2>4. CASE \E t \in Tasks, kind \in {"update", "remove"} : OpenTaskCall(c, t, kind, "PENDING")
      BY <2>4, <1>2 DEF TaskStatus
    <2>5. CASE StopTaskCall(c) \/ \E t \in Tasks, to \in TaskStatus : RefuseTaskCall(c, t, to)
      BY <2>5, <1>3 DEF RefuseTaskCall, StopTaskCall
    <2>6. CASE UpdateTask(c) \/ UpdateStatus(c) \/ RemoveTask(c)
      BY <2>6, <1>4, <1>5, <1>6
    <2> QED BY <2>1, <2>2, <2>3, <2>4, <2>5, <2>6
  <1> QED BY <1>7, <1>8

\* One call at a time, every timeline is a history of its task: the transition
\* updateStatus checks against what it read is the one it makes.
THEOREM TimelinesAreHistories == TasksSpec => []TimelineIsAHistory
  <1>1. HistoryInv => TimelineIsAHistory
    BY DEF HistoryInv
  <1> QED BY <1>1, HistoryInitInv, HistoryNextInv, PTL DEF TasksSpec

-----------------------------------------------------------------------------
(* ExpensesService *)


\* A call that is past its read has an expense.
CallsHaveExpenses ==
    \A c \in InService(expenseCall) : expenseCall[c].expense \in Expenses

\* An image an upload is about to link is in the store.
UploadsAreStored ==
    \A c \in Calls : expenseCall[c].pc \in {"replace", "link"} => c \in images

\* A receipt was linked by an upload, answered since, to that upload's expense only:
\* those expenses point to, and those calls have read.
ReceiptsBelong ==
    /\ \A x \in Expenses : expense[x].receipt # None =>
          LET r == expense[x].receipt IN
          expenseCall[r].pc = "done" /\ expenseCall[r].expense = x
    /\ \A c \in Calls : expenseCall[c].receipt # None =>
          LET r == expenseCall[c].receipt IN
          expenseCall[r].pc = "done" /\ expenseCall[r].expense = expenseCall[c].expense

\* The inductive invariant: a receipt is deleted only by an upload of the same
\* expense, so that the one who makes it dangle is the one who owes a link.
ExpensesInv ==
    /\ ExpensesTypeOK
    /\ CallsHaveExpenses
    /\ UploadsAreStored
    /\ ReceiptsBelong
    /\ DanglingReceiptsAreOwed

-----------------------------------------------------------------------------
\* What an answer does to the calls.
Answers(c, answer) ==
    /\ expenseCall' \in [Calls -> ExpenseCall]
    /\ expenseCall'[c].pc = answer
    /\ expenseCall'[c].expense = expenseCall[c].expense
    /\ expenseCall'[c].receipt = expenseCall[c].receipt
    /\ expenseCall'[c].total = expenseCall[c].total
    /\ expenseCall'[c].paid = expenseCall[c].paid
    /\ \A d \in Calls \ {c} : expenseCall'[d] = expenseCall[d]

\* A call that is answered stays a call.
LEMMA AnswerType ==
    ASSUME ExpensesTypeOK, NEW c \in Calls, NEW answer \in {"replace", "link", "done", "refused"},
           Answer(c, answer)
    PROVE  Answers(c, answer)
  <1>1. expenseCall' = [expenseCall EXCEPT ![c] = [expenseCall[c] EXCEPT !.pc = answer]]
    BY DEF Answer
  <1>2. [expenseCall[c] EXCEPT !.pc = answer] \in ExpenseCall /\ expenseCall[c] \in ExpenseCall
    BY DEF ExpensesTypeOK, ExpenseCall
  <1> QED BY <1>1, <1>2 DEF Answers, ExpensesTypeOK, ExpenseCall

\* The facts of one call or row that the proofs below read off the invariant.
LEMMA ReadInv ==
    ASSUME ExpensesInv
    PROVE  /\ ExpensesTypeOK
           /\ \A c \in Calls : c \in InService(expenseCall) => expenseCall[c].expense \in Expenses
           /\ \A c \in Calls : expenseCall[c].receipt \in Calls \cup {None}
           /\ \A x \in Expenses : expense[x].receipt \in Calls \cup {None}
  BY DEF ExpensesInv, ExpensesTypeOK, CallsHaveExpenses, ExpenseCall, ExpenseRow

\* A call that is answered, linking nothing, leaves every receipt as it is.
LEMMA AnswerKeepsInv ==
    ASSUME ExpensesInv, NEW c \in Calls, expenseCall[c].pc \notin Answered,
           NEW answer \in Answered, expenseCall[c].pc = "link" => answer = "refused",
           Answer(c, answer), images' = images, expense' \in [Expenses -> ExpenseRow],
           \A x \in Expenses : expense'[x].receipt \in {expense[x].receipt, None}
    PROVE  ExpensesInv'
  <1>1. Answers(c, answer) /\ ExpensesTypeOK
    BY AnswerType DEF ExpensesInv, Answered
  <1>2. ExpensesTypeOK'
    BY <1>1 DEF ExpensesTypeOK, Answers
  <1>3. CallsHaveExpenses'
    <2>1. \A d \in InService(expenseCall)' : d \in InService(expenseCall) /\ d # c
      BY <1>1 DEF InService, Answers
    <2> QED BY <1>1, <2>1 DEF CallsHaveExpenses, Answers, ExpensesInv, InService
  <1>4. UploadsAreStored'
    BY <1>1 DEF UploadsAreStored, Answers, ExpensesInv, Answered
  <1>5. ReceiptsBelong'
    <2>1. \A r \in Calls : expenseCall[r].pc = "done" => r # c
      BY DEF Answered
    <2> QED BY <1>1, <2>1, ReadInv DEF ReceiptsBelong, Answers, ExpensesInv
  <1>6. DanglingReceiptsAreOwed'
    <2> SUFFICES ASSUME NEW x \in Expenses, expense'[x].receipt \notin images' \cup {None}
                 PROVE  \E d \in Calls : /\ expenseCall'[d].expense = x
                                         /\ expenseCall'[d].receipt = expense'[x].receipt
                                         /\ expenseCall'[d].pc \in {"link", "refused"}
      BY DEF DanglingReceiptsAreOwed
    <2>1. expense'[x].receipt = expense[x].receipt
      OBVIOUS
    <2>2. PICK d \in Calls : /\ expenseCall[d].expense = x
                             /\ expenseCall[d].receipt = expense[x].receipt
                             /\ expenseCall[d].pc \in {"link", "refused"}
      BY <2>1 DEF ExpensesInv, DanglingReceiptsAreOwed
    <2>3. expenseCall'[d].pc \in {"link", "refused"}
      BY <1>1, <2>2 DEF Answers, Answered
    <2> QED BY <1>1, <2>1, <2>2, <2>3 DEF Answers
  <1> QED BY <1>2, <1>3, <1>4, <1>5, <1>6 DEF ExpensesInv

\* The statements of a call change one row by id, and give it no other receipt.
LEMMA RowChangeType ==
    ASSUME ExpensesTypeOK, NEW x \in Expenses, NEW row \in ExpenseRow,
           expense' = [expense EXCEPT ![x] = row], row.receipt \in {expense[x].receipt, None}
    PROVE  /\ expense' \in [Expenses -> ExpenseRow]
           /\ \A y \in Expenses : expense'[y].receipt \in {expense[y].receipt, None}
  BY DEF ExpensesTypeOK

\* A new expense is an expense.
LEMMA NewExpenseType ==
    ASSUME NEW total \in 0..MaxTotal, NEW paid \in Nat
    PROVE  NewExpense(total, paid) \in ExpenseRow /\ NewExpense(total, paid).receipt = None
  BY DEF NewExpense, ExpenseRow, DerivedStatus

\* There is nothing to dangle at first.
LEMMA ExpensesInitInv == DeskInit /\ ExpensesInit => ExpensesInv
  <1> SUFFICES ASSUME DeskInit, ExpensesInit
               PROVE  ExpensesInv
    OBVIOUS
  <1>1. NoExpense \in ExpenseRow /\ NoExpense.receipt = None
    BY ExpensesAssumption DEF NoExpense, ExpenseRow
  <1>2. NewExpense(MaxTotal, 1) \in ExpenseRow /\ NewExpense(MaxTotal, 1).receipt = None
    BY ExpensesAssumption, NewExpenseType
  <1>3. expense \in [Expenses -> ExpenseRow] /\ \A x \in Expenses : expense[x].receipt = None
    BY <1>1, <1>2 DEF ExpensesInit
  <1>4. /\ expenseCall \in [Calls -> ExpenseCall]
        /\ \A c \in Calls : expenseCall[c].pc = "idle" /\ expenseCall[c].receipt = None
    BY ExpensesAssumption DEF ExpensesInit, ExpenseCall
  <1>5. ExpensesTypeOK
    BY <1>3, <1>4 DEF ExpensesTypeOK, ExpensesInit
  <1>6. CallsHaveExpenses /\ UploadsAreStored
    BY <1>4 DEF CallsHaveExpenses, UploadsAreStored, InService
  <1>7. ReceiptsBelong /\ DanglingReceiptsAreOwed
    BY <1>3, <1>4 DEF ReceiptsBelong, DanglingReceiptsAreOwed
  <1> QED BY <1>5, <1>6, <1>7 DEF ExpensesInv

-----------------------------------------------------------------------------
(* The steps that touch receipts *)

\* A call that opens touches no row and no image.
LEMMA OpenKeepsInv ==
    ASSUME ExpensesInv, NEW c \in Calls, NEW x \in Expenses,
           NEW kind \in {"update", "pay", "copy", "remove", "upload"}, NEW dto \in 0..MaxTotal,
           OpenExpenseCall(c, x, kind, dto)
    PROVE  ExpensesInv'
  <1> DEFINE call == [pc |-> kind, expense |-> x, total |-> expense[x].total, paid |-> expense[x].paid,
                      receipt |-> IF kind = "upload" THEN expense[x].receipt ELSE None, dto |-> dto]
  <1>1. /\ expenseCall[c].pc = "idle" /\ expense' = expense /\ images' = images
        /\ expenseCall' = [expenseCall EXCEPT ![c] = call]
    BY DEF OpenExpenseCall, Admitted
  <1>2. call \in ExpenseCall
    BY DEF ExpensesInv, ExpensesTypeOK, ExpenseCall, ExpenseRow
  <1>3. /\ expenseCall' \in [Calls -> ExpenseCall] /\ expenseCall'[c] = call
        /\ \A d \in Calls \ {c} : expenseCall'[d] = expenseCall[d]
    BY <1>1, <1>2 DEF ExpensesInv, ExpensesTypeOK
  <1>4. ExpensesTypeOK'
    BY <1>1, <1>3 DEF ExpensesInv, ExpensesTypeOK
  <1>5. CallsHaveExpenses'
    <2>1. \A d \in InService(expenseCall)' : d # c => d \in InService(expenseCall)
      BY <1>3 DEF InService
    <2> QED BY <1>3, <2>1 DEF CallsHaveExpenses, ExpensesInv, InService
  <1>6. UploadsAreStored'
    BY <1>1, <1>3 DEF UploadsAreStored, ExpensesInv
  <1>7. ReceiptsBelong'
    <2>1. \A r \in Calls : expenseCall[r].pc = "done" => r # c
      BY <1>1
    <2>2. \A y \in Expenses : expense[y].receipt # None =>
            /\ expense[y].receipt \in Calls \ {c}
            /\ expenseCall'[expense[y].receipt].pc = "done"
            /\ expenseCall'[expense[y].receipt].expense = y
      BY <1>3, <2>1, ReadInv DEF ReceiptsBelong, ExpensesInv
    <2>3. \A d \in Calls \ {c} : expenseCall[d].receipt # None =>
            /\ expenseCall'[expenseCall[d].receipt].pc = "done"
            /\ expenseCall'[expenseCall[d].receipt].expense = expenseCall[d].expense
      BY <1>3, <2>1, ReadInv DEF ReceiptsBelong, ExpensesInv
    <2>4. call.receipt # None => /\ expenseCall'[call.receipt].pc = "done"
                                 /\ expenseCall'[call.receipt].expense = call.expense
      BY <2>2
    <2> QED BY <1>1, <1>3, <2>2, <2>3, <2>4 DEF ReceiptsBelong
  <1>8. DanglingReceiptsAreOwed'
    BY <1>1, <1>3 DEF DanglingReceiptsAreOwed, ExpensesInv
  <1> QED BY <1>4, <1>5, <1>6, <1>7, <1>8 DEF ExpensesInv

\* An upload adds an image of its own to the store.
LEMMA UploadKeepsInv ==
    ASSUME ExpensesInv, NEW c \in Calls, UploadReceipt(c)
    PROVE  ExpensesInv'
  <1>1. PICK answer \in {"link", "replace"} : Answer(c, answer)
    BY DEF UploadReceipt
  <1>2. expenseCall[c].pc = "upload" /\ images' = images \cup {c} /\ expense' = expense
    BY DEF UploadReceipt
  <1>3. Answers(c, answer)
    BY <1>1, AnswerType DEF ExpensesInv
  <1>4. ExpensesTypeOK'
    BY <1>2, <1>3 DEF ExpensesInv, ExpensesTypeOK, Answers
  <1>5. CallsHaveExpenses'
    <2>1. \A d \in InService(expenseCall)' : d \in InService(expenseCall)
      BY <1>2, <1>3 DEF InService, Answers, Answered
    <2> QED BY <1>3, <2>1 DEF CallsHaveExpenses, ExpensesInv, InService, Answers
  <1>6. UploadsAreStored'
    BY <1>2, <1>3 DEF UploadsAreStored, ExpensesInv, Answers
  <1>7. ReceiptsBelong'
    <2>1. \A r \in Calls : expenseCall[r].pc = "done" => r # c
      BY <1>2
    <2> QED BY <1>2, <1>3, <2>1, ReadInv DEF ReceiptsBelong, Answers, ExpensesInv
  <1>8. DanglingReceiptsAreOwed'
    BY <1>2, <1>3 DEF DanglingReceiptsAreOwed, ExpensesInv, Answers
  <1> QED BY <1>4, <1>5, <1>6, <1>7, <1>8 DEF ExpensesInv

\* Who deletes the old image owes the link of the new one.
LEMMA DeleteKeepsInv ==
    ASSUME ExpensesInv, NEW c \in Calls, DeleteOldReceipt(c)
    PROVE  ExpensesInv'
  <1> DEFINE old == expenseCall[c].receipt
  <1>1. /\ expenseCall[c].pc = "replace" /\ expense' = expense /\ Answer(c, "link")
        /\ images' \in {images \ {old}, images}
    BY DEF DeleteOldReceipt, DeletedReceipt
  <1>2. Answers(c, "link")
    BY <1>1, AnswerType DEF ExpensesInv
  <1>3. ExpensesTypeOK'
    BY <1>1, <1>2 DEF ExpensesInv, ExpensesTypeOK, Answers
  <1>4. CallsHaveExpenses'
    <2>1. \A d \in InService(expenseCall)' : d \in InService(expenseCall)
      BY <1>1, <1>2 DEF InService, Answers, Answered
    <2> QED BY <1>2, <2>1 DEF CallsHaveExpenses, ExpensesInv, InService, Answers
  <1>5. UploadsAreStored'
    <2>1. \A d \in Calls : expenseCall'[d].pc \in {"replace", "link"} =>
            expenseCall[d].pc \in {"replace", "link"}
      BY <1>1, <1>2 DEF Answers
    <2>2. \A d \in Calls : expenseCall[d].pc \in {"replace", "link"} => d \in images /\ d # old
      BY ExpensesAssumption DEF ExpensesInv, UploadsAreStored, ReceiptsBelong
    <2> QED BY <1>1, <2>1, <2>2 DEF UploadsAreStored
  <1>6. ReceiptsBelong'
    <2>1. \A r \in Calls : expenseCall[r].pc = "done" => r # c
      BY <1>1
    <2> QED BY <1>1, <1>2, <2>1, ReadInv DEF ReceiptsBelong, Answers, ExpensesInv
  <1>7. DanglingReceiptsAreOwed'
    <2> SUFFICES ASSUME NEW x \in Expenses, expense[x].receipt \notin images' \cup {None}
                 PROVE  \E d \in Calls : /\ expenseCall'[d].expense = x
                                         /\ expenseCall'[d].receipt = expense[x].receipt
                                         /\ expenseCall'[d].pc \in {"link", "refused"}
      BY <1>1 DEF DanglingReceiptsAreOwed
    <2>1. CASE expense[x].receipt \in images
      <3>1. expense[x].receipt = old /\ old # None
        BY <1>1, <2>1
      <3>2. expenseCall[old].expense = x /\ expenseCall[old].expense = expenseCall[c].expense
        BY <3>1 DEF ExpensesInv, ReceiptsBelong
      <3> QED BY <1>2, <3>1, <3>2 DEF Answers
    <2>2. CASE expense[x].receipt \notin images
      <3>1. PICK d \in Calls : /\ expenseCall[d].expense = x
                               /\ expenseCall[d].receipt = expense[x].receipt
                               /\ expenseCall[d].pc \in {"link", "refused"}
        BY <2>2 DEF ExpensesInv, DanglingReceiptsAreOwed
      <3> QED BY <1>1, <1>2, <3>1 DEF Answers
    <2> QED BY <2>1, <2>2
  <1> QED BY <1>3, <1>4, <1>5, <1>6, <1>7 DEF ExpensesInv

\* The link names the image the upload stored.
LEMMA LinkKeepsInv ==
    ASSUME ExpensesInv, NEW c \in Calls, LinkReceipt(c)
    PROVE  ExpensesInv'
  <1> DEFINE x == expenseCall[c].expense
  <1>1. /\ expenseCall[c].pc = "link" /\ images' = images /\ Answer(c, "done")
        /\ expense' = [expense EXCEPT ![x].receipt = c]
    BY DEF LinkReceipt
  <1>2. x \in Expenses /\ c \in images
    BY <1>1 DEF ExpensesInv, CallsHaveExpenses, InService, Answered, UploadsAreStored
  <1>3. Answers(c, "done")
    BY <1>1, AnswerType DEF ExpensesInv
  <1>4. /\ expense' \in [Expenses -> ExpenseRow] /\ expense'[x].receipt = c
        /\ \A y \in Expenses \ {x} : expense'[y] = expense[y]
    <2>1. [expense[x] EXCEPT !.receipt = c] \in ExpenseRow
      BY <1>2 DEF ExpensesInv, ExpensesTypeOK, ExpenseRow
    <2> QED BY <1>1, <1>2, <2>1 DEF ExpensesInv, ExpensesTypeOK, ExpenseRow
  <1>5. ExpensesTypeOK'
    BY <1>1, <1>3, <1>4 DEF ExpensesInv, ExpensesTypeOK, Answers
  <1>6. CallsHaveExpenses'
    <2>1. \A d \in InService(expenseCall)' : d \in InService(expenseCall)
      BY <1>1, <1>3 DEF InService, Answers, Answered
    <2> QED BY <1>3, <2>1 DEF CallsHaveExpenses, ExpensesInv, InService, Answers
  <1>7. UploadsAreStored'
    BY <1>1, <1>3 DEF UploadsAreStored, ExpensesInv, Answers
  <1>8. ReceiptsBelong'
    <2>1. \A r \in Calls : expenseCall[r].pc = "done" => r # c
      BY <1>1
    <2>2. \A y \in Expenses : expense'[y].receipt # None =>
            /\ expenseCall'[expense'[y].receipt].pc = "done"
            /\ expenseCall'[expense'[y].receipt].expense = y
      BY <1>3, <1>4, <2>1, ReadInv DEF ReceiptsBelong, Answers, ExpensesInv
    <2>3. \A d \in Calls : expenseCall'[d].receipt # None =>
            /\ expenseCall'[expenseCall'[d].receipt].pc = "done"
            /\ expenseCall'[expenseCall'[d].receipt].expense = expenseCall'[d].expense
      BY <1>3, <2>1, ReadInv DEF ReceiptsBelong, Answers, ExpensesInv
    <2> QED BY <2>2, <2>3 DEF ReceiptsBelong
  <1>9. DanglingReceiptsAreOwed'
    <2> SUFFICES ASSUME NEW y \in Expenses, expense'[y].receipt \notin images \cup {None}
                 PROVE  \E d \in Calls : /\ expenseCall'[d].expense = y
                                         /\ expenseCall'[d].receipt = expense'[y].receipt
                                         /\ expenseCall'[d].pc \in {"link", "refused"}
      BY <1>1 DEF DanglingReceiptsAreOwed
    <2>1. y # x /\ expense'[y] = expense[y]
      BY <1>2, <1>4
    <2>2. PICK d \in Calls : /\ expenseCall[d].expense = y
                             /\ expenseCall[d].receipt = expense[y].receipt
                             /\ expenseCall[d].pc \in {"link", "refused"}
      BY <2>1 DEF ExpensesInv, DanglingReceiptsAreOwed
    <2>3. d # c
      BY <2>1, <2>2
    <2> QED BY <1>3, <2>1, <2>2, <2>3 DEF Answers
  <1> QED BY <1>5, <1>6, <1>7, <1>8, <1>9 DEF ExpensesInv

-----------------------------------------------------------------------------
(* Every step *)

\* The row each of the three writes of a call by id leaves.
LEMMA WrittenRows ==
    ASSUME ExpensesInv, NEW c \in Calls
    PROVE  /\ UpdateExpense(c) \/ AddPayment(c) \/ RemoveExpense(c) =>
                /\ c \in InService(expenseCall)
                /\ expense' \in [Expenses -> ExpenseRow]
                /\ \A y \in Expenses : expense'[y].receipt \in {expense[y].receipt, None}
           /\ \A y \in Expenses : Duplicate(c, y) =>
                /\ c \in InService(expenseCall)
                /\ expense' \in [Expenses -> ExpenseRow]
                /\ \A z \in Expenses : expense'[z].receipt \in {expense[z].receipt, None}
  <1> DEFINE call == expenseCall[c]
             x == call.expense
  <1>0. ExpensesTypeOK /\ call \in ExpenseCall /\ (c \in InService(expenseCall) => x \in Expenses)
    BY ReadInv DEF ExpensesTypeOK
  <1>1. ASSUME c \in InService(expenseCall)
        PROVE  /\ expense[x] \in ExpenseRow
               /\ \A total \in 0..MaxTotal, status \in {"PARTIAL", "PAID"} :
                     LET row == [expense[x] EXCEPT !.total = total, !.status = status] IN
                     row \in ExpenseRow /\ row.receipt = expense[x].receipt
               /\ \A paid \in Nat, status \in {"PARTIAL", "PAID"} :
                     LET row == [expense[x] EXCEPT !.paid = paid, !.status = status] IN
                     row \in ExpenseRow /\ row.receipt = expense[x].receipt
               /\ LET row == [expense[x] EXCEPT !.state = "deleted"] IN
                  row \in ExpenseRow /\ row.receipt = expense[x].receipt
    BY <1>0, <1>1 DEF ExpensesTypeOK, ExpenseRow
  <1>2. ASSUME UpdateExpense(c)
        PROVE  /\ c \in InService(expenseCall)
               /\ expense' \in [Expenses -> ExpenseRow]
               /\ \A y \in Expenses : expense'[y].receipt \in {expense[y].receipt, None}
    <2> DEFINE total == IF call.dto = 0 THEN expense[x].total ELSE call.dto
               status == DerivedStatus(IF call.dto = 0 THEN call.total ELSE call.dto, call.paid)
               row == [expense[x] EXCEPT !.total = total, !.status = status]
    <2>1. c \in InService(expenseCall)
      BY <1>2 DEF UpdateExpense, InService, Answered
    <2>2. expense' = [expense EXCEPT ![x] = row]
      BY <1>2 DEF UpdateExpense
    <2>3. total \in 0..MaxTotal /\ status \in {"PARTIAL", "PAID"}
      BY <1>0, <1>1, <2>1 DEF ExpenseCall, ExpenseRow, DerivedStatus
    <2>4. row \in ExpenseRow /\ row.receipt = expense[x].receipt
      BY <1>1, <2>1, <2>3
    <2> HIDE DEF row
    <2> QED BY <1>0, <2>1, <2>2, <2>4, RowChangeType
  <1>3. ASSUME AddPayment(c)
        PROVE  /\ c \in InService(expenseCall)
               /\ expense' \in [Expenses -> ExpenseRow]
               /\ \A y \in Expenses : expense'[y].receipt \in {expense[y].receipt, None}
    <2> DEFINE paid == expense[x].paid + call.dto
               status == DerivedStatus(call.total, call.paid + call.dto)
               row == [expense[x] EXCEPT !.paid = paid, !.status = status]
    <2>1. c \in InService(expenseCall)
      BY <1>3 DEF AddPayment, InService, Answered
    <2>2. expense' = [expense EXCEPT ![x] = row]
      BY <1>3 DEF AddPayment
    <2>3. paid \in Nat /\ status \in {"PARTIAL", "PAID"}
      <3>1. expense[x].paid \in Nat /\ call.dto \in 0..MaxTotal
        BY <1>0, <1>1, <2>1 DEF ExpenseCall, ExpenseRow
      <3> QED BY <3>1 DEF DerivedStatus
    <2>4. row \in ExpenseRow /\ row.receipt = expense[x].receipt
      BY <1>1, <2>1, <2>3
    <2> HIDE DEF row
    <2> QED BY <1>0, <2>1, <2>2, <2>4, RowChangeType
  <1>4. ASSUME RemoveExpense(c)
        PROVE  /\ c \in InService(expenseCall)
               /\ expense' \in [Expenses -> ExpenseRow]
               /\ \A y \in Expenses : expense'[y].receipt \in {expense[y].receipt, None}
    <2> DEFINE row == [expense[x] EXCEPT !.state = "deleted"]
    <2>1. c \in InService(expenseCall)
      BY <1>4 DEF RemoveExpense, InService, Answered
    <2>2. expense' = [expense EXCEPT ![x] = row]
      BY <1>4 DEF RemoveExpense
    <2>3. row \in ExpenseRow /\ row.receipt = expense[x].receipt
      BY <1>1, <2>1
    <2> HIDE DEF row
    <2> QED BY <1>0, <2>1, <2>2, <2>3, RowChangeType
  <1>5. ASSUME NEW y \in Expenses, Duplicate(c, y)
        PROVE  /\ c \in InService(expenseCall)
               /\ expense' \in [Expenses -> ExpenseRow]
               /\ \A z \in Expenses : expense'[z].receipt \in {expense[z].receipt, None}
    <2>1. c \in InService(expenseCall) /\ expense' = [expense EXCEPT ![y] = NewExpense(call.total, call.paid)]
      BY <1>5 DEF Duplicate, InService, Answered
    <2>2. /\ NewExpense(call.total, call.paid) \in ExpenseRow
          /\ NewExpense(call.total, call.paid).receipt = None
      BY <1>0, NewExpenseType DEF ExpenseCall
    <2> QED BY <1>0, <2>1, <2>2, RowChangeType
  <1> QED BY <1>2, <1>3, <1>4, <1>5

\* A creation adds one row and leaves the others.
LEMMA CreatedRows ==
    ASSUME ExpensesInv, NEW c \in Calls, NEW x \in Expenses, CreateExpense(c, x)
    PROVE  /\ expense' \in [Expenses -> ExpenseRow]
           /\ \A y \in Expenses : expense'[y].receipt \in {expense[y].receipt, None}
  <1>1. PICK total \in Amount, paid \in Amount : expense' = [expense EXCEPT ![x] = NewExpense(total, paid)]
    BY DEF CreateExpense
  <1>2. NewExpense(total, paid) \in ExpenseRow /\ NewExpense(total, paid).receipt = None
    BY <1>1, ExpensesAssumption, NewExpenseType DEF Amount
  <1> QED BY <1>1, <1>2, ReadInv, RowChangeType

\* Every step keeps the images owed or stored.
LEMMA ExpensesNextInv ==
    ExpensesInv /\ [ExpensesNext /\ UNCHANGED serving]_<<serving, expensesVars>> => ExpensesInv'
  <1> SUFFICES ASSUME ExpensesInv, [ExpensesNext /\ UNCHANGED serving]_<<serving, expensesVars>>
               PROVE  ExpensesInv'
    OBVIOUS
  <1>1. ASSUME NEW c \in Calls, NEW x \in Expenses, CreateExpense(c, x)
        PROVE  ExpensesInv'
    <2>1. expenseCall[c].pc = "idle" /\ Answer(c, "done") /\ images' = images
      BY <1>1 DEF CreateExpense, Admitted
    <2> QED BY <1>1, <2>1, CreatedRows, AnswerKeepsInv DEF Answered
  <1>2. ASSUME NEW c \in Calls, Answer(c, "refused"), UNCHANGED <<expense, images>>,
               expenseCall[c].pc \notin Answered
        PROVE  ExpensesInv'
    <2>1. expense' \in [Expenses -> ExpenseRow]
      BY <1>2 DEF ExpensesInv, ExpensesTypeOK
    <2> QED BY <1>2, <2>1, AnswerKeepsInv DEF Answered
  <1>3. ASSUME NEW c \in Calls, UpdateExpense(c) \/ AddPayment(c) \/ RemoveExpense(c)
        PROVE  ExpensesInv'
    <2>1. expenseCall[c].pc \in {"update", "pay", "remove"} /\ Answer(c, "done") /\ images' = images
      BY <1>3 DEF UpdateExpense, AddPayment, RemoveExpense
    <2> QED BY <1>3, <2>1, WrittenRows, AnswerKeepsInv DEF Answered
  <1>4. ASSUME NEW c \in Calls, NEW y \in Expenses, Duplicate(c, y)
        PROVE  ExpensesInv'
    <2>1. expenseCall[c].pc = "copy" /\ Answer(c, "done") /\ images' = images
      BY <1>4 DEF Duplicate
    <2> QED BY <1>4, <2>1, WrittenRows, AnswerKeepsInv DEF Answered
  <1>5. CASE UNCHANGED <<serving, expensesVars>>
    BY <1>5 DEF expensesVars, ExpensesInv, ExpensesTypeOK, CallsHaveExpenses, UploadsAreStored,
                ReceiptsBelong, DanglingReceiptsAreOwed, InService
  <1>6. ASSUME ExpensesNext
        PROVE  ExpensesInv'
    <2>1. PICK c \in Calls :
            \/ \E x \in Expenses :
                  \/ CreateExpense(c, x)
                  \/ \E dto \in 0..MaxTotal :
                        OpenExpenseCall(c, x, "update", dto) \/ RefuseExpenseCall(c, x, "update", dto)
                  \/ \E dto \in Amount :
                        OpenExpenseCall(c, x, "pay", dto) \/ RefuseExpenseCall(c, x, "pay", dto)
                  \/ \E kind \in {"copy", "remove", "upload"} :
                        OpenExpenseCall(c, x, kind, 0) \/ RefuseExpenseCall(c, x, kind, 0)
                  \/ Duplicate(c, x)
            \/ UpdateExpense(c) \/ AddPayment(c) \/ RemoveExpense(c)
            \/ UploadReceipt(c) \/ DeleteOldReceipt(c) \/ LinkReceipt(c) \/ StopExpenseCall(c)
      BY <1>6 DEF ExpensesNext
    <2>2. CASE \E x \in Expenses : CreateExpense(c, x)
      BY <2>2, <1>1
    <2>3. CASE \E x \in Expenses, kind \in {"update", "pay", "copy", "remove", "upload"},
                  dto \in 0..MaxTotal : OpenExpenseCall(c, x, kind, dto)
      BY <2>3, OpenKeepsInv
    <2>4. CASE \/ StopExpenseCall(c)
               \/ \E x \in Expenses, kind \in {"update", "pay", "copy", "remove", "upload"},
                     dto \in 0..MaxTotal : RefuseExpenseCall(c, x, kind, dto)
      BY <2>4, <1>2 DEF StopExpenseCall, RefuseExpenseCall, InService, Admitted, Answered
    <2>5. CASE \E x \in Expenses : Duplicate(c, x)
      BY <2>5, <1>4
    <2>6. CASE UpdateExpense(c) \/ AddPayment(c) \/ RemoveExpense(c)
      BY <2>6, <1>3
    <2>7. CASE UploadReceipt(c) \/ DeleteOldReceipt(c) \/ LinkReceipt(c)
      BY <2>7, UploadKeepsInv, DeleteKeepsInv, LinkKeepsInv
    <2>8. Amount \subseteq 0..MaxTotal /\ 0 \in 0..MaxTotal
      BY ExpensesAssumption DEF Amount
    <2> QED BY <2>1, <2>2, <2>3, <2>4, <2>5, <2>6, <2>7, <2>8
  <1> QED BY <1>5, <1>6

\* Expenses, images and calls keep their types.
THEOREM ExpensesTypeCorrect == ExpensesSpec => []ExpensesTypeOK
  <1>1. ExpensesInv => ExpensesTypeOK
    BY DEF ExpensesInv
  <1> QED BY <1>1, ExpensesInitInv, ExpensesNextInv, PTL DEF ExpensesSpec

\* However many uploads race, a receipt that is linked and gone is owed by an upload
\* that read it and has not, or never, linked its own.
THEOREM OwedReceipts == ExpensesSpec => []DanglingReceiptsAreOwed
  <1>1. ExpensesInv => DanglingReceiptsAreOwed
    BY DEF ExpensesInv
  <1> QED BY <1>1, ExpensesInitInv, ExpensesNextInv, PTL DEF ExpensesSpec

-----------------------------------------------------------------------------
(* One call at a time *)

\* A row whose status is the one its payments imply.
SoundRow(row) ==
    row.state # "none" =>
        /\ row.paid \in 1..row.total
        /\ row.status = "PAID" <=> row.paid = row.total

\* ExpenseCallsAlone, a call in service finds the expense as it read it, and what it asks was accepted.
ExpenseCallsAlone ==
    serving = 1 =>
        /\ \A c, d \in InService(expenseCall) : c = d
        /\ \A c \in InService(expenseCall) :
              LET call == expenseCall[c] IN
              /\ expense[call.expense].state # "none"
              /\ call.total = expense[call.expense].total
              /\ call.paid = expense[call.expense].paid
              /\ call.pc \in {"update", "pay", "copy"} => Accepts(call.pc, expense[call.expense], call.dto)
              /\ call.pc = "pay" => call.dto \in Amount

StatusInv == ExpensesInv /\ ExpenseCallsAlone /\ StatusTellsPayments

\* A new expense has the status its payments imply.
LEMMA NewExpenseSound ==
    ASSUME NEW total \in Nat, NEW paid \in 1..total
    PROVE  SoundRow(NewExpense(total, paid))
  BY DEF SoundRow, NewExpense, DerivedStatus

\* Where there is no expense there is no status to be wrong.
LEMMA StatusInitInv == DeskInit /\ ExpensesInit => StatusInv
  <1> SUFFICES ASSUME DeskInit, ExpensesInit
               PROVE  StatusInv
    OBVIOUS
  <1>1. SoundRow(NoExpense) /\ SoundRow(NewExpense(MaxTotal, 1))
    BY ExpensesAssumption, NewExpenseSound DEF NoExpense, SoundRow
  <1>2. \A x \in Expenses : SoundRow(expense[x])
    BY <1>1 DEF ExpensesInit
  <1>3. ExpenseCallsAlone
    BY DEF ExpenseCallsAlone, ExpensesInit, InService
  <1> QED BY <1>2, <1>3, ExpensesInitInv DEF StatusInv, StatusTellsPayments, SoundRow

\* A call that is answered and leaves sound rows leaves nobody in service.
LEMMA AnswerKeepsStatus ==
    ASSUME StatusInv, ExpensesInv', serving' = serving,
           NEW c \in Calls, Admitted(expenseCall, c) \/ c \in InService(expenseCall),
           NEW answer \in Answered, Answer(c, answer),
           serving = 1 => \A x \in Expenses : SoundRow(expense'[x])
    PROVE  StatusInv'
  <1>1. serving = 1 => InService(expenseCall) \subseteq {c}
    BY AdmittedAlone DEF StatusInv, ExpenseCallsAlone
  <1>2. Answers(c, answer)
    BY AnswerType DEF StatusInv, ExpensesInv, Answered
  <1>3. serving = 1 => InService(expenseCall)' = {}
    BY <1>1, <1>2 DEF InService, Answers
  <1>4. ExpenseCallsAlone'
    BY <1>3 DEF ExpenseCallsAlone
  <1>5. StatusTellsPayments'
    BY DEF StatusTellsPayments, SoundRow
  <1> QED BY <1>4, <1>5 DEF StatusInv

\* Every row is sound when calls come one at a time.
LEMMA RowsAreSound ==
    ASSUME StatusInv, serving = 1
    PROVE  \A x \in Expenses : SoundRow(expense[x])
  BY DEF StatusInv, StatusTellsPayments, SoundRow

\* A call still at work on images finds its expense as it left it.
LEMMA ImagesKeepStatus ==
    ASSUME StatusInv, ExpensesInv', serving' = serving, expense' = expense,
           NEW c \in InService(expenseCall), NEW answer \in {"replace", "link"}, Answer(c, answer)
    PROVE  StatusInv'
  <1>1. Answers(c, answer)
    BY AnswerType DEF StatusInv, ExpensesInv, InService
  <1>2. StatusTellsPayments'
    BY DEF StatusInv, StatusTellsPayments
  <1>3. ExpenseCallsAlone'
    <2> SUFFICES ASSUME serving = 1
                 PROVE  ExpenseCallsAlone'
      BY DEF ExpenseCallsAlone
    <2>1. \A d \in InService(expenseCall)' : d = c
      BY <1>1 DEF InService, Answers, StatusInv, ExpenseCallsAlone
    <2>2. /\ expense[expenseCall[c].expense].state # "none"
          /\ expenseCall[c].total = expense[expenseCall[c].expense].total
          /\ expenseCall[c].paid = expense[expenseCall[c].expense].paid
      BY DEF StatusInv, ExpenseCallsAlone
    <2> QED BY <1>1, <2>1, <2>2 DEF ExpenseCallsAlone, Answers, InService
  <1> QED BY <1>2, <1>3 DEF StatusInv

\* Every step keeps the status the one the payments imply, one call at a time.
LEMMA StatusNextInv ==
    StatusInv /\ [ExpensesNext /\ UNCHANGED serving]_<<serving, expensesVars>> => StatusInv'
  <1> SUFFICES ASSUME StatusInv, [ExpensesNext /\ UNCHANGED serving]_<<serving, expensesVars>>
               PROVE  StatusInv'
    OBVIOUS
  <1>0. ExpensesInv /\ ExpensesInv' /\ serving' = serving /\ ExpensesTypeOK
    BY ExpensesNextInv DEF StatusInv, expensesVars, ExpensesInv
  <1>1. ASSUME NEW c \in Calls, NEW x \in Expenses, CreateExpense(c, x)
        PROVE  StatusInv'
    <2>1. Admitted(expenseCall, c) /\ Answer(c, "done") /\ "done" \in Answered
      BY <1>1 DEF CreateExpense, Answered
    <2>2. serving = 1 => \A y \in Expenses : SoundRow(expense'[y])
      <3>1. PICK total \in Amount, paid \in Amount :
              paid <= total /\ expense' = [expense EXCEPT ![x] = NewExpense(total, paid)]
        BY <1>1 DEF CreateExpense
      <3>2. SoundRow(NewExpense(total, paid))
        BY <3>1, ExpensesAssumption, NewExpenseSound DEF Amount
      <3> QED BY <1>0, <3>1, <3>2, RowsAreSound DEF ExpensesTypeOK
    <2> QED BY <1>0, <2>1, <2>2, AnswerKeepsStatus
  <1>2. ASSUME NEW c \in Calls, Answer(c, "refused"), expense' = expense,
               Admitted(expenseCall, c) \/ c \in InService(expenseCall)
        PROVE  StatusInv'
    <2>1. "refused" \in Answered
      BY DEF Answered
    <2> QED BY <1>0, <1>2, <2>1, RowsAreSound, AnswerKeepsStatus
  <1>3. ASSUME NEW c \in Calls, NEW x \in Expenses, NEW dto \in 0..MaxTotal,
               NEW kind \in {"update", "pay", "copy", "remove", "upload"},
               kind = "pay" => dto \in Amount, OpenExpenseCall(c, x, kind, dto)
        PROVE  StatusInv'
    <2> DEFINE call == [pc |-> kind, expense |-> x, total |-> expense[x].total, paid |-> expense[x].paid,
                        receipt |-> IF kind = "upload" THEN expense[x].receipt ELSE None, dto |-> dto]
    <2>1. /\ Admitted(expenseCall, c) /\ expense[x].state # "none" /\ expense' = expense
          /\ Accepts(kind, expense[x], dto) /\ expenseCall' = [expenseCall EXCEPT ![c] = call]
      BY <1>3 DEF OpenExpenseCall
    <2>2. expenseCall'[c] = call /\ \A d \in Calls \ {c} : expenseCall'[d] = expenseCall[d]
      BY <1>0, <2>1 DEF ExpensesTypeOK
    <2>3. StatusTellsPayments'
      BY <1>0, <2>1 DEF StatusInv, StatusTellsPayments
    <2>4. ExpenseCallsAlone'
      <3> SUFFICES ASSUME serving = 1
                   PROVE  ExpenseCallsAlone'
        BY <1>0 DEF ExpenseCallsAlone
      <3>1. InService(expenseCall) = {}
        BY <2>1, AdmittedAlone
      <3>2. \A d \in InService(expenseCall)' : d = c
        BY <2>2, <3>1 DEF InService
      <3>3. /\ expenseCall'[c].expense = x /\ expenseCall'[c].pc = kind /\ expenseCall'[c].dto = dto
            /\ expenseCall'[c].total = expense[x].total /\ expenseCall'[c].paid = expense[x].paid
        BY <2>2
      <3> QED BY <1>3, <2>1, <3>2, <3>3 DEF ExpenseCallsAlone
    <2> QED BY <1>0, <2>3, <2>4 DEF StatusInv
  <1>4. ASSUME NEW c \in Calls, NEW x \in Expenses, c \in InService(expenseCall),
               x = expenseCall[c].expense, Answer(c, "done"), NEW row,
               expense' = [expense EXCEPT ![x] = row], serving = 1 => SoundRow(row)
        PROVE  StatusInv'
    <2>1. serving = 1 => \A y \in Expenses : SoundRow(expense'[y])
      BY <1>0, <1>4, RowsAreSound DEF ExpensesTypeOK
    <2> QED BY <1>0, <1>4, <2>1, AnswerKeepsStatus DEF Answered
  <1>5. ASSUME NEW c \in Calls, c \in InService(expenseCall)
        PROVE  /\ expenseCall[c].expense \in Expenses
               /\ expenseCall[c] \in ExpenseCall /\ expense[expenseCall[c].expense] \in ExpenseRow
               /\ serving = 1 =>
                     LET call == expenseCall[c]
                         row  == expense[call.expense]
                     IN  /\ SoundRow(row) /\ row.state # "none"
                         /\ call.total = row.total /\ call.paid = row.paid
                         /\ call.pc \in {"update", "pay", "copy"} => Accepts(call.pc, row, call.dto)
                         /\ call.pc = "pay" => call.dto \in Amount
    <2>1. expenseCall[c].expense \in Expenses
      BY <1>0, <1>5, ReadInv
    <2> QED BY <1>0, <1>5, <2>1, RowsAreSound DEF ExpensesTypeOK, StatusInv, ExpenseCallsAlone
  <1>6. ASSUME NEW c \in Calls, UpdateExpense(c)
        PROVE  StatusInv'
    <2> DEFINE call == expenseCall[c]
               x == call.expense
               total == IF call.dto = 0 THEN expense[x].total ELSE call.dto
               status == DerivedStatus(IF call.dto = 0 THEN call.total ELSE call.dto, call.paid)
               row == [expense[x] EXCEPT !.total = total, !.status = status]
    <2>1. c \in InService(expenseCall) /\ call.pc = "update" /\ Answer(c, "done")
      BY <1>6 DEF UpdateExpense, InService, Answered
    <2>2. expense' = [expense EXCEPT ![x] = row]
      BY <1>6 DEF UpdateExpense
    <2>3. ASSUME serving = 1
          PROVE  SoundRow(row)
      <3>1. /\ expense[x] \in ExpenseRow /\ SoundRow(expense[x]) /\ call.paid = expense[x].paid
            /\ call.total = expense[x].total /\ expense[x].state # "none"
            /\ total >= expense[x].paid
        BY <1>5, <2>1, <2>3 DEF Accepts
      <3>2. /\ row.paid = expense[x].paid /\ row.total = total
            /\ row.status = DerivedStatus(total, expense[x].paid)
        BY <3>1 DEF ExpenseRow
      <3>3. total \in Nat /\ expense[x].paid \in 1..total
        BY <1>5, <2>1, <3>1 DEF ExpenseRow, ExpenseCall, SoundRow
      <3> QED BY <3>2, <3>3 DEF SoundRow, DerivedStatus
    <2> HIDE DEF row
    <2> QED BY <1>4, <1>5, <2>1, <2>2, <2>3
  <1>7. ASSUME NEW c \in Calls, AddPayment(c)
        PROVE  StatusInv'
    <2> DEFINE call == expenseCall[c]
               x == call.expense
               paid == expense[x].paid + call.dto
               row == [expense[x] EXCEPT !.paid = paid,
                                         !.status = DerivedStatus(call.total, call.paid + call.dto)]
    <2>1. c \in InService(expenseCall) /\ call.pc = "pay" /\ Answer(c, "done")
      BY <1>7 DEF AddPayment, InService, Answered
    <2>2. expense' = [expense EXCEPT ![x] = row]
      BY <1>7 DEF AddPayment
    <2>3. ASSUME serving = 1
          PROVE  SoundRow(row)
      <3>1. /\ expense[x] \in ExpenseRow /\ SoundRow(expense[x]) /\ call.paid = expense[x].paid
            /\ call.total = expense[x].total /\ expense[x].state # "none"
            /\ paid <= expense[x].total /\ call.dto \in Amount
        BY <1>5, <2>1, <2>3 DEF Accepts
      <3>2. /\ row.paid = paid /\ row.total = expense[x].total
            /\ row.status = DerivedStatus(expense[x].total, paid)
        BY <3>1 DEF ExpenseRow
      <3>3. expense[x].total \in Nat /\ paid \in 1..expense[x].total
        BY <3>1, ExpensesAssumption DEF ExpenseRow, Amount, SoundRow
      <3> QED BY <3>2, <3>3 DEF SoundRow, DerivedStatus
    <2> HIDE DEF row
    <2> QED BY <1>4, <1>5, <2>1, <2>2, <2>3
  <1>8. ASSUME NEW c \in Calls, NEW y \in Expenses, Duplicate(c, y)
        PROVE  StatusInv'
    <2> DEFINE call == expenseCall[c]
               row == NewExpense(call.total, call.paid)
    <2>1. /\ c \in InService(expenseCall) /\ call.pc = "copy" /\ Answer(c, "done") /\ "done" \in Answered
          /\ expense' = [expense EXCEPT ![y] = row]
      BY <1>8 DEF Duplicate, InService, Answered
    <2>2. ASSUME serving = 1
          PROVE  SoundRow(row)
      <3>1. call.total \in Nat /\ call.paid \in 1..call.total
        BY <1>5, <2>1, <2>2 DEF SoundRow, ExpenseCall, ExpenseRow
      <3> QED BY <3>1, NewExpenseSound
    <2> HIDE DEF row
    <2>3. serving = 1 => \A z \in Expenses : SoundRow(expense'[z])
      BY <1>0, <2>1, <2>2, RowsAreSound DEF ExpensesTypeOK
    <2> QED BY <1>0, <2>1, <2>3, AnswerKeepsStatus
  <1>9. ASSUME NEW c \in Calls, RemoveExpense(c) \/ LinkReceipt(c)
        PROVE  StatusInv'
    <2> DEFINE x == expenseCall[c].expense
    <2>1. c \in InService(expenseCall) /\ Answer(c, "done")
      BY <1>9 DEF RemoveExpense, LinkReceipt, InService, Answered
    <2>2. PICK row : /\ expense' = [expense EXCEPT ![x] = row]
                     /\ row \in {[expense[x] EXCEPT !.state = "deleted"], [expense[x] EXCEPT !.receipt = c]}
      BY <1>9 DEF RemoveExpense, LinkReceipt
    <2>3. serving = 1 => SoundRow(row)
      <3>1. /\ expense[x] \in ExpenseRow
            /\ serving = 1 => SoundRow(expense[x]) /\ expense[x].state # "none"
        BY <1>5, <2>1
      <3>2. row.paid = expense[x].paid /\ row.total = expense[x].total /\ row.status = expense[x].status
        BY <2>2, <3>1 DEF ExpenseRow
      <3> QED BY <3>1, <3>2 DEF SoundRow
    <2> QED BY <1>4, <1>5, <2>1, <2>2, <2>3
  <1>10. ASSUME NEW c \in Calls, UploadReceipt(c) \/ DeleteOldReceipt(c)
         PROVE  StatusInv'
    <2>1. c \in InService(expenseCall) /\ expense' = expense
      BY <1>10 DEF UploadReceipt, DeleteOldReceipt, InService, Answered
    <2>2. PICK answer \in {"replace", "link"} : Answer(c, answer)
      BY <1>10 DEF UploadReceipt, DeleteOldReceipt
    <2> QED BY <1>0, <2>1, <2>2, ImagesKeepStatus
  <1>11. CASE UNCHANGED <<serving, expensesVars>>
    BY <1>0, <1>11 DEF expensesVars, StatusInv, ExpenseCallsAlone, StatusTellsPayments, InService
  <1>12. ASSUME ExpensesNext
         PROVE  StatusInv'
    <2>1. PICK c \in Calls :
            \/ \E x \in Expenses :
                  \/ CreateExpense(c, x)
                  \/ \E dto \in 0..MaxTotal :
                        OpenExpenseCall(c, x, "update", dto) \/ RefuseExpenseCall(c, x, "update", dto)
                  \/ \E dto \in Amount :
                        OpenExpenseCall(c, x, "pay", dto) \/ RefuseExpenseCall(c, x, "pay", dto)
                  \/ \E kind \in {"copy", "remove", "upload"} :
                        OpenExpenseCall(c, x, kind, 0) \/ RefuseExpenseCall(c, x, kind, 0)
                  \/ Duplicate(c, x)
            \/ UpdateExpense(c) \/ AddPayment(c) \/ RemoveExpense(c)
            \/ UploadReceipt(c) \/ DeleteOldReceipt(c) \/ LinkReceipt(c) \/ StopExpenseCall(c)
      BY <1>12 DEF ExpensesNext
    <2>2. Amount \subseteq 0..MaxTotal /\ 0 \in 0..MaxTotal
      BY ExpensesAssumption DEF Amount
    <2>3. CASE \E x \in Expenses, dto \in Amount : OpenExpenseCall(c, x, "pay", dto)
      BY <2>2, <2>3, <1>3
    <2>4. CASE \E x \in Expenses, kind \in {"update", "copy", "remove", "upload"}, dto \in 0..MaxTotal :
                  OpenExpenseCall(c, x, kind, dto)
      BY <2>4, <1>3
    <2>5. CASE \/ StopExpenseCall(c)
               \/ \E x \in Expenses, kind \in {"update", "pay", "copy", "remove", "upload"},
                     dto \in 0..MaxTotal : RefuseExpenseCall(c, x, kind, dto)
      BY <2>5, <1>2 DEF StopExpenseCall, RefuseExpenseCall
    <2>6. CASE \E x \in Expenses : CreateExpense(c, x) \/ Duplicate(c, x)
      BY <2>6, <1>1, <1>8
    <2>7. CASE UpdateExpense(c) \/ AddPayment(c)
      BY <2>7, <1>6, <1>7
    <2>8. CASE RemoveExpense(c) \/ LinkReceipt(c) \/ UploadReceipt(c) \/ DeleteOldReceipt(c)
      BY <2>8, <1>9, <1>10
    <2> QED BY <2>1, <2>2, <2>3, <2>4, <2>5, <2>6, <2>7, <2>8
  <1> QED BY <1>11, <1>12

\* One call at a time, the stored status of an expense is the one its payments imply:
\* what addPayment, update and duplicate derive from their read holds at their write.
THEOREM StatusIsSound == ExpensesSpec => []StatusTellsPayments
  <1>1. StatusInv => StatusTellsPayments
    BY DEF StatusInv
  <1> QED BY <1>1, StatusInitInv, StatusNextInv, PTL DEF ExpensesSpec

-----------------------------------------------------------------------------
(* The rows that the reports read *)

\* A call past its first read names a sale, and a basket while it rings one up.
LedgerInv ==
    /\ LedgerTypeOK
    /\ \A c \in InService(ledgerCall) : ledgerCall[c].rung \in Rung
    /\ \A c \in Calls : ledgerCall[c].pc = "ring" => ledgerCall[c].ticket \in Tickets

\* The ledger starts empty.
LEMMA LedgerInitInv == DeskInit /\ LedgerInit => LedgerInv
  <1> SUFFICES ASSUME LedgerInit
               PROVE  LedgerInv
    OBVIOUS
  <1>1. 0 \in Moments
    BY LedgerAssumption DEF Moments
  <1>2. ledger \in [Rung -> LedgerRow]
    BY DEF LedgerInit, NoLedgerRow, LedgerRow
  <1>3. ledgerCall \in [Calls -> LedgerCall]
    BY <1>1 DEF LedgerInit, LedgerCall
  <1>4. InService(ledgerCall) = {}
    BY DEF LedgerInit, InService
  <1> QED BY <1>1, <1>2, <1>3, <1>4 DEF LedgerInit, LedgerInv, LedgerTypeOK

\* A call that is answered, or taken up with a sale.
LEMMA LedgerCallInv ==
    ASSUME LedgerInv, NEW c \in Calls, NEW new \in LedgerCall,
           ledgerCall' = [ledgerCall EXCEPT ![c] = new],
           new.pc \notin Answered \cup {"idle"} => new.rung \in Rung,
           new.pc = "ring" => new.ticket \in Tickets,
           ledger' \in [Rung -> LedgerRow], UNCHANGED <<tick, gone>>
    PROVE  LedgerInv'
  <1>1. /\ ledgerCall' \in [Calls -> LedgerCall] /\ ledgerCall'[c] = new
        /\ \A d \in Calls \ {c} : ledgerCall'[d] = ledgerCall[d]
    BY DEF LedgerInv, LedgerTypeOK
  <1>2. tick' \in Moments /\ gone' \in SUBSET Leaving
    BY DEF LedgerInv, LedgerTypeOK
  <1>3. \A d \in InService(ledgerCall)' : ledgerCall'[d].rung \in Rung
    BY <1>1 DEF LedgerInv, InService
  <1>4. \A d \in Calls : ledgerCall'[d].pc = "ring" => ledgerCall'[d].ticket \in Tickets
    BY <1>1 DEF LedgerInv
  <1> QED BY <1>1, <1>2, <1>3, <1>4 DEF LedgerInv, LedgerTypeOK

\* Every step of the ledger keeps its rows and calls well formed.
LEMMA LedgerNextInv ==
    LedgerInv /\ [LedgerNext /\ UNCHANGED serving]_<<serving, ledgerVars>> => LedgerInv'
  <1> SUFFICES ASSUME LedgerInv, [LedgerNext /\ UNCHANGED serving]_<<serving, ledgerVars>>
               PROVE  LedgerInv'
    OBVIOUS
  <1>0. /\ ledger \in [Rung -> LedgerRow] /\ tick \in Moments
        /\ ledgerCall \in [Calls -> LedgerCall]
        /\ \A c \in Calls : ledgerCall[c].pc \notin Answered \cup {"idle"} =>
              c \in InService(ledgerCall) /\ ledgerCall[c].rung \in Rung
        /\ \A c \in Calls : ledgerCall[c].pc = "ring" => ledgerCall[c].ticket \in Tickets
    BY DEF LedgerInv, LedgerTypeOK, InService
  <1>1. ASSUME NEW c \in Calls, NEW s \in Rung, NEW t \in Tickets \cup {None},
               NEW pc \in {"ring", "cancel", "mark"}, pc = "ring" => t \in Tickets,
               LedgerOpen(c, pc, s, t), UNCHANGED <<ledger, tick, gone>>
        PROVE  LedgerInv'
    <2> DEFINE new == [pc |-> pc, rung |-> s, ticket |-> t, since |-> tick]
    <2>1. new \in LedgerCall
      BY <1>0 DEF LedgerCall
    <2>2. ledgerCall' = [ledgerCall EXCEPT ![c] = new]
      BY <1>1 DEF LedgerOpen
    <2> QED BY <1>0, <1>1, <2>1, <2>2, LedgerCallInv
  <1>2. ASSUME NEW c \in Calls, NEW answer \in Answered, LedgerFinish(c, answer),
               ledger' \in [Rung -> LedgerRow], UNCHANGED <<tick, gone>>
        PROVE  LedgerInv'
    <2> DEFINE new == [ledgerCall[c] EXCEPT !.pc = answer]
    <2>1. new \in LedgerCall /\ new.pc = answer
      BY <1>0 DEF LedgerCall, Answered
    <2>2. ledgerCall' = [ledgerCall EXCEPT ![c] = new]
      BY <1>0, <1>2 DEF LedgerFinish
    <2> HIDE DEF new
    <2> QED BY <1>2, <2>1, <2>2, LedgerCallInv DEF Answered
  <1>3. ASSUME NEW c \in Calls, NEW s \in Rung, NEW t \in Tickets, RingUp(c, s, t)
        PROVE  LedgerInv'
    BY <1>1, <1>3 DEF RingUp
  <1>4. ASSUME NEW c \in Calls, NEW s \in Rung, NEW pc \in {"cancel", "mark"},
               OpenSaleUpdate(c, s, pc)
        PROVE  LedgerInv'
    BY <1>1, <1>4 DEF OpenSaleUpdate
  <1>5. ASSUME NEW c \in Calls, NEW created \in Moments, CommitRing(c, created)
        PROVE  LedgerInv'
    <2> DEFINE s == ledgerCall[c].rung
               made == [NoLedgerRow EXCEPT !.status = "COMPLETED", !.ticket = ledgerCall[c].ticket,
                                           !.createdAt = created]
    <2>1. ledgerCall[c].ticket \in Tickets /\ ledger' = [ledger EXCEPT ![s] = made]
             /\ LedgerFinish(c, "done") /\ UNCHANGED <<tick, gone>>
      BY <1>0, <1>5 DEF CommitRing
    <2>2. made \in LedgerRow
      <3>1. NoLedgerRow \in LedgerRow
        BY DEF NoLedgerRow, LedgerRow
      <3> QED BY <2>1, <3>1 DEF LedgerRow
    <2> HIDE DEF made
    <2>3. ledger' \in [Rung -> LedgerRow]
      BY <1>0, <2>1, <2>2
    <2> QED BY <1>2, <2>1, <2>3 DEF Answered
  <1>6. ASSUME NEW c \in Calls, NEW returned \in Moments, NEW cancelled \in Moments,
               CommitCancel(c, returned, cancelled)
        PROVE  LedgerInv'
    <2> DEFINE s == ledgerCall[c].rung
               moved == Append(ledger[s].returns, returned)
               void == [ledger[s] EXCEPT !.status = "CANCELLED", !.cancelledAt = cancelled,
                                         !.returns = moved]
    <2>1. s \in Rung /\ LedgerFinish(c, "done") /\ UNCHANGED <<tick, gone>>
      BY <1>0, <1>6 DEF CommitCancel, Answered
    <2>2. ledger' = [ledger EXCEPT ![s] = void]
      BY <1>6, Zenon DEF CommitCancel
    <2>3. void \in LedgerRow
      <3>1. ledger[s] \in LedgerRow
        BY <1>0, <2>1
      <3>2. moved \in Seq(Moments)
        BY <3>1 DEF LedgerRow
      <3> HIDE DEF moved
      <3> QED BY <3>1, <3>2 DEF LedgerRow
    <2> HIDE DEF void
    <2>4. ledger' \in [Rung -> LedgerRow]
      BY <1>0, <2>2, <2>3
    <2> QED BY <1>2, <2>1, <2>4 DEF Answered
  <1>7. ASSUME NEW c \in Calls, MarkReturned(c)
        PROVE  LedgerInv'
    <2> DEFINE s == ledgerCall[c].rung
    <2>1. s \in Rung /\ LedgerFinish(c, "done") /\ UNCHANGED <<tick, gone>>
             /\ ledger' = [ledger EXCEPT ![s].status = "RETURNED_PARTIAL"]
      BY <1>0, <1>7 DEF MarkReturned, Answered
    <2>2. ledger' \in [Rung -> LedgerRow]
      <3>1. PICK sale \in LedgerRow : sale = ledger[s]
        BY <1>0, <2>1
      <3>2. [sale EXCEPT !.status = "RETURNED_PARTIAL"] \in LedgerRow
        BY ONLY <3>1 DEF LedgerRow
      <3>3. ledger' = [ledger EXCEPT ![s] = [sale EXCEPT !.status = "RETURNED_PARTIAL"]]
        BY <2>1, <3>1
      <3> QED BY <1>0, <3>2, <3>3
    <2> QED BY <1>2, <2>1, <2>2 DEF Answered
  <1>8. ASSUME NEW c \in Calls, RollBackLedgerCall(c)
        PROVE  LedgerInv'
    <2> DEFINE new == [ledgerCall[c] EXCEPT !.pc = "refused", !.rung = None]
    <2>1. new \in LedgerCall /\ new.pc = "refused"
      BY <1>0 DEF LedgerCall
    <2>2. ledgerCall' = [ledgerCall EXCEPT ![c] = new] /\ UNCHANGED <<ledger, tick, gone>>
      BY <1>0, <1>8 DEF RollBackLedgerCall
    <2> HIDE DEF new
    <2> QED BY <1>0, <2>1, <2>2, LedgerCallInv DEF Answered
  <1>9. CASE TickLedger
    <2>1. tick' \in Moments
      BY <1>0, <1>9, LedgerAssumption DEF TickLedger, Moments
    <2> QED BY <1>9, <2>1 DEF TickLedger, LedgerInv, LedgerTypeOK, InService
  <1>10. ASSUME NEW u \in Leaving, SellerLeaves(u)
         PROVE  LedgerInv'
    BY <1>10 DEF SellerLeaves, LedgerInv, LedgerTypeOK, InService
  <1>11. CASE UNCHANGED <<serving, ledgerVars>>
    BY <1>11 DEF ledgerVars, LedgerInv, LedgerTypeOK, InService
  <1>12. CASE LedgerNext
    BY <1>3, <1>4, <1>5, <1>6, <1>7, <1>8, <1>9, <1>10, <1>12 DEF LedgerNext
  <1> QED BY <1>11, <1>12

\* Sales, moments and calls keep their types.
THEOREM LedgerTypeCorrect == LedgerSpec => []LedgerTypeOK
  <1>1. LedgerInv => LedgerTypeOK
    BY DEF LedgerInv
  <1> QED BY <1>1, LedgerInitInv, LedgerNextInv, PTL DEF LedgerSpec

-----------------------------------------------------------------------------
(* The money of the sales *)

\* A sale that was not made has nothing; one that was is charged and dated, and shows no
\* trace of a cancellation before it is cancelled.
SalesAreCharged ==
    \A s \in Rung :
        /\ ledger[s].status = "none" => ledger[s] = NoLedgerRow
        /\ ledger[s].status # "none" =>
              /\ ledger[s].ticket \in Tickets
              /\ Chargeable(ledger[s].ticket)
              /\ ledger[s].createdAt # None
        /\ ledger[s].cancelledAt = None =>
              ledger[s].status # "CANCELLED" /\ ledger[s].returns = <<>>

\* A sale being made is made by one call; one that is updated was made.
CallsKnowTheirSales ==
    \A c \in Calls :
        /\ ledgerCall[c].pc = "ring" =>
              /\ ledger[ledgerCall[c].rung].status = "none"
              /\ Chargeable(ledgerCall[c].ticket)
              /\ \A d \in Calls \ {c} : ledgerCall[d].rung # ledgerCall[c].rung
        /\ ledgerCall[c].pc \in {"cancel", "mark"} => ledger[ledgerCall[c].rung].status # "none"

\* One call at a time, a sale that is updated is completed, and one that was cancelled
\* stays so.
UpdatesFindCompletedSales ==
    /\ \A c, d \in InService(ledgerCall) : c = d
    /\ \A c \in Calls : ledgerCall[c].pc \in {"cancel", "mark"} =>
          ledger[ledgerCall[c].rung].status = "COMPLETED"
    /\ \A s \in Rung : ledger[s].cancelledAt # None => ledger[s].status = "CANCELLED"

\* What the reports rest on.
ChargedInv ==
    /\ LedgerInv
    /\ SalesAreCharged
    /\ CallsKnowTheirSales
    /\ serving = 1 => UpdatesFindCompletedSales

\* The ledger starts empty.
LEMMA ChargedInitInv == DeskInit /\ LedgerInit => ChargedInv
  <1> SUFFICES ASSUME DeskInit, LedgerInit PROVE ChargedInv
    OBVIOUS
  <1>1. LedgerInv
    BY LedgerInitInv
  <1>2. SalesAreCharged
    BY DEF LedgerInit, SalesAreCharged, NoLedgerRow
  <1>3. CallsKnowTheirSales
    BY DEF LedgerInit, CallsKnowTheirSales
  <1>4. UpdatesFindCompletedSales
    BY DEF LedgerInit, UpdatesFindCompletedSales, InService, NoLedgerRow
  <1> QED BY <1>1, <1>2, <1>3, <1>4 DEF ChargedInv

\* A call that takes up a sale or gives it back leaves the sales as they are.
LEMMA ChargedCall ==
    ASSUME ChargedInv, LedgerInv', UNCHANGED <<ledger, serving>>, NEW c \in Calls, NEW new,
           ledgerCall' = [ledgerCall EXCEPT ![c] = new],
           new.pc = "ring" =>
              /\ ledger[new.rung].status = "none" /\ Chargeable(new.ticket)
              /\ \A d \in Calls : ledgerCall[d].rung # new.rung,
           new.pc \in {"cancel", "mark"} => ledger[new.rung].status = "COMPLETED",
           new.pc \notin {"ring", "cancel", "mark"} => new.rung = None,
           new.pc \notin Answered /\ serving = 1 => InService(ledgerCall) = {}
    PROVE  ChargedInv'
  <1>1. /\ ledgerCall'[c] = new /\ \A d \in Calls \ {c} : ledgerCall'[d] = ledgerCall[d]
        /\ \A d \in Calls : ledgerCall[d].pc = "ring" => ledgerCall[d].rung \in Rung
        /\ None \notin Rung
    BY LedgerAssumption DEF ChargedInv, LedgerInv, LedgerTypeOK, InService, Answered
  <1>2. SalesAreCharged'
    BY DEF ChargedInv, SalesAreCharged
  <1>3. CallsKnowTheirSales'
    <2> SUFFICES ASSUME NEW d \in Calls
                 PROVE  /\ ledgerCall'[d].pc = "ring" =>
                              /\ ledger[ledgerCall'[d].rung].status = "none"
                              /\ Chargeable(ledgerCall'[d].ticket)
                              /\ \A e \in Calls \ {d} : ledgerCall'[e].rung # ledgerCall'[d].rung
                        /\ ledgerCall'[d].pc \in {"cancel", "mark"} =>
                              ledger[ledgerCall'[d].rung].status # "none"
      BY DEF CallsKnowTheirSales
    <2>1. CASE d = c
      BY <1>1, <2>1
    <2>2. CASE d # c
      <3>1. /\ ledgerCall[d].pc = "ring" =>
                   /\ ledger[ledgerCall[d].rung].status = "none"
                   /\ Chargeable(ledgerCall[d].ticket)
                   /\ \A e \in Calls \ {d} : ledgerCall[e].rung # ledgerCall[d].rung
            /\ ledgerCall[d].pc \in {"cancel", "mark"} =>
                   ledger[ledgerCall[d].rung].status # "none"
        BY DEF ChargedInv, CallsKnowTheirSales
      <3>2. ledgerCall[d].pc = "ring" => new.rung # ledgerCall[d].rung
        <4>1. CASE new.pc \in {"ring", "cancel", "mark"}
          BY <3>1, <4>1
        <4>2. CASE new.pc \notin {"ring", "cancel", "mark"}
          BY <1>1, <4>2
        <4> QED BY <4>1, <4>2
      <3> QED BY <1>1, <2>2, <3>1, <3>2
    <2> QED BY <2>1, <2>2
  <1>4. serving = 1 => UpdatesFindCompletedSales'
    BY <1>1 DEF ChargedInv, UpdatesFindCompletedSales, InService, Answered
  <1> QED BY <1>2, <1>3, <1>4 DEF ChargedInv

\* A call that writes its sale keeps it charged.
LEMMA ChargedWrite ==
    ASSUME ChargedInv, LedgerInv', UNCHANGED serving, NEW c \in InService(ledgerCall),
           NEW s, s = ledgerCall[c].rung, NEW sale,
           ledger' = [ledger EXCEPT ![s] = sale],
           ledgerCall' = [ledgerCall EXCEPT ![c].pc = "done"],
           sale.status # "none", sale.ticket \in Tickets, Chargeable(sale.ticket),
           sale.createdAt # None,
           sale.cancelledAt = None => sale.status # "CANCELLED" /\ sale.returns = <<>>,
           serving = 1 => (sale.cancelledAt # None => sale.status = "CANCELLED")
    PROVE  ChargedInv'
  <1>1. /\ c \in Calls /\ s \in Rung
        /\ ledgerCall'[c].pc = "done" /\ ledgerCall'[c].rung = s
        /\ \A d \in Calls \ {c} : ledgerCall'[d] = ledgerCall[d]
        /\ ledger'[s] = sale /\ \A x \in Rung \ {s} : ledger'[x] = ledger[x]
    BY DEF ChargedInv, LedgerInv, LedgerTypeOK, InService, LedgerCall
  <1>2. SalesAreCharged'
    BY <1>1 DEF ChargedInv, SalesAreCharged
  <1>3. \A d \in Calls : ledgerCall'[d].rung = ledgerCall[d].rung
    BY <1>1
  <1>4. CallsKnowTheirSales'
    <2> SUFFICES ASSUME NEW d \in Calls
                 PROVE  /\ ledgerCall'[d].pc = "ring" =>
                              /\ ledger'[ledgerCall'[d].rung].status = "none"
                              /\ Chargeable(ledgerCall'[d].ticket)
                              /\ \A e \in Calls \ {d} : ledgerCall'[e].rung # ledgerCall'[d].rung
                        /\ ledgerCall'[d].pc \in {"cancel", "mark"} =>
                              ledger'[ledgerCall'[d].rung].status # "none"
      BY DEF CallsKnowTheirSales
    <2>1. CASE d = c
      BY <1>1, <2>1
    <2>2. CASE d # c
      <3>1. /\ ledgerCall[d].pc = "ring" =>
                   /\ ledger[ledgerCall[d].rung].status = "none"
                   /\ Chargeable(ledgerCall[d].ticket)
                   /\ \A e \in Calls \ {d} : ledgerCall[e].rung # ledgerCall[d].rung
            /\ ledgerCall[d].pc \in {"cancel", "mark"} =>
                   ledger[ledgerCall[d].rung].status # "none"
        BY DEF ChargedInv, CallsKnowTheirSales
      <3>2. ledgerCall[d].pc \in {"ring", "cancel", "mark"} => ledgerCall[d].rung \in Rung
        BY DEF ChargedInv, LedgerInv, InService, Answered
      <3>3. ledgerCall[d].pc = "ring" => ledgerCall[d].rung # s
        BY <1>1, <2>2, <3>1
      <3> QED BY <1>1, <1>3, <2>2, <3>1, <3>2, <3>3
    <2> QED BY <2>1, <2>2
  <1>5. serving = 1 => UpdatesFindCompletedSales'
    BY <1>1 DEF ChargedInv, UpdatesFindCompletedSales, InService, Answered
  <1> QED BY <1>2, <1>4, <1>5 DEF ChargedInv

\* Every step of the ledger keeps what is charged.
LEMMA ChargedNextInv ==
    ChargedInv /\ [LedgerNext /\ UNCHANGED serving]_<<serving, ledgerVars>> => ChargedInv'
  <1> SUFFICES ASSUME ChargedInv, [LedgerNext /\ UNCHANGED serving]_<<serving, ledgerVars>>
               PROVE  ChargedInv'
    OBVIOUS
  <1>0. /\ LedgerInv' /\ serving' = serving
        /\ ledger \in [Rung -> LedgerRow] /\ ledgerCall \in [Calls -> LedgerCall]
        /\ \A c \in Calls : ledgerCall[c].pc \in {"ring", "cancel", "mark"} =>
              c \in InService(ledgerCall) /\ ledgerCall[c].rung \in Rung
        /\ None \notin Moments /\ None \notin Tickets
    BY LedgerNextInv, LedgerAssumption
       DEF ChargedInv, LedgerInv, LedgerTypeOK, InService, Answered, Moments, ledgerVars
  <1>1. ASSUME NEW c \in Calls, NEW s \in Rung, NEW t \in Tickets, RingUp(c, s, t)
        PROVE  ChargedInv'
    <2> DEFINE new == [pc |-> "ring", rung |-> s, ticket |-> t, since |-> tick]
    <2>1. /\ ledgerCall' = [ledgerCall EXCEPT ![c] = new] /\ UNCHANGED ledger
          /\ ledger[s].status = "none" /\ Chargeable(t)
          /\ \A d \in Calls : ledgerCall[d].rung # s
          /\ Admitted(ledgerCall, c)
      BY <1>1 DEF RingUp, LedgerOpen
    <2>2. serving = 1 => InService(ledgerCall) = {}
      BY <2>1, AdmittedAlone
    <2>3. /\ new.pc = "ring" /\ new.rung = s /\ new.ticket = t
      OBVIOUS
    <2> HIDE DEF new
    <2> QED BY <1>0, <2>1, <2>2, <2>3, ChargedCall DEF Answered
  <1>2. ASSUME NEW c \in Calls, NEW s \in Rung, NEW pc \in {"cancel", "mark"},
               OpenSaleUpdate(c, s, pc)
        PROVE  ChargedInv'
    <2> DEFINE new == [pc |-> pc, rung |-> s, ticket |-> None, since |-> tick]
    <2>1. /\ ledgerCall' = [ledgerCall EXCEPT ![c] = new] /\ UNCHANGED ledger
          /\ ledger[s].status = "COMPLETED"
          /\ Admitted(ledgerCall, c)
      BY <1>2 DEF OpenSaleUpdate, LedgerOpen
    <2>2. serving = 1 => InService(ledgerCall) = {}
      BY <2>1, AdmittedAlone
    <2>3. /\ new.pc = pc /\ new.rung = s
      OBVIOUS
    <2> HIDE DEF new
    <2> QED BY <1>0, <2>1, <2>2, <2>3, ChargedCall DEF Answered
  <1>3. ASSUME NEW c \in Calls, NEW created \in Moments, CommitRing(c, created)
        PROVE  ChargedInv'
    <2> DEFINE s == ledgerCall[c].rung
               sale == [NoLedgerRow EXCEPT
                         !.status = "COMPLETED", !.ticket = ledgerCall[c].ticket, !.createdAt = created]
    <2>1. /\ ledger' = [ledger EXCEPT ![s] = sale]
          /\ ledgerCall' = [ledgerCall EXCEPT ![c].pc = "done"]
          /\ ledgerCall[c].pc = "ring"
      BY <1>3 DEF CommitRing, LedgerFinish
    <2>2. ledgerCall[c].ticket \in Tickets /\ Chargeable(ledgerCall[c].ticket)
      BY <2>1 DEF ChargedInv, LedgerInv, CallsKnowTheirSales
    <2>3. /\ sale.status = "COMPLETED" /\ sale.ticket = ledgerCall[c].ticket
          /\ sale.createdAt = created /\ sale.cancelledAt = None /\ sale.returns = <<>>
      BY DEF NoLedgerRow
    <2>4. c \in InService(ledgerCall)
      BY <1>0, <2>1
    <2> HIDE DEF sale
    <2> QED BY <1>0, <2>1, <2>2, <2>3, <2>4, ChargedWrite
  <1>4. ASSUME NEW c \in Calls, NEW returned \in Moments, NEW cancelled \in Moments,
               CommitCancel(c, returned, cancelled)
        PROVE  ChargedInv'
    <2> DEFINE s == ledgerCall[c].rung
               moved == Append(ledger[s].returns, returned)
               sale == [ledger[s] EXCEPT !.status = "CANCELLED", !.cancelledAt = cancelled,
                                         !.returns = moved]
    <2>1. /\ ledger' = [ledger EXCEPT ![s] = sale]
          /\ ledgerCall' = [ledgerCall EXCEPT ![c].pc = "done"]
          /\ ledgerCall[c].pc = "cancel"
      BY <1>4, Zenon DEF CommitCancel, LedgerFinish
    <2>2. s \in Rung /\ c \in InService(ledgerCall)
      BY <1>0, <2>1
    <2>3. ledger[s].status # "none"
      BY <2>1 DEF ChargedInv, CallsKnowTheirSales
    <2>4. /\ sale.status = "CANCELLED" /\ sale.ticket = ledger[s].ticket
          /\ sale.createdAt = ledger[s].createdAt /\ sale.cancelledAt = cancelled
      <3> HIDE DEF moved
      <3>1. ledger[s] \in LedgerRow
        BY <1>0, <2>2
      <3> QED BY <3>1 DEF LedgerRow
    <2>5. /\ ledger[s].ticket \in Tickets /\ Chargeable(ledger[s].ticket)
          /\ ledger[s].createdAt # None
      BY <2>2, <2>3 DEF ChargedInv, SalesAreCharged
    <2> HIDE DEF sale
    <2> QED BY <1>0, <2>1, <2>2, <2>4, <2>5, ChargedWrite
  <1>5. ASSUME NEW c \in Calls, MarkReturned(c)
        PROVE  ChargedInv'
    <2> DEFINE s == ledgerCall[c].rung
               sale == [ledger[s] EXCEPT !.status = "RETURNED_PARTIAL"]
    <2>1. /\ ledger' = [ledger EXCEPT ![s] = sale]
          /\ ledgerCall' = [ledgerCall EXCEPT ![c].pc = "done"]
          /\ ledgerCall[c].pc = "mark"
      BY <1>5 DEF MarkReturned, LedgerFinish
    <2>2. s \in Rung /\ c \in InService(ledgerCall)
      BY <1>0, <2>1
    <2>3. ledger[s].status # "none" /\ (serving = 1 => ledger[s].status = "COMPLETED")
      BY <2>1 DEF ChargedInv, CallsKnowTheirSales, UpdatesFindCompletedSales
    <2>4. /\ sale.status = "RETURNED_PARTIAL" /\ sale.ticket = ledger[s].ticket
          /\ sale.createdAt = ledger[s].createdAt /\ sale.cancelledAt = ledger[s].cancelledAt
          /\ sale.returns = ledger[s].returns
      <3>1. ledger[s] \in LedgerRow
        BY <1>0, <2>2
      <3> QED BY <3>1 DEF LedgerRow
    <2>5. /\ ledger[s].ticket \in Tickets /\ Chargeable(ledger[s].ticket)
          /\ ledger[s].createdAt # None
          /\ ledger[s].cancelledAt = None => ledger[s].returns = <<>>
          /\ serving = 1 => ledger[s].cancelledAt = None
      BY <2>2, <2>3 DEF ChargedInv, SalesAreCharged, UpdatesFindCompletedSales
    <2> HIDE DEF sale
    <2>6. /\ ChargedInv /\ LedgerInv' /\ UNCHANGED serving
          /\ ledgerCall' = [ledgerCall EXCEPT ![c].pc = "done"]
      BY <1>0, <2>1
    <2>7. /\ sale.status # "none" /\ sale.status # "CANCELLED" /\ sale.ticket \in Tickets
          /\ Chargeable(sale.ticket) /\ sale.createdAt # None
          /\ sale.cancelledAt = None => sale.returns = <<>>
          /\ serving = 1 => sale.cancelledAt = None
      BY <2>4, <2>5
    <2>8. PICK id \in Rung : id = s
      BY <2>2
    <2>9. ledger' = [ledger EXCEPT ![id] = sale] /\ id = ledgerCall[c].rung /\ c \in InService(ledgerCall)
      BY <2>1, <2>2, <2>8
    <2> HIDE DEF s
    <2> QED BY ONLY <2>6, <2>7, <2>9, ChargedWrite
  <1>6. ASSUME NEW c \in Calls, RollBackLedgerCall(c)
        PROVE  ChargedInv'
    <2> DEFINE new == [ledgerCall[c] EXCEPT !.pc = "refused", !.rung = None]
    <2>1. new.pc = "refused" /\ new.rung = None
      BY <1>0 DEF LedgerCall
    <2>2. ledgerCall' = [ledgerCall EXCEPT ![c] = new] /\ UNCHANGED ledger
      BY <1>0, <1>6 DEF RollBackLedgerCall
    <2> HIDE DEF new
    <2> QED BY <1>0, <2>1, <2>2, ChargedCall DEF Answered
  <1>7. CASE (\E u \in Leaving : SellerLeaves(u)) \/ TickLedger \/ UNCHANGED <<serving, ledgerVars>>
    BY <1>0, <1>7 DEF SellerLeaves, TickLedger, ledgerVars, ChargedInv, SalesAreCharged,
          CallsKnowTheirSales, UpdatesFindCompletedSales, InService
  <1>8. CASE LedgerNext
    BY <1>1, <1>2, <1>3, <1>4, <1>5, <1>6, <1>7, <1>8 DEF LedgerNext
  <1> QED BY <1>7, <1>8

-----------------------------------------------------------------------------
(* Periods that are over *)

\* The entries a sale comes to in a period; none before it is made.
EntriesOf(s, f) == IF ledger[s].status = "none" THEN {} ELSE Expanded(s, f)

\* The entries of a period are those of its sales ...
LEMMA EntriesAreOfSales ==
    ASSUME NEW f
    PROVE  FinancialEntries(f) = UNION {EntriesOf(s, f) : s \in Rung}
  BY DEF FinancialEntries, EntriesOf

\* ... and each is of a sale that was made.
LEMMA EntriesNameSales ==
    ASSUME NEW f, NEW e \in FinancialEntries(f)
    PROVE  e.of \in Rung /\ ledger[e.of].status # "none" /\ e \in Expanded(e.of, f)
  BY DEF FinancialEntries, Expanded

\* What a ticket is charged is no matter of state.
LEMMA ChargesStand ==
    /\ Subtotal' = Subtotal /\ TaxAmount' = TaxAmount
    /\ \A t, units : ShareOf(t, units)' = ShareOf(t, units)
    /\ \A t, g : LineSubtotal(t, g)' = LineSubtotal(t, g)
  BY DEF Subtotal, TaxAmount, ShareOf, Lines, LineSubtotal, GrossSubtotal

\* An entry is worth the same as long as its sale keeps its ticket.
LEMMA WorthStands ==
    ASSUME NEW e, ledger'[e.of].ticket = ledger[e.of].ticket
    PROVE  /\ EntryIncome(e)' = EntryIncome(e)
           /\ EntryTax(e)' = EntryTax(e)
           /\ \A g : LineRevenue(e, g)' = LineRevenue(e, g)
  <1>1. EntryDiscount(e)' = EntryDiscount(e)
    BY ChargesStand DEF EntryDiscount, Prorated
  <1> QED BY <1>1, ChargesStand DEF EntryIncome, EntryTax, LineRevenue, Prorated

\* The same entries of the same tickets make the same overview.
LEMMA OverviewStands ==
    ASSUME NEW f, FinancialEntries(f)' = FinancialEntries(f),
           \A s \in Rung : ledger[s].status # "none" => ledger'[s].ticket = ledger[s].ticket
    PROVE  Overview(f)' = Overview(f)
  <1> DEFINE E == FinancialEntries(f)
  <1>1. ASSUME NEW e \in E
        PROVE  ledger'[e.of].ticket = ledger[e.of].ticket
    BY EntriesNameSales
  <1>2. \A e \in E : /\ EntryIncome(e)' = EntryIncome(e)
                     /\ EntryTax(e)' = EntryTax(e)
                     /\ \A g : LineRevenue(e, g)' = LineRevenue(e, g)
    BY <1>1, WorthStands
  <1> QED BY <1>2 DEF Overview

\* A sale that looks the same in a period comes to the same entries there.
LEMMA ExpandedStands ==
    ASSUME NEW s, NEW f, ledger'[s].ticket = ledger[s].ticket,
           (Booked(s, f))' <=> Booked(s, f), (Reversed(s, f))' <=> Reversed(s, f),
           TimesReturned(s, f)' = TimesReturned(s, f)
    PROVE  Expanded(s, f)' = Expanded(s, f)
  <1>1. ReturnedUnits(s, f)' = ReturnedUnits(s, f)
    BY DEF ReturnedUnits
  <1> QED BY <1>1 DEF Expanded

\* A sale without a cancellation had nothing returned.
LEMMA NothingReturned ==
    ASSUME NEW s, NEW f, ledger[s].status = "CANCELLED" \/ ledger[s].returns = <<>>
    PROVE  TimesReturned(s, f) = 0
  <1>1. CASE ledger[s].status = "CANCELLED"
    BY <1>1 DEF TimesReturned
  <1>2. CASE ledger[s].returns = <<>>
    <2>1. {i \in DOMAIN ledger[s].returns : Within(ledger[s].returns[i], f)} = {}
      BY <1>2
    <2> QED BY <2>1, FS_EmptySet DEF TimesReturned
  <1> QED BY <1>1, <1>2

\* What a step does to a sale does not show in a period that ended before the calls at
\* work began.
LEMMA SaleStands ==
    ASSUME ChargedInv, NEW c \in InService(ledgerCall), NEW s, s = ledgerCall[c].rung,
           NEW f, f.lte \in Int, f.lte < ledgerCall[c].since,
           ledger[s].cancelledAt # None => ledger'[s] = ledger[s],
           \/ \E created \in Moments : CommitRing(c, created)
           \/ \E returned, cancelled \in Moments : CommitCancel(c, returned, cancelled)
           \/ MarkReturned(c)
    PROVE  /\ EntriesOf(s, f)' = EntriesOf(s, f)
           /\ ledger[s].status # "none" => ledger'[s].ticket = ledger[s].ticket
           /\ \A x \in Rung \ {s} : ledger'[x] = ledger[x]
  <1>1. /\ s \in Rung /\ c \in Calls /\ ledgerCall[c].since \in Moments /\ ledger \in [Rung -> LedgerRow]
        /\ ledger[s] \in LedgerRow /\ None \notin Moments /\ Moments \subseteq Nat /\ f.lte # None
    <2>1. None \notin Int /\ Moments \subseteq Nat /\ Nat \subseteq Int
      BY LedgerAssumption DEF Moments
    <2>2. /\ s \in Rung /\ c \in Calls
          /\ ledger \in [Rung -> LedgerRow] /\ ledgerCall \in [Calls -> LedgerCall]
      BY DEF ChargedInv, LedgerInv, LedgerTypeOK, InService
    <2>3. ledgerCall[c].since \in Moments
      BY <2>2 DEF LedgerCall
    <2> QED BY <2>1, <2>2, <2>3
  <1>2. \A t \in Moments : ledgerCall[c].since <= t => ~Within(t, f)
    <2> SUFFICES ASSUME NEW t \in Moments, ledgerCall[c].since <= t
                 PROVE  ~(t <= f.lte)
      BY <1>1 DEF Within
    <2>1. Moments \subseteq Int
      BY DEF Moments
    <2>2. t \in Int /\ ledgerCall[c].since \in Int /\ f.lte < ledgerCall[c].since
      BY ONLY <1>1, <2>1, t \in Moments, f.lte < ledgerCall[c].since
    <2> QED BY ONLY <2>2, f.lte \in Int, ledgerCall[c].since <= t
  <1>3. CASE \E created \in Moments : CommitRing(c, created)
    <2>1. PICK created \in Moments : CommitRing(c, created)
      BY <1>3
    <2> DEFINE sale == [NoLedgerRow EXCEPT
                 !.status = "COMPLETED", !.ticket = ledgerCall[c].ticket, !.createdAt = created]
    <2>2. /\ ledger' = [ledger EXCEPT ![s] = sale] /\ ledgerCall[c].since <= created
          /\ ledgerCall[c].pc = "ring"
      BY <2>1 DEF CommitRing
    <2>3. ledgerCall[c].ticket \in Tickets /\ ledger[s].status = "none"
      BY <1>1, <2>2 DEF ChargedInv, LedgerInv, CallsKnowTheirSales
    <2>4. /\ sale.status = "COMPLETED" /\ sale.ticket = ledgerCall[c].ticket
          /\ sale.createdAt = created /\ sale.cancelledAt = None /\ sale.returns = <<>>
      BY DEF NoLedgerRow
    <2> HIDE DEF sale
    <2>5. ledger'[s] = sale /\ \A x \in Rung \ {s} : ledger'[x] = ledger[x]
      BY <1>1, <2>2
    <2>6. Expanded(s, f)' = {}
      <3>1. (~Booked(s, f))' /\ (~Reversed(s, f))'
        BY <1>1, <1>2, <2>2, <2>4, <2>5 DEF Booked, Reversed, Within
      <3>2. TimesReturned(s, f)' = 0
        <4>1. (ledger[s].returns = <<>>)'
          BY <2>4, <2>5
        <4>2. (ledger[s].status = "CANCELLED" \/ ledger[s].returns = <<>> => TimesReturned(s, f) = 0)'
          BY NothingReturned, PTL
        <4> QED BY <4>1, <4>2
      <3>3. (ledger[s].ticket \in Tickets)'
        BY <2>3, <2>4, <2>5
      <3>4. \A g \in Goods : ReturnedUnits(s, f)'[g] = 0
        BY <3>2, <3>3, LedgerAssumption DEF ReturnedUnits
      <3> QED BY <3>1, <3>4 DEF Expanded
    <2> QED BY <2>3, <2>4, <2>5, <2>6 DEF EntriesOf
  <1>4. ASSUME NEW sale, ledger' = [ledger EXCEPT ![s] = sale], ledger[s].status # "none",
               ledger[s].cancelledAt = None,
               sale.ticket = ledger[s].ticket, sale.createdAt = ledger[s].createdAt,
               sale.status # "none",
               \/ sale.cancelledAt = None
               \/ sale.cancelledAt \in Moments /\ ledgerCall[c].since <= sale.cancelledAt,
               sale.status = "CANCELLED" \/ sale.returns = <<>>
        PROVE  /\ EntriesOf(s, f)' = EntriesOf(s, f)
               /\ ledger'[s].ticket = ledger[s].ticket
               /\ \A x \in Rung \ {s} : ledger'[x] = ledger[x]
    <2>1. ledger'[s] = sale /\ \A x \in Rung \ {s} : ledger'[x] = ledger[x]
      BY <1>1, <1>4
    <2>2. (Booked(s, f))' <=> Booked(s, f)
      BY <1>4, <2>1 DEF Booked, Within
    <2>3. ((Reversed(s, f))' <=> Reversed(s, f))
      BY <1>1, <1>2, <1>4, <2>1 DEF Reversed, Within
    <2>4. TimesReturned(s, f) = 0
      BY <1>1, <1>4, NothingReturned DEF ChargedInv, SalesAreCharged
    <2>5. TimesReturned(s, f)' = 0
      <4>1. (ledger[s].status = "CANCELLED" \/ ledger[s].returns = <<>>)'
        BY <1>4, <2>1
      <4>2. (ledger[s].status = "CANCELLED" \/ ledger[s].returns = <<>> => TimesReturned(s, f) = 0)'
        BY NothingReturned, PTL
      <4> QED BY <4>1, <4>2
    <2>6. Expanded(s, f)' = Expanded(s, f)
      BY <1>4, <2>1, <2>2, <2>3, <2>4, <2>5, ExpandedStands
    <2> QED BY <1>4, <2>1, <2>6 DEF EntriesOf
  <1>5. CASE ledger' = ledger
    BY <1>5 DEF EntriesOf, Expanded, Booked, Reversed, ReturnedUnits, TimesReturned
  <1>6. CASE \E returned, cancelled \in Moments : CommitCancel(c, returned, cancelled)
    <2>1. PICK returned \in Moments, cancelled \in Moments : CommitCancel(c, returned, cancelled)
      BY <1>6
    <2> DEFINE moved == Append(ledger[s].returns, returned)
               sale == [ledger[s] EXCEPT !.status = "CANCELLED", !.cancelledAt = cancelled,
                                         !.returns = moved]
    <2>2. ledger' = [ledger EXCEPT ![s] = sale]
      <3> DEFINE here == ledgerCall[c].rung
      <3>1. ledger' = [ledger EXCEPT ![here] = [ledger[here] EXCEPT
                         !.status = "CANCELLED", !.cancelledAt = cancelled,
                         !.returns = Append(ledger[here].returns, returned)]]
        BY <2>1, Zenon DEF CommitCancel
      <3>2. s = here
        OBVIOUS
      <3> QED BY <3>1, <3>2, Zenon
    <2>3. ledgerCall[c].pc = "cancel" /\ ledgerCall[c].since <= cancelled
      <3>1. /\ ledgerCall[c].pc = "cancel"
            /\ ledgerCall[c].since <= returned /\ returned <= cancelled
        BY <2>1 DEF CommitCancel
      <3>2. {ledgerCall[c].since, returned, cancelled} \subseteq Nat
        BY <1>1
      <3> QED BY <3>1, <3>2
    <2>4. /\ sale.status = "CANCELLED" /\ sale.ticket = ledger[s].ticket
          /\ sale.createdAt = ledger[s].createdAt /\ sale.cancelledAt = cancelled
      <3> HIDE DEF moved
      <3> QED BY <1>1 DEF LedgerRow
    <2> HIDE DEF sale
    <2>5. ledger[s].status # "none"
      BY <1>1, <2>3 DEF ChargedInv, CallsKnowTheirSales
    <2>6. CASE ledger[s].cancelledAt = None
      BY <1>4, <2>2, <2>3, <2>4, <2>5, <2>6
    <2>7. CASE ledger[s].cancelledAt # None
      <3>1. ledger'[s] = ledger[s]
        BY <2>7
      <3>2. ledger' = ledger
        BY <1>1, <2>2, <3>1
      <3> QED BY <1>5, <3>2
    <2> QED BY <2>6, <2>7
  <1>7. CASE MarkReturned(c)
    <2> DEFINE sale == [ledger[s] EXCEPT !.status = "RETURNED_PARTIAL"]
    <2>1. ledger' = [ledger EXCEPT ![s] = sale] /\ ledgerCall[c].pc = "mark"
      BY <1>7 DEF MarkReturned
    <2>2. /\ sale.status = "RETURNED_PARTIAL" /\ sale.ticket = ledger[s].ticket
          /\ sale.createdAt = ledger[s].createdAt /\ sale.cancelledAt = ledger[s].cancelledAt
          /\ sale.returns = ledger[s].returns
      BY <1>1 DEF LedgerRow
    <2> HIDE DEF sale
    <2>3. ledger[s].status # "none"
      BY <1>1, <2>1 DEF ChargedInv, CallsKnowTheirSales
    <2>4. CASE ledger[s].cancelledAt = None
      <3>1. ledger[s].returns = <<>>
        BY <1>1, <2>4 DEF ChargedInv, SalesAreCharged
      <3> QED BY <1>4, <2>1, <2>2, <2>3, <2>4, <3>1
    <2>5. CASE ledger[s].cancelledAt # None
      <3>1. ledger'[s] = ledger[s]
        BY <2>5
      <3>2. ledger' = ledger
        BY <1>1, <2>1, <3>1
      <3> QED BY <1>5, <3>2
    <2> QED BY <2>4, <2>5
  <1> QED BY <1>3, <1>6, <1>7

\* Where no sale's entries change, nor its ticket once it is made, the overview stands.
LEMMA SalesStand ==
    ASSUME NEW f,
           \A s \in Rung : /\ EntriesOf(s, f)' = EntriesOf(s, f)
                           /\ ledger[s].status # "none" => ledger'[s].ticket = ledger[s].ticket
    PROVE  Overview(f)' = Overview(f)
  <1>1. FinancialEntries(f)' = UNION {EntriesOf(s, f)' : s \in Rung}
    BY DEF FinancialEntries, EntriesOf
  <1>2. FinancialEntries(f)' = FinancialEntries(f)
    BY <1>1, EntriesAreOfSales
  <1> QED BY <1>2, OverviewStands

\* No step shows in the overview of a period that ended before the calls at work began.
LEMMA ClosedStep ==
    ASSUME ChargedInv, [LedgerNext]_ledgerVars,
           \A s \in Rung : ledger[s].cancelledAt # None => ledger'[s] = ledger[s],
           NEW f, f.lte \in Int, \A c \in InService(ledgerCall) : f.lte < ledgerCall[c].since
    PROVE  Overview(f)' = Overview(f)
  <1>1. CASE ledger' = ledger
    <2>1. \A s \in Rung : EntriesOf(s, f)' = EntriesOf(s, f)
      BY <1>1 DEF EntriesOf, Expanded, Booked, Reversed, ReturnedUnits, TimesReturned
    <2> QED BY <1>1, <2>1, SalesStand
  <1>2. ASSUME NEW c \in InService(ledgerCall),
               \/ \E created \in Moments : CommitRing(c, created)
               \/ \E returned, cancelled \in Moments : CommitCancel(c, returned, cancelled)
               \/ MarkReturned(c)
        PROVE  Overview(f)' = Overview(f)
    <2>1. PICK s : s = ledgerCall[c].rung
      OBVIOUS
    <2>2. s \in Rung /\ f.lte < ledgerCall[c].since
      BY <2>1 DEF ChargedInv, LedgerInv
    <2>3. ledger[s].cancelledAt # None => ledger'[s] = ledger[s]
      BY <2>2
    <2>4. /\ EntriesOf(s, f)' = EntriesOf(s, f)
          /\ ledger[s].status # "none" => ledger'[s].ticket = ledger[s].ticket
          /\ \A x \in Rung \ {s} : ledger'[x] = ledger[x]
      BY ONLY ChargedInv, <1>2, <2>1, <2>2, <2>3, f.lte \in Int, SaleStands
    <2>5. ASSUME NEW x \in Rung \ {s}
          PROVE  EntriesOf(x, f)' = EntriesOf(x, f)
      <3>1. ledger'[x] = ledger[x]
        BY <2>4
      <3> QED BY <3>1 DEF EntriesOf, Expanded, Booked, Reversed, ReturnedUnits, TimesReturned
    <2> QED BY <2>4, <2>5, SalesStand
  <1>3. ASSUME NEW c \in Calls, NEW pc \in {"ring", "cancel", "mark"}, ledgerCall[c].pc = pc
        PROVE  c \in InService(ledgerCall)
    BY <1>3 DEF InService, Answered
  <1>4. ASSUME NEW c \in Calls, NEW created \in Moments, CommitRing(c, created)
        PROVE  Overview(f)' = Overview(f)
    BY <1>2, <1>3, <1>4 DEF CommitRing
  <1>5. ASSUME NEW c \in Calls, NEW returned \in Moments, NEW cancelled \in Moments,
               CommitCancel(c, returned, cancelled)
        PROVE  Overview(f)' = Overview(f)
    <2>1. c \in InService(ledgerCall)
      BY <1>3, <1>5 DEF CommitCancel
    <2> QED BY <1>2, <1>5, <2>1
  <1>6. ASSUME NEW c \in Calls, MarkReturned(c)
        PROVE  Overview(f)' = Overview(f)
    BY <1>2, <1>3, <1>6 DEF MarkReturned
  <1>7. ASSUME NEW c \in Calls,
               \/ \E s \in Rung, t \in Tickets : RingUp(c, s, t)
               \/ \E s \in Rung, pc \in {"cancel", "mark"} : OpenSaleUpdate(c, s, pc)
               \/ RollBackLedgerCall(c)
        PROVE  ledger' = ledger
    BY <1>7 DEF RingUp, OpenSaleUpdate, RollBackLedgerCall
  <1>8. CASE (\E u \in Leaving : SellerLeaves(u)) \/ TickLedger \/ UNCHANGED ledgerVars
    BY <1>1, <1>8 DEF SellerLeaves, TickLedger, ledgerVars
  <1>9. CASE LedgerNext
    BY <1>1, <1>4, <1>5, <1>6, <1>7, <1>8, <1>9 DEF LedgerNext
  <1> QED BY <1>8, <1>9

\* A cancellation is booked on its own day: whatever interleaves, the overview of a period
\* that is over, and that no request at work began in, stays what it is.
THEOREM ClosedPeriodsStand == LedgerSpec => ClosedPeriodsKeepTheirOverview
  <1>1. ASSUME ChargedInv, [LedgerNext /\ UNCHANGED serving]_<<serving, ledgerVars>>,
               \A s \in Rung : ledger[s].cancelledAt # None => ledger'[s] = ledger[s],
               NEW r \in {x \in Ranges : x.from # None /\ x.to # None},
               \A c \in InService(ledgerCall) : EndOfDay(r.to) < ledgerCall[c].since
        PROVE  Overview(DateFilter(r))' = Overview(DateFilter(r))
    <2>1. PICK f : f = DateFilter(r)
      OBVIOUS
    <2>2. f.lte = EndOfDay(r.to)
      BY <2>1 DEF DateFilter
    <2>3. f.lte \in Int
      <3>1. r.to \in Days
        BY DEF Ranges
      <3>2. r.to \in Nat /\ TicksPerDay \in Nat
        BY <3>1, LedgerAssumption DEF Days, Moments
      <3> QED BY <2>2, <3>2 DEF EndOfDay
    <2>4. [LedgerNext]_ledgerVars
      BY <1>1 DEF ledgerVars
    <2>5. Overview(f)' = Overview(f)
      BY <1>1, <2>2, <2>3, <2>4, ClosedStep
    <2> QED BY <2>1, <2>5
  <1>2. ChargedInv /\ [LedgerNext /\ UNCHANGED serving]_<<serving, ledgerVars>> =>
           [(\A s \in Rung : ledger[s].cancelledAt # None => ledger'[s] = ledger[s]) =>
               \A r \in {x \in Ranges : x.from # None /\ x.to # None} :
                  /\ EndOfDay(r.to) < tick
                  /\ \A c \in InService(ledgerCall) : EndOfDay(r.to) < ledgerCall[c].since
                  => Overview(DateFilter(r))' = Overview(DateFilter(r))]_ledger
    BY <1>1
  <1> QED BY <1>2, ChargedInitInv, ChargedNextInv, PTL
          DEF LedgerSpec, ClosedPeriodsKeepTheirOverview

-----------------------------------------------------------------------------
(* What a ticket comes to *)

\* The sum of a function is that of its values on its domain.
LEMMA SumOverDomain ==
    ASSUME NEW S, IsFiniteSet(S), NEW f, NEW g, g = [x \in S |-> f[x]]
    PROVE  SumFunction(g) = SumFunctionOnSet(f, S)
  <1>1. SumFunction(g) = SumFunctionOnSet(g, S)
    BY DEF SumFunction
  <1>2. \A x \in S : g[x] = f[x]
    OBVIOUS
  <1> QED BY <1>1, <1>2, SumSame

\* The lines of a ticket are products, with whole amounts.
LEMMA LinesAreWhole ==
    ASSUME NEW t \in Tickets
    PROVE  /\ Lines(t) \subseteq Goods /\ IsFiniteSet(Lines(t))
           /\ \A g \in Goods : /\ t.units[g] \in Nat /\ Catalog[g].rate \in Nat /\ Catalog[g].cost \in Nat
                               /\ LineSubtotal(t, g) \in Int
                               /\ g \notin Lines(t) => t.units[g] = 0 /\ LineSubtotal(t, g) = 0
  <1>1. Lines(t) \subseteq Goods /\ IsFiniteSet(Lines(t))
    BY LedgerAssumption, FS_Subset DEF Lines
  <1>2. ASSUME NEW g \in Goods
        PROVE  /\ t.units[g] \in Nat /\ Catalog[g].rate \in Nat /\ Catalog[g].cost \in Nat
               /\ LineSubtotal(t, g) \in Int
               /\ g \notin Lines(t) => t.units[g] = 0 /\ LineSubtotal(t, g) = 0
    <2>1. /\ t.units[g] \in Nat /\ t.off[g] \in Nat /\ (t.units[g] = 0 => t.off[g] = 0)
          /\ Catalog[g].price \in Nat /\ Catalog[g].rate \in Nat /\ Catalog[g].cost \in Nat
      BY LedgerAssumption
    <2>2. LineSubtotal(t, g) = Catalog[g].price * t.units[g] - t.off[g]
      BY DEF LineSubtotal, GrossSubtotal
    <2>3. Catalog[g].price * t.units[g] \in Int
      BY <2>1
    <2>4. LineSubtotal(t, g) \in Int
      BY <2>1, <2>2, <2>3
    <2>5. ASSUME g \notin Lines(t)
          PROVE  t.units[g] = 0 /\ LineSubtotal(t, g) = 0
      <3>1. t.units[g] = 0
        BY <2>1, <2>5 DEF Lines
      <3>2. Catalog[g].price * 0 = 0
        BY <2>1
      <3> QED BY <2>1, <2>2, <3>1, <3>2
    <2> QED BY <2>1, <2>4, <2>5
  <1> QED BY <1>1, <1>2

\* Its lines, its taxes and its payments add up.
LEMMA TicketsAddUp ==
    ASSUME NEW t \in Tickets
    PROVE  /\ Subtotal[t] = SumFunctionOnSet([g \in Goods |-> LineSubtotal(t, g)], Goods)
           /\ Subtotal[t] \in Int /\ TaxAmount[t] \in Int /\ Total[t] \in Int
           /\ Total[t] = Subtotal[t] + TaxAmount[t] - t.discount
           /\ \A g \in Goods : LineTotal(t, g) \in Int
           /\ SumFunctionOnSet([g \in Goods |-> LineTotal(t, g)], Goods) = Total[t] + t.discount
           /\ AmountPaid[t] = SumFunctionOnSet(t.paid, Methods) /\ AmountPaid[t] \in Int
           /\ \A m \in Methods : t.paid[m] \in Int
           /\ t.discount \in Nat
  <1> DEFINE sub == [g \in Goods |-> LineSubtotal(t, g)]
             tax == [g \in Goods |-> LineSubtotal(t, g) * Catalog[g].rate]
             line == [g \in Goods |-> LineTotal(t, g)]
  <1>0. IsFiniteSet(Goods) /\ IsFiniteSet(Methods) /\ t.discount \in Nat /\ t.paid \in [Methods -> Nat]
    BY LedgerAssumption
  <1>1. \A g \in Goods : /\ sub[g] \in Int /\ tax[g] \in Int /\ line[g] \in Int
                         /\ line[g] = sub[g] + 1 * tax[g]
    <2> SUFFICES ASSUME NEW g \in Goods
                 PROVE  /\ sub[g] \in Int /\ tax[g] \in Int /\ line[g] \in Int
                        /\ line[g] = sub[g] + 1 * tax[g]
      OBVIOUS
    <2>1. LineSubtotal(t, g) \in Int /\ Catalog[g].rate \in Nat
      BY LinesAreWhole
    <2>2. /\ sub[g] = LineSubtotal(t, g) /\ tax[g] = LineSubtotal(t, g) * Catalog[g].rate
          /\ line[g] = LineSubtotal(t, g) * (1 + Catalog[g].rate)
      BY DEF LineTotal
    <2> HIDE DEF sub, tax, line
    <2>3. LineSubtotal(t, g) * (1 + Catalog[g].rate)
             = LineSubtotal(t, g) + LineSubtotal(t, g) * Catalog[g].rate
      BY <2>1
    <2>4. tax[g] \in Int
      BY <2>1, <2>2
    <2> QED BY <2>1, <2>2, <2>3, <2>4
  <1>2. \A g \in Goods \ Lines(t) : sub[g] = 0 /\ tax[g] = 0
    <2> SUFFICES ASSUME NEW g \in Goods \ Lines(t)
                 PROVE  sub[g] = 0 /\ tax[g] = 0
      OBVIOUS
    <2>1. LineSubtotal(t, g) = 0 /\ Catalog[g].rate \in Nat
      BY LinesAreWhole
    <2>2. 0 * Catalog[g].rate = 0
      BY <2>1
    <2> QED BY <2>1, <2>2
  <1>3. Lines(t) \subseteq Goods /\ IsFiniteSet(Lines(t))
    BY LinesAreWhole
  <1>4. Subtotal[t] = SumFunctionOnSet(sub, Lines(t))
    <2>1. \A g \in Lines(t) : sub[g] = LineSubtotal(t, g)
      BY <1>3
    <2>2. [g \in Lines(t) |-> LineSubtotal(t, g)] = [g \in Lines(t) |-> sub[g]]
      BY <2>1
    <2>3. Subtotal[t] = SumFunction([g \in Lines(t) |-> LineSubtotal(t, g)])
      BY DEF Subtotal
    <2> HIDE DEF sub
    <2> QED BY <1>3, <2>2, <2>3, SumOverDomain
  <1>5. TaxAmount[t] = SumFunctionOnSet(tax, Lines(t))
    <2>1. \A g \in Lines(t) : tax[g] = LineSubtotal(t, g) * Catalog[g].rate
      BY <1>3
    <2>2. [g \in Lines(t) |-> LineSubtotal(t, g) * Catalog[g].rate] = [g \in Lines(t) |-> tax[g]]
      BY <2>1
    <2>3. TaxAmount[t] = SumFunction([g \in Lines(t) |-> LineSubtotal(t, g) * Catalog[g].rate])
      BY DEF TaxAmount
    <2> HIDE DEF tax
    <2> QED BY <1>3, <2>2, <2>3, SumOverDomain
  <1> HIDE DEF sub, tax, line
  <1>6. Subtotal[t] = SumFunctionOnSet(sub, Goods) /\ TaxAmount[t] = SumFunctionOnSet(tax, Goods)
    <2>1. \A g \in Lines(t) : sub[g] \in Int /\ tax[g] \in Int
      BY <1>1, <1>3
    <2>2. SumFunctionOnSet(sub, Goods) = SumFunctionOnSet(sub, Lines(t))
      BY ONLY <1>0, <1>2, <1>3, <2>1, SumSupport
    <2>3. SumFunctionOnSet(tax, Goods) = SumFunctionOnSet(tax, Lines(t))
      BY ONLY <1>0, <1>2, <1>3, <2>1, SumSupport
    <2> QED BY <1>4, <1>5, <2>2, <2>3
  <1>7. Subtotal[t] \in Int /\ TaxAmount[t] \in Int
    BY <1>0, <1>1, <1>6, SumInt
  <1>8. SumFunctionOnSet(line, Goods) = SumFunctionOnSet(sub, Goods) + 1 * SumFunctionOnSet(tax, Goods)
    BY ONLY <1>0, <1>1, 1 \in Int, SumLinear
  <1>9. Total[t] = Subtotal[t] + TaxAmount[t] - t.discount
    BY DEF Total
  <1>10. AmountPaid[t] = SumFunctionOnSet(t.paid, Methods)
    <2>1. AmountPaid[t] = SumFunction(t.paid) /\ DOMAIN t.paid = Methods
      BY <1>0 DEF AmountPaid
    <2> QED BY <2>1 DEF SumFunction
  <1>11. (\A m \in Methods : t.paid[m] \in Int) /\ AmountPaid[t] \in Int
    <2>1. \A m \in Methods : t.paid[m] \in Int
      BY <1>0
    <2> QED BY <1>0, <1>10, <2>1, SumInt
  <1>12. \A g \in Goods : LineTotal(t, g) \in Int
    BY <1>1 DEF line
  <1>13. /\ SumFunctionOnSet(line, Goods) = Total[t] + t.discount
         /\ Total[t] \in Int
    BY <1>0, <1>6, <1>7, <1>8, <1>9
  <1> QED BY <1>0, <1>6, <1>7, <1>9, <1>10, <1>11, <1>12, <1>13 DEF sub, line

-----------------------------------------------------------------------------
(* The reports of completed sales *)

\* What every sale is charged.
ChargedOf == [s \in Rung |-> Charged(s)]

\* The day every sale is made on.
DayOf == [s \in Rung |-> BogotaDay(ledger[s].createdAt)]

\* Completed sales are charged and dated.
LEMMA CompletedAreCharged ==
    ASSUME ChargedInv, NEW f, NEW s \in CompletedSales(f)
    PROVE  /\ s \in Rung /\ ledger[s].ticket \in Tickets
           /\ Charged(s) = Total[ledger[s].ticket] /\ Charged(s) \in Int
           /\ DayOf[s] \in Days
  <1>1. s \in Rung /\ ledger[s].ticket \in Tickets /\ ledger[s].createdAt # None
    BY DEF CompletedSales, ChargedInv, SalesAreCharged
  <1>2. ledger[s].createdAt \in Moments
    BY <1>1 DEF ChargedInv, LedgerInv, LedgerTypeOK, LedgerRow
  <1>3. DayOf[s] \in Days
    BY <1>1, <1>2 DEF DayOf, BogotaDay, Days
  <1> QED BY <1>1, <1>3, TicketsAddUp DEF Charged

\* There are finitely many completed sales ...
LEMMA CompletedAreFinite ==
    ASSUME NEW f
    PROVE  CompletedSales(f) \subseteq Rung /\ IsFiniteSet(CompletedSales(f))
  BY LedgerAssumption, FS_Subset DEF CompletedSales

\* ... and of days, sellers and categories to cut them by.
LEMMA CutsAreFinite == IsFiniteSet(Days) /\ IsFiniteSet(Sellers) /\ IsFiniteSet(Categories)
  <1>1. IsFiniteSet(Moments)
    BY LedgerAssumption, FS_Interval DEF Moments
  <1>2. IsFiniteSet(Days)
    <2> DEFINE day == [t \in Moments |-> t \div TicksPerDay]
    <2>1. IsFiniteSet({day[t] : t \in Moments})
      <3> HIDE DEF day
      <3> QED BY <1>1, FiniteImage
    <2>2. Days = {day[t] : t \in Moments}
      BY DEF Days
    <2> QED BY <2>1, <2>2
  <1>3. IsFiniteSet(Categories)
    <2> DEFINE category == [g \in Goods |-> Catalog[g].category]
    <2>1. IsFiniteSet({category[g] : g \in Goods})
      <3> HIDE DEF category
      <3> QED BY LedgerAssumption, FiniteImage
    <2>2. Categories = {category[g] : g \in Goods}
      BY DEF Categories
    <2> QED BY <2>1, <2>2
  <1> QED BY <1>2, <1>3, ReportsAssumption

\* What the sales of a set are charged.
LEMMA ChargedSum ==
    ASSUME NEW P \in SUBSET Rung
    PROVE  SumFunction([s \in P |-> Charged(s)]) = SumFunctionOnSet(ChargedOf, P)
  <1>1. [s \in P |-> Charged(s)] = [s \in P |-> ChargedOf[s]] /\ IsFiniteSet(P)
    BY LedgerAssumption, FS_Subset DEF ChargedOf
  <1> QED BY <1>1, SumOverDomain

\* By day, the charges of completed sales add up to the revenue, and so do their counts.
LEMMA DaysAddUp ==
    ASSUME ChargedInv, NEW r, BothGiven(r), NEW f, f = DateFilter(r)
    PROVE  /\ SumFunction([d \in Days |-> DailySales(r)[d].total]) = Revenue(f)
           /\ SumFunction([d \in Days |-> DailySales(r)[d].count]) = Cardinality(CompletedSales(f))
  <1> DEFINE S == CompletedSales(f)
             on == [d \in Days |-> {s \in S : DayOf[s] = d}]
             totals == [d \in Days |-> DailySales(r)[d].total]
             counts == [d \in Days |-> DailySales(r)[d].count]
             ones == [s \in S |-> 1]
  <1>1. /\ S \subseteq Rung /\ IsFiniteSet(S) /\ IsFiniteSet(Days)
        /\ \A s \in S : DayOf[s] \in Days /\ ChargedOf[s] \in Int
    BY CompletedAreFinite, CutsAreFinite, CompletedAreCharged DEF ChargedOf
  <1>2. \A d \in Days : SalesOn(d, f) = on[d]
    BY <1>1 DEF DayOf, SalesOn
  <1>3. \A d \in Days : totals[d] = SumFunctionOnSet(ChargedOf, on[d])
    <2> SUFFICES ASSUME NEW d \in Days
                 PROVE  totals[d] = SumFunctionOnSet(ChargedOf, on[d])
      OBVIOUS
    <2>1. totals[d] = SumFunction([s \in on[d] |-> Charged(s)])
      BY <1>2 DEF DailySales
    <2>2. on[d] \in SUBSET Rung
      BY <1>1
    <2> HIDE DEF on
    <2> QED BY <2>1, <2>2, ChargedSum
  <1>4. \A d \in Days : counts[d] = SumFunctionOnSet(ones, on[d])
    <2> SUFFICES ASSUME NEW d \in Days
                 PROVE  counts[d] = SumFunctionOnSet(ones, on[d])
      OBVIOUS
    <2>1. counts[d] = Cardinality(on[d])
      BY <1>2 DEF DailySales
    <2>2. IsFiniteSet(on[d]) /\ \A s \in on[d] : ones[s] = 1
      BY <1>1, FS_Subset
    <2> HIDE DEF on, ones
    <2> QED BY <2>1, <2>2, SumOnes
  <1>5. SumFunctionOnSet(totals, Days) = SumFunctionOnSet(ChargedOf, S)
    <2>1. \A d \in Days : \A s : s \in on[d] <=> s \in S /\ DayOf[s] = d
      OBVIOUS
    <2> HIDE DEF totals, on, S
    <2> QED BY ONLY <1>1, <1>3, <2>1, SumByKey
  <1>6. SumFunctionOnSet(counts, Days) = SumFunctionOnSet(ones, S)
    <2>1. \A s \in S : DayOf[s] \in Days /\ ones[s] \in Int
      BY <1>1
    <2>2. \A d \in Days : \A s : s \in on[d] <=> s \in S /\ DayOf[s] = d
      OBVIOUS
    <2>3. IsFiniteSet(S) /\ IsFiniteSet(Days)
      BY <1>1
    <2> HIDE DEF counts, ones, on, S
    <2> QED BY ONLY <1>4, <2>1, <2>2, <2>3, SumByKey
  <1>7. SumFunctionOnSet(ones, S) = Cardinality(S)
    <2>1. \A s \in S : ones[s] = 1
      OBVIOUS
    <2> HIDE DEF ones, S
    <2> QED BY <1>1, <2>1, SumOnes
  <1>8. /\ SumFunction(totals) = SumFunctionOnSet(totals, Days)
        /\ SumFunction(counts) = SumFunctionOnSet(counts, Days)
    BY DEF SumFunction
  <1>9. Revenue(f) = SumFunctionOnSet(ChargedOf, S)
    BY <1>1, ChargedSum DEF Revenue
  <1> QED BY <1>5, <1>6, <1>7, <1>8, <1>9

\* By user, compared or not, but for the sales whose user was deleted.
LEMMA UsersAddUp ==
    ASSUME ChargedInv, NEW r, NEW compare \in BOOLEAN, NEW p, p = UserPeriod(r, compare),
           NEW N, N = {s \in CompletedSales(p) : UserOf(s) = None}
    PROVE  SumFunction([u \in Sellers |-> UserRevenue(u, r, compare)])
              = Revenue(p) - SumFunction([s \in N |-> Charged(s)])
  <1> DEFINE S == CompletedSales(p)
             U == S \ N
             user == [s \in S |-> UserOf(s)]
             by == [u \in Sellers |-> SoldBy(u, r, compare)]
             totals == [u \in Sellers |-> UserRevenue(u, r, compare)]
  <1>1. /\ S \subseteq Rung /\ IsFiniteSet(S) /\ IsFiniteSet(Sellers)
        /\ \A s \in S : ledger[s].ticket.seller \in Sellers /\ ChargedOf[s] \in Int
    BY CompletedAreFinite, CutsAreFinite, CompletedAreCharged DEF ChargedOf, Sellers
  <1>2. /\ N \subseteq S /\ IsFiniteSet(N) /\ IsFiniteSet(U)
        /\ S = U \cup N /\ U \cap N = {}
    BY <1>1, FS_Subset
  <1>3. \A s \in U : user[s] \in Sellers /\ ChargedOf[s] \in Int
    BY <1>1 DEF UserOf
  <1>4. \A u \in Sellers : totals[u] = SumFunctionOnSet(ChargedOf, by[u])
    <2> SUFFICES ASSUME NEW u \in Sellers
                 PROVE  totals[u] = SumFunctionOnSet(ChargedOf, by[u])
      OBVIOUS
    <2>1. totals[u] = SumFunction([s \in by[u] |-> Charged(s)])
      BY DEF UserRevenue
    <2>2. by[u] \in SUBSET Rung
      BY <1>1 DEF SoldBy
    <2> HIDE DEF by
    <2> QED BY <2>1, <2>2, ChargedSum
  <1>5. SumFunctionOnSet(totals, Sellers) = SumFunctionOnSet(ChargedOf, U)
    <2>1. \A u \in Sellers : \A s : s \in by[u] <=> s \in U /\ user[s] = u
      BY ReportsAssumption DEF SoldBy
    <2>2. IsFiniteSet(U) /\ IsFiniteSet(Sellers)
      BY <1>1, <1>2
    <2> HIDE DEF totals, user, by, S, U
    <2> QED BY ONLY <1>3, <1>4, <2>1, <2>2, SumByKey
  <1>6. SumFunctionOnSet(ChargedOf, S) = SumFunctionOnSet(ChargedOf, U) + SumFunctionOnSet(ChargedOf, N)
    <2>1. \A s \in U \cup N : ChargedOf[s] \in Int
      BY <1>1, <1>2
    <2> HIDE DEF S, U
    <2> QED BY ONLY <1>2, <2>1, SumUnion
  <1>7. SumFunctionOnSet(ChargedOf, U) \in Int /\ SumFunctionOnSet(ChargedOf, N) \in Int
    BY <1>1, <1>2, SumInt
  <1>8. SumFunction(totals) = SumFunctionOnSet(totals, Sellers)
    BY DEF SumFunction
  <1>9. Revenue(p) = SumFunctionOnSet(ChargedOf, S)
    BY <1>1, ChargedSum DEF Revenue
  <1>10. SumFunction([s \in N |-> Charged(s)]) = SumFunctionOnSet(ChargedOf, N)
    BY <1>1, <1>2, ChargedSum
  <1> HIDE DEF S, U, totals
  <1>11. SumFunctionOnSet(totals, Sellers) = Revenue(p) - SumFunctionOnSet(ChargedOf, N)
    BY ONLY <1>5, <1>6, <1>7, <1>9
  <1> QED BY <1>8, <1>10, <1>11 DEF totals

\* What every sale charges for a product.
LinesOf(g) == [s \in Rung |-> LineTotal(ledger[s].ticket, g)]

\* What the sales of a set charge for a product.
LEMMA ProductSum ==
    ASSUME NEW P \in SUBSET Rung, NEW g
    PROVE  ProductTotal(g, P) = SumFunctionOnSet(LinesOf(g), P)
  <1>1. [s \in P |-> LineTotal(ledger[s].ticket, g)] = [s \in P |-> LinesOf(g)[s]] /\ IsFiniteSet(P)
    BY LedgerAssumption, FS_Subset DEF LinesOf
  <1> QED BY <1>1, SumOverDomain DEF ProductTotal

\* By category, before the discounts on whole sales.
LEMMA CategoriesAddUp ==
    ASSUME ChargedInv, NEW f
    PROVE  SumFunction([k \in Categories |-> CategorySales(k, f)])
              = Revenue(f) + SumFunction([s \in CompletedSales(f) |-> ledger[s].ticket.discount])
  <1> DEFINE S == CompletedSales(f)
             products == [g \in Goods |-> ProductTotal(g, S)]
             category == [g \in Goods |-> Catalog[g].category]
             goods == [k \in Categories |-> InCategory(k)]
             totals == [k \in Categories |-> CategorySales(k, f)]
             lines == [s \in S |-> [g \in Goods |-> LineTotal(ledger[s].ticket, g)]]
             sold == [g \in Goods |-> LinesOf(g)]
             discount == [s \in S |-> ledger[s].ticket.discount]
             gross == [s \in S |-> ChargedOf[s] + 1 * discount[s]]
  <1>1. /\ S \subseteq Rung /\ IsFiniteSet(S) /\ IsFiniteSet(Categories) /\ IsFiniteSet(Goods)
        /\ \A s \in S : ledger[s].ticket \in Tickets
        /\ \A s \in S : ChargedOf[s] \in Int /\ ChargedOf[s] = Total[ledger[s].ticket]
    BY CompletedAreFinite, CutsAreFinite, CompletedAreCharged, LedgerAssumption DEF ChargedOf
  <1>2. \A g \in Goods : products[g] = SumFunctionOnSet(LinesOf(g), S)
    BY <1>1, ProductSum
  <1>3. \A s \in S, g \in Goods : lines[s][g] \in Int /\ sold[g][s] = lines[s][g]
    BY <1>1, TicketsAddUp DEF LinesOf
  <1>4. \A s \in S : discount[s] \in Int /\ gross[s] = SumFunctionOnSet(lines[s], Goods)
    <2> SUFFICES ASSUME NEW s \in S
                 PROVE  discount[s] \in Int /\ gross[s] = SumFunctionOnSet(lines[s], Goods)
      OBVIOUS
    <2>1. PICK t \in Tickets : t = ledger[s].ticket
      BY <1>1
    <2>2. /\ SumFunctionOnSet([g \in Goods |-> LineTotal(t, g)], Goods) = Total[t] + t.discount
          /\ t.discount \in Nat /\ Total[t] \in Int
      BY TicketsAddUp
    <2>3. lines[s] = [g \in Goods |-> LineTotal(t, g)]
      BY <2>1
    <2>4. discount[s] = t.discount /\ gross[s] = ChargedOf[s] + 1 * discount[s]
      BY <2>1
    <2>5. ChargedOf[s] = Total[t]
      BY <1>1, <2>1
    <2> HIDE DEF lines, discount, gross
    <2> QED BY <2>2, <2>3, <2>4, <2>5
  <1>5. \A g \in Goods : products[g] \in Int
    <2> SUFFICES ASSUME NEW g \in Goods
                 PROVE  products[g] \in Int
      OBVIOUS
    <2>1. \A s \in S : LinesOf(g)[s] \in Int
      BY <1>3
    <2>2. SumFunctionOnSet(LinesOf(g), S) \in Int
      <3> HIDE DEF S
      <3> QED BY <1>1, <2>1, SumInt
    <2> QED BY <1>2, <2>2
  <1>6. SumFunctionOnSet(gross, S) = SumFunctionOnSet(products, Goods)
    <2>1. \A g \in Goods : products[g] = SumFunctionOnSet(sold[g], S)
      BY <1>2
    <2>2. \A s \in S : gross[s] = SumFunctionOnSet(lines[s], Goods)
      BY <1>4
    <2>3. IsFiniteSet(S) /\ IsFiniteSet(Goods)
      BY <1>1
    <2> HIDE DEF S, products, lines, sold, gross
    <2>4. IsTable(S, Goods, lines, sold, gross, products)
      BY <1>3, <2>1, <2>2 DEF IsTable
    <2> QED BY ONLY <2>3, <2>4, SumSwap
  <1>7. SumFunctionOnSet(gross, S) = SumFunctionOnSet(ChargedOf, S) + 1 * SumFunctionOnSet(discount, S)
    <2>1. \A s \in S : ChargedOf[s] \in Int /\ discount[s] \in Int /\ gross[s] = ChargedOf[s] + 1 * discount[s]
      BY <1>1, <1>4
    <2> HIDE DEF S, gross, discount
    <2> QED BY ONLY <1>1, <2>1, 1 \in Int, SumLinear
  <1>8. SumFunctionOnSet(totals, Categories) = SumFunctionOnSet(products, Goods)
    <2>1. \A g \in Goods : category[g] \in Categories /\ products[g] \in Int
      BY <1>5 DEF Categories
    <2>2. \A k \in Categories : \A g : g \in goods[k] <=> g \in Goods /\ category[g] = k
      BY DEF InCategory
    <2>3. \A k \in Categories : totals[k] = SumFunctionOnSet(products, goods[k])
      <3> SUFFICES ASSUME NEW k \in Categories
                   PROVE  totals[k] = SumFunctionOnSet(products, goods[k])
        OBVIOUS
      <3>1. totals[k] = SumFunction([g \in goods[k] |-> ProductTotal(g, S)])
        BY DEF CategorySales
      <3>2. goods[k] \subseteq Goods
        BY DEF InCategory
      <3>3. IsFiniteSet(goods[k])
        BY <1>1, <3>2, FS_Subset
      <3>4. [g \in goods[k] |-> ProductTotal(g, S)] = [g \in goods[k] |-> products[g]]
        BY <3>2
      <3> HIDE DEF totals, goods, products
      <3> QED BY <3>1, <3>3, <3>4, SumOverDomain
    <2>4. IsFiniteSet(Categories) /\ IsFiniteSet(Goods)
      BY <1>1
    <2> HIDE DEF totals, goods, products, category
    <2> QED BY ONLY <2>1, <2>2, <2>3, <2>4, SumByKey
  <1>9. /\ SumFunction(totals) = SumFunctionOnSet(totals, Categories)
        /\ SumFunction(discount) = SumFunctionOnSet(discount, S)
    BY DEF SumFunction
  <1>10. Revenue(f) = SumFunctionOnSet(ChargedOf, S)
    BY <1>1, ChargedSum DEF Revenue
  <1>11. SumFunctionOnSet(discount, S) \in Int
    <2>1. \A s \in S : discount[s] \in Int
      BY <1>4
    <2> HIDE DEF discount, S
    <2> QED BY <1>1, <2>1, SumInt
  <1>12. 1 * SumFunctionOnSet(discount, S) = SumFunctionOnSet(discount, S)
    BY <1>11
  <1>13. SumFunctionOnSet(totals, Categories) = SumFunctionOnSet(ChargedOf, S) + SumFunctionOnSet(discount, S)
    BY <1>6, <1>7, <1>8, <1>12
  <1> QED BY <1>9, <1>10, <1>13

\* By method, with what was paid beyond the total.
LEMMA MethodsAddUp ==
    ASSUME ChargedInv, NEW f
    PROVE  SumFunction([m \in Methods |-> PaymentsOfSales(m, f)])
              = Revenue(f) + SumFunction([s \in CompletedSales(f) |->
                                            AmountPaid[ledger[s].ticket] - Charged(s)])
  <1> DEFINE S == CompletedSales(f)
             totals == [m \in Methods |-> PaymentsOfSales(m, f)]
             paid == [s \in S |-> ledger[s].ticket.paid]
             by == [m \in Methods |-> [s \in S |-> ledger[s].ticket.paid[m]]]
             all == [s \in S |-> AmountPaid[ledger[s].ticket]]
             change == [s \in S |-> AmountPaid[ledger[s].ticket] - Charged(s)]
  <1>1. /\ S \subseteq Rung /\ IsFiniteSet(S) /\ IsFiniteSet(Methods)
        /\ \A s \in S : ledger[s].ticket \in Tickets
        /\ \A s \in S : ChargedOf[s] \in Int /\ ChargedOf[s] = Charged(s)
    BY CompletedAreFinite, CompletedAreCharged, LedgerAssumption DEF ChargedOf
  <1>2. \A s \in S, m \in Methods : paid[s][m] \in Int /\ by[m][s] = paid[s][m]
    BY <1>1, TicketsAddUp
  <1>3. \A s \in S : all[s] = SumFunctionOnSet(paid[s], Methods) /\ all[s] \in Int
    BY <1>1, TicketsAddUp
  <1>4. \A m \in Methods : totals[m] = SumFunctionOnSet(by[m], S)
    <2> SUFFICES ASSUME NEW m \in Methods
                 PROVE  totals[m] = SumFunctionOnSet(by[m], S)
      OBVIOUS
    <2>1. totals[m] = SumFunction(by[m]) /\ DOMAIN by[m] = S
      BY DEF PaymentsOfSales, PaidBy
    <2> HIDE DEF by, totals, S
    <2> QED BY <2>1 DEF SumFunction
  <1>5. SumFunctionOnSet(all, S) = SumFunctionOnSet(totals, Methods)
    <2>1. IsFiniteSet(S) /\ IsFiniteSet(Methods)
      BY <1>1
    <2>2. \A s \in S : all[s] = SumFunctionOnSet(paid[s], Methods)
      BY <1>3
    <2> HIDE DEF S, all, paid, by, totals
    <2>3. IsTable(S, Methods, paid, by, all, totals)
      BY <1>2, <1>4, <2>2 DEF IsTable
    <2> QED BY ONLY <2>1, <2>3, SumSwap
  <1>6. \A s \in S : /\ ChargedOf[s] \in Int /\ change[s] \in Int
                     /\ all[s] = ChargedOf[s] + 1 * change[s]
    <2> SUFFICES ASSUME NEW s \in S
                 PROVE  change[s] \in Int /\ all[s] = ChargedOf[s] + 1 * change[s]
      BY <1>1
    <2>1. change[s] = all[s] - ChargedOf[s]
      BY <1>1
    <2>2. all[s] \in Int /\ ChargedOf[s] \in Int
      BY <1>1, <1>3
    <2> HIDE DEF all, change
    <2> QED BY <2>1, <2>2
  <1>7. SumFunctionOnSet(all, S) = SumFunctionOnSet(ChargedOf, S) + 1 * SumFunctionOnSet(change, S)
    <2>1. IsFiniteSet(S)
      BY <1>1
    <2> HIDE DEF S, all, change
    <2> QED BY ONLY <1>6, <2>1, 1 \in Int, SumLinear
  <1>8. SumFunctionOnSet(change, S) \in Int
    <2>1. \A s \in S : change[s] \in Int
      BY <1>6
    <2> HIDE DEF change, S
    <2> QED BY <1>1, <2>1, SumInt
  <1>9. /\ SumFunction(totals) = SumFunctionOnSet(totals, Methods)
        /\ SumFunction(change) = SumFunctionOnSet(change, S)
    BY DEF SumFunction
  <1>10. Revenue(f) = SumFunctionOnSet(ChargedOf, S)
    BY <1>1, ChargedSum DEF Revenue
  <1>11. 1 * SumFunctionOnSet(change, S) = SumFunctionOnSet(change, S)
    BY <1>8
  <1>12. SumFunctionOnSet(totals, Methods) = SumFunctionOnSet(ChargedOf, S) + SumFunctionOnSet(change, S)
    BY <1>5, <1>7, <1>11
  <1> QED BY <1>9, <1>10, <1>12

\* By category and day.
LEMMA CategoryDaysAddUp ==
    ASSUME ChargedInv, NEW f, NEW k
    PROVE  SumFunction([d \in Days |-> CategorySalesOn(k, d, f)]) = CategorySales(k, f)
  <1> DEFINE S == CompletedSales(f)
             on == [d \in Days |-> {s \in S : DayOf[s] = d}]
             G == InCategory(k)
             totals == [d \in Days |-> CategorySalesOn(k, d, f)]
             products == [g \in G |-> ProductTotal(g, S)]
             daily == [d \in Days |-> [g \in G |-> ProductTotal(g, on[d])]]
             each == [g \in G |-> [d \in Days |-> ProductTotal(g, on[d])]]
  <1>1. /\ S \subseteq Rung /\ IsFiniteSet(S) /\ IsFiniteSet(Days) /\ IsFiniteSet(G) /\ G \subseteq Goods
        /\ \A s \in S : DayOf[s] \in Days /\ ledger[s].ticket \in Tickets
    <2>1. G \subseteq Goods
      BY DEF InCategory
    <2>2. IsFiniteSet(G)
      <3> HIDE DEF G
      <3> QED BY <2>1, LedgerAssumption, FS_Subset
    <2> QED BY <2>1, <2>2, CompletedAreFinite, CutsAreFinite, CompletedAreCharged
  <1>2. \A d \in Days : on[d] \in SUBSET S /\ \A s : s \in on[d] <=> s \in S /\ DayOf[s] = d
    OBVIOUS
  <1>3. \A g \in G : \A s \in S : LinesOf(g)[s] \in Int
    BY <1>1, TicketsAddUp DEF LinesOf
  <1>4. \A d \in Days : SalesOn(d, f) = on[d]
    BY <1>1 DEF DayOf, SalesOn
  <1>5. \A d \in Days : totals[d] = SumFunctionOnSet(daily[d], G)
    <2> SUFFICES ASSUME NEW d \in Days
                 PROVE  totals[d] = SumFunctionOnSet(daily[d], G)
      OBVIOUS
    <2>1. totals[d] = SumFunction([g \in G |-> ProductTotal(g, on[d])])
      BY <1>4 DEF CategorySalesOn
    <2>2. daily[d] = [g \in G |-> ProductTotal(g, on[d])] /\ DOMAIN daily[d] = G
      OBVIOUS
    <2> HIDE DEF totals, daily, G, on
    <2> QED BY <2>1, <2>2 DEF SumFunction
  <1>6. \A g \in G, d \in Days : ProductTotal(g, on[d]) \in Int
    <2> SUFFICES ASSUME NEW g \in G, NEW d \in Days
                 PROVE  ProductTotal(g, on[d]) \in Int
      OBVIOUS
    <2>1. on[d] \in SUBSET Rung /\ IsFiniteSet(on[d]) /\ \A s \in on[d] : LinesOf(g)[s] \in Int
      <3>1. on[d] \in SUBSET S
        BY <1>2
      <3> HIDE DEF on, S, G
      <3> QED BY <1>1, <1>3, <3>1, FS_Subset
    <2> HIDE DEF on, G
    <2>2. ProductTotal(g, on[d]) = SumFunctionOnSet(LinesOf(g), on[d])
      BY <2>1, ProductSum
    <2>3. SumFunctionOnSet(LinesOf(g), on[d]) \in Int
      BY ONLY <2>1, SumInt
    <2> QED BY <2>2, <2>3
  <1>7. \A g \in G : products[g] = SumFunctionOnSet(each[g], Days)
    <2> SUFFICES ASSUME NEW g \in G
                 PROVE  products[g] = SumFunctionOnSet(each[g], Days)
      OBVIOUS
    <2>1. products[g] = SumFunctionOnSet(LinesOf(g), S)
      BY <1>1, ProductSum
    <2>2. \A d \in Days : each[g][d] = SumFunctionOnSet(LinesOf(g), on[d])
      <3> SUFFICES ASSUME NEW d \in Days
                   PROVE  each[g][d] = SumFunctionOnSet(LinesOf(g), on[d])
        OBVIOUS
      <3>1. each[g][d] = ProductTotal(g, on[d])
        OBVIOUS
      <3>2. on[d] \in SUBSET Rung
        BY <1>1
      <3> HIDE DEF each, on, G
      <3> QED BY <3>1, <3>2, ProductSum
    <2>3. PICK total : total = each[g]
      OBVIOUS
    <2>4. PICK value : value = LinesOf(g)
      OBVIOUS
    <2>5. \A s \in S : DayOf[s] \in Days /\ value[s] \in Int
      BY <1>1, <1>3, <2>4
    <2>6. \A d \in Days : total[d] = SumFunctionOnSet(value, on[d])
      <3> HIDE DEF each, on, G
      <3> QED BY <2>2, <2>3, <2>4
    <2>7. \A d \in Days : \A s : s \in on[d] <=> s \in S /\ DayOf[s] = d
      BY <1>2
    <2>8. IsFiniteSet(S) /\ IsFiniteSet(Days)
      BY <1>1
    <2>9. SumFunctionOnSet(total, Days) = SumFunctionOnSet(value, S)
      <3> HIDE DEF on, S
      <3> QED BY ONLY <2>5, <2>6, <2>7, <2>8, SumByKey
    <2> HIDE DEF products, each, S
    <2> QED BY <2>1, <2>3, <2>4, <2>9
  <1>8. SumFunctionOnSet(totals, Days) = SumFunctionOnSet(products, G)
    <2>1. \A d \in Days, g \in G : daily[d][g] \in Int /\ each[g][d] = daily[d][g]
      BY <1>6
    <2>2. IsFiniteSet(Days) /\ IsFiniteSet(G)
      BY <1>1
    <2> HIDE DEF totals, products, daily, each, G
    <2>3. IsTable(Days, G, daily, each, totals, products)
      BY <1>5, <1>7, <2>1 DEF IsTable
    <2> QED BY ONLY <2>2, <2>3, SumSwap
  <1>9. /\ SumFunction(totals) = SumFunctionOnSet(totals, Days)
        /\ CategorySales(k, f) = SumFunctionOnSet(products, G)
    BY DEF SumFunction, CategorySales
  <1> QED BY <1>8, <1>9

\* Every cut of the completed sales adds up to the same money.
LEMMA CutsDoAddUp ==
    ASSUME ChargedInv, NEW r
    PROVE  CutsAddUp(r)
  <1> DEFINE f == DateFilter(r)
  <1>1. BothGiven(r) =>
          /\ SumFunction([d \in Days |-> DailySales(r)[d].total]) = Revenue(f)
          /\ SumFunction([d \in Days |-> DailySales(r)[d].count]) = Cardinality(CompletedSales(f))
    BY DaysAddUp
  <1>2. ASSUME NEW compare \in BOOLEAN
        PROVE  LET period == UserPeriod(r, compare)
                   nobodys == {s \in CompletedSales(period) : UserOf(s) = None} IN
               SumFunction([u \in Sellers |-> UserRevenue(u, r, compare)])
                   = Revenue(period) - SumFunction([s \in nobodys |-> Charged(s)])
    BY UsersAddUp
  <1> QED BY <1>1, <1>2, CategoriesAddUp, CategoryDaysAddUp, MethodsAddUp DEF CutsAddUp

-----------------------------------------------------------------------------
(* The financial overview *)

\* A product divided by one of its factors.
LEMMA DivExact ==
    ASSUME NEW a \in Int, NEW b \in Nat, b > 0
    PROVE  (a * b) \div b = a
  OBVIOUS

\* What an amount divided without a rest comes to.
LEMMA DivWhole ==
    ASSUME NEW a \in Int, NEW b \in Nat, b > 0, a % b = 0
    PROVE  a \div b \in Int /\ b * (a \div b) = a
  OBVIOUS

\* For all of its units, the share of a ticket is its subtotal, and its part of an amount
\* the amount.
LEMMA WholeShares ==
    ASSUME NEW t \in Tickets, Subtotal[t] \in Nat
    PROVE  /\ ShareOf(t, t.units) = Subtotal[t]
           /\ \A a \in Int : Prorated(a, t, t.units) = a
  <1>1. ASSUME NEW g \in Lines(t)
        PROVE  (LineSubtotal(t, g) * t.units[g]) \div t.units[g] = LineSubtotal(t, g)
    <2>1. LineSubtotal(t, g) \in Int /\ t.units[g] \in Nat /\ t.units[g] > 0
      BY LinesAreWhole DEF Lines
    <2> QED BY ONLY <2>1, DivExact
  <1>2. ShareOf(t, t.units) = Subtotal[t]
    BY <1>1 DEF ShareOf, Subtotal
  <1>3. ASSUME NEW a \in Int
        PROVE  Prorated(a, t, t.units) = a
    <2>1. CASE Subtotal[t] = 0
      BY <2>1 DEF Prorated
    <2>2. CASE Subtotal[t] # 0
      <3>1. Subtotal[t] \in Nat /\ Subtotal[t] > 0
        BY <2>2
      <3>2. (a * Subtotal[t]) \div Subtotal[t] = a
        BY ONLY <3>1, a \in Int, DivExact
      <3> QED BY <1>2, <2>2, <3>2 DEF Prorated
    <2> QED BY <2>1, <2>2
  <1> QED BY <1>2, <1>3

\* No line that is charged is discounted below nothing, and a ticket that comes to nothing
\* before taxes has no discount.
LEMMA ChargedLines ==
    ASSUME NEW t \in Tickets, Chargeable(t)
    PROVE  /\ \A g \in Goods : LineSubtotal(t, g) \in Nat
           /\ Subtotal[t] \in Nat
           /\ Subtotal[t] = 0 => t.discount = 0 /\ \A g \in Goods : LineSubtotal(t, g) = 0
  <1> DEFINE sub == [g \in Goods |-> LineSubtotal(t, g)]
  <1>1. ASSUME NEW g \in Goods
        PROVE  LineSubtotal(t, g) \in Nat
    <2>1. LineSubtotal(t, g) \in Int /\ (g \notin Lines(t) => LineSubtotal(t, g) = 0)
      BY LinesAreWhole
    <2>2. ASSUME g \in Lines(t)
          PROVE  LineSubtotal(t, g) >= 0
      <3>1. t.off[g] <= GrossSubtotal(t, g)
        BY <2>2 DEF Chargeable
      <3>2. t.off[g] \in Nat /\ t.units[g] \in Nat /\ Catalog[g].price \in Nat
        BY LedgerAssumption
      <3>3. GrossSubtotal(t, g) \in Int
        BY ONLY <3>2 DEF GrossSubtotal
      <3> QED BY ONLY <3>1, <3>2, <3>3 DEF LineSubtotal
    <2> QED BY <2>1, <2>2
  <1>2. IsFiniteSet(Goods) /\ \A g \in Goods : sub[g] \in Nat
    BY <1>1, LedgerAssumption
  <1>3. /\ Subtotal[t] = SumFunctionOnSet(sub, Goods)
        /\ Total[t] = Subtotal[t] + TaxAmount[t] - t.discount
        /\ t.discount \in Nat
    BY TicketsAddUp
  <1>4. Subtotal[t] \in Nat /\ \A g \in Goods : sub[g] <= Subtotal[t]
    <2> HIDE DEF sub
    <2> QED BY <1>2, <1>3, SumPositive
  <1>5. ASSUME Subtotal[t] = 0
        PROVE  t.discount = 0 /\ \A g \in Goods : LineSubtotal(t, g) = 0
    <2>1. \A g \in Goods : LineSubtotal(t, g) = 0
      BY <1>1, <1>4, <1>5
    <2>2. TaxAmount[t] = 0
      <3> DEFINE tax == [g \in Lines(t) |-> LineSubtotal(t, g) * Catalog[g].rate]
      <3>1. \A g \in Lines(t) : tax[g] = 0
        <4> SUFFICES ASSUME NEW g \in Lines(t)
                     PROVE  tax[g] = 0
          OBVIOUS
        <4>1. LineSubtotal(t, g) = 0 /\ Catalog[g].rate \in Nat
          BY <2>1, LinesAreWhole
        <4> QED BY <4>1
      <3>2. TaxAmount[t] = SumFunctionOnSet(tax, Lines(t))
        BY DEF TaxAmount, SumFunction
      <3>3. IsFiniteSet(Lines(t))
        BY LinesAreWhole
      <3> HIDE DEF tax
      <3> QED BY <3>1, <3>2, <3>3, SumZero
    <2>3. Total[t] >= 0
      BY DEF Chargeable
    <2>4. t.discount = 0
      BY ONLY <1>3, <1>5, <2>2, <2>3
    <2> QED BY <2>1, <2>4
  <1> QED BY <1>1, <1>4, <1>5

\* What a ticket brings in before taxes ...
Net(t) == Subtotal[t] - t.discount

\* ... and what a line of it does.
NetLine(t, g) ==
    IF Subtotal[t] = 0 THEN LineSubtotal(t, g)
    ELSE LineSubtotal(t, g) - (t.discount * LineSubtotal(t, g)) \div Subtotal[t]

\* The lines bring in what the ticket does.
LEMMA NetLinesAddUp ==
    ASSUME NEW t \in Tickets, Chargeable(t)
    PROVE  /\ \A g \in Goods : NetLine(t, g) \in Int
           /\ SumFunctionOnSet([g \in Goods |-> NetLine(t, g)], Goods) = Net(t)
  <1> DEFINE sub == [g \in Goods |-> LineSubtotal(t, g)]
             net == [g \in Goods |-> NetLine(t, g)]
             part == [g \in Goods |-> (t.discount * LineSubtotal(t, g)) \div Subtotal[t]]
             zero == [g \in Goods |-> 0]
  <1>1. /\ Subtotal[t] = SumFunctionOnSet(sub, Goods)
        /\ t.discount \in Nat /\ Subtotal[t] \in Nat
        /\ \A g \in Goods : sub[g] \in Nat
        /\ IsFiniteSet(Goods)
    BY TicketsAddUp, ChargedLines, LedgerAssumption
  <1>2. CASE Subtotal[t] = 0
    <2>1. t.discount = 0 /\ \A g \in Goods : NetLine(t, g) = 0
      BY <1>2, ChargedLines DEF NetLine
    <2>2. \A g \in Goods : net[g] = 0
      BY <2>1
    <2>3. Net(t) = 0
      BY <1>2, <2>1 DEF Net
    <2>4. SumFunctionOnSet(net, Goods) = 0
      <3> HIDE DEF net
      <3> QED BY <1>1, <2>2, SumZero
    <2> QED BY <2>1, <2>3, <2>4
  <1>3. CASE Subtotal[t] # 0
    <2>1. PICK whole : whole = Subtotal[t]
      OBVIOUS
    <2>2. PICK off : off = t.discount
      OBVIOUS
    <2>3. whole \in Nat /\ whole > 0 /\ whole \in Int /\ off \in Nat /\ off \in Int /\ 0 \in Int /\ -1 \in Int
      BY <1>1, <1>3, <2>1, <2>2
    <2>4. ASSUME NEW g \in Goods
          PROVE  /\ part[g] \in Int /\ whole * part[g] = off * sub[g]
                 /\ net[g] = sub[g] + (-1) * part[g] /\ net[g] \in Int
                 /\ net[g] = NetLine(t, g) /\ sub[g] \in Int
      <3>1. PICK line : line = LineSubtotal(t, g)
        OBVIOUS
      <3>2. line \in Int /\ (off * line) % whole = 0
        BY <1>1, <2>1, <2>2, <2>3, <3>1, ReportsAssumption DEF SharesAreWhole
      <3>3. off * line \in Int
        BY ONLY <2>3, <3>2
      <3>4. (off * line) \div whole \in Int /\ whole * ((off * line) \div whole) = off * line
        BY ONLY <2>3, <3>2, <3>3, DivWhole
      <3>5. part[g] = (off * line) \div whole /\ sub[g] = line /\ net[g] = NetLine(t, g)
        BY <2>1, <2>2, <3>1
      <3>6. NetLine(t, g) = line - (off * line) \div whole
        BY <1>3, <2>1, <2>2, <3>1 DEF NetLine
      <3> HIDE DEF part, sub, net
      <3>7. part[g] \in Int /\ whole * part[g] = off * sub[g] /\ sub[g] \in Int
        BY <3>2, <3>4, <3>5
      <3>8. net[g] = line - part[g]
        BY <3>5, <3>6
      <3> QED BY ONLY <3>2, <3>5, <3>7, <3>8
    <2> HIDE DEF part, sub, net
    <2>5. \A g \in Goods : part[g] \in Int /\ sub[g] \in Int /\ net[g] = sub[g] + (-1) * part[g]
      BY <2>4
    <2>6. SumFunctionOnSet(net, Goods)
             = SumFunctionOnSet(sub, Goods) + (-1) * SumFunctionOnSet(part, Goods)
      BY ONLY <1>1, <2>3, <2>5, SumLinear
    <2>7. whole * SumFunctionOnSet(part, Goods) = off * SumFunctionOnSet(sub, Goods)
      <3> DEFINE scaled == [g \in Goods |-> off * sub[g]]
      <3>1. \A g \in Goods : /\ zero[g] = 0 /\ scaled[g] = zero[g] + off * sub[g]
                             /\ scaled[g] = zero[g] + whole * part[g]
        <4> SUFFICES ASSUME NEW g \in Goods
                     PROVE  /\ zero[g] = 0 /\ scaled[g] = zero[g] + off * sub[g]
                            /\ scaled[g] = zero[g] + whole * part[g]
          OBVIOUS
        <4>1. zero[g] = 0 /\ scaled[g] = off * sub[g] /\ whole * part[g] = off * sub[g]
          BY <2>4
        <4>2. off * sub[g] \in Int
          BY ONLY <2>3, <2>5, g \in Goods
        <4> HIDE DEF scaled, zero
        <4> QED BY ONLY <4>1, <4>2
      <3>0. IsFiniteSet(Goods) /\ off \in Int /\ whole \in Int
        BY <1>1, <2>3
      <3> HIDE DEF scaled, zero
      <3>2. \A g \in Goods : zero[g] \in Int /\ sub[g] \in Int /\ scaled[g] = zero[g] + off * sub[g]
        BY <2>3, <2>5, <3>1
      <3>3. \A g \in Goods : zero[g] \in Int /\ part[g] \in Int /\ scaled[g] = zero[g] + whole * part[g]
        BY <2>3, <2>5, <3>1
      <3>4. SumFunctionOnSet(scaled, Goods) = SumFunctionOnSet(zero, Goods) + off * SumFunctionOnSet(sub, Goods)
        BY ONLY <3>0, <3>2, SumLinear
      <3>5. SumFunctionOnSet(scaled, Goods) = SumFunctionOnSet(zero, Goods) + whole * SumFunctionOnSet(part, Goods)
        BY ONLY <3>0, <3>3, SumLinear
      <3>6. SumFunctionOnSet(zero, Goods) = 0
        BY <1>1, <3>1, SumZero
      <3>7. SumFunctionOnSet(part, Goods) \in Int /\ SumFunctionOnSet(sub, Goods) \in Int
        BY <1>1, <2>5, SumInt
      <3>8. whole * SumFunctionOnSet(part, Goods) \in Int /\ off * SumFunctionOnSet(sub, Goods) \in Int
        BY ONLY <2>3, <3>7
      <3> QED BY ONLY <3>4, <3>5, <3>6, <3>8
    <2>8. SumFunctionOnSet(part, Goods) = off
      <3>1. PICK parts : parts = SumFunctionOnSet(part, Goods)
        OBVIOUS
      <3>2. parts \in Int
        BY <1>1, <2>5, <3>1, SumInt
      <3>3. whole * parts = whole * off
        BY ONLY <1>1, <2>1, <2>3, <2>7, <3>1
      <3>4. parts = off
        BY ONLY <2>3, <3>2, <3>3
      <3> QED BY <3>1, <3>4
    <2>9. SumFunctionOnSet(net, Goods) = whole - off
      BY ONLY <1>1, <2>1, <2>3, <2>6, <2>8
    <2> QED BY <2>1, <2>2, <2>4, <2>9 DEF Net, net
  <1> QED BY <1>2, <1>3

\* The entry of every sale where it is made ...
SaleEntry ==
    [s \in Rung |-> [of |-> s, sign |-> 1, why |-> "sale", units |-> ledger[s].ticket.units]]

\* ... and where it is cancelled.
ReversalEntry ==
    [s \in Rung |-> [of |-> s, sign |-> -1, why |-> "cancelled", units |-> ledger[s].ticket.units]]

\* The sales that are made in a period ...
BookedIn(f) == {s \in Rung : Booked(s, f)}

\* ... and those that are cancelled in it.
ReversedIn(f) == {s \in Rung : Reversed(s, f)}

\* The sales that are booked or taken back in a period were made.
LEMMA EntriesAreCharged ==
    ASSUME ChargedInv, NEW f, NEW s \in BookedIn(f) \cup ReversedIn(f)
    PROVE  /\ s \in Rung /\ ledger[s].status # "none"
           /\ ledger[s].ticket \in Tickets /\ Chargeable(ledger[s].ticket)
  <1>1. s \in Rung /\ (ledger[s].createdAt # None \/ ledger[s].cancelledAt # None)
    BY DEF BookedIn, ReversedIn, Booked, Reversed, Within
  <1>2. ledger[s].status # "none"
    BY <1>1 DEF ChargedInv, SalesAreCharged, NoLedgerRow
  <1> QED BY <1>1, <1>2 DEF ChargedInv, SalesAreCharged

\* Where nothing is returned in part, a sale has an entry where it is made and one where it
\* is cancelled.
LEMMA ExpandedInTwo ==
    ASSUME NEW s \in Rung, NEW f, TimesReturned(s, f) = 0, ledger[s].ticket \in Tickets, NEW e
    PROVE  e \in Expanded(s, f) <=> \/ e = SaleEntry[s] /\ Booked(s, f)
                                    \/ e = ReversalEntry[s] /\ Reversed(s, f)
  <1> DEFINE back == [of |-> s, sign |-> -1, why |-> "returned", units |-> ReturnedUnits(s, f)]
  <1>1. \A g \in Goods : ~(ReturnedUnits(s, f)[g] > 0)
    <2> SUFFICES ASSUME NEW g \in Goods
                 PROVE  ReturnedUnits(s, f)[g] = 0
      OBVIOUS
    <2>1. ledger[s].ticket.units[g] \in Nat
      BY LinesAreWhole
    <2> QED BY <2>1 DEF ReturnedUnits
  <1>2. /\ SaleEntry[s] = [of |-> s, sign |-> 1, why |-> "sale", units |-> ledger[s].ticket.units]
        /\ ReversalEntry[s] = [of |-> s, sign |-> -1, why |-> "cancelled", units |-> ledger[s].ticket.units]
    BY DEF SaleEntry, ReversalEntry
  <1>3. SaleEntry[s].why = "sale" /\ ReversalEntry[s].why = "cancelled"
    BY <1>2
  <1>4. back.why = "returned" /\ back.units = ReturnedUnits(s, f)
    OBVIOUS
  <1>5. Expanded(s, f) =
           {x \in {SaleEntry[s], ReversalEntry[s], back} :
               CASE x.why = "sale"      -> Booked(s, f)
                 [] x.why = "cancelled" -> Reversed(s, f)
                 [] OTHER               -> \E g \in Goods : x.units[g] > 0}
    BY <1>2 DEF Expanded
  <1> HIDE DEF back
  <1>6. SaleEntry[s] \in Expanded(s, f) <=> Booked(s, f)
    BY <1>3, <1>5
  <1>7. ReversalEntry[s] \in Expanded(s, f) <=> Reversed(s, f)
    BY <1>3, <1>5
  <1>8. back \notin Expanded(s, f)
    BY <1>1, <1>4, <1>5
  <1>9. e \in Expanded(s, f) => e \in {SaleEntry[s], ReversalEntry[s], back}
    BY <1>5
  <1> QED BY ONLY <1>6, <1>7, <1>8, <1>9

\* The entries of a period are then its bookings and its reversals.
LEMMA EntriesAreBookings ==
    ASSUME ChargedInv, NEW f, \A s \in Rung : TimesReturned(s, f) = 0
    PROVE  FinancialEntries(f)
              = {SaleEntry[s] : s \in BookedIn(f)} \cup {ReversalEntry[s] : s \in ReversedIn(f)}
  <1>1. ASSUME NEW e \in FinancialEntries(f)
        PROVE  e \in {SaleEntry[s] : s \in BookedIn(f)} \cup {ReversalEntry[s] : s \in ReversedIn(f)}
    <2>1. PICK s \in Rung : ledger[s].status # "none" /\ e \in Expanded(s, f)
      BY DEF FinancialEntries
    <2>2. ledger[s].ticket \in Tickets
      BY <2>1 DEF ChargedInv, SalesAreCharged
    <2>3. \/ e = SaleEntry[s] /\ Booked(s, f)
          \/ e = ReversalEntry[s] /\ Reversed(s, f)
      BY <2>1, <2>2, ExpandedInTwo
    <2> QED BY <2>3 DEF BookedIn, ReversedIn
  <1>2. ASSUME NEW s \in BookedIn(f)
        PROVE  SaleEntry[s] \in FinancialEntries(f)
    <2>1. s \in Rung /\ ledger[s].status # "none" /\ ledger[s].ticket \in Tickets
      BY EntriesAreCharged
    <2>2. SaleEntry[s] \in Expanded(s, f)
      BY <2>1, ExpandedInTwo DEF BookedIn
    <2> QED BY <2>1, <2>2 DEF FinancialEntries
  <1>3. ASSUME NEW s \in ReversedIn(f)
        PROVE  ReversalEntry[s] \in FinancialEntries(f)
    <2>1. s \in Rung /\ ledger[s].status # "none" /\ ledger[s].ticket \in Tickets
      BY EntriesAreCharged
    <2>2. ReversalEntry[s] \in Expanded(s, f)
      BY <2>1, ExpandedInTwo DEF ReversedIn
    <2> QED BY <2>1, <2>2 DEF FinancialEntries
  <1> QED BY <1>1, <1>2, <1>3

\* What they add up to: what is worth something on the sales that are booked, less what it
\* is on those taken back.
LEMMA BookingsAddUp ==
    ASSUME ChargedInv, NEW f, \A s \in Rung : TimesReturned(s, f) = 0,
           NEW worth, NEW value, DOMAIN value = FinancialEntries(f),
           \A s \in BookedIn(f) : worth[s] \in Int /\ value[SaleEntry[s]] = worth[s],
           \A s \in ReversedIn(f) : worth[s] \in Int /\ value[ReversalEntry[s]] = -worth[s]
    PROVE  SumFunction(value)
              = SumFunctionOnSet(worth, BookedIn(f)) - SumFunctionOnSet(worth, ReversedIn(f))
  <1> DEFINE B == BookedIn(f)
             R == ReversedIn(f)
             sales == {SaleEntry[s] : s \in B}
             reversals == {ReversalEntry[s] : s \in R}
             minus == [s \in R |-> -worth[s]]
             zero == [s \in R |-> 0]
  <1>1. B \subseteq Rung /\ R \subseteq Rung /\ IsFiniteSet(B) /\ IsFiniteSet(R)
    <2>1. B \subseteq Rung /\ R \subseteq Rung
      BY DEF BookedIn, ReversedIn
    <2> HIDE DEF B, R
    <2> QED BY <2>1, LedgerAssumption, FS_Subset
  <1>2. \A s \in Rung : SaleEntry[s].of = s /\ ReversalEntry[s].of = s
                        /\ SaleEntry[s].why = "sale" /\ ReversalEntry[s].why = "cancelled"
    BY DEF SaleEntry, ReversalEntry
  <1>3. IsFiniteSet(sales) /\ IsFiniteSet(reversals) /\ sales \cap reversals = {}
    <2>1. IsFiniteSet(sales) /\ IsFiniteSet(reversals)
      <3> HIDE DEF B, R
      <3> QED BY <1>1, FiniteImage
    <2>2. \A e \in sales : e.why = "sale"
      BY <1>1, <1>2
    <2>3. \A e \in reversals : e.why = "cancelled"
      BY <1>1, <1>2
    <2> HIDE DEF sales, reversals
    <2> QED BY <2>1, <2>2, <2>3
  <1>4. DOMAIN value = sales \cup reversals
    BY EntriesAreBookings
  <1>5. /\ \A s \in B : worth[s] \in Int /\ value[SaleEntry[s]] = worth[s]
        /\ \A s \in R : /\ worth[s] \in Int /\ minus[s] \in Int /\ value[ReversalEntry[s]] = minus[s]
                        /\ zero[s] \in Int /\ zero[s] = 0 /\ minus[s] = zero[s] + (-1) * worth[s]
    <2>1. \A s \in B : worth[s] \in Int /\ value[SaleEntry[s]] = worth[s]
      OBVIOUS
    <2>2. ASSUME NEW s \in R
          PROVE  /\ worth[s] \in Int /\ minus[s] \in Int /\ value[ReversalEntry[s]] = minus[s]
                 /\ zero[s] \in Int /\ zero[s] = 0 /\ minus[s] = zero[s] + (-1) * worth[s]
      <3>1. worth[s] \in Int /\ value[ReversalEntry[s]] = -worth[s] /\ minus[s] = -worth[s] /\ zero[s] = 0
        OBVIOUS
      <3> HIDE DEF minus, zero, R
      <3> QED BY ONLY <3>1
    <2> QED BY <2>1, <2>2
  <1> HIDE DEF B, R, minus, zero
  <1>6. SumFunctionOnSet(value, sales) = SumFunctionOnSet(worth, B)
    <2>1. PICK name : name = SaleEntry
      OBVIOUS
    <2>2. \A x, y \in B : name[x] = name[y] => x = y
      BY <1>1, <1>2, <2>1
    <2>3. \A s \in B : worth[s] \in Int /\ value[name[s]] = worth[s]
      BY <1>5, <2>1
    <2>4. IsFiniteSet(B)
      BY <1>1
    <2>5. SumFunctionOnSet(value, {name[x] : x \in B}) = SumFunctionOnSet(worth, B)
      BY ONLY <2>2, <2>3, <2>4, SumRenamed
    <2>6. sales = {name[x] : x \in B}
      BY <2>1
    <2> QED BY <2>5, <2>6
  <1>7. SumFunctionOnSet(value, reversals) = SumFunctionOnSet(minus, R)
    <2>1. PICK name : name = ReversalEntry
      OBVIOUS
    <2>2. \A x, y \in R : name[x] = name[y] => x = y
      BY <1>1, <1>2, <2>1
    <2>3. \A s \in R : minus[s] \in Int /\ value[name[s]] = minus[s]
      BY <1>5, <2>1
    <2>4. IsFiniteSet(R)
      BY <1>1
    <2>5. SumFunctionOnSet(value, {name[x] : x \in R}) = SumFunctionOnSet(minus, R)
      BY ONLY <2>2, <2>3, <2>4, SumRenamed
    <2>6. reversals = {name[x] : x \in R}
      BY <2>1
    <2> QED BY <2>5, <2>6
  <1>8. \A e \in sales \cup reversals : value[e] \in Int
    BY <1>5
  <1> HIDE DEF sales, reversals
  <1>9. SumFunctionOnSet(value, sales \cup reversals)
           = SumFunctionOnSet(value, sales) + SumFunctionOnSet(value, reversals)
    BY ONLY <1>3, <1>8, SumUnion
  <1>10. SumFunctionOnSet(minus, R) = SumFunctionOnSet(zero, R) + (-1) * SumFunctionOnSet(worth, R)
    <2>1. \A s \in R : zero[s] \in Int /\ worth[s] \in Int /\ minus[s] = zero[s] + (-1) * worth[s]
      BY <1>5
    <2>2. -1 \in Int
      OBVIOUS
    <2> QED BY ONLY <1>1, <2>1, <2>2, SumLinear
  <1>11. SumFunctionOnSet(zero, R) = 0
    BY <1>1, <1>5, SumZero
  <1>12. SumFunctionOnSet(worth, B) \in Int /\ SumFunctionOnSet(worth, R) \in Int
    BY <1>1, <1>5, SumInt
  <1>13. SumFunction(value) = SumFunctionOnSet(value, sales \cup reversals)
    BY <1>4 DEF SumFunction
  <1>14. SumFunction(value) = SumFunctionOnSet(worth, B) - SumFunctionOnSet(worth, R)
    BY ONLY <1>6, <1>7, <1>9, <1>10, <1>11, <1>12, <1>13
  <1> QED BY <1>14 DEF B, R

\* What an entry of a whole ticket is worth.
LEMMA EntryWorth ==
    ASSUME NEW e, NEW t \in Tickets, Chargeable(t), ledger[e.of].ticket = t, e.units = t.units,
           e.sign \in {-1, 1}
    PROVE  /\ Net(t) \in Int /\ TaxAmount[t] \in Int
           /\ EntryIncome(e) = e.sign * Net(t)
           /\ EntryTax(e) = e.sign * TaxAmount[t]
           /\ \A g \in Goods : LineRevenue(e, g) = NetLine(t, g)
  <1>1. Subtotal[t] \in Nat /\ TaxAmount[t] \in Int /\ t.discount \in Nat /\ Subtotal[t] \in Int /\ t.discount \in Int
    <2>1. Subtotal[t] \in Nat
      BY ChargedLines
    <2>2. Subtotal[t] \in Int /\ TaxAmount[t] \in Int /\ t.discount \in Nat
      BY TicketsAddUp
    <2> QED BY ONLY <2>1, <2>2
  <1>2. /\ ShareOf(t, t.units) = Subtotal[t]
        /\ Prorated(t.discount, t, t.units) = t.discount
        /\ Prorated(Subtotal[t], t, t.units) = Subtotal[t]
        /\ Prorated(TaxAmount[t], t, t.units) = TaxAmount[t]
    BY <1>1, WholeShares
  <1>3. EntryDiscount(e) = t.discount
    BY <1>2 DEF EntryDiscount
  <1>4. EntryIncome(e) = e.sign * Subtotal[t] - e.sign * t.discount /\ EntryTax(e) = e.sign * TaxAmount[t]
    BY <1>2, <1>3 DEF EntryIncome, EntryTax
  <1>5. e.sign * Subtotal[t] - e.sign * t.discount = e.sign * (Subtotal[t] - t.discount)
        /\ Subtotal[t] - t.discount \in Int
    <2>1. CASE e.sign = 1
      BY ONLY <1>1, <2>1
    <2>2. CASE e.sign = -1
      BY ONLY <1>1, <2>2
    <2> QED BY <2>1, <2>2
  <1>6. ASSUME NEW g \in Goods
        PROVE  LineRevenue(e, g) = NetLine(t, g)
    <2> DEFINE line == IF t.units[g] = 0 THEN 0
                       ELSE (LineSubtotal(t, g) * e.units[g]) \div t.units[g]
    <2>1. line = LineSubtotal(t, g)
      <3>1. /\ t.units[g] \in Nat /\ LineSubtotal(t, g) \in Int
            /\ g \notin Lines(t) => t.units[g] = 0 /\ LineSubtotal(t, g) = 0
        BY LinesAreWhole
      <3>2. CASE t.units[g] = 0
        <4>1. g \notin Lines(t)
          BY <3>2 DEF Lines
        <4> QED BY <3>1, <3>2, <4>1
      <3>3. CASE t.units[g] # 0
        <4>1. t.units[g] \in Nat /\ t.units[g] > 0
          BY <3>1, <3>3
        <4>2. (LineSubtotal(t, g) * t.units[g]) \div t.units[g] = LineSubtotal(t, g)
          BY ONLY <3>1, <4>1, DivExact
        <4> QED BY <3>3, <4>2
      <3> QED BY <3>2, <3>3
    <2>2. LineRevenue(e, g) = IF ShareOf(t, e.units) = 0 THEN line
                              ELSE line - (EntryDiscount(e) * line) \div ShareOf(t, e.units)
      BY DEF LineRevenue
    <2> HIDE DEF line
    <2> QED BY <1>2, <1>3, <2>1, <2>2 DEF NetLine
  <1> QED BY <1>1, <1>4, <1>5, <1>6 DEF Net

\* What every sale brings in ...
IncomeOf == [s \in Rung |-> Net(ledger[s].ticket)]

\* ... what it is taxed ...
TaxOf == [s \in Rung |-> TaxAmount[ledger[s].ticket]]

\* ... its units of a product ...
UnitsOf(g) == [s \in Rung |-> ledger[s].ticket.units[g]]

\* ... and what these bring in.
NetLineOf(g) == [s \in Rung |-> NetLine(ledger[s].ticket, g)]

\* The figures of an overview are those of the sales booked in it, less those taken back.
LEMMA OverviewFigures ==
    ASSUME ChargedInv, NEW f, \A s \in Rung : TimesReturned(s, f) = 0
    PROVE  /\ Overview(f).netIncome
                 = SumFunctionOnSet(IncomeOf, BookedIn(f)) - SumFunctionOnSet(IncomeOf, ReversedIn(f))
           /\ Overview(f).tax
                 = SumFunctionOnSet(TaxOf, BookedIn(f)) - SumFunctionOnSet(TaxOf, ReversedIn(f))
           /\ \A g \in Goods :
                 Overview(f).quantity[g]
                    = SumFunctionOnSet(UnitsOf(g), BookedIn(f)) - SumFunctionOnSet(UnitsOf(g), ReversedIn(f))
           /\ \A g \in Goods :
                 Overview(f).netRevenue[g]
                    = SumFunctionOnSet(NetLineOf(g), BookedIn(f)) - SumFunctionOnSet(NetLineOf(g), ReversedIn(f))
  <1> DEFINE E == FinancialEntries(f)
             income == [e \in E |-> EntryIncome(e)]
             tax == [e \in E |-> EntryTax(e)]
             units(g) == [e \in E |-> e.sign * e.units[g]]
             revenue(g) == [e \in E |-> e.sign * LineRevenue(e, g)]
  <1>1. /\ Overview(f).netIncome = SumFunction(income)
        /\ Overview(f).tax = SumFunction(tax)
        /\ \A g \in Goods : Overview(f).quantity[g] = SumFunction(units(g))
        /\ \A g \in Goods : Overview(f).netRevenue[g] = SumFunction(revenue(g))
    BY DEF Overview
  <1>2. E = {SaleEntry[s] : s \in BookedIn(f)} \cup {ReversalEntry[s] : s \in ReversedIn(f)}
    BY EntriesAreBookings
  <1>3. \A s \in BookedIn(f) : SaleEntry[s] \in E
    BY <1>2
  <1>4. \A s \in ReversedIn(f) : ReversalEntry[s] \in E
    BY <1>2
  <1>5. ASSUME NEW s \in BookedIn(f) \cup ReversedIn(f)
        PROVE  /\ s \in Rung /\ ledger[s].ticket \in Tickets /\ Chargeable(ledger[s].ticket)
               /\ SaleEntry[s].of = s /\ SaleEntry[s].units = ledger[s].ticket.units /\ SaleEntry[s].sign = 1
               /\ ReversalEntry[s].of = s /\ ReversalEntry[s].units = ledger[s].ticket.units
               /\ ReversalEntry[s].sign = -1
    <2>1. s \in Rung /\ ledger[s].ticket \in Tickets /\ Chargeable(ledger[s].ticket)
      BY EntriesAreCharged
    <2> QED BY <2>1 DEF SaleEntry, ReversalEntry
  <1>6. ASSUME NEW s \in BookedIn(f) \cup ReversedIn(f), NEW e \in {SaleEntry[s], ReversalEntry[s]}
        PROVE  /\ IncomeOf[s] \in Int /\ EntryIncome(e) = e.sign * IncomeOf[s]
               /\ TaxOf[s] \in Int /\ EntryTax(e) = e.sign * TaxOf[s]
               /\ \A g \in Goods : /\ UnitsOf(g)[s] \in Int /\ e.units[g] = UnitsOf(g)[s]
                                   /\ NetLineOf(g)[s] \in Int /\ LineRevenue(e, g) = NetLineOf(g)[s]
    <2>1. PICK t : t = ledger[s].ticket
      OBVIOUS
    <2>2. t \in Tickets /\ Chargeable(t) /\ ledger[e.of].ticket = t /\ e.units = t.units /\ e.sign \in {-1, 1}
      BY <1>5, <2>1
    <2>3. /\ Net(t) \in Int /\ TaxAmount[t] \in Int
          /\ EntryIncome(e) = e.sign * Net(t)
          /\ EntryTax(e) = e.sign * TaxAmount[t]
          /\ \A g \in Goods : LineRevenue(e, g) = NetLine(t, g)
      BY ONLY <2>2, EntryWorth
    <2>4. \A g \in Goods : NetLine(t, g) \in Int
      BY <2>2, NetLinesAddUp
    <2>5. \A g \in Goods : t.units[g] \in Int
      BY <2>2, LinesAreWhole
    <2>6. /\ IncomeOf[s] = Net(t) /\ TaxOf[s] = TaxAmount[t]
          /\ \A g : UnitsOf(g)[s] = t.units[g] /\ NetLineOf(g)[s] = NetLine(t, g)
      BY <1>5, <2>1 DEF IncomeOf, TaxOf, UnitsOf, NetLineOf
    <2> QED BY ONLY <2>2, <2>3, <2>4, <2>5, <2>6
  <1>7. ASSUME NEW worth, NEW value, DOMAIN value = E,
               \A s \in BookedIn(f) \cup ReversedIn(f) : worth[s] \in Int,
               \A s \in BookedIn(f) \cup ReversedIn(f) : \A e \in {SaleEntry[s], ReversalEntry[s]} \cap E :
                  value[e] = e.sign * worth[s]
        PROVE  SumFunction(value)
                  = SumFunctionOnSet(worth, BookedIn(f)) - SumFunctionOnSet(worth, ReversedIn(f))
    <2>1. ASSUME NEW s \in BookedIn(f)
          PROVE  worth[s] \in Int /\ value[SaleEntry[s]] = worth[s]
      <3>1. worth[s] \in Int /\ value[SaleEntry[s]] = 1 * worth[s]
        BY <1>3, <1>5, <1>7
      <3> QED BY ONLY <3>1
    <2>2. ASSUME NEW s \in ReversedIn(f)
          PROVE  worth[s] \in Int /\ value[ReversalEntry[s]] = -worth[s]
      <3>1. worth[s] \in Int /\ value[ReversalEntry[s]] = (-1) * worth[s]
        BY <1>4, <1>5, <1>7
      <3> QED BY ONLY <3>1
    <2>3. /\ ChargedInv /\ (\A s \in Rung : TimesReturned(s, f) = 0)
          /\ DOMAIN value = FinancialEntries(f)
      BY <1>7
    <2> QED BY ONLY <2>1, <2>2, <2>3, BookingsAddUp
  <1>8. /\ DOMAIN income = E /\ DOMAIN tax = E
        /\ \A g \in Goods : DOMAIN units(g) = E /\ DOMAIN revenue(g) = E
        /\ \A e \in E : income[e] = EntryIncome(e) /\ tax[e] = EntryTax(e)
        /\ \A g \in Goods : \A e \in E : units(g)[e] = e.sign * e.units[g]
                                         /\ revenue(g)[e] = e.sign * LineRevenue(e, g)
    OBVIOUS
  <1> HIDE DEF income, tax, units, revenue, E
  <1>9. Overview(f).netIncome
           = SumFunctionOnSet(IncomeOf, BookedIn(f)) - SumFunctionOnSet(IncomeOf, ReversedIn(f))
    BY <1>1, <1>6, <1>7, <1>8
  <1>10. Overview(f).tax = SumFunctionOnSet(TaxOf, BookedIn(f)) - SumFunctionOnSet(TaxOf, ReversedIn(f))
    BY <1>1, <1>6, <1>7, <1>8
  <1>11. ASSUME NEW g \in Goods
         PROVE  Overview(f).quantity[g]
                   = SumFunctionOnSet(UnitsOf(g), BookedIn(f)) - SumFunctionOnSet(UnitsOf(g), ReversedIn(f))
    <2>1. PICK worth, value : worth = UnitsOf(g) /\ value = units(g)
      OBVIOUS
    <2>2. DOMAIN value = E /\ \A e \in E : value[e] = e.sign * e.units[g]
      BY <1>8, <2>1
    <2>3. \A s \in BookedIn(f) \cup ReversedIn(f) : worth[s] \in Int
      BY <1>6, <2>1
    <2>4. ASSUME NEW s \in BookedIn(f) \cup ReversedIn(f), NEW e \in {SaleEntry[s], ReversalEntry[s]} \cap E
          PROVE  value[e] = e.sign * worth[s]
      <3>1. e.units[g] = worth[s]
        BY <1>6, <2>1
      <3> QED BY <2>2, <3>1
    <2>5. SumFunction(value)
             = SumFunctionOnSet(worth, BookedIn(f)) - SumFunctionOnSet(worth, ReversedIn(f))
      BY ONLY <1>7, <2>2, <2>3, <2>4
    <2> QED BY <1>1, <2>1, <2>5
  <1>12. ASSUME NEW g \in Goods
         PROVE  Overview(f).netRevenue[g]
                   = SumFunctionOnSet(NetLineOf(g), BookedIn(f)) - SumFunctionOnSet(NetLineOf(g), ReversedIn(f))
    <2>1. PICK worth, value : worth = NetLineOf(g) /\ value = revenue(g)
      OBVIOUS
    <2>2. DOMAIN value = E /\ \A e \in E : value[e] = e.sign * LineRevenue(e, g)
      BY <1>8, <2>1
    <2>3. \A s \in BookedIn(f) \cup ReversedIn(f) : worth[s] \in Int
      BY <1>6, <2>1
    <2>4. ASSUME NEW s \in BookedIn(f) \cup ReversedIn(f), NEW e \in {SaleEntry[s], ReversalEntry[s]} \cap E
          PROVE  value[e] = e.sign * worth[s]
      <3>1. LineRevenue(e, g) = worth[s]
        BY <1>6, <2>1
      <3> QED BY <2>2, <3>1
    <2>5. SumFunction(value)
             = SumFunctionOnSet(worth, BookedIn(f)) - SumFunctionOnSet(worth, ReversedIn(f))
      BY ONLY <1>7, <2>2, <2>3, <2>4
    <2> QED BY <1>1, <2>1, <2>5
  <1> QED BY <1>9, <1>10, <1>11, <1>12

\* Of charged sales, the income and the taxes add up to the charges, and the income of the
\* products to that of the sales.
LEMMA SalesNetOut ==
    ASSUME NEW P \in SUBSET Rung,
           \A s \in P : ledger[s].ticket \in Tickets /\ Chargeable(ledger[s].ticket)
    PROVE  /\ SumFunctionOnSet(IncomeOf, P) \in Int /\ SumFunctionOnSet(TaxOf, P) \in Int
           /\ SumFunctionOnSet(ChargedOf, P) = SumFunctionOnSet(IncomeOf, P) + SumFunctionOnSet(TaxOf, P)
           /\ \A g \in Goods : SumFunctionOnSet(NetLineOf(g), P) \in Int
           /\ SumFunctionOnSet([g \in Goods |-> SumFunctionOnSet(NetLineOf(g), P)], Goods)
                 = SumFunctionOnSet(IncomeOf, P)
  <1> DEFINE nets == [s \in P |-> [g \in Goods |-> NetLine(ledger[s].ticket, g)]]
             each == [g \in Goods |-> NetLineOf(g)]
             down == [g \in Goods |-> SumFunctionOnSet(NetLineOf(g), P)]
  <1>1. IsFiniteSet(P) /\ IsFiniteSet(Goods)
    BY LedgerAssumption, FS_Subset
  <1>2. ASSUME NEW s \in P
        PROVE  /\ IncomeOf[s] \in Int /\ TaxOf[s] \in Int /\ ChargedOf[s] = IncomeOf[s] + 1 * TaxOf[s]
               /\ IncomeOf[s] = SumFunctionOnSet(nets[s], Goods)
               /\ \A g \in Goods : /\ nets[s][g] \in Int /\ each[g][s] = nets[s][g]
                                   /\ NetLineOf(g)[s] \in Int
    <2>1. PICK t : t = ledger[s].ticket
      OBVIOUS
    <2>2. t \in Tickets /\ Chargeable(t) /\ s \in Rung
      BY <2>1
    <2>3. /\ Subtotal[t] \in Int /\ TaxAmount[t] \in Int /\ t.discount \in Nat
          /\ Total[t] = Subtotal[t] + TaxAmount[t] - t.discount
      BY <2>2, TicketsAddUp
    <2>4. /\ IncomeOf[s] = Subtotal[t] - t.discount /\ TaxOf[s] = TaxAmount[t] /\ ChargedOf[s] = Total[t]
      BY <2>1, <2>2 DEF IncomeOf, TaxOf, ChargedOf, Charged, Net
    <2>5. /\ \A g \in Goods : NetLine(t, g) \in Int
          /\ SumFunctionOnSet([g \in Goods |-> NetLine(t, g)], Goods) = Net(t)
      BY <2>2, NetLinesAddUp
    <2>6. nets[s] = [g \in Goods |-> NetLine(t, g)]
      BY <2>1
    <2>7. \A g \in Goods : each[g][s] = NetLine(t, g) /\ NetLineOf(g)[s] = NetLine(t, g)
      BY <2>1, <2>2 DEF NetLineOf
    <2> HIDE DEF nets, each
    <2>8. IncomeOf[s] \in Int /\ TaxOf[s] \in Int /\ ChargedOf[s] = IncomeOf[s] + 1 * TaxOf[s]
      BY ONLY <2>3, <2>4
    <2>9. IncomeOf[s] = SumFunctionOnSet(nets[s], Goods)
      BY <2>4, <2>5, <2>6 DEF Net
    <2>10. \A g \in Goods : nets[s][g] = NetLine(t, g)
      BY <2>6
    <2> QED BY <2>5, <2>7, <2>8, <2>9, <2>10
  <1>3. SumFunctionOnSet(IncomeOf, P) \in Int /\ SumFunctionOnSet(TaxOf, P) \in Int
    BY <1>1, <1>2, SumInt
  <1>4. SumFunctionOnSet(ChargedOf, P)
           = SumFunctionOnSet(IncomeOf, P) + 1 * SumFunctionOnSet(TaxOf, P)
    <2>1. PICK f, g, h : f = IncomeOf /\ g = TaxOf /\ h = ChargedOf
      OBVIOUS
    <2>2. \A s \in P : f[s] \in Int /\ g[s] \in Int /\ h[s] = f[s] + 1 * g[s]
      BY <1>2, <2>1
    <2>3. 1 \in Int
      OBVIOUS
    <2>4. SumFunctionOnSet(h, P) = SumFunctionOnSet(f, P) + 1 * SumFunctionOnSet(g, P)
      BY ONLY <1>1, <2>2, <2>3, SumLinear
    <2> QED BY <2>1, <2>4
  <1>5. \A g \in Goods : SumFunctionOnSet(NetLineOf(g), P) \in Int
    <2> SUFFICES ASSUME NEW g \in Goods
                 PROVE  SumFunctionOnSet(NetLineOf(g), P) \in Int
      OBVIOUS
    <2>1. PICK f : f = NetLineOf(g)
      OBVIOUS
    <2>2. \A s \in P : f[s] \in Int
      BY <1>2, <2>1
    <2>3. SumFunctionOnSet(f, P) \in Int
      BY ONLY <1>1, <2>2, SumInt
    <2> QED BY <2>1, <2>3
  <1>6. SumFunctionOnSet(IncomeOf, P) = SumFunctionOnSet(down, Goods)
    <2>1. \A g \in Goods : down[g] = SumFunctionOnSet(each[g], P)
      OBVIOUS
    <2>2. PICK across : across = IncomeOf
      OBVIOUS
    <2> HIDE DEF nets, each, down
    <2>3. IsTable(P, Goods, nets, each, across, down)
      BY <1>2, <2>1, <2>2 DEF IsTable
    <2>4. SumFunctionOnSet(across, P) = SumFunctionOnSet(down, Goods)
      BY ONLY <1>1, <2>3, SumSwap
    <2> QED BY <2>2, <2>4
  <1> QED BY <1>3, <1>4, <1>5, <1>6

\* The overview of a period is what was charged in it less what was cancelled in it, where
\* nothing is returned in part.
LEMMA OverviewDoesNetOut ==
    ASSUME ChargedInv, NEW f, \A s \in Rung : TimesReturned(s, f) = 0
    PROVE  OverviewNetsOut(f)
  <1> DEFINE B == BookedIn(f)
             R == ReversedIn(f)
             o == Overview(f)
             revenue == [g \in Goods |-> o.netRevenue[g]]
             booked == [g \in Goods |-> SumFunctionOnSet(NetLineOf(g), B)]
             reversed == [g \in Goods |-> SumFunctionOnSet(NetLineOf(g), R)]
  <1>1. /\ B \in SUBSET Rung /\ R \in SUBSET Rung /\ IsFiniteSet(Goods)
        /\ \A s \in B \cup R : ledger[s].ticket \in Tickets /\ Chargeable(ledger[s].ticket)
    <2>1. B \in SUBSET Rung /\ R \in SUBSET Rung
      BY DEF BookedIn, ReversedIn
    <2> QED BY <2>1, EntriesAreCharged, LedgerAssumption
  <1>2. /\ {s \in Rung : Booked(s, f)} = B
        /\ {s \in Rung : Reversed(s, f)} = R
    BY DEF BookedIn, ReversedIn
  <1>3. /\ o.netIncome = SumFunctionOnSet(IncomeOf, B) - SumFunctionOnSet(IncomeOf, R)
        /\ o.tax = SumFunctionOnSet(TaxOf, B) - SumFunctionOnSet(TaxOf, R)
        /\ \A g \in Goods : o.quantity[g] = SumFunctionOnSet(UnitsOf(g), B) - SumFunctionOnSet(UnitsOf(g), R)
        /\ \A g \in Goods : revenue[g] = SumFunctionOnSet(NetLineOf(g), B) - SumFunctionOnSet(NetLineOf(g), R)
    BY OverviewFigures
  <1> HIDE DEF B, R
  <1>4. /\ SumFunctionOnSet(IncomeOf, B) \in Int /\ SumFunctionOnSet(TaxOf, B) \in Int
        /\ SumFunctionOnSet(ChargedOf, B) = SumFunctionOnSet(IncomeOf, B) + SumFunctionOnSet(TaxOf, B)
        /\ \A g \in Goods : booked[g] \in Int
        /\ SumFunctionOnSet(booked, Goods) = SumFunctionOnSet(IncomeOf, B)
    BY <1>1, SalesNetOut
  <1>5. /\ SumFunctionOnSet(IncomeOf, R) \in Int /\ SumFunctionOnSet(TaxOf, R) \in Int
        /\ SumFunctionOnSet(ChargedOf, R) = SumFunctionOnSet(IncomeOf, R) + SumFunctionOnSet(TaxOf, R)
        /\ \A g \in Goods : reversed[g] \in Int
        /\ SumFunctionOnSet(reversed, Goods) = SumFunctionOnSet(IncomeOf, R)
    BY <1>1, SalesNetOut
  <1>6. o.netIncome + o.tax = SumFunction([s \in B |-> Charged(s)]) - SumFunction([s \in R |-> Charged(s)])
    <2>1. o.netIncome + o.tax = SumFunctionOnSet(ChargedOf, B) - SumFunctionOnSet(ChargedOf, R)
      BY ONLY <1>3, <1>4, <1>5
    <2> HIDE DEF o
    <2> QED BY <1>1, <2>1, ChargedSum
  <1>7. SumFunction(revenue) = o.netIncome
    <2>1. \A g \in Goods : /\ booked[g] \in Int /\ reversed[g] \in Int
                           /\ revenue[g] = booked[g] + (-1) * reversed[g]
      <3> SUFFICES ASSUME NEW g \in Goods
                   PROVE  /\ booked[g] \in Int /\ reversed[g] \in Int
                          /\ revenue[g] = booked[g] + (-1) * reversed[g]
        OBVIOUS
      <3>1. booked[g] \in Int /\ reversed[g] \in Int
        BY <1>4, <1>5
      <3>2. revenue[g] = booked[g] - reversed[g]
        BY <1>3
      <3> HIDE DEF booked, reversed, revenue
      <3> QED BY ONLY <3>1, <3>2
    <2>2. SumFunction(revenue) = SumFunctionOnSet(revenue, Goods)
      BY DEF SumFunction
    <2> HIDE DEF booked, reversed, revenue, o
    <2>3. -1 \in Int /\ IsFiniteSet(Goods)
      BY <1>1
    <2>4. SumFunctionOnSet(revenue, Goods)
             = SumFunctionOnSet(booked, Goods) + (-1) * SumFunctionOnSet(reversed, Goods)
      BY ONLY <2>1, <2>3, SumLinear
    <2> QED BY ONLY <1>3, <1>4, <1>5, <2>2, <2>4
  <1>8. ASSUME NEW g \in Goods
        PROVE  o.quantity[g] = SumFunction([s \in B |-> ledger[s].ticket.units[g]])
                                  - SumFunction([s \in R |-> ledger[s].ticket.units[g]])
    <2>1. ASSUME NEW P \in SUBSET Rung
          PROVE  SumFunction([s \in P |-> ledger[s].ticket.units[g]]) = SumFunctionOnSet(UnitsOf(g), P)
      <3>1. [s \in P |-> ledger[s].ticket.units[g]] = [s \in P |-> UnitsOf(g)[s]] /\ IsFiniteSet(P)
        BY LedgerAssumption, FS_Subset DEF UnitsOf
      <3> QED BY <3>1, SumOverDomain
    <2> QED BY <1>1, <1>3, <2>1
  <1> QED BY <1>2, <1>6, <1>7, <1>8 DEF OverviewNetsOut

\* The larger and the smaller of two numbers.
LEMMA OfTwo ==
    ASSUME NEW a \in Int, NEW b \in Int
    PROVE  /\ Max({a, b}) = IF a >= b THEN a ELSE b
           /\ Min({a, b}) = IF a <= b THEN a ELSE b
  <1>1. PICK x : x = IF a >= b THEN a ELSE b
    OBVIOUS
  <1>2. PICK y : y = IF a <= b THEN a ELSE b
    OBVIOUS
  <1>3. /\ x \in {a, b} /\ \A z \in {a, b} : x >= z
        /\ \A z \in {a, b} : (\A w \in {a, b} : z >= w) => z = x
    BY <1>1
  <1>4. /\ y \in {a, b} /\ \A z \in {a, b} : y <= z
        /\ \A z \in {a, b} : (\A w \in {a, b} : z <= w) => z = y
    BY <1>2
  <1>5. Max({a, b}) = x
    BY <1>3 DEF Max
  <1>6. Min({a, b}) = y
    BY <1>4 DEF Min
  <1> QED BY <1>1, <1>2, <1>5, <1>6

\* The period a financial report is about is an interval.
LEMMA PeriodsAreIntervals ==
    ASSUME LedgerTypeOK, NEW r \in Ranges, NEW f, f = FinancialPeriod(r)
    PROVE  f.gte \in Int /\ f.lte \in Int /\ f.gte <= f.lte
  <1>1. /\ TicksPerDay \in Nat /\ TicksPerDay > 0 /\ DaysPerMonth \in Nat /\ DaysPerMonth > 0
        /\ DefaultDays \in Nat /\ tick \in Nat /\ Days \subseteq Nat
    BY LedgerAssumption, ReportsAssumption DEF LedgerTypeOK, Moments, Days
  <1>2. \A d \in Int : StartOfDay(d) \in Int /\ EndOfDay(d) \in Int
    BY <1>1 DEF StartOfDay, EndOfDay
  <1>3. r.from \in Days \cup {None} /\ r.to \in Days \cup {None}
    BY DEF Ranges
  <1>4. CASE r.from = None /\ r.to = None
    <2> DEFINE day == BogotaDay(tick)
               first == day - (day % DaysPerMonth)
               last == first + DaysPerMonth - 1
    <2>1. day \in Int
      BY <1>1 DEF BogotaDay
    <2> HIDE DEF day
    <2>2. first \in Int
      BY <1>1, <2>1
    <2>3. f = [gte |-> StartOfDay(first), lte |-> EndOfDay(last)]
      BY <1>4 DEF FinancialPeriod, day
    <2> HIDE DEF first
    <2>4. last \in Int /\ first <= last
      BY <1>1, <2>2
    <2> HIDE DEF last
    <2>5. StartOfDay(first) \in Int /\ EndOfDay(last) \in Int
      BY <1>2, <2>2, <2>4
    <2>6. StartOfDay(first) <= EndOfDay(last)
      <3>1. PICK gap \in Nat : last = first + gap
        <4>1. last - first \in Nat /\ last = first + (last - first)
          BY <2>2, <2>4
        <4> QED BY <4>1
      <3>2. (last + 1) * TicksPerDay = first * TicksPerDay + gap * TicksPerDay + TicksPerDay
        BY ONLY <1>1, <2>2, <3>1
      <3>3. gap * TicksPerDay \in Nat /\ first * TicksPerDay \in Int
        BY ONLY <1>1, <2>2, gap \in Nat
      <3> QED BY ONLY <1>1, <3>2, <3>3 DEF StartOfDay, EndOfDay
    <2> QED BY <2>3, <2>5, <2>6
  <1>5. CASE ~(r.from = None /\ r.to = None)
    <2> DEFINE end == IF r.to = None THEN tick ELSE EndOfDay(r.to)
               start == IF r.from = None THEN end - DefaultDays * TicksPerDay + 1
                        ELSE StartOfDay(r.from)
    <2>0. /\ r.from # None => StartOfDay(r.from) \in Int
          /\ r.to # None => EndOfDay(r.to) \in Int
      <3>1. /\ r.from # None => r.from \in Int
            /\ r.to # None => r.to \in Int
        <4>1. Days \subseteq Int
          BY <1>1
        <4> QED BY ONLY <1>3, <4>1
      <3> QED BY <1>2, <3>1
    <2>1. end \in Int
      <3>1. tick \in Int
        BY <1>1
      <3> QED BY <2>0, <3>1
    <2> HIDE DEF end
    <2>2. DefaultDays * TicksPerDay \in Int
      BY ONLY <1>1
    <2>3. start \in Int
      <3>1. end - DefaultDays * TicksPerDay + 1 \in Int
        BY ONLY <2>1, <2>2
      <3> QED BY <2>0, <3>1
    <2>4. f = [gte |-> Min({start, end}), lte |-> Max({start, end})]
      BY <1>5 DEF FinancialPeriod, ComparedPeriod, end
    <2> HIDE DEF start
    <2>5. /\ f.gte = IF start <= end THEN start ELSE end
          /\ f.lte = IF start >= end THEN start ELSE end
      BY <2>1, <2>3, <2>4, OfTwo
    <2> QED BY <2>1, <2>3, <2>5
  <1> QED BY <1>4, <1>5

\* The income of a period and of the one before it is that of both.
LEMMA PeriodsDoMeet ==
    ASSUME ChargedInv, \A s \in Rung : \A p : TimesReturned(s, p) = 0,
           NEW f, f.gte \in Int, f.lte \in Int, f.gte <= f.lte
    PROVE  PeriodsMeet(f)
  <1> DEFINE both == [gte |-> Before(f).gte, lte |-> f.lte]
             duration == Max({TicksPerDay, f.lte - f.gte + 1})
  <1>1. /\ TicksPerDay \in Nat /\ TicksPerDay > 0 /\ None \notin Int /\ IsFiniteSet(Rung)
        /\ f.lte - f.gte + 1 \in Int /\ TicksPerDay - 1 \in Int /\ f.lte - f.gte \in Int
        /\ TicksPerDay \in Int
    BY LedgerAssumption
  <1>2. /\ Max({TicksPerDay, f.lte - f.gte + 1})
             = IF TicksPerDay >= f.lte - f.gte + 1 THEN TicksPerDay ELSE f.lte - f.gte + 1
        /\ Max({TicksPerDay - 1, f.lte - f.gte})
             = IF TicksPerDay - 1 >= f.lte - f.gte THEN TicksPerDay - 1 ELSE f.lte - f.gte
    BY ONLY <1>1, OfTwo
  <1>3. duration \in Int /\ duration > 0 /\ duration - 1 = Max({TicksPerDay - 1, f.lte - f.gte})
    BY ONLY <1>1, <1>2
  <1>4. Before(f) = [gte |-> f.gte - duration, lte |-> f.gte - 1]
    BY DEF Before
  <1> HIDE DEF duration
  <1>5. PICK b : b = Before(f)
    OBVIOUS
  <1>6. b.gte = f.gte - duration /\ b.lte = f.gte - 1 /\ both.gte = b.gte /\ both.lte = f.lte
    BY <1>4, <1>5
  <1> HIDE DEF both
  <1>7. {f.gte, f.lte, b.gte, b.lte, both.gte, both.lte} \subseteq Int
    BY <1>3, <1>6
  <1>8. b.lte - b.gte = duration - 1
    BY ONLY <1>3, <1>6, f.gte \in Int
  <1>9. ASSUME NEW t, t = None \/ t \in Int
        PROVE  /\ Within(t, both) <=> Within(t, f) \/ Within(t, b)
               /\ ~(Within(t, f) /\ Within(t, b))
    <2>1. \A p \in {f, b, both} :
             Within(t, p) <=> t # None /\ t >= p.gte /\ t <= p.lte
      BY <1>1, <1>7 DEF Within
    <2>2. CASE t = None
      BY <2>1, <2>2
    <2>3. CASE t \in Int
      <3>1. t # None
        BY <1>1, <2>3
      <3>2. /\ t >= both.gte /\ t <= both.lte
                <=> (t >= f.gte /\ t <= f.lte) \/ (t >= b.gte /\ t <= b.lte)
            /\ ~((t >= f.gte /\ t <= f.lte) /\ (t >= b.gte /\ t <= b.lte))
        BY ONLY <1>3, <1>6, <2>3, f.gte \in Int, f.lte \in Int, f.gte <= f.lte
      <3> QED BY <2>1, <3>1, <3>2
    <2> QED BY <1>9, <2>2, <2>3
  <1>10. /\ BookedIn(both) = BookedIn(f) \cup BookedIn(b) /\ BookedIn(f) \cap BookedIn(b) = {}
         /\ ReversedIn(both) = ReversedIn(f) \cup ReversedIn(b) /\ ReversedIn(f) \cap ReversedIn(b) = {}
    <2>1. \A s \in Rung : /\ ledger[s].createdAt = None \/ ledger[s].createdAt \in Int
                          /\ ledger[s].cancelledAt = None \/ ledger[s].cancelledAt \in Int
      <3>1. Moments \subseteq Int
        BY DEF Moments
      <3>2. \A s \in Rung : ledger[s] \in LedgerRow
        BY DEF ChargedInv, LedgerInv, LedgerTypeOK
      <3> QED BY <3>1, <3>2 DEF LedgerRow
    <2>2. \A s \in Rung : /\ Booked(s, both) <=> Booked(s, f) \/ Booked(s, b)
                          /\ ~(Booked(s, f) /\ Booked(s, b))
                          /\ Reversed(s, both) <=> Reversed(s, f) \/ Reversed(s, b)
                          /\ ~(Reversed(s, f) /\ Reversed(s, b))
      BY <1>9, <2>1 DEF Booked, Reversed
    <2> QED BY <2>2 DEF BookedIn, ReversedIn
  <1>11. \A p \in {f, b, both} :
            Overview(p).netIncome
               = SumFunctionOnSet(IncomeOf, BookedIn(p)) - SumFunctionOnSet(IncomeOf, ReversedIn(p))
    BY OverviewFigures
  <1>12. ASSUME NEW P \in SUBSET Rung, NEW Q \in SUBSET Rung, P \cap Q = {},
                \A s \in P \cup Q : ledger[s].ticket \in Tickets /\ Chargeable(ledger[s].ticket)
         PROVE  /\ SumFunctionOnSet(IncomeOf, P \cup Q)
                     = SumFunctionOnSet(IncomeOf, P) + SumFunctionOnSet(IncomeOf, Q)
                /\ SumFunctionOnSet(IncomeOf, P) \in Int /\ SumFunctionOnSet(IncomeOf, Q) \in Int
    <2>1. IsFiniteSet(P) /\ IsFiniteSet(Q)
      BY <1>1, FS_Subset
    <2>2. ASSUME NEW s \in P \cup Q
          PROVE  IncomeOf[s] \in Int
      <3>1. PICK t : t = ledger[s].ticket
        OBVIOUS
      <3>2. Subtotal[t] \in Int /\ t.discount \in Nat
        BY <1>12, <3>1, TicketsAddUp
      <3>3. IncomeOf[s] = Subtotal[t] - t.discount
        BY <1>12, <3>1 DEF IncomeOf, Net
      <3> QED BY ONLY <3>2, <3>3
    <2>3. PICK income : income = IncomeOf
      OBVIOUS
    <2>4. \A s \in P \cup Q : income[s] \in Int
      BY <2>2, <2>3
    <2>5. /\ SumFunctionOnSet(income, P \cup Q) = SumFunctionOnSet(income, P) + SumFunctionOnSet(income, Q)
      BY ONLY <1>12, <2>1, <2>4, SumUnion
    <2>6. SumFunctionOnSet(income, P) \in Int /\ SumFunctionOnSet(income, Q) \in Int
      BY ONLY <2>1, <2>4, SumInt
    <2> QED BY <2>3, <2>5, <2>6
  <1>13. /\ {BookedIn(f), BookedIn(b), ReversedIn(f), ReversedIn(b)} \subseteq SUBSET Rung
         /\ \A s \in BookedIn(f) \cup BookedIn(b) \cup ReversedIn(f) \cup ReversedIn(b) :
               ledger[s].ticket \in Tickets /\ Chargeable(ledger[s].ticket)
    <2>1. \A p : BookedIn(p) \in SUBSET Rung /\ ReversedIn(p) \in SUBSET Rung
      BY DEF BookedIn, ReversedIn
    <2>2. \A p : \A s \in BookedIn(p) \cup ReversedIn(p) :
             ledger[s].ticket \in Tickets /\ Chargeable(ledger[s].ticket)
      BY EntriesAreCharged
    <2> QED BY <2>1, <2>2
  <1>14. /\ SumFunctionOnSet(IncomeOf, BookedIn(both))
              = SumFunctionOnSet(IncomeOf, BookedIn(f)) + SumFunctionOnSet(IncomeOf, BookedIn(b))
         /\ SumFunctionOnSet(IncomeOf, BookedIn(f)) \in Int /\ SumFunctionOnSet(IncomeOf, BookedIn(b)) \in Int
    BY <1>10, <1>12, <1>13
  <1>15. /\ SumFunctionOnSet(IncomeOf, ReversedIn(both))
              = SumFunctionOnSet(IncomeOf, ReversedIn(f)) + SumFunctionOnSet(IncomeOf, ReversedIn(b))
         /\ SumFunctionOnSet(IncomeOf, ReversedIn(f)) \in Int /\ SumFunctionOnSet(IncomeOf, ReversedIn(b)) \in Int
    BY <1>10, <1>12, <1>13
  <1>16. Overview(f).netIncome + Overview(b).netIncome = Overview(both).netIncome
    <2>1. /\ Overview(f).netIncome
               = SumFunctionOnSet(IncomeOf, BookedIn(f)) - SumFunctionOnSet(IncomeOf, ReversedIn(f))
          /\ Overview(b).netIncome
               = SumFunctionOnSet(IncomeOf, BookedIn(b)) - SumFunctionOnSet(IncomeOf, ReversedIn(b))
          /\ Overview(both).netIncome
               = SumFunctionOnSet(IncomeOf, BookedIn(both)) - SumFunctionOnSet(IncomeOf, ReversedIn(both))
      BY <1>11
    <2> QED BY ONLY <1>14, <1>15, <2>1
  <1> QED BY <1>3, <1>5, <1>8, <1>16 DEF PeriodsMeet, both

\* The reports tell one story: in every execution the completed sales add up to the same
\* money however they are cut (by user, with those of deleted users set apart; by day, where
\* the report answers), and, one call at a time, every overview is what was charged
\* in its period less what was cancelled in it, and meets the period before it.
THEOREM ReportsTellOneStory == LedgerSpec => []ReportsReconcile
  <1>1. ASSUME ChargedInv
        PROVE  ReportsReconcile
    <2>1. \A r \in Ranges : CutsAddUp(r)
      BY <1>1, CutsDoAddUp
    <2>2. ASSUME serving = 1, NEW f \in {FinancialPeriod(r) : r \in Ranges}
          PROVE  OverviewNetsOut(f) /\ PeriodsMeet(f)
      <3>1. PICK r \in Ranges : f = FinancialPeriod(r)
        OBVIOUS
      <3>2. LedgerTypeOK
        BY <1>1 DEF ChargedInv, LedgerInv
      <3>3. f.gte \in Int /\ f.lte \in Int /\ f.gte <= f.lte
        BY ONLY <3>1, <3>2, PeriodsAreIntervals
      <3>4. \A s \in Rung : ledger[s].status = "CANCELLED" \/ ledger[s].returns = <<>>
        BY <1>1, <2>2 DEF ChargedInv, SalesAreCharged, UpdatesFindCompletedSales
      <3>5. \A s \in Rung : \A p : TimesReturned(s, p) = 0
        BY <3>4, NothingReturned
      <3>6. OverviewNetsOut(f)
        BY <1>1, <3>5, OverviewDoesNetOut
      <3>7. PeriodsMeet(f)
        BY <1>1, <3>3, <3>5, PeriodsDoMeet
      <3> QED BY <3>6, <3>7
    <2> QED BY <2>1, <2>2 DEF ReportsReconcile
  <1>2. ChargedInv => ReportsReconcile
    BY <1>1
  <1> QED BY <1>2, ChargedInitInv, ChargedNextInv, PTL DEF LedgerSpec
===============================================================================
