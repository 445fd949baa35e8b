------------------------------ MODULE Scheduler ------------------------------
(***************************************************************************)
(* LUFA/Scheduler: the round robin over the task list, the tick counter    *)
(* that the application's timer interrupt increments, and the delays its   *)
(* tasks measure with it.  Each task polls one delay and runs its body,    *)
(* which may stop or start tasks, when the delay has elapsed.              *)
(***************************************************************************)
EXTENDS Naturals

CONSTANTS
  MAX_DELAYCTR_COUNT,   \* largest value of SchedulerDelayCounter_t
  TOTAL_TASKS,
  Delays,               \* the delays tasks may use
  Groups                \* GroupID of each task

Tasks    == 1..TOTAL_TASKS
Counters == 0..MAX_DELAYCTR_COUNT
TASK_MAX_DELAY == MAX_DELAYCTR_COUNT - 1

ASSUME SchedulerAssumption ==
  /\ MAX_DELAYCTR_COUNT \in Nat \ {0} /\ TOTAL_TASKS \in Nat \ {0}
  /\ Delays \subseteq 0..TASK_MAX_DELAY

VARIABLES
  Scheduler_TickCounter,
  TaskStatus,    \* of the entries of Scheduler_TaskList
  DelayCounter,  \* the counter of each task
  Delay,         \* the delay each task tests for
  CurrTask,      \* entry the loop of Scheduler_GoSchedule is at
  polled,        \* entries passed since the last tick
  age            \* ticks since each counter was set, capped

schedVars == <<Scheduler_TickCounter, TaskStatus, DelayCounter, Delay, CurrTask, polled, age>>

\* Ages from here on are one: the counter has come round.
AgeCap == MAX_DELAYCTR_COUNT + 2

SchedTypeOK ==
  /\ Scheduler_TickCounter \in Counters
  /\ TaskStatus \in [Tasks -> BOOLEAN]
  /\ DelayCounter \in [Tasks -> Counters]
  /\ Delay \in [Tasks -> Delays] /\ CurrTask \in Tasks
  /\ polled \subseteq Tasks /\ age \in [Tasks -> 0..AgeCap]

SchedInit ==
  /\ Scheduler_TickCounter \in Counters
  /\ TaskStatus = [t \in Tasks |-> TRUE]
  /\ DelayCounter = [t \in Tasks |-> Scheduler_TickCounter]  \* Scheduler_ResetDelay
  /\ Delay \in [Tasks -> Delays]
  /\ CurrTask = 1 /\ polled = {} /\ age = [t \in Tasks |-> 0]

-----------------------------------------------------------------------------
\* Mutant: no wrap is considered.
HasDelayElapsedFlat(now, since, delay) == now >= since /\ now - since >= delay

\* The test of Scheduler_HasDelayElapsed; across the wrap it is one tick late.
HasDelayElapsed(now, since, delay) ==
  IF now >= since THEN now - since >= delay
  ELSE (MAX_DELAYCTR_COUNT - since) + now >= delay

\* Mutant: the loop runs one entry past the list.
NextTaskOver == IF CurrTask > TOTAL_TASKS THEN 1 ELSE CurrTask + 1

NextTask == IF CurrTask = TOTAL_TASKS THEN 1 ELSE CurrTask + 1

\* The loop goes on after the entry.
PassEntry ==
  /\ CurrTask' = NextTask /\ polled' = polled \cup {CurrTask}
  /\ UNCHANGED <<Scheduler_TickCounter, Delay>>

Stopped == /\ ~TaskStatus[CurrTask]
           /\ PassEntry
           /\ UNCHANGED <<TaskStatus, DelayCounter, age>>

NotElapsed ==
  /\ TaskStatus[CurrTask]
  /\ ~HasDelayElapsed(Scheduler_TickCounter, DelayCounter[CurrTask], Delay[CurrTask])
  /\ PassEntry
  /\ UNCHANGED <<TaskStatus, DelayCounter, age>>

\* What the body does to the list: nothing, Scheduler_SetTaskMode of a task, or
\* Scheduler_SetGroupTaskMode.  A task that starts others resets their delays.
ListChange(status) ==
  \/ status = TaskStatus
  \/ \E t \in Tasks, on \in BOOLEAN : status = [TaskStatus EXCEPT ![t] = on]
  \/ \E g \in {Groups[t] : t \in Tasks}, on \in BOOLEAN :
       status = [t \in Tasks |-> IF Groups[t] = g THEN on ELSE TaskStatus[t]]

Elapsed ==
  /\ TaskStatus[CurrTask]
  /\ HasDelayElapsed(Scheduler_TickCounter, DelayCounter[CurrTask], Delay[CurrTask])
  /\ ListChange(TaskStatus')
  /\ LET started == {t \in Tasks : TaskStatus'[t] /\ ~TaskStatus[t]} \cup {CurrTask}
     IN  /\ DelayCounter' = [t \in Tasks |-> IF t \in started THEN Scheduler_TickCounter
                                                              ELSE DelayCounter[t]]
         /\ age' = [t \in Tasks |-> IF t \in started THEN 0 ELSE age[t]]
  /\ PassEntry

\* The timer interrupt; the loop passes the whole list between two of them.
Tick ==
  /\ polled = Tasks /\ polled' = {}
  /\ Scheduler_TickCounter' = IF Scheduler_TickCounter = MAX_DELAYCTR_COUNT THEN 0
                              ELSE Scheduler_TickCounter + 1
  /\ age' = [t \in Tasks |-> IF age[t] < AgeCap THEN age[t] + 1 ELSE AgeCap]
  /\ UNCHANGED <<TaskStatus, DelayCounter, Delay, CurrTask>>

SchedNext == Stopped \/ NotElapsed \/ Elapsed \/ Tick

SchedSpec == SchedInit /\ [][SchedNext]_schedVars

-----------------------------------------------------------------------------
\* A running task's delay never ends early, ends at most one tick late, and
\* is never missed because the counter came round first, for every delay up
\* to TASK_MAX_DELAY and every value the counter starts from.
DelaysOnTime ==
  /\ \A t \in Tasks : TaskStatus[t] => age[t] <= Delay[t] + 1
  /\ TaskStatus[CurrTask] /\ HasDelayElapsed(Scheduler_TickCounter, DelayCounter[CurrTask], Delay[CurrTask])
       => age[CurrTask] >= Delay[CurrTask]
=============================================================================
