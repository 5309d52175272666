------------------------------ MODULE SimTasks ------------------------------
(***************************************************************************)
(* The FreeRTOS shim: tasks are std::threads, a task handle holds a        *)
(* notification count with a condition variable, a semaphore is a          *)
(* recursive mutex that remembers a holder (src/src/freertos/*.h).         *)
(*                                                                         *)
(* Threads that xTaskCreate did not make (the main thread, the threads of  *)
(* the web servers) all share the handle simMainTaskHandle. One semaphore  *)
(* is enough: the firmware's render mutex.                                 *)
(*                                                                         *)
(* Between two steps another thread can interfere. Taking the mutex and    *)
(* writing holder are two steps, because xSemaphoreGetMutexHolder reads    *)
(* holder without the mutex.                                               *)
(***************************************************************************)
EXTENDS Integers, FiniteSets

CONSTANTS
  Tasks,     (* slots for tasks made by xTaskCreate                         *)
  Others,    (* threads without a handle of their own; the first is main    *)
  Main,      (* simMainTaskHandle                                           *)
  None,      (* nullptr, "nobody"                                           *)
  MaxCount,  (* bound: outstanding notifications of a handle                *)
  MaxDepth   (* bound: nested takes of the mutex                            *)

ASSUME SimTasksAssumption ==
  /\ IsFiniteSet(Tasks \cup Others) /\ Tasks \cap Others = {}
  /\ {Main, None} \cap (Tasks \cup Others) = {}
  /\ Main # None
  /\ MaxCount \in Nat \ {0} /\ MaxDepth \in Nat \ {0}

Threads == Tasks \cup Others
Handles == Tasks \cup {Main}

(* xTaskGetCurrentTaskHandle: a task's handle is named like its slot.      *)
Current(t) == IF t \in Tasks THEN t ELSE Main

VARIABLES
  pc,         (* where each thread is                                       *)
  target,     (* the handle a thread creates or notifies                    *)
  published,  (* handles whose *handle = h assignment was executed          *)
  count,      (* SimTaskHandle::notifyCount                                 *)
  owner,      (* the thread that owns SimMutex::mtx                         *)
  depth,      (* how often it has locked it                                 *)
  holder,     (* SimMutex::holder                                           *)
  holdCount   (* SimMutex::holdCount                                        *)

taskVars == <<published, count>>
mutexVars == <<owner, depth, holder, holdCount>>
allTaskVars ==
  <<pc, target, published, count, owner, depth, holder, holdCount>>

Labels == {"none", "run", "publish", "signal", "check", "asleep", "lock",
           "locked", "unlock", "peeking", "ended"}

TasksInit ==
  /\ pc = [t \in Threads |-> IF t \in Tasks THEN "none" ELSE "run"]
  /\ target = [t \in Threads |-> None]
  /\ published = {}
  /\ count = [h \in Handles |-> 0]
  /\ owner = None /\ depth = 0
  /\ holder = None /\ holdCount = 0

Goto(t, from, to) ==
  /\ pc[t] = from
  /\ pc' = [pc EXCEPT ![t] = to]

-----------------------------------------------------------------------------
(* Tasks.                                                                  *)

(* xTaskCreate, xTaskCreateStatic, xTaskCreatePinnedToCore: the new thread *)
(* runs before its creator has stored the handle.                          *)
Create(t, child) ==
  /\ pc[t] = "run"
  /\ pc[child] = "none"
  /\ pc' = [pc EXCEPT ![t] = "publish", ![child] = "run"]
  /\ target' = [target EXCEPT ![t] = child]
  /\ count' = [count EXCEPT ![child] = 0]
  /\ UNCHANGED <<published, mutexVars>>

Publish(t) ==
  /\ Goto(t, "publish", "run")
  /\ published' = published \cup {target[t]}
  /\ target' = [target EXCEPT ![t] = None]
  /\ UNCHANGED <<count, mutexVars>>

(* The task function returns; it has given back the mutex.                 *)
Return(t) ==
  /\ t \in Tasks
  /\ owner # t
  /\ Goto(t, "run", "ended")
  /\ UNCHANGED <<target, taskVars, mutexVars>>

(* vTaskDelete(h). The firmware is assumed to delete only a task that has  *)
(* ended and that no one is notifying: the shim frees the handle under     *)
(* their feet otherwise.                                                   *)
Delete(t, victim) ==
  /\ pc[t] = "run"
  /\ victim \in published
  /\ pc[victim] = "ended"
  /\ \A u \in Threads : target[u] # victim
  /\ pc' = [pc EXCEPT ![victim] = "none"]
  /\ published' = published \ {victim}
  /\ UNCHANGED <<target, count, mutexVars>>

-----------------------------------------------------------------------------
(* Notifications.                                                          *)

(* xTaskNotify counts under the handle's lock ...                          *)
Notify(t, h) ==
  /\ Goto(t, "run", "signal")
  /\ h \in published \cup {Main}
  /\ count[h] < MaxCount
  /\ count' = [count EXCEPT ![h] = @ + 1]
  /\ target' = [target EXCEPT ![t] = h]
  /\ UNCHANGED <<published, mutexVars>>

Sleepers(h) == {t \in Threads : Current(t) = h /\ pc[t] = "asleep"}

(* Seeded fault: notify_one is forgotten.                                  *)
SignalNobody(t) ==
  /\ Goto(t, "signal", "run")
  /\ target' = [target EXCEPT ![t] = None]
  /\ UNCHANGED <<taskVars, mutexVars>>

(* ... and wakes one sleeper after it has released the lock.               *)
Signal(t) ==
  /\ pc[t] = "signal"
  /\ LET sleepers == Sleepers(target[t])
     IN  \/ /\ sleepers = {}
            /\ pc' = [pc EXCEPT ![t] = "run"]
         \/ \E s \in sleepers :
              pc' = [pc EXCEPT ![t] = "run", ![s] = "check"]
  /\ target' = [target EXCEPT ![t] = None]
  /\ UNCHANGED <<taskVars, mutexVars>>

(* ulTaskNotifyTake: the wait tests its predicate under the handle's lock  *)
(* and goes to sleep in the same step; the timeout is ignored.             *)
StartTake(t) ==
  /\ Goto(t, "run", "check")
  /\ UNCHANGED <<target, taskVars, mutexVars>>

Take(t) ==
  /\ count[Current(t)] > 0
  /\ Goto(t, "check", "run")
  /\ count' = [count EXCEPT ![Current(t)] = @ - 1]
  /\ UNCHANGED <<target, published, mutexVars>>

Sleep(t) ==
  /\ count[Current(t)] = 0
  /\ Goto(t, "check", "asleep")
  /\ UNCHANGED <<target, taskVars, mutexVars>>

(* A condition variable may wake up for no reason.                         *)
WakeSpuriously(t) ==
  /\ Goto(t, "asleep", "check")
  /\ UNCHANGED <<target, taskVars, mutexVars>>

-----------------------------------------------------------------------------
(* The semaphore.                                                          *)

(* MaxDepth bounds what a thread asks for, never what the mutex grants.    *)
StartLock(t) ==
  /\ owner = t => depth < MaxDepth
  /\ Goto(t, "run", "lock")
  /\ UNCHANGED <<target, taskVars, mutexVars>>

(* The recursive mutex lets its owner in again.                            *)
Free(t) == owner \in {None, t}

Lock(t) ==
  /\ Goto(t, "lock", "locked")
  /\ Free(t)
  /\ owner' = t
  /\ depth' = depth + 1
  /\ UNCHANGED <<target, taskVars, holder, holdCount>>

(* Seeded fault: a nested take is not counted.                             *)
SetHolderUncounted(t) ==
  /\ Goto(t, "locked", "run")
  /\ holder' = Current(t)
  /\ holdCount' = 1
  /\ UNCHANGED <<target, taskVars, owner, depth>>

SetHolder(t) ==
  /\ Goto(t, "locked", "run")
  /\ holder' = Current(t)
  /\ holdCount' = holdCount + 1
  /\ UNCHANGED <<target, taskVars, owner, depth>>

(* xSemaphoreGive, called by the owner: the book-keeping comes first.      *)
Give(t) ==
  /\ owner = t
  /\ Goto(t, "run", "unlock")
  /\ holdCount' = IF holdCount > 0 THEN holdCount - 1 ELSE 0
  /\ holder' = IF holdCount' = 0 THEN None ELSE holder
  /\ UNCHANGED <<target, taskVars, owner, depth>>

Unnest == IF depth = 1 THEN owner' = None /\ depth' = 0
                       ELSE owner' = owner /\ depth' = depth - 1

Unlock(t) ==
  /\ Goto(t, "unlock", "run")
  /\ Unnest
  /\ UNCHANGED <<target, taskVars, holder, holdCount>>

(* xQueuePeek tries the lock and releases it again. Meanwhile the mutex is *)
(* taken for everyone else. A peek that fails changes nothing.             *)
PeekTry(t) ==
  /\ Free(t)
  /\ owner = t => depth < MaxDepth
  /\ Goto(t, "run", "peeking")
  /\ owner' = t
  /\ depth' = depth + 1
  /\ UNCHANGED <<target, taskVars, holder, holdCount>>

PeekDone(t) ==
  /\ Goto(t, "peeking", "run")
  /\ Unnest
  /\ UNCHANGED <<target, taskVars, holder, holdCount>>

-----------------------------------------------------------------------------

NotifyStep(t) == Signal(t) \/ Take(t) \/ Sleep(t)

TasksNext ==
  \E t \in Threads :
    \/ \E u \in Tasks : Create(t, u) \/ Delete(t, u)
    \/ Publish(t) \/ Return(t)
    \/ \E h \in Handles : Notify(t, h)
    \/ Signal(t) \/ StartTake(t) \/ Take(t) \/ Sleep(t) \/ WakeSpuriously(t)
    \/ StartLock(t) \/ Lock(t) \/ SetHolder(t) \/ Give(t) \/ Unlock(t)
    \/ PeekTry(t) \/ PeekDone(t)

TasksSpec == TasksInit /\ [][TasksNext]_allTaskVars

(* Host threads are scheduled; a task decides by itself when to call.      *)
TasksFairSpec ==
  TasksSpec /\ \A t \in Threads : WF_allTaskVars(NotifyStep(t))

-----------------------------------------------------------------------------
(* Properties.                                                             *)

(* Every variable keeps its type; counts never go below zero.              *)
TypeOK ==
  /\ pc \in [Threads -> Labels]
  /\ target \in [Threads -> Handles \cup {None}]
  /\ published \subseteq Tasks
  /\ count \in [Handles -> 0 .. MaxCount]
  /\ owner \in Threads \cup {None}
  /\ depth \in 0 .. MaxDepth
  /\ holder \in Handles \cup {None}
  /\ holdCount \in 0 .. MaxDepth

(* No lost wake-up: when a notification is outstanding and a thread sleeps *)
(* on that handle, someone is about to signal it or is already awake and   *)
(* about to take the notification. The signal comes after the unlock, and  *)
(* several threads share the main handle.                                  *)
NoLostWakeup ==
  \A h \in Handles : count[h] > 0 /\ Sleepers(h) # {} =>
    \/ \E t \in Threads : pc[t] = "signal" /\ target[t] = h
    \/ \E t \in Threads : Current(t) = h /\ pc[t] = "check"

(* A task that asks whether it holds the mutex gets the right answer,      *)
(* although holder is read without the mutex and written by others, and    *)
(* nested takes and peeks come and go.                                     *)
HolderIsSelf ==
  \A t \in Tasks : pc[t] = "run" =>
    /\ holder = t <=> owner = t
    /\ owner = t => holdCount = depth

(* A notified task does not sleep for ever.                                *)
NotifiedTaskWakes ==
  \A t \in Tasks : pc[t] = "asleep" /\ count[t] > 0 ~> pc[t] # "asleep"
=============================================================================
