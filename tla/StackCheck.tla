----------------------------- MODULE StackCheck -----------------------------
(***************************************************************************)
(* SimulatorStackCheck of a build with CROSSPOINT_SIM_STACK_CHECK: every   *)
(* task has a budget; a hook at every function entry estimates the depth   *)
(* of the calling task's stack, keeps the least free space and reports the *)
(* first overflow, which ends the process unless the mode is warn. Compiler*)
(* and host stack are external: frames of any size come and go.            *)
(***************************************************************************)
EXTENDS Naturals, Sequences, SequencesExt

CONSTANTS
  StackTasks,
  Budgets,     (* bound: stack depths given to xTaskCreate                  *)
  Frames,      (* bound: sizes of frames                                    *)
  MaxDepth,    (* bound: nested calls                                       *)
  Entries,     (* SIMULATOR_STACK_BUDGETS: Seq of [name, bytes], where bytes*)
               (* is 0 when it is no number                                 *)
  MaxTasks     (* bound: tasks a thread slot runs one after another         *)

ASSUME StackAssumption ==
  /\ Budgets \subseteq Nat /\ Frames \subseteq Nat \ {0}
  /\ {MaxDepth, MaxTasks} \subseteq Nat
  /\ Entries \in Seq([name : StackTasks, bytes : Nat])

Modes == {"unset", "off", "warn", "fail", "invalid"}

VARIABLES
  mode,     (* CROSSPOINT_SIM_STACK_CHECK                                   *)
  exited,   (* _exit(86) was called                                         *)
  task,     (* of each task: [stage, budget, minimumFree, warned]           *)
  frames,   (* of each task: the depths of the frames on its stack          *)
  peak,     (* history: the deepest each task has been                      *)
  reports,  (* history: overflows reported of each task                     *)
  created   (* history: tasks created                                       *)

stackVars == <<mode, exited, task, frames, peak, reports, created>>

(* simStackCheckTaskBudget: the first entry of that name counts.           *)
Expected(t) ==
  LET named == SelectSeq(Entries, LAMBDA e : e.name = t)
  IN  IF named = <<>> THEN 0 ELSE named[1].bytes
Breach(t, requested) == Expected(t) # 0 /\ requested > Expected(t)

CreateTask(t, budget) ==
  /\ ~exited /\ task[t].stage = "none" /\ created < MaxTasks
  /\ task' = [task EXCEPT ![t] = [stage |-> "created", budget |-> budget,
                                  minimumFree |-> 0, warned |-> FALSE]]
  /\ frames' = [frames EXCEPT ![t] = <<0>>]
  /\ peak' = [peak EXCEPT ![t] = 0] /\ reports' = [reports EXCEPT ![t] = 0]
  /\ created' = created + 1
  /\ UNCHANGED <<mode, exited>>

(* simStackBegin, by the new thread.                                       *)
BeginTask(t) ==
  /\ ~exited /\ task[t].stage = "created"
  /\ CASE mode = "off" ->
            task' = [task EXCEPT ![t].stage = "unchecked"] /\ UNCHANGED exited
       [] mode = "invalid" -> exited' = TRUE /\ UNCHANGED task
       [] OTHER ->
            /\ task' = [task EXCEPT ![t].stage = "checked",
                                    ![t].warned = FALSE,
                                    ![t].minimumFree = task[t].budget]
            /\ UNCHANGED exited
  /\ UNCHANGED <<mode, frames, peak, reports, created>>

(* Seeded fault: the last frame decides, not the deepest.                  *)
LeastOfLast(free, remaining) == remaining
Least(free, remaining) == IF remaining < free THEN remaining ELSE free

Remaining(budget, used) == IF used >= budget THEN 0 ELSE budget - used

(* __cyg_profile_func_enter                                                *)
Enter(t, size) ==
  LET used == Last(frames[t]) + size
      over == task[t].stage = "checked" /\ used > task[t].budget
              /\ ~task[t].warned
  IN  /\ ~exited /\ task[t].stage \in {"checked", "unchecked"}
      /\ Len(frames[t]) <= MaxDepth
      /\ frames' = [frames EXCEPT ![t] = Append(@, used)]
      /\ peak' = [peak EXCEPT ![t] = IF used > @ THEN used ELSE @]
      /\ task' = IF task[t].stage = "unchecked" THEN task
                 ELSE [task EXCEPT
                         ![t].minimumFree =
                           Least(@, Remaining(task[t].budget, used)),
                         ![t].warned = @ \/ over]
      /\ reports' = IF over THEN [reports EXCEPT ![t] = @ + 1] ELSE reports
      /\ exited' = (over /\ mode # "warn")
      /\ UNCHANGED <<mode, created>>

Leave(t) ==
  /\ ~exited /\ Len(frames[t]) > 1
  /\ frames' = [frames EXCEPT ![t] = Front(@)]
  /\ UNCHANGED <<mode, exited, task, peak, reports, created>>

(* simStackEnd; the handle and its usage live until vTaskDelete.           *)
EndTask(t) ==
  /\ ~exited /\ task[t].stage \in {"checked", "unchecked"}
  /\ Len(frames[t]) = 1
  /\ task' = [task EXCEPT ![t].stage = "ended"]
  /\ UNCHANGED <<mode, exited, frames, peak, reports, created>>

DeleteTask(t) ==
  /\ ~exited /\ task[t].stage = "ended"
  /\ task' = [task EXCEPT ![t].stage = "none"]
  /\ UNCHANGED <<mode, exited, frames, peak, reports, created>>

(* uxTaskGetStackHighWaterMark of another task, or of the caller.          *)
HighWaterMark(t, own) ==
  IF own /\ task[t].stage # "checked" THEN 0 ELSE task[t].minimumFree

-----------------------------------------------------------------------------

StackInit ==
  /\ mode \in Modes /\ exited = FALSE
  /\ task = [t \in StackTasks |-> [stage |-> "none", budget |-> 0,
                                   minimumFree |-> 0, warned |-> FALSE]]
  /\ frames = [t \in StackTasks |-> <<0>>]
  /\ peak = [t \in StackTasks |-> 0] /\ reports = [t \in StackTasks |-> 0]
  /\ created = 0

StackNext ==
  \E t \in StackTasks :
    \/ \E budget \in Budgets : CreateTask(t, budget)
    \/ BeginTask(t) \/ EndTask(t) \/ DeleteTask(t) \/ Leave(t)
    \/ \E size \in Frames : Enter(t, size)

-----------------------------------------------------------------------------

(* The high-water mark of a checked task is what its deepest moment left   *)
(* of its budget; a task that was once too deep is reported once, however  *)
(* often it comes back, and ends the process unless the mode is warn; a    *)
(* task that uses its budget to the last byte is not reported, and nothing *)
(* is when the mode is off.                                                *)
StackReported ==
  \A t \in StackTasks :
    /\ task[t].stage \in {"checked", "ended"} /\ mode # "off" =>
         /\ HighWaterMark(t, FALSE) = Remaining(task[t].budget, peak[t])
         /\ reports[t] = IF peak[t] > task[t].budget THEN 1 ELSE 0
    /\ reports[t] # 0 => mode \in {"unset", "warn", "fail"}
    /\ exited /\ mode # "invalid" => \E u \in StackTasks : reports[u] # 0
    /\ reports[t] # 0 /\ mode # "warn" => exited
=============================================================================
