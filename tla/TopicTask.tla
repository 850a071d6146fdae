----------------------------- MODULE TopicTask ------------------------------
(***************************************************************************)
(* The delayed task of a TopicHandle (src/api/topic_handle.cpp): a thread  *)
(* that sleeps and calls the application back until it is told to stop.    *)
(* A task is a record of                                                   *)
(*     running, stop : taskRunning_ and taskStop_                          *)
(*     thread        : "none" if taskThread_ is not joinable, "looping" in *)
(*                     taskLoop, "ended" after it                          *)
(* and each operation an operator from task to task.  A join waits for the *)
(* callback that is running, so the thread has ended when it returns.      *)
(***************************************************************************)

NoTask == [running |-> FALSE, stop |-> FALSE, thread |-> "none"]

Tasks == [running : BOOLEAN, stop : BOOLEAN, thread : {"none", "looping", "ended"}]

(* Mutant: the thread is told to stop but not joined.                      *)
MutClearDelayedTask(task) ==
    IF task.running THEN [task EXCEPT !.stop = TRUE, !.running = FALSE] ELSE task

(* clearDelayedTask() by any other thread                                  *)
ClearDelayedTask(task) ==
    IF task.running THEN [running |-> FALSE, stop |-> TRUE, thread |-> "none"]
                    ELSE task

(* _dispose() and the end of the handle: nothing is left of the task, but  *)
(* for a thread that was not joined.                                       *)
Dispose(task) == IF ClearDelayedTask(task).thread = "none" THEN NoTask
                                                           ELSE ClearDelayedTask(task)

(* setDelayedTask() by any other thread: it ends what was there first.     *)
SetDelayedTask(task) == [running |-> TRUE, stop |-> FALSE, thread |-> "looping"]

(* std::terminate, if the thread assigned to is still joinable.            *)
SetTerminates(task) == ClearDelayedTask(task).thread # "none"

(* clearDelayedTask() or setDelayedTask() by the task's own callback: the  *)
(* join throws, taskLoop swallows the exception, and taskStop_ has been    *)
(* set all the same.                                                       *)
CallsOff(task) == [task EXCEPT !.stop = TRUE]

(* taskLoop sees taskStop_.                                                *)
LoopEnds(task) == [task EXCEPT !.thread = "ended"]
=============================================================================
