----------------------------- MODULE ThreadPool -----------------------------
(***************************************************************************)
(* lib/misc/threadpool/threadpool.c: worker threads run tasks that are bound *)
(* to a wsi and meet the service thread of that wsi in its WRITEABLE         *)
(* callbacks.  A section under tp->lock is one step; what the code does      *)
(* without that lock is a step of its own, so that the other threads come   *)
(* in between.  A task and the wsi it is created for share their identity.  *)
(***************************************************************************)
EXTENDS Integers, Sequences, SequencesExt

CONSTANTS
  Workers,        \* threads of the pool
  Tasks,          \* tasks, and wsi
  NoTask,         \* pool->task is NULL
  MaxQueueDepth,  \* max_queue_depth
  Tries           \* waits of one SYNC

ASSUME PoolAssumption ==
  /\ NoTask \notin Tasks
  /\ MaxQueueDepth \in Nat
  /\ Tries \in Nat \ {0}

VARIABLES
  queue,       \* task_queue_head ..., the newest first
  done,        \* task_done_head ...
  pool_task,   \* pool->task
  status,      \* task->status; NONE before it is created, FREED after
  bound,       \* tasks with args.wsi set; their wsi has tp_task set
  outlive,     \* tasks with outlive set
  wanted,      \* tasks with wanted_writeable_cb set
  cancelled,   \* the service thread's event pipe is readable
  pollout,     \* wsi with a WRITEABLE callback asked for
  pc,          \* where a worker is
  temp,        \* the status to return to from a SYNC
  tries,       \* waits a worker has left in its SYNC
  signalled,   \* workers whose wait was ended by a signal
  svc,         \* where the service thread is
  phase,       \* up, finished (lws_threadpool_finish()), gone (destroy)
  wild         \* freed memory was touched: anything may follow

syncVars == <<temp, tries, signalled>>
listVars == <<queue, done>>
vars == <<queue, done, pool_task, status, bound, outlive, wanted, cancelled, pollout,
          pc, syncVars, svc, phase, wild>>

Loop == [at |-> "loop"]
destroying == phase # "up"

Init ==
  /\ queue = <<>> /\ done = <<>>
  /\ pool_task = [w \in Workers |-> NoTask]
  /\ status = [t \in Tasks |-> "NONE"]
  /\ bound = {} /\ outlive = {} /\ wanted = {} /\ pollout = {}
  /\ cancelled = FALSE
  /\ pc = [w \in Workers |-> "idle"]
  /\ temp = [w \in Workers |-> "RUNNING"]
  /\ tries = [w \in Workers |-> 0]
  /\ signalled = {}
  /\ svc = Loop
  /\ phase = "up"
  /\ wild = FALSE

(* lws_threadpool_task_cleanup_destroy()                                     *)
Destroyed(ts) ==
  /\ status' = [t \in Tasks |-> IF t \in ts THEN "FREED" ELSE status[t]]
  /\ bound' = bound \ ts
  /\ outlive' = outlive \ ts
  /\ wanted' = wanted \ ts

SetStatus(t, s) == status' = [status EXCEPT ![t] = s]
Goto(w, place) == pc' = [pc EXCEPT ![w] = place]

(***************************************************************************)
(* A worker thread, lws_threadpool_worker().                                *)
(***************************************************************************)
(* Takes the oldest task; wake_idle is signalled under the lock.             *)
Acquire(w) ==
  /\ pc[w] = "idle"
  /\ ~destroying
  /\ queue # <<>>
  /\ LET t == Last(queue) IN
       /\ pool_task' = [pool_task EXCEPT ![w] = t]
       /\ SetStatus(t, "RUNNING")
       /\ wanted' = wanted \ {t}
  /\ queue' = Front(queue)
  /\ Goto(w, "loop")
  /\ UNCHANGED <<done, bound, outlive, cancelled, pollout, syncVars, svc, phase, wild>>

Exit(w) ==
  /\ pc[w] = "idle"
  /\ destroying
  /\ Goto(w, "exit")
  /\ UNCHANGED <<listVars, pool_task, status, bound, outlive, wanted, cancelled, pollout,
                 syncVars, svc, phase, wild>>

\* Mutant: a running task is not told that the pool is going.
ToldToStopNot(t) == t \notin bound

ToldToStop(t) == destroying \/ t \notin bound

CallTask(w) ==
  /\ pc[w] = "loop"
  /\ IF ToldToStop(pool_task[w]) THEN SetStatus(pool_task[w], "STOPPING") ELSE UNCHANGED status
  /\ Goto(w, "task")
  /\ UNCHANGED <<listVars, pool_task, bound, outlive, wanted, cancelled, pollout,
                 syncVars, svc, phase, wild>>

(* while (task->status == LWS_TP_STATUS_RUNNING)                             *)
Continue(w, s) == Goto(w, IF s = "RUNNING" THEN "loop" ELSE "end")

(* What the task function may return; any task may ask to outlive its wsi.   *)
TaskReturns(w) ==
  LET t == pool_task[w] IN
    /\ pc[w] = "task"
    /\ outlive' \in {outlive, outlive \cup {t}}
    /\ \/ Continue(w, status[t]) /\ UNCHANGED status                   \* CHECKING_IN
       \/ t \notin bound /\ Continue(w, status[t]) /\ UNCHANGED status \* SYNC, bypassed
       \/ t \in bound /\ Goto(w, "sync") /\ UNCHANGED status           \* SYNC
       \/ \E s \in {"FINISHED", "STOPPED"} : SetStatus(t, s) /\ Goto(w, "end")
    /\ UNCHANGED <<listVars, pool_task, bound, wanted, cancelled, pollout,
                   syncVars, svc, phase, wild>>

(***************************************************************************)
(* lws_threadpool_worker_sync().  pool->lock is held except in the wait;     *)
(* only lws_threadpool_dequeue() on a running task takes it too.             *)
(***************************************************************************)
HoldsPoolLock(w) == pc[w] \in {"try", "ask"}

(* The locals of the call go with it.                                        *)
SyncLeave(w) ==
  /\ temp' = [temp EXCEPT ![w] = "RUNNING"]
  /\ tries' = [tries EXCEPT ![w] = 0]

SyncEnter(w) ==
  /\ pc[w] = "sync"
  /\ temp' = [temp EXCEPT ![w] = status[pool_task[w]]]
  /\ tries' = [tries EXCEPT ![w] = Tries]
  /\ SetStatus(pool_task[w], "SYNCING")
  /\ Goto(w, "try")
  /\ UNCHANGED <<listVars, pool_task, bound, outlive, wanted, cancelled, pollout,
                 signalled, svc, phase, wild>>

SyncTry(w) ==
  LET t == pool_task[w] IN
    /\ pc[w] = "try"
    /\ IF t \in bound
       THEN wanted' = wanted \cup {t} /\ Goto(w, "ask") /\ UNCHANGED <<status, temp, tries>>
       ELSE SetStatus(t, "STOPPING") /\ Goto(w, "end") /\ SyncLeave(w) /\ UNCHANGED wanted
    /\ UNCHANGED <<listVars, pool_task, bound, outlive, cancelled, pollout,
                   signalled, svc, phase, wild>>

(* lws_cancel_service(lws_get_context(wsi)): a wsi that was detached since   *)
(* without the pool lock may be freed.                                       *)
SyncAsk(w) ==
  /\ pc[w] = "ask"
  /\ wild' = (pool_task[w] \notin bound)
  /\ cancelled' = TRUE
  /\ Goto(w, "wait")
  /\ signalled' = signalled \ {w}
  /\ UNCHANGED <<listVars, pool_task, status, bound, outlive, wanted, pollout,
                 temp, tries, svc, phase>>

(* Any return of the wait but ETIMEDOUT is taken for the sync.               *)
WaitReturned(w) ==
  LET t == pool_task[w]
      s == IF status[t] = "SYNCING" THEN temp[w] ELSE status[t]
  IN /\ SetStatus(t, s)
     /\ Continue(w, s)
     /\ SyncLeave(w)
     /\ UNCHANGED <<listVars, pool_task, bound, outlive, wanted, cancelled, pollout,
                    phase, wild>>

SyncWoken(w) ==
  /\ pc[w] = "wait"
  /\ w \in signalled
  /\ signalled' = signalled \ {w}
  /\ WaitReturned(w)
  /\ UNCHANGED svc

(* pthread_cond_timedwait() may return although nobody signalled, and no     *)
(* predicate is looked at: the worker leaves the SYNC, whether a callback    *)
(* for it has begun or not.                                                  *)
SpuriousWake(w) ==
  /\ pc[w] = "wait"
  /\ w \notin signalled
  /\ WaitReturned(w)
  /\ svc' = IF svc.at = "sync" /\ svc.t = pool_task[w]
            THEN [at |-> "sync", t |-> svc.t, released |-> TRUE] ELSE svc
  /\ UNCHANGED signalled

\* Mutant: the first wait that times out ends the SYNC as a signal does.
AfterTimeoutGo(w) ==
  /\ SetStatus(pool_task[w], temp[w])
  /\ Continue(w, temp[w])
  /\ SyncLeave(w)

(* Two seconds without a signal: ask again, or stop the task.                *)
AfterTimeout(w) ==
  IF tries[w] = 1
  THEN SetStatus(pool_task[w], "STOPPING") /\ Goto(w, "end") /\ SyncLeave(w)
  ELSE UNCHANGED <<status, temp>> /\ Goto(w, "try") /\ tries' = [tries EXCEPT ![w] = @ - 1]

SyncTimeout(w) ==
  /\ pc[w] = "wait"
  /\ w \notin signalled
  /\ AfterTimeout(w)
  /\ UNCHANGED <<listVars, pool_task, bound, outlive, wanted, cancelled, pollout,
                 signalled, svc, phase, wild>>

ReapsItself(t) == t \notin bound

(* The end of the loop: the task is done, or reaped if it is on its own.     *)
TaskDone(w) ==
  LET t == pool_task[w]
      s == IF status[t] = "STOPPING" THEN "STOPPED" ELSE status[t]
  IN /\ pc[w] = "end"
     /\ IF ReapsItself(t)
        THEN Destroyed({t}) /\ UNCHANGED <<done, cancelled>>
        ELSE /\ SetStatus(t, s)
             /\ done' = <<t>> \o done
             /\ wanted' = wanted \cup {t}
             /\ cancelled' = TRUE
             /\ UNCHANGED <<bound, outlive>>
     /\ pool_task' = [pool_task EXCEPT ![w] = NoTask]
     /\ Goto(w, "idle")
     /\ UNCHANGED <<queue, pollout, syncVars, svc, phase, wild>>

(***************************************************************************)
(* The service thread.                                                      *)
(***************************************************************************)
Enqueue(t) ==
  /\ svc = Loop
  /\ status[t] = "NONE"
  /\ ~destroying
  /\ Len(queue) # MaxQueueDepth
  /\ queue' = <<t>> \o queue
  /\ SetStatus(t, "QUEUED")
  /\ bound' = bound \cup {t}
  /\ UNCHANGED <<done, pool_task, outlive, wanted, cancelled, pollout, pc, syncVars,
                 svc, phase, wild>>

Held == {pool_task[w] : w \in Workers} \ {NoTask}
OnDone == ToSet(done)
Queued == ToSet(queue)

\* Mutant: only running tasks are looked at.
LookedAtHeld == Held

LookedAt == Held \cup OnDone

(* lws_threadpool_tsi_context(), from the event pipe.                        *)
TsiContext ==
  /\ svc = Loop
  /\ cancelled
  /\ cancelled' = FALSE
  /\ LET asked == wanted \cap bound \cap LookedAt IN
       /\ wanted' = wanted \ asked
       /\ pollout' = pollout \cup asked
  /\ UNCHANGED <<listVars, pool_task, status, bound, outlive, pc, syncVars, svc, phase, wild>>

(***************************************************************************)
(* The user's WRITEABLE callback begins with lws_threadpool_task_status_wsi():*)
(* the status is read without a lock.  If the task is SYNCING the callback  *)
(* uses the task's data and ends with lws_threadpool_task_sync().  The      *)
(* connection may have callbacks for reasons of its own as well.  released  *)
(* is history: the worker's wait is over, and not by this callback's signal.*)
(***************************************************************************)
Writeable(t) ==
  /\ svc = Loop
  /\ t \in bound
  /\ pollout' = pollout \ {t}
  /\ svc' = IF status[t] \in {"FINISHED", "STOPPED"} THEN [at |-> "reap", t |-> t]
            ELSE IF status[t] = "SYNCING"
                 THEN [at |-> "sync", t |-> t,
                       released |-> \E w \in signalled : pool_task[w] = t]
                 ELSE Loop
  /\ UNCHANGED <<listVars, pool_task, status, bound, outlive, wanted, cancelled,
                 pc, syncVars, phase, wild>>

(* __lws_threadpool_reap(): "task not in done queue" is only logged, and a   *)
(* worker still has the task then.                                           *)
Reap ==
  /\ svc.at = "reap"
  /\ done' = RemoveFirst(done, svc.t)
  /\ wild' = (svc.t \in Held)
  /\ Destroyed({svc.t})
  /\ svc' = Loop
  /\ UNCHANGED <<queue, pool_task, cancelled, pollout, pc, syncVars, phase>>

TaskSync(stop) ==
  /\ svc.at = "sync"
  /\ IF stop THEN SetStatus(svc.t, "STOPPING") ELSE UNCHANGED status
  /\ signalled' = signalled \cup {w \in Workers : pool_task[w] = svc.t /\ pc[w] = "wait"}
  /\ svc' = Loop
  /\ UNCHANGED <<listVars, pool_task, bound, outlive, wanted, cancelled, pollout,
                 pc, temp, tries, phase, wild>>

\* Mutant: a running task is freed as a waiting one is.
DequeueAny(t) ==
  /\ Destroyed({t})
  /\ queue' = RemoveFirst(queue, t)
  /\ done' = RemoveFirst(done, t)

(* lws_threadpool_dequeue() on a task that does not ask to outlive its wsi.  *)
DequeueTask(t) ==
  IF t \in Held
  THEN /\ \A w \in Workers : pool_task[w] = t => ~HoldsPoolLock(w)
       /\ SetStatus(t, "STOPPING")
       /\ bound' = bound \ {t}
       /\ UNCHANGED <<listVars, outlive, wanted>>
  ELSE /\ Destroyed({t})
       /\ queue' = RemoveFirst(queue, t)
       /\ done' = RemoveFirst(done, t)

(* A wsi closes, and its protocol calls lws_threadpool_dequeue().  Once the  *)
(* pool is freed a wsi that still has a task must not.                       *)
Close(t) ==
  /\ svc = Loop
  /\ t \in bound
  /\ pollout' = pollout \ {t}
  /\ wild' = (phase = "gone")
  /\ IF t \in outlive /\ ~destroying
     THEN bound' = bound \ {t} /\ UNCHANGED <<status, listVars, outlive, wanted>>
     ELSE DequeueTask(t)
  /\ UNCHANGED <<pool_task, cancelled, pc, syncVars, svc, phase>>

(***************************************************************************)
(* lws_threadpool_finish().  After the first task the loop goes on from     *)
(* task->task_queue_next, which is the done queue by then: with nothing     *)
(* there it ends, and otherwise it turns the same tasks round for ever with *)
(* tp->lock held.                                                           *)
(***************************************************************************)
Finish ==
  /\ svc = Loop
  /\ phase = "up"
  /\ phase' = "finished"
  /\ IF queue = <<>> THEN UNCHANGED <<queue, done, status, svc>>
     ELSE /\ queue' = Tail(queue)
          /\ done' = <<Head(queue)>> \o done
          /\ SetStatus(Head(queue), "STOPPED")
          /\ svc' = IF done = <<>> THEN Loop ELSE [at |-> "spin"]
  /\ UNCHANGED <<pool_task, bound, outlive, wanted, cancelled, pollout, pc, syncVars, wild>>

(***************************************************************************)
(* lws_threadpool_destroy(): each worker in turn is woken if it has a task,  *)
(* and joined; what is on the done queue is cleaned up.  pool->task is read *)
(* without a lock, and the broadcast comes later: by then the worker may    *)
(* have freed the task it is sent to.                                       *)
(***************************************************************************)
Joined == IF svc.at \in {"wake", "join"} THEN svc.joined ELSE {}

WakeRead(w) ==
  /\ phase = "finished"
  /\ \/ svc = Loop
     \/ svc.at = "join" /\ w \notin Joined /\ \A v \in Joined : pc[v] = "exit"
  /\ svc' = [at |-> "wake", task |-> pool_task[w], joined |-> Joined \cup {w}]
  /\ UNCHANGED <<listVars, pool_task, status, bound, outlive, wanted, cancelled, pollout,
                 pc, syncVars, phase, wild>>

WakeBroadcast ==
  /\ svc.at = "wake"
  /\ wild' = (svc.task # NoTask /\ status[svc.task] = "FREED")
  /\ signalled' = signalled \cup
       {w \in Workers : svc.task # NoTask /\ pool_task[w] = svc.task /\ pc[w] = "wait"}
  /\ svc' = [at |-> "join", joined |-> Joined]
  /\ UNCHANGED <<listVars, pool_task, status, bound, outlive, wanted, cancelled, pollout,
                 pc, temp, tries, phase>>

CleanedUp == OnDone

Destroy ==
  /\ svc.at = "join" /\ Joined = Workers
  /\ \A w \in Workers : pc[w] = "exit"
  /\ Destroyed(CleanedUp)
  /\ done' = <<>>
  /\ svc' = Loop
  /\ phase' = "gone"
  /\ UNCHANGED <<queue, pool_task, cancelled, pollout, pc, syncVars, wild>>

(* While finish() turns round it has tp->lock.                               *)
TpLockFree == svc.at # "spin"

WorkerStep(w) ==
  /\ ~wild
  /\ \/ TpLockFree /\ (Acquire(w) \/ Exit(w) \/ TaskDone(w))
     \/ CallTask(w) \/ TaskReturns(w)
     \/ SyncEnter(w) \/ SyncTry(w) \/ SyncAsk(w) \/ SyncWoken(w) \/ SyncTimeout(w)

Worker(w) == WorkerStep(w) \/ (~wild /\ SpuriousWake(w))

Service ==
  /\ ~wild
  /\ \/ TsiContext \/ Reap \/ Finish \/ Destroy
     \/ \E t \in Tasks : Enqueue(t) \/ Writeable(t) \/ Close(t)
     \/ \E stop \in BOOLEAN : TaskSync(stop)
     \/ \E w \in Workers : WakeRead(w)
     \/ WakeBroadcast

Next == Service \/ \E w \in Workers : Worker(w)

Spec == Init /\ [][Next]_vars

(* Threads are scheduled, task functions and callbacks return, and waits     *)
(* time out, though none need be woken for no reason; a round of the service *)
(* loop visits the event pipe and every connection that is ready, so none of *)
(* them is passed over for ever.                                             *)
FairSpec ==
  /\ Spec
  /\ \A w \in Workers : WF_vars(WorkerStep(w))
  /\ WF_vars(svc # Loop /\ Service)
  /\ SF_vars(~wild /\ TsiContext)
  /\ \A t \in Tasks : SF_vars(~wild /\ t \in pollout /\ Writeable(t))
-----------------------------------------------------------------------------
(* A task is in one place only: on the queue, on the done queue or with one  *)
(* worker, and a freed one in none.                                          *)
OnePlace ==
  ~wild =>
    /\ IsInjective(queue) /\ IsInjective(done)
    /\ Queued \cap OnDone = {} /\ (Queued \cup OnDone) \cap Held = {}
    /\ \A v, w \in Workers : v # w /\ pool_task[v] # NoTask => pool_task[v] # pool_task[w]
    /\ {t \in Tasks : status[t] \notin {"NONE", "FREED"}} = Queued \cup OnDone \cup Held

(***************************************************************************)
(* README.md: "Task execution and the SYNC writable callbacks are mutually  *)
(* exclusive".  So they are, through lost signals, retries and stops, with  *)
(* two exceptions: a second callback that begins after the first one's      *)
(* signal, before the worker had run again to leave SYNCING; and a wait     *)
(* that returns without a signal while the callback runs, which the code,   *)
(* having no predicate to look at, takes for the sync.                      *)
(***************************************************************************)
ExclusiveSync ==
  svc.at = "sync" /\ ~svc.released =>
    \A w \in Workers : pool_task[w] = svc.t => pc[w] \notin {"loop", "task"}

(* After lws_threadpool_destroy() every task was cleaned up, except those    *)
(* that lws_threadpool_finish() left on the queue.                           *)
DestroyedIsClean ==
  phase = "gone" => \A t \in Tasks : status[t] \in {"NONE", "FREED"} \/ t \in Queued

(***************************************************************************)
(* Tasks are neither lost nor shared: each is on the queue, on the done     *)
(* queue or with one worker until it is freed, whoever reaps, dequeues or   *)
(* finishes it, and lws_threadpool_destroy() leaves none.  Two exceptions:  *)
(* wild, where a WRITEABLE callback between the unlocked FINISHED or        *)
(* STOPPED and the done queue reaps a task that a worker goes on to use, or *)
(* a worker frees the task that destroy() is about to wake;                 *)
(* and the queue lws_threadpool_finish() leaves ("stop everyone in the      *)
(* pending queue" stops the newest only).                                   *)
(***************************************************************************)
TasksAreKept == OnePlace /\ DestroyedIsClean

(* lws_threadpool_finish() never returned.                                   *)
Hung == svc.at = "spin"

(* A task that lost its wsi while a worker had it is reaped in the end.      *)
DetachedIsReaped ==
  \A t \in Tasks : t \in Held /\ t \notin bound ~> status[t] = "FREED" \/ wild \/ Hung

(* A task on the done queue is reaped in the end.                            *)
DoneIsReaped ==
  \A t \in Tasks :
    t \in OnDone /\ phase = "up" ~> \/ status[t] \in {"FREED", "STOPPING"} \/ t \notin bound
                                    \/ phase # "up" \/ wild

(***************************************************************************)
(* No task stays for ever: one that is done is reaped through the WRITEABLE *)
(* callback that the worker asks for, whichever thread looks first; one     *)
(* that lost its wsi while a worker had it by that worker, also when it     *)
(* waits in a SYNC nobody will answer.  Two exceptions stay until their wsi *)
(* closes or until destroy(): a stop that comes after its SYNC was given up *)
(* makes a done task STOPPING again, and a task that asked to outlive its   *)
(* wsi may be done when it does.                                            *)
(***************************************************************************)
FinishedIsReaped == DetachedIsReaped /\ DoneIsReaped

(***************************************************************************)
(* lws_threadpool_destroy() returns: every worker comes to its exit, also   *)
(* one whose wake-up was lost because it was not waiting yet.               *)
(***************************************************************************)
DestroyEnds ==
  svc.at \in {"wake", "join"} ~> phase = "gone" \/ wild
=============================================================================
