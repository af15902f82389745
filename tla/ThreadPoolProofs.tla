-------------------------- MODULE ThreadPoolProofs --------------------------
(***************************************************************************)
(* What ThreadPool promises for any number of workers and tasks: a task is  *)
(* neither lost nor shared (TasksAreKept), and the user's WRITEABLE         *)
(* callback and the task function do not run at the same time               *)
(* (ExclusiveSync).                                                         *)
(*                                                                          *)
(* Neither is inductive.  That a task is in one place only needs to know    *)
(* that a worker holds one exactly in part of its loop (Working) and that   *)
(* what the service thread is about to reap is still there (Serving); the   *)
(* rendezvous needs to know that nobody has signalled the worker yet, nor   *)
(* has its wait come back by itself.  All of it ends where freed memory is  *)
(* used: wild.                                                              *)
(***************************************************************************)
EXTENDS ThreadPool, ListTheorems

HeldStatus == {"RUNNING", "STOPPING", "SYNCING", "FINISHED", "STOPPED"}
InSync == {"try", "ask", "wait"}
Places == {"idle", "loop", "task", "sync", "try", "ask", "wait", "end", "exit"}

Types ==
  /\ queue \in Seq(Tasks)
  /\ done \in Seq(Tasks)
  /\ pool_task \in [Workers -> Tasks \cup {NoTask}]
  /\ status \in [Tasks -> HeldStatus \cup {"NONE", "QUEUED", "FREED"}]
  /\ pc \in [Workers -> Places]
  /\ temp \in [Workers -> HeldStatus \ {"SYNCING"}]

(* The parts of OnePlace.                                                    *)
Alive == {t \in Tasks : status[t] \notin {"NONE", "FREED"}}

Placed ==
  /\ IsInjective(queue)
  /\ IsInjective(done)
  /\ Queued \cap OnDone = {}
  /\ (Queued \cup OnDone) \cap Held = {}
  /\ \A v, w \in Workers : v # w /\ pool_task[v] # NoTask => pool_task[v] # pool_task[w]
  /\ Alive = Queued \cup OnDone \cup Held

(* A worker has a task from Acquire to TaskDone, and the task is SYNCING     *)
(* only while the worker is in lws_threadpool_worker_sync().                 *)
Working ==
  \A w \in Workers :
    /\ pool_task[w] = NoTask <=> pc[w] \in {"idle", "exit"}
    /\ pool_task[w] # NoTask =>
         /\ status[pool_task[w]] \in HeldStatus
         /\ status[pool_task[w]] = "SYNCING" => pc[w] \in InSync

(* Where the service thread may be with a task in its hands.                 *)
Serving ==
  /\ bound \in SUBSET Alive
  /\ \A t \in Queued : status[t] = "QUEUED"
  /\ svc.at \in {"reap", "sync"} => svc.t \in bound \ Queued /\ phase # "gone"
  /\ svc.at = "sync" /\ ~svc.released =>
       \A w \in Workers : pool_task[w] = svc.t => pc[w] \in InSync \cup {"end"} /\ w \notin signalled

Gone ==
  phase = "gone" => done = <<>> /\ \A w \in Workers : pc[w] = "exit"

KeptInv == Types /\ Placed /\ Working /\ Serving /\ Gone

ThreadInv ==
  /\ ~wild => KeptInv
  /\ DestroyedIsClean
  /\ ExclusiveSync
-----------------------------------------------------------------------------
(***************************************************************************)
(* A worker goes on with the task it has.                                   *)
(***************************************************************************)
LEMMA WorkerGoesOn ==
  ASSUME KeptInv, NEW w \in Workers, pool_task[w] # NoTask,
         UNCHANGED <<queue, done, pool_task, phase, bound>>,
         svc'.at = svc.at, svc'.t = svc.t,
         NEW s \in HeldStatus, status' = [status EXCEPT ![pool_task[w]] = s],
         NEW p \in Places \ {"idle", "exit"}, pc' = [pc EXCEPT ![w] = p],
         temp' \in [Workers -> HeldStatus \ {"SYNCING"}],
         signalled' \in SUBSET signalled,
         s = "SYNCING" => p \in InSync,
         svc.at = "sync" /\ ~svc'.released =>
           /\ ~svc.released
           /\ svc.t = pool_task[w] /\ pc[w] \in InSync \cup {"end"} /\ w \notin signalled
                => p \in InSync \cup {"end"}
  PROVE  KeptInv'
<1> DEFINE t == pool_task[w]
<1>1. t \in Tasks /\ t \in Held
  BY DEF KeptInv, Types, Held
<1>2. Queued' = Queued /\ OnDone' = OnDone /\ Held' = Held
  BY DEF Queued, OnDone, Held
<1> HIDE DEF t
<1>3. Types'
  BY <1>1 DEF KeptInv, Types, t
<1>4. \A u \in Tasks : status'[u] = IF u = t THEN s ELSE status[u]
  BY <1>1 DEF KeptInv, Types, t
<1>5. t \in Alive /\ Alive' = Alive
  BY <1>1, <1>4 DEF KeptInv, Working, HeldStatus, Alive, t
<1>6. Placed'
  BY <1>2, <1>5 DEF KeptInv, Placed
<1>7. \A v \in Workers : v # w => pool_task[v] # t /\ pc'[v] = pc[v]
  BY <1>1 DEF KeptInv, Types, Placed, t
<1>8. pc'[w] = p
  BY DEF KeptInv, Types
<1>9. Working'
  <2> SUFFICES ASSUME NEW v \in Workers
               PROVE  /\ pool_task[v] = NoTask <=> pc'[v] \in {"idle", "exit"}
                      /\ pool_task[v] # NoTask =>
                           /\ status'[pool_task[v]] \in HeldStatus
                           /\ status'[pool_task[v]] = "SYNCING" => pc'[v] \in InSync
    BY DEF Working
  <2>1. CASE v = w
    BY <1>1, <1>4, <1>8, <2>1 DEF t
  <2>2. CASE v # w
    <3>1. pool_task[v] # NoTask => pool_task[v] \in Tasks
      BY DEF KeptInv, Types
    <3> QED BY <1>4, <1>7, <2>2, <3>1 DEF KeptInv, Working
  <2> QED BY <2>1, <2>2
<1>10. t \notin Queued
  BY <1>1 DEF KeptInv, Placed
<1>11. Serving'
  <2>1. bound' \in SUBSET Alive'
    BY <1>5 DEF KeptInv, Serving
  <2>2. \A u \in Queued' : status'[u] = "QUEUED"
    <3>1. Queued \in SUBSET Tasks
      BY DEF Queued, ToSet, KeptInv, Types
    <3> QED BY <1>2, <1>4, <1>10, <3>1 DEF KeptInv, Serving
  <2>3. svc'.at \in {"reap", "sync"} => svc'.t \in bound' \ Queued' /\ phase' # "gone"
    BY <1>2 DEF KeptInv, Serving
  <2>4. ASSUME svc.at = "sync", ~svc'.released, NEW v \in Workers, pool_task[v] = svc.t
        PROVE  pc'[v] \in InSync \cup {"end"} /\ v \notin signalled'
    <3>1. pc[v] \in InSync \cup {"end"} /\ v \notin signalled
      BY <2>4 DEF KeptInv, Serving
    <3> QED BY <1>7, <1>8, <2>4, <3>1
  <2> QED BY <2>1, <2>2, <2>3, <2>4 DEF Serving
<1>12. Gone'
  BY DEF KeptInv, Gone, Working
<1> QED BY <1>3, <1>6, <1>9, <1>11, <1>12 DEF KeptInv

(* It does so without the service thread noticing.                           *)
LEMMA WorkerMoves ==
  ASSUME KeptInv, NEW w \in Workers, pool_task[w] # NoTask,
         UNCHANGED <<queue, done, pool_task, svc, phase, bound>>,
         NEW s \in HeldStatus, status' = [status EXCEPT ![pool_task[w]] = s],
         NEW p \in Places \ {"idle", "exit"}, pc' = [pc EXCEPT ![w] = p],
         temp' \in [Workers -> HeldStatus \ {"SYNCING"}],
         signalled' \in SUBSET signalled,
         s = "SYNCING" => p \in InSync,
         pc[w] \in InSync \cup {"end"} /\ w \notin signalled => p \in InSync \cup {"end"}
  PROVE  KeptInv'
BY WorkerGoesOn

(* The status of the task a worker has, as it was.                           *)
LEMMA HeldFacts ==
  ASSUME KeptInv, NEW w \in Workers, pc[w] \notin {"idle", "exit"}
  PROVE  /\ pool_task[w] # NoTask /\ pool_task[w] \in Tasks
         /\ status[pool_task[w]] \in HeldStatus
         /\ status[pool_task[w]] = "SYNCING" => pc[w] \in InSync
         /\ status = [status EXCEPT ![pool_task[w]] = status[pool_task[w]]]
BY DEF KeptInv, Types, Working

(* The steps a worker takes with its task in hand.                           *)
LEMMA WorkerSteps ==
  ASSUME KeptInv, NEW w \in Workers,
         \/ CallTask(w) \/ TaskReturns(w)
         \/ SyncEnter(w) \/ SyncTry(w) \/ SyncAsk(w) \/ SyncTimeout(w)
         \/ SyncWoken(w) \/ SpuriousWake(w)
  PROVE  KeptInv'
<1> DEFINE t == pool_task[w]
<1>0. temp \in [Workers -> HeldStatus \ {"SYNCING"}] /\ "RUNNING" \in HeldStatus \ {"SYNCING"}
  BY DEF KeptInv, Types, HeldStatus
<1>1. [temp EXCEPT ![w] = "RUNNING"] \in [Workers -> HeldStatus \ {"SYNCING"}]
  BY <1>0
<1>2. CASE CallTask(w)
  <2>1. pc[w] = "loop" /\ pc' = [pc EXCEPT ![w] = "task"] /\ temp' = temp /\ signalled' = signalled
        /\ UNCHANGED <<queue, done, pool_task, svc, phase, bound>>
        /\ (status' = [status EXCEPT ![t] = "STOPPING"] \/ status' = status)
    BY <1>2 DEF CallTask, Goto, SetStatus, listVars, syncVars
  <2>2. /\ t # NoTask /\ status[t] \in HeldStatus /\ status[t] # "SYNCING"
        /\ status = [status EXCEPT ![t] = status[t]]
    BY <2>1, HeldFacts DEF InSync
  <2>3. PICK s \in HeldStatus : status' = [status EXCEPT ![t] = s] /\ s # "SYNCING"
    BY <2>1, <2>2 DEF HeldStatus
  <2>4. "task" \in Places \ {"idle", "exit"} /\ pc[w] \notin InSync \cup {"end"}
    BY <2>1 DEF Places, InSync
  <2> QED BY <1>0, <2>1, <2>2, <2>3, <2>4, WorkerMoves
<1>3. CASE TaskReturns(w)
  <2>1. pc[w] = "task" /\ temp' = temp /\ signalled' = signalled
        /\ UNCHANGED <<queue, done, pool_task, svc, phase, bound>>
    BY <1>3 DEF TaskReturns, listVars, syncVars
  <2>2. /\ t # NoTask /\ status[t] \in HeldStatus /\ status[t] # "SYNCING"
        /\ status = [status EXCEPT ![t] = status[t]]
    BY <2>1, HeldFacts DEF InSync
  <2>3. PICK s \in HeldStatus : status' = [status EXCEPT ![t] = s] /\ s # "SYNCING"
    BY <1>3, <2>2 DEF TaskReturns, SetStatus, HeldStatus
  <2>4. PICK p \in Places \ {"idle", "exit"} : pc' = [pc EXCEPT ![w] = p]
    BY <1>3 DEF TaskReturns, Continue, Goto, Places
  <2>5. pc[w] \notin InSync \cup {"end"}
    BY <2>1 DEF InSync
  <2> QED BY <1>0, <2>1, <2>2, <2>3, <2>4, <2>5, WorkerMoves
<1>4. CASE SyncEnter(w)
  <2>1. pc[w] = "sync" /\ temp' = [temp EXCEPT ![w] = status[t]] /\ signalled' = signalled
        /\ UNCHANGED <<queue, done, pool_task, svc, phase, bound>>
        /\ status' = [status EXCEPT ![t] = "SYNCING"] /\ pc' = [pc EXCEPT ![w] = "try"]
    BY <1>4 DEF SyncEnter, listVars, Goto, SetStatus
  <2>2. t # NoTask /\ status[t] \in HeldStatus \ {"SYNCING"}
    BY <2>1, HeldFacts DEF InSync
  <2>3. temp' \in [Workers -> HeldStatus \ {"SYNCING"}]
    BY <1>0, <2>1, <2>2
  <2>4. "try" \in Places \ {"idle", "exit"} /\ "try" \in InSync /\ "SYNCING" \in HeldStatus
    BY DEF Places, InSync, HeldStatus
  <2> QED BY <2>1, <2>2, <2>3, <2>4, WorkerMoves
<1>5. CASE SyncTry(w)
  <2>1. pc[w] = "try" /\ signalled' = signalled
        /\ UNCHANGED <<queue, done, pool_task, svc, phase, bound>>
    BY <1>5 DEF SyncTry, listVars
  <2>2. t # NoTask /\ status[t] \in HeldStatus /\ status = [status EXCEPT ![t] = status[t]]
    BY <2>1, HeldFacts
  <2>3. CASE status' = status /\ temp' = temp /\ pc' = [pc EXCEPT ![w] = "ask"]
    <3>1. "ask" \in Places \ {"idle", "exit"} /\ "ask" \in InSync
      BY DEF Places, InSync
    <3> QED BY <1>0, <2>1, <2>2, <2>3, <3>1, WorkerMoves
  <2>4. CASE status' = [status EXCEPT ![t] = "STOPPING"] /\ temp' = [temp EXCEPT ![w] = "RUNNING"]
             /\ pc' = [pc EXCEPT ![w] = "end"]
    <3>1. "end" \in Places \ {"idle", "exit"} /\ "STOPPING" \in HeldStatus
      BY DEF Places, HeldStatus
    <3> QED BY <1>1, <2>1, <2>2, <2>4, <3>1, WorkerMoves
  <2> QED BY <1>5, <2>3, <2>4 DEF SyncTry, Goto, SetStatus, SyncLeave
<1>6. CASE SyncAsk(w)
  <2>1. pc[w] = "ask" /\ signalled' \in SUBSET signalled /\ temp' = temp /\ status' = status
        /\ UNCHANGED <<queue, done, pool_task, svc, phase, bound>>
        /\ pc' = [pc EXCEPT ![w] = "wait"]
    BY <1>6 DEF SyncAsk, listVars, Goto
  <2>2. t # NoTask /\ status[t] \in HeldStatus /\ status = [status EXCEPT ![t] = status[t]]
    BY <2>1, HeldFacts
  <2>3. "wait" \in Places \ {"idle", "exit"} /\ "wait" \in InSync
    BY DEF Places, InSync
  <2> QED BY <1>0, <2>1, <2>2, <2>3, WorkerMoves
<1>7. CASE SyncWoken(w) \/ SpuriousWake(w)
  <2> DEFINE s == IF status[t] = "SYNCING" THEN temp[w] ELSE status[t]
  <2>1. pc[w] = "wait" /\ signalled' \in SUBSET signalled
        /\ UNCHANGED <<queue, done, pool_task, phase, bound>>
        /\ temp' = [temp EXCEPT ![w] = "RUNNING"] /\ status' = [status EXCEPT ![t] = s]
        /\ pc' = [pc EXCEPT ![w] = IF s = "RUNNING" THEN "loop" ELSE "end"]
    BY <1>7 DEF SyncWoken, SpuriousWake, WaitReturned, listVars, SetStatus, Continue, Goto, SyncLeave
  <2>2. t # NoTask /\ status[t] \in HeldStatus
    BY <2>1, HeldFacts
  <2>3. s \in HeldStatus /\ s # "SYNCING"
    BY <1>0, <2>2
  <2> HIDE DEF s
  <2>4. PICK p \in Places \ {"idle", "exit"} : pc' = [pc EXCEPT ![w] = p]
    BY <2>1 DEF Places
  <2>5. CASE w \in signalled /\ svc' = svc
    BY <1>1, <2>1, <2>2, <2>3, <2>4, <2>5, WorkerMoves
  <2>6. CASE svc' = IF svc.at = "sync" /\ svc.t = t
                    THEN [at |-> "sync", t |-> svc.t, released |-> TRUE] ELSE svc
    <3>1. /\ svc'.at = svc.at /\ svc'.t = svc.t
          /\ svc.at = "sync" /\ ~svc'.released => ~svc.released /\ svc.t # t
      BY <2>6
    <3>2. svc.at = "sync" /\ ~svc'.released =>
            /\ ~svc.released
            /\ svc.t = pool_task[w] /\ pc[w] \in InSync \cup {"end"} /\ w \notin signalled
                 => p \in InSync \cup {"end"}
      BY <3>1
    <3>3. svc'.at = svc.at
      BY <3>1
    <3>4. svc'.t = svc.t
      BY <3>1
    <3>5. temp' \in [Workers -> HeldStatus \ {"SYNCING"}]
      BY <1>1, <2>1
    <3>6. UNCHANGED <<queue, done, pool_task, phase, bound>>
      BY <2>1
    <3>7. status' = [status EXCEPT ![pool_task[w]] = s] /\ signalled' \in SUBSET signalled
      BY <2>1
    <3> QED BY <1>0, <2>2, <2>3, <2>4, <3>2, <3>3, <3>4, <3>5, <3>6, <3>7, WorkerGoesOn
  <2> QED BY <1>7, <2>5, <2>6 DEF SyncWoken, SpuriousWake
<1>8. CASE SyncTimeout(w)
  <2>1. pc[w] = "wait" /\ signalled' = signalled
        /\ UNCHANGED <<queue, done, pool_task, svc, phase, bound>>
    BY <1>8 DEF SyncTimeout, listVars
  <2>2. t # NoTask /\ status[t] \in HeldStatus /\ status = [status EXCEPT ![t] = status[t]]
    BY <2>1, HeldFacts
  <2>3. CASE status' = [status EXCEPT ![t] = "STOPPING"] /\ temp' = [temp EXCEPT ![w] = "RUNNING"]
             /\ pc' = [pc EXCEPT ![w] = "end"]
    <3>1. "end" \in Places \ {"idle", "exit"} /\ "STOPPING" \in HeldStatus
      BY DEF Places, HeldStatus
    <3> QED BY <1>1, <2>1, <2>2, <2>3, <3>1, WorkerMoves
  <2>4. CASE status' = status /\ temp' = temp /\ pc' = [pc EXCEPT ![w] = "try"]
    <3>1. "try" \in Places \ {"idle", "exit"} /\ "try" \in InSync
      BY DEF Places, InSync
    <3> QED BY <1>0, <2>1, <2>2, <2>4, <3>1, WorkerMoves
  <2> QED BY <1>8, <2>3, <2>4 DEF SyncTimeout, AfterTimeout, SetStatus, Goto, SyncLeave
<1> QED BY <1>2, <1>3, <1>4, <1>5, <1>6, <1>7, <1>8

(* What is used of the state in the proofs below.                            *)
LEMMA PlaceFacts ==
  ASSUME KeptInv
  PROVE  /\ queue \in Seq(Tasks) /\ IsInjective(queue) /\ Queued \in SUBSET Tasks
         /\ done \in Seq(Tasks) /\ IsInjective(done) /\ OnDone \in SUBSET Tasks
         /\ Held \in SUBSET Tasks /\ NoTask \notin Held
         /\ \A w \in Workers : pool_task[w] # NoTask => pool_task[w] \in Held
BY DEF KeptInv, Types, Placed, Queued, OnDone, Held, ToSet

(* lws_threadpool_worker() takes the oldest task off the queue.              *)
LEMMA AcquireKeeps ==
  ASSUME KeptInv, NEW w \in Workers, Acquire(w)
  PROVE  KeptInv'
<1> DEFINE t == Last(queue)
<1>1. /\ pc[w] = "idle" /\ phase = "up" /\ queue # <<>>
      /\ pool_task' = [pool_task EXCEPT ![w] = t]
      /\ status' = [status EXCEPT ![t] = "RUNNING"]
      /\ queue' = Front(queue) /\ pc' = [pc EXCEPT ![w] = "loop"]
      /\ UNCHANGED <<done, bound, temp, signalled, svc, phase>>
  BY DEF Acquire, SetStatus, Goto, syncVars, destroying
<1>2. /\ queue' \in Seq(Tasks) /\ IsInjective(queue') /\ Queued' = Queued \ {t}
      /\ t \in Queued /\ OnDone' = OnDone
  <2>1. /\ Len(queue) \in 1..Len(queue) /\ t = queue[Len(queue)]
        /\ queue' = RemoveAt(queue, Len(queue))
    BY <1>1, PlaceFacts, EndFacts
  <2>2. DOMAIN queue = 1..Len(queue)
    BY PlaceFacts, LenProperties
  <2> HIDE DEF t
  <2>3. t \in Queued
    BY <2>1, <2>2 DEF Queued, ToSet
  <2>4. queue' \in Seq(Tasks) /\ IsInjective(queue') /\ ToSet(queue') = ToSet(queue) \ {t}
    BY <2>1, PlaceFacts, RemoveAtFacts
  <2> QED BY <1>1, <2>3, <2>4 DEF Queued, OnDone
<1> HIDE DEF t
<1>3. t \in Tasks /\ t \notin Held /\ t \notin OnDone /\ t # NoTask /\ pool_task[w] = NoTask
  BY <1>1, <1>2, PlaceFacts, PoolAssumption DEF KeptInv, Placed, Working
<1>4. /\ \A v \in Workers : pool_task'[v] = IF v = w THEN t ELSE pool_task[v]
      /\ \A v \in Workers : pc'[v] = IF v = w THEN "loop" ELSE pc[v]
      /\ \A u \in Tasks : status'[u] = IF u = t THEN "RUNNING" ELSE status[u]
  BY <1>1, <1>3 DEF KeptInv, Types
<1>5. Held' = Held \cup {t}
  BY <1>3, <1>4 DEF Held
<1>6. Types'
  BY <1>1, <1>2, <1>3 DEF KeptInv, Types, HeldStatus, Places
<1>7. Alive' = Alive
  <2>1. t \in Alive
    BY <1>2 DEF KeptInv, Placed
  <2> QED BY <1>4, <2>1 DEF Alive
<1>8. \A v \in Workers : pool_task[v] # t
  BY <1>3, PlaceFacts
<1>9. Placed'
  <2>1. IsInjective(queue') /\ IsInjective(done')
    BY <1>1, <1>2 DEF KeptInv, Placed
  <2>2. Queued' \cap OnDone' = {} /\ (Queued' \cup OnDone') \cap Held' = {}
    BY <1>2, <1>3, <1>5 DEF KeptInv, Placed
  <2>3. Alive' = Queued' \cup OnDone' \cup Held'
    BY <1>2, <1>5, <1>7 DEF KeptInv, Placed
  <2>4. \A v, x \in Workers : v # x /\ pool_task'[v] # NoTask => pool_task'[v] # pool_task'[x]
    BY <1>4, <1>8 DEF KeptInv, Placed
  <2> QED BY <2>1, <2>2, <2>3, <2>4 DEF Placed
<1>10. Working'
  <2> SUFFICES ASSUME NEW v \in Workers
               PROVE  /\ pool_task'[v] = NoTask <=> pc'[v] \in {"idle", "exit"}
                      /\ pool_task'[v] # NoTask =>
                           /\ status'[pool_task'[v]] \in HeldStatus
                           /\ status'[pool_task'[v]] = "SYNCING" => pc'[v] \in InSync
    BY DEF Working
  <2>1. CASE v = w
    BY <1>3, <1>4, <2>1 DEF HeldStatus
  <2>2. CASE v # w
    <3>1. pool_task[v] # NoTask => pool_task[v] \in Tasks
      BY PlaceFacts
    <3> QED BY <1>4, <1>8, <2>2, <3>1 DEF KeptInv, Working
  <2> QED BY <2>1, <2>2
<1>11. Serving'
  <2>1. \A u \in Queued' : status'[u] = "QUEUED"
    BY <1>2, <1>4, PlaceFacts DEF KeptInv, Serving
  <2>2. svc.at \in {"reap", "sync"} => svc.t \in bound \ Queued' /\ phase' # "gone" /\ svc.t # t
    BY <1>1, <1>2 DEF KeptInv, Serving
  <2>3. ASSUME svc.at = "sync", ~svc.released, NEW v \in Workers, pool_task'[v] = svc.t
        PROVE  pc'[v] \in InSync \cup {"end"} /\ v \notin signalled'
    <3>1. v # w /\ pool_task[v] = svc.t
      BY <1>4, <2>2, <2>3
    <3> QED BY <1>1, <1>4, <2>3, <3>1 DEF KeptInv, Serving
  <2> QED BY <1>1, <1>7, <2>1, <2>2, <2>3 DEF KeptInv, Serving
<1>12. Gone'
  BY <1>1 DEF Gone
<1> QED BY <1>6, <1>9, <1>10, <1>11, <1>12 DEF KeptInv

(* A worker without a task leaves.                                           *)
LEMMA ExitKeeps ==
  ASSUME KeptInv, NEW w \in Workers, Exit(w)
  PROVE  KeptInv'
<1>1. /\ pc[w] = "idle" /\ pc' = [pc EXCEPT ![w] = "exit"]
      /\ UNCHANGED <<queue, done, pool_task, status, bound, temp, signalled, svc, phase>>
  BY DEF Exit, Goto, listVars, syncVars
<1>2. \A v \in Workers : pc'[v] = IF v = w THEN "exit" ELSE pc[v]
  BY <1>1 DEF KeptInv, Types
<1>3. Types' /\ Placed'
  BY <1>1 DEF KeptInv, Types, Placed, Places, Alive, Queued, OnDone, Held
<1>4. Working'
  BY <1>1, <1>2 DEF KeptInv, Working
<1>5. pool_task[w] = NoTask
  BY <1>1 DEF KeptInv, Working
<1>6. Serving'
  <2>1. Alive' = Alive /\ Queued' = Queued
    BY <1>1 DEF Alive, Queued
  <2>2. ASSUME svc.at = "sync", ~svc.released, NEW v \in Workers, pool_task[v] = svc.t
        PROVE  pc'[v] \in InSync \cup {"end"} /\ v \notin signalled'
    <3>1. pc[v] \in InSync \cup {"end"} /\ v \notin signalled
      BY <2>2 DEF KeptInv, Serving
    <3>2. v # w
      BY <1>1, <3>1 DEF InSync
    <3> QED BY <1>1, <1>2, <3>1, <3>2
  <2> QED BY <1>1, <2>1, <2>2 DEF KeptInv, Serving
<1>7. Gone'
  BY <1>1, <1>2 DEF KeptInv, Gone
<1> QED BY <1>3, <1>4, <1>6, <1>7 DEF KeptInv

(***************************************************************************)
(* The end of a worker's loop: the task goes to the done queue or is freed, *)
(* and nobody else has it.                                                  *)
(***************************************************************************)
LEMMA TaskDoneKeeps ==
  ASSUME KeptInv, NEW w \in Workers, TaskDone(w)
  PROVE  KeptInv'
<1> DEFINE t == pool_task[w]
           s == IF status[t] = "STOPPING" THEN "STOPPED" ELSE status[t]
<1>1. /\ pc[w] = "end" /\ pool_task' = [pool_task EXCEPT ![w] = NoTask]
      /\ pc' = [pc EXCEPT ![w] = "idle"]
      /\ UNCHANGED <<queue, temp, signalled, svc, phase>>
  BY DEF TaskDone, Goto, syncVars
<1>2. t # NoTask /\ t \in Tasks /\ status[t] \in HeldStatus /\ t \in Held
  BY <1>1, HeldFacts, PlaceFacts
<1>3. /\ \A v \in Workers : pool_task'[v] = IF v = w THEN NoTask ELSE pool_task[v]
      /\ \A v \in Workers : pc'[v] = IF v = w THEN "idle" ELSE pc[v]
  BY <1>1 DEF KeptInv, Types
<1>4. \A v \in Workers : v # w => pool_task[v] # t
  BY <1>2 DEF KeptInv, Placed
<1>5. Held' = Held \ {t} /\ Queued' = Queued /\ t \notin Queued /\ t \notin OnDone
  BY <1>1, <1>2, <1>3, <1>4 DEF Held, Queued, KeptInv, Placed
<1>6. Gone'
  BY <1>1 DEF KeptInv, Gone
<1>7. ASSUME /\ \A u \in Tasks \ {t} : status'[u] = status[u]
             /\ bound' \in SUBSET bound
             /\ t \notin bound \/ bound' = bound
             /\ bound \ {t} \in SUBSET bound'
             /\ Alive' \in {Alive, Alive \ {t}} /\ bound' \in SUBSET Alive'
      PROVE  Working' /\ Serving'
  <2>1. Working'
    <3> SUFFICES ASSUME NEW v \in Workers
                 PROVE  /\ pool_task'[v] = NoTask <=> pc'[v] \in {"idle", "exit"}
                        /\ pool_task'[v] # NoTask =>
                             /\ status'[pool_task'[v]] \in HeldStatus
                             /\ status'[pool_task'[v]] = "SYNCING" => pc'[v] \in InSync
      BY DEF Working
    <3>1. CASE v = w
      BY <1>3, <3>1
    <3>2. CASE v # w
      <4>1. pool_task[v] # NoTask => pool_task[v] \in Tasks \ {t}
        BY <1>4, <3>2, PlaceFacts
      <4> QED BY <1>3, <1>7, <3>2, <4>1 DEF KeptInv, Working
    <3> QED BY <3>1, <3>2
  <2>2. \A u \in Queued' : status'[u] = "QUEUED"
    BY <1>5, <1>7, PlaceFacts DEF KeptInv, Serving
  <2>3. svc.at \in {"reap", "sync"} => svc.t \in bound' \ Queued' /\ phase' # "gone" /\ svc.t # NoTask
    <3>1. svc.at \in {"reap", "sync"} => svc.t \in bound \ Queued /\ phase # "gone" /\ svc.t \in Tasks
      BY DEF KeptInv, Serving, Alive
    <3> QED BY <1>1, <1>5, <1>7, <3>1, PoolAssumption
  <2>4. ASSUME svc.at = "sync", ~svc.released, NEW v \in Workers, pool_task'[v] = svc.t
        PROVE  pc'[v] \in InSync \cup {"end"} /\ v \notin signalled'
    <3>1. v # w /\ pool_task[v] = svc.t
      BY <1>3, <2>3, <2>4
    <3> QED BY <1>1, <1>3, <2>4, <3>1 DEF KeptInv, Serving
  <2> QED BY <1>1, <1>7, <2>1, <2>2, <2>3, <2>4 DEF Serving
<1>8. \A v, x \in Workers : v # x /\ pool_task'[v] # NoTask => pool_task'[v] # pool_task'[x]
  BY <1>3 DEF KeptInv, Placed
<1>9. CASE t \notin bound /\ Destroyed({t}) /\ done' = done
  <2>1. \A u \in Tasks : status'[u] = IF u = t THEN "FREED" ELSE status[u]
    BY <1>9 DEF Destroyed
  <2>2. Alive' = Alive \ {t} /\ bound' = bound
    BY <1>9, <2>1 DEF Destroyed, Alive
  <2>3. Types'
    BY <1>1, <1>9 DEF KeptInv, Types, Destroyed, Places
  <2>4. Placed'
    <3>1. OnDone' = OnDone /\ IsInjective(queue') /\ IsInjective(done')
      BY <1>1, <1>9, PlaceFacts DEF OnDone
    <3>2. Alive' = Queued' \cup OnDone' \cup Held'
      BY <1>5, <2>2, <3>1 DEF KeptInv, Placed
    <3>3. Queued' \cap OnDone' = {} /\ (Queued' \cup OnDone') \cap Held' = {}
      BY <1>5, <3>1 DEF KeptInv, Placed
    <3> QED BY <1>8, <3>1, <3>2, <3>3 DEF Placed
  <2>5. bound \in SUBSET Alive
    BY DEF KeptInv, Serving
  <2>6. Working' /\ Serving'
    BY <1>7, <1>9, <2>1, <2>2, <2>5
  <2> QED BY <1>6, <2>3, <2>4, <2>6 DEF KeptInv
<1>10. CASE status' = [status EXCEPT ![t] = s] /\ done' = <<t>> \o done /\ bound' = bound
  <2>1. s \in HeldStatus
    BY <1>2 DEF HeldStatus
  <2> HIDE DEF s
  <2>2. \A u \in Tasks : status'[u] = IF u = t THEN s ELSE status[u]
    BY <1>2, <1>10 DEF KeptInv, Types
  <2>3. Alive' = Alive
    <3>1. t \in Alive
      BY <1>2 DEF KeptInv, Placed
    <3> QED BY <2>1, <2>2, <3>1 DEF Alive, HeldStatus
  <2>4. done' \in Seq(Tasks) /\ IsInjective(done') /\ OnDone' = OnDone \cup {t}
    BY <1>2, <1>5, <1>10, PlaceFacts, PushFacts DEF OnDone
  <2>5. Types'
    BY <1>1, <1>10, <2>1, <2>4 DEF KeptInv, Types, Places
  <2>6. Placed'
    <3>1. IsInjective(queue')
      BY <1>1, PlaceFacts
    <3>2. Alive' = Queued' \cup OnDone' \cup Held'
      BY <1>2, <1>5, <2>3, <2>4 DEF KeptInv, Placed
    <3>3. Queued' \cap OnDone' = {} /\ (Queued' \cup OnDone') \cap Held' = {}
      BY <1>5, <2>4 DEF KeptInv, Placed
    <3> QED BY <1>8, <2>4, <3>1, <3>2, <3>3 DEF Placed
  <2>7. bound \in SUBSET Alive
    BY DEF KeptInv, Serving
  <2>8. Working' /\ Serving'
    BY <1>7, <1>10, <2>2, <2>3, <2>7
  <2> QED BY <1>6, <2>5, <2>6, <2>8 DEF KeptInv
<1> QED BY <1>9, <1>10 DEF TaskDone, ReapsItself, SetStatus
-----------------------------------------------------------------------------
(* A step of the service thread that leaves it without a task in its hands.  *)
LEMMA FreeHands ==
  ASSUME svc'.at \notin {"reap", "sync"},
         bound' \in SUBSET Alive', \A t \in Queued' : status'[t] = "QUEUED"
  PROVE  Serving'
BY DEF Serving

(* lws_threadpool_enqueue() *)
LEMMA EnqueueKeeps ==
  ASSUME KeptInv, NEW t \in Tasks, Enqueue(t)
  PROVE  KeptInv'
<1>1. /\ svc = Loop /\ status[t] = "NONE" /\ phase = "up"
      /\ queue' = <<t>> \o queue /\ status' = [status EXCEPT ![t] = "QUEUED"]
      /\ bound' = bound \cup {t}
      /\ UNCHANGED <<done, pool_task, pc, temp, signalled, svc, phase>>
  BY DEF Enqueue, SetStatus, syncVars, destroying
<1>2. t \notin Queued /\ t \notin OnDone /\ t \notin Held
  BY <1>1 DEF KeptInv, Placed, Alive
<1>3. /\ queue' \in Seq(Tasks) /\ IsInjective(queue') /\ Queued' = Queued \cup {t}
      /\ OnDone' = OnDone /\ Held' = Held
  BY <1>1, <1>2, PlaceFacts, PushFacts DEF Queued, OnDone, Held
<1>4. \A u \in Tasks : status'[u] = IF u = t THEN "QUEUED" ELSE status[u]
  BY <1>1 DEF KeptInv, Types
<1>5. Alive' = Alive \cup {t}
  BY <1>4 DEF Alive
<1>6. Types'
  BY <1>1, <1>3 DEF KeptInv, Types
<1>7. Placed'
  BY <1>1, <1>2, <1>3, <1>5 DEF KeptInv, Placed
<1>8. Working'
  BY <1>1, <1>2, <1>4, PlaceFacts DEF KeptInv, Working
<1>9. svc'.at \notin {"reap", "sync"}
  BY <1>1 DEF Loop
<1>10. Serving'
  <2>1. \A u \in Queued' : status'[u] = "QUEUED"
    BY <1>3, <1>4, PlaceFacts DEF KeptInv, Serving
  <2>2. bound' \in SUBSET Alive'
    BY <1>1, <1>5 DEF KeptInv, Serving
  <2> QED BY <1>9, <2>1, <2>2, FreeHands
<1>11. Gone'
  BY <1>1 DEF Gone
<1> QED BY <1>6, <1>7, <1>8, <1>10, <1>11 DEF KeptInv

(* lws_threadpool_tsi_context() asks for callbacks only.                     *)
LEMMA SameKeeps ==
  ASSUME KeptInv,
         UNCHANGED <<queue, done, pool_task, status, bound, pc, temp, signalled, svc, phase>>
  PROVE  KeptInv'
<1>1. Queued' = Queued /\ OnDone' = OnDone /\ Held' = Held /\ Alive' = Alive
  BY DEF Queued, OnDone, Held, Alive
<1>2. Types' /\ Placed'
  BY <1>1 DEF KeptInv, Types, Placed
<1>3. Working' /\ Serving' /\ Gone'
  BY <1>1 DEF KeptInv, Working, Serving, Gone
<1> QED BY <1>2, <1>3 DEF KeptInv

(***************************************************************************)
(* The WRITEABLE callback looks at the status without a lock: what it finds *)
(* SYNCING is in lws_threadpool_worker_sync(), and stays in it or ends      *)
(* until somebody signals.                                                  *)
(***************************************************************************)
LEMMA WriteableKeeps ==
  ASSUME KeptInv, NEW t \in Tasks, Writeable(t)
  PROVE  KeptInv'
<1>1. /\ t \in bound
      /\ svc' = IF status[t] \in {"FINISHED", "STOPPED"} THEN [at |-> "reap", t |-> t]
                ELSE IF status[t] = "SYNCING"
                     THEN [at |-> "sync", t |-> t, released |-> \E w \in signalled : pool_task[w] = t]
                     ELSE Loop
      /\ UNCHANGED <<queue, done, pool_task, status, bound, pc, temp, signalled, phase>>
  BY DEF Writeable, listVars, syncVars
<1>2. Queued' = Queued /\ OnDone' = OnDone /\ Held' = Held /\ Alive' = Alive
  BY <1>1 DEF Queued, OnDone, Held, Alive
<1>3. Types' /\ Placed' /\ Working' /\ Gone'
  BY <1>1, <1>2 DEF KeptInv, Types, Placed, Working, Gone
<1>4. bound' \in SUBSET Alive' /\ \A u \in Queued' : status'[u] = "QUEUED"
  BY <1>1, <1>2 DEF KeptInv, Serving
<1>5. ASSUME status[t] # "QUEUED"
      PROVE  t \notin Queued /\ phase # "gone"
  <2>1. t \notin Queued /\ t \in Alive
    BY <1>1, <1>5 DEF KeptInv, Serving
  <2>2. ASSUME phase = "gone" PROVE FALSE
    <3>1. OnDone = {}
      BY <2>2, EmptyFacts DEF KeptInv, Gone, OnDone
    <3>2. Held = {}
      BY <2>2 DEF KeptInv, Gone, Working, Held
    <3> QED BY <2>1, <3>1, <3>2 DEF KeptInv, Placed
  <2> QED BY <2>1, <2>2
<1>6. Serving'
  <2>1. CASE svc' = [at |-> "reap", t |-> t] /\ status[t] \in {"FINISHED", "STOPPED"}
    <3>1. svc'.at = "reap" /\ svc'.t = t
      BY <2>1
    <3> QED BY <1>1, <1>2, <1>4, <1>5, <2>1, <3>1 DEF Serving
  <2>2. CASE /\ svc' = [at |-> "sync", t |-> t, released |-> \E w \in signalled : pool_task[w] = t]
             /\ status[t] = "SYNCING"
    <3>1. svc'.at = "sync" /\ svc'.t = t /\ (svc'.released <=> \E w \in signalled : pool_task[w] = t)
      BY <2>2
    <3>2. ASSUME ~svc'.released, NEW w \in Workers, pool_task[w] = t
          PROVE  pc[w] \in InSync \cup {"end"} /\ w \notin signalled
      <4>1. w \notin signalled
        BY <3>1, <3>2
      <4>2. t # NoTask
        BY PoolAssumption
      <4> QED BY <2>2, <3>2, <4>1, <4>2 DEF KeptInv, Working
    <3> QED BY <1>1, <1>2, <1>4, <1>5, <2>2, <3>1, <3>2 DEF Serving
  <2>3. CASE svc' = Loop
    <3>1. svc'.at \notin {"reap", "sync"}
      BY <2>3 DEF Loop
    <3> QED BY <1>4, <3>1, FreeHands
  <2> QED BY <1>1, <2>1, <2>2, <2>3
<1> QED BY <1>3, <1>6 DEF KeptInv

(***************************************************************************)
(* Tasks that no worker has are freed and leave the queues they are on.     *)
(***************************************************************************)
LEMMA DestroyedKeeps ==
  ASSUME KeptInv, NEW ts \in SUBSET Tasks, Destroyed(ts), ts \cap Held = {},
         queue' \in Seq(Tasks), IsInjective(queue'), Queued' = Queued \ ts,
         done' \in Seq(Tasks), IsInjective(done'), OnDone' = OnDone \ ts,
         UNCHANGED <<pool_task, pc, temp>>,
         svc'.at \notin {"reap", "sync"}
  PROVE  Types' /\ Placed' /\ Working' /\ Serving'
<1>1. Held' = Held
  BY DEF Held
<1>2. \A u \in Tasks : status'[u] = IF u \in ts THEN "FREED" ELSE status[u]
  BY DEF Destroyed
<1>3. Alive' = Alive \ ts
  BY <1>2 DEF Alive
<1>4. Types'
  BY DEF KeptInv, Types, Destroyed
<1>5. Placed'
  BY <1>1, <1>3 DEF KeptInv, Placed
<1>6. Working'
  BY <1>2, PlaceFacts DEF KeptInv, Working
<1>7. bound' \in SUBSET Alive' /\ \A u \in Queued' : status'[u] = "QUEUED"
  <2>1. bound' = bound \ ts
    BY DEF Destroyed
  <2> QED BY <1>2, <1>3, <2>1, PlaceFacts DEF KeptInv, Serving
<1> QED BY <1>4, <1>5, <1>6, <1>7, FreeHands

(* __lws_threadpool_reap() of a task no worker has.                          *)
LEMMA ReapKeeps ==
  ASSUME KeptInv, Reap, svc.t \notin Held
  PROVE  KeptInv'
<1> DEFINE t == svc.t
<1>1. /\ svc.at = "reap" /\ done' = RemoveFirst(done, t) /\ Destroyed({t}) /\ svc' = Loop
      /\ UNCHANGED <<queue, pool_task, pc, temp, phase>>
  BY DEF Reap, syncVars
<1>2. t \in Tasks /\ t \notin Queued /\ phase # "gone"
  BY <1>1 DEF KeptInv, Serving, Alive
<1> HIDE DEF t
<1>3. /\ done' \in Seq(Tasks) /\ IsInjective(done') /\ OnDone' = OnDone \ {t}
      /\ queue' \in Seq(Tasks) /\ IsInjective(queue') /\ Queued' = Queued \ {t}
  BY <1>1, <1>2, PlaceFacts, RemoveFirstFacts DEF OnDone, Queued
<1>4. svc'.at \notin {"reap", "sync"} /\ {t} \in SUBSET Tasks /\ {t} \cap Held = {}
  BY <1>1, <1>2 DEF Loop, t
<1>5. Types' /\ Placed' /\ Working' /\ Serving'
  BY <1>1, <1>3, <1>4, DestroyedKeeps
<1> QED BY <1>1, <1>2, <1>5 DEF KeptInv, Gone

(* A task that is on no queue is told to stop, or changes nothing.           *)
LEMMA StatusKeeps ==
  ASSUME KeptInv, NEW t \in Alive \ Queued, NEW s \in HeldStatus \ {"SYNCING"},
         status' = [status EXCEPT ![t] = s] \/ status' = status,
         UNCHANGED <<queue, done, pool_task, pc, temp, phase>>,
         bound' \in SUBSET bound,
         svc'.at \notin {"reap", "sync"}
  PROVE  KeptInv'
<1>1. Queued' = Queued /\ OnDone' = OnDone /\ Held' = Held /\ t \in Tasks
  BY DEF Queued, OnDone, Held, Alive
<1>2. \A u \in Tasks : status'[u] = status[u] \/ (u = t /\ status'[u] = s)
  BY <1>1 DEF KeptInv, Types
<1>3. Alive' = Alive
  BY <1>1, <1>2 DEF Alive, HeldStatus
<1>4. Types' /\ Placed' /\ Gone'
  BY <1>1, <1>3 DEF KeptInv, Types, Placed, Gone
<1>5. Working'
  BY <1>2, PlaceFacts DEF KeptInv, Working
<1>6. Serving'
  <2>1. \A u \in Queued' : status'[u] = "QUEUED"
    BY <1>1, <1>2, PlaceFacts DEF KeptInv, Serving
  <2>2. bound' \in SUBSET Alive'
    BY <1>3 DEF KeptInv, Serving
  <2> QED BY <2>1, <2>2, FreeHands
<1> QED BY <1>4, <1>5, <1>6 DEF KeptInv

(* lws_threadpool_task_sync() *)
LEMMA TaskSyncKeeps ==
  ASSUME KeptInv, NEW stop \in BOOLEAN, TaskSync(stop)
  PROVE  KeptInv'
<1>1. /\ svc.at = "sync" /\ svc' = Loop
      /\ status' = [status EXCEPT ![svc.t] = "STOPPING"] \/ status' = status
      /\ UNCHANGED <<queue, done, pool_task, pc, temp, phase, bound>>
  BY DEF TaskSync, SetStatus, listVars
<1>2. svc.t \in Alive \ Queued
  BY <1>1 DEF KeptInv, Serving
<1>3. svc'.at \notin {"reap", "sync"} /\ "STOPPING" \in HeldStatus \ {"SYNCING"}
  BY <1>1 DEF Loop, HeldStatus
<1> QED BY <1>1, <1>2, <1>3, StatusKeeps

(* A wsi closes: lws_threadpool_dequeue(), or the task goes on without it.   *)
LEMMA CloseKeeps ==
  ASSUME KeptInv, NEW t \in Tasks, Close(t)
  PROVE  KeptInv'
<1>1. svc = Loop /\ t \in bound /\ UNCHANGED <<pool_task, pc, temp, signalled, svc, phase>>
  BY DEF Close, syncVars
<1>2. svc'.at \notin {"reap", "sync"} /\ t \in Alive
  BY <1>1 DEF Loop, KeptInv, Serving
<1>3. CASE bound' = bound \ {t} /\ UNCHANGED <<status, queue, done>>
  <2>1. Queued' = Queued /\ OnDone' = OnDone /\ Held' = Held /\ Alive' = Alive
    BY <1>1, <1>3 DEF Queued, OnDone, Held, Alive
  <2>2. Types' /\ Placed' /\ Working' /\ Gone'
    BY <1>1, <1>3, <2>1 DEF KeptInv, Types, Placed, Working, Gone
  <2>3. Serving'
    BY <1>2, <1>3, <2>1, FreeHands DEF KeptInv, Serving
  <2> QED BY <2>2, <2>3 DEF KeptInv
<1>4. CASE DequeueTask(t)
  <2>1. CASE t \in Held
    <3>1. bound' = bound \ {t} /\ UNCHANGED <<queue, done>> /\ status' = [status EXCEPT ![t] = "STOPPING"]
      BY <1>4, <2>1 DEF DequeueTask, SetStatus, listVars
    <3>2. t \notin Queued
      BY <2>1 DEF KeptInv, Placed
    <3>3. "STOPPING" \in HeldStatus \ {"SYNCING"}
      BY DEF HeldStatus
    <3> QED BY <1>1, <1>2, <3>1, <3>2, <3>3, StatusKeeps
  <2>2. CASE t \notin Held
    <3>1. Destroyed({t}) /\ queue' = RemoveFirst(queue, t) /\ done' = RemoveFirst(done, t)
      BY <1>4, <2>2 DEF DequeueTask
    <3>2. /\ done' \in Seq(Tasks) /\ IsInjective(done') /\ OnDone' = OnDone \ {t}
          /\ queue' \in Seq(Tasks) /\ IsInjective(queue') /\ Queued' = Queued \ {t}
      BY <3>1, PlaceFacts, RemoveFirstFacts DEF OnDone, Queued
    <3>3. Types' /\ Placed' /\ Working' /\ Serving'
      BY <1>1, <1>2, <2>2, <3>1, <3>2, DestroyedKeeps
    <3>4. Gone'
      <4>1. SUFFICES ASSUME phase = "gone" PROVE done' = <<>>
        BY <1>1 DEF KeptInv, Gone
      <4>2. done = <<>>
        BY <4>1 DEF KeptInv, Gone
      <4>3. t \notin ToSet(done)
        BY <4>2, EmptyFacts
      <4> QED BY <3>1, <4>2, <4>3, PlaceFacts, RemoveFirstFacts
    <3> QED BY <3>3, <3>4 DEF KeptInv
  <2> QED BY <2>1, <2>2
<1> QED BY <1>3, <1>4 DEF Close, listVars

(* lws_threadpool_finish() moves the newest task of the queue to the done    *)
(* queue.                                                                    *)
LEMMA FinishKeeps ==
  ASSUME KeptInv, Finish
  PROVE  KeptInv'
<1>1. svc = Loop /\ phase' = "finished" /\ UNCHANGED <<pool_task, bound, pc, temp, signalled>>
  BY DEF Finish, syncVars
<1>2. svc'.at \notin {"reap", "sync"}
  BY <1>1 DEF Finish, Loop
<1>3. Gone'
  BY <1>1 DEF Gone
<1>4. CASE UNCHANGED <<queue, done, status>>
  <2>1. Queued' = Queued /\ OnDone' = OnDone /\ Held' = Held /\ Alive' = Alive
    BY <1>1, <1>4 DEF Queued, OnDone, Held, Alive
  <2>2. Types' /\ Placed' /\ Working'
    BY <1>1, <1>4, <2>1 DEF KeptInv, Types, Placed, Working
  <2>3. Serving'
    BY <1>1, <1>2, <1>4, <2>1, FreeHands DEF KeptInv, Serving
  <2> QED BY <1>3, <2>2, <2>3 DEF KeptInv
<1>5. CASE /\ queue # <<>> /\ queue' = Tail(queue) /\ done' = <<Head(queue)>> \o done
           /\ status' = [status EXCEPT ![Head(queue)] = "STOPPED"]
  <2> DEFINE t == Head(queue)
  <2>1. /\ 1 \in 1..Len(queue) /\ t = queue[1] /\ queue' = RemoveAt(queue, 1)
    BY <1>5, PlaceFacts, EndFacts
  <2>2. DOMAIN queue = 1..Len(queue)
    BY PlaceFacts, LenProperties
  <2> HIDE DEF t
  <2>3. t \in Queued /\ t \in Tasks
    <3>1. t \in Queued
      BY <2>1, <2>2 DEF Queued, ToSet
    <3> QED BY <3>1, PlaceFacts
  <2>4. queue' \in Seq(Tasks) /\ IsInjective(queue') /\ Queued' = Queued \ {t}
    BY <2>1, PlaceFacts, RemoveAtFacts DEF Queued
  <2>5. t \notin OnDone /\ t \notin Held
    BY <2>3 DEF KeptInv, Placed
  <2>6. done' \in Seq(Tasks) /\ IsInjective(done') /\ OnDone' = OnDone \cup {t}
    BY <1>5, <2>3, <2>5, PlaceFacts, PushFacts DEF OnDone, t
  <2>7. \A u \in Tasks : status'[u] = IF u = t THEN "STOPPED" ELSE status[u]
    BY <1>5, <2>3 DEF KeptInv, Types, t
  <2>8. Alive' = Alive /\ Held' = Held
    <3>1. t \in Alive
      BY <2>3 DEF KeptInv, Placed
    <3> QED BY <1>1, <2>7, <3>1 DEF Alive, Held
  <2>9. Types'
    BY <1>1, <1>5, <2>4, <2>6 DEF KeptInv, Types, HeldStatus
  <2>10. Placed'
    <3>1. Queued' \cap OnDone' = {} /\ (Queued' \cup OnDone') \cap Held' = {}
      BY <2>4, <2>5, <2>6, <2>8 DEF KeptInv, Placed
    <3>2. Alive' = Queued' \cup OnDone' \cup Held'
      BY <2>3, <2>4, <2>6, <2>8 DEF KeptInv, Placed
    <3> QED BY <1>1, <2>4, <2>6, <3>1, <3>2 DEF KeptInv, Placed
  <2>11. Working'
    BY <1>1, <2>5, <2>7, PlaceFacts DEF KeptInv, Working
  <2>12. Serving'
    <3>1. \A u \in Queued' : status'[u] = "QUEUED"
      BY <2>4, <2>7, PlaceFacts DEF KeptInv, Serving
    <3>2. bound' \in SUBSET Alive'
      BY <1>1, <2>8 DEF KeptInv, Serving
    <3> QED BY <1>2, <3>1, <3>2, FreeHands
  <2> QED BY <1>3, <2>9, <2>10, <2>11, <2>12 DEF KeptInv
<1> QED BY <1>4, <1>5 DEF Finish, SetStatus

(* lws_threadpool_destroy() looks for a worker's task, wakes it and begins   *)
(* to join the worker.                                                       *)
LEMMA WakeKeeps ==
  ASSUME KeptInv, WakeBroadcast \/ \E w \in Workers : WakeRead(w)
  PROVE  KeptInv'
<1>1. /\ svc'.at \in {"wake", "join"} /\ phase' = phase
      /\ UNCHANGED <<queue, done, pool_task, status, bound, pc, temp>>
  BY DEF WakeRead, WakeBroadcast, listVars, syncVars
<1>2. Queued' = Queued /\ OnDone' = OnDone /\ Held' = Held /\ Alive' = Alive
  BY <1>1 DEF Queued, OnDone, Held, Alive
<1>3. Types' /\ Placed' /\ Working' /\ Gone'
  BY <1>1, <1>2 DEF KeptInv, Types, Placed, Working, Gone
<1>4. Serving'
  BY <1>1, <1>2, FreeHands DEF KeptInv, Serving
<1> QED BY <1>3, <1>4 DEF KeptInv

(* The end of lws_threadpool_destroy(), with every worker joined.            *)
LEMMA DestroyKeeps ==
  ASSUME KeptInv, Destroy
  PROVE  KeptInv'
<1>1. /\ \A w \in Workers : pc[w] = "exit"
      /\ Destroyed(OnDone) /\ done' = <<>> /\ svc' = Loop /\ phase' = "gone"
      /\ UNCHANGED <<queue, pool_task, pc, temp, signalled>>
  BY DEF Destroy, CleanedUp, syncVars
<1>2. Held = {}
  BY <1>1 DEF KeptInv, Working, Held
<1>3. /\ done' \in Seq(Tasks) /\ IsInjective(done') /\ OnDone' = OnDone \ OnDone
      /\ queue' \in Seq(Tasks) /\ IsInjective(queue') /\ Queued' = Queued \ OnDone
  <2>1. Queued \ OnDone = Queued
    BY DEF KeptInv, Placed
  <2>2. OnDone' = {}
    BY <1>1, EmptyFacts DEF OnDone
  <2> QED BY <1>1, <2>1, <2>2, EmptyFacts, PlaceFacts DEF Queued
<1>4. svc'.at \notin {"reap", "sync"} /\ OnDone \in SUBSET Tasks /\ OnDone \cap Held = {}
  BY <1>1, <1>2, PlaceFacts DEF Loop
<1>5. Types' /\ Placed' /\ Working' /\ Serving'
  BY <1>1, <1>3, <1>4, DestroyedKeeps
<1> QED BY <1>1, <1>5 DEF KeptInv, Gone
-----------------------------------------------------------------------------
(* What the invariant says of a state in which no freed memory was touched.  *)
LEMMA KeptIsRight ==
  ASSUME KeptInv
  PROVE  DestroyedIsClean /\ ExclusiveSync
<1>1. DestroyedIsClean
  <2>1. SUFFICES ASSUME phase = "gone" PROVE Alive = Queued
    BY DEF DestroyedIsClean, Alive
  <2>2. OnDone = {}
    BY <2>1, EmptyFacts DEF KeptInv, Gone, OnDone
  <2>3. Held = {}
    BY <2>1 DEF KeptInv, Gone, Working, Held
  <2> QED BY <2>2, <2>3 DEF KeptInv, Placed
<1>2. ExclusiveSync
  BY DEF KeptInv, Serving, ExclusiveSync, InSync
<1> QED BY <1>1, <1>2

(***************************************************************************)
(* ThreadInv holds in every reachable state.  Only a reap of a task that a  *)
(* worker still has leaves KeptInv, and that ends the behaviour.            *)
(***************************************************************************)
THEOREM ThreadInvariant == Spec => []ThreadInv
<1>1. Init => ThreadInv
  <2> SUFFICES ASSUME Init PROVE ThreadInv
    OBVIOUS
  <2>1. Queued = {} /\ OnDone = {} /\ Held = {} /\ Alive = {}
    BY EmptyFacts DEF Init, Queued, OnDone, Held, Alive
  <2>2. Types /\ Placed
    BY <2>1, EmptyFacts DEF Init, Types, Placed, HeldStatus, Places
  <2>3. Working /\ Serving /\ Gone
    BY <2>1 DEF Init, Working, Serving, Gone, Loop
  <2>4. KeptInv
    BY <2>2, <2>3 DEF KeptInv
  <2> QED BY <2>4, KeptIsRight DEF ThreadInv, Init
<1>2. KeptInv' => DestroyedIsClean' /\ ExclusiveSync'
  <2>1. KeptInv => DestroyedIsClean /\ ExclusiveSync
    BY KeptIsRight
  <2> QED BY <2>1, PTL
<1>3. ThreadInv /\ [Next]_vars => ThreadInv'
  <2> SUFFICES ASSUME ThreadInv, [Next]_vars PROVE ThreadInv'
    OBVIOUS
  <2>1. CASE UNCHANGED vars
    BY <2>1 DEF vars, syncVars, ThreadInv, KeptInv, Types, Placed, Working, Serving, Gone, Alive,
                Queued, OnDone, Held, DestroyedIsClean, ExclusiveSync
  <2>2. ASSUME KeptInv' PROVE ThreadInv'
    BY <1>2, <2>2 DEF ThreadInv
  <2>3. ASSUME NEW w \in Workers, Worker(w) PROVE ThreadInv'
    <3>1. KeptInv
      BY <2>3 DEF ThreadInv, Worker, WorkerStep
    <3>2. KeptInv'
      BY <2>3, <3>1, AcquireKeeps, ExitKeeps, TaskDoneKeeps, WorkerSteps DEF Worker, WorkerStep
    <3> QED BY <2>2, <3>2
  <2>4. CASE Service
    <3>1. KeptInv
      BY <2>4 DEF ThreadInv, Service
    <3>2. CASE TsiContext
      <4>1. KeptInv'
        BY <3>1, <3>2, SameKeeps DEF TsiContext, listVars, syncVars
      <4> QED BY <2>2, <4>1
    <3>3. CASE Reap
      <4>1. CASE svc.t \notin Held
        BY <2>2, <3>1, <3>3, <4>1, ReapKeeps
      <4>2. CASE svc.t \in Held
        <5>1. wild' /\ svc'.at = "loop" /\ phase' = phase /\ phase # "gone"
          BY <3>1, <3>3, <4>2 DEF Reap, Loop, KeptInv, Serving
        <5> QED BY <5>1 DEF ThreadInv, DestroyedIsClean, ExclusiveSync
      <4> QED BY <4>1, <4>2
    <3>4. CASE Finish
      BY <2>2, <3>1, <3>4, FinishKeeps
    <3>5. CASE Destroy
      BY <2>2, <3>1, <3>5, DestroyKeeps
    <3>6. ASSUME NEW t \in Tasks, Enqueue(t) \/ Writeable(t) \/ Close(t) PROVE ThreadInv'
      BY <2>2, <3>1, <3>6, EnqueueKeeps, WriteableKeeps, CloseKeeps
    <3>7. ASSUME NEW stop \in BOOLEAN, TaskSync(stop) PROVE ThreadInv'
      BY <2>2, <3>1, <3>7, TaskSyncKeeps
    <3>8. CASE WakeBroadcast \/ \E w \in Workers : WakeRead(w)
      BY <2>2, <3>1, <3>8, WakeKeeps
    <3> QED BY <2>4, <3>2, <3>3, <3>4, <3>5, <3>6, <3>7, <3>8 DEF Service
  <2> QED BY <2>1, <2>3, <2>4 DEF Next
<1> QED BY <1>1, <1>3, PTL DEF Spec

(***************************************************************************)
(* TasksAreKept, for any number of workers: no task is lost, freed twice or *)
(* shared by two of them, whoever gets rid of it.                           *)
(***************************************************************************)
THEOREM KeptCorrect == Spec => []TasksAreKept
<1>1. ThreadInv => TasksAreKept
  BY DEF ThreadInv, KeptInv, Placed, Alive, TasksAreKept, OnePlace
<1> QED BY <1>1, ThreadInvariant, PTL

(***************************************************************************)
(* ExclusiveSync, for any number of workers and of retries of a SYNC and    *)
(* with waits that come back by themselves at any time.                     *)
(***************************************************************************)
THEOREM SyncCorrect == Spec => []ExclusiveSync
<1>1. ThreadInv => ExclusiveSync
  BY DEF ThreadInv
<1> QED BY <1>1, ThreadInvariant, PTL
=============================================================================
