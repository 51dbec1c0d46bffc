-------------------------------- MODULE Sut --------------------------------
(***************************************************************************)
(* The user-level thread scheduler of th-scheduler: sut.c and queue.c with *)
(* one executor (EXEC is 0).  Three kernel threads interleave: the caller  *)
(* that creates tasks and shuts down, c_exec, which runs Cexec() and the   *)
(* tasks, and i_exec, which runs Iexec().                                  *)
(*                                                                         *)
(* The queues are the code's linked lists, and each access of              *)
(* queue_insert_tail() and queue_pop_head() to memory that another thread  *)
(* may use is a step: Iexec() inserts into ready without mutex c, and      *)
(* sut_write() and sut_close() into iotodo and iowait without mutex i.     *)
(* The steps of the threads are interleaved, memory being sequentially     *)
(* consistent.  prev is left out: nothing reads it.                        *)
(*                                                                         *)
(* Unlocking a mutex that the caller does not hold is undefined; with      *)
(* glibc's default mutex it becomes free, whoever holds it.                *)
(***************************************************************************)
EXTENDS Integers, FiniteSetsExt

CONSTANTS
  NTasks,     \* tasks created
  MaxCalls,   \* bound: calls the tasks make, sut_exit() not counted
  Ops         \* the calls tasks make: "yield", "open", "write", "close"

ASSUME SutAssumption ==
  /\ NTasks \in Nat /\ MaxCalls \in Nat
  /\ Ops \subseteq {"yield", "open", "write", "close"}

VARIABLES
  numthreads,
  threadarr,  \* task -> the slot it was put into, -1 before
  queue,      \* ready, iowait and iotodo -> head and tail
  next,       \* entry -> its next
  mutex,      \* c and i -> who holds it
  access,     \* thread -> where it is in a queue operation
  main, cexec, iexec,
  used,       \* task -> calls it has made, -1 before it is begun
  resumed,    \* entries of the ready queue that were run
  done,       \* tasks that have ended
  wrong       \* "NULL": a null tail was followed; "stack": a stack was used twice

vars == <<numthreads, threadarr, queue, next, mutex, access, main, cexec, iexec, used,
          resumed, done, wrong>>

Tasks == 1..NTasks
Threads == {"main", "cexec", "iexec"}
Queues == {"ready", "iowait", "iotodo"}
Free == "free"

\* The entries that queue_new_node() makes: for the k-th call of task t (0 when
\* it is created), with its context or with what Iexec() has to do.
Entry(kind, t, k) == <<kind, t, k>>
Entries == {"context", "todo"} \X Tasks \X (0..MaxCalls)
NULL == <<>>

NoAccess == [at |-> "none", q |-> "ready", e |-> NULL]

Init ==
  /\ numthreads = 0
  /\ threadarr = [t \in Tasks |-> -1]
  /\ queue = [q \in Queues |-> [head |-> NULL, tail |-> NULL]]
  /\ next = [e \in Entries |-> NULL]
  /\ mutex = [m \in {"c", "i"} |-> Free]
  /\ access = [th \in Threads |-> NoAccess]
  /\ main = [pc |-> "create", task |-> 1, n |-> 0]
  /\ cexec = [pc |-> "check", e |-> NULL, task |-> 0, n |-> 0]
  /\ iexec = [pc |-> "top", todo |-> FALSE, e |-> NULL]
  /\ used = [t \in Tasks |-> -1]
  /\ resumed = {} /\ done = {} /\ wrong = "no"

-----------------------------------------------------------------------------
(* queue.c *)

Start(th, at, q, e) == access' = [access EXCEPT ![th] = [at |-> at, q |-> q, e |-> e]]
At(th, at) == access[th].at = at
Goto(th, at) == access' = [access EXCEPT ![th].at = at]
Return(th) == access' = [access EXCEPT ![th] = NoAccess]

\* The thread starts queue_insert_tail(), which does nothing with NULL, or
\* queue_pop_head().
queue_insert_tail(th, q, e) == IF e = NULL THEN UNCHANGED access ELSE Start(th, "clear", q, e)
queue_pop_head(th, q) == Start(th, "old", q, NULL)

InsertClear(th) ==
  /\ At(th, "clear")
  /\ next' = [next EXCEPT ![access[th].e] = NULL]
  /\ Goto(th, "test")
  /\ UNCHANGED <<queue, wrong>>

InsertTest(th) ==
  /\ At(th, "test")
  /\ Goto(th, IF queue[access[th].q].tail = NULL THEN "only" ELSE "behind")
  /\ UNCHANGED <<queue, next, wrong>>

InsertOnly(th) ==
  /\ At(th, "only")
  /\ queue' = [queue EXCEPT ![access[th].q].head = access[th].e]
  /\ Goto(th, "tail")
  /\ UNCHANGED <<next, wrong>>

\* The tail may be another by now, or NULL.
InsertBehind(th) ==
  /\ At(th, "behind")
  /\ LET t == queue[access[th].q].tail
     IN IF t = NULL THEN wrong' = "NULL" /\ UNCHANGED next
        ELSE next' = [next EXCEPT ![t] = access[th].e] /\ UNCHANGED wrong
  /\ Goto(th, "tail")
  /\ UNCHANGED queue

InsertTail(th) ==
  /\ At(th, "tail")
  /\ queue' = [queue EXCEPT ![access[th].q].tail = access[th].e]
  /\ Return(th)
  /\ UNCHANGED <<next, wrong>>

PopOld(th) ==
  /\ At(th, "old")
  /\ LET h == queue[access[th].q].head
     IN IF h = NULL THEN Return(th)
        ELSE access' = [access EXCEPT ![th].at = "next", ![th].e = h]
  /\ UNCHANGED <<queue, next, wrong>>

PopNext(th) ==
  /\ At(th, "next")
  /\ access' = [access EXCEPT ![th].at = "head", ![th].e = next[@]]
  /\ UNCHANGED <<queue, next, wrong>>

PopHead(th) ==
  /\ At(th, "head")
  /\ queue' = [queue EXCEPT ![access[th].q].head = access[th].e]
  /\ Goto(th, "empty")
  /\ UNCHANGED <<next, wrong>>

PopEmpty(th) ==
  /\ At(th, "empty")
  /\ IF queue[access[th].q].head = NULL THEN Goto(th, "clear_tail") ELSE Return(th)
  /\ UNCHANGED <<queue, next, wrong>>

PopTail(th) ==
  /\ At(th, "clear_tail")
  /\ queue' = [queue EXCEPT ![access[th].q].tail = NULL]
  /\ Return(th)
  /\ UNCHANGED <<next, wrong>>

InQueue == UNCHANGED <<numthreads, threadarr, mutex, main, cexec, iexec, used, resumed, done>>

Inserting(th) ==
  /\ InsertClear(th) \/ InsertTest(th) \/ InsertOnly(th) \/ InsertBehind(th) \/ InsertTail(th)
  /\ InQueue

Popping(th) ==
  /\ PopOld(th) \/ PopNext(th) \/ PopHead(th) \/ PopEmpty(th) \/ PopTail(th)
  /\ InQueue

\* Outside of queue.c.
Outside(th) == At(th, "none")

Lock(m, th) == mutex[m] = Free /\ mutex' = [mutex EXCEPT ![m] = th]
Unlock(m) == mutex' = [mutex EXCEPT ![m] = Free]

-----------------------------------------------------------------------------
(* The caller *)

\* sut_create(): the slot is filled and the count read ...
Create(t) ==
  /\ main.pc = "create" /\ main.task = t /\ t \in Tasks
  /\ threadarr' = [threadarr EXCEPT ![t] = numthreads]
  /\ main' = [main EXCEPT !.pc = "count", !.n = numthreads]
  /\ UNCHANGED <<numthreads, queue, next, mutex, access, cexec, iexec, used, resumed, done, wrong>>

\* ... the count written back, which may undo a sut_exit() in between ...
CreateCount ==
  /\ main.pc = "count"
  /\ numthreads' = main.n + 1
  /\ main' = [main EXCEPT !.pc = "lock"]
  /\ UNCHANGED <<threadarr, queue, next, mutex, access, cexec, iexec, used, resumed, done, wrong>>

\* ... and the context put into the ready queue.
CreateInsert ==
  /\ main.pc = "lock" /\ Lock("c", "main")
  /\ queue_insert_tail("main", "ready", Entry("context", main.task, 0))
  /\ main' = [main EXCEPT !.pc = "unlock"]
  /\ UNCHANGED <<numthreads, threadarr, queue, next, cexec, iexec, used, resumed, done, wrong>>

CreateReturn ==
  /\ main.pc = "unlock" /\ Outside("main")
  /\ Unlock("c")
  /\ main' = [pc |-> "create", task |-> main.task + 1, n |-> 0]
  /\ UNCHANGED <<numthreads, threadarr, queue, next, access, cexec, iexec, used, resumed, done, wrong>>

\* sut_shutdown(): joins c_exec, then i_exec, whose loop has no end.
Shutdown ==
  /\ main.pc = "create" /\ main.task > NTasks
  /\ cexec.pc = "ended"
  /\ main' = [main EXCEPT !.pc = "join"]
  /\ UNCHANGED <<numthreads, threadarr, queue, next, mutex, access, cexec, iexec, used, resumed,
                 done, wrong>>

-----------------------------------------------------------------------------
(* c_exec *)

CexecCheck ==
  /\ cexec.pc = "check"
  /\ cexec' = [cexec EXCEPT !.pc = IF numthreads # 0 THEN "peek" ELSE "ended"]
  /\ UNCHANGED <<numthreads, threadarr, queue, next, mutex, access, main, iexec, used, resumed,
                 done, wrong>>

CexecPeek ==
  /\ cexec.pc = "peek" /\ mutex["c"] = Free
  /\ LET h == queue["ready"].head
     IN cexec' = [cexec EXCEPT !.pc = IF h = NULL THEN "check" ELSE "pop", !.e = h]
  /\ UNCHANGED <<numthreads, threadarr, queue, next, mutex, access, main, iexec, used, resumed,
                 done, wrong>>

CexecPop ==
  /\ cexec.pc = "pop" /\ Lock("c", "cexec")
  /\ queue_pop_head("cexec", "ready")
  /\ cexec' = [cexec EXCEPT !.pc = "switch"]
  /\ UNCHANGED <<numthreads, threadarr, queue, next, main, iexec, used, resumed, done, wrong>>


\* The task whose context the entry points to: its first one is in its slot, where
\* another may have been made since, a later one is on its stack.
TaskOf(e) == IF e[3] > 0 THEN e[2] ELSE Max({u \in Tasks : threadarr[u] = threadarr[e[2]]})

\* The entry that was peeked is run, whatever was popped.  A task that is begun
\* while it is suspended overwrites its stack.
CexecSwitch ==
  /\ cexec.pc = "switch" /\ Outside("cexec")
  /\ Unlock("c")
  /\ LET t == TaskOf(cexec.e)
         again == cexec.e[3] = 0 /\ used[t] >= 0 /\ t \notin done
     IN /\ cexec' = [cexec EXCEPT !.pc = "run", !.e = NULL, !.task = t]
        /\ used' = [used EXCEPT ![t] = IF @ < 0 THEN 0 ELSE @]
        /\ wrong' = IF again THEN "stack" ELSE wrong
  /\ resumed' = resumed \cup {cexec.e}
  /\ UNCHANGED <<numthreads, threadarr, queue, next, access, main, iexec, done>>

\* Calls made so far.
Calls == MapThenSumSet(LAMBDA t : Max({0, used[t]}), Tasks)

\* The running task makes a call.
Call(op) ==
  /\ cexec.pc = "run" /\ op \in Ops
  /\ Calls < MaxCalls
  /\ used' = [used EXCEPT ![cexec.task] = @ + 1]
  /\ UNCHANGED <<numthreads, threadarr, queue, next, main, iexec, resumed, done, wrong>>

\* The context or the request of the call.
This(kind) == Entry(kind, cexec.task, used'[cexec.task])

\* swapcontext() to main_cexec.
Switch == cexec' = [cexec EXCEPT !.pc = "check", !.task = 0]

\* Mutant: the task is not put back.
Yielded_Lost == UNCHANGED access

\* sut_yield() puts its context into the ready queue.
Yielded == queue_insert_tail("cexec", "ready", This("context"))

sut_yield ==
  /\ Call("yield")
  /\ Lock("c", "cexec") /\ Yielded
  /\ cexec' = [cexec EXCEPT !.pc = "yield"]

YieldReturn ==
  /\ cexec.pc = "yield" /\ Outside("cexec")
  /\ Unlock("c") /\ Switch
  /\ UNCHANGED <<numthreads, threadarr, queue, next, access, main, iexec, used, resumed, done, wrong>>

\* The count is read, and in a second step written.
sut_exit ==
  /\ cexec.pc = "run"
  /\ cexec' = [cexec EXCEPT !.pc = "exit", !.n = numthreads]
  /\ UNCHANGED <<numthreads, threadarr, queue, next, mutex, access, main, iexec, used, resumed,
                 done, wrong>>

ExitCount ==
  /\ cexec.pc = "exit"
  /\ numthreads' = cexec.n - 1
  /\ done' = done \cup {cexec.task}
  /\ cexec' = [cexec EXCEPT !.pc = "check", !.task = 0, !.n = 0]
  /\ UNCHANGED <<threadarr, queue, next, mutex, access, main, iexec, used, resumed, wrong>>

sut_open ==
  /\ Call("open")
  /\ cexec' = [cexec EXCEPT !.pc = "open"]
  /\ UNCHANGED <<mutex, access>>

OpenLock ==
  /\ cexec.pc = "open" /\ Lock("i", "cexec")
  /\ queue_insert_tail("cexec", "iotodo", Entry("todo", cexec.task, used[cexec.task]))
  /\ cexec' = [cexec EXCEPT !.pc = "todo_i"]
  /\ UNCHANGED <<numthreads, threadarr, queue, next, main, iexec, used, resumed, done, wrong>>

\* sut_write() unlocks mutex i where it should lock it, sut_close() mutex c.
sut_write ==
  /\ Call("write")
  /\ Unlock("i")
  /\ queue_insert_tail("cexec", "iotodo", This("todo"))
  /\ cexec' = [cexec EXCEPT !.pc = "todo_i"]

sut_close ==
  /\ Call("close")
  /\ Unlock("c")
  /\ queue_insert_tail("cexec", "iotodo", This("todo"))
  /\ cexec' = [cexec EXCEPT !.pc = "todo_c"]

\* The rest of the three: the context goes into iowait, and the mutex is unlocked.
IoWait ==
  /\ cexec.pc \in {"todo_i", "todo_c"} /\ Outside("cexec")
  /\ queue_insert_tail("cexec", "iowait", Entry("context", cexec.task, used[cexec.task]))
  /\ cexec' = [cexec EXCEPT !.pc = IF @ = "todo_i" THEN "wait_i" ELSE "wait_c"]
  /\ UNCHANGED <<numthreads, threadarr, queue, next, mutex, main, iexec, used, resumed, done, wrong>>

IoReturn ==
  /\ cexec.pc \in {"wait_i", "wait_c"} /\ Outside("cexec")
  /\ Unlock(IF cexec.pc = "wait_i" THEN "i" ELSE "c") /\ Switch
  /\ UNCHANGED <<numthreads, threadarr, queue, next, access, main, iexec, used, resumed, done, wrong>>

-----------------------------------------------------------------------------
(* i_exec *)

\* Looks at iotodo ...
IexecPeek ==
  /\ iexec.pc = "top" /\ Lock("i", "iexec")
  /\ iexec' = [iexec EXCEPT !.pc = "peek", !.todo = queue["iotodo"].head # NULL]
  /\ UNCHANGED <<numthreads, threadarr, queue, next, access, main, cexec, used, resumed, done, wrong>>

\* ... and at iowait, where the task may not be yet, and sleeps if there is nothing to do.
IexecPeekWait ==
  /\ iexec.pc = "peek"
  /\ Unlock("i")
  /\ iexec' = IF iexec.todo THEN [pc |-> "pop", todo |-> FALSE, e |-> queue["iowait"].head]
              ELSE [iexec EXCEPT !.pc = "top"]
  /\ UNCHANGED <<numthreads, threadarr, queue, next, access, main, cexec, used, resumed, done, wrong>>

\* Takes the operation ...
IexecPop ==
  /\ iexec.pc = "pop" /\ Lock("i", "iexec")
  /\ queue_pop_head("iexec", "iotodo")
  /\ iexec' = [iexec EXCEPT !.pc = "do"]
  /\ UNCHANGED <<numthreads, threadarr, queue, next, main, cexec, used, resumed, done, wrong>>

\* ... does it ...
IexecDo ==
  /\ iexec.pc = "do" /\ Outside("iexec")
  /\ Unlock("i")
  /\ iexec' = [iexec EXCEPT !.pc = "wake"]
  /\ UNCHANGED <<numthreads, threadarr, queue, next, access, main, cexec, used, resumed, done, wrong>>

\* Mutant: the task stays in iowait.
IexecWake_Kept ==
  /\ iexec.pc = "wake" /\ Lock("i", "iexec")
  /\ iexec' = [iexec EXCEPT !.pc = "ready"]
  /\ UNCHANGED <<numthreads, threadarr, queue, next, access, main, cexec, used, resumed, done, wrong>>

\* ... and moves a task from iowait to ready.
IexecWake ==
  /\ iexec.pc = "wake" /\ Lock("i", "iexec")
  /\ queue_pop_head("iexec", "iowait")
  /\ iexec' = [iexec EXCEPT !.pc = "ready"]
  /\ UNCHANGED <<numthreads, threadarr, queue, next, main, cexec, used, resumed, done, wrong>>

IexecReady ==
  /\ iexec.pc = "ready" /\ Outside("iexec")
  /\ queue_insert_tail("iexec", "ready", iexec.e)
  /\ iexec' = [iexec EXCEPT !.pc = "relock", !.e = NULL]
  /\ UNCHANGED <<numthreads, threadarr, queue, next, mutex, main, cexec, used, resumed, done, wrong>>

\* The second pthread_mutex_lock(&i), where an unlock belongs.
IexecRelock ==
  /\ iexec.pc = "relock" /\ Outside("iexec")
  /\ Lock("i", "iexec")
  /\ iexec' = [iexec EXCEPT !.pc = "top"]
  /\ UNCHANGED <<numthreads, threadarr, queue, next, access, main, cexec, used, resumed, done, wrong>>

Main == (\E t \in Tasks : Create(t)) \/ CreateCount \/ CreateInsert \/ CreateReturn \/ Shutdown
        \/ Inserting("main")
Task == sut_yield \/ YieldReturn \/ sut_exit \/ ExitCount \/ sut_open \/ OpenLock \/ sut_write
        \/ sut_close \/ IoWait \/ IoReturn
Cexec == CexecCheck \/ CexecPeek \/ CexecPop \/ CexecSwitch \/ Task \/ Inserting("cexec")
         \/ Popping("cexec")
Iexec == IexecPeek \/ IexecPeekWait \/ IexecPop \/ IexecDo \/ IexecWake \/ IexecReady \/ IexecRelock
         \/ Inserting("iexec") \/ Popping("iexec")

\* What happens after an access through NULL or on an overwritten stack is undefined.
Runs == wrong = "no"
Next == Runs /\ (Main \/ Cexec \/ Iexec)

\* Each is a kernel thread of its own.
Spec ==
  Init /\ [][Next]_vars /\ WF_vars(Runs /\ Main) /\ WF_vars(Runs /\ Cexec) /\ WF_vars(Runs /\ Iexec)
-----------------------------------------------------------------------------
TypeOK ==
  /\ numthreads \in 0..NTasks
  /\ threadarr \in [Tasks -> -1..NTasks]
  /\ \A q \in Queues : queue[q].head \in Entries \cup {NULL} /\ queue[q].tail \in Entries \cup {NULL}
  /\ next \in [Entries -> Entries \cup {NULL}]
  /\ \A m \in {"c", "i"} : mutex[m] \in Threads \cup {Free}
  /\ used \in [Tasks -> -1..MaxCalls]
  /\ resumed \subseteq Entries /\ done \subseteq Tasks

\* Whatever races between the three kernel threads on the queues, no entry is
\* resumed twice: its context is that of a call which has returned since, on a
\* stack in use.  ("Uses three queues: ready (executable threads), iowait
\* (I/O-blocked threads)", README.md:35.)  Entries may well be lost, and a task
\* may be begun twice by two entries with one slot.
NeverTwice == cexec.pc \in {"pop", "switch"} => cexec.e \notin resumed

\* No task was created in the slot of another.  sut_exit() lowers the count that
\* sut_create() takes for the next slot, so that one created after another has
\* ended may be.
OwnSlots == \A t, u \in Tasks : t # u /\ threadarr[t] >= 0 => threadarr[t] # threadarr[u]

\* If the tasks only yield and each has a slot of its own, all of them end unless
\* the executor has given up: sut_yield() loses none of them and none starves.
AllRun ==
  [](cexec.pc \notin {"open", "todo_i", "todo_c"} /\ OwnSlots)
    => <>[](cexec.pc = "ended" \/ done = Tasks)
=============================================================================
