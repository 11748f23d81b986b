----------------------------- MODULE WorkerPool -----------------------------
(***************************************************************************)
(* The priority worker pool.  Worker threads sleep on cv_, pop the task    *)
(* with the highest priority and run it outside the lock; client threads   *)
(* submit tasks and wait for the pool to be idle; the destructor drains    *)
(* the queues and joins the workers.                                       *)
(*                                                                         *)
(* A critical section of mu_ is one action.  What a thread does outside    *)
(* the lock (a notification, running a task) is an action of its own.      *)
(***************************************************************************)
EXTENDS Integers, Sequences, FiniteSets

CONSTANTS Workers, Clients,  \* threads of the pool, threads that use it
          Priorities,        \* priorities in use
          MaxTasks           \* bound: tasks submitted in a behaviour

task_priority == 0..3        \* apply, high, medium, low

ASSUME PoolAssumption ==
  /\ IsFiniteSet(Workers) /\ Workers # {}
  /\ Workers \cap Clients = {}
  /\ Priorities \subseteq task_priority
  /\ MaxTasks \in Nat

VARIABLES queues,              \* priority -> tasks not yet started
          stop, submitted, completed, inflight,
          pc,                  \* where each worker and client is
          fn,                  \* the task each worker has in hand, if any
          owner,               \* progress of the destructor
          done,                \* history: tasks that have run
          asked, waited        \* history: tasks submitted when a client called
                               \* wait_idle, and when its last returned call began

vars == <<queues, stop, submitted, completed, inflight, pc, fn, owner, done, asked, waited>>

Tasks  == [id: 1..MaxTasks, prio: Priorities]
NoTask == [id |-> 0, prio |-> 0]

WorkerPcs == {"check", "wait", "run", "run_notify", "idle_notify", "exit"}
ClientPcs == {"out", "notify", "idle", "doze", "left"}

Queued(p)   == {queues[p][i] : i \in DOMAIN queues[p]}
AllQueued   == UNION {Queued(p) : p \in task_priority}
HasTask(w)  == pc[w] \in {"run", "run_notify"}
Busy        == {w \in Workers : HasTask(w)}
Running     == {fn[w] : w \in Busy}

all_empty == \A p \in task_priority : queues[p] = << >>

----------------------------------------------------------------------------
\* submit, under the lock: by a client, or by a task on its worker.
Submit(t, p) ==
  /\ submitted < MaxTasks
  /\ \/ pc[t] = "out" /\ pc' = [pc EXCEPT ![t] = "notify"]
     \/ pc[t] = "run" /\ pc' = [pc EXCEPT ![t] = "run_notify"]
  /\ submitted' = submitted + 1
  /\ queues' = [queues EXCEPT ![p] = Append(@, [id |-> submitted + 1, prio |-> p])]
  /\ UNCHANGED <<stop, completed, inflight, fn, owner, done, asked, waited>>

Resume(t) == IF pc[t] = "notify" THEN "out" ELSE "run"

\* Mutant: submit never notifies.
NotifyNobody(t) ==
  /\ pc[t] \in {"notify", "run_notify"}
  /\ pc' = [pc EXCEPT ![t] = Resume(t)]
  /\ UNCHANGED <<queues, stop, submitted, completed, inflight, fn, owner, done, asked, waited>>

\* cv_.notify_one after the unlock: wakes some sleeping worker, if there is one.
NotifyOne(t) ==
  /\ pc[t] \in {"notify", "run_notify"}
  /\ \/ \E w \in Workers :
          pc[w] = "wait" /\ pc' = [pc EXCEPT ![t] = Resume(t), ![w] = "check"]
     \/ /\ \A w \in Workers : pc[w] # "wait"
        /\ pc' = [pc EXCEPT ![t] = Resume(t)]
  /\ UNCHANGED <<queues, stop, submitted, completed, inflight, fn, owner, done, asked, waited>>

----------------------------------------------------------------------------
\* pop takes from the first non-empty queue.
PopFrom(p) == queues[p] # << >> /\ \A q \in task_priority : q < p => queues[q] = << >>

\* Mutant: the newest task first.
FrontNewest(p) == queues[p][Len(queues[p])]

Front(p) == Head(queues[p])

\* Mutant: front() without pop().
PoppedNot(p) == queues

Popped(p) == [queues EXCEPT ![p] = Tail(@)]

Taken == inflight + 1

\* Mutant: a task that returned stays counted.
ReturnedUncounted == inflight

Returned == inflight - 1

\* Mutant: a stopped pool drops what is queued.
MayExitUndrained == stop

MayExit == stop /\ all_empty

\* The critical section of loop: sleep, exit, or take a task.
Check(w) ==
  /\ pc[w] = "check"
  /\ \/ /\ ~stop /\ all_empty
        /\ pc' = [pc EXCEPT ![w] = "wait"]
        /\ UNCHANGED <<queues, inflight, fn>>
     \/ /\ MayExit
        /\ pc' = [pc EXCEPT ![w] = "exit"]
        /\ UNCHANGED <<queues, inflight, fn>>
     \/ /\ ~MayExit
        /\ \E p \in task_priority :
             /\ PopFrom(p)
             /\ fn' = [fn EXCEPT ![w] = Front(p)]
             /\ queues' = Popped(p)
        /\ inflight' = Taken
        /\ pc' = [pc EXCEPT ![w] = "run"]
  /\ UNCHANGED <<stop, submitted, completed, owner, done, asked, waited>>

\* A sleeping worker may wake without a notification.
SpuriousWake(w) ==
  /\ pc[w] = "wait"
  /\ pc' = [pc EXCEPT ![w] = "check"]
  /\ UNCHANGED <<queues, stop, submitted, completed, inflight, fn, owner, done, asked, waited>>

\* fn() returns and the worker accounts for it.
Finish(w) ==
  /\ pc[w] = "run"
  /\ done' = done \cup {fn[w]}
  /\ fn' = [fn EXCEPT ![w] = NoTask]
  /\ inflight' = Returned
  /\ completed' = completed + 1
  /\ pc' = [pc EXCEPT ![w] = "idle_notify"]
  /\ UNCHANGED <<queues, stop, submitted, owner, asked, waited>>

\* idle_cv_.notify_all after the unlock.
NotifyIdle(w) ==
  /\ pc[w] = "idle_notify"
  /\ pc' = [t \in DOMAIN pc |-> IF t = w THEN "check"
                                ELSE IF pc[t] = "doze" THEN "idle" ELSE pc[t]]
  /\ UNCHANGED <<queues, stop, submitted, completed, inflight, fn, owner, done, asked, waited>>

----------------------------------------------------------------------------
CallWaitIdle(c) ==
  /\ pc[c] = "out"
  /\ pc' = [pc EXCEPT ![c] = "idle"]
  /\ asked' = [asked EXCEPT ![c] = submitted]
  /\ UNCHANGED <<queues, stop, submitted, completed, inflight, fn, owner, done, waited>>

\* Mutant: the tasks in flight are forgotten.
IsIdleQueues == all_empty

IsIdle == inflight = 0 /\ all_empty

\* The critical section of wait_idle: return, or sleep for a millisecond.
PollIdle(c) ==
  /\ pc[c] = "idle"
  /\ \/ /\ IsIdle
        /\ pc' = [pc EXCEPT ![c] = "out"]
        /\ waited' = [waited EXCEPT ![c] = asked[c]]
     \/ /\ ~IsIdle
        /\ pc' = [pc EXCEPT ![c] = "doze"]
        /\ UNCHANGED waited
  /\ UNCHANGED <<queues, stop, submitted, completed, inflight, fn, owner, done, asked>>

\* wait_for runs out of time.
DozeTimeout(c) ==
  /\ pc[c] = "doze"
  /\ pc' = [pc EXCEPT ![c] = "idle"]
  /\ UNCHANGED <<queues, stop, submitted, completed, inflight, fn, owner, done, asked, waited>>

\* The client makes no further call on the pool.
Leave(c) ==
  /\ pc[c] = "out"
  /\ pc' = [pc EXCEPT ![c] = "left"]
  /\ UNCHANGED <<queues, stop, submitted, completed, inflight, fn, owner, done, asked, waited>>

----------------------------------------------------------------------------
\* The destructor, once no client uses the pool: stop under the lock, wake
\* everybody, join everybody.
Stop ==
  /\ owner = "alive" /\ \A c \in Clients : pc[c] = "left"
  /\ stop' = TRUE
  /\ owner' = "notify"
  /\ UNCHANGED <<queues, submitted, completed, inflight, pc, fn, done, asked, waited>>

Woken(t) == IF pc[t] = "wait" THEN "check" ELSE pc[t]

\* Mutant: notify_one where notify_all is needed.
NotifyStopOne ==
  /\ owner = "notify"
  /\ owner' = "join"
  /\ \E w \in Workers : pc' = [pc EXCEPT ![w] = Woken(w)]
  /\ UNCHANGED <<queues, stop, submitted, completed, inflight, fn, done, asked, waited>>

NotifyStop ==
  /\ owner = "notify"
  /\ owner' = "join"
  /\ pc' = [t \in DOMAIN pc |-> Woken(t)]
  /\ UNCHANGED <<queues, stop, submitted, completed, inflight, fn, done, asked, waited>>

Join ==
  /\ owner = "join" /\ \A w \in Workers : pc[w] = "exit"
  /\ owner' = "gone"
  /\ UNCHANGED <<queues, stop, submitted, completed, inflight, pc, fn, done, asked, waited>>

----------------------------------------------------------------------------
Init ==
  /\ queues = [p \in task_priority |-> << >>]
  /\ stop = FALSE /\ submitted = 0 /\ completed = 0 /\ inflight = 0
  /\ pc = [t \in Workers \cup Clients |-> IF t \in Workers THEN "check" ELSE "out"]
  /\ fn = [w \in Workers |-> NoTask]
  /\ owner = "alive"
  /\ done = {}
  /\ asked = [c \in Clients |-> 0] /\ waited = [c \in Clients |-> 0]

Next ==
  \/ \E t \in Workers \cup Clients, p \in Priorities : Submit(t, p)
  \/ \E t \in Workers \cup Clients : NotifyOne(t)
  \/ \E w \in Workers : Check(w) \/ SpuriousWake(w) \/ Finish(w) \/ NotifyIdle(w)
  \/ \E c \in Clients : CallWaitIdle(c) \/ PollIdle(c) \/ DozeTimeout(c) \/ Leave(c)
  \/ Stop \/ NotifyStop \/ Join

Spec == Init /\ [][Next]_vars

\* The scheduler runs every thread that can run, and every task returns.  No
\* client is obliged to submit, wait or leave, and no wake-up is spurious for
\* free.
FairSpec ==
  /\ Spec
  /\ \A t \in Workers \cup Clients : WF_vars(NotifyOne(t))
  /\ \A w \in Workers : WF_vars(Check(w)) /\ WF_vars(Finish(w)) /\ WF_vars(NotifyIdle(w))
  /\ \A c \in Clients : WF_vars(PollIdle(c)) /\ WF_vars(DozeTimeout(c))
  /\ WF_vars(NotifyStop) /\ WF_vars(Join)

----------------------------------------------------------------------------
TypeOK ==
  /\ queues \in [task_priority -> Seq(Tasks)]
  /\ stop \in BOOLEAN
  /\ submitted \in 0..MaxTasks /\ completed \in Nat /\ inflight \in Nat
  /\ pc \in [Workers \cup Clients -> WorkerPcs \cup ClientPcs]
  /\ \A w \in Workers : pc[w] \in WorkerPcs
  /\ \A c \in Clients : pc[c] \in ClientPcs
  /\ fn \in [Workers -> Tasks \cup {NoTask}]
  /\ owner \in {"alive", "notify", "join", "gone"}
  /\ done \subseteq Tasks
  /\ asked \in [Clients -> 0..MaxTasks] /\ waited \in [Clients -> 0..MaxTasks]

\* Each submitted task is in exactly one place: queued once, in the hands of
\* one worker, or done.  The pool moves tasks in two critical sections with
\* the run in between; none is lost or run twice.
EachTaskOnce ==
  /\ {t.id : t \in AllQueued \cup Running \cup done} = 1..submitted
  /\ \A p \in task_priority : \A i, j \in DOMAIN queues[p] :
       i # j => queues[p][i].id # queues[p][j].id
  /\ \A v, w \in Busy : v # w => fn[v].id # fn[w].id
  /\ \A t, u \in AllQueued \cup Running \cup done : t.id = u.id => t = u
  /\ AllQueued \cap Running = {} /\ (AllQueued \cup Running) \cap done = {}

\* The counters the pool reports agree with what happened: wait_idle trusts
\* inflight_, the metrics trust completed_.
CountersAgree ==
  /\ inflight = Cardinality(Busy)
  /\ completed = Cardinality(done)

\* Whatever the interleaving, the pool neither loses nor repeats a task, and its
\* counters tell so.
TasksAccounted == EachTaskOnce /\ CountersAgree

\* Within a priority tasks start in the order of their submission.
StartsInOrder ==
  \A t \in Running \cup done, u \in AllQueued : t.prio = u.prio => t.id < u.id

\* A client that returns from wait_idle finds every task done that had been
\* submitted when it called, by itself or by another thread.
IdleMeansDone ==
  \A c \in Clients : \A i \in 1..waited[c] : \E t \in done : t.id = i

\* The destructor returns only when every task has run, also those that tasks
\* submitted while the pool was stopping.
DrainedOnExit ==
  owner = "gone" => all_empty /\ {t.id : t \in done} = 1..submitted

\* No wake-up is lost: every task that is submitted eventually runs.
EveryTaskRuns ==
  \A i \in 1..MaxTasks : (submitted >= i) ~> (\E t \in done : t.id = i)

\* The destructor does not hang: once it asked the workers to stop they exit.
StopCompletes == stop ~> (owner = "gone")

\* wait_idle returns: the tasks are finitely many, and each ends its stay in
\* inflight_.
WaitIdleReturns == \A c \in Clients : (pc[c] = "idle") ~> (pc[c] = "out")
============================================================================
