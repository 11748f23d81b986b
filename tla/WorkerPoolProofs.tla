-------------------------- MODULE WorkerPoolProofs --------------------------
(***************************************************************************)
(* Proofs about the worker pool, for any number of workers, clients and    *)
(* tasks.                                                                  *)
(***************************************************************************)
EXTENDS WorkerPool, FiniteSetTheorems, TLAPS

\* A queue holds tasks of its priority in the order of their submission.
QueuesOrdered ==
  /\ \A p \in task_priority : \A i \in DOMAIN queues[p] : queues[p][i].prio = p
  /\ \A p \in task_priority : \A i, j \in DOMAIN queues[p] :
       i < j => queues[p][i].id < queues[p][j].id

TaskInv ==
  /\ TasksAccounted /\ StartsInOrder /\ QueuesOrdered
  /\ IsFiniteSet(done)
  /\ \A w \in Busy : fn[w] \in Tasks

\* Who is left when.  The last worker to exit found the queues empty, and by
\* then nobody can submit.
ThreadInv ==
  /\ owner # "alive" <=> stop
  /\ stop => \A c \in Clients : pc[c] = "left"
  /\ \A w \in Workers : pc[w] = "exit" => stop
  /\ owner = "gone" => \A w \in Workers : pc[w] = "exit"
  /\ (\A w \in Workers : pc[w] = "exit") => all_empty

WaitInv == IdleMeansDone /\ \A c \in Clients : asked[c] <= submitted

PoolInv == TypeOK /\ TaskInv /\ ThreadInv /\ WaitInv

----------------------------------------------------------------------------
\* The elements of a sequence with x appended.
LEMMA AppendElements ==
  ASSUME NEW S, NEW s \in Seq(S), NEW x \in S, NEW t, t = Append(s, x)
  PROVE  /\ t \in Seq(S) /\ DOMAIN t = DOMAIN s \cup {Len(s) + 1}
         /\ \A i \in DOMAIN s : t[i] = s[i] /\ i < Len(s) + 1
         /\ t[Len(s) + 1] = x
         /\ {t[i] : i \in DOMAIN t} = {s[i] : i \in DOMAIN s} \cup {x}
<1>1. /\ t \in Seq(S) /\ DOMAIN t = DOMAIN s \cup {Len(s) + 1}
      /\ \A i \in DOMAIN s : t[i] = s[i] /\ i < Len(s) + 1
      /\ t[Len(s) + 1] = x
  OBVIOUS
<1>2. {t[i] : i \in DOMAIN t} = {s[i] : i \in DOMAIN s} \cup {x}
  BY <1>1
<1> QED
  BY <1>1, <1>2

\* What wait_idle and the destructor conclude: with no task queued and no
\* worker busy every task is done.
LEMMA AllDone ==
  ASSUME TaskInv, all_empty, Busy = {}
  PROVE  {t.id : t \in done} = 1..submitted
<1>1. AllQueued = {}
  BY DEF AllQueued, Queued, all_empty
<1>2. Running = {}
  BY DEF Running
<1> QED
  BY <1>1, <1>2 DEF TaskInv, TasksAccounted, EachTaskOnce

\* inflight_ is zero exactly when no worker is busy.
LEMMA BusyFinite ==
  ASSUME TaskInv
  PROVE  IsFiniteSet(Busy) /\ (inflight = 0 <=> Busy = {})
<1>1. IsFiniteSet(Busy)
  BY FS_Subset, PoolAssumption DEF Busy
<1> QED
  BY <1>1, FS_EmptySet DEF TaskInv, TasksAccounted, CountersAgree

\* A step that moves no task keeps the tasks accounted for.
LEMMA TasksKept ==
  ASSUME TaskInv, Busy' = Busy,
         UNCHANGED <<queues, submitted, completed, inflight, fn, done>>
  PROVE  TaskInv'
<1>1. AllQueued' = AllQueued
  BY DEF AllQueued, Queued
<1>2. Running' = Running
  BY DEF Running
<1> QED
  BY <1>1, <1>2
  DEF TaskInv, TasksAccounted, EachTaskOnce, CountersAgree, StartsInOrder, QueuesOrdered

\* No id is in use beyond the ones given out.
LEMMA IdsBounded ==
  ASSUME TypeOK, TaskInv, NEW t \in AllQueued \cup Running \cup done
  PROVE  t.id \in 1..submitted /\ t.id < submitted + 1
<1>1. t.id \in 1..submitted
  BY DEF TaskInv, TasksAccounted, EachTaskOnce
<1> QED
  BY <1>1 DEF TypeOK

\* submit adds one task with a fresh id at the end of one queue.
LEMMA SubmitTasks ==
  ASSUME TypeOK, TaskInv, NEW t \in Workers \cup Clients, NEW p \in Priorities, Submit(t, p)
  PROVE  TypeOK' /\ TaskInv'
<1> PICK n : n = submitted + 1
  OBVIOUS
<1> PICK x : x = [id |-> n, prio |-> p]
  BY ZenonT(30)
<1>0. /\ queues \in [task_priority -> Seq(Tasks)] /\ p \in task_priority
      /\ submitted \in Nat /\ n \in 1..MaxTasks /\ n \in Nat
  BY PoolAssumption DEF TypeOK, Submit
<1>1. x \in Tasks /\ x.id = n /\ x.prio = p
  BY <1>0 DEF Tasks
<1>2. /\ queues' = [queues EXCEPT ![p] = Append(@, x)] /\ submitted' = n
      /\ UNCHANGED <<stop, completed, inflight, fn, owner, done, asked, waited>>
  BY DEF Submit
<1> PICK e : e = Len(queues[p]) + 1
  OBVIOUS
<1>3. queues[p] \in Seq(Tasks) /\ queues'[p] = Append(queues[p], x)
  BY <1>0, <1>2
<1>4. /\ queues'[p] \in Seq(Tasks) /\ DOMAIN queues'[p] = DOMAIN queues[p] \cup {e}
      /\ \A i \in DOMAIN queues[p] : queues'[p][i] = queues[p][i] /\ i < e
      /\ queues'[p][e] = x
      /\ {queues'[p][i] : i \in DOMAIN queues'[p]} = {queues[p][i] : i \in DOMAIN queues[p]} \cup {x}
  BY <1>1, <1>3, AppendElements
<1>5. \A q \in task_priority : q # p => queues'[q] = queues[q]
  BY <1>0, <1>2
<1>6. queues' \in [task_priority -> Seq(Tasks)]
  BY <1>0, <1>2, <1>4
<1>7. Queued(p)' = Queued(p) \cup {x} /\ \A q \in task_priority : q # p => Queued(q)' = Queued(q)
  BY <1>4, <1>5 DEF Queued
<1>8. AllQueued' = AllQueued \cup {x}
  BY <1>0, <1>7 DEF AllQueued
<1>9. \A w \in Workers : HasTask(w)' = HasTask(w)
  BY DEF TypeOK, Submit, HasTask
<1>10. Busy' = Busy /\ Running' = Running
  BY <1>2, <1>9 DEF Busy, Running
<1>11. TypeOK'
  <2>1. /\ pc' \in [Workers \cup Clients -> WorkerPcs \cup ClientPcs]
        /\ \A w \in Workers : pc'[w] \in WorkerPcs
        /\ \A c \in Clients : pc'[c] \in ClientPcs
    BY PoolAssumption, ZenonT(30) DEF TypeOK, Submit, WorkerPcs, ClientPcs
  <2> QED
    BY <1>0, <1>2, <1>6, <2>1 DEF TypeOK
<1>12. \A u \in AllQueued \cup Running \cup done : u.id \in 1..submitted /\ u.id < n
  BY IdsBounded
<1>13. x \notin AllQueued \cup Running \cup done /\ \A u \in AllQueued \cup Running \cup done : u.id # n
  BY <1>0, <1>1, <1>12
<1>14. EachTaskOnce'
  <2>1. {u.id : u \in AllQueued \cup Running \cup done} = 1..submitted
    BY DEF TaskInv, TasksAccounted, EachTaskOnce
  <2>2. {u.id : u \in AllQueued' \cup Running' \cup done'} = 1..submitted'
    <3>1. {u.id : u \in AllQueued' \cup Running' \cup done'}
            = {u.id : u \in AllQueued \cup Running \cup done} \cup {n}
      BY <1>1, <1>2, <1>8, <1>10, Zenon
    <3> QED
      <4>1. 1..submitted \cup {n} = 1..n
        BY <1>0
      <4> QED
        BY <1>2, <2>1, <3>1, <4>1, Zenon
  <2>3. \A q \in task_priority : \A i, j \in DOMAIN queues'[q] :
          i # j => queues'[q][i].id # queues'[q][j].id
    <3>1. \A q \in task_priority : \A i, j \in DOMAIN queues[q] :
            i # j => queues[q][i].id # queues[q][j].id
      BY DEF TaskInv, TasksAccounted, EachTaskOnce
    <3>2. \A i \in DOMAIN queues[p] : queues[p][i].id # n
      BY <1>0, <1>13 DEF AllQueued, Queued
    <3>3. \A i, j \in DOMAIN queues'[p] : i # j => queues'[p][i].id # queues'[p][j].id
      BY <1>0, <1>1, <1>4, <3>1, <3>2
    <3> QED
      BY <1>5, <3>1, <3>3
  <2>4. \A v, w \in Busy' : v # w => fn'[v].id # fn'[w].id
    BY <1>2, <1>10 DEF TaskInv, TasksAccounted, EachTaskOnce
  <2>5. \A u, v \in AllQueued' \cup Running' \cup done' : u.id = v.id => u = v
    <3>1. \A u, v \in AllQueued \cup Running \cup done : u.id = v.id => u = v
      BY DEF TaskInv, TasksAccounted, EachTaskOnce
    <3> QED
      BY <1>1, <1>2, <1>8, <1>10, <1>13, <3>1
  <2>6. AllQueued' \cap Running' = {} /\ (AllQueued' \cup Running') \cap done' = {}
    BY <1>2, <1>8, <1>10, <1>13 DEF TaskInv, TasksAccounted, EachTaskOnce
  <2> QED
    BY <2>2, <2>3, <2>4, <2>5, <2>6 DEF EachTaskOnce
<1>15. CountersAgree'
  BY <1>2, <1>10 DEF TaskInv, TasksAccounted, CountersAgree
<1>16. StartsInOrder'
  BY <1>1, <1>2, <1>8, <1>10, <1>12 DEF TaskInv, StartsInOrder
<1>17. QueuesOrdered'
  <2>1. /\ \A q \in task_priority : \A i \in DOMAIN queues[q] : queues[q][i].prio = q
        /\ \A q \in task_priority : \A i, j \in DOMAIN queues[q] :
             i < j => queues[q][i].id < queues[q][j].id
    BY DEF TaskInv, QueuesOrdered
  <2>2. \A i \in DOMAIN queues'[p] : queues'[p][i].prio = p
    BY <1>0, <1>1, <1>4, <2>1
  <2>3. \A i \in DOMAIN queues[p] : queues[p][i].id < n
    BY <1>0, <1>12 DEF AllQueued, Queued
  <2>4. \A i \in DOMAIN queues[p] : ~(e < i) /\ ~(e < e)
    BY <1>3
  <2>5. \A i, j \in DOMAIN queues'[p] : i < j => queues'[p][i].id < queues'[p][j].id
    BY <1>0, <1>1, <1>4, <2>1, <2>3, <2>4
  <2> QED
    BY <1>5, <2>1, <2>2, <2>5 DEF QueuesOrdered
<1> QED
  BY <1>2, <1>10, <1>11, <1>14, <1>15, <1>16, <1>17 DEF TaskInv, TasksAccounted

\* A worker takes the oldest task of a queue.
LEMMA TakeTasks ==
  ASSUME TypeOK, TaskInv, NEW w \in Workers, pc[w] = "check",
         NEW p \in task_priority, queues[p] # << >>,
         fn' = [fn EXCEPT ![w] = Front(p)], queues' = Popped(p), inflight' = Taken,
         pc' = [pc EXCEPT ![w] = "run"],
         UNCHANGED <<stop, submitted, completed, owner, done, asked, waited>>
  PROVE  TypeOK' /\ TaskInv'
<1> PICK x : x = Front(p)
  OBVIOUS
<1>0. /\ queues \in [task_priority -> Seq(Tasks)] /\ queues[p] \in Seq(Tasks)
      /\ fn \in [Workers -> Tasks \cup {NoTask}] /\ inflight \in Nat
      /\ pc \in [Workers \cup Clients -> WorkerPcs \cup ClientPcs]
  BY DEF TypeOK
<1>1. /\ \A q \in task_priority : \A i \in DOMAIN queues[q] : queues[q][i].prio = q
      /\ \A q \in task_priority : \A i, j \in DOMAIN queues[q] :
           i < j => queues[q][i].id < queues[q][j].id
  BY DEF TaskInv, QueuesOrdered
<1>2. EachTaskOnce
  BY DEF TaskInv, TasksAccounted
<1>3. \A i, j \in DOMAIN queues[p] : i # j => queues[p][i] # queues[p][j]
  BY <1>2 DEF EachTaskOnce
<1>4. queues'[p] = Tail(queues[p]) /\ \A q \in task_priority : q # p => queues'[q] = queues[q]
  BY <1>0 DEF Popped
<1>5. x = Head(queues[p])
  BY DEF Front
<1>6. /\ queues'[p] \in Seq(Tasks) /\ x = queues[p][1] /\ 1 \in DOMAIN queues[p] /\ x \in Tasks
      /\ \A i \in DOMAIN queues'[p] :
           i + 1 \in DOMAIN queues[p] /\ i + 1 > 1 /\ queues'[p][i] = queues[p][i + 1] /\ i \in Nat
      /\ {queues'[p][i] : i \in DOMAIN queues'[p]} = {queues[p][i] : i \in DOMAIN queues[p]} \ {x}
  <2> PICK s : s = queues[p]
    OBVIOUS
  <2> PICK t : t = queues'[p]
    OBVIOUS
  <2>1. /\ s \in Seq(Tasks) /\ s # << >> /\ t = Tail(s)
        /\ \A i, j \in DOMAIN s : i # j => s[i] # s[j]
    BY <1>0, <1>3, <1>4
  <2>2. /\ t \in Seq(Tasks) /\ x = s[1] /\ 1 \in DOMAIN s /\ x \in Tasks
        /\ \A i \in DOMAIN t : i + 1 \in DOMAIN s /\ i + 1 > 1 /\ t[i] = s[i + 1] /\ i \in Nat
    BY <1>5, <2>1
  <2>3. \A j \in DOMAIN s : j # 1 => j - 1 \in DOMAIN t /\ t[j - 1] = s[j]
    BY <2>1
  <2>4. \A i \in DOMAIN t : t[i] \in {s[j] : j \in DOMAIN s} \ {x}
    <3> SUFFICES ASSUME NEW i \in DOMAIN t PROVE t[i] \in {s[j] : j \in DOMAIN s} \ {x}
      OBVIOUS
    <3>1. i + 1 \in DOMAIN s /\ i + 1 # 1 /\ t[i] = s[i + 1]
      BY <2>2
    <3> QED
      BY <2>1, <2>2, <3>1, Zenon
  <2>5. \A j \in DOMAIN s : s[j] # x => s[j] \in {t[i] : i \in DOMAIN t}
    BY <2>2, <2>3
  <2>6. {t[i] : i \in DOMAIN t} = {s[i] : i \in DOMAIN s} \ {x}
    BY <2>4, <2>5
  <2>7. /\ queues'[p] \in Seq(Tasks) /\ x = queues[p][1] /\ 1 \in DOMAIN queues[p] /\ x \in Tasks
        /\ \A i \in DOMAIN queues'[p] :
             i + 1 \in DOMAIN queues[p] /\ i + 1 > 1 /\ queues'[p][i] = queues[p][i + 1] /\ i \in Nat
    BY <2>2
  <2>8. {queues'[p][i] : i \in DOMAIN queues'[p]} = {t[i] : i \in DOMAIN t}
    OBVIOUS
  <2>9. {queues[p][i] : i \in DOMAIN queues[p]} = {s[i] : i \in DOMAIN s}
    OBVIOUS
  <2> QED
    BY <2>6, <2>7, <2>8, <2>9, Zenon
<1>7. queues' \in [task_priority -> Seq(Tasks)]
  BY <1>0, <1>6 DEF Popped
<1>8. Queued(p)' = Queued(p) \ {x} /\ \A q \in task_priority : q # p => Queued(q)' = Queued(q)
  <2>1. Queued(p)' = {queues'[p][i] : i \in DOMAIN queues'[p]}
    BY DEF Queued
  <2>2. Queued(p)' = Queued(p) \ {x}
    BY <1>6, <2>1, Zenon DEF Queued
  <2>3. \A q \in task_priority : q # p => Queued(q)' = Queued(q)
    BY <1>4 DEF Queued
  <2> QED
    BY <2>2, <2>3
<1>9. x \in Queued(p) /\ x.prio = p /\ \A q \in task_priority : q # p => x \notin Queued(q)
  BY <1>1, <1>6 DEF Queued
<1>10. AllQueued' = AllQueued \ {x} /\ x \in AllQueued
  BY <1>8, <1>9 DEF AllQueued
<1>11. w \notin Busy /\ Busy' = Busy \cup {w} /\ fn'[w] = x /\ \A v \in Busy : fn'[v] = fn[v]
  BY <1>0 DEF Busy, HasTask
<1>12. Running' = Running \cup {x}
  BY <1>11 DEF Running
<1>13. TypeOK'
  <2>1. /\ pc' \in [Workers \cup Clients -> WorkerPcs \cup ClientPcs]
        /\ \A v \in Workers : pc'[v] \in WorkerPcs
        /\ \A c \in Clients : pc'[c] \in ClientPcs
    BY PoolAssumption DEF TypeOK, WorkerPcs
  <2>2. fn' \in [Workers -> Tasks \cup {NoTask}] /\ inflight' \in Nat
    BY <1>0, <1>6, <1>11 DEF Taken
  <2> QED
    BY <1>7, <2>1, <2>2 DEF TypeOK
<1>14. EachTaskOnce'
  <2>0. AllQueued' \cup Running' \cup done' = AllQueued \cup Running \cup done
    BY <1>10, <1>12
  <2>1. {u.id : u \in AllQueued' \cup Running' \cup done'} = 1..submitted'
    BY <1>2, <2>0 DEF EachTaskOnce
  <2>2. \A q \in task_priority : \A i, j \in DOMAIN queues'[q] :
          i # j => queues'[q][i].id # queues'[q][j].id
    <3>1. \A q \in task_priority : \A i, j \in DOMAIN queues[q] :
            i # j => queues[q][i].id # queues[q][j].id
      BY <1>2 DEF EachTaskOnce
    <3>2. \A i, j \in DOMAIN queues'[p] : i # j => queues'[p][i].id # queues'[p][j].id
      <4> SUFFICES ASSUME NEW i \in DOMAIN queues'[p], NEW j \in DOMAIN queues'[p], i # j
                   PROVE  queues'[p][i].id # queues'[p][j].id
        OBVIOUS
      <4>1. i + 1 # j + 1 /\ i + 1 \in DOMAIN queues[p] /\ j + 1 \in DOMAIN queues[p]
        BY <1>6
      <4>2. queues'[p][i] = queues[p][i + 1] /\ queues'[p][j] = queues[p][j + 1]
        BY <1>6
      <4>3. queues[p][i + 1].id # queues[p][j + 1].id
        BY <3>1, <4>1, Zenon
      <4> QED
        BY <4>2, <4>3, Zenon
    <3>3. ASSUME NEW q \in task_priority, q # p
          PROVE  \A i, j \in DOMAIN queues'[q] : i # j => queues'[q][i].id # queues'[q][j].id
      BY <1>4, <3>1, <3>3
    <3> QED
      BY <3>2, <3>3
  <2>3. \A u, v \in AllQueued' \cup Running' \cup done' : u.id = v.id => u = v
    BY <1>2, <2>0 DEF EachTaskOnce
  <2>4. \A v \in Busy : fn[v] \in Running /\ fn[v].id # x.id
    BY <1>2, <1>10 DEF EachTaskOnce, Running
  <2>5. \A u, v \in Busy' : u # v => fn'[u].id # fn'[v].id
    BY <1>2, <1>11, <2>4 DEF EachTaskOnce
  <2>6. AllQueued' \cap Running' = {} /\ (AllQueued' \cup Running') \cap done' = {}
    BY <1>2, <1>10, <1>12 DEF EachTaskOnce
  <2> QED
    BY <2>1, <2>2, <2>3, <2>5, <2>6 DEF EachTaskOnce
<1>15. CountersAgree'
  <2>1. IsFiniteSet(Busy) /\ inflight = Cardinality(Busy) /\ completed = Cardinality(done)
    BY BusyFinite DEF TaskInv, TasksAccounted, CountersAgree
  <2>2. Cardinality(Busy \cup {w}) = Cardinality(Busy) + 1
    BY <1>11, <2>1, FS_AddElement, ZenonT(30)
  <2> QED
    BY <1>11, <2>1, <2>2 DEF CountersAgree, Taken
<1>16. StartsInOrder'
  <2>1. \A u \in AllQueued' : u.prio = p => x.id < u.id
    <3> SUFFICES ASSUME NEW u \in AllQueued', u.prio = p PROVE x.id < u.id
      OBVIOUS
    <3>1. u \in Queued(p)'
      <4>1. PICK q \in task_priority : u \in Queued(q)'
        BY DEF AllQueued
      <4>2. u \in Queued(q)
        BY <1>8, <4>1
      <4>3. u.prio = q
        BY <1>1, <4>2 DEF Queued
      <4> QED
        BY <4>1, <4>3
    <3>2. PICK i \in DOMAIN queues'[p] : u = queues'[p][i]
      BY <3>1 DEF Queued
    <3> QED
      BY <1>1, <1>6, <3>2
  <2> QED
    BY <1>9, <1>10, <1>12, <2>1 DEF TaskInv, StartsInOrder
<1>17. QueuesOrdered'
  <2>1. \A i, j \in DOMAIN queues'[p] : i < j => queues'[p][i].id < queues'[p][j].id
    BY <1>1, <1>6
  <2>2. \A i \in DOMAIN queues'[p] : queues'[p][i].prio = p
    BY <1>1, <1>6
  <2> QED
    BY <1>1, <1>4, <2>1, <2>2, ZenonT(30) DEF QueuesOrdered
<1>18. \A v \in Busy' : fn'[v] \in Tasks
  BY <1>6, <1>11 DEF TaskInv
<1> QED
  BY <1>13, <1>14, <1>15, <1>16, <1>17, <1>18 DEF TaskInv, TasksAccounted

\* A task that returns is done and no longer in its worker's hands.
LEMMA FinishTasks ==
  ASSUME TypeOK, TaskInv, NEW w \in Workers, Finish(w)
  PROVE  TypeOK' /\ TaskInv'
<1> PICK x : x = fn[w]
  OBVIOUS
<1>0. /\ pc[w] = "run" /\ done' = done \cup {x} /\ fn' = [fn EXCEPT ![w] = NoTask]
      /\ inflight' = inflight - 1 /\ completed' = completed + 1
      /\ pc' = [pc EXCEPT ![w] = "idle_notify"]
      /\ UNCHANGED <<queues, stop, submitted, owner, asked, waited>>
  BY DEF Finish, Returned
<1>1. /\ fn \in [Workers -> Tasks \cup {NoTask}] /\ inflight \in Nat /\ completed \in Nat
      /\ pc \in [Workers \cup Clients -> WorkerPcs \cup ClientPcs] /\ done \subseteq Tasks
  BY DEF TypeOK
<1>2. EachTaskOnce /\ StartsInOrder
  BY DEF TaskInv, TasksAccounted
<1>3. w \in Busy /\ Busy' = Busy \ {w} /\ \A v \in Busy' : fn'[v] = fn[v]
  BY <1>0, <1>1 DEF Busy, HasTask
<1>4. x \in Running /\ x \in Tasks
  BY <1>3 DEF Running, TaskInv
<1>5. AllQueued' = AllQueued
  BY <1>0 DEF AllQueued, Queued
<1>6. \A v \in Busy : v # w => fn[v] # x
  BY <1>2, <1>3 DEF EachTaskOnce
<1>7. Running' = Running \ {x}
  BY <1>3, <1>6 DEF Running
<1>8. x \notin done /\ x \notin AllQueued
  BY <1>2, <1>4 DEF EachTaskOnce
<1>9. CountersAgree' /\ IsFiniteSet(done') /\ inflight' \in Nat
  <2>1. /\ IsFiniteSet(Busy) /\ inflight = Cardinality(Busy) /\ inflight # 0
        /\ IsFiniteSet(done) /\ completed = Cardinality(done)
    BY <1>3, BusyFinite DEF TaskInv, TasksAccounted, CountersAgree
  <2>2. Cardinality(Busy \ {w}) = Cardinality(Busy) - 1
    BY <1>3, <2>1, FS_RemoveElement, ZenonT(30)
  <2>3. IsFiniteSet(done \cup {x}) /\ Cardinality(done \cup {x}) = Cardinality(done) + 1
    BY <1>8, <2>1, FS_AddElement
  <2> QED
    BY <1>0, <1>1, <1>3, <2>1, <2>2, <2>3 DEF CountersAgree
<1>10. TypeOK'
  <2>1. /\ pc' \in [Workers \cup Clients -> WorkerPcs \cup ClientPcs]
        /\ \A v \in Workers : pc'[v] \in WorkerPcs
        /\ \A c \in Clients : pc'[c] \in ClientPcs
    BY <1>0, PoolAssumption DEF TypeOK, WorkerPcs
  <2>2. fn' \in [Workers -> Tasks \cup {NoTask}] /\ completed' \in Nat /\ done' \subseteq Tasks
    BY <1>0, <1>1, <1>4
  <2> QED
    BY <1>0, <1>9, <2>1, <2>2 DEF TypeOK
<1>11. EachTaskOnce'
  <2>0. AllQueued' \cup Running' \cup done' = AllQueued \cup Running \cup done
    BY <1>0, <1>4, <1>5, <1>7
  <2>1. {u.id : u \in AllQueued' \cup Running' \cup done'} = 1..submitted'
    BY <1>0, <1>2, <2>0 DEF EachTaskOnce
  <2>2. \A u, v \in AllQueued' \cup Running' \cup done' : u.id = v.id => u = v
    BY <1>2, <2>0 DEF EachTaskOnce
  <2>3. \A u, v \in Busy' : u # v => fn'[u].id # fn'[v].id
    BY <1>2, <1>3 DEF EachTaskOnce
  <2>4. AllQueued' \cap Running' = {} /\ (AllQueued' \cup Running') \cap done' = {}
    BY <1>0, <1>2, <1>5, <1>7, <1>8 DEF EachTaskOnce
  <2>5. \A q \in task_priority : \A i, j \in DOMAIN queues'[q] :
          i # j => queues'[q][i].id # queues'[q][j].id
    BY <1>0, <1>2 DEF EachTaskOnce
  <2> QED
    BY <2>1, <2>2, <2>3, <2>4, <2>5 DEF EachTaskOnce
<1>12. StartsInOrder'
  BY <1>0, <1>2, <1>4, <1>5, <1>7 DEF StartsInOrder
<1>13. QueuesOrdered' /\ \A v \in Busy' : fn'[v] \in Tasks
  BY <1>0, <1>3 DEF TaskInv, QueuesOrdered
<1> QED
  BY <1>9, <1>10, <1>11, <1>12, <1>13 DEF TaskInv, TasksAccounted

----------------------------------------------------------------------------
\* The steps that move no task: notifications, waits, and the destructor's.
Quiet ==
  \/ \E t \in Workers \cup Clients : NotifyOne(t)
  \/ \E w \in Workers : SpuriousWake(w) \/ NotifyIdle(w)
  \/ \E w \in Workers : Check(w) /\ UNCHANGED <<queues, inflight, fn>>
  \/ \E c \in Clients : CallWaitIdle(c) \/ PollIdle(c) \/ DozeTimeout(c) \/ Leave(c)
  \/ Stop \/ NotifyStop \/ Join
  \/ UNCHANGED vars

\* Where threads may go in a quiet step.
Moves ==
  /\ pc' \in [Workers \cup Clients -> WorkerPcs \cup ClientPcs]
  /\ \A w \in Workers : /\ pc'[w] \in WorkerPcs
                        /\ pc'[w] \in {"run", "run_notify"} <=> pc[w] \in {"run", "run_notify"}
                        /\ pc[w] = "exit" => pc'[w] = "exit"
                        /\ pc'[w] = "exit" => pc[w] = "exit" \/ MayExit
  /\ \A c \in Clients : /\ pc'[c] \in ClientPcs
                        /\ pc[c] = "left" => pc'[c] = "left"

LEMMA QuietMoves ==
  ASSUME TypeOK, Quiet
  PROVE  Moves
<1>0. /\ pc \in [Workers \cup Clients -> WorkerPcs \cup ClientPcs]
      /\ \A w \in Workers : pc[w] \in WorkerPcs
      /\ \A c \in Clients : pc[c] \in ClientPcs
      /\ \A w \in Workers : w \notin Clients
  BY PoolAssumption DEF TypeOK
<1>1. ASSUME NEW t \in Workers \cup Clients, NotifyOne(t) PROVE Moves
  <2>1. CASE \E w \in Workers : pc[w] = "wait" /\ pc' = [pc EXCEPT ![t] = Resume(t), ![w] = "check"]
    <3>1. PICK w \in Workers : pc[w] = "wait" /\ pc' = [pc EXCEPT ![t] = Resume(t), ![w] = "check"]
      BY <2>1, ZenonT(30)
    <3> QED
      BY <1>0, <1>1, <3>1 DEF NotifyOne, Resume, Moves, WorkerPcs, ClientPcs
  <2>2. CASE pc' = [pc EXCEPT ![t] = Resume(t)]
    BY <1>0, <1>1, <2>2 DEF NotifyOne, Resume, Moves, WorkerPcs, ClientPcs
  <2> QED
    BY <1>1, <2>1, <2>2 DEF NotifyOne
<1>2. ASSUME NEW w \in Workers, SpuriousWake(w) PROVE Moves
  BY <1>0, <1>2 DEF SpuriousWake, Moves, WorkerPcs, ClientPcs
<1>3. ASSUME NEW w \in Workers, NotifyIdle(w) PROVE Moves
  BY <1>0, <1>3 DEF NotifyIdle, Moves, WorkerPcs, ClientPcs
<1>4. ASSUME NEW w \in Workers, Check(w), UNCHANGED inflight, inflight \in Nat PROVE Moves
  <2>1. /\ pc[w] = "check"
        /\ \/ pc' = [pc EXCEPT ![w] = "wait"]
           \/ MayExit /\ pc' = [pc EXCEPT ![w] = "exit"]
    BY <1>4 DEF Check, Taken
  <2>2. CASE pc' = [pc EXCEPT ![w] = "wait"]
    BY <1>0, <2>1, <2>2 DEF Moves, WorkerPcs, ClientPcs
  <2>3. CASE MayExit /\ pc' = [pc EXCEPT ![w] = "exit"]
    BY <1>0, <2>1, <2>3 DEF Moves, WorkerPcs, ClientPcs
  <2> QED
    BY <2>1, <2>2, <2>3
<1>5. ASSUME NEW c \in Clients, CallWaitIdle(c) \/ DozeTimeout(c) \/ Leave(c) \/ PollIdle(c)
      PROVE  Moves
  <2>1. \E x \in ClientPcs : pc[c] # "left" /\ pc' = [pc EXCEPT ![c] = x]
    BY <1>5 DEF CallWaitIdle, DozeTimeout, Leave, PollIdle, ClientPcs
  <2> QED
    BY <1>0, <2>1 DEF Moves, WorkerPcs, ClientPcs
<1>6. CASE NotifyStop
  BY <1>0, <1>6 DEF NotifyStop, Woken, Moves, WorkerPcs, ClientPcs
<1>7. CASE UNCHANGED pc
  BY <1>0, <1>7 DEF Moves
<1> QED
  BY <1>1, <1>2, <1>3, <1>4, <1>5, <1>6, <1>7 DEF Quiet, TypeOK, Stop, Join, vars

\* What else a quiet step leaves alone, and what it changes.
LEMMA QuietFrame ==
  ASSUME TypeOK, Quiet
  PROVE  /\ UNCHANGED <<queues, submitted, completed, inflight, fn, done>>
         /\ stop' = stop \/ Stop
         /\ owner' = owner \/ Stop \/ NotifyStop \/ Join
         /\ UNCHANGED <<asked, waited>> \/ \E c \in Clients : CallWaitIdle(c) \/ PollIdle(c)
<1>1. ASSUME NEW t \in Workers \cup Clients, NotifyOne(t)
      PROVE  UNCHANGED <<queues, submitted, completed, inflight, fn, done, stop, owner, asked, waited>>
  BY <1>1 DEF NotifyOne
<1>2. ASSUME NEW w \in Workers,
             SpuriousWake(w) \/ NotifyIdle(w) \/ (Check(w) /\ UNCHANGED <<queues, inflight, fn>>)
      PROVE  UNCHANGED <<queues, submitted, completed, inflight, fn, done, stop, owner, asked, waited>>
  BY <1>2 DEF SpuriousWake, NotifyIdle, Check
<1>3. ASSUME NEW c \in Clients, CallWaitIdle(c) \/ PollIdle(c)
      PROVE  UNCHANGED <<queues, submitted, completed, inflight, fn, done, stop, owner>>
  BY <1>3 DEF CallWaitIdle, PollIdle
<1>4. ASSUME NEW c \in Clients, DozeTimeout(c) \/ Leave(c)
      PROVE  UNCHANGED <<queues, submitted, completed, inflight, fn, done, stop, owner, asked, waited>>
  BY <1>4 DEF DozeTimeout, Leave
<1>5. Stop \/ NotifyStop \/ Join => UNCHANGED <<queues, submitted, completed, inflight, fn, done, asked, waited>>
  BY DEF Stop, NotifyStop, Join
<1>6. NotifyStop \/ Join => stop' = stop
  BY DEF NotifyStop, Join
<1>7. UNCHANGED vars =>
        UNCHANGED <<queues, submitted, completed, inflight, fn, done, stop, owner, asked, waited>>
  BY DEF vars
<1> QED
  BY <1>1, <1>2, <1>3, <1>4, <1>5, <1>6, <1>7 DEF Quiet

\* A quiet step keeps the invariant.
LEMMA QuietInv ==
  ASSUME PoolInv, Quiet
  PROVE  PoolInv'
<1>0. TypeOK /\ TaskInv /\ ThreadInv /\ WaitInv /\ Moves
  BY QuietMoves DEF PoolInv
<1>1. /\ UNCHANGED <<queues, submitted, completed, inflight, fn, done>>
      /\ stop' = stop \/ Stop
      /\ owner' = owner \/ Stop \/ NotifyStop \/ Join
      /\ UNCHANGED <<asked, waited>> \/ \E c \in Clients : CallWaitIdle(c) \/ PollIdle(c)
  BY <1>0, QuietFrame
<1>2. Busy' = Busy
  BY <1>0 DEF Busy, HasTask, Moves
<1>3. TaskInv'
  BY <1>0, <1>1, <1>2, TasksKept
<1>4. asked' \in [Clients -> 0..MaxTasks] /\ waited' \in [Clients -> 0..MaxTasks] /\ WaitInv'
  <2>0. /\ asked \in [Clients -> 0..MaxTasks] /\ waited \in [Clients -> 0..MaxTasks]
        /\ submitted \in 0..MaxTasks /\ MaxTasks \in Nat
        /\ \A c \in Clients : asked[c] <= submitted
        /\ \A c \in Clients : \A i \in 1..waited[c] : \E t \in done : t.id = i
    BY <1>0, PoolAssumption DEF TypeOK, WaitInv, IdleMeansDone
  <2>1. CASE UNCHANGED <<asked, waited>>
    BY <1>1, <2>0, <2>1 DEF WaitInv, IdleMeansDone
  <2>2. ASSUME NEW c \in Clients, CallWaitIdle(c)
        PROVE  asked' \in [Clients -> 0..MaxTasks] /\ waited' \in [Clients -> 0..MaxTasks] /\ WaitInv'
    <3>1. asked' = [asked EXCEPT ![c] = submitted] /\ waited' = waited
      BY <2>2 DEF CallWaitIdle
    <3> QED
      BY <1>1, <2>0, <3>1 DEF WaitInv, IdleMeansDone
  <2>3. ASSUME NEW c \in Clients, PollIdle(c), ~UNCHANGED waited
        PROVE  asked' \in [Clients -> 0..MaxTasks] /\ waited' \in [Clients -> 0..MaxTasks] /\ WaitInv'
    <3>1. IsIdle /\ waited' = [waited EXCEPT ![c] = asked[c]] /\ asked' = asked
      BY <2>3 DEF PollIdle
    <3>2. Busy = {} /\ all_empty
      BY <1>0, <3>1, BusyFinite DEF IsIdle
    <3>3. {t.id : t \in done} = 1..submitted
      BY <1>0, <3>2, AllDone
    <3>4. \A i \in 1..asked[c] : i \in 1..submitted
      BY <2>0
    <3>5. \A i \in 1..asked[c] : \E t \in done : t.id = i
      BY <3>3, <3>4
    <3> QED
      BY <1>1, <2>0, <3>1, <3>5 DEF WaitInv, IdleMeansDone
  <2>4. ASSUME NEW c \in Clients, PollIdle(c), UNCHANGED waited
        PROVE  UNCHANGED <<asked, waited>>
    BY <2>4 DEF PollIdle
  <2> QED
    BY <1>1, <2>1, <2>2, <2>3, <2>4
<1>5. /\ stop' \in BOOLEAN /\ owner' \in {"alive", "notify", "join", "gone"}
      /\ owner' # "alive" <=> stop'
      /\ stop' => \A c \in Clients : pc'[c] = "left"
  <2>0. /\ stop \in BOOLEAN /\ owner \in {"alive", "notify", "join", "gone"}
        /\ (owner # "alive" <=> stop) /\ (stop => \A c \in Clients : pc[c] = "left")
        /\ \A c \in Clients : pc[c] = "left" => pc'[c] = "left"
    BY <1>0 DEF TypeOK, ThreadInv, Moves
  <2>1. CASE Stop
    BY <2>0, <2>1 DEF Stop
  <2>2. CASE NotifyStop \/ Join
    BY <2>0, <2>2 DEF NotifyStop, Join
  <2>3. CASE stop' = stop /\ owner' = owner
    BY <2>0, <2>3
  <2> QED
    BY <1>1, <2>1, <2>2, <2>3, ZenonT(30) DEF Stop, NotifyStop, Join
<1>6. TypeOK'
  BY <1>0, <1>1, <1>4, <1>5 DEF TypeOK, Moves
<1>7. stop => stop'
  BY <1>1, ZenonT(30) DEF Stop
<1>8. \A w \in Workers : pc'[w] = "exit" => stop'
  BY <1>0, <1>7 DEF ThreadInv, Moves, MayExit
<1>9. owner' = "gone" => \A w \in Workers : pc'[w] = "exit"
  <2>1. CASE owner = "gone"
    BY <1>0, <2>1 DEF ThreadInv, Moves
  <2>2. CASE owner # "gone" /\ owner' = "gone"
    BY <1>0, <1>1, <2>2 DEF Stop, NotifyStop, Join, Moves
  <2> QED
    BY <2>1, <2>2
<1>10. (\A w \in Workers : pc'[w] = "exit") => all_empty'
  BY <1>0, <1>1 DEF ThreadInv, Moves, MayExit, all_empty
<1> QED
  BY <1>3, <1>4, <1>5, <1>6, <1>8, <1>9, <1>10 DEF PoolInv, ThreadInv

\* A step that moves a task is one of a thread that works, so the pool is not
\* at its end, and it takes nothing back from the clients that waited.
LEMMA WorkInv ==
  ASSUME PoolInv, TypeOK', TaskInv',
         NEW t \in Workers \cup Clients, pc[t] \in {"out", "check", "run"},
         NEW x \in {"notify", "run_notify", "run", "idle_notify"},
         pc' = [pc EXCEPT ![t] = x],
         done \subseteq done', submitted' \in {submitted, submitted + 1},
         UNCHANGED <<stop, owner, asked, waited>>,
         pc[t] = "out" => x = "notify"
  PROVE  PoolInv'
<1>0. TypeOK /\ ThreadInv /\ WaitInv
  BY DEF PoolInv
<1>1. /\ pc \in [Workers \cup Clients -> WorkerPcs \cup ClientPcs]
      /\ \A c \in Clients : pc[c] \in ClientPcs
      /\ Workers # {}
  BY <1>0, PoolAssumption DEF TypeOK
<1>2. \A u \in Workers \cup Clients : u # t => pc'[u] = pc[u]
  BY <1>1
<1>3. pc'[t] = x /\ x # "exit"
  BY <1>1
<1>4. \A w \in Workers : pc'[w] = "exit" => pc[w] = "exit" /\ w # t
  BY <1>2, <1>3
<1>5. t \in Workers \/ ~stop
  BY <1>0 DEF ThreadInv
<1>6. stop' => \A c \in Clients : pc'[c] = "left"
  <2> SUFFICES ASSUME stop, NEW c \in Clients PROVE pc'[c] = "left"
    OBVIOUS
  <2>1. c # t
    BY <1>5, PoolAssumption
  <2> QED
    BY <1>0, <1>2, <2>1 DEF ThreadInv
<1>7. ~(\A w \in Workers : pc'[w] = "exit")
  <2>1. CASE t \in Workers
    BY <1>3, <2>1
  <2>2. CASE ~stop
    BY <1>0, <1>1, <1>4, <2>2 DEF ThreadInv
  <2> QED
    BY <1>5, <2>1, <2>2
<1>8. owner # "gone"
  <2> SUFFICES ASSUME owner = "gone" PROVE FALSE
    OBVIOUS
  <2>1. stop /\ \A w \in Workers : pc[w] = "exit"
    BY <1>0 DEF ThreadInv
  <2> QED
    BY <1>5, <2>1
<1>9. ThreadInv'
  BY <1>0, <1>4, <1>6, <1>7, <1>8 DEF ThreadInv
<1>10. WaitInv'
  <2>1. submitted \in Nat /\ asked \in [Clients -> 0..MaxTasks] /\ MaxTasks \in Nat
    BY <1>0, PoolAssumption DEF TypeOK
  <2>2. \A c \in Clients : asked[c] <= submitted'
    BY <1>0, <2>1 DEF WaitInv
  <2> QED
    BY <1>0, <2>2 DEF WaitInv, IdleMeansDone
<1> QED
  BY <1>9, <1>10 DEF PoolInv

\* Every step keeps the invariant.
LEMMA NextInv == PoolInv /\ [Next]_vars => PoolInv'
<1> SUFFICES ASSUME PoolInv, [Next]_vars PROVE PoolInv'
  OBVIOUS
<1>0. TypeOK /\ TaskInv /\ submitted \in Nat
  BY PoolAssumption DEF PoolInv, TypeOK
<1>1. ASSUME NEW t \in Workers \cup Clients, NEW p \in Priorities, Submit(t, p) PROVE PoolInv'
  <2>1. TypeOK' /\ TaskInv'
    BY <1>0, <1>1, SubmitTasks
  <2>2. /\ submitted' = submitted + 1 /\ UNCHANGED <<stop, owner, done, asked, waited>>
        /\ \/ pc[t] = "out" /\ pc' = [pc EXCEPT ![t] = "notify"]
           \/ pc[t] = "run" /\ pc' = [pc EXCEPT ![t] = "run_notify"]
    BY <1>1 DEF Submit
  <2> QED
    BY <2>1, <2>2, WorkInv
<1>2. ASSUME NEW w \in Workers, Finish(w) PROVE PoolInv'
  <2>1. TypeOK' /\ TaskInv'
    BY <1>0, <1>2, FinishTasks
  <2>2. /\ pc[w] = "run" /\ pc' = [pc EXCEPT ![w] = "idle_notify"] /\ done \subseteq done'
        /\ UNCHANGED <<submitted, stop, owner, asked, waited>>
    BY <1>2 DEF Finish
  <2> QED
    BY <2>1, <2>2, WorkInv, ZenonT(30)
<1>3. ASSUME NEW w \in Workers, Check(w) PROVE PoolInv'
  <2>1. CASE UNCHANGED <<queues, inflight, fn>>
    BY <1>3, <2>1, QuietInv DEF Quiet
  <2>2. CASE ~UNCHANGED <<queues, inflight, fn>>
    <3>1. PICK p \in task_priority :
            /\ queues[p] # << >> /\ fn' = [fn EXCEPT ![w] = Front(p)] /\ queues' = Popped(p)
            /\ inflight' = Taken /\ pc' = [pc EXCEPT ![w] = "run"]
      BY <1>3, <2>2 DEF Check, PopFrom
    <3>2. pc[w] = "check" /\ UNCHANGED <<stop, submitted, completed, owner, done, asked, waited>>
      BY <1>3 DEF Check
    <3>3. TypeOK' /\ TaskInv'
      BY <1>0, <3>1, <3>2, TakeTasks, ZenonT(30)
    <3> QED
      BY <3>1, <3>2, <3>3, WorkInv, ZenonT(30)
  <2> QED
    BY <2>1, <2>2
<1>4. CASE Quiet
  BY <1>4, QuietInv
<1> QED
  BY <1>1, <1>2, <1>3, <1>4 DEF Next, Quiet

\* The constructor starts the workers on empty queues.
LEMMA InitInv == Init => PoolInv
<1> SUFFICES ASSUME Init PROVE PoolInv
  OBVIOUS
<1>1. TypeOK
  <2>1. /\ pc \in [Workers \cup Clients -> WorkerPcs \cup ClientPcs]
        /\ \A w \in Workers : pc[w] \in WorkerPcs
        /\ \A c \in Clients : pc[c] \in ClientPcs
    BY PoolAssumption DEF Init, WorkerPcs, ClientPcs
  <2>2. queues \in [task_priority -> Seq(Tasks)]
    BY DEF Init
  <2>3. fn \in [Workers -> Tasks \cup {NoTask}] /\ done \subseteq Tasks
    BY DEF Init
  <2>4. /\ submitted \in 0..MaxTasks /\ completed \in Nat /\ inflight \in Nat
        /\ asked \in [Clients -> 0..MaxTasks] /\ waited \in [Clients -> 0..MaxTasks]
    BY PoolAssumption DEF Init
  <2>5. stop \in BOOLEAN /\ owner \in {"alive", "notify", "join", "gone"}
    BY ZenonT(30) DEF Init
  <2> QED
    BY <2>1, <2>2, <2>3, <2>4, <2>5 DEF TypeOK
<1>2. all_empty /\ Busy = {} /\ done = {} /\ submitted = 0 /\ completed = 0 /\ inflight = 0
  BY DEF Init, all_empty, Busy, HasTask
<1>3. AllQueued = {} /\ Running = {} /\ \A p \in task_priority : DOMAIN queues[p] = {}
  BY <1>2 DEF AllQueued, Queued, Running, all_empty
<1>4. EachTaskOnce /\ StartsInOrder /\ QueuesOrdered
  <2>1. {t.id : t \in AllQueued \cup Running \cup done} = 1..submitted
    BY <1>2, <1>3
  <2> QED
    BY <1>2, <1>3, <2>1 DEF EachTaskOnce, StartsInOrder, QueuesOrdered
<1>5. CountersAgree /\ IsFiniteSet(done)
  BY <1>2, FS_EmptySet DEF CountersAgree
<1>6. TaskInv
  BY <1>2, <1>4, <1>5 DEF TaskInv, TasksAccounted
<1>7. ThreadInv
  BY <1>2, PoolAssumption DEF Init, ThreadInv
<1>8. WaitInv
  BY DEF Init, WaitInv, IdleMeansDone
<1> QED
  BY <1>1, <1>6, <1>7, <1>8 DEF PoolInv

\* What the invariant says of the destructor.
LEMMA InvDrained == PoolInv => DrainedOnExit
<1> SUFFICES ASSUME PoolInv, owner = "gone" PROVE all_empty /\ {t.id : t \in done} = 1..submitted
  BY DEF DrainedOnExit
<1>1. \A w \in Workers : pc[w] = "exit"
  BY DEF PoolInv, ThreadInv
<1>2. all_empty /\ Busy = {}
  BY <1>1 DEF PoolInv, ThreadInv, Busy, HasTask
<1> QED
  BY <1>2, AllDone DEF PoolInv

\* Every variable of the pool keeps its type; no counter of it goes below zero.
THEOREM TypeCorrect == Spec => []TypeOK
<1>1. PoolInv => TypeOK
  BY DEF PoolInv
<1> QED
  BY <1>1, InitInv, NextInv, PTL DEF Spec

\* The pool neither loses nor repeats a task, and inflight_ and completed_ count
\* the tasks they are meant to count.
THEOREM TasksAreAccounted == Spec => []TasksAccounted
<1>1. PoolInv => TasksAccounted
  BY DEF PoolInv, TaskInv
<1> QED
  BY <1>1, InitInv, NextInv, PTL DEF Spec

\* Tasks of one priority start in the order of their submission.
THEOREM TasksStartInOrder == Spec => []StartsInOrder
<1>1. PoolInv => StartsInOrder
  BY DEF PoolInv, TaskInv
<1> QED
  BY <1>1, InitInv, NextInv, PTL DEF Spec

\* wait_idle returns only when the tasks submitted before the call have run.
THEOREM WaitIdleIsHonest == Spec => []IdleMeansDone
<1>1. PoolInv => IdleMeansDone
  BY DEF PoolInv, WaitInv
<1> QED
  BY <1>1, InitInv, NextInv, PTL DEF Spec

\* The destructor leaves no task behind.
THEOREM DestructorDrains == Spec => []DrainedOnExit
BY InitInv, NextInv, InvDrained, PTL DEF Spec
============================================================================
