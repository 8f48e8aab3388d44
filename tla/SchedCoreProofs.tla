-------------------------- MODULE SchedCoreProofs ---------------------------
(***************************************************************************)
(* Proofs about SchedCore for every number of tasks, groups, priorities,   *)
(* weights and slices.                                                     *)
(***************************************************************************)
EXTENDS SchedCore, DataProofs

-----------------------------------------------------------------------------
(* The run queue.  RqOK(r, ts, on): r holds exactly the tasks on, by the    *)
(* classes and priorities they have in ts.                                  *)

RqOK(r, ts, on) ==
  /\ r \in RunQueue
  /\ WrrQueueOK(r, ts, on)
  /\ RtQueueOK(r, ts, on)
  /\ CountersOK(r, ts, on)

\* Only the class and the priority of the queued tasks matter to the queues.
LEMMA RqFrame ==
  ASSUME NEW r, NEW ts, NEW us, NEW on, RqOK(r, ts, on),
         \A t \in on : us[t].class = ts[t].class /\ us[t].prio = ts[t].prio
  PROVE  RqOK(r, us, on)
<1>1. \A c : in_class(us, on, c) = in_class(ts, on, c)
  BY DEF in_class
<1>2. \A b : {t \in in_class(us, on, "rt") : us[t].prio = b}
               = {t \in in_class(ts, on, "rt") : ts[t].prio = b}
  BY DEF in_class
<1> QED BY <1>1, <1>2 DEF RqOK, WrrQueueOK, RtQueueOK, CountersOK

LEMMA CountRemove ==
  ASSUME NEW S \in SUBSET Task, NEW t \in S
  PROVE  Cardinality(S \ {t}) = Cardinality(S) - 1
<1>1. IsFiniteSet(S)
  BY CoreAssumption, FS_Subset
<1> QED BY <1>1, FS_RemoveElement

LEMMA CountAdd ==
  ASSUME NEW S \in SUBSET Task, NEW t, t \notin S
  PROVE  Cardinality(S \cup {t}) = Cardinality(S) + 1
<1>1. IsFiniteSet(S)
  BY CoreAssumption, FS_Subset
<1> QED BY <1>1, FS_AddElement

\* dequeue_task() takes t, and only t, out of the queues.
LEMMA DequeueTask ==
  ASSUME NEW r, NEW ts \in [Task -> TaskStruct], NEW on \in SUBSET Task, NEW t \in on,
         RqOK(r, ts, on), ts[t].class = "rt" => ts[t].prio \in RtPrio
  PROVE  RqOK(dequeue_task(r, t, ts[t]), ts, on \ {t})
<1> DEFINE e == ts[t]
           d == dequeue_task(r, t, e)
           out == on \ {t}
<1>0. /\ t \in Task
      /\ e \in TaskStruct
      /\ r \in RunQueue
      /\ WrrQueueOK(r, ts, on)
      /\ RtQueueOK(r, ts, on)
      /\ CountersOK(r, ts, on)
  BY DEF RqOK
<1>c. /\ r.wrr_nr_running \in Int /\ r.rt_nr_running \in Int
      /\ r.cfs_nr_running \in Int /\ r.nr_running \in Int
      /\ r.total_weight \in Int
  BY <1>0 DEF RunQueue
<1>w. e.weight \in Int
  BY <1>0 DEF TaskStruct
<1>1. CASE e.class = "wrr"
  <2>1. d = dequeue_task_wrr(r, t, e)
    BY <1>1 DEF dequeue_task
  <2>2. t \in Entries(r.active) /\ Linked(r.active) /\ r.active \in Seq(Task)
    BY <1>0, <1>1 DEF WrrQueueOK, in_class, RunQueue
  <2>3. /\ in_class(ts, out, "wrr") = in_class(ts, on, "wrr") \ {t}
        /\ in_class(ts, out, "rt") = in_class(ts, on, "rt")
        /\ in_class(ts, out, "fair") = in_class(ts, on, "fair")
    BY <1>1 DEF in_class
  <2> DEFINE q == list_del(r.active, t)
  <2>4. /\ q \in Seq(Task)
        /\ Len(q) = Len(r.active) - 1
        /\ Entries(q) = Entries(r.active) \ {t}
        /\ Linked(q)
    BY <2>2, DelLinkedEntry
  <2>5. /\ d.active = q
        /\ d.wrr_nr_running = r.wrr_nr_running - 1
        /\ d.nr_running = r.nr_running - 1
        /\ d.rt_queue = r.rt_queue
        /\ d.rt_bitmap = r.rt_bitmap
        /\ d.rt_nr_running = r.rt_nr_running
        /\ d.cfs_nr_running = r.cfs_nr_running
        /\ d \in RunQueue
    <3>1. /\ r.wrr_nr_running - 1 \in Int
          /\ r.nr_running - 1 \in Int
          /\ r.total_weight - e.weight \in Int
      BY <1>c, <1>w
    <3>2. d \in RunQueue
      BY <1>0, <2>1, <2>4, <3>1 DEF dequeue_task_wrr, RunQueue
    <3> QED BY <1>0, <2>1, <3>2 DEF dequeue_task_wrr, RunQueue
  <2> HIDE DEF q, d
  <2>6. WrrQueueOK(d, ts, out)
    BY <1>0, <2>3, <2>4, <2>5 DEF WrrQueueOK
  <2>7. RtQueueOK(d, ts, out)
    BY <1>0, <2>3, <2>5 DEF RtQueueOK
  <2>8. CountersOK(d, ts, out)
    BY <1>0, <1>c, <2>3, <2>5 DEF CountersOK
  <2> QED BY <2>5, <2>6, <2>7, <2>8 DEF RqOK, d
<1>2. CASE e.class = "rt"
  <2>1. d = dequeue_task_rt(r, t, e)
    BY <1>2 DEF dequeue_task
  <2>2. /\ in_class(ts, out, "rt") = in_class(ts, on, "rt") \ {t}
        /\ in_class(ts, out, "wrr") = in_class(ts, on, "wrr")
        /\ in_class(ts, out, "fair") = in_class(ts, on, "fair")
    BY <1>2 DEF in_class
  <2> DEFINE queue == [b \in RtPrio |-> list_del(r.rt_queue[b], t)]
  <2>3. ASSUME NEW b \in RtPrio
        PROVE  /\ queue[b] \in Seq(Task)
               /\ Linked(queue[b])
               /\ Entries(queue[b]) = {u \in in_class(ts, out, "rt") : ts[u].prio = b}
               /\ b # e.prio => queue[b] = r.rt_queue[b]
    <3>1. /\ r.rt_queue[b] \in Seq(Task)
          /\ Linked(r.rt_queue[b])
          /\ Entries(r.rt_queue[b]) = {u \in in_class(ts, on, "rt") : ts[u].prio = b}
      BY <1>0 DEF RtQueueOK, RunQueue
    <3>2. t \in in_class(ts, on, "rt")
      BY <1>2 DEF in_class
    <3>3. CASE b = e.prio
      <4>1. t \in Entries(r.rt_queue[b])
        BY <3>1, <3>2, <3>3
      <4>2. /\ queue[b] \in Seq(Task)
            /\ Linked(queue[b])
            /\ Entries(queue[b]) = Entries(r.rt_queue[b]) \ {t}
        BY <3>1, <4>1, DelLinkedEntry
      <4> QED BY <3>1, <3>3, <4>2, <2>2
    <3>4. CASE b # e.prio
      <4>1. t \notin Entries(r.rt_queue[b])
        BY <3>1, <3>4
      <4>2. queue[b] = r.rt_queue[b]
        BY <4>1, DelUnlinkedEntry
      <4> QED BY <3>1, <3>4, <4>1, <4>2, <2>2
    <3> QED BY <3>3, <3>4
  <2>4. e.prio \in RtPrio
    BY <1>2
  <2>5. queue \in [RtPrio -> Seq(Task)]
    BY <2>3
  <2> HIDE DEF queue
  <2>6. /\ d.rt_queue = queue
        /\ d.rt_bitmap = IF queue[e.prio] = << >> THEN r.rt_bitmap \ {e.prio}
                                                  ELSE r.rt_bitmap
        /\ d.rt_nr_running = r.rt_nr_running - 1
        /\ d.nr_running = r.nr_running - 1
        /\ d.active = r.active
        /\ d.wrr_nr_running = r.wrr_nr_running
        /\ d.cfs_nr_running = r.cfs_nr_running
        /\ d \in RunQueue
    <3>1. r.rt_nr_running - 1 \in Int /\ r.nr_running - 1 \in Int
      BY <1>c
    <3>2. /\ r.rt_bitmap \in SUBSET RtPrio
          /\ r.rt_bitmap \ {e.prio} \in SUBSET RtPrio
      BY <1>0 DEF RunQueue
    <3>3. d = [r EXCEPT !.rt_queue = queue,
                        !.rt_bitmap = IF queue[e.prio] = << >> THEN @ \ {e.prio} ELSE @,
                        !.rt_nr_running = @ - 1,
                        !.nr_running = @ - 1]
      BY <2>1 DEF dequeue_task_rt, queue
    <3>4. d \in RunQueue
      BY <1>0, <2>5, <3>1, <3>2, <3>3, ZenonT(60) DEF RunQueue
    <3> QED BY <1>0, <3>3, <3>4 DEF RunQueue
  <2> HIDE DEF d
  <2>7. WrrQueueOK(d, ts, out)
    BY <1>0, <2>2, <2>6 DEF WrrQueueOK
  <2>8. Cardinality(in_class(ts, out, "rt")) = Cardinality(in_class(ts, on, "rt")) - 1
    <3>1. t \in in_class(ts, on, "rt") /\ in_class(ts, on, "rt") \in SUBSET Task
      BY <1>2 DEF in_class
    <3> QED BY <3>1, <2>2, CountRemove
  <2>9. d.rt_bitmap = {b \in RtPrio : d.rt_queue[b] # << >>}
    <3>1. r.rt_bitmap = {b \in RtPrio : r.rt_queue[b] # << >>}
      BY <1>0 DEF RtQueueOK
    <3>2. r.rt_queue[e.prio] # << >>
      <4>1. t \in Entries(r.rt_queue[e.prio])
        BY <1>0, <1>2, <2>4 DEF RtQueueOK, in_class
      <4>2. Entries(<< >>) = {}
        BY DEF Entries
      <4> QED BY <4>1, <4>2
    <3> QED BY <3>1, <3>2, <2>3, <2>4, <2>6
  <2>10. RtQueueOK(d, ts, out)
    BY <1>0, <2>3, <2>6, <2>8, <2>9 DEF RtQueueOK
  <2>11. CountersOK(d, ts, out)
    BY <1>0, <1>c, <2>2, <2>6 DEF CountersOK
  <2> QED BY <2>6, <2>7, <2>10, <2>11 DEF RqOK, d
<1>3. CASE e.class = "fair"
  <2>1. d = [r EXCEPT !.cfs_nr_running = @ - 1, !.nr_running = @ - 1]
    BY <1>3 DEF dequeue_task
  <2>2. /\ in_class(ts, out, "fair") = in_class(ts, on, "fair") \ {t}
        /\ in_class(ts, out, "wrr") = in_class(ts, on, "wrr")
        /\ in_class(ts, out, "rt") = in_class(ts, on, "rt")
    BY <1>3 DEF in_class
  <2>3. Cardinality(in_class(ts, out, "fair")) = Cardinality(in_class(ts, on, "fair")) - 1
    <3>1. t \in in_class(ts, on, "fair") /\ in_class(ts, on, "fair") \in SUBSET Task
      BY <1>3 DEF in_class
    <3> QED BY <3>1, <2>2, CountRemove
  <2>4. /\ d.active = r.active
        /\ d.wrr_nr_running = r.wrr_nr_running
        /\ d.nr_running = r.nr_running - 1
        /\ d.rt_queue = r.rt_queue
        /\ d.rt_bitmap = r.rt_bitmap
        /\ d.rt_nr_running = r.rt_nr_running
        /\ d.cfs_nr_running = r.cfs_nr_running - 1
        /\ d \in RunQueue
    <3>1. r.cfs_nr_running - 1 \in Int /\ r.nr_running - 1 \in Int
      BY <1>c
    <3>2. d \in RunQueue
      BY <1>0, <2>1, <3>1 DEF RunQueue
    <3> QED BY <1>0, <2>1, <3>2 DEF RunQueue
  <2> HIDE DEF d
  <2>5. WrrQueueOK(d, ts, out)
    BY <1>0, <2>2, <2>4 DEF WrrQueueOK
  <2>6. RtQueueOK(d, ts, out)
    BY <1>0, <2>2, <2>4 DEF RtQueueOK
  <2>7. CountersOK(d, ts, out)
    BY <1>0, <1>c, <2>2, <2>3, <2>4 DEF CountersOK
  <2> QED BY <2>4, <2>5, <2>6, <2>7 DEF RqOK, d
<1> QED BY <1>0, <1>1, <1>2, <1>3 DEF TaskStruct

\* enqueue_task() puts t, and only t, into the queues.
LEMMA EnqueueTask ==
  ASSUME NEW r, NEW ts \in [Task -> TaskStruct], NEW on \in SUBSET Task,
         NEW t \in Task, t \notin on, NEW head \in BOOLEAN,
         RqOK(r, ts, on), ts[t].class = "rt" => ts[t].prio \in RtPrio
  PROVE  RqOK(enqueue_task(r, t, ts[t], head), ts, on \cup {t})
<1> DEFINE e == ts[t]
           d == enqueue_task(r, t, e, head)
           in == on \cup {t}
<1>0. /\ e \in TaskStruct
      /\ r \in RunQueue
      /\ WrrQueueOK(r, ts, on)
      /\ RtQueueOK(r, ts, on)
      /\ CountersOK(r, ts, on)
  BY DEF RqOK
<1>c. /\ r.wrr_nr_running \in Int /\ r.rt_nr_running \in Int
      /\ r.cfs_nr_running \in Int /\ r.nr_running \in Int
      /\ r.total_weight \in Int
  BY <1>0 DEF RunQueue
<1>w. e.weight \in Int
  BY <1>0 DEF TaskStruct
<1>1. CASE e.class = "wrr"
  <2>1. d = enqueue_task_wrr(r, t, e, head)
    BY <1>1 DEF enqueue_task
  <2>2. t \notin Entries(r.active) /\ Linked(r.active) /\ r.active \in Seq(Task)
    BY <1>0, <1>1 DEF WrrQueueOK, in_class, RunQueue
  <2>3. /\ in_class(ts, in, "wrr") = in_class(ts, on, "wrr") \cup {t}
        /\ in_class(ts, in, "rt") = in_class(ts, on, "rt")
        /\ in_class(ts, in, "fair") = in_class(ts, on, "fair")
    BY <1>1 DEF in_class
  <2> DEFINE q == requeue_wrr_entity(r.active, t, head)
  <2>4. /\ q \in Seq(Task)
        /\ Len(q) = Len(r.active) + 1
        /\ Entries(q) = Entries(r.active) \cup {t}
        /\ Linked(q)
    <3>1. CASE head
      BY <2>2, <3>1, MoveFirst, ZenonT(150) DEF requeue_wrr_entity
    <3>2. CASE ~head
      BY <2>2, <3>2, MoveLast, ZenonT(150) DEF requeue_wrr_entity
    <3> QED BY <3>1, <3>2
  <2>5. /\ d.active = q
        /\ d.wrr_nr_running = r.wrr_nr_running + 1
        /\ d.nr_running = r.nr_running + 1
        /\ d.rt_queue = r.rt_queue
        /\ d.rt_bitmap = r.rt_bitmap
        /\ d.rt_nr_running = r.rt_nr_running
        /\ d.cfs_nr_running = r.cfs_nr_running
        /\ d \in RunQueue
    <3>1. /\ r.wrr_nr_running + 1 \in Int
          /\ r.nr_running + 1 \in Int
          /\ r.total_weight + e.weight \in Int
      BY <1>c, <1>w
    <3>2. d \in RunQueue
      BY <1>0, <2>1, <2>4, <3>1 DEF enqueue_task_wrr, RunQueue
    <3> QED BY <1>0, <2>1, <3>2 DEF enqueue_task_wrr, RunQueue
  <2> HIDE DEF q, d
  <2>6. WrrQueueOK(d, ts, in)
    BY <1>0, <2>3, <2>4, <2>5 DEF WrrQueueOK
  <2>7. RtQueueOK(d, ts, in)
    BY <1>0, <2>3, <2>5 DEF RtQueueOK
  <2>8. CountersOK(d, ts, in)
    BY <1>0, <1>c, <2>3, <2>5 DEF CountersOK
  <2> QED BY <2>5, <2>6, <2>7, <2>8 DEF RqOK, d
<1>2. CASE e.class = "rt"
  <2>1. d = enqueue_task_rt(r, t, e, head)
    BY <1>2 DEF enqueue_task
  <2>2. /\ in_class(ts, in, "rt") = in_class(ts, on, "rt") \cup {t}
        /\ in_class(ts, in, "wrr") = in_class(ts, on, "wrr")
        /\ in_class(ts, in, "fair") = in_class(ts, on, "fair")
    BY <1>2 DEF in_class
  <2>3. e.prio \in RtPrio
    BY <1>2
  <2> DEFINE q == IF head THEN list_add(r.rt_queue[e.prio], t)
                          ELSE list_add_tail(r.rt_queue[e.prio], t)
             queue == [r.rt_queue EXCEPT ![e.prio] = q]
  <2>4. /\ r.rt_queue \in [RtPrio -> Seq(Task)]
        /\ \A b \in RtPrio :
             /\ r.rt_queue[b] \in Seq(Task)
             /\ Linked(r.rt_queue[b])
             /\ Entries(r.rt_queue[b]) = {u \in in_class(ts, on, "rt") : ts[u].prio = b}
    BY <1>0 DEF RtQueueOK, RunQueue
  <2>5. /\ q \in Seq(Task)
        /\ Linked(q)
        /\ Entries(q) = Entries(r.rt_queue[e.prio]) \cup {t}
        /\ q # << >>
    <3>1. t \notin Entries(r.rt_queue[e.prio])
      BY <2>3, <2>4 DEF in_class
    <3>2. CASE head
      <4>1. /\ q \in Seq(Task) /\ Linked(q)
            /\ Entries(q) = Entries(r.rt_queue[e.prio]) \cup {t}
        BY <3>1, <3>2, <2>3, <2>4, AddFirst
      <4>2. Entries(<< >>) = {}
        BY DEF Entries
      <4> QED BY <4>1, <4>2
    <3>3. CASE ~head
      <4>1. /\ q \in Seq(Task) /\ Linked(q)
            /\ Entries(q) = Entries(r.rt_queue[e.prio]) \cup {t}
        BY <3>1, <3>3, <2>3, <2>4, AddLast
      <4>2. Entries(<< >>) = {}
        BY DEF Entries
      <4> QED BY <4>1, <4>2
    <3> QED BY <3>2, <3>3
  <2> HIDE DEF q
  <2>6. /\ queue \in [RtPrio -> Seq(Task)]
        /\ queue[e.prio] = q
        /\ \A b \in RtPrio : b # e.prio => queue[b] = r.rt_queue[b]
    BY <2>3, <2>4, <2>5
  <2>7. /\ d.rt_queue = queue
        /\ d.rt_bitmap = r.rt_bitmap \cup {e.prio}
        /\ d.rt_nr_running = r.rt_nr_running + 1
        /\ d.nr_running = r.nr_running + 1
        /\ d.active = r.active
        /\ d.wrr_nr_running = r.wrr_nr_running
        /\ d.cfs_nr_running = r.cfs_nr_running
        /\ d \in RunQueue
    <3>1. r.rt_nr_running + 1 \in Int /\ r.nr_running + 1 \in Int
      BY <1>c
    <3>2. r.rt_bitmap \cup {e.prio} \in SUBSET RtPrio
      BY <1>0, <2>3 DEF RunQueue
    <3>3. d = [r EXCEPT !.rt_queue = queue,
                        !.rt_bitmap = @ \cup {e.prio},
                        !.rt_nr_running = @ + 1,
                        !.nr_running = @ + 1]
      BY <1>0, <2>1 DEF enqueue_task_rt, q, RunQueue
    <3> HIDE DEF queue
    <3>4. d \in RunQueue
      BY <1>0, <2>6, <3>1, <3>2, <3>3, ZenonT(60) DEF RunQueue
    <3> QED BY <1>0, <3>3, <3>4 DEF RunQueue
  <2> HIDE DEF d, queue
  <2>8. WrrQueueOK(d, ts, in)
    BY <1>0, <2>2, <2>7 DEF WrrQueueOK
  <2>9. Cardinality(in_class(ts, in, "rt")) = Cardinality(in_class(ts, on, "rt")) + 1
    <3>1. t \notin in_class(ts, on, "rt") /\ in_class(ts, on, "rt") \in SUBSET Task
      BY DEF in_class
    <3> QED BY <3>1, <2>2, CountAdd
  <2>10. ASSUME NEW b \in RtPrio
         PROVE  /\ Linked(queue[b])
                /\ Entries(queue[b]) = {u \in in_class(ts, in, "rt") : ts[u].prio = b}
    <3>1. CASE b = e.prio
      BY <3>1, <2>2, <2>4, <2>5, <2>6
    <3>2. CASE b # e.prio
      BY <3>2, <2>2, <2>4, <2>6
    <3> QED BY <3>1, <3>2
  <2>11. d.rt_bitmap = {b \in RtPrio : d.rt_queue[b] # << >>}
    <3>1. r.rt_bitmap = {b \in RtPrio : r.rt_queue[b] # << >>}
      BY <1>0 DEF RtQueueOK
    <3> QED BY <3>1, <2>3, <2>5, <2>6, <2>7
  <2>12. RtQueueOK(d, ts, in)
    BY <1>0, <2>7, <2>9, <2>10, <2>11 DEF RtQueueOK
  <2>13. CountersOK(d, ts, in)
    BY <1>0, <1>c, <2>2, <2>7 DEF CountersOK
  <2> QED BY <2>7, <2>8, <2>12, <2>13 DEF RqOK, d
<1>3. CASE e.class = "fair"
  <2>1. d = [r EXCEPT !.cfs_nr_running = @ + 1, !.nr_running = @ + 1]
    BY <1>3 DEF enqueue_task
  <2>2. /\ in_class(ts, in, "fair") = in_class(ts, on, "fair") \cup {t}
        /\ in_class(ts, in, "wrr") = in_class(ts, on, "wrr")
        /\ in_class(ts, in, "rt") = in_class(ts, on, "rt")
    BY <1>3 DEF in_class
  <2>3. Cardinality(in_class(ts, in, "fair")) = Cardinality(in_class(ts, on, "fair")) + 1
    <3>1. t \notin in_class(ts, on, "fair") /\ in_class(ts, on, "fair") \in SUBSET Task
      BY DEF in_class
    <3> QED BY <3>1, <2>2, CountAdd
  <2>4. /\ d.active = r.active
        /\ d.wrr_nr_running = r.wrr_nr_running
        /\ d.nr_running = r.nr_running + 1
        /\ d.rt_queue = r.rt_queue
        /\ d.rt_bitmap = r.rt_bitmap
        /\ d.rt_nr_running = r.rt_nr_running
        /\ d.cfs_nr_running = r.cfs_nr_running + 1
        /\ d \in RunQueue
    <3>1. r.cfs_nr_running + 1 \in Int /\ r.nr_running + 1 \in Int
      BY <1>c
    <3>2. d \in RunQueue
      BY <1>0, <2>1, <3>1 DEF RunQueue
    <3> QED BY <1>0, <2>1, <3>2 DEF RunQueue
  <2> HIDE DEF d
  <2>5. WrrQueueOK(d, ts, in)
    BY <1>0, <2>2, <2>4 DEF WrrQueueOK
  <2>6. RtQueueOK(d, ts, in)
    BY <1>0, <2>2, <2>4 DEF RtQueueOK
  <2>7. CountersOK(d, ts, in)
    BY <1>0, <1>c, <2>2, <2>3, <2>4 DEF CountersOK
  <2> QED BY <2>4, <2>5, <2>6, <2>7 DEF RqOK, d
<1> QED BY <1>0, <1>1, <1>2, <1>3 DEF TaskStruct

-----------------------------------------------------------------------------
(* Picking and requeueing *)

\* sched_find_first_bit() finds a bit when there is one.
LEMMA FirstBit ==
  ASSUME NEW bits \in SUBSET RtPrio, bits # {}
  PROVE  first_bit(bits) \in bits
<1> DEFINE R == OpToRel(<, Nat)
<1>1. bits \subseteq Nat
  BY RtAssumption DEF RtPrio
<1>2. IsWellFoundedOn(R, Nat)
  BY NatLessThanWellFounded
<1>3. \A x, y \in Nat : x < y => <<x, y>> \in R
  BY DEF OpToRel
<1> HIDE DEF R
<1>4. PICK x \in bits : \A y \in bits : ~(<<y, x>> \in R)
  BY <1>1, <1>2, WFMin
<1>5. ASSUME NEW y \in bits PROVE x <= y
  <2>1. x \in Nat /\ y \in Nat
    BY <1>1
  <2>2. ~(y < x)
    BY <2>1, <1>3, <1>4
  <2> QED BY <2>1, <2>2
<1> QED BY <1>5 DEF first_bit

\* The priorities of queued RT tasks are priorities of the array.
RtPriosOK(ts, on) == \A t \in on : ts[t].class = "rt" => ts[t].prio \in RtPrio

\* pick_next_task_rt() returns a queued RT task.
LEMMA PickRt ==
  ASSUME NEW r, NEW ts \in [Task -> TaskStruct], RqOK(r, ts, on_rq(ts)),
         RtPriosOK(ts, on_rq(ts)), NEW n \in pick_next_task_rt(r)
  PROVE  n \in in_class(ts, on_rq(ts), "rt")
<1> DEFINE on == on_rq(ts)
<1>0. r \in RunQueue /\ RtQueueOK(r, ts, on)
  BY DEF RqOK
<1>1. r.rt_nr_running # 0 /\ n = r.rt_queue[first_bit(r.rt_bitmap)][1]
  BY DEF pick_next_task_rt
<1>2. in_class(ts, on, "rt") # {}
  BY <1>0, <1>1, FS_EmptySet DEF RtQueueOK
<1>3. PICK t \in in_class(ts, on, "rt") : TRUE
  BY <1>2
<1>4. ts[t].prio \in RtPrio
  BY <1>3 DEF RtPriosOK, in_class
<1>5. t \in Entries(r.rt_queue[ts[t].prio])
  BY <1>0, <1>3, <1>4 DEF RtQueueOK
<1>6. Entries(<< >>) = {}
  BY DEF Entries
<1>7. r.rt_bitmap # {}
  BY <1>0, <1>4, <1>5, <1>6 DEF RtQueueOK
<1> DEFINE b == first_bit(r.rt_bitmap)
<1>8. b \in r.rt_bitmap /\ r.rt_bitmap \in SUBSET RtPrio
  BY <1>0, <1>7, FirstBit DEF RunQueue
<1> HIDE DEF b
<1>9. b \in RtPrio /\ r.rt_queue[b] # << >> /\ r.rt_queue[b] \in Seq(Task)
  BY <1>0, <1>8 DEF RtQueueOK, RunQueue
<1>10. 1 \in 1..Len(r.rt_queue[b])
  BY <1>9
<1>11. n \in Entries(r.rt_queue[b])
  BY <1>1, <1>10 DEF Entries, b
<1>12. Entries(r.rt_queue[b]) \subseteq in_class(ts, on, "rt")
  BY <1>0, <1>9 DEF RtQueueOK
<1> QED BY <1>11, <1>12 DEF in_class

\* pick_next_task() returns the idle task or a queued task.
LEMMA PickNext ==
  ASSUME NEW r, NEW ts \in [Task -> TaskStruct], RqOK(r, ts, on_rq(ts)),
         RtPriosOK(ts, on_rq(ts)),
         NEW throttled \in BOOLEAN, NEW next \in pick_next_task(ts, r, throttled)
  PROVE  next = Idle \/ next \in on_rq(ts)
<1> DEFINE on == on_rq(ts)
<1>0. r \in RunQueue /\ WrrQueueOK(r, ts, on) /\ RtQueueOK(r, ts, on)
  BY DEF RqOK
<1>1. fair_tasks(ts) \subseteq on
  BY DEF fair_tasks, in_class
<1>2. \A n \in pick_next_task_rt(r) : n \in on
  BY PickRt DEF in_class
<1>3. ASSUME NEW n \in pick_next_task_wrr(r, throttled) PROVE n \in on
  <2>1. r.wrr_nr_running # 0 /\ n = r.active[1]
    BY DEF pick_next_task_wrr
  <2>2. 1 \in 1..Len(r.active)
    BY <1>0, <2>1 DEF WrrQueueOK, RunQueue
  <2>3. n \in Entries(r.active)
    BY <2>1, <2>2 DEF Entries
  <2> QED BY <1>0, <2>3 DEF WrrQueueOK, in_class
<1> QED BY <1>1, <1>2, <1>3 DEF pick_next_task

\* Requeueing a task within its list leaves every queue with the same tasks.
LEMMA RequeueWrr ==
  ASSUME NEW r, NEW ts \in [Task -> TaskStruct], NEW on \in SUBSET Task, NEW t \in on,
         RqOK(r, ts, on), ts[t].class = "wrr"
  PROVE  RqOK(yield_task_wrr(r, t), ts, on)
<1> DEFINE q == list_move_tail(r.active, t)
           d == yield_task_wrr(r, t)
<1>0. r \in RunQueue /\ WrrQueueOK(r, ts, on) /\ RtQueueOK(r, ts, on) /\ CountersOK(r, ts, on)
  BY DEF RqOK
<1>1. t \in Entries(r.active) /\ Linked(r.active) /\ r.active \in Seq(Task) /\ t \in Task
  BY <1>0 DEF WrrQueueOK, in_class, RunQueue
<1>2. q \in Seq(Task) /\ Len(q) = Len(r.active) /\ Entries(q) = Entries(r.active) /\ Linked(q)
  <2>1. /\ q \in Seq(Task)
        /\ Len(q) = Len(r.active)
        /\ Entries(q) = Entries(r.active) \cup {t}
        /\ Linked(q)
    BY <1>1, MoveLast
  <2> HIDE DEF q
  <2> QED BY <1>1, <2>1
<1>3. d = [r EXCEPT !.active = q]
  BY DEF yield_task_wrr, requeue_wrr_entity
<1> HIDE DEF q, d
<1>4. /\ d.active = q
      /\ d.wrr_nr_running = r.wrr_nr_running
      /\ d.nr_running = r.nr_running
      /\ d.rt_queue = r.rt_queue
      /\ d.rt_bitmap = r.rt_bitmap
      /\ d.rt_nr_running = r.rt_nr_running
      /\ d.cfs_nr_running = r.cfs_nr_running
      /\ d \in RunQueue
  BY <1>0, <1>2, <1>3 DEF RunQueue
<1>5. WrrQueueOK(d, ts, on) /\ RtQueueOK(d, ts, on) /\ CountersOK(d, ts, on)
  BY <1>0, <1>2, <1>4 DEF WrrQueueOK, RtQueueOK, CountersOK
<1> QED BY <1>4, <1>5 DEF RqOK, d

LEMMA RequeueRt ==
  ASSUME NEW r, NEW ts \in [Task -> TaskStruct], NEW on \in SUBSET Task, NEW t \in on,
         RqOK(r, ts, on), ts[t].class = "rt", ts[t].prio \in RtPrio
  PROVE  RqOK(requeue_task_rt(r, t, ts[t]), ts, on)
<1> DEFINE p == ts[t].prio
           q == list_move_tail(r.rt_queue[p], t)
           queue == [r.rt_queue EXCEPT ![p] = q]
           d == requeue_task_rt(r, t, ts[t])
<1>0. r \in RunQueue /\ WrrQueueOK(r, ts, on) /\ RtQueueOK(r, ts, on) /\ CountersOK(r, ts, on)
  BY DEF RqOK
<1>1. /\ t \in Entries(r.rt_queue[p])
      /\ Linked(r.rt_queue[p])
      /\ r.rt_queue \in [RtPrio -> Seq(Task)]
      /\ t \in Task
  BY <1>0 DEF RtQueueOK, in_class, RunQueue
<1>2. q \in Seq(Task) /\ Entries(q) = Entries(r.rt_queue[p]) /\ Linked(q)
  <2>1. r.rt_queue[p] \in Seq(Task)
    BY <1>1
  <2>2. q \in Seq(Task) /\ Entries(q) = Entries(r.rt_queue[p]) \cup {t} /\ Linked(q)
    BY <1>1, <2>1, MoveLast
  <2> HIDE DEF q
  <2> QED BY <1>1, <2>2
<1>3. d = [r EXCEPT !.rt_queue = queue]
  BY <1>0, <1>1 DEF requeue_task_rt, RunQueue
<1>4. q # << >> /\ r.rt_queue[p] # << >>
  <2>1. Entries(<< >>) = {}
    BY DEF Entries
  <2> QED BY <1>1, <1>2, <2>1
<1> HIDE DEF q
<1>5. /\ queue \in [RtPrio -> Seq(Task)]
      /\ queue[p] = q
      /\ \A b \in RtPrio : b # p => queue[b] = r.rt_queue[b]
  BY <1>1, <1>2
<1> HIDE DEF queue, d
<1>6. /\ d.active = r.active
      /\ d.wrr_nr_running = r.wrr_nr_running
      /\ d.nr_running = r.nr_running
      /\ d.rt_queue = queue
      /\ d.rt_bitmap = r.rt_bitmap
      /\ d.rt_nr_running = r.rt_nr_running
      /\ d.cfs_nr_running = r.cfs_nr_running
      /\ d \in RunQueue
  BY <1>0, <1>3, <1>5 DEF RunQueue
<1>7. WrrQueueOK(d, ts, on) /\ CountersOK(d, ts, on)
  BY <1>0, <1>6 DEF WrrQueueOK, CountersOK
<1>8. \A b \in RtPrio : /\ Linked(queue[b])
                        /\ Entries(queue[b]) = Entries(r.rt_queue[b])
                        /\ queue[b] # << >> <=> r.rt_queue[b] # << >>
  BY <1>0, <1>2, <1>4, <1>5 DEF RtQueueOK
<1>9. RtQueueOK(d, ts, on)
  BY <1>0, <1>6, <1>8 DEF RtQueueOK
<1> QED BY <1>6, <1>7, <1>9 DEF RqOK, d

\* The load counter is no part of the queues.
LEMMA RqLoad ==
  ASSUME NEW r, NEW ts, NEW on, RqOK(r, ts, on), NEW n \in Int
  PROVE  RqOK([r EXCEPT !.nr_uninterruptible = n], ts, on)
<1> DEFINE d == [r EXCEPT !.nr_uninterruptible = n]
<1>0. r \in RunQueue /\ WrrQueueOK(r, ts, on) /\ RtQueueOK(r, ts, on) /\ CountersOK(r, ts, on)
  BY DEF RqOK
<1>1. /\ d.active = r.active
      /\ d.wrr_nr_running = r.wrr_nr_running
      /\ d.nr_running = r.nr_running
      /\ d.rt_queue = r.rt_queue
      /\ d.rt_bitmap = r.rt_bitmap
      /\ d.rt_nr_running = r.rt_nr_running
      /\ d.cfs_nr_running = r.cfs_nr_running
      /\ d \in RunQueue
  BY <1>0 DEF RunQueue
<1> HIDE DEF d
<1>2. WrrQueueOK(d, ts, on) /\ RtQueueOK(d, ts, on) /\ CountersOK(d, ts, on)
  BY <1>0, <1>1 DEF WrrQueueOK, RtQueueOK, CountersOK
<1> QED BY <1>1, <1>2 DEF RqOK, d

-----------------------------------------------------------------------------
(* Tasks *)

\* What the inductive invariant says of one task.
TaskOK(e) ==
  /\ e \in TaskStruct
  /\ ClassOK(e)
  /\ Accounted(e)
  /\ PrivateOK(e)
  /\ e.on_rq => SliceOK(e) /\ WeightOK(e)

\* A queued RT task has a priority of the array.
LEMMA RtClassPrio ==
  ASSUME NEW e \in TaskStruct, ClassOK(e), e.class = "rt"
  PROVE  e.prio \in RtPrio
<1>1. rt_prio(e.prio)
  BY DEF ClassOK, class_of
<1>2. e.prio \in Nat
  BY CoreAssumption DEF TaskStruct
<1> QED BY <1>1, <1>2, RtAssumption DEF rt_prio, RtPrio

\* A turn lasts at least one tick.
LEMMA TurnPositive ==
  ASSUME NEW w \in Nat, w > 0
  PROVE  w * WRR_WEIGHT_UNIT \in Nat /\ 1 <= w * WRR_WEIGHT_UNIT
<1>1. WRR_WEIGHT_UNIT \in Nat /\ 1 <= WRR_WEIGHT_UNIT
  BY WrrAssumption
<1>2. ASSUME NEW u \in Nat, 1 <= u PROVE w * u \in Nat /\ 1 <= w * u
  BY <1>2
<1> QED BY <1>1, <1>2

\* A task_struct that is not in use is a proper one.
LEMMA NoTaskOK == TaskOK(NoTask) /\ ~NoTask.on_rq
<1>1. DEFAULT_PRIO \in Nat /\ DEFAULT_PRIO >= MAX_RT_PRIO /\ DEFAULT_PRIO \in 0..(MAX_PRIO - 1)
  BY CoreAssumption, RtAssumption
<1>2. (CHOOSE g \in Group : TRUE) \in Group
  BY CoreAssumption
<1>3. MAX_PRIO \in 0..MAX_PRIO /\ 0 \in 0..(MAX_RT_PRIO - 1) /\ RR_TIMESLICE \in 1..RR_TIMESLICE
      /\ RR_TIMESLICE \in Nat
  BY CoreAssumption, RtAssumption
<1>4. NoTask \in TaskStruct
  BY <1>1, <1>2, <1>3, CoreAssumption DEF NoTask, TaskStruct
<1>5. ClassOK(NoTask)
  BY <1>1, <1>3, CoreAssumption, RtAssumption
     DEF NoTask, ClassOK, class_of, normal_prio, rt_prio, rt_policy, rt_mutex_getprio
<1>6. Accounted(NoTask) /\ PrivateOK(NoTask) /\ ~NoTask.on_rq
  BY DEF NoTask, Accounted, PrivateOK
<1> QED BY <1>4, <1>5, <1>6 DEF TaskOK

\* ClassOK() looks at these fields only.
LEMMA ClassFrame ==
  ASSUME NEW e, NEW u, ClassOK(e),
         u.class = e.class, u.prio = e.prio, u.policy = e.policy,
         u.normal_prio = e.normal_prio, u.rt_priority = e.rt_priority,
         u.static_prio = e.static_prio, u.pi_prio = e.pi_prio,
         u.phase = "forked" => e.phase = "forked"
  PROVE  ClassOK(u)
BY DEF ClassOK, normal_prio, rt_mutex_getprio

\* update_weight() leaves a positive weight, that of the group unless the task
\* has one of its own.
LEMMA UpdateWeight ==
  ASSUME NEW e \in TaskStruct, PrivateOK(e)
  PROVE  LET u == update_weight(e)
         IN  /\ u \in TaskStruct
             /\ u.weight > 0
             /\ ~e.custom_weight => u.weight = group_weight(e.group)
             /\ \E w \in Nat : u = [e EXCEPT !.weight = w]
<1>1. CASE e.custom_weight
  <2>1. update_weight(e) = e
    BY <1>1 DEF update_weight
  <2>2. e.weight > 0
    BY <1>1 DEF PrivateOK
  <2>3. e = [e EXCEPT !.weight = e.weight] /\ e.weight \in Nat
    BY DEF TaskStruct
  <2> QED BY <1>1, <2>1, <2>2, <2>3
<1>2. CASE ~e.custom_weight
  <2> DEFINE w == group_weight(e.group)
  <2>1. update_weight(e) = [e EXCEPT !.weight = w]
    BY <1>2 DEF update_weight
  <2>2. w \in Nat /\ w > 0
    BY WrrAssumption DEF group_weight
  <2> HIDE DEF w
  <2>3. [e EXCEPT !.weight = w] \in TaskStruct /\ [e EXCEPT !.weight = w].weight = w
    BY <2>2 DEF TaskStruct
  <2> QED BY <1>2, <2>1, <2>2, <2>3 DEF w
<1> QED BY <1>1, <1>2

\* The task's side of enqueue_task(): a WRR task gets the weight of its group
\* and a full turn, and nothing else changes.
LEMMA Queued ==
  ASSUME NEW e \in TaskStruct, PrivateOK(e)
  PROVE  LET u == queued(e)
         IN  /\ u \in TaskStruct
             /\ SliceOK(u) /\ WeightOK(u) /\ PrivateOK(u)
             /\ \E w, s \in Nat : u = [e EXCEPT !.weight = w, !.time_slice = s]
<1>1. CASE e.class = "wrr"
  <2>1. PICK w \in Nat : /\ update_weight(e) = [e EXCEPT !.weight = w]
                         /\ update_weight(e) \in TaskStruct
                         /\ update_weight(e).weight > 0
                         /\ ~e.custom_weight => update_weight(e).weight = group_weight(e.group)
    BY UpdateWeight
  <2>2. update_weight(e).weight = w
    BY <2>1 DEF TaskStruct
  <2> DEFINE s == w * WRR_WEIGHT_UNIT
             u == [e EXCEPT !.weight = w, !.time_slice = s]
  <2>3. s \in Nat /\ s \in 1..s
    BY <2>1, <2>2, TurnPositive
  <2>4. queued(e) = u
    BY <1>1, <2>1, <2>2 DEF queued, enqueue_wrr_entity, get_rr_interval_wrr
  <2>5. /\ u \in TaskStruct
        /\ u.weight = w /\ u.time_slice = s /\ u.class = e.class
        /\ u.custom_weight = e.custom_weight /\ u.group = e.group
        /\ u.phase = e.phase /\ u.pi_prio = e.pi_prio
    BY <2>3 DEF TaskStruct
  <2>6. SliceOK(u)
    BY <2>3, <2>5 DEF SliceOK
  <2>7. WeightOK(u) /\ PrivateOK(u)
    BY <2>1, <2>2, <2>5 DEF WeightOK, PrivateOK
  <2> QED BY <2>3, <2>4, <2>5, <2>6, <2>7
<1>2. CASE e.class # "wrr"
  <2>1. queued(e) = e
    BY <1>2 DEF queued
  <2>2. e = [e EXCEPT !.weight = e.weight, !.time_slice = e.time_slice]
        /\ e.weight \in Nat /\ e.time_slice \in Nat
    BY DEF TaskStruct
  <2> QED BY <1>2, <2>1, <2>2 DEF SliceOK, WeightOK
<1> QED BY <1>1, <1>2

-----------------------------------------------------------------------------
(* Tasks and run queue together.  dead is the exiting task between its     *)
(* removal from the queues and the switch away from it.                    *)

Good(ts, r, dead) ==
  /\ ts \in [Task -> TaskStruct]
  /\ \A t \in Task \ dead : TaskOK(ts[t])
  /\ \A t \in Task \cap dead : ~ts[t].on_rq
  /\ RqOK(r, ts, on_rq(ts))

LEMMA IndInvGood ==
  IndInv <=> /\ Good(task, rq, {})
             /\ curr \in Task \cup {Idle}
             /\ curr # Idle => task[curr].on_rq
             /\ need_resched \in BOOLEAN
BY DEF IndInv, Good, TaskOK, RqOK, TypeOK, WrrQueueConsistent, RtQueueConsistent,
       CountersConsistent, SliceWithinTurn, WeightFollowsGroup, ClassMatches, NoTaskLost

LEMMA GoodRtPrios ==
  ASSUME NEW ts, NEW r, NEW dead, Good(ts, r, dead)
  PROVE  RtPriosOK(ts, on_rq(ts))
<1> SUFFICES ASSUME NEW t \in on_rq(ts), ts[t].class = "rt" PROVE ts[t].prio \in RtPrio
  BY DEF RtPriosOK
<1>1. t \in Task \ dead
  BY DEF Good, on_rq
<1> QED BY <1>1, RtClassPrio DEF Good, TaskOK

\* Replacing a task's record by one with the same place in the queues.
LEMMA GoodReplace ==
  ASSUME NEW ts, NEW r, NEW dead, Good(ts, r, dead), NEW t \in Task, NEW e, TaskOK(e),
         e.on_rq = ts[t].on_rq,
         e.on_rq => e.class = ts[t].class /\ e.prio = ts[t].prio
  PROVE  Good([ts EXCEPT ![t] = e], r, dead \ {t})
<1> DEFINE us == [ts EXCEPT ![t] = e]
<1>1. us \in [Task -> TaskStruct] /\ \A u \in Task : us[u] = IF u = t THEN e ELSE ts[u]
  BY DEF Good, TaskOK
<1> HIDE DEF us
<1>2. on_rq(us) = on_rq(ts)
  BY <1>1 DEF on_rq
<1>3. \A u \in on_rq(ts) : us[u].class = ts[u].class /\ us[u].prio = ts[u].prio
  BY <1>1 DEF on_rq
<1>4. RqOK(r, us, on_rq(us))
  BY <1>2, <1>3, RqFrame DEF Good
<1> QED BY <1>1, <1>4 DEF Good, us

\* activate_task(), the task's record and on_rq set with it.
LEMMA GoodActivate ==
  ASSUME NEW ts, NEW r, NEW dead, Good(ts, r, dead), NEW t \in Task, t \notin dead,
         ~ts[t].on_rq, NEW e, TaskOK(e), e.on_rq
  PROVE  Good([ts EXCEPT ![t] = e], activate_task(r, t, e), dead)
<1> DEFINE us == [ts EXCEPT ![t] = e]
           on == on_rq(ts)
           l == [r EXCEPT !.nr_uninterruptible = @ - contributes_to_load(e)]
<1>1. us \in [Task -> TaskStruct] /\ \A u \in Task : us[u] = IF u = t THEN e ELSE ts[u]
  BY DEF Good, TaskOK
<1>2. us[t] = e
  BY <1>1
<1>3. activate_task(r, t, e) = enqueue_task(l, t, us[t], FALSE)
  BY <1>2 DEF activate_task
<1>4. RqOK(l, ts, on)
  <2>1. r.nr_uninterruptible - contributes_to_load(e) \in Int
    BY DEF Good, RqOK, RunQueue, contributes_to_load
  <2> QED BY <2>1, RqLoad DEF Good
<1> HIDE DEF us, l
<1>5. t \notin on /\ on \in SUBSET Task
  BY DEF on_rq
<1>6. \A u \in on : us[u].class = ts[u].class /\ us[u].prio = ts[u].prio
  BY <1>1, <1>5
<1>7. RqOK(l, us, on)
  BY <1>4, <1>6, RqFrame
<1>8. us[t].class = "rt" => us[t].prio \in RtPrio
  BY <1>2, RtClassPrio DEF TaskOK
<1>9. RqOK(enqueue_task(l, t, us[t], FALSE), us, on \cup {t})
  BY <1>1, <1>5, <1>7, <1>8, EnqueueTask
<1>10. on_rq(us) = on \cup {t}
  BY <1>1 DEF on_rq
<1> QED BY <1>1, <1>3, <1>9, <1>10 DEF Good, us

\* deactivate_task() and on_rq cleared: a sleeping task stays a proper one, an
\* exiting one is dead.
LEMMA GoodDeactivate ==
  ASSUME NEW ts, NEW r, Good(ts, r, {}), NEW t \in Task, ts[t].on_rq, ts[t].state # "R"
  PROVE  Good([ts EXCEPT ![t].on_rq = FALSE], deactivate_task(r, t, ts[t]),
              IF ts[t].state = "X" THEN {t} ELSE {})
<1> DEFINE e == ts[t]
           f == [e EXCEPT !.on_rq = FALSE]
           us == [ts EXCEPT ![t].on_rq = FALSE]
           on == on_rq(ts)
           l == [r EXCEPT !.nr_uninterruptible = @ + contributes_to_load(e)]
           dead == IF e.state = "X" THEN {t} ELSE {}
<1>0. TaskOK(e) /\ e \in TaskStruct /\ ts \in [Task -> TaskStruct]
  BY DEF Good, TaskOK
<1>1. /\ f \in TaskStruct
      /\ f.on_rq = FALSE /\ f.class = e.class /\ f.prio = e.prio /\ f.policy = e.policy
      /\ f.normal_prio = e.normal_prio /\ f.rt_priority = e.rt_priority
      /\ f.static_prio = e.static_prio /\ f.pi_prio = e.pi_prio /\ f.phase = e.phase
      /\ f.state = e.state /\ f.custom_weight = e.custom_weight /\ f.weight = e.weight
  BY <1>0 DEF TaskStruct
<1>2. us = [ts EXCEPT ![t] = f]
  BY <1>0
<1> HIDE DEF f, us
<1>3. us \in [Task -> TaskStruct] /\ \A u \in Task : us[u] = IF u = t THEN f ELSE ts[u]
  BY <1>0, <1>1, <1>2
<1>4. RqOK(l, ts, on)
  <2>1. r.nr_uninterruptible + contributes_to_load(e) \in Int
    BY DEF Good, RqOK, RunQueue, contributes_to_load
  <2> QED BY <2>1, RqLoad DEF Good
<1>5. deactivate_task(r, t, ts[t]) = dequeue_task(l, t, ts[t])
  BY DEF deactivate_task
<1> HIDE DEF l
<1>6. t \in on /\ on \in SUBSET Task
  BY DEF on_rq
<1>7. ts[t].class = "rt" => ts[t].prio \in RtPrio
  BY <1>0, RtClassPrio DEF TaskOK
<1>8. RqOK(dequeue_task(l, t, ts[t]), ts, on \ {t})
  BY <1>0, <1>4, <1>6, <1>7, DequeueTask
<1>9. on_rq(us) = on \ {t}
  BY <1>1, <1>3 DEF on_rq
<1>10. \A u \in on \ {t} : us[u].class = ts[u].class /\ us[u].prio = ts[u].prio
  BY <1>3, <1>6
<1>11. RqOK(dequeue_task(l, t, ts[t]), us, on_rq(us))
  BY <1>8, <1>9, <1>10, RqFrame
<1>12. e.state # "X" => TaskOK(f)
  <2>1. ClassOK(f)
    BY <1>0, <1>1, ClassFrame DEF TaskOK
  <2>2. PrivateOK(f)
    BY <1>0, <1>1 DEF TaskOK, PrivateOK
  <2>3. e.state # "X" => Accounted(f)
    <3>1. e.state \in {"R", "S", "D", "X"}
      BY <1>0 DEF TaskStruct
    <3> QED BY <1>1, <3>1 DEF Accounted, sleeping
  <2> QED BY <1>1, <2>1, <2>2, <2>3 DEF TaskOK
<1>13. \A u \in Task \ dead : TaskOK(us[u])
  BY <1>3, <1>12 DEF Good
<1>14. \A u \in Task \cap dead : ~us[u].on_rq
  BY <1>1, <1>3
<1> QED BY <1>3, <1>5, <1>11, <1>13, <1>14 DEF Good, us

\* A wake-up: ttwu_activate() and ttwu_do_wakeup() of a sleeping task, still
\* queued or not.
LEMMA GoodWake ==
  ASSUME NEW ts, NEW r, NEW dead, Good(ts, r, dead), NEW t \in Task, t \notin dead,
         sleeping(ts[t])
  PROVE  Good([ts EXCEPT ![t] = ttwu_do_wakeup(ts[t])], ttwu_activate(r, t, ts[t]), dead)
<1> DEFINE e == ts[t]
           a == activated(e)
           w == ttwu_do_wakeup(e)
<1>0. TaskOK(e) /\ e \in TaskStruct /\ ts \in [Task -> TaskStruct] /\ e.phase = "live"
  BY DEF Good, TaskOK, sleeping
<1>1. TaskOK(a) /\ a.on_rq /\ a.phase = "live"
  <2>1. CASE e.on_rq
    BY <1>0, <2>1 DEF activated
  <2>2. CASE ~e.on_rq
    <3> DEFINE q == queued(e)
    <3>1. PICK x, y \in Nat : q = [e EXCEPT !.weight = x, !.time_slice = y]
      BY <1>0, Queued DEF TaskOK
    <3>2. q \in TaskStruct /\ SliceOK(q) /\ WeightOK(q) /\ PrivateOK(q)
      BY <1>0, Queued DEF TaskOK
    <3>3. a = [q EXCEPT !.on_rq = TRUE]
      BY <2>2 DEF activated
    <3> HIDE DEF q, a
    <3>4. /\ q.class = e.class /\ q.prio = e.prio /\ q.policy = e.policy
          /\ q.normal_prio = e.normal_prio /\ q.rt_priority = e.rt_priority
          /\ q.static_prio = e.static_prio /\ q.pi_prio = e.pi_prio /\ q.phase = e.phase
      BY <1>0, <3>1 DEF TaskStruct
    <3>5. /\ a \in TaskStruct /\ a.on_rq = TRUE
          /\ a.class = q.class /\ a.prio = q.prio /\ a.policy = q.policy
          /\ a.normal_prio = q.normal_prio /\ a.rt_priority = q.rt_priority
          /\ a.static_prio = q.static_prio /\ a.pi_prio = q.pi_prio /\ a.phase = q.phase
          /\ a.weight = q.weight /\ a.time_slice = q.time_slice
          /\ a.custom_weight = q.custom_weight /\ a.group = q.group
      BY <3>2, <3>3 DEF TaskStruct
    <3>6. ClassOK(a)
      BY <1>0, <3>4, <3>5, ClassFrame DEF TaskOK
    <3>7. SliceOK(a) /\ WeightOK(a) /\ PrivateOK(a)
      BY <3>2, <3>5 DEF SliceOK, WeightOK, PrivateOK
    <3>8. Accounted(a)
      BY <1>0, <3>4, <3>5 DEF Accounted
    <3> QED BY <1>0, <3>4, <3>5, <3>6, <3>7, <3>8 DEF TaskOK, a
  <2> QED BY <2>1, <2>2
<1>2. w = [a EXCEPT !.state = "R"]
  BY DEF ttwu_do_wakeup
<1> HIDE DEF a, w
<1>3. /\ w \in TaskStruct
      /\ w.on_rq = a.on_rq /\ w.class = a.class /\ w.prio = a.prio /\ w.policy = a.policy
      /\ w.normal_prio = a.normal_prio /\ w.rt_priority = a.rt_priority
      /\ w.static_prio = a.static_prio /\ w.pi_prio = a.pi_prio /\ w.phase = a.phase
      /\ w.weight = a.weight /\ w.time_slice = a.time_slice
      /\ w.custom_weight = a.custom_weight /\ w.group = a.group
  BY <1>1, <1>2 DEF TaskOK, TaskStruct
<1>4. TaskOK(w)
  <2>1. ClassOK(w)
    BY <1>1, <1>3, ClassFrame DEF TaskOK
  <2>2. SliceOK(w) /\ WeightOK(w) /\ PrivateOK(w) /\ Accounted(w)
    BY <1>1, <1>3 DEF TaskOK, SliceOK, WeightOK, PrivateOK, Accounted
  <2> QED BY <1>3, <2>1, <2>2 DEF TaskOK
<1> DEFINE r2 == ttwu_activate(r, t, e)
           us == [ts EXCEPT ![t] = a]
<1>5. Good(us, r2, dead)
  <2>1. CASE e.on_rq
    <3>1. us = ts /\ r2 = r
      BY <1>0, <2>1 DEF a, activated, ttwu_activate
    <3> QED BY <3>1
  <2>2. CASE ~e.on_rq
    <3>1. r2 = activate_task(r, t, a)
      BY <2>2 DEF a, ttwu_activate
    <3> QED BY <1>1, <2>2, <3>1, GoodActivate
  <2> QED BY <2>1, <2>2
<1>6. us[t] = a /\ [us EXCEPT ![t] = w] = [ts EXCEPT ![t] = w]
  BY <1>0
<1> HIDE DEF us, r2
<1>7. Good([us EXCEPT ![t] = w], r2, dead \ {t})
  BY <1>1, <1>3, <1>4, <1>5, <1>6, GoodReplace
<1>8. dead \ {t} = dead
  OBVIOUS
<1> QED BY <1>6, <1>7, <1>8 DEF w, r2

\* The switch, after which nobody is dead.
LEMMA Switch ==
  ASSUME NEW ts, NEW r, NEW dead, Good(ts, r, dead), dead \subseteq {curr},
         curr \in Task \cup {Idle},
         curr # Idle => (ts[curr].state = "X" <=> curr \in dead),
         switch_to_next(ts, r)
  PROVE  IndInv'
<1>0. Idle \notin Task
  BY CoreAssumption
<1>1. PICK throttled \in BOOLEAN :
        \E next \in pick_next_task(ts, r, throttled) :
          /\ curr' = next
          /\ task' = [t \in Task |-> IF t = curr /\ ts[t].state = "X" THEN NoTask ELSE ts[t]]
          /\ rq' = r
          /\ need_resched' = FALSE
  BY DEF switch_to_next, wrr_throttled
<1>2. curr' = Idle \/ curr' \in on_rq(ts)
  BY <1>1, PickNext, GoodRtPrios DEF Good
<1>3. \A t \in Task : TaskOK(task'[t])
  BY <1>0, <1>1, NoTaskOK DEF Good
<1>4. task' \in [Task -> TaskStruct]
  BY <1>1, NoTaskOK DEF Good, TaskOK
<1>5. \A t \in on_rq(ts) : task'[t] = ts[t] /\ t \in Task
  BY <1>0, <1>1 DEF on_rq, Good
<1>6. on_rq(task') = on_rq(ts)
  BY <1>0, <1>1, NoTaskOK DEF on_rq, Good
<1>7. RqOK(r, task', on_rq(ts))
  BY <1>5, RqFrame DEF Good
<1>8. Good(task', rq', {})
  BY <1>1, <1>3, <1>4, <1>6, <1>7 DEF Good
<1>9. curr' \in Task \cup {Idle} /\ (curr' # Idle => task'[curr'].on_rq)
  BY <1>2, <1>5 DEF on_rq
<1>10. need_resched' \in BOOLEAN
  BY <1>1
<1> QED BY <1>8, <1>9, <1>10
     DEF IndInv, Good, TaskOK, RqOK, TypeOK, WrrQueueConsistent, RtQueueConsistent,
         CountersConsistent, SliceWithinTurn, WeightFollowsGroup, ClassMatches, NoTaskLost

\* A step that does not switch tasks.
LEMMA Stays ==
  ASSUME IndInv, Good(task', rq', {}), curr' = curr, need_resched' \in BOOLEAN,
         curr # Idle => task'[curr].on_rq = task[curr].on_rq
  PROVE  IndInv'
BY DEF IndInv, Good, TaskOK, RqOK, TypeOK, WrrQueueConsistent, RtQueueConsistent,
       CountersConsistent, SliceWithinTurn, WeightFollowsGroup, ClassMatches, NoTaskLost

\* A task that differs from a proper one in fields no part of the invariant
\* looks at.
LEMMA TaskFrame ==
  ASSUME NEW e, TaskOK(e), NEW u \in TaskStruct, Accounted(u),
         u.class = e.class, u.prio = e.prio, u.policy = e.policy,
         u.normal_prio = e.normal_prio, u.rt_priority = e.rt_priority,
         u.static_prio = e.static_prio, u.pi_prio = e.pi_prio, u.phase = e.phase,
         u.on_rq = e.on_rq, u.weight = e.weight, u.custom_weight = e.custom_weight,
         u.group = e.group, u.time_slice = e.time_slice
  PROVE  TaskOK(u)
<1>1. ClassOK(u)
  BY ClassFrame DEF TaskOK
<1>2. PrivateOK(u) /\ (u.on_rq => SliceOK(u) /\ WeightOK(u))
  BY DEF TaskOK, PrivateOK, SliceOK, WeightOK
<1> QED BY <1>1, <1>2 DEF TaskOK

\* The running task may change its state at any time it is queued.
LEMMA GoodSetState ==
  ASSUME NEW ts, NEW r, Good(ts, r, {}), NEW t \in Task, ts[t].on_rq,
         NEW s \in {"R", "S", "D", "X"}
  PROVE  Good([ts EXCEPT ![t].state = s], r, {})
<1> DEFINE e == ts[t]
           u == [e EXCEPT !.state = s]
<1>0. TaskOK(e) /\ e \in TaskStruct /\ ts \in [Task -> TaskStruct]
  BY DEF Good, TaskOK
<1>1. /\ u \in TaskStruct
      /\ u.class = e.class /\ u.prio = e.prio /\ u.policy = e.policy
      /\ u.normal_prio = e.normal_prio /\ u.rt_priority = e.rt_priority
      /\ u.static_prio = e.static_prio /\ u.pi_prio = e.pi_prio /\ u.phase = e.phase
      /\ u.on_rq = e.on_rq /\ u.weight = e.weight /\ u.custom_weight = e.custom_weight
      /\ u.group = e.group /\ u.time_slice = e.time_slice
  BY <1>0 DEF TaskStruct
<1>2. [ts EXCEPT ![t].state = s] = [ts EXCEPT ![t] = u]
  BY <1>0
<1> HIDE DEF u
<1>3. Accounted(u)
  BY <1>0, <1>1 DEF Accounted, TaskOK
<1>4. TaskOK(u)
  BY <1>0, <1>1, <1>3, TaskFrame
<1>5. Good([ts EXCEPT ![t] = u], r, {} \ {t})
  BY <1>1, <1>4, GoodReplace
<1> QED BY <1>2, <1>5

\* change_task() on a task: dequeued as it was, enqueued as it is.
LEMMA GoodChange ==
  ASSUME Good(task, rq, {}), NEW t \in Task, NEW head \in BOOLEAN,
         NEW e \in TaskStruct, ClassOK(e), Accounted(e), PrivateOK(e),
         e.on_rq = task[t].on_rq, change_task(t, e, head)
  PROVE  /\ Good(task', rq', {})
         /\ \A c \in Task : task'[c].on_rq = task[c].on_rq
<1> DEFINE u == changed(t, e)
<1>0. task \in [Task -> TaskStruct] /\ TaskOK(task[t])
  BY DEF Good
<1>1. TaskOK(u) /\ u.on_rq = e.on_rq
  <2>1. CASE e.on_rq
    <3> DEFINE q == queued(e)
    <3>1. u = q
      BY <2>1 DEF changed
    <3>2. PICK x, y \in Nat : q = [e EXCEPT !.weight = x, !.time_slice = y]
      BY Queued
    <3>3. q \in TaskStruct /\ SliceOK(q) /\ WeightOK(q) /\ PrivateOK(q)
      BY Queued
    <3> HIDE DEF q, u
    <3>4. /\ q.class = e.class /\ q.prio = e.prio /\ q.policy = e.policy
          /\ q.normal_prio = e.normal_prio /\ q.rt_priority = e.rt_priority
          /\ q.static_prio = e.static_prio /\ q.pi_prio = e.pi_prio /\ q.phase = e.phase
          /\ q.on_rq = e.on_rq /\ q.state = e.state
      BY <3>2 DEF TaskStruct
    <3>5. ClassOK(q)
      BY <3>4, ClassFrame
    <3>6. Accounted(q)
      BY <3>4 DEF Accounted, sleeping
    <3> QED BY <3>1, <3>3, <3>4, <3>5, <3>6 DEF TaskOK
  <2>2. CASE ~e.on_rq
    BY <2>2 DEF changed, TaskOK
  <2> QED BY <2>1, <2>2
<1>2. task' = [task EXCEPT ![t] = u]
  BY DEF change_task
<1>3. e.on_rq => rq' = enqueue_task(dequeue_task(rq, t, task[t]), t, u, head)
  BY DEF change_task
<1>4. ~e.on_rq => rq' = rq
  BY DEF change_task
<1> HIDE DEF u
<1>5. /\ task' \in [Task -> TaskStruct]
      /\ \A c \in Task : task'[c] = IF c = t THEN u ELSE task[c]
  BY <1>0, <1>1, <1>2 DEF TaskOK
<1>6. CASE ~e.on_rq
  <2>1. Good([task EXCEPT ![t] = u], rq, {} \ {t})
    BY <1>1, <1>6, GoodReplace
  <2> QED BY <1>1, <1>2, <1>4, <1>5, <1>6, <2>1
<1>7. CASE e.on_rq
  <2> DEFINE on == on_rq(task)
             d == dequeue_task(rq, t, task[t])
             us == task'
  <2>1. t \in on /\ on \in SUBSET Task
    BY <1>7 DEF on_rq
  <2>2. RqOK(d, task, on \ {t})
    <3>1. task[t].class = "rt" => task[t].prio \in RtPrio
      BY <1>0, RtClassPrio DEF TaskOK
    <3> QED BY <1>0, <2>1, <3>1, DequeueTask DEF Good
  <2> HIDE DEF d
  <2>3. us[t] = u /\ \A c \in on \ {t} : us[c] = task[c]
    BY <1>5, <2>1
  <2>4. on_rq(us) = (on \ {t}) \cup {t}
    BY <1>1, <1>5, <1>7, <2>1 DEF on_rq
  <2>5. rq' = enqueue_task(d, t, us[t], head) /\ us \in [Task -> TaskStruct]
    BY <1>3, <1>5, <1>7, <2>3 DEF d
  <2> HIDE DEF us
  <2>6. RqOK(d, us, on \ {t})
    BY <2>2, <2>3, RqFrame
  <2>7. us[t].class = "rt" => us[t].prio \in RtPrio
    BY <1>1, <2>3, RtClassPrio DEF TaskOK
  <2>8. t \notin on \ {t} /\ on \ {t} \in SUBSET Task
    BY <2>1
  <2>9. RqOK(enqueue_task(d, t, us[t], head), us, (on \ {t}) \cup {t})
    BY <2>5, <2>6, <2>7, <2>8, EnqueueTask
  <2>10. \A c \in Task : TaskOK(us[c])
    BY <1>1, <1>5 DEF us, Good
  <2>11. Good(us, rq', {})
    BY <2>4, <2>5, <2>9, <2>10 DEF Good
  <2>12. \A c \in Task : us[c].on_rq = task[c].on_rq
    BY <1>1, <1>5 DEF us
  <2> QED BY <2>11, <2>12 DEF us
<1> QED BY <1>6, <1>7

-----------------------------------------------------------------------------
(* What the operations make of a task *)

\* Facts about the priorities of a task that the lemmas below need.
LEMMA PrioFacts ==
  ASSUME NEW e \in TaskStruct
  PROVE  /\ e.prio \in Nat /\ e.normal_prio \in Nat /\ e.pi_prio \in Nat
         /\ e.static_prio \in Nat /\ e.static_prio >= MAX_RT_PRIO
         /\ e.static_prio < MAX_PRIO /\ e.normal_prio < MAX_PRIO
         /\ e.rt_priority \in 0..(MAX_RT_PRIO - 1)
         /\ MAX_RT_PRIO \in Nat /\ MAX_PRIO \in Nat /\ MAX_RT_PRIO < MAX_PRIO
         /\ normal_prio(e) \in 0..(MAX_PRIO - 1)
<1>1. /\ e.prio \in 0..(MAX_PRIO - 1) /\ e.normal_prio \in 0..(MAX_PRIO - 1)
      /\ e.pi_prio \in 0..MAX_PRIO /\ e.static_prio \in StaticPrio
      /\ e.rt_priority \in 0..(MAX_RT_PRIO - 1)
  BY DEF TaskStruct
<1>2. MAX_RT_PRIO \in Nat /\ MAX_PRIO \in Nat
  BY CoreAssumption, RtAssumption
<1>3. e.static_prio \in MAX_RT_PRIO..(MAX_PRIO - 1)
  BY <1>1, CoreAssumption
<1> QED BY <1>1, <1>2, <1>3 DEF normal_prio

\* rt_mutex_getprio() is a priority, and a real-time one only if the task or a
\* waiter has one.
LEMMA GetPrio ==
  ASSUME NEW e \in TaskStruct
  PROVE  /\ rt_mutex_getprio(e) \in 0..(MAX_PRIO - 1)
         /\ e.pi_prio = MAX_PRIO => rt_mutex_getprio(e) = e.normal_prio
BY PrioFacts DEF rt_mutex_getprio

\* The class chosen from the priority after inheritance is the right one.
LEMMA SetClass ==
  ASSUME NEW n \in TaskStruct, n.normal_prio = normal_prio(n), PrivateOK(n),
         NEW e, e = [n EXCEPT !.prio = rt_mutex_getprio(n),
                              !.class = class_of(rt_mutex_getprio(n), n.policy)]
  PROVE  e \in TaskStruct /\ ClassOK(e) /\ PrivateOK(e)
<1>1. rt_mutex_getprio(n) \in 0..(MAX_PRIO - 1)
  BY GetPrio
<1>2. class_of(rt_mutex_getprio(n), n.policy) \in {"rt", "wrr", "fair"}
  BY DEF class_of
<1>3. /\ e \in TaskStruct
      /\ e.prio = rt_mutex_getprio(n)
      /\ e.class = class_of(rt_mutex_getprio(n), n.policy)
      /\ e.policy = n.policy /\ e.normal_prio = n.normal_prio
      /\ e.rt_priority = n.rt_priority /\ e.static_prio = n.static_prio
      /\ e.pi_prio = n.pi_prio /\ e.phase = n.phase
      /\ e.weight = n.weight /\ e.custom_weight = n.custom_weight
  BY <1>1, <1>2 DEF TaskStruct
<1>4. rt_mutex_getprio(e) = e.prio /\ normal_prio(e) = e.normal_prio
  BY <1>3 DEF rt_mutex_getprio, normal_prio
<1>5. e.phase = "forked" /\ e.policy = "WRR" => e.class = "wrr"
  <2> SUFFICES ASSUME e.phase = "forked", e.policy = "WRR" PROVE e.class = "wrr"
    OBVIOUS
  <2>1. n.pi_prio = MAX_PRIO
    BY <1>3 DEF PrivateOK
  <2>2. e.prio = n.static_prio
    BY <1>3, <2>1, GetPrio DEF normal_prio, rt_policy
  <2>3. ~rt_prio(n.static_prio)
    BY PrioFacts DEF rt_prio
  <2> QED BY <1>3, <2>2, <2>3 DEF class_of
<1> QED BY <1>3, <1>4, <1>5 DEF ClassOK, PrivateOK

\* __setscheduler()
LEMMA Setscheduler ==
  ASSUME NEW o \in TaskStruct, PrivateOK(o), NEW policy \in Policy,
         NEW prio \in SchedPriority, NEW e, e = setscheduler(o, policy, prio)
  PROVE  /\ e \in TaskStruct /\ ClassOK(e) /\ PrivateOK(e)
         /\ e.phase = o.phase /\ e.state = o.state /\ e.on_rq = o.on_rq
<1>0. /\ policy \in {"NORMAL", "FIFO", "RR", "WRR"}
      /\ prio \in 0..(MAX_RT_PRIO - 1) /\ prio \in Nat
      /\ 0 \in 0..(MAX_RT_PRIO - 1)
  BY CoreAssumption, RtAssumption
<1> DEFINE w == IF prio # 0 THEN prio ELSE 1
           p == IF policy # "WRR"
                  THEN [o EXCEPT !.policy = policy, !.rt_priority = prio]
                  ELSE [o EXCEPT !.policy = policy, !.rt_priority = 0,
                                 !.weight = w, !.custom_weight = (prio # 0)]
           n == [p EXCEPT !.normal_prio = normal_prio(p)]
           b == [n EXCEPT !.prio = rt_mutex_getprio(n)]
<1>1. w \in Nat /\ w > 0 /\ (prio # 0) \in BOOLEAN
  BY <1>0
<1>2. e = [b EXCEPT !.class = class_of(b.prio, b.policy)]
  BY DEF setscheduler
<1> HIDE DEF w
<1>3. /\ p \in TaskStruct
      /\ p.phase = o.phase /\ p.state = o.state /\ p.on_rq = o.on_rq
      /\ p.policy = policy /\ p.pi_prio = o.pi_prio
      /\ p.custom_weight => p.weight > 0
  <2>1. CASE policy # "WRR"
    BY <1>0, <2>1, ZenonT(60) DEF TaskStruct, PrivateOK
  <2>2. CASE policy = "WRR"
    BY <1>0, <1>1, <2>2, ZenonT(60) DEF TaskStruct
  <2> QED BY <2>1, <2>2
<1> HIDE DEF p
<1>4. /\ n \in TaskStruct
      /\ n.normal_prio = normal_prio(p)
      /\ n.phase = p.phase /\ n.state = p.state /\ n.on_rq = p.on_rq
      /\ n.policy = p.policy /\ n.pi_prio = p.pi_prio
      /\ n.rt_priority = p.rt_priority /\ n.static_prio = p.static_prio
      /\ n.custom_weight = p.custom_weight /\ n.weight = p.weight
  BY <1>3, PrioFacts DEF TaskStruct
<1>5. normal_prio(n) = normal_prio(p)
  BY <1>4 DEF normal_prio
<1>6. PrivateOK(n)
  BY <1>3, <1>4 DEF PrivateOK
<1> HIDE DEF n
<1>7. b.prio = rt_mutex_getprio(n) /\ b.policy = n.policy
  BY <1>4 DEF TaskStruct
<1>8. e = [n EXCEPT !.prio = rt_mutex_getprio(n),
                    !.class = class_of(rt_mutex_getprio(n), n.policy)]
  BY <1>2, <1>4, <1>7 DEF TaskStruct
<1>9. e \in TaskStruct /\ ClassOK(e) /\ PrivateOK(e)
  BY <1>4, <1>5, <1>6, <1>8, SetClass
<1>10. e.phase = n.phase /\ e.state = n.state /\ e.on_rq = n.on_rq
  BY <1>4, <1>8 DEF TaskStruct
<1> QED BY <1>3, <1>4, <1>9, <1>10

\* set_user_nice() for a task without an RT policy: an inherited priority
\* stays, and with it the class.
LEMMA Renice ==
  ASSUME NEW o \in TaskStruct, ClassOK(o), PrivateOK(o), ~rt_policy(o.policy),
         NEW nice \in StaticPrio,
         NEW s, s = [o EXCEPT !.static_prio = nice],
         NEW e, e = [s EXCEPT !.normal_prio = normal_prio(s), !.prio = effective_prio(s)]
  PROVE  /\ e \in TaskStruct /\ ClassOK(e) /\ PrivateOK(e)
         /\ e.phase = o.phase /\ e.state = o.state /\ e.on_rq = o.on_rq
<1>1. /\ s \in TaskStruct /\ s.static_prio = nice
      /\ s.prio = o.prio /\ s.policy = o.policy /\ s.normal_prio = o.normal_prio
      /\ s.pi_prio = o.pi_prio /\ s.class = o.class
      /\ s.phase = o.phase /\ s.state = o.state /\ s.on_rq = o.on_rq
      /\ s.weight = o.weight /\ s.custom_weight = o.custom_weight
  BY DEF TaskStruct
<1>2. normal_prio(s) = nice /\ normal_prio(o) = o.static_prio
  BY <1>1 DEF normal_prio
<1>3. nice \in Nat /\ nice >= MAX_RT_PRIO /\ nice \in 0..(MAX_PRIO - 1) /\ ~rt_prio(nice)
  BY CoreAssumption, RtAssumption DEF rt_prio
<1>4. /\ effective_prio(s) = IF rt_prio(o.prio) THEN o.prio ELSE nice
      /\ effective_prio(s) \in 0..(MAX_PRIO - 1)
  <2>1. o.prio \in 0..(MAX_PRIO - 1)
    BY DEF TaskStruct
  <2> QED BY <1>1, <1>2, <1>3, <2>1 DEF effective_prio
<1> DEFINE p == effective_prio(s)
<1> HIDE DEF p
<1>5. e = [s EXCEPT !.normal_prio = nice, !.prio = p] /\ p \in 0..(MAX_PRIO - 1)
  BY <1>2, <1>4 DEF p
<1>6. /\ e \in TaskStruct /\ e.static_prio = nice /\ e.normal_prio = nice /\ e.prio = p
      /\ e.policy = o.policy /\ e.pi_prio = o.pi_prio /\ e.class = o.class
      /\ e.phase = o.phase /\ e.state = o.state /\ e.on_rq = o.on_rq
      /\ e.weight = o.weight /\ e.custom_weight = o.custom_weight
  <2>1. [s EXCEPT !.normal_prio = nice, !.prio = p] \in TaskStruct
    BY <1>1, <1>3, <1>5, ZenonT(60) DEF TaskStruct
  <2>2. e \in TaskStruct
    BY <1>5, <2>1
  <2>3. /\ e.static_prio = s.static_prio /\ e.normal_prio = nice /\ e.prio = p
        /\ e.policy = s.policy /\ e.pi_prio = s.pi_prio /\ e.class = s.class
        /\ e.phase = s.phase /\ e.state = s.state /\ e.on_rq = s.on_rq
        /\ e.weight = s.weight /\ e.custom_weight = s.custom_weight
    BY <1>1, <1>5, ZenonT(60) DEF TaskStruct
  <2> QED BY <1>1, <2>2, <2>3
<1>7. rt_prio(p) <=> rt_prio(o.prio)
  BY <1>3, <1>4 DEF p
<1>8. class_of(e.prio, e.policy) = class_of(o.prio, o.policy)
  BY <1>6, <1>7 DEF class_of
<1>9. o.normal_prio = o.static_prio
  BY <1>2 DEF ClassOK
<1>10. rt_prio(p) \/ rt_prio(rt_mutex_getprio(e)) => p = rt_mutex_getprio(e)
  <2>0. /\ o.prio \in Nat /\ o.pi_prio \in Nat /\ o.static_prio \in Nat /\ MAX_RT_PRIO \in Nat
        /\ o.static_prio >= MAX_RT_PRIO
    BY PrioFacts
  <2>1. rt_mutex_getprio(e) = IF o.pi_prio < nice THEN o.pi_prio ELSE nice
    BY <1>6 DEF rt_mutex_getprio
  <2>2. rt_mutex_getprio(o) = IF o.pi_prio < o.static_prio THEN o.pi_prio ELSE o.static_prio
    BY <1>9 DEF rt_mutex_getprio
  <2>3. rt_prio(o.prio) \/ rt_prio(rt_mutex_getprio(o)) => o.prio = rt_mutex_getprio(o)
    BY DEF ClassOK
  <2>4. p = IF rt_prio(o.prio) THEN o.prio ELSE nice
    BY <1>4 DEF p
  <2> QED BY <1>3, <2>0, <2>1, <2>2, <2>3, <2>4 DEF rt_prio
<1>11. normal_prio(e) = nice
  BY <1>6 DEF normal_prio
<1>12. ClassOK(e)
  BY <1>6, <1>8, <1>10, <1>11 DEF ClassOK
<1>13. PrivateOK(e)
  BY <1>6 DEF PrivateOK
<1> QED BY <1>6, <1>12, <1>13

\* sched_fork(): the child has its own priority, policy and class.
LEMMA ChildOf ==
  ASSUME NEW o \in TaskStruct, ClassOK(o), PrivateOK(o), curr \in Task,
         NEW e, e = child_of(o)
  PROVE  TaskOK(e) /\ ~e.on_rq /\ e.state = "R"
<1>0. MAX_PRIO \in 0..MAX_PRIO /\ DEFAULT_PRIO \in StaticPrio /\ 0 \in 0..(MAX_RT_PRIO - 1)
      /\ o.normal_prio \in 0..(MAX_PRIO - 1)
  BY CoreAssumption, RtAssumption DEF TaskStruct
<1> DEFINE c == [o EXCEPT !.phase = "forked", !.parent = curr, !.on_rq = FALSE,
                          !.state = "R", !.pi_prio = MAX_PRIO, !.prio = o.normal_prio]
           p == IF c.reset_on_fork THEN reset_on_fork(c) ELSE c
<1>1. /\ c \in TaskStruct
      /\ c.phase = "forked" /\ c.state = "R" /\ c.on_rq = FALSE /\ c.pi_prio = MAX_PRIO
      /\ c.prio = o.normal_prio /\ c.normal_prio = o.normal_prio /\ c.policy = o.policy
      /\ c.static_prio = o.static_prio /\ c.rt_priority = o.rt_priority
      /\ c.class = o.class /\ c.weight = o.weight /\ c.custom_weight = o.custom_weight
  BY <1>0 DEF TaskStruct
<1>2. e = IF rt_prio(p.prio) THEN p ELSE [p EXCEPT !.class = class_of(p.prio, p.policy)]
  BY DEF child_of
<1>3. c.normal_prio = normal_prio(c)
  BY <1>1 DEF ClassOK, normal_prio
<1> HIDE DEF c
<1>4. /\ p \in TaskStruct
      /\ p.phase = "forked" /\ p.state = "R" /\ p.on_rq = FALSE /\ p.pi_prio = MAX_PRIO
      /\ p.prio = p.normal_prio /\ p.normal_prio = normal_prio(p)
      /\ p.class = c.class /\ p.weight = c.weight /\ p.custom_weight = c.custom_weight
      /\ rt_prio(p.prio) => p.normal_prio = c.normal_prio /\ p.policy = c.policy
  <2>1. CASE ~c.reset_on_fork
    BY <1>1, <1>3, <2>1
  <2>2. CASE c.reset_on_fork
    <3> DEFINE q == IF rt_policy(c.policy)
                      THEN [c EXCEPT !.policy = "NORMAL", !.rt_priority = 0,
                                     !.static_prio = DEFAULT_PRIO]
                      ELSE IF c.static_prio < DEFAULT_PRIO
                      THEN [c EXCEPT !.static_prio = DEFAULT_PRIO] ELSE c
    <3>1. p = [q EXCEPT !.prio = q.static_prio, !.normal_prio = q.static_prio,
                        !.reset_on_fork = FALSE]
      BY <2>2 DEF reset_on_fork
    <3>2. /\ q \in TaskStruct
          /\ q.phase = c.phase /\ q.state = c.state /\ q.on_rq = c.on_rq /\ q.pi_prio = c.pi_prio
          /\ q.class = c.class /\ q.weight = c.weight /\ q.custom_weight = c.custom_weight
          /\ ~rt_policy(q.policy)
      <4>1. CASE rt_policy(c.policy)
        BY <1>0, <1>1, <4>1, ZenonT(150) DEF TaskStruct, rt_policy
      <4>2. CASE ~rt_policy(c.policy) /\ c.static_prio < DEFAULT_PRIO
        BY <1>0, <1>1, <4>2 DEF TaskStruct
      <4>3. CASE ~rt_policy(c.policy) /\ ~(c.static_prio < DEFAULT_PRIO)
        BY <1>1, <4>3
      <4> QED BY <4>1, <4>2, <4>3
    <3> HIDE DEF q
    <3>3. q.static_prio \in 0..(MAX_PRIO - 1) /\ ~rt_prio(q.static_prio)
      BY <3>2, PrioFacts DEF rt_prio
    <3> HIDE DEF p
    <3>4. /\ p \in TaskStruct
          /\ p.prio = q.static_prio /\ p.normal_prio = q.static_prio
          /\ p.static_prio = q.static_prio /\ p.policy = q.policy
          /\ p.phase = q.phase /\ p.state = q.state /\ p.on_rq = q.on_rq /\ p.pi_prio = q.pi_prio
          /\ p.class = q.class /\ p.weight = q.weight /\ p.custom_weight = q.custom_weight
      BY <3>1, <3>2, <3>3, ZenonT(60) DEF TaskStruct
    <3> QED BY <1>1, <3>2, <3>3, <3>4 DEF normal_prio
  <2> QED BY <2>1, <2>2
<1> HIDE DEF p
<1>5. rt_mutex_getprio(p) = p.prio
  BY <1>4, GetPrio
<1>6. p.policy = "WRR" => ~rt_prio(p.prio)
  BY <1>4, PrioFacts DEF normal_prio, rt_policy, rt_prio
<1>7. rt_prio(p.prio) => p.class = "rt"
  <2> SUFFICES ASSUME rt_prio(p.prio) PROVE o.class = "rt"
    BY <1>1, <1>4
  <2>1. rt_prio(o.normal_prio)
    BY <1>1, <1>4
  <2>2. rt_prio(rt_mutex_getprio(o))
    BY <2>1, PrioFacts DEF rt_mutex_getprio, rt_prio
  <2> QED BY <2>2 DEF ClassOK, class_of
<1>8. class_of(p.prio, p.policy) \in {"rt", "wrr", "fair"}
  BY DEF class_of
<1>9. /\ e \in TaskStruct
      /\ e.class = class_of(p.prio, p.policy)
      /\ e.phase = "forked" /\ e.state = p.state /\ e.on_rq = FALSE /\ e.pi_prio = MAX_PRIO
      /\ e.prio = p.prio /\ e.normal_prio = p.normal_prio /\ e.policy = p.policy
      /\ e.rt_priority = p.rt_priority /\ e.static_prio = p.static_prio
      /\ e.weight = p.weight /\ e.custom_weight = p.custom_weight
  <2>1. CASE rt_prio(p.prio)
    BY <1>2, <1>4, <1>7, <2>1 DEF class_of
  <2>2. CASE ~rt_prio(p.prio)
    BY <1>2, <1>4, <1>8, <2>2 DEF TaskStruct
  <2> QED BY <2>1, <2>2
<1>10. normal_prio(e) = e.normal_prio /\ rt_mutex_getprio(e) = e.prio
  BY <1>4, <1>5, <1>9 DEF normal_prio, rt_mutex_getprio
<1>11. ClassOK(e)
  BY <1>6, <1>9, <1>10 DEF ClassOK, class_of
<1>12. PrivateOK(e) /\ Accounted(e)
  BY <1>1, <1>4, <1>9 DEF PrivateOK, Accounted
<1> QED BY <1>4, <1>9, <1>11, <1>12 DEF TaskOK

\* wake_up_new_task(): the new task is queued with the weight of its group.
LEMMA NewTask ==
  ASSUME NEW o, TaskOK(o), o.phase = "forked",
         NEW e, e = [queued(wrr_set_weight(o)) EXCEPT !.on_rq = TRUE,
                                                   !.phase = "live", !.parent = Idle]
  PROVE  TaskOK(e) /\ e.on_rq /\ e.state = o.state /\ e.phase = "live"
<1> DEFINE v == update_weight(o)
           u == wrr_set_weight(o)
           q == queued(u)
<1>0. o \in TaskStruct /\ ClassOK(o) /\ PrivateOK(o)
  BY DEF TaskOK
<1>1. PICK w \in Nat : v = [o EXCEPT !.weight = w]
  BY <1>0, UpdateWeight
<1>2. v \in TaskStruct /\ v.weight > 0
  BY <1>0, UpdateWeight
<1> HIDE DEF v
<1>3. /\ v.class = o.class /\ v.prio = o.prio /\ v.policy = o.policy
      /\ v.normal_prio = o.normal_prio /\ v.rt_priority = o.rt_priority
      /\ v.static_prio = o.static_prio /\ v.pi_prio = o.pi_prio /\ v.phase = o.phase
      /\ v.custom_weight = o.custom_weight /\ v.state = o.state
  BY <1>0, <1>1 DEF TaskStruct
<1>4. PICK s \in Nat : u = [v EXCEPT !.time_slice = s]
  <2>1. get_rr_interval_wrr(v) \in Nat
    <3>1. v.weight \in Nat
      BY <1>2 DEF TaskStruct
    <3> QED BY <1>2, <3>1, TurnPositive DEF get_rr_interval_wrr
  <2>2. v = [v EXCEPT !.time_slice = v.time_slice] /\ v.time_slice \in Nat
    BY <1>2 DEF TaskStruct
  <2> QED BY <2>1, <2>2 DEF wrr_set_weight, v
<1> HIDE DEF u
<1>5. /\ u \in TaskStruct /\ u.weight = v.weight
      /\ u.class = v.class /\ u.prio = v.prio /\ u.policy = v.policy
      /\ u.normal_prio = v.normal_prio /\ u.rt_priority = v.rt_priority
      /\ u.static_prio = v.static_prio /\ u.pi_prio = v.pi_prio /\ u.phase = v.phase
      /\ u.custom_weight = v.custom_weight /\ u.state = v.state
  BY <1>2, <1>4 DEF TaskStruct
<1>6. PrivateOK(u)
  BY <1>0, <1>2, <1>3, <1>5 DEF PrivateOK
<1>7. /\ q \in TaskStruct /\ SliceOK(q) /\ WeightOK(q) /\ PrivateOK(q)
      /\ \E x, y \in Nat : q = [u EXCEPT !.weight = x, !.time_slice = y]
  BY <1>5, <1>6, Queued
<1>8. e = [q EXCEPT !.on_rq = TRUE, !.phase = "live", !.parent = Idle]
  BY DEF u
<1> HIDE DEF q
<1>9. /\ q.class = u.class /\ q.prio = u.prio /\ q.policy = u.policy
      /\ q.normal_prio = u.normal_prio /\ q.rt_priority = u.rt_priority
      /\ q.static_prio = u.static_prio /\ q.pi_prio = u.pi_prio /\ q.state = u.state
  BY <1>5, <1>7 DEF TaskStruct
<1>10. /\ e \in TaskStruct /\ e.on_rq = TRUE /\ e.phase = "live"
       /\ e.class = q.class /\ e.prio = q.prio /\ e.policy = q.policy
       /\ e.normal_prio = q.normal_prio /\ e.rt_priority = q.rt_priority
       /\ e.static_prio = q.static_prio /\ e.pi_prio = q.pi_prio
       /\ e.weight = q.weight /\ e.time_slice = q.time_slice
       /\ e.custom_weight = q.custom_weight /\ e.group = q.group /\ e.state = q.state
  BY <1>7, <1>8, ZenonT(60) DEF TaskStruct
<1>11. ClassOK(e)
  <2>1. /\ e.class = o.class /\ e.prio = o.prio /\ e.policy = o.policy
        /\ e.normal_prio = o.normal_prio /\ e.rt_priority = o.rt_priority
        /\ e.static_prio = o.static_prio /\ e.pi_prio = o.pi_prio /\ e.phase # "forked"
    BY <1>3, <1>5, <1>9, <1>10
  <2> HIDE DEF TaskOK
  <2> QED BY <1>0, <2>1, ClassFrame
<1>12. SliceOK(e) /\ WeightOK(e) /\ PrivateOK(e) /\ Accounted(e)
  BY <1>7, <1>10 DEF SliceOK, WeightOK, PrivateOK, Accounted
<1> QED BY <1>3, <1>5, <1>9, <1>10, <1>11, <1>12 DEF TaskOK

-----------------------------------------------------------------------------
(* The steps *)

LEMMA Resched ==
  ASSUME NEW cond, resched_if(cond)
  PROVE  need_resched' \in BOOLEAN
BY DEF resched_if

\* The facts about the present state every step starts from.
LEMMA Now ==
  ASSUME IndInv
  PROVE  /\ Good(task, rq, {}) /\ task \in [Task -> TaskStruct]
         /\ curr \in Task \cup {Idle} /\ Idle \notin Task
         /\ curr # Idle => curr \in Task /\ task[curr].on_rq /\ TaskOK(task[curr])
         /\ need_resched \in BOOLEAN
<1>1. Good(task, rq, {}) /\ curr \in Task \cup {Idle} /\ (curr # Idle => task[curr].on_rq)
      /\ need_resched \in BOOLEAN
  BY IndInvGood
<1> QED BY <1>1, CoreAssumption DEF Good

LEMMA StepSchedule ==
  ASSUME IndInv, Schedule
  PROVE  IndInv'
<1> DEFINE e == task[curr]
<1>0. /\ Good(task, rq, {}) /\ task \in [Task -> TaskStruct]
      /\ curr # Idle /\ curr \in Task /\ e.on_rq /\ e.state \in {"R", "S", "D", "X"}
  BY Now DEF Schedule, TaskOK, TaskStruct
<1>1. CASE e.state = "R" /\ switch_to_next(task, rq)
  BY <1>0, <1>1, Switch
<1>2. CASE e.state = "S" /\ switch_to_next([task EXCEPT ![curr].state = "R"], rq)
  <2> DEFINE ts == [task EXCEPT ![curr].state = "R"]
  <2>1. Good(ts, rq, {})
    BY <1>0, GoodSetState
  <2>2. ts[curr].state = "R"
    BY <1>0 DEF TaskStruct
  <2> HIDE DEF ts
  <2>3. switch_to_next(ts, rq)
    BY <1>2 DEF ts
  <2> QED BY <1>0, <2>1, <2>2, <2>3, Switch
<1>3. ASSUME e.state # "R"
      PROVE  LET ts == [task EXCEPT ![curr].on_rq = FALSE]
                 r == deactivate_task(rq, curr, e)
             IN  (\/ switch_to_next(ts, r)
                  \/ \E w \in Worker \ {curr} :
                       /\ sleeping(ts[w])
                       /\ switch_to_next([ts EXCEPT ![w] = ttwu_do_wakeup(ts[w])],
                                         ttwu_activate(r, w, ts[w])))
                 => IndInv'
  <2> DEFINE ts == [task EXCEPT ![curr].on_rq = FALSE]
             r == deactivate_task(rq, curr, e)
             dead == IF e.state = "X" THEN {curr} ELSE {}
  <2>1. Good(ts, r, dead)
    BY <1>0, <1>3, GoodDeactivate
  <2>2. ts[curr].state = e.state /\ (ts[curr].state = "X" <=> curr \in dead)
    BY <1>0 DEF TaskStruct
  <2>3. dead \subseteq {curr}
    OBVIOUS
  <2> HIDE DEF ts, r, dead
  <2>4. ASSUME switch_to_next(ts, r) PROVE IndInv'
    BY <1>0, <2>1, <2>2, <2>3, <2>4, Switch
  <2>5. ASSUME NEW w \in Worker \ {curr}, sleeping(ts[w]),
               switch_to_next([ts EXCEPT ![w] = ttwu_do_wakeup(ts[w])],
                              ttwu_activate(r, w, ts[w]))
        PROVE  IndInv'
    <3> DEFINE us == [ts EXCEPT ![w] = ttwu_do_wakeup(ts[w])]
               r2 == ttwu_activate(r, w, ts[w])
    <3>1. w \in Task /\ w \notin dead /\ w # curr
      BY <2>3, CoreAssumption
    <3>2. Good(us, r2, dead)
      BY <2>1, <2>5, <3>1, GoodWake
    <3>3. us[curr] = ts[curr]
      BY <2>1, <3>1 DEF Good
    <3> HIDE DEF us, r2
    <3>4. switch_to_next(us, r2)
      BY <2>5 DEF us, r2
    <3> QED BY <1>0, <2>2, <2>3, <3>2, <3>3, <3>4, Switch
  <2> QED BY <2>4, <2>5 DEF ts, r
<1> QED BY <1>1, <1>2, <1>3 DEF Schedule

LEMMA StepPreempt ==
  ASSUME IndInv, Preempt
  PROVE  IndInv'
BY Now, Switch DEF Preempt

LEMMA StepYield ==
  ASSUME IndInv, Yield
  PROVE  IndInv'
<1>0. /\ Good(task, rq, {}) /\ task \in [Task -> TaskStruct] /\ RqOK(rq, task, on_rq(task))
      /\ curr # Idle /\ curr \in Task /\ task[curr].state = "R"
      /\ curr \in on_rq(task) /\ on_rq(task) \in SUBSET Task /\ TaskOK(task[curr])
  BY Now DEF Yield, running_task, Good, on_rq
<1> DEFINE r == CASE task[curr].class = "wrr" -> yield_task_wrr(rq, curr)
                  [] task[curr].class = "rt"  -> requeue_task_rt(rq, curr, task[curr])
                  [] OTHER                    -> rq
<1>1. RqOK(r, task, on_rq(task))
  <2>1. CASE task[curr].class = "wrr"
    BY <1>0, <2>1, RequeueWrr
  <2>2. CASE task[curr].class = "rt"
    <3>1. task[curr].prio \in RtPrio
      BY <1>0, <2>2, RtClassPrio DEF TaskOK
    <3> QED BY <1>0, <2>2, <3>1, RequeueRt
  <2>3. CASE task[curr].class \notin {"wrr", "rt"}
    BY <1>0, <2>3
  <2> QED BY <2>1, <2>2, <2>3
<1>2. Good(task, r, {})
  BY <1>0, <1>1 DEF Good
<1>3. switch_to_next(task, r)
  BY DEF Yield
<1> HIDE DEF r
<1> QED BY <1>0, <1>2, <1>3, Switch

LEMMA StepSetState ==
  ASSUME IndInv, NEW s \in SleepState \cup {"R"}, SetCurrentState(s)
  PROVE  IndInv'
<1>0. Good(task, rq, {}) /\ task \in [Task -> TaskStruct] /\ curr \in Task /\ task[curr].on_rq
  BY Now DEF SetCurrentState
<1>1. s \in {"R", "S", "D", "X"}
  BY CoreAssumption
<1>2. Good([task EXCEPT ![curr].state = s], rq, {})
  BY <1>0, <1>1, GoodSetState
<1>3. [task EXCEPT ![curr].state = s][curr].on_rq = task[curr].on_rq
  BY <1>0 DEF TaskStruct
<1> QED BY <1>2, <1>3, Now, Stays DEF SetCurrentState

LEMMA StepExit ==
  ASSUME IndInv, Exit
  PROVE  IndInv'
<1>0. Good(task, rq, {}) /\ task \in [Task -> TaskStruct] /\ curr \in Task /\ task[curr].on_rq
  BY Now DEF Exit, running_task
<1>1. Good([task EXCEPT ![curr].state = "X"], rq, {})
  BY <1>0, GoodSetState
<1>2. [task EXCEPT ![curr].state = "X"][curr].on_rq = task[curr].on_rq
  BY <1>0 DEF TaskStruct
<1> QED BY <1>1, <1>2, Now, Stays DEF Exit

\* task_tick_wrr(): one tick less, or a full turn and the back of the queue.
LEMMA StepTickWrr ==
  ASSUME IndInv, TickWrr
  PROVE  IndInv'
<1> DEFINE e == task[curr]
           s == tick_slice_wrr(e)
           u == [e EXCEPT !.time_slice = s]
           ts == [task EXCEPT ![curr] = u]
<1>0. /\ Good(task, rq, {}) /\ task \in [Task -> TaskStruct] /\ RqOK(rq, task, on_rq(task))
      /\ curr # Idle /\ curr \in Task /\ e.on_rq /\ TaskOK(e) /\ e.class = "wrr"
  <2>1. curr # Idle
    BY DEF TickWrr, curr_of, idle_task, NoTask
  <2> QED BY <2>1, Now DEF TickWrr, curr_of, Good
<1>1. PICK throttled \in BOOLEAN :
        /\ task' = [task EXCEPT ![curr].time_slice = tick_slice_wrr(e)]
        /\ rq' = IF tick_retires_wrr(rq, e, throttled) THEN yield_task_wrr(rq, curr) ELSE rq
        /\ resched_if(tick_retires_wrr(rq, e, throttled))
  BY DEF TickWrr, wrr_throttled
<1>2. s \in Nat /\ s \in 1..(e.weight * WRR_WEIGHT_UNIT)
  <2> DEFINE turn == e.weight * WRR_WEIGHT_UNIT
  <2>1. e.time_slice \in 1..turn /\ e.time_slice \in Nat /\ e.weight \in Nat
    BY <1>0 DEF TaskOK, SliceOK, TaskStruct
  <2>2. turn \in Int
    BY <2>1, WrrAssumption
  <2> HIDE DEF turn
  <2>3. s = IF e.time_slice - 1 # 0 THEN e.time_slice - 1 ELSE turn
    BY <2>1, <2>2 DEF tick_slice_wrr, get_rr_interval_wrr, turn
  <2> QED BY <2>1, <2>2, <2>3 DEF turn
<1>3. task' = ts
  BY <1>0, <1>1
<1> HIDE DEF s
<1>4. /\ u \in TaskStruct /\ u.time_slice = s
      /\ u.class = e.class /\ u.prio = e.prio /\ u.policy = e.policy
      /\ u.normal_prio = e.normal_prio /\ u.rt_priority = e.rt_priority
      /\ u.static_prio = e.static_prio /\ u.pi_prio = e.pi_prio /\ u.phase = e.phase
      /\ u.on_rq = e.on_rq /\ u.weight = e.weight /\ u.custom_weight = e.custom_weight
      /\ u.group = e.group /\ u.state = e.state
  <2>1. e \in TaskStruct
    BY <1>0
  <2> QED BY <1>2, <2>1 DEF TaskStruct
<1> HIDE DEF u
<1>5. TaskOK(u)
  <2>1. ClassOK(u)
    BY <1>0, <1>4, ClassFrame DEF TaskOK
  <2>2. SliceOK(u)
    BY <1>2, <1>4 DEF SliceOK
  <2>3. WeightOK(u) /\ PrivateOK(u) /\ Accounted(u)
    BY <1>0, <1>4 DEF TaskOK, WeightOK, PrivateOK, Accounted, sleeping
  <2> QED BY <1>4, <2>1, <2>2, <2>3 DEF TaskOK
<1>6. Good(ts, rq, {})
  <2>1. Good(ts, rq, {} \ {curr})
    BY <1>0, <1>4, <1>5, GoodReplace
  <2> QED BY <2>1
<1>7. ts[curr] = u
  BY <1>0
<1> HIDE DEF ts
<1>8. Good(ts, rq', {})
  <2>1. CASE tick_retires_wrr(rq, e, throttled)
    <3>1. /\ ts \in [Task -> TaskStruct] /\ RqOK(rq, ts, on_rq(ts))
          /\ on_rq(ts) \in SUBSET Task /\ curr \in on_rq(ts) /\ ts[curr].class = "wrr"
      BY <1>0, <1>4, <1>6, <1>7 DEF Good, on_rq
    <3>2. RqOK(yield_task_wrr(rq, curr), ts, on_rq(ts))
      BY <3>1, RequeueWrr
    <3> QED BY <1>1, <1>6, <2>1, <3>2 DEF Good
  <2>2. CASE ~tick_retires_wrr(rq, e, throttled)
    BY <1>1, <1>6, <2>2
  <2> QED BY <2>1, <2>2
<1>9. curr' = curr /\ need_resched' \in BOOLEAN
  BY <1>1, Resched DEF TickWrr
<1> QED BY <1>3, <1>4, <1>7, <1>8, <1>9, Stays

LEMMA StepTickRt ==
  ASSUME IndInv, TickRt
  PROVE  IndInv'
<1> DEFINE e == task[curr]
           s == tick_slice_rt(e)
           u == [e EXCEPT !.rt_time_slice = s]
           ts == [task EXCEPT ![curr] = u]
<1>0. /\ Good(task, rq, {}) /\ task \in [Task -> TaskStruct] /\ RqOK(rq, task, on_rq(task))
      /\ curr # Idle /\ curr \in Task /\ e.on_rq /\ TaskOK(e) /\ e.class = "rt"
      /\ e \in TaskStruct
  <2>1. curr # Idle
    BY DEF TickRt, curr_of, idle_task, NoTask
  <2> QED BY <2>1, Now DEF TickRt, curr_of, Good
<1>1. s \in 1..RR_TIMESLICE
  BY <1>0, RtAssumption DEF tick_slice_rt, TaskStruct
<1>2. task' = ts
  BY <1>0 DEF TickRt
<1> HIDE DEF s
<1>3. /\ u \in TaskStruct
      /\ u.class = e.class /\ u.prio = e.prio /\ u.policy = e.policy
      /\ u.normal_prio = e.normal_prio /\ u.rt_priority = e.rt_priority
      /\ u.static_prio = e.static_prio /\ u.pi_prio = e.pi_prio /\ u.phase = e.phase
      /\ u.on_rq = e.on_rq /\ u.weight = e.weight /\ u.custom_weight = e.custom_weight
      /\ u.group = e.group /\ u.time_slice = e.time_slice /\ u.state = e.state
  BY <1>0, <1>1 DEF TaskStruct
<1> HIDE DEF u
<1>4. TaskOK(u)
  <2>1. Accounted(u)
    BY <1>0, <1>3 DEF TaskOK, Accounted, sleeping
  <2> QED BY <1>0, <1>3, <2>1, TaskFrame
<1>6. ts[curr] = u
  BY <1>0
<1> HIDE DEF ts
<1>7. rq' = rq \/ rq' = requeue_task_rt(rq, curr, e)
  BY DEF TickRt
<1>8. RqOK(requeue_task_rt(rq, curr, e), task, on_rq(task))
  <2>1. curr \in on_rq(task) /\ on_rq(task) \in SUBSET Task
    BY <1>0 DEF on_rq
  <2>2. e.prio \in RtPrio
    BY <1>0, RtClassPrio DEF TaskOK
  <2> QED BY <1>0, <2>1, <2>2, RequeueRt
<1>9. Good(ts, rq', {})
  <2>1. Good(task, rq', {})
    BY <1>0, <1>7, <1>8 DEF Good
  <2>2. Good([task EXCEPT ![curr] = u], rq', {} \ {curr})
    BY <1>0, <1>3, <1>4, <2>1, GoodReplace
  <2> QED BY <2>2 DEF ts
<1>10. curr' = curr /\ need_resched' \in BOOLEAN
  BY Resched DEF TickRt
<1> QED BY <1>2, <1>3, <1>6, <1>9, <1>10, Stays

LEMMA StepTickFair ==
  ASSUME IndInv, TickFair
  PROVE  IndInv'
<1>1. need_resched' \in BOOLEAN
  BY Resched DEF TickFair
<1> QED BY <1>1, Now, Stays DEF TickFair

LEMMA StepTryToWakeUp ==
  ASSUME IndInv, NEW t \in Task, TryToWakeUp(t)
  PROVE  IndInv'
<1>0. Good(task, rq, {}) /\ task \in [Task -> TaskStruct]
  BY Now
<1>1. Good(task', rq', {})
  BY <1>0, GoodWake DEF TryToWakeUp
<1>2. need_resched' \in BOOLEAN /\ curr' = curr
  BY Resched DEF TryToWakeUp
<1>3. curr # Idle => task'[curr].on_rq = task[curr].on_rq
  <2> SUFFICES ASSUME curr # Idle PROVE task'[curr].on_rq = task[curr].on_rq
    OBVIOUS
  <2>1. curr \in Task /\ task[curr].on_rq /\ task[curr] \in TaskStruct
    BY Now DEF TaskOK
  <2>2. CASE t # curr
    BY <1>0, <2>1, <2>2 DEF TryToWakeUp
  <2>3. CASE t = curr
    BY <1>0, <2>1, <2>3 DEF TryToWakeUp, ttwu_do_wakeup, activated, TaskStruct
  <2> QED BY <2>2, <2>3
<1> QED BY <1>1, <1>2, <1>3, Stays

LEMMA StepSchedFork ==
  ASSUME IndInv, NEW t \in Task, SchedFork(t)
  PROVE  IndInv'
<1>0. /\ Good(task, rq, {}) /\ task \in [Task -> TaskStruct]
      /\ curr \in Task /\ task[curr].on_rq /\ TaskOK(task[curr]) /\ TaskOK(task[t])
  BY Now DEF SchedFork, running_task, Good
<1>1. ~task[t].on_rq /\ t # curr
  BY <1>0 DEF SchedFork, TaskOK, Accounted
<1> DEFINE e == child_of(task[curr])
<1>2. TaskOK(e) /\ ~e.on_rq
  BY <1>0, ChildOf DEF TaskOK
<1> HIDE DEF e
<1>3. task' = [task EXCEPT ![t] = e] /\ rq' = rq /\ curr' = curr /\ need_resched' = need_resched
  BY DEF SchedFork, e
<1>4. Good([task EXCEPT ![t] = e], rq, {} \ {t})
  <2>1. e.on_rq = FALSE /\ task[t].on_rq = FALSE
    BY <1>0, <1>1, <1>2 DEF TaskOK, TaskStruct
  <2> QED BY <1>0, <1>2, <2>1, GoodReplace
<1>5. task'[curr] = task[curr]
  BY <1>0, <1>1, <1>3
<1> QED BY <1>3, <1>4, <1>5, Now, Stays

LEMMA StepWakeUpNewTask ==
  ASSUME IndInv, NEW t \in Task, WakeUpNewTask(t)
  PROVE  IndInv'
<1> DEFINE e == [queued(wrr_set_weight(task[t])) EXCEPT !.on_rq = TRUE,
                                                   !.phase = "live", !.parent = Idle]
<1>0. /\ Good(task, rq, {}) /\ task \in [Task -> TaskStruct]
      /\ curr \in Task /\ task[curr].on_rq /\ TaskOK(task[t]) /\ task[t].phase = "forked"
  BY Now DEF WakeUpNewTask, running_task, Good
<1>1. ~task[t].on_rq /\ t # curr
  BY <1>0 DEF TaskOK, Accounted
<1>2. TaskOK(e) /\ e.on_rq
  BY <1>0, NewTask
<1>3. task' = [task EXCEPT ![t] = e] /\ rq' = activate_task(rq, t, e) /\ curr' = curr
  BY DEF WakeUpNewTask
<1>4. need_resched' \in BOOLEAN
  BY Resched DEF WakeUpNewTask
<1> HIDE DEF e
<1>5. Good(task', rq', {})
  BY <1>0, <1>1, <1>2, <1>3, GoodActivate
<1>6. task'[curr] = task[curr]
  BY <1>0, <1>1, <1>3
<1> QED BY <1>3, <1>4, <1>5, <1>6, Stays

LEMMA StepSetscheduler ==
  ASSUME IndInv, NEW t \in Task, NEW policy \in Policy, NEW prio \in SchedPriority,
         NEW reset \in ResetOnFork, SchedSetscheduler(t, policy, prio, reset)
  PROVE  IndInv'
<1> DEFINE o == [task[t] EXCEPT !.reset_on_fork = reset]
           e == setscheduler(o, policy, prio)
<1>0. Good(task, rq, {}) /\ task \in [Task -> TaskStruct] /\ TaskOK(task[t])
      /\ task[t] \in TaskStruct
  BY Now DEF Good, TaskOK
<1>1. /\ o \in TaskStruct /\ o.phase = task[t].phase /\ o.state = task[t].state
      /\ o.on_rq = task[t].on_rq /\ o.custom_weight = task[t].custom_weight
      /\ o.weight = task[t].weight /\ o.pi_prio = task[t].pi_prio
  <2>1. reset \in BOOLEAN
    BY CoreAssumption
  <2> QED BY <1>0, <2>1 DEF TaskStruct
<1>2. PrivateOK(o)
  BY <1>0, <1>1 DEF TaskOK, PrivateOK
<1>3. change_task(t, e, FALSE) /\ curr' = curr
  BY DEF SchedSetscheduler
<1>4. need_resched' \in BOOLEAN
  BY Resched DEF SchedSetscheduler
<1> HIDE DEF o
<1>5. /\ e \in TaskStruct /\ ClassOK(e) /\ PrivateOK(e)
      /\ e.phase = o.phase /\ e.state = o.state /\ e.on_rq = o.on_rq
  BY <1>1, <1>2, Setscheduler
<1> HIDE DEF e
<1>6. Accounted(e) /\ e.on_rq = task[t].on_rq
  BY <1>0, <1>1, <1>5 DEF TaskOK, Accounted, sleeping
<1>7. Good(task', rq', {}) /\ \A c \in Task : task'[c].on_rq = task[c].on_rq
  BY <1>0, <1>3, <1>5, <1>6, GoodChange
<1> QED BY <1>3, <1>4, <1>7, Now, Stays

LEMMA StepRtMutexSetprio ==
  ASSUME IndInv, NEW t \in Task, NEW waiter \in BoostPrio \cup {MAX_PRIO},
         RtMutexSetprio(t, waiter)
  PROVE  IndInv'
<1> DEFINE o == task[t]
           b == [o EXCEPT !.pi_prio = waiter]
           n == [b EXCEPT !.prio = rt_mutex_getprio(b)]
           e == [n EXCEPT !.class = class_of(n.prio, n.policy)]
<1>0. /\ Good(task, rq, {}) /\ task \in [Task -> TaskStruct] /\ TaskOK(o) /\ o \in TaskStruct
      /\ o.phase = "live"
  BY Now DEF Good, TaskOK, RtMutexSetprio
<1>1. waiter \in 0..MAX_PRIO
  BY CoreAssumption
<1>2. /\ b \in TaskStruct /\ b.pi_prio = waiter
      /\ b.class = o.class /\ b.prio = o.prio /\ b.policy = o.policy
      /\ b.normal_prio = o.normal_prio /\ b.rt_priority = o.rt_priority
      /\ b.static_prio = o.static_prio /\ b.phase = o.phase
      /\ b.on_rq = o.on_rq /\ b.weight = o.weight /\ b.custom_weight = o.custom_weight
      /\ b.group = o.group /\ b.time_slice = o.time_slice /\ b.state = o.state
  BY <1>0, <1>1 DEF TaskStruct
<1>3. b.normal_prio = normal_prio(b) /\ PrivateOK(b) /\ Accounted(b)
  BY <1>0, <1>2 DEF TaskOK, ClassOK, normal_prio, PrivateOK, Accounted, sleeping
<1>4. \/ /\ rt_mutex_getprio(b) = o.prio
         /\ task' = [task EXCEPT ![t] = b] /\ rq' = rq /\ need_resched' = need_resched
      \/ change_task(t, e, o.prio < e.prio) /\ need_resched' \in BOOLEAN
  <2>1. CASE rt_mutex_getprio(b) = o.prio
    BY <2>1 DEF RtMutexSetprio
  <2>2. CASE rt_mutex_getprio(b) # o.prio
    BY <2>2, Resched DEF RtMutexSetprio
  <2> QED BY <2>1, <2>2
<1>5. curr' = curr
  BY DEF RtMutexSetprio
<1>6. CASE /\ rt_mutex_getprio(b) = o.prio
           /\ task' = [task EXCEPT ![t] = b] /\ rq' = rq /\ need_resched' = need_resched
  <2> HIDE DEF b
  <2>1. ClassOK(b)
    BY <1>0, <1>2, <1>3, <1>6 DEF TaskOK, ClassOK
  <2>2. b.on_rq => SliceOK(b) /\ WeightOK(b)
    BY <1>0, <1>2 DEF TaskOK, SliceOK, WeightOK
  <2>3. TaskOK(b)
    BY <1>2, <1>3, <2>1, <2>2 DEF TaskOK
  <2>4. Good([task EXCEPT ![t] = b], rq, {} \ {t})
    BY <1>0, <1>2, <2>3, GoodReplace
  <2>5. \A c \in Task : task'[c].on_rq = task[c].on_rq
    BY <1>0, <1>2, <1>6
  <2> QED BY <1>5, <1>6, <2>4, <2>5, Now, Stays
<1>7. CASE change_task(t, e, o.prio < e.prio) /\ need_resched' \in BOOLEAN
  <2> HIDE DEF b
  <2>1. n.prio = rt_mutex_getprio(b) /\ n.policy = b.policy
    BY <1>2 DEF TaskStruct
  <2>2. e = [b EXCEPT !.prio = rt_mutex_getprio(b),
                      !.class = class_of(rt_mutex_getprio(b), b.policy)]
    BY <1>2, <2>1 DEF TaskStruct
  <2>3. e \in TaskStruct /\ ClassOK(e) /\ PrivateOK(e)
    BY <1>2, <1>3, <2>2, SetClass
  <2>4. e.phase = b.phase /\ e.state = b.state /\ e.on_rq = b.on_rq
    BY <1>2, <2>2 DEF TaskStruct
  <2> HIDE DEF e
  <2>5. Accounted(e) /\ e.on_rq = task[t].on_rq
    BY <1>0, <1>2, <2>4 DEF TaskOK, Accounted, sleeping
  <2>6. Good(task', rq', {}) /\ \A d \in Task : task'[d].on_rq = task[d].on_rq
    <3> DEFINE head == o.prio < e.prio
    <3>1. head \in BOOLEAN /\ change_task(t, e, head)
      BY <1>7
    <3> HIDE DEF head
    <3> QED BY <1>0, <2>3, <2>5, <3>1, GoodChange
  <2> QED BY <1>5, <1>7, <2>6, Now, Stays
<1> QED BY <1>4, <1>6, <1>7

LEMMA StepSetUserNice ==
  ASSUME IndInv, NEW t \in Task, NEW nice \in StaticPrio, SetUserNice(t, nice)
  PROVE  IndInv'
<1> DEFINE o == task[t]
           s == [o EXCEPT !.static_prio = nice]
           e == [s EXCEPT !.normal_prio = normal_prio(s), !.prio = effective_prio(s)]
<1>0. Good(task, rq, {}) /\ task \in [Task -> TaskStruct] /\ TaskOK(o) /\ o \in TaskStruct
  BY Now DEF Good, TaskOK
<1>1. curr' = curr
  BY DEF SetUserNice
<1>2. CASE rt_policy(o.policy)
  <2>1. task' = [task EXCEPT ![t] = s] /\ rq' = rq /\ need_resched' = need_resched
    BY <1>2 DEF SetUserNice
  <2>2. /\ s \in TaskStruct
        /\ s.class = o.class /\ s.prio = o.prio /\ s.policy = o.policy
        /\ s.normal_prio = o.normal_prio /\ s.rt_priority = o.rt_priority
        /\ s.pi_prio = o.pi_prio /\ s.phase = o.phase
        /\ s.on_rq = o.on_rq /\ s.weight = o.weight /\ s.custom_weight = o.custom_weight
        /\ s.group = o.group /\ s.time_slice = o.time_slice /\ s.state = o.state
    BY <1>0 DEF TaskStruct
  <2> HIDE DEF s
  <2>3. ClassOK(s)
    BY <1>0, <1>2, <2>2 DEF TaskOK, ClassOK, normal_prio, rt_mutex_getprio
  <2>4. PrivateOK(s) /\ Accounted(s) /\ (s.on_rq => SliceOK(s) /\ WeightOK(s))
    BY <1>0, <2>2 DEF TaskOK, PrivateOK, Accounted, sleeping, SliceOK, WeightOK
  <2>5. TaskOK(s)
    BY <2>2, <2>3, <2>4 DEF TaskOK
  <2>6. Good([task EXCEPT ![t] = s], rq, {} \ {t})
    BY <1>0, <2>2, <2>5, GoodReplace
  <2>7. \A c \in Task : task'[c].on_rq = task[c].on_rq
    BY <1>0, <2>1, <2>2
  <2> QED BY <1>1, <2>1, <2>6, <2>7, Now, Stays
<1>3. CASE ~rt_policy(o.policy)
  <2>1. change_task(t, e, FALSE)
    BY <1>3 DEF SetUserNice
  <2>2. need_resched' \in BOOLEAN
    BY <1>3, Resched DEF SetUserNice
  <2>3. /\ e \in TaskStruct /\ ClassOK(e) /\ PrivateOK(e)
        /\ e.phase = o.phase /\ e.state = o.state /\ e.on_rq = o.on_rq
    <3>1. ClassOK(o) /\ PrivateOK(o)
      BY <1>0 DEF TaskOK
    <3> HIDE DEF o
    <3> QED BY <1>0, <1>3, <3>1, Renice, ZenonT(60)
  <2> HIDE DEF e
  <2>4. Accounted(e)
    BY <1>0, <2>3 DEF TaskOK, Accounted, sleeping
  <2>5. Good(task', rq', {}) /\ \A d \in Task : task'[d].on_rq = task[d].on_rq
    BY <1>0, <2>1, <2>3, <2>4, GoodChange
  <2> QED BY <1>1, <2>2, <2>5, Now, Stays
<1> QED BY <1>2, <1>3

LEMMA StepSchedMoveTask ==
  ASSUME IndInv, NEW t \in Task, NEW g \in Group, SchedMoveTask(t, g)
  PROVE  IndInv'
<1> DEFINE o == task[t]
           e == [o EXCEPT !.group = g]
<1>0. Good(task, rq, {}) /\ task \in [Task -> TaskStruct] /\ TaskOK(o) /\ o \in TaskStruct
  BY Now DEF Good, TaskOK
<1>1. change_task(t, e, FALSE) /\ curr' = curr /\ need_resched' = need_resched
  BY DEF SchedMoveTask
<1>2. /\ e \in TaskStruct
      /\ e.class = o.class /\ e.prio = o.prio /\ e.policy = o.policy
      /\ e.normal_prio = o.normal_prio /\ e.rt_priority = o.rt_priority
      /\ e.static_prio = o.static_prio /\ e.pi_prio = o.pi_prio /\ e.phase = o.phase
      /\ e.on_rq = o.on_rq /\ e.weight = o.weight /\ e.custom_weight = o.custom_weight
      /\ e.state = o.state
  BY <1>0 DEF TaskStruct
<1> HIDE DEF e
<1>3. ClassOK(e)
  BY <1>0, <1>2, ClassFrame DEF TaskOK
<1>4. PrivateOK(e) /\ Accounted(e)
  BY <1>0, <1>2 DEF TaskOK, PrivateOK, Accounted, sleeping
<1>5. Good(task', rq', {}) /\ \A d \in Task : task'[d].on_rq = task[d].on_rq
  BY <1>0, <1>1, <1>2, <1>3, <1>4, GoodChange
<1> QED BY <1>1, <1>5, Now, Stays

\* Every step preserves the inductive invariant.
LEMMA NextInv ==
  ASSUME IndInv, [Next]_vars
  PROVE  IndInv'
<1>1. CASE Schedule
  BY <1>1, StepSchedule
<1>2. CASE Preempt
  BY <1>2, StepPreempt
<1>3. CASE Yield
  BY <1>3, StepYield
<1>4. CASE Tick
  BY <1>4, StepTickWrr, StepTickRt, StepTickFair DEF Tick
<1>5. CASE \E s \in SleepState \cup {"R"} : SetCurrentState(s)
  BY <1>5, StepSetState
<1>6. CASE Exit
  BY <1>6, StepExit
<1>7. ASSUME NEW t \in Task, TryToWakeUp(t) \/ SchedFork(t) \/ WakeUpNewTask(t)
      PROVE  IndInv'
  BY <1>7, StepTryToWakeUp, StepSchedFork, StepWakeUpNewTask
<1>8. ASSUME NEW t \in Task, NEW policy \in Policy, NEW prio \in SchedPriority,
             NEW reset \in ResetOnFork, SchedSetscheduler(t, policy, prio, reset)
      PROVE  IndInv'
  BY <1>8, StepSetscheduler
<1>9. ASSUME NEW t \in Task, NEW waiter \in BoostPrio \cup {MAX_PRIO},
             RtMutexSetprio(t, waiter)
      PROVE  IndInv'
  BY <1>9, StepRtMutexSetprio
<1>10. ASSUME NEW t \in Task, NEW nice \in StaticPrio, SetUserNice(t, nice)
       PROVE  IndInv'
  BY <1>10, StepSetUserNice
<1>11. ASSUME NEW t \in Task, NEW g \in Group, SchedMoveTask(t, g)
       PROVE  IndInv'
  BY <1>11, StepSchedMoveTask
<1>12. CASE UNCHANGED vars
  <2>1. task' = task /\ rq' = rq /\ curr' = curr /\ need_resched' = need_resched
    BY <1>12 DEF vars
  <2> QED BY <2>1, Now, Stays
<1> QED BY <1>1, <1>2, <1>3, <1>4, <1>5, <1>6, <1>7, <1>8, <1>9, <1>10, <1>11, <1>12
     DEF Next

\* sched_init() leaves the boot task running, alone and in the fair class.
LEMMA InitInv ==
  ASSUME Init
  PROVE  IndInv
<1>0. BootTask \in Task /\ BootTask # Idle
  BY CoreAssumption
<1>1. /\ init_task \in TaskStruct /\ init_task.on_rq = TRUE /\ init_task.phase = "live"
      /\ init_task.class = "fair"
      /\ init_task.class = NoTask.class /\ init_task.prio = NoTask.prio
      /\ init_task.policy = NoTask.policy /\ init_task.normal_prio = NoTask.normal_prio
      /\ init_task.rt_priority = NoTask.rt_priority
      /\ init_task.static_prio = NoTask.static_prio
      /\ init_task.pi_prio = NoTask.pi_prio
  BY NoTaskOK, ZenonT(60) DEF init_task, TaskOK, TaskStruct, NoTask
<1>2. TaskOK(init_task)
  <2>1. ClassOK(init_task)
    <3>1. ClassOK(NoTask) /\ init_task.phase # "forked"
      BY <1>1, NoTaskOK DEF TaskOK
    <3> QED BY <1>1, <3>1, ClassFrame
  <2>2. Accounted(init_task) /\ PrivateOK(init_task)
    BY <1>1, NoTaskOK DEF Accounted, PrivateOK, TaskOK, init_task, NoTask
  <2>3. SliceOK(init_task) /\ WeightOK(init_task)
    BY <1>1 DEF SliceOK, WeightOK
  <2> QED BY <1>1, <2>1, <2>2, <2>3 DEF TaskOK
<1>3. \A t \in Task : task[t] = IF t = BootTask THEN init_task ELSE NoTask
  BY DEF Init
<1>4. task \in [Task -> TaskStruct] /\ \A t \in Task : TaskOK(task[t])
  BY <1>2, NoTaskOK DEF Init, TaskOK
<1>5. on_rq(task) = {BootTask}
  BY <1>0, <1>1, <1>3, NoTaskOK DEF on_rq
<1>6. /\ in_class(task, {BootTask}, "fair") = {BootTask}
      /\ in_class(task, {BootTask}, "wrr") = {}
      /\ in_class(task, {BootTask}, "rt") = {}
  BY <1>0, <1>1, <1>3 DEF in_class
<1>7. /\ rq.active = << >> /\ rq.wrr_nr_running = 0
      /\ rq.rt_queue = [b \in RtPrio |-> << >>] /\ rq.rt_bitmap = {} /\ rq.rt_nr_running = 0
      /\ rq.cfs_nr_running = 1 /\ rq.nr_running = 1
      /\ rq \in RunQueue
  BY DEF Init, RunQueue
<1>8. Cardinality({BootTask}) = 1 /\ Cardinality({}) = 0
  BY FS_Singleton, FS_EmptySet
<1>9. Entries(<< >>) = {} /\ Linked(<< >>) /\ Len(<< >>) = 0
  BY DEF Entries, Linked
<1>10. WrrQueueOK(rq, task, {BootTask})
  BY <1>6, <1>7, <1>9 DEF WrrQueueOK
<1>11. RtQueueOK(rq, task, {BootTask})
  BY <1>6, <1>7, <1>8, <1>9 DEF RtQueueOK
<1>12. CountersOK(rq, task, {BootTask})
  <2>1. rq.nr_running = rq.rt_nr_running + rq.wrr_nr_running + rq.cfs_nr_running
    BY <1>7
  <2> QED BY <1>6, <1>7, <1>8, <2>1, Zenon DEF CountersOK
<1>13. Good(task, rq, {})
  BY <1>4, <1>5, <1>7, <1>10, <1>11, <1>12 DEF Good, RqOK
<1>14. curr = BootTask /\ need_resched = FALSE
  BY DEF Init
<1> QED BY <1>0, <1>1, <1>3, <1>13, <1>14, IndInvGood

-----------------------------------------------------------------------------
(* total_weight and nr_uninterruptible as sums over the tasks.              *)

\* What a task adds to rq->total_weight and to rq->nr_uninterruptible.
QueuedWeight(e) == IF e.on_rq /\ e.class = "wrr" THEN e.weight ELSE 0

SleepingLoad(e) == IF e.on_rq THEN 0 ELSE contributes_to_load(e)

QueuedWeights(ts) == [t \in Task |-> QueuedWeight(ts[t])]

SleepingLoads(ts) == [t \in Task |-> SleepingLoad(ts[t])]

\* A task that does not live yet has not slept.
Starts(e) == e.phase # "live" => e.state = "R"

\* The strengthening of IndInv for the two totals.
Balanced(ts, r) ==
  /\ r.total_weight = SumFunctionOnSet(QueuedWeights(ts), Task)
  /\ r.nr_uninterruptible = SumFunctionOnSet(SleepingLoads(ts), Task)
  /\ \A t \in Task : Starts(ts[t])

LEMMA LoadTypes ==
  ASSUME NEW e \in TaskStruct
  PROVE  QueuedWeight(e) \in Int /\ SleepingLoad(e) \in {0, 1} /\ SleepingLoad(e) \in Int
         /\ contributes_to_load(e) \in Int
BY DEF TaskStruct, QueuedWeight, SleepingLoad, contributes_to_load

\* SumUpdate for the tasks.
LEMMA TaskSum ==
  ASSUME NEW f, NEW g, NEW t \in Task, \A u \in Task : f[u] \in Int, g[t] \in Int,
         \A u \in Task \ {t} : g[u] = f[u]
  PROVE  SumFunctionOnSet(g, Task) = SumFunctionOnSet(f, Task) - f[t] + g[t]
<1>1. IsFiniteSet(Task)
  BY CoreAssumption
<1> QED BY <1>1, SumUpdate

\* One task changes, and the totals by what it added before and adds now.
LEMMA BalancedReplace ==
  ASSUME NEW ts \in [Task -> TaskStruct], NEW r, Balanced(ts, r),
         NEW t \in Task, NEW e \in TaskStruct, Starts(e), NEW s,
         s.total_weight = r.total_weight - QueuedWeight(ts[t]) + QueuedWeight(e),
         s.nr_uninterruptible = r.nr_uninterruptible - SleepingLoad(ts[t]) + SleepingLoad(e)
  PROVE  Balanced([ts EXCEPT ![t] = e], s)
<1> DEFINE us == [ts EXCEPT ![t] = e]
<1>1. us[t] = e /\ \A u \in Task \ {t} : us[u] = ts[u]
  OBVIOUS
<1> HIDE DEF us
<1>2. SumFunctionOnSet(QueuedWeights(us), Task)
        = SumFunctionOnSet(QueuedWeights(ts), Task) - QueuedWeight(ts[t]) + QueuedWeight(e)
  <2> DEFINE f == QueuedWeights(ts)
             g == QueuedWeights(us)
  <2>1. \A u \in Task : f[u] \in Int
    BY LoadTypes DEF QueuedWeights
  <2>2. f[t] = QueuedWeight(ts[t]) /\ g[t] = QueuedWeight(e) /\ g[t] \in Int
    BY <1>1, LoadTypes DEF QueuedWeights
  <2>3. \A u \in Task \ {t} : g[u] = f[u]
    BY <1>1 DEF QueuedWeights
  <2> HIDE DEF f, g
  <2>4. SumFunctionOnSet(g, Task) = SumFunctionOnSet(f, Task) - f[t] + g[t]
    BY <2>1, <2>2, <2>3, TaskSum
  <2> QED BY <2>2, <2>4 DEF f, g
<1>3. SumFunctionOnSet(SleepingLoads(us), Task)
        = SumFunctionOnSet(SleepingLoads(ts), Task) - SleepingLoad(ts[t]) + SleepingLoad(e)
  <2> DEFINE f == SleepingLoads(ts)
             g == SleepingLoads(us)
  <2>1. \A u \in Task : f[u] \in Int
    BY LoadTypes DEF SleepingLoads
  <2>2. f[t] = SleepingLoad(ts[t]) /\ g[t] = SleepingLoad(e) /\ g[t] \in Int
    BY <1>1, LoadTypes DEF SleepingLoads
  <2>3. \A u \in Task \ {t} : g[u] = f[u]
    BY <1>1 DEF SleepingLoads
  <2> HIDE DEF f, g
  <2>4. SumFunctionOnSet(g, Task) = SumFunctionOnSet(f, Task) - f[t] + g[t]
    BY <2>1, <2>2, <2>3, TaskSum
  <2> QED BY <2>2, <2>4 DEF f, g
<1>4. \A u \in Task : Starts(us[u])
  BY <1>1 DEF Balanced
<1> QED BY <1>2, <1>3, <1>4 DEF Balanced, us

\* A task that adds as much as before.
LEMMA BalancedFrame ==
  ASSUME NEW ts \in [Task -> TaskStruct], NEW r \in RunQueue, Balanced(ts, r),
         NEW t \in Task, NEW e \in TaskStruct, Starts(e),
         QueuedWeight(e) = QueuedWeight(ts[t]), SleepingLoad(e) = SleepingLoad(ts[t])
  PROVE  Balanced([ts EXCEPT ![t] = e], r)
<1>1. r.total_weight \in Int /\ r.nr_uninterruptible \in Int
  BY DEF RunQueue
<1>2. QueuedWeight(e) \in Int /\ SleepingLoad(e) \in Int
  BY LoadTypes
<1>3. /\ r.total_weight = r.total_weight - QueuedWeight(ts[t]) + QueuedWeight(e)
      /\ r.nr_uninterruptible = r.nr_uninterruptible - SleepingLoad(ts[t]) + SleepingLoad(e)
  BY <1>1, <1>2
<1> QED BY <1>3, BalancedReplace

\* What enqueue_task() and dequeue_task() do to the totals.
ClassWeight(e) == IF e.class = "wrr" THEN e.weight ELSE 0

RtOne(e) == IF e.class = "rt" THEN 1 ELSE 0

LEMMA EnqueueTotals ==
  ASSUME NEW r \in RunQueue, NEW t, NEW e \in TaskStruct, NEW head \in BOOLEAN
  PROVE  /\ enqueue_task(r, t, e, head).total_weight = r.total_weight + ClassWeight(e)
         /\ enqueue_task(r, t, e, head).nr_uninterruptible = r.nr_uninterruptible
         /\ enqueue_task(r, t, e, head).rt_nr_running = r.rt_nr_running + RtOne(e)
<1> DEFINE d == enqueue_task(r, t, e, head)
<1>0. r.total_weight \in Int /\ r.rt_nr_running \in Int
  BY DEF RunQueue
<1>1. CASE e.class = "wrr"
  <2>1. d = enqueue_task_wrr(r, t, e, head)
    BY <1>1 DEF enqueue_task
  <2>2. /\ d.total_weight = r.total_weight + e.weight
        /\ d.nr_uninterruptible = r.nr_uninterruptible /\ d.rt_nr_running = r.rt_nr_running
    BY <2>1 DEF enqueue_task_wrr, RunQueue
  <2> QED BY <1>0, <1>1, <2>2 DEF ClassWeight, RtOne
<1>2. CASE e.class = "rt"
  <2>1. d = enqueue_task_rt(r, t, e, head)
    BY <1>2 DEF enqueue_task
  <2>2. /\ d.total_weight = r.total_weight /\ d.nr_uninterruptible = r.nr_uninterruptible
        /\ d.rt_nr_running = r.rt_nr_running + 1
    BY <2>1 DEF enqueue_task_rt, RunQueue
  <2> QED BY <1>0, <1>2, <2>2 DEF ClassWeight, RtOne
<1>3. CASE e.class = "fair"
  <2>1. d = [r EXCEPT !.cfs_nr_running = @ + 1, !.nr_running = @ + 1]
    BY <1>3 DEF enqueue_task
  <2>2. /\ d.total_weight = r.total_weight /\ d.nr_uninterruptible = r.nr_uninterruptible
        /\ d.rt_nr_running = r.rt_nr_running
    BY <2>1 DEF RunQueue
  <2> QED BY <1>0, <1>3, <2>2 DEF ClassWeight, RtOne
<1> QED BY <1>1, <1>2, <1>3 DEF TaskStruct

LEMMA DequeueTotals ==
  ASSUME NEW r \in RunQueue, NEW t, NEW e \in TaskStruct
  PROVE  /\ dequeue_task(r, t, e).total_weight = r.total_weight - ClassWeight(e)
         /\ dequeue_task(r, t, e).nr_uninterruptible = r.nr_uninterruptible
         /\ dequeue_task(r, t, e).rt_nr_running = r.rt_nr_running - RtOne(e)
<1> DEFINE d == dequeue_task(r, t, e)
<1>0. r.total_weight \in Int /\ r.rt_nr_running \in Int
  BY DEF RunQueue
<1>1. CASE e.class = "wrr"
  <2>1. d = dequeue_task_wrr(r, t, e)
    BY <1>1 DEF dequeue_task
  <2>2. /\ d.total_weight = r.total_weight - e.weight
        /\ d.nr_uninterruptible = r.nr_uninterruptible /\ d.rt_nr_running = r.rt_nr_running
    BY <2>1 DEF dequeue_task_wrr, RunQueue
  <2> QED BY <1>0, <1>1, <2>2 DEF ClassWeight, RtOne
<1>2. CASE e.class = "rt"
  <2>1. d = dequeue_task_rt(r, t, e)
    BY <1>2 DEF dequeue_task
  <2>2. /\ d.total_weight = r.total_weight /\ d.nr_uninterruptible = r.nr_uninterruptible
        /\ d.rt_nr_running = r.rt_nr_running - 1
    BY <2>1 DEF dequeue_task_rt, RunQueue
  <2> QED BY <1>0, <1>2, <2>2 DEF ClassWeight, RtOne
<1>3. CASE e.class = "fair"
  <2>1. d = [r EXCEPT !.cfs_nr_running = @ - 1, !.nr_running = @ - 1]
    BY <1>3 DEF dequeue_task
  <2>2. /\ d.total_weight = r.total_weight /\ d.nr_uninterruptible = r.nr_uninterruptible
        /\ d.rt_nr_running = r.rt_nr_running
    BY <2>1 DEF RunQueue
  <2> QED BY <1>0, <1>3, <2>2 DEF ClassWeight, RtOne
<1> QED BY <1>1, <1>2, <1>3 DEF TaskStruct

-----------------------------------------------------------------------------

\* activate_task(), the task's record and on_rq set with it.
LEMMA BalancedActivate ==
  ASSUME NEW ts \in [Task -> TaskStruct], NEW r \in RunQueue, Balanced(ts, r),
         NEW t \in Task, ~ts[t].on_rq, NEW e \in TaskStruct, e.on_rq, Starts(e),
         e.state = ts[t].state
  PROVE  Balanced([ts EXCEPT ![t] = e], activate_task(r, t, e))
<1> DEFINE l == [r EXCEPT !.nr_uninterruptible = @ - contributes_to_load(e)]
           s == enqueue_task(l, t, e, FALSE)
<1>0. r.total_weight \in Int /\ r.nr_uninterruptible \in Int /\ contributes_to_load(e) \in Int
  BY LoadTypes DEF RunQueue
<1>1. /\ l \in RunQueue /\ l.total_weight = r.total_weight
      /\ l.nr_uninterruptible = r.nr_uninterruptible - contributes_to_load(e)
  <2>1. r.nr_uninterruptible - contributes_to_load(e) \in Int
    BY <1>0
  <2> QED BY <2>1 DEF RunQueue
<1>2. activate_task(r, t, e) = s
  BY DEF activate_task
<1> HIDE DEF l
<1>3. /\ s.total_weight = l.total_weight + ClassWeight(e)
      /\ s.nr_uninterruptible = l.nr_uninterruptible
  BY <1>1, EnqueueTotals
<1> HIDE DEF s
<1>4. /\ QueuedWeight(ts[t]) = 0 /\ QueuedWeight(e) = ClassWeight(e)
      /\ SleepingLoad(ts[t]) = contributes_to_load(e) /\ SleepingLoad(e) = 0
      /\ ClassWeight(e) \in Int
  BY DEF QueuedWeight, ClassWeight, SleepingLoad, contributes_to_load, TaskStruct
<1>5. /\ s.total_weight = r.total_weight - QueuedWeight(ts[t]) + QueuedWeight(e)
      /\ s.nr_uninterruptible = r.nr_uninterruptible - SleepingLoad(ts[t]) + SleepingLoad(e)
  BY <1>0, <1>1, <1>3, <1>4
<1>6. Balanced([ts EXCEPT ![t] = e], s)
  BY <1>5, BalancedReplace, ZenonT(60)
<1> QED BY <1>2, <1>6

\* deactivate_task() and on_rq cleared.
LEMMA BalancedDeactivate ==
  ASSUME NEW ts \in [Task -> TaskStruct], NEW r \in RunQueue, Balanced(ts, r),
         NEW t \in Task, ts[t].on_rq
  PROVE  Balanced([ts EXCEPT ![t].on_rq = FALSE], deactivate_task(r, t, ts[t]))
<1> DEFINE e == ts[t]
           f == [e EXCEPT !.on_rq = FALSE]
           l == [r EXCEPT !.nr_uninterruptible = @ + contributes_to_load(e)]
           s == dequeue_task(l, t, e)
<1>0. /\ r.total_weight \in Int /\ r.nr_uninterruptible \in Int /\ e \in TaskStruct
      /\ contributes_to_load(e) \in Int
  BY LoadTypes DEF RunQueue
<1>1. /\ l \in RunQueue /\ l.total_weight = r.total_weight
      /\ l.nr_uninterruptible = r.nr_uninterruptible + contributes_to_load(e)
  <2>1. r.nr_uninterruptible + contributes_to_load(e) \in Int
    BY <1>0
  <2> QED BY <2>1 DEF RunQueue
<1>2. deactivate_task(r, t, e) = s
  BY DEF deactivate_task
<1> HIDE DEF l
<1>3. /\ s.total_weight = l.total_weight - ClassWeight(e)
      /\ s.nr_uninterruptible = l.nr_uninterruptible
  BY <1>0, <1>1, DequeueTotals
<1> HIDE DEF s
<1>4. /\ f \in TaskStruct /\ f.on_rq = FALSE /\ f.state = e.state /\ f.phase = e.phase
      /\ [ts EXCEPT ![t].on_rq = FALSE] = [ts EXCEPT ![t] = f]
  BY <1>0 DEF TaskStruct
<1> HIDE DEF f
<1>5. Starts(f)
  BY <1>4 DEF Starts, Balanced
<1>6. /\ QueuedWeight(e) = ClassWeight(e) /\ QueuedWeight(f) = 0
      /\ SleepingLoad(e) = 0 /\ SleepingLoad(f) = contributes_to_load(e)
      /\ ClassWeight(e) \in Int
  BY <1>0, <1>4 DEF QueuedWeight, ClassWeight, SleepingLoad, contributes_to_load, TaskStruct
<1>7. /\ s.total_weight = r.total_weight - QueuedWeight(ts[t]) + QueuedWeight(f)
      /\ s.nr_uninterruptible = r.nr_uninterruptible - SleepingLoad(ts[t]) + SleepingLoad(f)
  BY <1>0, <1>1, <1>3, <1>6
<1>8. Balanced([ts EXCEPT ![t] = f], s)
  <2>1. f \in TaskStruct
    BY <1>4
  <2> QED BY <1>5, <1>7, <2>1, BalancedReplace
<1> QED BY <1>2, <1>4, <1>8

\* The running task's state, and other fields outside the totals.
LEMMA BalancedQueued ==
  ASSUME NEW ts \in [Task -> TaskStruct], NEW r \in RunQueue, Balanced(ts, r),
         NEW t \in Task, ts[t].on_rq, NEW e \in TaskStruct, Starts(e),
         e.on_rq, e.class = ts[t].class, e.weight = ts[t].weight
  PROVE  Balanced([ts EXCEPT ![t] = e], r)
BY BalancedFrame DEF QueuedWeight, SleepingLoad

\* Only the totals of the run queue matter.
LEMMA BalancedTotals ==
  ASSUME NEW ts, NEW r, Balanced(ts, r), NEW s, s.total_weight = r.total_weight,
         s.nr_uninterruptible = r.nr_uninterruptible
  PROVE  Balanced(ts, s)
BY DEF Balanced

\* change_task()
LEMMA BalancedChange ==
  ASSUME Good(task, rq, {}), Balanced(task, rq), NEW t \in Task, NEW head \in BOOLEAN,
         NEW e \in TaskStruct, PrivateOK(e), e.on_rq = task[t].on_rq,
         e.phase = task[t].phase, e.state = task[t].state, change_task(t, e, head)
  PROVE  Balanced(task', rq')
<1> DEFINE o == task[t]
           u == changed(t, e)
<1>0. /\ task \in [Task -> TaskStruct] /\ o \in TaskStruct /\ rq \in RunQueue
      /\ rq.total_weight \in Int /\ rq.nr_uninterruptible \in Int
  BY DEF Good, RqOK, RunQueue
<1>1. task' = [task EXCEPT ![t] = u]
  BY DEF change_task
<1>2. /\ u \in TaskStruct /\ u.on_rq = o.on_rq /\ u.phase = o.phase /\ u.state = o.state
  <2>1. CASE o.on_rq
    <3> DEFINE q == queued(e)
    <3>1. u = q
      BY <2>1 DEF changed
    <3>2. PICK x, y \in Nat : q = [e EXCEPT !.weight = x, !.time_slice = y]
      BY Queued
    <3> HIDE DEF q
    <3>3. q \in TaskStruct /\ q.on_rq = e.on_rq /\ q.phase = e.phase /\ q.state = e.state
      BY <3>2 DEF TaskStruct
    <3> QED BY <3>1, <3>3
  <2>2. CASE ~o.on_rq
    BY <2>2 DEF changed
  <2> QED BY <2>1, <2>2
<1>3. Starts(u)
  BY <1>2 DEF Starts, Balanced
<1>4. CASE o.on_rq
  <2> DEFINE d == dequeue_task(rq, t, o)
             s == enqueue_task(d, t, u, head)
  <2>1. rq' = s
    BY <1>4 DEF change_task
  <2>2. d \in RunQueue
    <3>1. t \in on_rq(task) /\ on_rq(task) \in SUBSET Task
      BY <1>4 DEF on_rq
    <3>2. o.class = "rt" => o.prio \in RtPrio
      BY RtClassPrio DEF Good, TaskOK
    <3> QED BY <1>0, <3>1, <3>2, DequeueTask DEF Good, RqOK
  <2>3. /\ d.total_weight = rq.total_weight - ClassWeight(o)
        /\ d.nr_uninterruptible = rq.nr_uninterruptible
    BY <1>0, DequeueTotals
  <2> HIDE DEF d, u
  <2>4. /\ s.total_weight = d.total_weight + ClassWeight(u)
        /\ s.nr_uninterruptible = d.nr_uninterruptible
    BY <1>2, <2>2, EnqueueTotals
  <2> HIDE DEF s
  <2>5. /\ QueuedWeight(o) = ClassWeight(o) /\ QueuedWeight(u) = ClassWeight(u)
        /\ SleepingLoad(o) = 0 /\ SleepingLoad(u) = 0
        /\ ClassWeight(o) \in Int /\ ClassWeight(u) \in Int
    BY <1>0, <1>2, <1>4 DEF QueuedWeight, SleepingLoad, ClassWeight, TaskStruct
  <2>6. /\ s.total_weight = rq.total_weight - QueuedWeight(o) + QueuedWeight(u)
        /\ s.nr_uninterruptible = rq.nr_uninterruptible - SleepingLoad(o) + SleepingLoad(u)
    BY <1>0, <2>3, <2>4, <2>5
  <2>7. Balanced([task EXCEPT ![t] = u], s)
    BY <1>0, <1>2, <1>3, <2>6, BalancedReplace
  <2> QED BY <1>1, <2>1, <2>7
<1>5. CASE ~o.on_rq
  <2>1. rq' = rq
    BY <1>5 DEF change_task
  <2> HIDE DEF u
  <2>2. QueuedWeight(u) = QueuedWeight(o) /\ SleepingLoad(u) = SleepingLoad(o)
    BY <1>2, <1>5 DEF QueuedWeight, SleepingLoad, contributes_to_load
  <2>3. Balanced([task EXCEPT ![t] = u], rq)
    BY <1>0, <1>2, <1>3, <2>2, BalancedFrame
  <2> QED BY <1>1, <2>1, <2>3
<1> QED BY <1>4, <1>5

\* A wake-up.
LEMMA BalancedWake ==
  ASSUME NEW ts, NEW r, NEW dead, Good(ts, r, dead), NEW t \in Task, t \notin dead,
         sleeping(ts[t]), Balanced(ts, r)
  PROVE  Balanced([ts EXCEPT ![t] = ttwu_do_wakeup(ts[t])], ttwu_activate(r, t, ts[t]))
<1> DEFINE e == ts[t]
           a == activated(e)
           w == ttwu_do_wakeup(e)
           r2 == ttwu_activate(r, t, e)
<1>0. /\ e \in TaskStruct /\ ts \in [Task -> TaskStruct] /\ e.phase = "live"
      /\ r \in RunQueue /\ PrivateOK(e)
  BY DEF Good, TaskOK, sleeping, RqOK
<1>1. w = [a EXCEPT !.state = "R"]
  BY DEF ttwu_do_wakeup
<1>2. CASE e.on_rq
  <2>1. a = e /\ r2 = r
    BY <1>2 DEF activated, ttwu_activate
  <2>2. w \in TaskStruct /\ w.on_rq /\ w.class = e.class /\ w.weight = e.weight /\ w.state = "R"
    BY <1>0, <1>1, <1>2, <2>1 DEF TaskStruct
  <2> HIDE DEF w, r2
  <2>3. Balanced([ts EXCEPT ![t] = w], r)
    BY <1>0, <1>2, <2>2, BalancedQueued DEF Starts
  <2> QED BY <2>1, <2>3 DEF w, r2
<1>3. CASE ~e.on_rq
  <2> DEFINE q == queued(e)
             us == [ts EXCEPT ![t] = a]
  <2>1. PICK x, y \in Nat : q = [e EXCEPT !.weight = x, !.time_slice = y]
    BY <1>0, Queued
  <2>2. a = [q EXCEPT !.on_rq = TRUE] /\ r2 = activate_task(r, t, a)
    BY <1>3 DEF activated, ttwu_activate
  <2> HIDE DEF q
  <2>3. q \in TaskStruct /\ q.state = e.state /\ q.phase = e.phase
    BY <1>0, <2>1 DEF TaskStruct
  <2> HIDE DEF a, r2
  <2>4. a \in TaskStruct /\ a.on_rq = TRUE /\ a.state = e.state /\ a.phase = "live"
    BY <1>0, <2>2, <2>3 DEF TaskStruct
  <2>5. /\ w \in TaskStruct /\ w.on_rq = TRUE /\ w.class = a.class /\ w.weight = a.weight
        /\ w.state = "R"
    BY <1>1, <2>4 DEF TaskStruct
  <2> HIDE DEF w
  <2>6. Balanced(us, r2)
    <3>1. Starts(a)
      BY <2>4 DEF Starts
    <3> QED BY <1>0, <1>3, <2>2, <2>4, <3>1, BalancedActivate
  <2>7. us \in [Task -> TaskStruct] /\ us[t] = a /\ [us EXCEPT ![t] = w] = [ts EXCEPT ![t] = w]
    BY <1>0, <2>4
  <2>8. r2 \in RunQueue
    BY GoodWake DEF Good, RqOK, r2
  <2> HIDE DEF us
  <2>9. Balanced([us EXCEPT ![t] = w], r2)
    <3>1. Starts(w)
      BY <2>5 DEF Starts
    <3> QED BY <2>4, <2>5, <2>6, <2>7, <2>8, <3>1, BalancedQueued
  <2> QED BY <2>7, <2>9 DEF w, r2
<1> QED BY <1>2, <1>3

\* The switch: a task that has exited adds to neither total.
LEMMA BalancedSwitch ==
  ASSUME NEW ts \in [Task -> TaskStruct], NEW r \in RunQueue, Balanced(ts, r),
         \A t \in Task : t = curr /\ ts[t].state = "X" => ~ts[t].on_rq,
         switch_to_next(ts, r)
  PROVE  Balanced(task', rq')
<1>1. /\ task' = [t \in Task |-> IF t = curr /\ ts[t].state = "X" THEN NoTask ELSE ts[t]]
      /\ rq' = r
  BY DEF switch_to_next
<1>2. CASE curr \in Task /\ ts[curr].state = "X"
  <2>1. task' = [ts EXCEPT ![curr] = NoTask]
    BY <1>1, <1>2
  <2>2. NoTask \in TaskStruct /\ NoTask.state = "R" /\ ~NoTask.on_rq
    BY NoTaskOK DEF TaskOK, NoTask
  <2>3. QueuedWeight(NoTask) = QueuedWeight(ts[curr]) /\ SleepingLoad(NoTask) = SleepingLoad(ts[curr])
    BY <1>2, <2>2 DEF QueuedWeight, SleepingLoad, contributes_to_load
  <2>4. Starts(NoTask)
    BY <2>2 DEF Starts
  <2> QED BY <1>1, <1>2, <2>1, <2>2, <2>3, <2>4, BalancedFrame
<1>3. CASE ~(curr \in Task /\ ts[curr].state = "X")
  <2>1. task' = ts
    BY <1>1, <1>3
  <2> QED BY <1>1, <2>1
<1> QED BY <1>2, <1>3

LEMMA SchedFrame ==
  ASSUME IndInv, Balanced(task, rq)
  PROVE  /\ Good(task, rq, {}) /\ task \in [Task -> TaskStruct] /\ rq \in RunQueue
         /\ \A t \in Task : task[t] \in TaskStruct /\ Starts(task[t]) /\ TaskOK(task[t])
         /\ curr # Idle => curr \in Task /\ task[curr].on_rq /\ task[curr].phase = "live"
BY Now DEF Good, RqOK, TaskOK, Balanced, Accounted

LEMMA BalanceSchedule ==
  ASSUME IndInv, Balanced(task, rq), Schedule
  PROVE  Balanced(task', rq')
<1> DEFINE e == task[curr]
<1>0. /\ Good(task, rq, {}) /\ task \in [Task -> TaskStruct] /\ rq \in RunQueue
      /\ curr \in Task /\ e.on_rq /\ e \in TaskStruct /\ e.phase = "live"
  BY SchedFrame DEF Schedule
<1>1. CASE e.state = "R" /\ switch_to_next(task, rq)
  BY <1>0, <1>1, BalancedSwitch
<1>2. CASE e.state = "S" /\ switch_to_next([task EXCEPT ![curr].state = "R"], rq)
  <2> DEFINE u == [e EXCEPT !.state = "R"]
             ts == [task EXCEPT ![curr] = u]
  <2>1. /\ u \in TaskStruct /\ u.state = "R" /\ u.on_rq /\ u.class = e.class
        /\ u.weight = e.weight
    BY <1>0 DEF TaskStruct
  <2>2. switch_to_next(ts, rq)
    BY <1>0, <1>2
  <2> HIDE DEF u
  <2>3. ts \in [Task -> TaskStruct] /\ ts[curr] = u
    BY <1>0, <2>1
  <2>4. Balanced(ts, rq)
    BY <1>0, <2>1, BalancedQueued DEF Starts
  <2> HIDE DEF ts
  <2> QED BY <1>0, <2>1, <2>2, <2>3, <2>4, BalancedSwitch
<1>3. ASSUME e.state # "R"
      PROVE  LET ts == [task EXCEPT ![curr].on_rq = FALSE]
                 r == deactivate_task(rq, curr, e)
             IN  (\/ switch_to_next(ts, r)
                  \/ \E w \in Worker \ {curr} :
                       /\ sleeping(ts[w])
                       /\ switch_to_next([ts EXCEPT ![w] = ttwu_do_wakeup(ts[w])],
                                         ttwu_activate(r, w, ts[w])))
                 => Balanced(task', rq')
  <2> DEFINE ts == [task EXCEPT ![curr].on_rq = FALSE]
             r == deactivate_task(rq, curr, e)
             dead == IF e.state = "X" THEN {curr} ELSE {}
  <2>1. Good(ts, r, dead)
    BY <1>0, <1>3, GoodDeactivate
  <2>2. ~ts[curr].on_rq /\ dead \subseteq {curr}
    BY <1>0 DEF TaskStruct
  <2>3. Balanced(ts, r)
    BY <1>0, BalancedDeactivate
  <2> HIDE DEF ts, r, dead
  <2>4. ASSUME switch_to_next(ts, r) PROVE Balanced(task', rq')
    BY <2>1, <2>2, <2>3, <2>4, BalancedSwitch DEF Good, RqOK
  <2>5. ASSUME NEW w \in Worker \ {curr}, sleeping(ts[w]),
               switch_to_next([ts EXCEPT ![w] = ttwu_do_wakeup(ts[w])],
                              ttwu_activate(r, w, ts[w]))
        PROVE  Balanced(task', rq')
    <3> DEFINE us == [ts EXCEPT ![w] = ttwu_do_wakeup(ts[w])]
               r2 == ttwu_activate(r, w, ts[w])
    <3>1. w \in Task /\ w \notin dead /\ w # curr
      BY <2>2, CoreAssumption
    <3>2. Good(us, r2, dead)
      BY <2>1, <2>5, <3>1, GoodWake
    <3>3. us[curr] = ts[curr]
      BY <2>1, <3>1 DEF Good
    <3>4. Balanced(us, r2)
      BY <2>1, <2>3, <2>5, <3>1, BalancedWake
    <3> HIDE DEF us, r2
    <3>5. switch_to_next(us, r2)
      BY <2>5 DEF us, r2
    <3> QED BY <2>2, <3>2, <3>3, <3>4, <3>5, BalancedSwitch DEF Good, RqOK
  <2> QED BY <2>4, <2>5 DEF ts, r
<1> QED BY <1>1, <1>2, <1>3 DEF Schedule

LEMMA BalancePreempt ==
  ASSUME IndInv, Balanced(task, rq), Preempt
  PROVE  Balanced(task', rq')
<1>1. \A t \in Task : t = curr /\ task[t].state = "X" => ~task[t].on_rq
  BY SchedFrame, CoreAssumption DEF Preempt
<1>2. switch_to_next(task, rq)
  BY DEF Preempt
<1> QED BY <1>1, <1>2, SchedFrame, BalancedSwitch

\* Moving an entry of a queue changes no total.
LEMMA RequeueTotals ==
  ASSUME NEW r \in RunQueue, NEW t, NEW e
  PROVE  /\ yield_task_wrr(r, t).total_weight = r.total_weight
         /\ yield_task_wrr(r, t).nr_uninterruptible = r.nr_uninterruptible
         /\ requeue_task_rt(r, t, e).total_weight = r.total_weight
         /\ requeue_task_rt(r, t, e).nr_uninterruptible = r.nr_uninterruptible
BY DEF yield_task_wrr, requeue_task_rt, RunQueue

LEMMA BalanceYield ==
  ASSUME IndInv, Balanced(task, rq), Yield
  PROVE  Balanced(task', rq')
<1>1. PICK r : /\ r \in {rq, yield_task_wrr(rq, curr), requeue_task_rt(rq, curr, task[curr])}
               /\ switch_to_next(task, r)
  BY DEF Yield
<1>2. r.total_weight = rq.total_weight /\ r.nr_uninterruptible = rq.nr_uninterruptible
  BY <1>1, SchedFrame, RequeueTotals
<1>3. Balanced(task, r)
  BY <1>2, BalancedTotals
<1>4. task' = task /\ rq' = r
  <2>1. /\ task' = [t \in Task |-> IF t = curr /\ task[t].state = "X" THEN NoTask ELSE task[t]]
        /\ rq' = r
    BY <1>1 DEF switch_to_next
  <2>2. task[curr].state = "R"
    BY DEF Yield, running_task
  <2> QED BY <2>1, <2>2, SchedFrame
<1> QED BY <1>3, <1>4

LEMMA BalanceSetState ==
  ASSUME IndInv, Balanced(task, rq), NEW s \in {"R", "S", "D", "X"}, curr # Idle,
         task' = [task EXCEPT ![curr].state = s], rq' = rq
  PROVE  Balanced(task', rq')
<1> DEFINE e == task[curr]
           u == [e EXCEPT !.state = s]
<1>0. /\ task \in [Task -> TaskStruct] /\ rq \in RunQueue
      /\ curr \in Task /\ e.on_rq /\ e \in TaskStruct /\ e.phase = "live"
  BY SchedFrame
<1>1. /\ u \in TaskStruct /\ u.phase = "live" /\ u.on_rq /\ u.class = e.class
      /\ u.weight = e.weight
  BY <1>0 DEF TaskStruct
<1>2. task' = [task EXCEPT ![curr] = u]
  BY <1>0
<1> HIDE DEF u
<1>3. Balanced([task EXCEPT ![curr] = u], rq)
  BY <1>0, <1>1, BalancedQueued DEF Starts
<1> QED BY <1>2, <1>3

LEMMA BalanceTick ==
  ASSUME IndInv, Balanced(task, rq), Tick
  PROVE  Balanced(task', rq')
<1> DEFINE e == task[curr]
<1>1. ASSUME TickWrr PROVE Balanced(task', rq')
  <2> DEFINE s == tick_slice_wrr(e)
             u == [e EXCEPT !.time_slice = s]
  <2>0. /\ task \in [Task -> TaskStruct] /\ rq \in RunQueue /\ e.phase = "live"
        /\ curr \in Task /\ e.on_rq /\ e \in TaskStruct
    <3>1. curr # Idle
      BY <1>1 DEF TickWrr, curr_of, idle_task, NoTask
    <3> QED BY <3>1, SchedFrame
  <2>1. task' = [task EXCEPT ![curr] = u] /\ rq' \in {rq, yield_task_wrr(rq, curr)}
    BY <1>1, <2>0 DEF TickWrr
  <2>2. /\ u.on_rq = e.on_rq /\ u.class = e.class /\ u.weight = e.weight /\ u.phase = e.phase
    BY <2>0 DEF TaskStruct
  <2>3. u \in TaskStruct
    <3>1. task'[curr] \in TaskStruct
      BY <1>1, <2>0, StepTickWrr DEF IndInv, TypeOK
    <3> QED BY <2>0, <2>1, <3>1
  <2> HIDE DEF u
  <2>4. Balanced(task', rq)
    BY <2>0, <2>1, <2>2, <2>3, BalancedQueued DEF Starts
  <2>5. rq'.total_weight = rq.total_weight /\ rq'.nr_uninterruptible = rq.nr_uninterruptible
    BY <2>0, <2>1, RequeueTotals
  <2> QED BY <2>4, <2>5, BalancedTotals
<1>2. ASSUME TickRt PROVE Balanced(task', rq')
  <2> DEFINE s == tick_slice_rt(e)
             u == [e EXCEPT !.rt_time_slice = s]
  <2>0. /\ task \in [Task -> TaskStruct] /\ rq \in RunQueue /\ e.phase = "live"
        /\ curr \in Task /\ e.on_rq /\ e \in TaskStruct
    <3>1. curr # Idle
      BY <1>2 DEF TickRt, curr_of, idle_task, NoTask
    <3> QED BY <3>1, SchedFrame
  <2>1. task' = [task EXCEPT ![curr] = u] /\ rq' \in {rq, requeue_task_rt(rq, curr, e)}
    BY <1>2, <2>0 DEF TickRt
  <2>2. /\ u.on_rq = e.on_rq /\ u.class = e.class /\ u.weight = e.weight /\ u.phase = e.phase
    BY <2>0 DEF TaskStruct
  <2>3. u \in TaskStruct
    <3>1. task'[curr] \in TaskStruct
      BY <1>2, <2>0, StepTickRt DEF IndInv, TypeOK
    <3> QED BY <2>0, <2>1, <3>1
  <2> HIDE DEF u
  <2>4. Balanced(task', rq)
    BY <2>0, <2>1, <2>2, <2>3, BalancedQueued DEF Starts
  <2>5. rq'.total_weight = rq.total_weight /\ rq'.nr_uninterruptible = rq.nr_uninterruptible
    BY <2>0, <2>1, RequeueTotals
  <2> QED BY <2>4, <2>5, BalancedTotals
<1>3. ASSUME TickFair PROVE Balanced(task', rq')
  BY <1>3 DEF TickFair
<1> QED BY <1>1, <1>2, <1>3 DEF Tick

LEMMA BalanceWakeUp ==
  ASSUME IndInv, Balanced(task, rq), NEW t \in Task, TryToWakeUp(t)
  PROVE  Balanced(task', rq')
<1> DEFINE dead == {}
<1>1. Good(task, rq, dead) /\ t \notin dead
  BY SchedFrame
<1>2. sleeping(task[t])
  BY DEF TryToWakeUp
<1>3. /\ task' = [task EXCEPT ![t] = ttwu_do_wakeup(task[t])]
      /\ rq' = ttwu_activate(rq, t, task[t])
  BY DEF TryToWakeUp
<1> HIDE DEF dead
<1>4. Balanced([task EXCEPT ![t] = ttwu_do_wakeup(task[t])], ttwu_activate(rq, t, task[t]))
  BY <1>1, <1>2, BalancedWake
<1> QED BY <1>3, <1>4

LEMMA BalanceFork ==
  ASSUME IndInv, Balanced(task, rq), NEW t \in Task, SchedFork(t)
  PROVE  Balanced(task', rq')
<1> DEFINE e == child_of(task[curr])
<1>0. /\ task \in [Task -> TaskStruct] /\ rq \in RunQueue /\ curr \in Task
      /\ TaskOK(task[curr]) /\ Accounted(task[t]) /\ Starts(task[t])
      /\ task[t].phase = "none" /\ task[t] \in TaskStruct
  BY SchedFrame DEF SchedFork, running_task, TaskOK
<1>1. task' = [task EXCEPT ![t] = e] /\ rq' = rq
  BY DEF SchedFork
<1>2. e \in TaskStruct /\ ~e.on_rq /\ e.state = "R"
  BY <1>0, ChildOf DEF TaskOK
<1> HIDE DEF e
<1>3. ~task[t].on_rq /\ task[t].state = "R"
  BY <1>0 DEF Accounted, Starts
<1>4. QueuedWeight(e) = QueuedWeight(task[t]) /\ SleepingLoad(e) = SleepingLoad(task[t])
  BY <1>2, <1>3 DEF QueuedWeight, SleepingLoad, contributes_to_load
<1>5. Starts(e)
  BY <1>2 DEF Starts
<1> QED BY <1>0, <1>1, <1>2, <1>4, <1>5, BalancedFrame

LEMMA BalanceNewTask ==
  ASSUME IndInv, Balanced(task, rq), NEW t \in Task, WakeUpNewTask(t)
  PROVE  Balanced(task', rq')
<1> DEFINE e == [queued(wrr_set_weight(task[t])) EXCEPT !.on_rq = TRUE,
                                                   !.phase = "live", !.parent = Idle]
<1>0. /\ task \in [Task -> TaskStruct] /\ rq \in RunQueue
      /\ TaskOK(task[t]) /\ task[t].phase = "forked"
  BY SchedFrame DEF WakeUpNewTask
<1>1. task' = [task EXCEPT ![t] = e] /\ rq' = activate_task(rq, t, e)
  BY DEF WakeUpNewTask
<1>2. e \in TaskStruct /\ e.on_rq /\ e.state = task[t].state /\ e.phase = "live"
  BY <1>0, NewTask DEF TaskOK
<1> HIDE DEF e
<1>3. ~task[t].on_rq /\ Starts(e)
  BY <1>0, <1>2 DEF TaskOK, Accounted, Starts
<1> QED BY <1>0, <1>1, <1>2, <1>3, BalancedActivate

LEMMA BalanceSetscheduler ==
  ASSUME IndInv, Balanced(task, rq), NEW t \in Task, NEW policy \in Policy,
         NEW prio \in SchedPriority, NEW reset \in ResetOnFork,
         SchedSetscheduler(t, policy, prio, reset)
  PROVE  Balanced(task', rq')
<1> DEFINE o == [task[t] EXCEPT !.reset_on_fork = reset]
           e == setscheduler(o, policy, prio)
<1>0. Good(task, rq, {}) /\ task[t] \in TaskStruct /\ TaskOK(task[t])
  BY SchedFrame
<1>1. /\ o \in TaskStruct /\ o.phase = task[t].phase /\ o.state = task[t].state
      /\ o.on_rq = task[t].on_rq /\ o.custom_weight = task[t].custom_weight
      /\ o.weight = task[t].weight /\ o.pi_prio = task[t].pi_prio
  <2>1. reset \in BOOLEAN
    BY CoreAssumption
  <2> QED BY <1>0, <2>1 DEF TaskStruct
<1>2. PrivateOK(o)
  BY <1>0, <1>1 DEF TaskOK, PrivateOK
<1>3. change_task(t, e, FALSE)
  BY DEF SchedSetscheduler
<1> HIDE DEF o
<1>4. /\ e \in TaskStruct /\ PrivateOK(e)
      /\ e.phase = o.phase /\ e.state = o.state /\ e.on_rq = o.on_rq
  BY <1>1, <1>2, Setscheduler
<1> HIDE DEF e
<1> QED BY <1>0, <1>1, <1>3, <1>4, BalancedChange

LEMMA BalanceSetprio ==
  ASSUME IndInv, Balanced(task, rq), NEW t \in Task, NEW waiter \in BoostPrio \cup {MAX_PRIO},
         RtMutexSetprio(t, waiter)
  PROVE  Balanced(task', rq')
<1> DEFINE o == task[t]
           b == [o EXCEPT !.pi_prio = waiter]
           n == [b EXCEPT !.prio = rt_mutex_getprio(b)]
           e == [n EXCEPT !.class = class_of(n.prio, n.policy)]
<1>0. /\ Good(task, rq, {}) /\ task \in [Task -> TaskStruct] /\ rq \in RunQueue
      /\ TaskOK(o) /\ o \in TaskStruct /\ Starts(o) /\ o.phase = "live"
  BY SchedFrame DEF RtMutexSetprio
<1>1. waiter \in 0..MAX_PRIO
  BY CoreAssumption
<1>2. /\ b \in TaskStruct /\ b.phase = o.phase /\ b.state = o.state /\ b.on_rq = o.on_rq
      /\ b.class = o.class /\ b.weight = o.weight /\ b.custom_weight = o.custom_weight
  BY <1>0, <1>1 DEF TaskStruct
<1>3. PrivateOK(b)
  BY <1>0, <1>2 DEF TaskOK, PrivateOK
<1> HIDE DEF b
<1>4. CASE rt_mutex_getprio(b) = o.prio
  <2>1. task' = [task EXCEPT ![t] = b] /\ rq' = rq
    BY <1>4 DEF RtMutexSetprio, b
  <2>2. QueuedWeight(b) = QueuedWeight(o) /\ SleepingLoad(b) = SleepingLoad(o) /\ Starts(b)
    BY <1>0, <1>2 DEF QueuedWeight, SleepingLoad, contributes_to_load, Starts
  <2> QED BY <1>0, <1>2, <2>1, <2>2, BalancedFrame
<1>5. CASE rt_mutex_getprio(b) # o.prio
  <2>1. change_task(t, e, o.prio < e.prio)
    BY <1>5 DEF RtMutexSetprio, b
  <2>2. rt_mutex_getprio(b) \in 0..(MAX_PRIO - 1) /\ \A p, q : class_of(p, q) \in {"rt", "wrr", "fair"}
    BY <1>2, GetPrio DEF class_of
  <2>3. /\ e \in TaskStruct /\ e.phase = b.phase /\ e.state = b.state /\ e.on_rq = b.on_rq
        /\ e.weight = b.weight /\ e.custom_weight = b.custom_weight /\ e.pi_prio = b.pi_prio
    BY <1>2, <2>2 DEF TaskStruct
  <2> HIDE DEF e
  <2>4. PrivateOK(e)
    BY <1>3, <2>3 DEF PrivateOK
  <2> DEFINE head == o.prio < e.prio
  <2>5. head \in BOOLEAN /\ change_task(t, e, head)
    BY <2>1
  <2> HIDE DEF head
  <2> QED BY <1>0, <1>2, <2>3, <2>4, <2>5, BalancedChange
<1> QED BY <1>4, <1>5

LEMMA BalanceSetNice ==
  ASSUME IndInv, Balanced(task, rq), NEW t \in Task, NEW nice \in StaticPrio,
         SetUserNice(t, nice)
  PROVE  Balanced(task', rq')
<1> DEFINE o == task[t]
           s == [o EXCEPT !.static_prio = nice]
           e == [s EXCEPT !.normal_prio = normal_prio(s), !.prio = effective_prio(s)]
<1>0. /\ Good(task, rq, {}) /\ task \in [Task -> TaskStruct] /\ rq \in RunQueue
      /\ TaskOK(o) /\ o \in TaskStruct /\ Starts(o)
  BY SchedFrame
<1>1. CASE rt_policy(o.policy)
  <2>1. task' = [task EXCEPT ![t] = s] /\ rq' = rq
    BY <1>1 DEF SetUserNice
  <2>2. /\ s \in TaskStruct /\ s.phase = o.phase /\ s.state = o.state /\ s.on_rq = o.on_rq
        /\ s.class = o.class /\ s.weight = o.weight
    BY <1>0 DEF TaskStruct
  <2> HIDE DEF s
  <2>3. QueuedWeight(s) = QueuedWeight(o) /\ SleepingLoad(s) = SleepingLoad(o) /\ Starts(s)
    BY <1>0, <2>2 DEF QueuedWeight, SleepingLoad, contributes_to_load, Starts
  <2> QED BY <1>0, <2>1, <2>2, <2>3, BalancedFrame
<1>2. CASE ~rt_policy(o.policy)
  <2>1. change_task(t, e, FALSE)
    BY <1>2 DEF SetUserNice
  <2>2. /\ e \in TaskStruct /\ PrivateOK(e)
        /\ e.phase = o.phase /\ e.state = o.state /\ e.on_rq = o.on_rq
    <3>1. ClassOK(o) /\ PrivateOK(o)
      BY <1>0 DEF TaskOK
    <3> HIDE DEF o
    <3> QED BY <1>0, <1>2, <3>1, Renice, ZenonT(60)
  <2> HIDE DEF e
  <2> QED BY <1>0, <2>1, <2>2, BalancedChange
<1> QED BY <1>1, <1>2

LEMMA BalanceMoveTask ==
  ASSUME IndInv, Balanced(task, rq), NEW t \in Task, NEW g \in Group, SchedMoveTask(t, g)
  PROVE  Balanced(task', rq')
<1> DEFINE o == task[t]
           e == [o EXCEPT !.group = g]
<1>0. Good(task, rq, {}) /\ TaskOK(o) /\ o \in TaskStruct
  BY SchedFrame
<1>1. change_task(t, e, FALSE)
  BY DEF SchedMoveTask
<1>2. /\ e \in TaskStruct /\ e.phase = o.phase /\ e.state = o.state /\ e.on_rq = o.on_rq
      /\ e.weight = o.weight /\ e.custom_weight = o.custom_weight /\ e.pi_prio = o.pi_prio
  BY <1>0 DEF TaskStruct
<1> HIDE DEF e
<1>3. PrivateOK(e)
  BY <1>0, <1>2 DEF TaskOK, PrivateOK
<1> QED BY <1>0, <1>1, <1>2, <1>3, BalancedChange

LEMMA NextBalance ==
  ASSUME IndInv, Balanced(task, rq), [Next]_vars
  PROVE  Balanced(task', rq')
<1>1. CASE Schedule \/ Preempt \/ Yield \/ Tick
  BY <1>1, BalanceSchedule, BalancePreempt, BalanceYield, BalanceTick
<1>2. ASSUME NEW s \in SleepState \cup {"R"}, SetCurrentState(s) PROVE Balanced(task', rq')
  <2>1. s \in {"R", "S", "D", "X"}
    BY CoreAssumption
  <2> QED BY <1>2, <2>1, BalanceSetState DEF SetCurrentState
<1>3. CASE Exit
  <2>1. "X" \in {"R", "S", "D", "X"}
    OBVIOUS
  <2> QED BY <1>3, <2>1, BalanceSetState DEF Exit, running_task
<1>4. ASSUME NEW t \in Task, TryToWakeUp(t) \/ SchedFork(t) \/ WakeUpNewTask(t)
      PROVE  Balanced(task', rq')
  BY <1>4, BalanceWakeUp, BalanceFork, BalanceNewTask
<1>5. ASSUME NEW t \in Task, NEW policy \in Policy, NEW prio \in SchedPriority,
             NEW reset \in ResetOnFork, SchedSetscheduler(t, policy, prio, reset)
      PROVE  Balanced(task', rq')
  BY <1>5, BalanceSetscheduler
<1>6. ASSUME NEW t \in Task, NEW waiter \in BoostPrio \cup {MAX_PRIO},
             RtMutexSetprio(t, waiter)
      PROVE  Balanced(task', rq')
  BY <1>6, BalanceSetprio
<1>7. ASSUME NEW t \in Task, NEW nice \in StaticPrio, SetUserNice(t, nice)
      PROVE  Balanced(task', rq')
  BY <1>7, BalanceSetNice
<1>8. ASSUME NEW t \in Task, NEW g \in Group, SchedMoveTask(t, g)
      PROVE  Balanced(task', rq')
  BY <1>8, BalanceMoveTask
<1>9. CASE UNCHANGED vars
  BY <1>9 DEF vars
<1> QED BY <1>1, <1>2, <1>3, <1>4, <1>5, <1>6, <1>7, <1>8, <1>9 DEF Next

LEMMA InitBalance ==
  ASSUME Init
  PROVE  Balanced(task, rq)
<1>0. IsFiniteSet(Task)
  BY CoreAssumption
<1>1. rq.total_weight = 0 /\ rq.nr_uninterruptible = 0
  BY DEF Init
<1>2. \A t \in Task : /\ task[t].class = "fair" /\ task[t].state = "R"
  BY DEF Init, init_task, NoTask
<1>3. \A t \in Task : QueuedWeights(task)[t] = 0 /\ SleepingLoads(task)[t] = 0
  BY <1>2 DEF QueuedWeights, SleepingLoads, QueuedWeight, SleepingLoad, contributes_to_load
<1>4. /\ SumFunctionOnSet(QueuedWeights(task), Task) = 0
      /\ SumFunctionOnSet(SleepingLoads(task), Task) = 0
  BY <1>0, <1>3, SumZero
<1> QED BY <1>1, <1>2, <1>4 DEF Balanced, Starts

\* The totals are those of the two properties.
LEMMA BalancedMeans ==
  ASSUME TypeOK, Balanced(task, rq)
  PROVE  TotalWeightConsistent /\ LoadConsistent
<1>0. IsFiniteSet(Task)
  BY CoreAssumption
<1>1. TotalWeightConsistent
  <2> DEFINE W == [t \in Task |-> task[t].weight]
             Q == in_class(task, on_rq(task), "wrr")
             f == QueuedWeights(task)
  <2>1. Q \subseteq Task
    BY DEF in_class, on_rq
  <2>2. \A t \in Q : W[t] \in Int /\ W[t] = f[t]
    BY <2>1 DEF QueuedWeights, QueuedWeight, in_class, on_rq, TypeOK, TaskStruct
  <2>3. \A t \in Task \ Q : f[t] = 0
    BY DEF QueuedWeights, QueuedWeight, in_class, on_rq
  <2> HIDE DEF W, Q, f
  <2>4. SumFunctionOnSet(W, Q) = SumFunctionOnSet(f, Task)
    BY <1>0, <2>1, <2>2, <2>3, SumRestrict
  <2> QED BY <2>4 DEF TotalWeightConsistent, Balanced, W, Q, f
<1>2. LoadConsistent
  <2> DEFINE f == SleepingLoads(task)
  <2>1. \A t \in Task : f[t] \in {0, 1}
    BY DEF SleepingLoads, SleepingLoad, contributes_to_load
  <2>2. {t \in Task : f[t] = 1} = {t \in Task : task[t].state = "D" /\ ~task[t].on_rq}
    BY DEF SleepingLoads, SleepingLoad, contributes_to_load
  <2> HIDE DEF f
  <2>3. SumFunctionOnSet(f, Task) = Cardinality({t \in Task : f[t] = 1})
    BY <1>0, <2>1, SumCounts
  <2> QED BY <2>2, <2>3 DEF LoadConsistent, Balanced, f
<1> QED BY <1>1, <1>2

-----------------------------------------------------------------------------
(* Whom a queued RT task waits for                                          *)

\* rt_nr_running is the size of a set.
LEMMA RtCountNat ==
  ASSUME NEW ts, NEW r, NEW dead, Good(ts, r, dead)
  PROVE  r.rt_nr_running \in Nat /\ r.rt_nr_running \in Int
<1>1. IsFiniteSet(in_class(ts, on_rq(ts), "rt"))
  <2>1. in_class(ts, on_rq(ts), "rt") \subseteq Task
    BY DEF in_class, on_rq
  <2> QED BY <2>1, CoreAssumption, FS_Subset
<1> QED BY <1>1, FS_CardinalityType DEF Good, RqOK, RtQueueOK

\* rt_nr_running is 0 only when no RT task is queued.
LEMMA RtCounted ==
  ASSUME NEW ts, NEW r, NEW dead, Good(ts, r, dead), NEW t \in Task, ts[t].on_rq,
         ts[t].class = "rt"
  PROVE  r.rt_nr_running # 0
<1> DEFINE waiting == in_class(ts, on_rq(ts), "rt")
<1>1. IsFiniteSet(waiting)
  <2>1. waiting \subseteq Task
    BY DEF in_class, on_rq
  <2> QED BY <2>1, CoreAssumption, FS_Subset
<1>2. t \in waiting
  BY DEF in_class, on_rq
<1>3. r.rt_nr_running = Cardinality(waiting)
  BY DEF Good, RqOK, RtQueueOK
<1> HIDE DEF waiting
<1> QED BY <1>1, <1>2, <1>3, FS_EmptySet

\* pick_next_task() offers nothing else while an RT task is queued: its short
\* cut for the fair class is not taken.
LEMMA PickServesRt ==
  ASSUME NEW ts, NEW r, NEW dead, Good(ts, r, dead), r.rt_nr_running # 0,
         NEW throttled, NEW next \in pick_next_task(ts, r, throttled)
  PROVE  next \in in_class(ts, on_rq(ts), "rt")
<1>1. r.rt_nr_running \in Nat
  BY RtCountNat
<1>2. r.nr_running # r.cfs_nr_running
  <2>1. /\ r.nr_running = r.rt_nr_running + r.wrr_nr_running + r.cfs_nr_running
        /\ r.cfs_nr_running \in Int /\ r.wrr_nr_running \in Nat
    BY DEF Good, RqOK, CountersOK, WrrQueueOK, RunQueue
  <2> QED BY <1>1, <2>1
<1>3. pick_next_task_rt(r) # {}
  BY DEF pick_next_task_rt
<1>4. next \in pick_next_task_rt(r)
  BY <1>2, <1>3 DEF pick_next_task
<1> QED BY <1>4, PickRt, GoodRtPrios DEF Good

\* After a switch an RT task runs if one is queued.
LEMMA SwitchServesRt ==
  ASSUME NEW ts, NEW r, NEW dead, Good(ts, r, dead),
         \A t \in Task : t = curr /\ ts[t].state = "X" => ~ts[t].on_rq,
         switch_to_next(ts, r)
  PROVE  ~RtKeptWaiting'
<1> SUFFICES ASSUME RtKeptWaiting' PROVE FALSE
  OBVIOUS
<1>1. PICK throttled \in BOOLEAN :
        \E next \in pick_next_task(ts, r, throttled) :
          /\ curr' = next
          /\ task' = [t \in Task |-> IF t = curr /\ ts[t].state = "X" THEN NoTask ELSE ts[t]]
          /\ rq' = r
  BY DEF switch_to_next, wrr_throttled
<1>2. r.rt_nr_running # 0
  BY <1>1 DEF RtKeptWaiting
<1>3. curr' \in in_class(ts, on_rq(ts), "rt")
  BY <1>1, <1>2, PickServesRt
<1>4. /\ curr' \in Task /\ ts[curr'].class = "rt" /\ ts[curr'].on_rq
  BY <1>3 DEF in_class, on_rq
<1>5. task'[curr'] = ts[curr'] /\ curr' # Idle
  BY <1>1, <1>4, CoreAssumption
<1>6. curr_of(task)'.class = "rt"
  BY <1>4, <1>5 DEF curr_of
<1> QED BY <1>6 DEF RtKeptWaiting

\* The running task stays of its class, and no RT task more is queued: nobody
\* begins to wait.
LEMMA NoneMoreWait ==
  ASSUME IndInv, curr' = curr, need_resched => need_resched',
         rq'.rt_nr_running # 0 => rq.rt_nr_running # 0,
         curr \in Task => task'[curr].class = task[curr].class
  PROVE  RtKeptWaiting' => RtKeptWaiting
<1>1. curr # Idle => curr \in Task
  BY Now
<1>2. curr_of(task)'.class = curr_of(task).class
  BY <1>1 DEF curr_of, idle_task
<1> QED BY <1>2 DEF RtKeptWaiting

\* When the running task's class is another one, its priority is worse than
\* that of every RT task.
LEMMA RtBeatsOthers ==
  ASSUME IndInv, NEW e \in TaskStruct, ClassOK(e), e.class = "rt", curr_of(task).class # "rt"
  PROVE  e.prio < curr_of(task).prio
<1>1. e.prio < MAX_RT_PRIO /\ e.prio \in Nat
  BY PrioFacts DEF ClassOK, class_of, rt_prio
<1>2. MAX_RT_PRIO <= curr_of(task).prio /\ curr_of(task).prio \in Nat
  <2>1. CASE curr = Idle
    <3>1. curr_of(task).prio = MAX_PRIO
      BY <2>1 DEF curr_of, idle_task, NoTask
    <3> QED BY <3>1, PrioFacts
  <2>2. CASE curr # Idle
    <3>1. task[curr] \in TaskStruct /\ ClassOK(task[curr])
      BY <2>2, Now DEF TaskOK
    <3>2. task[curr].prio \in Nat /\ MAX_RT_PRIO \in Nat
      BY <3>1, PrioFacts
    <3> QED BY <2>2, <3>1, <3>2 DEF curr_of, ClassOK, class_of, rt_prio
  <2> QED BY <2>1, <2>2
<1>3. MAX_RT_PRIO \in Nat
  BY RtAssumption
<1> QED BY <1>1, <1>2, <1>3

LEMMA ActivateRt ==
  ASSUME NEW r \in RunQueue, NEW t, NEW e \in TaskStruct
  PROVE  activate_task(r, t, e).rt_nr_running = r.rt_nr_running + RtOne(e)
<1> DEFINE l == [r EXCEPT !.nr_uninterruptible = @ - contributes_to_load(e)]
<1>1. l \in RunQueue /\ l.rt_nr_running = r.rt_nr_running
  <2>1. r.nr_uninterruptible - contributes_to_load(e) \in Int
    BY LoadTypes DEF RunQueue
  <2> QED BY <2>1 DEF RunQueue
<1>2. activate_task(r, t, e) = enqueue_task(l, t, e, FALSE)
  BY DEF activate_task
<1> HIDE DEF l
<1>3. enqueue_task(l, t, e, FALSE).rt_nr_running = l.rt_nr_running + RtOne(e)
  BY <1>1, EnqueueTotals
<1> QED BY <1>1, <1>2, <1>3

\* A task that is woken while another runs reschedules it if it is an RT task
\* and the other is not.
LEMMA WakeServesRt ==
  ASSUME IndInv, NEW t \in Task, ~task[t].on_rq, NEW e \in TaskStruct, NEW u,
         rq' = activate_task(rq, t, e), task' = [task EXCEPT ![t] = u], curr' = curr,
         NEW fair, resched_if(check_preempt_curr(e, curr_of(task), fair))
  PROVE  RtKeptWaiting' => RtKeptWaiting
<1>0. /\ Good(task, rq, {}) /\ task \in [Task -> TaskStruct]
      /\ curr # Idle => curr \in Task /\ task[curr].on_rq
  BY Now
<1>1. rq \in RunQueue /\ rq.rt_nr_running \in Int
  BY <1>0 DEF Good, RqOK, RunQueue
<1>2. rq'.rt_nr_running = rq.rt_nr_running + RtOne(e)
  BY <1>1, ActivateRt
<1>3. curr \in Task => task'[curr].class = task[curr].class
  BY <1>0, CoreAssumption
<1>4. need_resched => need_resched'
  BY DEF resched_if
<1>5. CASE e.class = "rt" /\ curr_of(task).class # "rt"
  <2>1. class_rank(e.class) = 1 /\ class_rank(curr_of(task).class) \in {2, 3, 4}
    BY <1>5 DEF class_rank
  <2>2. check_preempt_curr(e, curr_of(task), fair)
    BY <1>5, <2>1 DEF check_preempt_curr
  <2>3. need_resched'
    BY <2>2 DEF resched_if
  <2> QED BY <2>3 DEF RtKeptWaiting
<1>6. CASE e.class # "rt"
  <2>1. rq'.rt_nr_running = rq.rt_nr_running
    BY <1>1, <1>2, <1>6 DEF RtOne
  <2> QED BY <1>3, <1>4, <2>1, NoneMoreWait
<1>7. CASE curr_of(task).class = "rt"
  <2>1. curr_of(task)'.class = curr_of(task).class
    BY <1>0, <1>3 DEF curr_of, idle_task
  <2> QED BY <1>7, <2>1 DEF RtKeptWaiting
<1> QED BY <1>5, <1>6, <1>7

\* change_task() moves one task from its class's count to that of its new class.
LEMMA ChangeRt ==
  ASSUME Good(task, rq, {}), NEW t \in Task, NEW head \in BOOLEAN,
         NEW e \in TaskStruct, PrivateOK(e), e.on_rq = task[t].on_rq,
         change_task(t, e, head)
  PROVE  /\ task'[t].class = e.class
         /\ \A u \in Task : u # t => task'[u] = task[u]
         /\ rq'.rt_nr_running = IF e.on_rq THEN rq.rt_nr_running - RtOne(task[t]) + RtOne(e)
                                ELSE rq.rt_nr_running
<1> DEFINE o == task[t]
           u == changed(t, e)
<1>0. /\ task \in [Task -> TaskStruct] /\ o \in TaskStruct /\ rq \in RunQueue
  BY DEF Good, RqOK
<1>1. task' = [task EXCEPT ![t] = u]
  BY DEF change_task
<1>2. u \in TaskStruct /\ u.class = e.class
  <2>1. CASE o.on_rq
    <3> DEFINE q == queued(e)
    <3>1. u = q
      BY <2>1 DEF changed
    <3>2. PICK x, y \in Nat : q = [e EXCEPT !.weight = x, !.time_slice = y]
      BY Queued
    <3> HIDE DEF q
    <3>3. q \in TaskStruct /\ q.class = e.class
      BY <3>2 DEF TaskStruct
    <3> QED BY <3>1, <3>3
  <2>2. CASE ~o.on_rq
    BY <2>2 DEF changed
  <2> QED BY <2>1, <2>2
<1>3. CASE o.on_rq
  <2> DEFINE d == dequeue_task(rq, t, o)
             s == enqueue_task(d, t, u, head)
  <2>1. rq' = s
    BY <1>3 DEF change_task
  <2>2. d \in RunQueue
    <3>1. t \in on_rq(task) /\ on_rq(task) \in SUBSET Task
      BY <1>3 DEF on_rq
    <3>2. o.class = "rt" => o.prio \in RtPrio
      BY RtClassPrio DEF Good, TaskOK
    <3> QED BY <1>0, <3>1, <3>2, DequeueTask DEF Good, RqOK
  <2>3. d.rt_nr_running = rq.rt_nr_running - RtOne(o)
    BY <1>0, DequeueTotals
  <2> HIDE DEF d, u
  <2>4. s.rt_nr_running = d.rt_nr_running + RtOne(u)
    BY <1>2, <2>2, EnqueueTotals
  <2>5. RtOne(u) = RtOne(e)
    BY <1>2 DEF RtOne
  <2> HIDE DEF s
  <2> QED BY <1>0, <1>1, <1>2, <1>3, <2>1, <2>3, <2>4, <2>5
<1>4. CASE ~o.on_rq
  <2>1. rq' = rq
    BY <1>4 DEF change_task
  <2> QED BY <1>0, <1>1, <1>2, <1>4, <2>1
<1> QED BY <1>3, <1>4

\* The running task was moved to another class.
Demoted == curr' = curr /\ curr # Idle /\ task[curr].class # task'[curr].class

LEMMA ChangeServesRt ==
  ASSUME IndInv, NEW t \in Task, NEW head \in BOOLEAN,
         NEW e \in TaskStruct, PrivateOK(e), e.on_rq = task[t].on_rq,
         change_task(t, e, head), curr' = curr, need_resched => need_resched',
         (t # curr /\ e.on_rq /\ task[t].class # "rt" /\ e.class = "rt"
          /\ curr_of(task).class # "rt")
           => need_resched'
  PROVE  RtKeptWaiting' => RtKeptWaiting \/ Demoted
<1>0. /\ Good(task, rq, {}) /\ rq.rt_nr_running \in Nat
      /\ curr # Idle => curr \in Task /\ task[curr].on_rq
      /\ Idle \notin Task
  BY Now, RtCountNat
<1>1. /\ task'[t].class = e.class
      /\ \A u \in Task : u # t => task'[u] = task[u]
      /\ rq'.rt_nr_running = IF e.on_rq THEN rq.rt_nr_running - RtOne(task[t]) + RtOne(e)
                             ELSE rq.rt_nr_running
  BY <1>0, ChangeRt
<1> SUFFICES ASSUME RtKeptWaiting', ~Demoted PROVE RtKeptWaiting
  OBVIOUS
<1>2. curr \in Task => task'[curr].class = task[curr].class
  BY <1>0 DEF Demoted
<1>3. rq'.rt_nr_running # 0
  BY DEF RtKeptWaiting
<1>4. CASE rq.rt_nr_running # 0
  BY <1>2, <1>4, NoneMoreWait
<1>5. CASE rq.rt_nr_running = 0
  <2>1. e.on_rq /\ task[t].class # "rt" /\ e.class = "rt"
    <3>1. e.on_rq /\ RtOne(task[t]) # RtOne(e)
      BY <1>1, <1>3, <1>5 DEF RtOne
    <3>2. task[t].class # "rt"
      BY <1>0, <1>5, <3>1, RtCounted
    <3> QED BY <3>1, <3>2 DEF RtOne
  <2>2. t # curr
    BY <1>1, <1>2, <2>1
  <2>3. curr_of(task)'.class = curr_of(task).class
    BY <1>0, <1>2 DEF curr_of, idle_task
  <2>4. curr_of(task).class # "rt"
    BY <2>3 DEF RtKeptWaiting
  <2>5. need_resched'
    BY <2>1, <2>2, <2>4
  <2> QED BY <2>5 DEF RtKeptWaiting
<1> QED BY <1>4, <1>5

\* check_class_changed() reschedules for a task that becomes an RT task.
LEMMA ClassChangedServesRt ==
  ASSUME IndInv, NEW t \in Task, NEW e \in TaskStruct, ClassOK(e), NEW running, ~running,
         NEW fair, t # curr, e.on_rq, task[t].class # "rt", e.class = "rt",
         curr_of(task).class # "rt"
  PROVE  check_class_changed(task[t], e, running, curr_of([task EXCEPT ![t] = e]), fair)
<1> DEFINE c == curr_of([task EXCEPT ![t] = e])
<1>1. c = curr_of(task)
  <2>1. task \in [Task -> TaskStruct] /\ (curr # Idle => curr \in Task)
    BY Now
  <2> QED BY <2>1 DEF curr_of
<1>2. e.prio < c.prio
  BY <1>1, RtBeatsOthers
<1> HIDE DEF c
<1>3. switched_to_rt(e, running, c.prio)
  BY <1>2 DEF switched_to_rt
<1>4. check_class_changed(task[t], e, running, c, fair)
  BY <1>3 DEF check_class_changed
<1> QED BY <1>4 DEF c

LEMMA WaitSchedule ==
  ASSUME IndInv, Schedule
  PROVE  ~RtKeptWaiting'
<1> DEFINE e == task[curr]
           none == {}
<1>0. /\ Good(task, rq, none) /\ task \in [Task -> TaskStruct]
      /\ curr \in Task /\ e.on_rq /\ e \in TaskStruct
  BY Now DEF Schedule, TaskOK
<1> HIDE DEF none
<1>1. CASE e.state = "R" /\ switch_to_next(task, rq)
  BY <1>0, <1>1, SwitchServesRt
<1>2. CASE e.state = "S" /\ switch_to_next([task EXCEPT ![curr].state = "R"], rq)
  <2> DEFINE ts == [task EXCEPT ![curr].state = "R"]
  <2>1. Good(ts, rq, none)
    BY <1>0, GoodSetState DEF none
  <2>2. ts[curr].state = "R"
    BY <1>0 DEF TaskStruct
  <2> HIDE DEF ts
  <2>3. switch_to_next(ts, rq)
    BY <1>2 DEF ts
  <2> QED BY <2>1, <2>2, <2>3, SwitchServesRt
<1>3. ASSUME e.state # "R"
      PROVE  LET ts == [task EXCEPT ![curr].on_rq = FALSE]
                 r == deactivate_task(rq, curr, e)
             IN  (\/ switch_to_next(ts, r)
                  \/ \E w \in Worker \ {curr} :
                       /\ sleeping(ts[w])
                       /\ switch_to_next([ts EXCEPT ![w] = ttwu_do_wakeup(ts[w])],
                                         ttwu_activate(r, w, ts[w])))
                 => ~RtKeptWaiting'
  <2> DEFINE ts == [task EXCEPT ![curr].on_rq = FALSE]
             r == deactivate_task(rq, curr, e)
             dead == IF e.state = "X" THEN {curr} ELSE {}
  <2>1. Good(ts, r, dead)
    BY <1>0, <1>3, GoodDeactivate DEF none
  <2>2. ~ts[curr].on_rq /\ dead \subseteq {curr}
    BY <1>0 DEF TaskStruct
  <2> HIDE DEF ts, r, dead
  <2>3. ASSUME switch_to_next(ts, r) PROVE ~RtKeptWaiting'
    BY <2>1, <2>2, <2>3, SwitchServesRt
  <2>4. ASSUME NEW w \in Worker \ {curr}, sleeping(ts[w]),
               switch_to_next([ts EXCEPT ![w] = ttwu_do_wakeup(ts[w])],
                              ttwu_activate(r, w, ts[w]))
        PROVE  ~RtKeptWaiting'
    <3> DEFINE us == [ts EXCEPT ![w] = ttwu_do_wakeup(ts[w])]
               r2 == ttwu_activate(r, w, ts[w])
    <3>1. w \in Task /\ w \notin dead /\ w # curr
      BY <2>2, CoreAssumption
    <3>2. Good(us, r2, dead)
      BY <2>1, <2>4, <3>1, GoodWake
    <3>3. us[curr] = ts[curr]
      BY <2>1, <3>1 DEF Good
    <3> HIDE DEF us, r2
    <3>4. switch_to_next(us, r2)
      BY <2>4 DEF us, r2
    <3> QED BY <2>2, <3>2, <3>3, <3>4, SwitchServesRt
  <2> QED BY <2>3, <2>4 DEF ts, r
<1> QED BY <1>1, <1>2, <1>3 DEF Schedule

LEMMA WaitPreempt ==
  ASSUME IndInv, Preempt
  PROVE  ~RtKeptWaiting'
<1> DEFINE none == {}
<1>1. Good(task, rq, none)
  BY Now
<1> HIDE DEF none
<1>2. \A t \in Task : t = curr /\ task[t].state = "X" => ~task[t].on_rq
  BY CoreAssumption DEF Preempt
<1>3. switch_to_next(task, rq)
  BY DEF Preempt
<1> QED BY <1>1, <1>2, <1>3, SwitchServesRt

LEMMA WaitYield ==
  ASSUME IndInv, Yield
  PROVE  ~RtKeptWaiting'
<1> DEFINE none == {}
           e == task[curr]
<1>0. /\ Good(task, rq, none) /\ curr \in Task /\ e.state = "R" /\ TaskOK(e)
      /\ task \in [Task -> TaskStruct] /\ RqOK(rq, task, on_rq(task))
      /\ curr \in on_rq(task) /\ on_rq(task) \in SUBSET Task
  BY Now DEF Yield, running_task, Good, on_rq
<1>1. PICK r : /\ switch_to_next(task, r)
               /\ r = CASE e.class = "wrr" -> yield_task_wrr(rq, curr)
                        [] e.class = "rt"  -> requeue_task_rt(rq, curr, e)
                        [] OTHER           -> rq
  BY DEF Yield
<1>2. RqOK(r, task, on_rq(task))
  <2>1. CASE e.class = "wrr"
    BY <1>0, <1>1, <2>1, RequeueWrr
  <2>2. CASE e.class = "rt"
    <3>1. e.prio \in RtPrio
      BY <1>0, <2>2, RtClassPrio DEF TaskOK
    <3> QED BY <1>0, <1>1, <2>2, <3>1, RequeueRt
  <2>3. CASE e.class = "fair"
    BY <1>0, <1>1, <2>3
  <2> QED BY <1>0, <2>1, <2>2, <2>3 DEF TaskOK, TaskStruct
<1>3. Good(task, r, none)
  BY <1>0, <1>2 DEF Good
<1> HIDE DEF none
<1> QED BY <1>0, <1>1, <1>3, SwitchServesRt

\* Steps that change one task but neither its class nor the queued RT tasks.
LEMMA WaitFrame ==
  ASSUME IndInv, NEW t \in Task, NEW u, u.class = task[t].class,
         task' = [task EXCEPT ![t] = u], curr' = curr, need_resched => need_resched',
         rq'.rt_nr_running # 0 => rq.rt_nr_running # 0
  PROVE  RtKeptWaiting' => RtKeptWaiting
<1>1. curr \in Task => task'[curr].class = task[curr].class
  BY Now
<1> QED BY <1>1, NoneMoreWait

LEMMA WaitSetState ==
  ASSUME IndInv, NEW s, curr # Idle, task' = [task EXCEPT ![curr].state = s],
         UNCHANGED <<rq, curr, need_resched>>
  PROVE  RtKeptWaiting' => RtKeptWaiting
<1> DEFINE u == [task[curr] EXCEPT !.state = s]
<1>1. task \in [Task -> TaskStruct] /\ curr \in Task /\ task[curr] \in TaskStruct
  BY Now DEF TaskOK
<1>2. u.class = task[curr].class /\ task' = [task EXCEPT ![curr] = u]
  BY <1>1 DEF TaskStruct
<1> HIDE DEF u
<1> QED BY <1>1, <1>2, WaitFrame

LEMMA WaitTick ==
  ASSUME IndInv, Tick
  PROVE  RtKeptWaiting' => RtKeptWaiting
<1> DEFINE e == task[curr]
<1>0. rq \in RunQueue
  BY Now DEF Good, RqOK
<1>1. ASSUME TickWrr PROVE RtKeptWaiting' => RtKeptWaiting
  <2> DEFINE u == [e EXCEPT !.time_slice = tick_slice_wrr(e)]
  <2>0. task \in [Task -> TaskStruct] /\ curr \in Task /\ e \in TaskStruct
    <3>1. curr # Idle
      BY <1>1 DEF TickWrr, curr_of, idle_task, NoTask
    <3> QED BY <3>1, Now DEF TaskOK
  <2>1. /\ u.class = e.class /\ task' = [task EXCEPT ![curr] = u]
        /\ curr' = curr /\ (need_resched => need_resched')
        /\ rq' \in {rq, yield_task_wrr(rq, curr)}
    BY <1>1, <2>0 DEF TickWrr, TaskStruct, resched_if
  <2>2. rq'.rt_nr_running = rq.rt_nr_running
    BY <1>0, <2>1 DEF yield_task_wrr, RunQueue
  <2> HIDE DEF u
  <2> QED BY <2>0, <2>1, <2>2, WaitFrame
<1>2. ASSUME TickRt PROVE ~RtKeptWaiting'
  <2> DEFINE u == [e EXCEPT !.rt_time_slice = tick_slice_rt(e)]
  <2>0. task \in [Task -> TaskStruct] /\ curr \in Task /\ e \in TaskStruct /\ curr # Idle
    <3>1. curr # Idle
      BY <1>2 DEF TickRt, curr_of, idle_task, NoTask
    <3> QED BY <3>1, Now DEF TaskOK
  <2>1. /\ u.class = e.class /\ task' = [task EXCEPT ![curr] = u] /\ curr' = curr
        /\ e.class = "rt"
    BY <1>2, <2>0 DEF TickRt, TaskStruct, curr_of
  <2> HIDE DEF u
  <2>2. curr_of(task)'.class = "rt"
    BY <2>0, <2>1 DEF curr_of
  <2> QED BY <2>2 DEF RtKeptWaiting
<1>3. ASSUME TickFair PROVE RtKeptWaiting' => RtKeptWaiting
  BY <1>3, NoneMoreWait DEF TickFair, resched_if
<1> QED BY <1>1, <1>2, <1>3 DEF Tick

LEMMA WaitWakeUp ==
  ASSUME IndInv, NEW t \in Task, TryToWakeUp(t)
  PROVE  RtKeptWaiting' => RtKeptWaiting
<1> DEFINE e == task[t]
           a == activated(e)
           w == ttwu_do_wakeup(e)
<1>0. task \in [Task -> TaskStruct] /\ e \in TaskStruct /\ PrivateOK(e)
  BY Now DEF Good, TaskOK
<1>1. /\ task' = [task EXCEPT ![t] = w] /\ curr' = curr
      /\ rq' = ttwu_activate(rq, t, e)
  BY DEF TryToWakeUp
<1>2. PICK fair \in BOOLEAN : resched_if(check_preempt_curr(a, curr_of(task), fair))
  BY DEF TryToWakeUp
<1>3. CASE e.on_rq
  <2>1. w.class = e.class /\ rq' = rq
    BY <1>0, <1>1, <1>3 DEF ttwu_do_wakeup, activated, ttwu_activate, TaskStruct
  <2>2. need_resched => need_resched'
    BY <1>2 DEF resched_if
  <2> HIDE DEF w
  <2> QED BY <1>1, <2>1, <2>2, WaitFrame
<1>4. CASE ~e.on_rq
  <2>1. rq' = activate_task(rq, t, a)
    BY <1>1, <1>4 DEF ttwu_activate
  <2>2. a \in TaskStruct
    <3> DEFINE q == queued(e)
    <3>1. q \in TaskStruct
      BY <1>0, Queued
    <3>2. a = [q EXCEPT !.on_rq = TRUE]
      BY <1>4 DEF activated
    <3> HIDE DEF q
    <3> QED BY <3>1, <3>2 DEF TaskStruct
  <2> HIDE DEF a, w
  <2> QED BY <1>1, <1>2, <1>4, <2>1, <2>2, WakeServesRt
<1> QED BY <1>3, <1>4

LEMMA WaitFork ==
  ASSUME IndInv, NEW t \in Task, SchedFork(t)
  PROVE  RtKeptWaiting' => RtKeptWaiting
<1>0. /\ curr \in Task /\ task[curr].on_rq /\ task \in [Task -> TaskStruct]
      /\ TaskOK(task[t])
  BY Now DEF SchedFork, running_task, Good
<1>1. t # curr
  BY <1>0 DEF SchedFork, TaskOK, Accounted
<1>2. task'[curr].class = task[curr].class /\ UNCHANGED <<rq, curr, need_resched>>
  BY <1>0, <1>1 DEF SchedFork
<1> QED BY <1>2, NoneMoreWait

LEMMA WaitNewTask ==
  ASSUME IndInv, NEW t \in Task, WakeUpNewTask(t)
  PROVE  RtKeptWaiting' => RtKeptWaiting
<1> DEFINE e == [queued(wrr_set_weight(task[t])) EXCEPT !.on_rq = TRUE,
                                                   !.phase = "live", !.parent = Idle]
<1>0. TaskOK(task[t]) /\ task[t].phase = "forked"
  BY Now DEF WakeUpNewTask, Good
<1>1. /\ task' = [task EXCEPT ![t] = e] /\ rq' = activate_task(rq, t, e) /\ curr' = curr
      /\ \E fair \in BOOLEAN : resched_if(check_preempt_curr(e, curr_of(task), fair))
  BY DEF WakeUpNewTask
<1>2. e \in TaskStruct /\ ~task[t].on_rq
  BY <1>0, NewTask DEF TaskOK, Accounted
<1> HIDE DEF e
<1> QED BY <1>1, <1>2, WakeServesRt

LEMMA WaitSetscheduler ==
  ASSUME IndInv, NEW t \in Task, NEW policy \in Policy, NEW prio \in SchedPriority,
         NEW reset \in ResetOnFork, SchedSetscheduler(t, policy, prio, reset)
  PROVE  RtKeptWaiting' => RtKeptWaiting \/ Demoted
<1> DEFINE o == [task[t] EXCEPT !.reset_on_fork = reset]
           e == setscheduler(o, policy, prio)
<1>0. task[t] \in TaskStruct /\ TaskOK(task[t])
  BY Now DEF Good, TaskOK
<1>1. /\ o \in TaskStruct /\ o.phase = task[t].phase
      /\ o.on_rq = task[t].on_rq /\ o.custom_weight = task[t].custom_weight
      /\ o.weight = task[t].weight /\ o.pi_prio = task[t].pi_prio
  <2>1. reset \in BOOLEAN
    BY CoreAssumption
  <2> QED BY <1>0, <2>1 DEF TaskStruct
<1>2. PrivateOK(o)
  BY <1>0, <1>1 DEF TaskOK, PrivateOK
<1>3. change_task(t, e, FALSE) /\ curr' = curr
  BY DEF SchedSetscheduler
<1>4. PICK fair \in BOOLEAN :
        resched_if(check_class_changed(task[t], e, t = curr,
                                       curr_of([task EXCEPT ![t] = e]), fair))
  BY DEF SchedSetscheduler
<1> HIDE DEF o
<1>5. e \in TaskStruct /\ ClassOK(e) /\ PrivateOK(e) /\ e.on_rq = o.on_rq
  BY <1>1, <1>2, Setscheduler
<1> HIDE DEF e
<1>6. need_resched => need_resched'
  BY <1>4 DEF resched_if
<1>7. (t # curr /\ e.on_rq /\ task[t].class # "rt" /\ e.class = "rt"
       /\ curr_of(task).class # "rt")
        => need_resched'
  <2> SUFFICES ASSUME t # curr, e.on_rq, task[t].class # "rt", e.class = "rt",
                      curr_of(task).class # "rt"
               PROVE  need_resched'
    OBVIOUS
  <2> DEFINE running == t = curr
  <2>1. ~running
    OBVIOUS
  <2> HIDE DEF running
  <2>2. check_class_changed(task[t], e, running, curr_of([task EXCEPT ![t] = e]), fair)
    BY <1>5, <2>1, ClassChangedServesRt
  <2> QED BY <1>4, <2>2 DEF resched_if, running
<1> QED BY <1>1, <1>3, <1>5, <1>6, <1>7, ChangeServesRt

LEMMA WaitSetprio ==
  ASSUME IndInv, NEW t \in Task, NEW waiter \in BoostPrio \cup {MAX_PRIO},
         RtMutexSetprio(t, waiter)
  PROVE  RtKeptWaiting' => RtKeptWaiting \/ Demoted
<1> DEFINE o == task[t]
           b == [o EXCEPT !.pi_prio = waiter]
           n == [b EXCEPT !.prio = rt_mutex_getprio(b)]
           e == [n EXCEPT !.class = class_of(n.prio, n.policy)]
<1>0. TaskOK(o) /\ o \in TaskStruct /\ o.phase = "live"
  BY Now DEF Good, TaskOK, RtMutexSetprio
<1>1. waiter \in 0..MAX_PRIO
  BY CoreAssumption
<1>2. /\ b \in TaskStruct /\ b.class = o.class /\ b.on_rq = o.on_rq
      /\ b.normal_prio = o.normal_prio /\ b.policy = o.policy
      /\ b.rt_priority = o.rt_priority /\ b.static_prio = o.static_prio
      /\ b.phase = o.phase /\ b.custom_weight = o.custom_weight /\ b.weight = o.weight
  BY <1>0, <1>1 DEF TaskStruct
<1>3. PrivateOK(b) /\ b.normal_prio = normal_prio(b)
  BY <1>0, <1>2 DEF TaskOK, PrivateOK, ClassOK, normal_prio
<1> HIDE DEF b
<1>4. CASE rt_mutex_getprio(b) = o.prio
  <2>1. task' = [task EXCEPT ![t] = b] /\ UNCHANGED <<rq, curr, need_resched>>
    BY <1>4 DEF RtMutexSetprio, b
  <2> QED BY <1>2, <2>1, WaitFrame
<1>5. CASE rt_mutex_getprio(b) # o.prio
  <2> DEFINE head == o.prio < e.prio
  <2>1. head \in BOOLEAN /\ change_task(t, e, head) /\ curr' = curr
    BY <1>5 DEF RtMutexSetprio, b
  <2>2. PICK fair \in BOOLEAN :
          resched_if(check_class_changed(task[t], e, t = curr,
                                         curr_of([task EXCEPT ![t] = e]), fair))
    BY <1>5 DEF RtMutexSetprio, b
  <2>3. n.prio = rt_mutex_getprio(b) /\ n.policy = b.policy
    BY <1>2 DEF TaskStruct
  <2>4. e = [b EXCEPT !.prio = rt_mutex_getprio(b),
                      !.class = class_of(rt_mutex_getprio(b), b.policy)]
    BY <1>2, <2>3 DEF TaskStruct
  <2>5. e \in TaskStruct /\ ClassOK(e) /\ PrivateOK(e)
    BY <1>2, <1>3, <2>4, SetClass
  <2>6. e.on_rq = task[t].on_rq
    BY <1>2, <2>4 DEF TaskStruct
  <2> HIDE DEF head, e
  <2>7. need_resched => need_resched'
    BY <2>2 DEF resched_if
  <2>8. (t # curr /\ e.on_rq /\ task[t].class # "rt" /\ e.class = "rt"
         /\ curr_of(task).class # "rt")
          => need_resched'
    <3> SUFFICES ASSUME t # curr, e.on_rq, task[t].class # "rt", e.class = "rt",
                        curr_of(task).class # "rt"
                 PROVE  need_resched'
      OBVIOUS
    <3> DEFINE running == t = curr
    <3>1. ~running
      OBVIOUS
    <3> HIDE DEF running
    <3>2. check_class_changed(task[t], e, running, curr_of([task EXCEPT ![t] = e]), fair)
      BY <2>5, <3>1, ClassChangedServesRt
    <3> QED BY <2>2, <3>2 DEF resched_if, running
  <2> QED BY <2>1, <2>5, <2>6, <2>7, <2>8, ChangeServesRt
<1> QED BY <1>4, <1>5

LEMMA WaitSetNice ==
  ASSUME IndInv, NEW t \in Task, NEW nice \in StaticPrio, SetUserNice(t, nice)
  PROVE  RtKeptWaiting' => RtKeptWaiting \/ Demoted
<1> DEFINE o == task[t]
           s == [o EXCEPT !.static_prio = nice]
           e == [s EXCEPT !.normal_prio = normal_prio(s), !.prio = effective_prio(s)]
<1>0. TaskOK(o) /\ o \in TaskStruct /\ ClassOK(o) /\ PrivateOK(o)
  BY Now DEF Good, TaskOK
<1>1. CASE rt_policy(o.policy)
  <2>1. task' = [task EXCEPT ![t] = s] /\ UNCHANGED <<rq, curr, need_resched>>
    BY <1>1 DEF SetUserNice
  <2>2. s.class = o.class
    BY <1>0 DEF TaskStruct
  <2> HIDE DEF s
  <2> QED BY <2>1, <2>2, WaitFrame
<1>2. CASE ~rt_policy(o.policy)
  <2>1. /\ change_task(t, e, FALSE) /\ curr' = curr
        /\ need_resched => need_resched'
    BY <1>2 DEF SetUserNice, resched_if
  <2>2. e.class = o.class
    BY <1>0 DEF TaskStruct
  <2>3. e \in TaskStruct /\ PrivateOK(e) /\ e.on_rq = o.on_rq
    <3> HIDE DEF o
    <3> QED BY <1>0, <1>2, Renice
  <2> HIDE DEF e
  <2> DEFINE head == FALSE
  <2>4. head \in BOOLEAN /\ change_task(t, e, head)
    BY <2>1
  <2>5. (t # curr /\ e.on_rq /\ task[t].class # "rt" /\ e.class = "rt"
         /\ curr_of(task).class # "rt")
          => need_resched'
    BY <2>2
  <2> HIDE DEF head
  <2> QED BY <2>1, <2>3, <2>4, <2>5, ChangeServesRt
<1> QED BY <1>1, <1>2

LEMMA WaitMoveTask ==
  ASSUME IndInv, NEW t \in Task, NEW g \in Group, SchedMoveTask(t, g)
  PROVE  RtKeptWaiting' => RtKeptWaiting \/ Demoted
<1> DEFINE o == task[t]
           e == [o EXCEPT !.group = g]
<1>0. TaskOK(o) /\ o \in TaskStruct
  BY Now DEF Good, TaskOK
<1>1. change_task(t, e, FALSE) /\ curr' = curr /\ (need_resched => need_resched')
  BY DEF SchedMoveTask
<1>2. /\ e \in TaskStruct /\ e.class = o.class /\ e.phase = o.phase /\ e.on_rq = o.on_rq
      /\ e.weight = o.weight /\ e.custom_weight = o.custom_weight /\ e.pi_prio = o.pi_prio
  BY <1>0 DEF TaskStruct
<1> HIDE DEF e
<1> DEFINE head == FALSE
<1>3. PrivateOK(e) /\ head \in BOOLEAN /\ change_task(t, e, head)
  BY <1>0, <1>1, <1>2 DEF TaskOK, PrivateOK
<1>4. (t # curr /\ e.on_rq /\ task[t].class # "rt" /\ e.class = "rt"
       /\ curr_of(task).class # "rt")
        => need_resched'
  BY <1>2
<1> HIDE DEF head
<1> QED BY <1>1, <1>2, <1>3, <1>4, ChangeServesRt

\* No step makes a queued RT task wait without rescheduling, unless it moves
\* the running task to another class.
LEMMA NextServesRt ==
  ASSUME IndInv, [Next]_vars
  PROVE  RtKeptWaiting' => RtKeptWaiting \/ Demoted
<1> DEFINE Served == RtKeptWaiting' => RtKeptWaiting \/ Demoted
<1>1. CASE Schedule \/ Preempt \/ Yield \/ Tick
  BY <1>1, WaitSchedule, WaitPreempt, WaitYield, WaitTick
<1>2. CASE Exit \/ \E s \in SleepState \cup {"R"} : SetCurrentState(s)
  BY <1>2, WaitSetState DEF SetCurrentState, Exit, running_task
<1>3. ASSUME NEW t \in Task, TryToWakeUp(t) \/ SchedFork(t) \/ WakeUpNewTask(t) PROVE Served
  BY <1>3, WaitWakeUp, WaitFork, WaitNewTask
<1>4. ASSUME NEW t \in Task, NEW policy \in Policy, NEW prio \in SchedPriority,
             NEW reset \in ResetOnFork, SchedSetscheduler(t, policy, prio, reset)
      PROVE  Served
  BY <1>4, WaitSetscheduler
<1>5. ASSUME NEW t \in Task, NEW waiter \in BoostPrio \cup {MAX_PRIO},
             RtMutexSetprio(t, waiter)
      PROVE  Served
  BY <1>5, WaitSetprio
<1>6. ASSUME NEW t \in Task, NEW nice \in StaticPrio, SetUserNice(t, nice) PROVE Served
  BY <1>6, WaitSetNice
<1>7. ASSUME NEW t \in Task, NEW g \in Group, SchedMoveTask(t, g) PROVE Served
  BY <1>7, WaitMoveTask
<1>8. CASE UNCHANGED vars
  BY <1>8 DEF vars, RtKeptWaiting, curr_of
<1> HIDE DEF Served
<1>9. Served
  BY <1>1, <1>2, <1>3, <1>4, <1>5, <1>6, <1>7, <1>8 DEF Next, Served
<1> QED BY <1>9 DEF Served

-----------------------------------------------------------------------------
(* Turns.  The order of the run list, and what a step does to it.          *)

\* Of two entries linked once, one is first.
LEMMA OneIsFirst ==
  ASSUME NEW q, Linked(q), NEW a, NEW b, before(q, a, b)
  PROVE  ~before(q, b, a)
<1> SUFFICES ASSUME before(q, b, a) PROVE FALSE
  OBVIOUS
<1>1. PICK i, j \in 1..Len(q) : i < j /\ q[i] = a /\ q[j] = b
  BY DEF before
<1>2. PICK k, l \in 1..Len(q) : k < l /\ q[k] = b /\ q[l] = a
  BY DEF before
<1>3. i = l /\ j = k
  BY <1>1, <1>2 DEF Linked
<1> QED BY <1>1, <1>2, <1>3

\* Unlinking an entry leaves the others in their order.
LEMMA DelKeepsOrder ==
  ASSUME NEW T, NEW q \in Seq(T), NEW t, NEW a, NEW b, before(list_del(q, t), a, b)
  PROVE  before(q, a, b)
<1> DEFINE d == list_del(q, t)
<1>1. CASE t \notin Entries(q)
  BY <1>1, DelUnlinkedEntry
<1>2. CASE t \in Entries(q)
  <2> DEFINE k == CHOOSE i \in 1..Len(q) : q[i] = t
  <2>1. k \in 1..Len(q) /\ q[k] = t
    BY <1>2 DEF Entries
  <2>2. d = [i \in 1..(Len(q) - 1) |-> IF i < k THEN q[i] ELSE q[i + 1]]
    BY <1>2 DEF list_del
  <2> HIDE DEF k
  <2>3. Len(q) \in Nat /\ Len(q) >= 1
    BY <2>1
  <2>4. Len(d) = Len(q) - 1
    <3>1. \A i \in 1..(Len(q) - 1) : d[i] \in T
      BY <2>1, <2>2, <2>3
    <3>2. d \in Seq(T)
      BY <2>2, <2>3, <3>1
    <3> QED BY <2>2, <2>3, <3>2
  <2> HIDE DEF d
  <2>5. PICK i, j \in 1..(Len(q) - 1) : i < j /\ d[i] = a /\ d[j] = b
    BY <2>4 DEF before, d
  <2> DEFINE m == IF i < k THEN i ELSE i + 1
             n == IF j < k THEN j ELSE j + 1
  <2>6. m \in 1..Len(q) /\ n \in 1..Len(q) /\ m < n
    BY <2>1, <2>3, <2>5
  <2>7. q[m] = a /\ q[n] = b
    BY <2>1, <2>2, <2>5
  <2> QED BY <2>6, <2>7 DEF before
<1> QED BY <1>1, <1>2

\* An entry linked last, or first, comes after or before the others.
LEMMA LastComesAfter ==
  ASSUME NEW T, NEW q \in Seq(T), NEW t \in T
  PROVE  /\ list_add_tail(q, t)[Len(list_add_tail(q, t))] = t
         /\ \A a, b : before(list_add_tail(q, t), a, b) => before(q, a, b) \/ b = t
<1> DEFINE p == list_add_tail(q, t)
           n == Len(q)
<1>1. n \in Nat /\ Len(p) = n + 1 /\ p[n + 1] = t /\ \A i \in 1..n : p[i] = q[i]
  BY DEF list_add_tail
<1> HIDE DEF p
<1>2. ASSUME NEW a, NEW b, before(p, a, b), b # t PROVE before(q, a, b)
  <2>1. PICK i, j \in 1..Len(p) : i < j /\ p[i] = a /\ p[j] = b
    BY <1>2 DEF before
  <2>2. i \in 1..n /\ j \in 1..n
    BY <1>1, <1>2, <2>1
  <2>3. q[i] = a /\ q[j] = b
    BY <1>1, <2>1, <2>2
  <2> QED BY <2>1, <2>2, <2>3 DEF before
<1> QED BY <1>1, <1>2 DEF p

LEMMA FirstComesBefore ==
  ASSUME NEW T, NEW q \in Seq(T), NEW t \in T
  PROVE  /\ list_add(q, t)[1] = t
         /\ \A a, b : before(list_add(q, t), a, b) => before(q, a, b) \/ a = t
<1> DEFINE p == list_add(q, t)
           n == Len(q)
<1>1. n \in Nat /\ Len(p) = n + 1 /\ p[1] = t /\ \A i \in 1..n : p[i + 1] = q[i]
  BY DEF list_add
<1> HIDE DEF p
<1>2. ASSUME NEW a, NEW b, before(p, a, b), a # t PROVE before(q, a, b)
  <2>1. PICK i, j \in 1..Len(p) : i < j /\ p[i] = a /\ p[j] = b
    BY <1>2 DEF before
  <2>2. (i - 1) \in 1..n /\ (j - 1) \in 1..n
    BY <1>1, <1>2, <2>1
  <2>3. q[i - 1] = a /\ q[j - 1] = b
    <3>1. p[(i - 1) + 1] = q[i - 1] /\ p[(j - 1) + 1] = q[j - 1]
      BY <1>1, <2>2
    <3> QED BY <2>1, <2>2, <3>1
  <2>4. i - 1 < j - 1
    BY <2>1
  <2> QED BY <2>2, <2>3, <2>4 DEF before
<1> QED BY <1>1, <1>2 DEF p

\* What enqueue_task(), dequeue_task() and their callers do to the run list.
LEMMA EnqueueActive ==
  ASSUME NEW r \in RunQueue, NEW t, NEW e \in TaskStruct, NEW head \in BOOLEAN
  PROVE  enqueue_task(r, t, e, head).active
           = IF e.class = "wrr" THEN requeue_wrr_entity(r.active, t, head) ELSE r.active
<1>1. CASE e.class = "wrr"
  BY <1>1 DEF enqueue_task, enqueue_task_wrr, RunQueue
<1>2. CASE e.class = "rt"
  BY <1>2 DEF enqueue_task, enqueue_task_rt, RunQueue
<1>3. CASE e.class = "fair"
  BY <1>3 DEF enqueue_task, RunQueue
<1> QED BY <1>1, <1>2, <1>3 DEF TaskStruct

LEMMA DequeueActive ==
  ASSUME NEW r \in RunQueue, NEW t, NEW e \in TaskStruct
  PROVE  dequeue_task(r, t, e).active
           = IF e.class = "wrr" THEN list_del(r.active, t) ELSE r.active
<1>1. CASE e.class = "wrr"
  BY <1>1 DEF dequeue_task, dequeue_task_wrr, RunQueue
<1>2. CASE e.class = "rt"
  BY <1>2 DEF dequeue_task, dequeue_task_rt, RunQueue
<1>3. CASE e.class = "fair"
  BY <1>3 DEF dequeue_task, RunQueue
<1> QED BY <1>1, <1>2, <1>3 DEF TaskStruct

LEMMA ActivateActive ==
  ASSUME NEW r \in RunQueue, NEW t, NEW e \in TaskStruct
  PROVE  activate_task(r, t, e).active
           = IF e.class = "wrr" THEN list_move_tail(r.active, t) ELSE r.active
<1> DEFINE l == [r EXCEPT !.nr_uninterruptible = @ - contributes_to_load(e)]
           head == FALSE
<1>1. l \in RunQueue /\ l.active = r.active
  <2>1. r.nr_uninterruptible - contributes_to_load(e) \in Int
    BY LoadTypes DEF RunQueue
  <2> QED BY <2>1 DEF RunQueue
<1>2. activate_task(r, t, e) = enqueue_task(l, t, e, head)
  BY DEF activate_task
<1> HIDE DEF l
<1>3. enqueue_task(l, t, e, head).active
        = IF e.class = "wrr" THEN requeue_wrr_entity(l.active, t, head) ELSE l.active
  BY <1>1, EnqueueActive
<1> QED BY <1>1, <1>2, <1>3 DEF requeue_wrr_entity

LEMMA DeactivateActive ==
  ASSUME NEW r \in RunQueue, NEW t, NEW e \in TaskStruct
  PROVE  deactivate_task(r, t, e).active
           = IF e.class = "wrr" THEN list_del(r.active, t) ELSE r.active
<1> DEFINE l == [r EXCEPT !.nr_uninterruptible = @ + contributes_to_load(e)]
<1>1. l \in RunQueue /\ l.active = r.active
  <2>1. r.nr_uninterruptible + contributes_to_load(e) \in Int
    BY LoadTypes DEF RunQueue
  <2> QED BY <2>1 DEF RunQueue
<1>2. deactivate_task(r, t, e) = dequeue_task(l, t, e)
  BY DEF deactivate_task
<1> HIDE DEF l
<1>3. dequeue_task(l, t, e).active
        = IF e.class = "wrr" THEN list_del(l.active, t) ELSE l.active
  BY <1>1, DequeueActive
<1> QED BY <1>1, <1>2, <1>3
\* Only the last entry of the list p has moved behind others since it was q.
InTurn(q, p) == \A a, b : before(p, a, b) => before(q, a, b) \/ p[Len(p)] = b

\* No WRR task that stays queued has a longer slice in us than in ts, unless it
\* is the last of the list q.
NoneFresh(ts, us, q) ==
  \A t \in Task :
    /\ ts[t].on_rq /\ us[t].on_rq /\ us[t].class = "wrr"
    /\ ts[t].time_slice < us[t].time_slice
    => q[Len(q)] = t

Turned == NoOvertaking /\ FreshSliceAtTheBack

LEMMA DelInTurn ==
  ASSUME NEW T, NEW q \in Seq(T), NEW t
  PROVE  InTurn(q, list_del(q, t))
BY DelKeepsOrder DEF InTurn

LEMMA MovedLastInTurn ==
  ASSUME NEW T, NEW q \in Seq(T), NEW t \in T, Linked(q), NEW p, p = list_move_tail(q, t)
  PROVE  InTurn(q, p) /\ p[Len(p)] = t
<1> DEFINE d == list_del(q, t)
<1>1. d \in Seq(T)
  BY DelLinkedEntry, DelUnlinkedEntry
<1>2. \A a, b : before(d, a, b) => before(q, a, b)
  BY DelKeepsOrder
<1>3. p = list_add_tail(d, t)
  BY DEF list_move_tail
<1> HIDE DEF d
<1> QED BY <1>1, <1>2, <1>3, LastComesAfter DEF InTurn

\* The order and the slices a step keeps are what a turn is.
LEMMA TurnedBy ==
  ASSUME IndInv, IndInv', InTurn(rq.active, rq'.active), NoneFresh(task, task', rq'.active)
  PROVE  Turned
<1>1. Linked(rq.active) /\ Linked(rq'.active)
  BY DEF IndInv, WrrQueueConsistent, WrrQueueOK
<1>2. NoOvertaking
  <2> SUFFICES ASSUME NEW a \in Task, NEW b \in Task,
                      before(rq.active, a, b), before(rq'.active, b, a)
               PROVE  rq'.active[Len(rq'.active)] = a
    BY DEF NoOvertaking
  <2>1. ~before(rq.active, b, a)
    BY <1>1, OneIsFirst
  <2> QED BY <2>1 DEF InTurn
<1>3. FreshSliceAtTheBack
  <2> SUFFICES ASSUME NEW t \in Entries(rq.active) \cap Entries(rq'.active),
                      task[t].time_slice < task'[t].time_slice
               PROVE  rq'.active[Len(rq'.active)] = t
    BY DEF FreshSliceAtTheBack
  <2>1. t \in Task /\ task[t].on_rq
    BY DEF IndInv, WrrQueueConsistent, WrrQueueOK, in_class, on_rq
  <2>2. task'[t].on_rq /\ task'[t].class = "wrr"
    BY DEF IndInv, WrrQueueConsistent, WrrQueueOK, in_class, on_rq
  <2> QED BY <2>1, <2>2 DEF NoneFresh
<1> QED BY <1>2, <1>3 DEF Turned

\* A list that stays as it is keeps its order.
LEMMA SameInTurn ==
  ASSUME NEW q
  PROVE  InTurn(q, q)
BY DEF InTurn

\* The switch to the next task changes no list and no slice.
LEMMA TurnSwitch ==
  ASSUME IndInv, IndInv', NEW ts, NEW r, switch_to_next(ts, r),
         InTurn(rq.active, r.active), NoneFresh(task, ts, r.active)
  PROVE  Turned
<1>1. rq' = r /\ task' = [t \in Task |-> IF t = curr /\ ts[t].state = "X" THEN NoTask ELSE ts[t]]
  BY DEF switch_to_next
<1>2. NoneFresh(task, task', r.active)
  BY <1>1, NoTaskOK DEF NoneFresh
<1> QED BY <1>1, <1>2, TurnedBy

\* A step that leaves the run list alone and lengthens no slice.
LEMMA TurnFrame ==
  ASSUME IndInv, IndInv', rq'.active = rq.active,
         \A t \in Task : task[t].on_rq /\ task'[t].on_rq
                           => task'[t].time_slice <= task[t].time_slice
  PROVE  Turned
<1>1. \A t \in Task : task[t].time_slice \in Nat /\ task'[t].time_slice \in Nat
  BY DEF IndInv, TypeOK, TaskStruct
<1>2. NoneFresh(task, task', rq'.active)
  BY <1>1 DEF NoneFresh
<1> QED BY <1>2, SameInTurn, TurnedBy
\* change_task() sends the task it requeues to the back of the list, or to the
\* front when its priority drops.
LEMMA ChangeTurns ==
  ASSUME IndInv, IndInv', NEW t \in Task, NEW head \in BOOLEAN,
         NEW e \in TaskStruct, PrivateOK(e), change_task(t, e, head),
         head => task[t].prio < e.prio
  PROVE  Turned
<1> DEFINE o == task[t]
           u == changed(t, e)
           q == rq.active
           p == rq'.active
           d == list_del(q, t)
<1>0. /\ task \in [Task -> TaskStruct] /\ o \in TaskStruct /\ rq \in RunQueue
      /\ q \in Seq(Task) /\ Linked(q) /\ Linked(p)
  BY DEF IndInv, TypeOK, RunQueue, WrrQueueConsistent, WrrQueueOK
<1>1. task' = [task EXCEPT ![t] = u]
  BY DEF change_task
<1>2. u \in TaskStruct /\ u.class = e.class /\ u.prio = e.prio
  <2>1. CASE o.on_rq
    <3> DEFINE v == queued(e)
    <3>1. u = v
      BY <2>1 DEF changed
    <3>2. PICK x, y \in Nat : v = [e EXCEPT !.weight = x, !.time_slice = y]
      BY Queued
    <3> HIDE DEF v
    <3>3. v \in TaskStruct /\ v.class = e.class /\ v.prio = e.prio
      BY <3>2 DEF TaskStruct
    <3> QED BY <3>1, <3>3
  <2>2. CASE ~o.on_rq
    BY <2>2 DEF changed
  <2> QED BY <2>1, <2>2
<1>3. task'[t] = u /\ \A s \in Task : s # t => task'[s] = task[s]
  BY <1>0, <1>1
<1>4. \A s \in Task : task[s].time_slice \in Nat
  BY <1>0 DEF TaskStruct
<1> HIDE DEF u
<1>5. CASE ~o.on_rq
  <2>1. rq' = rq
    BY <1>5 DEF change_task
  <2>2. NoneFresh(task, task', p)
    BY <1>3, <1>4, <1>5 DEF NoneFresh
  <2> QED BY <2>1, <2>2, SameInTurn, TurnedBy
<1>6. ASSUME o.on_rq
      PROVE  /\ d \in Seq(Task) /\ InTurn(q, d)
             /\ p = IF e.class = "wrr" THEN requeue_wrr_entity(d, t, head) ELSE d
  <2> DEFINE m == dequeue_task(rq, t, o)
             n == enqueue_task(m, t, u, head)
  <2>1. rq' = n
    BY <1>6 DEF change_task, u
  <2>2. m \in RunQueue
    <3>1. t \in on_rq(task) /\ on_rq(task) \in SUBSET Task
      BY <1>6 DEF on_rq
    <3>2. o.class = "rt" => o.prio \in RtPrio
      BY Now, RtClassPrio DEF Good, TaskOK
    <3> QED BY <1>0, <3>1, <3>2, Now, DequeueTask DEF Good, RqOK
  <2>3. m.active = d
    <3>1. m.active = IF o.class = "wrr" THEN d ELSE q
      BY <1>0, DequeueActive
    <3>2. o.class # "wrr" => t \notin Entries(q)
      BY DEF IndInv, WrrQueueConsistent, WrrQueueOK, in_class
    <3> QED BY <3>1, <3>2, DelUnlinkedEntry
  <2> HIDE DEF m
  <2>4. n.active = IF u.class = "wrr" THEN requeue_wrr_entity(m.active, t, head) ELSE m.active
    BY <1>2, <2>2, EnqueueActive
  <2> HIDE DEF n
  <2>5. d \in Seq(Task)
    BY <1>0, DelLinkedEntry, DelUnlinkedEntry
  <2> QED BY <1>0, <1>2, <2>1, <2>3, <2>4, <2>5, DelInTurn
<1>7. CASE o.on_rq /\ e.class # "wrr"
  <2>1. NoneFresh(task, task', p)
    BY <1>2, <1>3, <1>4, <1>7 DEF NoneFresh
  <2>2. InTurn(q, p)
    BY <1>6, <1>7
  <2> QED BY <2>1, <2>2, TurnedBy
<1>8. CASE o.on_rq /\ e.class = "wrr" /\ ~head
  <2>0. d \in Seq(Task) /\ InTurn(q, d) /\ p = list_move_tail(d, t)
    BY <1>6, <1>8 DEF requeue_wrr_entity
  <2>1. Linked(d)
    BY <1>0, DelLinkedEntry, DelUnlinkedEntry
  <2> HIDE DEF d
  <2>2. InTurn(d, p) /\ p[Len(p)] = t
    BY <2>0, <2>1, MovedLastInTurn
  <2>3. InTurn(q, p)
    <3>1. \A a, b : before(d, a, b) => before(q, a, b)
      BY <1>0, DelKeepsOrder DEF d
    <3> QED BY <2>2, <3>1 DEF InTurn
  <2>4. NoneFresh(task, task', p)
    BY <1>3, <1>4, <2>2 DEF NoneFresh
  <2> QED BY <2>3, <2>4, TurnedBy
<1>9. CASE o.on_rq /\ e.class = "wrr" /\ head
  <2>0. d \in Seq(Task) /\ InTurn(q, d) /\ p = list_add(list_del(d, t), t)
    BY <1>6, <1>9 DEF requeue_wrr_entity, list_move
  <2> DEFINE c == list_del(d, t)
  <2>1. c \in Seq(Task)
    <3>1. Linked(d)
      BY <1>0, DelLinkedEntry, DelUnlinkedEntry
    <3> HIDE DEF d
    <3> QED BY <2>0, <3>1, DelLinkedEntry, DelUnlinkedEntry
  <2>2. \A a, b : before(c, a, b) => before(q, a, b)
    <3>1. \A a, b : before(c, a, b) => before(d, a, b)
      BY <2>0, DelKeepsOrder
    <3>2. \A a, b : before(d, a, b) => before(q, a, b)
      BY <1>0, DelKeepsOrder
    <3> QED BY <3>1, <3>2
  <2> HIDE DEF c
  <2>3. p[1] = t /\ \A a, b : before(p, a, b) => before(c, a, b) \/ a = t
    BY <2>0, <2>1, FirstComesBefore DEF c
  <2>4. NoOvertaking
    <3> SUFFICES ASSUME NEW a \in Task, NEW b \in Task, before(q, a, b), before(p, b, a)
                 PROVE  p[1] = b /\ task[b].prio < task'[b].prio
      BY DEF NoOvertaking
    <3>1. ~before(q, b, a)
      BY <1>0, OneIsFirst
    <3>2. b = t
      BY <2>2, <2>3, <3>1
    <3> QED BY <1>2, <1>3, <1>9, <2>3, <3>2
  <2>5. FreshSliceAtTheBack
    <3> SUFFICES ASSUME NEW s \in Entries(q) \cap Entries(p),
                        task[s].time_slice < task'[s].time_slice
                 PROVE  task[s].prio < task'[s].prio
      BY DEF FreshSliceAtTheBack
    <3>1. s \in Task
      BY DEF IndInv, WrrQueueConsistent, WrrQueueOK, in_class, on_rq
    <3>2. s = t
      BY <1>3, <1>4, <3>1
    <3> QED BY <1>2, <1>3, <1>9, <3>2
  <2> QED BY <2>4, <2>5 DEF Turned
<1> QED BY <1>5, <1>7, <1>8, <1>9
\* A wake-up queues the woken task at the back, or leaves it where it is.
LEMMA WakeTurns ==
  ASSUME NEW r \in RunQueue, NEW t \in Task, NEW e \in TaskStruct, PrivateOK(e)
  PROVE  /\ ttwu_activate(r, t, e).active \in {r.active, list_move_tail(r.active, t)}
         /\ e.on_rq => ttwu_do_wakeup(e).time_slice = e.time_slice
<1> DEFINE a == activated(e)
<1>1. CASE e.on_rq
  <2>1. ttwu_do_wakeup(e) = [e EXCEPT !.state = "R"]
    BY <1>1 DEF ttwu_do_wakeup, activated
  <2>2. ttwu_activate(r, t, e) = r
    BY <1>1 DEF ttwu_activate
  <2> QED BY <2>1, <2>2 DEF TaskStruct
<1>2. CASE ~e.on_rq
  <2> DEFINE v == queued(e)
  <2>1. v \in TaskStruct
    BY Queued
  <2>2. a = [v EXCEPT !.on_rq = TRUE]
    BY <1>2 DEF activated
  <2> HIDE DEF v
  <2>3. a \in TaskStruct
    BY <2>1, <2>2 DEF TaskStruct
  <2>4. ttwu_activate(r, t, e) = activate_task(r, t, a)
    BY <1>2 DEF ttwu_activate
  <2> HIDE DEF a
  <2> QED BY <1>2, <2>3, <2>4, ActivateActive
<1> QED BY <1>1, <1>2

LEMMA TurnSchedule ==
  ASSUME IndInv, IndInv', Schedule
  PROVE  Turned
<1> DEFINE e == task[curr]
           q == rq.active
           none == {}
<1>0. /\ Good(task, rq, none) /\ task \in [Task -> TaskStruct] /\ rq \in RunQueue
      /\ curr \in Task /\ e.on_rq /\ e \in TaskStruct /\ q \in Seq(Task) /\ Linked(q)
  BY Now DEF Schedule, TaskOK, IndInv, TypeOK, RunQueue, WrrQueueConsistent, WrrQueueOK
<1>1. \A t \in Task : task[t].time_slice \in Nat
  BY <1>0 DEF TaskStruct
<1> HIDE DEF none
<1>2. CASE e.state = "R" /\ switch_to_next(task, rq)
  <2>1. NoneFresh(task, task, q)
    BY <1>1 DEF NoneFresh
  <2> QED BY <1>2, <2>1, SameInTurn, TurnSwitch
<1>3. CASE e.state = "S" /\ switch_to_next([task EXCEPT ![curr].state = "R"], rq)
  <2> DEFINE ts == [task EXCEPT ![curr].state = "R"]
  <2>1. \A t \in Task : ts[t].time_slice = task[t].time_slice
    BY <1>0 DEF TaskStruct
  <2>2. switch_to_next(ts, rq)
    BY <1>3
  <2> HIDE DEF ts
  <2>3. NoneFresh(task, ts, q)
    BY <1>1, <2>1 DEF NoneFresh
  <2> QED BY <2>2, <2>3, SameInTurn, TurnSwitch
<1>4. ASSUME e.state # "R"
      PROVE  LET ts == [task EXCEPT ![curr].on_rq = FALSE]
                 r == deactivate_task(rq, curr, e)
             IN  (\/ switch_to_next(ts, r)
                  \/ \E w \in Worker \ {curr} :
                       /\ sleeping(ts[w])
                       /\ switch_to_next([ts EXCEPT ![w] = ttwu_do_wakeup(ts[w])],
                                         ttwu_activate(r, w, ts[w])))
                 => Turned
  <2> DEFINE ts == [task EXCEPT ![curr].on_rq = FALSE]
             r == deactivate_task(rq, curr, e)
             dead == IF e.state = "X" THEN {curr} ELSE {}
  <2>1. Good(ts, r, dead)
    BY <1>0, <1>4, GoodDeactivate DEF none
  <2>2. ~ts[curr].on_rq /\ \A t \in Task : t # curr => ts[t] = task[t]
    BY <1>0 DEF TaskStruct
  <2>3. r.active = IF e.class = "wrr" THEN list_del(q, curr) ELSE q
    BY <1>0, DeactivateActive
  <2> HIDE DEF ts, r, dead
  <2>4. \A a, b : before(r.active, a, b) => before(q, a, b)
    BY <1>0, <2>3, DelKeepsOrder
  <2>5. ASSUME switch_to_next(ts, r) PROVE Turned
    <3>1. NoneFresh(task, ts, r.active)
      BY <1>1, <2>2 DEF NoneFresh
    <3>2. InTurn(q, r.active)
      BY <2>4 DEF InTurn
    <3> QED BY <2>5, <3>1, <3>2, TurnSwitch
  <2>6. ASSUME NEW w \in Worker \ {curr}, sleeping(ts[w]),
               switch_to_next([ts EXCEPT ![w] = ttwu_do_wakeup(ts[w])],
                              ttwu_activate(r, w, ts[w]))
        PROVE  Turned
    <3> DEFINE x == ts[w]
               v == ttwu_do_wakeup(x)
               us == [ts EXCEPT ![w] = v]
               r2 == ttwu_activate(r, w, x)
    <3>1. w \in Task /\ w # curr /\ w \notin dead
      BY CoreAssumption DEF dead
    <3>2. /\ x \in TaskStruct /\ PrivateOK(x) /\ x = task[w] /\ ts \in [Task -> TaskStruct]
          /\ r \in RunQueue /\ r.active \in Seq(Task) /\ Linked(r.active)
      BY <2>1, <2>2, <3>1 DEF Good, TaskOK, RqOK, RunQueue, WrrQueueOK
    <3>3. us[w] = v /\ \A t \in Task : t # w => us[t] = ts[t]
      BY <3>1, <3>2
    <3>4. /\ r2.active \in {r.active, list_move_tail(r.active, w)}
          /\ x.on_rq => v.time_slice = x.time_slice
      BY <3>1, <3>2, WakeTurns
    <3>5. switch_to_next(us, r2)
      BY <2>6
    <3> HIDE DEF x, v, us, r2
    <3>6. NoneFresh(task, us, r2.active)
      BY <1>1, <2>2, <3>2, <3>3, <3>4 DEF NoneFresh
    <3>7. InTurn(q, r2.active)
      <4>1. InTurn(r.active, r2.active)
        BY <3>1, <3>2, <3>4, SameInTurn, MovedLastInTurn
      <4> QED BY <2>4, <4>1 DEF InTurn
    <3> QED BY <3>5, <3>6, <3>7, TurnSwitch
  <2> QED BY <2>5, <2>6 DEF ts, r
<1> QED BY <1>2, <1>3, <1>4 DEF Schedule

LEMMA TurnPreempt ==
  ASSUME IndInv, IndInv', Preempt
  PROVE  Turned
<1>1. switch_to_next(task, rq)
  BY DEF Preempt
<1>2. NoneFresh(task, task, rq.active)
  BY DEF NoneFresh, IndInv, TypeOK, TaskStruct
<1> QED BY <1>1, <1>2, SameInTurn, TurnSwitch

LEMMA TurnYield ==
  ASSUME IndInv, IndInv', Yield
  PROVE  Turned
<1> DEFINE e == task[curr]
<1>0. /\ curr \in Task /\ e \in TaskStruct /\ rq \in RunQueue
      /\ rq.active \in Seq(Task) /\ Linked(rq.active)
  BY Now DEF Yield, running_task, TaskOK, IndInv, TypeOK, RunQueue, WrrQueueConsistent,
             WrrQueueOK
<1>1. PICK r : /\ switch_to_next(task, r)
               /\ r = CASE e.class = "wrr" -> yield_task_wrr(rq, curr)
                        [] e.class = "rt"  -> requeue_task_rt(rq, curr, e)
                        [] OTHER           -> rq
  BY DEF Yield
<1>2. r.active \in {rq.active, list_move_tail(rq.active, curr)}
  <2>1. CASE e.class = "wrr"
    BY <1>0, <1>1, <2>1 DEF yield_task_wrr, requeue_wrr_entity, RunQueue
  <2>2. CASE e.class = "rt"
    BY <1>0, <1>1, <2>2 DEF requeue_task_rt, RunQueue
  <2>3. CASE e.class = "fair"
    BY <1>0, <1>1, <2>3
  <2> QED BY <1>0, <2>1, <2>2, <2>3 DEF TaskStruct
<1>3. InTurn(rq.active, r.active)
  BY <1>0, <1>2, SameInTurn, MovedLastInTurn
<1>4. NoneFresh(task, task, r.active)
  BY DEF NoneFresh, IndInv, TypeOK, TaskStruct
<1> QED BY <1>1, <1>3, <1>4, TurnSwitch
LEMMA TurnSetState ==
  ASSUME IndInv, IndInv', NEW s, curr # Idle, task' = [task EXCEPT ![curr].state = s],
         rq' = rq
  PROVE  Turned
<1>1. task \in [Task -> TaskStruct] /\ curr \in Task /\ rq'.active = rq.active
  BY Now
<1>2. \A t \in Task : task'[t].time_slice = task[t].time_slice /\ task[t].time_slice \in Nat
  BY <1>1 DEF TaskStruct
<1> QED BY <1>1, <1>2, TurnFrame

\* A slice that runs out is renewed only for the last of the list.
LEMMA TurnTickWrr ==
  ASSUME IndInv, IndInv', TickWrr
  PROVE  Turned
<1> DEFINE e == task[curr]
           q == rq.active
<1>0. /\ curr \in Task /\ e \in TaskStruct /\ e.on_rq /\ e.class = "wrr"
      /\ task \in [Task -> TaskStruct] /\ SliceOK(e)
  <2>1. curr # Idle
    BY DEF TickWrr, curr_of, idle_task, NoTask
  <2> QED BY <2>1, Now DEF TickWrr, curr_of, TaskOK
<1>1. /\ q \in Seq(Task) /\ Linked(q) /\ curr \in Entries(q) /\ rq \in RunQueue
  BY <1>0 DEF IndInv, TypeOK, RunQueue, WrrQueueConsistent, WrrQueueOK, in_class, on_rq
<1>2. e.time_slice \in Nat /\ e.time_slice >= 1
  BY <1>0 DEF SliceOK, TaskStruct
<1>3. PICK throttled \in wrr_throttled :
        /\ task' = [task EXCEPT ![curr].time_slice = tick_slice_wrr(e)]
        /\ rq' = IF tick_retires_wrr(rq, e, throttled) THEN yield_task_wrr(rq, curr) ELSE rq
  BY DEF TickWrr
<1>4. /\ task'[curr].time_slice = tick_slice_wrr(e)
      /\ \A t \in Task : t # curr => task'[t] = task[t]
  BY <1>0, <1>3 DEF TaskStruct
<1>5. \A t \in Task : task[t].time_slice \in Nat
  BY <1>0 DEF TaskStruct
<1>6. CASE e.time_slice > 1
  <2>1. tick_slice_wrr(e) = e.time_slice - 1
    BY <1>2, <1>6 DEF tick_slice_wrr
  <2>2. rq' = rq
    BY <1>2, <1>3, <1>6 DEF tick_retires_wrr, tick_expires_wrr
  <2>3. \A t \in Task : task'[t].time_slice <= task[t].time_slice
    BY <1>2, <1>4, <1>5, <2>1
  <2> QED BY <2>2, <2>3, TurnFrame
<1>7. CASE tick_retires_wrr(rq, e, throttled)
  <2>1. rq'.active = list_move_tail(q, curr)
    BY <1>1, <1>3, <1>7 DEF yield_task_wrr, requeue_wrr_entity, RunQueue
  <2>2. InTurn(q, rq'.active) /\ rq'.active[Len(rq'.active)] = curr
    BY <1>0, <1>1, <2>1, MovedLastInTurn
  <2>3. NoneFresh(task, task', rq'.active)
    BY <1>4, <1>5, <2>2 DEF NoneFresh
  <2> QED BY <2>2, <2>3, TurnedBy
<1>8. CASE e.time_slice <= 1 /\ ~tick_retires_wrr(rq, e, throttled)
  <2>1. rq' = rq /\ ~(Len(q) > 1)
    BY <1>3, <1>8 DEF tick_retires_wrr, tick_expires_wrr
  <2>2. q[Len(q)] = curr
    <3>1. PICK i \in 1..Len(q) : q[i] = curr
      BY <1>1 DEF Entries
    <3>2. Len(q) \in Nat
      BY <1>1
    <3> QED BY <2>1, <3>1, <3>2
  <2>3. NoneFresh(task, task', rq'.active)
    BY <1>4, <1>5, <2>1, <2>2 DEF NoneFresh
  <2> QED BY <2>1, <2>3, SameInTurn, TurnedBy
<1> QED BY <1>2, <1>6, <1>7, <1>8

LEMMA TurnTick ==
  ASSUME IndInv, IndInv', Tick
  PROVE  Turned
<1> DEFINE e == task[curr]
<1>0. rq \in RunQueue /\ task \in [Task -> TaskStruct]
  BY DEF IndInv, TypeOK
<1>1. \A t \in Task : task[t].time_slice \in Nat
  BY <1>0 DEF TaskStruct
<1>2. CASE TickRt
  <2>1. curr \in Task
    <3>1. curr # Idle
      BY <1>2 DEF TickRt, curr_of, idle_task, NoTask
    <3> QED BY <3>1, Now
  <2>2. rq'.active = rq.active
    <3>1. rq' \in {rq, requeue_task_rt(rq, curr, e)}
      BY <1>2 DEF TickRt
    <3> QED BY <1>0, <3>1 DEF requeue_task_rt, RunQueue
  <2>3. \A t \in Task : task'[t].time_slice = task[t].time_slice
    BY <1>0, <1>2, <2>1 DEF TickRt, TaskStruct
  <2> QED BY <1>1, <2>2, <2>3, TurnFrame
<1>3. CASE TickFair
  <2>1. rq' = rq /\ task' = task
    BY <1>3 DEF TickFair
  <2> QED BY <1>1, <2>1, TurnFrame
<1> QED BY <1>2, <1>3, TurnTickWrr DEF Tick

LEMMA TurnWakeUp ==
  ASSUME IndInv, IndInv', NEW t \in Task, TryToWakeUp(t)
  PROVE  Turned
<1> DEFINE e == task[t]
           w == ttwu_do_wakeup(e)
<1>0. /\ task \in [Task -> TaskStruct] /\ e \in TaskStruct /\ PrivateOK(e)
      /\ rq \in RunQueue /\ rq.active \in Seq(Task) /\ Linked(rq.active)
  BY Now DEF Good, TaskOK, IndInv, TypeOK, RunQueue, WrrQueueConsistent, WrrQueueOK
<1>1. \A u \in Task : task[u].time_slice \in Nat
  BY <1>0 DEF TaskStruct
<1>2. rq' = ttwu_activate(rq, t, e) /\ task' = [task EXCEPT ![t] = w]
  BY DEF TryToWakeUp
<1>3. /\ rq'.active \in {rq.active, list_move_tail(rq.active, t)}
      /\ e.on_rq => w.time_slice = e.time_slice
  BY <1>0, <1>2, WakeTurns
<1>4. task'[t] = w /\ \A u \in Task : u # t => task'[u] = task[u]
  BY <1>0, <1>2
<1> HIDE DEF w
<1>5. NoneFresh(task, task', rq'.active)
  BY <1>1, <1>3, <1>4 DEF NoneFresh
<1>6. InTurn(rq.active, rq'.active)
  BY <1>0, <1>3, SameInTurn, MovedLastInTurn
<1> QED BY <1>5, <1>6, TurnedBy

LEMMA TurnFork ==
  ASSUME IndInv, IndInv', NEW t \in Task, SchedFork(t)
  PROVE  Turned
<1>1. task \in [Task -> TaskStruct] /\ Accounted(task[t]) /\ task[t].phase = "none"
  BY Now DEF Good, TaskOK, SchedFork
<1>2. rq' = rq /\ ~task[t].on_rq
  BY <1>1 DEF SchedFork, Accounted
<1>3. \A u \in Task : u # t => task'[u] = task[u] /\ task[u].time_slice \in Nat
  BY <1>1 DEF SchedFork, TaskStruct
<1> QED BY <1>2, <1>3, TurnFrame

LEMMA TurnNewTask ==
  ASSUME IndInv, IndInv', NEW t \in Task, WakeUpNewTask(t)
  PROVE  Turned
<1> DEFINE e == [queued(wrr_set_weight(task[t])) EXCEPT !.on_rq = TRUE,
                                                   !.phase = "live", !.parent = Idle]
<1>0. /\ TaskOK(task[t]) /\ task[t].phase = "forked" /\ task \in [Task -> TaskStruct]
      /\ rq \in RunQueue /\ rq.active \in Seq(Task) /\ Linked(rq.active)
  BY Now DEF WakeUpNewTask, Good, IndInv, TypeOK, RunQueue, WrrQueueConsistent, WrrQueueOK
<1>1. task' = [task EXCEPT ![t] = e] /\ rq' = activate_task(rq, t, e)
  BY DEF WakeUpNewTask
<1>2. e \in TaskStruct /\ ~task[t].on_rq
  BY <1>0, NewTask DEF TaskOK, Accounted
<1> HIDE DEF e
<1>3. rq'.active \in {rq.active, list_move_tail(rq.active, t)}
  BY <1>0, <1>1, <1>2, ActivateActive
<1>4. InTurn(rq.active, rq'.active)
  BY <1>0, <1>3, SameInTurn, MovedLastInTurn
<1>5. \A u \in Task : u # t => task'[u] = task[u] /\ task[u].time_slice \in Nat
  BY <1>0, <1>1 DEF TaskStruct
<1>6. NoneFresh(task, task', rq'.active)
  BY <1>2, <1>5 DEF NoneFresh
<1> QED BY <1>4, <1>6, TurnedBy
LEMMA TurnSetscheduler ==
  ASSUME IndInv, IndInv', NEW t \in Task, NEW policy \in Policy, NEW prio \in SchedPriority,
         NEW reset \in ResetOnFork, SchedSetscheduler(t, policy, prio, reset)
  PROVE  Turned
<1> DEFINE o == [task[t] EXCEPT !.reset_on_fork = reset]
           e == setscheduler(o, policy, prio)
           head == FALSE
<1>0. task[t] \in TaskStruct /\ PrivateOK(task[t])
  BY Now DEF Good, TaskOK
<1>1. PrivateOK(o) /\ o \in TaskStruct
  <2>1. reset \in BOOLEAN
    BY CoreAssumption
  <2> QED BY <1>0, <2>1 DEF TaskStruct, PrivateOK
<1>2. change_task(t, e, head) /\ head \in BOOLEAN /\ ~head
  BY DEF SchedSetscheduler
<1> HIDE DEF o, head
<1>3. e \in TaskStruct /\ PrivateOK(e)
  BY <1>1, Setscheduler
<1> HIDE DEF e
<1> QED BY <1>2, <1>3, ChangeTurns

LEMMA TurnSetprio ==
  ASSUME IndInv, IndInv', NEW t \in Task, NEW waiter \in BoostPrio \cup {MAX_PRIO},
         RtMutexSetprio(t, waiter)
  PROVE  Turned
<1> DEFINE o == task[t]
           b == [o EXCEPT !.pi_prio = waiter]
           n == [b EXCEPT !.prio = rt_mutex_getprio(b)]
           e == [n EXCEPT !.class = class_of(n.prio, n.policy)]
<1>0. TaskOK(o) /\ o \in TaskStruct /\ o.phase = "live" /\ task \in [Task -> TaskStruct]
  BY Now DEF Good, TaskOK, RtMutexSetprio
<1>1. waiter \in 0..MAX_PRIO
  BY CoreAssumption
<1>2. /\ b \in TaskStruct /\ b.time_slice = o.time_slice
      /\ b.normal_prio = o.normal_prio /\ b.policy = o.policy
      /\ b.rt_priority = o.rt_priority /\ b.static_prio = o.static_prio
      /\ b.phase = o.phase /\ b.custom_weight = o.custom_weight /\ b.weight = o.weight
  BY <1>0, <1>1 DEF TaskStruct
<1>3. PrivateOK(b) /\ b.normal_prio = normal_prio(b)
  BY <1>0, <1>2 DEF TaskOK, PrivateOK, ClassOK, normal_prio
<1> HIDE DEF b
<1>4. CASE rt_mutex_getprio(b) = o.prio
  <2>1. task' = [task EXCEPT ![t] = b] /\ rq' = rq
    BY <1>4 DEF RtMutexSetprio, b
  <2>2. \A u \in Task : task'[u].time_slice = task[u].time_slice /\ task[u].time_slice \in Nat
    BY <1>0, <1>2, <2>1 DEF TaskStruct
  <2> QED BY <2>1, <2>2, TurnFrame
<1>5. CASE rt_mutex_getprio(b) # o.prio
  <2> DEFINE head == o.prio < e.prio
  <2>1. head \in BOOLEAN /\ change_task(t, e, head) /\ (head => o.prio < e.prio)
    BY <1>5 DEF RtMutexSetprio, b
  <2>2. n.prio = rt_mutex_getprio(b) /\ n.policy = b.policy
    BY <1>2 DEF TaskStruct
  <2>3. e = [b EXCEPT !.prio = rt_mutex_getprio(b),
                      !.class = class_of(rt_mutex_getprio(b), b.policy)]
    BY <1>2, <2>2 DEF TaskStruct
  <2>4. e \in TaskStruct /\ PrivateOK(e)
    BY <1>2, <1>3, <2>3, SetClass
  <2> HIDE DEF head, e
  <2> QED BY <2>1, <2>4, ChangeTurns
<1> QED BY <1>4, <1>5

LEMMA TurnSetNice ==
  ASSUME IndInv, IndInv', NEW t \in Task, NEW nice \in StaticPrio, SetUserNice(t, nice)
  PROVE  Turned
<1> DEFINE o == task[t]
           s == [o EXCEPT !.static_prio = nice]
           e == [s EXCEPT !.normal_prio = normal_prio(s), !.prio = effective_prio(s)]
           head == FALSE
<1>0. /\ o \in TaskStruct /\ ClassOK(o) /\ PrivateOK(o)
      /\ task \in [Task -> TaskStruct]
  BY Now DEF Good, TaskOK
<1>1. CASE rt_policy(o.policy)
  <2>1. task' = [task EXCEPT ![t] = s] /\ rq' = rq
    BY <1>1 DEF SetUserNice
  <2>2. \A u \in Task : task'[u].time_slice = task[u].time_slice /\ task[u].time_slice \in Nat
    BY <1>0, <2>1 DEF TaskStruct
  <2> QED BY <2>1, <2>2, TurnFrame
<1>2. CASE ~rt_policy(o.policy)
  <2>1. change_task(t, e, head) /\ head \in BOOLEAN /\ ~head
    BY <1>2 DEF SetUserNice
  <2> HIDE DEF head
  <2>2. e \in TaskStruct /\ PrivateOK(e)
    <3> HIDE DEF o
    <3> QED BY <1>0, <1>2, Renice
  <2> HIDE DEF e
  <2> QED BY <2>1, <2>2, ChangeTurns
<1> QED BY <1>1, <1>2

LEMMA TurnMoveTask ==
  ASSUME IndInv, IndInv', NEW t \in Task, NEW g \in Group, SchedMoveTask(t, g)
  PROVE  Turned
<1> DEFINE e == [task[t] EXCEPT !.group = g]
           head == FALSE
<1>1. task[t] \in TaskStruct /\ PrivateOK(task[t])
  BY Now DEF Good, TaskOK
<1>2. e \in TaskStruct /\ PrivateOK(e)
  BY <1>1 DEF TaskStruct, PrivateOK
<1>3. change_task(t, e, head) /\ head \in BOOLEAN /\ ~head
  BY DEF SchedMoveTask
<1> HIDE DEF e, head
<1> QED BY <1>2, <1>3, ChangeTurns

\* Every step keeps the turns.
LEMMA NextTurns ==
  ASSUME IndInv, [Next]_vars
  PROVE  Turned \/ UNCHANGED vars
<1>0. IndInv'
  BY NextInv
<1>1. CASE Schedule \/ Preempt \/ Yield \/ Tick
  BY <1>0, <1>1, TurnSchedule, TurnPreempt, TurnYield, TurnTick
<1>2. CASE Exit \/ \E s \in SleepState \cup {"R"} : SetCurrentState(s)
  BY <1>0, <1>2, TurnSetState DEF SetCurrentState, Exit, running_task
<1>3. ASSUME NEW t \in Task, TryToWakeUp(t) \/ SchedFork(t) \/ WakeUpNewTask(t) PROVE Turned
  BY <1>0, <1>3, TurnWakeUp, TurnFork, TurnNewTask
<1>4. ASSUME NEW t \in Task, NEW policy \in Policy, NEW prio \in SchedPriority,
             NEW reset \in ResetOnFork, SchedSetscheduler(t, policy, prio, reset)
      PROVE  Turned
  BY <1>0, <1>4, TurnSetscheduler
<1>5. ASSUME NEW t \in Task, NEW waiter \in BoostPrio \cup {MAX_PRIO},
             RtMutexSetprio(t, waiter)
      PROVE  Turned
  BY <1>0, <1>5, TurnSetprio
<1>6. ASSUME NEW t \in Task, NEW nice \in StaticPrio, SetUserNice(t, nice) PROVE Turned
  BY <1>0, <1>6, TurnSetNice
<1>7. ASSUME NEW t \in Task, NEW g \in Group, SchedMoveTask(t, g) PROVE Turned
  BY <1>0, <1>7, TurnMoveTask
<1> QED BY <1>1, <1>2, <1>3, <1>4, <1>5, <1>6, <1>7 DEF Next

-----------------------------------------------------------------------------
(* The theorems *)

\* The inductive invariant holds in every reachable state, for every number of
\* tasks, groups, priorities and weights.
THEOREM Invariance == Spec => []IndInv
<1>1. Init => IndInv
  BY InitInv
<1>2. IndInv /\ [Next]_vars => IndInv'
  BY NextInv
<1> QED BY <1>1, <1>2, PTL DEF Spec

\* Type correctness: no slice, weight, priority or bit leaves its range.
THEOREM TypeCorrect == Spec => []TypeOK
<1>1. IndInv => TypeOK
  BY DEF IndInv
<1> QED BY <1>1, Invariance, PTL

\* The WRR run list and its count agree with the queued tasks of the class, so
\* pick_next_wrr_entity() always finds a task.
THEOREM WrrQueueCorrect == Spec => []WrrQueueConsistent
<1>1. IndInv => WrrQueueConsistent
  BY DEF IndInv
<1> QED BY <1>1, Invariance, PTL

\* The RT priority array, its bitmap and its count agree with the queued tasks
\* of the class.
THEOREM RtQueueCorrect == Spec => []RtQueueConsistent
<1>1. IndInv => RtQueueConsistent
  BY DEF IndInv
<1> QED BY <1>1, Invariance, PTL

\* nr_running and cfs_nr_running count what pick_next_task() takes them to.
THEOREM CountersCorrect == Spec => []CountersConsistent
<1>1. IndInv => CountersConsistent
  BY DEF IndInv
<1> QED BY <1>1, Invariance, PTL

\* The BUG_ON() of task_tick_wrr() never fires and no queued WRR task holds
\* more than one turn of its weight.
THEOREM SliceCorrect == Spec => []SliceWithinTurn
<1>1. IndInv => SliceWithinTurn
  BY DEF IndInv
<1> QED BY <1>1, Invariance, PTL

\* A queued WRR task without a weight of its own has that of its group.
THEOREM WeightCorrect == Spec => []WeightFollowsGroup
<1>1. IndInv => WeightFollowsGroup
  BY DEF IndInv
<1> QED BY <1>1, Invariance, PTL

\* The class of a task is that of its policy and effective priority.
THEOREM ClassCorrect == Spec => []ClassMatches
<1>1. IndInv => ClassMatches
  BY DEF IndInv
<1> QED BY <1>1, Invariance, PTL

\* A task is queued or in a sleep a wake-up ends, and the running task is queued.
THEOREM NobodyLost == Spec => []NoTaskLost
<1>1. IndInv => NoTaskLost
  BY DEF IndInv
<1> QED BY <1>1, Invariance, PTL

\* total_weight is the sum of the weights of the queued WRR tasks whatever
\* changes them, and every queued task has the weight and the slice it should.
THEOREM WeightsCorrect == Spec => []WeightsConsistent
<1>1. Init => Balanced(task, rq)
  BY InitBalance
<1>2. IndInv /\ Balanced(task, rq) /\ [Next]_vars => Balanced(task, rq)'
  BY NextBalance
<1>3. IndInv /\ Balanced(task, rq) => WeightsConsistent
  BY BalancedMeans DEF IndInv, WeightsConsistent
<1> QED BY <1>1, <1>2, <1>3, Invariance, PTL DEF Spec

\* nr_uninterruptible counts the tasks asleep in state D, and no task is lost,
\* whatever happens between setting the state and sleeping.
THEOREM SleepersCorrect == Spec => []SleepersKept
<1>1. Init => Balanced(task, rq)
  BY InitBalance
<1>2. IndInv /\ Balanced(task, rq) /\ [Next]_vars => Balanced(task, rq)'
  BY NextBalance
<1>3. IndInv /\ Balanced(task, rq) => SleepersKept
  BY BalancedMeans DEF IndInv, SleepersKept
<1> QED BY <1>1, <1>2, <1>3, Invariance, PTL DEF Spec

\* A queued RT task waits for another class only after the running task itself
\* was moved to one: every wake-up, fork, priority change of another task and
\* switch serves it first.
THEOREM RtWaitsCorrect == Spec => RtWaitsOnlyForDemotion
<1>1. IndInv /\ [Next]_vars
        => [~RtKeptWaiting /\ RtKeptWaiting'
              => curr' = curr /\ curr # Idle /\ task[curr].class # task'[curr].class]_vars
  BY NextServesRt DEF Demoted
<1> QED BY <1>1, Invariance, PTL DEF Spec, RtWaitsOnlyForDemotion

\* The run list goes round: a task overtakes another only when that one is sent
\* to the back or it drops an inherited priority itself, and a task with a
\* fresh slice is the last, whatever task runs, wakes, forks or changes policy.
THEOREM TurnsCorrect == Spec => TurnsGoRound
<1>1. IndInv /\ [Next]_vars => [NoOvertaking /\ FreshSliceAtTheBack]_vars
  BY NextTurns DEF Turned
<1> QED BY <1>1, Invariance, PTL DEF Spec, TurnsGoRound

=============================================================================
