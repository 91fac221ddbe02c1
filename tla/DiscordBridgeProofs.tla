------------------------- MODULE DiscordBridgeProofs -------------------------
(***************************************************************************)
(* Theorems about the Discord transport for any number of processes and    *)
(* messages, any settings and any bound of the queue and of the ledger.    *)
(***************************************************************************)
EXTENDS DiscordBridge, FiniteSetTheorems, TLAPS

-----------------------------------------------------------------------------
\* Executions.

\* NeverRunTwice alone is not inductive: that a second execution does not begin
\* needs that every one begun is in the requests table, which nothing shortens.
Recording ==
    /\ runs \in [Messages -> Nat]
    /\ requests \subseteq Messages /\ owed \subseteq requests
    /\ \A m \in Messages : runs[m] <= 1 /\ (runs[m] # 0 => m \in requests)

LEMMA InitRecording == Init => Recording
BY DEF Init, Recording

LEMMA NextRecording == Recording /\ [Next]_vars => Recording'
<1> SUFFICES ASSUME Recording, [Next]_vars PROVE Recording'
  OBVIOUS
<1>1. CASE UNCHANGED <<runs, requests>> /\ owed' \subseteq owed
  BY <1>1 DEF Recording
<1>2. ASSUME NEW p \in Processes, NEW t \in {"inbox", "sweep"}, NEW m \in Messages,
             Converse(p, t, m)
      PROVE Recording'
  <2>1. CASE /\ m \notin requests
             /\ requests' = requests \cup {m} /\ runs' = [runs EXCEPT ![m] = @ + 1]
             /\ owed' = owed \cup {m}
    <3>1. runs[m] = 0
      BY <2>1 DEF Recording
    <3>2. runs'[m] = 1 /\ \A n \in Messages \ {m} : runs'[n] = runs[n]
      BY <2>1, <3>1 DEF Recording
    <3> QED BY <2>1, <3>2 DEF Recording
  <2> QED BY <1>1, <1>2, <2>1 DEF Converse, Recorded
<1>3. ASSUME NEW p \in Processes, NEW t \in {"inbox", "sweep"}, NEW m \in Messages,
             RecordJob(p, t, m)
      PROVE Recording'
  BY <1>3 DEF RecordJob, Recording, history
<1>4. ASSUME NEW p \in Processes, NEW t \in {"inbox", "sweep"}, NEW m \in Messages,
             Work(p, t, m)
      PROVE Recording'
  <2>1. CASE Begin(p, t, m) \/ Answered(p, t, m) \/ Finish(p, t, m)
    BY <2>1, <1>1 DEF Begin, Answered, Finish, ledger, history
  <2>2. CASE EnqueueJob(p, t, m) \/ SettleJob(p, t, m)
    BY <2>2, <1>1 DEF EnqueueJob, SettleJob, ledger, history
  <2>3. ASSUME NEW ok \in BOOLEAN,
               \/ Greet(p, t, m, ok) \/ LimitsSent(p, t, m, ok) \/ Delivered(p, t, m, ok)
               \/ NoticeSent(p, t, m, ok) \/ FailureSent(p, t, m, ok)
        PROVE Recording'
    BY <2>3, <1>1 DEF Greet, LimitsSent, Delivered, NoticeSent, FailureSent, ledger, history
  <2>4. ASSUME NEW route, Classified(p, t, m, route)
        PROVE Recording'
    BY <2>4, <1>1 DEF Classified, ledger, history
  <2>5. ASSUME NEW refused \in BOOLEAN, ExecutionFails(p, t, m, refused)
        PROVE Recording'
    BY <2>5, <1>1 DEF ExecutionFails, ledger, history
  <2> QED BY <1>2, <1>3, <1>4, <2>1, <2>2, <2>3, <2>4, <2>5 DEF Work
<1>5. ASSUME NEW p \in Processes, Start(p) \/ Crash(p) \/ Shutdown(p) \/ WatchDrain(p) \/ SweepStart(p)
      PROVE Recording'
  BY <1>5, <1>1 DEF Start, Crash, Shutdown, WatchDrain, SweepStart, ledger, history
<1>6. ASSUME NEW p \in Processes, NEW m \in Messages,
             Receive(p, m) \/ ReceiveCrash(p, m) \/ TakeNext(p, m) \/ SweepTake(p, m)
      PROVE Recording'
  BY <1>6, <1>1 DEF Receive, ReceiveCrash, TakeNext, SweepTake, ledger, history
<1>7. ASSUME NEW p \in Processes, NEW m \in Messages, OutboxTake(p, m) \/ ClaimDelivery(p, m)
      PROVE Recording'
  BY <1>7, <1>1 DEF OutboxTake, ClaimDelivery, ledger, history
<1>8. ASSUME NEW p \in Processes, NEW m \in Messages, NEW ok \in BOOLEAN,
             ReceiptAnswered(p, m, ok) \/ ReceiptSent(p, m, ok) \/ ReportSent(p, m, ok)
      PROVE Recording'
  BY <1>8, <1>1 DEF ReceiptAnswered, ReceiptSent, ReportSent, ledger, history
<1>9. ASSUME NEW p \in Processes, SeeIdle(p) \/ KillIdle(p)
      PROVE Recording'
  BY <1>9, <1>1 DEF SeeIdle, KillIdle, ledger, history
<1>10. ASSUME NEW m \in Messages, ReportStored(m)
       PROVE Recording'
  BY <1>10, <1>1 DEF ReportStored, ledger, history
<1>11. CASE SetDrain \/ GiveUp
  BY <1>11, <1>1 DEF SetDrain, GiveUp, ledger, history
<1>12. CASE UNCHANGED vars
  BY <1>12, <1>1 DEF vars, ledger, history
<1> QED
  <2> HIDE DEF Recording
  <2>1. CASE Next
    BY <2>1, <1>4, <1>5, <1>6, <1>7, <1>8, <1>9, <1>10, <1>11, Zenon DEF Next
  <2> QED BY <1>12, <2>1

\* No message is executed twice, whatever is redelivered and wherever processes die:
\* BridgeLedger.claim is committed before the execution begins.
THEOREM RunsOnce == Spec => []NeverRunTwice
<1>1. Recording => NeverRunTwice
  BY DEF Recording, NeverRunTwice
<1> QED BY <1>1, InitRecording, NextRecording, PTL DEF Spec

-----------------------------------------------------------------------------
\* Drains.

\* The shape of the variables the drain depends on.
DrainTyped ==
    /\ process \in [Processes -> {"unborn", "up", "dead"}]
    /\ task \in [Processes -> [Tasks -> [at : Awaiting \cup Between, msg : Messages \cup {None}]]]
    /\ receiving \in [Processes -> SUBSET Messages]
    /\ issued \in Nat /\ drain \in 0 .. issued
    /\ ack \in [by : Processes \cup {None}, idle : BOOLEAN, token : 0 .. issued]

\* The answer of p to the present drain, of a time when p had nothing to do.
SaysIdle(p) == drain # 0 /\ ack = [by |-> p, idle |-> TRUE, token |-> drain]

\* RestartInterruptsNothing alone is not inductive: the adapter reads the file, and
\* what the file says must hold for as long as its token is that of the drain, which
\* a later drain never has again.
DrainInv ==
    /\ DrainTyped
    /\ \A p \in Processes : ~Up(p) => Idle(p)
    /\ \A p \in Processes : SaysIdle(p) => Idle(p)
    /\ \A p \in Processes : seen = p => drain # 0 /\ Idle(p)

LEMMA InitDrain == Init => DrainInv
BY BridgeAssumption DEF Init, DrainInv, DrainTyped, SaysIdle, Idle, Up, Free, Awaiting, Between

\* Steps that leave the marker and the adapter alone, and wake no idle process while
\* there is a drain, keep the invariant; so may the answer be written anew.
Calm ==
    /\ DrainTyped'
    /\ UNCHANGED <<drain, issued, seen>>
    /\ \A p \in Processes : Idle(p) /\ (drain # 0 \/ ~Up(p)') => Idle(p)'
    /\ \A p \in Processes : Up(p) /\ ~Up(p)' => Idle(p)'
    /\ ack' = ack \/ \E p \in Processes : Published(p)

LEMMA CalmKeepsDrain == DrainInv /\ Calm => DrainInv'
<1> SUFFICES ASSUME DrainInv, Calm PROVE DrainInv'
  OBVIOUS
<1>1. \A p \in Processes : (~Up(p) => Idle(p))'
  BY DEF DrainInv, Calm
<1>2. ASSUME NEW p \in Processes, SaysIdle(p)' PROVE Idle(p)'
  <2>1. CASE ack' = ack
    BY <1>2, <2>1 DEF DrainInv, Calm, SaysIdle
  <2>2. ASSUME NEW q \in Processes, Published(q) PROVE Idle(p)'
    <3>1. q = p /\ Idle(q)' = TRUE
      BY <1>2, <2>2 DEF Published, SaysIdle
    <3> QED BY <3>1
  <2> QED BY <2>1, <2>2 DEF Calm
<1>3. \A p \in Processes : (seen = p => drain # 0 /\ Idle(p))'
  BY DEF DrainInv, Calm
<1> QED BY <1>1, <1>2, <1>3 DEF DrainInv, Calm

LEMMA AckTyped ==
    ASSUME DrainInv, NEW p \in Processes, ack' = ack \/ Published(p)
    PROVE  ack' \in [by : Processes \cup {None}, idle : BOOLEAN, token : 0 .. issued]
<1>1. Idle(p)' \in BOOLEAN
  BY DEF Idle
<1>2. ASSUME NEW b \in BOOLEAN
      PROVE  [by |-> p, idle |-> b, token |-> drain]
                \in [by : Processes \cup {None}, idle : BOOLEAN, token : 0 .. issued]
  BY DEF DrainInv, DrainTyped
<1>3. CASE Published(p)
  BY <1>1, <1>2, <1>3 DEF Published
<1> QED BY <1>3 DEF DrainInv, DrainTyped

\* A task that works on a message keeps its process from being idle already, so that
\* what it does next wakes nobody.
LEMMA WorkIsCalm ==
    ASSUME DrainInv, NEW p \in Processes, NEW t \in Tasks, task[p][t] # Free,
           NEW a \in Awaiting \cup Between, NEW n \in Messages \cup {None},
           task' = [task EXCEPT ![p][t] = [at |-> a, msg |-> n]],
           UNCHANGED <<process, receiving, adapter>>, ack' = ack \/ Published(p)
    PROVE  DrainInv'
<1> DEFINE Place == [at : Awaiting \cup Between, msg : Messages \cup {None}]
<1>1. task' \in [Processes -> [Tasks -> Place]]
  <2>1. [at |-> a, msg |-> n] \in Place
    OBVIOUS
  <2> QED BY <2>1 DEF DrainInv, DrainTyped
<1>2. ack' \in [by : Processes \cup {None}, idle : BOOLEAN, token : 0 .. issued]
  BY AckTyped
<1>3. ASSUME NEW q \in Processes, Idle(q) PROVE Idle(q)'
  BY <1>3 DEF DrainInv, DrainTyped, Idle
<1>4. Calm
  BY <1>1, <1>2, <1>3 DEF DrainInv, DrainTyped, Calm, Up, adapter
<1> QED BY <1>4, CalmKeepsDrain

LEMMA WorkKeepsDrain ==
    ASSUME DrainInv, NEW p \in Processes, NEW t \in {"inbox", "sweep"}, NEW m \in Messages,
           Work(p, t, m)
    PROVE  DrainInv'
<1> DEFINE Moves(a, n) ==
      /\ task' = [task EXCEPT ![p][t] = [at |-> a, msg |-> n]]
      /\ UNCHANGED <<process, receiving, adapter>> /\ (ack' = ack \/ Published(p))
<1>1. \A a \in (Awaiting \cup Between) \ {"free"} : Does(p, t, a, m) => task[p][t] # Free
  BY DEF Does, Free
<1>2. t \in Tasks /\ m \in Messages \cup {None} /\ None \in Messages \cup {None}
  BY DEF Tasks
<1>3. ASSUME task[p][t] # Free,
             NEW a \in Awaiting \cup Between, NEW n \in Messages \cup {None}, Moves(a, n)
      PROVE  DrainInv'
  BY <1>2, <1>3, WorkIsCalm
<1> USE DEF Goes, Awaiting, Telling, Between, history
<1>4. CASE Begin(p, t, m)
  <2>1. task[p][t] # Free
    BY <1>1, <1>4 DEF Begin
  <2>2. \E a \in {"converse", "closing", "classify", "greet"} : Moves(a, m)
    BY <1>4 DEF Begin, Routed
  <2> QED BY <1>2, <1>3, <2>1, <2>2
<1>5. ASSUME NEW ok \in BOOLEAN, Greet(p, t, m, ok) PROVE DrainInv'
  <2>1. \E a \in {"converse", "closing", "classify"} : Moves(a, m)
    BY <1>5 DEF Greet, Routed
  <2> QED BY <1>1, <1>2, <1>3, <1>5, <2>1 DEF Greet
<1>6. ASSUME NEW route, Classified(p, t, m, route) PROVE DrainInv'
  <2>1. \E a \in {"converse", "closing", "notice", "limits", "enqueue"} : Moves(a, m)
    BY <1>6 DEF Classified, AfterError
  <2> QED BY <1>1, <1>2, <1>3, <1>6, <2>1 DEF Classified
<1>7. ASSUME NEW ok \in BOOLEAN,
             \/ LimitsSent(p, t, m, ok) \/ Delivered(p, t, m, ok)
             \/ NoticeSent(p, t, m, ok) \/ FailureSent(p, t, m, ok)
      PROVE DrainInv'
  <2>1. \E a \in {"notice", "closing"} : Moves(a, m)
    BY <1>7 DEF LimitsSent, Delivered, NoticeSent, FailureSent, AfterError
  <2> QED BY <1>1, <1>2, <1>3, <1>7, <2>1 DEF LimitsSent, Delivered, NoticeSent, FailureSent
<1>8. CASE EnqueueJob(p, t, m) \/ RecordJob(p, t, m) \/ SettleJob(p, t, m)
  <2>1. \E a \in {"record", "settle", "telling", "notice", "closing"} : Moves(a, m)
    BY <1>8 DEF EnqueueJob, RecordJob, SettleJob
  <2> QED BY <1>1, <1>2, <1>3, <1>8, <2>1 DEF EnqueueJob, RecordJob, SettleJob
<1>9. CASE Converse(p, t, m) \/ Answered(p, t, m)
  <2>1. \E a \in {"running", "telling", "notice", "delivering"} : Moves(a, m)
    BY <1>9 DEF Converse, ToldUnknown, Answered, store
  <2> QED BY <1>1, <1>2, <1>3, <1>9, <2>1 DEF Converse, Answered
<1>10. ASSUME NEW refused \in BOOLEAN, ExecutionFails(p, t, m, refused) PROVE DrainInv'
  <2>1. \E a \in {"notice", "closing"} : Moves(a, m)
    BY <1>10 DEF ExecutionFails, AfterError
  <2> QED BY <1>1, <1>2, <1>3, <1>10, <2>1 DEF ExecutionFails
<1>11. CASE Finish(p, t, m)
  <2>1. Moves("free", None)
    BY <1>11 DEF Finish, Free
  <2> QED BY <1>1, <1>2, <1>3, <1>11, <2>1 DEF Finish
<1> QED BY <1>4, <1>5, <1>6, <1>7, <1>8, <1>9, <1>10, <1>11 DEF Work

\* A task that takes up a message does so while there is no drain.
LEMMA TakingIsCalm ==
    ASSUME DrainInv, NEW p \in Processes, NEW t \in Tasks, Up(p), drain = 0,
           NEW a \in Awaiting \cup Between, NEW n \in Messages \cup {None},
           task' = [task EXCEPT ![p][t] = [at |-> a, msg |-> n]],
           UNCHANGED <<process, receiving, adapter>>, ack' = ack \/ Published(p)
    PROVE  DrainInv'
<1> DEFINE Place == [at : Awaiting \cup Between, msg : Messages \cup {None}]
<1>1. task' \in [Processes -> [Tasks -> Place]]
  <2>1. [at |-> a, msg |-> n] \in Place
    OBVIOUS
  <2> QED BY <2>1 DEF DrainInv, DrainTyped
<1>2. ack' \in [by : Processes \cup {None}, idle : BOOLEAN, token : 0 .. issued]
  BY AckTyped
<1>3. ASSUME NEW q \in Processes, ~Up(q), Idle(q) PROVE Idle(q)'
  BY <1>3 DEF DrainInv, DrainTyped, Idle
<1>4. Calm
  BY <1>1, <1>2, <1>3 DEF DrainInv, DrainTyped, Calm, Up, adapter
<1> QED BY <1>4, CalmKeepsDrain

\* A process that ends leaves nothing that is not idle.
LEMMA GoneIsCalm ==
    ASSUME DrainInv, NEW p \in Processes, Gone(p), UNCHANGED <<adapter, ack>>
    PROVE  DrainInv'
<1>1. /\ process' \in [Processes -> {"unborn", "up", "dead"}]
      /\ task' \in [Processes -> [Tasks -> [at : Awaiting \cup Between, msg : Messages \cup {None}]]]
      /\ receiving' \in [Processes -> SUBSET Messages]
  BY DEF DrainInv, DrainTyped, Gone, Free, Awaiting
<1>2. Idle(p)' /\ \A q \in Processes : Idle(q) => Idle(q)'
  BY DEF DrainInv, DrainTyped, Gone, Idle
<1>3. \A q \in Processes \ {p} : process'[q] = process[q]
  BY DEF DrainInv, DrainTyped, Gone
<1>4. Calm
  BY <1>1, <1>2, <1>3 DEF DrainInv, DrainTyped, Calm, Up, adapter
<1> QED BY <1>4, CalmKeepsDrain

LEMMA NextDrain == DrainInv /\ [Next]_vars => DrainInv'
<1> SUFFICES ASSUME DrainInv, [Next]_vars PROVE DrainInv'
  OBVIOUS
<1> USE DEF history
<1>1. ASSUME UNCHANGED <<process, task, receiving, adapter, ack>> PROVE DrainInv'
  BY <1>1 DEF DrainInv, DrainTyped, SaysIdle, Idle, Up, adapter
<1>2. ASSUME NEW p \in Processes, Start(p) \/ WatchDrain(p) PROVE DrainInv'
  <2>1. ack' \in [by : Processes \cup {None}, idle : BOOLEAN, token : 0 .. issued]
    BY <1>2, AckTyped DEF Start, WatchDrain
  <2>2. \A q \in Processes : Idle(q)' = Idle(q)
    BY <1>2 DEF Start, WatchDrain, Idle
  <2>3. Calm
    BY <1>2, <2>1, <2>2 DEF Start, WatchDrain, DrainInv, DrainTyped, Calm, Up, adapter
  <2> QED BY <2>3, CalmKeepsDrain
<1>3. ASSUME NEW p \in Processes, Crash(p) \/ Shutdown(p) PROVE DrainInv'
  BY <1>3, GoneIsCalm DEF Crash, Shutdown
<1>4. ASSUME NEW p \in Processes, SweepStart(p) PROVE DrainInv'
  BY <1>1, <1>4 DEF SweepStart
<1>5. ASSUME NEW p \in Processes, NEW m \in Messages, Receive(p, m) PROVE DrainInv'
  <2>1. ack' \in [by : Processes \cup {None}, idle : BOOLEAN, token : 0 .. issued]
    BY <1>5, AckTyped DEF Receive
  <2>2. receiving' \in [Processes -> SUBSET Messages]
    BY <1>5 DEF Receive, DrainInv, DrainTyped
  <2>3. ASSUME NEW q \in Processes, Idle(q), drain # 0 \/ ~Up(q) PROVE Idle(q)'
    BY <1>5, <2>3 DEF Receive, Admitted, Draining, DrainInv, DrainTyped, Idle
  <2>4. Calm
    BY <1>5, <2>1, <2>2, <2>3 DEF Receive, DrainInv, DrainTyped, Calm, Up, adapter
  <2> QED BY <2>4, CalmKeepsDrain
<1>6. ASSUME NEW p \in Processes, NEW m \in Messages, ReceiveCrash(p, m) PROVE DrainInv'
  BY <1>6, GoneIsCalm DEF ReceiveCrash
<1>7. ASSUME NEW p \in Processes, NEW m \in Messages, NEW ok \in BOOLEAN, ReceiptAnswered(p, m, ok)
      PROVE DrainInv'
  <2>1. ack' \in [by : Processes \cup {None}, idle : BOOLEAN, token : 0 .. issued]
    BY <1>7, AckTyped DEF ReceiptAnswered
  <2>2. receiving' \in [Processes -> SUBSET Messages]
    BY <1>7 DEF ReceiptAnswered, DrainInv, DrainTyped
  <2>3. ASSUME NEW q \in Processes, Idle(q) PROVE Idle(q)'
    BY <1>7, <2>3 DEF ReceiptAnswered, DrainInv, DrainTyped, Idle
  <2>4. Calm
    BY <1>7, <2>1, <2>2, <2>3 DEF ReceiptAnswered, DrainInv, DrainTyped, Calm, Up, adapter
  <2> QED BY <2>4, CalmKeepsDrain
<1>8. ASSUME NEW p \in Processes, NEW m \in Messages, TakeNext(p, m) PROVE DrainInv'
  <2>1. CASE UNCHANGED task
    <3>1. ack' \in [by : Processes \cup {None}, idle : BOOLEAN, token : 0 .. issued]
      BY <1>8, AckTyped DEF TakeNext
    <3>2. \A q \in Processes : Idle(q)' = Idle(q)
      BY <1>8, <2>1 DEF TakeNext, Idle
    <3>3. Calm
      BY <1>8, <2>1, <3>1, <3>2 DEF TakeNext, DrainInv, DrainTyped, Calm, Up, adapter
    <3> QED BY <3>3, CalmKeepsDrain
  <2>2. ASSUME NEW a \in {"begin", "receipt"}, Goes(p, "inbox", a, m) PROVE DrainInv'
    BY <1>8, <2>2, TakingIsCalm DEF TakeNext, Goes, Draining, Awaiting, Between, Tasks
  <2> QED BY <1>8, <2>1, <2>2 DEF TakeNext
<1>9. ASSUME NEW p \in Processes, NEW m \in Messages, SweepTake(p, m) PROVE DrainInv'
  <2>1. CASE UNCHANGED task /\ Published(p)
    <3>1. ack' \in [by : Processes \cup {None}, idle : BOOLEAN, token : 0 .. issued]
      BY <2>1, AckTyped
    <3>2. \A q \in Processes : Idle(q)' = Idle(q)
      BY <1>9, <2>1 DEF SweepTake, Idle
    <3>3. Calm
      BY <1>9, <2>1, <3>1, <3>2 DEF SweepTake, DrainInv, DrainTyped, Calm, Up, adapter
    <3> QED BY <3>3, CalmKeepsDrain
  <2>2. CASE drain = 0 /\ Goes(p, "sweep", "begin", m) /\ Published(p)
    BY <1>9, <2>2, TakingIsCalm DEF SweepTake, Goes, Between, Tasks
  <2> QED BY <1>1, <1>9, <2>1, <2>2 DEF SweepTake, Draining
<1>10. ASSUME NEW p \in Processes, NEW m \in Messages, NEW ok \in BOOLEAN, ReceiptSent(p, m, ok)
       PROVE DrainInv'
  <2>1. task[p]["inbox"] # Free
    BY <1>10 DEF ReceiptSent, Does, Free
  <2>2. CASE Goes(p, "inbox", "begin", m)
    BY <1>10, <2>1, <2>2, WorkIsCalm DEF ReceiptSent, Goes, Between, Tasks
  <2>3. CASE Goes(p, "inbox", "notice", m)
    BY <1>10, <2>1, <2>3, WorkIsCalm DEF ReceiptSent, Goes, Awaiting, Telling, Tasks
  <2> QED BY <1>10, <2>2, <2>3 DEF ReceiptSent
<1>11. ASSUME NEW p \in Processes, NEW t \in {"inbox", "sweep"}, NEW m \in Messages, Work(p, t, m)
       PROVE DrainInv'
  BY <1>11, WorkKeepsDrain
<1>12. ASSUME NEW m \in Messages, ReportStored(m) PROVE DrainInv'
  BY <1>1, <1>12 DEF ReportStored
<1>13. ASSUME NEW p \in Processes, NEW m \in Messages, OutboxTake(p, m) PROVE DrainInv'
  BY <1>13, TakingIsCalm DEF OutboxTake, Goes, Draining, Awaiting, Tasks
<1>14. ASSUME NEW p \in Processes, NEW m \in Messages, ClaimDelivery(p, m) PROVE DrainInv'
  <2>1. task[p]["outbox"] # Free
    BY <1>14 DEF ClaimDelivery, Does, Free
  <2>2. CASE Goes(p, "outbox", "sending", m) /\ UNCHANGED ack
    BY <1>14, <2>1, <2>2, WorkIsCalm DEF ClaimDelivery, Goes, Awaiting, Tasks
  <2>3. CASE task' = [task EXCEPT ![p]["outbox"] = Free] /\ Published(p)
    BY <1>14, <2>1, <2>3, WorkIsCalm DEF ClaimDelivery, Awaiting, Tasks, Free
  <2> QED BY <1>14, <2>2, <2>3 DEF ClaimDelivery
<1>15. ASSUME NEW p \in Processes, NEW m \in Messages, NEW ok \in BOOLEAN, ReportSent(p, m, ok)
       PROVE DrainInv'
  <2>1. task[p]["outbox"] # Free
    BY <1>15 DEF ReportSent, Does, Free
  <2> QED BY <1>15, <2>1, WorkIsCalm DEF ReportSent, Awaiting, Tasks, Free
<1>16. CASE SetDrain
  <2>1. \A p \in Processes : ~SaysIdle(p)' /\ seen' # p
    BY <1>16 DEF SetDrain, SaysIdle, DrainInv, DrainTyped
  <2> QED BY <1>16, <2>1 DEF SetDrain, DrainInv, DrainTyped, Idle, Up
<1>17. ASSUME NEW p \in Processes, SeeIdle(p) PROVE DrainInv'
  <2>1. SaysIdle(p)
    BY <1>17 DEF SeeIdle, SaysIdle
  <2> QED BY <1>17, <2>1 DEF SeeIdle, DrainInv, DrainTyped, SaysIdle, Idle, Up
<1>18. ASSUME NEW p \in Processes, KillIdle(p) PROVE DrainInv'
  <2>1. DrainTyped'
    BY <1>18 DEF KillIdle, Gone, DrainInv, DrainTyped, Free, Awaiting
  <2>2. Idle(p)' /\ \A q \in Processes \ {p} : (Idle(q) => Idle(q)') /\ process'[q] = process[q]
    BY <1>18 DEF KillIdle, Gone, DrainInv, DrainTyped, Idle
  <2>3. \A q \in Processes : ~SaysIdle(q)' /\ seen' # q
    BY <1>18, BridgeAssumption DEF KillIdle, SaysIdle
  <2> QED BY <2>1, <2>2, <2>3 DEF DrainInv, Up
<1>19. CASE GiveUp
  <2>1. \A q \in Processes : ~SaysIdle(q)' /\ seen' # q
    BY <1>19, BridgeAssumption DEF GiveUp, SaysIdle
  <2> QED BY <1>19, <2>1 DEF GiveUp, DrainInv, DrainTyped, Idle, Up
<1>20. CASE UNCHANGED vars
  BY <1>1, <1>20 DEF vars, adapter
<1> QED
  <2> HIDE DEF DrainInv
  <2>1. CASE Next
    BY <2>1, <1>2, <1>3, <1>4, <1>5, <1>6, <1>7, <1>8, <1>9, <1>10, <1>11, <1>12, <1>13,
       <1>14, <1>15, <1>16, <1>17, <1>18, <1>19, Zenon DEF Next
  <2> QED BY <1>20, <2>1

\* While the release adapter relies on having seen a process idle, that process has
\* nothing to do, so that the restart interrupts no execution and no sending.
THEOREM RestartIsQuiet == Spec => []RestartInterruptsNothing
<1>1. DrainInv => RestartInterruptsNothing
  BY DEF DrainInv, RestartInterruptsNothing
<1> QED BY <1>1, InitDrain, NextDrain, PTL DEF Spec

-----------------------------------------------------------------------------
\* Reports.

\* ReportSentOnce alone is not inductive: that no second sending begins needs that what
\* was sent once is not taken for pending again.
Sending ==
    /\ outbox \in [Messages -> {None, "pending", "sending", "sent"}]
    /\ sends \in [Messages -> Nat]
    /\ \A m \in Messages : sends[m] <= 1 /\ (outbox[m] \in {None, "pending"} => sends[m] = 0)

LEMMA InitSending == Init => Sending
BY DEF Init, Sending

LEMMA WorkKeepsReports ==
    ASSUME NEW p \in Processes, NEW t \in {"inbox", "sweep"}, NEW m \in Messages, Work(p, t, m)
    PROVE  UNCHANGED <<outbox, sends>>
BY DEF Work, Begin, Greet, Classified, LimitsSent, EnqueueJob, RecordJob, SettleJob, Converse,
       Answered, Delivered, NoticeSent, FailureSent, ExecutionFails, Finish, store, history

LEMMA NextSending == Sending /\ [Next]_vars => Sending'
<1> SUFFICES ASSUME Sending, [Next]_vars PROVE Sending'
  OBVIOUS
<1>1. CASE UNCHANGED <<outbox, sends>>
  BY <1>1 DEF Sending
<1>2. ASSUME NEW p \in Processes,
             \/ Start(p) \/ Crash(p) \/ Shutdown(p) \/ WatchDrain(p) \/ SweepStart(p)
             \/ SeeIdle(p) \/ KillIdle(p)
      PROVE Sending'
  BY <1>1, <1>2 DEF Start, Crash, Shutdown, WatchDrain, SweepStart, SeeIdle, KillIdle, store, history
<1>3. ASSUME NEW p \in Processes, NEW m \in Messages,
             \/ Receive(p, m) \/ ReceiveCrash(p, m) \/ TakeNext(p, m) \/ SweepTake(p, m)
             \/ OutboxTake(p, m)
      PROVE Sending'
  BY <1>1, <1>3 DEF Receive, ReceiveCrash, TakeNext, SweepTake, OutboxTake, store, history
<1>4. ASSUME NEW p \in Processes, NEW m \in Messages, NEW ok \in BOOLEAN,
             ReceiptAnswered(p, m, ok) \/ ReceiptSent(p, m, ok)
      PROVE Sending'
  BY <1>1, <1>4 DEF ReceiptAnswered, ReceiptSent, store, history
<1>5. ASSUME NEW p \in Processes, NEW t \in {"inbox", "sweep"}, NEW m \in Messages, Work(p, t, m)
      PROVE Sending'
  BY <1>1, <1>5, WorkKeepsReports
<1>6. ASSUME NEW m \in Messages, ReportStored(m) PROVE Sending'
  BY <1>6 DEF ReportStored, Sending, history
<1>7. ASSUME NEW p \in Processes, NEW m \in Messages, ClaimDelivery(p, m) PROVE Sending'
  <2>1. CASE /\ outbox[m] = "pending" /\ outbox' = [outbox EXCEPT ![m] = "sending"]
             /\ sends' = [sends EXCEPT ![m] = @ + 1]
    <3>1. sends[m] = 0
      BY <2>1 DEF Sending
    <3>2. sends'[m] = 1 /\ \A n \in Messages \ {m} : sends'[n] = sends[n]
      BY <2>1, <3>1 DEF Sending
    <3>3. outbox'[m] = "sending" /\ \A n \in Messages \ {m} : outbox'[n] = outbox[n]
      BY <2>1 DEF Sending
    <3>4. /\ sends' \in [Messages -> Nat]
          /\ outbox' \in [Messages -> {None, "pending", "sending", "sent"}]
      BY <2>1 DEF Sending
    <3> QED BY <3>2, <3>3, <3>4, BridgeAssumption DEF Sending
  <2> QED BY <1>1, <1>7, <2>1 DEF ClaimDelivery, MayDeliver
<1>8. ASSUME NEW p \in Processes, NEW m \in Messages, NEW ok \in BOOLEAN, ReportSent(p, m, ok)
      PROVE Sending'
  <2>1. sends' = sends /\ (outbox' = outbox \/ outbox' = [outbox EXCEPT ![m] = "sent"])
    BY <1>8 DEF ReportSent, Sending, history
  <2> QED BY <2>1, BridgeAssumption DEF Sending
<1>9. CASE SetDrain \/ GiveUp \/ UNCHANGED vars
  BY <1>1, <1>9 DEF SetDrain, GiveUp, vars, store, history
<1> QED
  <2> HIDE DEF Sending
  <2>1. CASE Next
    BY <2>1, <1>2, <1>3, <1>4, <1>5, <1>6, <1>7, <1>8, <1>9, Zenon DEF Next
  <2> QED BY <1>9, <2>1

\* The sending of a report is begun at most once, however many processes look at the outbox
\* and wherever they die: claim_delivery takes it in one transaction, and what was taken is
\* not given back, be it known or not whether it arrived.
THEOREM SentOnce == Spec => []ReportSentOnce
<1>1. Sending => ReportSentOnce
  BY DEF Sending, ReportSentOnce
<1> QED BY <1>1, InitSending, NextSending, PTL DEF Spec

-----------------------------------------------------------------------------
\* The queue.

Columns == [receipt : BOOLEAN, done : BOOLEAN, consumer : Processes \cup {None}]

\* The rows of the queue: a pair stands for two of them.
RowsTyped ==
    /\ order \subseteq Messages \X Messages
    /\ \A h, m \in Messages : <<h, m>> \in order => InQueue(h) /\ InQueue(m)
    /\ inbox \in [Messages -> Columns]

\* What p's inbox task is at: the row is p's and not done before the execution is recorded,
\* and everything older is done.
Serves(p, m) ==
    /\ Up(p) /\ inbox[m].consumer = p /\ m \notin receiving[p]
    /\ m \in requests \/ Pending(m)
    /\ \A h \in Messages : Older(h, m) => inbox[h].done

\* What p's handler awaits the receipt of.
Awaits(p, m) == Up(p) /\ Pending(m) /\ inbox[m].consumer = p

\* QueueInOrder alone is not inductive: that nobody else takes the row needs its consumer,
\* which a handler writes too, and that it is not received anew while it is worked on needs
\* that a row which was pruned meanwhile had its execution recorded.
Line ==
    \A p \in Processes, m \in Messages :
        /\ task[p]["inbox"].msg = m => Serves(p, m)
        /\ m \in receiving[p] => Awaits(p, m)

\* A task has a message unless it is free.
Busy == \A p \in Processes, t \in Tasks : task[p][t] # Free => task[p][t].msg \in Messages

\* Where a task may be with a message, and what was written before it came there.
Intaking == {"greet", "classify", "limits", "enqueue", "record", "settle"}
Stands(p, t, m) ==
    /\ task[p][t].at \notin {"free", "claiming", "sending"}
    /\ t = "sweep" \/ task[p][t].at \in Intaking => m \in Owners
    /\ task[p][t].at \in {"record", "settle"} => m \in jobs
    /\ task[p][t].at \in {"running", "delivering"} => m \in requests
    /\ task[p][t].at = "closing" /\ m \notin Owners => m \notin owed
Places ==
    \A p \in Processes, t \in {"inbox", "sweep"}, m \in Messages :
        task[p][t].msg = m => Stands(p, t, m)

\* Only the owner's messages have intakes, and only intakes are swept.
Intakes == [known : BOOLEAN, route : {None, "conversation"}, receipt : BOOLEAN,
            done : BOOLEAN, consumer : Processes \cup {None}]
Swept ==
    /\ intake \in [Messages -> Intakes]
    /\ \A m \in Messages : intake[m].known => m \in Owners
    /\ batch \in [Processes -> SUBSET Owners]

Bridge == DrainInv /\ Recording /\ RowsTyped /\ Line /\ Busy /\ Places /\ Swept

LEMMA InitBridge == Init => Bridge
<1> SUFFICES ASSUME Init PROVE Bridge
  OBVIOUS
<1>1. RowsTyped
  BY DEF Init, RowsTyped, Columns, NoRow
<1>2. Line /\ Busy
  BY BridgeAssumption DEF Init, Line, Busy, Free, Tasks
<1>3. Places
  BY BridgeAssumption DEF Init, Places, Free, Tasks
<1>4. Swept
  BY DEF Init, Swept, Intakes, NoIntake
<1> QED BY <1>1, <1>2, <1>3, <1>4, InitDrain, InitRecording DEF Bridge

\* Rows are pruned only when they are done.
LEMMA PrunedKeepsUndone ==
    ASSUME RowsTyped, NEW rows \in [Messages -> Columns], Updated(rows)
    PROVE  /\ RowsTyped' /\ inbox' = rows /\ order' \subseteq order
           /\ \A m \in Messages : InQueue(m) /\ ~rows[m].done => InQueue(m)'
<1> DEFINE Younger(m) == {n \in Messages : Older(m, n) /\ rows[n].done}
<1> DEFINE Kept == {m \in Messages : ~rows[m].done \/ Cardinality(Younger(m)) < KeepDone}
<1>1. order' = order \cap (Kept \X Kept) /\ inbox' = rows
  BY DEF Updated, Pruned
<1>2. \A m \in Messages : ~rows[m].done => m \in Kept
  OBVIOUS
<1>3. Kept \subseteq Messages
  OBVIOUS
<1> HIDE DEF Kept
<1>4. \A h, m \in Messages : <<h, m>> \in order' <=> <<h, m>> \in order /\ h \in Kept /\ m \in Kept
  BY <1>1
<1>5. RowsTyped'
  BY <1>1, <1>4 DEF RowsTyped, InQueue
<1> QED BY <1>1, <1>2, <1>4, <1>5 DEF InQueue

\* A row that is written and not pruned stays a row.
LEMMA RowWritten ==
    ASSUME RowsTyped, NEW rows \in [Messages -> Columns], inbox' = rows, order' = order
    PROVE  RowsTyped'
BY DEF RowsTyped, InQueue

\* What is served or awaited stays so when its row does, and what is older stays done.
LEMMA ServesKept ==
    ASSUME NEW p \in Processes, NEW m \in Messages, Serves(p, m),
           Up(p)', inbox'[m].consumer = p, (m \notin receiving[p])',
           (m \in requests \/ Pending(m))',
           \A h \in Messages : Older(h, m)' => Older(h, m),
           \A h \in Messages : Older(h, m)' /\ inbox[h].done => inbox'[h].done
    PROVE  Serves(p, m)'
BY DEF Serves

\* Nothing but what is free changes its message, and no row changes.
LEMMA LineStays ==
    ASSUME Line, UNCHANGED <<receiving, order, inbox>>, requests \subseteq requests',
           \A q \in Processes : Up(q) => Up(q)',
           \A q \in Processes : task'[q]["inbox"].msg \in {task[q]["inbox"].msg, None}
    PROVE  Line'
<1>1. ASSUME NEW q \in Processes, NEW n \in Messages, task'[q]["inbox"].msg = n
      PROVE  Serves(q, n)'
  <2>1. task[q]["inbox"].msg = n
    BY <1>1, BridgeAssumption
  <2>2. Serves(q, n)
    BY <2>1 DEF Line
  <2> QED BY <2>2 DEF Serves, Pending, InQueue, Older
<1>2. ASSUME NEW q \in Processes, NEW n \in Messages, n \in receiving'[q]
      PROVE  Awaits(q, n)'
  <2>1. Awaits(q, n)
    BY <1>2 DEF Line
  <2> QED BY <2>1 DEF Awaits, Pending, InQueue
<1> QED BY <1>1, <1>2 DEF Line

LEMMA GoneKeepsLine ==
    ASSUME DrainTyped, Line, NEW p \in Processes, Gone(p), UNCHANGED ledger
    PROVE  Line'
<1>1. task'[p]["inbox"].msg = None /\ receiving'[p] = {}
  BY DEF Gone, DrainTyped, Free, Tasks
<1>2. \A q \in Processes \ {p} : /\ task'[q] = task[q] /\ receiving'[q] = receiving[q]
                                 /\ Up(q)' = Up(q)
  BY DEF Gone, DrainTyped, Up
<1>3. ASSUME NEW q \in Processes, NEW n \in Messages, task'[q]["inbox"].msg = n
      PROVE  Serves(q, n)'
  <2>1. q # p
    BY <1>1, <1>3, BridgeAssumption
  <2>2. Serves(q, n)
    BY <1>2, <1>3, <2>1 DEF Line
  <2> QED BY <1>2, <2>1, <2>2 DEF Serves, Pending, InQueue, Older, ledger
<1>4. ASSUME NEW q \in Processes, NEW n \in Messages, n \in receiving'[q]
      PROVE  Awaits(q, n)'
  <2>1. q # p
    BY <1>1, <1>4
  <2>2. Awaits(q, n)
    BY <1>2, <1>4, <2>1 DEF Line
  <2> QED BY <1>2, <2>1, <2>2 DEF Awaits, Pending, InQueue, ledger
<1> QED BY <1>3, <1>4 DEF Line

\* The task of p writes the row it is at.
LEMMA OwnRow ==
    ASSUME RowsTyped, Line, NEW p \in Processes, NEW m \in Messages, task[p]["inbox"].msg = m,
           RowsTyped', order' \subseteq order,
           \A n \in Messages : InQueue(n) /\ ~inbox'[n].done => InQueue(n)',
           \A n \in Messages \ {m} : inbox'[n] = inbox[n],
           inbox[m].done => inbox'[m].done,
           UNCHANGED <<process, receiving, requests>>,
           \A q \in Processes \ {p} : task'[q]["inbox"] = task[q]["inbox"],
           \/ task'[p]["inbox"].msg = None
           \/ /\ task'[p]["inbox"].msg = m /\ inbox'[m].consumer = p
              /\ m \in requests \/ ~inbox'[m].done
    PROVE  Line'
<1>1. Serves(p, m)
  BY DEF Line
<1>2. \A h \in Messages : inbox[h].done => inbox'[h].done
  OBVIOUS
<1>3. \A h, n \in Messages : Older(h, n)' => Older(h, n)
  BY DEF Older
<1>4. ASSUME NEW q \in Processes, NEW n \in Messages, task'[q]["inbox"].msg = n
      PROVE  Serves(q, n)'
  <2>1. CASE q = p
    <3>1. n = m /\ inbox'[m].consumer = p /\ (m \in requests \/ ~inbox'[m].done)
      BY <1>4, <2>1, BridgeAssumption
    <3>2. (m \in requests \/ Pending(m))'
      BY <1>1, <3>1 DEF Serves, Pending
    <3> QED BY <1>1, <1>2, <1>3, <2>1, <3>1, <3>2, ServesKept DEF Serves, Up
  <2>2. CASE q # p
    <3>1. Serves(q, n)
      BY <1>4, <2>2 DEF Line
    <3>2. n # m
      BY <1>1, <2>2, <3>1 DEF Serves
    <3>3. inbox'[n] = inbox[n] /\ (n \in requests \/ Pending(n))'
      BY <3>1, <3>2 DEF Serves, Pending
    <3> QED BY <1>2, <1>3, <3>1, <3>3, ServesKept DEF Serves, Up
  <2> QED BY <2>1, <2>2
<1>5. ASSUME NEW q \in Processes, NEW n \in Messages, n \in receiving'[q]
      PROVE  Awaits(q, n)'
  <2>1. Awaits(q, n)
    BY <1>5 DEF Line
  <2>2. n # m
    <3>1. CASE q = p
      BY <1>1, <1>5, <3>1 DEF Serves
    <3>2. CASE q # p
      BY <1>1, <2>1, <3>2 DEF Serves, Awaits
    <3> QED BY <3>1, <3>2
  <2> QED BY <2>1, <2>2 DEF Awaits, Pending, Up
<1> QED BY <1>4, <1>5 DEF Line

\* A step of a task moves that task only, and keeps its message unless it ends.
LEMMA InboxMoves ==
    ASSUME DrainTyped, NEW p \in Processes, NEW t \in Tasks, NEW x,
           task' = [task EXCEPT ![p][t] = x]
    PROVE  /\ task'[p][t] = x
           /\ \A q \in Processes, u \in Tasks : q # p \/ u # t => task'[q][u] = task[q][u]
BY DEF DrainTyped

LEMMA WorkMoves ==
    ASSUME DrainTyped, NEW p \in Processes, NEW t \in {"inbox", "sweep"}, NEW m \in Messages,
           Work(p, t, m)
    PROVE  /\ task[p][t].msg = m /\ task'[p][t].msg \in {m, None}
           /\ \A q \in Processes, u \in Tasks : q # p \/ u # t => task'[q][u] = task[q][u]
           /\ (\E at : Goes(p, t, at, m)) \/ task' = [task EXCEPT ![p][t] = Free]
           /\ UNCHANGED <<process, receiving, outbox, drain, issued, seen>>
           /\ batch' = batch \/ batch' = [batch EXCEPT ![p] = {}]
           /\ requests \subseteq requests' /\ jobs \subseteq jobs' /\ owed' \subseteq owed \cup {m}
<1> DEFINE Moves == /\ \E at : Does(p, t, at, m)
                    /\ (\E at : Goes(p, t, at, m)) \/ task' = [task EXCEPT ![p][t] = Free]
<1>1. Moves
  <2>1. CASE Begin(p, t, m)
    BY <2>1 DEF Begin
  <2>2. ASSUME NEW ok, \/ Greet(p, t, m, ok) \/ LimitsSent(p, t, m, ok) \/ Delivered(p, t, m, ok)
                       \/ NoticeSent(p, t, m, ok) \/ FailureSent(p, t, m, ok)
        PROVE Moves
    BY <2>2 DEF Greet, LimitsSent, Delivered, NoticeSent, FailureSent
  <2>3. ASSUME NEW route, Classified(p, t, m, route) PROVE Moves
    BY <2>3 DEF Classified
  <2>4. CASE EnqueueJob(p, t, m) \/ RecordJob(p, t, m) \/ SettleJob(p, t, m)
    BY <2>4 DEF EnqueueJob, RecordJob, SettleJob
  <2>5. CASE Converse(p, t, m) \/ Answered(p, t, m)
    BY <2>5 DEF Converse, Answered
  <2>6. ASSUME NEW refused, ExecutionFails(p, t, m, refused) PROVE Moves
    BY <2>6 DEF ExecutionFails
  <2>7. CASE Finish(p, t, m)
    BY <2>7 DEF Finish
  <2> HIDE DEF Moves
  <2> QED BY <2>1, <2>2, <2>3, <2>4, <2>5, <2>6, <2>7, Zenon DEF Work
<1>2. task[p][t].msg = m
  BY <1>1 DEF Does
<1>3. ASSUME NEW at PROVE [at |-> at, msg |-> m].msg = m
  OBVIOUS
<1>4. \E x : task' = [task EXCEPT ![p][t] = x] /\ x.msg \in {m, None}
  BY <1>1, <1>3, ZenonT(60) DEF Goes, Free
<1>5. UNCHANGED <<process, receiving, outbox>>
  BY DEF Work, Begin, Greet, Classified, LimitsSent, EnqueueJob, RecordJob, SettleJob, Converse,
         Answered, Delivered, NoticeSent, FailureSent, ExecutionFails, Finish, store
<1>6. UNCHANGED <<drain, issued, seen>>
  BY DEF Work, Begin, Greet, Classified, LimitsSent, EnqueueJob, RecordJob, SettleJob, Converse,
         Answered, Delivered, NoticeSent, FailureSent, ExecutionFails, Finish, adapter
<1>7. requests \subseteq requests'
  BY DEF Work, Begin, Greet, Classified, LimitsSent, EnqueueJob, RecordJob, SettleJob, Converse,
         Answered, Delivered, NoticeSent, FailureSent, ExecutionFails, Finish, Recorded, ledger
<1>8. jobs \subseteq jobs'
  BY DEF Work, Begin, Greet, Classified, LimitsSent, EnqueueJob, RecordJob, SettleJob, Converse,
         Answered, Delivered, NoticeSent, FailureSent, ExecutionFails, Finish, store
<1>9. owed' \subseteq owed \cup {m}
  BY DEF Work, Begin, Greet, Classified, LimitsSent, EnqueueJob, RecordJob, SettleJob, Converse,
         Answered, Delivered, NoticeSent, FailureSent, ExecutionFails, Finish, history
<1>10. batch' = batch \/ batch' = [batch EXCEPT ![p] = {}]
  BY DEF Work, Begin, Greet, Classified, LimitsSent, EnqueueJob, RecordJob, SettleJob, Converse,
         Answered, Delivered, NoticeSent, FailureSent, ExecutionFails, Finish
<1>11. t \in Tasks
  BY DEF Tasks
<1> QED BY <1>1, <1>2, <1>7, <1>8, <1>9, <1>10, <1>11, <1>5, <1>6, <1>4, InboxMoves

\* The sweep and what leaves the rows alone.
LEMMA WorkAside ==
    ASSUME DrainTyped, RowsTyped, Line, NEW p \in Processes, NEW t \in {"inbox", "sweep"},
           NEW m \in Messages, Work(p, t, m), UNCHANGED <<order, inbox>>
    PROVE  RowsTyped' /\ Line'
<1>1. RowsTyped'
  BY DEF RowsTyped, InQueue
<1>2. \A q \in Processes : task'[q]["inbox"].msg \in {task[q]["inbox"].msg, None}
  BY WorkMoves DEF Tasks
<1>3. UNCHANGED <<process, receiving>> /\ requests \subseteq requests'
  BY WorkMoves
<1> QED BY <1>1, <1>2, <1>3, LineStays DEF Up

\* The row of the inbox task, done or given back.
LEMMA WorkUpdates ==
    ASSUME DrainTyped, RowsTyped, Line, NEW p \in Processes, NEW m \in Messages, Work(p, "inbox", m),
           NEW row \in Columns, Updated([inbox EXCEPT ![m] = row]), inbox[m].done => row.done,
           UNCHANGED requests, task'[p]["inbox"].msg = m => row.consumer = inbox[m].consumer /\ m \in requests
    PROVE  RowsTyped' /\ Line'
<1>1. [inbox EXCEPT ![m] = row] \in [Messages -> Columns]
  BY DEF RowsTyped
<1>2. /\ RowsTyped' /\ inbox' = [inbox EXCEPT ![m] = row] /\ order' \subseteq order
      /\ \A n \in Messages : InQueue(n) /\ ~inbox'[n].done => InQueue(n)'
  BY <1>1, PrunedKeepsUndone
<1>3. inbox'[m] = row /\ \A n \in Messages \ {m} : inbox'[n] = inbox[n]
  BY <1>2 DEF RowsTyped
<1>4. /\ task[p]["inbox"].msg = m /\ task'[p]["inbox"].msg \in {m, None}
      /\ \A q \in Processes \ {p} : task'[q]["inbox"] = task[q]["inbox"]
      /\ UNCHANGED <<process, receiving>>
  BY WorkMoves DEF Tasks
<1>5. inbox[m].consumer = p
  BY <1>4 DEF Line, Serves
<1> QED BY <1>2, <1>3, <1>4, <1>5, OwnRow

LEMMA WorkKeepsLine ==
    ASSUME DrainTyped, RowsTyped, Line, Places, NEW p \in Processes, NEW t \in {"inbox", "sweep"},
           NEW m \in Messages, Work(p, t, m)
    PROVE  RowsTyped' /\ Line'
<1>1. CASE UNCHANGED <<order, inbox>>
  BY <1>1, WorkAside
<1>2. inbox[m] \in Columns /\ inbox \in [Messages -> Columns]
  BY DEF RowsTyped
<1>3. Stands(p, t, m)
  BY WorkMoves DEF Places
<1>4. ASSUME t = "inbox", m \in requests, UNCHANGED requests, Updated([inbox EXCEPT ![m].done = TRUE])
      PROVE  RowsTyped' /\ Line'
  <2> DEFINE row == [inbox[m] EXCEPT !.done = TRUE]
  <2>1. row \in Columns /\ row.done /\ row.consumer = inbox[m].consumer
    BY <1>2 DEF Columns
  <2>2. [inbox EXCEPT ![m].done = TRUE] = [inbox EXCEPT ![m] = row]
    BY <1>2
  <2> HIDE DEF row
  <2> QED BY <1>4, <2>1, <2>2, WorkUpdates
<1>5. CASE Converse(p, t, m)
  <2>1. CASE UNCHANGED <<order, inbox>>
    BY <1>1, <2>1
  <2>2. CASE ~UNCHANGED <<order, inbox>>
    <3>1. /\ m \notin Owners /\ Updated([inbox EXCEPT ![m].done = TRUE]) /\ UNCHANGED requests
          /\ m \in requests
      BY <1>5, <2>2, BridgeAssumption DEF Converse, DoneFirst
    <3>2. t = "inbox"
      BY <1>3, <3>1 DEF Stands
    <3> QED BY <1>4, <3>1, <3>2
  <2> QED BY <2>1, <2>2
<1>6. CASE Answered(p, t, m)
  <2>1. CASE m \in Owners
    BY <1>1, <1>6, <2>1 DEF Answered
  <2>2. CASE m \notin Owners
    <3>1. t = "inbox" /\ m \in requests
      BY <1>3, <1>6, <2>2 DEF Answered, Stands, Does
    <3>2. UNCHANGED requests /\ Updated([inbox EXCEPT ![m].done = TRUE])
      BY <1>6, <2>2 DEF Answered
    <3> QED BY <1>4, <3>1, <3>2
  <2> QED BY <2>1, <2>2
<1>7. CASE Finish(p, t, m)
  <2>1. CASE t = "sweep"
    BY <1>1, <1>7, <2>1 DEF Finish
  <2>2. CASE t = "inbox"
    <3> DEFINE over == inbox[m].done \/ Over(m)
    <3> DEFINE row == [inbox[m] EXCEPT !.done = over, !.consumer = None]
    <3>1. over \in BOOLEAN
      BY <1>2 DEF Over, Columns
    <3>2. row \in Columns /\ (inbox[m].done => row.done)
      BY <1>2, <3>1 DEF Columns
    <3>3. Updated([inbox EXCEPT ![m] = row]) /\ UNCHANGED requests
      <4>1. [inbox EXCEPT ![m].done = @ \/ Over(m), ![m].consumer = None] = [inbox EXCEPT ![m] = row]
        BY <1>2
      <4> HIDE DEF row
      <4> QED BY <1>7, <2>2, <4>1 DEF Finish
    <3>4. task'[p]["inbox"].msg # m
      BY <1>7, <2>2, BridgeAssumption DEF Finish, DrainTyped, Tasks, Free
    <3> HIDE DEF row
    <3> QED BY <2>2, <3>2, <3>3, <3>4, WorkUpdates
  <2> QED BY <2>1, <2>2
<1>8. CASE UNCHANGED <<order, inbox>> \/ Converse(p, t, m) \/ Answered(p, t, m) \/ Finish(p, t, m)
  BY <1>1, <1>5, <1>6, <1>7, <1>8
<1>9. UNCHANGED <<order, inbox>> \/ Converse(p, t, m) \/ Answered(p, t, m) \/ Finish(p, t, m)
  BY DEF Work, Begin, Greet, Classified, LimitsSent, EnqueueJob, RecordJob, SettleJob,
         Delivered, NoticeSent, FailureSent, ExecutionFails, ledger
<1> QED BY <1>8, <1>9

\* A row that no living process holds is at no task and at no handler.
LEMMA NotTaken ==
    ASSUME Line, NEW m \in Messages, IsFree(m), NEW q \in Processes
    PROVE  task[q]["inbox"].msg # m /\ m \notin receiving[q]
BY BridgeAssumption DEF Line, Serves, Awaits, IsFree, HeldByLiving, Up

\* What is not at the row that is written stays as it is.
LEMMA OtherRows ==
    ASSUME Line, NEW m \in Messages, order' \subseteq order,
           \A n \in Messages : InQueue(n) /\ ~inbox'[n].done => InQueue(n)',
           \A n \in Messages \ {m} : inbox'[n] = inbox[n],
           inbox[m].done => inbox'[m].done,
           UNCHANGED requests, NEW q \in Processes, Up(q) => Up(q)', receiving'[q] \subseteq receiving[q],
           NEW n \in Messages, n # m
    PROVE  /\ task[q]["inbox"].msg = n => Serves(q, n)'
           /\ n \in receiving'[q] => Awaits(q, n)'
<1>1. \A h \in Messages : inbox[h].done => inbox'[h].done
  OBVIOUS
<1>2. \A h, k \in Messages : Older(h, k)' => Older(h, k)
  BY DEF Older
<1>3. ASSUME task[q]["inbox"].msg = n PROVE Serves(q, n)'
  <2>1. Serves(q, n)
    BY <1>3 DEF Line
  <2>2. inbox'[n] = inbox[n] /\ (n \in requests \/ Pending(n))'
    BY <2>1 DEF Serves, Pending
  <2> QED BY <1>1, <1>2, <2>1, <2>2, ServesKept DEF Serves
<1>4. ASSUME n \in receiving'[q] PROVE Awaits(q, n)'
  <2>1. Awaits(q, n)
    BY <1>4 DEF Line
  <2> QED BY <2>1 DEF Awaits, Pending
<1> QED BY <1>3, <1>4

LEMMA TakeNextKeepsLine ==
    ASSUME DrainTyped, RowsTyped, Line, NEW p \in Processes, NEW m \in Messages, TakeNext(p, m)
    PROVE  RowsTyped' /\ Line'
<1>1. /\ Up(p) /\ InQueue(m) /\ ~inbox[m].done /\ IsFree(m)
      /\ \A h \in Messages : Older(h, m) => inbox[h].done
      /\ UNCHANGED <<process, receiving, requests>>
  BY DEF TakeNext, Claimable
<1>2. \A q \in Processes : task[q]["inbox"].msg # m /\ m \notin receiving[q]
  BY <1>1, NotTaken
<1>3. inbox[m] \in Columns /\ inbox \in [Messages -> Columns]
  BY DEF RowsTyped
<1>4. CASE inbox' = [inbox EXCEPT ![m].consumer = p] /\ order' = order /\ \E at : Goes(p, "inbox", at, m)
  <2>1. /\ inbox' \in [Messages -> Columns] /\ inbox'[m].consumer = p /\ inbox'[m].done = inbox[m].done
        /\ \A n \in Messages \ {m} : inbox'[n] = inbox[n]
    BY <1>3, <1>4 DEF Columns
  <2>2. RowsTyped'
    BY <1>4, <2>1, RowWritten
  <2>3. /\ task'[p]["inbox"].msg = m
        /\ \A q \in Processes \ {p} : task'[q]["inbox"] = task[q]["inbox"]
    BY <1>4 DEF Goes, DrainTyped, Tasks
  <2>4. Serves(p, m)'
    BY <1>1, <1>2, <1>4, <2>1 DEF Serves, Up, Pending, InQueue, Older
  <2>5. \A n \in Messages : InQueue(n) => InQueue(n)'
    BY <1>4 DEF InQueue
  <2>6. \A q \in Processes, n \in Messages : n # m =>
            /\ task[q]["inbox"].msg = n => Serves(q, n)'
            /\ n \in receiving'[q] => Awaits(q, n)'
    BY <1>1, <1>4, <2>1, <2>5, OtherRows DEF Up
  <2>7. \A q \in Processes, n \in Messages : task'[q]["inbox"].msg = n =>
            (q = p /\ n = m) \/ (task[q]["inbox"].msg = n /\ n # m)
    BY <1>2, <2>3
  <2>8. \A q \in Processes : m \notin receiving'[q]
    BY <1>1, <1>2
  <2> QED BY <2>2, <2>4, <2>6, <2>7, <2>8 DEF Line
<1>5. CASE Updated([inbox EXCEPT ![m].consumer = None, ![m].done = TRUE]) /\ task' = task
  <2> DEFINE rows == [inbox EXCEPT ![m].consumer = None, ![m].done = TRUE]
  <2>1. /\ rows \in [Messages -> Columns] /\ rows[m].done
        /\ \A n \in Messages \ {m} : rows[n] = inbox[n]
    BY <1>3 DEF Columns
  <2> HIDE DEF rows
  <2>2. /\ RowsTyped' /\ inbox' = rows /\ order' \subseteq order
        /\ \A n \in Messages : InQueue(n) /\ ~inbox'[n].done => InQueue(n)'
    BY <1>5, <2>1, PrunedKeepsUndone DEF rows
  <2>3. \A q \in Processes, n \in Messages : n # m =>
            /\ task[q]["inbox"].msg = n => Serves(q, n)'
            /\ n \in receiving'[q] => Awaits(q, n)'
    BY <1>1, <2>1, <2>2, OtherRows DEF Up
  <2> QED BY <1>1, <1>2, <1>5, <2>2, <2>3 DEF Line
<1> QED BY <1>4, <1>5, Zenon DEF TakeNext

LEMMA ReceiveKeepsLine ==
    ASSUME DrainTyped, RowsTyped, Line, NEW p \in Processes, NEW m \in Messages, Receive(p, m)
    PROVE  RowsTyped' /\ Line'
<1>1. /\ Up(p) /\ ~InQueue(m) /\ m \notin requests
      /\ UNCHANGED <<process, task, requests>>
  BY DEF Receive, Admitted
<1>2. \A q \in Processes : task[q]["inbox"].msg # m /\ m \notin receiving[q]
  BY <1>1 DEF Line, Serves, Awaits, Pending
<1> DEFINE row == [NoRow EXCEPT !.consumer = IF Draining THEN None ELSE p]
<1>3. row \in Columns /\ ~row.done /\ row.consumer = IF Draining THEN None ELSE p
  BY DEF NoRow, Columns
<1>4. inbox' = [inbox EXCEPT ![m] = row]
  BY DEF Receive
<1> HIDE DEF row
<1>5. /\ inbox' \in [Messages -> Columns] /\ inbox'[m] = row
      /\ \A n \in Messages \ {m} : inbox'[n] = inbox[n]
  BY <1>3, <1>4 DEF RowsTyped
<1>6. \A h, n \in Messages : <<h, n>> \in order' <=>
          <<h, n>> \in order \/ (n = m /\ (h = m \/ InQueue(h)))
  BY DEF Receive
<1>7. order' \subseteq Messages \X Messages
  BY DEF Receive, RowsTyped
<1>8. RowsTyped'
  BY <1>5, <1>6, <1>7 DEF RowsTyped, InQueue
<1>9. \A h \in Messages : ~Older(h, m) /\ ~Older(m, h)
  BY <1>1 DEF RowsTyped, InQueue, Older
<1>10. ASSUME NEW q \in Processes, NEW n \in Messages, task[q]["inbox"].msg = n PROVE Serves(q, n)'
  <2>1. Serves(q, n) /\ n # m
    BY <1>2, <1>10 DEF Line
  <2>2. \A h \in Messages : Older(h, n)' <=> Older(h, n)
    BY <1>6, <2>1 DEF Older
  <2>3. \A h \in Messages : Older(h, n) => h # m /\ inbox'[h] = inbox[h]
    BY <1>5, <1>9
  <2>4. (n \in requests \/ Pending(n))' /\ inbox'[n].consumer = q
    BY <1>1, <1>5, <1>6, <2>1 DEF Serves, Pending, InQueue
  <2>5. n \notin receiving'[q]
    BY <2>1 DEF Receive, Serves, DrainTyped
  <2> QED BY <1>1, <2>1, <2>2, <2>3, <2>4, <2>5 DEF Serves, Up
<1>11. ASSUME NEW q \in Processes, NEW n \in Messages, n \in receiving'[q] PROVE Awaits(q, n)'
  <2>1. CASE n = m
    <3>1. q = p /\ ~Draining
      BY <1>2, <1>11, <2>1 DEF Receive, DrainTyped
    <3>2. InQueue(m)'
      BY <1>6 DEF InQueue
    <3> QED BY <1>1, <1>3, <1>5, <2>1, <3>1, <3>2 DEF Awaits, Pending, Up
  <2>2. CASE n # m
    <3>1. n \in receiving[q]
      BY <1>11, <2>2 DEF Receive, DrainTyped
    <3>2. Awaits(q, n)
      BY <3>1 DEF Line
    <3> QED BY <1>1, <1>5, <1>6, <2>2, <3>2 DEF Awaits, Pending, InQueue, Up
  <2> QED BY <2>1, <2>2
<1> QED BY <1>1, <1>8, <1>10, <1>11 DEF Line

LEMMA ReceiptsKeepLine ==
    ASSUME DrainTyped, RowsTyped, Line, NEW p \in Processes, NEW m \in Messages, NEW ok \in BOOLEAN,
           ReceiptAnswered(p, m, ok) \/ ReceiptSent(p, m, ok)
    PROVE  RowsTyped' /\ Line'
<1>1. inbox[m] \in Columns /\ inbox \in [Messages -> Columns]
  BY DEF RowsTyped
<1>2. /\ order' = order /\ UNCHANGED <<process, requests>>
      /\ inbox' \in [Messages -> Columns] /\ inbox'[m].done = inbox[m].done
      /\ \A n \in Messages \ {m} : inbox'[n] = inbox[n]
  <2>1. CASE ReceiptAnswered(p, m, ok)
    <3>1. inbox' = [inbox EXCEPT ![m].receipt = @ \/ ok, ![m].consumer = None]
      BY <2>1 DEF ReceiptAnswered
    <3>2. (inbox[m].receipt \/ ok) \in BOOLEAN
      BY <1>1 DEF Columns
    <3> QED BY <1>1, <2>1, <3>1, <3>2, ZenonT(60) DEF ReceiptAnswered, Columns
  <2>2. CASE ReceiptSent(p, m, ok)
    BY <1>1, <2>2, ZenonT(60) DEF ReceiptSent, Columns
  <2> QED BY <2>1, <2>2
<1>3. RowsTyped'
  BY <1>2, RowWritten
<1>4. \A n \in Messages : InQueue(n) => InQueue(n)'
  BY <1>2 DEF InQueue
<1>5. CASE ReceiptAnswered(p, m, ok)
  <2>1. /\ m \in receiving[p] /\ receiving' = [receiving EXCEPT ![p] = @ \ {m}] /\ task' = task
    BY <1>5 DEF ReceiptAnswered
  <2>2. receiving'[p] = receiving[p] \ {m} /\ \A q \in Processes \ {p} : receiving'[q] = receiving[q]
    BY <2>1 DEF DrainTyped
  <2>3. \A q \in Processes : task[q]["inbox"].msg # m /\ m \notin receiving'[q]
    BY <2>1, <2>2 DEF Line, Serves, Awaits
  <2>4. \A q \in Processes, n \in Messages : n # m =>
            /\ task[q]["inbox"].msg = n => Serves(q, n)'
            /\ n \in receiving'[q] => Awaits(q, n)'
    BY <1>2, <1>4, <2>2, OtherRows DEF Up
  <2> QED BY <1>3, <2>1, <2>3, <2>4 DEF Line
<1>6. CASE ReceiptSent(p, m, ok)
  <2>1. task[p]["inbox"].msg = m /\ receiving' = receiving
    BY <1>6 DEF ReceiptSent, Does
  <2>2. /\ \A q \in Processes \ {p} : task'[q]["inbox"] = task[q]["inbox"]
        /\ task'[p]["inbox"].msg = m
        /\ inbox' = inbox \/ inbox' = [inbox EXCEPT ![m].receipt = TRUE]
    BY <1>6 DEF ReceiptSent, Goes, DrainTyped, Tasks
  <2>3. Serves(p, m)
    BY <2>1 DEF Line
  <2>4. inbox'[m].consumer = p
    BY <1>1, <2>2, <2>3 DEF Serves, Columns
  <2> HIDE DEF RowsTyped
  <2>5. m \in requests \/ ~inbox'[m].done
    BY <1>2, <2>3 DEF Serves, Pending
  <2> QED BY <1>2, <1>3, <1>4, <2>1, <2>2, <2>4, <2>5, OwnRow
<1> QED BY <1>5, <1>6

LEMMA ShutdownKeepsLine ==
    ASSUME DrainTyped, RowsTyped, Line, NEW p \in Processes, Shutdown(p)
    PROVE  RowsTyped' /\ Line'
<1>1. Updated([m \in Messages |-> CancelledRow(p, m)])
  BY DEF Shutdown
<1> DEFINE rows == [m \in Messages |-> CancelledRow(p, m)]
<1>2. \A m \in Messages : inbox[m] \in Columns
  BY DEF RowsTyped
<1>3. ASSUME NEW m \in Messages
      PROVE  /\ CancelledRow(p, m) \in Columns
             /\ inbox[m].done => CancelledRow(p, m).done
             /\ inbox[m].consumer # p => CancelledRow(p, m) = inbox[m]
  <2> DEFINE over == /\ task[p]["inbox"].msg = m /\ task[p]["inbox"].at # "receipt" /\ Over(m)
                     /\ m \in Owners => task[p]["inbox"].at = "notice"
  <2> DEFINE ended == inbox[m].done \/ over
  <2>1. CancelledRow(p, m) = IF inbox[m].consumer # p THEN inbox[m]
                                   ELSE [inbox[m] EXCEPT !.consumer = None, !.done = ended]
    BY DEF CancelledRow
  <2>2. ended \in BOOLEAN /\ (inbox[m].done => ended)
    BY <1>2 DEF Columns
  <2> HIDE DEF ended
  <2> QED BY <1>2, <2>1, <2>2 DEF Columns
<1>4. /\ rows \in [Messages -> Columns]
      /\ \A m \in Messages : rows[m] = CancelledRow(p, m)
  BY <1>3
<1> HIDE DEF rows
<1>5. /\ RowsTyped' /\ inbox' = rows /\ order' \subseteq order
      /\ \A m \in Messages : InQueue(m) /\ ~rows[m].done => InQueue(m)'
  BY <1>1, <1>4, PrunedKeepsUndone DEF rows
<1>6. task'[p]["inbox"].msg = None /\ receiving'[p] = {} /\ requests' = requests
  BY DEF Shutdown, Gone, DrainTyped, Free, Tasks
<1>7. \A q \in Processes \ {p} : /\ task'[q] = task[q] /\ receiving'[q] = receiving[q]
                                 /\ Up(q)' = Up(q)
  BY DEF Shutdown, Gone, DrainTyped, Up
<1>8. ASSUME NEW q \in Processes, NEW n \in Messages, task'[q]["inbox"].msg = n
      PROVE  Serves(q, n)'
  <2>1. q # p
    BY <1>6, <1>8, BridgeAssumption
  <2>2. Serves(q, n)
    BY <1>7, <1>8, <2>1 DEF Line
  <2>3. inbox'[n] = inbox[n]
    BY <1>3, <1>4, <1>5, <2>1, <2>2 DEF Serves
  <2>4. (n \in requests \/ Pending(n))'
    BY <1>5, <1>6, <2>2, <2>3 DEF Serves, Pending
  <2>5. \A h \in Messages : /\ Older(h, n)' => Older(h, n)
                            /\ inbox[h].done => inbox'[h].done
    BY <1>3, <1>4, <1>5 DEF Older
  <2> QED BY <1>7, <2>1, <2>2, <2>3, <2>4, <2>5, ServesKept DEF Serves
<1>9. ASSUME NEW q \in Processes, NEW n \in Messages, n \in receiving'[q]
      PROVE  Awaits(q, n)'
  <2>1. q # p
    BY <1>6, <1>9
  <2>2. Awaits(q, n)
    BY <1>7, <1>9, <2>1 DEF Line
  <2>3. inbox'[n] = inbox[n]
    BY <1>3, <1>4, <1>5, <2>1, <2>2 DEF Awaits
  <2> QED BY <1>5, <1>7, <2>1, <2>2, <2>3 DEF Awaits, Pending
<1> QED BY <1>5, <1>8, <1>9 DEF Line

LEMMA NextLine == DrainTyped /\ RowsTyped /\ Line /\ Places /\ [Next]_vars => RowsTyped' /\ Line'
<1> SUFFICES ASSUME DrainTyped, RowsTyped, Line, Places, [Next]_vars PROVE RowsTyped' /\ Line'
  OBVIOUS
<1>0. ASSUME UNCHANGED <<order, inbox>> PROVE RowsTyped'
  BY <1>0 DEF RowsTyped, InQueue
<1>1. ASSUME UNCHANGED <<receiving, order, inbox, requests>>, \A q \in Processes : Up(q) => Up(q)',
             \A q \in Processes : task'[q]["inbox"].msg \in {task[q]["inbox"].msg, None}
      PROVE  RowsTyped' /\ Line'
  BY <1>0, <1>1, LineStays
<1>2. ASSUME NEW p \in Processes, Start(p) \/ WatchDrain(p) \/ SweepStart(p) \/ SeeIdle(p) PROVE RowsTyped' /\ Line'
  <2>1. UNCHANGED <<task, receiving, order, inbox, requests>>
    BY <1>2 DEF Start, WatchDrain, SweepStart, SeeIdle, ledger
  <2>2. \A q \in Processes : Up(q) => Up(q)'
    BY <1>2 DEF Start, WatchDrain, SweepStart, SeeIdle, Up, DrainTyped
  <2> QED BY <1>1, <2>1, <2>2
<1>3. ASSUME NEW p \in Processes, Crash(p) \/ KillIdle(p) PROVE RowsTyped' /\ Line'
  <2>1. Gone(p) /\ UNCHANGED ledger
    BY <1>3 DEF Crash, KillIdle
  <2> QED BY <1>0, <2>1, GoneKeepsLine DEF ledger
<1>4. ASSUME NEW p \in Processes, Shutdown(p) PROVE RowsTyped' /\ Line'
  BY <1>4, ShutdownKeepsLine
<1>5. ASSUME NEW p \in Processes, NEW m \in Messages, Receive(p, m) PROVE RowsTyped' /\ Line'
  BY <1>5, ReceiveKeepsLine
<1>6. ASSUME NEW p \in Processes, NEW m \in Messages, ReceiveCrash(p, m) PROVE RowsTyped' /\ Line'
  <2>1. Gone(p) /\ UNCHANGED ledger
    BY <1>6 DEF ReceiveCrash
  <2> QED BY <1>0, <2>1, GoneKeepsLine DEF ledger
<1>7. ASSUME NEW p \in Processes, NEW m \in Messages, NEW ok \in BOOLEAN,
             ReceiptAnswered(p, m, ok) \/ ReceiptSent(p, m, ok)
      PROVE RowsTyped' /\ Line'
  BY <1>7, ReceiptsKeepLine
<1>8. ASSUME NEW p \in Processes, NEW m \in Messages, TakeNext(p, m) PROVE RowsTyped' /\ Line'
  BY <1>8, TakeNextKeepsLine
<1>9. ASSUME NEW p \in Processes, NEW t \in {"sweep", "outbox"}, NEW x,
             task' = [task EXCEPT ![p][t] = x] \/ task' = task,
             UNCHANGED <<process, receiving, order, inbox, requests>>
      PROVE RowsTyped' /\ Line'
  <2>1. \A q \in Processes : task'[q]["inbox"] = task[q]["inbox"]
    BY <1>9 DEF DrainTyped, Tasks
  <2> QED BY <1>1, <1>9, <2>1 DEF Up
<1>10. ASSUME NEW p \in Processes, NEW m \in Messages, SweepTake(p, m) PROVE RowsTyped' /\ Line'
  <2>1. \E x : task' = [task EXCEPT ![p]["sweep"] = x] \/ task' = task
    BY <1>10 DEF SweepTake, Goes
  <2> QED BY <1>9, <1>10, <2>1 DEF SweepTake, ledger
<1>11. ASSUME NEW p \in Processes, NEW t \in {"inbox", "sweep"}, NEW m \in Messages, Work(p, t, m)
       PROVE RowsTyped' /\ Line'
  BY <1>11, WorkKeepsLine
<1>12. ASSUME NEW m \in Messages, ReportStored(m) PROVE RowsTyped' /\ Line'
  BY <1>1, <1>12 DEF ReportStored, ledger, Up
<1>13. ASSUME NEW p \in Processes, NEW m \in Messages, OutboxTake(p, m) \/ ClaimDelivery(p, m)
       PROVE RowsTyped' /\ Line'
  <2>1. \E x : task' = [task EXCEPT ![p]["outbox"] = x]
    BY <1>13 DEF OutboxTake, ClaimDelivery, Goes
  <2> QED BY <1>9, <1>13, <2>1 DEF OutboxTake, ClaimDelivery, ledger
<1>14. ASSUME NEW p \in Processes, NEW m \in Messages, NEW ok \in BOOLEAN, ReportSent(p, m, ok)
       PROVE RowsTyped' /\ Line'
  <2>1. \E x : task' = [task EXCEPT ![p]["outbox"] = x]
    BY <1>14 DEF ReportSent
  <2> QED BY <1>9, <1>14, <2>1 DEF ReportSent, ledger
<1>15. CASE SetDrain \/ GiveUp
  BY <1>1, <1>15 DEF SetDrain, GiveUp, ledger, Up
<1>16. CASE UNCHANGED vars
  BY <1>1, <1>16 DEF vars, ledger, Up
<1> QED
  <2> HIDE DEF RowsTyped, Line
  <2>1. CASE Next
    BY <2>1, <1>2, <1>3, <1>4, <1>5, <1>6, <1>7, <1>8, <1>10, <1>11, <1>12, <1>13, <1>14,
       <1>15, Zenon DEF Next
  <2> QED BY <1>16, <2>1

\* A task that is taken up has a message, and one that ends has none.
LEMMA BusyKept ==
    ASSUME DrainTyped, Busy,
           \/ task' = task
           \/ \E p \in Processes : Gone(p)
           \/ \E p \in Processes, t \in Tasks :
                 \/ \E m \in Messages : \E at : Goes(p, t, at, m)
                 \/ task' = [task EXCEPT ![p][t] = Free]
    PROVE  Busy'
<1>1. CASE task' = task
  BY <1>1 DEF Busy
<1>2. ASSUME NEW p \in Processes, Gone(p) PROVE Busy'
  BY <1>2 DEF Gone, Busy, DrainTyped
<1>3. ASSUME NEW p \in Processes, NEW t \in Tasks, NEW m \in Messages, NEW at, Goes(p, t, at, m)
      PROVE  Busy'
  BY <1>3 DEF Goes, Busy, DrainTyped
<1>4. ASSUME NEW p \in Processes, NEW t \in Tasks, task' = [task EXCEPT ![p][t] = Free]
      PROVE  Busy'
  BY <1>4 DEF Busy, DrainTyped
<1> QED BY <1>1, <1>2, <1>3, <1>4

LEMMA NextBusy == DrainTyped /\ Busy /\ [Next]_vars => Busy'
<1> SUFFICES ASSUME DrainTyped, Busy, [Next]_vars PROVE Busy'
  OBVIOUS
<1> USE DEF Tasks
<1>1. ASSUME NEW p \in Processes,
             Start(p) \/ Crash(p) \/ Shutdown(p) \/ WatchDrain(p) \/ SweepStart(p) \/ SeeIdle(p) \/ KillIdle(p)
      PROVE Busy'
  BY <1>1, BusyKept DEF Start, Crash, Shutdown, WatchDrain, SweepStart, SeeIdle, KillIdle
<1>2. ASSUME NEW p \in Processes, NEW m \in Messages, Receive(p, m) \/ ReceiveCrash(p, m)
      PROVE Busy'
  BY <1>2, BusyKept DEF Receive, ReceiveCrash
<1>3. ASSUME NEW p \in Processes, NEW m \in Messages,
             TakeNext(p, m) \/ SweepTake(p, m) \/ OutboxTake(p, m) \/ ClaimDelivery(p, m)
      PROVE Busy'
  <2>1. CASE TakeNext(p, m)
    BY <2>1, BusyKept DEF TakeNext
  <2>2. CASE SweepTake(p, m)
    BY <2>2, BusyKept DEF SweepTake
  <2>3. CASE OutboxTake(p, m) \/ ClaimDelivery(p, m)
    BY <2>3, BusyKept DEF OutboxTake, ClaimDelivery
  <2> QED BY <1>3, <2>1, <2>2, <2>3
<1>4. ASSUME NEW p \in Processes, NEW m \in Messages, NEW ok \in BOOLEAN,
             ReceiptAnswered(p, m, ok) \/ ReceiptSent(p, m, ok) \/ ReportSent(p, m, ok)
      PROVE Busy'
  BY <1>4, BusyKept DEF ReceiptAnswered, ReceiptSent, ReportSent
<1>5. ASSUME NEW p \in Processes, NEW t \in {"inbox", "sweep"}, NEW m \in Messages, Work(p, t, m)
      PROVE Busy'
  <2>1. (\E at : Goes(p, t, at, m)) \/ task' = [task EXCEPT ![p][t] = Free]
    BY <1>5, WorkMoves
  <2> QED BY <2>1, BusyKept
<1>6. ASSUME NEW m \in Messages, ReportStored(m) PROVE Busy'
  BY <1>6, BusyKept DEF ReportStored
<1>7. CASE SetDrain \/ GiveUp \/ UNCHANGED vars
  BY <1>7, BusyKept DEF SetDrain, GiveUp, vars
<1> QED
  <2> HIDE DEF Busy
  <2>1. CASE Next
    BY <2>1, <1>1, <1>2, <1>3, <1>4, <1>5, <1>6, <1>7, Zenon DEF Next
  <2> QED BY <1>7, <2>1

\* A row of the intakes that is written stays the row of the same message.
LEMMA IntakeWritten ==
    ASSUME Swept, NEW m \in Messages, NEW row \in Intakes, row.known = intake[m].known,
           intake' = [intake EXCEPT ![m] = row],
           batch' = batch \/ \E p \in Processes : batch' = [batch EXCEPT ![p] = {}]
    PROVE  Swept'
BY DEF Swept

LEMMA LeftWritten ==
    ASSUME Swept, NEW m \in Messages, NEW done \in BOOLEAN, intake' = Left(m, done),
           batch' = batch \/ \E p \in Processes : batch' = [batch EXCEPT ![p] = {}]
    PROVE  /\ Swept' /\ intake'[m].done = (intake[m].done \/ done)
           /\ \A n \in Messages \ {m} : intake'[n] = intake[n]
<1> DEFINE over == intake[m].done \/ done
<1> DEFINE row == [intake[m] EXCEPT !.done = over, !.consumer = None]
<1>1. intake[m] \in Intakes /\ intake \in [Messages -> Intakes]
  BY DEF Swept
<1>2. over \in BOOLEAN
  BY <1>1 DEF Intakes
<1>3. intake' = [intake EXCEPT ![m] = row]
  BY <1>1 DEF Left
<1> HIDE DEF over
<1>4. row \in Intakes /\ row.known = intake[m].known /\ row.done = over
  BY <1>1, <1>2 DEF Intakes
<1> HIDE DEF row
<1>5. Swept'
  BY <1>3, <1>4, IntakeWritten
<1> QED BY <1>1, <1>3, <1>4, <1>5 DEF over

LEMMA WorkKeepsSwept ==
    ASSUME DrainTyped, Swept, NEW p \in Processes, NEW t \in {"inbox", "sweep"}, NEW m \in Messages,
           Work(p, t, m)
    PROVE  Swept'
<1>1. batch' = batch \/ batch' = [batch EXCEPT ![p] = {}]
  BY WorkMoves
<1>2. intake[m] \in Intakes /\ intake \in [Messages -> Intakes]
  BY DEF Swept
<1>3. CASE intake' = intake
  BY <1>1, <1>3 DEF Swept
<1>4. ASSUME NEW done \in BOOLEAN, intake' = Left(m, done) PROVE Swept'
  BY <1>1, <1>4, LeftWritten
<1>5. CASE Begin(p, t, m)
  <2>1. CASE m \notin Owners
    BY <1>3, <1>5, <2>1 DEF Begin
  <2>2. CASE m \in Owners
    <3> DEFINE greeted == t = "inbox" \/ intake[m].receipt
    <3> DEFINE settled == m \in requests /\ m \in jobs
    <3> DEFINE row == [intake[m] EXCEPT !.receipt = greeted]
    <3> DEFINE taken == [row EXCEPT !.consumer = IF settled THEN None ELSE p, !.done = settled]
    <3>1. greeted \in BOOLEAN
      BY <1>2 DEF Intakes
    <3>2. settled \in BOOLEAN
      OBVIOUS
    <3>3. intake' = [intake EXCEPT ![m] = row] \/ intake' = [intake EXCEPT ![m] = taken]
      BY <1>5, <2>2 DEF Begin
    <3> HIDE DEF greeted, settled
    <3>4. row \in Intakes /\ row.known = intake[m].known
      BY <1>2, <3>1 DEF Intakes
    <3>5. taken \in Intakes /\ taken.known = intake[m].known
      BY <3>2, <3>4 DEF Intakes
    <3> HIDE DEF row, taken
    <3> QED BY <1>1, <3>3, <3>4, <3>5, IntakeWritten
  <2> QED BY <2>1, <2>2
<1>6. ASSUME NEW ok \in BOOLEAN, Greet(p, t, m, ok) PROVE Swept'
  <2> DEFINE row == [intake[m] EXCEPT !.receipt = TRUE]
  <2>1. row \in Intakes /\ row.known = intake[m].known
    BY <1>2 DEF Intakes
  <2>2. intake' = [intake EXCEPT ![m] = row] \/ intake' = Left(m, FALSE)
    BY <1>2, <1>6 DEF Greet
  <2> HIDE DEF row
  <2> QED BY <1>1, <1>4, <2>1, <2>2, IntakeWritten
<1>7. ASSUME NEW route, Classified(p, t, m, route) PROVE Swept'
  <2> DEFINE row == [intake[m] EXCEPT !.route = "conversation"]
  <2>1. row \in Intakes /\ row.known = intake[m].known
    BY <1>2 DEF Intakes
  <2>2. \/ intake' = [intake EXCEPT ![m] = row] \/ intake' = intake
        \/ intake' = Left(m, route = "refused") \/ intake' = Left(m, FALSE)
    BY <1>2, <1>7 DEF Classified
  <2>3. (route = "refused") \in BOOLEAN
    OBVIOUS
  <2> HIDE DEF row
  <2> QED BY <1>1, <1>3, <1>4, <2>1, <2>2, <2>3, IntakeWritten
<1>8. ASSUME NEW ok \in BOOLEAN, LimitsSent(p, t, m, ok) PROVE Swept'
  BY <1>4, <1>8 DEF LimitsSent
<1>9. CASE EnqueueJob(p, t, m) \/ RecordJob(p, t, m) \/ SettleJob(p, t, m)
  BY <1>3, <1>4, <1>9 DEF EnqueueJob, RecordJob, SettleJob
<1>10. CASE Converse(p, t, m)
  <2>1. (m \in Owners) \in BOOLEAN /\ TRUE \in BOOLEAN
    OBVIOUS
  <2>2. \/ intake' = intake \/ intake' = Left(m, TRUE) \/ intake' = Left(m, m \in Owners)
    BY <1>10 DEF Converse, DoneFirst
  <2> QED BY <1>3, <1>4, <2>1, <2>2
<1>11. CASE Answered(p, t, m) \/ Finish(p, t, m)
  BY <1>3, <1>11 DEF Answered, Finish, store
<1>12. ASSUME NEW ok \in BOOLEAN,
              Delivered(p, t, m, ok) \/ NoticeSent(p, t, m, ok) \/ FailureSent(p, t, m, ok)
       PROVE Swept'
  <2>1. (ok /\ m \in Owners) \in BOOLEAN
    OBVIOUS
  <2> QED BY <1>3, <1>4, <1>12, <2>1 DEF Delivered, NoticeSent, FailureSent, store
<1>13. ASSUME NEW refused \in BOOLEAN, ExecutionFails(p, t, m, refused) PROVE Swept'
  <2>1. (refused /\ m \in Owners) \in BOOLEAN
    OBVIOUS
  <2> QED BY <1>4, <1>13, <2>1 DEF ExecutionFails
<1> QED
  <2> HIDE DEF Swept
  <2> QED BY <1>5, <1>6, <1>7, <1>8, <1>9, <1>10, <1>11, <1>12, <1>13, Zenon DEF Work

LEMMA NextSwept == DrainTyped /\ Swept /\ [Next]_vars => Swept'
<1> SUFFICES ASSUME DrainTyped, Swept, [Next]_vars PROVE Swept'
  OBVIOUS
<1>1. ASSUME UNCHANGED intake, batch' \in [Processes -> SUBSET Owners] PROVE Swept'
  BY <1>1 DEF Swept
<1>2. batch' = batch => batch' \in [Processes -> SUBSET Owners]
  BY DEF Swept
<1>3. ASSUME NEW p \in Processes, Gone(p) PROVE batch' \in [Processes -> SUBSET Owners]
  BY <1>3 DEF Gone, Swept
<1>4. ASSUME NEW m \in Messages, intake' = Captured(m), batch' \in [Processes -> SUBSET Owners]
      PROVE Swept'
  BY <1>4 DEF Captured, Swept, Intakes
<1>5. ASSUME NEW p \in Processes, Start(p) \/ Crash(p) \/ WatchDrain(p) \/ SeeIdle(p) \/ KillIdle(p)
      PROVE Swept'
  BY <1>1, <1>2, <1>3, <1>5 DEF Start, Crash, WatchDrain, SeeIdle, KillIdle, store
<1>6. ASSUME NEW p \in Processes, Shutdown(p) PROVE Swept'
  <2>1. Gone(p) /\ intake' = [m \in Messages |-> IF intake[m].consumer = p
                                                 THEN [intake[m] EXCEPT !.consumer = None]
                                                 ELSE intake[m]]
    BY <1>6 DEF Shutdown
  <2>2. \A m \in Messages : [intake[m] EXCEPT !.consumer = None] \in Intakes
                            /\ [intake[m] EXCEPT !.consumer = None].known = intake[m].known
    BY DEF Swept, Intakes
  <2> QED BY <1>3, <2>1, <2>2 DEF Swept
<1>7. ASSUME NEW p \in Processes, SweepStart(p) PROVE Swept'
  <2> DEFINE found == {m \in Allows[p] : intake[m].known /\ ~intake[m].done}
  <2>1. batch' = [batch EXCEPT ![p] = found] /\ UNCHANGED intake
    BY <1>7 DEF SweepStart, store
  <2>2. found \subseteq Owners
    BY BridgeAssumption DEF Swept
  <2> HIDE DEF found
  <2>3. batch' \in [Processes -> SUBSET Owners]
    BY <2>1, <2>2 DEF Swept
  <2> QED BY <1>1, <2>1, <2>3
<1>8. ASSUME NEW p \in Processes, NEW m \in Messages, Receive(p, m) \/ ReceiveCrash(p, m)
      PROVE Swept'
  BY <1>2, <1>3, <1>4, <1>8 DEF Receive, ReceiveCrash
<1>9. ASSUME NEW p \in Processes, NEW m \in Messages,
             TakeNext(p, m) \/ OutboxTake(p, m) \/ ClaimDelivery(p, m)
      PROVE Swept'
  BY <1>1, <1>2, <1>9 DEF TakeNext, OutboxTake, ClaimDelivery, store
<1>10. ASSUME NEW p \in Processes, NEW m \in Messages, SweepTake(p, m) PROVE Swept'
  <2>1. UNCHANGED intake /\ (batch' = [batch EXCEPT ![p] = @ \ {m}] \/ batch' = [batch EXCEPT ![p] = {}])
    BY <1>10 DEF SweepTake, store
  <2>2. batch' \in [Processes -> SUBSET Owners]
    BY <2>1 DEF Swept
  <2> QED BY <1>1, <2>1, <2>2
<1>11. ASSUME NEW p \in Processes, NEW m \in Messages, NEW ok \in BOOLEAN,
              ReceiptAnswered(p, m, ok) \/ ReceiptSent(p, m, ok) \/ ReportSent(p, m, ok)
       PROVE Swept'
  BY <1>1, <1>2, <1>11 DEF ReceiptAnswered, ReceiptSent, ReportSent, store
<1>12. ASSUME NEW p \in Processes, NEW t \in {"inbox", "sweep"}, NEW m \in Messages, Work(p, t, m)
       PROVE Swept'
  BY <1>12, WorkKeepsSwept
<1>13. ASSUME NEW m \in Messages, ReportStored(m) PROVE Swept'
  BY <1>1, <1>2, <1>13 DEF ReportStored
<1>14. CASE SetDrain \/ GiveUp \/ UNCHANGED vars
  BY <1>1, <1>2, <1>14 DEF SetDrain, GiveUp, vars, store
<1> QED
  <2> HIDE DEF Swept
  <2>1. CASE Next
    BY <2>1, <1>5, <1>6, <1>7, <1>8, <1>9, <1>10, <1>11, <1>12, <1>13, <1>14, Zenon DEF Next
  <2> QED BY <1>14, <2>1

\* A task that is left alone stands where it stood, unless an execution of its message begins.
LEMMA StandsKept ==
    ASSUME NEW p \in Processes, NEW t \in {"inbox", "sweep"}, NEW m \in Messages, Stands(p, t, m),
           task'[p][t].at = task[p][t].at,
           requests \subseteq requests', jobs \subseteq jobs',
           m \notin Owners /\ m \in owed' => m \in owed
    PROVE  Stands(p, t, m)'
BY DEF Stands

\* Nothing but tasks that are free at the end moves.
LEMMA PlacesStay ==
    ASSUME Places, UNCHANGED <<requests, jobs>>, owed' \subseteq owed,
           \A q \in Processes, u \in {"inbox", "sweep"} :
               task'[q][u] = task[q][u] \/ task'[q][u] = Free
    PROVE  Places'
<1> SUFFICES ASSUME NEW q \in Processes, NEW u \in {"inbox", "sweep"}, NEW n \in Messages,
                    task'[q][u].msg = n
             PROVE  Stands(q, u, n)'
  BY DEF Places
<1>1. task'[q][u] = task[q][u]
  BY BridgeAssumption DEF Free
<1>2. Stands(q, u, n)
  BY <1>1 DEF Places
<1> QED BY <1>1, <1>2, StandsKept

\* Where a step of the work takes its own message.
LEMMA WorkStands ==
    ASSUME DrainTyped, Recording, Places, NEW p \in Processes, NEW t \in {"inbox", "sweep"},
           NEW m \in Messages, Work(p, t, m), task'[p][t].msg = m
    PROVE  Stands(p, t, m)'
<1>1. Stands(p, t, m)
  BY WorkMoves DEF Places
<1>2. ASSUME NEW at, Goes(p, t, at, m) PROVE task'[p][t].at = at
  BY <1>2 DEF Goes, DrainTyped, Tasks
<1>3. ASSUME NEW at, Does(p, t, at, m) PROVE task[p][t].at = at
  BY <1>3 DEF Does
<1>4. ASSUME m \in Owners, NEW at, Goes(p, t, at, m),
             at \notin {"record", "settle", "running", "delivering", "free", "claiming", "sending"}
      PROVE  Stands(p, t, m)'
  <2>1. task'[p][t].at = at
    BY <1>2, <1>4
  <2> QED BY <1>4, <2>1 DEF Stands
<1>5. t = "sweep" => m \in Owners
  BY <1>1 DEF Stands
<1>6. CASE Begin(p, t, m)
  <2>1. CASE m \in Owners
    BY <1>4, <1>6, <2>1 DEF Begin, Routed
  <2>2. CASE m \notin Owners
    <3>1. task'[p][t].at = "converse"
      BY <1>2, <1>6, <2>2 DEF Begin
    <3> QED BY <1>5, <3>1 DEF Stands, Intaking
  <2> QED BY <2>1, <2>2
<1>7. ASSUME NEW ok \in BOOLEAN, Greet(p, t, m, ok) PROVE Stands(p, t, m)'
  <2>1. m \in Owners
    BY <1>1, <1>3, <1>7 DEF Greet, Stands, Intaking
  <2> QED BY <1>4, <1>7, <2>1 DEF Greet, Routed
<1>8. ASSUME NEW route, Classified(p, t, m, route) PROVE Stands(p, t, m)'
  <2>1. m \in Owners
    BY <1>1, <1>3, <1>8 DEF Classified, Stands, Intaking
  <2> QED BY <1>4, <1>8, <2>1 DEF Classified, AfterError
<1>9. ASSUME NEW ok \in BOOLEAN, LimitsSent(p, t, m, ok) PROVE Stands(p, t, m)'
  <2>1. m \in Owners
    BY <1>1, <1>3, <1>9 DEF LimitsSent, Stands, Intaking
  <2> QED BY <1>4, <1>9, <2>1 DEF LimitsSent, AfterError
<1>10. CASE EnqueueJob(p, t, m)
  <2>1. m \in Owners /\ m \in jobs'
    BY <1>1, <1>3, <1>10 DEF EnqueueJob, Stands, Intaking
  <2>2. task'[p][t].at = "record"
    BY <1>2, <1>10 DEF EnqueueJob
  <2> QED BY <2>1, <2>2 DEF Stands
<1>11. CASE RecordJob(p, t, m)
  <2>1. m \in Owners /\ m \in jobs /\ jobs' = jobs
    BY <1>1, <1>3, <1>11 DEF RecordJob, Stands, Intaking
  <2>2. task'[p][t].at \in {"settle", "notice", "closing"}
    BY <1>2, <1>11 DEF RecordJob
  <2> QED BY <2>1, <2>2 DEF Stands
<1>12. CASE SettleJob(p, t, m)
  <2>1. m \in Owners
    BY <1>1, <1>3, <1>12 DEF SettleJob, Stands, Intaking
  <2> QED BY <1>4, <1>12, <2>1 DEF SettleJob
<1>13. CASE Converse(p, t, m)
  <2>1. CASE requests' = Recorded(m) /\ Goes(p, t, "running", m)
    <3>1. task'[p][t].at = "running" /\ m \in requests'
      BY <1>2, <2>1 DEF Recorded
    <3> QED BY <1>5, <3>1 DEF Stands, Intaking
  <2>2. ASSUME NEW at \in {"telling", "notice"}, Goes(p, t, at, m) PROVE Stands(p, t, m)'
    <3>1. task'[p][t].at = at
      BY <1>2, <2>2
    <3> QED BY <1>5, <3>1 DEF Stands, Intaking
  <2> QED BY <1>13, <2>1, <2>2 DEF Converse, ToldUnknown
<1>14. CASE Answered(p, t, m)
  <2>1. m \in requests /\ requests' = requests
    BY <1>1, <1>3, <1>14 DEF Answered, Stands
  <2>2. task'[p][t].at = "delivering"
    BY <1>2, <1>14 DEF Answered
  <2> QED BY <1>5, <2>1, <2>2 DEF Stands, Intaking
\* The sweep has messages of the owner only, so that a guest's failure is told.
<1>15. ASSUME NEW ok \in BOOLEAN, Delivered(p, t, m, ok) \/ NoticeSent(p, t, m, ok)
       PROVE Stands(p, t, m)'
  <2>1. task'[p][t].at = IF ok THEN "closing" ELSE AfterError(t)
    BY <1>2, <1>15 DEF Delivered, NoticeSent
  <2>2. ok => m \notin owed'
    BY <1>15 DEF Delivered, NoticeSent
  <2>3. CASE task'[p][t].at = "closing" /\ (m \notin Owners => m \notin owed')
    BY <1>5, <2>3 DEF Stands, Intaking
  <2>4. CASE task'[p][t].at = "notice"
    BY <1>5, <2>4 DEF Stands, Intaking
  <2> QED BY <1>5, <2>1, <2>2, <2>3, <2>4 DEF AfterError
<1>16. ASSUME NEW refused \in BOOLEAN, ExecutionFails(p, t, m, refused) PROVE Stands(p, t, m)'
  <2>1. task'[p][t].at = "notice" \/ (task'[p][t].at = "closing" /\ m \in Owners)
    BY <1>2, <1>5, <1>16 DEF ExecutionFails, AfterError
  <2> QED BY <1>5, <2>1 DEF Stands, Intaking
\* What was executed is over, if it is a guest's.
<1>17. ASSUME NEW ok \in BOOLEAN, FailureSent(p, t, m, ok) PROVE Stands(p, t, m)'
  <2>1. task'[p][t].at = "closing"
    BY <1>2, <1>17 DEF FailureSent
  <2>2. m \notin Owners => m \notin owed'
    BY <1>17 DEF FailureSent, Over, Recording
  <2> QED BY <1>5, <2>1, <2>2 DEF Stands, Intaking
<1>18. CASE Finish(p, t, m)
  BY <1>18, BridgeAssumption DEF Finish, DrainTyped, Tasks, Free
<1> QED
  <2> HIDE DEF Stands
  <2> QED BY <1>6, <1>7, <1>8, <1>9, <1>10, <1>11, <1>12, <1>13, <1>14, <1>15, <1>16, <1>17, <1>18, Zenon
          DEF Work

LEMMA WorkKeepsPlaces ==
    ASSUME DrainTyped, Recording, Line, Places, NEW p \in Processes, NEW t \in {"inbox", "sweep"},
           NEW m \in Messages, Work(p, t, m)
    PROVE  Places'
<1> SUFFICES ASSUME NEW q \in Processes, NEW u \in {"inbox", "sweep"}, NEW n \in Messages,
                    task'[q][u].msg = n
             PROVE  Stands(q, u, n)'
  BY DEF Places
<1>1. /\ task[p][t].msg = m /\ task'[p][t].msg \in {m, None}
      /\ q # p \/ u # t => task'[q][u] = task[q][u]
      /\ requests \subseteq requests' /\ jobs \subseteq jobs' /\ owed' \subseteq owed \cup {m}
  BY WorkMoves DEF Tasks
<1>2. CASE q = p /\ u = t
  <2>1. n = m
    BY <1>1, <1>2, BridgeAssumption
  <2> QED BY <1>2, <2>1, WorkStands
<1>3. CASE q # p \/ u # t
  <2>1. task'[q][u] = task[q][u]
    BY <1>1, <1>3
  <2>2. Stands(q, u, n)
    BY <2>1 DEF Places
\* Another task with a message that is not the owner's is an inbox task, and those are alone.
  <2>3. ASSUME n \notin Owners PROVE n # m
    <3>1. ASSUME n = m PROVE FALSE
      <4>1. u = "inbox" /\ t = "inbox"
        BY <1>1, <2>2, <2>3, <3>1 DEF Stands, Places
      <4>2. Serves(q, m) /\ Serves(p, m)
        BY <1>1, <2>1, <3>1, <4>1 DEF Line
      <4> QED BY <1>3, <4>1, <4>2 DEF Serves
    <3> QED BY <3>1
  <2> QED BY <1>1, <2>1, <2>2, <2>3, StandsKept
<1> QED BY <1>2, <1>3

LEMMA NextPlaces ==
    DrainTyped /\ Recording /\ Line /\ Places /\ Swept /\ [Next]_vars => Places'
<1> SUFFICES ASSUME DrainTyped, Recording, Line, Places, Swept, [Next]_vars PROVE Places'
  OBVIOUS
<1>1. ASSUME UNCHANGED <<task, requests, jobs>>, owed' \subseteq owed PROVE Places'
  BY <1>1, PlacesStay
<1>2. ASSUME NEW p \in Processes, Gone(p), UNCHANGED <<requests, jobs>>, owed' \subseteq owed PROVE Places'
  <2>1. \A q \in Processes, u \in {"inbox", "sweep"} :
               task'[q][u] = task[q][u] \/ task'[q][u] = Free
    BY <1>2 DEF Gone, DrainTyped, Tasks
  <2> QED BY <1>2, <2>1, PlacesStay
\* A message is taken up at the receipt or at the beginning, by the sweep if it is the owner's;
\* without a receipt there is a notice.
<1>3. ASSUME NEW p \in Processes, NEW t \in {"inbox", "sweep"}, NEW m \in Messages,
             NEW at \in {"receipt", "begin", "notice"}, Goes(p, t, at, m), t = "sweep" => m \in Owners,
             UNCHANGED <<requests, jobs>>, owed' \subseteq owed
      PROVE Places'
  <2>1. task'[p][t] = [at |-> at, msg |-> m]
    BY <1>3 DEF Goes, DrainTyped, Tasks
  <2>2. \A q \in Processes, u \in {"inbox", "sweep"} : q # p \/ u # t => task'[q][u] = task[q][u]
    BY <1>3 DEF Goes, DrainTyped, Tasks
  <2> SUFFICES ASSUME NEW q \in Processes, NEW u \in {"inbox", "sweep"}, NEW n \in Messages,
                      task'[q][u].msg = n
               PROVE  Stands(q, u, n)'
    BY DEF Places
  <2>3. CASE q = p /\ u = t
    BY <1>3, <2>1, <2>3 DEF Stands, Intaking
  <2>4. CASE q # p \/ u # t
    BY <1>3, <2>2, <2>4, StandsKept DEF Places
  <2> QED BY <2>3, <2>4
<1>4. ASSUME NEW p \in Processes, Start(p) \/ WatchDrain(p) \/ SweepStart(p) \/ SeeIdle(p)
      PROVE Places'
  BY <1>1, <1>4 DEF Start, WatchDrain, SweepStart, SeeIdle, ledger, store, history
<1>5. ASSUME NEW p \in Processes, Crash(p) \/ Shutdown(p) \/ KillIdle(p) PROVE Places'
  BY <1>2, <1>5 DEF Crash, Shutdown, KillIdle, ledger, store, history
<1>6. ASSUME NEW p \in Processes, NEW m \in Messages, Receive(p, m) \/ ReceiveCrash(p, m)
      PROVE Places'
  BY <1>1, <1>2, <1>6 DEF Receive, ReceiveCrash, ledger, history
<1>7. ASSUME NEW p \in Processes, NEW m \in Messages, NEW ok \in BOOLEAN, ReceiptAnswered(p, m, ok)
      PROVE Places'
  BY <1>1, <1>7 DEF ReceiptAnswered, store, history
<1>8. ASSUME NEW p \in Processes, NEW m \in Messages, TakeNext(p, m) PROVE Places'
  BY <1>1, <1>3, <1>8 DEF TakeNext, store, history
<1>9. ASSUME NEW p \in Processes, NEW m \in Messages, SweepTake(p, m) PROVE Places'
  <2>1. m \in Owners
    BY <1>9 DEF SweepTake, Swept
  <2>2. UNCHANGED <<requests, jobs>> /\ owed' \subseteq owed
    BY <1>9 DEF SweepTake, ledger, store, history
  <2>3. task' = task \/ Goes(p, "sweep", "begin", m)
    BY <1>9 DEF SweepTake
  <2> QED BY <1>1, <1>3, <2>1, <2>2, <2>3
<1>10. ASSUME NEW p \in Processes, NEW m \in Messages, NEW ok \in BOOLEAN, ReceiptSent(p, m, ok)
       PROVE Places'
  <2>1. UNCHANGED <<requests, jobs>> /\ owed' \subseteq owed
    BY <1>10 DEF ReceiptSent, store, history
  <2>2. CASE Goes(p, "inbox", "begin", m)
    BY <1>3, <2>1, <2>2
  <2>3. CASE Goes(p, "inbox", "notice", m)
    BY <1>3, <2>1, <2>3
  <2> QED BY <1>10, <2>2, <2>3 DEF ReceiptSent
<1>11. ASSUME NEW p \in Processes, NEW t \in {"inbox", "sweep"}, NEW m \in Messages, Work(p, t, m)
       PROVE Places'
  BY <1>11, WorkKeepsPlaces
<1>12. ASSUME NEW p \in Processes, NEW x, task' = [task EXCEPT ![p]["outbox"] = x],
              UNCHANGED <<requests, jobs>>, owed' \subseteq owed
       PROVE Places'
  <2>1. \A q \in Processes, u \in {"inbox", "sweep"} : task'[q][u] = task[q][u]
    BY <1>12 DEF DrainTyped, Tasks
  <2> QED BY <1>12, <2>1, PlacesStay
<1>13. ASSUME NEW p \in Processes, NEW m \in Messages, OutboxTake(p, m) \/ ClaimDelivery(p, m)
       PROVE Places'
  <2>1. \E x : task' = [task EXCEPT ![p]["outbox"] = x]
    BY <1>13 DEF OutboxTake, ClaimDelivery, Goes
  <2>2. UNCHANGED <<requests, jobs>> /\ owed' \subseteq owed
    BY <1>13 DEF OutboxTake, ClaimDelivery, ledger, store, history
  <2> QED BY <1>12, <2>1, <2>2
<1>14. ASSUME NEW p \in Processes, NEW m \in Messages, NEW ok \in BOOLEAN, ReportSent(p, m, ok)
       PROVE Places'
  <2>1. \E x : task' = [task EXCEPT ![p]["outbox"] = x]
    BY <1>14 DEF ReportSent
  <2>2. UNCHANGED <<requests, jobs>> /\ owed' \subseteq owed
    BY <1>14 DEF ReportSent, ledger, history
  <2> QED BY <1>12, <2>1, <2>2
<1>15. ASSUME NEW m \in Messages, ReportStored(m) PROVE Places'
  BY <1>1, <1>15 DEF ReportStored, ledger, history
<1>16. CASE SetDrain \/ GiveUp \/ UNCHANGED vars
  BY <1>1, <1>16 DEF SetDrain, GiveUp, vars, ledger, store, history
<1> QED
  <2> HIDE DEF Places
  <2>1. CASE Next
    BY <2>1, <1>4, <1>5, <1>6, <1>7, <1>8, <1>9, <1>10, <1>11, <1>13, <1>14, <1>15, <1>16, Zenon
       DEF Next
  <2> QED BY <1>16, <2>1

LEMMA NextBridge == Bridge /\ [Next]_vars => Bridge'
<1>1. DrainInv => DrainTyped
  BY DEF DrainInv
<1> QED BY <1>1, NextDrain, NextRecording, NextLine, NextBusy, NextPlaces, NextSwept DEF Bridge

\* A message is worked on by one task, and only when all that were received before it are done:
\* claim_next takes the oldest row or none, and a receipt that could not be sent, a crash or a
\* row that is pruned meanwhile lets nothing overtake it.
THEOREM KeepsOrder == Spec => []QueueInOrder
<1>1. Bridge => QueueInOrder
  <2> SUFFICES ASSUME Bridge, NEW p \in Processes, task[p]["inbox"] # Free
               PROVE  LET m == task[p]["inbox"].msg IN
                      /\ \A q \in Processes \ {p} : task[q]["inbox"].msg # m
                      /\ \A h \in Messages : Older(h, m) => inbox[h].done
    BY DEF QueueInOrder
  <2> DEFINE m == task[p]["inbox"].msg
  <2>1. m \in Messages
    BY DEF Bridge, Busy, Tasks
  <2>2. Serves(p, m)
    BY <2>1 DEF Bridge, Line
  <2>3. \A q \in Processes \ {p} : task[q]["inbox"].msg # m
    BY <2>1, <2>2 DEF Bridge, Line, Serves
  <2> QED BY <2>2, <2>3 DEF Serves
<1> QED BY <1>1, InitBridge, NextBridge, PTL DEF Spec

-----------------------------------------------------------------------------
\* Answers.

\* Where process_intake is at work on an intake that it took and did not finish.
Working == {"greet", "classify", "limits", "enqueue", "record", "settle", "converse", "running",
            "delivering"}
Works(p, t, m) == task[p][t].msg = m /\ task[p][t].at \in Working

\* Its intake is open and that process', and no other task of that process is at work on it.
Worked ==
    \A p \in Processes, t \in {"inbox", "sweep"}, m \in Owners :
        Works(p, t, m) =>
            /\ intake[m].consumer = p /\ ~intake[m].done
            /\ \A u \in {"inbox", "sweep"} : Works(p, u, m) => u = t

\* Somebody is about to tell the requester of m.
Tells(p, t, m) == task[p][t].msg = m /\ task[p][t].at \in Telling

\* NeverEndsInSilence alone is not inductive: the task that has the message must be one that
\* is going to tell, and one that cannot send its answer must not have ended the message yet.
Told ==
    \A m \in owed \ jobs :
        (\A p \in Processes : m \in Allows[p]) /\ Concluded(m)
            => \E p \in Processes, t \in {"inbox", "sweep"} : Tells(p, t, m)

Answers == Bridge /\ Worked /\ Told

LEMMA InitAnswers == Init => Answers
<1> SUFFICES ASSUME Init PROVE Answers
  OBVIOUS
<1>1. Worked
  BY BridgeAssumption DEF Init, Worked, Works, Free, Tasks
<1>2. Told
  BY DEF Init, Told
<1> QED BY <1>1, <1>2, InitBridge DEF Answers

\* What a step of the work does to the rows of its own message, and to no other.
LEMMA WorkRows ==
    ASSUME Bridge, NEW p \in Processes, NEW t \in {"inbox", "sweep"}, NEW n \in Messages, Work(p, t, n)
    PROVE  /\ \A m \in Messages \ {n} : intake'[m] = intake[m] /\ inbox'[m] = inbox[m]
           /\ intake[n].done => intake'[n].done
<1>1. /\ intake \in [Messages -> Intakes] /\ inbox \in [Messages -> Columns]
      /\ Swept /\ RowsTyped /\ DrainTyped
  BY DEF Bridge, Swept, RowsTyped, DrainInv
<1>2. batch' = batch \/ batch' = [batch EXCEPT ![p] = {}]
  BY <1>1, WorkMoves
<1> DEFINE Goal == /\ \A m \in Messages \ {n} : intake'[m] = intake[m] /\ inbox'[m] = inbox[m]
                   /\ intake[n].done => intake'[n].done
<1> SUFFICES Goal
  OBVIOUS
<1>3. CASE intake' = intake /\ inbox' = inbox
  BY <1>3
<1>0. ASSUME intake' = intake, NEW row, inbox' = [inbox EXCEPT ![n] = row] PROVE Goal
  BY <1>1, <1>0
<1>4. ASSUME NEW done \in BOOLEAN, intake' = Left(n, done), inbox' = inbox PROVE Goal
  BY <1>1, <1>2, <1>4, LeftWritten
<1>5. ASSUME NEW row, intake' = [intake EXCEPT ![n] = row], intake[n].done => row.done, inbox' = inbox
      PROVE Goal
  BY <1>1, <1>5
<1>6. intake[n] \in Intakes
  BY <1>1
<1> HIDE DEF Goal
<1>7. ASSUME NEW rows, Updated(rows) PROVE inbox' = rows
  BY <1>7 DEF Updated
<1>8. CASE Begin(p, t, n)
  <2>1. inbox' = inbox
    BY <1>8 DEF Begin, ledger
  <2>2. CASE n \notin Owners
    BY <1>3, <1>8, <2>1, <2>2 DEF Begin
  <2>3. CASE n \in Owners
    <3> DEFINE row == [intake[n] EXCEPT !.receipt = t = "inbox" \/ intake[n].receipt]
    <3> DEFINE settled == n \in requests /\ n \in jobs
    <3> DEFINE taken == [row EXCEPT !.consumer = IF settled THEN None ELSE p, !.done = settled]
    <3>1. \/ intake' = [intake EXCEPT ![n] = row]
          \/ intake' = [intake EXCEPT ![n] = taken] /\ ~intake[n].done
      BY <1>8, <2>3 DEF Begin, MayWork
    <3>2. row.done = intake[n].done
      BY <1>6 DEF Intakes
    <3> HIDE DEF row, taken
    <3>3. CASE intake' = [intake EXCEPT ![n] = row]
      BY <1>5, <2>1, <3>2, <3>3
    <3>4. CASE intake' = [intake EXCEPT ![n] = taken] /\ ~intake[n].done
      BY <1>5, <2>1, <3>4
    <3> QED BY <3>1, <3>3, <3>4
  <2> QED BY <2>2, <2>3
<1>9. ASSUME NEW ok \in BOOLEAN, Greet(p, t, n, ok) PROVE Goal
  <2> DEFINE row == [intake[n] EXCEPT !.receipt = TRUE]
  <2>1. row.done = intake[n].done
    BY <1>6 DEF Intakes
  <2>2. inbox' = inbox /\ (intake' = [intake EXCEPT ![n] = row] \/ intake' = Left(n, FALSE))
    BY <1>1, <1>9 DEF Greet, ledger
  <2> HIDE DEF row
  <2> QED BY <1>4, <1>5, <2>1, <2>2
<1>10. ASSUME NEW route, Classified(p, t, n, route) PROVE Goal
  <2> DEFINE row == [intake[n] EXCEPT !.route = "conversation"]
  <2>1. row.done = intake[n].done
    BY <1>6 DEF Intakes
  <2>2. /\ inbox' = inbox
        /\ \/ intake' = [intake EXCEPT ![n] = row] \/ intake' = intake
           \/ intake' = Left(n, route = "refused") \/ intake' = Left(n, FALSE)
    BY <1>1, <1>10 DEF Classified, ledger
  <2>3. (route = "refused") \in BOOLEAN
    OBVIOUS
  <2> HIDE DEF row
  <2> QED BY <1>3, <1>4, <1>5, <2>1, <2>2, <2>3
<1>11. CASE EnqueueJob(p, t, n) \/ RecordJob(p, t, n) \/ SettleJob(p, t, n)
  BY <1>3, <1>4, <1>11 DEF EnqueueJob, RecordJob, SettleJob, ledger
<1>12. CASE Converse(p, t, n)
  <2> DEFINE row == [inbox[n] EXCEPT !.done = TRUE]
  <2>1. (n \in Owners) \in BOOLEAN
    OBVIOUS
  <2>2. CASE inbox' = inbox
    <3>1. intake' = intake \/ intake' = Left(n, TRUE) \/ intake' = Left(n, n \in Owners)
      BY <1>12, <2>2 DEF Converse, DoneFirst
    <3> QED BY <1>3, <1>4, <2>1, <2>2, <3>1
  <2>3. CASE inbox' # inbox
    <3>1. intake' = intake /\ Updated([inbox EXCEPT ![n].done = TRUE])
      BY <1>12, <2>3 DEF Converse, DoneFirst
    <3>2. inbox' = [inbox EXCEPT ![n] = row]
      BY <1>1, <1>7, <3>1
    <3> HIDE DEF row
    <3> QED BY <1>0, <3>1, <3>2
  <2> QED BY <2>2, <2>3
<1>13. CASE Answered(p, t, n)
  <2> DEFINE row == [inbox[n] EXCEPT !.done = TRUE]
  <2>1. intake' = intake /\ (inbox' = inbox \/ Updated([inbox EXCEPT ![n].done = TRUE]))
    BY <1>13 DEF Answered, store
  <2>2. inbox' = inbox \/ inbox' = [inbox EXCEPT ![n] = row]
    BY <1>1, <1>7, <2>1
  <2> HIDE DEF row
  <2> QED BY <1>0, <1>3, <2>1, <2>2
<1>14. ASSUME NEW ok \in BOOLEAN,
              \/ LimitsSent(p, t, n, ok) \/ Delivered(p, t, n, ok)
              \/ NoticeSent(p, t, n, ok) \/ FailureSent(p, t, n, ok)
       PROVE Goal
  <2>1. (ok /\ n \in Owners) \in BOOLEAN
    OBVIOUS
  <2>2. inbox' = inbox /\ (intake' = intake \/ intake' = Left(n, ok) \/ intake' = Left(n, ok /\ n \in Owners))
    BY <1>14 DEF LimitsSent, Delivered, NoticeSent, FailureSent, ledger, store
  <2> QED BY <1>3, <1>4, <2>1, <2>2
<1>15. ASSUME NEW refused \in BOOLEAN, ExecutionFails(p, t, n, refused) PROVE Goal
  <2>1. (refused /\ n \in Owners) \in BOOLEAN
    OBVIOUS
  <2> QED BY <1>4, <1>15, <2>1 DEF ExecutionFails, ledger
<1>16. CASE Finish(p, t, n)
  <2> DEFINE row == [inbox[n] EXCEPT !.done = @ \/ Over(n), !.consumer = None]
  <2>1. /\ intake' = intake
        /\ inbox' = inbox \/ Updated([inbox EXCEPT ![n].done = @ \/ Over(n), ![n].consumer = None])
    BY <1>16 DEF Finish, store
  <2>2. inbox' = inbox \/ inbox' = [inbox EXCEPT ![n] = row]
    BY <1>1, <1>7, <2>1
  <2> HIDE DEF row
  <2> QED BY <1>0, <1>3, <2>1, <2>2
<1> QED BY <1>8, <1>9, <1>10, <1>11, <1>12, <1>13, <1>14, <1>15, <1>16, Zenon DEF Work

\* A step of the work on an owner's message keeps the row of the intake it has, leaves it, has
\* none, or takes one that nobody is at work on.
LEMMA WorkTakes ==
    ASSUME Bridge, NEW p \in Processes, NEW t \in {"inbox", "sweep"}, NEW n \in Owners, Work(p, t, n)
    PROVE  LET same == intake'[n].consumer = intake[n].consumer /\ intake'[n].done = intake[n].done
           IN  \/ Works(p, t, n) /\ (Works(p, t, n)' => same)
               \/ ~Works(p, t, n) /\ ~Works(p, t, n)' /\ same
               \/ /\ MayWork(p, n)
                  /\ Works(p, t, n)' => intake'[n].consumer = p /\ ~intake'[n].done
<1> DEFINE same == intake'[n].consumer = intake[n].consumer /\ intake'[n].done = intake[n].done
<1> DEFINE Goal == \/ Works(p, t, n) /\ (Works(p, t, n)' => same)
                   \/ ~Works(p, t, n) /\ ~Works(p, t, n)' /\ same
                   \/ /\ MayWork(p, n)
                      /\ Works(p, t, n)' => intake'[n].consumer = p /\ ~intake'[n].done
<1> SUFFICES Goal
  OBVIOUS
<1>1. /\ intake \in [Messages -> Intakes] /\ intake[n] \in Intakes /\ n \in Messages
      /\ DrainTyped
  BY BridgeAssumption DEF Bridge, Swept, DrainInv
<1>2. ASSUME NEW at, Does(p, t, at, n) PROVE Works(p, t, n) <=> at \in Working
  BY <1>2 DEF Does, Works
<1>3. ASSUME NEW at, Goes(p, t, at, n) PROVE Works(p, t, n)' <=> at \in Working
  BY <1>1, <1>3 DEF Goes, DrainTyped, Tasks, Works
<1>4. ASSUME NEW at \in Working, Does(p, t, at, n), same \/ ~Works(p, t, n)' PROVE Goal
  BY <1>2, <1>4
<1>5. ASSUME NEW at \in {"begin", "telling", "notice", "closing"}, Does(p, t, at, n), same, ~Works(p, t, n)'
      PROVE Goal
  BY <1>2, <1>5 DEF Working
<1>6. ASSUME NEW to \in {"telling", "notice", "closing"}, Goes(p, t, to, n) PROVE ~Works(p, t, n)'
  BY <1>3, <1>6 DEF Working
<1>7. intake' = intake => same
  OBVIOUS
<1>8. CASE Begin(p, t, n)
  <2> DEFINE greeted == t = "inbox" \/ intake[n].receipt
  <2> DEFINE row == [intake[n] EXCEPT !.receipt = greeted]
  <2> DEFINE settled == n \in requests /\ n \in jobs
  <2> DEFINE taken == [row EXCEPT !.consumer = IF settled THEN None ELSE p, !.done = settled]
  <2>1. row.done = intake[n].done /\ row.consumer = intake[n].consumer
    BY <1>1 DEF Intakes
  <2>2. taken.done = settled /\ taken.consumer = IF settled THEN None ELSE p
    BY <1>1 DEF Intakes
  <2>3. CASE ~MayWork(p, n)
    <3>1. intake' = [intake EXCEPT ![n] = row] /\ Goes(p, t, "closing", n)
      BY <1>8, <2>3 DEF Begin
    <3> HIDE DEF row
    <3>2. same
      BY <1>1, <2>1, <3>1
    <3>3. Does(p, t, "begin", n) /\ ~Works(p, t, n)'
      BY <1>6, <1>8, <3>1 DEF Begin
    <3> HIDE DEF Goal
    <3> QED BY <1>5, <3>2, <3>3
  <2>4. CASE MayWork(p, n) /\ ~settled
    <3>1. intake' = [intake EXCEPT ![n] = taken]
      BY <1>8, <2>4 DEF Begin
    <3> HIDE DEF taken
    <3>2. intake'[n].consumer = p /\ ~intake'[n].done
      BY <1>1, <2>2, <2>4, <3>1
    <3> QED BY <2>4, <3>2
  <2>5. CASE MayWork(p, n) /\ settled
    <3>1. Goes(p, t, "closing", n)
      BY <1>8, <2>5 DEF Begin
    <3> QED BY <1>6, <2>5, <3>1
  <2> QED BY <2>3, <2>4, <2>5
<1>9. ASSUME NEW ok \in BOOLEAN, Greet(p, t, n, ok) PROVE Goal
  <2> DEFINE row == [intake[n] EXCEPT !.receipt = TRUE]
  <2>1. row.done = intake[n].done /\ row.consumer = intake[n].consumer
    BY <1>1 DEF Intakes
  <2>2. \/ intake' = [intake EXCEPT ![n] = row]
        \/ Goes(p, t, "closing", n)
    BY <1>9 DEF Greet
  <2> HIDE DEF row
  <2>3. same \/ ~Works(p, t, n)'
    BY <1>1, <1>6, <2>1, <2>2
  <2>4. Does(p, t, "greet", n) /\ "greet" \in Working
    BY <1>9 DEF Greet, Working
  <2> HIDE DEF Goal, same
  <2> QED BY <1>4, <2>3, <2>4
<1>10. ASSUME NEW route, Classified(p, t, n, route) PROVE Goal
  <2> DEFINE row == [intake[n] EXCEPT !.route = "conversation"]
  <2>1. row.done = intake[n].done /\ row.consumer = intake[n].consumer
    BY <1>1 DEF Intakes
  <2>2. \/ intake' = [intake EXCEPT ![n] = row] \/ intake' = intake
        \/ \E to \in {"notice", "closing"} : Goes(p, t, to, n)
    BY <1>10 DEF Classified, AfterError
  <2> HIDE DEF row
  <2>3. same \/ ~Works(p, t, n)'
    BY <1>1, <1>6, <2>1, <2>2
  <2>4. Does(p, t, "classify", n) /\ "classify" \in Working
    BY <1>10 DEF Classified, Working
  <2> HIDE DEF Goal, same
  <2> QED BY <1>4, <2>3, <2>4
<1>11. ASSUME NEW at \in Working, Does(p, t, at, n),
              intake' = intake \/ \E to \in {"telling", "notice", "closing"} : Goes(p, t, to, n)
       PROVE Goal
  <2>1. same \/ ~Works(p, t, n)'
    BY <1>6, <1>11
  <2> HIDE DEF Goal, same
  <2> QED BY <1>4, <1>11, <2>1
<1> HIDE DEF Goal, same
<1>12. CASE EnqueueJob(p, t, n) \/ RecordJob(p, t, n) \/ SettleJob(p, t, n)
  BY <1>11, <1>12 DEF EnqueueJob, RecordJob, SettleJob, Working
<1>13. CASE Converse(p, t, n) \/ Answered(p, t, n)
  BY <1>11, <1>13 DEF Converse, ToldUnknown, Answered, store, Working
<1>14. ASSUME NEW ok \in BOOLEAN, LimitsSent(p, t, n, ok) \/ Delivered(p, t, n, ok) PROVE Goal
  <2>1. \E to \in {"telling", "notice", "closing"} : Goes(p, t, to, n)
    BY <1>14 DEF LimitsSent, Delivered, AfterError
  <2> QED BY <1>11, <1>14, <2>1 DEF LimitsSent, Delivered, Working
<1>15. ASSUME NEW refused \in BOOLEAN, ExecutionFails(p, t, n, refused) PROVE Goal
  <2>1. \E to \in {"telling", "notice", "closing"} : Goes(p, t, to, n)
    BY <1>15 DEF ExecutionFails, AfterError
  <2> QED BY <1>11, <1>15, <2>1 DEF ExecutionFails, Working
<1>16. ASSUME NEW ok \in BOOLEAN, NoticeSent(p, t, n, ok) \/ FailureSent(p, t, n, ok) PROVE Goal
  <2>1. same /\ \E to \in {"notice", "closing"} : Goes(p, t, to, n)
    BY <1>7, <1>16 DEF NoticeSent, FailureSent, AfterError, store
  <2> QED BY <1>5, <1>6, <1>16, <2>1 DEF NoticeSent, FailureSent
<1>17. CASE Finish(p, t, n)
  <2>1. same
    BY <1>7, <1>17 DEF Finish, store
  <2>2. ~Works(p, t, n)'
    BY <1>1, <1>17, BridgeAssumption DEF Finish, DrainTyped, Tasks, Free, Works
  <2> QED BY <1>5, <1>17, <2>1, <2>2 DEF Finish
<1> QED BY <1>8, <1>9, <1>10, <1>12, <1>13, <1>14, <1>15, <1>16, <1>17, Zenon DEF Work

LEMMA WorkKeepsWorked ==
    ASSUME Bridge, Worked, NEW p \in Processes, NEW t \in {"inbox", "sweep"}, NEW n \in Messages,
           Work(p, t, n)
    PROVE  Worked'
<1> SUFFICES ASSUME NEW q \in Processes, NEW u \in {"inbox", "sweep"}, NEW m \in Owners, Works(q, u, m)'
             PROVE  /\ intake'[m].consumer = q /\ ~intake'[m].done
                    /\ \A v \in {"inbox", "sweep"} : Works(q, v, m)' => v = u
  BY DEF Worked
<1>1. /\ DrainTyped /\ m \in Messages /\ None \notin Processes
      /\ \A r \in Processes : ~Up(r) => Idle(r)
  BY BridgeAssumption DEF Bridge, DrainInv
<1>2. /\ task[p][t].msg = n /\ task'[p][t].msg \in {n, None}
      /\ \A r \in Processes, v \in {"inbox", "sweep"} :
            r # p \/ v # t => (Works(r, v, m)' <=> Works(r, v, m))
  BY <1>1, WorkMoves DEF Works, Tasks
<1>3. ASSUME NEW r \in Processes, NEW v \in {"inbox", "sweep"}, Works(r, v, m) PROVE Up(r)
  BY <1>1, <1>3, BridgeAssumption DEF Works, Idle, Free, Tasks
\* Nobody else is at work on a message that the step works on.
<1>4. ASSUME Works(p, t, n)', n = m, NEW r \in Processes, NEW v \in {"inbox", "sweep"},
             Works(r, v, m), r # p \/ v # t
      PROVE  FALSE
  <2>1. intake[m].consumer = r
    BY <1>4 DEF Worked
  <2>2. CASE Works(p, t, m)
    BY <1>4, <2>1, <2>2 DEF Worked
  <2>3. CASE MayWork(p, m)
    <3>1. r = p
      BY <1>1, <1>3, <1>4, <2>1, <2>3 DEF MayWork, HeldByLiving
    <3>2. Processing(p, v, m)
      BY <1>4, <3>1 DEF Works, Working, Processing
    <3> QED BY <2>3, <3>2 DEF MayWork
  <2> QED BY <1>4, <2>2, <2>3, WorkTakes
<1>5. CASE n # m
  <2>1. q # p \/ u # t
    BY <1>1, <1>2, <1>5, BridgeAssumption DEF Works
  <2>2. Works(q, u, m)
    BY <1>2, <2>1
  <2>3. intake'[m] = intake[m]
    BY <1>1, <1>5, WorkRows
  <2>4. ~Works(p, t, m)'
    BY <1>1, <1>2, <1>5, BridgeAssumption DEF Works
  <2> QED BY <1>2, <2>2, <2>3, <2>4 DEF Worked
<1>6. CASE n = m /\ q = p /\ u = t
  <2>1. intake'[m].consumer = p /\ ~intake'[m].done
    BY <1>6, WorkTakes DEF Worked
  <2> QED BY <1>2, <1>4, <1>6, <2>1
<1>7. CASE n = m /\ (q # p \/ u # t)
  <2>1. Works(q, u, m)
    BY <1>2, <1>7
  <2>2. ~Works(p, t, m)'
    BY <1>4, <1>7, <2>1
  <2>3. intake[m].consumer = q /\ ~intake[m].done
    BY <2>1 DEF Worked
  <2>4. ~Works(p, t, m)
    <3>1. ASSUME Works(p, t, m) PROVE FALSE
      BY <1>7, <2>1, <2>3, <3>1 DEF Worked
    <3> QED BY <3>1
  <2>5. ~MayWork(p, m)
    <3>1. ASSUME MayWork(p, m) PROVE FALSE
      <4>1. q = p
        BY <1>1, <1>3, <2>1, <2>3, <3>1 DEF MayWork, HeldByLiving
      <4>2. Processing(p, u, m)
        BY <2>1, <4>1 DEF Works, Working, Processing
      <4> QED BY <3>1, <4>2 DEF MayWork
    <3> QED BY <3>1
  <2>6. intake'[m].consumer = q /\ ~intake'[m].done
    BY <1>7, <2>3, <2>4, <2>5, WorkTakes
  <2>7. \A v \in {"inbox", "sweep"} : Works(q, v, m)' => v = u
    BY <1>2, <2>1, <2>2 DEF Worked
  <2> QED BY <2>6, <2>7
<1> QED BY <1>5, <1>6, <1>7

\* Other steps start no work, and leave the intakes of what is being worked on alone.
LEMMA OthersKeepWorked ==
    ASSUME Worked,
           \A q \in Processes, u \in {"inbox", "sweep"}, m \in Owners :
               Works(q, u, m)' =>
                   /\ Works(q, u, m)
                   /\ intake'[m].consumer = intake[m].consumer /\ intake'[m].done = intake[m].done
    PROVE  Worked'
BY DEF Worked

LEMMA NextWorked == Bridge /\ Worked /\ [Next]_vars => Worked'
<1> SUFFICES ASSUME Bridge, Worked, [Next]_vars PROVE Worked'
  OBVIOUS
<1>0. /\ DrainTyped /\ intake \in [Messages -> Intakes] /\ Owners \subseteq Messages
      /\ None \notin Messages /\ None \notin Processes
  BY BridgeAssumption DEF Bridge, DrainInv, Swept
<1>1. ASSUME UNCHANGED <<task, intake>> PROVE Worked'
  BY <1>1, OthersKeepWorked DEF Works
<1>2. ASSUME NEW p \in Processes, Gone(p)
      PROVE  /\ \A u \in {"inbox", "sweep"}, m \in Owners : ~Works(p, u, m)'
             /\ \A q \in Processes \ {p}, u \in {"inbox", "sweep"}, m \in Owners :
                    Works(q, u, m)' <=> Works(q, u, m)
  BY <1>0, <1>2 DEF Gone, DrainTyped, Free, Tasks, Works
<1>3. ASSUME NEW m \in Messages, intake' = Captured(m)
      PROVE  \A n \in Messages : intake'[n].consumer = intake[n].consumer /\ intake'[n].done = intake[n].done
  BY <1>0, <1>3 DEF Captured, Intakes
<1>4. ASSUME NEW p \in Processes, NEW t \in Tasks, NEW m \in Messages,
             NEW at \in {"receipt", "begin", "notice", "claiming", "sending"}, Goes(p, t, at, m)
      PROVE  \A q \in Processes, u \in {"inbox", "sweep"}, n \in Owners : Works(q, u, n)' => Works(q, u, n)
  BY <1>0, <1>4 DEF Goes, DrainTyped, Tasks, Works, Working
<1>5. ASSUME NEW p \in Processes, Start(p) \/ WatchDrain(p) \/ SweepStart(p) \/ SeeIdle(p)
      PROVE Worked'
  BY <1>1, <1>5 DEF Start, WatchDrain, SweepStart, SeeIdle, store
<1>6. ASSUME NEW p \in Processes, Crash(p) \/ KillIdle(p) PROVE Worked'
  BY <1>2, <1>6, OthersKeepWorked DEF Crash, KillIdle, store
<1>7. ASSUME NEW p \in Processes, Shutdown(p) PROVE Worked'
  <2>1. \A m \in Messages : intake[m].consumer # p => intake'[m] = intake[m]
    BY <1>7 DEF Shutdown
  <2>2. Gone(p)
    BY <1>7 DEF Shutdown
  <2>3. ASSUME NEW q \in Processes, NEW u \in {"inbox", "sweep"}, NEW m \in Owners, Works(q, u, m)'
        PROVE  Works(q, u, m) /\ intake'[m] = intake[m]
    <3>1. q # p /\ Works(q, u, m)
      BY <1>2, <2>2, <2>3
    <3> QED BY <1>0, <2>1, <3>1 DEF Worked
  <2> QED BY <2>3, OthersKeepWorked
<1>8. ASSUME NEW p \in Processes, NEW m \in Messages, Receive(p, m) PROVE Worked'
  BY <1>0, <1>3, <1>8, OthersKeepWorked DEF Receive, Works
<1>9. ASSUME NEW p \in Processes, NEW m \in Messages, ReceiveCrash(p, m) PROVE Worked'
  BY <1>0, <1>2, <1>3, <1>9, OthersKeepWorked DEF ReceiveCrash
<1>10. ASSUME NEW p \in Processes, NEW m \in Messages, TakeNext(p, m) \/ SweepTake(p, m) PROVE Worked'
  <2>1. intake' = intake
    BY <1>10 DEF TakeNext, SweepTake, store
  <2>2. task' = task \/ \E t \in Tasks, at \in {"receipt", "begin"} : Goes(p, t, at, m)
    BY <1>10 DEF TakeNext, SweepTake, Tasks
  <2> QED BY <1>1, <1>4, <2>1, <2>2, OthersKeepWorked
<1>11. ASSUME NEW p \in Processes, NEW m \in Messages, NEW ok \in BOOLEAN, ReceiptSent(p, m, ok)
       PROVE Worked'
  <2>1. intake' = intake
    BY <1>11 DEF ReceiptSent, store
  <2>2. \E t \in Tasks, at \in {"begin", "notice"} : Goes(p, t, at, m)
    BY <1>11 DEF ReceiptSent, Tasks
  <2> QED BY <1>4, <2>1, <2>2, OthersKeepWorked
<1>12. ASSUME NEW p \in Processes, NEW m \in Messages, NEW ok \in BOOLEAN, ReceiptAnswered(p, m, ok)
       PROVE Worked'
  BY <1>1, <1>12 DEF ReceiptAnswered, store
<1>13. ASSUME NEW p \in Processes, NEW t \in {"inbox", "sweep"}, NEW m \in Messages, Work(p, t, m)
       PROVE Worked'
  BY <1>13, WorkKeepsWorked
<1>14. ASSUME NEW p \in Processes, NEW m \in Messages, NEW ok \in BOOLEAN,
              OutboxTake(p, m) \/ ClaimDelivery(p, m) \/ ReportSent(p, m, ok)
       PROVE Worked'
  <2>1. intake' = intake
    BY <1>14 DEF OutboxTake, ClaimDelivery, ReportSent, store
  <2>2. \E x : task' = [task EXCEPT ![p]["outbox"] = x]
    BY <1>14 DEF OutboxTake, ClaimDelivery, ReportSent, Goes
  <2>3. \A q \in Processes, u \in {"inbox", "sweep"} : task'[q][u] = task[q][u]
    BY <1>0, <2>2 DEF DrainTyped, Tasks
  <2> QED BY <2>1, <2>3, OthersKeepWorked DEF Works
<1>15. ASSUME NEW m \in Messages, ReportStored(m) PROVE Worked'
  BY <1>1, <1>15 DEF ReportStored
<1>16. CASE SetDrain \/ GiveUp \/ UNCHANGED vars
  BY <1>1, <1>16 DEF SetDrain, GiveUp, vars, store
<1> QED
  <2> HIDE DEF Worked
  <2>1. CASE Next
    BY <2>1, <1>5, <1>6, <1>7, <1>8, <1>9, <1>10, <1>11, <1>12, <1>13, <1>14, <1>15, <1>16, Zenon
       DEF Next
  <2> QED BY <1>16, <2>1

\* Steps that conclude nothing and take nobody away who is about to tell.
LEMMA OthersKeepTold ==
    ASSUME Told, owed' \subseteq owed, jobs \subseteq jobs',
           \A m \in owed' \ jobs' : (\A p \in Processes : m \in Allows[p]) /\ Concluded(m)' =>
               /\ Concluded(m)
               /\ \A q \in Processes, u \in {"inbox", "sweep"} : Tells(q, u, m) => Tells(q, u, m)'
    PROVE  Told'
BY DEF Told

LEMMA NothingEnds ==
    ASSUME NEW m \in Messages, intake'[m].done => intake[m].done, inbox'[m].done => inbox[m].done
    PROVE  Concluded(m)' => Concluded(m)
BY DEF Concluded

\* The work: whoever ends a message is about to tell, or has told.
LEMMA WorkTells ==
    ASSUME Bridge, Worked, NEW p \in Processes, NEW t \in {"inbox", "sweep"}, NEW m \in Messages,
           Work(p, t, m), m \in owed', m \notin jobs', Concluded(m)'
    PROVE  \/ Tells(p, t, m)'
           \/ m \in owed /\ Concluded(m) /\ ~Tells(p, t, m)
<1> DEFINE Same == intake' = intake \/ intake' = Left(m, FALSE)
<1> DEFINE Goal == Tells(p, t, m)' \/ (m \in owed /\ Concluded(m) /\ ~Tells(p, t, m))
<1> SUFFICES Goal
  OBVIOUS
<1>1. /\ intake \in [Messages -> Intakes] /\ inbox \in [Messages -> Columns]
      /\ Swept /\ RowsTyped /\ DrainTyped /\ Line
  BY DEF Bridge, Swept, RowsTyped, DrainInv
<1>2. Stands(p, t, m) /\ m \notin jobs
  BY <1>1, WorkMoves DEF Bridge, Places
<1>3. ASSUME NEW at, Does(p, t, at, m) PROVE task[p][t].msg = m /\ task[p][t].at = at
  BY <1>3 DEF Does
<1>4. ASSUME NEW at \in Telling, Goes(p, t, at, m) PROVE Goal
  BY <1>1, <1>4 DEF Goes, DrainTyped, Tasks, Tells
<1>5. ASSUME Same PROVE intake'[m].done = intake[m].done
  BY <1>1, <1>5, LeftWritten DEF Left, Intakes
<1>6. ASSUME Same, inbox' = inbox PROVE Concluded(m)
  BY <1>5, <1>6 DEF Concluded
<1>7. ASSUME owed' = owed, Same, inbox' = inbox, NEW at, Does(p, t, at, m), at \notin Telling PROVE Goal
  BY <1>3, <1>6, <1>7 DEF Tells
<1> HIDE DEF Goal
<1>8. CASE Begin(p, t, m)
  <2>1. inbox' = inbox /\ owed' = owed /\ Does(p, t, "begin", m) /\ "begin" \notin Telling
    BY <1>8 DEF Begin, ledger, history, Telling
  <2>2. CASE m \notin Owners
    BY <1>7, <1>8, <2>1, <2>2 DEF Begin
  <2>3. CASE m \in Owners
    <3> DEFINE row == [intake[m] EXCEPT !.receipt = t = "inbox" \/ intake[m].receipt]
    <3> DEFINE settled == m \in requests /\ m \in jobs
    <3> DEFINE taken == [row EXCEPT !.consumer = IF settled THEN None ELSE p, !.done = settled]
    <3>1. intake' = [intake EXCEPT ![m] = row] \/ intake' = [intake EXCEPT ![m] = taken]
      BY <1>8, <2>3 DEF Begin
    <3>2. row.done = intake[m].done /\ ~taken.done
      BY <1>1, <1>2 DEF Intakes
    <3> HIDE DEF row, taken
    <3>3. Concluded(m)
      BY <1>1, <2>1, <3>1, <3>2 DEF Concluded
    <3> QED BY <1>3, <2>1, <3>3 DEF Goal, Tells
  <2> QED BY <2>2, <2>3
<1>9. ASSUME NEW ok \in BOOLEAN, Greet(p, t, m, ok) PROVE Goal
  <2>1. inbox' = inbox /\ owed' = owed /\ Does(p, t, "greet", m) /\ "greet" \notin Telling
    BY <1>9 DEF Greet, ledger, history, Telling
  <2>2. CASE intake' = Left(m, FALSE)
    BY <1>7, <2>1, <2>2
  <2>3. CASE intake' = [intake EXCEPT ![m].receipt = TRUE]
    <3>1. intake'[m].done = intake[m].done
      BY <1>1, <2>3 DEF Intakes
    <3>2. Concluded(m)
      BY <2>1, <3>1 DEF Concluded
    <3> QED BY <1>3, <2>1, <3>2 DEF Goal, Tells
  <2> QED BY <1>9, <2>2, <2>3 DEF Greet
<1>10. ASSUME NEW route, Classified(p, t, m, route) PROVE Goal
  <2>1. inbox' = inbox /\ owed' = owed /\ Does(p, t, "classify", m) /\ "classify" \notin Telling
    BY <1>10 DEF Classified, ledger, history, Telling
  <2>2. CASE Goes(p, t, "notice", m)
    BY <1>4, <2>2 DEF Telling
  <2>3. CASE intake' = Left(m, FALSE) \/ intake' = intake
    BY <1>7, <2>1, <2>3
  <2>4. CASE intake' = [intake EXCEPT ![m].route = "conversation"]
    <3>1. intake'[m].done = intake[m].done
      BY <1>1, <2>4 DEF Intakes
    <3>2. Concluded(m)
      BY <2>1, <3>1 DEF Concluded
    <3> QED BY <1>3, <2>1, <3>2 DEF Goal, Tells
  <2> QED BY <1>10, <2>2, <2>3, <2>4 DEF Classified
<1>11. ASSUME NEW ok \in BOOLEAN, LimitsSent(p, t, m, ok) PROVE Goal
  <2>1. ~ok /\ owed' = owed /\ inbox' = inbox /\ Does(p, t, "limits", m) /\ "limits" \notin Telling
    BY <1>11 DEF LimitsSent, ledger, Telling
  <2> QED BY <1>7, <1>11, <2>1 DEF LimitsSent
<1>12. CASE EnqueueJob(p, t, m) \/ RecordJob(p, t, m) \/ SettleJob(p, t, m)
  BY <1>2, <1>3, <1>12 DEF EnqueueJob, RecordJob, SettleJob, Stands
\* An execution begins while its message is not concluded.
<1>13. CASE Converse(p, t, m)
  <2>1. CASE m \notin requests /\ requests' = Recorded(m) /\ UNCHANGED <<order, inbox, intake>>
    <3>1. Works(p, t, m)
      BY <1>3, <1>13 DEF Converse, Works, Working
    <3>2. CASE m \in Owners
      BY <2>1, <3>1, <3>2 DEF Worked, Concluded
    <3>3. CASE m \notin Owners
      <4>1. t = "inbox"
        BY <1>2, <3>3 DEF Stands
      <4>2. Serves(p, m)
        BY <1>1, <3>1, <4>1 DEF Line, Works
      <4> QED BY <2>1, <3>3, <4>2 DEF Serves, Pending, Concluded
    <3> QED BY <3>2, <3>3
  <2>2. CASE \E at \in Telling : Goes(p, t, at, m)
    BY <1>4, <2>2
  <2> QED BY <1>13, <2>1, <2>2 DEF Converse, ToldUnknown, Telling
<1>14. CASE Answered(p, t, m)
  BY <1>4, <1>14 DEF Answered, Telling
<1>15. ASSUME NEW refused \in BOOLEAN, ExecutionFails(p, t, m, refused) PROVE Goal
  <2>1. owed' = owed /\ inbox' = inbox /\ Does(p, t, "running", m) /\ "running" \notin Telling
    BY <1>15 DEF ExecutionFails, ledger, history, Telling
  <2>2. CASE refused
    BY <1>4, <1>15, <2>2 DEF ExecutionFails, Telling
  <2>3. CASE ~refused
    BY <1>7, <1>15, <2>1, <2>3 DEF ExecutionFails
  <2> QED BY <2>2, <2>3
\* What the sweep cannot send stays open.
<1>16. ASSUME NEW ok \in BOOLEAN, Delivered(p, t, m, ok) PROVE Goal
  <2>1. ~ok /\ intake' = Left(m, FALSE) /\ inbox' = inbox
    BY <1>16 DEF Delivered, ledger
  <2>2. CASE t = "inbox"
    BY <1>4, <1>16, <2>1, <2>2 DEF Delivered, AfterError, Telling
  <2>3. CASE t = "sweep"
    <3>1. m \in Owners /\ Works(p, t, m)
      BY <1>2, <1>3, <1>16, <2>3 DEF Delivered, Stands, Works, Working
    <3>2. ~intake[m].done
      BY <3>1 DEF Worked
    <3> QED BY <1>6, <2>1, <3>1, <3>2 DEF Concluded
  <2> QED BY <2>2, <2>3
<1>17. ASSUME NEW ok \in BOOLEAN, NoticeSent(p, t, m, ok) PROVE Goal
  BY <1>4, <1>17 DEF NoticeSent, AfterError, Telling
<1>18. ASSUME NEW ok \in BOOLEAN, FailureSent(p, t, m, ok) PROVE Goal
  <2>1. m \in owed /\ ~Over(m) /\ intake' = intake /\ inbox' = inbox
    BY <1>18 DEF FailureSent, ledger, store
  <2>2. m \in requests
    BY <2>1 DEF Bridge, Recording
  <2> QED BY <2>1, <2>2 DEF Over, Concluded
<1>19. CASE Finish(p, t, m)
  <2>1. intake' = intake /\ owed' = owed /\ Does(p, t, "closing", m) /\ "closing" \notin Telling
    BY <1>19 DEF Finish, store, history, Telling
  <2>2. m \in Owners
    BY <1>2, <1>3, <2>1 DEF Stands
  <2>3. Concluded(m)
    BY <2>1, <2>2 DEF Concluded
  <2> QED BY <1>3, <2>1, <2>3 DEF Goal, Tells
<1> QED BY <1>8, <1>9, <1>10, <1>11, <1>12, <1>13, <1>14, <1>15, <1>16, <1>17, <1>18, <1>19, Zenon
        DEF Work

LEMMA WorkKeepsTold ==
    ASSUME Answers, NEW p \in Processes, NEW t \in {"inbox", "sweep"}, NEW n \in Messages,
           Work(p, t, n)
    PROVE  Told'
<1> SUFFICES ASSUME NEW m \in owed', m \notin jobs', \A q \in Processes : m \in Allows[q], Concluded(m)'
             PROVE  \E q \in Processes, u \in {"inbox", "sweep"} : Tells(q, u, m)'
  BY DEF Told
<1>1. /\ DrainTyped /\ Bridge /\ Worked /\ None \notin Messages
      /\ owed \subseteq Messages
  BY BridgeAssumption DEF Answers, Bridge, DrainInv, Recording
<1>2. /\ task[p][t].msg = n /\ m \in owed \cup {n} /\ m \notin jobs
      /\ \A q \in Processes, u \in {"inbox", "sweep"} :
            q # p \/ u # t => (Tells(q, u, m)' <=> Tells(q, u, m))
  BY <1>1, WorkMoves DEF Tells, Tasks
<1>3. CASE m \in owed /\ Concluded(m) /\ ~Tells(p, t, m)
  <2>1. PICK q \in Processes, u \in {"inbox", "sweep"} : Tells(q, u, m)
    BY <1>2, <1>3 DEF Answers, Told
  <2> QED BY <1>2, <1>3, <2>1
<1>4. CASE n = m
  BY <1>1, <1>3, <1>4, WorkTells
<1>5. CASE n # m
  <2>1. m \in Messages /\ m \in owed
    BY <1>1, <1>2, <1>5
  <2>2. Concluded(m)
    BY <1>1, <1>5, <2>1, WorkRows DEF Concluded
  <2> QED BY <1>2, <1>3, <1>5, <2>1, <2>2 DEF Tells
<1> QED BY <1>4, <1>5

\* A process that dies takes away with it only what was cut off, which is owed no more.
LEMMA GoneKeepsTold ==
    ASSUME DrainTyped, Told, NEW p \in Processes, Gone(p),
           owed' \subseteq owed \ CutOff(p), owed \subseteq Messages, jobs' = jobs,
           \A m \in Messages : Concluded(m)' => Concluded(m)
    PROVE  Told'
<1> SUFFICES ASSUME NEW m \in owed' \ jobs', (\A q \in Processes : m \in Allows[q]), Concluded(m)'
             PROVE  \E q \in Processes, u \in {"inbox", "sweep"} : Tells(q, u, m)'
  BY DEF Told
<1>1. m \in Messages /\ m \in owed \ jobs /\ Concluded(m) /\ m \notin CutOff(p)
  OBVIOUS
<1>2. PICK q \in Processes, u \in {"inbox", "sweep"} : Tells(q, u, m)
  BY <1>1 DEF Told
<1>3. q # p
  BY <1>1, <1>2 DEF CutOff, Holds, Tells
<1>4. task'[q] = task[q]
  BY <1>3 DEF Gone, DrainTyped
<1> QED BY <1>2, <1>4 DEF Tells

\* An orderly stop ends rows of the queue too, of the messages it cuts off.
LEMMA ShutdownKeepsTold ==
    ASSUME Bridge, Told, NEW p \in Processes, Shutdown(p)
    PROVE  Told'
<1> SUFFICES ASSUME NEW m \in owed' \ jobs', (\A q \in Processes : m \in Allows[q]), Concluded(m)'
             PROVE  \E q \in Processes, u \in {"inbox", "sweep"} : Tells(q, u, m)'
  BY DEF Told
<1>1. /\ DrainTyped /\ Recording /\ Gone(p) /\ jobs' = jobs
      /\ m \in Messages /\ m \in owed \ jobs /\ m \in requests
      /\ ~(Over(m) /\ Holds(p, m, Telling \cup {"running"}))
  BY DEF Bridge, DrainInv, Recording, Shutdown
<1>2. ASSUME Concluded(m) PROVE \E q \in Processes, u \in {"inbox", "sweep"} : Tells(q, u, m)'
  <2>1. PICK q \in Processes, u \in {"inbox", "sweep"} : Tells(q, u, m)
    BY <1>1, <1>2 DEF Told
  <2>2. Over(m)
    BY <1>1, <1>2 DEF Over, Concluded
  <2>3. q # p
    BY <1>1, <2>1, <2>2 DEF Holds, Tells
  <2>4. task'[q] = task[q]
    BY <1>1, <2>3 DEF Gone, DrainTyped
  <2> QED BY <2>1, <2>4 DEF Tells
<1>3. CASE m \in Owners
  <2>1. intake' = [k \in Messages |-> IF intake[k].consumer = p
                                      THEN [intake[k] EXCEPT !.consumer = None]
                                      ELSE intake[k]]
    BY DEF Shutdown
  <2>2. intake[m] \in Intakes
    BY <1>1 DEF Bridge, Swept
  <2>3. intake'[m].done = intake[m].done
    BY <1>1, <2>1, <2>2 DEF Intakes
  <2> QED BY <1>2, <1>3, <2>3 DEF Concluded
<1>4. CASE m \notin Owners /\ ~inbox[m].done
  <2>1. inbox'[m] = CancelledRow(p, m)
    BY <1>1 DEF Shutdown, Updated
  <2>2. inbox[m] \in Columns /\ inbox'[m].done
    BY <1>1, <1>4 DEF Bridge, RowsTyped, Concluded
  <2>3. task[p]["inbox"].msg = m /\ task[p]["inbox"].at # "receipt" /\ Over(m)
    BY <1>4, <2>1, <2>2 DEF CancelledRow, Columns
  <2>4. task[p]["inbox"].at \in Awaiting
    BY DEF Shutdown, Tasks
  <2>5. Stands(p, "inbox", m)
    BY <1>1, <2>3 DEF Bridge, Places
  <2>6. task[p]["inbox"].at \in Telling \cup {"running"}
    BY <1>4, <2>3, <2>4, <2>5 DEF Stands, Intaking, Awaiting
  <2> QED BY <1>1, <2>3, <2>6 DEF Holds
<1> QED BY <1>2, <1>3, <1>4 DEF Concluded

LEMMA NextTold == Answers /\ [Next]_vars => Told'
<1> SUFFICES ASSUME Answers, [Next]_vars PROVE Told'
  OBVIOUS
<1>0. /\ DrainTyped /\ Bridge /\ Told /\ owed \subseteq Messages
      /\ intake \in [Messages -> Intakes] /\ inbox \in [Messages -> Columns]
      /\ None \notin Messages
  BY BridgeAssumption DEF Answers, Bridge, DrainInv, Recording, Swept, RowsTyped
\* What ends nothing and leaves the tasks with a message where they are.
<1>1. ASSUME UNCHANGED <<owed, jobs>>, \A m \in Messages : Concluded(m)' => Concluded(m)
                                                          \/ \E q \in Processes : m \notin Allows[q],
             \A q \in Processes, u \in {"inbox", "sweep"} :
                 task'[q][u] = task[q][u] \/ task[q][u].at \notin Telling
      PROVE  Told'
  BY <1>0, <1>1, OthersKeepTold DEF Tells
<1>2. ASSUME intake' = intake, inbox' = inbox PROVE \A m \in Messages : Concluded(m)' => Concluded(m)
  BY <1>2 DEF Concluded
<1>3. ASSUME NEW m \in Messages, intake' = Captured(m)
      PROVE  \A n \in Messages : intake'[n].done = intake[n].done
  BY <1>0, <1>3 DEF Captured, Intakes
<1>4. ASSUME NEW p \in Processes, NEW t \in Tasks, NEW x, task' = [task EXCEPT ![p][t] = x],
             t = "outbox" \/ task[p][t].at \notin Telling
      PROVE  \A q \in Processes, u \in {"inbox", "sweep"} :
                 task'[q][u] = task[q][u] \/ task[q][u].at \notin Telling
  BY <1>0, <1>4 DEF DrainTyped, Tasks
<1>5. ASSUME NEW p \in Processes, Start(p) \/ WatchDrain(p) \/ SweepStart(p) \/ SeeIdle(p)
      PROVE Told'
  BY <1>1, <1>2, <1>5 DEF Start, WatchDrain, SweepStart, SeeIdle, ledger, store, history
<1>6. ASSUME NEW p \in Processes, Crash(p) \/ KillIdle(p) PROVE Told'
  BY <1>0, <1>2, <1>6, GoneKeepsTold DEF Crash, KillIdle, ledger, store
<1>7. ASSUME NEW p \in Processes, Shutdown(p) PROVE Told'
  BY <1>0, <1>7, ShutdownKeepsTold
<1>8. ASSUME NEW p \in Processes, NEW n \in Messages, Receive(p, n) PROVE Told'
  <2>1. \A m \in Messages : inbox'[m].done => inbox[m].done
    BY <1>0, <1>8 DEF Receive, NoRow, Columns
  <2>2. \A m \in Messages : Concluded(m)' => Concluded(m)
    BY <1>3, <1>8, <2>1 DEF Receive, Concluded
  <2> QED BY <1>1, <1>8, <2>2 DEF Receive, history
<1>9. ASSUME NEW p \in Processes, NEW n \in Messages, ReceiveCrash(p, n) PROVE Told'
  <2>1. \A m \in Messages : Concluded(m)' => Concluded(m)
    BY <1>3, <1>9 DEF ReceiveCrash, Concluded, ledger
  <2> QED BY <1>0, <1>9, <2>1, GoneKeepsTold DEF ReceiveCrash
<1>10. ASSUME NEW p \in Processes, NEW n \in Messages, NEW ok \in BOOLEAN,
              ReceiptAnswered(p, n, ok) \/ ReceiptSent(p, n, ok)
       PROVE Told'
  <2>1. intake' = intake /\ UNCHANGED <<owed, jobs>>
    BY <1>10 DEF ReceiptAnswered, ReceiptSent, store, history
  <2>2. \A m \in Messages : inbox'[m].done = inbox[m].done
    <3>1. CASE ReceiptAnswered(p, n, ok)
      <4>1. inbox' = [inbox EXCEPT ![n].receipt = @ \/ ok, ![n].consumer = None]
        BY <3>1 DEF ReceiptAnswered
      <4> QED BY <1>0, <4>1 DEF Columns
    <3>2. CASE ReceiptSent(p, n, ok)
      BY <1>0, <3>2 DEF ReceiptSent, Columns
    <3> QED BY <1>10, <3>1, <3>2
  <2>3. \A m \in Messages : Concluded(m)' => Concluded(m)
    BY <2>1, <2>2 DEF Concluded
  <2>4. \/ task' = task
        \/ task[p]["inbox"].at = "receipt" /\ \E x : task' = [task EXCEPT ![p]["inbox"] = x]
    BY <1>10 DEF ReceiptAnswered, ReceiptSent, Does, Goes
  <2>5. \A q \in Processes, u \in {"inbox", "sweep"} :
            task'[q][u] = task[q][u] \/ task[q][u].at \notin Telling
    BY <1>4, <2>4 DEF Telling, Tasks
  <2> QED BY <1>1, <2>1, <2>3, <2>5
\* A message is dropped only where its channel is not allowed.
<1>11. ASSUME NEW p \in Processes, NEW n \in Messages, TakeNext(p, n) PROVE Told'
  <2>1. UNCHANGED <<intake, owed, jobs>> /\ task[p]["inbox"] = Free
    BY <1>11 DEF TakeNext, store, history
  <2>2. \A m \in Messages : Concluded(m)' => Concluded(m) \/ \E q \in Processes : m \notin Allows[q]
    <3>1. CASE inbox' = [inbox EXCEPT ![n].consumer = p]
      <4>1. \A m \in Messages : inbox'[m].done = inbox[m].done
        BY <1>0, <3>1 DEF Columns
      <4> QED BY <2>1, <4>1 DEF Concluded
    <3>2. CASE n \notin Allows[p] /\ Updated([inbox EXCEPT ![n].consumer = None, ![n].done = TRUE])
      <4>1. \A m \in Messages \ {n} : inbox'[m] = inbox[m]
        BY <1>0, <3>2 DEF Updated
      <4> QED BY <2>1, <3>2, <4>1 DEF Concluded
    <3> QED BY <1>11, <3>1, <3>2 DEF TakeNext
  <2>3. \/ task' = task
        \/ \E x : task' = [task EXCEPT ![p]["inbox"] = x]
    BY <1>11 DEF TakeNext, Goes
  <2>4. \A q \in Processes, u \in {"inbox", "sweep"} :
            task'[q][u] = task[q][u] \/ task[q][u].at \notin Telling
    BY <1>4, <2>1, <2>3 DEF Telling, Tasks, Free
  <2> QED BY <1>1, <2>1, <2>2, <2>4
<1>12. ASSUME NEW p \in Processes, NEW n \in Messages, SweepTake(p, n) PROVE Told'
  <2>1. UNCHANGED <<intake, inbox, owed, jobs>> /\ task[p]["sweep"] = Free
    BY <1>12 DEF SweepTake, ledger, store, history
  <2>2. \/ task' = task
        \/ \E x : task' = [task EXCEPT ![p]["sweep"] = x]
    BY <1>12 DEF SweepTake, Goes
  <2>3. \A q \in Processes, u \in {"inbox", "sweep"} :
            task'[q][u] = task[q][u] \/ task[q][u].at \notin Telling
    BY <1>4, <2>1, <2>2 DEF Telling, Tasks, Free
  <2> QED BY <1>1, <1>2, <2>1, <2>3
<1>13. ASSUME NEW p \in Processes, NEW t \in {"inbox", "sweep"}, NEW m \in Messages, Work(p, t, m)
       PROVE Told'
  BY <1>13, WorkKeepsTold
<1>14. ASSUME NEW p \in Processes, NEW n \in Messages, NEW ok \in BOOLEAN,
              OutboxTake(p, n) \/ ClaimDelivery(p, n) \/ ReportSent(p, n, ok)
       PROVE Told'
  <2>1. UNCHANGED <<intake, inbox, owed, jobs>>
    BY <1>14 DEF OutboxTake, ClaimDelivery, ReportSent, ledger, store, history
  <2>2. \E x : task' = [task EXCEPT ![p]["outbox"] = x]
    BY <1>14 DEF OutboxTake, ClaimDelivery, ReportSent, Goes
  <2>3. \A q \in Processes, u \in {"inbox", "sweep"} :
            task'[q][u] = task[q][u] \/ task[q][u].at \notin Telling
    BY <1>4, <2>2 DEF Tasks
  <2> QED BY <1>1, <1>2, <2>1, <2>3
<1>15. ASSUME NEW n \in Messages, ReportStored(n) PROVE Told'
  BY <1>1, <1>2, <1>15 DEF ReportStored, ledger, history
<1>16. CASE SetDrain \/ GiveUp \/ UNCHANGED vars
  BY <1>1, <1>2, <1>16 DEF SetDrain, GiveUp, vars, ledger, store, history
<1> QED
  <2> HIDE DEF Told, Answers
  <2>1. CASE Next
    BY <2>1, <1>5, <1>6, <1>7, <1>8, <1>9, <1>10, <1>11, <1>12, <1>13, <1>14, <1>15, <1>16, Zenon
       DEF Next
  <2> QED BY <1>16, <2>1

\* A message with a recorded execution does not count as done in silence: unless its requester
\* was told, or the telling failed or was cut off by the end of the process, a task still has
\* it, because what comes before the sending leaves the row open or ends in a sending
\* (process_intake, recover_inbox).
THEOREM TellsTheRequester == Spec => []NeverEndsInSilence
<1>1. Answers => NeverEndsInSilence
  <2> SUFFICES ASSUME Answers, NEW m \in owed \ jobs,
                      (\A p \in Processes : m \in Allows[p]) /\ Concluded(m)
               PROVE  InHand(m)
    BY DEF NeverEndsInSilence
  <2>1. PICK p \in Processes, t \in {"inbox", "sweep"} : Tells(p, t, m)
    BY DEF Answers, Told
  <2> QED BY <2>1 DEF Tells, InHand, Holds, Awaiting
<1>2. Answers /\ [Next]_vars => Answers'
  BY NextBridge, NextWorked, NextTold DEF Answers
<1> QED BY <1>1, <1>2, InitAnswers, PTL DEF Spec

-----------------------------------------------------------------------------
\* Types.

Small ==
    /\ jobs \subseteq Owners /\ owed \subseteq Messages
    /\ seen \in Processes \cup {None} /\ issued \in 0 .. MaxDrains

LEMMA NextSmall == DrainTyped /\ Places /\ Small /\ [Next]_vars => Small'
<1> SUFFICES ASSUME DrainTyped, Places, Small, [Next]_vars PROVE Small'
  OBVIOUS
<1> USE DEF Small, ledger, store, adapter, history
<1>1. ASSUME NEW p \in Processes,
             Start(p) \/ Crash(p) \/ Shutdown(p) \/ WatchDrain(p) \/ SweepStart(p) \/ SeeIdle(p) \/ KillIdle(p)
      PROVE Small'
  BY <1>1 DEF Start, Crash, Shutdown, WatchDrain, SweepStart, SeeIdle, KillIdle
<1>2. ASSUME NEW p \in Processes, NEW m \in Messages,
             \/ Receive(p, m) \/ ReceiveCrash(p, m) \/ TakeNext(p, m) \/ SweepTake(p, m)
             \/ OutboxTake(p, m) \/ ClaimDelivery(p, m)
      PROVE Small'
  BY <1>2 DEF Receive, ReceiveCrash, TakeNext, SweepTake, OutboxTake, ClaimDelivery
<1>3. ASSUME NEW p \in Processes, NEW m \in Messages, NEW ok \in BOOLEAN,
             ReceiptAnswered(p, m, ok) \/ ReceiptSent(p, m, ok) \/ ReportSent(p, m, ok)
      PROVE Small'
  BY <1>3 DEF ReceiptAnswered, ReceiptSent, ReportSent
<1>4. ASSUME NEW p \in Processes, NEW t \in {"inbox", "sweep"}, NEW m \in Messages, Work(p, t, m)
      PROVE Small'
  <2>1. Stands(p, t, m) /\ UNCHANGED <<issued, seen>> /\ owed' \subseteq owed \cup {m}
    BY <1>4, WorkMoves DEF Places
  <2>2. jobs' = jobs \/ (EnqueueJob(p, t, m) /\ jobs' = jobs \cup {m})
    BY <1>4 DEF Work, Begin, Greet, Classified, LimitsSent, EnqueueJob, RecordJob, SettleJob, Converse,
           Answered, Delivered, NoticeSent, FailureSent, ExecutionFails, Finish
  <2>3. EnqueueJob(p, t, m) => m \in Owners
    BY <2>1 DEF EnqueueJob, Does, Stands, Intaking
  <2> QED BY <2>1, <2>2, <2>3
<1>5. ASSUME NEW m \in Messages, ReportStored(m) PROVE Small'
  BY <1>5 DEF ReportStored
<1>6. CASE SetDrain \/ GiveUp
  BY <1>6, BridgeAssumption DEF SetDrain, GiveUp
<1>7. CASE UNCHANGED vars
  BY <1>7 DEF vars
<1> QED
  <2> HIDE DEF Small
  <2>1. CASE Next
    BY <2>1, <1>1, <1>2, <1>3, <1>4, <1>5, <1>6, Zenon DEF Next
  <2> QED BY <1>7, <2>1

\* The tables, the tasks and the answer to the adapter have their types.
THEOREM BridgeTyped == Spec => []BridgeTypeOK
<1>1. Bridge /\ Sending /\ Small => BridgeTypeOK
  BY DEF Bridge, DrainInv, DrainTyped, Recording, RowsTyped, Columns, Swept, Intakes, Sending, Small,
         BridgeTypeOK
<1>2. Init => Small
  BY BridgeAssumption DEF Init, Small
<1>3. Bridge => DrainTyped /\ Places
  BY DEF Bridge, DrainInv
<1> QED BY <1>1, <1>2, <1>3, InitBridge, NextBridge, InitSending, NextSending, NextSmall, PTL DEF Spec
=============================================================================
