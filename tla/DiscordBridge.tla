---------------------------- MODULE DiscordBridge ----------------------------
(***************************************************************************)
(* The Discord transport (src/ephy_worker/discord_runtime.py) with its two *)
(* databases: the ledger (a queue of received messages and the ids whose   *)
(* execution was recorded) and the store of the owner's repair requests    *)
(* (src/ephy_worker/owner_repair.py: intakes, jobs, outbox).               *)
(*                                                                         *)
(* A process has one event loop with three tasks of which each works on    *)
(* one message at a time, under a lock (inbox) or by being one loop        *)
(* (sweep, outbox), and a handler per received message.  A step is what    *)
(* happens up to the next await or the next commit, whichever is first, so *)
(* that a crash and another process can come between two transactions.     *)
(* Both databases survive; the tasks do not.                               *)
(*                                                                         *)
(* Community observation and web answer are the same to the queue, "the    *)
(* execution"; texts, parts of an answer and the context of replies are    *)
(* left out.  A send that fails raises no BridgeError (the channel belongs *)
(* to its guild).  The release adapter that asks for the drain is outside  *)
(* of the repository (docs/discord-runtime-bridge.md).                     *)
(***************************************************************************)
EXTENDS Naturals, FiniteSets

CONSTANTS
    Messages,       \* ids of messages that pass the filters of handle
    Owners,         \* those of the owner in the primary scope
    Processes,      \* a process id with its creation time, never issued twice
    Allows,         \* the messages whose channel each process' settings allow
    MaxPending,     \* 128 undone rows of the queue
    MaxRequests,    \* 10000 recorded executions
    KeepDone,       \* 10000 done rows of the queue
    MaxDrains,      \* bound: drain markers the release adapter writes
    None

ASSUME BridgeAssumption ==
    /\ Owners \subseteq Messages
    /\ Allows \in [Processes -> SUBSET Messages]
    /\ MaxPending \in Nat /\ MaxRequests \in Nat /\ KeepDone \in Nat /\ MaxDrains \in Nat
    /\ None \notin Messages /\ None \notin Processes
    /\ None \notin {"pending", "sending", "sent"}

VARIABLES
    process,        \* "unborn", "up" or "dead"
    task,           \* what the three tasks of each process do
    receiving,      \* messages whose handler awaits its receipt
    batch,          \* intakes the current pass of the sweep still has to look at
    order,          \* the inbox rows by sequence: <<h, m>> when m's is not the smaller one
    inbox,          \* the other columns of these rows
    requests,       \* ids in the requests table
    intake,         \* rows of the intakes table
    jobs, outbox,   \* repair jobs, and the report of each
    drain,          \* the nonce in the drain marker, 0 without one
    issued,         \* nonces written so far
    ack,            \* content of repair-active.json
    seen,           \* the process the release adapter found idle
    runs,           \* history: executions begun per message
    owed,           \* history: messages with an execution begun, of which the requester was
                    \* told nothing yet and no telling failed or was cut off for good
    sends           \* history: sendings of each report begun

ledger == <<order, inbox, requests>>
store == <<intake, jobs, outbox>>
adapter == <<drain, issued, seen>>
history == <<runs, owed, sends>>
vars == <<process, task, receiving, batch, ledger, store, adapter, ack, history>>

-----------------------------------------------------------------------------
Tasks == {"inbox", "sweep", "outbox"}
\* Where a task awaits something, and where it stands between two commits.
\* Of the outcome, "delivering" sends the answer, "telling" the notice behind a commit
\* that says done, and "notice" the one of the handler of an exception.
Telling == {"delivering", "telling", "notice"}
Awaiting == {"free", "receipt", "greet", "classify", "limits", "running", "claiming", "sending"}
            \cup Telling
Between == {"begin", "converse", "enqueue", "record", "settle", "closing"}
Free == [at |-> "free", msg |-> None]

NoRow == [receipt |-> FALSE, done |-> FALSE, consumer |-> None]
NoIntake == [known |-> FALSE, route |-> None, receipt |-> FALSE, done |-> FALSE, consumer |-> None]

Up(p) == process[p] = "up"
Idle(p) == receiving[p] = {} /\ \A t \in Tasks : task[p][t] = Free
Inflight(p) == Cardinality({t \in {"inbox", "sweep"} : task[p][t] # Free})

\* activity() runs after every change of the two counters.
Published(p) == ack' = [by |-> p, idle |-> Idle(p)', token |-> drain]

HeldForEver(c) == c # None
\* A consumer column keeps its row only while that process lives.
HeldByLiving(c) == c # None /\ Up(c)

Init ==
    /\ process = [p \in Processes |-> "unborn"]
    /\ task = [p \in Processes |-> [t \in Tasks |-> Free]]
    /\ receiving = [p \in Processes |-> {}]
    /\ batch = [p \in Processes |-> {}]
    /\ order = {} /\ inbox = [m \in Messages |-> NoRow]
    /\ requests = {}
    /\ intake = [m \in Messages |-> NoIntake]
    /\ jobs = {} /\ outbox = [m \in Messages |-> None]
    /\ drain = 0 /\ issued = 0 /\ seen = None
    /\ ack = [by |-> None, idle |-> FALSE, token |-> 0]
    /\ runs = [m \in Messages |-> 0] /\ owed = {} /\ sends = [m \in Messages |-> 0]

-----------------------------------------------------------------------------
\* The ledger.

InQueue(m) == <<m, m>> \in order
Older(h, m) == <<h, m>> \in order /\ h # m
Pending(m) == InQueue(m) /\ ~inbox[m].done
Unrecorded == {m \in Messages : Pending(m) /\ m \notin requests}

\* What waits already has a place in the requests table reserved.
HasCapacity ==
    /\ Cardinality({m \in Messages : Pending(m)}) < MaxPending
    /\ Cardinality(requests) + Cardinality(Unrecorded) < MaxRequests

IsFree(m) == ~HeldByLiving(inbox[m].consumer)
FirstFree(m) ==
    /\ InQueue(m) /\ ~inbox[m].done /\ IsFree(m)
    /\ \A h \in Messages : Older(h, m) => inbox[h].done \/ ~IsFree(h)
\* The oldest undone row, unless a living process holds it.
Claimable(m) ==
    /\ InQueue(m) /\ ~inbox[m].done /\ IsFree(m)
    /\ \A h \in Messages : Older(h, m) => inbox[h].done

\* The order after rows are done: only the newest KeepDone of those are kept.
Pruned(rows) ==
    LET Younger(m) == {n \in Messages : Older(m, n) /\ rows[n].done}
        Kept == {m \in Messages : ~rows[m].done \/ Cardinality(Younger(m)) < KeepDone}
    IN  order \cap (Kept \X Kept)

Updated(rows) == inbox' = rows /\ order' = Pruned(rows)

-----------------------------------------------------------------------------
\* Processes.

Start(p) ==
    /\ process[p] = "unborn"
    /\ process' = [process EXCEPT ![p] = "up"]
    /\ UNCHANGED <<task, receiving, batch, ledger, store, adapter, history>>
    /\ Published(p)

\* Bound: the last process stays.
Replaceable(p) == Up(p) /\ \E q \in Processes : process[q] = "unborn"

\* A message is over when its intake is, or, without one, when its execution is recorded.
Over(m) == IF m \in Owners THEN intake[m].done ELSE m \in requests
Concluded(m) == IF m \in Owners THEN intake[m].done ELSE inbox[m].done

Holds(p, m, places) == \E t \in {"inbox", "sweep"} : task[p][t].msg = m /\ task[p][t].at \in places
\* What is done already is not told any more when its process dies.
CutOff(p) == {m \in Messages : Concluded(m) /\ Holds(p, m, Telling)}

Gone(p) ==
    /\ process' = [process EXCEPT ![p] = "dead"]
    /\ task' = [task EXCEPT ![p] = [t \in Tasks |-> Free]]
    /\ receiving' = [receiving EXCEPT ![p] = {}]
    /\ batch' = [batch EXCEPT ![p] = {}]

Crash(p) ==
    /\ Replaceable(p)
    /\ Gone(p)
    /\ owed' = owed \ CutOff(p)
    /\ UNCHANGED <<ledger, store, adapter, ack, runs, sends>>

\* The row of the task that is cancelled; every row the process holds is released.
\* An intake's row is done when the notice of recover_inbox is cut, not one of process_intake.
CancelledRow(p, m) ==
    LET t == task[p]["inbox"]
        over == /\ t.msg = m /\ t.at # "receipt" /\ Over(m)
                /\ m \in Owners => t.at = "notice"
    IN  IF inbox[m].consumer # p THEN inbox[m]
        ELSE [inbox[m] EXCEPT !.consumer = None, !.done = @ \/ over]

\* The tasks are cancelled where they await something.
Shutdown(p) ==
    /\ Replaceable(p)
    /\ \A t \in Tasks : task[p][t].at \in Awaiting
    /\ Gone(p)
    /\ Updated([m \in Messages |-> CancelledRow(p, m)])
    /\ intake' = [m \in Messages |->
                    IF intake[m].consumer = p THEN [intake[m] EXCEPT !.consumer = None]
                    ELSE intake[m]]
    /\ owed' = owed \ {m \in Messages : Over(m) /\ Holds(p, m, Telling \cup {"running"})}
    /\ UNCHANGED <<requests, jobs, outbox, adapter, ack, runs, sends>>

WatchDrain(p) ==
    /\ Up(p)
    /\ UNCHANGED <<process, task, receiving, batch, ledger, store, adapter, history>>
    /\ Published(p)

-----------------------------------------------------------------------------
\* Receiving a message.

\* An intake that is known already is left as it is.
Captured(m) ==
    IF m \in Owners THEN [intake EXCEPT ![m].known = TRUE] ELSE intake

\* A message that is queued or recorded already changes nothing.
Admitted(p, m) ==
    /\ Up(p) /\ m \in Allows[p]
    /\ ~InQueue(m) /\ m \notin requests
    /\ HasCapacity

\* The marker is looked at in the step that puts the message into the queue.
DrainIgnored == FALSE
Draining == drain # 0

Receive(p, m) ==
    /\ Admitted(p, m)
    /\ intake' = Captured(m)
    /\ order' = order \cup ({h \in Messages : InQueue(h)} \cup {m}) \X {m}
    /\ inbox' = [inbox EXCEPT ![m] = [NoRow EXCEPT !.consumer = IF Draining THEN None ELSE p]]
    /\ receiving' = [receiving EXCEPT ![p] = IF Draining THEN @ ELSE @ \cup {m}]
    /\ UNCHANGED <<process, task, batch, requests, jobs, outbox, adapter, history>>
    /\ Published(p)

\* The process dies after capture_intake and before the message is in the queue.
ReceiveCrash(p, m) ==
    /\ Replaceable(p) /\ Admitted(p, m) /\ m \in Owners
    /\ intake' = Captured(m)
    /\ Gone(p)
    /\ owed' = owed \ CutOff(p)
    /\ UNCHANGED <<ledger, jobs, outbox, adapter, ack, runs, sends>>

ReceiptAnswered(p, m, ok) ==
    /\ m \in receiving[p]
    /\ receiving' = [receiving EXCEPT ![p] = @ \ {m}]
    /\ inbox' = [inbox EXCEPT ![m].receipt = @ \/ ok, ![m].consumer = None]
    /\ UNCHANGED <<process, task, batch, order, requests, store, adapter, history>>
    /\ Published(p)

-----------------------------------------------------------------------------
\* The inbox task takes the head of the queue, the sweep an intake without a row.

Goes(p, t, at, m) == task' = [task EXCEPT ![p][t] = [at |-> at, msg |-> m]]
Does(p, t, at, m) == task[p][t] = [at |-> at, msg |-> m]

TakeNext(p, m) ==
    /\ Up(p) /\ task[p]["inbox"] = Free
    /\ ~Draining
    /\ Claimable(m)
    /\ \/ /\ m \in Allows[p]
          /\ inbox' = [inbox EXCEPT ![m].consumer = p]
          /\ Goes(p, "inbox", IF inbox[m].receipt THEN "begin" ELSE "receipt", m)
          /\ UNCHANGED order
       \/ /\ m \notin Allows[p]
          /\ Updated([inbox EXCEPT ![m].consumer = None, ![m].done = TRUE])
          /\ UNCHANGED task
    /\ UNCHANGED <<process, receiving, batch, requests, store, adapter, history>>
    /\ Published(p)

\* Without its receipt the message stays the head of the queue.
ReceiptSent(p, m, ok) ==
    /\ Does(p, "inbox", "receipt", m)
    /\ \/ ok /\ Goes(p, "inbox", "begin", m)
          /\ inbox' = [inbox EXCEPT ![m].receipt = TRUE]
       \/ ~ok /\ Goes(p, "inbox", "notice", m) /\ UNCHANGED inbox
    /\ UNCHANGED <<process, receiving, batch, order, requests, store, adapter, history>>
    /\ Published(p)

SweepStart(p) ==
    /\ Up(p) /\ task[p]["sweep"] = Free /\ batch[p] = {}
    /\ \A m \in Messages : ~Pending(m)
    /\ batch' = [batch EXCEPT ![p] = {m \in Allows[p] : intake[m].known /\ ~intake[m].done}]
    /\ batch'[p] # {}
    /\ UNCHANGED <<process, task, receiving, ledger, store, adapter, ack, history>>

SweepTake(p, m) ==
    /\ Up(p) /\ task[p]["sweep"] = Free /\ m \in batch[p]
    /\ UNCHANGED <<process, receiving, ledger, store, adapter, history>>
    /\ \/ /\ InQueue(m)
          /\ batch' = [batch EXCEPT ![p] = @ \ {m}]
          /\ UNCHANGED <<task, ack>>
       \/ /\ ~InQueue(m)
          /\ Draining \/ Inflight(p) >= 2
          /\ batch' = [batch EXCEPT ![p] = {}]
          /\ UNCHANGED task /\ Published(p)
       \/ /\ ~InQueue(m)
          /\ ~Draining /\ Inflight(p) < 2
          /\ batch' = [batch EXCEPT ![p] = @ \ {m}]
          /\ Goes(p, "sweep", "begin", m) /\ Published(p)

-----------------------------------------------------------------------------
\* One message, in the inbox task or in the sweep.

\* process_intake gives the intake back when it returns.
Left(m, done) == [intake EXCEPT ![m].done = @ \/ done, ![m].consumer = None]

\* The task is in process_intake, so its message is in intake_active.
Processing(p, t, m) ==
    task[p][t].msg = m /\ task[p][t].at \notin {"receipt", "begin", "notice", "closing"}

\* process_intake does not start twice on one intake.
MayWork(p, m) ==
    /\ \A t \in {"inbox", "sweep"} : ~Processing(p, t, m)
    /\ ~intake[m].done
    /\ intake[m].consumer = p \/ ~HeldByLiving(intake[m].consumer)

Routed(m) == IF intake[m].route = None THEN "classify" ELSE "converse"

Begin(p, t, m) ==
    /\ Does(p, t, "begin", m)
    /\ IF m \notin Owners THEN Goes(p, t, "converse", m) /\ UNCHANGED intake
       ELSE LET greeted == t = "inbox" \/ intake[m].receipt
                row == [intake[m] EXCEPT !.receipt = greeted]
                settled == m \in requests /\ m \in jobs
            IN  IF ~MayWork(p, m)
                THEN intake' = [intake EXCEPT ![m] = row] /\ Goes(p, t, "closing", m)
                ELSE /\ intake' = [intake EXCEPT ![m] =
                            [row EXCEPT !.consumer = IF settled THEN None ELSE p, !.done = settled]]
                     /\ Goes(p, t, IF settled THEN "closing"
                                   ELSE IF greeted THEN Routed(m) ELSE "greet", m)
    /\ UNCHANGED <<process, receiving, batch, ledger, jobs, outbox, adapter, ack, history>>

Greet(p, t, m, ok) ==
    /\ Does(p, t, "greet", m)
    /\ intake' = IF ok THEN [intake EXCEPT ![m].receipt = TRUE] ELSE Left(m, FALSE)
    /\ Goes(p, t, IF ok THEN Routed(m) ELSE "closing", m)
    /\ UNCHANGED <<process, receiving, batch, ledger, jobs, outbox, adapter, ack, history>>

\* Where an exception other than a BridgeError leads: only recover_inbox sends a notice of it.
AfterError(t) == IF t = "inbox" THEN "notice" ELSE "closing"

\* The local model's answer; only the route of a conversation is stored.  `unclear` is the one
\* BridgeError that leaves the intake open, `refused` any other; `unsent`: the notice that it
\* takes long could not be sent.
\* `limited`: a repair in whose text request_release_limits finds limits.
Routes == {"unclear", "refused", "unsent", "conversation", "repair", "limited"}
Classified(p, t, m, route) ==
    /\ Does(p, t, "classify", m)
    /\ \/ /\ route \in {"unclear", "refused"}
          /\ Goes(p, t, "notice", m) /\ intake' = Left(m, route = "refused")
       \/ /\ route = "unsent"
          /\ Goes(p, t, AfterError(t), m) /\ intake' = Left(m, FALSE)
       \/ /\ route = "conversation"
          /\ Goes(p, t, "converse", m)
          /\ intake' = [intake EXCEPT ![m].route = "conversation"]
       \/ /\ route = "repair" /\ Goes(p, t, "enqueue", m) /\ UNCHANGED intake
       \/ /\ route = "limited" /\ Goes(p, t, "limits", m) /\ UNCHANGED intake
    /\ UNCHANGED <<process, receiving, batch, ledger, jobs, outbox, adapter, ack, history>>

LimitsSent(p, t, m, ok) ==
    /\ Does(p, t, "limits", m)
    /\ intake' = Left(m, ok)
    /\ owed' = IF ok THEN owed \ {m} ELSE owed
    /\ Goes(p, t, IF ok THEN "closing" ELSE AfterError(t), m)
    /\ UNCHANGED <<process, receiving, batch, ledger, jobs, outbox, adapter, ack, runs, sends>>

\* The job is stored first, and its message recorded as executed afterwards.
EnqueueJob(p, t, m) ==
    /\ Does(p, t, "enqueue", m)
    /\ jobs' = jobs \cup {m}
    /\ Goes(p, t, "record", m)
    /\ UNCHANGED <<process, receiving, batch, ledger, intake, outbox, adapter, ack, history>>

Full == Cardinality(requests) >= MaxRequests

RecordJob(p, t, m) ==
    /\ Does(p, t, "record", m)
    /\ \/ /\ m \notin requests /\ ~Full
          /\ requests' = requests \cup {m}
          /\ Goes(p, t, "settle", m) /\ UNCHANGED intake
       \/ /\ m \in requests
          /\ intake' = Left(m, TRUE)
          /\ Goes(p, t, "closing", m) /\ UNCHANGED requests
       \/ /\ m \notin requests /\ Full
          /\ intake' = Left(m, TRUE)
          /\ Goes(p, t, "notice", m) /\ UNCHANGED requests
    /\ UNCHANGED <<process, receiving, batch, order, inbox, jobs, outbox, adapter, ack, history>>

SettleJob(p, t, m) ==
    /\ Does(p, t, "settle", m)
    /\ intake' = Left(m, TRUE)
    /\ Goes(p, t, "telling", m)
    /\ UNCHANGED <<process, receiving, batch, ledger, jobs, outbox, adapter, ack, history>>

-----------------------------------------------------------------------------
\* A conversation: the execution is recorded before it begins.

DoneFirst(m) ==
    IF m \in Owners THEN intake' = Left(m, TRUE) /\ UNCHANGED <<order, inbox>>
    ELSE Updated([inbox EXCEPT ![m].done = TRUE]) /\ UNCHANGED intake

RecordedAtTheEnd(m) == requests
Recorded(m) == requests \cup {m}

\* What was begun before is not begun again, but told to be unknown.
ToldUnknownToGuests(m) == IF m \in Owners THEN "closing" ELSE "telling"
ToldUnknown(m) == "telling"

Converse(p, t, m) ==
    /\ Does(p, t, "converse", m)
    /\ \/ /\ m \notin requests /\ ~Full
          /\ requests' = Recorded(m)
          /\ runs' = [runs EXCEPT ![m] = @ + 1] /\ owed' = owed \cup {m}
          /\ Goes(p, t, "running", m)
          /\ UNCHANGED <<order, inbox, intake>>
       \/ /\ m \in requests
          /\ DoneFirst(m)
          /\ Goes(p, t, ToldUnknown(m), m)
          /\ UNCHANGED <<requests, runs, owed>>
       \/ /\ m \in Owners               \* _community_route or validate_public_text refuses it
          /\ intake' = Left(m, TRUE)
          /\ Goes(p, t, "notice", m)
          /\ UNCHANGED <<order, inbox, requests, runs, owed>>
       \/ /\ m \notin requests /\ Full
          /\ intake' = Left(m, m \in Owners)
          /\ Goes(p, t, "notice", m)
          /\ UNCHANGED <<order, inbox, requests, runs, owed>>
    /\ UNCHANGED <<process, receiving, batch, jobs, outbox, adapter, ack, sends>>

\* Of a message that is not the owner's the answer is done before it is sent.
Answered(p, t, m) ==
    /\ Does(p, t, "running", m)
    /\ IF m \in Owners THEN UNCHANGED <<order, inbox>>
       ELSE Updated([inbox EXCEPT ![m].done = TRUE])
    /\ Goes(p, t, "delivering", m)
    /\ UNCHANGED <<process, receiving, batch, requests, store, adapter, ack, history>>

\* `refused`: a BridgeError, which ends an intake; another error does not.
ExecutionFails(p, t, m, refused) ==
    /\ Does(p, t, "running", m)
    /\ intake' = Left(m, refused /\ m \in Owners)
    /\ Goes(p, t, IF refused THEN "notice" ELSE AfterError(t), m)
    /\ UNCHANGED <<process, receiving, batch, ledger, jobs, outbox, adapter, ack, history>>

Delivered(p, t, m, ok) ==
    /\ Does(p, t, "delivering", m)
    /\ intake' = Left(m, ok /\ m \in Owners)
    /\ owed' = IF ok THEN owed \ {m} ELSE owed
    /\ Goes(p, t, IF ok THEN "closing" ELSE AfterError(t), m)
    /\ UNCHANGED <<process, receiving, batch, ledger, jobs, outbox, adapter, ack, runs, sends>>

\* The message is done.  When the sweep cannot send the notice, it does not try again.
NoticeSent(p, t, m, ok) ==
    /\ Does(p, t, "telling", m)
    /\ owed' = IF ok \/ t = "sweep" THEN owed \ {m} ELSE owed
    /\ Goes(p, t, IF ok THEN "closing" ELSE AfterError(t), m)
    /\ UNCHANGED <<process, receiving, batch, ledger, store, adapter, ack, runs, sends>>

\* The notice of an exception is sent or not; if not, the pass of the sweep ends.
FailureSent(p, t, m, ok) ==
    /\ Does(p, t, "notice", m)
    /\ owed' = IF ok \/ Over(m) THEN owed \ {m} ELSE owed
    /\ batch' = IF ok \/ t = "inbox" THEN batch ELSE [batch EXCEPT ![p] = {}]
    /\ Goes(p, t, "closing", m)
    /\ UNCHANGED <<process, receiving, ledger, store, adapter, ack, runs, sends>>

\* The row is done if the message is.
Finish(p, t, m) ==
    /\ Does(p, t, "closing", m)
    /\ IF t = "inbox"
       THEN Updated([inbox EXCEPT ![m].done = @ \/ Over(m), ![m].consumer = None])
       ELSE UNCHANGED <<order, inbox>>
    /\ task' = [task EXCEPT ![p][t] = Free]
    /\ UNCHANGED <<process, receiving, batch, requests, store, adapter, history>>
    /\ Published(p)

-----------------------------------------------------------------------------
\* Reports of repair jobs.

\* RepairStore.finish, called by the controller process.
ReportStored(m) ==
    /\ m \in jobs /\ outbox[m] = None
    /\ outbox' = [outbox EXCEPT ![m] = "pending"]
    /\ UNCHANGED <<process, task, receiving, batch, ledger, intake, jobs, adapter, ack, history>>

OutboxTake(p, m) ==
    /\ Up(p) /\ task[p]["outbox"] = Free
    /\ outbox[m] = "pending" /\ m \in Allows[p]
    /\ ~Draining
    /\ Goes(p, "outbox", "claiming", m)
    /\ UNCHANGED <<process, receiving, batch, ledger, store, adapter, history>>
    /\ Published(p)

MayDeliverUnsent(m) == outbox[m] # "sent"
MayDeliver(m) == outbox[m] = "pending"

ClaimDelivery(p, m) ==
    /\ Does(p, "outbox", "claiming", m)
    /\ UNCHANGED <<process, receiving, batch, ledger, intake, jobs, adapter, runs, owed>>
    /\ \/ /\ MayDeliver(m)
          /\ outbox' = [outbox EXCEPT ![m] = "sending"]
          /\ sends' = [sends EXCEPT ![m] = @ + 1]
          /\ Goes(p, "outbox", "sending", m) /\ UNCHANGED ack
       \/ /\ ~MayDeliver(m)
          /\ task' = [task EXCEPT ![p]["outbox"] = Free]
          /\ Published(p) /\ UNCHANGED <<outbox, sends>>

\* A report whose sending failed stays "sending" and is not sent again.
ReportSent(p, m, ok) ==
    /\ Does(p, "outbox", "sending", m)
    /\ outbox' = [outbox EXCEPT ![m] = IF ok THEN "sent" ELSE @]
    /\ task' = [task EXCEPT ![p]["outbox"] = Free]
    /\ UNCHANGED <<process, receiving, batch, ledger, intake, jobs, adapter, history>>
    /\ Published(p)

-----------------------------------------------------------------------------
\* The release adapter: asks for a drain, waits for the answer of a living
\* process to this very request, and then restarts that process.

SetDrain ==
    /\ drain = 0 /\ issued < MaxDrains
    /\ \E p \in Processes : Replaceable(p)
    /\ issued' = issued + 1 /\ drain' = issued + 1
    /\ UNCHANGED <<process, task, receiving, batch, ledger, store, ack, seen, history>>

SeeIdle(p) ==
    /\ drain # 0 /\ seen = None /\ Up(p)
    /\ ack = [by |-> p, idle |-> TRUE, token |-> drain]
    /\ seen' = p
    /\ UNCHANGED <<process, task, receiving, batch, ledger, store, drain, issued, ack, history>>

KillIdle(p) ==
    /\ seen = p /\ Replaceable(p)
    /\ Gone(p)
    /\ drain' = 0 /\ seen' = None
    /\ owed' = owed \ CutOff(p)
    /\ UNCHANGED <<ledger, store, issued, ack, runs, sends>>

GiveUp ==
    /\ drain # 0
    /\ drain' = 0 /\ seen' = None
    /\ UNCHANGED <<process, task, receiving, batch, ledger, store, issued, ack, history>>

-----------------------------------------------------------------------------
Work(p, t, m) ==
    \/ Begin(p, t, m)
    \/ \E ok \in BOOLEAN : Greet(p, t, m, ok)
    \/ \E route \in Routes : Classified(p, t, m, route)
    \/ \E ok \in BOOLEAN : LimitsSent(p, t, m, ok)
    \/ EnqueueJob(p, t, m) \/ RecordJob(p, t, m) \/ SettleJob(p, t, m)
    \/ Converse(p, t, m) \/ Answered(p, t, m)
    \/ \E ok \in BOOLEAN : Delivered(p, t, m, ok) \/ NoticeSent(p, t, m, ok) \/ FailureSent(p, t, m, ok)
    \/ \E refused \in BOOLEAN : ExecutionFails(p, t, m, refused)
    \/ Finish(p, t, m)

Next ==
    \/ \E p \in Processes : Start(p) \/ Crash(p) \/ Shutdown(p) \/ WatchDrain(p) \/ SweepStart(p)
    \/ \E p \in Processes, m \in Messages : Receive(p, m) \/ ReceiveCrash(p, m)
    \/ \E p \in Processes, m \in Messages, ok \in BOOLEAN : ReceiptAnswered(p, m, ok)
    \/ \E p \in Processes, m \in Messages : TakeNext(p, m) \/ SweepTake(p, m)
    \/ \E p \in Processes, m \in Messages, ok \in BOOLEAN : ReceiptSent(p, m, ok)
    \/ \E p \in Processes, t \in {"inbox", "sweep"}, m \in Messages : Work(p, t, m)
    \/ \E m \in Messages : ReportStored(m)
    \/ \E p \in Processes, m \in Messages : OutboxTake(p, m) \/ ClaimDelivery(p, m)
    \/ \E p \in Processes, m \in Messages, ok \in BOOLEAN : ReportSent(p, m, ok)
    \/ \E p \in Processes : SeeIdle(p) \/ KillIdle(p)
    \/ SetDrain \/ GiveUp

Spec == Init /\ [][Next]_vars

\* What a process does by itself, whatever it is answered.
TaskStep(p, t) ==
    \E m \in Messages :
        \/ t = "inbox" /\ TakeNext(p, m)
        \/ t = "inbox" /\ \E ok \in BOOLEAN : ReceiptSent(p, m, ok)
        \/ t = "sweep" /\ SweepTake(p, m)
        \/ t # "outbox" /\ Work(p, t, m)

\* Every call returns or times out; Discord and the local model do not refuse for
\* ever; the process is started again and a drain is lifted.
Fairness ==
    /\ \A p \in Processes :
        /\ WF_vars(Start(p))
        /\ WF_vars(TaskStep(p, "inbox")) /\ WF_vars(TaskStep(p, "sweep"))
        /\ WF_vars(\E m \in Messages, ok \in BOOLEAN : ReceiptAnswered(p, m, ok))
        /\ SF_vars(\E m \in Messages : ReceiptSent(p, m, TRUE))
        /\ SF_vars(\E m \in Messages : Classified(p, "inbox", m, "conversation"))
    /\ WF_vars(GiveUp)

FairSpec == Spec /\ Fairness

-----------------------------------------------------------------------------
\* The type invariant.
BridgeTypeOK ==
    /\ process \in [Processes -> {"unborn", "up", "dead"}]
    /\ task \in [Processes -> [Tasks -> [at : Awaiting \cup Between, msg : Messages \cup {None}]]]
    /\ receiving \in [Processes -> SUBSET Messages]
    /\ batch \in [Processes -> SUBSET Owners]
    /\ order \subseteq Messages \X Messages
    /\ inbox \in [Messages -> [receipt : BOOLEAN, done : BOOLEAN, consumer : Processes \cup {None}]]
    /\ requests \subseteq Messages
    /\ intake \in [Messages -> [known : BOOLEAN, route : {None, "conversation"}, receipt : BOOLEAN,
                                done : BOOLEAN, consumer : Processes \cup {None}]]
    /\ jobs \subseteq Owners
    /\ outbox \in [Messages -> {None, "pending", "sending", "sent"}]
    /\ drain \in 0 .. issued /\ issued \in 0 .. MaxDrains /\ seen \in Processes \cup {None}
    /\ ack \in [by : Processes \cup {None}, idle : BOOLEAN, token : 0 .. issued]
    /\ runs \in [Messages -> Nat] /\ owed \subseteq Messages /\ sends \in [Messages -> Nat]

\* No message is executed twice, whatever is redelivered to whichever process, and
\* although its row may be pruned from the queue and a process may die anywhere
\* (BridgeLedger.claim before gateway.answer).
NeverRunTwice == \A m \in Messages : runs[m] <= 1

\* A message is worked on by one task, and only when all that were received before
\* it are done: a head that could not be told its receipt or not be classified is
\* not overtaken (claim_next, recover_inbox).
QueueInOrder ==
    \A p \in Processes : task[p]["inbox"] # Free =>
        LET m == task[p]["inbox"].msg IN
        /\ \A q \in Processes \ {p} : task[q]["inbox"].msg # m
        /\ \A h \in Messages : Older(h, m) => inbox[h].done

\* The sending of a report is begun at most once: whatever two processes read as pending,
\* and although a process may die or the send fail before it is known whether the report
\* arrived (claim_delivery before send).
ReportSentOnce == \A m \in Messages : sends[m] <= 1

\* While the release adapter relies on having seen a process idle, that process is
\* idle: the restart interrupts nothing (activity, drain_token).
RestartInterruptsNothing == \A p \in Processes : seen = p => Idle(p)

\* A message with a recorded execution counts as done, with no task at it any more, only if
\* its requester was sent an answer, a failure or the notice that the result is not known, or
\* if that sending failed or its process was stopped at it, or in order at the execution.  A
\* process that dies in the execution is no such excuse: the next one tells.  (A repair is told
\* by its report, and a message of a channel that is not allowed any more is dropped.)
InHand(m) == \E p \in Processes : Holds(p, m, Awaiting \cup Between)
NeverEndsInSilence ==
    \A m \in owed \ jobs :
        (\A p \in Processes : m \in Allows[p]) /\ Concluded(m) => InHand(m)

\* Whatever was received is concluded in the end, across crashes, failed sends and
\* drains, so that the queue runs empty again and again; a row that is stuck would block
\* all that were received later.  The exception is a guest's message that finds the table
\* of executions full, although a place was kept for it: it is asked for ever.
StuckAtTheLimit == Full /\ \E m \in Messages \ Owners : Pending(m) /\ m \notin requests
EveryRequestConcluded == []<>((\A m \in Messages : ~Pending(m)) \/ StuckAtTheLimit)
=============================================================================
