------------------------------- MODULE Triage -------------------------------
(***************************************************************************)
(* The captured sessions of the verifier triage                            *)
(* (verifier_triage_isolation.py, verifier_triage_consumer.py): a planner  *)
(* and an implementer write a candidate, their capture is verified, and    *)
(* only then consumers are run on it.  Each session is a client process    *)
(* whose requests pass a Gateway, a threaded server that forwards one      *)
(* request at a time to the model.  The threads are daemons: they outlive  *)
(* the gateway, and the controller judges a session without waiting for    *)
(* them.                                                                   *)
(***************************************************************************)
EXTENDS Integers, Sequences, FiniteSets

CONSTANTS Consumers,    \* sessions of the evaluation
          MaxRequests,  \* requests of a session the gateway admits
          MaxAsked,     \* bound: requests a client makes in a session
          MaxDisorder,  \* bound: requests sent twice, or before the last answer
          MaxEdits      \* bound: changes of frozen files or saved evidence

ASSUME TriageAssumption ==
    /\ Consumers \in Nat /\ MaxRequests \in Nat \ {0} /\ MaxAsked \in Nat \ {0}
    /\ MaxDisorder \in Nat /\ MaxEdits \in Nat

VARIABLES plannerOnly,  \* contract["planner_only"]
          phase,        \* where the controller is
          current,      \* the session it is at
          client,       \* what the client of each session did, saw and traced
          gate,         \* gateway.records, gateway.failure, gateway.closed
          spent,        \* the time or a cap of the current session is used up
          guest,        \* the input directory of the current session
          accepted,     \* sessions with a verified receipt
          listed,       \* receipt["files"] of each captured session
          pins,         \* the frozen files are as they were
          spoiled,      \* sessions whose saved evidence was changed
          disorder, edits

sessionVars == <<plannerOnly, phase, current, client, gate, spent, guest, accepted,
          listed, pins, spoiled, disorder, edits>>
controller == <<plannerOnly, phase, current, spent, guest, accepted, listed>>
damage == <<pins, spoiled, disorder, edits>>

Planner == 1
Implementer == 2
Last == 2 + Consumers
AllSessions == 1..Last
Capturing(s) == s <= Implementer
Ended == {"refused", "done"}

-----------------------------------------------------------------------------
(* Records of the gateway.  A thread holds the lock while it is busy.      *)

Busy == {"reading", "admitted", "asked", "saved"}
NewRecord(n) == [request |-> n, at |-> "reading", accepted |-> FALSE, forwarded |-> FALSE,
                 completed |-> FALSE, error |-> FALSE, receipt |-> FALSE]

Records(s) == gate[s].records
At(s, i, stage) == i \in DOMAIN Records(s) /\ Records(s)[i].at = stage
LockFreeOnceRead(s) == \A i \in DOMAIN Records(s) : Records(s)[i].at # "reading"
LockFree(s) == \A i \in DOMAIN Records(s) : Records(s)[i].at \notin Busy
Completed(s) == {i \in DOMAIN Records(s) : Records(s)[i].completed}
Served(r) == r.accepted /\ r.forwarded /\ ~r.error

\* An exception of the handler: the record and the gateway keep it.
Failing(g, i) == [g EXCEPT !.records[i].error = TRUE, !.records[i].at = "saved",
                           !.fault = TRUE]
Threads == phase \notin Ended

\* frozen: the freeze and all it pins are as they were before the planner began.
Frozen == pins

\* Evidence of the generation is among the pins of the evaluation.
Intact(s) == IF Capturing(s) THEN Frozen ELSE pins /\ spoiled = {}

\* check_prefix: what was captured is there, with its receipts.
Prefix(s) == /\ Frozen /\ s \notin spoiled
             /\ \A i \in Completed(s) : Records(s)[i].receipt /\ Served(Records(s)[i])

\* The inputs are those that were frozen; only the implementer adds the skill.
InputsHold(s) == guest = "same" \/ (s = Implementer /\ guest = "skill")

\* The client has written a preview of this request, and of none after it.
PreviewsUpTo(s, i) == client[s].asked = i

\* The bytes, with all results of tools in them, are those of the last preview.
Announced(s, i) == PreviewsUpTo(s, i) /\ Records(s)[i].request = i

\* admit: the next of an unbroken sequence, new, of the living client.
Sequenced(s, i) ==
    /\ Prefix(s) /\ InputsHold(s) /\ client[s].state = "running"
    /\ i = Cardinality(Completed(s)) + 1
    /\ \A k \in Completed(s) : Records(s)[k].request # Records(s)[i].request

Open(s) == ~gate[s].closed /\ ~spent

Admissible(s, i) ==
    /\ Open(s) /\ Intact(s) /\ i <= MaxRequests
    /\ Announced(s, i)
    /\ Capturing(s) => Sequenced(s, i)
-----------------------------------------------------------------------------
(* The client: it asks, hears the answer, and traces both.                 *)

Hears(c, n, good) ==
    IF c.state # "running" \/ c.failed \/ n # c.heard + 1 THEN c
    ELSE IF good THEN [c EXCEPT !.heard = n] ELSE [c EXCEPT !.failed = TRUE]

Send(s, m, asked) ==
    client' = [client EXCEPT ![s].asked = asked, ![s].wire = @ \cup {m}]

Ask(s) ==
    LET c == client[s] IN
    /\ c.state = "running" /\ ~c.failed /\ c.asked < MaxAsked /\ c.heard = c.asked
    /\ Send(s, <<c.asked + 1, 1>>, c.asked + 1)
    /\ UNCHANGED <<controller, gate, damage>>

\* It does not wait for the answer, or the transport delivers a request again.
Rush(s) ==
    LET c == client[s] IN
    /\ Threads /\ disorder < MaxDisorder /\ c.heard < c.asked
    /\ disorder' = disorder + 1
    /\ \/ Send(s, <<c.asked, 2>>, c.asked)
       \/ /\ c.state = "running" /\ ~c.failed /\ c.asked < MaxAsked
          /\ Send(s, <<c.asked + 1, 1>>, c.asked + 1)
    /\ UNCHANGED <<controller, gate, pins, spoiled, edits>>

WriteInput(s) ==
    /\ client[s].state = "running" /\ guest = "same"
    /\ \E what \in {"skill", "other"} : guest' = what
    /\ UNCHANGED <<plannerOnly, phase, current, client, gate, spent, accepted, listed, damage>>

\* It may end at any time, and call that a success.
Leave(s) ==
    /\ client[s].state = "running"
    /\ \E how \in {"ok", "bad"} : client' = [client EXCEPT ![s].state = how]
    /\ UNCHANGED <<controller, gate, damage>>
-----------------------------------------------------------------------------
(* The threads of the gateway (do_POST).                                   *)

\* A second request at the same time is refused, and the session with it.
Collide(s, m) ==
    /\ Threads /\ m \in client[s].wire /\ ~LockFree(s)
    /\ LET c == [client[s] EXCEPT !.wire = @ \ {m}] IN
       \E got \in {c, Hears(c, m[1], FALSE)} : client' = [client EXCEPT ![s] = got]
    /\ gate' = [gate EXCEPT ![s].fault = TRUE]
    /\ UNCHANGED <<controller, damage>>

Enter(s, m) ==
    /\ Threads /\ m \in client[s].wire /\ LockFree(s)
    /\ client' = [client EXCEPT ![s].wire = @ \ {m}]
    /\ LET i == Len(Records(s)) + 1
           g == [gate[s] EXCEPT !.records = Append(@, NewRecord(m[1]))] IN
       gate' = [gate EXCEPT ![s] = IF Open(s) /\ ~g.fault THEN g ELSE Failing(g, i)]
    /\ UNCHANGED <<controller, damage>>

Admit(s, i) ==
    /\ Threads /\ At(s, i, "reading") /\ Admissible(s, i)
    /\ gate' = [gate EXCEPT ![s].records[i].at = "admitted", ![s].records[i].accepted = TRUE]
    /\ UNCHANGED <<controller, client, damage>>

\* Besides: a malformed body, a wrong model or cap, the RAM or disk floor, the tokenizer.
Refuse(s, i) ==
    /\ Threads /\ At(s, i, "reading")
    /\ gate' = [gate EXCEPT ![s] = Failing(@, i)]
    /\ UNCHANGED <<controller, client, damage>>

Forward(s, i) ==
    /\ Threads /\ At(s, i, "admitted")
    /\ gate' = [gate EXCEPT ![s].records[i].at = "asked", ![s].records[i].forwarded = TRUE]
    /\ UNCHANGED <<controller, client, damage>>

\* The whole response is read, saved, and closed by complete().  Closure and
\* deadline are looked at when a chunk arrives, not after the last one.
Answer(s, i) ==
    /\ Threads /\ At(s, i, "asked")
    /\ gate' = [gate EXCEPT ![s].records[i].at = "saved",
                            ![s].records[i].completed = Capturing(s)]
    /\ UNCHANGED <<controller, client, damage>>

\* The model refuses, is cut off, or a chunk comes after the end.
Break(s, i) ==
    /\ Threads /\ At(s, i, "asked")
    /\ gate' = [gate EXCEPT ![s] = Failing(@, i)]
    /\ UNCHANGED <<controller, client, damage>>

\* The pins are checked again, the receipt is written, the lock is released.
Seal(s, i) ==
    /\ Threads /\ At(s, i, "saved")
    /\ LET g == IF Intact(s) THEN gate[s] ELSE Failing(gate[s], i) IN
       gate' = [gate EXCEPT ![s] = [g EXCEPT !.records[i].at = "sealed",
                                             !.records[i].receipt = TRUE]]
    /\ UNCHANGED <<controller, client, damage>>

\* The receipt exceeds the cap: the lock is released, nobody is told.
SealFails(s, i) ==
    /\ Threads /\ At(s, i, "saved") /\ Capturing(s)
    /\ gate' = [gate EXCEPT ![s].records[i].at = "over"]
    /\ UNCHANGED <<controller, client, damage>>

\* The answer goes out when the lock is free again; it may find nobody.
Reply(s, i) ==
    /\ Threads /\ At(s, i, "sealed")
    /\ LET r == Records(s)[i]
           c == Hears(client[s], r.request, ~r.error) IN
       \/ /\ client' = [client EXCEPT ![s] = c]
          /\ gate' = [gate EXCEPT ![s].records[i].at = "over"]
       \/ /\ gate' = [gate EXCEPT ![s].records[i].at = "over", ![s].fault = TRUE]
          /\ UNCHANGED client
    /\ UNCHANGED <<controller, damage>>

\* A health request (do_GET) that finds a changed pin or another server.
HealthFails(s) ==
    /\ phase = "watching" /\ s = current /\ ~gate[s].closed
    /\ gate' = [gate EXCEPT ![s].fault = TRUE]
    /\ UNCHANGED <<controller, client, damage>>
-----------------------------------------------------------------------------
(* What the saved evidence of a session must show.                         *)

Files(s) == [i \in DOMAIN Records(s) |-> <<Records(s)[i].receipt, Records(s)[i].completed>>]

TraceClean(s) == client[s].asked > 0 /\ ~client[s].failed

\* stage_evidence: the trace is whole and every request in it was answered.
TraceWhole(s) ==
    LET c == client[s] IN c.asked > 0 /\ c.asked = c.heard /\ ~c.failed

\* verify_session: the chain of closures from the freeze on.
CaptureWhole(s) ==
    /\ Frozen /\ s \notin spoiled /\ Files(s) = listed[s]
    /\ client[s].asked = Cardinality(Completed(s))
    /\ \A i \in 1..Cardinality(Completed(s)) :
          i \in Completed(s) /\ Records(s)[i].receipt /\ Served(Records(s)[i])

WireWhole(s) ==
    /\ Len(Records(s)) = client[s].asked
    /\ \A i \in DOMAIN Records(s) : Served(Records(s)[i])

Credible(s) == /\ TraceWhole(s) /\ client[s].asked <= MaxRequests
               /\ IF Capturing(s) THEN CaptureWhole(s) ELSE WireWhole(s)

-----------------------------------------------------------------------------
(* The controller (run_generation_session, run_session, run_contract).     *)

NoClient == [state |-> "none", asked |-> 0, heard |-> 0, failed |-> FALSE, wire |-> {}]
NewGate == [records |-> <<>>, fault |-> FALSE, closed |-> FALSE]
Refused == phase' = "refused" /\ UNCHANGED <<current, client, gate, spent, guest, accepted, listed>>

\* A fresh directory, gateway and process; the plan comes from a verified planner.
Begin ==
    /\ phase = "ready" /\ current \in AllSessions
    /\ IF Intact(current) /\ (current = Implementer => CaptureWhole(Planner))
       THEN /\ phase' = "watching" /\ spent' = FALSE /\ guest' = "same"
            /\ client' = [client EXCEPT ![current] = [NoClient EXCEPT !.state = "running"]]
            /\ UNCHANGED <<current, gate, accepted, listed>>
       ELSE Refused
    /\ UNCHANGED <<plannerOnly, damage>>

UseUp ==
    /\ phase = "watching" /\ ~spent
    /\ spent' = TRUE
    /\ UNCHANGED <<plannerOnly, phase, current, client, gate, guest, accepted, listed, damage>>

CutOffIfFailed ==
    /\ phase = "watching" /\ spent /\ client[current].state = "running" /\ gate[current].fault
    /\ client' = [client EXCEPT ![current].state = "stopped"]
    /\ gate' = [gate EXCEPT ![current].closed = TRUE]
    /\ phase' = "refused"
    /\ UNCHANGED <<plannerOnly, current, spent, guest, accepted, listed, damage>>

\* Watching ends with the time or a cap; the client is stopped.
CutOff ==
    /\ phase = "watching" /\ spent /\ client[current].state = "running"
    /\ client' = [client EXCEPT ![current].state = "stopped"]
    /\ gate' = [gate EXCEPT ![current].closed = TRUE]
    /\ phase' = "refused"
    /\ UNCHANGED <<plannerOnly, current, spent, guest, accepted, listed, damage>>

\* The client is gone; the gateway closes and does not wait for its threads.
Close ==
    /\ phase = "watching" /\ client[current].state # "running"
    /\ gate' = [gate EXCEPT ![current].closed = TRUE]
    /\ phase' = "judging"
    /\ UNCHANGED <<plannerOnly, current, client, spent, guest, accepted, listed, damage>>

InputsAsExpected(s) == guest = IF s = Implementer THEN "skill" ELSE "same"

Judge ==
    /\ phase = "judging"
    /\ IF /\ client[current].state = "ok" /\ ~gate[current].fault
          /\ InputsAsExpected(current) /\ Intact(current)
          /\ Capturing(current) => Prefix(current)
       THEN /\ phase' = "weighing" /\ listed' = [listed EXCEPT ![current] = Files(current)]
            /\ UNCHANGED <<current, client, gate, spent, guest, accepted>>
       ELSE Refused
    /\ UNCHANGED <<plannerOnly, damage>>

LastGeneration == IF plannerOnly THEN Planner ELSE Implementer

Weigh ==
    /\ phase = "weighing"
    /\ IF Credible(current)
       THEN /\ accepted' = accepted \cup {current}
            /\ current' = current + 1
            /\ phase' = IF current = LastGeneration THEN "generated" ELSE "ready"
            /\ UNCHANGED <<client, gate, spent, guest, listed>>
       ELSE Refused
    /\ UNCHANGED <<plannerOnly, damage>>

\* capture.json; the process of the generation ends, with all its threads.
Capture ==
    /\ phase = "generated"
    /\ phase' = "captured"
    /\ client' = [s \in AllSessions |-> [client[s] EXCEPT !.wire = {}]]
    /\ gate' = [s \in AllSessions |-> [gate[s] EXCEPT !.records =
                  [i \in DOMAIN @ |-> IF @[i].at = "over" THEN @[i]
                                      ELSE [@[i] EXCEPT !.at = "lost"]]]]
    /\ UNCHANGED <<plannerOnly, current, spent, guest, accepted, listed, damage>>

\* Both sessions are verified again from what was saved.
CaptureVerified == /\ Frozen
                   /\ \A s \in 1..LastGeneration : CaptureWhole(s)
BindingVerified == ~plannerOnly /\ CaptureVerified

Check(from, to, condition) ==
    /\ phase = from
    /\ IF condition
       THEN phase' = to /\ UNCHANGED <<current, client, gate, spent, guest, accepted, listed>>
       ELSE Refused
    /\ UNCHANGED <<plannerOnly, damage>>

\* The contract of the evaluation is built from a verified capture, and is
\* verified anew by the process that carries it out.
BuildContract == Check("captured", "contracted", BindingVerified)
Validate == Check("contracted", "ready", Intact(Implementer + 1) /\ BindingVerified)

Conclude ==
    /\ phase = "ready" /\ current > Last
    /\ phase' = IF Intact(Last) THEN "done" ELSE "refused"
    /\ UNCHANGED <<plannerOnly, current, client, gate, spent, guest, accepted, listed, damage>>
-----------------------------------------------------------------------------
(* Files may be changed behind the back of the run.                        *)

Edit ==
    /\ Threads /\ edits < MaxEdits
    /\ edits' = edits + 1
    /\ \/ pins' = FALSE /\ UNCHANGED spoiled
       \/ /\ \E s \in AllSessions : /\ Capturing(s) /\ client[s].state # "none"
                                    /\ spoiled' = spoiled \cup {s}
          /\ UNCHANGED pins
    /\ UNCHANGED <<controller, client, gate, disorder>>

-----------------------------------------------------------------------------
SessionsInit ==
    /\ plannerOnly \in BOOLEAN
    /\ phase = "ready" /\ current = Planner
    /\ client = [s \in AllSessions |-> NoClient]
    /\ gate = [s \in AllSessions |-> NewGate]
    /\ spent = FALSE /\ guest = "same" /\ accepted = {}
    /\ listed = [s \in AllSessions |-> <<>>]
    /\ pins = TRUE /\ spoiled = {} /\ disorder = 0 /\ edits = 0

Controller == Begin \/ CutOff \/ Close \/ Judge \/ Weigh \/ Capture \/ BuildContract \/ Validate \/ Conclude

Thread(s) ==
    \/ \E m \in client[s].wire : Collide(s, m) \/ Enter(s, m)
    \/ \E i \in DOMAIN Records(s) :
          \/ Admit(s, i) \/ Refuse(s, i) \/ Forward(s, i) \/ Answer(s, i) \/ Break(s, i)
          \/ Seal(s, i) \/ SealFails(s, i) \/ Reply(s, i)

SessionsNext ==
    \/ Controller
    \/ UseUp
    \/ Edit
    \/ \E s \in AllSessions :
          Ask(s) \/ Rush(s) \/ WriteInput(s) \/ Leave(s) \/ HealthFails(s) \/ Thread(s)

SessionsSpec == SessionsInit /\ [][SessionsNext]_sessionVars

\* The controller and the clock go on; clients, threads and the model need not.
FairSpec == SessionsSpec /\ WF_sessionVars(Controller) /\ WF_sessionVars(UseUp)
-----------------------------------------------------------------------------
(* Properties                                                              *)

\* Whatever is sent twice or at the same time, and although threads outlive
\* their gateway: the model is never asked by two threads at once (Gateway,
\* "Concurrent generation prohibited").
OneAtTheModel ==
    \A s, t \in AllSessions : \A i \in DOMAIN Records(s), k \in DOMAIN Records(t) :
       At(s, i, "asked") /\ At(t, k, "asked") => s = t /\ i = k

\* An accepted session is a whole one, and stays so while threads of it are
\* still running: each request of its trace was forwarded exactly once, was
\* answered, and has its receipt; nothing else ever went to the model.
AcceptedIsServed ==
    \A s \in accepted :
       LET sent == {i \in DOMAIN Records(s) : Records(s)[i].forwarded} IN
       /\ client[s].heard = client[s].asked
       /\ \A n \in 1..client[s].asked :
             \E i \in sent : /\ Records(s)[i].request = n
                            /\ Records(s)[i].receipt /\ ~Records(s)[i].error
       /\ Cardinality(sent) = client[s].asked

\* However the client, the threads and the model behave, the run ends with a
\* result or a refusal (STAGE_SECONDS, the watching loops).
EveryRunEnds == <>(phase \in Ended)
=============================================================================
