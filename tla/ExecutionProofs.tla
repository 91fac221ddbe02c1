--------------------------- MODULE ExecutionProofs ---------------------------
(***************************************************************************)
(* What runs code of a model and is believed only when everything it left  *)
(* behind agrees: the captured sessions of the triage and the coding jobs. *)
(*                                                                         *)
(* Triage: one thread at a time asks the model, and an accepted session    *)
(* was served whole, for any number of consumers, requests, disorder and   *)
(* edits.  A captured session answers its requests in order and none of    *)
(* them twice (InTurn), so that a trace in which every request was heard   *)
(* leaves no place for one that is still under way; in a session of the    *)
(* evaluation, which admits any request, that is a matter of counting.     *)
(*                                                                         *)
(* Coding: a job that is reported as succeeded is backed by what it left   *)
(* behind, on systems where a process is stopped with its group.  For any  *)
(* contents, any set of them the validation accepts, and any number of     *)
(* cancellations.                                                          *)
(***************************************************************************)
EXTENDS Coding, Triage, FiniteSetTheorems, SequenceTheorems, TLAPS

-----------------------------------------------------------------------------
(* The sessions of the triage.                                             *)

Stages == Busy \cup {"sealed", "over", "lost"}
Record == [request : Nat, at : Stages, accepted : BOOLEAN, forwarded : BOOLEAN,
           completed : BOOLEAN, error : BOOLEAN, receipt : BOOLEAN]
Gates == [records : Seq(Record), fault : BOOLEAN, closed : BOOLEAN]
Clients == [state : {"none", "running", "ok", "bad", "stopped"}, asked : Nat, heard : Nat,
            failed : BOOLEAN, wire : SUBSET (Nat \X Nat)]
Phases == {"ready", "watching", "judging", "weighing", "generated", "captured", "contracted"} \cup Ended

SessionsTyped ==
    /\ client \in [AllSessions -> Clients]
    /\ gate \in [AllSessions -> Gates]
    /\ phase \in Phases /\ current \in 1..(Last + 1)

\* In session s record i becomes q, and nothing else of what its gateway recorded changes.
Becomes(s, i, q) ==
    /\ gate' \in [AllSessions -> Gates]
    /\ \A t \in AllSessions : t # s => gate'[t] = gate[t]
    /\ Len(gate'[s].records) = Len(Records(s))
    /\ gate'[s].records[i] = q
    /\ \A k \in 1..Len(Records(s)) : k # i => gate'[s].records[k] = Records(s)[k]
    /\ gate'[s].closed = gate[s].closed

LEMMA RecordsTyped ==
  ASSUME SessionsTyped, NEW s \in AllSessions
  PROVE  /\ Records(s) \in Seq(Record) /\ DOMAIN Records(s) = 1..Len(Records(s)) /\ Len(Records(s)) \in Nat
         /\ \A i \in DOMAIN Records(s) : Records(s)[i] \in Record
         /\ gate[s] \in Gates /\ client[s] \in Clients
<1>1. gate[s] \in Gates /\ client[s] \in Clients
  BY DEF SessionsTyped
<1>2. Records(s) \in Seq(Record)
  BY <1>1 DEF Gates, Records
<1> HIDE DEF Record
<1> QED
  BY <1>1, <1>2

\* The gateway g with q for record i and f for its failure.
With(g, i, q, f) == [g EXCEPT !.records = [g.records EXCEPT ![i] = q], !.fault = f]

LEMMA GateSet ==
  ASSUME NEW g \in Gates, NEW i \in 1..Len(g.records), NEW q \in Record, NEW f \in BOOLEAN
  PROVE  /\ With(g, i, q, f) \in Gates /\ Len(With(g, i, q, f).records) = Len(g.records)
         /\ With(g, i, q, f).records[i] = q
         /\ \A k \in 1..Len(g.records) : k # i => With(g, i, q, f).records[k] = g.records[k]
         /\ With(g, i, q, f).closed = g.closed /\ With(g, i, q, f).fault = f
<1>0. PICK h : h = With(g, i, q, f)
  OBVIOUS
<1> DEFINE old == g.records
           new == [old EXCEPT ![i] = q]
<1>1. old \in Seq(Record)
  BY DEF Gates
<1>2. new \in Seq(Record) /\ Len(new) = Len(old) /\ new[i] = q
      /\ \A k \in 1..Len(old) : k # i => new[k] = old[k]
  <2> HIDE DEF Record
  <2> QED
    BY <1>1, ExceptSeq
<1>3. h = [g EXCEPT !.records = new, !.fault = f]
  BY <1>0 DEF With
<1>4. h.records = new /\ h.closed = g.closed /\ h.fault = f /\ h \in Gates
  <2> HIDE DEF new, Record
  <2> QED
    BY <1>1, <1>2, <1>3 DEF Gates
<1> QED
  BY <1>0, <1>2, <1>4

LEMMA Replaced ==
  ASSUME SessionsTyped, NEW s \in AllSessions, NEW h \in Gates,
         gate' = [gate EXCEPT ![s] = h], Len(h.records) = Len(Records(s)), h.closed = gate[s].closed,
         NEW i \in DOMAIN Records(s), NEW q, h.records[i] = q,
         \A k \in 1..Len(Records(s)) : k # i => h.records[k] = Records(s)[k]
  PROVE  Becomes(s, i, q)
<1>1. gate'[s] = h /\ (\A t \in AllSessions : t # s => gate'[t] = gate[t])
  BY DEF SessionsTyped
<1>2. gate' \in [AllSessions -> Gates]
  <2> HIDE DEF Gates
  <2> QED
    BY DEF SessionsTyped
<1> QED
  BY <1>1, <1>2 DEF Becomes

LEMMA Rewritten ==
  ASSUME SessionsTyped, NEW s \in AllSessions, NEW i \in DOMAIN Records(s), NEW q \in Record,
         NEW f \in BOOLEAN,
         gate' = [gate EXCEPT ![s] = With(gate[s], i, q, f)]
  PROVE  Becomes(s, i, q)
<1>1. gate[s] \in Gates /\ i \in 1..Len(gate[s].records)
  BY RecordsTyped DEF Records
<1>2. PICK h : h = With(gate[s], i, q, f)
  OBVIOUS
<1>3. gate' = [gate EXCEPT ![s] = h]
  BY <1>2
<1>4. /\ h \in Gates /\ Len(h.records) = Len(gate[s].records)
      /\ h.records[i] = q
      /\ \A k \in 1..Len(gate[s].records) : k # i => h.records[k] = gate[s].records[k]
      /\ h.closed = gate[s].closed
  BY <1>1, <1>2, GateSet
<1> QED
  BY <1>3, <1>4, Replaced DEF Records

LEMMA AdmitBecomes ==
  ASSUME SessionsTyped, NEW s \in AllSessions, NEW i \in DOMAIN Records(s), Admit(s, i)
  PROVE  Becomes(s, i, [Records(s)[i] EXCEPT !.at = "admitted", !.accepted = TRUE])
<1> DEFINE q == [Records(s)[i] EXCEPT !.at = "admitted", !.accepted = TRUE]
           f == gate[s].fault
<1>1. Records(s)[i] \in Record /\ gate[s] \in Gates
  BY RecordsTyped
<1>2. q \in Record /\ f \in BOOLEAN
  BY <1>1 DEF Record, Stages, Busy, Gates
<1>3. gate' = [gate EXCEPT ![s] = With(gate[s], i, q, f)]
  BY <1>1 DEF With, Admit, Records, Gates
<1>4. Becomes(s, i, q)
  <2> HIDE DEF q, f
  <2> QED
    BY <1>2, <1>3, Rewritten
<1> QED
  BY <1>4

LEMMA RefuseBecomes ==
  ASSUME SessionsTyped, NEW s \in AllSessions, NEW i \in DOMAIN Records(s), Refuse(s, i)
  PROVE  Becomes(s, i, [Records(s)[i] EXCEPT !.at = "saved", !.error = TRUE])
<1> DEFINE q == [Records(s)[i] EXCEPT !.at = "saved", !.error = TRUE]
           f == TRUE
<1>1. Records(s)[i] \in Record /\ gate[s] \in Gates
  BY RecordsTyped
<1>2. q \in Record /\ f \in BOOLEAN
  BY <1>1 DEF Record, Stages, Busy, Gates
<1>3. gate' = [gate EXCEPT ![s] = With(gate[s], i, q, f)]
  BY <1>1 DEF With, Refuse, Records, Gates, Failing
<1>4. Becomes(s, i, q)
  <2> HIDE DEF q, f
  <2> QED
    BY <1>2, <1>3, Rewritten
<1> QED
  BY <1>4

LEMMA ForwardBecomes ==
  ASSUME SessionsTyped, NEW s \in AllSessions, NEW i \in DOMAIN Records(s), Forward(s, i)
  PROVE  Becomes(s, i, [Records(s)[i] EXCEPT !.at = "asked", !.forwarded = TRUE])
<1> DEFINE q == [Records(s)[i] EXCEPT !.at = "asked", !.forwarded = TRUE]
           f == gate[s].fault
<1>1. Records(s)[i] \in Record /\ gate[s] \in Gates
  BY RecordsTyped
<1>2. q \in Record /\ f \in BOOLEAN
  BY <1>1 DEF Record, Stages, Busy, Gates
<1>3. gate' = [gate EXCEPT ![s] = With(gate[s], i, q, f)]
  BY <1>1 DEF With, Forward, Records, Gates
<1>4. Becomes(s, i, q)
  <2> HIDE DEF q, f
  <2> QED
    BY <1>2, <1>3, Rewritten
<1> QED
  BY <1>4

LEMMA AnswerBecomes ==
  ASSUME SessionsTyped, NEW s \in AllSessions, NEW i \in DOMAIN Records(s), Answer(s, i)
  PROVE  Becomes(s, i, [Records(s)[i] EXCEPT !.at = "saved", !.completed = Capturing(s)])
<1> DEFINE q == [Records(s)[i] EXCEPT !.at = "saved", !.completed = Capturing(s)]
           f == gate[s].fault
<1>1. Records(s)[i] \in Record /\ gate[s] \in Gates
  BY RecordsTyped
<1>0. Capturing(s) \in BOOLEAN
  BY DEF Capturing
<1>2. q \in Record /\ f \in BOOLEAN
  BY <1>0, <1>1 DEF Record, Stages, Busy, Gates
<1>3. gate' = [gate EXCEPT ![s] = With(gate[s], i, q, f)]
  BY <1>1 DEF With, Answer, Records, Gates
<1>4. Becomes(s, i, q)
  <2> HIDE DEF q, f
  <2> QED
    BY <1>2, <1>3, Rewritten
<1> QED
  BY <1>4

LEMMA BreakBecomes ==
  ASSUME SessionsTyped, NEW s \in AllSessions, NEW i \in DOMAIN Records(s), Break(s, i)
  PROVE  Becomes(s, i, [Records(s)[i] EXCEPT !.at = "saved", !.error = TRUE])
<1> DEFINE q == [Records(s)[i] EXCEPT !.at = "saved", !.error = TRUE]
           f == TRUE
<1>1. Records(s)[i] \in Record /\ gate[s] \in Gates
  BY RecordsTyped
<1>2. q \in Record /\ f \in BOOLEAN
  BY <1>1 DEF Record, Stages, Busy, Gates
<1>3. gate' = [gate EXCEPT ![s] = With(gate[s], i, q, f)]
  BY <1>1 DEF With, Break, Records, Gates, Failing
<1>4. Becomes(s, i, q)
  <2> HIDE DEF q, f
  <2> QED
    BY <1>2, <1>3, Rewritten
<1> QED
  BY <1>4

Sealed(s, i, whole) ==
    IF whole THEN [Records(s)[i] EXCEPT !.at = "sealed", !.receipt = TRUE]
    ELSE [Records(s)[i] EXCEPT !.at = "sealed", !.receipt = TRUE, !.error = TRUE]

LEMMA SealBecomes ==
  ASSUME SessionsTyped, NEW s \in AllSessions, NEW i \in DOMAIN Records(s), Seal(s, i)
  PROVE  \E whole \in BOOLEAN : Becomes(s, i, Sealed(s, i, whole))
<1>1. Records(s)[i] \in Record /\ gate[s] \in Gates
  BY RecordsTyped
<1>2. ASSUME Intact(s) PROVE Becomes(s, i, Sealed(s, i, TRUE))
  <2> DEFINE q == Sealed(s, i, TRUE)
             f == gate[s].fault
  <2>1. q \in Record /\ f \in BOOLEAN
    BY <1>1 DEF Record, Stages, Busy, Gates, Sealed
  <2>2. gate' = [gate EXCEPT ![s] = With(gate[s], i, q, f)]
    BY <1>1, <1>2, ZenonT(60) DEF With, Seal, Records, Gates, Record, Sealed
  <2>3. Becomes(s, i, q)
    <3> HIDE DEF q, f
    <3> QED
      BY <2>1, <2>2, Rewritten
  <2> QED
    BY <2>3
<1>3. ASSUME ~Intact(s) PROVE Becomes(s, i, Sealed(s, i, FALSE))
  <2>0. PICK f \in BOOLEAN : f = TRUE
    OBVIOUS
  <2>1. PICK q : q = [Records(s)[i] EXCEPT !.at = "saved", !.error = TRUE]
    OBVIOUS
  <2>2. q \in Record /\ i \in 1..Len(gate[s].records)
    BY <1>1, <2>1, RecordsTyped DEF Record, Stages, Busy, Records
  <2>3. PICK h : h = Failing(gate[s], i)
    OBVIOUS
  <2>4. h = With(gate[s], i, q, f)
    BY <1>1, <2>0, <2>1, <2>3 DEF With, Failing, Records, Gates
  <2>5. /\ h \in Gates /\ Len(h.records) = Len(gate[s].records) /\ h.records[i] = q
        /\ \A k \in 1..Len(gate[s].records) : k # i => h.records[k] = gate[s].records[k]
        /\ h.closed = gate[s].closed /\ h.fault = f
    BY <1>1, <2>2, <2>4, GateSet
  <2>6. PICK p : p = [q EXCEPT !.at = "sealed", !.receipt = TRUE]
    OBVIOUS
  <2>7. p \in Record /\ p = Sealed(s, i, FALSE)
    BY <1>1, <2>1, <2>6 DEF Record, Stages, Busy, Sealed
  <2>8. PICK n : n = [h EXCEPT !.records[i].at = "sealed", !.records[i].receipt = TRUE]
    OBVIOUS
  <2>9. n = With(h, i, p, f)
    BY <2>0, <2>5, <2>6, <2>8 DEF With, Gates
  <2>10. gate' = [gate EXCEPT ![s] = n]
    BY <1>3, <2>3, <2>8, Zenon DEF Seal
  <2>11. /\ n \in Gates /\ Len(n.records) = Len(h.records) /\ n.records[i] = p
         /\ \A k \in 1..Len(h.records) : k # i => n.records[k] = h.records[k]
         /\ n.closed = h.closed
    <3>1. i \in 1..Len(h.records) /\ h \in Gates /\ p \in Record
      BY <2>2, <2>5, <2>7
    <3> QED
      BY <2>9, <3>1, GateSet
  <2>12. Becomes(s, i, p)
    BY <2>5, <2>10, <2>11, Replaced DEF Records
  <2> QED
    BY <2>7, <2>12
<1> QED
  BY <1>2, <1>3

LEMMA SealFailsBecomes ==
  ASSUME SessionsTyped, NEW s \in AllSessions, NEW i \in DOMAIN Records(s), SealFails(s, i)
  PROVE  Becomes(s, i, [Records(s)[i] EXCEPT !.at = "over"])
<1> DEFINE q == [Records(s)[i] EXCEPT !.at = "over"]
           f == gate[s].fault
<1>1. Records(s)[i] \in Record /\ gate[s] \in Gates
  BY RecordsTyped
<1>2. q \in Record /\ f \in BOOLEAN
  BY <1>1 DEF Record, Stages, Busy, Gates
<1>3. gate' = [gate EXCEPT ![s] = With(gate[s], i, q, f)]
  BY <1>1 DEF With, SealFails, Records, Gates
<1>4. Becomes(s, i, q)
  <2> HIDE DEF q, f
  <2> QED
    BY <1>2, <1>3, Rewritten
<1> QED
  BY <1>4

LEMMA ReplyBecomes ==
  ASSUME SessionsTyped, NEW s \in AllSessions, NEW i \in DOMAIN Records(s), Reply(s, i)
  PROVE  /\ Becomes(s, i, [Records(s)[i] EXCEPT !.at = "over"])
         /\ \/ client' = client
            \/ client' = [client EXCEPT ![s] =
                            Hears(client[s], Records(s)[i].request, ~Records(s)[i].error)]
<1> DEFINE q == [Records(s)[i] EXCEPT !.at = "over"]
<1>1. Records(s)[i] \in Record /\ gate[s] \in Gates
  BY RecordsTyped
<1>2. PICK f \in BOOLEAN : gate' = [gate EXCEPT ![s] = With(gate[s], i, q, f)]
  <2>1. CASE gate' = [gate EXCEPT ![s].records[i].at = "over"]
    <3>1. gate' = [gate EXCEPT ![s] = With(gate[s], i, q, gate[s].fault)]
      BY <1>1, <2>1 DEF With, Records, Gates
    <3> QED
      BY <1>1, <3>1 DEF Gates
  <2>2. CASE gate' = [gate EXCEPT ![s].records[i].at = "over", ![s].fault = TRUE]
    <3>1. gate' = [gate EXCEPT ![s] = With(gate[s], i, q, TRUE)]
      BY <1>1, <2>2 DEF With, Records, Gates
    <3> QED
      BY <3>1
  <2> QED
    BY <2>1, <2>2 DEF Reply
<1>3. q \in Record
  BY <1>1 DEF Record, Stages, Busy
<1>4. Becomes(s, i, q)
  <2> HIDE DEF q
  <2> QED
    BY <1>2, <1>3, Rewritten
<1> QED
  BY <1>4 DEF Reply

\* A request comes in: record e is added to those of the session.
Grows(s, e) ==
    /\ gate' \in [AllSessions -> Gates]
    /\ \A t \in AllSessions : t # s => gate'[t] = gate[t]
    /\ Len(gate'[s].records) = Len(Records(s)) + 1
    /\ gate'[s].records[Len(Records(s)) + 1] = e
    /\ \A k \in 1..Len(Records(s)) : gate'[s].records[k] = Records(s)[k]
    /\ gate'[s].closed = gate[s].closed

LEMMA EnterGrows ==
  ASSUME SessionsTyped, NEW s \in AllSessions, NEW m \in client[s].wire, Enter(s, m)
  PROVE  \E e \in {NewRecord(m[1]), [NewRecord(m[1]) EXCEPT !.error = TRUE, !.at = "saved"]} :
            e \in Record /\ Grows(s, e)
<1> DEFINE i == Len(Records(s)) + 1
           new == NewRecord(m[1])
           bad == [new EXCEPT !.error = TRUE, !.at = "saved"]
<1>1. gate[s] \in Gates /\ Records(s) \in Seq(Record) /\ m[1] \in Nat /\ Len(Records(s)) \in Nat
  BY RecordsTyped DEF Clients
<1>2. new \in Record /\ bad \in Record
  BY <1>1 DEF NewRecord, Record, Stages, Busy
<1>3. PICK g : g = [gate[s] EXCEPT !.records = Append(Records(s), new)]
  OBVIOUS
<1>4. /\ g \in Gates /\ Len(g.records) = i /\ g.records[i] = new
      /\ \A k \in 1..Len(Records(s)) : g.records[k] = Records(s)[k]
      /\ g.closed = gate[s].closed
  <2> HIDE DEF new
  <2>1. /\ Append(Records(s), new) \in Seq(Record) /\ Len(Append(Records(s), new)) = i
        /\ Append(Records(s), new)[i] = new
        /\ \A k \in 1..Len(Records(s)) : Append(Records(s), new)[k] = Records(s)[k]
    <3> HIDE DEF Record
    <3> QED
      BY <1>1, <1>2
  <2>2. g.records = Append(Records(s), new) /\ g.closed = gate[s].closed /\ g \in Gates
    <3> HIDE DEF Record
    <3> QED
      BY <1>1, <1>3, <2>1 DEF Gates
  <2> QED
    BY <2>1, <2>2
<1>5. gate' = [gate EXCEPT ![s] = g] \/ gate' = [gate EXCEPT ![s] = Failing(g, i)]
  BY <1>3 DEF Enter, Records
<1>6. \A t \in AllSessions : t # s => gate'[t] = gate[t]
  BY <1>5 DEF SessionsTyped
<1>7. CASE gate' = [gate EXCEPT ![s] = g]
  <2>1. gate'[s] = g /\ gate' \in [AllSessions -> Gates]
    <3> HIDE DEF Gates
    <3> QED
      BY <1>4, <1>7 DEF SessionsTyped
  <2>2. Grows(s, new)
    <3> HIDE DEF new
    <3> QED
    BY <1>4, <1>6, <2>1 DEF Grows
  <2> QED
    BY <1>2, <2>2
<1>8. CASE gate' = [gate EXCEPT ![s] = Failing(g, i)]
  <2>1. PICK f \in BOOLEAN : f = TRUE
    OBVIOUS
  <2>2. PICK h : h = With(g, i, bad, f)
    OBVIOUS
  <2>3. h = Failing(g, i)
    BY <1>1, <1>2, <1>4, <2>1, <2>2, ZenonT(60) DEF With, Failing, Gates, Record
  <2>4. i \in 1..Len(g.records)
    BY <1>1, <1>4
  <2>5. /\ h \in Gates /\ Len(h.records) = Len(g.records) /\ h.records[i] = bad
        /\ \A k \in 1..Len(g.records) : k # i => h.records[k] = g.records[k]
        /\ h.closed = g.closed
    <3> HIDE DEF bad, i
    <3> QED
      BY <1>2, <1>4, <2>2, <2>4, GateSet
  <2>6. gate'[s] = h /\ gate' \in [AllSessions -> Gates]
    <3> HIDE DEF Gates
    <3> QED
      BY <1>8, <2>3, <2>5 DEF SessionsTyped
  <2>7. Grows(s, bad)
    <3> HIDE DEF bad
    <3> QED
    BY <1>1, <1>4, <1>6, <2>5, <2>6 DEF Grows
  <2> QED
    BY <1>2, <2>7
<1> QED
  BY <1>5, <1>7, <1>8

-----------------------------------------------------------------------------
\* What a record says of the way of its request, c: the session is captured.
Course(r, c) ==
    /\ r.at = "reading" => ~r.accepted /\ ~r.receipt
    /\ r.at = "admitted" => r.accepted /\ ~r.forwarded
    /\ r.at = "asked" => r.forwarded
    /\ r.at \in {"reading", "admitted", "asked"} => ~r.error /\ ~r.completed
    /\ r.at \in {"saved", "sealed"} /\ ~r.error => r.forwarded /\ r.completed = c
    /\ r.at = "sealed" /\ ~r.error => r.receipt
    /\ r.completed => r.forwarded
    /\ r.forwarded => r.accepted
    /\ r.accepted /\ ~r.forwarded => r.at \in {"admitted", "lost"}

\* How record r of a session goes on as q; a: it may be admitted now.
Advances(r, q, c, a) ==
    /\ q \in Record /\ q.request = r.request
    /\ Course(q, c)
    /\ r.at \in Busy \cup {"sealed"}
    /\ q.at \in Busy => r.at \in Busy
    /\ r.completed => q.completed
    /\ q.completed /\ ~r.completed => r.forwarded /\ r.at = "asked"
    /\ r.accepted => q.accepted
    /\ q.accepted /\ ~r.accepted => a /\ r.at = "reading"
    /\ r.forwarded => q.forwarded
    /\ q.forwarded /\ ~r.forwarded => r.at = "admitted"
    /\ q.at \in {"admitted", "asked"} => a \/ r.at = "admitted"

\* The steps of a thread on its record before the answer.
Works(s, i) ==
    Admit(s, i) \/ Refuse(s, i) \/ Forward(s, i) \/ Answer(s, i) \/ Break(s, i) \/ Seal(s, i) \/ SealFails(s, i)

LEMMA WorkAdvances ==
  ASSUME SessionsTyped, NEW s \in AllSessions, NEW i \in DOMAIN Records(s),
         Course(Records(s)[i], Capturing(s)), Works(s, i)
  PROVE  \E q : Becomes(s, i, q) /\ Advances(Records(s)[i], q, Capturing(s), Admissible(s, i))
<1> DEFINE r == Records(s)[i]
<1>1. r \in Record /\ Capturing(s) \in BOOLEAN
  BY RecordsTyped DEF Capturing
<1>2. CASE Admit(s, i)
  <2> DEFINE q == [r EXCEPT !.at = "admitted", !.accepted = TRUE]
  <2>1. r.at = "reading" /\ Admissible(s, i)
    BY <1>2 DEF Admit, At
  <2>2. Advances(r, q, Capturing(s), Admissible(s, i))
    BY <1>1, <2>1 DEF Advances, Course, Record, Stages, Busy
  <2> QED
    BY <1>2, <2>2, AdmitBecomes
<1>3. CASE Refuse(s, i)
  <2> DEFINE q == [r EXCEPT !.at = "saved", !.error = TRUE]
  <2>1. r.at = "reading"
    BY <1>3 DEF Refuse, At
  <2>2. Advances(r, q, Capturing(s), Admissible(s, i))
    BY <1>1, <2>1 DEF Advances, Course, Record, Stages, Busy
  <2> QED
    BY <1>3, <2>2, RefuseBecomes
<1>4. CASE Forward(s, i)
  <2> DEFINE q == [r EXCEPT !.at = "asked", !.forwarded = TRUE]
  <2>1. r.at = "admitted"
    BY <1>4 DEF Forward, At
  <2>2. Advances(r, q, Capturing(s), Admissible(s, i))
    BY <1>1, <2>1 DEF Advances, Course, Record, Stages, Busy
  <2> QED
    BY <1>4, <2>2, ForwardBecomes
<1>5. CASE Answer(s, i)
  <2> DEFINE q == [r EXCEPT !.at = "saved", !.completed = Capturing(s)]
  <2>1. r.at = "asked"
    BY <1>5 DEF Answer, At
  <2>2. Advances(r, q, Capturing(s), Admissible(s, i))
    BY <1>1, <2>1 DEF Advances, Course, Record, Stages, Busy
  <2> QED
    BY <1>5, <2>2, AnswerBecomes
<1>6. CASE Break(s, i)
  <2> DEFINE q == [r EXCEPT !.at = "saved", !.error = TRUE]
  <2>1. r.at = "asked"
    BY <1>6 DEF Break, At
  <2>2. Advances(r, q, Capturing(s), Admissible(s, i))
    BY <1>1, <2>1 DEF Advances, Course, Record, Stages, Busy
  <2> QED
    BY <1>6, <2>2, BreakBecomes
<1>7. CASE Seal(s, i)
  <2>1. PICK whole \in BOOLEAN : Becomes(s, i, Sealed(s, i, whole))
    BY <1>7, SealBecomes
  <2>2. r.at = "saved"
    BY <1>7 DEF Seal, At
  <2>3. Advances(r, Sealed(s, i, whole), Capturing(s), Admissible(s, i))
    BY <1>1, <2>2 DEF Advances, Course, Record, Stages, Busy, Sealed
  <2> QED
    BY <2>1, <2>3
<1>8. CASE SealFails(s, i)
  <2> DEFINE q == [r EXCEPT !.at = "over"]
  <2>1. r.at = "saved"
    BY <1>8 DEF SealFails, At
  <2>2. Advances(r, q, Capturing(s), Admissible(s, i))
    BY <1>1, <2>1 DEF Advances, Course, Record, Stages, Busy
  <2> QED
    BY <1>8, <2>2, SealFailsBecomes
<1> QED
  BY <1>2, <1>3, <1>4, <1>5, <1>6, <1>7, <1>8 DEF Works

LEMMA ReplyAdvances ==
  ASSUME SessionsTyped, NEW s \in AllSessions, NEW i \in DOMAIN Records(s),
         Course(Records(s)[i], Capturing(s)), Reply(s, i)
  PROVE  LET q == [Records(s)[i] EXCEPT !.at = "over"] IN
         Becomes(s, i, q) /\ Advances(Records(s)[i], q, Capturing(s), Admissible(s, i))
<1> DEFINE r == Records(s)[i]
           q == [r EXCEPT !.at = "over"]
<1>1. r \in Record /\ Capturing(s) \in BOOLEAN
  BY RecordsTyped DEF Capturing
<1>2. r.at = "sealed"
  BY DEF Reply, At
<1>3. Advances(r, q, Capturing(s), Admissible(s, i))
  BY <1>1, <1>2 DEF Advances, Course, Record, Stages, Busy
<1> QED
  BY <1>3, ReplyBecomes

-----------------------------------------------------------------------------
\* One thread holds the lock of the gateway.
OneHolds(R) == \A i, k \in 1..Len(R) : R[i].at \in Busy /\ R[k].at \in Busy => i = k
OnTheirWay(R, c) == \A i \in 1..Len(R) : Course(R[i], c)

\* The completed requests are the first ones, and no request is admitted twice.
Finished(R) == {i \in 1..Len(R) : R[i].completed}
InTurn(R) ==
    /\ \E m \in 0..Len(R) : Finished(R) = 1..m
    /\ \A i \in 1..Len(R) : R[i].accepted =>
          \A k \in 1..(i - 1) : R[k].completed /\ R[k].request # R[i].request

\* Only what the client asked comes in.
Asked(c, R) ==
    /\ c.heard <= c.asked
    /\ \A m \in c.wire : m[1] \in 1..c.asked
    /\ \A i \in 1..Len(R) : R[i].request \in 1..c.asked

\* What the client heard was forwarded, answered and sealed.
Answered(R, n, c) ==
    \E i \in 1..Len(R) : /\ R[i].request = n /\ R[i].at = "over" /\ R[i].completed = c
                         /\ R[i].forwarded /\ R[i].receipt /\ ~R[i].error
Heard(c, R, captured) == \A n \in 1..c.heard : Answered(R, n, captured)

Whole(c, R, captured) ==
    /\ OneHolds(R) /\ OnTheirWay(R, captured) /\ (captured => InTurn(R))
    /\ Asked(c, R) /\ Heard(c, R, captured)

Put(R, Q, i, q) ==
    /\ Len(Q) = Len(R) /\ Q[i] = q
    /\ \A k \in 1..Len(R) : k # i => Q[k] = R[k]

\* Request i comes after all that was completed, and is none of them.
ComesNext(R, i) ==
    \A m \in 0..Len(R) : Finished(R) = 1..m => i = m + 1 /\ \A k \in 1..m : R[k].request # R[i].request

LEMMA PutKeepsOrder ==
  ASSUME NEW R \in Seq(Record), NEW Q \in Seq(Record), NEW i \in 1..Len(R), NEW q,
         Put(R, Q, i, q), NEW a \in BOOLEAN, NEW captured \in BOOLEAN,
         Advances(R[i], q, captured, a), captured /\ a => ComesNext(R, i),
         OnTheirWay(R, captured), captured => InTurn(R)
  PROVE  captured => InTurn(Q)
<1> SUFFICES ASSUME captured PROVE InTurn(Q)
  OBVIOUS
<1>1. Len(R) \in Nat /\ Len(Q) = Len(R) /\ Q[i] = q /\ q \in Record /\ R[i] \in Record
  BY DEF Put, Advances
<1>2. \A k \in 1..Len(R) : k # i => Q[k] = R[k]
  BY DEF Put
<1>3. PICK m \in 0..Len(R) : Finished(R) = 1..m
  BY DEF InTurn
<1>4. \A k \in 1..Len(R) : R[k].completed <=> k <= m
  BY <1>1, <1>3 DEF Finished
<1>5. \A k \in 1..Len(R) : R[k].completed => Q[k].completed
  BY <1>1, <1>2 DEF Advances
<1>6. \A k \in 1..Len(R) : Q[k].request = R[k].request
  BY <1>1, <1>2 DEF Advances
<1>7. ASSUME NEW j \in 1..Len(Q), Q[j].accepted, NEW k \in 1..(j - 1)
      PROVE  Q[k].completed /\ Q[k].request # Q[j].request
  <2>1. CASE R[j].accepted
    <3>1. R[k].completed /\ R[k].request # R[j].request
      BY <1>1, <1>7, <2>1 DEF InTurn
    <3> QED
      BY <1>1, <1>5, <1>6, <3>1
  <2>2. CASE ~R[j].accepted
    <3>1. j = i /\ a
      BY <1>1, <1>2, <1>7, <2>2 DEF Advances
    <3>2. i = m + 1 /\ \A l \in 1..m : R[l].request # R[i].request
      BY <1>3, <3>1 DEF ComesNext
    <3>3. k \in 1..m
      BY <1>1, <3>1, <3>2
    <3> QED
      BY <1>1, <1>4, <1>5, <1>6, <3>1, <3>2, <3>3
  <2> QED
    BY <2>1, <2>2
<1>8. \E n \in 0..Len(Q) : Finished(Q) = 1..n
  <2>1. CASE q.completed => R[i].completed
    <3>1. \A k \in 1..Len(R) : Q[k].completed => R[k].completed
      BY <1>1, <1>2, <2>1
    <3>2. Finished(Q) = 1..m
      BY <1>1, <1>4, <1>5, <3>1 DEF Finished
    <3> QED
      BY <1>1, <3>2
  <2>2. CASE q.completed /\ ~R[i].completed
    <3>1. R[i].forwarded
      BY <2>2 DEF Advances
    <3>2. R[i].accepted
      BY <3>1 DEF OnTheirWay, Course
    <3>3. \A k \in 1..(i - 1) : R[k].completed
      BY <3>2 DEF InTurn
    <3>4. i = m + 1
      <4>1. i > m
        BY <1>1, <1>4, <2>2
      <4>2. i - 1 <= m
        <5>1. CASE i = 1
          BY <1>1, <5>1
        <5>2. CASE i # 1
          <6>1. i - 1 \in 1..(i - 1) /\ i - 1 \in 1..Len(R)
            BY <1>1, <5>2
          <6> QED
            BY <1>1, <1>4, <3>3, <6>1
        <5> QED
          BY <5>1, <5>2
      <4> QED
        BY <1>1, <4>1, <4>2
    <3>5. \A k \in 1..Len(R) : Q[k].completed <=> k <= m + 1
      BY <1>1, <1>2, <1>4, <2>2, <3>4
    <3>6. Finished(Q) = 1..(m + 1)
      BY <1>1, <3>4, <3>5 DEF Finished
    <3> QED
      BY <1>1, <3>4, <3>6
  <2> QED
    BY <2>1, <2>2
<1> QED
  BY <1>7, <1>8 DEF InTurn

LEMMA PutKeeps ==
  ASSUME NEW R \in Seq(Record), NEW Q \in Seq(Record), NEW i \in 1..Len(R), NEW q,
         Put(R, Q, i, q), NEW a \in BOOLEAN, NEW captured \in BOOLEAN,
         Advances(R[i], q, captured, a), captured /\ a => ComesNext(R, i),
         NEW c, Whole(c, R, captured)
  PROVE  Whole(c, Q, captured)
<1>1. Len(R) \in Nat /\ Len(Q) = Len(R) /\ Q[i] = q /\ q \in Record /\ R[i] \in Record
  BY DEF Put, Advances
<1>2. \A k \in 1..Len(R) : k # i => Q[k] = R[k]
  BY DEF Put
<1>3. OneHolds(Q)
  BY <1>1, <1>2 DEF Whole, OneHolds, Advances
<1>4. OnTheirWay(Q, captured)
  BY <1>1, <1>2 DEF Whole, OnTheirWay, Advances
<1>5. captured => InTurn(Q)
  BY PutKeepsOrder DEF Whole
<1>6. Asked(c, Q)
  BY <1>1, <1>2 DEF Whole, Asked, Advances
<1>7. Heard(c, Q, captured)
  <2> SUFFICES ASSUME NEW n \in 1..c.heard PROVE Answered(Q, n, captured)
    BY DEF Heard
  <2>1. PICK k \in 1..Len(R) : /\ R[k].request = n /\ R[k].at = "over" /\ R[k].completed = captured
                               /\ R[k].forwarded /\ R[k].receipt /\ ~R[k].error
    BY DEF Whole, Heard, Answered
  <2>2. k # i
    BY <2>1 DEF Advances, Busy
  <2> QED
    BY <1>1, <1>2, <2>1, <2>2 DEF Answered
<1> QED
  BY <1>3, <1>4, <1>5, <1>6, <1>7 DEF Whole

-----------------------------------------------------------------------------
\* Where the controller is, and that no session of later was begun.
Fresh(c, g) == c = NoClient /\ g = NewGate
Between == {"ready", "generated", "captured", "contracted"}
Where ==
    /\ accepted = 1..(current - 1)
    /\ \A s \in AllSessions :
          s > current \/ (s = current /\ phase \in Between) => Fresh(client[s], gate[s])
    /\ phase \in {"watching", "judging", "weighing"} => current \in AllSessions
    /\ phase \in {"judging", "weighing"} =>
          gate[current].closed /\ client[current].state # "running"

\* Nothing of an accepted session can reach the model any more.
Forwarded(R) == {i \in 1..Len(R) : R[i].forwarded}
Settled(c, g) ==
    /\ g.closed /\ c.state # "running" /\ c.heard = c.asked
    /\ \A i \in 1..Len(g.records) : g.records[i].at \notin {"admitted", "asked"}
    /\ Cardinality(Forwarded(g.records)) = c.asked
Past == \A s \in accepted : Settled(client[s], gate[s])

Sessions == \A s \in AllSessions : Whole(client[s], gate[s].records, Capturing(s))

SessionsInv == SessionsTyped /\ Sessions /\ Where /\ Past

\* A step of one session that was begun.
LEMMA OneSession ==
  ASSUME SessionsInv, NEW s \in AllSessions,
         Fresh(client[s], gate[s]) => s = current /\ phase = "watching",
         client' \in [AllSessions -> Clients], gate' \in [AllSessions -> Gates],
         \A t \in AllSessions : t # s => client'[t] = client[t] /\ gate'[t] = gate[t],
         UNCHANGED <<phase, current, accepted>>,
         Whole(client'[s], gate'[s].records, Capturing(s)),
         gate'[s].closed = gate[s].closed,
         client[s].state # "running" => client'[s].state # "running",
         Settled(client[s], gate[s]) => Settled(client'[s], gate'[s])
  PROVE  SessionsInv'
<1>1. SessionsTyped'
  BY DEF SessionsInv, SessionsTyped
<1>2. Sessions'
  <2> SUFFICES ASSUME NEW t \in AllSessions PROVE Whole(client'[t], gate'[t].records, Capturing(t))
    BY DEF Sessions, AllSessions, Capturing, Last, Implementer
  <2> QED
    BY DEF SessionsInv, Sessions
<1>3. Where'
  BY DEF SessionsInv, Where, Fresh, Between, AllSessions, Last, NoClient, NewGate
<1>4. Past'
  <2>1. accepted \subseteq AllSessions
    BY TriageAssumption DEF SessionsInv, Where, SessionsTyped, AllSessions, Last
  <2>2. accepted' = accepted
    OBVIOUS
  <2> SUFFICES ASSUME NEW t \in accepted PROVE Settled(client'[t], gate'[t])
    BY <2>2, Zenon DEF Past
  <2>3. Settled(client[t], gate[t])
    BY DEF SessionsInv, Past
  <2> QED
    BY <2>1, <2>3
<1> QED
  BY <1>1, <1>2, <1>3, <1>4 DEF SessionsInv

LEMMA NotFresh ==
  ASSUME SessionsInv, NEW s \in AllSessions
  PROVE  Fresh(client[s], gate[s]) =>
            client[s].state = "none" /\ client[s].wire = {} /\ client[s].heard = client[s].asked
            /\ Len(Records(s)) = 0 /\ DOMAIN Records(s) = {}
  BY DEF Fresh, NoClient, NewGate, Records

\* What is admitted comes after all that was completed, and was never asked before.
LEMMA AdmissibleIsNext ==
  ASSUME SessionsTyped, NEW s \in AllSessions, NEW i \in DOMAIN Records(s)
  PROVE  Capturing(s) /\ Admissible(s, i) => ComesNext(Records(s), i)
<1> SUFFICES ASSUME Sequenced(s, i), NEW m \in 0..Len(Records(s)), Finished(Records(s)) = 1..m
             PROVE  i = m + 1 /\ \A k \in 1..m : Records(s)[k].request # Records(s)[i].request
  BY DEF Admissible, ComesNext
<1>1. Completed(s) = 1..m
  BY RecordsTyped DEF Completed, Finished
<1>2. m \in Nat /\ Cardinality(1..m) = m
  <2>1. m \in Nat
    BY RecordsTyped
  <2> QED
    BY <2>1, FS_Interval
<1> QED
  BY <1>1, <1>2 DEF Sequenced

\* A step on one record, and whatever the client makes of it.
LEMMA AdvanceKeeps ==
  ASSUME SessionsInv, NEW s \in AllSessions, NEW i \in DOMAIN Records(s), NEW q,
         Becomes(s, i, q), Advances(Records(s)[i], q, Capturing(s), Admissible(s, i)),
         NEW c, Whole(c, Records(s), Capturing(s)),
         c.state = client[s].state, c.heard = client[s].heard, c.asked = client[s].asked
  PROVE  /\ Whole(c, gate'[s].records, Capturing(s))
         /\ Settled(client[s], gate[s]) => Settled(c, gate'[s])
<1> DEFINE R == Records(s)
           Q == gate'[s].records
<1>1. /\ R \in Seq(Record) /\ DOMAIN R = 1..Len(R) /\ Q \in Seq(Record) /\ Len(R) \in Nat
      /\ Put(R, Q, i, q) /\ gate'[s].closed = gate[s].closed /\ i \in 1..Len(R)
  BY RecordsTyped DEF SessionsInv, Becomes, Put, Gates
<1>4. Capturing(s) \in BOOLEAN
  BY DEF Capturing
<1>5. Whole(c, Q, Capturing(s))
  <2>1. Capturing(s) /\ Admissible(s, i) => ComesNext(R, i)
    BY AdmissibleIsNext DEF SessionsInv
  <2>2. (Admissible(s, i)) \in BOOLEAN
    BY DEF Admissible
  <2> HIDE DEF R, Q
  <2> QED
    BY <1>1, <1>4, <2>1, <2>2, PutKeeps DEF R
<1>6. ASSUME Settled(client[s], gate[s]) PROVE Settled(c, gate'[s])
  <2>1. /\ gate[s].closed
        /\ \A k \in 1..Len(R) : R[k].at \notin {"admitted", "asked"}
        /\ Cardinality(Forwarded(R)) = c.asked
    BY <1>6 DEF Settled, Records
  <2>2. ~Admissible(s, i)
    BY <2>1 DEF Admissible, Open
  <2>3. q.at \notin {"admitted", "asked"} /\ (q.forwarded <=> R[i].forwarded)
    BY <1>1, <2>1, <2>2 DEF Advances
  <2>4. \A k \in 1..Len(R) : Q[k].at \notin {"admitted", "asked"} /\ (Q[k].forwarded <=> R[k].forwarded)
    BY <1>1, <2>1, <2>3 DEF Put
  <2>5. Forwarded(Q) = Forwarded(R)
    BY <1>1, <2>4 DEF Forwarded, Put
  <2> QED
    BY <1>1, <1>6, <2>1, <2>4, <2>5 DEF Settled, Put
<1> QED
  BY <1>5, <1>6

LEMMA WorkKeeps ==
  ASSUME SessionsInv, NEW s \in AllSessions, NEW i \in DOMAIN Records(s), Works(s, i)
  PROVE  SessionsInv'
<1>1. Whole(client[s], Records(s), Capturing(s)) /\ SessionsTyped
  BY DEF SessionsInv, Sessions, Records
<1>2. Course(Records(s)[i], Capturing(s))
  BY <1>1, RecordsTyped DEF Whole, OnTheirWay
<1>3. PICK q : Becomes(s, i, q) /\ Advances(Records(s)[i], q, Capturing(s), Admissible(s, i))
  BY <1>1, <1>2, WorkAdvances
<1>4. UNCHANGED <<client, phase, current, accepted>>
  BY DEF Works, Admit, Refuse, Forward, Answer, Break, Seal, SealFails, controller
<1>5. /\ Whole(client[s], gate'[s].records, Capturing(s))
      /\ Settled(client[s], gate[s]) => Settled(client[s], gate'[s])
  BY <1>1, <1>3, AdvanceKeeps
<1>6. ~Fresh(client[s], gate[s])
  BY NotFresh
<1>7. /\ gate' \in [AllSessions -> Gates] /\ gate'[s].closed = gate[s].closed
      /\ \A t \in AllSessions : t # s => gate'[t] = gate[t]
  BY <1>3 DEF Becomes
<1> QED
  BY <1>1, <1>4, <1>5, <1>6, <1>7, OneSession DEF SessionsTyped

LEMMA ReplyKeeps ==
  ASSUME SessionsInv, NEW s \in AllSessions, NEW i \in DOMAIN Records(s), Reply(s, i)
  PROVE  SessionsInv'
<1> DEFINE q == [Records(s)[i] EXCEPT !.at = "over"]
           c == client[s]
           Q == gate'[s].records
<1>1. Whole(c, Records(s), Capturing(s)) /\ SessionsTyped
  BY DEF SessionsInv, Sessions, Records
<1>2. Course(Records(s)[i], Capturing(s)) /\ Records(s)[i] \in Record /\ c \in Clients
  BY <1>1, RecordsTyped DEF Whole, OnTheirWay
<1>3. /\ Becomes(s, i, q)
      /\ Advances(Records(s)[i], q, Capturing(s), Admissible(s, i))
  BY <1>1, <1>2, ReplyAdvances
<1>4. /\ Whole(c, Q, Capturing(s))
      /\ Settled(c, gate[s]) => Settled(c, gate'[s])
  <2> HIDE DEF q, Q
  <2> QED
    BY <1>1, <1>3, AdvanceKeeps DEF Q
<1>5. UNCHANGED <<phase, current, accepted>>
  BY DEF Reply, controller
<1>6. ~Fresh(c, gate[s])
  BY NotFresh
<1>7. /\ gate' \in [AllSessions -> Gates] /\ gate'[s].closed = gate[s].closed
      /\ \A t \in AllSessions : t # s => gate'[t] = gate[t]
      /\ Q[i] = q /\ i \in 1..Len(Q)
  BY <1>1, <1>3, RecordsTyped DEF Becomes
<1>8. CASE client' = client
  BY <1>1, <1>4, <1>5, <1>6, <1>7, <1>8, OneSession DEF SessionsTyped
<1>9. CASE client' = [client EXCEPT ![s] = Hears(c, Records(s)[i].request, ~Records(s)[i].error)]
  <2>1. PICK d : d = Hears(c, Records(s)[i].request, ~Records(s)[i].error)
    OBVIOUS
  <2>2. client'[s] = d /\ (\A t \in AllSessions : t # s => client'[t] = client[t])
    BY <1>1, <1>9, <2>1 DEF SessionsTyped
  <2>3. \/ d = c
        \/ /\ d = [c EXCEPT !.heard = Records(s)[i].request] /\ ~Records(s)[i].error
           /\ Records(s)[i].request = c.heard + 1 /\ c.state = "running"
        \/ d = [c EXCEPT !.failed = TRUE] /\ c.state = "running"
    BY <1>2, <2>1 DEF Hears, Record
  <2>4. d \in Clients /\ d.state = c.state
    BY <1>2, <2>3 DEF Clients, Record
  <2>5. client' \in [AllSessions -> Clients]
    <3> HIDE DEF Clients
    <3> QED
      BY <1>1, <2>2, <2>4, <1>9 DEF SessionsTyped
  <2>6. Settled(c, gate[s]) => Settled(d, gate'[s])
    BY <1>4, <2>3 DEF Settled
  <2>7. Whole(d, Q, Capturing(s))
    <3>1. CASE d = c
      BY <1>4, <3>1
    <3>2. CASE d = [c EXCEPT !.failed = TRUE]
      <4>1. d.asked = c.asked /\ d.heard = c.heard /\ d.wire = c.wire
        BY <1>2, <3>2 DEF Clients
      <4> QED
        BY <1>4, <4>1 DEF Whole, Asked, Heard
    <3>3. CASE /\ d = [c EXCEPT !.heard = Records(s)[i].request] /\ ~Records(s)[i].error
               /\ Records(s)[i].request = c.heard + 1
      <4>1. d.asked = c.asked /\ d.heard = c.heard + 1 /\ d.wire = c.wire /\ c.heard \in Nat
            /\ d.heard = Records(s)[i].request
        BY <1>2, <3>3 DEF Clients
      <4>2. Records(s)[i].at = "sealed"
        BY DEF Reply, At
      <4>3. /\ q.request = d.heard /\ q.at = "over" /\ q.completed = Capturing(s)
            /\ q.forwarded /\ q.receipt /\ ~q.error
        BY <1>2, <3>3, <4>1, <4>2 DEF Course, Record
      <4>4. Answered(Q, d.heard, Capturing(s))
        <5> HIDE DEF q, Q
        <5> QED
          BY <1>7, <4>3 DEF Answered
      <4>5. Heard(d, Q, Capturing(s))
        <5> SUFFICES ASSUME NEW n \in 1..d.heard PROVE Answered(Q, n, Capturing(s))
          BY DEF Heard
        <5>1. CASE n = d.heard
          BY <4>4, <5>1
        <5>2. CASE n # d.heard
          <6>1. n \in 1..c.heard
            BY <4>1, <5>2
          <6> QED
            BY <1>4, <6>1 DEF Whole, Heard
        <5> QED
          BY <5>1, <5>2
      <4>6. Asked(d, Q)
        <5>1. Q[i].request \in 1..c.asked
          BY <1>4, <1>7 DEF Whole, Asked
        <5>2. d.heard <= d.asked
          <6> HIDE DEF q, Q
          <6> QED
            BY <1>7, <4>1, <4>3, <5>1
        <5> QED
          BY <1>4, <4>1, <5>2 DEF Whole, Asked
      <4> QED
        BY <1>4, <4>5, <4>6 DEF Whole
    <3> QED
      BY <2>3, <3>1, <3>2, <3>3
  <2> QED
    BY <1>5, <1>6, <1>7, <2>2, <2>4, <2>5, <2>6, <2>7, OneSession
<1> QED
  BY <1>1, <1>2, <1>8, <1>9, ReplyBecomes

LEMMA EnterKeeps ==
  ASSUME SessionsInv, NEW s \in AllSessions, NEW m \in client[s].wire, Enter(s, m)
  PROVE  SessionsInv'
<1> DEFINE c == client[s]
           R == Records(s)
           Q == gate'[s].records
           d == [c EXCEPT !.wire = @ \ {m}]
<1>1. Whole(c, R, Capturing(s)) /\ SessionsTyped /\ Capturing(s) \in BOOLEAN
  BY DEF SessionsInv, Sessions, Records, Capturing
<1>2. c \in Clients /\ R \in Seq(Record) /\ Len(R) \in Nat /\ DOMAIN R = 1..Len(R)
  BY <1>1, RecordsTyped
<1>3. PICK e \in {NewRecord(m[1]), [NewRecord(m[1]) EXCEPT !.error = TRUE, !.at = "saved"]} :
         e \in Record /\ Grows(s, e)
  BY <1>1, EnterGrows
<1>4. /\ e.request = m[1] /\ ~e.accepted /\ ~e.forwarded /\ ~e.completed
      /\ Course(e, Capturing(s)) /\ e.at \in {"reading", "saved"}
  <2>1. CASE e = NewRecord(m[1])
    BY <2>1 DEF NewRecord, Course
  <2>2. CASE e = [NewRecord(m[1]) EXCEPT !.error = TRUE, !.at = "saved"]
    <3>1. /\ e.request = m[1] /\ e.accepted = FALSE /\ e.forwarded = FALSE /\ e.completed = FALSE
          /\ e.error = TRUE /\ e.at = "saved"
      BY <2>2 DEF NewRecord
    <3> QED
      BY <3>1 DEF Course
  <2> QED
    BY <2>1, <2>2
<1>5. /\ Len(Q) = Len(R) + 1 /\ Q[Len(R) + 1] = e /\ \A k \in 1..Len(R) : Q[k] = R[k]
      /\ gate'[s].closed = gate[s].closed
  BY <1>3 DEF Grows
<1>6. \A k \in 1..Len(Q) : k \in 1..Len(R) \/ k = Len(R) + 1
  BY <1>2, <1>5
<1>7. d \in Clients /\ d.asked = c.asked /\ d.heard = c.heard /\ d.state = c.state
      /\ d.wire = c.wire \ {m} /\ m[1] \in 1..c.asked
  BY <1>1, <1>2 DEF Clients, Whole, Asked
<1>8. client' = [client EXCEPT ![s] = d]
  BY DEF Enter
<1>9. \A k \in 1..Len(R) : R[k].at \notin Busy
  BY <1>2 DEF Enter, LockFree
<1>10. Whole(d, Q, Capturing(s))
  <2> HIDE DEF Q, R, d
  <2>1. OneHolds(Q)
    BY <1>2, <1>5, <1>6, <1>9 DEF OneHolds
  <2>2. OnTheirWay(Q, Capturing(s))
    BY <1>1, <1>4, <1>5, <1>6 DEF OnTheirWay, Whole
  <2>3. ASSUME Capturing(s) PROVE InTurn(Q)
    <3>1. InTurn(R)
      BY <1>1, <2>3 DEF Whole
    <3>2. Finished(Q) = Finished(R)
      BY <1>2, <1>4, <1>5, <1>6 DEF Finished
    <3>3. \E n \in 0..Len(Q) : Finished(Q) = 1..n
      BY <1>2, <1>5, <3>1, <3>2 DEF InTurn
    <3>4. ASSUME NEW j \in 1..Len(Q), Q[j].accepted, NEW k \in 1..(j - 1)
          PROVE  Q[k].completed /\ Q[k].request # Q[j].request
      <4>1. j \in 1..Len(R)
        BY <1>4, <1>5, <1>6, <3>4
      <4>2. k \in 1..Len(R)
        BY <1>2, <4>1
      <4> QED
        BY <1>5, <3>1, <3>4, <4>1, <4>2 DEF InTurn
    <3> QED
      BY <3>3, <3>4 DEF InTurn
  <2>4. Asked(d, Q)
    BY <1>1, <1>4, <1>5, <1>6, <1>7 DEF Whole, Asked
  <2>5. Heard(d, Q, Capturing(s))
    BY <1>1, <1>2, <1>5, <1>7 DEF Whole, Heard, Answered
  <2> QED
    BY <2>1, <2>2, <2>3, <2>4, <2>5 DEF Whole
<1>11. ASSUME Settled(c, gate[s]) PROVE Settled(d, gate'[s])
  <2>1. /\ gate[s].closed /\ c.state # "running" /\ c.heard = c.asked
        /\ \A k \in 1..Len(R) : R[k].at \notin {"admitted", "asked"}
        /\ Cardinality(Forwarded(R)) = c.asked
    BY <1>11 DEF Settled, Records
  <2> HIDE DEF Q, R, d
  <2>2. Forwarded(Q) = Forwarded(R)
    BY <1>2, <1>4, <1>5, <1>6 DEF Forwarded
  <2>3. \A k \in 1..Len(Q) : Q[k].at \notin {"admitted", "asked"}
    BY <1>4, <1>5, <1>6, <2>1
  <2> QED
    BY <1>5, <1>7, <2>1, <2>2, <2>3 DEF Settled, Q
<1>12. UNCHANGED <<phase, current, accepted>>
  BY DEF Enter, controller
<1>13. ~Fresh(c, gate[s])
  BY NotFresh
<1>14. /\ client' \in [AllSessions -> Clients] /\ client'[s] = d
       /\ \A t \in AllSessions : t # s => client'[t] = client[t]
  <2> HIDE DEF Clients, d
  <2> QED
    BY <1>1, <1>7, <1>8 DEF SessionsTyped
<1>15. gate' \in [AllSessions -> Gates] /\ \A t \in AllSessions : t # s => gate'[t] = gate[t]
  BY <1>3 DEF Grows
<1> QED
  <2> HIDE DEF d
  <2> QED
    BY <1>5, <1>7, <1>10, <1>11, <1>12, <1>13, <1>14, <1>15, OneSession

\* A step of the client, or a failure of the gateway that no record shows.
LEMMA ClientKeeps ==
  ASSUME SessionsInv, NEW s \in AllSessions,
         Fresh(client[s], gate[s]) => s = current /\ phase = "watching",
         NEW d \in Clients, client' = [client EXCEPT ![s] = d],
         gate' \in {gate, [gate EXCEPT ![s].fault = TRUE]},
         d.heard = client[s].heard, client[s].asked <= d.asked,
         \A m \in d.wire : m \in client[s].wire \/ m[1] \in 1..d.asked,
         client[s].state # "running" => d.state # "running",
         client[s].state # "running" /\ client[s].heard = client[s].asked => d.asked = client[s].asked,
         UNCHANGED <<phase, current, accepted>>
  PROVE  SessionsInv'
<1> DEFINE c == client[s]
           R == gate[s].records
<1>1. Whole(c, R, Capturing(s)) /\ SessionsTyped
  BY DEF SessionsInv, Sessions
<1>2. c \in Clients /\ gate[s] \in Gates
  BY <1>1 DEF SessionsTyped
<1>3. /\ gate' \in [AllSessions -> Gates] /\ gate'[s].records = R /\ gate'[s].closed = gate[s].closed
      /\ \A t \in AllSessions : t # s => gate'[t] = gate[t]
  <2>1. CASE gate' = gate
    BY <1>1, <2>1 DEF SessionsTyped
  <2>2. CASE gate' = [gate EXCEPT ![s].fault = TRUE]
    <3>1. PICK h : h = [gate[s] EXCEPT !.fault = TRUE]
      OBVIOUS
    <3>2. h \in Gates /\ h.records = R /\ h.closed = gate[s].closed
      <4> HIDE DEF Record
      <4> QED
        BY <1>2, <3>1 DEF Gates
    <3>3. gate' = [gate EXCEPT ![s] = h]
      BY <2>2, <3>1
    <3> HIDE DEF Gates, R
    <3> QED
      BY <1>1, <3>2, <3>3 DEF SessionsTyped
  <2> QED
    BY <2>1, <2>2
<1>4. /\ client' \in [AllSessions -> Clients] /\ client'[s] = d
      /\ \A t \in AllSessions : t # s => client'[t] = client[t]
  BY <1>1 DEF SessionsTyped
<1>5. Whole(d, R, Capturing(s))
  <2>1. Asked(d, R)
    <3>1. c.asked \in Nat /\ d.asked \in Nat /\ c.heard \in Nat
      BY <1>2 DEF Clients
    <3> QED
      BY <1>1, <3>1 DEF Whole, Asked
  <2> QED
    BY <1>1, <2>1 DEF Whole, Heard
<1>6. Settled(c, gate[s]) => Settled(d, gate'[s])
  BY <1>3 DEF Settled
<1> QED
  BY <1>3, <1>4, <1>5, <1>6, OneSession

LEMMA CollideKeeps ==
  ASSUME SessionsInv, NEW s \in AllSessions, NEW m \in client[s].wire, Collide(s, m)
  PROVE  SessionsInv'
<1>1. client[s] \in Clients
  BY DEF SessionsInv, SessionsTyped
<1>2. ~Fresh(client[s], gate[s])
  BY NotFresh
<1>3. PICK c : c = [client[s] EXCEPT !.wire = @ \ {m}]
  OBVIOUS
<1>4. PICK d \in {c, Hears(c, m[1], FALSE)} : client' = [client EXCEPT ![s] = d]
  BY <1>3 DEF Collide
<1>5. c \in Clients /\ c.state = client[s].state /\ c.asked = client[s].asked
      /\ c.heard = client[s].heard /\ c.wire \subseteq client[s].wire
  BY <1>1, <1>3 DEF Clients
<1>6. d = c \/ d = [c EXCEPT !.failed = TRUE]
  BY <1>4 DEF Hears
<1>7. d \in Clients /\ d.state = c.state /\ d.asked = c.asked /\ d.heard = c.heard /\ d.wire = c.wire
  BY <1>5, <1>6 DEF Clients
<1>8. gate' = [gate EXCEPT ![s].fault = TRUE] /\ UNCHANGED <<phase, current, accepted>>
  BY DEF Collide, controller
<1>9. client[s].asked <= d.asked
  BY <1>1, <1>5, <1>7 DEF Clients
<1> QED
  BY <1>2, <1>4, <1>5, <1>7, <1>8, <1>9, ClientKeeps

\* The steps of the client.
LEMMA SendKeeps ==
  ASSUME SessionsInv, NEW s \in AllSessions, Ask(s) \/ Rush(s)
  PROVE  SessionsInv'
<1>1. client[s] \in Clients /\ Asked(client[s], gate[s].records)
  BY DEF SessionsInv, SessionsTyped, Sessions, Whole
<1>2. UNCHANGED <<phase, current, accepted, gate>>
  BY DEF Ask, Rush, controller
<1>3. PICK n \in {client[s].asked, client[s].asked + 1}, k \in {1, 2} :
         /\ Send(s, <<n, k>>, n)
         /\ n \in Nat \ {0}
         /\ n = client[s].asked + 1 => client[s].state = "running"
         /\ n = client[s].asked => client[s].heard < client[s].asked
  BY <1>1 DEF Ask, Rush, Clients
<1>4. PICK d : d = [client[s] EXCEPT !.asked = n, !.wire = @ \cup {<<n, k>>}]
  OBVIOUS
<1>5. client' = [client EXCEPT ![s] = d]
  BY <1>1, <1>3, <1>4 DEF Send, Clients
<1>6. d \in Clients /\ d.state = client[s].state /\ d.asked = n /\ d.heard = client[s].heard
      /\ d.wire = client[s].wire \cup {<<n, k>>}
  <2>1. n \in Nat /\ <<n, k>> \in Nat \X Nat
    BY <1>3
  <2>2. PICK w : w = client[s].wire \cup {<<n, k>>}
    OBVIOUS
  <2>3. w \in SUBSET (Nat \X Nat)
    BY <1>1, <2>1, <2>2 DEF Clients
  <2>4. d = [client[s] EXCEPT !.asked = n, !.wire = w]
    BY <1>1, <1>4, <2>2 DEF Clients
  <2> QED
    BY <1>1, <2>1, <2>2, <2>3, <2>4 DEF Clients
<1>7. ~Fresh(client[s], gate[s])
  <2>1. client[s].state = "running" \/ client[s].heard # client[s].asked
    BY <1>1, <1>3 DEF Clients
  <2> QED
    BY <2>1, NotFresh
<1>8. client[s].asked <= d.asked /\ (\A m \in d.wire : m \in client[s].wire \/ m[1] \in 1..d.asked)
  BY <1>1, <1>3, <1>6 DEF Clients
<1>9. client[s].state # "running" /\ client[s].heard = client[s].asked => d.asked = client[s].asked
  BY <1>1, <1>3, <1>6 DEF Clients
<1> QED
  BY <1>2, <1>5, <1>6, <1>7, <1>8, <1>9, ClientKeeps

LEMMA LeaveKeeps ==
  ASSUME SessionsInv, NEW s \in AllSessions, Leave(s)
  PROVE  SessionsInv'
<1>1. client[s] \in Clients
  BY DEF SessionsInv, SessionsTyped
<1>2. PICK how \in {"ok", "bad"} : client' = [client EXCEPT ![s].state = how]
  BY DEF Leave
<1>3. PICK d : d = [client[s] EXCEPT !.state = how]
  OBVIOUS
<1>4. client' = [client EXCEPT ![s] = d]
  BY <1>2, <1>3
<1>5. d \in Clients /\ d.state = how /\ d.asked = client[s].asked /\ d.heard = client[s].heard
      /\ d.wire = client[s].wire /\ client[s].asked <= d.asked
  BY <1>1, <1>3 DEF Clients
<1>6. ~Fresh(client[s], gate[s]) /\ client[s].state = "running"
  BY NotFresh DEF Leave
<1>7. UNCHANGED <<phase, current, accepted, gate>>
  BY DEF Leave, controller
<1> QED
  BY <1>4, <1>5, <1>6, <1>7, ClientKeeps

LEMMA HealthKeeps ==
  ASSUME SessionsInv, NEW s \in AllSessions, HealthFails(s)
  PROVE  SessionsInv'
<1>1. client[s] \in Clients /\ client' = [client EXCEPT ![s] = client[s]]
  BY DEF SessionsInv, SessionsTyped, HealthFails
<1>2. client[s].asked <= client[s].asked
  BY <1>1 DEF Clients
<1>3. s = current /\ phase = "watching" /\ gate' = [gate EXCEPT ![s].fault = TRUE]
      /\ UNCHANGED <<phase, current, accepted>>
  BY DEF HealthFails, controller
<1> QED
  BY <1>1, <1>2, <1>3, ClientKeeps

\* Nothing happens to the sessions: the controller looks, a file is changed.
LEMMA QuietKeeps ==
  ASSUME SessionsInv, UNCHANGED <<client, gate, current, accepted>>, phase' \in Phases,
         phase' \in Between => phase \in Between,
         phase' = "watching" => phase = "watching",
         phase' \in {"judging", "weighing"} => phase \in {"judging", "weighing"}
  PROVE  SessionsInv'
<1>1. SessionsTyped'
  BY DEF SessionsInv, SessionsTyped
<1>2. Sessions'
  BY DEF SessionsInv, Sessions, AllSessions, Last, Capturing, Implementer
<1>3. Where'
  BY DEF SessionsInv, Where, Between, AllSessions, Last
<1>4. Past'
  BY DEF SessionsInv, Past
<1> QED
  BY <1>1, <1>2, <1>3, <1>4 DEF SessionsInv

LEMMA LooksKeep ==
  ASSUME SessionsInv, UseUp \/ Edit \/ (\E s \in AllSessions : WriteInput(s)) \/ UNCHANGED sessionVars
  PROVE  SessionsInv'
<1>1. UNCHANGED <<client, gate, current, accepted, phase>>
  BY DEF UseUp, Edit, WriteInput, controller, sessionVars
<1>2. phase \in Phases
  BY DEF SessionsInv, SessionsTyped
<1> QED
  BY <1>1, <1>2, QuietKeeps

LEMMA ChecksKeep ==
  ASSUME SessionsInv, Judge \/ BuildContract \/ Validate \/ Conclude
  PROVE  SessionsInv'
<1>1. UNCHANGED <<client, gate, current, accepted>>
  BY DEF Judge, BuildContract, Validate, Conclude, Check, Refused
<1>2. CASE Judge
  <2>1. phase = "judging" /\ phase' \in {"weighing", "refused"}
    BY <1>2 DEF Judge, Refused
  <2> QED
    BY <1>1, <2>1, QuietKeeps DEF Between, Phases, Ended
<1>3. CASE BuildContract \/ Validate
  <2>1. phase \in {"captured", "contracted"} /\ phase' \in {"contracted", "ready", "refused"}
    BY <1>3 DEF BuildContract, Validate, Check, Refused
  <2> QED
    BY <1>1, <2>1, QuietKeeps DEF Between, Phases, Ended
<1>4. CASE Conclude
  <2>1. phase' \in {"done", "refused"}
    BY <1>4 DEF Conclude
  <2> QED
    BY <1>1, <2>1, QuietKeeps DEF Between, Phases, Ended
<1> QED
  BY <1>2, <1>3, <1>4

\* The controller begins or ends the session it is at.
LEMMA ControlKeeps ==
  ASSUME SessionsInv, current \in AllSessions,
         client' \in [AllSessions -> Clients], gate' \in [AllSessions -> Gates],
         \A t \in AllSessions : t # current => client'[t] = client[t] /\ gate'[t] = gate[t],
         UNCHANGED <<current, accepted>>, phase' \in {"watching", "judging", "refused"},
         Whole(client'[current], gate'[current].records, Capturing(current)),
         phase' = "judging" => gate'[current].closed /\ client'[current].state # "running"
  PROVE  SessionsInv'
<1>1. SessionsTyped'
  BY DEF SessionsInv, SessionsTyped, Phases, Ended
<1>2. Sessions'
  <2> SUFFICES ASSUME NEW t \in AllSessions PROVE Whole(client'[t], gate'[t].records, Capturing(t))
    BY DEF Sessions, AllSessions, Capturing, Last, Implementer
  <2> QED
    BY DEF SessionsInv, Sessions
<1>3. Where'
  BY DEF SessionsInv, Where, Between, AllSessions, Last
<1>4. Past'
  <2>1. accepted \subseteq AllSessions /\ current \notin accepted
    BY TriageAssumption DEF SessionsInv, Where, SessionsTyped, AllSessions, Last
  <2>2. accepted' = accepted
    OBVIOUS
  <2> SUFFICES ASSUME NEW t \in accepted PROVE Settled(client'[t], gate'[t])
    BY <2>2, Zenon DEF Past
  <2>3. Settled(client[t], gate[t])
    BY DEF SessionsInv, Past
  <2> QED
    BY <2>1, <2>3
<1> QED
  BY <1>1, <1>2, <1>3, <1>4 DEF SessionsInv

\* Nothing was asked in a fresh session.
LEMMA FreshIsWhole ==
  ASSUME NEW c, c.heard = 0, c.asked \in Nat, c.wire = {}, NEW captured
  PROVE  Whole(c, <<>>, captured)
<1>1. Len(<<>>) = 0
  OBVIOUS
<1>2. InTurn(<<>>)
  <2>1. Finished(<<>>) = 1..0
    BY <1>1 DEF Finished
  <2>2. 0 \in 0..Len(<<>>)
    BY <1>1
  <2>3. 1..Len(<<>>) = {}
    BY <1>1
  <2> QED
    BY <2>1, <2>2, <2>3, Zenon DEF InTurn
<1> QED
  BY <1>1, <1>2 DEF Whole, OneHolds, OnTheirWay, Asked, Heard

LEMMA BeginKeeps ==
  ASSUME SessionsInv, Begin
  PROVE  SessionsInv'
<1>1. phase = "ready" /\ current \in AllSessions /\ gate' = gate /\ UNCHANGED <<current, accepted>>
  BY DEF Begin, Refused
<1>2. CASE Refused
  BY <1>1, <1>2, QuietKeeps DEF Refused, Phases, Ended, Between
<1>3. CASE /\ phase' = "watching"
           /\ client' = [client EXCEPT ![current] = [NoClient EXCEPT !.state = "running"]]
  <2>1. PICK d : d = [NoClient EXCEPT !.state = "running"]
    OBVIOUS
  <2>2. d \in Clients /\ d.heard = 0 /\ d.asked = 0 /\ d.wire = {}
    BY <2>1 DEF NoClient, Clients
  <2>3. /\ client' \in [AllSessions -> Clients] /\ client'[current] = d
        /\ \A t \in AllSessions : t # current => client'[t] = client[t]
    BY <1>1, <1>3, <2>1, <2>2 DEF SessionsInv, SessionsTyped
  <2>4. gate[current].records = <<>>
    BY <1>1 DEF SessionsInv, Where, Between, Fresh, NewGate
  <2>5. Whole(d, <<>>, Capturing(current))
    BY <2>2, FreshIsWhole
  <2>6. gate' \in [AllSessions -> Gates]
    BY <1>1 DEF SessionsInv, SessionsTyped
  <2> QED
    BY <1>1, <1>3, <2>3, <2>4, <2>5, <2>6, ControlKeeps
<1> QED
  BY <1>2, <1>3 DEF Begin

\* A gateway is closed, whatever its threads are at.
LEMMA GateCloses ==
  ASSUME SessionsInv, current \in AllSessions, gate' = [gate EXCEPT ![current].closed = TRUE]
  PROVE  /\ gate' \in [AllSessions -> Gates] /\ gate'[current].closed
         /\ gate'[current].records = gate[current].records
         /\ \A t \in AllSessions : t # current => gate'[t] = gate[t]
<1>1. gate \in [AllSessions -> Gates] /\ gate[current] \in Gates
  BY DEF SessionsInv, SessionsTyped
<1>2. PICK h : h = [gate[current] EXCEPT !.closed = TRUE]
  OBVIOUS
<1>3. h \in Gates /\ h.records = gate[current].records /\ h.closed
  <2> HIDE DEF Record
  <2> QED
    BY <1>1, <1>2 DEF Gates
<1>4. gate' = [gate EXCEPT ![current] = h]
  BY <1>2
<1> HIDE DEF Gates
<1> QED
  BY <1>1, <1>3, <1>4

LEMMA EndsKeep ==
  ASSUME SessionsInv, CutOff \/ Close
  PROVE  SessionsInv'
<1>1. phase = "watching" /\ gate' = [gate EXCEPT ![current].closed = TRUE]
      /\ UNCHANGED <<current, accepted>>
  BY DEF CutOff, Close
<1>2. current \in AllSessions /\ client \in [AllSessions -> Clients]
      /\ Whole(client[current], gate[current].records, Capturing(current))
  BY <1>1 DEF SessionsInv, Where, SessionsTyped, Sessions
<1>3. /\ gate' \in [AllSessions -> Gates] /\ gate'[current].closed
      /\ gate'[current].records = gate[current].records
      /\ \A t \in AllSessions : t # current => gate'[t] = gate[t]
  BY <1>1, <1>2, GateCloses
<1>4. CASE Close
  BY <1>1, <1>2, <1>3, <1>4, ControlKeeps DEF Close
<1>5. CASE CutOff
  <2>1. PICK d : d = [client[current] EXCEPT !.state = "stopped"]
    OBVIOUS
  <2>2. client' = [client EXCEPT ![current] = d]
    BY <1>5, <2>1 DEF CutOff
  <2>3. d \in Clients /\ d.heard = client[current].heard /\ d.asked = client[current].asked
        /\ d.wire = client[current].wire
    BY <1>2, <2>1 DEF Clients
  <2>4. Whole(d, gate[current].records, Capturing(current))
    BY <1>2, <2>3 DEF Whole, Asked, Heard
  <2>5. /\ client' \in [AllSessions -> Clients] /\ client'[current] = d
        /\ \A t \in AllSessions : t # current => client'[t] = client[t]
    BY <1>2, <2>2, <2>3
  <2>6. phase' = "refused"
    BY <1>5 DEF CutOff
  <2> QED
    BY <1>1, <1>2, <1>3, <2>4, <2>5, <2>6, ControlKeeps
<1> QED
  BY <1>4, <1>5

\* A session whose trace, capture or wire was found whole has nothing under way.
LEMMA CredibleIsSettled ==
  ASSUME SessionsInv, phase = "weighing", Credible(current)
  PROVE  Settled(client[current], gate[current])
<1> DEFINE c == client[current]
           R == Records(current)
<1>1. /\ current \in AllSessions /\ gate[current].closed /\ c.state # "running"
      /\ Whole(c, R, Capturing(current)) /\ SessionsTyped
  BY DEF SessionsInv, Where, Sessions, Records
<1>2. /\ c \in Clients /\ R \in Seq(Record) /\ Len(R) \in Nat /\ DOMAIN R = 1..Len(R)
      /\ c.asked \in Nat /\ c.asked = c.heard
  BY <1>1, RecordsTyped DEF Clients, Credible, TraceWhole
<1>3. \A i \in 1..Len(R) : R[i].request \in 1..c.asked /\ Course(R[i], Capturing(current))
  BY <1>1 DEF Whole, Asked, OnTheirWay
<1>4. \A n \in 1..c.asked : Answered(R, n, Capturing(current))
  BY <1>1, <1>2 DEF Whole, Heard
<1>5. /\ \A i \in 1..Len(R) : R[i].at \notin {"admitted", "asked"}
      /\ Cardinality(Forwarded(R)) = c.asked
  <2>1. CASE Capturing(current)
    <3>1. PICK m \in 0..Len(R) : Finished(R) = 1..m
      BY <1>1, <2>1 DEF Whole, InTurn
    <3>2. m \in Nat /\ Cardinality(1..m) = m
      <4>1. m \in Nat
        BY <1>2
      <4> QED
        BY <4>1, FS_Interval
    <3>3. c.asked = m
      <4>1. Completed(current) = Finished(R)
        BY <1>2 DEF Completed, Finished
      <4>2. c.asked = Cardinality(Completed(current))
        BY <2>1 DEF Credible, CaptureWhole
      <4> QED
        BY <3>1, <3>2, <4>1, <4>2
    <3>4. \A i \in 1..Len(R) : R[i].completed <=> i <= m
      BY <1>2, <3>1 DEF Finished
    <3>5. ASSUME NEW i \in 1..Len(R), R[i].accepted PROVE R[i].completed
      <4> SUFFICES ASSUME ~R[i].completed PROVE FALSE
        OBVIOUS
      <4>1. R[i].request \in 1..c.asked
        BY <1>3
      <4>2. PICK k \in 1..Len(R) : R[k].request = R[i].request /\ R[k].completed
        BY <1>4, <2>1, <4>1 DEF Answered
      <4>3. k \in 1..(i - 1)
        BY <1>2, <3>2, <3>4, <4>2
      <4> QED
        BY <1>1, <2>1, <3>5, <4>2, <4>3 DEF Whole, InTurn
    <3>6. \A i \in 1..Len(R) : R[i].at \notin {"admitted", "asked"}
      BY <1>3, <3>5 DEF Course
    <3>7. \A i \in 1..Len(R) : R[i].forwarded <=> R[i].completed
      BY <1>3, <3>5 DEF Course
    <3>8. Forwarded(R) = 1..m
      BY <3>1, <3>7 DEF Forwarded, Finished
    <3> QED
      BY <3>2, <3>3, <3>6, <3>8
  <2>2. CASE ~Capturing(current)
    <3>1. Len(R) = c.asked /\ \A i \in 1..Len(R) : R[i].forwarded
      BY <1>2, <2>2 DEF Credible, WireWhole, Served
    <3>2. Forwarded(R) = 1..Len(R)
      BY <3>1 DEF Forwarded
    <3>3. IsFiniteSet(1..Len(R)) /\ Cardinality(1..Len(R)) = Len(R)
      <4>1. PICK l \in Nat : l = Len(R)
        BY <1>2
      <4>2. IsFiniteSet(1..l) /\ Cardinality(1..l) = l
        BY FS_Interval
      <4> QED
        BY <4>1, <4>2
    <3>4. \A i \in 1..Len(R) : R[i].at # "admitted"
      BY <1>3, <3>1 DEF Course
    <3>5. ASSUME NEW i \in 1..Len(R), R[i].at = "asked" PROVE FALSE
      <4> DEFINE T == (1..Len(R)) \ {i}
                 f == [n \in 1..Len(R) |-> CHOOSE k \in 1..Len(R) : R[k].request = n /\ R[k].at = "over"]
      <4>1. \A n \in 1..Len(R) : f[n] \in 1..Len(R) /\ R[f[n]].request = n /\ R[f[n]].at = "over"
        <5>1. \A n \in 1..Len(R) : \E k \in 1..Len(R) : R[k].request = n /\ R[k].at = "over"
          BY <1>4, <3>1 DEF Answered
        <5> HIDE DEF R
        <5> QED
          BY <5>1, Zenon
      <4>2. f \in [1..Len(R) -> T]
        BY <3>5, <4>1
      <4>3. IsFiniteSet(T) /\ Cardinality(T) = Len(R) - 1
        BY <3>3, FS_RemoveElement
      <4>4. PICK x, y \in 1..Len(R) : x # y /\ f[x] = f[y]
        <5> HIDE DEF f, T
        <5> QED
          BY <1>2, <3>3, <4>2, <4>3, FS_PigeonHole
      <4> QED
        BY <4>1, <4>4
    <3> QED
      BY <3>1, <3>2, <3>3, <3>4, <3>5
  <2> QED
    BY <2>1, <2>2
<1> QED
  BY <1>1, <1>2, <1>5 DEF Settled, Records

LEMMA WeighKeeps ==
  ASSUME SessionsInv, Weigh
  PROVE  SessionsInv'
<1>1. phase = "weighing" /\ UNCHANGED <<client, gate>> /\ current \in AllSessions
  BY DEF Weigh, Refused, SessionsInv, Where
<1>2. CASE Refused
  BY <1>1, <1>2, QuietKeeps DEF Refused, Phases, Ended, Between
<1>3. CASE /\ Credible(current)
           /\ accepted' = accepted \cup {current} /\ current' = current + 1
           /\ phase' \in {"ready", "generated"}
  <2>1. SessionsTyped'
    <3>1. current' \in 1..(Last + 1)
      BY <1>1, <1>3, TriageAssumption DEF AllSessions, Last
    <3> QED
      BY <1>1, <1>3, <3>1 DEF SessionsInv, SessionsTyped, AllSessions, Phases, Last
  <2>2. Sessions'
    BY <1>1 DEF SessionsInv, Sessions, AllSessions, Last, Capturing, Implementer
  <2>3. accepted' = 1..(current' - 1)
    BY <1>1, <1>3, TriageAssumption DEF SessionsInv, Where, AllSessions, Last
  <2>4. \A s \in AllSessions : s >= current' => Fresh(client[s], gate[s])
    BY <1>1, <1>3, TriageAssumption DEF SessionsInv, Where, AllSessions, Last
  <2>5. Where'
    BY <1>1, <1>3, <2>3, <2>4, TriageAssumption DEF Where, AllSessions, Last
  <2>6. Past'
    BY <1>1, <1>3, CredibleIsSettled DEF SessionsInv, Past
  <2> QED
    BY <2>1, <2>2, <2>5, <2>6 DEF SessionsInv
<1> QED
  BY <1>2, <1>3 DEF Weigh

\* What the end of the process leaves of the records of a gateway.
Left(R) == [i \in DOMAIN R |-> IF R[i].at = "over" THEN R[i] ELSE [R[i] EXCEPT !.at = "lost"]]

LEMMA LeftKeeps ==
  ASSUME NEW R \in Seq(Record), NEW captured \in BOOLEAN, NEW c \in Clients, NEW d \in Clients,
         d.heard = c.heard, d.asked = c.asked, d.wire = {}, Whole(c, R, captured)
  PROVE  /\ Left(R) \in Seq(Record) /\ Len(Left(R)) = Len(R)
         /\ Forwarded(Left(R)) = Forwarded(R)
         /\ \A i \in 1..Len(R) : Left(R)[i].at \in {"over", "lost"}
         /\ Whole(d, Left(R), captured)
<1> DEFINE Q == Left(R)
<1>1. Len(R) \in Nat /\ DOMAIN R = 1..Len(R) /\ \A i \in 1..Len(R) : R[i] \in Record
  <2> HIDE DEF Record
  <2> QED
    OBVIOUS
<1>2. \A i \in 1..Len(R) : Q[i] \in Record
  BY <1>1 DEF Left, Record, Stages
<1>3. /\ Q \in Seq(Record) /\ Len(Q) = Len(R)
  <2>1. Q \in [1..Len(R) -> Record]
    <3>1. \A i \in 1..Len(R) : IF R[i].at = "over" THEN R[i] \in Record ELSE [R[i] EXCEPT !.at = "lost"] \in Record
      BY <1>1 DEF Record, Stages
    <3> HIDE DEF Record
    <3> QED
      BY <1>1, <3>1 DEF Left
  <2> HIDE DEF Record, Q
  <2> QED
    BY <1>1, <2>1
<1>4. \A i \in 1..Len(R) :
         /\ Q[i].at \in {"over", "lost"} /\ (R[i].at = "over" => Q[i].at = "over")
         /\ Q[i].request = R[i].request
         /\ Q[i].accepted = R[i].accepted /\ Q[i].forwarded = R[i].forwarded
         /\ Q[i].completed = R[i].completed /\ Q[i].error = R[i].error /\ Q[i].receipt = R[i].receipt
  BY <1>1 DEF Left, Record
<1>5. Forwarded(Q) = Forwarded(R) /\ Finished(Q) = Finished(R)
  <2> HIDE DEF Q
  <2> QED
    BY <1>3, <1>4 DEF Forwarded, Finished
<1>6. Whole(d, Q, captured)
  <2> HIDE DEF Q
  <2>1. OneHolds(Q)
    BY <1>3, <1>4 DEF OneHolds, Busy
  <2>2. OnTheirWay(Q, captured)
    <3> SUFFICES ASSUME NEW i \in 1..Len(R) PROVE Course(Q[i], captured)
      BY <1>3 DEF OnTheirWay
    <3>1. Course(R[i], captured)
      BY DEF Whole, OnTheirWay
    <3>2. R[i] \in Record /\ Q[i] \in Record
      BY <1>1, <1>2
    <3>3. R[i].at = "over" => Q[i] = R[i]
      BY <1>1 DEF Q, Left
    <3> QED
      <4>1. CASE R[i].at = "over"
        BY <3>1, <3>3, <4>1
      <4>2. CASE R[i].at # "over"
        <5>1. Q[i].at = "lost"
          BY <1>1, <4>2 DEF Q, Left, Record
        <5>2. /\ R[i].completed => R[i].forwarded
              /\ R[i].forwarded => R[i].accepted
          BY <3>1 DEF Course
        <5>3. /\ Q[i].completed => Q[i].forwarded
              /\ Q[i].forwarded => Q[i].accepted
          BY <1>4, <5>2
        <5> QED
          BY <5>1, <5>3 DEF Course
      <4> QED
        BY <4>1, <4>2
  <2>3. captured => InTurn(Q)
    <3> SUFFICES ASSUME captured PROVE InTurn(Q)
      OBVIOUS
    <3>1. InTurn(R)
      BY DEF Whole
    <3>2. \E m \in 0..Len(Q) : Finished(Q) = 1..m
      BY <1>3, <1>5, <3>1 DEF InTurn
    <3>3. ASSUME NEW i \in 1..Len(Q), Q[i].accepted, NEW k \in 1..(i - 1)
          PROVE  Q[k].completed /\ Q[k].request # Q[i].request
      <4>1. i \in 1..Len(R) /\ k \in 1..Len(R)
        BY <1>1, <1>3
      <4> QED
        BY <1>4, <3>1, <3>3, <4>1 DEF InTurn
    <3> QED
      BY <3>2, <3>3 DEF InTurn
  <2>4. Asked(d, Q)
    BY <1>3, <1>4 DEF Whole, Asked
  <2>5. Heard(d, Q, captured)
    <3> SUFFICES ASSUME NEW n \in 1..c.heard PROVE Answered(Q, n, captured)
      BY DEF Heard
    <3>1. PICK k \in 1..Len(R) : /\ R[k].request = n /\ R[k].at = "over" /\ R[k].completed = captured
                                 /\ R[k].forwarded /\ R[k].receipt /\ ~R[k].error
      BY DEF Whole, Heard, Answered
    <3> QED
      BY <1>3, <1>4, <3>1 DEF Answered
  <2> QED
    BY <2>1, <2>2, <2>3, <2>4, <2>5 DEF Whole
<1> QED
  BY <1>3, <1>4, <1>5, <1>6

LEMMA CaptureKeeps ==
  ASSUME SessionsInv, Capture
  PROVE  SessionsInv'
<1>1. /\ phase = "generated" /\ phase' = "captured" /\ UNCHANGED <<current, accepted>>
      /\ client' = [s \in AllSessions |-> [client[s] EXCEPT !.wire = {}]]
      /\ gate' = [s \in AllSessions |-> [gate[s] EXCEPT !.records = Left(gate[s].records)]]
  BY DEF Capture, Left
<1>2. ASSUME NEW s \in AllSessions
      PROVE  /\ client'[s] \in Clients /\ gate'[s] \in Gates
             /\ Whole(client'[s], gate'[s].records, Capturing(s))
             /\ Fresh(client[s], gate[s]) => Fresh(client'[s], gate'[s])
             /\ Settled(client[s], gate[s]) => Settled(client'[s], gate'[s])
  <2>1. PICK c : c = client[s]
    OBVIOUS
  <2>2. PICK g : g = gate[s]
    OBVIOUS
  <2>3. PICK d : d = [c EXCEPT !.wire = {}]
    OBVIOUS
  <2>4. PICK Q : Q = Left(g.records)
    OBVIOUS
  <2>5. PICK h : h = [g EXCEPT !.records = Q]
    OBVIOUS
  <2>6. client'[s] = d /\ gate'[s] = h
    BY <1>1, <2>1, <2>2, <2>3, <2>4, <2>5
  <2>7. c \in Clients /\ g \in Gates /\ Whole(c, g.records, Capturing(s)) /\ Capturing(s) \in BOOLEAN
    BY <2>1, <2>2 DEF SessionsInv, SessionsTyped, Sessions, Capturing
  <2>8. d \in Clients /\ d.heard = c.heard /\ d.asked = c.asked /\ d.wire = {} /\ d.state = c.state
    BY <2>3, <2>7 DEF Clients
  <2>9. g.records \in Seq(Record)
    BY <2>7 DEF Gates
  <2>10. /\ Q \in Seq(Record) /\ Len(Q) = Len(g.records)
         /\ Forwarded(Q) = Forwarded(g.records)
         /\ \A i \in 1..Len(Q) : Q[i].at \in {"over", "lost"}
         /\ Whole(d, Q, Capturing(s))
    BY <2>4, <2>7, <2>8, <2>9, LeftKeeps
  <2>11. h \in Gates /\ h.records = Q /\ h.closed = g.closed /\ h.fault = g.fault
    <3> HIDE DEF Record
    <3> QED
      BY <2>5, <2>7, <2>10 DEF Gates
  <2>12. ASSUME Fresh(c, g) PROVE Fresh(d, h)
    <3>1. d = NoClient
      BY <2>3, <2>12 DEF Fresh, NoClient
    <3>2. Q = <<>>
      <4>1. Len(Q) = 0
        BY <2>10, <2>12 DEF Fresh, NewGate
      <4> HIDE DEF Record
      <4> QED
        BY <2>10, <4>1
    <3>3. h = NewGate
      BY <2>5, <2>12, <3>2 DEF Fresh, NewGate
    <3> QED
      BY <3>1, <3>3 DEF Fresh
  <2>13. Settled(c, g) => Settled(d, h)
    BY <2>8, <2>10, <2>11 DEF Settled
  <2> QED
    BY <2>1, <2>2, <2>6, <2>8, <2>10, <2>11, <2>12, <2>13
<1>3. SessionsTyped'
  <2>1. client' \in [AllSessions -> Clients]
    <3> HIDE DEF Clients
    <3> QED
      BY <1>1, <1>2
  <2>2. gate' \in [AllSessions -> Gates]
    <3> HIDE DEF Gates
    <3> QED
      BY <1>1, <1>2
  <2> QED
    BY <1>1, <2>1, <2>2 DEF SessionsInv, SessionsTyped, Phases
<1>4. Sessions'
  BY <1>2 DEF Sessions, AllSessions, Last, Capturing, Implementer
<1>5. Where'
  BY <1>1, <1>2 DEF SessionsInv, Where, Between, AllSessions, Last
<1>6. Past'
  <2>1. accepted \subseteq AllSessions /\ accepted' = accepted
    BY <1>1, TriageAssumption DEF SessionsInv, Where, SessionsTyped, AllSessions, Last
  <2> SUFFICES ASSUME NEW t \in accepted PROVE Settled(client'[t], gate'[t])
    BY <2>1, Zenon DEF Past
  <2>2. Settled(client[t], gate[t])
    BY DEF SessionsInv, Past
  <2> QED
    BY <1>2, <2>1, <2>2
<1> QED
  BY <1>3, <1>4, <1>5, <1>6 DEF SessionsInv

LEMMA SessionsBegin == SessionsInit => SessionsInv
<1> SUFFICES ASSUME SessionsInit PROVE SessionsInv
  OBVIOUS
<1>1. \A s \in AllSessions : client[s] = NoClient /\ gate[s] = NewGate
  BY DEF SessionsInit
<1>2. NoClient \in Clients /\ NewGate \in Gates
  <2>1. <<>> \in Seq(Record)
    OBVIOUS
  <2> QED
    BY <2>1 DEF NoClient, NewGate, Clients, Gates
<1>3. SessionsTyped
  <2>1. 1 \in 1..(Last + 1) /\ phase \in Phases
    BY TriageAssumption DEF SessionsInit, Last, Phases
  <2> HIDE DEF Clients, Gates
  <2> QED
    BY <1>2, <2>1 DEF SessionsInit, SessionsTyped, Planner
<1>4. Sessions
  <2>1. NoClient.heard = 0 /\ NoClient.asked = 0 /\ NoClient.wire = {} /\ NewGate.records = <<>>
    BY DEF NoClient, NewGate
  <2> QED
    BY <1>1, <2>1, FreshIsWhole DEF Sessions
<1>5. Where
  BY <1>1 DEF SessionsInit, Where, Fresh, Planner
<1>6. Past
  BY DEF SessionsInit, Past
<1> QED
  BY <1>3, <1>4, <1>5, <1>6 DEF SessionsInv

LEMMA SessionsStep == SessionsInv /\ [SessionsNext]_sessionVars => SessionsInv'
<1> SUFFICES ASSUME SessionsInv, [SessionsNext]_sessionVars PROVE SessionsInv'
  OBVIOUS
<1>1. CASE Controller
  BY <1>1, BeginKeeps, EndsKeep, ChecksKeep, WeighKeeps, CaptureKeeps DEF Controller
<1>2. CASE UseUp \/ Edit \/ UNCHANGED sessionVars
  BY <1>2, LooksKeep
<1>3. ASSUME NEW s \in AllSessions, Ask(s) \/ Rush(s) \/ WriteInput(s) \/ Leave(s) \/ HealthFails(s)
      PROVE  SessionsInv'
  BY <1>3, SendKeeps, LooksKeep, LeaveKeeps, HealthKeeps
<1>4. ASSUME NEW s \in AllSessions, Thread(s) PROVE SessionsInv'
  <2>1. ASSUME NEW m \in client[s].wire, Collide(s, m) \/ Enter(s, m) PROVE SessionsInv'
    BY <2>1, CollideKeeps, EnterKeeps
  <2>2. ASSUME NEW i \in DOMAIN Records(s), Works(s, i) \/ Reply(s, i) PROVE SessionsInv'
    BY <2>2, WorkKeeps, ReplyKeeps
  <2> QED
    BY <1>4, <2>1, <2>2 DEF Thread, Works
<1> QED
  BY <1>1, <1>2, <1>3, <1>4 DEF SessionsNext

LEMMA SessionsHold == SessionsSpec => []SessionsInv
  BY SessionsBegin, SessionsStep, PTL DEF SessionsSpec

\* The model is never asked by two threads at once: in a session the lock forbids it, and a
\* session whose turn is over has no request under way when the next one begins.
THEOREM OneAtATime == SessionsSpec => []OneAtTheModel
<1>1. SessionsInv => OneAtTheModel
  <2> SUFFICES ASSUME SessionsInv, NEW s \in AllSessions, NEW t \in AllSessions,
                      NEW i \in DOMAIN Records(s), NEW k \in DOMAIN Records(t),
                      At(s, i, "asked"), At(t, k, "asked")
               PROVE  s = t /\ i = k
    BY DEF OneAtTheModel
  <2>1. ASSUME NEW u \in AllSessions, NEW j \in DOMAIN Records(u), At(u, j, "asked") PROVE u = current
    <3>1. DOMAIN Records(u) = 1..Len(Records(u)) /\ Records(u)[j].at = "asked"
      BY <2>1, RecordsTyped DEF SessionsInv, At
    <3>2. u \notin accepted
      BY <2>1, <3>1 DEF SessionsInv, Past, Settled, Records
    <3>3. ~(u > current)
      BY <2>1, NotFresh DEF SessionsInv, Where
    <3> QED
      BY <3>2, <3>3, TriageAssumption DEF SessionsInv, Where, SessionsTyped, AllSessions, Last
  <2>2. s = current /\ t = current
    BY <2>1
  <2>3. OneHolds(Records(s)) /\ DOMAIN Records(s) = 1..Len(Records(s))
    BY RecordsTyped DEF SessionsInv, Sessions, Whole, Records
  <2> QED
    BY <2>2, <2>3 DEF OneHolds, At, Busy
<1> QED
  BY <1>1, SessionsHold, PTL

\* Every request in the trace of an accepted session was forwarded, answered and sealed, and
\* nothing else of the session ever goes to the model.
THEOREM ServedIfAccepted == SessionsSpec => []AcceptedIsServed
<1>1. SessionsInv => AcceptedIsServed
  <2> SUFFICES ASSUME SessionsInv, NEW s \in accepted
               PROVE  LET sent == {i \in DOMAIN Records(s) : Records(s)[i].forwarded} IN
                      /\ client[s].heard = client[s].asked
                      /\ \A n \in 1..client[s].asked :
                            \E i \in sent : /\ Records(s)[i].request = n
                                            /\ Records(s)[i].receipt /\ ~Records(s)[i].error
                      /\ Cardinality(sent) = client[s].asked
    BY DEF AcceptedIsServed
  <2>1. s \in AllSessions
    BY TriageAssumption DEF SessionsInv, Where, SessionsTyped, AllSessions, Last
  <2>2. DOMAIN Records(s) = 1..Len(Records(s))
    BY <2>1, RecordsTyped DEF SessionsInv
  <2>3. Settled(client[s], gate[s]) /\ Heard(client[s], Records(s), Capturing(s))
    BY <2>1 DEF SessionsInv, Past, Sessions, Whole, Records
  <2>4. {i \in DOMAIN Records(s) : Records(s)[i].forwarded} = Forwarded(Records(s))
    BY <2>2 DEF Forwarded
  <2>5. client[s].heard = client[s].asked /\ Cardinality(Forwarded(Records(s))) = client[s].asked
    BY <2>3 DEF Settled, Records
  <2>6. ASSUME NEW n \in 1..client[s].asked
        PROVE  \E i \in Forwarded(Records(s)) :
                  Records(s)[i].request = n /\ Records(s)[i].receipt /\ ~Records(s)[i].error
    BY <2>3, <2>5 DEF Heard, Answered, Forwarded
  <2> QED
    BY <2>4, <2>5, <2>6
<1> QED
  BY <1>1, SessionsHold, PTL

-----------------------------------------------------------------------------
(* The coding job.                                                         *)

Waiting == {"agent", "stop agent", "agent output", "snapshot", "validate", "stop validation", "stop again",
            "drain"}
Closing == {"finally", "clean", "clean copy", "save"}

\* Before there is a worktree nothing runs, and nothing was judged.
Untouched ==
    pc \in {"prepare", "copy", "worktree"} =>
        worktree = None /\ ~child /\ helpers = {} /\ snapshot = None

\* While a worktree is worked on it stays, and no verdict is there before the validation ended.
Working ==
    /\ pc \in Waiting => worktree \in Contents
    /\ pc \in (Waiting \ {"drain"}) \cup {"prepare", "copy", "worktree"} => passed = None
    /\ pc \in {"prepare", "copy", "worktree", "agent", "snapshot", "validate"} => failure = None
    /\ pc \in {"stop validation", "stop again"} => failure # None

\* Who is not of the group has left it.
Strays ==
    /\ helpers \subseteq Helpers
    /\ \A h \in helpers : h.inGroup \/ strayed

\* The patch is taken, and the validation begins, when nobody of the group can write.
Stopped == ~child /\ \A h \in helpers : ~h.inGroup
Quiet ==
    /\ pc \in {"agent output", "snapshot"} => Stopped
    /\ pc = "validate" /\ ~child => Stopped /\ (strayed \/ snapshot = worktree)
    /\ pc = "validate" /\ child => given \in Contents /\ (strayed \/ snapshot = given)
    /\ pc = "validate" => snapshot \in Contents
    /\ pc = "drain" => ~child /\ (failure = None => passed \in BOOLEAN)

\* A verdict is about the patch.
Judged == passed = TRUE => given \in Contents /\ snapshot \in Contents /\ (strayed \/ snapshot = given)

\* A job without a failure has passed, and it is cleaned step by step.
Flawless ==
    /\ pc \in Closing /\ failure = None => passed = TRUE
    /\ pc \in {"finally", "clean"} /\ failure = None => worktree \in Contents
    /\ pc \in {"clean copy", "save"} /\ failure = None => worktree = Gone /\ cleaned
    /\ pc = "save" /\ failure = None => ~copy

\* A result is written once, at the end.
Written ==
    /\ pc \in {"prepare", "copy", "worktree", "saved", "lost"} \cup Waiting \cup Closing
    /\ pc = "saved" <=> result # None
    /\ worktree \in Contents \cup {None, Gone} /\ snapshot \in Contents \cup {None}

IInv == Untouched /\ Working /\ Strays /\ Quiet /\ Judged /\ Flawless /\ Written /\ SuccessIsBacked

LEMMA InitHolds == Init => IInv
  BY CodingAssumption
  DEF Init, IInv, Untouched, Working, Strays, Quiet, Judged, Flawless, Written, SuccessIsBacked, Waiting, Closing

\* What a test of membership returns is a value.
LEMMA AbsenceIsFalse ==
  ASSUME NEW x, NEW S, x \notin S PROVE (x \in S) = FALSE
  BY SMT

\* A result can be told from its absence.
LEMMA ResultIsThere ==
  ASSUME NEW st \in {"succeeded", "cancelled", "failed"}, NEW p \in Contents \cup {None}
  PROVE [status |-> st, patch |-> p] # None
<1>1. [status |-> st, patch |-> p] \in Results
  BY DEF Results
<1> QED
  BY <1>1, CodingAssumption

\* Where a limit or a cancellation of the task leaves the agent.
LEMMA AgentLeftEnds ==
  ASSUME AgentLeft
  PROVE  /\ pc' = "finally" \/ (pc' = "stop agent" /\ pc = "agent" /\ child)
         /\ pc # "agent" => pc' = "finally"
         /\ child' \in {child, FALSE}
<1>1. pc' = "finally" \/ (pc' = "stop agent" /\ pc = "agent" /\ child)
  <2>1. CASE pc = "agent" /\ child
    BY <2>1, Zenon DEF AgentLeft
  <2>2. CASE ~(pc = "agent" /\ child)
    BY <2>2, Zenon DEF AgentLeft
  <2> QED
    BY <2>1, <2>2
<1>2. pc # "agent" => pc' = "finally"
  BY Zenon DEF AgentLeft
<1>3. child' \in {child, FALSE}
  <2>1. CASE pc = "stop agent"
    BY <2>1, Zenon DEF AgentLeft
  <2>2. CASE pc # "stop agent"
    BY <2>2, Zenon DEF AgentLeft
  <2> QED
    BY <2>1, <2>2
<1> QED
  BY <1>1, <1>2, <1>3

USE DEF setup, processes, outcome, Fails

\* What Write does to the worktree is not seen by a patch already taken.
LEMMA StepHolds == Posix /\ IInv /\ [Next]_vars => IInv'
<1> SUFFICES ASSUME Posix, IInv, [Next]_vars PROVE IInv'
  OBVIOUS
<1> USE CodingAssumption
    DEF Failures, Results, IInv, Untouched, Working, Strays, Stopped, Quiet, Judged, Flawless, Written,
        SuccessIsBacked, Waiting, Closing
<1>1. CASE Prepare
  BY <1>1 DEF Prepare
<1>2. CASE CopyWorkingTree
  BY <1>2 DEF CopyWorkingTree
<1>3. CASE CreateWorktree
  BY <1>3 DEF CreateWorktree
<1>4. ASSUME NEW s \in {"agent", "validate"}, Start(s) PROVE IInv'
  BY <1>4 DEF Start
<1>5. CASE StopAgent
  BY <1>5 DEF StopAgent, Killed, StopsGroup
<1>6. CASE Snapshot
  BY <1>6 DEF Snapshot
<1>7. CASE StopValidation
  BY <1>7 DEF StopValidation, Killed, StopsGroup
<1>8. CASE Drain
  BY <1>8 DEF Drain
<1>9. ASSUME NEW code \in {"cancelled", "execution_timeout"}, Interrupt(code) PROVE IInv'
  <2>1. code # None /\ failure' = code
    BY <1>9 DEF Interrupt
  <2>2. CASE AgentWaited /\ pc' = "stop agent"
    BY <1>9, <2>1, <2>2, AgentLeftEnds DEF Interrupt, AgentWaited
  <2>3. CASE AgentWaited /\ pc' = "finally"
    BY <1>9, <2>1, <2>3 DEF Interrupt, AgentWaited
  <2>4. CASE ~AgentWaited
    BY <1>9, <2>1, <2>4 DEF Interrupt, Limited
  <2>5. AgentWaited => pc' \in {"stop agent", "finally"}
    BY <1>9, AgentLeftEnds, Zenon DEF Interrupt
  <2> QED
    BY <2>2, <2>3, <2>4, <2>5
<1>10. CASE Rescue
  BY <1>10 DEF Rescue
<1>11. CASE CleanWorktree
  BY <1>11 DEF CleanWorktree
<1>12. CASE CleanCopy
  BY <1>12 DEF CleanCopy, ToldOfCopy
<1>13. CASE Save
  <2>1. Status \in {"succeeded", "cancelled", "failed"}
    BY Zenon DEF Status
  <2>2. Status = "succeeded" => failure = None /\ passed = TRUE
    BY DEF Status
  <2>3. result' = [status |-> Status, patch |-> snapshot]
    BY <1>13 DEF Save
  <2>4. result'.status = Status /\ result'.patch = snapshot
    BY <2>3
  <2>5. result' # None
    BY <2>1, <2>3, ResultIsThere
  <2> QED
    BY <1>13, <2>2, <2>4, <2>5 DEF Save
<1>14. CASE AgentEnds
  BY <1>14 DEF AgentEnds
<1>15. CASE ValidationEnds
  <2>1. CASE failure' = "cancelled" /\ UNCHANGED passed
    BY <1>15, <2>1 DEF ValidationEnds
  <2>2. CASE passed' = (worktree \in Good) /\ UNCHANGED failure
    <3>1. CASE worktree \in Good
      <4>1. passed' = TRUE
        BY <2>2, <3>1, Zenon
      <4> QED
        BY <1>15, <2>2, <4>1 DEF ValidationEnds
    <3>2. CASE worktree \notin Good
      <4>1. passed' = FALSE
        BY <2>2, <3>2, AbsenceIsFalse
      <4> QED
        BY <1>15, <2>2, <4>1 DEF ValidationEnds
    <3> QED
      BY <3>1, <3>2
  <2> QED
    BY <1>15, <2>1, <2>2 DEF ValidationEnds, Overruled
<1>16. CASE Write
  BY <1>16 DEF Write
<1>17. ASSUME NEW h \in Helpers, Forks(h) \/ HelperEnds(h) PROVE IInv'
  <2>1. CASE Forks(h)
    BY <1>17, <2>1 DEF Forks
  <2>2. CASE HelperEnds(h)
    BY <1>17, <2>2 DEF HelperEnds
  <2> QED
    BY <1>17, <2>1, <2>2
<1>18. CASE Cancel
  BY <1>18 DEF Cancel
<1>19. CASE TaskCancelled
  <2> USE DEF AgentWaited, Unlimited
  <2>0. UNCHANGED <<setup, worktree, helpers, strayed, snapshot, given, cleaned, result>>
    BY <1>19 DEF TaskCancelled
  <2>1. CASE AgentWaited /\ AgentLeft /\ failure' = "cancelled" /\ UNCHANGED passed
    <3>1. CASE pc' = "stop agent"
      BY <2>0, <2>1, <3>1, AgentLeftEnds
    <3>2. CASE pc' = "finally"
      BY <2>0, <2>1, <3>2
    <3> QED
      BY <2>1, <3>1, <3>2, AgentLeftEnds, Zenon
  <2>2. CASE /\ pc \in {"stop agent", "agent output"} /\ ~Unlimited
             /\ AgentLeft /\ UNCHANGED <<failure, passed>>
    <3>1. pc' = "finally" /\ failure' = failure /\ passed' = passed /\ failure # None
      BY <2>2, AgentLeftEnds
    <3>2. passed = None /\ pc \in Waiting /\ result = None
      BY <2>2
    <3>3. /\ pc' = "finally" /\ failure' # None /\ passed' = None /\ result' = None
          /\ worktree' \in Contents /\ snapshot' \in Contents \cup {None}
      BY <2>0, <3>1, <3>2
    <3> QED
      <4>1. Strays'
        BY <2>0
      <4> QED
        BY <3>3, <4>1
  <2>3. CASE /\ pc = "validate" /\ pc' = (IF child THEN "stop again" ELSE "finally")
             /\ failure' = "cancelled" /\ UNCHANGED <<child, passed>>
    <3>1. CASE child
      BY <2>0, <2>3, <3>1
    <3>2. CASE ~child
      BY <2>0, <2>3, <3>2
    <3> QED
      BY <3>1, <3>2
  <2>4. CASE /\ pc = "stop validation"
             /\ \/ child /\ pc' = "stop again" /\ UNCHANGED child
                \/ child' = FALSE /\ pc' = "drain"
             /\ failure' = "cancelled" /\ UNCHANGED passed
    BY <2>0, <2>4
  <2>5. CASE pc = "stop again" /\ pc' = "finally" /\ UNCHANGED <<failure, passed>>
    BY <2>0, <2>5
  <2>6. CASE pc = "drain" /\ Fails("cancelled") /\ passed' = None /\ UNCHANGED child
    BY <2>0, <2>6
  <2> HIDE DEF IInv, AgentWaited, Unlimited, Fails
  <2> QED
    BY <1>19, <2>1, <2>2, <2>3, <2>4, <2>5, <2>6, Zenon DEF TaskCancelled
<1>21. CASE StartFails
  BY <1>21 DEF StartFails
<1>22. CASE ReadAgent
  BY <1>22 DEF ReadAgent
<1>23. CASE SaveFails
  BY <1>23 DEF SaveFails
<1>24. CASE Swallowed
  BY <1>24 DEF Swallowed
<1>20. CASE UNCHANGED vars
  BY <1>20 DEF vars
<1> QED
  BY <1>1, <1>2, <1>3, <1>4, <1>5, <1>6, <1>7, <1>8, <1>9, <1>10, <1>11, <1>12, <1>13, <1>14,
     <1>15, <1>16, <1>17, <1>18, <1>19, <1>20, <1>21, <1>22, <1>23, <1>24 DEF Next, Run, Done

\* A worktree stays as long as it is worked on, on every system.
Placed == pc \in Waiting => worktree \in Contents

LEMMA WorktreeStays == Placed /\ [Next]_vars => Placed'
<1> SUFFICES ASSUME Placed, [Next]_vars PROVE Placed'
  OBVIOUS
<1> USE CodingAssumption DEF Placed, Waiting
<1>1. CASE Prepare \/ CopyWorkingTree \/ CreateWorktree
  BY <1>1 DEF Prepare, CopyWorkingTree, CreateWorktree
<1>2. ASSUME NEW s \in {"agent", "validate"}, Start(s) PROVE Placed'
  BY <1>2 DEF Start
<1>3. CASE StartFails \/ StopAgent \/ ReadAgent \/ Snapshot \/ StopValidation \/ Drain \/ AgentEnds
  BY <1>3 DEF StartFails, StopAgent, ReadAgent, Snapshot, StopValidation, Drain, AgentEnds
<1>4. ASSUME NEW code \in {"cancelled", "execution_timeout"}, Interrupt(code) PROVE Placed'
  <2>1. pc \in Waiting /\ worktree' = worktree
    BY <1>4 DEF Interrupt, Limited, AgentWaited
  <2> QED
    BY <2>1
<1>5. CASE Rescue \/ CleanWorktree \/ CleanCopy \/ Save \/ SaveFails
  BY <1>5 DEF Rescue, CleanWorktree, CleanCopy, Save, SaveFails
<1>6. CASE ValidationEnds
  BY <1>6 DEF ValidationEnds
<1>7. CASE Write \/ Cancel \/ Swallowed \/ UNCHANGED vars
  BY <1>7 DEF Write, Cancel, Swallowed, vars
<1>8. CASE TaskCancelled
  <2>1. pc \in Waiting /\ worktree' = worktree
    BY <1>8 DEF TaskCancelled, AgentWaited
  <2> QED
    BY <2>1
<1>9. ASSUME NEW h \in Helpers, Forks(h) \/ HelperEnds(h) PROVE Placed'
  BY <1>9 DEF Forks, HelperEnds
<1> QED
  BY <1>1, <1>2, <1>3, <1>4, <1>5, <1>6, <1>7, <1>8, <1>9 DEF Next, Run, Done

\* The local state of the executor is of its types, on every system.
THEOREM CodingTyped == Spec => []TypeOK
<1>1. Init => TypeOK
  <2> SUFFICES ASSUME Init PROVE TypeOK
    OBVIOUS
  <2>1. 0 \in 0 .. MaxCancels
    BY CodingAssumption
  <2> QED
    BY <2>1 DEF Init, TypeOK, Failures
<1>2. TypeOK /\ Placed /\ [Next]_vars => TypeOK'
  <2> SUFFICES ASSUME TypeOK, Placed, [Next]_vars PROVE TypeOK'
    OBVIOUS
  <2> USE CodingAssumption DEF TypeOK, Failures
  <2>1. CASE Prepare
    BY <2>1 DEF Prepare
  <2>2. CASE CopyWorkingTree
    <3>1. copy' \in BOOLEAN /\ failure' \in Failures \cup {None}
      BY <2>2 DEF CopyWorkingTree
    <3> QED
      BY <2>2, <3>1, ZenonT(60) DEF CopyWorkingTree
  <2>3. CASE CreateWorktree
    BY <2>3 DEF CreateWorktree
  <2>4. ASSUME NEW s \in {"agent", "validate"}, Start(s) PROVE TypeOK'
    <3>1. given' \in Contents \cup {None}
      <4>1. CASE s = "validate"
        BY <2>4, <4>1 DEF Start, Placed, Waiting
      <4>2. CASE s # "validate"
        BY <2>4, <4>2 DEF Start
      <4> QED
        BY <4>1, <4>2
    <3> QED
      BY <2>4, <3>1, ZenonT(60) DEF Start
  <2>5. CASE StopAgent \/ StopValidation \/ ReadAgent \/ SaveFails
    <3>1. Killed => child' \in BOOLEAN /\ helpers' \subseteq Helpers /\ UNCHANGED strayed
      BY DEF Killed
    <3> QED
      BY <2>5, <3>1, ZenonT(60) DEF StopAgent, StopValidation, ReadAgent, SaveFails
  <2>6. CASE Snapshot \/ Rescue
    <3>1. snapshot' \in Contents \cup {None} /\ failure' \in Failures \cup {None}
      <4>1. CASE Snapshot
        BY <4>1 DEF Snapshot, Placed, Waiting
      <4>2. CASE Rescue
        BY <4>2 DEF Rescue
      <4> QED
        BY <2>6, <4>1, <4>2
    <3> QED
      BY <2>6, <3>1, ZenonT(60) DEF Snapshot, Rescue
  <2>7. CASE Drain
    BY <2>7 DEF Drain
  <2>8. ASSUME NEW code \in {"cancelled", "execution_timeout"}, Interrupt(code) PROVE TypeOK'
    <3>1. child' \in BOOLEAN
      BY <2>8, AgentLeftEnds DEF Interrupt
    <3> QED
      BY <2>8, <3>1, ZenonT(60) DEF Interrupt
  <2>9. CASE CleanWorktree
    <3>1. (IF failure = None THEN "internal_worker_failure" ELSE failure) \in Failures \cup {None}
      OBVIOUS
    <3> QED
      <4>1. CASE UNCHANGED <<worktree, failure, cleaned>>
        BY <2>9, <4>1, ZenonT(60) DEF CleanWorktree
      <4>2. CASE worktree' = Gone /\ cleaned' = TRUE /\ UNCHANGED failure
        BY <2>9, <4>2, ZenonT(60) DEF CleanWorktree
      <4>3. CASE /\ cleaned' = FALSE /\ UNCHANGED worktree
                 /\ failure' = IF failure = None THEN "internal_worker_failure" ELSE failure
        <5>1. failure' \in Failures \cup {None}
          BY <3>1, <4>3, Zenon
        <5> QED
          BY <2>9, <4>3, <5>1 DEF CleanWorktree
      <4> QED
        BY <2>9, <4>1, <4>2, <4>3, Zenon DEF CleanWorktree
  <2>17. CASE CleanCopy
    <3>1. ToldOfCopy \in Failures \cup {None}
      BY DEF ToldOfCopy
    <3> QED
      <4>1. failure' \in Failures \cup {None} /\ copy' \in {copy, FALSE}
        BY <2>17, <3>1, Zenon DEF CleanCopy
      <4> QED
        BY <2>17, <4>1, ZenonT(60) DEF CleanCopy
  <2>10. CASE Save
    <3>1. Status \in {"succeeded", "cancelled", "failed"}
      BY Zenon DEF Status
    <3>2. result' \in Results
      BY <2>10, <3>1 DEF Save, Results
    <3> QED
      BY <2>10, <3>2 DEF Save
  <2>11. CASE AgentEnds
    BY <2>11 DEF AgentEnds
  <2>12. CASE ValidationEnds
    <3>1. passed' \in BOOLEAN \cup {None}
      <4>1. (worktree \in Good) \in BOOLEAN
        OBVIOUS
      <4> QED
        BY <2>12, <4>1 DEF ValidationEnds
    <3> QED
      BY <2>12, <3>1 DEF ValidationEnds
  <2>13. CASE Write \/ Swallowed
    <3>1. cancels' \in 0 .. MaxCancels
      BY <2>13 DEF Write, Swallowed
    <3> QED
      BY <2>13, <3>1, ZenonT(60) DEF Write, Swallowed
  <2>18. ASSUME NEW h \in Helpers, Forks(h) \/ HelperEnds(h) PROVE TypeOK'
    <3>1. helpers' \subseteq Helpers /\ strayed' \in BOOLEAN
      <4>1. CASE Forks(h)
        BY <2>18, <4>1 DEF Forks, Helpers
      <4>2. CASE HelperEnds(h)
        BY <2>18, <4>2 DEF HelperEnds
      <4> QED
        BY <2>18, <4>1, <4>2
    <3> QED
      BY <2>18, <3>1, ZenonT(60) DEF Forks, HelperEnds
  <2>19. CASE StartFails
    BY <2>19 DEF StartFails
  <2>14. CASE Cancel
    BY <2>14 DEF Cancel
  <2>15. CASE TaskCancelled
    <3>1. child' \in BOOLEAN
      BY <2>15, AgentLeftEnds DEF TaskCancelled
    <3>2. cancels' \in 0 .. MaxCancels
      <4>1. cancels < MaxCancels /\ cancels' = cancels + 1
        BY <2>15, Zenon DEF TaskCancelled
      <4> QED
        BY <4>1
    <3>3. failure' \in Failures \cup {None} /\ passed' \in BOOLEAN \cup {None}
      BY <2>15 DEF TaskCancelled
    <3>4. event' \in BOOLEAN
      BY <2>15 DEF TaskCancelled
    <3> QED
      BY <2>15, <3>1, <3>2, <3>3, <3>4 DEF TaskCancelled
  <2>16. CASE UNCHANGED vars
    BY <2>16 DEF vars
  <2> QED
    BY <2>1, <2>2, <2>3, <2>4, <2>5, <2>6, <2>7, <2>8, <2>9, <2>10, <2>11, <2>12, <2>13, <2>14,
       <2>15, <2>16, <2>17, <2>18, <2>19 DEF Next, Run, Done
<1>3. Init => Placed
  BY DEF Init, Placed, Waiting
<1>4. Placed /\ [Next]_vars => Placed'
  BY WorktreeStays
<1> QED
  BY <1>1, <1>2, <1>3, <1>4, PTL DEF Spec

\* A job that succeeded passed its validation and left neither worktree nor copy behind, and it saved
\* the patch that the validation was given if nothing that the agent started left its process group
\* (CodingExecutor.execute).
THEOREM SuccessBacked == Posix => (Spec => []SuccessIsBacked)
<1> SUFFICES ASSUME Posix PROVE Spec => []SuccessIsBacked
  OBVIOUS
<1>1. Init => IInv
  BY InitHolds
<1>2. IInv /\ [Next]_vars => IInv'
  BY StepHolds
<1>3. IInv => SuccessIsBacked
  BY DEF IInv
<1> QED
  BY <1>1, <1>2, <1>3, PTL DEF Spec
=============================================================================
