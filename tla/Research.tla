------------------------------- MODULE Research -------------------------------
(***************************************************************************)
(* One research task (src/ephy_worker/research.py): plan, search, choice   *)
(* of sources, fetch, extraction of claims, separate review, at most one   *)
(* further round, and the closing of its clients.  The collection runs in  *)
(* the process (gather, acquire) or as jobs of the Manager                 *)
(* (remote_collector.py); all requests draw on one budget (budget.py).     *)
(*                                                                         *)
(* A step is what happens up to the next await.  The task can be cancelled *)
(* and can run out of time at every await.  pc names the await the task    *)
(* stands at, or a point it passes without one; Awaits tells them apart.   *)
(*                                                                         *)
(* A source has one passage.  A claim is represented by the round it was   *)
(* made in (its ids carry that prefix) and a round makes at most one.      *)
(***************************************************************************)
EXTENDS Naturals, FiniteSets, Sequences, SequencesExt

CONSTANTS
    Modes,              \* subset of {"local", "remote"}
    Planned, Gap,       \* texts of the queries of the plan, and of a review
    Urls, Supplied,     \* what searches find, and the urls the user supplied
    MaxQueries, SearchRequests, MaxSources, FetchRequests, ModelRequests,
    InitialSources,     \* sources chosen in the first round, 3 in the second
    Retries,            \* repetitions of a search, of a schema, of a redirect
    Reserved,           \* 3 model requests a second round needs
    Clients,            \* how many are closed: collector, fetcher, search, model
    MaxCancels          \* bound: cancellations by the caller

ASSUME ResearchAssumption ==
    /\ Modes \subseteq {"local", "remote"}
    /\ Supplied \subseteq Urls /\ IsFiniteSet(Urls) /\ IsFiniteSet(Planned \cup Gap)
    /\ {MaxQueries, SearchRequests, MaxSources, FetchRequests, ModelRequests,
        InitialSources} \subseteq Nat \ {0}
    /\ Retries \in Nat /\ Reserved \in Nat /\ Clients \in Nat /\ MaxCancels \in Nat

VARIABLES
    mode, pc, round,
    todo,       \* queries of the round still to be searched
    seen,       \* urls found so far
    fresh,      \* of these, the ones of this round
    chosen,     \* urls of this round still to be fetched
    acquired,   \* the round fetched a readable source
    pending,    \* extraction of this round: what it cites and what of it is real
    followups,  \* queries the review asks for
    budget,     \* counts and keys of the Budget
    sent,       \* history: the requests really made for this task
    job,        \* kind and limits of the Manager's job the task waits for
    known,      \* RemoteCollector: usage of its jobs, and if it has a parent job
    report,     \* what the store saves
    read,       \* history: sources whose passage the model was shown in each round
    toClose,    \* clients not yet closed
    cancels

stage == <<todo, seen, fresh, chosen, acquired, pending, followups>>
collector == <<job, known>>
vars == <<mode, pc, round, stage, budget, sent, collector, report, read, toClose, cancels>>

-----------------------------------------------------------------------------
Kinds == {"search", "fetch", "model"}
Categories == Kinds \cup {"queries", "sources"}
Limit == [search |-> SearchRequests, fetch |-> FetchRequests, model |-> ModelRequests,
          queries |-> MaxQueries, sources |-> MaxSources]
Least(S) == CHOOSE n \in S : \A k \in S : n <= k
Bogus == 0      \* a source id the model made up

NoExtraction == [claim |-> FALSE, ev |-> {}, errors |-> FALSE, shown |-> {}]
NoJob == [kind |-> "none", limit |-> Limit]

Init ==
    /\ mode \in Modes /\ pc = "plan" /\ round = 0
    /\ todo = {} /\ seen = {} /\ fresh = {} /\ chosen = {} /\ acquired = FALSE
    /\ pending = NoExtraction /\ followups = {}
    /\ budget = [count |-> [c \in Categories |-> 0], queries |-> {}, sources |-> {}]
    /\ sent = [k \in Kinds |-> 0]
    /\ job = NoJob
    /\ known = [search |-> 0, fetch |-> 0, parent |-> FALSE]
    /\ report = [sources |-> <<>>, claims |-> {}, gaps |-> FALSE,
                 failures |-> FALSE, state |-> "running", stop |-> "none", answer |-> "none"]
    /\ read = [r \in {0, 1} |-> {}]
    /\ toClose = Clients /\ cancels = 0

-----------------------------------------------------------------------------
\* The budget (budget.py), and how the three clients draw on it.

FitsUntilOver(category, n) == budget.count[category] + n <= Limit[category] + 1
Fits(category, n) == budget.count[category] + n <= Limit[category]
Left(category) == Limit[category] - budget.count[category]
TakenInAdvance(category, n) ==
    [budget EXCEPT !.count[category] = @ + (IF n = 1 /\ Fits(category, 2) THEN 2 ELSE n)]
Taken(category, n) == [budget EXCEPT !.count[category] = @ + n]

\* A request and its repetitions: each is taken from the budget before it is
\* sent, by SearchProvider._json, PublicFetcher._fetch and _BudgetTransport.
Tries(kind) == {n \in 0 .. Retries + 1 : Fits(kind, n)}
Answers == Tries("model") \ {0}
\* The repetitions met the limit, and what was left is spent.
Over(kind) == ~Fits(kind, Retries + 1)
Made(kind, n) == sent' = [sent EXCEPT ![kind] = @ + n]
Spend(kind, n) == budget' = Taken(kind, n) /\ Made(kind, n)

-----------------------------------------------------------------------------
\* The report.

Checked == {c \in report.claims : c.checked}
Usable == {c \in Checked : c.status # "insufficient"}
Sids == {report.sources[i].sid : i \in DOMAIN report.sources}
Readable == {report.sources[i].sid : i \in {k \in DOMAIN report.sources : report.sources[k].ok}}
\* Ids that name one source only: validate_extraction refuses the others.
Unambiguous == {s \in Sids : Cardinality({i \in DOMAIN report.sources :
                                              report.sources[i].sid = s}) = 1}
Failed(b) == [report EXCEPT !.failures = @ \/ b]

\* The handlers of run for what ends _execute early.
Stop(why) ==
    /\ pc' = "closing"
    /\ report' = [report EXCEPT
           !.state = IF why = "cancelled" THEN "cancelled"
                     ELSE IF Checked # {} THEN "partial" ELSE "failed",
           !.stop = why,
           !.failures = @ \/ why # "cancelled"]

Finish(r, why) ==
    /\ pc' = "closing"
    /\ report' = [r EXCEPT
           !.state = IF Usable = {} THEN "failed"
                     ELSE IF r.failures THEN "partial" ELSE "completed",
           !.stop = why]

-----------------------------------------------------------------------------
\* Choice of the sources (select_candidates), for both ways to collect.

Found == fresh \cup (IF round = 0 THEN Supplied \ seen ELSE {})
Available == Found \ budget.sources
Target ==
    Least({IF round = 0 THEN InitialSources ELSE 3,
           MaxSources - Cardinality(budget.sources), Cardinality(Available)})
\* The user's urls come first.
First == IF round = 0 THEN Supplied \cap Available ELSE {}
Selections ==
    {S \in SUBSET Available :
        /\ Cardinality(S) = Target
        /\ IF Cardinality(First) >= Target THEN S \subseteq First ELSE First \subseteq S}
AsksModel == Cardinality(First) < Target

\* Where the task awaits something: it may be cancelled or time out there.
Awaits ==
    \/ pc \in {"plan", "submit search", "submit extract", "wait", "repair", "review"}
    \/ pc = "gather" /\ todo # {}
    \/ pc = "select" /\ AsksModel
    \/ pc = "fetch" /\ chosen # {}
    \/ pc = "extract" /\ Readable # {}

Search == IF mode = "local" THEN "gather" ELSE "submit search"

Plan ==
    /\ pc = "plan"
    /\ \E n \in Answers : Spend("model", n)
    /\ todo' = Planned /\ pc' = Search
    /\ UNCHANGED <<mode, round, seen, fresh, chosen, acquired, pending, followups, collector,
                   report, read, toClose, cancels>>

\* No answer, an answer that stays unusable, or a plan without its three roles.
CallFails ==
    /\ pc \in {"plan", "select", "extract", "review", "repair"} /\ Awaits
    /\ \/ /\ pc # "repair"
          /\ \E n \in Tries("model") : Spend("model", n)
          /\ Stop("stage_failed")
       \/ Over("model") /\ Spend("model", Left("model")) /\ Stop("budget")
    /\ UNCHANGED <<mode, round, stage, collector, read, toClose, cancels>>

Select ==
    /\ pc = "select"
    /\ IF AsksModel THEN \E n \in Answers : Spend("model", n)
                    ELSE UNCHANGED <<budget, sent>>
    /\ \E S \in Selections, unknown \in BOOLEAN :
         /\ chosen' = S
         /\ report' = Failed(AsksModel /\ unknown)
         /\ pc' = IF mode = "local" THEN "fetch"
                  ELSE IF S # {} THEN "submit extract"
                  ELSE IF round = 0 THEN "extract" ELSE "close round"
    /\ seen' = seen \cup Found /\ fresh' = {} /\ acquired' = FALSE
    /\ UNCHANGED <<mode, round, todo, pending, followups, collector, read, toClose, cancels>>

-----------------------------------------------------------------------------
\* Collection in the process: gather and acquire, one query or url at a time.

\* What SearchProvider.search may return, and how its attempts may end.
Hits == SUBSET Urls
Searching(n, F, how) ==
    /\ how = "ok" => n > 0
    /\ how # "ok" => F = {}
    /\ how = "over" => Over("search") /\ n = Left("search")

Gather ==
    /\ pc = "gather" /\ todo # {}
    /\ \E q \in todo :
         /\ todo' = todo \ {q}
         /\ \/ UNCHANGED <<pc, seen, fresh, budget, sent>> /\ report' = Failed(TRUE)  \* private
            \/ /\ q \in budget.queries
               /\ UNCHANGED <<pc, seen, fresh, budget, sent, report>>
            \/ /\ q \notin budget.queries /\ ~Fits("queries", 1)
               /\ Stop("budget") /\ UNCHANGED <<seen, fresh, budget, sent>>
            \/ /\ q \notin budget.queries /\ Fits("queries", 1)
               /\ \E n \in Tries("search"), F \in Hits, how \in {"ok", "failed", "over"} :
                    /\ Searching(n, F, how)
                    /\ budget' = [Taken("search", n) EXCEPT !.count.queries = @ + 1,
                                                            !.queries = @ \cup {q}]
                    /\ Made("search", n)
                    /\ fresh' = fresh \cup (F \ seen) /\ seen' = seen \cup F
                    /\ IF how = "over" THEN Stop("budget")
                       ELSE report' = Failed(how = "failed") /\ UNCHANGED pc
    /\ UNCHANGED <<mode, round, chosen, acquired, pending, followups, collector, read,
                   toClose, cancels>>

Gathered ==
    /\ pc = "gather" /\ todo = {}
    /\ pc' = "select"
    /\ UNCHANGED <<mode, round, stage, budget, sent, collector, report, read, toClose, cancels>>

NewSource(u, ok) == [sid |-> Len(report.sources) + 1, url |-> u, ok |-> ok]

\* PublicFetcher turns every failure into a source with a status, "partial" if
\* there is something to read all the same; a limit of the requests or bytes of
\* the task ends the task.
FetchEnds == {"ok", "partial", "bad", "over"}
HasPassages(how) == how \in {"ok", "partial"}
Fetching(n, how) ==
    /\ HasPassages(how) => n > 0
    /\ how = "over" => Over("fetch") /\ n = Left("fetch")

Fetch ==
    /\ pc = "fetch" /\ chosen # {}
    /\ \E u \in chosen, n \in Tries("fetch"), how \in FetchEnds :
         /\ Fetching(n, how)
         /\ chosen' = chosen \ {u}
         /\ budget' = [Taken("fetch", n) EXCEPT !.count.sources = @ + 1, !.sources = @ \cup {u}]
         /\ Made("fetch", n)
         /\ acquired' = (acquired \/ HasPassages(how))
         /\ LET r == [Failed(how # "ok") EXCEPT
                        !.sources = Append(@, NewSource(u, HasPassages(how)))]
            IN IF how = "over"
               THEN /\ pc' = "closing"
                    /\ report' = [r EXCEPT !.state = IF Checked # {} THEN "partial" ELSE "failed",
                                           !.stop = "budget"]
               ELSE report' = r /\ UNCHANGED pc
    /\ UNCHANGED <<mode, round, todo, seen, fresh, pending, followups, collector, read,
                   toClose, cancels>>

Fetched ==
    /\ pc = "fetch" /\ chosen = {}
    /\ pc' = IF round = 0 \/ acquired THEN "extract" ELSE "close round"
    /\ UNCHANGED <<mode, round, stage, budget, sent, collector, report, read, toClose, cancels>>

-----------------------------------------------------------------------------
\* Collection by jobs of the Manager (remote_collector.py).  A job searches or
\* fetches with a budget of its own, which the Manager compares with what the
\* first job of the task has left.

Most(S) == CHOOSE n \in S : \A k \in S : k <= n
RemainingLimits ==
    [search |-> Most({1, SearchRequests - known.search}),
     queries |-> Most({1, MaxQueries - known.search}),
     fetch |-> Most({1, FetchRequests - known.fetch}),
     sources |-> Most({1, MaxSources - known.fetch})]
Exhausted ==
    \/ pc = "submit search" /\ known.search >= Least({MaxQueries, SearchRequests})
    \/ pc = "submit extract" /\ known.fetch >= Least({MaxSources, FetchRequests})
\* Manager._validate_child_allocation
ChildAccepted(l) ==
    known.parent =>
        /\ known.search + l.search <= SearchRequests /\ known.search + l.queries <= MaxQueries
        /\ known.fetch + l.fetch <= FetchRequests /\ known.fetch + l.sources <= MaxSources

Submitting == pc \in {"submit search", "submit extract"}
Acceptable == ~Exhausted /\ ChildAccepted(RemainingLimits)
Request ==
    [kind |-> IF pc = "submit search" THEN "search" ELSE "fetch", limit |-> RemainingLimits]

Submit ==
    /\ Submitting /\ Acceptable
    /\ job' = Request
    /\ pc' = "wait"
    /\ UNCHANGED <<mode, round, stage, budget, sent, known, report, read, toClose, cancels>>

\* The Manager accepted the job and the task does not learn of it: the job
\* spends what it was allowed all the same.
Unheard ==
    /\ Submitting /\ Acceptable
    /\ \E n \in 0 .. Request.limit[Request.kind] : Made(Request.kind, n)

\* Exhausted, refused by the Manager, not delivered, or the reply was lost.
SubmitFails ==
    /\ Submitting
    /\ Stop("stage_failed")
    /\ UNCHANGED sent \/ Unheard
    /\ UNCHANGED <<mode, round, stage, budget, collector, read, toClose, cancels>>

\* What the job has spent when it is over: it may still be running when the
\* task stops to wait for it, and spends its budget all the same.
Worked(n) == n <= job.limit[job.kind] /\ Made(job.kind, n)

\* It ended failed, cancelled or lost, or was polled for too long.
JobFails ==
    /\ pc = "wait"
    /\ \E n \in 0 .. job.limit[job.kind] : Worked(n)
    /\ Stop("stage_failed")
    /\ job' = NoJob
    /\ UNCHANGED <<mode, round, stage, budget, known, read, toClose, cancels>>

\* The worker searches the queries Q, refuses the private ones, and stops at the
\* limits of the job (run_search_stage).
SearchStage(Q, private, F, n, failed) ==
    /\ Cardinality(Q) <= Least({n, job.limit.queries})
    /\ n <= Cardinality(Q) * (Retries + 1)
    /\ Q = {} => F = {}
    /\ private # {} \/ Q # todo => failed
\* It gets the sources G, of which ok are readable; finals are the urls they
\* were redirected to (run_extract_stage).
ExtractStage(G, ok, finals, n, failed) ==
    /\ Cardinality(G) <= job.limit.sources
    /\ Cardinality(ok) <= n /\ n <= Cardinality(G) * (Retries + 1)
    /\ Cardinality(finals) <= Cardinality(G) /\ (G = {}) = (finals = {})
    /\ ok # chosen => failed

\* _absorb_search: the usage is taken from the budget when it has been spent.
AbsorbSearch(Q, private, F, n, failed) ==
    LET entries == Cardinality(Q) + Cardinality(private) IN
    \/ ~Fits("search", n) /\ Stop("budget") /\ UNCHANGED <<budget, seen, fresh, todo>>
    \/ /\ Fits("search", n) /\ ~Fits("queries", entries) /\ Stop("budget")
       /\ budget' = Taken("search", n)
       /\ UNCHANGED <<seen, fresh, todo>>
    \/ /\ Fits("search", n) /\ Fits("queries", entries)
       /\ budget' = [Taken("search", n) EXCEPT !.count.queries = @ + entries,
                                               !.queries = @ \cup (Q \cup private)]
       /\ fresh' = F \ seen /\ seen' = seen \cup F /\ todo' = {}
       /\ report' = Failed(failed) /\ pc' = "select"

SearchArrives ==
    /\ pc = "wait" /\ job.kind = "search"
    /\ \E Q \in SUBSET todo, F \in Hits, n \in 0 .. job.limit.search, failed \in BOOLEAN :
         \E private \in SUBSET (todo \ Q) :
           /\ SearchStage(Q, private, F, n, failed)
           /\ Worked(n) /\ job' = NoJob
           /\ known' = [known EXCEPT !.search = @ + n, !.parent = TRUE]
           /\ AbsorbSearch(Q, private, F, n, failed)
    /\ UNCHANGED <<mode, round, chosen, acquired, pending, followups, read, toClose, cancels>>

\* _absorb_extract: the worker numbers its sources s1, s2, ..., the report goes
\* on with its own numbers.
NumberedByWorker(i) == i
Renumbered(i) == Len(report.sources) + i
NewSources(G, ok) ==
    LET got == SetToSeq(G)
    IN [i \in DOMAIN got |-> [sid |-> Renumbered(i), url |-> got[i], ok |-> got[i] \in ok]]

AbsorbExtract(G, ok, finals, n, failed) ==
    \/ ~Fits("fetch", n) /\ Stop("budget") /\ UNCHANGED <<budget, acquired, chosen>>
    \/ /\ Fits("fetch", n) /\ ~Fits("sources", Cardinality(G)) /\ Stop("budget")
       /\ budget' = Taken("fetch", n)
       /\ UNCHANGED <<acquired, chosen>>
    \/ /\ Fits("fetch", n) /\ Fits("sources", Cardinality(G))
       /\ budget' = [Taken("fetch", n) EXCEPT !.count.sources = @ + Cardinality(G),
                                              !.sources = @ \cup finals]
       /\ report' = [Failed(failed) EXCEPT !.sources = @ \o NewSources(G, ok)]
       /\ acquired' = (ok # {}) /\ chosen' = {}
       /\ pc' = IF round = 0 \/ ok # {} THEN "extract" ELSE "close round"

ExtractArrives ==
    /\ pc = "wait" /\ job.kind = "fetch"
    /\ \E G \in SUBSET chosen, n \in 0 .. job.limit.fetch, failed \in BOOLEAN :
         \E ok \in SUBSET G, finals \in SUBSET Urls :
           /\ ExtractStage(G, ok, finals, n, failed)
           /\ Worked(n) /\ job' = NoJob
           /\ known' = [known EXCEPT !.fetch = @ + n, !.parent = TRUE]
           /\ AbsorbExtract(G, ok, finals, n, failed)
    /\ UNCHANGED <<mode, round, todo, seen, fresh, pending, followups, read, toClose, cancels>>

-----------------------------------------------------------------------------
\* examine: extraction of claims, one repair of their quotes, separate review.

\* Only a quote of a passage that the model was shown in this round is kept.
RealQuotes(cited, shown) == cited \cap shown \cap Unambiguous
Extraction(claim, cited, shown) ==
    LET ev == RealQuotes(cited, shown)
    IN [claim |-> claim, ev |-> ev, errors |-> cited # ev, shown |-> shown]
\* What the model may answer: no claim, or one that cites some ids.
Extractions(shown) ==
    {NoExtraction} \cup {Extraction(TRUE, cited, shown) : cited \in SUBSET (Sids \cup {Bogus})}

\* select_passages ranks the passages, and call drops the last of them while the
\* context of the model has no room: at least one is shown.
Shown == (SUBSET Readable) \ {{}}

NothingToRead ==
    /\ pc = "extract" /\ Readable = {}
    /\ report' = [report EXCEPT !.gaps = TRUE]
    /\ pc' = "close round"
    /\ UNCHANGED <<mode, round, stage, budget, sent, collector, read, toClose, cancels>>

Extract ==
    /\ pc = "extract"
    /\ \E n \in Answers : Spend("model", n)
    /\ \E shown \in Shown :
         /\ read' = [read EXCEPT ![round] = shown]
         /\ \E x \in Extractions(shown) :
              /\ pending' = [x EXCEPT !.shown = shown]
              /\ pc' = IF x.errors /\ ModelRequests - budget'.count.model >= 2
                       THEN "repair" ELSE "settle"
    /\ UNCHANGED <<mode, round, todo, seen, fresh, chosen, acquired, followups, collector,
                   report, toClose, cancels>>

Repair ==
    /\ pc = "repair"
    /\ report' = Failed(TRUE) /\ pc' = "settle"
    /\ \/ /\ \E n \in Answers : Spend("model", n)
          /\ \E x \in Extractions(pending.shown) :
               pending' = IF Cardinality(x.ev) >= Cardinality(pending.ev)
                          THEN [x EXCEPT !.shown = pending.shown] ELSE pending
       \/ /\ \E n \in Tries("model") : Spend("model", n)    \* ModelError
          /\ UNCHANGED pending
    /\ UNCHANGED <<mode, round, todo, seen, fresh, chosen, acquired, followups, collector,
                   read, toClose, cancels>>

NewClaim(checked, status) ==
    [round |-> round, checked |-> checked, status |-> status, ev |-> pending.ev]

\* Claims stay unchecked until their review, and never replace reviewed ones.
Proposed == IF report.claims = {} THEN {NewClaim(FALSE, "insufficient")} ELSE report.claims

Settle ==
    /\ pc = "settle"
    /\ \E more \in BOOLEAN :
         report' = [Failed(pending.errors) EXCEPT
                      !.claims = IF pending.claim THEN Proposed ELSE @,
                      !.gaps = @ \/ more \/ pending.errors]
    /\ pc' = IF pending.claim THEN "review" ELSE "close round"
    /\ UNCHANGED <<mode, round, stage, budget, sent, collector, read, toClose, cancels>>

\* What apply_review can make of a claim: without its check it stays unchecked,
\* a status other than insufficient needs evidence, a conflict two pieces of it.
Verdicts ==
    {NewClaim(FALSE, "insufficient"), NewClaim(TRUE, "insufficient")}
    \cup {NewClaim(TRUE, s) : s \in IF pending.ev = {} THEN {} ELSE {"supported", "refuted"}}
    \cup {NewClaim(TRUE, s) : s \in IF Cardinality(pending.ev) < 2 THEN {} ELSE {"conflicting"}}

Reviewed(claim) == IF round = 0 THEN {claim} ELSE report.claims \cup {claim}

Review ==
    /\ pc = "review"
    /\ \E n \in Answers : Spend("model", n)
    /\ \E claim \in Verdicts, more \in BOOLEAN, asked \in SUBSET Gap :
         /\ report' = [report EXCEPT !.claims = Reviewed(claim), !.gaps = @ \/ more]
         /\ followups' = asked
    /\ pc' = "close round"
    /\ UNCHANGED <<mode, round, todo, seen, fresh, chosen, acquired, pending, collector,
                   read, toClose, cancels>>

-----------------------------------------------------------------------------
\* The end of a round and of the task.

NextRound ==
    /\ pc = "close round" /\ round = 0 /\ followups # {}
    /\ budget.count.model + Reserved <= ModelRequests
    \* Proposals without a reason or with another role are dropped.
    /\ \E kept \in SUBSET followups :
         /\ todo' = kept
         /\ IF mode = "remote" /\ kept = {}
            THEN Finish(report, "done") /\ UNCHANGED round
            ELSE pc' = Search /\ round' = 1 /\ UNCHANGED report
    /\ followups' = {} /\ pending' = NoExtraction /\ acquired' = FALSE
    /\ UNCHANGED <<mode, seen, fresh, chosen, budget, sent, collector, read, toClose, cancels>>

NoNextRound ==
    /\ pc = "close round" /\ round = 0 /\ followups # {}
    /\ budget.count.model + Reserved > ModelRequests
    /\ Stop("budget")
    /\ UNCHANGED <<mode, round, stage, budget, sent, collector, read, toClose, cancels>>

LastRound ==
    /\ pc = "close round" /\ (round = 1 \/ followups = {})
    /\ Finish(report, "done")
    /\ UNCHANGED <<mode, round, stage, budget, sent, collector, read, toClose, cancels>>

\* The timeout around _execute, or a cancellation; a job that is waited for goes
\* on, and so does one whose submission is under way.
Abandon(why) ==
    /\ Awaits
    /\ Stop(why)
    /\ IF pc = "wait" THEN \E n \in 0 .. job.limit[job.kind] : Worked(n)
       ELSE UNCHANGED sent \/ Unheard
    /\ job' = NoJob

TimeOut ==
    /\ Abandon("job_timeout")
    /\ UNCHANGED <<mode, round, stage, budget, known, read, toClose, cancels>>

Cancel ==
    /\ cancels < MaxCancels /\ cancels' = cancels + 1
    /\ Abandon("cancelled")
    /\ UNCHANGED <<mode, round, stage, budget, known, read, toClose>>

Degraded(state) == IF state = "completed" THEN "partial" ELSE state

CloseClient ==
    /\ pc = "closing" /\ toClose > 0
    /\ toClose' = toClose - 1
    /\ \/ UNCHANGED report
       \/ report' = [Failed(TRUE) EXCEPT !.state = Degraded(@)]
    /\ UNCHANGED <<mode, pc, round, stage, budget, sent, collector, read, cancels>>

\* A cancellation is no Exception: it leaves the finally block before the save.
CancelledWhileClosing ==
    /\ pc = "closing" /\ toClose > 0
    /\ cancels < MaxCancels /\ cancels' = cancels + 1
    /\ pc' = "unsaved"
    /\ UNCHANGED <<mode, round, stage, budget, sent, collector, report, read, toClose>>

UnresolvedIfChecked ==
    report.gaps \/ \E c \in Checked : c.status = "insufficient"
Unresolved ==
    report.gaps \/ \E c \in report.claims : c.status \in {"insufficient", "conflicting"}
Save ==
    /\ pc = "closing" /\ toClose = 0
    /\ pc' = "saved"
    /\ report' = [report EXCEPT
           !.answer = IF Usable = {} THEN "unresolved"
                      ELSE IF ~Unresolved /\ report.state = "completed" THEN "sufficient"
                      ELSE "limited"]
    /\ UNCHANGED <<mode, round, stage, budget, sent, collector, read, toClose, cancels>>

Next ==
    \/ Plan \/ CallFails \/ Select
    \/ Gather \/ Gathered \/ Fetch \/ Fetched
    \/ Submit \/ SubmitFails \/ JobFails \/ SearchArrives \/ ExtractArrives
    \/ NothingToRead \/ Extract \/ Repair \/ Settle \/ Review
    \/ NextRound \/ NoNextRound \/ LastRound
    \/ TimeOut \/ Cancel
    \/ CloseClient \/ CancelledWhileClosing \/ Save

Spec == Init /\ [][Next]_vars

-----------------------------------------------------------------------------
(***************************************************************************)
(* Properties.                                                             *)
(***************************************************************************)

\* All requests made for the task stay within its limits: repetitions, calls
\* that failed, and jobs that go on when nobody waits for them included
\* (Budget.take, RemoteCollector._payload_base, _remaining_limits).
RequestsWithinLimits == \A k \in Kinds : sent[k] <= Limit[k]

\* A task that came to its own end counts every request it made, those of the
\* jobs included (_absorb_search, _absorb_extract, metrics of the report).
SpentIsReported ==
    pc = "saved" /\ report.stop = "done" => \A k \in Kinds : sent[k] = budget.count[k]

\* What a claim of the report cites was shown to the model in the round of that
\* claim, and the id names one source of the report, however the rounds and
\* jobs numbered theirs (validate_extraction, _absorb_extract).
CitationsWereRead ==
    \A c \in report.claims : \A s \in c.ev :
        s \in read[c.round] /\ s \in Unambiguous /\ s \in Readable

\* A complete report had no failure, closing its clients included; it calls
\* the question answered only when no gap and no claim of any round is open.
VerdictHonest ==
    /\ report.state = "completed" => Usable # {} /\ ~report.failures
    /\ report.answer = "sufficient" =>
         /\ report.state = "completed" /\ ~report.gaps
         /\ \A c \in report.claims : c.checked /\ c.status \in {"supported", "refuted"}
=============================================================================
