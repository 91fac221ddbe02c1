--------------------------- MODULE ResearchProofs ---------------------------
(***************************************************************************)
(* Theorems about a research task for any limits, any set of urls and      *)
(* queries, both ways to collect, and any number of cancellations.         *)
(***************************************************************************)
EXTENDS Research, SequenceTheorems, FiniteSetTheorems, TLAPS

-----------------------------------------------------------------------------
\* Types.

Source == [sid : Nat, url : Urls, ok : BOOLEAN]
Claim == [round : {0, 1}, checked : BOOLEAN,
          status : {"insufficient", "supported", "refuted", "conflicting"}, ev : SUBSET Nat]
Extracted == [claim : BOOLEAN, ev : SUBSET Nat, errors : BOOLEAN, shown : SUBSET Nat]
Reports == [sources : Seq(Source), claims : SUBSET Claim, gaps : BOOLEAN, failures : BOOLEAN,
            state : {"running", "cancelled", "partial", "failed", "completed"},
            stop : {"none", "done", "cancelled", "stage_failed", "budget", "job_timeout"},
            answer : {"none", "unresolved", "sufficient", "limited"}]

Budgets == [count : [Categories -> Nat], queries : SUBSET (Planned \cup Gap), sources : SUBSET Urls]

StageTyped ==
    /\ mode \in {"local", "remote"} /\ round \in {0, 1}
    /\ todo \subseteq Planned \cup Gap /\ followups \subseteq Gap
    /\ fresh \subseteq Urls /\ chosen \subseteq Urls
    /\ pending \in Extracted
    /\ read \in [{0, 1} -> SUBSET Nat]
SpentTyped ==
    /\ budget \in Budgets
    /\ sent \in [Kinds -> Nat]
    /\ known \in [search : Nat, fetch : Nat, parent : BOOLEAN]
Typed == StageTyped /\ SpentTyped /\ report \in Reports

-----------------------------------------------------------------------------
\* Requests.

Ended == {"closing", "saved", "unsaved"}
Running == pc \notin Ended

WaysApart ==
    /\ pc \in {"gather", "fetch"} => mode = "local"
    /\ pc \in {"submit search", "submit extract", "wait"} => mode = "remote"
WithinLimits == \A k \in Kinds : sent[k] <= Limit[k]
AllCounted ==
    Running \/ report.stop = "done" => \A k \in Kinds : sent[k] = budget.count[k]
JobsCounted ==
    /\ Running /\ mode = "remote" => known.search = sent["search"] /\ known.fetch = sent["fetch"]
    /\ ~known.parent => known.search = 0 /\ known.fetch = 0
JobWithinLimits ==
    pc = "wait" =>
        /\ job.kind \in {"search", "fetch"}
        /\ job.limit[job.kind] \in Nat
        /\ known[job.kind] + job.limit[job.kind] <= Limit[job.kind]
Counting == WaysApart /\ WithinLimits /\ AllCounted /\ JobsCounted /\ JobWithinLimits

-----------------------------------------------------------------------------
\* The verdict.

NeverUnchecked(r) == \A c \in r.claims : ~c.checked => c.status = "insufficient"
Judging ==
    /\ Running => report.state = "running"
    /\ pc # "saved" => report.answer = "none"
    /\ NeverUnchecked(report)
    /\ report.state = "completed" => Usable # {} /\ ~report.failures
    /\ report.answer = "sufficient" => report.state = "completed" /\ ~Unresolved

-----------------------------------------------------------------------------
\* Citations.

Unsettled == {"plan", "gather", "submit search", "select", "fetch", "submit extract", "wait",
              "extract", "repair", "settle"}
Cites == {"repair", "settle", "review"}
SidsInOrder == \A i \in DOMAIN report.sources : report.sources[i].sid = i
ClaimsRead ==
    \A c \in report.claims : c.round <= round /\ c.ev \subseteq read[c.round] \cap Readable
ClaimsOfRoundsBefore == pc \in Unsettled => \A c \in report.claims : c.round < round
PendingRead ==
    pc \in Cites =>
        /\ pending.shown = read[round] /\ pending.shown \subseteq Readable
        /\ pending.ev \subseteq pending.shown
Reading == SidsInOrder /\ ClaimsRead /\ ClaimsOfRoundsBefore /\ PendingRead

-----------------------------------------------------------------------------
\* What the operators yield.

LEMMA MostOf ==
    ASSUME NEW a \in Int, NEW b \in Int
    PROVE  Most({a, b}) \in Int /\ a <= Most({a, b}) /\ b <= Most({a, b}) /\ Most({a, b}) \in {a, b}
<1>1. \E n \in {a, b} : \A k \in {a, b} : k <= n
  OBVIOUS
<1> QED BY <1>1 DEF Most

LEMMA TriesAreNat == \A k \in Kinds : Tries(k) \subseteq Nat
BY ResearchAssumption DEF Tries, Kinds

LEMMA LimitsAreNat == \A k \in Kinds : Limit[k] \in Nat
<1>1. Limit["search"] \in Nat /\ Limit["fetch"] \in Nat /\ Limit["model"] \in Nat
  BY ResearchAssumption DEF Limit
<1> QED BY <1>1 DEF Kinds

\* What is left can be spent as long as the limits are kept.
LEMMA LeftIsNat ==
    ASSUME Typed, Counting, Running, NEW k \in Kinds
    PROVE  Left(k) \in Nat
<1>1. budget.count[k] <= Limit[k] /\ Limit[k] \in Nat /\ budget.count[k] \in Nat
  BY LimitsAreNat DEF Typed, SpentTyped, Budgets, Counting, WithinLimits, AllCounted, Kinds,
     Categories
<1> QED BY <1>1 DEF Left

LEMMA AnswersAreNat == Answers \subseteq Nat \cap Tries("model")
BY TriesAreNat DEF Answers, Kinds

LEMMA TakenTyped ==
    ASSUME SpentTyped, NEW k \in Categories, NEW n \in Nat
    PROVE  /\ Taken(k, n) \in Budgets
           /\ Taken(k, n).count \in [Categories -> Nat]
           /\ Taken(k, n).count = [budget.count EXCEPT ![k] = @ + n]
           /\ Taken(k, n).queries = budget.queries /\ Taken(k, n).sources = budget.sources
BY DEF SpentTyped, Taken, Budgets

LEMMA SpendTyped ==
    ASSUME SpentTyped, NEW k \in Kinds, NEW n \in Nat, Spend(k, n)
    PROVE  budget' \in Budgets /\ sent' \in [Kinds -> Nat]
<1>1. k \in Categories
  BY DEF Categories
<1>2. budget' \in Budgets
  BY <1>1, TakenTyped DEF Spend
<1>3. sent' \in [Kinds -> Nat]
  BY DEF SpentTyped, Spend, Made
<1> QED BY <1>2, <1>3

\* Queries and sources are noted besides, and counted apart from the requests.
WithQueries(b, n, S) == [b EXCEPT !.count.queries = @ + n, !.queries = @ \cup S]
WithSources(b, n, S) == [b EXCEPT !.count.sources = @ + n, !.sources = @ \cup S]

LEMMA WithQueriesTyped ==
    ASSUME NEW b \in Budgets, NEW n \in Nat, NEW S \in SUBSET (Planned \cup Gap)
    PROVE  /\ WithQueries(b, n, S) \in Budgets
           /\ \A k \in Kinds : WithQueries(b, n, S).count[k] = b.count[k]
<1> DEFINE d == [b EXCEPT !.count.queries = @ + n]
<1>1. d \in Budgets /\ d.count = [b.count EXCEPT !.queries = @ + n]
  BY DEF Budgets, Categories
<1>2. WithQueries(b, n, S) = [d EXCEPT !.queries = @ \cup S]
  BY DEF WithQueries, Budgets
<1>3. \A k \in Kinds : d.count[k] = b.count[k]
  BY <1>1 DEF Budgets, Categories, Kinds
<1> HIDE DEF d
<1> QED BY <1>1, <1>2, <1>3 DEF Budgets

LEMMA WithSourcesTyped ==
    ASSUME NEW b \in Budgets, NEW n \in Nat, NEW S \in SUBSET Urls
    PROVE  /\ WithSources(b, n, S) \in Budgets
           /\ \A k \in Kinds : WithSources(b, n, S).count[k] = b.count[k]
<1> DEFINE d == [b EXCEPT !.count.sources = @ + n]
<1>1. d \in Budgets /\ d.count = [b.count EXCEPT !.sources = @ + n]
  BY DEF Budgets, Categories
<1>2. WithSources(b, n, S) = [d EXCEPT !.sources = @ \cup S]
  BY DEF WithSources, Budgets
<1>3. \A k \in Kinds : d.count[k] = b.count[k]
  BY <1>1 DEF Budgets, Categories, Kinds
<1> HIDE DEF d
<1> QED BY <1>1, <1>2, <1>3 DEF Budgets

\* The budget after n requests of kind k.
Counts(b, k, n) == \A c \in Kinds : b.count[c] = IF c = k THEN budget.count[c] + n ELSE budget.count[c]

LEMMA NotedTyped ==
    ASSUME SpentTyped, NEW k \in Kinds, NEW n \in Nat, NEW m \in Nat
    PROVE  /\ Counts(Taken(k, n), k, n)
           /\ \A S \in SUBSET (Planned \cup Gap) :
                 LET b == WithQueries(Taken(k, n), m, S) IN b \in Budgets /\ Counts(b, k, n)
           /\ \A S \in SUBSET Urls :
                 LET b == WithSources(Taken(k, n), m, S) IN b \in Budgets /\ Counts(b, k, n)
<1>1. k \in Categories
  BY DEF Categories
<1>2. /\ Taken(k, n) \in Budgets
      /\ Taken(k, n).count = [budget.count EXCEPT ![k] = @ + n]
  BY <1>1, TakenTyped
<1>3. \A c \in Kinds : Taken(k, n).count[c] = IF c = k THEN budget.count[c] + n ELSE budget.count[c]
  BY <1>2 DEF SpentTyped, Budgets, Categories
<1> DEFINE t == Taken(k, n)
<1>4. t \in Budgets /\ \A c \in Kinds : t.count[c] = IF c = k THEN budget.count[c] + n ELSE budget.count[c]
  BY <1>2, <1>3
<1> HIDE DEF t
<1>5. Counts(t, k, n)
  BY <1>4 DEF Counts
<1>6. ASSUME NEW S \in SUBSET (Planned \cup Gap)
      PROVE  WithQueries(t, m, S) \in Budgets /\ Counts(WithQueries(t, m, S), k, n)
  BY <1>4, WithQueriesTyped DEF Counts
<1>7. ASSUME NEW S \in SUBSET Urls
      PROVE  WithSources(t, m, S) \in Budgets /\ Counts(WithSources(t, m, S), k, n)
  BY <1>4, WithSourcesTyped DEF Counts
<1> QED BY <1>5, <1>6, <1>7 DEF t

LEMMA StopTyped ==
    ASSUME report \in Reports,
           NEW why \in {"cancelled", "stage_failed", "budget", "job_timeout"}, Stop(why)
    PROVE  report' \in Reports
BY DEF Reports, Stop

LEMMA FinishTyped ==
    ASSUME NEW r \in Reports, Finish(r, "done")
    PROVE  report' \in Reports
BY DEF Reports, Finish

LEMMA FailedTyped == ASSUME report \in Reports, NEW b \in BOOLEAN PROVE Failed(b) \in Reports
BY DEF Reports, Failed

-----------------------------------------------------------------------------
LEMMA ExtractionTyped ==
    ASSUME Typed, NEW shown \in SUBSET Nat, NEW x \in Extractions(shown)
    PROVE  x \in Extracted /\ x.ev \subseteq shown /\ [x EXCEPT !.shown = shown] \in Extracted
<1>1. CASE x = NoExtraction
  BY <1>1 DEF NoExtraction, Extracted
<1>2. ASSUME NEW cited, x = Extraction(TRUE, cited, shown)
      PROVE  x \in Extracted /\ x.ev \subseteq shown /\ [x EXCEPT !.shown = shown] \in Extracted
  <2> DEFINE ev == RealQuotes(cited, shown)
  <2>1. ev \subseteq shown
    BY DEF RealQuotes
  <2>2. x = [claim |-> TRUE, ev |-> ev, errors |-> cited # ev, shown |-> shown]
    BY <1>2 DEF Extraction
  <2>3. (cited # ev) \in BOOLEAN
    OBVIOUS
  <2> HIDE DEF ev
  <2> QED BY <2>1, <2>2, <2>3 DEF Extracted
<1> QED BY <1>1, <1>2 DEF Extractions

LEMMA ReadableAreNat == report \in Reports => Readable \subseteq Nat
<1> SUFFICES ASSUME report \in Reports, NEW i \in DOMAIN report.sources
             PROVE  report.sources[i].sid \in Nat
  BY DEF Readable
<1>1. report.sources \in Seq(Source)
  BY DEF Reports
<1>2. report.sources[i] \in Source
  BY <1>1
<1> QED BY <1>2 DEF Source

LEMMA NextStageTyped == Typed /\ [Next]_vars => StageTyped'
<1> SUFFICES ASSUME Typed, [Next]_vars PROVE StageTyped'
  OBVIOUS
<1> USE DEF Typed, StageTyped
<1>1. ASSUME UNCHANGED <<mode, round, todo, followups, fresh, chosen, pending, read>>
      PROVE  StageTyped'
  BY <1>1
<1>2. CASE \/ CallFails \/ Gathered \/ Fetched \/ Submit \/ SubmitFails \/ JobFails
           \/ NothingToRead \/ Settle \/ NoNextRound \/ LastRound
  BY <1>1, <1>2 DEF CallFails, Gathered, Fetched, Submit, SubmitFails, JobFails, NothingToRead,
     Settle, NoNextRound, LastRound, stage
<1>3. CASE TimeOut \/ Cancel \/ CloseClient \/ CancelledWhileClosing \/ Save \/ UNCHANGED vars
  BY <1>1, <1>3 DEF TimeOut, Cancel, CloseClient, CancelledWhileClosing, Save, vars, stage
<1>4. CASE Plan
  BY <1>4 DEF Plan
<1>5. CASE Select
  <2>1. Available \subseteq Urls
    BY ResearchAssumption DEF Available, Found
  <2>2. chosen' \subseteq Available
    BY <1>5 DEF Select, Selections
  <2> QED BY <1>5, <2>1, <2>2 DEF Select
<1>6. CASE Gather
  <2>1. UNCHANGED <<mode, round, chosen, followups, pending, read>> /\ todo' \subseteq todo
    BY <1>6 DEF Gather
  <2>2. \E F \in SUBSET Urls : fresh' \subseteq fresh \cup F
    BY <1>6 DEF Gather, Hits
  <2> QED BY <2>1, <2>2
<1>7. CASE Fetch
  BY <1>7 DEF Fetch
<1>8. CASE SearchArrives
  <2>1. UNCHANGED <<mode, round, chosen, followups, pending, read>>
    BY <1>8 DEF SearchArrives
  <2>2. PICK F \in SUBSET Urls : UNCHANGED <<fresh, todo>> \/ (fresh' = F \ seen /\ todo' = {})
    BY <1>8 DEF SearchArrives, AbsorbSearch, Hits
  <2> QED BY <2>1, <2>2
<1>9. CASE ExtractArrives
  <2>1. chosen' = chosen \/ chosen' = {}
    BY <1>9, ZenonT(60) DEF ExtractArrives, AbsorbExtract
  <2> QED BY <1>9, <2>1 DEF ExtractArrives
<1>10. CASE Extract
  <2>1. PICK shown \in Shown : /\ read' = [read EXCEPT ![round] = shown]
                               /\ \E x \in Extractions(shown) : pending' = [x EXCEPT !.shown = shown]
    BY <1>10 DEF Extract
  <2>2. shown \in SUBSET Nat
    BY ReadableAreNat DEF Shown
  <2>3. pending' \in Extracted
    BY <2>1, <2>2, ExtractionTyped
  <2> QED BY <1>10, <2>1, <2>2, <2>3 DEF Extract
<1>11. CASE Repair
  <2>1. pending.shown \in SUBSET Nat
    BY DEF Extracted
  <2>2. \/ UNCHANGED pending
        \/ \E x \in Extractions(pending.shown) :
              pending' = IF Cardinality(x.ev) >= Cardinality(pending.ev)
                         THEN [x EXCEPT !.shown = pending.shown] ELSE pending
    BY <1>11 DEF Repair
  <2>3. pending' \in Extracted
    BY <2>1, <2>2, ExtractionTyped
  <2> QED BY <1>11, <2>3 DEF Repair
<1>12. CASE Review
  BY <1>12 DEF Review
<1>13. CASE NextRound
  BY <1>13 DEF NextRound, NoExtraction, Extracted
<1> QED BY <1>2, <1>3, <1>4, <1>5, <1>6, <1>7, <1>8, <1>9, <1>10, <1>11, <1>12, <1>13 DEF Next

LEMMA WorkedTyped ==
    ASSUME SpentTyped, job.kind \in Kinds, NEW n \in Nat, Worked(n)
    PROVE  sent' = [sent EXCEPT ![job.kind] = @ + n] /\ sent' \in [Kinds -> Nat]
<1>1. sent' = [sent EXCEPT ![job.kind] = @ + n]
  BY DEF Worked, Made
<1> QED BY <1>1 DEF SpentTyped

\* A list of the members of a finite set.
LEMMA ListTyped ==
    ASSUME NEW S, IsFiniteSet(S)
    PROVE  SetToSeq(S) \in Seq(S) /\ Cardinality(S) \in Nat
<1>1. PICK f \in [1 .. Cardinality(S) -> S] : IsInjective(f)
  <2>1. ExistsBijection(1 .. Cardinality(S), S)
    BY FS_CardinalityType
  <2> QED BY <2>1 DEF ExistsBijection, Bijection, Injection, Surjection, IsInjective
<1>2. SetToSeq(S) \in [1 .. Cardinality(S) -> S]
  BY <1>1 DEF SetToSeq
<1>3. Cardinality(S) \in Nat
  BY FS_CardinalityType
<1> QED BY <1>2, <1>3

\* The number of things found in a finite set of things to look for.
LEMMA CountsAreNat ==
    ASSUME StageTyped
    PROVE  /\ \A Q \in SUBSET (Planned \cup Gap) : Cardinality(Q) \in Nat
           /\ \A G \in SUBSET Urls : Cardinality(G) \in Nat
BY FS_Subset, FS_CardinalityType, ResearchAssumption

LEMMA AbsorbedTyped ==
    ASSUME Typed, NEW n \in Nat
    PROVE  /\ \A Q, p \in SUBSET todo : \A F, failed :
                AbsorbSearch(Q, p, F, n, failed) => budget' \in Budgets
           /\ \A G, finals \in SUBSET Urls : \A ok, failed :
                AbsorbExtract(G, ok, finals, n, failed) => budget' \in Budgets
<1> USE DEF Typed
<1>1. /\ Taken("search", n) \in Budgets
      /\ Taken("fetch", n) \in Budgets
  BY TakenTyped DEF Categories, Kinds
<1>2. ASSUME NEW Q \in SUBSET todo, NEW p \in SUBSET todo, NEW F, NEW failed,
             AbsorbSearch(Q, p, F, n, failed)
      PROVE  budget' \in Budgets
  <2> DEFINE m == Cardinality(Q) + Cardinality(p)
  <2>1. m \in Nat /\ Q \cup p \in SUBSET (Planned \cup Gap)
    BY CountsAreNat DEF StageTyped
  <2>2. CASE budget' = budget \/ budget' = Taken("search", n)
    BY <1>1, <2>2 DEF SpentTyped
  <2>3. CASE budget' = WithQueries(Taken("search", n), m, Q \cup p)
    <3> HIDE DEF m
    <3> QED BY <2>1, <2>3, NotedTyped DEF Kinds
  <2> QED BY <1>2, <2>2, <2>3 DEF AbsorbSearch, WithQueries
<1>3. ASSUME NEW G \in SUBSET Urls, NEW ok, NEW finals \in SUBSET Urls, NEW failed,
             AbsorbExtract(G, ok, finals, n, failed)
      PROVE  budget' \in Budgets
  <2> DEFINE m == Cardinality(G)
  <2>1. m \in Nat
    BY CountsAreNat
  <2>2. CASE budget' = budget \/ budget' = Taken("fetch", n)
    BY <1>1, <2>2 DEF SpentTyped
  <2>3. CASE budget' = WithSources(Taken("fetch", n), m, finals)
    <3> HIDE DEF m
    <3> QED BY <2>1, <2>3, NotedTyped DEF Kinds
  <2> QED BY <1>3, <2>2, <2>3 DEF AbsorbExtract, WithSources
<1> QED BY <1>2, <1>3

LEMMA KnownTyped ==
    ASSUME NEW r \in [search : Nat, fetch : Nat, parent : BOOLEAN], NEW n \in Nat
    PROVE  /\ [r EXCEPT !.search = @ + n, !.parent = TRUE]
                \in [search : Nat, fetch : Nat, parent : BOOLEAN]
           /\ [r EXCEPT !.fetch = @ + n, !.parent = TRUE]
                \in [search : Nat, fetch : Nat, parent : BOOLEAN]
<1> DEFINE s == [r EXCEPT !.search = @ + n]
           f == [r EXCEPT !.fetch = @ + n]
<1>1. /\ s \in [search : Nat, fetch : Nat, parent : BOOLEAN]
      /\ f \in [search : Nat, fetch : Nat, parent : BOOLEAN]
  OBVIOUS
<1>2. /\ [r EXCEPT !.search = @ + n, !.parent = TRUE] = [s EXCEPT !.parent = TRUE]
      /\ [r EXCEPT !.fetch = @ + n, !.parent = TRUE] = [f EXCEPT !.parent = TRUE]
  OBVIOUS
<1> HIDE DEF s, f
<1> QED BY <1>1, <1>2

\* What a job may spend that is submitted now.
LEMMA RemainingTyped ==
    ASSUME SpentTyped
    PROVE  /\ RemainingLimits.search \in Nat /\ RemainingLimits.fetch \in Nat
           /\ RemainingLimits.search \in {1, SearchRequests - known.search}
           /\ RemainingLimits.fetch \in {1, FetchRequests - known.fetch}
<1> DEFINE ls == Most({1, SearchRequests - known.search})
           lf == Most({1, FetchRequests - known.fetch})
<1>1. RemainingLimits.search = ls /\ RemainingLimits.fetch = lf
  BY DEF RemainingLimits
<1>2. SearchRequests - known.search \in Int /\ FetchRequests - known.fetch \in Int
  BY ResearchAssumption DEF SpentTyped
<1>3. \A b \in Int : Most({1, b}) \in Int /\ 1 <= Most({1, b}) /\ Most({1, b}) \in {1, b}
  BY MostOf
<1>4. /\ ls \in Int /\ 1 <= ls /\ ls \in {1, SearchRequests - known.search}
      /\ lf \in Int /\ 1 <= lf /\ lf \in {1, FetchRequests - known.fetch}
  BY <1>2, <1>3
<1> HIDE DEF ls, lf
<1> QED BY <1>1, <1>4

LEMMA UnheardTyped ==
    ASSUME SpentTyped, Unheard
    PROVE  sent' \in [Kinds -> Nat]
<1>1. Request.kind \in {"search", "fetch"} /\ Request.limit = RemainingLimits
  BY DEF Request
<1>2. PICK n \in 0 .. Request.limit[Request.kind] : Made(Request.kind, n)
  BY DEF Unheard
<1>3. RemainingLimits["search"] \in Nat /\ RemainingLimits["fetch"] \in Nat
  BY RemainingTyped
<1>4. n \in Nat /\ Request.kind \in Kinds
  BY <1>1, <1>2, <1>3 DEF Kinds
<1> QED BY <1>2, <1>4 DEF Made, SpentTyped

LEMMA NextSpentTyped == Typed /\ Counting /\ [Next]_vars => SpentTyped'
<1> SUFFICES ASSUME Typed, Counting, [Next]_vars PROVE SpentTyped'
  OBVIOUS
<1> USE DEF Typed
<1>1. ASSUME UNCHANGED <<budget, sent, known>> PROVE SpentTyped'
  BY <1>1 DEF SpentTyped
<1>2. ASSUME NEW n \in Nat, Spend("model", n), known' = known PROVE SpentTyped'
  BY <1>2, SpendTyped DEF SpentTyped, Kinds
<1>3. CASE \/ Gathered \/ Fetched \/ Submit
           \/ NothingToRead \/ Settle \/ NextRound \/ NoNextRound \/ LastRound
  BY <1>1, <1>3 DEF Gathered, Fetched, Submit, NothingToRead,
     Settle, NextRound, NoNextRound, LastRound, collector
<1>4. CASE CloseClient \/ CancelledWhileClosing \/ Save \/ UNCHANGED vars
  BY <1>1, <1>4 DEF CloseClient, CancelledWhileClosing, Save, vars, collector
<1>5. CASE Plan \/ Extract \/ Review
  <2>1. \E n \in Answers : Spend("model", n)
    BY <1>5 DEF Plan, Extract, Review
  <2>2. known' = known
    BY <1>5 DEF Plan, Extract, Review, collector
  <2> QED BY <2>1, <2>2, <1>2, AnswersAreNat
<1>6. CASE CallFails
  <2>1. \E n \in Tries("model") \cup {Left("model")} : Spend("model", n) /\ n \in Nat
    BY <1>6, TriesAreNat, LeftIsNat DEF CallFails, Kinds, Running, Ended
  <2>2. known' = known
    BY <1>6 DEF CallFails, collector
  <2> QED BY <2>1, <2>2, <1>2
<1>7. CASE Repair
  <2>1. \E n \in Tries("model") : Spend("model", n)
    BY <1>7, AnswersAreNat DEF Repair
  <2>2. known' = known
    BY <1>7 DEF Repair, collector
  <2> QED BY <2>1, <2>2, <1>2, TriesAreNat DEF Kinds
<1>8. CASE Select
  <2>1. UNCHANGED <<budget, sent>> \/ \E n \in Answers : Spend("model", n)
    BY <1>8 DEF Select
  <2>2. known' = known
    BY <1>8 DEF Select, collector
  <2> QED BY <2>1, <2>2, <1>1, <1>2, AnswersAreNat
<1>9. CASE Gather
  <2>1. known' = known
    BY <1>9 DEF Gather, collector
  <2>2. CASE UNCHANGED <<budget, sent>>
    BY <1>1, <2>1, <2>2
  <2>3. ASSUME NEW q \in todo, NEW n \in Tries("search"), Made("search", n),
               budget' = [Taken("search", n) EXCEPT !.count.queries = @ + 1, !.queries = @ \cup {q}]
        PROVE  SpentTyped'
    <3>1. n \in Nat /\ "search" \in Kinds /\ "search" \in Categories
      BY TriesAreNat DEF Kinds, Categories
    <3>2. sent' \in [Kinds -> Nat]
      BY <2>3, <3>1 DEF Made, SpentTyped
    <3>3. budget' = WithQueries(Taken("search", n), 1, {q})
      BY <2>3 DEF WithQueries
    <3>4. budget' \in Budgets
      BY <3>1, <3>3, NotedTyped DEF StageTyped
    <3> QED BY <2>1, <3>2, <3>4 DEF SpentTyped
  <2> QED BY <1>9, <2>2, <2>3 DEF Gather
<1>10. CASE Fetch
  <2>1. known' = known
    BY <1>10 DEF Fetch, collector
  <2>2. PICK u \in chosen, n \in Tries("fetch") :
           /\ budget' = [Taken("fetch", n) EXCEPT !.count.sources = @ + 1, !.sources = @ \cup {u}]
           /\ Made("fetch", n)
    BY <1>10 DEF Fetch
  <2>3. n \in Nat /\ "fetch" \in Kinds /\ "fetch" \in Categories
    BY TriesAreNat DEF Kinds, Categories
  <2>4. sent' \in [Kinds -> Nat]
    BY <2>2, <2>3 DEF Made, SpentTyped
  <2>5. budget' = WithSources(Taken("fetch", n), 1, {u})
    BY <2>2 DEF WithSources
  <2>6. budget' \in Budgets
    BY <2>3, <2>5, NotedTyped DEF StageTyped
  <2> QED BY <2>1, <2>4, <2>6 DEF SpentTyped
<1>11. ASSUME pc = "wait", NEW n \in 0 .. job.limit[job.kind], Worked(n)
       PROVE  sent' \in [Kinds -> Nat]
  BY <1>11, WorkedTyped DEF Counting, JobWithinLimits, Kinds
<1>12. CASE JobFails
  BY <1>12, <1>11 DEF JobFails, SpentTyped
<1>13. CASE TimeOut \/ Cancel \/ SubmitFails
  <2>1. UNCHANGED <<budget, known>>
    BY <1>13 DEF TimeOut, Cancel, SubmitFails, collector
  <2>2. \/ sent' = sent \/ Unheard
        \/ pc = "wait" /\ \E n \in 0 .. job.limit[job.kind] : Worked(n)
    BY <1>13 DEF TimeOut, Cancel, Abandon, SubmitFails
  <2>3. Unheard => sent' \in [Kinds -> Nat]
    BY UnheardTyped
  <2> QED BY <2>1, <2>2, <2>3, <1>11 DEF SpentTyped
<1>14. CASE SearchArrives
  <2>1. PICK Q \in SUBSET todo, F \in Hits, n \in 0 .. job.limit.search, failed \in BOOLEAN :
           \E p \in SUBSET (todo \ Q) :
             /\ Worked(n) /\ known' = [known EXCEPT !.search = @ + n, !.parent = TRUE]
             /\ AbsorbSearch(Q, p, F, n, failed)
    BY <1>14, Zenon DEF SearchArrives
  <2>2. job.kind \in Kinds /\ n \in Nat
    BY <1>14, <2>1 DEF SearchArrives, Kinds
  <2>3. budget' \in Budgets /\ sent' \in [Kinds -> Nat]
    <3>1. \A p \in SUBSET (todo \ Q) : p \in SUBSET todo
      OBVIOUS
    <3> QED BY <2>1, <2>2, <3>1, WorkedTyped, AbsorbedTyped
  <2> QED BY <2>1, <2>2, <2>3, KnownTyped DEF SpentTyped
<1>15. CASE ExtractArrives
  <2>1. PICK G \in SUBSET chosen, n \in 0 .. job.limit.fetch, failed \in BOOLEAN :
           \E ok \in SUBSET G, finals \in SUBSET Urls :
             /\ Worked(n) /\ known' = [known EXCEPT !.fetch = @ + n, !.parent = TRUE]
             /\ AbsorbExtract(G, ok, finals, n, failed)
    BY <1>15, Zenon DEF ExtractArrives
  <2>2. job.kind \in Kinds /\ n \in Nat
    BY <1>15, <2>1 DEF ExtractArrives, Kinds
  <2>3. budget' \in Budgets /\ sent' \in [Kinds -> Nat]
    BY <2>1, <2>2, WorkedTyped, AbsorbedTyped DEF StageTyped
  <2> QED BY <2>1, <2>2, <2>3, KnownTyped DEF SpentTyped
<1> QED BY <1>3, <1>4, <1>5, <1>6, <1>7, <1>8, <1>9, <1>10, <1>12, <1>13, <1>14, <1>15 DEF Next

\* What a job fetched goes on with the numbers of the report.
LEMMA NewSourcesTyped ==
    ASSUME report \in Reports, NEW G \in SUBSET Urls, NEW ok
    PROVE  /\ NewSources(G, ok) \in Seq(Source)
           /\ \A i \in DOMAIN NewSources(G, ok) : NewSources(G, ok)[i].sid = Len(report.sources) + i
<1> DEFINE got == SetToSeq(G)
<1>1. got \in Seq(Urls)
  <2>1. got \in Seq(G)
    BY FS_Subset, ListTyped, ResearchAssumption
  <2> HIDE DEF got
  <2> QED BY <2>1
<1>2. Len(report.sources) \in Nat
  BY DEF Reports
<1> DEFINE new == [i \in DOMAIN got |-> [sid |-> Renumbered(i), url |-> got[i], ok |-> got[i] \in ok]]
<1>3. NewSources(G, ok) = new
  BY DEF NewSources
<1> HIDE DEF got
<1>4. \A i \in DOMAIN got : new[i] \in Source /\ new[i].sid = Len(report.sources) + i
  BY <1>1, <1>2 DEF Renumbered, Source
<1>5. DOMAIN got = 1 .. Len(got) /\ Len(got) \in Nat
  BY <1>1
<1>6. new \in Seq(Source)
  <2>1. new \in [1 .. Len(got) -> Source]
    BY <1>4, <1>5
  <2> HIDE DEF new
  <2> QED BY <1>5, <2>1
<1>7. \A i \in DOMAIN new : new[i].sid = Len(report.sources) + i
  BY <1>4
<1> QED BY <1>3, <1>6, <1>7

LEMMA NewClaimTyped ==
    ASSUME StageTyped, NEW b \in BOOLEAN,
           NEW st \in {"insufficient", "supported", "refuted", "conflicting"}
    PROVE  NewClaim(b, st) \in Claim
BY DEF StageTyped, Extracted, NewClaim, Claim

LEMMA VerdictsTyped == StageTyped => Verdicts \subseteq Claim
<1> SUFFICES ASSUME StageTyped, NEW v \in Verdicts PROVE v \in Claim
  OBVIOUS
<1>1. \E b \in BOOLEAN, st \in {"insufficient", "supported", "refuted", "conflicting"} :
         v = NewClaim(b, st)
  BY DEF Verdicts
<1> QED BY <1>1, NewClaimTyped

LEMMA LongerTyped ==
    ASSUME NEW r \in Reports
    PROVE  /\ \A x \in Source : [r EXCEPT !.sources = Append(@, x)] \in Reports
           /\ \A x \in Seq(Source) : [r EXCEPT !.sources = @ \o x] \in Reports
<1>1. r.sources \in Seq(Source)
  BY DEF Reports
<1>2. /\ \A x \in Source : Append(r.sources, x) \in Seq(Source)
      /\ \A x \in Seq(Source) : r.sources \o x \in Seq(Source)
  BY <1>1
<1>3. \A t \in Seq(Source) : [r EXCEPT !.sources = t] \in Reports
  BY DEF Reports
<1>4. /\ \A x : [r EXCEPT !.sources = Append(@, x)] = [r EXCEPT !.sources = Append(r.sources, x)]
      /\ \A x : [r EXCEPT !.sources = @ \o x] = [r EXCEPT !.sources = r.sources \o x]
  OBVIOUS
<1> QED BY <1>2, <1>3, <1>4

\* What a fetch adds to the report.
LEMMA FetchReports ==
    ASSUME Fetch
    PROVE  \E u \in chosen, b \in BOOLEAN, ok \in BOOLEAN :
             LET r == [Failed(b) EXCEPT !.sources = Append(@, NewSource(u, ok))] IN
             \/ report' = r /\ pc' = pc
             \/ /\ report' = [r EXCEPT !.state = IF Checked # {} THEN "partial" ELSE "failed",
                                       !.stop = "budget"]
                /\ pc' = "closing"
<1>1. PICK u \in chosen, how \in FetchEnds :
         LET r == [Failed(how # "ok") EXCEPT !.sources = Append(@, NewSource(u, HasPassages(how)))] IN
         \/ report' = r /\ pc' = pc
         \/ /\ report' = [r EXCEPT !.state = IF Checked # {} THEN "partial" ELSE "failed",
                                   !.stop = "budget"]
            /\ pc' = "closing"
  BY DEF Fetch
<1>2. (how # "ok") \in BOOLEAN /\ HasPassages(how) \in BOOLEAN
  BY DEF HasPassages
<1> DEFINE b == how # "ok"
           ok == HasPassages(how)
<1>3. b \in BOOLEAN /\ ok \in BOOLEAN
  BY <1>2
<1>4. LET r == [Failed(b) EXCEPT !.sources = Append(@, NewSource(u, ok))] IN
      \/ report' = r /\ pc' = pc
      \/ /\ report' = [r EXCEPT !.state = IF Checked # {} THEN "partial" ELSE "failed",
                                !.stop = "budget"]
         /\ pc' = "closing"
  BY <1>1
<1> HIDE DEF b, ok
<1> QED BY <1>3, <1>4

LEMMA NextReportTyped == Typed /\ [Next]_vars => report' \in Reports
<1> SUFFICES ASSUME Typed, [Next]_vars PROVE report' \in Reports
  OBVIOUS
<1> USE DEF Typed
<1>1. CASE Plan \/ Gathered \/ Fetched \/ Submit \/ Extract \/ CancelledWhileClosing \/ UNCHANGED vars
  BY <1>1 DEF Plan, Gathered, Fetched, Submit, Extract, CancelledWhileClosing, vars
<1>2. CASE CallFails \/ SubmitFails \/ JobFails \/ NoNextRound \/ TimeOut \/ Cancel
  <2>1. \E why \in {"cancelled", "stage_failed", "budget", "job_timeout"} : Stop(why)
    BY <1>2 DEF CallFails, SubmitFails, JobFails, NoNextRound, TimeOut, Cancel, Abandon
  <2> QED BY <2>1, StopTyped
<1>3. CASE Select \/ Repair
  <2>1. \E b \in BOOLEAN : report' = Failed(b)
    BY <1>3 DEF Select, Repair
  <2> QED BY <2>1, FailedTyped
<1>4. CASE Gather
  <2>1. report' = report \/ Stop("budget") \/ \E b \in BOOLEAN : report' = Failed(b)
    BY <1>4 DEF Gather
  <2> QED BY <2>1, FailedTyped, StopTyped
<1>5. CASE SearchArrives
  <2>1. Stop("budget") \/ \E b \in BOOLEAN : report' = Failed(b)
    BY <1>5 DEF SearchArrives, AbsorbSearch
  <2> QED BY <2>1, FailedTyped, StopTyped
<1>6. CASE NextRound \/ LastRound
  <2>1. report' = report \/ Finish(report, "done")
    BY <1>6 DEF NextRound, LastRound
  <2> QED BY <2>1, FinishTyped
<1>7. CASE Fetch
  <2>1. PICK u \in chosen, b \in BOOLEAN, ok \in BOOLEAN :
           LET r == [Failed(b) EXCEPT !.sources = Append(@, NewSource(u, ok))] IN
           \/ report' = r
           \/ report' = [r EXCEPT !.state = IF Checked # {} THEN "partial" ELSE "failed",
                                  !.stop = "budget"]
    BY <1>7, FetchReports
  <2>2. NewSource(u, ok) \in Source
    BY DEF NewSource, Source, StageTyped, Reports
  <2>3. [Failed(b) EXCEPT !.sources = Append(@, NewSource(u, ok))] \in Reports
    BY <2>2, FailedTyped, LongerTyped
  <2> QED BY <2>1, <2>3 DEF Reports
<1>8. CASE ExtractArrives
  <2>1. CASE Stop("budget")
    BY <2>1, StopTyped
  <2>2. ASSUME NEW G \in SUBSET Urls, NEW ok, NEW b \in BOOLEAN,
               report' = [Failed(b) EXCEPT !.sources = @ \o NewSources(G, ok)]
        PROVE  report' \in Reports
    <3>1. Failed(b) \in Reports /\ NewSources(G, ok) \in Seq(Source)
      BY FailedTyped, NewSourcesTyped
    <3> QED BY <2>2, <3>1, LongerTyped
  <2> QED BY <1>8, <2>1, <2>2, ZenonT(60) DEF ExtractArrives, AbsorbExtract, StageTyped
<1>9. CASE NothingToRead
  BY <1>9 DEF NothingToRead, Reports
<1>10. CASE Settle
  <2>1. Proposed \in SUBSET Claim
    BY NewClaimTyped DEF Proposed, Reports
  <2>2. PICK more \in BOOLEAN :
           report' = [Failed(pending.errors) EXCEPT
                        !.claims = IF pending.claim THEN Proposed ELSE @,
                        !.gaps = @ \/ more \/ pending.errors]
    BY <1>10 DEF Settle
  <2>3. pending.errors \in BOOLEAN /\ pending.claim \in BOOLEAN
    BY DEF StageTyped, Extracted
  <2>4. Failed(pending.errors) \in Reports
    BY <2>3, FailedTyped
  <2> QED BY <2>1, <2>2, <2>3, <2>4 DEF Reports
<1>11. CASE Review
  <2>1. PICK claim \in Verdicts, more \in BOOLEAN :
           report' = [report EXCEPT !.claims = Reviewed(claim), !.gaps = @ \/ more]
    BY <1>11 DEF Review
  <2>2. Reviewed(claim) \in SUBSET Claim
    BY VerdictsTyped DEF Reviewed, Reports
  <2> QED BY <2>1, <2>2 DEF Reports
<1>12. CASE CloseClient
  <2>1. report' = report \/ report' = [Failed(TRUE) EXCEPT !.state = Degraded(@)]
    BY <1>12 DEF CloseClient
  <2>2. Failed(TRUE) \in Reports
    BY FailedTyped
  <2> QED BY <2>1, <2>2 DEF Reports, Degraded
<1>13. CASE Save
  BY <1>13 DEF Save, Reports
<1> QED BY <1>1, <1>2, <1>3, <1>4, <1>5, <1>6, <1>7, <1>8, <1>9, <1>10, <1>11, <1>12, <1>13 DEF Next

-----------------------------------------------------------------------------
\* How a step counts its requests.

LEMMA NextMode == [Next]_vars => UNCHANGED mode
BY DEF Next, vars, Plan, CallFails, Select, Gather, Gathered, Fetch, Fetched, Submit, SubmitFails,
   JobFails, SearchArrives, ExtractArrives, NothingToRead, Extract, Repair, Settle, Review,
   NextRound, NoNextRound, LastRound, TimeOut, Cancel, CloseClient, CancelledWhileClosing, Save

LEMMA NextWaysApart == Typed /\ Counting /\ [Next]_vars => WaysApart'
<1> SUFFICES ASSUME mode \in {"local", "remote"}, WaysApart, [Next]_vars PROVE WaysApart'
  BY DEF Typed, StageTyped, Counting
<1>1. mode' = mode
  BY NextMode
<1>2. CASE \/ CallFails \/ Submit \/ SubmitFails \/ JobFails \/ SearchArrives \/ ExtractArrives
           \/ NothingToRead \/ Extract \/ Repair \/ Settle \/ Review
  <2>1. CASE SearchArrives \/ ExtractArrives
    <3>1. CASE SearchArrives
      <4>1. pc' \in {"closing", "select"}
        BY <3>1 DEF SearchArrives, AbsorbSearch, Stop
      <4> QED BY <4>1 DEF WaysApart
    <3>2. CASE ExtractArrives
      <4>1. PICK G, n, failed, ok, finals : AbsorbExtract(G, ok, finals, n, failed)
        BY <3>2, Zenon DEF ExtractArrives
      <4>2. pc' \in {"closing", "extract", "close round"}
        BY <4>1 DEF AbsorbExtract, Stop
      <4> QED BY <4>2 DEF WaysApart
    <3> QED BY <2>1, <3>1, <3>2
  <2>2. CASE CallFails \/ SubmitFails \/ JobFails
    <3>1. pc' = "closing"
      BY <2>2 DEF CallFails, SubmitFails, JobFails, Stop
    <3> QED BY <3>1 DEF WaysApart
  <2>3. CASE Submit
    BY <1>1, <2>3 DEF Submit, Submitting, WaysApart
  <2>4. CASE NothingToRead \/ Extract \/ Repair \/ Settle \/ Review
    <3>1. pc' \in {"repair", "settle", "review", "close round"}
      BY <2>4 DEF NothingToRead, Extract, Repair, Settle, Review
    <3> QED BY <3>1 DEF WaysApart
  <2> QED BY <1>2, <2>1, <2>2, <2>3, <2>4
<1>3. CASE \/ NoNextRound \/ LastRound \/ TimeOut \/ Cancel
           \/ CloseClient \/ CancelledWhileClosing \/ Save \/ UNCHANGED vars
  BY <1>1, <1>3 DEF WaysApart, NoNextRound, LastRound, TimeOut, Cancel, Abandon, CloseClient,
     CancelledWhileClosing, Save, Stop, Finish, vars
<1>4. CASE Plan \/ NextRound
  BY <1>1, <1>4 DEF WaysApart, Plan, NextRound, Search, Finish
<1>5. CASE Select
  <2>1. pc' \in {"fetch", "submit extract", "extract", "close round"}
    BY <1>5 DEF Select
  <2>2. (pc' = "fetch" => mode = "local") /\ (pc' = "submit extract" => mode = "remote")
    BY <1>5 DEF Select
  <2> QED BY <1>1, <2>1, <2>2 DEF WaysApart
<1>6. CASE Gather \/ Gathered
  <2>1. pc = "gather" /\ (pc' = pc \/ pc' \in {"closing", "select"})
    BY <1>6 DEF Gather, Gathered, Stop
  <2> QED BY <1>1, <2>1 DEF WaysApart
<1>7. CASE Fetch \/ Fetched
  <2>1. pc = "fetch" /\ (pc' = pc \/ pc' \in {"closing", "extract", "close round"})
    BY <1>7 DEF Fetch, Fetched
  <2> QED BY <1>1, <2>1 DEF WaysApart
<1> QED BY <1>2, <1>3, <1>4, <1>5, <1>6, <1>7 DEF Next

\* No request is made.
LEMMA Quiet ==
    ASSUME Counting, UNCHANGED <<mode, budget, sent, known>>,
           Running' => Running, report'.stop = "done" => Running \/ report.stop = "done",
           pc' = "wait" => pc = "wait" /\ UNCHANGED job
    PROVE  WithinLimits' /\ AllCounted' /\ JobsCounted' /\ JobWithinLimits'
BY DEF Counting, WithinLimits, AllCounted, JobsCounted, JobWithinLimits

\* Requests are taken from the budget when they are made.
LEMMA Taking ==
    ASSUME Typed, Counting, Running, NEW k \in Kinds, NEW n \in Nat, Fits(k, n), Made(k, n),
           Counts(budget', k, n), UNCHANGED <<mode, known>>, mode = "local" \/ k = "model", pc' # "wait"
    PROVE  WithinLimits' /\ AllCounted' /\ JobsCounted' /\ JobWithinLimits'
<1>1. \A c \in Kinds : sent'[c] = IF c = k THEN sent[c] + n ELSE sent[c]
  BY DEF Made, Typed, SpentTyped
<1>2. \A c \in Kinds : sent[c] = budget.count[c] /\ sent[c] <= Limit[c]
  BY DEF Counting, AllCounted, WithinLimits
<1>3. WithinLimits' /\ AllCounted'
  BY <1>1, <1>2 DEF WithinLimits, AllCounted, Fits, Counts
<1>4. JobsCounted'
  BY <1>1 DEF JobsCounted, Counting, Running, Kinds
<1> QED BY <1>3, <1>4 DEF JobWithinLimits

LEMMA Asking ==
    ASSUME Typed, Counting, Running, NEW n \in Nat, Fits("model", n), Spend("model", n),
           UNCHANGED <<mode, known>>, pc' # "wait"
    PROVE  WithinLimits' /\ AllCounted' /\ JobsCounted' /\ JobWithinLimits'
<1>1. budget' = Taken("model", n) /\ Made("model", n)
  BY DEF Spend
<1>2. Counts(budget', "model", n)
  BY <1>1, NotedTyped DEF Typed, Kinds
<1> QED BY <1>1, <1>2, Taking DEF Kinds

\* The requests of a job: they are counted when its result arrives.
LEMMA Working ==
    ASSUME Typed, Counting, pc = "wait", NEW n \in 0 .. job.limit[job.kind], Worked(n), pc' # "wait"
    PROVE  /\ WithinLimits' /\ JobWithinLimits'
           /\ job.kind \in {"search", "fetch"} /\ mode = "remote"
           /\ \A c \in Kinds : sent'[c] = IF c = job.kind THEN budget.count[c] + n ELSE budget.count[c]
           /\ \A c \in Kinds : sent[c] = budget.count[c]
           /\ known.search = sent["search"] /\ known.fetch = sent["fetch"]
<1>1. /\ job.kind \in {"search", "fetch"} /\ job.limit[job.kind] \in Nat /\ mode = "remote"
      /\ known[job.kind] + job.limit[job.kind] <= Limit[job.kind]
  BY DEF Counting, JobWithinLimits, WaysApart
<1>2. Running
  BY DEF Running, Ended
<1>3. /\ \A c \in Kinds : sent[c] = budget.count[c] /\ sent[c] <= Limit[c] /\ sent[c] \in Nat
      /\ known.search = sent["search"] /\ known.fetch = sent["fetch"]
  BY <1>1, <1>2 DEF Counting, AllCounted, JobsCounted, WithinLimits, Typed, SpentTyped
<1>4. n \in Nat /\ job.kind \in Kinds
  BY <1>1 DEF Kinds
<1>5. sent' = [sent EXCEPT ![job.kind] = @ + n]
  BY <1>4, WorkedTyped DEF Typed
<1>6. \A c \in Kinds : sent'[c] = IF c = job.kind THEN sent[c] + n ELSE sent[c]
  BY <1>5 DEF Typed, SpentTyped
<1>7. known[job.kind] = sent[job.kind]
  BY <1>1, <1>3
<1>8. sent[job.kind] + n <= Limit[job.kind]
  <2>1. Limit[job.kind] \in Nat /\ sent[job.kind] \in Nat
    BY <1>3, <1>4, LimitsAreNat
  <2>2. n <= job.limit[job.kind] /\ sent[job.kind] + job.limit[job.kind] <= Limit[job.kind]
    BY <1>1, <1>7
  <2> QED BY <1>1, <1>4, <2>1, <2>2
<1>9. WithinLimits'
  BY <1>3, <1>6, <1>8 DEF WithinLimits
<1> QED BY <1>1, <1>3, <1>6, <1>9 DEF JobWithinLimits

\* A job that the Manager accepts fits into what the task has left.
LEMMA AcceptableFits ==
    ASSUME Typed, Counting, Acceptable
    PROVE  /\ RemainingLimits.search \in Nat /\ known.search + RemainingLimits.search <= SearchRequests
           /\ RemainingLimits.fetch \in Nat /\ known.fetch + RemainingLimits.fetch <= FetchRequests
<1>1. ChildAccepted(RemainingLimits)
  BY DEF Acceptable
<1>2. known.search \in Nat /\ known.fetch \in Nat
  BY DEF Typed, SpentTyped
<1>3. SearchRequests \in Nat \ {0} /\ FetchRequests \in Nat \ {0}
  BY ResearchAssumption
<1>4. /\ RemainingLimits.search \in Nat /\ RemainingLimits.fetch \in Nat
      /\ RemainingLimits.search \in {1, SearchRequests - known.search}
      /\ RemainingLimits.fetch \in {1, FetchRequests - known.fetch}
  BY RemainingTyped DEF Typed
<1>5. CASE known.parent
  BY <1>1, <1>4, <1>5 DEF ChildAccepted
<1>6. CASE ~known.parent
  <2>1. known.search = 0 /\ known.fetch = 0
    BY <1>6 DEF Counting, JobsCounted
  <2> QED BY <1>3, <1>4, <2>1
<1> QED BY <1>5, <1>6

LEMMA SubmitFits == Typed /\ Counting /\ Submit => JobWithinLimits'
<1> SUFFICES ASSUME Typed, Counting, Submit PROVE JobWithinLimits'
  OBVIOUS
<1>1. job' = Request /\ Acceptable /\ known' = known
  BY DEF Submit
<1>2. job'.kind \in {"search", "fetch"} /\ job'.limit = RemainingLimits
  BY <1>1 DEF Request
<1>3. Limit.search = SearchRequests /\ Limit.fetch = FetchRequests
  BY DEF Limit
<1>4. /\ job'.limit["search"] \in Nat /\ known'["search"] + job'.limit["search"] <= Limit["search"]
      /\ job'.limit["fetch"] \in Nat /\ known'["fetch"] + job'.limit["fetch"] <= Limit["fetch"]
  BY <1>1, <1>2, <1>3, AcceptableFits
<1> QED BY <1>2, <1>4 DEF JobWithinLimits

\* A job the task never hears of spends what was left, and the task ends.
LEMMA UnheardFits ==
    ASSUME Typed, Counting, Unheard, UNCHANGED <<mode, known>>, pc' = "closing", report'.stop # "done"
    PROVE  WithinLimits' /\ AllCounted' /\ JobsCounted' /\ JobWithinLimits'
<1>1. /\ Request.kind \in {"search", "fetch"} /\ Request.limit = RemainingLimits
      /\ Submitting /\ Acceptable
  BY DEF Unheard, Request
<1>2. PICK n \in 0 .. RemainingLimits[Request.kind] : Made(Request.kind, n)
  BY <1>1 DEF Unheard
<1>3. Limit["search"] = SearchRequests /\ Limit["fetch"] = FetchRequests
  BY DEF Limit
<1>4. known["search"] = sent["search"] /\ known["fetch"] = sent["fetch"]
  BY <1>1 DEF Submitting, Counting, WaysApart, JobsCounted, Running, Ended
<1>5. /\ RemainingLimits["search"] \in Nat /\ sent["search"] + RemainingLimits["search"] <= Limit["search"]
      /\ RemainingLimits["fetch"] \in Nat /\ sent["fetch"] + RemainingLimits["fetch"] <= Limit["fetch"]
  BY <1>1, <1>3, <1>4, AcceptableFits
<1>6. sent[Request.kind] + n <= Limit[Request.kind]
  <2>1. /\ RemainingLimits[Request.kind] \in Nat
        /\ sent[Request.kind] + RemainingLimits[Request.kind] <= Limit[Request.kind]
        /\ Request.kind \in Kinds
    BY <1>1, <1>5 DEF Kinds
  <2>2. sent[Request.kind] \in Nat /\ Limit[Request.kind] \in Nat
    BY <2>1, LimitsAreNat DEF Typed, SpentTyped
  <2> QED BY <1>2, <2>1, <2>2
<1>7. \A c \in Kinds : sent'[c] = IF c = Request.kind THEN sent[c] + n ELSE sent[c]
  BY <1>2 DEF Made, Typed, SpentTyped
<1>8. WithinLimits'
  BY <1>6, <1>7 DEF WithinLimits, Counting
<1> QED BY <1>8 DEF AllCounted, JobsCounted, JobWithinLimits, Counting, Running, Ended

\* The usage of a result is what its job spent, however much of it is absorbed.
LEMMA ArrivalCounts ==
    ASSUME Typed, Counting, pc = "wait", NEW n \in 0 .. job.limit[job.kind], Worked(n), pc' # "wait",
           UNCHANGED mode,
           \/ /\ job.kind = "search" /\ known' = [known EXCEPT !.search = @ + n, !.parent = TRUE]
           \/ /\ job.kind = "fetch" /\ known' = [known EXCEPT !.fetch = @ + n, !.parent = TRUE],
           \/ ~Running' /\ report'.stop # "done"
           \/ Counts(budget', job.kind, n)
    PROVE  WithinLimits' /\ AllCounted' /\ JobsCounted' /\ JobWithinLimits'
<1>1. /\ WithinLimits' /\ JobWithinLimits'
      /\ \A c \in Kinds : sent'[c] = IF c = job.kind THEN budget.count[c] + n ELSE budget.count[c]
      /\ \A c \in Kinds : sent[c] = budget.count[c]
      /\ known.search = sent["search"] /\ known.fetch = sent["fetch"]
  BY Working
<1>2. AllCounted'
  BY <1>1 DEF AllCounted, Counts
<1>3. known'.parent
  BY DEF Typed, SpentTyped
<1>4. known'.search = sent'["search"] /\ known'.fetch = sent'["fetch"]
  <2>1. /\ known'.search = IF job.kind = "search" THEN known.search + n ELSE known.search
        /\ known'.fetch = IF job.kind = "fetch" THEN known.fetch + n ELSE known.fetch
    BY DEF Typed, SpentTyped
  <2>2. /\ sent'["search"] = IF job.kind = "search" THEN sent["search"] + n ELSE sent["search"]
        /\ sent'["fetch"] = IF job.kind = "fetch" THEN sent["fetch"] + n ELSE sent["fetch"]
    BY <1>1 DEF Kinds
  <2> QED BY <1>1, <2>1, <2>2
<1>5. JobsCounted'
  BY <1>3, <1>4 DEF JobsCounted
<1> QED BY <1>1, <1>2, <1>5

\* The budget after a result: the requests of the job, and entries of no kind.
LEMMA AbsorbedCount ==
    ASSUME Typed, NEW n \in Nat
    PROVE  /\ \A Q, p \in SUBSET todo : \A F, failed :
                AbsorbSearch(Q, p, F, n, failed) =>
                  \/ pc' = "closing" /\ report'.stop # "done"
                  \/ pc' = "select" /\ Counts(budget', "search", n)
           /\ \A G, finals \in SUBSET Urls : \A ok, failed :
                AbsorbExtract(G, ok, finals, n, failed) =>
                  \/ pc' = "closing" /\ report'.stop # "done"
                  \/ pc' \in {"extract", "close round"} /\ Counts(budget', "fetch", n)
<1> USE DEF Typed
<1>1. Stop("budget") => pc' = "closing" /\ report'.stop # "done"
  BY DEF Stop, Reports
<1>2. ASSUME NEW Q \in SUBSET todo, NEW p \in SUBSET todo, NEW F, NEW failed,
             AbsorbSearch(Q, p, F, n, failed), ~Stop("budget")
      PROVE  pc' = "select" /\ Counts(budget', "search", n)
  <2> DEFINE m == Cardinality(Q) + Cardinality(p)
  <2>1. m \in Nat /\ Q \cup p \in SUBSET (Planned \cup Gap)
    BY CountsAreNat DEF StageTyped
  <2>2. pc' = "select" /\ budget' = WithQueries(Taken("search", n), m, Q \cup p)
    BY <1>2 DEF AbsorbSearch, WithQueries
  <2> HIDE DEF m
  <2> QED BY <2>1, <2>2, NotedTyped DEF Kinds
<1>3. ASSUME NEW G \in SUBSET Urls, NEW ok, NEW finals \in SUBSET Urls, NEW failed,
             AbsorbExtract(G, ok, finals, n, failed), ~Stop("budget")
      PROVE  pc' \in {"extract", "close round"} /\ Counts(budget', "fetch", n)
  <2> DEFINE m == Cardinality(G)
  <2>1. m \in Nat
    BY CountsAreNat
  <2>2. pc' \in {"extract", "close round"} /\ budget' = WithSources(Taken("fetch", n), m, finals)
    BY <1>3 DEF AbsorbExtract, WithSources
  <2> HIDE DEF m
  <2> QED BY <2>1, <2>2, NotedTyped DEF Kinds
<1> QED BY <1>1, <1>2, <1>3

LEMMA NextCounting == Typed /\ Counting /\ [Next]_vars => Counting'
<1> SUFFICES ASSUME Typed, Counting, [Next]_vars
             PROVE  WithinLimits' /\ AllCounted' /\ JobsCounted' /\ JobWithinLimits'
  BY NextWaysApart DEF Counting
<1> DEFINE Goal == WithinLimits' /\ AllCounted' /\ JobsCounted' /\ JobWithinLimits'
<1>m. mode' = mode
  BY NextMode
<1>1. ASSUME NEW n \in Tries("model"), Spend("model", n), Running, UNCHANGED known, pc' # "wait"
      PROVE  Goal
  <2>1. n \in Nat /\ Fits("model", n)
    BY TriesAreNat DEF Kinds, Tries
  <2> QED BY <1>m, <1>1, <2>1, Asking
<1>2. CASE Gathered \/ Fetched \/ NothingToRead \/ Settle \/ NoNextRound \/ LastRound
  <2>1. /\ UNCHANGED <<budget, sent, known>> /\ Running /\ pc' # "wait"
    BY <1>2 DEF Gathered, Fetched, NothingToRead, Settle, NoNextRound, LastRound, collector, Running,
       Ended, Stop, Finish
  <2> QED BY <1>m, <2>1, Quiet
<1>3. CASE CloseClient \/ CancelledWhileClosing \/ Save \/ UNCHANGED vars
  <2>1. /\ UNCHANGED <<budget, sent, known, job>> /\ (Running' => Running) /\ pc' \in {pc, "unsaved", "saved"}
    BY <1>3 DEF CloseClient, CancelledWhileClosing, Save, vars, collector, Running, Ended
  <2>2. report'.stop = report.stop
    BY <1>3 DEF CloseClient, CancelledWhileClosing, Save, vars, Failed, Typed, Reports
  <2> QED BY <1>m, <2>1, <2>2, Quiet
<1>4. CASE Plan \/ Extract \/ Review
  <2>1. PICK n \in Answers : Spend("model", n)
    BY <1>4 DEF Plan, Extract, Review
  <2>2. UNCHANGED known /\ pc' # "wait" /\ Running
    BY <1>4 DEF Plan, Extract, Review, Search, collector, Running, Ended
  <2> QED BY <1>1, <2>1, <2>2, AnswersAreNat
<1>5. CASE CallFails
  <2>1. UNCHANGED known /\ pc' # "wait" /\ Running
    BY <1>5 DEF CallFails, Stop, collector, Running, Ended
  <2>2. PICK n \in Tries("model") \cup {Left("model")} : Spend("model", n)
    BY <1>5 DEF CallFails
  <2>3. CASE n \in Tries("model")
    BY <1>1, <2>1, <2>2, <2>3
  <2>4. CASE n = Left("model")
    <3>1. Left("model") \in Nat /\ budget.count["model"] \in Nat /\ Limit["model"] \in Nat
      BY <2>1, LeftIsNat, LimitsAreNat DEF Kinds, Categories, Typed, SpentTyped, Budgets
    <3>2. n \in Nat /\ Fits("model", n)
      BY <2>4, <3>1 DEF Left, Fits
    <3> QED BY <1>m, <2>1, <2>2, <3>2, Asking
  <2> QED BY <2>3, <2>4
<1>6. CASE Repair
  <2>1. PICK n \in Tries("model") : Spend("model", n)
    BY <1>6, AnswersAreNat DEF Repair
  <2>2. UNCHANGED known /\ pc' # "wait" /\ Running
    BY <1>6 DEF Repair, collector, Running, Ended
  <2> QED BY <1>1, <2>1, <2>2
<1>7. CASE Select
  <2>1. UNCHANGED known /\ pc' # "wait" /\ Running
    BY <1>7 DEF Select, collector, Running, Ended
  <2>2. CASE UNCHANGED <<budget, sent>>
    BY <1>m, <2>1, <2>2, Quiet
  <2>3. CASE \E n \in Answers : Spend("model", n)
    BY <1>1, <2>1, <2>3, AnswersAreNat
  <2> QED BY <1>7, <2>2, <2>3 DEF Select
<1>8. CASE NextRound
  <2>1. UNCHANGED <<budget, sent, known>> /\ Running /\ pc' # "wait"
    <3>1. UNCHANGED <<budget, sent, known>> /\ pc = "close round"
      BY <1>8 DEF NextRound, collector
    <3>2. pc' \in {"closing", "gather", "submit search"}
      BY <1>8 DEF NextRound, Search, Finish
    <3> QED BY <3>1, <3>2 DEF Running, Ended
  <2> QED BY <1>m, <2>1, Quiet
<1>9. CASE Submit
  <2>1. JobWithinLimits'
    BY <1>9, SubmitFits
  <2>2. UNCHANGED <<budget, sent, known>> /\ Running
    BY <1>9 DEF Submit, Submitting, Running, Ended
  <2> QED BY <1>m, <2>1, <2>2 DEF Counting, WithinLimits, AllCounted, JobsCounted
<1>10. CASE SubmitFails
  <2>1. UNCHANGED <<budget, known>> /\ Running /\ pc' = "closing" /\ report'.stop # "done"
    BY <1>10 DEF SubmitFails, Submitting, Stop, collector, Running, Ended, Typed, Reports
  <2>2. CASE UNCHANGED sent
    BY <1>m, <2>1, <2>2, Quiet
  <2>3. CASE Unheard
    BY <1>m, <2>1, <2>3, UnheardFits
  <2> QED BY <1>10, <2>2, <2>3 DEF SubmitFails
<1>11. ASSUME NEW why \in {"stage_failed", "cancelled", "job_timeout"}, Stop(why),
              UNCHANGED <<budget, known>>, pc = "wait",
              NEW n \in 0 .. job.limit[job.kind], Worked(n)
       PROVE  Goal
  <2>1. pc' = "closing" /\ report'.stop = why
    BY <1>11 DEF Stop, Typed, Reports
  <2>2. WithinLimits' /\ JobWithinLimits'
    BY <1>11, <2>1, Working
  <2> QED BY <1>11, <2>1, <2>2 DEF AllCounted, JobsCounted, Counting, Running, Ended
<1>12. CASE JobFails
  BY <1>12, <1>11 DEF JobFails
<1>13. CASE TimeOut \/ Cancel
  <2>1. PICK why \in {"cancelled", "job_timeout"} : Abandon(why) /\ UNCHANGED <<budget, known>>
    BY <1>13 DEF TimeOut, Cancel
  <2>2. CASE pc = "wait"
    BY <1>11, <2>1, <2>2 DEF Abandon
  <2>3. CASE pc # "wait"
    <3>1. pc' = "closing" /\ report'.stop # "done" /\ Running
      BY <2>1, <2>3 DEF Abandon, Stop, Awaits, Running, Ended, Typed, Reports
    <3>2. CASE UNCHANGED sent
      BY <1>m, <2>1, <3>1, <3>2, Quiet
    <3>3. CASE Unheard
      BY <1>m, <2>1, <3>1, <3>3, UnheardFits
    <3> QED BY <2>1, <2>3, <3>2, <3>3 DEF Abandon
  <2> QED BY <2>2, <2>3
<1>14. CASE SearchArrives
  <2>1. PICK Q \in SUBSET todo, F \in Hits, n \in 0 .. job.limit.search, failed \in BOOLEAN :
           \E p \in SUBSET (todo \ Q) :
             /\ Worked(n) /\ known' = [known EXCEPT !.search = @ + n, !.parent = TRUE]
             /\ AbsorbSearch(Q, p, F, n, failed)
    BY <1>14, Zenon DEF SearchArrives
  <2>2. pc = "wait" /\ job.kind = "search"
    BY <1>14 DEF SearchArrives
  <2>3. n \in Nat /\ n \in 0 .. job.limit[job.kind]
    BY <2>1, <2>2 DEF Counting, JobWithinLimits
  <2>4. \/ pc' = "closing" /\ report'.stop # "done"
        \/ pc' = "select" /\ Counts(budget', "search", n)
    <3>1. \A p \in SUBSET (todo \ Q) : p \in SUBSET todo
      OBVIOUS
    <3> QED BY <2>1, <2>3, <3>1, AbsorbedCount
  <2> QED BY <1>m, <2>1, <2>2, <2>3, <2>4, ArrivalCounts DEF Running, Ended
<1>15. CASE ExtractArrives
  <2>1. PICK G \in SUBSET chosen, n \in 0 .. job.limit.fetch, failed \in BOOLEAN :
           \E ok \in SUBSET G, finals \in SUBSET Urls :
             /\ Worked(n) /\ known' = [known EXCEPT !.fetch = @ + n, !.parent = TRUE]
             /\ AbsorbExtract(G, ok, finals, n, failed)
    BY <1>15, Zenon DEF ExtractArrives
  <2>2. pc = "wait" /\ job.kind = "fetch"
    BY <1>15 DEF ExtractArrives
  <2>3. n \in Nat /\ n \in 0 .. job.limit[job.kind] /\ G \in SUBSET Urls
    BY <2>1, <2>2 DEF Counting, JobWithinLimits, Typed, StageTyped
  <2>4. \/ pc' = "closing" /\ report'.stop # "done"
        \/ pc' \in {"extract", "close round"} /\ Counts(budget', "fetch", n)
    BY <2>1, <2>3, AbsorbedCount
  <2> QED BY <1>m, <2>1, <2>2, <2>3, <2>4, ArrivalCounts DEF Running, Ended
<1>16. ASSUME NEW k \in {"search", "fetch"}, NEW n \in Tries(k), Made(k, n), mode = "local", Running,
              UNCHANGED known, pc' # "wait", Counts(budget', k, n)
       PROVE  Goal
  <2>1. n \in Nat /\ Fits(k, n) /\ k \in Kinds
    BY TriesAreNat DEF Kinds, Tries
  <2> QED BY <1>m, <1>16, <2>1, Taking
<1>17. CASE Gather
  <2>1. UNCHANGED known /\ pc' # "wait" /\ Running /\ mode = "local"
    BY <1>17 DEF Gather, Stop, collector, Running, Ended, Counting, WaysApart
  <2>2. CASE UNCHANGED <<budget, sent>>
    BY <1>m, <2>1, <2>2, Quiet
  <2>3. ASSUME NEW q \in todo, NEW n \in Tries("search"), Made("search", n),
               budget' = [Taken("search", n) EXCEPT !.count.queries = @ + 1, !.queries = @ \cup {q}]
        PROVE  Goal
    <3>1. n \in Nat /\ "search" \in Kinds /\ {q} \in SUBSET (Planned \cup Gap)
      BY TriesAreNat DEF Kinds, Typed, StageTyped
    <3>2. budget' = WithQueries(Taken("search", n), 1, {q})
      BY <2>3 DEF WithQueries
    <3>3. Counts(budget', "search", n)
      BY <3>1, <3>2, NotedTyped DEF Typed
    <3> QED BY <1>16, <2>1, <2>3, <3>3
  <2> QED BY <1>17, <2>2, <2>3 DEF Gather
<1>18. CASE Fetch
  <2>1. UNCHANGED known /\ pc' # "wait" /\ Running /\ mode = "local"
    <3>1. pc = "fetch" /\ UNCHANGED known /\ pc' \in {"closing", "fetch"}
      BY <1>18 DEF Fetch, collector
    <3> QED BY <3>1 DEF Running, Ended, Counting, WaysApart
  <2>2. PICK u \in chosen, n \in Tries("fetch") :
           /\ budget' = [Taken("fetch", n) EXCEPT !.count.sources = @ + 1, !.sources = @ \cup {u}]
           /\ Made("fetch", n)
    BY <1>18 DEF Fetch
  <2>3. n \in Nat /\ "fetch" \in Kinds /\ {u} \in SUBSET Urls
    BY TriesAreNat DEF Kinds, Typed, StageTyped
  <2>4. budget' = WithSources(Taken("fetch", n), 1, {u})
    BY <2>2 DEF WithSources
  <2>5. Counts(budget', "fetch", n)
    BY <2>3, <2>4, NotedTyped DEF Typed
  <2> QED BY <1>16, <2>1, <2>2, <2>5
<1> QED BY <1>2, <1>3, <1>4, <1>5, <1>6, <1>7, <1>8, <1>9, <1>10, <1>12, <1>13, <1>14, <1>15, <1>17, <1>18
        DEF Next

LEMMA InitTyped == Init => Typed /\ Counting
<1> SUFFICES ASSUME Init PROVE Typed /\ Counting
  OBVIOUS
<1> USE DEF Init
<1>1. StageTyped
  BY ResearchAssumption DEF StageTyped, NoExtraction, Extracted
<1>2. SpentTyped
  BY DEF SpentTyped, Budgets
<1>3. report \in Reports
  BY DEF Reports
<1>4. \A k \in Kinds : Limit[k] >= 0
  BY LimitsAreNat
<1>5. \A k \in Kinds : sent[k] = 0 /\ budget.count[k] = 0
  BY DEF Kinds, Categories
<1>6. Counting
  BY <1>4, <1>5 DEF Counting, WaysApart, WithinLimits, AllCounted, JobsCounted, JobWithinLimits,
     Running, Ended, Kinds
<1> QED BY <1>1, <1>2, <1>3, <1>6 DEF Typed

LEMMA NextTyped == Typed /\ Counting /\ [Next]_vars => Typed'
BY NextStageTyped, NextSpentTyped, NextReportTyped DEF Typed

\* Requests and counts of a task are tied together at every step.
LEMMA Counted == Spec => [](Typed /\ Counting)
<1>1. Init => Typed /\ Counting
  BY InitTyped
<1>2. Typed /\ Counting /\ [Next]_vars => (Typed /\ Counting)'
  BY NextTyped, NextCounting
<1> QED BY <1>1, <1>2, PTL DEF Spec

\* All requests made for a task stay within its limits, whichever way it
\* collects and however it ends: repetitions, failed calls, and jobs that go on
\* when nobody waits for them included (Budget.take, RemoteCollector).
THEOREM NeverOverBudget == Spec => []RequestsWithinLimits
<1>1. Typed /\ Counting => RequestsWithinLimits
  BY DEF Counting, WithinLimits, RequestsWithinLimits
<1> QED BY <1>1, Counted, PTL

\* A task that came to its own end reports every request that was made for it
\* (_absorb_search, _absorb_extract and the metrics of the report).
THEOREM NothingUncounted == Spec => []SpentIsReported
<1>1. Typed /\ Counting => SpentIsReported
  BY DEF Counting, AllCounted, SpentIsReported
<1> QED BY <1>1, Counted, PTL

-----------------------------------------------------------------------------
\* How a step changes the verdict.

LEMMA StopJudges ==
    ASSUME Typed, Judging, Running, NEW why \in {"cancelled", "stage_failed", "budget", "job_timeout"},
           Stop(why)
    PROVE  Judging'
<1>1. pc' = "closing" /\ report'.claims = report.claims /\ report'.answer = report.answer
      /\ report'.state # "completed"
  BY DEF Stop, Typed, Reports
<1>2. report.answer = "none"
  BY DEF Judging, Running, Ended
<1> QED BY <1>1, <1>2 DEF Judging, NeverUnchecked, Running, Ended

LEMMA FinishJudges == ASSUME Typed, Judging, Running, Finish(report, "done") PROVE Judging'
<1>1. /\ pc' = "closing" /\ report'.claims = report.claims /\ report'.answer = report.answer
      /\ report'.failures = report.failures
      /\ report'.state = "completed" => Usable # {} /\ ~report.failures
  BY DEF Finish, Typed, Reports
<1>2. report.answer = "none"
  BY DEF Judging, Running, Ended
<1>3. Usable' = Usable
  BY <1>1 DEF Usable, Checked
<1> QED BY <1>1, <1>2, <1>3 DEF Judging, NeverUnchecked, Running, Ended

\* A step within the task, or a collection that ends it.
LEMMA WorkJudges ==
    ASSUME Typed, Judging, Running, pc' # "saved",
           report'.answer = report.answer, NeverUnchecked(report'),
           \/ report'.state = report.state
           \/ ~Running' /\ report'.state # "completed"
    PROVE  Judging'
BY DEF Judging, Running, Ended

LEMMA FailedKeeps ==
    ASSUME Typed, NEW b \in BOOLEAN
    PROVE  /\ Failed(b).state = report.state /\ Failed(b).answer = report.answer
           /\ Failed(b).claims = report.claims /\ Failed(b).stop = report.stop
           /\ Failed(b).sources = report.sources
BY DEF Failed, Typed, Reports

LEMMA NextJudging == Typed /\ Judging /\ [Next]_vars => Judging'
<1> SUFFICES ASSUME Typed, Judging, [Next]_vars PROVE Judging'
  OBVIOUS
<1>c. NeverUnchecked(report) /\ \A r : r.claims = report.claims => NeverUnchecked(r)
  BY DEF Judging, NeverUnchecked
<1>1. CASE Plan \/ Gathered \/ Fetched \/ Submit \/ Extract
  <2>1. Running /\ pc' # "saved" /\ report' = report
    BY <1>1 DEF Plan, Gathered, Fetched, Submit, Submitting, Extract, Search, Running, Ended
  <2> QED BY <1>c, <2>1, WorkJudges
<1>2. CASE CallFails \/ SubmitFails \/ JobFails \/ NoNextRound \/ TimeOut \/ Cancel
  <2>1. Running /\ \E why \in {"cancelled", "stage_failed", "budget", "job_timeout"} : Stop(why)
    BY <1>2 DEF CallFails, SubmitFails, Submitting, JobFails, NoNextRound, TimeOut, Cancel, Abandon,
       Awaits, Running, Ended
  <2> QED BY <2>1, StopJudges
<1>3. CASE Select \/ Repair
  <2>1. Running /\ pc' # "saved" /\ \E b \in BOOLEAN : report' = Failed(b)
    BY <1>3 DEF Select, Repair, Running, Ended
  <2> QED BY <1>c, <2>1, FailedKeeps, WorkJudges
<1>4. CASE Gather
  <2>1. Running
    BY <1>4 DEF Gather, Running, Ended
  <2>2. Stop("budget") \/ (pc' = pc /\ (report' = report \/ \E b \in BOOLEAN : report' = Failed(b)))
    BY <1>4 DEF Gather
  <2> QED BY <1>c, <2>1, <2>2, FailedKeeps, WorkJudges, StopJudges DEF Running, Ended
<1>5. CASE SearchArrives
  <2>1. Running
    BY <1>5 DEF SearchArrives, Running, Ended
  <2>2. Stop("budget") \/ (pc' = "select" /\ \E b \in BOOLEAN : report' = Failed(b))
    BY <1>5 DEF SearchArrives, AbsorbSearch
  <2> QED BY <1>c, <2>1, <2>2, FailedKeeps, WorkJudges, StopJudges
<1>6. CASE NextRound \/ LastRound
  <2>1. Running /\ (Finish(report, "done") \/ (report' = report /\ pc' = Search))
    BY <1>6 DEF NextRound, LastRound, Running, Ended
  <2> QED BY <1>c, <2>1, FinishJudges, WorkJudges DEF Search
<1>7. CASE Fetch
  <2>1. PICK u \in chosen, b \in BOOLEAN, ok \in BOOLEAN :
           LET r == [Failed(b) EXCEPT !.sources = Append(@, NewSource(u, ok))] IN
           \/ report' = r /\ pc' = pc
           \/ /\ report' = [r EXCEPT !.state = IF Checked # {} THEN "partial" ELSE "failed",
                                     !.stop = "budget"]
              /\ pc' = "closing"
    BY <1>7, FetchReports
  <2>2. pc = "fetch"
    BY <1>7 DEF Fetch
  <2>3. Failed(b) \in Reports
    BY FailedTyped DEF Typed
  <2>4. /\ report'.claims = report.claims /\ report'.answer = report.answer
        /\ \/ pc' = pc /\ report'.state = report.state
           \/ pc' = "closing" /\ report'.state # "completed"
    BY <2>1, <2>3, FailedKeeps, ZenonT(60) DEF Reports
  <2> QED BY <1>c, <2>2, <2>4, WorkJudges DEF Running, Ended
<1>8. CASE ExtractArrives
  <2>1. Running
    BY <1>8 DEF ExtractArrives, Running, Ended
  <2>2. ASSUME NEW G, NEW ok, NEW b \in BOOLEAN, pc' \in {"extract", "close round"},
               report' = [Failed(b) EXCEPT !.sources = @ \o NewSources(G, ok)]
        PROVE  Judging'
    <3>1. Failed(b) \in Reports
      BY FailedTyped DEF Typed
    <3>2. /\ report'.claims = report.claims /\ report'.answer = report.answer
          /\ report'.state = report.state
      BY <2>2, <3>1, FailedKeeps DEF Reports
    <3> QED BY <1>c, <2>1, <2>2, <3>2, WorkJudges
  <2>3. Stop("budget") => Judging'
    BY <2>1, StopJudges
  <2>4. PICK G, n, failed, ok, finals :
           /\ G \in SUBSET chosen /\ failed \in BOOLEAN
           /\ AbsorbExtract(G, ok, finals, n, failed)
    BY <1>8, Zenon DEF ExtractArrives
  <2> QED BY <2>2, <2>3, <2>4 DEF AbsorbExtract
<1>9. CASE NothingToRead
  <2>1. Running /\ pc' = "close round" /\ report' = [report EXCEPT !.gaps = TRUE]
    BY <1>9 DEF NothingToRead, Running, Ended
  <2>2. report'.claims = report.claims /\ report'.answer = report.answer /\ report'.state = report.state
    BY <2>1 DEF Typed, Reports
  <2> QED BY <1>c, <2>1, <2>2, WorkJudges
<1>10. CASE Settle
  <2>1. Running /\ pc' \in {"review", "close round"}
    BY <1>10 DEF Settle, Running, Ended
  <2>2. pending.errors \in BOOLEAN
    BY DEF Typed, StageTyped, Extracted
  <2>3. Failed(pending.errors) \in Reports
    BY <2>2, FailedTyped DEF Typed
  <2>4. PICK more \in BOOLEAN :
           report' = [Failed(pending.errors) EXCEPT
                        !.claims = IF pending.claim THEN Proposed ELSE @,
                        !.gaps = @ \/ more \/ pending.errors]
    BY <1>10 DEF Settle
  <2>5. /\ report'.claims = IF pending.claim THEN Proposed ELSE report.claims
        /\ report'.answer = report.answer /\ report'.state = report.state
    BY <2>2, <2>3, <2>4, FailedKeeps DEF Reports
  <2>6. \A c \in Proposed : ~c.checked => c.status = "insufficient"
    BY <1>c DEF Proposed, NewClaim, NeverUnchecked
  <2> QED BY <1>c, <2>1, <2>5, <2>6, WorkJudges DEF NeverUnchecked
<1>11. CASE Review
  <2>1. Running /\ pc' = "close round"
    BY <1>11 DEF Review, Running, Ended
  <2>2. PICK claim \in Verdicts, more \in BOOLEAN :
           report' = [report EXCEPT !.claims = Reviewed(claim), !.gaps = @ \/ more]
    BY <1>11 DEF Review
  <2>3. /\ report'.claims = Reviewed(claim)
        /\ report'.answer = report.answer /\ report'.state = report.state
    BY <2>2 DEF Typed, Reports
  <2>4. ~claim.checked => claim.status = "insufficient"
    BY DEF Verdicts, NewClaim
  <2> QED BY <1>c, <2>1, <2>3, <2>4, WorkJudges DEF NeverUnchecked, Reviewed
<1>12. CASE CloseClient
  <2>1. CASE UNCHANGED report
    BY <1>12, <2>1 DEF CloseClient, Judging, Running, Ended, Unresolved, Usable, Checked
  <2>2. CASE report' = [Failed(TRUE) EXCEPT !.state = Degraded(@)]
    <3>1. /\ report'.claims = report.claims /\ report'.answer = report.answer
          /\ report'.state # "completed"
      BY <2>2, FailedKeeps, FailedTyped DEF Typed, Reports, Degraded
    <3>2. pc = "closing" /\ pc' = pc
      BY <1>12 DEF CloseClient
    <3> QED BY <1>c, <3>1, <3>2 DEF Judging, Running, Ended
  <2> QED BY <1>12, <2>1, <2>2 DEF CloseClient
<1>13. CASE Save
  <2>1. /\ pc' = "saved" /\ pc = "closing"
        /\ report' = [report EXCEPT
             !.answer = IF Usable = {} THEN "unresolved"
                        ELSE IF ~Unresolved /\ report.state = "completed" THEN "sufficient"
                        ELSE "limited"]
    BY <1>13 DEF Save
  <2>2. /\ report'.claims = report.claims /\ report'.failures = report.failures
        /\ report'.gaps = report.gaps /\ report'.state = report.state
        /\ report'.answer = "sufficient" => ~Unresolved /\ report.state = "completed"
    BY <2>1 DEF Typed, Reports
  <2>3. Usable' = Usable /\ Unresolved' = Unresolved
    BY <2>2 DEF Usable, Checked, Unresolved
  <2> QED BY <1>c, <2>1, <2>2, <2>3 DEF Judging, Running, Ended
<1>14. CASE CancelledWhileClosing \/ UNCHANGED vars
  <2>1. report' = report /\ (Running' => Running) /\ (pc' # "saved" => pc # "saved")
    BY <1>14 DEF CancelledWhileClosing, vars, Running, Ended
  <2> QED BY <2>1 DEF Judging, Unresolved, Usable, Checked
<1> QED BY <1>1, <1>2, <1>3, <1>4, <1>5, <1>6, <1>7, <1>8, <1>9, <1>10, <1>11, <1>12, <1>13, <1>14
        DEF Next

\* A complete report had no failure, and calls the question answered only when
\* no gap and no claim is open (_execute, _close_clients, answer_verdict).
THEOREM HonestVerdict == Spec => []VerdictHonest
<1>1. Init => Judging
  BY DEF Init, Judging, NeverUnchecked, Running
<1>2. Typed /\ Judging => VerdictHonest
  <2> SUFFICES ASSUME Typed, Judging, NEW c \in report.claims, ~Unresolved
               PROVE  c.checked /\ c.status \in {"supported", "refuted"} /\ ~report.gaps
    BY DEF Judging, VerdictHonest, Unresolved
  <2>1. c \in Claim
    BY DEF Typed, Reports
  <2> QED BY <2>1 DEF Judging, NeverUnchecked, Unresolved, Claim
<1>3. Spec => []Judging
  BY <1>1, Counted, NextJudging, PTL DEF Spec
<1> QED BY <1>2, <1>3, Counted, PTL

-----------------------------------------------------------------------------
\* What claims cite.

\* Sources are only added, and what was readable stays so.
LEMMA SourcesGrow ==
    ASSUME Typed, SidsInOrder, NEW more \in Seq(Source),
           report'.sources = report.sources \o more,
           \A i \in DOMAIN more : more[i].sid = Len(report.sources) + i
    PROVE  SidsInOrder' /\ Readable \subseteq Readable'
<1> DEFINE old == report.sources
           new == old \o more
<1>1. old \in Seq(Source) /\ Len(old) \in Nat /\ Len(more) \in Nat
  BY DEF Typed, Reports
<1>2. /\ DOMAIN new = 1 .. Len(old) + Len(more) /\ DOMAIN old = 1 .. Len(old)
      /\ DOMAIN more = 1 .. Len(more)
      /\ \A i \in 1 .. Len(old) + Len(more) :
            new[i] = IF i <= Len(old) THEN old[i] ELSE more[i - Len(old)]
  BY <1>1
<1> HIDE DEF new
<1>3. \A i \in DOMAIN new : new[i].sid = i
  <2> SUFFICES ASSUME NEW i \in DOMAIN new PROVE new[i].sid = i
    OBVIOUS
  <2>1. CASE i <= Len(old)
    BY <1>1, <1>2, <2>1 DEF SidsInOrder
  <2>2. CASE i > Len(old)
    <3>1. i - Len(old) \in DOMAIN more
      BY <1>1, <1>2, <2>2
    <3>2. new[i] = more[i - Len(old)]
      <4>1. i \in 1 .. Len(old) + Len(more) /\ ~(i <= Len(old))
        BY <1>1, <1>2, <2>2
      <4> QED BY <1>2, <4>1, Zenon
    <3>3. new[i].sid = Len(old) + (i - Len(old))
      BY <3>1, <3>2
    <3> QED BY <1>1, <1>2, <3>3
  <2> QED BY <1>1, <1>2, <2>1, <2>2
<1>4. \A i \in DOMAIN old : i \in DOMAIN new /\ new[i] = old[i]
  BY <1>1, <1>2
<1>5. report'.sources = new
  BY DEF new
<1>6. Readable \subseteq Readable'
  BY <1>4, <1>5 DEF Readable
<1> QED BY <1>3, <1>5, <1>6 DEF SidsInOrder

\* A step that makes no claim and shows the model nothing.
LEMMA ReadingKept ==
    ASSUME Typed, Reading, SidsInOrder', Readable \subseteq Readable',
           report'.claims = report.claims, UNCHANGED <<round, read>>,
           pc' \in Unsettled => pc \in Unsettled,
           pc' \in Cites => pc \in Cites /\ UNCHANGED pending
    PROVE  Reading'
<1>1. ClaimsRead'
  BY DEF Reading, ClaimsRead
<1>2. ClaimsOfRoundsBefore'
  BY DEF Reading, ClaimsOfRoundsBefore
<1>3. PendingRead'
  BY DEF Reading, PendingRead
<1> QED BY <1>1, <1>2, <1>3 DEF Reading

LEMMA SameSources ==
    ASSUME SidsInOrder, report'.sources = report.sources
    PROVE  SidsInOrder' /\ Readable' = Readable
BY DEF SidsInOrder, Readable

LEMMA StopReads ==
    ASSUME Typed, Reading, UNCHANGED <<round, read>>,
           \/ \E why \in {"cancelled", "stage_failed", "budget", "job_timeout"} : Stop(why)
           \/ Finish(report, "done")
    PROVE  Reading'
<1>1. pc' = "closing" /\ report'.sources = report.sources /\ report'.claims = report.claims
  BY DEF Stop, Finish, Typed, Reports
<1> QED BY <1>1, SameSources, ReadingKept DEF Reading, Unsettled, Cites

LEMMA ExtractionReads ==
    ASSUME Typed, Reading, NEW shown \in SUBSET Readable, NEW p \in Extracted,
           p.shown = shown, p.ev \subseteq shown, pending' = p,
           pc \in Unsettled, round' = round, read' = [read EXCEPT ![round] = shown],
           report'.sources = report.sources, report'.claims = report.claims
    PROVE  Reading'
<1>1. SidsInOrder' /\ Readable' = Readable
  BY SameSources DEF Reading
<1>2. read'[round] = shown
  BY DEF Typed, StageTyped
<1>3. \A c \in report.claims : c.round < round /\ read'[c.round] = read[c.round]
  <2> SUFFICES ASSUME NEW c \in report.claims
               PROVE  c.round < round /\ read'[c.round] = read[c.round]
    OBVIOUS
  <2>1. c.round < round
    BY DEF Reading, ClaimsOfRoundsBefore
  <2>2. c.round \in {0, 1} /\ round \in {0, 1}
    BY DEF Typed, StageTyped, Reports, Claim
  <2> QED BY <2>1, <2>2 DEF Typed, StageTyped
<1>4. ClaimsRead'
  BY <1>1, <1>3 DEF Reading, ClaimsRead
<1>5. ClaimsOfRoundsBefore'
  BY <1>3 DEF ClaimsOfRoundsBefore
<1>6. PendingRead'
  BY <1>1, <1>2 DEF PendingRead
<1> QED BY <1>1, <1>4, <1>5, <1>6 DEF Reading

\* Claims are made of what was extracted in their round.
LEMMA ClaimReads ==
    ASSUME Typed, Reading, pc \in Cites, pc' \notin Unsettled, UNCHANGED <<round, read, pending>>,
           report'.sources = report.sources,
           \A c \in report'.claims : c \in report.claims \/ (c.round = round /\ c.ev = pending.ev)
    PROVE  Reading'
<1>1. SidsInOrder' /\ Readable' = Readable
  BY SameSources DEF Reading
<1>2. ClaimsRead'
  <2> SUFFICES ASSUME NEW c \in report'.claims
               PROVE  c.round <= round /\ c.ev \subseteq read[c.round] \cap Readable
    BY <1>1 DEF ClaimsRead
  <2>1. CASE c \in report.claims
    BY <2>1 DEF Reading, ClaimsRead
  <2>2. CASE c.round = round /\ c.ev = pending.ev
    BY <2>2 DEF Reading, PendingRead, Typed, StageTyped
  <2> QED BY <2>1, <2>2
<1>3. PendingRead'
  BY <1>1 DEF Reading, PendingRead
<1> QED BY <1>1, <1>2, <1>3 DEF Reading, ClaimsOfRoundsBefore

LEMMA NextReading == Typed /\ Reading /\ [Next]_vars => Reading'
<1> SUFFICES ASSUME Typed, Reading, [Next]_vars PROVE Reading'
  OBVIOUS
<1>s. SidsInOrder
  BY DEF Reading
<1> USE DEF Unsettled, Cites
<1>1. CASE Plan \/ Gathered \/ Fetched \/ Submit \/ CancelledWhileClosing \/ UNCHANGED vars
  <2>1. UNCHANGED <<report, round, read, pending>> /\ (pc' \in Unsettled => pc \in Unsettled)
        /\ (pc' \in Cites => pc \in Cites)
    BY <1>1 DEF Plan, Gathered, Fetched, Submit, Submitting, CancelledWhileClosing, vars, stage,
       Search
  <2> QED BY <1>s, <2>1, SameSources, ReadingKept
<1>2. CASE CallFails \/ SubmitFails \/ JobFails \/ NoNextRound \/ LastRound \/ TimeOut \/ Cancel
  <2>1. UNCHANGED <<round, read>>
    BY <1>2 DEF CallFails, SubmitFails, JobFails, NoNextRound, LastRound, TimeOut, Cancel
  <2>2. \/ \E why \in {"cancelled", "stage_failed", "budget", "job_timeout"} : Stop(why)
        \/ Finish(report, "done")
    BY <1>2 DEF CallFails, SubmitFails, JobFails, NoNextRound, LastRound, TimeOut, Cancel, Abandon
  <2> QED BY <2>1, <2>2, StopReads
<1>3. CASE Select
  <2>1. UNCHANGED <<round, read, pending>> /\ pc \in Unsettled /\ pc' \notin Cites
    BY <1>3 DEF Select
  <2>2. \E b \in BOOLEAN : report' = Failed(b)
    BY <1>3 DEF Select
  <2> QED BY <1>s, <2>1, <2>2, FailedKeeps, SameSources, ReadingKept
<1>4. CASE Gather
  <2>1. UNCHANGED <<round, read, pending>> /\ pc = "gather"
    BY <1>4 DEF Gather
  <2>2. Stop("budget") \/ (pc' = pc /\ (report' = report \/ \E b \in BOOLEAN : report' = Failed(b)))
    BY <1>4 DEF Gather
  <2> QED BY <1>s, <2>1, <2>2, FailedKeeps, SameSources, ReadingKept, StopReads
<1>5. CASE SearchArrives
  <2>1. UNCHANGED <<round, read, pending>> /\ pc = "wait"
    BY <1>5 DEF SearchArrives
  <2>2. Stop("budget") \/ (pc' = "select" /\ \E b \in BOOLEAN : report' = Failed(b))
    BY <1>5 DEF SearchArrives, AbsorbSearch
  <2> QED BY <1>s, <2>1, <2>2, FailedKeeps, SameSources, ReadingKept, StopReads
<1>6. CASE Fetch
  <2>1. PICK u \in chosen, b \in BOOLEAN, ok \in BOOLEAN :
           LET r == [Failed(b) EXCEPT !.sources = Append(@, NewSource(u, ok))] IN
           \/ report' = r /\ pc' = pc
           \/ /\ report' = [r EXCEPT !.state = IF Checked # {} THEN "partial" ELSE "failed",
                                     !.stop = "budget"]
              /\ pc' = "closing"
    BY <1>6, FetchReports
  <2>2. UNCHANGED <<round, read>> /\ pc = "fetch"
    BY <1>6 DEF Fetch
  <2>3. Failed(b) \in Reports
    BY FailedTyped DEF Typed
  <2>4. NewSource(u, ok) \in Source /\ NewSource(u, ok).sid = Len(report.sources) + 1
    BY DEF NewSource, Source, Typed, StageTyped, Reports
  <2>5. /\ report'.claims = report.claims
        /\ report'.sources = Append(report.sources, NewSource(u, ok))
    <3> DEFINE d == Failed(b)
               longer == Append(report.sources, NewSource(u, ok))
    <3>1. d \in Reports /\ d.claims = report.claims /\ d.sources = report.sources
      BY <2>3, FailedKeeps
    <3>2. [d EXCEPT !.sources = Append(@, NewSource(u, ok))] = [d EXCEPT !.sources = longer]
      BY <3>1
    <3>3. LET r == [d EXCEPT !.sources = longer] IN
          \/ report' = r
          \/ report' = [r EXCEPT !.state = IF Checked # {} THEN "partial" ELSE "failed",
                                 !.stop = "budget"]
      BY <2>1, <3>2
    <3> HIDE DEF d, longer
    <3>4. report'.claims = report.claims /\ report'.sources = longer
      BY <3>1, <3>3 DEF Reports
    <3> QED BY <3>4 DEF longer
  <2> DEFINE x == NewSource(u, ok)
  <2> HIDE DEF x
  <2>6. report'.sources = report.sources \o <<x>> /\ <<x>> \in Seq(Source)
        /\ \A i \in DOMAIN <<x>> : <<x>>[i].sid = Len(report.sources) + i
    <3>1. report.sources \in Seq(Source)
      BY DEF Typed, Reports
    <3> QED BY <2>4, <2>5, <3>1 DEF x
  <2>7. SidsInOrder' /\ Readable \subseteq Readable'
    BY <1>s, <2>6, SourcesGrow
  <2> QED BY <2>1, <2>2, <2>5, <2>7, ReadingKept
<1>7. CASE ExtractArrives
  <2>1. UNCHANGED <<round, read>> /\ pc = "wait"
    BY <1>7 DEF ExtractArrives
  <2>2. Stop("budget") => Reading'
    BY <2>1, StopReads
  <2>3. ASSUME NEW G \in SUBSET chosen, NEW ok, NEW b \in BOOLEAN, pc' \in {"extract", "close round"},
               report' = [Failed(b) EXCEPT !.sources = @ \o NewSources(G, ok)]
        PROVE  Reading'
    <3>1. Failed(b) \in Reports
      BY FailedTyped DEF Typed
    <3>2. /\ report'.claims = report.claims
          /\ report'.sources = report.sources \o NewSources(G, ok)
      BY <2>3, <3>1, FailedKeeps DEF Reports
    <3>3. SidsInOrder' /\ Readable \subseteq Readable'
      <4> DEFINE more == NewSources(G, ok)
      <4>1. /\ more \in Seq(Source)
            /\ \A i \in DOMAIN more : more[i].sid = Len(report.sources) + i
        BY NewSourcesTyped DEF Typed, StageTyped
      <4> HIDE DEF more
      <4> QED BY <1>s, <3>2, <4>1, SourcesGrow DEF more
    <3> QED BY <2>1, <2>3, <3>2, <3>3, ReadingKept
  <2>4. PICK G, n, failed, ok, finals :
           /\ G \in SUBSET chosen /\ failed \in BOOLEAN
           /\ AbsorbExtract(G, ok, finals, n, failed)
    BY <1>7, Zenon DEF ExtractArrives
  <2> QED BY <2>2, <2>3, <2>4 DEF AbsorbExtract
<1>8. CASE NothingToRead
  <2>1. UNCHANGED <<round, read>> /\ pc' = "close round" /\ report' = [report EXCEPT !.gaps = TRUE]
    BY <1>8 DEF NothingToRead
  <2>2. report'.claims = report.claims /\ report'.sources = report.sources
    BY <2>1 DEF Typed, Reports
  <2> QED BY <1>s, <2>1, <2>2, SameSources, ReadingKept
<1>9. CASE Extract
  <2>1. PICK shown \in Shown : /\ read' = [read EXCEPT ![round] = shown]
                               /\ \E x \in Extractions(shown) : pending' = [x EXCEPT !.shown = shown]
    BY <1>9 DEF Extract
  <2>2. shown \in SUBSET Readable /\ shown \in SUBSET Nat
    BY ReadableAreNat DEF Shown, Typed
  <2>3. PICK x \in Extractions(shown) : pending' = [x EXCEPT !.shown = shown]
    BY <2>1
  <2>4. x \in Extracted /\ x.ev \subseteq shown /\ pending' \in Extracted
    BY <2>2, <2>3, ExtractionTyped
  <2>5. pending'.shown = shown /\ pending'.ev = x.ev
    BY <2>3, <2>4 DEF Extracted
  <2>6. UNCHANGED <<round, report>> /\ pc \in Unsettled
    BY <1>9 DEF Extract
  <2> QED BY <2>1, <2>2, <2>4, <2>5, <2>6, ExtractionReads
<1>10. CASE Repair
  <2>1. pc = "repair" /\ pc' = "settle" /\ UNCHANGED <<round, read>> /\ report' = Failed(TRUE)
    BY <1>10 DEF Repair
  <2>2. /\ pending.shown = read[round] /\ pending.shown \subseteq Readable
        /\ pending.ev \subseteq pending.shown /\ pending \in Extracted
    BY <2>1 DEF Reading, PendingRead, Typed, StageTyped
  <2>3. \/ UNCHANGED pending
        \/ \E x \in Extractions(pending.shown) : pending' = [x EXCEPT !.shown = pending.shown]
    BY <1>10 DEF Repair
  <2>4. pending' \in Extracted /\ pending'.shown = pending.shown /\ pending'.ev \subseteq pending.shown
    <3>1. ASSUME NEW x \in Extractions(pending.shown), pending' = [x EXCEPT !.shown = pending.shown]
          PROVE  /\ pending' \in Extracted /\ pending'.shown = pending.shown
                 /\ pending'.ev \subseteq pending.shown
      <4>1. x \in Extracted /\ x.ev \subseteq pending.shown /\ pending' \in Extracted
        BY <2>2, <3>1, ExtractionTyped DEF Extracted
      <4> QED BY <3>1, <4>1 DEF Extracted
    <3> QED BY <2>2, <2>3, <3>1
  <2>5. read' = [read EXCEPT ![round] = pending.shown]
    BY <2>1, <2>2 DEF Typed, StageTyped
  <2>6. report'.sources = report.sources /\ report'.claims = report.claims
    BY <2>1, FailedKeeps
  <2> QED BY <2>1, <2>2, <2>4, <2>5, <2>6, ExtractionReads
<1>11. CASE Settle
  <2>1. pc = "settle" /\ pc' \in {"review", "close round"} /\ UNCHANGED <<round, read, pending>>
    BY <1>11 DEF Settle, stage
  <2>2. pending.errors \in BOOLEAN
    BY DEF Typed, StageTyped, Extracted
  <2>3. Failed(pending.errors) \in Reports
    BY <2>2, FailedTyped DEF Typed
  <2>4. PICK more \in BOOLEAN :
           report' = [Failed(pending.errors) EXCEPT
                        !.claims = IF pending.claim THEN Proposed ELSE @,
                        !.gaps = @ \/ more \/ pending.errors]
    BY <1>11 DEF Settle
  <2>5. /\ report'.claims = IF pending.claim THEN Proposed ELSE report.claims
        /\ report'.sources = report.sources
    BY <2>2, <2>3, <2>4, FailedKeeps DEF Reports
  <2>6. \A c \in Proposed : c \in report.claims \/ (c.round = round /\ c.ev = pending.ev)
    BY DEF Proposed, NewClaim
  <2> QED BY <2>1, <2>5, <2>6, ClaimReads
<1>12. CASE Review
  <2>1. pc = "review" /\ pc' = "close round" /\ UNCHANGED <<round, read, pending>>
    BY <1>12 DEF Review
  <2>2. PICK claim \in Verdicts, more \in BOOLEAN :
           report' = [report EXCEPT !.claims = Reviewed(claim), !.gaps = @ \/ more]
    BY <1>12 DEF Review
  <2>3. report'.claims = Reviewed(claim) /\ report'.sources = report.sources
    BY <2>2 DEF Typed, Reports
  <2>4. claim.round = round /\ claim.ev = pending.ev
    BY DEF Verdicts, NewClaim
  <2> QED BY <2>1, <2>3, <2>4, ClaimReads DEF Reviewed
<1>13. CASE NextRound
  <2>1. read' = read /\ round = 0 /\ pc = "close round"
    BY <1>13 DEF NextRound
  <2>2. (Finish(report, "done") /\ UNCHANGED round) \/ (pc' = Search /\ round' = 1 /\ UNCHANGED report)
    BY <1>13 DEF NextRound
  <2>3. ASSUME pc' = Search, round' = 1, UNCHANGED report PROVE Reading'
    <3>1. SidsInOrder' /\ Readable' = Readable
      BY <1>s, <2>3, SameSources
    <3>2. \A c \in report.claims : c.round \in {0, 1} /\ c.round <= 0
      BY <2>1 DEF Reading, ClaimsRead, Typed, Reports, Claim
    <3>3. \A c \in report.claims : c.round <= 1 /\ c.round < 1
      BY <3>2
    <3>4. ClaimsRead'
      BY <2>1, <2>3, <3>1, <3>3 DEF Reading, ClaimsRead
    <3>5. ClaimsOfRoundsBefore'
      BY <2>3, <3>3 DEF ClaimsOfRoundsBefore
    <3> QED BY <2>3, <3>1, <3>4, <3>5 DEF Reading, PendingRead, Search
  <2> QED BY <2>1, <2>2, <2>3, StopReads
<1>14. CASE CloseClient
  <2>1. pc = "closing" /\ pc' = pc /\ UNCHANGED <<round, read>>
    BY <1>14 DEF CloseClient
  <2>2. report' = report \/ report' = [Failed(TRUE) EXCEPT !.state = Degraded(@)]
    BY <1>14 DEF CloseClient
  <2>3. report'.claims = report.claims /\ report'.sources = report.sources
    BY <2>2, FailedKeeps, FailedTyped DEF Typed, Reports
  <2> QED BY <1>s, <2>1, <2>3, SameSources, ReadingKept
<1>15. CASE Save
  <2>1. pc' = "saved" /\ UNCHANGED <<round, read>>
    BY <1>15 DEF Save
  <2>2. report'.claims = report.claims /\ report'.sources = report.sources
    BY <1>15 DEF Save, Typed, Reports
  <2> QED BY <1>s, <2>1, <2>2, SameSources, ReadingKept
<1> QED BY <1>1, <1>2, <1>3, <1>4, <1>5, <1>6, <1>7, <1>8, <1>9, <1>10, <1>11, <1>12, <1>13, <1>14, <1>15
        DEF Next

\* What a claim cites was shown to the model in the round of the claim, and its
\* id names one source of the report, however the rounds and the jobs of the
\* Manager numbered theirs (validate_extraction, _absorb_extract).
THEOREM CitedWasRead == Spec => []CitationsWereRead
<1>1. Init => Reading
  BY DEF Init, Reading, SidsInOrder, ClaimsRead, ClaimsOfRoundsBefore, PendingRead, Cites
<1>2. Typed /\ Reading => CitationsWereRead
  <2> SUFFICES ASSUME Typed, Reading, NEW c \in report.claims, NEW s \in c.ev
               PROVE  s \in read[c.round] /\ s \in Unambiguous /\ s \in Readable
    BY DEF CitationsWereRead
  <2>1. s \in read[c.round] /\ s \in Readable
    BY DEF Reading, ClaimsRead
  <2>2. s \in DOMAIN report.sources /\ s \in Sids
    BY <2>1 DEF Readable, Sids, Reading, SidsInOrder
  <2>3. {i \in DOMAIN report.sources : report.sources[i].sid = s} = {s}
    BY <2>2 DEF Reading, SidsInOrder
  <2>4. Cardinality({s}) = 1
    BY FS_Singleton
  <2> QED BY <2>1, <2>2, <2>3, <2>4 DEF Unambiguous
<1>3. Spec => []Reading
  BY <1>1, Counted, NextReading, PTL DEF Spec
<1> QED BY <1>2, <1>3, Counted, PTL

=============================================================================
