------------------------------- MODULE Discovery -------------------------------
(***************************************************************************)
(* Discovery of a repair (src/ephy_worker/owner_repair_discovery.py): a    *)
(* local model reads excerpts of the registered source and selects the     *)
(* files of the repair, then proposes an acceptance checker with two       *)
(* specimens.  Checker and guard are measured on five controls before they *)
(* are frozen into the submission.                                         *)
(*                                                                         *)
(* One registered repository with one source file, CodeFile, and one test  *)
(* file, TestFile, that the specimens may change; of the other files only  *)
(* the presence matters.  Somebody may change the source meanwhile, and   *)
(* with MaxEdits = 1 nobody puts it back.  The wording of prompts and the  *)
(* private evidence are left out.                                          *)
(***************************************************************************)
EXTENDS TestPreservation, SequencesExt

CONSTANTS
    Names,              \* repository paths
    Ranked,             \* the existing ones allowed_name accepts, best match first
    Secret,             \* paths allowed_name refuses
    Modules,            \* paths Python or pytest would pick up
    CodeFile, TestFile,
    Authority,          \* whether CodeFile is the runtime of the bridge
    Size,               \* bytes of each ranked file
    Frame,              \* bytes an excerpt takes besides its text
    FirstLimit, Limit,  \* bytes of the context, in the first round and later
    AutoMax, AskedMax,  \* bytes of an automatic and of a requested excerpt
    Least,              \* fewer bytes of an excerpt are of no use
    FirstBatch, Batch,  \* automatic excerpts of the first round and of a later one
    MaxFiles, MaxAsked, \* files of a scope and of a request
    Rounds, Attempts,
    Codes, Base,        \* contents of CodeFile, and the one of the source
    Guarded,            \* of each content, what is not a body of a reply helper
    Reads,              \* the globals the reply helpers of each content use
    Pure,               \* those they may use
    Original,           \* the test module
    TestModules,        \* those a good specimen may have
    WrongTests,         \* those a wrong one may have
    Passing,            \* added tests that pass on each content
    MaxEdits,           \* bound: changes of the source by others
    Nil

ASSUME DiscoveryAssumption ==
    /\ Range(Ranked) \subseteq Names /\ TestFile \in Range(Ranked) /\ CodeFile \in Range(Ranked)
    /\ Secret \cap Range(Ranked) = {}
    /\ Original \in Seq(Nodes \cup Comments) /\ TestModules \subseteq Seq(Nodes \cup Comments)
    /\ Base \in Codes /\ Reads[Base] \subseteq Pure
    /\ Rounds \in Nat \ {0} /\ Attempts \in Nat \ {0}
    /\ Nil \notin Codes /\ Nil \notin {0, 1}

VARIABLES
    native,             \* the test profile of the template
    source,             \* the registered source, [code, present]
    edits,
    doing,
    round, cursor, added, full,
    context,            \* bytes of each file's excerpt
    asked,              \* requested_context
    feedback,           \* previous_selection_error
    selected, attempt, proposal,
    control,            \* exit codes of the controls measured so far
    frozen              \* the proposal of the submission

selection == <<round, cursor, added, full, context, asked, feedback>>
measurement == <<attempt, proposal, control>>
discoveryVars == <<native, source, edits, doing, selection, selected, measurement, frozen>>

-----------------------------------------------------------------------------
\* allowed_name, for a name of an answer.
AllowedName(n) == n \in Names \ Secret
Registered == [code |-> Base, present |-> Range(Ranked)]
\* snapshot(profile.source) = original_snapshot, and the working tree is clean.
Unchanged == source = Registered

DiscoveryInit ==
    /\ native \in BOOLEAN
    /\ source = Registered /\ edits = 0 /\ doing = "gather"
    /\ round = 1 /\ cursor = 0 /\ added = 0 /\ full = FALSE
    /\ context = <<>> /\ asked = {} /\ feedback = Nil
    /\ selected = {} /\ attempt = 0 /\ proposal = Nil /\ control = <<>> /\ frozen = Nil

\* Any git, file, server or sandbox error that is not in the tables of the recoverable ones.
BreaksOff ==
    /\ doing \notin {"frozen", "failed"} /\ doing' = "failed"
    /\ UNCHANGED <<native, source, edits, selection, selected, measurement, frozen>>

\* Somebody works in the registered source.
Edit ==
    /\ edits < MaxEdits /\ edits' = edits + 1
    /\ \/ \E c \in Codes \ {Base} : source' = [source EXCEPT !.code = c]
       \/ \E n \in Names \ (Secret \cup {CodeFile}) :
            source' = [source EXCEPT !.present = SymDiff(@, {n})]
    /\ UNCHANGED <<native, doing, selection, selected, measurement, frozen>>

-----------------------------------------------------------------------------
\* Excerpts.

Used(bytes) == MapThenSumSet(LAMBDA n : Frame + bytes[n], DOMAIN bytes)
\* Requested code is immutable.
Pending(batch) == batch \ asked
\* The share of a batch, once every file of it has an empty entry.
Share(batch, limit, maximum) ==
    LET empty == [n \in DOMAIN context \cup batch |-> IF n \in batch THEN 0 ELSE context[n]]
    IN  Min({maximum, (limit - Used(empty)) \div Cardinality(batch)})
Excerpts(batch, share) ==
    [n \in DOMAIN context \cup batch |-> IF n \in batch THEN Min({Size[n], share}) ELSE context[n]]
\* The whole batch is included, or it is refused and nothing changes.
TooLarge(batch, limit, maximum) ==
    LET share == Share(batch, limit, maximum)
    IN  \/ \E n \in batch : share < Min({Least, Size[n]})
        \/ Used(Excerpts(batch, share)) > limit
Include(batch, limit, maximum) == context' = Excerpts(batch, Share(batch, limit, maximum))

\* After these the model should look at what it has before more is put in.
Inspecting == {"read_more_requested", "read_more_already_available", "scope_confirmation_required",
               "context_request_too_large"}
AutomaticCount ==
    IF full \/ feedback \in Inspecting THEN 0 ELSE IF round = 1 THEN FirstBatch ELSE Batch

\* One turn of the loop that retrieves the next file by rank.
Gather ==
    /\ doing = "gather" /\ cursor < Len(Ranked) /\ added < AutomaticCount
    /\ cursor' = cursor + 1
    /\ LET n == Ranked[cursor + 1]
           limit == IF round = 1 THEN FirstLimit ELSE Limit
       IN  IF n \in DOMAIN context THEN UNCHANGED <<context, added, full>>
           ELSE IF TooLarge({n}, limit, AutoMax)
                THEN full' = TRUE /\ UNCHANGED <<context, added>>
                ELSE Include({n}, limit, AutoMax) /\ added' = added + 1 /\ UNCHANGED full
    /\ UNCHANGED <<native, source, edits, doing, round, asked, feedback, selected, measurement, frozen>>

Prompt ==
    /\ doing = "gather" /\ ~(cursor < Len(Ranked) /\ added < AutomaticCount)
    /\ doing' = "select"
    /\ UNCHANGED <<native, source, edits, selection, selected, measurement, frozen>>

-----------------------------------------------------------------------------
\* Answers of the model to a selection prompt.

RoundKept(r) == r
NextRound(r) == r + 1
\* A correctable answer costs a round.
Correct(error) ==
    /\ IF round = Rounds THEN doing' = "failed" /\ UNCHANGED round
       ELSE doing' = "gather" /\ round' = NextRound(round)
    /\ feedback' = error /\ added' = 0
    /\ UNCHANGED <<cursor, full>>
Refuse(error) == Correct(error) /\ UNCHANGED <<context, asked>>

Besides == UNCHANGED <<native, source, edits, measurement, frozen>>

\* No JSON, another shape, or names the selection must not have.
InvalidAnswer ==
    /\ doing = "select"
    /\ \E e \in {"scope_empty_or_invalid", "read_more_invalid", "scope_protected_or_missing_tests"} :
        Refuse(e)
    /\ UNCHANGED selected /\ Besides

\* include_excerpts of a request.
Requested(batch, error) ==
    LET pending == Pending(batch)
    IN  IF pending # {} /\ TooLarge(pending, Limit, AskedMax)
        THEN Refuse("context_request_too_large")
        ELSE /\ Correct(error)
             /\ IF pending = {} THEN UNCHANGED <<context, asked>>
                ELSE Include(pending, Limit, AskedMax) /\ asked' = asked \cup batch

ReadMore ==
    /\ doing = "select"
    /\ \E batch \in SUBSET Names :
        /\ batch # {} /\ Cardinality(batch) <= MaxAsked
        /\ IF ~(batch \subseteq Range(Ranked)) THEN Refuse("read_more_protected_or_unknown")
           ELSE IF batch \subseteq asked THEN Refuse("read_more_already_available")
           ELSE Requested(batch, "read_more_requested")
    /\ UNCHANGED selected /\ Besides

\* Selected files that exist and whose code no prompt had.
Unseen(names) == (names \cap source.present) \ DOMAIN context

Select ==
    /\ doing = "select"
    /\ \E names \in SUBSET Names :
        /\ names # {} /\ Cardinality(names) <= MaxFiles
        /\ IF ~(\A n \in names : AllowedName(n)) \/ names \cap {TestFile} \cap source.present = {}
           THEN Refuse("scope_protected_or_missing_tests") /\ UNCHANGED selected
           ELSE IF ~(Unseen(names) \subseteq Range(Ranked))
                THEN doing' = "failed" /\ UNCHANGED <<selection, selected>>
           ELSE IF Unseen(names) # {}
                THEN Requested(Unseen(names), "scope_confirmation_required") /\ UNCHANGED selected
           ELSE selected' = names /\ doing' = "prepare" /\ UNCHANGED selection
    /\ Besides

-----------------------------------------------------------------------------
\* Controls.

\* The variables of select_scope are local.
Forgotten ==
    /\ round' = 1 /\ cursor' = 0 /\ added' = 0 /\ full' = FALSE
    /\ context' = <<>> /\ asked' = {} /\ feedback' = Nil

\* prepare, and preserve_collection_scope: no module may be added.
NoNewModule(names) == names \cap Modules \subseteq Registered.present
Prepare ==
    /\ doing = "prepare"
    /\ IF Unchanged /\ NoNewModule(selected)
       THEN doing' = "propose" /\ attempt' = 1
       ELSE doing' = "failed" /\ UNCHANGED attempt
    /\ Forgotten
    /\ UNCHANGED <<native, source, edits, selected, proposal, control, frozen>>

\* A recoverable failure: the next attempt begins with nothing of this one.
Retry ==
    /\ IF attempt = Attempts \/ ~Unchanged THEN doing' = "failed" /\ UNCHANGED attempt
       ELSE doing' = "propose" /\ attempt' = attempt + 1
    /\ proposal' = Nil /\ control' = <<>>

\* What the model changes in a specimen: files of the scope.
Edits(modules) ==
    [code : {Nil} \cup (IF CodeFile \in selected THEN Codes ELSE {}), tests : {Nil} \cup modules]
Untouched == [code |-> Nil, tests |-> Nil]

\* The answer has the three keys, its edits apply, and its specimens differ.  The checker
\* accepts a set of contents, or leaves the interpreter without having decided.
ProposeChecker ==
    /\ doing = "propose"
    /\ proposal' \in [good : Edits(TestModules), wrong : Edits(WrongTests),
                     accepts : SUBSET Codes \cup {Nil}]
    /\ Untouched \notin {proposal'.good, proposal'.wrong} /\ proposal'.good # proposal'.wrong
    /\ doing' = "measure" /\ UNCHANGED <<attempt, control>>
    /\ UNCHANGED <<native, source, edits, selection, selected, frozen>>
InvalidProposal ==
    /\ doing = "propose" /\ Retry
    /\ UNCHANGED <<native, source, edits, selection, selected, frozen>>

Controls == <<"known_good", "unchanged", "wrong_answer", "test_weakening", "scope_escape">>
Expected(name) == IF name = "known_good" THEN 0 ELSE 1

\* A copy of the source, as it is now, with the edits of a specimen.
Copy(changes, escape) ==
    [code |-> IF changes.code = Nil THEN source.code ELSE changes.code,
     tests |-> IF changes.tests = Nil THEN Original ELSE changes.tests,
     present |-> source.present \cup (IF changes.code = Nil THEN {} ELSE {CodeFile})
                                \cup (IF changes.tests = Nil THEN {} ELSE {TestFile}),
     escape |-> escape]
Specimen(name) ==
    CASE name = "known_good" -> Copy(proposal.good, FALSE)
      [] name = "unchanged" -> Copy(Untouched, FALSE)
      [] name = "wrong_answer" -> Copy(proposal.wrong, FALSE)
      [] name = "test_weakening" -> Copy([proposal.good EXCEPT !.tests = <<>>], FALSE)
      [] name = "scope_escape" -> Copy(proposal.good, TRUE)

\* authority_fingerprint: the pure bodies of the reply helpers may differ, nothing else.
AuthorityKept(code) == Guarded[code] = Guarded[Base] /\ Reads[code] \subseteq Pure

WithinScope(s) ==
    /\ ~s.escape
    /\ SymDiff(s.present, Registered.present) \subseteq selected
    /\ s.code # Base => CodeFile \in selected
    /\ s.tests # Original => TestFile \in selected
\* The guard in front of every acceptance checker.
GuardHolds(s) ==
    /\ WithinScope(s)
    /\ NoNewModule(selected)
    /\ Authority /\ CodeFile \in selected => AuthorityKept(s.code)
    /\ TestFile \in s.present /\ TestsKept(Original, s.tests, native)
AddedTestsPass(s) ==
    native => \A i \in Added(Original, s.tests) : s.tests[i] \in Helpers \cup Passing[s.code]
\* check_completion: the record is written only after the checker has returned or raised.
LeavesRecord(p) == p.accepts # Nil
\* The exit code that the record confirms, Nil when there is none.
ExitCode(s, p) ==
    IF ~GuardHolds(s) THEN 1
    ELSE IF ~LeavesRecord(p) THEN Nil
    ELSE IF s.code \in p.accepts /\ AddedTestsPass(s) THEN 0 ELSE 1

Measure ==
    /\ doing = "measure" /\ Len(control) < Len(Controls)
    /\ \E name \in {Controls[Len(control) + 1]}, code \in {0, 1, Nil} :
        /\ code = ExitCode(Specimen(name), proposal)
        /\ IF name = "test_weakening" /\ proposal.good.tests = Nil THEN Retry
           ELSE IF code = Nil
                THEN doing' = "failed" /\ UNCHANGED measurement
                ELSE control' = Append(control, code) /\ UNCHANGED <<doing, attempt, proposal>>
    /\ UNCHANGED <<native, source, edits, selection, selected, frozen>>

\* All five must come out as expected.
Compare ==
    /\ doing = "measure" /\ Len(control) = Len(Controls)
    /\ IF \A k \in 1..Len(Controls) : control[k] = Expected(Controls[k])
       THEN doing' = "freeze" /\ UNCHANGED measurement
       ELSE Retry
    /\ UNCHANGED <<native, source, edits, selection, selected, frozen>>

\* The source is looked at again when everything has been measured.
LastLook == Unchanged
\* Pins, draft and frozen specification.
Freeze ==
    /\ doing = "freeze"
    /\ IF LastLook THEN doing' = "frozen" /\ frozen' = proposal
       ELSE doing' = "failed" /\ UNCHANGED frozen
    /\ UNCHANGED <<native, source, edits, selection, selected, measurement>>

-----------------------------------------------------------------------------
\* The model answers within the limit of the HTTP client, a checker within that of the sandbox.
Controller ==
    \/ BreaksOff
    \/ Gather \/ Prompt \/ InvalidAnswer \/ ReadMore \/ Select
    \/ Prepare \/ ProposeChecker \/ InvalidProposal \/ Measure \/ Compare \/ Freeze
DiscoveryNext == Controller \/ Edit

DiscoverySpec == DiscoveryInit /\ [][DiscoveryNext]_discoveryVars /\ WF_discoveryVars(Controller)

-----------------------------------------------------------------------------

\* What checker p and the guard accept of the registered source with these changes.
Accepts(p, changes) ==
    LET code == IF changes.code = Nil THEN Base ELSE changes.code
        tests == IF changes.tests = Nil THEN Original ELSE changes.tests
    IN  /\ code \in p.accepts
        /\ code # Base => CodeFile \in selected
        /\ tests # Original => TestFile \in selected
        /\ Authority /\ CodeFile \in selected => AuthorityKept(code)
        /\ TestsKept(Original, tests, native)
        /\ native => \A i \in Added(Original, tests) : tests[i] \in Helpers \cup Passing[code]

(***************************************************************************)
(* A frozen checker tells good from bad on the source it is frozen with,   *)
(* whatever happened to that source meanwhile: with its guard it accepts   *)
(* the repair and refuses the wrong answer, the checker alone refuses the  *)
(* source as it is, the repair changes code and tests and leaves the       *)
(* authority of the bridge alone, and its test module leaves every         *)
(* original test what it was.                                              *)
(***************************************************************************)
Discriminates(p) ==
    /\ p.accepts # Nil /\ p.good.code # Nil /\ p.good.tests # Nil
    /\ Accepts(p, p.good) /\ ~Accepts(p, p.wrong) /\ Base \notin p.accepts
    /\ Authority => AuthorityKept(p.good.code)
    /\ OriginalStands(Original, p.good.tests)
FrozenDiscriminates == doing = "frozen" => Discriminates(frozen)

(***************************************************************************)
(* Discovery ends: rounds and attempts are used up by every answer that    *)
(* leads nowhere.                                                          *)
(***************************************************************************)
DiscoveryEnds == <>(doing \in {"frozen", "failed"})
=============================================================================
