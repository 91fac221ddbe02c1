----------------------------- MODULE MCManager -----------------------------
(***************************************************************************)
(* A small instance of Manager for TLC, with two sides: two workers of     *)
(* different capabilities share jobs of both kinds, or one worker stores   *)
(* artifacts for a succession of jobs under one submit key.                *)
(***************************************************************************)
EXTENDS Manager, TLC

MCKinds == {"web.collect", "discord.observe"}
\* Two kinds of workers, one of them able to observe and to run two jobs.
MCMixed == {[caps |-> {"web.collect"}, concurrency |-> 1],
            [caps |-> {"web.collect", "discord.observe"}, concurrency |-> 2]}
\* One content is twice as large as the others.
MCUnevenSize == LET big == CHOOSE c \in Contents : TRUE
                IN  [c \in Contents |-> IF c = big THEN 2 ELSE 1]
MCManifests == {{}} \cup {{r} : r \in Refs}

Symmetry ==
    Permutations(Jobs) \cup Permutations(Attempts) \cup Permutations(Keys)
      \cup Permutations(ArtifactIds) \cup Permutations(Names)

\* Bound: files are stored only while there is nothing to choose between.
Shared ==
    \/ \E w \in Workers : worker[w].reg # None /\ (w # 1 \/ worker[w].reg.concurrency > 1)
    \/ \E j \in Jobs : job[j].kind = "discord.observe" \/ job[j].target \in Workers \ {1}
    \/ Cardinality({job[j].key : j \in Jobs} \ {None}) > 1
SharedOrStoring == Shared => Files = {} /\ artifact = {}

\* Bound: the first worker is always of the kind that runs one job.
FirstRunsOne == worker[1].reg # None => worker[1].reg.concurrency = 1

MCSpec == Init /\ [][Next /\ SharedOrStoring' /\ FirstRunsOne']_vars
=============================================================================
