--------------------------- MODULE TestPreservation ---------------------------
(***************************************************************************)
(* What a repair may do to an existing test module: preserve_original_tests *)
(* of src/ephy_worker/owner_repair_discovery.py.                           *)
(*                                                                         *)
(* A module is the sequence of its top-level statements (nodes) and of the *)
(* comment lines between them.  A node stands for its source text; sets    *)
(* tell the nodes apart by what the rules look at.  Under the native       *)
(* profile functions may be inserted where no later original statement can *)
(* see them, and their bodies are free; otherwise they may only follow the *)
(* original, and their bodies are closed.                                  *)
(***************************************************************************)
EXTENDS Integers, FiniteSets, Sequences, FiniteSetsExt

CONSTANTS
    Nodes, Comments,    \* what a module is made of
    NameOf,             \* the name each node binds
    Functions,          \* nodes that are functions
    Inert,              \* functions whose definition evaluates nothing of the module
    Plain,              \* functions that may be added: no decorator, default, annotation or skip
    Helpers,            \* those named helper_...
    Calls,              \* the names of the module each function calls
    Imports             \* nodes that import a function of the selected source

ASSUME TestAssumption ==
    /\ Comments \cap Nodes = {}
    /\ Plain \subseteq Functions /\ Inert \subseteq Functions /\ Functions \subseteq Nodes
    /\ Helpers \subseteq Plain /\ Imports \subseteq Nodes

Statements(m) == {i \in 1..Len(m) : m[i] \in Nodes}

\* The place in the original of the last statement found, up to each place of m.
Cursor(original, m) ==
    LET old == Statements(original)
        later(n) == {k \in old : k > n}
        next(x, n) == IF later(n) # {} /\ x = original[Min(later(n))] THEN Min(later(n)) ELSE n
        c[i \in 0..Len(m)] == IF i = 0 THEN 0 ELSE next(m[i], c[i - 1])
    IN  c
Found(original, m) ==
    LET c == Cursor(original, m)
    IN  {i \in 1..Len(m) : c[i] > c[i - 1]}
Added(original, m) == Statements(m) \ Found(original, m)
AllFound(original, m) ==
    LET c == Cursor(original, m)
    IN  \A k \in Statements(original) : k <= c[Len(m)]

\* The lines of the original at the places old are at places of new, in their order.
InOrder(original, m, old, new) ==
    \E at \in [old -> new] :
        /\ \A k \in old : m[at[k]] = original[k]
        /\ \A k, l \in old : k < l => at[k] < at[l]

\* The comment lines between one found statement and the next.
Gap(original, m, k) ==
    LET c == Cursor(original, m)
    IN  {i \in 1..Len(m) : m[i] \in Comments /\ c[i] = k}
CommentsKept(original, m) ==
    \A k \in {0} \cup Statements(original) :
        InOrder(original, m, Gap(original, original, k), Gap(original, m, k))

InsertedAnywhere(original, m) == {}
\* Insertions come after the last original statement that evaluates anything.
BeforeBoundary(original, m) ==
    LET found == Found(original, m)
    IN  {i \in Added(original, m) : \E j \in found : i < j /\ m[j] \notin Inert}

\* The first statement is still the first; without the native profile all are.
StatementsKept(original, m, native) ==
    LET found == Found(original, m)
    IN  /\ AllFound(original, m)
        /\ IF native
           THEN /\ found # {} => \A i \in Added(original, m) : \E j \in found : j < i
                /\ CommentsKept(original, m)
                /\ BeforeBoundary(original, m) = {}
           ELSE \A i \in Added(original, m), j \in found : j < i

\* Additions are functions with names of their own.
AdditionsAllowed(original, m) ==
    LET added == Added(original, m)
    IN  /\ \A i \in added :
            /\ m[i] \in Plain
            /\ \A k \in Statements(original) : NameOf[original[k]] # NameOf[m[i]]
        /\ \A i, j \in added : NameOf[m[i]] = NameOf[m[j]] => i = j

\* registered_test_subjects: what the original imports from the selected source and binds once.
Subjects(original) ==
    LET binding(name) == {k \in Statements(original) : NameOf[original[k]] = name}
    IN  {name \in {NameOf[n] : n \in Imports} :
            Cardinality(binding(name)) = 1 /\ \A k \in binding(name) : original[k] \in Imports}

\* Added bodies call subjects and added helpers, and no helper comes back to itself.
CallsKnown(original, added) ==
    \A n \in added : Calls[n] \subseteq Subjects(original) \cup {NameOf[h] : h \in added \cap Helpers}
NoCycle(added) ==
    \A loop \in (SUBSET added) \ {{}} :
        \E n \in loop : \A h \in loop : NameOf[h] \notin Calls[n]
BodiesClosed(original, m) ==
    LET added == {m[i] : i \in Added(original, m)}
    IN  CallsKnown(original, added) /\ NoCycle(added)

TestsKept(original, m, native) ==
    /\ StatementsKept(original, m, native)
    /\ AdditionsAllowed(original, m)
    /\ native \/ BodiesClosed(original, m)

-----------------------------------------------------------------------------
(***************************************************************************)
(* What the rules are for, said without them: every original statement is  *)
(* still there, runs in the environment it had, and every original name    *)
(* ends up bound to what it was bound to.                                  *)
(***************************************************************************)
Bindings(m, i, name) == {k \in Statements(m) : k < i /\ NameOf[m[k]] = name}
Environment(m, i, names) ==
    [n \in names |-> IF Bindings(m, i, n) = {} THEN <<>> ELSE <<m[Max(Bindings(m, i, n))]>>]

OriginalStands(original, m) ==
    \E at \in [Statements(original) -> Statements(m)] :
        /\ \A k \in Statements(original) : m[at[k]] = original[k]
        /\ \A k, l \in Statements(original) : k < l => at[k] < at[l]
        /\ \A k \in Statements(original) :
            original[k] \notin Inert =>
                LET names == {NameOf[n] : n \in Nodes}
                IN  Environment(m, at[k], names) = Environment(original, k, names)
        /\ LET names == {NameOf[original[k]] : k \in Statements(original)}
           IN  Environment(m, Len(m) + 1, names) = Environment(original, Len(original) + 1, names)
=============================================================================
