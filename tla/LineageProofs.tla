--------------------------- MODULE LineageProofs ---------------------------
(***************************************************************************)
(* Children and retries never use more than their root was granted: proved *)
(* for any number of jobs, any budgets and terms, and any order in which   *)
(* jobs are submitted, retried, swept, cancelled and deleted.              *)
(*                                                                         *)
(* The argument: a job belongs to the root its ancestors lead to; while no *)
(* row of the family is gone the recursive query finds all of it, so that  *)
(* what the query charges to a root that has ended is the sum over the     *)
(* family; a child is created within what that sum leaves; and a row is    *)
(* never charged less than its attempt used.                               *)
(***************************************************************************)
EXTENDS Lineage, FiniteSetTheorems, WellFoundedInduction, TLAPS

-----------------------------------------------------------------------------
(* Induction.  The sets that are proved to be everything take the place of *)
(* the predicates of the usual statement.                                  *)

\* Induction over the natural numbers, for a set instead of an operator.
LEMMA NatSetInduction ==
  ASSUME NEW T, 0 \in T, \A n \in Nat : n \in T => n + 1 \in T
  PROVE  Nat \subseteq T
<1> SUFFICES ASSUME Nat \ T # {} PROVE FALSE
  OBVIOUS
<1> DEFINE R == {ss \in Nat \X Nat : ss[1] < ss[2]}
<1>1. IsWellFoundedOn(R, Nat)
  <2>1. OpToRel(<, Nat) = R
    BY DEF OpToRel
  <2> QED
    BY <2>1, NatLessThanWellFounded
<1> HIDE DEF R
<1>2. PICK n \in Nat \ T : \A k \in Nat \ T : <<k, n>> \notin R
  BY <1>1, WFMin
<1>3. n # 0 /\ n - 1 \in Nat
  BY <1>2
<1>4. n - 1 \notin T
  BY <1>3, (n - 1) + 1 = n
<1>5. <<n - 1, n>> \in R
  BY <1>2, <1>3 DEF R
<1> QED
  BY <1>2, <1>3, <1>4, <1>5

\* Induction over the subsets of a finite set.
LEMMA SubsetInduction ==
  ASSUME NEW S, IsFiniteSet(S), NEW T,
         \A s \in SUBSET S : (\A t \in SUBSET s : t # s => t \in T) => s \in T
  PROVE  SUBSET S \subseteq T
<1> DEFINE N == {n \in Nat : \A s \in SUBSET S : Cardinality(s) < n => s \in T}
<1>1. \A s \in SUBSET S : IsFiniteSet(s) /\ Cardinality(s) \in Nat
  BY FS_Subset, FS_CardinalityType
<1>2. 0 \in N
  BY <1>1
<1>3. ASSUME NEW n \in Nat, n \in N PROVE n + 1 \in N
  <2> SUFFICES ASSUME NEW s \in SUBSET S, Cardinality(s) < n + 1 PROVE s \in T
    OBVIOUS
  <2>1. ASSUME NEW t \in SUBSET s, t # s PROVE t \in T
    <3>1. IsFiniteSet(s) /\ t \in SUBSET S /\ Cardinality(t) \in Nat /\ Cardinality(s) \in Nat
      BY <1>1
    <3>2. Cardinality(t) < Cardinality(s)
      <4>1. Cardinality(t) <= Cardinality(s)
        BY <3>1, FS_Subset
      <4>2. Cardinality(t) # Cardinality(s)
        BY <2>1, <3>1, FS_Subset
      <4> QED
        BY <3>1, <4>1, <4>2
    <3>3. Cardinality(t) < n
      BY <3>1, <3>2
    <3> QED
      BY <1>3, <3>1, <3>3
  <2> QED
    BY <2>1
<1> HIDE DEF N
<1>4. Nat \subseteq N
  BY <1>2, <1>3, NatSetInduction
<1>5. ASSUME NEW s \in SUBSET S PROVE s \in T
  <2>1. Cardinality(s) \in Nat
    BY <1>1
  <2>2. Cardinality(s) + 1 \in N /\ Cardinality(s) < Cardinality(s) + 1
    BY <1>4, <2>1
  <2> QED
    BY <2>2 DEF N
<1> QED
  BY <1>5

-----------------------------------------------------------------------------
(* Sums over finite sets.  SumFunctionOnSet folds a set by taking an       *)
(* element it chooses; that the choice does not matter is proved here.     *)

\* What SumFunctionOnSet computes, subset by subset.
First(s) == CHOOSE x \in s : TRUE
Rest(s) == s \ {First(s)}
Adds(f, D, h) == h = [s \in D |-> IF s = {} THEN 0 ELSE f[First(s)] + h[Rest(s)]]

LEMMA SumIsFold ==
  ASSUME NEW f, NEW S
  PROVE  SumFunctionOnSet(f, S) = (CHOOSE h : Adds(f, SUBSET S, h))[S]
BY DEF SumFunctionOnSet, FoldFunctionOnSet, MapThenFoldSet, Adds, First, Rest

LEMMA RestIsLess ==
  ASSUME NEW s, s # {}
  PROVE  First(s) \in s /\ Rest(s) \in SUBSET s /\ Rest(s) # s
BY DEF First, Rest

\* There is such a function.
LEMMA FoldExists ==
  ASSUME NEW f, NEW S, IsFiniteSet(S)
  PROVE  \E h : Adds(f, SUBSET S, h)
<1> DEFINE Small(n) == {s \in SUBSET S : Cardinality(s) < n}
           N == {n \in Nat : \E h : Adds(f, Small(n), h)}
<1>1. \A s \in SUBSET S : IsFiniteSet(s) /\ Cardinality(s) \in Nat
  BY FS_Subset, FS_CardinalityType
<1>2. 0 \in N
  <2>1. Small(0) = {}
    BY <1>1
  <2>2. Adds(f, Small(0), [s \in {} |-> 0])
    BY <2>1 DEF Adds
  <2> QED
    BY <2>2
<1>3. ASSUME NEW n \in Nat, n \in N PROVE n + 1 \in N
  <2>1. PICK h : Adds(f, Small(n), h)
    BY <1>3
  <2> DEFINE value(s) == IF s = {} THEN 0 ELSE f[First(s)] + h[Rest(s)]
             g == [s \in Small(n + 1) |-> value(s)]
  <2>2. \A s \in Small(n) : s \in Small(n + 1) /\ g[s] = h[s]
    <3>1. \A s \in Small(n) : h[s] = value(s)
      BY <2>1 DEF Adds
    <3>2. \A s \in Small(n) : s \in Small(n + 1)
      BY <1>1
    <3> QED
      BY <3>1, <3>2
  <2>3. ASSUME NEW s \in Small(n + 1), s # {} PROVE g[Rest(s)] = h[Rest(s)]
    <3>1. Rest(s) \in SUBSET S /\ Rest(s) \in SUBSET s /\ Rest(s) # s
      BY <2>3, RestIsLess
    <3>2. Cardinality(Rest(s)) < n
      <4>1. IsFiniteSet(s) /\ Cardinality(s) \in Nat /\ Cardinality(Rest(s)) \in Nat
        BY <1>1, <3>1
      <4>2. Cardinality(Rest(s)) <= Cardinality(s) /\ Cardinality(Rest(s)) # Cardinality(s)
        BY <3>1, <4>1, FS_Subset
      <4> QED
        BY <4>1, <4>2
    <3> QED
      BY <2>2, <3>1, <3>2
  <2>4. Adds(f, Small(n + 1), g)
    <3> HIDE DEF Small
    <3>1. g = [s \in Small(n + 1) |-> IF s = {} THEN 0 ELSE f[First(s)] + g[Rest(s)]]
      BY <2>3
    <3> QED
      BY <3>1 DEF Adds
  <2> HIDE DEF g, Small
  <2>5. \E k : Adds(f, Small(n + 1), k)
    BY <2>4
  <2> QED
    BY <2>5
<1>4. Cardinality(S) + 1 \in N
  <2> HIDE DEF N
  <2>1. Nat \subseteq N
    BY <1>2, <1>3, NatSetInduction
  <2>2. Cardinality(S) \in Nat
    BY FS_CardinalityType
  <2> QED
    BY <2>1, <2>2
<1>5. Small(Cardinality(S) + 1) = SUBSET S
  <2>1. Cardinality(S) \in Nat /\ \A s \in SUBSET S : Cardinality(s) \in Nat /\ Cardinality(s) <= Cardinality(S)
    BY <1>1, FS_Subset, FS_CardinalityType
  <2> QED
    BY <2>1
<1> QED
  BY <1>4, <1>5

\* On the subsets of S it does not depend on the set it was made for.
LEMMA FoldsAgree ==
  ASSUME NEW f, NEW S, IsFiniteSet(S), NEW D, SUBSET S \subseteq D,
         NEW h, Adds(f, SUBSET S, h), NEW k, Adds(f, D, k)
  PROVE  h[S] = k[S]
<1> DEFINE T == {s \in SUBSET S : h[s] = k[s]}
<1>1. ASSUME NEW s \in SUBSET S, \A t \in SUBSET s : t # s => t \in T PROVE s \in T
  <2>1. /\ h[s] = IF s = {} THEN 0 ELSE f[First(s)] + h[Rest(s)]
        /\ k[s] = IF s = {} THEN 0 ELSE f[First(s)] + k[Rest(s)]
    BY DEF Adds
  <2>2. s # {} => h[Rest(s)] = k[Rest(s)]
    BY <1>1, RestIsLess
  <2> QED
    BY <2>1, <2>2
<1> HIDE DEF T
<1>2. SUBSET S \subseteq T
  BY <1>1, SubsetInduction
<1>3. S \in T
  BY <1>2
<1> QED
  BY <1>3 DEF T

LEMMA SumFolds ==
  ASSUME NEW f, NEW S, IsFiniteSet(S)
  PROVE  SumFunctionOnSet(f, S) = IF S = {} THEN 0 ELSE f[First(S)] + SumFunctionOnSet(f, Rest(S))
<1> DEFINE h == CHOOSE g : Adds(f, SUBSET S, g)
           k == CHOOSE g : Adds(f, SUBSET Rest(S), g)
<1>1. Adds(f, SUBSET S, h)
  BY FoldExists
<1>2. SumFunctionOnSet(f, S) = h[S] /\ SumFunctionOnSet(f, Rest(S)) = k[Rest(S)]
  BY SumIsFold
<1>3. Rest(S) \in SUBSET S /\ IsFiniteSet(Rest(S))
  BY FS_Subset DEF Rest
<1>4. Adds(f, SUBSET Rest(S), k)
  BY <1>3, FoldExists
<1> HIDE DEF h, k
<1>5. k[Rest(S)] = h[Rest(S)]
  <2>1. SUBSET Rest(S) \subseteq SUBSET S
    BY <1>3
  <2> QED
    BY <1>1, <1>3, <1>4, <2>1, FoldsAgree
<1>6. h[S] = IF S = {} THEN 0 ELSE f[First(S)] + h[Rest(S)]
  BY <1>1 DEF Adds
<1> QED
  BY <1>2, <1>5, <1>6

LEMMA SumIsNatural ==
  ASSUME NEW f, NEW S, IsFiniteSet(S), \A x \in S : f[x] \in Nat
  PROVE  SumFunctionOnSet(f, S) \in Nat
<1> DEFINE T == {s \in SUBSET S : SumFunctionOnSet(f, s) \in Nat}
<1>1. ASSUME NEW s \in SUBSET S, \A t \in SUBSET s : t # s => t \in T PROVE s \in T
  <2>1. IsFiniteSet(s)
    BY FS_Subset
  <2>2. SumFunctionOnSet(f, s) = IF s = {} THEN 0 ELSE f[First(s)] + SumFunctionOnSet(f, Rest(s))
    BY <2>1, SumFolds
  <2>3. s # {} => f[First(s)] \in Nat /\ SumFunctionOnSet(f, Rest(s)) \in Nat
    BY <1>1, RestIsLess
  <2> QED
    BY <2>2, <2>3
<1> HIDE DEF T
<1>2. SUBSET S \subseteq T
  BY <1>1, SubsetInduction
<1>3. S \in T
  BY <1>2
<1> QED
  BY <1>3 DEF T

\* Any element may be taken first.
LEMMA SumTakes ==
  ASSUME NEW f, NEW S, IsFiniteSet(S), \A x \in S : f[x] \in Nat, NEW e \in S
  PROVE  SumFunctionOnSet(f, S) = f[e] + SumFunctionOnSet(f, S \ {e})
<1> DEFINE Total(s) == SumFunctionOnSet(f, s)
           T == {s \in SUBSET S : \A x \in s : Total(s) = f[x] + Total(s \ {x})}
<1>0. \A s \in SUBSET S : IsFiniteSet(s) /\ Total(s) \in Nat
  BY FS_Subset, SumIsNatural
<1>1. ASSUME NEW s \in SUBSET S, \A t \in SUBSET s : t # s => t \in T PROVE s \in T
  <2> SUFFICES ASSUME NEW x \in s PROVE Total(s) = f[x] + Total(s \ {x})
    OBVIOUS
  <2> DEFINE y == First(s)
  <2>1. y \in s /\ Rest(s) = s \ {y}
    BY RestIsLess DEF Rest
  <2>2. Total(s) = f[y] + Total(s \ {y})
    BY <1>0, <2>1, SumFolds
  <2> HIDE DEF y
  <2>3. CASE x = y
    BY <2>2, <2>3
  <2>4. CASE x # y
    <3>1. s \ {x} \in T /\ s \ {y} \in T
      BY <1>1, <2>1
    <3> DEFINE rest == (s \ {x}) \ {y}
    <3>2. rest = (s \ {y}) \ {x} /\ rest \in SUBSET S
      OBVIOUS
    <3> HIDE DEF rest
    <3>3. Total(s \ {x}) = f[y] + Total(rest)
      BY <2>1, <2>4, <3>1 DEF rest
    <3>4. Total(s \ {y}) = f[x] + Total(rest)
      BY <2>1, <2>4, <3>1, <3>2
    <3>5. f[x] \in Nat /\ f[y] \in Nat /\ Total(rest) \in Nat
      BY <1>0, <2>1, <3>2
    <3> HIDE DEF Total
    <3> QED
      BY <2>2, <3>3, <3>4, <3>5
  <2> QED
    BY <2>3, <2>4
<1> HIDE DEF T
<1>2. SUBSET S \subseteq T
  BY <1>1, SubsetInduction
<1>3. S \in T
  BY <1>2
<1> QED
  BY <1>3 DEF T

LEMMA SumAdds ==
  ASSUME NEW f, NEW S, IsFiniteSet(S), \A x \in S : f[x] \in Nat, NEW e, e \notin S, f[e] \in Nat
  PROVE  SumFunctionOnSet(f, S \cup {e}) = SumFunctionOnSet(f, S) + f[e]
<1> DEFINE D == S \cup {e}
<1>1. IsFiniteSet(D) /\ e \in D /\ D \ {e} = S /\ \A x \in D : f[x] \in Nat
  BY FS_AddElement
<1> HIDE DEF D
<1>2. SumFunctionOnSet(f, D) = f[e] + SumFunctionOnSet(f, D \ {e})
  BY <1>1, SumTakes
<1>3. SumFunctionOnSet(f, S) \in Nat
  BY SumIsNatural
<1>4. SumFunctionOnSet(f, D) = SumFunctionOnSet(f, S) + f[e]
  BY <1>1, <1>2, <1>3
<1> QED
  BY <1>4 DEF D

LEMMA SumGrows ==
  ASSUME NEW f, NEW g, NEW S, IsFiniteSet(S),
         \A x \in S : f[x] \in Nat /\ g[x] \in Nat /\ f[x] <= g[x]
  PROVE  SumFunctionOnSet(f, S) <= SumFunctionOnSet(g, S)
<1> DEFINE T == {s \in SUBSET S : SumFunctionOnSet(f, s) <= SumFunctionOnSet(g, s)}
<1>1. ASSUME NEW s \in SUBSET S, \A t \in SUBSET s : t # s => t \in T PROVE s \in T
  <2>1. IsFiniteSet(s)
    BY FS_Subset
  <2>2. /\ SumFunctionOnSet(f, s) = IF s = {} THEN 0 ELSE f[First(s)] + SumFunctionOnSet(f, Rest(s))
        /\ SumFunctionOnSet(g, s) = IF s = {} THEN 0 ELSE g[First(s)] + SumFunctionOnSet(g, Rest(s))
    BY <2>1, SumFolds
  <2>3. ASSUME s # {} PROVE s \in T
    <3>1. First(s) \in s /\ Rest(s) \in T /\ Rest(s) \in SUBSET S
      BY <1>1, <2>3, RestIsLess
    <3>2. IsFiniteSet(Rest(s))
      BY <3>1, FS_Subset
    <3>3. SumFunctionOnSet(f, Rest(s)) \in Nat /\ SumFunctionOnSet(g, Rest(s)) \in Nat
      BY <3>1, <3>2, SumIsNatural
    <3>4. f[First(s)] \in Nat /\ g[First(s)] \in Nat /\ f[First(s)] <= g[First(s)]
      BY <3>1
    <3> QED
      BY <2>2, <2>3, <3>1, <3>3, <3>4
  <2> QED
    BY <2>2, <2>3
<1> HIDE DEF T
<1>2. SUBSET S \subseteq T
  BY <1>1, SubsetInduction
<1>3. S \in T
  BY <1>2
<1> QED
  BY <1>3 DEF T

LEMMA SumDepends ==
  ASSUME NEW f, NEW g, NEW S, IsFiniteSet(S), \A x \in S : f[x] \in Nat /\ f[x] = g[x]
  PROVE  SumFunctionOnSet(f, S) = SumFunctionOnSet(g, S)
<1>1. SumFunctionOnSet(f, S) <= SumFunctionOnSet(g, S) /\ SumFunctionOnSet(g, S) <= SumFunctionOnSet(f, S)
  BY SumGrows
<1>2. SumFunctionOnSet(f, S) \in Nat /\ SumFunctionOnSet(g, S) \in Nat
  BY SumIsNatural
<1> QED
  BY <1>1, <1>2

LEMMA SumOfOne ==
  ASSUME NEW f, NEW e, f[e] \in Nat
  PROVE  SumFunctionOnSet(f, {e}) = f[e]
<1>1. IsFiniteSet({e}) /\ First({e}) = e /\ Rest({e}) = {} /\ IsFiniteSet({})
  BY FS_Singleton, FS_EmptySet DEF First, Rest
<1>2. SumFunctionOnSet(f, {}) = 0
  BY <1>1, SumFolds
<1>3. SumFunctionOnSet(f, {e}) = f[e] + SumFunctionOnSet(f, {})
  BY <1>1, SumFolds
<1> QED
  BY <1>2, <1>3
-----------------------------------------------------------------------------
(* The inductive invariant.                                                *)

\* What a row is; its key and its deadline play no part here.
Rows(K) ==
    [state : States, key : K, parent : Jobs \cup {None}, budget : Nat, deadline : K, usage : Nat \cup {None}]

\* A row tells what its attempt has used, as far as it can be known, and no attempt
\* uses more than the budget of its job.
Books ==
    /\ \E K : job \in [Jobs -> Rows(K)]
    /\ spent \in [Jobs -> Nat]
    /\ \A j \in Jobs :
        /\ job[j].state = "unused" => spent[j] = 0
        /\ Present(j) =>
            /\ spent[j] <= job[j].budget
            /\ job[j].usage # None => job[j].usage = spent[j] /\ job[j].state \in Terminal
            /\ job[j].usage = None => job[j].state \notin {"completed", "partial", "failed"}
            /\ job[j].usage = None /\ job[j].state \in {"queued", "cancelled"} => spent[j] = 0

\* Every job that is there belongs to the root that its ancestors lead to, and a root has
\* others only once it has ended.
Families ==
    /\ origin \in [Jobs -> Jobs \cup {None}]
    /\ \A j \in Jobs :
        /\ origin[j] = None <=> job[j].state = "unused"
        /\ origin[j] # None => origin[origin[j]] = origin[j]
        /\ Present(j) /\ job[j].parent = None => origin[j] = j
        /\ Present(j) /\ job[j].parent # None => origin[job[j].parent] = origin[j]
        /\ origin[j] \notin {j, None} /\ Present(origin[j]) => job[origin[j]].state \in Terminal
        /\ IsFiniteSet(Allotted(j))

Intact(r) == \A j \in Allotted(r) : Present(j)
\* The recursive query finds all that draw on the root, unless one of them was deleted.
Reached == \A r \in Roots : Intact(r) => Allotted(r) \subseteq LineageOf(r)

Charges(r) == [j \in Jobs |-> Reserved(r, j)]
\* What it charges to a root that has ended stays within the budget of the root.
Covered ==
    \A r \in Roots :
        job[r].state \in Terminal \ {"lost"} /\ Intact(r)
        => SumFunctionOnSet(Charges(r), Allotted(r)) <= job[r].budget

Allowances == Books /\ Families /\ Reached /\ Covered
-----------------------------------------------------------------------------
\* The allowance follows from the parts.
LEMMA AllowancesHold == Allowances => AllowanceHeld
<1> SUFFICES ASSUME Allowances, NEW r \in Roots, job[r].state # "lost", \A j \in Allotted(r) : Present(j)
             PROVE  Spent(r) <= job[r].budget
  BY DEF AllowanceHeld
<1>1. /\ r \in Jobs /\ Present(r) /\ origin[r] = r /\ IsFiniteSet(Allotted(r))
      /\ \A j \in Allotted(r) : j \in Jobs /\ spent[j] \in Nat
  BY DEF Allowances, Families, Books, Roots, Allotted
<1>2. PICK K : job \in [Jobs -> Rows(K)]
  BY DEF Allowances, Books
<1>3. \A j \in Jobs : Reserved(r, j) \in Nat
  BY <1>2 DEF Reserved, Rows
<1>4. CASE job[r].state \in Terminal
  <2>1. SumFunctionOnSet(Charges(r), Allotted(r)) <= job[r].budget
    BY <1>4 DEF Allowances, Covered, Intact
  <2>2. ASSUME NEW j \in Allotted(r)
        PROVE  spent[j] \in Nat /\ Charges(r)[j] \in Nat /\ spent[j] <= Charges(r)[j]
    <3>1. j \in Jobs /\ Present(j) /\ spent[j] \in Nat /\ Charges(r)[j] = Reserved(r, j)
      BY <1>1 DEF Charges
    <3>2. /\ spent[j] <= job[j].budget
          /\ job[j].usage # None => job[j].usage = spent[j]
          /\ job[j].usage = None => job[j].state \notin {"completed", "partial", "failed"}
          /\ job[j].usage = None /\ job[j].state \in {"queued", "cancelled"} => spent[j] = 0
      BY <3>1 DEF Allowances, Books
    <3>3. CASE job[j].usage # None
      BY <3>1, <3>2, <3>3 DEF Reserved
    <3>4. CASE job[j].usage = None /\ (j = r \/ job[j].state = "cancelled")
      BY <1>4, <3>1, <3>2, <3>4 DEF Reserved, Terminal
    <3>5. CASE job[j].usage = None /\ j # r /\ job[j].state # "cancelled"
      BY <1>2, <3>1, <3>2, <3>5 DEF Reserved, Rows
    <3> QED
      BY <3>3, <3>4, <3>5
  <2> DEFINE used == SumFunctionOnSet(spent, Allotted(r))
             charged == SumFunctionOnSet(Charges(r), Allotted(r))
  <2>3. used \in Nat /\ charged \in Nat /\ used <= charged
    BY <1>1, <2>2, SumIsNatural, SumGrows
  <2>4. job[r].budget \in Nat
    BY <1>1, <1>2 DEF Rows
  <2> HIDE DEF used, charged
  <2>5. used <= job[r].budget
    BY <2>1, <2>3, <2>4 DEF charged
  <2> QED
    BY <2>5 DEF used, Spent
<1>5. CASE job[r].state \notin Terminal
  <2>1. Allotted(r) = {r}
    <3>1. ASSUME NEW j \in Allotted(r) PROVE j = r
      <4>1. j \in Jobs /\ origin[j] = r /\ r # None
        BY <1>1, LineageAssumption DEF Allotted
      <4> QED
        BY <1>1, <1>5, <4>1 DEF Allowances, Families
    <3> QED
      BY <1>1, <3>1 DEF Allotted
  <2>2. Spent(r) = spent[r]
    BY <1>1, <2>1, SumOfOne DEF Spent
  <2> QED
    BY <1>1, <2>2 DEF Allowances, Books
<1> QED
  BY <1>4, <1>5

LEMMA AllowancesBegin == Init => Allowances
<1> SUFFICES ASSUME Init PROVE Allowances
  OBVIOUS
<1>1. \A j \in Jobs : job[j] = NoJob("unused") /\ ~Present(j) /\ spent[j] = 0 /\ origin[j] = None
  BY DEF Init, Present, NoJob
<1>2. job \in [Jobs -> Rows({None, 0})]
  BY DEF Init, NoJob, Rows, States
<1>3. Books
  BY <1>1, <1>2 DEF Books, Init
<1>4. Families
  <2>1. \A j \in Jobs : Allotted(j) = {}
    BY <1>1, LineageAssumption DEF Allotted
  <2>2. \A j \in Jobs : job[j].state = "unused"
    BY <1>1 DEF NoJob
  <2>3. \A j \in Jobs : IsFiniteSet(Allotted(j))
    BY <2>1, FS_EmptySet
  <2>4. origin \in [Jobs -> Jobs \cup {None}]
    BY DEF Init
  <2> QED
    BY <1>1, <2>2, <2>3, <2>4 DEF Families
<1>5. Roots = {}
  BY <1>1 DEF Roots
<1> QED
  BY <1>3, <1>4, <1>5 DEF Allowances, Reached, Covered

-----------------------------------------------------------------------------
\* The query leads to the root a job was allotted from.
LEMMA LineageIsAllotted ==
  ASSUME Families, NEW r \in Roots
  PROVE  r \in Allotted(r) /\ LineageOf(r) \subseteq Allotted(r)
<1>1. r \in Jobs /\ origin[r] = r
  BY DEF Roots, Families
<1>2. r \in Allotted(r) /\ Allotted(r) \in SUBSET Jobs
  BY <1>1 DEF Allotted
<1>3. ASSUME NEW p \in Allotted(r) PROVE Children(p) \subseteq Allotted(r)
  <2> SUFFICES ASSUME NEW c \in Children(p) PROVE c \in Allotted(r)
    OBVIOUS
  <2>1. c \in Jobs /\ Present(c) /\ job[c].parent = p /\ p \in Jobs /\ p # None /\ origin[p] = r
    BY LineageAssumption DEF Children, Allotted
  <2>2. origin[c] = r
    BY <2>1 DEF Families
  <2> QED
    BY <2>1, <2>2 DEF Allotted
<1>4. \A j \in LineageOf(r) : j \in Allotted(r)
  BY <1>2, <1>3 DEF LineageOf
<1> QED
  BY <1>2, <1>4

LEMMA RootIsOrigin ==
  ASSUME Families, NEW p \in Jobs, NEW r \in RootOf(p)
  PROVE  origin[p] = r /\ r \in Roots /\ p \in LineageOf(r)
<1>1. r \in Roots /\ p \in LineageOf(r)
  BY DEF RootOf
<1> QED
  BY <1>1, LineageIsAllotted DEF Allotted

\* What no step but a submission and a deletion does: the families stay, and what has ended
\* stays as it ended.
Stays ==
    /\ origin' = origin
    /\ \A j \in Jobs :
        /\ Present(j)' <=> Present(j)
        /\ job'[j].state = "unused" <=> job[j].state = "unused"
        /\ job'[j].parent = job[j].parent /\ job'[j].budget = job[j].budget
        /\ job[j].state \in Terminal => job'[j].state = job[j].state /\ job'[j].usage = job[j].usage

LEMMA StaysCovered ==
  ASSUME Allowances, Stays, Books', NEW r \in Roots, r \in Roots',
         job'[r].state \in Terminal \ {"lost"}, Intact(r)'
  PROVE  SumFunctionOnSet(Charges(r)', Allotted(r)) <= job'[r].budget
<1>1. /\ r \in Jobs /\ Present(r) /\ origin[r] = r /\ IsFiniteSet(Allotted(r)) /\ r # None
      /\ job'[r].budget = job[r].budget
  BY LineageAssumption DEF Allowances, Families, Roots, Stays
<1>2. PICK K : job \in [Jobs -> Rows(K)]
  BY DEF Allowances, Books
<1>3. PICK L : job' \in [Jobs -> Rows(L)]
  BY DEF Books, Rows, States, Terminal
<1>4. \A j \in Jobs : Charges(r)[j] = Reserved(r, j) /\ Charges(r)'[j] = Reserved(r, j)'
  BY DEF Charges
<1>5. \A j \in Allotted(r) : j \in Jobs /\ Present(j) /\ Present(j)'
  BY DEF Intact, Allotted, Stays
<1>6. CASE job[r].state \in Terminal
  <2>1. SumFunctionOnSet(Charges(r), Allotted(r)) <= job[r].budget
    <3>1. job[r].state \in Terminal \ {"lost"} /\ Intact(r)
      BY <1>1, <1>5, <1>6 DEF Stays, Intact
    <3> QED
      BY <3>1 DEF Allowances, Covered
  <2>2. ASSUME NEW j \in Allotted(r)
        PROVE  Charges(r)'[j] \in Nat /\ Charges(r)[j] \in Nat /\ Charges(r)'[j] <= Charges(r)[j]
    <3>1. /\ j \in Jobs /\ Charges(r)[j] = Reserved(r, j) /\ Charges(r)'[j] = Reserved(r, j)'
          /\ job'[j].budget = job[j].budget
      BY <1>4, <1>5 DEF Stays
    <3>2. job[j].budget \in Nat /\ job[j].usage \in Nat \cup {None}
          /\ job'[j].budget \in Nat /\ job'[j].usage \in Nat \cup {None}
      BY <1>2, <1>3, <3>1 DEF Rows
    <3>3. CASE job[j].state \in Terminal
      <4>1. job'[j].state = job[j].state /\ job'[j].usage = job[j].usage
        BY <3>1, <3>3 DEF Stays
      <4>2. Reserved(r, j)' = Reserved(r, j)
        BY <3>1, <4>1 DEF Reserved
      <4>3. Reserved(r, j) \in Nat
        BY <3>2 DEF Reserved
      <4> QED
        BY <3>1, <4>2, <4>3
    <3>4. CASE job[j].state \notin Terminal
      <4>1. job[j].usage = None
        BY <1>5, <3>1, <3>4 DEF Allowances, Books
      <4>2. Reserved(r, j) = job[j].budget
        BY <1>6, <3>4, <4>1 DEF Reserved, Terminal
      <4>3. job'[j].usage # None => job'[j].usage <= job'[j].budget
        BY <1>5, <3>1 DEF Books
      <4>4. Reserved(r, j)' \in Nat /\ Reserved(r, j)' <= job'[j].budget
        BY <3>2, <4>3 DEF Reserved
      <4> QED
        BY <3>1, <3>2, <4>2, <4>4
    <3> QED
      BY <3>3, <3>4
  <2> DEFINE before == SumFunctionOnSet(Charges(r), Allotted(r))
             after == SumFunctionOnSet(Charges(r)', Allotted(r))
  <2>3. before \in Nat /\ after \in Nat /\ after <= before
    BY <1>1, <2>2, SumIsNatural, SumGrows
  <2>4. job[r].budget \in Nat /\ before <= job[r].budget
    BY <1>1, <1>2, <2>1 DEF Rows
  <2> HIDE DEF before, after
  <2>5. after <= job'[r].budget
    BY <1>1, <2>3, <2>4
  <2> QED
    BY <2>5 DEF after
<1>7. CASE job[r].state \notin Terminal
  <2>1. Allotted(r) = {r}
    <3>1. ASSUME NEW j \in Allotted(r) PROVE j = r
      <4>1. j \in Jobs /\ origin[j] = r
        BY DEF Allotted
      <4> QED
        BY <1>1, <1>7, <4>1 DEF Allowances, Families
    <3> QED
      BY <1>1, <3>1 DEF Allotted
  <2>2. Charges(r)'[r] = Reserved(r, r)'
    BY <1>1, <1>4
  <2>3. Reserved(r, r)' \in Nat /\ Reserved(r, r)' <= job'[r].budget
    <3>1. job'[r].budget \in Nat /\ job'[r].usage \in Nat \cup {None} /\ Present(r)'
      BY <1>1, <1>3 DEF Rows, Stays
    <3>2. job'[r].usage # None => job'[r].usage <= job'[r].budget
      BY <1>1, <3>1 DEF Books
    <3> QED
      BY <3>1, <3>2 DEF Reserved
  <2> QED
    BY <2>1, <2>2, <2>3, SumOfOne
<1> QED
  BY <1>6, <1>7

LEMMA StaysAllowed ==
  ASSUME Allowances, Stays, Books'
  PROVE  Allowances'
<1>1. \A r : Allotted(r)' = Allotted(r)
  BY DEF Stays, Allotted
<1>2. \A p : Children(p)' = Children(p)
  BY DEF Stays, Children
<1>3. Roots' = Roots
  BY DEF Stays, Roots
<1>4. \A r : LineageOf(r)' = LineageOf(r)
  <2> SUFFICES ASSUME NEW r PROVE LineageOf(r)' = LineageOf(r)
    OBVIOUS
  <2>1. ASSUME NEW j \in Jobs
        PROVE  j \in LineageOf(r)' <=> j \in LineageOf(r)
    <3>1. Present(j)' <=> Present(j)
      BY DEF Stays
    <3> QED
      BY <1>2, <3>1 DEF LineageOf
  <2>2. LineageOf(r)' \subseteq Jobs /\ LineageOf(r) \subseteq Jobs
    BY DEF LineageOf
  <2> QED
    BY <2>1, <2>2
<1>5. Families'
  <2>1. origin' \in [Jobs -> Jobs \cup {None}]
    BY DEF Stays, Allowances, Families
  <2>2. ASSUME NEW j \in Jobs
        PROVE  /\ origin'[j] = None <=> job'[j].state = "unused"
               /\ origin'[j] # None => origin'[origin'[j]] = origin'[j]
               /\ Present(j)' /\ job'[j].parent = None => origin'[j] = j
               /\ Present(j)' /\ job'[j].parent # None => origin'[job'[j].parent] = origin'[j]
               /\ IsFiniteSet(Allotted(j)')
    BY <1>1 DEF Stays, Allowances, Families
  <2>3. ASSUME NEW j \in Jobs, origin'[j] \notin {j, None}, Present(origin[j])'
        PROVE  job'[origin'[j]].state \in Terminal
    <3>1. origin'[j] = origin[j] /\ origin[j] \in Jobs
      BY <2>3 DEF Stays, Allowances, Families
    <3>2. Present(origin[j])
      BY <2>3, <3>1 DEF Stays
    <3>3. job[origin[j]].state \in Terminal
      BY <2>3, <3>1, <3>2 DEF Allowances, Families
    <3> QED
      BY <3>1, <3>3 DEF Stays
  <2> QED
    BY <2>1, <2>2, <2>3 DEF Families, Terminal
<1>6. Reached'
  <2>1. \A r : Intact(r)' <=> Intact(r)
    BY <1>1 DEF Intact, Stays, Allotted
  <2> QED
    BY <1>1, <1>3, <1>4, <2>1 DEF Allowances, Reached
<1>7. Covered'
  <2> SUFFICES ASSUME NEW r \in Roots', job'[r].state \in Terminal \ {"lost"}, Intact(r)'
               PROVE  SumFunctionOnSet(Charges(r)', Allotted(r)') <= job'[r].budget
    BY DEF Covered, Terminal
  <2> QED
    BY <1>1, <1>3, StaysCovered
<1> QED
  BY <1>5, <1>6, <1>7 DEF Allowances

-----------------------------------------------------------------------------
\* Rows change their state or their usage.
LEMMA ClaimAllowed ==
  ASSUME Allowances, NEW j \in Jobs, NEW use \in Uses, Claim(j, use)
  PROVE  Allowances'
<1>1. PICK K : job \in [Jobs -> Rows(K)]
  BY DEF Allowances, Books
<1>2. /\ job[j].state = "queued" /\ use <= job[j].budget /\ use \in Nat
      /\ job' = [job EXCEPT ![j].state = "running"] /\ spent' = [spent EXCEPT ![j] = use]
      /\ origin' = origin
  BY LineageAssumption DEF Claim
<1>3. job' \in [Jobs -> Rows(K)]
  BY <1>1, <1>2 DEF Rows, States
<1>4. \A i \in Jobs :
        /\ job'[i].state = IF i = j THEN "running" ELSE job[i].state
        /\ job'[i].parent = job[i].parent /\ job'[i].budget = job[i].budget
        /\ job'[i].usage = job[i].usage
        /\ spent'[i] = IF i = j THEN use ELSE spent[i]
  BY <1>1, <1>2 DEF Rows, Allowances, Books
<1>5. Stays
  BY <1>2, <1>4 DEF Stays, Present, Terminal
<1>6. Books'
  <2>1. spent' \in [Jobs -> Nat]
    BY <1>2 DEF Allowances, Books
  <2>2. \A i \in Jobs : i # j => (Present(i)' <=> Present(i))
    BY <1>4 DEF Present
  <2>3. Present(j) /\ job[j].usage = None
    BY <1>2 DEF Present, Allowances, Books, Terminal
  <2> QED
    BY <1>2, <1>3, <1>4, <2>1, <2>2, <2>3 DEF Allowances, Books, Terminal
<1> QED
  BY <1>5, <1>6, StaysAllowed

LEMMA FinalizeAllowed ==
  ASSUME Allowances, NEW j \in Jobs, NEW state \in Terminal, Finalize(j, state)
  PROVE  Allowances'
<1>1. PICK K : job \in [Jobs -> Rows(K)]
  BY DEF Allowances, Books
<1>2. /\ job[j].state \in {"running", "cancel_requested"}
      /\ state \in {"completed", "partial", "failed", "cancelled"}
      /\ job' = [job EXCEPT ![j].state = state, ![j].usage = spent[j]]
      /\ spent' = spent /\ origin' = origin
  BY DEF Finalize
<1>3. spent \in [Jobs -> Nat]
  BY DEF Allowances, Books
<1>4. job' \in [Jobs -> Rows(K)]
  <2> DEFINE row == [job[j] EXCEPT !.state = state, !.usage = spent[j]]
  <2>1. job[j] \in Rows(K) /\ state \in States /\ spent[j] \in Nat
    BY <1>1, <1>3 DEF States
  <2>2. row \in Rows(K)
    BY <2>1 DEF Rows
  <2>3. job' = [job EXCEPT ![j] = row]
    BY <1>2
  <2> HIDE DEF row
  <2> QED
    BY <1>1, <2>2, <2>3
<1>5. \A i \in Jobs :
        /\ job'[i].state = IF i = j THEN state ELSE job[i].state
        /\ job'[i].parent = job[i].parent /\ job'[i].budget = job[i].budget
        /\ job'[i].usage = IF i = j THEN spent[j] ELSE job[i].usage
  BY <1>1, <1>2 DEF Rows
<1>6. Stays
  BY <1>2, <1>5 DEF Stays, Present, Terminal
<1>7. Books'
  <2>1. \A i \in Jobs : i # j => (Present(i)' <=> Present(i))
    BY <1>5 DEF Present
  <2>2. Present(j) /\ spent[j] # None
    BY <1>2, <1>3, LineageAssumption DEF Present
  <2> QED
    BY <1>2, <1>3, <1>4, <1>5, <2>1, <2>2 DEF Allowances, Books, Terminal
<1> QED
  BY <1>6, <1>7, StaysAllowed

LEMMA CancelAllowed ==
  ASSUME Allowances, NEW j \in Jobs, Cancel(j)
  PROVE  Allowances'
<1>1. PICK K : job \in [Jobs -> Rows(K)]
  BY DEF Allowances, Books
<1>2. PICK state \in {"cancelled", "cancel_requested"} :
        /\ <<job[j].state, state>> \in {<<"queued", "cancelled">>, <<"running", "cancel_requested">>}
        /\ job' = [job EXCEPT ![j].state = state]
        /\ spent' = spent /\ origin' = origin
  <2> DEFINE next == IF job[j].state = "queued" THEN "cancelled" ELSE "cancel_requested"
  <2>1. job' = [job EXCEPT ![j].state = next]
    BY DEF Cancel
  <2>2. /\ <<job[j].state, next>> \in {<<"queued", "cancelled">>, <<"running", "cancel_requested">>}
        /\ spent' = spent /\ origin' = origin
    BY DEF Cancel
  <2> HIDE DEF next
  <2> QED
    BY <2>1, <2>2
<1>3. job' \in [Jobs -> Rows(K)]
  BY <1>1, <1>2 DEF Rows, States, Terminal
<1>4. \A i \in Jobs :
        /\ job'[i].state = IF i = j THEN state ELSE job[i].state
        /\ job'[i].parent = job[i].parent /\ job'[i].budget = job[i].budget
        /\ job'[i].usage = job[i].usage
  BY <1>1, <1>2 DEF Rows
<1>5. Stays
  BY <1>2, <1>4 DEF Stays, Present, Terminal
<1>6. Books'
  <2>1. \A i \in Jobs : i # j => (Present(i)' <=> Present(i))
    BY <1>4 DEF Present
  <2>2. Present(j) /\ job[j].usage = None
    BY <1>2 DEF Present, Allowances, Books, Terminal
  <2> QED
    BY <1>2, <1>3, <1>4, <2>1, <2>2 DEF Allowances, Books, Terminal
<1> QED
  BY <1>5, <1>6, StaysAllowed

LEMMA SweepAllowed ==
  ASSUME Allowances, NEW silent \in SUBSET Jobs, SweepOnce(silent)
  PROVE  Allowances'
<1>1. PICK K : job \in [Jobs -> Rows(K)]
  BY DEF Allowances, Books
<1> DEFINE Lost == {j \in Jobs : j \in silent \/ (job[j].state = "queued" /\ job[j].deadline < now)}
<1>2. /\ \A j \in Lost : j \in Jobs /\ job[j].state \in {"queued", "running"}
      /\ job' = [j \in Jobs |-> IF j \in Lost THEN [job[j] EXCEPT !.state = "lost"] ELSE job[j]]
      /\ spent' = spent /\ origin' = origin
  BY DEF SweepOnce
<1> HIDE DEF Lost
<1>3. job' \in [Jobs -> Rows(K)]
  BY <1>1, <1>2 DEF Rows, States, Terminal
<1>4. \A i \in Jobs :
        /\ job'[i].state = IF i \in Lost THEN "lost" ELSE job[i].state
        /\ job'[i].parent = job[i].parent /\ job'[i].budget = job[i].budget
        /\ job'[i].usage = job[i].usage
  BY <1>1, <1>2 DEF Rows
<1>5. Stays
  BY <1>2, <1>4 DEF Stays, Present, Terminal
<1>6. Books'
  <2>1. \A i \in Jobs : Present(i)' <=> Present(i)
    BY <1>5 DEF Stays
  <2>2. \A i \in Lost : Present(i) /\ job[i].usage = None
    BY <1>2 DEF Present, Allowances, Books, Terminal
  <2>3. \E L : job' \in [Jobs -> Rows(L)]
    BY <1>3
  <2>4. ASSUME NEW i \in Jobs
        PROVE  /\ job'[i].state = "unused" => spent'[i] = 0
               /\ Present(i)' =>
                    /\ spent'[i] <= job'[i].budget
                    /\ job'[i].usage # None => job'[i].usage = spent'[i] /\ job'[i].state \in Terminal
                    /\ job'[i].usage = None => job'[i].state \notin {"completed", "partial", "failed"}
                    /\ job'[i].usage = None /\ job'[i].state \in {"queued", "cancelled"} => spent'[i] = 0
    <3>1. CASE i \in Lost
      <4>1. Present(i) /\ job[i].usage = None /\ spent'[i] = spent[i]
        BY <1>2, <2>2, <3>1
      <4>2. job'[i].state = "lost" /\ job'[i].budget = job[i].budget /\ job'[i].usage = None
        BY <1>4, <3>1, <4>1
      <4>3. spent[i] <= job[i].budget
        BY <4>1 DEF Allowances, Books
      <4> QED
        BY <4>1, <4>2, <4>3
    <3>2. CASE i \notin Lost
      BY <1>2, <1>4, <2>1, <3>2 DEF Allowances, Books, Terminal
    <3> QED
      BY <3>1, <3>2
  <2>5. spent' \in [Jobs -> Nat]
    BY <1>2 DEF Allowances, Books
  <2> QED
    BY <2>3, <2>4, <2>5 DEF Books, Rows, States, Terminal
<1> QED
  BY <1>5, <1>6, StaysAllowed

LEMMA RestAllowed ==
  ASSUME Allowances, job' = job, spent' = spent, origin' = origin
  PROVE  Allowances'
<1>1. Stays
  BY DEF Stays, Present
<1>2. Books'
  BY DEF Allowances, Books, Present, Rows, States, Terminal
<1> QED
  BY <1>1, <1>2, StaysAllowed

\* A deletion takes the allowance of its family out of the account.
LEMMA DeleteAllowed ==
  ASSUME Allowances, NEW j \in Jobs, DeleteJob(j)
  PROVE  Allowances'
<1>1. PICK K : job \in [Jobs -> Rows(K)]
  BY DEF Allowances, Books
<1>2. /\ job[j].state \in Terminal /\ Present(j)
      /\ job' = [job EXCEPT ![j] = NoJob("deleted")]
      /\ spent' = spent /\ origin' = origin
  BY DEF DeleteJob, Present, Terminal
<1>3. \A i \in Jobs : job'[i] = IF i = j THEN NoJob("deleted") ELSE job[i]
  BY <1>1, <1>2
<1>4. ~Present(j)' /\ \A i \in Jobs : i # j => (Present(i)' <=> Present(i))
  BY <1>3 DEF Present, NoJob
<1>5. \A r : Allotted(r)' = Allotted(r)
  BY <1>2 DEF Allotted
<1>6. Books'
  <2>1. job' \in [Jobs -> Rows(K \cup {None, 0})]
    <3>1. NoJob("deleted") \in Rows(K \cup {None, 0})
      BY DEF NoJob, Rows, States
    <3>2. \A i \in Jobs : job[i] \in Rows(K \cup {None, 0})
      BY <1>1 DEF Rows
    <3> QED
      BY <1>1, <1>2, <3>1, <3>2
  <2>2. job'[j].state = "deleted"
    BY <1>3 DEF NoJob
  <2>3. spent' \in [Jobs -> Nat]
    BY <1>2 DEF Allowances, Books
  <2>4. ASSUME NEW i \in Jobs
        PROVE  /\ job'[i].state = "unused" => spent'[i] = 0
               /\ Present(i)' =>
                    /\ spent'[i] <= job'[i].budget
                    /\ job'[i].usage # None => job'[i].usage = spent'[i] /\ job'[i].state \in Terminal
                    /\ job'[i].usage = None => job'[i].state \notin {"completed", "partial", "failed"}
                    /\ job'[i].usage = None /\ job'[i].state \in {"queued", "cancelled"} => spent'[i] = 0
    BY <1>2, <1>3, <1>4, <2>2 DEF Allowances, Books
  <2> QED
    BY <2>1, <2>3, <2>4 DEF Books, Rows, States, Terminal
<1>7. Families'
  <2>1. origin' \in [Jobs -> Jobs \cup {None}]
    BY <1>2 DEF Allowances, Families
  <2>2. ASSUME NEW i \in Jobs
        PROVE  /\ origin'[i] = None <=> job'[i].state = "unused"
               /\ origin'[i] # None => origin'[origin'[i]] = origin'[i]
               /\ Present(i)' /\ job'[i].parent = None => origin'[i] = i
               /\ Present(i)' /\ job'[i].parent # None => origin'[job'[i].parent] = origin'[i]
               /\ IsFiniteSet(Allotted(i)')
    <3>1. job'[j].state # "unused" /\ job[j].state # "unused"
      BY <1>2, <1>3 DEF NoJob, Terminal
    <3> QED
      BY <1>2, <1>3, <1>4, <1>5, <3>1 DEF Allowances, Families
  <2>3. ASSUME NEW i \in Jobs, origin'[i] \notin {i, None}, Present(origin[i])'
        PROVE  job'[origin'[i]].state \in Terminal
    BY <1>2, <1>3, <1>4, <2>1, <2>3 DEF Allowances, Families
  <2> QED
    BY <1>2, <2>1, <2>2, <2>3 DEF Families, Terminal
<1>8. \A r \in Roots' : r \in Roots /\ r # j /\ job'[r] = job[r]
  BY <1>3, <1>4 DEF Roots
<1>9. ASSUME NEW r \in Roots', Intact(r)'
      PROVE  Intact(r) /\ j \notin Allotted(r) /\ Allotted(r) \subseteq Jobs
  BY <1>4, <1>5, <1>9 DEF Intact, Allotted
<1>10. Reached'
  <2> SUFFICES ASSUME NEW r \in Roots', Intact(r)', NEW x \in Allotted(r)'
               PROVE  x \in LineageOf(r)'
    BY DEF Reached
  <2>1. r \in Roots /\ r \in Jobs /\ Intact(r) /\ j \notin Allotted(r) /\ x \in Allotted(r) /\ x \in Jobs
    BY <1>5, <1>8, <1>9 DEF Roots, Allotted
  <2>2. Present(x)'
    BY <1>5 DEF Intact
  <2>3. ASSUME NEW S \in SUBSET Jobs, r \in S, \A p \in S : Children(p)' \subseteq S
        PROVE  x \in S
    <3> DEFINE Wide == S \cup (Jobs \ Allotted(r))
    <3>1. ASSUME NEW p \in Wide, NEW c \in Children(p) PROVE c \in Wide
      <4>1. c \in Jobs /\ p \in Jobs /\ p # None /\ Present(c) /\ job[c].parent = p
        BY LineageAssumption DEF Children
      <4>2. CASE c \in Allotted(r)
        <5>1. origin[p] = origin[c]
          BY <4>1 DEF Allowances, Families
        <5>2. p \in Allotted(r)
          BY <4>1, <4>2, <5>1 DEF Allotted
        <5>3. c \in Children(p)'
          BY <1>3, <1>4, <2>1, <4>1, <4>2 DEF Children
        <5> QED
          BY <2>3, <5>2, <5>3
      <4> QED
        BY <4>1, <4>2
    <3>2. Wide \in SUBSET Jobs /\ r \in Wide
      BY <2>3
    <3> HIDE DEF Wide
    <3>3. x \in Wide
      BY <2>1, <3>1, <3>2 DEF Allowances, Reached, LineageOf
    <3> QED
      BY <2>1, <3>3 DEF Wide
  <2> QED
    BY <2>1, <2>2, <2>3 DEF LineageOf
<1>11. Covered'
  <2> SUFFICES ASSUME NEW r \in Roots', job'[r].state \in Terminal \ {"lost"}, Intact(r)'
               PROVE  SumFunctionOnSet(Charges(r)', Allotted(r)') <= job'[r].budget
    BY DEF Covered, Terminal
  <2>1. /\ r \in Roots /\ r \in Jobs /\ Intact(r) /\ j \notin Allotted(r) /\ Allotted(r) \subseteq Jobs
        /\ job'[r] = job[r] /\ IsFiniteSet(Allotted(r))
    BY <1>8, <1>9 DEF Roots, Allowances, Families
  <2>2. SumFunctionOnSet(Charges(r), Allotted(r)) <= job[r].budget
    BY <2>1 DEF Allowances, Covered
  <2>3. ASSUME NEW x \in Allotted(r) PROVE Charges(r)'[x] = Charges(r)[x] /\ Charges(r)[x] \in Nat
    <3>1. x \in Jobs /\ job'[x] = job[x]
      BY <1>3, <2>1
    <3>2. Charges(r)'[x] = Reserved(r, x)' /\ Charges(r)[x] = Reserved(r, x)
      BY <3>1 DEF Charges
    <3>3. Reserved(r, x)' = Reserved(r, x)
      BY <3>1 DEF Reserved
    <3>4. Reserved(r, x) \in Nat
      BY <1>1, <3>1 DEF Reserved, Rows
    <3> QED
      BY <3>2, <3>3, <3>4
  <2>4. SumFunctionOnSet(Charges(r)', Allotted(r)) = SumFunctionOnSet(Charges(r), Allotted(r))
    BY <2>1, <2>3, SumDepends
  <2> QED
    BY <1>5, <2>1, <2>2, <2>4
<1> QED
  BY <1>6, <1>7, <1>10, <1>11 DEF Allowances

-----------------------------------------------------------------------------
\* A new job draws on what its root has left.
LEMMA CreateAllowed ==
  ASSUME Allowances, NEW j \in Jobs, NEW key, NEW parent \in Jobs \cup {None}, NEW budget \in Nat, NEW term,
         Create(j, key, parent, budget, term),
         parent # None => Present(parent) /\ ChildAllowed(parent, budget, term)
  PROVE  Allowances'
<1> DEFINE Root == IF parent = None THEN j ELSE CHOOSE r \in RootOf(parent) : TRUE
           Row == [state |-> "queued", key |-> key, parent |-> parent,
                   budget |-> budget, deadline |-> now + term, usage |-> None]
<1>1. PICK K : job \in [Jobs -> Rows(K)]
  BY DEF Allowances, Books
<1>2. /\ job[j].state = "unused" /\ job' = [job EXCEPT ![j] = Row]
      /\ origin' = [origin EXCEPT ![j] = Root] /\ spent' = spent
  BY DEF Create
<1>3. PICK o : o = Root
  OBVIOUS
<1>4. parent = None => o = j
  BY <1>3
<1>5. parent # None =>
        /\ origin[parent] = o /\ o \in Roots /\ parent \in LineageOf(o)
        /\ budget <= job[o].budget - Used(o) /\ job[parent].state \in Terminal
  <2> SUFFICES ASSUME parent # None
               PROVE  /\ origin[parent] = o /\ o \in Roots /\ parent \in LineageOf(o)
                      /\ budget <= job[o].budget - Used(o) /\ job[parent].state \in Terminal
    OBVIOUS
  <2>1. PICK r \in RootOf(parent) : budget <= job[r].budget - Used(r)
    BY DEF ChildAllowed
  <2>2. job[parent].state \in Terminal /\ Families
    BY DEF ChildAllowed, ParentConcluded, Allowances
  <2>3. o \in RootOf(parent)
    BY <1>3, <2>1
  <2>4. /\ origin[parent] = r
        /\ origin[parent] = o /\ o \in Roots /\ parent \in LineageOf(o)
    BY <2>1, <2>2, <2>3, RootIsOrigin
  <2> QED
    BY <2>1, <2>2, <2>4
<1>6. o \in Jobs
  BY <1>4, <1>5 DEF Roots
<1> HIDE DEF Root, Row
<1>7. /\ \A i \in Jobs : job'[i] = IF i = j THEN Row ELSE job[i]
      /\ \A i \in Jobs : origin'[i] = IF i = j THEN o ELSE origin[i]
  BY <1>1, <1>2, <1>3 DEF Allowances, Families
<1>8. /\ Row.state = "queued" /\ Row.parent = parent /\ Row.budget = budget /\ Row.usage = None
      /\ Row.key = key /\ Row.deadline = now + term
  BY DEF Row
<1>9. /\ ~Present(j) /\ Present(j)' /\ origin[j] = None
      /\ \A i \in Jobs : i # j => (Present(i)' <=> Present(i))
  BY <1>2, <1>7, <1>8 DEF Present, Allowances, Families
<1>10. Books'
  <2>1. job' \in [Jobs -> Rows(K \cup {key, now + term})]
    <3>1. Row \in Rows(K \cup {key, now + term})
      BY DEF Row, Rows, States
    <3>2. \A i \in Jobs : job[i] \in Rows(K \cup {key, now + term})
      BY <1>1 DEF Rows
    <3> QED
      BY <1>1, <1>2, <3>1, <3>2
  <2>2. spent' \in [Jobs -> Nat] /\ spent[j] = 0
    BY <1>2 DEF Allowances, Books
  <2>3. ASSUME NEW i \in Jobs
        PROVE  /\ job'[i].state = "unused" => spent'[i] = 0
               /\ Present(i)' =>
                    /\ spent'[i] <= job'[i].budget
                    /\ job'[i].usage # None => job'[i].usage = spent'[i] /\ job'[i].state \in Terminal
                    /\ job'[i].usage = None => job'[i].state \notin {"completed", "partial", "failed"}
                    /\ job'[i].usage = None /\ job'[i].state \in {"queued", "cancelled"} => spent'[i] = 0
    <3>1. CASE i = j
      BY <1>2, <1>7, <1>8, <2>2, <3>1
    <3>2. CASE i # j
      BY <1>2, <1>7, <1>9, <3>2 DEF Allowances, Books
    <3> QED
      BY <3>1, <3>2
  <2> QED
    BY <2>1, <2>2, <2>3 DEF Books, Rows, States, Terminal
<1>11. \A i \in Jobs : origin[i] # j
  <2> SUFFICES ASSUME NEW i \in Jobs, origin[i] = j PROVE FALSE
    OBVIOUS
  <2>1. origin[j] = j
    BY LineageAssumption DEF Allowances, Families
  <2> QED
    BY <1>9, <2>1, LineageAssumption
<1>12. \A r \in Jobs : Allotted(r)' = IF r = o THEN Allotted(r) \cup {j} ELSE Allotted(r)
  BY <1>7, <1>9, LineageAssumption DEF Allotted
<1>13. \A r \in Jobs : j \notin Allotted(r) /\ Allotted(r) \subseteq Jobs /\ IsFiniteSet(Allotted(r))
  BY <1>9, LineageAssumption DEF Allotted, Allowances, Families
<1>14. parent # None => origin[o] = o /\ o # j /\ parent # j /\ job[o].state \in Terminal /\ origin[parent] = o
  <2> SUFFICES ASSUME parent # None PROVE origin[o] = o /\ o # j /\ parent # j /\ job[o].state \in Terminal
    BY <1>5
  <2>1. origin[o] = o /\ Present(o) /\ parent # j /\ o # j
    BY <1>5, <1>6, <1>9 DEF Roots, Allowances, Families
  <2>2. job[o].state \in Terminal
    <3>1. CASE parent = o
      BY <1>5, <3>1
    <3>2. CASE parent # o
      BY <1>5, <1>6, <2>1, <3>2, LineageAssumption DEF Allowances, Families
    <3> QED
      BY <3>1, <3>2
  <2> QED
    BY <2>1, <2>2
<1>15. Families'
  <2>1. origin' \in [Jobs -> Jobs \cup {None}]
    BY <1>2, <1>3, <1>6 DEF Allowances, Families
  <2>2. ASSUME NEW i \in Jobs
        PROVE  /\ origin'[i] = None <=> job'[i].state = "unused"
               /\ origin'[i] # None => origin'[origin'[i]] = origin'[i]
               /\ Present(i)' /\ job'[i].parent = None => origin'[i] = i
               /\ Present(i)' /\ job'[i].parent # None => origin'[job'[i].parent] = origin'[i]
    <3>1. CASE i = j
      BY <1>4, <1>6, <1>7, <1>8, <1>14, <3>1, LineageAssumption
    <3>2. CASE i # j
      <4>1. origin'[i] = origin[i] /\ job'[i] = job[i] /\ (Present(i)' <=> Present(i)) /\ origin[i] # j
        BY <1>7, <1>9, <1>11, <3>2
      <4>2. origin[i] # None => origin'[origin[i]] = origin[origin[i]]
        BY <1>7, <4>1 DEF Allowances, Families
      <4>3. Present(i) /\ job[i].parent # None => origin[job[i].parent] # None /\ job[i].parent \in Jobs
        <5>1. Present(i) => origin[i] # None
          BY DEF Allowances, Families, Present
        <5>2. job[i].parent \in Jobs \cup {None}
          BY <1>1 DEF Rows
        <5> QED
          BY <5>1, <5>2 DEF Allowances, Families
      <4>4. Present(i) /\ job[i].parent # None => origin'[job[i].parent] = origin[job[i].parent]
        BY <1>7, <1>9, <4>3
      <4> QED
        BY <4>1, <4>2, <4>4 DEF Allowances, Families
    <3> QED
      BY <3>1, <3>2
  <2>3. ASSUME NEW i \in Jobs, origin'[i] \notin {i, None}, job'[origin'[i]].state \notin {"unused", "deleted"}
        PROVE  job'[origin'[i]].state \in Terminal
    <3>1. CASE i = j
      <4>1. origin'[i] = o /\ parent # None
        BY <1>4, <1>7, <2>3, <3>1
      <4> QED
        BY <1>6, <1>7, <1>14, <4>1
    <3>2. CASE i # j
      <4>1. origin'[i] = origin[i] /\ origin[i] # j /\ origin[i] \in Jobs
        BY <1>7, <1>11, <2>3, <3>2 DEF Allowances, Families
      <4>2. job'[origin[i]] = job[origin[i]]
        BY <1>7, <4>1
      <4>3. Present(origin[i])
        BY <2>3, <4>1, <4>2 DEF Present
      <4> QED
        BY <2>3, <4>1, <4>2, <4>3 DEF Allowances, Families
    <3> QED
      BY <3>1, <3>2
  <2>4. \A i \in Jobs : IsFiniteSet(Allotted(i)')
    BY <1>12, <1>13, FS_AddElement
  <2> QED
    BY <2>1, <2>2, <2>3, <2>4 DEF Families, Terminal, Present
<1>16. \A r \in Roots' : r \in Jobs /\ (r # j => r \in Roots /\ job'[r] = job[r])
                        /\ (r = j => parent = None)
  BY <1>7, <1>8, <1>9 DEF Roots
<1>17. ASSUME NEW r \in Roots', r # j, Intact(r)' PROVE r \in Roots /\ Intact(r)
  <2>1. \A i \in Allotted(r) : i \in Jobs /\ i # j /\ Present(i)'
    BY <1>12, <1>13, <1>16, <1>17 DEF Intact
  <2> QED
    BY <1>9, <1>16, <1>17, <2>1 DEF Intact
<1>18. Reached'
  <2> SUFFICES ASSUME NEW r \in Roots', Intact(r)', NEW x \in Allotted(r)'
               PROVE  x \in LineageOf(r)'
    BY DEF Reached
  <2>1. r \in Jobs /\ x \in Jobs /\ Present(x)'
    BY <1>6, <1>12, <1>13, <1>16 DEF Intact
  <2>2. ASSUME NEW S \in SUBSET Jobs, r \in S, \A p \in S : Children(p)' \subseteq S
        PROVE  x \in S
    <3>1. ASSUME NEW p \in S PROVE Children(p) \subseteq S
      <4>1. \A c \in Children(p) : c \in Children(p)'
        BY <1>7, <1>9 DEF Children
      <4> QED
        BY <2>2, <4>1
    <3>2. ASSUME r \in Roots, NEW y \in LineageOf(r) PROVE y \in S
      BY <2>2, <3>1, <3>2 DEF LineageOf
    <3>3. CASE r = j
      <4>1. Allotted(j) = {} /\ o = j
        BY <1>4, <1>11, <1>16, <3>3 DEF Allotted
      <4> QED
        BY <1>12, <2>2, <3>3, <4>1
    <3>4. CASE r # j
      <4>1. r \in Roots /\ Allotted(r) \subseteq LineageOf(r)
        BY <1>17, <3>4 DEF Allowances, Reached
      <4>2. CASE x # j
        <5>1. x \in Allotted(r)
          BY <1>12, <2>1, <4>2
        <5> QED
          BY <3>2, <4>1, <5>1
      <4>3. CASE x = j
        <5>1. r = o /\ parent # None
          BY <1>4, <1>12, <1>13, <2>1, <3>4, <4>3
        <5>2. parent \in S
          BY <1>5, <3>2, <4>1, <5>1
        <5>3. j \in Children(parent)'
          BY <1>7, <1>8, <1>9, <5>1 DEF Children
        <5> QED
          BY <2>2, <4>3, <5>2, <5>3
      <4> QED
        BY <4>2, <4>3
    <3> QED
      BY <3>3, <3>4
  <2> QED
    BY <2>1, <2>2 DEF LineageOf
<1>19. Covered'
  <2> SUFFICES ASSUME NEW r \in Roots', job'[r].state \in Terminal \ {"lost"}, Intact(r)'
               PROVE  SumFunctionOnSet(Charges(r)', Allotted(r)') <= job'[r].budget
    BY DEF Covered, Terminal
  <2>1. r \in Jobs /\ r # j /\ r \in Roots /\ Intact(r) /\ job'[r] = job[r]
    BY <1>7, <1>8, <1>16, <1>17 DEF Terminal
  <2>2. j \notin Allotted(r) /\ Allotted(r) \subseteq Jobs /\ IsFiniteSet(Allotted(r))
    BY <1>13, <2>1
  <2>3. SumFunctionOnSet(Charges(r), Allotted(r)) <= job[r].budget
    BY <2>1 DEF Allowances, Covered
  <2>4. ASSUME NEW x \in Allotted(r)
        PROVE  Charges(r)'[x] = Charges(r)[x] /\ Charges(r)[x] \in Nat
    <3>1. x \in Jobs /\ job'[x] = job[x]
      BY <1>7, <2>2
    <3>2. Charges(r)'[x] = Reserved(r, x)' /\ Charges(r)[x] = Reserved(r, x)
      BY <3>1 DEF Charges
    <3>3. Reserved(r, x)' = Reserved(r, x)
      BY <3>1 DEF Reserved
    <3>4. Reserved(r, x) \in Nat
      BY <1>1, <3>1 DEF Reserved, Rows
    <3> QED
      BY <3>2, <3>3, <3>4
  <2> DEFINE before == SumFunctionOnSet(Charges(r), Allotted(r))
             same == SumFunctionOnSet(Charges(r)', Allotted(r))
  <2>5. same = before /\ before \in Nat
    BY <2>2, <2>4, SumDepends, SumIsNatural
  <2>6. CASE r # o
    BY <1>12, <2>1, <2>3, <2>5, <2>6
  <2>7. CASE r = o
    <3>1. parent # None
      BY <1>4, <2>1, <2>7
    <3>2. Charges(r)'[j] = budget
      <4>1. Charges(r)'[j] = Reserved(r, j)'
        BY DEF Charges
      <4>2. Reserved(r, j)' = budget
        BY <1>7, <1>8, <2>1 DEF Reserved
      <4> QED
        BY <4>1, <4>2
    <3>3. SumFunctionOnSet(Charges(r)', Allotted(r) \cup {j}) = same + budget
      BY <2>2, <2>4, <3>2, SumAdds
    <3>4. Used(r) = before
      <4>1. LineageOf(r) = Allotted(r)
        BY <2>1, LineageIsAllotted DEF Allowances, Reached
      <4> QED
        BY <4>1 DEF Used, Charges
    <3>5. budget <= job[r].budget - before /\ job[r].budget \in Nat
      BY <1>1, <1>5, <2>1, <2>7, <3>1, <3>4 DEF Rows
    <3> HIDE DEF before, same
    <3>6. same + budget <= job'[r].budget
      BY <2>1, <2>5, <3>5
    <3> QED
      BY <1>12, <2>1, <2>7, <3>3, <3>6
  <2> QED
    BY <2>6, <2>7
<1> QED
  BY <1>10, <1>15, <1>18, <1>19 DEF Allowances

LEMMA AllowancesStep == Allowances /\ [Next]_vars => Allowances'
<1> SUFFICES ASSUME Allowances, [Next]_vars PROVE Allowances'
  OBVIOUS
<1>1. ASSUME NEW j \in Jobs, NEW k \in Keys, NEW b \in Budgets, NEW d \in Terms, Submit(j, k, b, d)
      PROVE  Allowances'
  <2>1. Create(j, <<k>>, None, b, d) /\ b \in Nat
    BY <1>1, LineageAssumption DEF Submit
  <2> QED
    BY <2>1, CreateAllowed
<1>2. ASSUME NEW j \in Jobs, NEW p \in Jobs, NEW k \in Keys, NEW b \in Budgets, NEW d \in Terms,
             SubmitChild(j, p, k, b, d)
      PROVE  Allowances'
  <2>1. Create(j, <<k>>, p, b, d) /\ b \in Nat /\ Present(p) /\ ChildAllowed(p, b, d)
    BY <1>2, LineageAssumption DEF SubmitChild
  <2> QED
    BY <2>1, CreateAllowed
<1>3. ASSUME NEW j \in Jobs, NEW p \in Jobs, NEW key, Retry(j, p, key)
      PROVE  Allowances'
  <2>1. /\ Create(j, key, p, RetryBudget(p), RetryTerm(p)) /\ Present(p)
        /\ RetryOutcome(p, key) = "created"
    BY <1>3 DEF Retry
  <2>2. EnoughLeft(p) /\ ChildAllowed(p, RetryBudget(p), RetryTerm(p))
    BY <2>1 DEF RetryOutcome
  <2>3. RetryBudget(p) \in Nat
    <3>1. PICK K : job \in [Jobs -> Rows(K)]
      BY DEF Allowances, Books
    <3>2. RetryBudget(p) \in Int
      BY <3>1 DEF RetryBudget, Rows
    <3> QED
      BY <2>2, <3>2 DEF EnoughLeft
  <2> HIDE DEF RetryBudget
  <2> QED
    BY <2>1, <2>2, <2>3, CreateAllowed
<1>4. CASE \E j \in Jobs, u \in Uses : Claim(j, u)
  BY <1>4, ClaimAllowed
<1>5. CASE \E j \in Jobs, s \in Terminal : Finalize(j, s)
  BY <1>5, FinalizeAllowed
<1>6. CASE \E j \in Jobs : Cancel(j)
  BY <1>6, CancelAllowed
<1>7. CASE \E silent \in SUBSET Jobs : SweepOnce(silent)
  BY <1>7, SweepAllowed
<1>8. CASE \E j \in Jobs : DeleteJob(j)
  BY <1>8, DeleteAllowed
<1>9. CASE Tick \/ UNCHANGED vars
  BY <1>9, RestAllowed DEF Tick, vars
<1> QED
  BY <1>1, <1>2, <1>3, <1>4, <1>5, <1>6, <1>7, <1>8, <1>9 DEF Next

\* While no row of a family was deleted and its root was not lost, what its attempts really
\* used stays within the budget of the root, whoever retries, resubmits, loses or cancels
\* what in which order (Manager._validate_child_allocation).
THEOREM AllowanceKept == Spec => []AllowanceHeld
<1>1. Init => Allowances
  BY AllowancesBegin
<1>2. Allowances /\ [Next]_vars => Allowances'
  BY AllowancesStep
<1>3. Allowances => AllowanceHeld
  BY AllowancesHold
<1> QED
  BY <1>1, <1>2, <1>3, PTL DEF Spec

-----------------------------------------------------------------------------
(* Types.  A job that is there has a key, so that a retry can add to it.   *)

RowsTyped == TypeOK /\ \A j \in Jobs : Present(j) => job[j].key \in RowKeys

LEMMA RowsTypedInit == Init => RowsTyped
<1> SUFFICES ASSUME Init PROVE RowsTyped
  OBVIOUS
<1>1. NoJob("unused") \in [state : States, key : RowKeys \cup {None}, parent : Jobs \cup {None},
                           budget : Granted, deadline : Nat, usage : Granted \cup {None}]
  BY DEF NoJob, States, Granted
<1>2. now = 0 /\ job = [j \in Jobs |-> NoJob("unused")] /\ spent = [j \in Jobs |-> 0]
      /\ origin = [j \in Jobs |-> None]
  BY DEF Init
<1>3. \A j \in Jobs : ~Present(j)
  BY <1>2 DEF Present, NoJob
<1>4. 0 \in Granted
  BY DEF Granted
<1> HIDE DEF NoJob
<1> QED
  BY <1>1, <1>2, <1>3, <1>4 DEF RowsTyped, TypeOK

LEMMA CreateTyped ==
  ASSUME RowsTyped, NEW j \in Jobs, NEW key \in RowKeys, NEW parent \in Jobs \cup {None},
         NEW budget \in Granted, NEW term \in Nat, Create(j, key, parent, budget, term),
         origin' \in [Jobs -> Jobs \cup {None}]
  PROVE  RowsTyped'
<1> DEFINE R == [state : States, key : RowKeys \cup {None}, parent : Jobs \cup {None},
                 budget : Granted, deadline : Nat, usage : Granted \cup {None}]
           Row == [state |-> "queued", key |-> key, parent |-> parent,
                   budget |-> budget, deadline |-> now + term, usage |-> None]
<1>1. now \in Nat /\ job \in [Jobs -> R]
  BY DEF RowsTyped, TypeOK
<1>2. Row \in R /\ Row.key = key
  BY <1>1 DEF States
<1>3. job' = [job EXCEPT ![j] = Row] /\ UNCHANGED <<now, spent>>
  BY DEF Create
<1> HIDE DEF Row, R
<1>4. job' \in [Jobs -> R] /\ job'[j].key = key /\ \A i \in Jobs : i # j => job'[i] = job[i]
  BY <1>1, <1>2, <1>3
<1>5. ASSUME NEW i \in Jobs, Present(i)' PROVE job'[i].key \in RowKeys
  <2>1. CASE i = j
    BY <1>4, <2>1
  <2>2. CASE i # j
    BY <1>4, <1>5, <2>2 DEF RowsTyped, Present
  <2> QED
    BY <2>1, <2>2
<1>6. spent' \in [Jobs -> Granted] /\ now' \in Nat
  BY <1>3 DEF RowsTyped, TypeOK
<1> QED
  BY <1>4, <1>5, <1>6 DEF RowsTyped, TypeOK, R

\* What a retry asks for is a key, a budget and a term.
LEMMA RetryTyped ==
  ASSUME Allowances, RowsTyped, NEW p \in Jobs, Present(p), NEW key, RetryOutcome(p, key) = "created"
  PROVE  RetryKey(p) \in RowKeys /\ RetryBudget(p) \in Granted /\ RetryTerm(p) \in Nat
<1>1. /\ job[p].key \in RowKeys /\ job[p].budget \in Granted /\ job[p].deadline \in Nat /\ now \in Nat
      /\ job[p].usage \in Nat \cup {None}
  BY DEF RowsTyped, TypeOK, Granted
<1>2. RetryKey(p) \in RowKeys
  <2> DEFINE n == Cardinality(Children(p)) + 1
  <2>1. origin[p] \in Jobs
    BY DEF Allowances, Families, Present
  <2>2. ASSUME NEW c \in Children(p) PROVE c \in Allotted(origin[p])
    <3>1. c \in Jobs /\ Present(c) /\ job[c].parent = p /\ p # None
      BY LineageAssumption DEF Children
    <3>2. origin[p] = origin[c]
      BY <3>1 DEF Allowances, Families
    <3> QED
      BY <3>1, <3>2 DEF Allotted
  <2>3. IsFiniteSet(Children(p))
    <3>1. IsFiniteSet(Allotted(origin[p]))
      BY <2>1 DEF Allowances, Families
    <3> QED
      BY <2>2, <3>1, FS_Subset
  <2>4. n \in Nat
    BY <2>3, FS_CardinalityType
  <2> HIDE DEF n
  <2>5. Append(job[p].key, n) \in RowKeys
    BY <1>1, <2>4 DEF RowKeys
  <2> QED
    BY <2>5 DEF RetryKey, n
<1>3. RetryBudget(p) \in Granted
  <2>1. RetryBudget(p) >= 1
    BY DEF RetryOutcome, EnoughLeft
  <2>2. RetryBudget(p) \in Int /\ RetryBudget(p) <= job[p].budget
    BY <1>1, LineageAssumption DEF RetryBudget, Granted
  <2> HIDE DEF RetryBudget
  <2> QED
    BY <1>1, <2>1, <2>2, LineageAssumption DEF Granted
<1>4. RetryTerm(p) \in Nat
  <2>1. Remaining(p) \in Nat
    BY <1>1 DEF Remaining
  <2> HIDE DEF Remaining
  <2> QED
    BY <2>1, LineageAssumption DEF RetryTerm, LargerOf, SmallerOf
<1> QED
  BY <1>2, <1>3, <1>4

LEMMA RowsTypedStep == Allowances /\ Allowances' /\ RowsTyped /\ [Next]_vars => RowsTyped'
<1> SUFFICES ASSUME Allowances, Allowances', RowsTyped, [Next]_vars PROVE RowsTyped'
  OBVIOUS
<1> DEFINE R == [state : States, key : RowKeys \cup {None}, parent : Jobs \cup {None},
                 budget : Granted, deadline : Nat, usage : Granted \cup {None}]
<1>0. /\ origin' \in [Jobs -> Jobs \cup {None}] /\ origin \in [Jobs -> Jobs \cup {None}]
      /\ now \in Nat /\ job \in [Jobs -> R] /\ spent \in [Jobs -> Granted]
      /\ \A j \in Jobs : Present(j) => job[j].key \in RowKeys
  BY DEF Allowances, Families, RowsTyped, TypeOK
<1>a. Budgets \subseteq Granted /\ Terms \subseteq Nat /\ \A k \in Keys : <<k>> \in RowKeys
  BY LineageAssumption DEF Granted, RowKeys
<1>1. ASSUME NEW j \in Jobs, NEW k \in Keys, NEW b \in Budgets, NEW d \in Terms, Submit(j, k, b, d)
      PROVE  RowsTyped'
  BY <1>0, <1>1, <1>a, CreateTyped DEF Submit
<1>2. ASSUME NEW j \in Jobs, NEW p \in Jobs, NEW k \in Keys, NEW b \in Budgets, NEW d \in Terms,
             SubmitChild(j, p, k, b, d)
      PROVE  RowsTyped'
  BY <1>0, <1>2, <1>a, CreateTyped DEF SubmitChild
<1>3. ASSUME NEW j \in Jobs, NEW p \in Jobs, NEW key, Retry(j, p, key),
             key = RetryKey(p) \/ \E k \in Keys : key = <<k>>
      PROVE  RowsTyped'
  <2>1. Create(j, key, p, RetryBudget(p), RetryTerm(p)) /\ Present(p) /\ RetryOutcome(p, key) = "created"
    BY <1>3 DEF Retry
  <2>2. key \in RowKeys /\ RetryBudget(p) \in Granted /\ RetryTerm(p) \in Nat
    BY <1>3, <1>a, <2>1, RetryTyped
  <2> QED
    BY <1>0, <2>1, <2>2, CreateTyped
\* The rows of a step that only writes state and usage, or deletes a row.
<1>4. ASSUME UNCHANGED now, spent' \in [Jobs -> Granted], job' \in [Jobs -> R],
             \A j \in Jobs : Present(j)' => Present(j) /\ job'[j].key = job[j].key
      PROVE  RowsTyped'
  BY <1>0, <1>4 DEF RowsTyped, TypeOK
<1>5. ASSUME NEW j \in Jobs, NEW u \in Uses, Claim(j, u) PROVE RowsTyped'
  <2>1. job[j].state = "queued" /\ u <= job[j].budget /\ job[j].budget \in Granted /\ u \in Nat
        /\ job' = [job EXCEPT ![j].state = "running"] /\ spent' = [spent EXCEPT ![j] = u] /\ UNCHANGED now
    BY <1>0, <1>5, LineageAssumption DEF Claim
  <2>2. u \in Granted
    BY <2>1, LineageAssumption DEF Granted
  <2>3. job' \in [Jobs -> R]
    BY <1>0, <2>1 DEF States
  <2>4. spent' \in [Jobs -> Granted]
    BY <1>0, <2>1, <2>2
  <2>5. \A i \in Jobs : Present(i)' => Present(i) /\ job'[i].key = job[i].key
    BY <1>0, <2>1 DEF Present
  <2> QED
    BY <1>4, <2>1, <2>3, <2>4, <2>5
<1>6. ASSUME NEW j \in Jobs, NEW s \in Terminal, Finalize(j, s) PROVE RowsTyped'
  <2>1. /\ job[j].state \in {"running", "cancel_requested"} /\ spent[j] \in Granted
        /\ job' = [job EXCEPT ![j].state = s, ![j].usage = spent[j]] /\ UNCHANGED <<now, spent>>
    BY <1>0, <1>6 DEF Finalize
  <2>2. job' \in [Jobs -> R]
    <3> DEFINE row == [job[j] EXCEPT !.state = s, !.usage = spent[j]]
    <3>1. row \in R
      BY <1>0, <2>1 DEF States
    <3>2. job' = [job EXCEPT ![j] = row]
      BY <1>0, <2>1
    <3> HIDE DEF row, R
    <3> QED
      BY <1>0, <3>1, <3>2
  <2>3. \A i \in Jobs : Present(i)' => Present(i) /\ job'[i].key = job[i].key
    BY <1>0, <2>1 DEF Present
  <2> QED
    BY <1>0, <1>4, <2>1, <2>2, <2>3
<1>7. ASSUME NEW j \in Jobs, Cancel(j) PROVE RowsTyped'
  <2> DEFINE s == IF job[j].state = "queued" THEN "cancelled" ELSE "cancel_requested"
  <2>1. /\ job[j].state \in {"running", "queued"} /\ s \in States
        /\ job' = [job EXCEPT ![j].state = s] /\ UNCHANGED <<now, spent>>
    BY <1>7 DEF Cancel, States, Terminal
  <2> HIDE DEF s
  <2>2. job' \in [Jobs -> R]
    BY <1>0, <2>1
  <2>3. \A i \in Jobs : Present(i)' => Present(i) /\ job'[i].key = job[i].key
    BY <1>0, <2>1 DEF Present
  <2> QED
    BY <1>0, <1>4, <2>1, <2>2, <2>3
<1>8. ASSUME NEW silent \in SUBSET Jobs, SweepOnce(silent) PROVE RowsTyped'
  <2> DEFINE Lost(i) == i \in silent \/ (job[i].state = "queued" /\ job[i].deadline < now)
  <2>1. /\ job' = [i \in Jobs |-> IF Lost(i) THEN [job[i] EXCEPT !.state = "lost"] ELSE job[i]]
        /\ \A i \in Jobs : Lost(i) => Present(i)
        /\ UNCHANGED <<now, spent>>
    BY <1>8 DEF SweepOnce, Present
  <2>2. ASSUME NEW i \in Jobs
        PROVE  [job[i] EXCEPT !.state = "lost"] \in R /\ [job[i] EXCEPT !.state = "lost"].key = job[i].key
    BY <1>0 DEF States, Terminal
  <2> HIDE DEF Lost, R
  <2>3. job' \in [Jobs -> R] /\ \A i \in Jobs : job'[i].key = job[i].key
    BY <1>0, <2>1, <2>2
  <2>4. \A i \in Jobs : Present(i)' => Present(i)
    <3>1. ASSUME NEW i \in Jobs, ~Lost(i) PROVE job'[i] = job[i]
      BY <2>1, <3>1
    <3> QED
      BY <2>1, <3>1 DEF Present
  <2> QED
    BY <1>0, <1>4, <2>1, <2>3, <2>4
<1>9. ASSUME NEW j \in Jobs, DeleteJob(j) PROVE RowsTyped'
  <2>1. NoJob("deleted") \in R /\ NoJob("deleted").state = "deleted"
    BY DEF NoJob, States, Granted
  <2>2. job' = [job EXCEPT ![j] = NoJob("deleted")] /\ UNCHANGED <<now, spent>>
    BY <1>9 DEF DeleteJob
  <2> HIDE DEF NoJob, R
  <2>3. job' \in [Jobs -> R] /\ job'[j].state = "deleted" /\ \A i \in Jobs : i # j => job'[i] = job[i]
    BY <1>0, <2>1, <2>2
  <2>4. \A i \in Jobs : Present(i)' => Present(i) /\ job'[i].key = job[i].key
    BY <2>3 DEF Present
  <2> QED
    BY <1>0, <1>4, <2>2, <2>3, <2>4
<1>10. CASE Tick \/ UNCHANGED vars
  BY <1>0, <1>10, LineageAssumption DEF Tick, vars, RowsTyped, TypeOK, Present
<1> QED
  BY <1>1, <1>2, <1>3, <1>5, <1>6, <1>7, <1>8, <1>9, <1>10 DEF Next

\* Every row is of its type: no chain of retries makes a key that is none, or grants a job more
\* than somebody may submit (retry, _validate_child_allocation).
THEOREM LineageTyped == Spec => []TypeOK
<1>1. RowsTyped => TypeOK
  BY DEF RowsTyped
<1> QED
  BY AllowancesBegin, AllowancesStep, RowsTypedInit, RowsTypedStep, <1>1, PTL DEF Spec
=============================================================================
