-------------------------- MODULE ManualRunsProofs --------------------------
(***************************************************************************)
(* Theorems about the runs a client starts by hand, for any runs,          *)
(* requests, endpoints, executors and keys and any bound on edits, crashes *)
(* and faults.                                                             *)
(*                                                                         *)
(* The library's induction theorems take a predicate, which the provers    *)
(* cannot instantiate.  The order of finite sets by inclusion is well      *)
(* founded (FS_StrictSubsetOrderingWellFounded), and that theorem takes    *)
(* sets only: from it follow induction over the naturals for a set of      *)
(* naturals, and what a fold over a sequence returns.                      *)
(***************************************************************************)
EXTENDS ManualRuns, FiniteSetTheorems, SequenceTheorems, WellFoundedInduction, TLAPS

-----------------------------------------------------------------------------
(* Induction over a set of naturals, and the largest of some naturals. *)

LEMMA SmallestSubset ==
  ASSUME NEW S, NEW T, T \subseteq FiniteSubsetsOf(S), T # {}
  PROVE  \E x \in T : \A y \in T : y \subseteq x => y = x
<1>1. \E x \in T : \A y \in T : ~ (<<y, x>> \in StrictSubsetOrdering(S))
  BY FS_StrictSubsetOrderingWellFounded, WFMin
<1> QED
  BY <1>1 DEF StrictSubsetOrdering, FiniteSubsetsOf

LEMMA SetInduction ==
  ASSUME NEW T, 0 \in T, \A n \in Nat : n \in T => n + 1 \in T
  PROVE  Nat \subseteq T
<1> SUFFICES ASSUME Nat \ T # {} PROVE FALSE
  OBVIOUS
<1> DEFINE Missing == {1 .. n : n \in Nat \ T}
<1>1. PICK x \in Missing : \A y \in Missing : y \subseteq x => y = x
  <2>1. \A n \in Nat : 1 .. n \subseteq Nat /\ IsFiniteSet(1 .. n)
    BY FS_Interval
  <2>2. Missing \subseteq FiniteSubsetsOf(Nat) /\ Missing # {}
    BY <2>1 DEF FiniteSubsetsOf
  <2> HIDE DEF Missing
  <2> QED
    BY <2>2, SmallestSubset
<1>2. PICK n \in Nat \ T : x = 1 .. n
  OBVIOUS
<1>3. n # 0 /\ n - 1 \in Nat \ T
  OBVIOUS
<1>4. 1 .. (n - 1) \in Missing
  BY <1>3
<1>5. n \in 1 .. n /\ n \notin 1 .. (n - 1) /\ 1 .. (n - 1) \subseteq 1 .. n
  OBVIOUS
<1> QED
  BY <1>1, <1>2, <1>4, <1>5

LEMMA MaxIs ==
  ASSUME NEW n \in Nat, NEW s \in SUBSET (1 .. n), s # {}
  PROVE  Max(s) \in s /\ \A y \in s : y <= Max(s)
<1> DEFINE Tops == {k \in Nat : \A t \in SUBSET (1 .. k) : t # {} => \E m \in t : \A y \in t : m >= y}
<1>1. 0 \in Tops
  <2>1. 1 .. 0 = {}
    OBVIOUS
  <2> QED
    BY <2>1
<1>2. ASSUME NEW k \in Nat, k \in Tops PROVE k + 1 \in Tops
  <2> SUFFICES ASSUME NEW t \in SUBSET (1 .. (k + 1)), t # {}
               PROVE  \E m \in t : \A y \in t : m >= y
    OBVIOUS
  <2>1. CASE k + 1 \in t
    BY <2>1
  <2>2. CASE k + 1 \notin t
    <3>1. t \in SUBSET (1 .. k)
      BY <2>2
    <3> QED
      BY <3>1, <1>2
  <2> QED
    BY <2>1, <2>2
<1>3. n \in Tops
  <2> HIDE DEF Tops
  <2> QED
    BY <1>1, <1>2, SetInduction
<1>4. \E m \in s : \A y \in s : m >= y
  BY <1>3
<1> QED
  BY <1>4 DEF Max

(* The accumulators of a fold over the sets of positions, the largest last. *)
Iterates(iter, n, base, f) ==
  \A s \in SUBSET (1 .. n) :
    iter[s] = IF s = {} THEN base ELSE f[<<iter[s \ {Max(s)}], Max(s)>>]

(* A fold with an operator that stays in Acc is well defined. *)
LEMMA FoldIsThere ==
  ASSUME NEW n \in Nat, NEW Acc, NEW base \in Acc, NEW f \in [Acc \X (1 .. n) -> Acc]
  PROVE  \E iter \in [SUBSET (1 .. n) -> Acc] : Iterates(iter, n, base, f)
<1> DEFINE Good(k) == \E iter \in [SUBSET (1 .. k) -> Acc] :
                        \A s \in SUBSET (1 .. k) :
                          iter[s] = IF s = {} THEN base ELSE f[<<iter[s \ {Max(s)}], Max(s)>>]
           Reached == {k \in Nat : k <= n => Good(k)}
<1>1. 0 \in Reached
  <2>1. SUBSET (1 .. 0) = {{}}
    OBVIOUS
  <2>2. [s \in SUBSET (1 .. 0) |-> base] \in [SUBSET (1 .. 0) -> Acc]
    OBVIOUS
  <2> QED
    BY <2>1, <2>2
<1>2. ASSUME NEW k \in Nat, k \in Reached PROVE k + 1 \in Reached
  <2> HIDE DEF Good
  <2> SUFFICES ASSUME k + 1 <= n PROVE Good(k + 1)
    OBVIOUS
  <2>0. Good(k)
    BY <1>2
  <2> USE DEF Good
  <2>1. PICK g \in [SUBSET (1 .. k) -> Acc] :
          \A s \in SUBSET (1 .. k) :
            g[s] = IF s = {} THEN base ELSE f[<<g[s \ {Max(s)}], Max(s)>>]
    BY <2>0
  <2> DEFINE iter == [s \in SUBSET (1 .. (k + 1)) |->
                        IF k + 1 \in s THEN f[<<g[s \ {k + 1}], k + 1>>] ELSE g[s]]
  <2>2. \A s \in SUBSET (1 .. (k + 1)) : k + 1 \notin s => s \in SUBSET (1 .. k)
    OBVIOUS
  <2>3. \A s \in SUBSET (1 .. (k + 1)) : s \ {k + 1} \in SUBSET (1 .. k)
    OBVIOUS
  <2>4. iter \in [SUBSET (1 .. (k + 1)) -> Acc]
    <3> SUFFICES ASSUME NEW s \in SUBSET (1 .. (k + 1)) PROVE iter[s] \in Acc
      OBVIOUS
    <3>1. CASE k + 1 \in s
      <4>1. g[s \ {k + 1}] \in Acc
        BY <2>3, <2>1
      <4> QED
        BY <3>1, <4>1
    <3>2. CASE k + 1 \notin s
      BY <3>2, <2>1, <2>2
    <3> QED
      BY <3>1, <3>2
  <2>5. ASSUME NEW s \in SUBSET (1 .. (k + 1))
        PROVE  iter[s] = IF s = {} THEN base ELSE f[<<iter[s \ {Max(s)}], Max(s)>>]
    <3>1. CASE k + 1 \in s
      <4>1. Max(s) = k + 1
        <5>1. Max(s) \in s /\ \A y \in s : y <= Max(s)
          BY <3>1, MaxIs, k + 1 \in Nat
        <5>2. Max(s) \in 1 .. (k + 1) /\ k + 1 <= Max(s)
          BY <5>1, <3>1
        <5> HIDE DEF iter
        <5> QED
          BY <5>2
      <4>2. iter[s \ {k + 1}] = g[s \ {k + 1}]
        BY <2>3
      <4> QED
        BY <3>1, <4>1, <4>2
    <3>2. CASE k + 1 \notin s
      <4>1. s \in SUBSET (1 .. k) /\ iter[s] = g[s]
        BY <3>2, <2>2
      <4>2. CASE s = {}
        BY <4>1, <4>2, <2>1
      <4>3. CASE s # {}
        <5>1. s \ {Max(s)} \in SUBSET (1 .. (k + 1)) /\ k + 1 \notin s \ {Max(s)}
          BY <3>2
        <5>2. iter[s \ {Max(s)}] = g[s \ {Max(s)}]
          BY <5>1
        <5> QED
          BY <4>1, <4>3, <5>2, <2>1
      <4> QED
        BY <4>2, <4>3
    <3> QED
      BY <3>1, <3>2
  <2> HIDE DEF iter
  <2> QED
    BY <2>4, <2>5
<1>3. n \in Reached
  <2> HIDE DEF Reached
  <2> QED
    BY <1>1, <1>2, SetInduction
<1>4. Good(n)
  <2> HIDE DEF Good
  <2> QED
    BY <1>3
<1> QED
  BY <1>4 DEF Iterates

(* What holds before and after every element holds of the whole fold. *)
LEMMA FoldStays ==
  ASSUME NEW n \in Nat, NEW Acc, NEW iter,
         iter[{}] \in Acc,
         \A s \in SUBSET (1 .. n) :
           s # {} /\ iter[s \ {Max(s)}] \in Acc => iter[s] \in Acc
  PROVE  \A s \in SUBSET (1 .. n) : iter[s] \in Acc
<1> DEFINE Good(k) == \A s \in SUBSET (1 .. k) : iter[s] \in Acc
           Reached == {k \in Nat : k <= n => Good(k)}
<1>1. 0 \in Reached
  <2>1. 1 .. 0 = {}
    OBVIOUS
  <2>2. \A s \in SUBSET (1 .. 0) : s = {}
    BY <2>1
  <2>3. Good(0)
    BY <2>2
  <2> QED
    BY <2>3
<1>2. ASSUME NEW k \in Nat, k \in Reached PROVE k + 1 \in Reached
  <2> SUFFICES ASSUME k + 1 <= n, NEW s \in SUBSET (1 .. (k + 1)), s # {} PROVE iter[s] \in Acc
    BY <1>1
  <2>1. Good(k)
    <3> HIDE DEF Good
    <3> QED
      BY <1>2
  <2>2. CASE k + 1 \notin s
    <3>1. s \in SUBSET (1 .. k)
      BY <2>2
    <3> QED
      BY <3>1, <2>1
  <2>3. CASE k + 1 \in s
    <3>1. Max(s) \in s /\ \A y \in s : y <= Max(s)
      BY MaxIs, k + 1 \in Nat
    <3>2. Max(s) = k + 1
      <4>1. Max(s) \in 1 .. (k + 1) /\ k + 1 <= Max(s)
        BY <3>1, <2>3
      <4> QED
        BY <4>1
    <3>3. s \ {k + 1} \in SUBSET (1 .. k) /\ s \in SUBSET (1 .. n)
      OBVIOUS
    <3> QED
      BY <3>2, <3>3, <2>1
  <2> QED
    BY <2>2, <2>3
<1>3. n \in Reached
  <2> HIDE DEF Reached
  <2> QED
    BY <1>1, <1>2, SetInduction
<1>4. Good(n)
  <2> HIDE DEF Good
  <2>1. n <= n
    OBVIOUS
  <2> QED
    BY <1>3, <2>1
<1>5. \A s \in SUBSET (1 .. n) : iter[s] \in Acc
  <2>1. Good(n) => \A s \in SUBSET (1 .. n) : iter[s] \in Acc
    BY Zenon
  <2> QED
    BY <1>4, <2>1, Zenon
<1> HIDE DEF Good, Reached
<1> QED
  BY <1>5

-----------------------------------------------------------------------------
(* The inputs of a configured tool. *)

NoneTwice(paths) == \A i, j \in 1 .. Len(paths) : paths[i] = paths[j] => i = j

LEMMA AddOnceKeepsDistinct ==
  ASSUME NEW S, NEW selected \in Seq(S), NoneTwice(selected), NEW path \in S
  PROVE  AddOnce(selected, path) \in Seq(S) /\ NoneTwice(AddOnce(selected, path))
<1>1. CASE path \in Range(selected)
  BY <1>1 DEF AddOnce
<1>2. CASE path \notin Range(selected)
  <2> DEFINE more == Append(selected, path)
  <2>1. /\ more \in Seq(S) /\ Len(more) = Len(selected) + 1
        /\ \A i \in 1 .. Len(selected) : more[i] = selected[i]
        /\ more[Len(selected) + 1] = path
    OBVIOUS
  <2>2. \A i \in 1 .. Len(selected) : selected[i] # path
    BY <1>2 DEF Range
  <2>3. NoneTwice(more)
    <3> SUFFICES ASSUME NEW i \in 1 .. Len(more), NEW j \in 1 .. Len(more), more[i] = more[j]
                 PROVE  i = j
      BY DEF NoneTwice
    <3>1. i \in 1 .. Len(selected) \/ i = Len(selected) + 1
      BY <2>1
    <3>2. j \in 1 .. Len(selected) \/ j = Len(selected) + 1
      BY <2>1
    <3> HIDE DEF more
    <3> QED
      BY <3>1, <3>2, <2>1, <2>2 DEF NoneTwice
  <2> QED
    BY <1>2, <2>1, <2>3 DEF AddOnce
<1> QED
  BY <1>1, <1>2

(* Selected is a fold: each path that matches is there once. *)
LEMMA SelectedIs ==
  ASSUME NEW S, NEW entries \in Seq([path : S, matches : BOOLEAN])
  PROVE  Selected(entries) \in Seq(S) /\ NoneTwice(Selected(entries))
<1> DEFINE E == [path : S, matches : BOOLEAN]
<1>0. \A i \in 1 .. Len(entries) : entries[i] \in E
  <2>1. entries \in Seq(E)
    OBVIOUS
  <2> HIDE DEF E
  <2> QED
    BY <2>1
<1> DEFINE n == Len(entries)
           Acc == {selected \in Seq(S) : NoneTwice(selected)}
           f == [p \in Acc \X (1 .. n) |-> AddMatching(p[1], entries[p[2]])]
           Folds(iter) == iter = [s \in SUBSET DOMAIN entries |->
             IF s = {} THEN << >> ELSE AddMatching(iter[s \ {Max(s)}], entries[Max(s)])]
<1>1. n \in Nat /\ DOMAIN entries = 1 .. n /\ << >> \in Acc
  BY DEF NoneTwice
<1>2. \A a \in Acc, i \in 1 .. n : AddMatching(a, entries[i]) \in Acc
  <2> SUFFICES ASSUME NEW a \in Acc, NEW i \in 1 .. n PROVE AddMatching(a, entries[i]) \in Acc
    OBVIOUS
  <2>1. entries[i] \in [path : S, matches : BOOLEAN]
    BY <1>0
  <2>2. entries[i].path \in S
    BY <2>1
  <2> QED
    BY <2>2, AddOnceKeepsDistinct DEF AddMatching
<1>3. f \in [Acc \X (1 .. n) -> Acc]
  BY <1>2
<1>4. \E iter : Folds(iter)
  <2> HIDE DEF f, Acc, n, Folds
  <2>1. PICK iter \in [SUBSET (1 .. n) -> Acc] :
          \A s \in SUBSET (1 .. n) :
            iter[s] = IF s = {} THEN << >> ELSE f[<<iter[s \ {Max(s)}], Max(s)>>]
    <3> DEFINE base == << >>
    <3>1. base \in Acc
      BY <1>1
    <3> HIDE DEF base
    <3>2. n \in Nat
      BY <1>1
    <3>3. \E iter \in [SUBSET (1 .. n) -> Acc] : Iterates(iter, n, base, f)
      BY <1>3, <3>1, <3>2, FoldIsThere
    <3> QED
      BY <3>3 DEF base, Iterates
  <2>2. ASSUME NEW s \in SUBSET (1 .. n), s # {}
        PROVE  f[<<iter[s \ {Max(s)}], Max(s)>>] = AddMatching(iter[s \ {Max(s)}], entries[Max(s)])
    <3>1. Max(s) \in 1 .. n
      BY <2>2, <1>1, MaxIs
    <3>2. iter[s \ {Max(s)}] \in Acc
      BY <2>1
    <3> QED
      BY <3>1, <3>2 DEF f
  <2>3. iter = [s \in SUBSET (1 .. n) |->
                 IF s = {} THEN << >> ELSE AddMatching(iter[s \ {Max(s)}], entries[Max(s)])]
    BY <2>1, <2>2
  <2> QED
    BY <1>1, <2>3 DEF Folds
<1> DEFINE chosen == CHOOSE iter : Folds(iter)
<1>5. Selected(entries) = chosen[DOMAIN entries]
  BY DEF Selected, FoldLeft, MapThenFoldSet
<1>6. Folds(chosen)
  <2> HIDE DEF Folds
  <2> QED
    BY <1>4
<1>7. \A s \in SUBSET (1 .. n) : chosen[s] \in Acc
  <2> HIDE DEF chosen, Acc, n
  <2>1. chosen[{}] \in Acc
    BY <1>1, <1>6
  <2>2. ASSUME NEW s \in SUBSET (1 .. n), s # {}, chosen[s \ {Max(s)}] \in Acc
        PROVE  chosen[s] \in Acc
    <3>1. Max(s) \in 1 .. n
      BY <2>2, <1>1, MaxIs
    <3>2. chosen[s] = AddMatching(chosen[s \ {Max(s)}], entries[Max(s)])
      BY <1>1, <1>6, <2>2
    <3> QED
      BY <3>1, <3>2, <2>2, <1>2
  <2> HIDE DEF Folds
  <2> QED
    BY <1>1, <2>1, <2>2, FoldStays
<1>8. 1 .. n \in SUBSET (1 .. n)
  OBVIOUS
<1> QED
  BY <1>1, <1>5, <1>7, <1>8

LEMMA FunctionIsSeq ==
  ASSUME NEW S, NEW n \in Nat, NEW f \in [1 .. n -> S]
  PROVE  f \in Seq(S)
BY SeqDef

LEMMA DistinctIs ==
  ASSUME NEW S, NEW paths \in Seq(S)
  PROVE  Distinct(paths) \in Seq(S) /\ NoneTwice(Distinct(paths))
<1> DEFINE entries == [i \in DOMAIN paths |-> [path |-> paths[i], matches |-> TRUE]]
<1>1. entries \in Seq([path : S, matches : BOOLEAN])
  <2>1. \A i \in 1 .. Len(paths) : [path |-> paths[i], matches |-> TRUE] \in [path : S, matches : BOOLEAN]
    OBVIOUS
  <2>2. DOMAIN paths = 1 .. Len(paths) /\ Len(paths) \in Nat
    OBVIOUS
  <2>3. entries \in [1 .. Len(paths) -> [path : S, matches : BOOLEAN]]
    BY <2>1, <2>2
  <2> HIDE DEF entries
  <2> QED
    BY <2>2, <2>3, FunctionIsSeq
<1> HIDE DEF entries
<1>2. Selected(entries) \in Seq(S) /\ NoneTwice(Selected(entries))
  BY <1>1, SelectedIs
<1> QED
  BY <1>2 DEF Distinct, entries

LEMMA TakeIs ==
  ASSUME NEW S, NEW paths \in Seq(S), NEW limit \in Nat
  PROVE  Take(paths, limit) \in Seq(S)
<1>1. Len(paths) \in Nat /\ \A i \in 1 .. Len(paths) : paths[i] \in S
  OBVIOUS
<1> QED
  BY <1>1 DEF Take

(* The rules pick paths of the workspace. *)
LEMMA SelectInputsIs ==
  ASSUME NEW w \in Workspaces
  PROVE  SelectInputs(w) \in Seq(InputFiles)
<1> DEFINE limit  == IF MaxInputFiles = 0 THEN 1 ELSE MaxInputFiles
           listed == {w.manifest[i].path : i \in DOMAIN w.manifest}
           found  == [i \in DOMAIN w.grep |->
                       [path |-> w.grep[i].path,
                        matches |-> w.grep[i].matches /\ w.grep[i].path \in listed]]
           chosen == IF w.materialized # <<>> THEN Distinct(w.materialized)
                     ELSE Selected(w.manifest \o found)
<1>1. w.materialized \in Seq(InputFiles) /\ w.manifest \in Seq(Entries) /\ w.grep \in Seq(Entries)
  BY WorkspacesAreWorkspaces
<1>2. limit \in Nat
  BY MaxInputFilesIsNatural
<1>3. found \in Seq(Entries)
  <2>1. \A i \in 1 .. Len(w.grep) : w.grep[i] \in Entries
    <3> DEFINE grep == w.grep
    <3>1. grep \in Seq(Entries)
      BY <1>1
    <3> HIDE DEF grep
    <3>2. \A i \in 1 .. Len(grep) : grep[i] \in Entries
      BY <3>1
    <3> QED
      BY <3>2 DEF grep
  <2>2. \A i \in 1 .. Len(w.grep) : w.grep[i].path \in InputFiles
    BY <2>1 DEF Entries
  <2> HIDE DEF listed
  <2>3. \A i \in 1 .. Len(w.grep) :
          (w.grep[i].matches /\ w.grep[i].path \in listed) \in BOOLEAN
    BY Zenon
  <2>4. \A i \in 1 .. Len(w.grep) :
          [path |-> w.grep[i].path, matches |-> w.grep[i].matches /\ w.grep[i].path \in listed]
            \in Entries
    BY <2>2, <2>3, Zenon DEF Entries
  <2>5. DOMAIN w.grep = 1 .. Len(w.grep) /\ Len(w.grep) \in Nat
    BY <1>1
  <2>6. \A i \in DOMAIN w.grep : found[i] \in Entries
    BY <2>4, <2>5, Zenon
  <2>7. found \in [1 .. Len(w.grep) -> Entries]
    BY <2>5, <2>6
  <2> HIDE DEF found
  <2> QED
    BY <2>5, <2>7, FunctionIsSeq
<1>4. Distinct(w.materialized) \in Seq(InputFiles)
  BY <1>1, DistinctIs
<1>5. Selected(w.manifest \o found) \in Seq(InputFiles)
  <2> DEFINE both == w.manifest \o found
  <2>1. both \in Seq(Entries)
    <3> HIDE DEF found
    <3> QED
      BY <1>1, <1>3
  <2> HIDE DEF both
  <2>2. Selected(both) \in Seq(InputFiles)
    BY <2>1, SelectedIs DEF Entries
  <2> QED
    BY <2>2 DEF both
<1>6. chosen \in Seq(InputFiles)
  BY <1>4, <1>5
<1>7. SelectInputs(w) = Take(chosen, limit)
  BY DEF SelectInputs
<1> HIDE DEF chosen, limit
<1> QED
  BY <1>2, <1>6, <1>7, TakeIs

(* A configured tool is run once on each of some files of the workspace. *)
LEMMA ConfiguredInputsAre ==
  ASSUME NEW w \in Workspaces, NEW asked \in Seq(InputFiles)
  PROVE  /\ ConfiguredInputs(w, asked) \in Seq(FilesOf(w))
         /\ NoneTwice(ConfiguredInputs(w, asked))
<1> DEFINE inputs == IF asked = <<>> THEN SelectInputs(w) ELSE asked
<1>1. inputs \in Seq(InputFiles)
  BY SelectInputsIs
<1>2. ConfiguredInputs(w, asked) =
        IF Len(inputs) <= MaxInputFiles /\ Range(inputs) \subseteq FilesOf(w)
        THEN Distinct(inputs) ELSE <<>>
  BY DEF ConfiguredInputs, FilesOf
<1> HIDE DEF inputs
<1>3. CASE Len(inputs) <= MaxInputFiles /\ Range(inputs) \subseteq FilesOf(w)
  <2>1. inputs \in Seq(FilesOf(w))
    <3>1. \A i \in 1 .. Len(inputs) : inputs[i] \in FilesOf(w)
      BY <1>1, <1>3 DEF Range
    <3>2. inputs \in [1 .. Len(inputs) -> FilesOf(w)] /\ Len(inputs) \in Nat
      BY <1>1, <3>1
    <3> QED
      BY <3>2, FunctionIsSeq
  <2> QED
    BY <1>2, <1>3, <2>1, DistinctIs
<1>4. CASE ~ (Len(inputs) <= MaxInputFiles /\ Range(inputs) \subseteq FilesOf(w))
  BY <1>2, <1>4 DEF NoneTwice
<1> QED
  BY <1>3, <1>4

-----------------------------------------------------------------------------
(* The inductive invariant. *)

Asked == {<<>>} \union {q.asked : q \in ToolRequests}

RunRecord == [status : {"ABSENT", "QUEUED", "RUNNING", "SUCCEEDED", "FAILED"},
              kind : Kinds \union {"none"}, target : Targets \union {Nothing},
              key : Keys \union {NoKey}, asked : Asked, svg : BOOLEAN, attempts : Nat]

HandlerRecord == [pc : {"idle", "resolve", "create", "create_fetch", "last_run", "enqueue"},
                  kind : Kinds \union {"none"}, target : Targets \union {Nothing},
                  key : Keys \union {NoKey}, asked : Asked, svg : BOOLEAN,
                  run : Runs \union {Nothing}]

JobRecord == [pc : {"idle", "start", "steps", "saving", "torn", "written", "failing"},
              plan : Seq(Steps), done : Seq(Outcomes), seen : {"absent", "enabled", "disabled"}]

Results == UNION {[inputs -> Outcomes] : inputs \in SUBSET Steps}

Types ==
  /\ run \in [Runs -> RunRecord]
  /\ wake \subseteq Runs
  /\ req \in [Requests -> HandlerRecord]
  /\ memory \in [Targets -> {"absent", "enabled", "disabled"}]
  /\ file \in [Targets -> {"absent", "enabled", "disabled"}]
  /\ told \in [Targets -> {"absent", "enabled", "disabled", "deleted"}]
  /\ lastRun \in [Endpoints -> Runs \union {Nothing}]
  /\ job \in [Runs -> JobRecord]
  /\ saved \in [Runs -> Results]
  /\ result \in [Runs -> Outcomes \union {"none", "torn"}]
  /\ effects \in [Runs -> [Steps -> Nat]]
  /\ okSteps \in [Runs -> SUBSET Steps]
  /\ stuck \subseteq Endpoints /\ raced \subseteq Keys /\ crashes \in 0 .. MaxCrashes

(* A handler in progress has a kind; one that created its run names it. *)
HandlerFits(q) ==
  /\ req[q].pc # "idle" => req[q].kind \in Kinds
  /\ req[q].pc \in {"last_run", "enqueue"} => req[q].run \in Runs
  /\ req[q].pc \in {"create_fetch", "last_run"} => req[q].target \in Endpoints
  /\ req[q].key \in Keys =>
       req[q].kind = "remote" /\ req[q].pc \in {"idle", "resolve", "create", "enqueue"}

(* While no look-up of a key raced: at most one handler is between the look-up
   and the creation, and as long as one is there no run has the key. *)
KeyFits(k) ==
  /\ \A q, other \in PastLookup(k) : q = other
  /\ PastLookup(k) # {} => \A r \in Runs : run[r].key # k
  /\ \A r, other \in Runs : run[r].key = k /\ run[other].key = k => r = other

(* An attempt begins on a QUEUED record, which a restart left or which is new. *)
AttemptsFit(r) ==
  /\ job[r].pc # "idle" => run[r].status = "RUNNING" /\ run[r].attempts >= 1
  /\ run[r].status = "ABSENT" =>
       run[r].attempts = 0 /\ job[r].plan = <<>> /\ job[r].done = <<>>
  /\ run[r].status # "ABSENT" => run[r].kind \in Kinds
  /\ run[r].status = "QUEUED" => run[r].attempts <= crashes
  /\ run[r].attempts <= 1 + crashes
  /\ run[r].key \in Keys => run[r].kind = "remote"

(* What an attempt plans, and how far it has come. *)
PlanFits(r) ==
  /\ run[r].kind = "pprof" => job[r].plan \in {<<>>, PprofCommands(TRUE), PprofCommands(FALSE)}
  /\ run[r].kind = "huawei" => job[r].plan \in {<<>>, PackageSyncSteps}
  /\ run[r].kind = "remote" => job[r].plan \in {<<>>, <<"ssh">>}
  /\ run[r].kind = "configured" => job[r].plan \in Seq(InputFiles)
  /\ run[r].kind = "fetch" =>
       /\ Range(job[r].plan) \subseteq {"request"}
       /\ Len(job[r].plan) <= Len(job[r].done) + 1
       /\ Len(job[r].plan) <= MaxRedirects + 1
  /\ run[r].kind \in BuiltIn => job[r].plan = <<>>
  /\ run[r].kind # "fetch" => NoneTwice(job[r].plan)
  /\ Len(job[r].done) <= Len(job[r].plan)
  /\ job[r].pc = "start" => job[r].plan = <<>> /\ job[r].done = <<>>

(* The steps that reported OK are there; a fetch is done with its last request. *)
DoneFits(r) ==
  /\ run[r].kind # "fetch" =>
       \A i \in 1 .. Len(job[r].done) : job[r].done[i] = "OK" => job[r].plan[i] \in okSteps[r]
  /\ run[r].kind = "fetch" =>
       (job[r].plan # <<>> /\ Len(job[r].plan) = Len(job[r].done) => "request" \in okSteps[r])

ResultFits(r) ==
  /\ job[r].pc \in {"torn", "written"} => ~HasStep(r)
  /\ job[r].pc = "written" => result[r] = Verdict(run[r].kind, job[r].done)
  /\ run[r].status = "SUCCEEDED" =>
       /\ result[r] \in Outcomes
       /\ result[r] = "OK" => Range(job[r].plan) \ {"svg"} \subseteq okSteps[r]
  /\ job[r].pc = "saving" =>
       /\ run[r].kind = "configured" /\ Len(job[r].done) >= 1
       /\ job[r].plan[Len(job[r].done)] \notin DOMAIN saved[r]
  /\ job[r].pc \in {"steps", "saving", "torn", "written"} => job[r].seen = "enabled"

(* How often an attempt may do a step, and how often this one did it. *)
Cap(s) == IF s = "request" THEN MaxRedirects + 1 ELSE 1

Spent(r, s) ==
  IF s = "request"
  THEN IF run[r].kind # "fetch" THEN 0
       ELSE IF job[r].pc = "failing" THEN MaxRedirects + 1 ELSE Len(job[r].done)
  ELSE IF \E i \in 1 .. Len(job[r].done) : job[r].plan[i] = s THEN 1 ELSE 0

EffectsFit(r) ==
  \A s \in Steps :
    effects[r][s] <= IF job[r].pc = "idle" THEN run[r].attempts * Cap(s)
                     ELSE (run[r].attempts - 1) * Cap(s) + Spent(r, s)

RunFits(r) == AttemptsFit(r) /\ PlanFits(r) /\ DoneFits(r) /\ ResultFits(r) /\ EffectsFit(r)

(* The file of a target is what its last answer said. *)
StoreFits(t) ==
  /\ file[t] = IF told[t] = "deleted" THEN "absent" ELSE told[t]
  /\ memory[t] = file[t] \/ (t \in stuck /\ memory[t] = "absent")

IInv ==
  /\ Types
  /\ \A q \in Requests : HandlerFits(q)
  /\ \A k \in Keys \ raced : KeyFits(k)
  /\ \A r \in Runs : RunFits(r)
  /\ \A t \in Targets : StoreFits(t)

-----------------------------------------------------------------------------
(* What an attempt plans. *)

LEMMA AskedAreInputs == Asked \subseteq Seq(InputFiles)
<1>1. <<>> \in Seq(InputFiles)
  OBVIOUS
<1>2. \A q \in ToolRequests : q.asked \in Seq(InputFiles)
  BY RequestsAreRequests
<1> QED
  BY <1>1, <1>2, Zenon DEF Asked

LEMMA CommandsAreSteps ==
  /\ Commands \subseteq Steps
  /\ {"top", "tree", "raw", "svg", "ssh", "request", "obs_put", "gaussdb_update", "obs_head",
      "gaussdb_query"} \subseteq Commands
<1>1. PackageSyncSteps = <<"obs_put", "gaussdb_update", "obs_head", "gaussdb_query">>
  BY DEF PackageSyncSteps
<1>2. DOMAIN PackageSyncSteps = 1 .. 4
  BY <1>1
<1>3. {"obs_put", "gaussdb_update", "obs_head", "gaussdb_query"} \subseteq Range(PackageSyncSteps)
  <2>1. 1 \in 1 .. 4 /\ 2 \in 1 .. 4 /\ 3 \in 1 .. 4 /\ 4 \in 1 .. 4
    OBVIOUS
  <2> QED
    BY <1>1, <1>2, <2>1 DEF Range
<1> QED
  BY <1>3 DEF Commands, Steps

LEMMA PprofCommandsAre ==
  ASSUME NEW svg \in BOOLEAN
  PROVE  /\ PprofCommands(svg) \in Seq(Steps)
         /\ NoneTwice(PprofCommands(svg))
         /\ Len(PprofCommands(svg)) >= 3
         /\ \A i \in 1 .. Len(PprofCommands(svg)) : i > 3 => PprofCommands(svg)[i] = "svg"
         /\ Range(PprofCommands(svg)) \subseteq {"top", "tree", "raw", "svg"}
<1>1. CASE svg
  <2>1. PprofCommands(svg) = <<"top", "tree", "raw">> \o <<"svg">>
    BY <1>1 DEF PprofCommands
  <2> DEFINE three == <<"top", "tree", "raw">>
             one   == <<"svg">>
             all   == three \o one
  <2>2. /\ three \in Seq(Steps) /\ Len(three) = 3 /\ three[1] = "top" /\ three[2] = "tree"
        /\ three[3] = "raw" /\ one \in Seq(Steps) /\ Len(one) = 1 /\ one[1] = "svg"
    BY CommandsAreSteps
  <2> HIDE DEF three, one
  <2>3. /\ all \in Seq(Steps) /\ Len(all) = 4
        /\ all[1] = "top" /\ all[2] = "tree" /\ all[3] = "raw" /\ all[4] = "svg"
    <3>1. /\ all \in Seq(Steps) /\ Len(all) = Len(three) + Len(one)
          /\ \A i \in 1 .. (Len(three) + Len(one)) :
               all[i] = IF i <= Len(three) THEN three[i] ELSE one[i - Len(three)]
      BY <2>2, ConcatProperties
    <3>2. 1 \in 1 .. 4 /\ 2 \in 1 .. 4 /\ 3 \in 1 .. 4 /\ 4 \in 1 .. 4
      OBVIOUS
    <3> HIDE DEF all
    <3> QED
      BY <2>2, <3>1, <3>2
  <2> HIDE DEF all
  <2>4. DOMAIN all = 1 .. 4 /\ \A i \in 1 .. 4 : i = 1 \/ i = 2 \/ i = 3 \/ i = 4
    BY <2>3
  <2>5. NoneTwice(all) /\ Range(all) \subseteq {"top", "tree", "raw", "svg"}
    BY <2>3, <2>4 DEF NoneTwice, Range
  <2>6. \A i \in 1 .. 4 : i > 3 => all[i] = "svg"
    BY <2>3, <2>4
  <2>7. PprofCommands(svg) = all
    BY <2>1 DEF all, three, one
  <2> QED
    BY <2>3, <2>5, <2>6, <2>7
<1>2. CASE ~ svg
  <2>1. PprofCommands(svg) = <<"top", "tree", "raw">>
    BY <1>2 DEF PprofCommands
  <2> QED
    BY <2>1, CommandsAreSteps DEF NoneTwice, Range
<1> QED
  BY <1>1, <1>2

LEMMA PackageSyncStepsAre ==
  /\ PackageSyncSteps \in Seq(Steps) /\ Len(PackageSyncSteps) = 4
  /\ NoneTwice(PackageSyncSteps)
  /\ Range(PackageSyncSteps) = {"obs_put", "gaussdb_update", "obs_head", "gaussdb_query"}
<1>1. PackageSyncSteps = <<"obs_put", "gaussdb_update", "obs_head", "gaussdb_query">>
  BY DEF PackageSyncSteps
<1>2. NoneTwice(PackageSyncSteps) /\ Len(PackageSyncSteps) = 4
  BY <1>1 DEF NoneTwice
<1>3. Range(PackageSyncSteps) = {"obs_put", "gaussdb_update", "obs_head", "gaussdb_query"}
  BY <1>1 DEF Range
<1>4. PackageSyncSteps \in Seq(Steps)
  BY <1>1, CommandsAreSteps
<1> QED
  BY <1>2, <1>3, <1>4

LEMMA PlansAre ==
  ASSUME NEW r \in Runs, run[r] \in RunRecord, run[r].kind \in Kinds, NEW plan \in Plans(r)
  PROVE  /\ plan \in Seq(Steps)
         /\ run[r].kind = "pprof" => plan \in {PprofCommands(TRUE), PprofCommands(FALSE)}
         /\ run[r].kind = "huawei" => plan = PackageSyncSteps
         /\ run[r].kind = "remote" => plan = <<"ssh">>
         /\ run[r].kind = "configured" => plan \in Seq(InputFiles)
         /\ run[r].kind = "fetch" => plan = <<"request">>
         /\ run[r].kind \in BuiltIn => plan = <<>>
         /\ run[r].kind # "fetch" => NoneTwice(plan)
<1>0. run[r].svg \in BOOLEAN /\ run[r].asked \in Asked
  BY DEF RunRecord
<1>1. CASE run[r].kind = "pprof"
  <2>1. plan = PprofCommands(run[r].svg)
    BY <1>1, Zenon DEF Plans, MetadataTools
  <2>2. plan \in {PprofCommands(TRUE), PprofCommands(FALSE)}
    BY <1>0, <2>1
  <2>3. plan \in Seq(Steps) /\ NoneTwice(plan)
    BY <1>0, <2>1, PprofCommandsAre
  <2> QED
    BY <1>1, <2>2, <2>3 DEF BuiltIn, MetadataTools
<1>2. CASE run[r].kind = "configured"
  <2>1. PICK w \in Workspaces : plan = ConfiguredInputs(w, run[r].asked)
    BY <1>2, Zenon DEF Plans, ConfiguredPlans, MetadataTools
  <2>2. plan \in Seq(FilesOf(w)) /\ NoneTwice(plan)
    BY <1>0, <2>1, AskedAreInputs, ConfiguredInputsAre
  <2>3. FilesOf(w) \subseteq Steps /\ FilesOf(w) \subseteq InputFiles
    <3> DEFINE more == FilesOf(w) \union {w.grep[i].path : i \in DOMAIN w.grep}
    <3>1. more \subseteq InputFiles
      <4>1. more \in {FilesOf(x) \union {x.grep[i].path : i \in DOMAIN x.grep} : x \in Workspaces}
        OBVIOUS
      <4> QED
        BY <4>1 DEF InputFiles
    <3>2. FilesOf(w) \subseteq Steps
      BY DEF Steps
    <3> QED
      BY <3>1, <3>2
  <2>4. plan \in Seq(Steps) /\ plan \in Seq(InputFiles)
    BY <2>2, <2>3
  <2> QED
    BY <1>2, <2>2, <2>4 DEF BuiltIn, MetadataTools
<1>3. CASE run[r].kind = "huawei"
  <2>1. plan = PackageSyncSteps
    BY <1>3, Zenon DEF Plans, MetadataTools
  <2> QED
    BY <1>3, <2>1, PackageSyncStepsAre DEF BuiltIn, MetadataTools
<1>4. CASE run[r].kind = "fetch"
  <2>1. plan = <<"request">>
    BY <1>4, Zenon DEF Plans, MetadataTools
  <2> QED
    BY <1>4, <2>1, CommandsAreSteps DEF BuiltIn, MetadataTools
<1>6. CASE run[r].kind = "remote"
  <2>1. plan = <<"ssh">>
    BY <1>6, Zenon DEF Plans, MetadataTools
  <2>2. plan \in Seq(Steps) /\ NoneTwice(plan)
    BY <2>1, CommandsAreSteps DEF NoneTwice
  <2> QED
    BY <1>6, <2>1, <2>2 DEF BuiltIn, MetadataTools
<1>5. CASE run[r].kind \in BuiltIn
  <2>1. plan = <<>>
    BY <1>5, Zenon DEF Plans, PreprocessPlan, MetadataPlan, BuiltIn, MetadataTools
  <2>2. plan \in Seq(Steps) /\ NoneTwice(plan)
    BY <2>1 DEF NoneTwice
  <2> QED
    BY <1>5, <2>1, <2>2 DEF BuiltIn, MetadataTools
<1> QED
  BY <1>1, <1>2, <1>3, <1>4, <1>5, <1>6 DEF Kinds, Tools

-----------------------------------------------------------------------------
(* Types *)

LEMMA JobWith ==
  ASSUME NEW r \in Runs, job \in [Runs -> JobRecord]
  PROVE  /\ \A pc \in {"idle", "start", "steps", "saving", "torn", "written", "failing"} :
              [job EXCEPT ![r].pc = pc] \in [Runs -> JobRecord]
         /\ \A outcome \in Outcomes, pc \in {"steps", "saving"} :
              [job EXCEPT ![r].done = Append(@, outcome), ![r].pc = pc] \in [Runs -> JobRecord]
         /\ \A outcome \in Outcomes :
              [job EXCEPT ![r].done = Append(@, outcome)] \in [Runs -> JobRecord]
         /\ \A record \in JobRecord : [job EXCEPT ![r] = record] \in [Runs -> JobRecord]
<1>1. job[r] \in JobRecord
  OBVIOUS
<1>2. ASSUME NEW outcome \in Outcomes PROVE Append(job[r].done, outcome) \in Seq(Outcomes)
  BY <1>1 DEF JobRecord
<1>3. \A pc \in {"idle", "start", "steps", "saving", "torn", "written", "failing"} :
        [job[r] EXCEPT !.pc = pc] \in JobRecord
  BY <1>1 DEF JobRecord
<1>4. \A outcome \in Outcomes, pc \in {"steps", "saving"} :
        [job[r] EXCEPT !.done = Append(@, outcome), !.pc = pc] \in JobRecord
  BY <1>1, <1>2 DEF JobRecord
<1>5. \A outcome \in Outcomes : [job[r] EXCEPT !.done = Append(@, outcome)] \in JobRecord
  BY <1>1, <1>2 DEF JobRecord
<1> QED
  BY <1>3, <1>4, <1>5

LEMMA NoRecords ==
  NoRequest \in HandlerRecord /\ Absent \in RunRecord /\ NoJob \in JobRecord
<1>1. <<>> \in Asked
  BY DEF Asked
<1>2. NoRequest \in HandlerRecord
  BY <1>1 DEF NoRequest, HandlerRecord
<1>3. Absent \in RunRecord
  BY <1>1 DEF Absent, RunRecord
<1>4. NoJob \in JobRecord
  BY DEF NoJob, JobRecord
<1> QED
  BY <1>2, <1>3, <1>4

LEMMA NoJobWith ==
  [NoJob EXCEPT !.pc = "start"] = [pc |-> "start", plan |-> <<>>, done |-> <<>>, seen |-> "absent"]
BY DEF NoJob

LEMMA InitTypes == Init => Types
<1> SUFFICES ASSUME Init PROVE Types
  OBVIOUS
<1>1. /\ run \in [Runs -> RunRecord] /\ req \in [Requests -> HandlerRecord]
      /\ job \in [Runs -> JobRecord]
  BY NoRecords DEF Init
<1>2. saved \in [Runs -> Results]
  <2>1. [s \in {} |-> "OK"] \in [{} -> Outcomes]
    OBVIOUS
  <2>2. [s \in {} |-> "OK"] \in Results
    BY <2>1 DEF Results
  <2> QED
    BY <2>2 DEF Init
<1>3. /\ wake \subseteq Runs /\ stuck \subseteq Endpoints /\ raced \subseteq Keys
      /\ crashes \in 0 .. MaxCrashes
  BY BoundsAreNatural DEF Init
<1>4. /\ memory \in [Targets -> {"absent", "enabled", "disabled"}]
      /\ file \in [Targets -> {"absent", "enabled", "disabled"}]
      /\ told \in [Targets -> {"absent", "enabled", "disabled", "deleted"}]
      /\ lastRun \in [Endpoints -> Runs \union {Nothing}]
  BY DEF Init
<1>5. /\ result \in [Runs -> Outcomes \union {"none", "torn"}]
      /\ effects \in [Runs -> [Steps -> Nat]]
      /\ okSteps \in [Runs -> SUBSET Steps]
  BY DEF Init
<1> QED
  BY <1>1, <1>2, <1>3, <1>4, <1>5 DEF Types

(* The variables of a type that an action leaves alone. *)
LEMMA StoreTypes ==
  ASSUME Types, NEW t \in Targets, NEW state \in {"absent", "enabled", "disabled"}
  PROVE  /\ [memory EXCEPT ![t] = state] \in [Targets -> {"absent", "enabled", "disabled"}]
         /\ [file EXCEPT ![t] = state] \in [Targets -> {"absent", "enabled", "disabled"}]
         /\ \A answer \in {"absent", "enabled", "disabled", "deleted"} :
              [told EXCEPT ![t] = answer] \in [Targets -> {"absent", "enabled", "disabled", "deleted"}]
BY DEF Types

LEMMA StoresTypes == Types /\ Stores => Types'
<1> SUFFICES ASSUME Types, Stores PROVE Types'
  OBVIOUS
<1>1. ASSUME NEW t \in Targets, NEW state \in {"enabled", "disabled"},
             CreateTarget(t, state) \/ PatchTarget(t, state)
      PROVE  Types'
  <2>1. /\ memory' = [memory EXCEPT ![t] = state] /\ file' = [file EXCEPT ![t] = state]
        /\ told' = [told EXCEPT ![t] = state]
        /\ UNCHANGED <<run, wake, req, lastRun, stuck, workVars, raced, crashes>>
    BY <1>1 DEF CreateTarget, PatchTarget
  <2>2. /\ memory' \in [Targets -> {"absent", "enabled", "disabled"}]
        /\ file' \in [Targets -> {"absent", "enabled", "disabled"}]
        /\ told' \in [Targets -> {"absent", "enabled", "disabled", "deleted"}]
    BY <2>1, StoreTypes
  <2> QED
    BY <2>1, <2>2 DEF Types, workVars
<1>2. ASSUME NEW e \in Endpoints, DeleteEndpoint(e)
      PROVE  Types'
  <2>1. e \in Targets
    BY DEF Targets
  <2>2. /\ memory' = [memory EXCEPT ![e] = "absent"]
        /\ file' = [file EXCEPT ![e] = "absent"] \/ file' = file
        /\ told' = [told EXCEPT ![e] = "deleted"] \/ told' = told
        /\ stuck' \subseteq stuck \union {e}
        /\ UNCHANGED <<run, wake, req, lastRun, workVars, raced, crashes>>
    BY <1>2 DEF DeleteEndpoint
  <2>3. /\ memory' \in [Targets -> {"absent", "enabled", "disabled"}]
        /\ file' \in [Targets -> {"absent", "enabled", "disabled"}]
        /\ told' \in [Targets -> {"absent", "enabled", "disabled", "deleted"}]
    BY <2>1, <2>2, StoreTypes DEF Types
  <2> QED
    BY <2>2, <2>3 DEF Types, workVars
<1> QED
  BY <1>1, <1>2 DEF Stores

LEMMA HandlerWith ==
  ASSUME NEW q \in Requests, req \in [Requests -> HandlerRecord]
  PROVE  /\ \A pc \in {"idle", "resolve", "create", "create_fetch", "last_run", "enqueue"} :
              [req EXCEPT ![q].pc = pc] \in [Requests -> HandlerRecord]
         /\ \A r \in Runs, pc \in {"last_run", "enqueue"} :
              [req EXCEPT ![q].run = r, ![q].pc = pc] \in [Requests -> HandlerRecord]
         /\ \A record \in HandlerRecord : [req EXCEPT ![q] = record] \in [Requests -> HandlerRecord]
<1>1. req[q] \in HandlerRecord
  OBVIOUS
<1>2. \A pc \in {"idle", "resolve", "create", "create_fetch", "last_run", "enqueue"} :
        [req[q] EXCEPT !.pc = pc] \in HandlerRecord
  BY <1>1 DEF HandlerRecord
<1>3. \A r \in Runs, pc \in {"last_run", "enqueue"} :
        [req[q] EXCEPT !.run = r, !.pc = pc] \in HandlerRecord
  BY <1>1 DEF HandlerRecord
<1> QED
  BY <1>2, <1>3

(* The record a handler is accepted with. *)
Accepted(pc, kind, target, key, asked, svg) ==
  [pc |-> pc, kind |-> kind, target |-> target, key |-> key,
   asked |-> asked, svg |-> svg, run |-> Nothing]

(* What every submission does, and with which record. *)
Submits(q, pc, kind, target, key, asked, svg) ==
  /\ req[q].pc = "idle"
  /\ req' = [req EXCEPT ![q] = Accepted(pc, kind, target, key, asked, svg)]
  /\ pc = "create_fetch" => target \in Endpoints
  /\ key \in Keys => kind = "remote" /\ pc = "resolve" /\ RunsOfKey(key) = {}
  /\ raced' = IF key \in Keys /\ PastLookup(key) # {} THEN raced \union {key} ELSE raced
  /\ UNCHANGED <<run, wake, storeVars, workVars, crashes>>

LEMMA SubmissionsAre ==
  ASSUME NEW q \in Requests,
         \/ \E body \in ToolRequests : SubmitTool(q, body)
         \/ \E e \in Endpoints : SubmitFetch(q, e)
         \/ \E x \in Executors, k \in Keys \union {NoKey} : SubmitRemote(q, x, k)
  PROVE  \E pc \in {"create", "create_fetch", "resolve"}, kind \in Kinds,
            target \in Targets \union {Nothing}, key \in Keys \union {NoKey},
            asked \in Asked, svg \in BOOLEAN : Submits(q, pc, kind, target, key, asked, svg)
<1>0. <<>> \in Asked
  BY DEF Asked
<1>1. ASSUME NEW body \in ToolRequests, SubmitTool(q, body)
      PROVE  /\ req[q].pc = "idle"
             /\ req' = [req EXCEPT ![q] = Accepted("create", body.tool, body.target, NoKey,
                                                   body.asked, body.svg)]
             /\ body.tool \in Kinds /\ body.target \in Targets \union {Nothing}
             /\ body.asked \in Asked /\ body.svg \in BOOLEAN
             /\ UNCHANGED <<run, wake, storeVars, workVars, raced, crashes>>
  <2>1. body.tool \in Kinds
    BY <1>1 DEF SubmitTool, ValidToolRunRequest, Kinds
  <2>2. body.target \in Targets \union {Nothing} /\ body.svg \in BOOLEAN
    BY RequestsAreRequests
  <2>3. body.asked \in Asked
    BY DEF Asked
  <2> QED
    BY <1>1, <2>1, <2>2, <2>3 DEF SubmitTool, Accept, Accepted
<1>2. ASSUME NEW e \in Endpoints, SubmitFetch(q, e)
      PROVE  /\ req[q].pc = "idle"
             /\ req' = [req EXCEPT ![q] = Accepted("create_fetch", "fetch", e, NoKey, <<>>, FALSE)]
             /\ UNCHANGED <<run, wake, storeVars, workVars, raced, crashes>>
  BY <1>2 DEF SubmitFetch, Accept, Accepted
<1>3. ASSUME NEW x \in Executors, NEW k \in Keys \union {NoKey}, SubmitRemote(q, x, k)
      PROVE  /\ req[q].pc = "idle"
             /\ req' = [req EXCEPT ![q] = Accepted("resolve", "remote", x, k, <<>>, FALSE)]
             /\ RunsOfKey(k) = {}
             /\ raced' = IF k \in Keys /\ PastLookup(k) # {} THEN raced \union {k} ELSE raced
             /\ UNCHANGED <<run, wake, storeVars, workVars, crashes>>
  <2>1. k # NoKey <=> k \in Keys
    BY KeysAreKeys
  <2> QED
    BY <1>3, <2>1 DEF SubmitRemote, Accept, Accepted
<1>4. {"fetch", "remote"} \subseteq Kinds /\ NoKey \notin Keys /\ Targets = Endpoints \union Executors
  BY KeysAreKeys DEF Kinds, Tools, Targets
<1>5. ASSUME NEW body \in ToolRequests, SubmitTool(q, body)
      PROVE  Submits(q, "create", body.tool, body.target, NoKey, body.asked, body.svg)
  BY <1>1, <1>4, <1>5 DEF Submits
<1>6. ASSUME NEW e \in Endpoints, SubmitFetch(q, e)
      PROVE  Submits(q, "create_fetch", "fetch", e, NoKey, <<>>, FALSE)
  BY <1>2, <1>4, <1>6 DEF Submits
<1>7. ASSUME NEW x \in Executors, NEW k \in Keys \union {NoKey}, SubmitRemote(q, x, k)
      PROVE  Submits(q, "resolve", "remote", x, k, <<>>, FALSE)
  BY <1>3, <1>7 DEF Submits
<1>8. NoKey \in Keys \union {NoKey} /\ FALSE \in BOOLEAN
  OBVIOUS
<1> DEFINE Goal == \E pc \in {"create", "create_fetch", "resolve"}, kind \in Kinds,
                      target \in Targets \union {Nothing}, key \in Keys \union {NoKey},
                      asked \in Asked, svg \in BOOLEAN : Submits(q, pc, kind, target, key, asked, svg)
<1>9. ASSUME NEW body \in ToolRequests, SubmitTool(q, body) PROVE Goal
  <2>1. /\ "create" \in {"create", "create_fetch", "resolve"} /\ body.tool \in Kinds
        /\ body.target \in Targets \union {Nothing} /\ NoKey \in Keys \union {NoKey}
        /\ body.asked \in Asked /\ body.svg \in BOOLEAN
    BY <1>1, <1>8, <1>9
  <2> QED
    BY <1>5, <1>9, <2>1, Zenon
<1>10. ASSUME NEW e \in Endpoints, SubmitFetch(q, e) PROVE Goal
  <2>1. /\ "create_fetch" \in {"create", "create_fetch", "resolve"} /\ "fetch" \in Kinds
        /\ e \in Targets \union {Nothing}
    BY <1>4
  <2> QED
    BY <1>0, <1>6, <1>8, <1>10, <2>1, Zenon
<1>11. ASSUME NEW x \in Executors, NEW k \in Keys \union {NoKey}, SubmitRemote(q, x, k) PROVE Goal
  <2>1. /\ "resolve" \in {"create", "create_fetch", "resolve"} /\ "remote" \in Kinds
        /\ x \in Targets \union {Nothing}
    BY <1>4
  <2> QED
    BY <1>0, <1>7, <1>8, <1>11, <2>1, Zenon
<1> HIDE DEF Goal
<1>12. Goal
  BY <1>9, <1>10, <1>11
<1> QED
  BY <1>12 DEF Goal

LEMMA HandlersTypes ==
  Types /\ (\A q \in Requests : HandlerFits(q)) /\ Handlers => Types'
<1> SUFFICES ASSUME Types, \A q \in Requests : HandlerFits(q), NEW q \in Requests,
                    \/ \E body \in ToolRequests : SubmitTool(q, body)
                    \/ \E e \in Endpoints : SubmitFetch(q, e)
                    \/ \E x \in Executors, k \in Keys \union {NoKey} : SubmitRemote(q, x, k)
                    \/ ResolveRemote(q) \/ SetLastRun(q) \/ Enqueue(q) \/ DropRequest(q)
                    \/ \E r \in Runs : CreateRun(q, r)
             PROVE  Types'
  BY DEF Handlers
<1>0. req \in [Requests -> HandlerRecord]
  BY DEF Types
<1>1. CASE \/ \E body \in ToolRequests : SubmitTool(q, body)
           \/ \E e \in Endpoints : SubmitFetch(q, e)
           \/ \E x \in Executors, k \in Keys \union {NoKey} : SubmitRemote(q, x, k)
  <2>1. PICK pc \in {"create", "create_fetch", "resolve"}, kind \in Kinds,
             target \in Targets \union {Nothing}, key \in Keys \union {NoKey},
             asked \in Asked, svg \in BOOLEAN : Submits(q, pc, kind, target, key, asked, svg)
    BY <1>1, SubmissionsAre
  <2>0. /\ req' = [req EXCEPT ![q] = Accepted(pc, kind, target, key, asked, svg)]
        /\ raced' \subseteq raced \union (Keys \intersect {key})
        /\ UNCHANGED <<run, wake, storeVars, workVars, crashes>>
    BY <2>1 DEF Submits
  <2>2. Accepted(pc, kind, target, key, asked, svg) \in HandlerRecord
    BY DEF Accepted, HandlerRecord
  <2>3. req' \in [Requests -> HandlerRecord]
    BY <1>0, <2>0, <2>2, HandlerWith
  <2>4. raced' \subseteq Keys
    BY <2>0 DEF Types
  <2> QED
    BY <2>0, <2>3, <2>4 DEF Types, storeVars, workVars
<1>2. CASE ResolveRemote(q)
  <2>1. req' \in [Requests -> HandlerRecord]
    BY <1>0, <1>2, HandlerWith DEF ResolveRemote, Move
  <2> QED
    BY <1>2, <2>1 DEF ResolveRemote, Types, storeVars, workVars
<1>3. CASE SetLastRun(q)
  <2>1. req' \in [Requests -> HandlerRecord]
    BY <1>0, <1>3, HandlerWith DEF SetLastRun, Move
  <2>2. req[q].run \in Runs /\ req[q].target \in Endpoints
    BY <1>3 DEF SetLastRun, HandlerFits
  <2>3. lastRun' = lastRun \/ lastRun' = [lastRun EXCEPT ![req[q].target] = req[q].run]
    BY <1>3 DEF SetLastRun
  <2>4. lastRun' \in [Endpoints -> Runs \union {Nothing}]
    BY <2>2, <2>3 DEF Types
  <2> QED
    BY <1>3, <2>1, <2>4 DEF SetLastRun, Types, workVars
<1>4. CASE Enqueue(q)
  <2>1. req' \in [Requests -> HandlerRecord]
    BY <1>0, <1>4, NoRecords, HandlerWith DEF Enqueue
  <2>2. wake' \subseteq Runs
    BY <1>4 DEF Enqueue, HandlerFits, Types
  <2> QED
    BY <1>4, <2>1, <2>2 DEF Enqueue, Types, storeVars, workVars
<1>5. CASE DropRequest(q)
  <2>1. req' \in [Requests -> HandlerRecord]
    BY <1>0, <1>5, NoRecords, HandlerWith DEF DropRequest
  <2> QED
    BY <1>5, <2>1 DEF DropRequest, Types, storeVars, workVars
<1>6. ASSUME NEW r \in Runs, CreateRun(q, r) PROVE Types'
  <2>1. req' \in [Requests -> HandlerRecord]
    BY <1>0, <1>6, HandlerWith DEF CreateRun
  <2>2. req[q] \in HandlerRecord
    BY <1>0
  <2>3. [status |-> "QUEUED", kind |-> req[q].kind, target |-> req[q].target, key |-> req[q].key,
         asked |-> req[q].asked, svg |-> req[q].svg, attempts |-> 0] \in RunRecord
    BY <2>2 DEF HandlerRecord, RunRecord
  <2>4. run' \in [Runs -> RunRecord]
    BY <1>6, <2>3 DEF CreateRun, Types
  <2> QED
    BY <1>6, <2>1, <2>4 DEF CreateRun, Types, storeVars, workVars
<1> QED
  BY <1>1, <1>2, <1>3, <1>4, <1>5, <1>6

LEMMA OutcomesAre ==
  /\ Outcomes = {"OK", "FAILED", "TIMED_OUT"}
  /\ \A kind, done : Verdict(kind, done) \in Outcomes
<1>1. \A outcomes : CombinedStatus(outcomes) \in Outcomes
  BY Zenon DEF CombinedStatus, Outcomes
<1>2. {"OK", "FAILED"} \subseteq Outcomes
  BY DEF Outcomes
<1>3. ASSUME NEW kind, NEW done PROVE Verdict(kind, done) \in Outcomes
  <2>1. CASE kind = "pprof"
    BY <1>1, <2>1, Zenon DEF Verdict
  <2>2. CASE kind = "huawei"
    BY <1>2, <2>2, Zenon DEF Verdict
  <2>3. CASE kind # "pprof" /\ kind # "huawei"
    BY <1>1, <2>3, Zenon DEF Verdict
  <2> QED
    BY <2>1, <2>2, <2>3
<1> QED
  BY <1>3 DEF Outcomes

(* The next step of an execution is one of its plan. *)
LEMMA NextStepIs ==
  ASSUME NEW r \in Runs, job[r] \in JobRecord, HasStep(r)
  PROVE  /\ Len(job[r].done) + 1 \in 1 .. Len(job[r].plan)
         /\ NextStep(r) \in Steps
         /\ NextStep(r) = job[r].plan[Len(job[r].done) + 1]
<1>1. job[r].plan \in Seq(Steps) /\ job[r].done \in Seq(Outcomes)
  BY DEF JobRecord
<1>2. Len(job[r].done) + 1 \in 1 .. Len(job[r].plan)
  BY <1>1 DEF HasStep
<1> QED
  BY <1>1, <1>2 DEF NextStep

LEMMA SavedIs ==
  ASSUME NEW r \in Runs, saved \in [Runs -> Results]
  PROVE  /\ saved[r] \in [DOMAIN saved[r] -> Outcomes] /\ DOMAIN saved[r] \subseteq Steps
         /\ \A s \in Steps, outcome \in Outcomes : WithResult(saved[r], s, outcome) \in Results
<1>1. PICK inputs \in SUBSET Steps : saved[r] \in [inputs -> Outcomes]
  BY DEF Results
<1>2. ASSUME NEW s \in Steps, NEW outcome \in Outcomes
      PROVE  WithResult(saved[r], s, outcome) \in Results
  <2>1. WithResult(saved[r], s, outcome) \in [inputs \union {s} -> Outcomes]
    BY <1>1 DEF WithResult
  <2>2. inputs \union {s} \in SUBSET Steps
    OBVIOUS
  <2> QED
    BY <2>1, <2>2 DEF Results
<1> QED
  BY <1>1, <1>2

LEMMA ExecutionTypes ==
  Types /\ (\A r \in Runs : RunFits(r)) /\ Execution => Types'
<1> SUFFICES ASSUME Types, \A r \in Runs : RunFits(r), NEW r \in Runs,
                    \/ Begin(r) \/ Start(r) \/ ReuseResult(r) \/ SaveInput(r) \/ WriteResult(r)
                    \/ WriteFails(r) \/ Finish(r)
                    \/ \E outcome \in Outcomes : RunStep(r, outcome)
                    \/ \E answer \in {"final", "redirect", "error"} : FetchStep(r, answer)
             PROVE  Types'
  BY DEF Execution
<1>0. /\ run \in [Runs -> RunRecord] /\ job \in [Runs -> JobRecord] /\ saved \in [Runs -> Results]
      /\ effects \in [Runs -> [Steps -> Nat]] /\ okSteps \in [Runs -> SUBSET Steps]
      /\ result \in [Runs -> Outcomes \union {"none", "torn"}]
      /\ run[r] \in RunRecord /\ job[r] \in JobRecord
  BY DEF Types
<1>1. CASE Begin(r)
  <2>1. [run[r] EXCEPT !.status = "RUNNING", !.attempts = @ + 1] \in RunRecord
    <3>1. run[r].attempts + 1 \in Nat
      BY <1>0 DEF RunRecord
    <3> QED
      BY <1>0, <3>1 DEF RunRecord
  <2>2. run' \in [Runs -> RunRecord]
    BY <1>0, <1>1, <2>1 DEF Begin
  <2>3. [NoJob EXCEPT !.pc = "start"] \in JobRecord
    <3>1. [pc |-> "start", plan |-> <<>>, done |-> <<>>, seen |-> "absent"] \in JobRecord
      BY DEF JobRecord
    <3> QED
      BY <3>1, NoJobWith
  <2>4. job' \in [Runs -> JobRecord]
    BY <1>0, <1>1, <2>3, JobWith DEF Begin
  <2>5. okSteps' \in [Runs -> SUBSET Steps] /\ wake' \subseteq Runs
    BY <1>0, <1>1 DEF Begin, Types
  <2> QED
    BY <1>1, <2>2, <2>4, <2>5 DEF Begin, Types, storeVars
<1>2. CASE Start(r)
  <2>0. run[r].kind \in Kinds
    BY <1>2 DEF Start, RunFits, AttemptsFit
  <2>1. PICK plan \in Plans(r), good \in BOOLEAN :
          job' = [job EXCEPT ![r] =
                 [pc |-> IF good /\ Startable(r) /\ (run[r].kind = "configured" => plan # <<>>)
                         THEN "steps" ELSE "failing",
                  plan |-> plan, done |-> <<>>,
                  seen |-> IF run[r].target \in Targets THEN memory[run[r].target] ELSE "enabled"]]
    BY <1>2 DEF Start
  <2>2. plan \in Seq(Steps)
    BY <1>0, <2>0, PlansAre
  <2>3. (IF run[r].target \in Targets THEN memory[run[r].target] ELSE "enabled")
          \in {"absent", "enabled", "disabled"}
    BY DEF Types
  <2>4. \A seen \in {"absent", "enabled", "disabled"}, pc \in {"steps", "failing"} :
          [pc |-> pc, plan |-> plan, done |-> <<>>, seen |-> seen] \in JobRecord
    BY <2>2 DEF JobRecord
  <2>5. job' \in [Runs -> JobRecord]
    BY <1>0, <2>1, <2>3, <2>4, JobWith
  <2> QED
    BY <1>2, <2>5 DEF Start, Types, storeVars
<1>3. CASE ReuseResult(r)
  <2>1. NextStep(r) \in Steps
    BY <1>0, <1>3, NextStepIs DEF ReuseResult
  <2>2. saved[r][NextStep(r)] \in Outcomes
    BY <1>0, <1>3, SavedIs DEF ReuseResult, Reusable
  <2>3. job' \in [Runs -> JobRecord]
    BY <1>0, <1>3, <2>2, JobWith DEF ReuseResult
  <2>4. okSteps' \in [Runs -> SUBSET Steps]
    BY <1>0, <1>3, <2>1 DEF ReuseResult
  <2> QED
    BY <1>3, <2>3, <2>4 DEF ReuseResult, Types, storeVars
<1>4. CASE SaveInput(r)
  <2>1. job[r].plan[Len(job[r].done)] \in Steps /\ job[r].done[Len(job[r].done)] \in Outcomes
    <3>1. RunFits(r)
      OBVIOUS
    <3>2. Len(job[r].done) >= 1 /\ Len(job[r].done) <= Len(job[r].plan)
      BY <1>4, <3>1 DEF SaveInput, RunFits, ResultFits, PlanFits
    <3>3. job[r].plan \in Seq(Steps) /\ job[r].done \in Seq(Outcomes)
      BY <1>0 DEF JobRecord
    <3> QED
      BY <3>2, <3>3
  <2>2. saved' \in [Runs -> Results]
    <3>1. WithResult(saved[r], job[r].plan[Len(job[r].done)], job[r].done[Len(job[r].done)]) \in Results
      BY <1>0, <2>1, SavedIs
    <3> QED
      BY <1>0, <1>4, <3>1 DEF SaveInput
  <2>3. job' \in [Runs -> JobRecord]
    BY <1>0, <1>4, JobWith DEF SaveInput
  <2> QED
    BY <1>4, <2>2, <2>3 DEF SaveInput, Types, storeVars
<1>5. CASE WriteResult(r)
  <2>1. job' \in [Runs -> JobRecord]
    BY <1>0, <1>5, JobWith DEF WriteResult
  <2>2. result' \in [Runs -> Outcomes \union {"none", "torn"}]
    BY <1>0, <1>5, OutcomesAre DEF WriteResult
  <2> QED
    BY <1>5, <2>1, <2>2 DEF WriteResult, Types, storeVars
<1>6. CASE WriteFails(r)
  <2>1. job' \in [Runs -> JobRecord]
    BY <1>0, <1>6, JobWith DEF WriteFails
  <2> QED
    BY <1>6, <2>1 DEF WriteFails, Types, storeVars
<1>7. CASE Finish(r)
  <2>1. job' \in [Runs -> JobRecord]
    <3>1. CASE job' = [job EXCEPT ![r].pc = "idle"]
      BY <1>0, <3>1, JobWith
    <3>2. CASE job' = [job EXCEPT ![r].pc = "failing"]
      BY <1>0, <3>2, JobWith
    <3> QED
      BY <1>7, <3>1, <3>2 DEF Finish
  <2>2. \A status \in {"SUCCEEDED", "FAILED"} : [run[r] EXCEPT !.status = status] \in RunRecord
    BY <1>0 DEF RunRecord
  <2>3. run' \in [Runs -> RunRecord]
    BY <1>0, <1>7, <2>2 DEF Finish
  <2> QED
    BY <1>7, <2>1, <2>3 DEF Finish, Types, storeVars
<1>8. ASSUME NEW outcome \in Outcomes, RunStep(r, outcome) PROVE Types'
  <2>1. NextStep(r) \in Steps
    BY <1>0, <1>8, NextStepIs DEF RunStep
  <2>2. job' \in [Runs -> JobRecord]
    BY <1>0, <1>8, JobWith DEF RunStep
  <2>3. okSteps' \in [Runs -> SUBSET Steps]
    BY <1>0, <1>8, <2>1 DEF RunStep
  <2>4. effects' \in [Runs -> [Steps -> Nat]]
    <3>1. effects' = [effects EXCEPT ![r][NextStep(r)] = @ + 1]
      BY <1>8 DEF RunStep
    <3>2. effects[r][NextStep(r)] + 1 \in Nat
      BY <1>0, <2>1
    <3> QED
      BY <1>0, <2>1, <3>1, <3>2
  <2> QED
    BY <1>8, <2>2, <2>3, <2>4 DEF RunStep, Types, storeVars
<1>9. ASSUME NEW answer \in {"final", "redirect", "error"}, FetchStep(r, answer) PROVE Types'
  <2>1. "request" \in Steps
    BY CommandsAreSteps
  <2>2. job' \in [Runs -> JobRecord]
    <3>1. /\ Append(job[r].done, "OK") \in Seq(Outcomes)
          /\ Append(job[r].plan, "request") \in Seq(Steps)
      BY <1>0, <2>1, OutcomesAre DEF JobRecord
    <3>2. [job[r] EXCEPT !.done = Append(@, "OK"), !.plan = Append(@, "request")] \in JobRecord
      BY <1>0, <3>1 DEF JobRecord
    <3>3. CASE job' = [job EXCEPT ![r].done = Append(@, "OK"), ![r].plan = Append(@, "request")]
      BY <1>0, <3>2, <3>3
    <3>4. CASE job' = [job EXCEPT ![r].done = Append(@, "OK")]
      BY <1>0, <3>4, JobWith, OutcomesAre
    <3>5. CASE job' = [job EXCEPT ![r].pc = "failing"]
      BY <1>0, <3>5, JobWith
    <3> QED
      BY <1>9, <3>3, <3>4, <3>5 DEF FetchStep
  <2>3. okSteps' \in [Runs -> SUBSET Steps]
    <3>1. okSteps' = okSteps \/ okSteps' = [okSteps EXCEPT ![r] = {"request"}]
      BY <1>9 DEF FetchStep
    <3> QED
      BY <1>0, <2>1, <3>1
  <2>4. effects' \in [Runs -> [Steps -> Nat]]
    <3>1. effects' = [effects EXCEPT ![r]["request"] = @ + 1]
      BY <1>9 DEF FetchStep
    <3>2. effects[r]["request"] + 1 \in Nat
      BY <1>0, <2>1
    <3> QED
      BY <1>0, <2>1, <3>1, <3>2
  <2> QED
    BY <1>9, <2>2, <2>3, <2>4 DEF FetchStep, Types, storeVars
<1> QED
  BY <1>1, <1>2, <1>3, <1>4, <1>5, <1>6, <1>7, <1>8, <1>9

LEMMA RestartTypes == Types /\ Restart => Types'
<1> SUFFICES ASSUME Types, Restart PROVE Types'
  OBVIOUS
<1>1. req' \in [Requests -> HandlerRecord] /\ job' \in [Runs -> JobRecord]
  BY NoRecords DEF Restart
<1>2. run' \in [Runs -> RunRecord]
  <2>1. \A r \in Runs : run[r] \in RunRecord
    BY DEF Types
  <2>2. \A r \in Runs : [run[r] EXCEPT !.status = "QUEUED"] \in RunRecord
    BY <2>1 DEF RunRecord
  <2> QED
    BY <2>1, <2>2 DEF Restart
<1>3. crashes' \in 0 .. MaxCrashes /\ wake' \subseteq Runs
  BY BoundsAreNatural DEF Restart, Types
<1> QED
  BY <1>1, <1>2, <1>3 DEF Restart, Types

-----------------------------------------------------------------------------
(* Handlers and keys *)

(* What the creation of a record changes, field by field. *)
LEMMA CreateRunIs ==
  ASSUME Types, NEW q \in Requests, NEW r \in Runs, CreateRun(q, r)
  PROVE  /\ req'[q].pc = IF req[q].pc = "create" THEN "enqueue" ELSE "last_run"
         /\ req'[q].run = r /\ req'[q].kind = req[q].kind
         /\ req'[q].target = req[q].target /\ req'[q].key = req[q].key
         /\ \A other \in Requests : other # q => req'[other] = req[other]
         /\ run'[r] = [status |-> "QUEUED", kind |-> req[q].kind, target |-> req[q].target,
                       key |-> req[q].key, asked |-> req[q].asked, svg |-> req[q].svg, attempts |-> 0]
         /\ \A other \in Runs : other # r => run'[other] = run[other]
<1>1. req \in [Requests -> HandlerRecord] /\ req[q] \in HandlerRecord /\ run \in [Runs -> RunRecord]
  BY DEF Types
<1>2. req' = [req EXCEPT ![q] = [req[q] EXCEPT !.run = r,
                                   !.pc = IF req[q].pc = "create" THEN "enqueue" ELSE "last_run"]]
  BY <1>1 DEF CreateRun
<1>3. req'[q] = [req[q] EXCEPT !.run = r,
                               !.pc = IF req[q].pc = "create" THEN "enqueue" ELSE "last_run"]
  BY <1>1, <1>2
<1>4. /\ req'[q].pc = IF req[q].pc = "create" THEN "enqueue" ELSE "last_run"
      /\ req'[q].run = r /\ req'[q].kind = req[q].kind
      /\ req'[q].target = req[q].target /\ req'[q].key = req[q].key
  BY <1>1, <1>3 DEF HandlerRecord
<1>5. \A other \in Requests : other # q => req'[other] = req[other]
  BY <1>1, <1>2
<1>6. /\ run'[r] = [status |-> "QUEUED", kind |-> req[q].kind, target |-> req[q].target,
                    key |-> req[q].key, asked |-> req[q].asked, svg |-> req[q].svg, attempts |-> 0]
      /\ \A other \in Runs : other # r => run'[other] = run[other]
  BY <1>1 DEF CreateRun
<1> QED
  BY <1>4, <1>5, <1>6

(* An execution leaves requests and stores alone, and only its beginning and
   its end change a run's record. *)
LEMMA ExecutionLeaves ==
  ASSUME Execution
  PROVE  /\ UNCHANGED <<req, raced, memory, file, told, stuck>>
         /\ \E r \in Runs : run' = run \/ Begin(r) \/ Finish(r)
<1>1. ASSUME NEW r \in Runs, Begin(r)
      PROVE  UNCHANGED <<req, raced, memory, file, told, stuck>>
  BY <1>1 DEF Begin, storeVars
<1>2. ASSUME NEW r \in Runs, Start(r)
      PROVE  UNCHANGED <<req, raced, run, memory, file, told, stuck>>
  BY <1>2 DEF Start, storeVars
<1>3. ASSUME NEW r \in Runs, ReuseResult(r)
      PROVE  UNCHANGED <<req, raced, run, memory, file, told, stuck>>
  BY <1>3 DEF ReuseResult, storeVars
<1>4. ASSUME NEW r \in Runs, SaveInput(r)
      PROVE  UNCHANGED <<req, raced, run, memory, file, told, stuck>>
  BY <1>4 DEF SaveInput, storeVars
<1>5. ASSUME NEW r \in Runs, WriteResult(r)
      PROVE  UNCHANGED <<req, raced, run, memory, file, told, stuck>>
  BY <1>5 DEF WriteResult, storeVars
<1>6. ASSUME NEW r \in Runs, WriteFails(r)
      PROVE  UNCHANGED <<req, raced, run, memory, file, told, stuck>>
  BY <1>6 DEF WriteFails, storeVars
<1>7. ASSUME NEW r \in Runs, Finish(r)
      PROVE  UNCHANGED <<req, raced, memory, file, told, stuck>>
  BY <1>7 DEF Finish, storeVars
<1>8. ASSUME NEW r \in Runs, \E outcome \in Outcomes : RunStep(r, outcome)
      PROVE  UNCHANGED <<req, raced, run, memory, file, told, stuck>>
  BY <1>8 DEF RunStep, storeVars
<1>9. ASSUME NEW r \in Runs, \E answer \in {"final", "redirect", "error"} : FetchStep(r, answer)
      PROVE  UNCHANGED <<req, raced, run, memory, file, told, stuck>>
  BY <1>9 DEF FetchStep, storeVars
<1> QED
  BY <1>1, <1>2, <1>3, <1>4, <1>5, <1>6, <1>7, <1>8, <1>9 DEF Execution

LEMMA HandlersFit ==
  ASSUME Types, \A q \in Requests : HandlerFits(q), Next
  PROVE  \A q \in Requests : HandlerFits(q)'
<1>0. req \in [Requests -> HandlerRecord] /\ NoKey \notin Keys
  BY KeysAreKeys DEF Types
<1>1. ASSUME req' = req PROVE \A q \in Requests : HandlerFits(q)'
  BY <1>1 DEF HandlerFits
<1>2. CASE Stores
  BY <1>1, <1>2 DEF Stores, CreateTarget, PatchTarget, DeleteEndpoint
<1>3. CASE Execution
  BY <1>1, <1>3, ExecutionLeaves
<1>4. CASE Restart
  BY <1>0, <1>4 DEF Restart, HandlerFits, NoRequest
<1>5. CASE Handlers
  <2> SUFFICES ASSUME NEW q \in Requests,
                      \/ \E body \in ToolRequests : SubmitTool(q, body)
                      \/ \E e \in Endpoints : SubmitFetch(q, e)
                      \/ \E x \in Executors, k \in Keys \union {NoKey} : SubmitRemote(q, x, k)
                      \/ ResolveRemote(q) \/ SetLastRun(q) \/ Enqueue(q) \/ DropRequest(q)
                      \/ \E r \in Runs : CreateRun(q, r),
                      NEW other \in Requests
               PROVE  HandlerFits(other)'
    BY <1>5 DEF Handlers
  <2>0. HandlerFits(other) /\ HandlerFits(q) /\ req[q] \in HandlerRecord
    BY <1>0
  <2>1. CASE \/ \E body \in ToolRequests : SubmitTool(q, body)
             \/ \E e \in Endpoints : SubmitFetch(q, e)
             \/ \E x \in Executors, k \in Keys \union {NoKey} : SubmitRemote(q, x, k)
    <3>1. PICK pc \in {"create", "create_fetch", "resolve"}, kind \in Kinds,
               target \in Targets \union {Nothing}, key \in Keys \union {NoKey},
               asked \in Asked, svg \in BOOLEAN : Submits(q, pc, kind, target, key, asked, svg)
      BY <2>1, SubmissionsAre
    <3>2. req'[other] = IF other = q THEN Accepted(pc, kind, target, key, asked, svg) ELSE req[other]
      BY <1>0, <3>1 DEF Submits
    <3>3. CASE other = q
      BY <3>1, <3>2, <3>3 DEF Submits, Accepted, HandlerFits
    <3>4. CASE other # q
      BY <2>0, <3>2, <3>4 DEF HandlerFits
    <3> QED
      BY <3>3, <3>4
  <2>2. CASE ResolveRemote(q)
    BY <1>0, <2>0, <2>2 DEF ResolveRemote, Move, HandlerFits
  <2>3. CASE SetLastRun(q)
    BY <1>0, <2>0, <2>3 DEF SetLastRun, Move, HandlerFits
  <2>4. CASE Enqueue(q) \/ DropRequest(q)
    BY <1>0, <2>0, <2>4 DEF Enqueue, DropRequest, NoRequest, HandlerFits
  <2>5. ASSUME NEW r \in Runs, CreateRun(q, r) PROVE HandlerFits(other)'
    <3>1. req[q].pc \in {"create", "create_fetch"}
      BY <2>5 DEF CreateRun
    <3>2. CASE other = q
      BY <2>0, <2>5, <3>1, <3>2, CreateRunIs DEF HandlerFits
    <3>3. CASE other # q
      BY <2>0, <2>5, <3>3, CreateRunIs DEF HandlerFits
    <3> QED
      BY <3>2, <3>3
  <2> QED
    BY <2>1, <2>2, <2>3, <2>4, <2>5
<1> QED
  BY <1>2, <1>3, <1>4, <1>5 DEF Next

(* Keys stay as they are when no handler passes its look-up and no record is new. *)
LEMMA KeysKept ==
  ASSUME NEW k \in Keys \ raced, KeyFits(k),
         \A q \in Requests : q \in PastLookup(k)' => q \in PastLookup(k),
         \A r \in Runs : run'[r].key = run[r].key
  PROVE  KeyFits(k)'
<1>1. PastLookup(k)' \subseteq PastLookup(k)
  BY DEF PastLookup
<1> QED
  BY <1>1 DEF KeyFits

LEMMA KeysFit ==
  ASSUME Types, \A q \in Requests : HandlerFits(q), \A r \in Runs : RunFits(r),
         \A k \in Keys \ raced : KeyFits(k), Next
  PROVE  (\A k \in Keys \ raced : KeyFits(k))'
<1>0. /\ req \in [Requests -> HandlerRecord] /\ run \in [Runs -> RunRecord] /\ NoKey \notin Keys
      /\ \A r \in Runs : run[r] \in RunRecord
  BY KeysAreKeys DEF Types
<1>1. CASE Stores
  <2>1. UNCHANGED <<req, run, raced>>
    BY <1>1 DEF Stores, CreateTarget, PatchTarget, DeleteEndpoint
  <2> QED
    BY <2>1, KeysKept DEF PastLookup
<1>2. CASE Execution
  <2>1. UNCHANGED <<req, raced>>
    BY <1>2, ExecutionLeaves
  <2>2. \A r \in Runs : run'[r].key = run[r].key
    <3> SUFFICES ASSUME NEW r \in Runs,
                        run' = run \/ Begin(r) \/ Finish(r)
                 PROVE  \A other \in Runs : run'[other].key = run[other].key
      BY <1>2, ExecutionLeaves
    <3>1. CASE Begin(r)
      BY <1>0, <3>1 DEF Begin, RunRecord
    <3>2. CASE Finish(r)
      BY <1>0, <3>2 DEF Finish, RunRecord
    <3> QED
      BY <3>1, <3>2
  <2> QED
    BY <2>1, <2>2, KeysKept DEF PastLookup
<1>3. CASE Restart
  <2>1. raced' = raced /\ \A k : PastLookup(k)' = {}
    BY <1>3 DEF Restart, PastLookup, NoRequest
  <2>2. \A r \in Runs : run'[r].key = run[r].key
    BY <1>0, <1>3 DEF Restart, RunRecord
  <2> QED
    BY <2>1, <2>2, KeysKept
<1>4. CASE Handlers
  <2> SUFFICES ASSUME NEW q \in Requests,
                      \/ \E body \in ToolRequests : SubmitTool(q, body)
                      \/ \E e \in Endpoints : SubmitFetch(q, e)
                      \/ \E x \in Executors, k \in Keys \union {NoKey} : SubmitRemote(q, x, k)
                      \/ ResolveRemote(q) \/ SetLastRun(q) \/ Enqueue(q) \/ DropRequest(q)
                      \/ \E r \in Runs : CreateRun(q, r),
                      NEW k \in Keys, k \notin raced'
               PROVE  KeyFits(k)'
    BY <1>4 DEF Handlers
  <2>0. HandlerFits(q) /\ req[q] \in HandlerRecord
    BY <1>0
  <2>1. CASE \/ \E body \in ToolRequests : SubmitTool(q, body)
             \/ \E e \in Endpoints : SubmitFetch(q, e)
             \/ \E x \in Executors, key \in Keys \union {NoKey} : SubmitRemote(q, x, key)
    <3>1. PICK pc \in {"create", "create_fetch", "resolve"}, kind \in Kinds,
               target \in Targets \union {Nothing}, key \in Keys \union {NoKey},
               asked \in Asked, svg \in BOOLEAN : Submits(q, pc, kind, target, key, asked, svg)
      BY <2>1, SubmissionsAre
    <3>2. \A other \in Requests :
            req'[other] = IF other = q THEN Accepted(pc, kind, target, key, asked, svg) ELSE req[other]
      BY <1>0, <3>1 DEF Submits
    <3>3. run' = run /\ raced \subseteq raced'
      BY <3>1 DEF Submits
    <3>4. KeyFits(k)
      BY <3>3
    <3>5. CASE key # k
      <4>1. \A other \in Requests : other \in PastLookup(k)' => other \in PastLookup(k)
        BY <3>2, <3>5 DEF PastLookup, Accepted
      <4> QED
        BY <3>3, <3>4, <4>1, KeysKept
    <3>6. CASE key = k
      <4>1. PastLookup(k) = {} /\ RunsOfKey(k) = {}
        BY <3>1, <3>6 DEF Submits
      <4>2. \A other \in Requests : other \in PastLookup(k)' => other = q
        BY <3>2, <4>1 DEF PastLookup
      <4>3. \A r \in Runs : run[r].key # k
        <5>1. \A r \in Runs : run[r].key = k => run[r].kind = "remote"
          BY DEF RunFits, AttemptsFit
        <5> QED
          BY <1>0, <4>1, <5>1 DEF RunsOfKey
      <4>4. \A a, b \in PastLookup(k)' : a = b
        BY <4>2 DEF PastLookup
      <4> QED
        BY <3>3, <4>3, <4>4 DEF KeyFits
    <3> QED
      BY <3>5, <3>6
  <2>2. CASE ResolveRemote(q) \/ SetLastRun(q) \/ Enqueue(q) \/ DropRequest(q)
    <3>1. UNCHANGED <<run, raced>>
      BY <2>2 DEF ResolveRemote, SetLastRun, Enqueue, DropRequest
    <3>2. \A other \in Requests : other \in PastLookup(k)' => other \in PastLookup(k)
      <4>1. CASE ResolveRemote(q)
        BY <1>0, <2>0, <4>1 DEF ResolveRemote, Move, PastLookup
      <4>2. CASE SetLastRun(q)
        BY <1>0, <2>0, <4>2 DEF SetLastRun, Move, PastLookup
      <4>3. CASE Enqueue(q) \/ DropRequest(q)
        BY <1>0, <2>0, <4>3 DEF Enqueue, DropRequest, NoRequest, PastLookup
      <4> QED
        BY <2>2, <4>1, <4>2, <4>3
    <3> QED
      BY <3>1, <3>2, KeysKept
  <2>3. ASSUME NEW r \in Runs, CreateRun(q, r) PROVE KeyFits(k)'
    <3>1. /\ raced' = raced /\ KeyFits(k)
          /\ \A other \in Runs : run'[other].key = IF other = r THEN req[q].key ELSE run[other].key
      BY <1>0, <2>3, CreateRunIs DEF CreateRun
    <3>2. PastLookup(k)' = PastLookup(k) \ {q}
      <4>1. /\ req'[q].pc \notin {"resolve", "create"}
            /\ \A other \in Requests : other # q => req'[other] = req[other]
        BY <2>3, CreateRunIs
      <4> QED
        BY <4>1 DEF PastLookup
    <3>3. CASE req[q].key = k
      <4>1. q \in PastLookup(k)
        BY <2>0, <2>3, <3>3 DEF CreateRun, PastLookup, HandlerFits
      <4>2. PastLookup(k)' = {} /\ \A other \in Runs : run[other].key # k
        BY <3>1, <3>2, <4>1 DEF KeyFits
      <4> QED
        BY <3>1, <4>2 DEF KeyFits
    <3>4. CASE req[q].key # k
      <4>1. run[r].key = k \/ run[r].key # k
        OBVIOUS
      <4>2. \A other \in Runs : run'[other].key = k => run[other].key = k
        BY <3>1, <3>4
      <4> QED
        BY <3>1, <3>2, <4>2 DEF KeyFits
    <3> QED
      BY <3>3, <3>4
  <2> QED
    BY <2>1, <2>2, <2>3
<1> QED
  BY <1>1, <1>2, <1>3, <1>4 DEF Next

-----------------------------------------------------------------------------
(* Runs and their executions *)

LEMMA Times ==
  ASSUME NEW a \in Nat, NEW c \in Nat
  PROVE  /\ a * c \in Nat /\ (a + 1) * c = a * c + c
         /\ a >= 1 => a - 1 \in Nat /\ a * c = (a - 1) * c + c
OBVIOUS

LEMMA CapIs == \A s \in Steps : Cap(s) \in Nat /\ Cap(s) >= 1
BY BoundsAreNatural DEF Cap

(* A record as the invariant reads it. *)
LEMMA RecordsAre ==
  ASSUME Types, NEW r \in Runs
  PROVE  /\ run[r] \in RunRecord /\ job[r] \in JobRecord
         /\ run[r].attempts \in Nat /\ crashes \in Nat
         /\ job[r].plan \in Seq(Steps) /\ job[r].done \in Seq(Outcomes)
         /\ Len(job[r].plan) \in Nat /\ Len(job[r].done) \in Nat
         /\ effects[r] \in [Steps -> Nat] /\ okSteps[r] \subseteq Steps
<1>1. run[r] \in RunRecord /\ job[r] \in JobRecord
  BY DEF Types
<1>2. run[r].attempts \in Nat
  BY <1>1 DEF RunRecord
<1>3. job[r].plan \in Seq(Steps) /\ job[r].done \in Seq(Outcomes)
  BY <1>1 DEF JobRecord
<1>4. effects[r] \in [Steps -> Nat] /\ okSteps[r] \subseteq Steps /\ crashes \in Nat
  BY DEF Types
<1> QED
  BY <1>1, <1>2, <1>3, <1>4

LEMMA SpentIs ==
  ASSUME Types, NEW r \in Runs, PlanFits(r), NEW s \in Steps
  PROVE  Spent(r, s) \in Nat /\ Spent(r, s) <= Cap(s)
<1>1. Len(job[r].plan) \in Nat /\ Len(job[r].done) \in Nat /\ MaxRedirects \in Nat
  BY RecordsAre, BoundsAreNatural
<1>2. CASE s = "request" /\ run[r].kind = "fetch"
  <2>1. Len(job[r].done) <= MaxRedirects + 1
    BY <1>1, <1>2 DEF PlanFits
  <2> QED
    BY <1>1, <1>2, <2>1 DEF Spent, Cap
<1>3. CASE s = "request" /\ run[r].kind # "fetch"
  BY <1>1, <1>3 DEF Spent, Cap
<1>4. CASE s # "request"
  BY <1>4 DEF Spent, Cap
<1> QED
  BY <1>2, <1>3, <1>4

LEMMA RunKept ==
  ASSUME Types, NEW r \in Runs, RunFits(r),
         run'[r] = run[r], job'[r] = job[r], saved'[r] = saved[r], result'[r] = result[r],
         effects'[r] = effects[r], okSteps'[r] = okSteps[r], crashes' = crashes
  PROVE  RunFits(r)'
<1>1. HasStep(r)' = HasStep(r)
  BY DEF HasStep, Stopped
<1>2. AttemptsFit(r)' /\ PlanFits(r)' /\ DoneFits(r)'
  <2>1. AttemptsFit(r)'
    BY DEF RunFits, AttemptsFit
  <2>2. PlanFits(r)'
    BY DEF RunFits, PlanFits
  <2>3. DoneFits(r)'
    BY DEF RunFits, DoneFits
  <2> QED
    BY <2>1, <2>2, <2>3
<1>3. ResultFits(r)'
  BY <1>1 DEF RunFits, ResultFits
<1>4. EffectsFit(r)'
  BY DEF RunFits, EffectsFit, Spent
<1> QED
  BY <1>2, <1>3, <1>4 DEF RunFits

LEMMA BeginFits ==
  ASSUME Types, NEW r \in Runs, RunFits(r), Begin(r)
  PROVE  RunFits(r)'
<1>0. /\ run[r] \in RunRecord /\ run[r].attempts \in Nat /\ crashes \in Nat
      /\ effects[r] \in [Steps -> Nat]
  BY RecordsAre
<1>1. run'[r] = [run[r] EXCEPT !.status = "RUNNING", !.attempts = @ + 1]
  BY DEF Begin, Types
<1>2. /\ run'[r].status = "RUNNING" /\ run'[r].attempts = run[r].attempts + 1
      /\ run'[r].kind = run[r].kind /\ run'[r].key = run[r].key
  BY <1>0, <1>1 DEF RunRecord
<1>3. /\ job'[r].pc = "start" /\ job'[r].plan = <<>> /\ job'[r].done = <<>>
      /\ UNCHANGED <<effects, crashes>>
  BY NoJobWith DEF Begin, Types
<1>4. AttemptsFit(r)'
  BY <1>0, <1>2, <1>3 DEF Begin, RunFits, AttemptsFit
<1>5. Len(<<>>) = 0 /\ 1 .. 0 = {} /\ Range(<<>>) = {} /\ NoneTwice(<<>>)
  BY DEF Range, NoneTwice
<1>6. PlanFits(r)'
  BY <1>3, <1>5, BoundsAreNatural DEF PlanFits
<1>7. DoneFits(r)'
  BY <1>3, <1>5 DEF DoneFits
<1>8. ResultFits(r)'
  BY <1>2, <1>3 DEF ResultFits
<1>9. EffectsFit(r)'
  <2> SUFFICES ASSUME NEW s \in Steps
               PROVE  effects'[r][s] <= (run'[r].attempts - 1) * Cap(s) + Spent(r, s)'
    BY <1>3 DEF EffectsFit
  <2>1. Spent(r, s)' = 0
    BY <1>3, <1>5 DEF Spent
  <2>2. effects[r][s] <= run[r].attempts * Cap(s)
    BY DEF Begin, RunFits, AttemptsFit, EffectsFit
  <2>3. run'[r].attempts - 1 = run[r].attempts
    BY <1>0, <1>2
  <2>4. run[r].attempts * Cap(s) \in Nat
    BY <1>0, CapIs, Times
  <2> QED
    BY <1>3, <2>1, <2>2, <2>3, <2>4
<1> QED
  BY <1>4, <1>6, <1>7, <1>8, <1>9 DEF RunFits

LEMMA StartFits ==
  ASSUME Types, NEW r \in Runs, RunFits(r), Start(r)
  PROVE  RunFits(r)'
<1>0. /\ run[r] \in RunRecord /\ run[r].kind \in Kinds /\ run[r].attempts \in Nat
      /\ run[r].status = "RUNNING" /\ MaxRedirects \in Nat
  BY RecordsAre, BoundsAreNatural DEF Start, RunFits, AttemptsFit
<1>1. PICK plan \in Plans(r), good \in BOOLEAN :
        job' = [job EXCEPT ![r] =
               [pc |-> IF good /\ Startable(r) /\ (run[r].kind = "configured" => plan # <<>>)
                       THEN "steps" ELSE "failing",
                plan |-> plan, done |-> <<>>,
                seen |-> IF run[r].target \in Targets THEN memory[run[r].target] ELSE "enabled"]]
  BY DEF Start
<1>2. /\ job'[r].plan = plan /\ job'[r].done = <<>> /\ job'[r].pc \in {"steps", "failing"}
      /\ job'[r].pc = "steps" => job'[r].seen = "enabled"
  BY <1>1 DEF Types, Startable
<1>3. UNCHANGED <<run, effects, okSteps, crashes>>
  BY DEF Start
<1>4. AttemptsFit(r)'
  BY <1>0, <1>3 DEF Start, RunFits, AttemptsFit
<1>5. Len(<<>>) = 0 /\ 1 .. 0 = {}
  OBVIOUS
<1>6. PlanFits(r)'
  <2>1. /\ run[r].kind = "pprof" => plan \in {PprofCommands(TRUE), PprofCommands(FALSE)}
        /\ run[r].kind = "huawei" => plan = PackageSyncSteps
        /\ run[r].kind = "remote" => plan = <<"ssh">>
        /\ run[r].kind = "configured" => plan \in Seq(InputFiles)
        /\ run[r].kind = "fetch" => plan = <<"request">>
        /\ run[r].kind \in BuiltIn => plan = <<>>
        /\ run[r].kind # "fetch" => NoneTwice(plan)
        /\ plan \in Seq(Steps)
    BY <1>0, PlansAre
  <2>2. Len(<<"request">>) = 1 /\ Range(<<"request">>) = {"request"} /\ Len(plan) \in Nat
    BY <2>1 DEF Range
  <2>3. CASE run[r].kind = "fetch"
    <3>1. Len(plan) = 1 /\ Range(plan) = {"request"}
      BY <2>1, <2>2, <2>3
    <3> QED
      BY <1>0, <1>2, <1>3, <1>5, <2>3, <3>1 DEF PlanFits, BuiltIn, MetadataTools
  <2>4. CASE run[r].kind # "fetch"
    <3>1. 0 <= Len(plan)
      BY <2>2
    <3> QED
      BY <1>2, <1>3, <1>5, <2>1, <2>4, <3>1 DEF PlanFits
  <2> QED
    BY <2>3, <2>4
<1>7. DoneFits(r)'
  <2>1. run[r].kind = "fetch" => Len(plan) = 1
    <3>1. run[r].kind = "fetch" => plan = <<"request">>
      BY <1>0, PlansAre
    <3>2. Len(<<"request">>) = 1
      OBVIOUS
    <3> QED
      BY <3>1, <3>2
  <2> QED
    BY <1>2, <1>3, <1>5, <2>1 DEF DoneFits
<1>8. ResultFits(r)'
  BY <1>0, <1>2, <1>3 DEF ResultFits
<1>9. EffectsFit(r)'
  <2> SUFFICES ASSUME NEW s \in Steps
               PROVE  effects'[r][s] <= (run'[r].attempts - 1) * Cap(s) + Spent(r, s)'
    BY <1>2 DEF EffectsFit
  <2>1. effects[r][s] <= (run[r].attempts - 1) * Cap(s) + Spent(r, s)
    BY DEF Start, RunFits, EffectsFit
  <2>2. job[r].done = <<>> /\ job[r].pc = "start"
    BY DEF Start, RunFits, PlanFits
  <2>3. Spent(r, s) = 0
    BY <1>5, <2>2 DEF Spent
  <2>4. Spent(r, s)' \in Nat
    BY <1>0, <1>2, <1>3, <1>5 DEF Spent
  <2>5. run[r].attempts - 1 \in Nat /\ effects[r][s] \in Nat
    BY <1>0, RecordsAre DEF Start, RunFits, AttemptsFit
  <2>6. (run[r].attempts - 1) * Cap(s) \in Nat
    BY <2>5, CapIs, Times
  <2> QED
    BY <1>3, <2>1, <2>3, <2>4, <2>5, <2>6
<1> QED
  BY <1>4, <1>6, <1>7, <1>8, <1>9 DEF RunFits

(* The steps of a plan tell the tool it is for. *)
LEMMA StepsOfPlan ==
  ASSUME Types, NEW r \in Runs, PlanFits(r), run[r].kind \in Kinds, NEW i \in 1 .. Len(job[r].plan)
  PROVE  /\ run[r].kind # "fetch" => job[r].plan[i] # "request"
         /\ job[r].plan[i] = "gaussdb_update" => run[r].kind = "huawei" /\ i = 2
         /\ run[r].kind = "huawei" => job[r].plan[1] = "obs_put"
<1>0. job[r].plan \in Seq(Steps) /\ job[r].plan[i] \in Range(job[r].plan)
  BY RecordsAre DEF Range
<1>1. CASE run[r].kind = "pprof"
  <2>1. job[r].plan = <<>> \/ Range(job[r].plan) \subseteq {"top", "tree", "raw", "svg"}
    BY <1>1, PprofCommandsAre DEF PlanFits
  <2>2. job[r].plan # <<>>
    BY <1>0
  <2> QED
    BY <1>0, <1>1, <2>1, <2>2
<1>2. CASE run[r].kind = "configured"
  <2>1. job[r].plan[i] \in InputFiles
    BY <1>2 DEF PlanFits
  <2>2. "request" \in Commands /\ "gaussdb_update" \in Commands
    BY CommandsAreSteps
  <2> QED
    BY <1>2, <2>1, <2>2, InputsAreNoCommands
<1>3. CASE run[r].kind = "huawei"
  <2>1. job[r].plan = <<"obs_put", "gaussdb_update", "obs_head", "gaussdb_query">>
    <3>1. job[r].plan # <<>>
      BY <1>0
    <3> QED
      BY <1>3, <3>1 DEF PlanFits, PackageSyncSteps
  <2> QED
    BY <1>3, <2>1
<1>4. CASE run[r].kind = "fetch"
  BY <1>0, <1>4 DEF PlanFits
<1>5. CASE run[r].kind = "remote"
  <2>1. job[r].plan = <<"ssh">>
    <3>1. job[r].plan # <<>>
      BY <1>0
    <3> QED
      BY <1>5, <3>1 DEF PlanFits
  <2> QED
    BY <1>5, <2>1
<1>6. CASE run[r].kind \in BuiltIn
  <2>1. job[r].plan = <<>>
    BY <1>6 DEF PlanFits
  <2> QED
    BY <2>1
<1> QED
  BY <1>1, <1>2, <1>3, <1>4, <1>5, <1>6 DEF Kinds, Tools

(* A step that is done, reused or not, of anything but a fetch. *)
LEMMA StepDone ==
  ASSUME Types, NEW r \in Runs, RunFits(r), HasStep(r),
         run[r].kind # "fetch", run[r].kind \in Kinds, NEW outcome \in Outcomes,
         run'[r].kind = run[r].kind,
         job'[r].plan = job[r].plan, job'[r].done = Append(job[r].done, outcome),
         job'[r].pc # "start",
         okSteps[r] \subseteq okSteps'[r], outcome = "OK" => NextStep(r) \in okSteps'[r]
  PROVE  /\ PlanFits(r)' /\ DoneFits(r)'
         /\ NextStep(r) # "request"
         /\ Spent(r, NextStep(r)) = 0
         /\ \A s \in Steps : s = NextStep(r) => Spent(r, s)' = 1
         /\ \A s \in Steps : s # NextStep(r) => Spent(r, s)' = Spent(r, s)
<1> DEFINE plan == job[r].plan
           done == job[r].done
           next == Len(done) + 1
<1>0. /\ plan \in Seq(Steps) /\ done \in Seq(Outcomes) /\ job[r] \in JobRecord
      /\ Len(plan) \in Nat /\ Len(done) \in Nat
      /\ PlanFits(r) /\ DoneFits(r)
  BY RecordsAre DEF RunFits
<1>1. next \in 1 .. Len(plan) /\ NextStep(r) = plan[next] /\ NextStep(r) \in Steps
  BY <1>0, NextStepIs
<1>2. /\ Len(job'[r].done) = next
      /\ \A i \in 1 .. Len(done) : job'[r].done[i] = done[i]
      /\ job'[r].done[next] = outcome
  BY <1>0
<1>3. PlanFits(r)'
  <2>1. Len(job'[r].done) <= Len(job'[r].plan)
    BY <1>0, <1>1, <1>2
  <2> HIDE DEF plan, done, next
  <2> QED
    BY <1>0, <2>1 DEF PlanFits
<1>4. DoneFits(r)'
  <2> SUFFICES ASSUME NEW i \in 1 .. next, job'[r].done[i] = "OK"
               PROVE  plan[i] \in okSteps'[r]
    BY <1>2 DEF DoneFits
  <2>1. CASE i = next
    BY <1>1, <1>2, <2>1
  <2>2. CASE i \in 1 .. Len(done)
    BY <1>0, <1>2, <2>2 DEF DoneFits
  <2> QED
    BY <1>0, <2>1, <2>2
<1>5. NextStep(r) # "request"
  BY <1>0, <1>1, StepsOfPlan
<1>6. \A i \in 1 .. Len(done) : plan[i] # NextStep(r)
  BY <1>0, <1>1 DEF PlanFits, NoneTwice
<1>7. Spent(r, NextStep(r)) = 0
  BY <1>5, <1>6 DEF Spent
<1>8. ASSUME NEW s \in Steps, s = NextStep(r) PROVE Spent(r, s)' = 1
  <2>1. next \in 1 .. Len(job'[r].done) /\ job'[r].plan[next] = s
    BY <1>0, <1>1, <1>2, <1>8
  <2> QED
    BY <1>5, <1>8, <2>1 DEF Spent
<1>9. ASSUME NEW s \in Steps, s # NextStep(r) PROVE Spent(r, s)' = Spent(r, s)
  <2>1. CASE s = "request"
    BY <2>1 DEF Spent
  <2>2. CASE s # "request"
    <3>1. (\E i \in 1 .. Len(job'[r].done) : job'[r].plan[i] = s) <=> (\E i \in 1 .. Len(done) : plan[i] = s)
      BY <1>0, <1>1, <1>2, <1>9
    <3> QED
      BY <2>2, <3>1 DEF Spent
  <2> QED
    BY <2>1, <2>2
<1> QED
  BY <1>3, <1>4, <1>5, <1>7, <1>8, <1>9

LEMMA ReuseResultFits ==
  ASSUME Types, NEW r \in Runs, RunFits(r), ReuseResult(r)
  PROVE  RunFits(r)'
<1>0. /\ run[r].kind = "configured" /\ run[r].status = "RUNNING" /\ job[r].pc = "steps"
      /\ job[r].seen = "enabled" /\ HasStep(r) /\ saved[r][NextStep(r)] \in Outcomes
  <2>1. saved[r][NextStep(r)] \in Outcomes
    BY SavedIs DEF ReuseResult, Reusable, Types
  <2> QED
    BY <2>1 DEF ReuseResult, Reusable, RunFits, AttemptsFit, ResultFits
<1>1. job'[r] = [job[r] EXCEPT !.done = Append(@, saved[r][NextStep(r)])]
  BY DEF ReuseResult, Types
<1>2. /\ job'[r].plan = job[r].plan /\ job'[r].done = Append(job[r].done, saved[r][NextStep(r)])
      /\ job'[r].pc = "steps" /\ job'[r].seen = "enabled"
  BY <1>0, <1>1, RecordsAre DEF JobRecord
<1>3. UNCHANGED <<run, effects, crashes>>
  BY DEF ReuseResult
<1>4. /\ okSteps[r] \subseteq okSteps'[r]
      /\ saved[r][NextStep(r)] = "OK" => NextStep(r) \in okSteps'[r]
  BY DEF ReuseResult, Types
<1>5. run[r].kind \in Kinds /\ run[r].kind # "fetch"
  BY <1>0 DEF Kinds, Tools
<1>6. /\ PlanFits(r)' /\ DoneFits(r)' /\ Spent(r, NextStep(r)) = 0
      /\ \A s \in Steps : s = NextStep(r) => Spent(r, s)' = 1
      /\ \A s \in Steps : s # NextStep(r) => Spent(r, s)' = Spent(r, s)
  BY <1>0, <1>2, <1>3, <1>4, <1>5, StepDone
<1>7. AttemptsFit(r)'
  BY <1>0, <1>2, <1>3 DEF RunFits, AttemptsFit
<1>8. ResultFits(r)'
  BY <1>0, <1>2, <1>3 DEF ResultFits
<1>9. EffectsFit(r)'
  <2> SUFFICES ASSUME NEW s \in Steps
               PROVE  effects'[r][s] <= (run'[r].attempts - 1) * Cap(s) + Spent(r, s)'
    BY <1>2 DEF EffectsFit
  <2>1. effects[r][s] <= (run[r].attempts - 1) * Cap(s) + Spent(r, s)
    BY <1>0 DEF RunFits, EffectsFit
  <2>2. Spent(r, s) \in Nat /\ Spent(r, s)' \in Nat /\ Spent(r, s) <= Spent(r, s)'
    <3>1. Spent(r, s) \in Nat
      BY SpentIs DEF RunFits
    <3> QED
      BY <1>6, <3>1
  <2>3. run[r].attempts - 1 \in Nat /\ effects[r][s] \in Nat
    BY <1>0, RecordsAre DEF RunFits, AttemptsFit
  <2>4. (run[r].attempts - 1) * Cap(s) \in Nat
    BY <2>3, CapIs, Times
  <2> QED
    BY <1>3, <2>1, <2>2, <2>3, <2>4
<1> QED
  BY <1>6, <1>7, <1>8, <1>9 DEF RunFits

LEMMA RunStepFits ==
  ASSUME Types, NEW r \in Runs, RunFits(r), NEW outcome \in Outcomes, RunStep(r, outcome)
  PROVE  RunFits(r)'
<1>0. /\ run[r].kind # "fetch" /\ run[r].status = "RUNNING" /\ job[r].pc = "steps"
      /\ run[r].kind \in Kinds /\ job[r].seen = "enabled" /\ HasStep(r)
  BY DEF RunStep, RunFits, AttemptsFit, ResultFits
<1>1. job'[r] = [job[r] EXCEPT !.done = Append(@, outcome),
                               !.pc = IF run[r].kind = "configured" THEN "saving" ELSE "steps"]
  BY DEF RunStep, Types
<1>2. /\ job'[r].plan = job[r].plan /\ job'[r].done = Append(job[r].done, outcome)
      /\ job'[r].pc = IF run[r].kind = "configured" THEN "saving" ELSE "steps"
      /\ job'[r].seen = "enabled"
  BY <1>0, <1>1, RecordsAre DEF JobRecord
<1>3. UNCHANGED <<run, saved, crashes>>
  BY DEF RunStep
<1>4. okSteps[r] \subseteq okSteps'[r] /\ (outcome = "OK" => NextStep(r) \in okSteps'[r])
  BY DEF RunStep, Types
<1>5. NextStep(r) \in Steps /\ Len(job[r].done) \in Nat
  BY <1>0, RecordsAre, NextStepIs
<1>6. /\ PlanFits(r)' /\ DoneFits(r)' /\ Spent(r, NextStep(r)) = 0
      /\ \A s \in Steps : s = NextStep(r) => Spent(r, s)' = 1
      /\ \A s \in Steps : s # NextStep(r) => Spent(r, s)' = Spent(r, s)
  BY <1>0, <1>2, <1>3, <1>4, StepDone
<1>7. AttemptsFit(r)'
  BY <1>0, <1>2, <1>3 DEF RunFits, AttemptsFit
<1>8. ResultFits(r)'
  <2>1. CASE run[r].kind = "configured"
    <3>1. Len(job'[r].done) = Len(job[r].done) + 1
      BY <1>2, RecordsAre
    <3>2. NextStep(r) \notin DOMAIN saved[r]
      BY <2>1 DEF RunStep, Reusable
    <3>3. job'[r].plan[Len(job'[r].done)] = NextStep(r)
      BY <1>2, <3>1 DEF NextStep
    <3>4. Len(job'[r].done) >= 1
      BY <1>5, <3>1
    <3> QED
      BY <1>0, <1>2, <1>3, <2>1, <3>2, <3>3, <3>4 DEF ResultFits
  <2>2. CASE run[r].kind # "configured"
    BY <1>0, <1>2, <1>3, <2>2 DEF ResultFits
  <2> QED
    BY <2>1, <2>2
<1>9. EffectsFit(r)'
  <2> SUFFICES ASSUME NEW s \in Steps
               PROVE  effects'[r][s] <= (run'[r].attempts - 1) * Cap(s) + Spent(r, s)'
    BY <1>2 DEF EffectsFit
  <2>1. effects[r][s] <= (run[r].attempts - 1) * Cap(s) + Spent(r, s)
    BY <1>0 DEF RunFits, EffectsFit
  <2>2. run[r].attempts - 1 \in Nat /\ effects[r][s] \in Nat
    BY <1>0, RecordsAre DEF RunFits, AttemptsFit
  <2>3. (run[r].attempts - 1) * Cap(s) \in Nat
    BY <2>2, CapIs, Times
  <2>4. effects' = [effects EXCEPT ![r][NextStep(r)] = @ + 1]
    BY DEF RunStep
  <2>5. effects'[r][s] = IF s = NextStep(r) THEN effects[r][s] + 1 ELSE effects[r][s]
    BY <1>5, <2>4 DEF Types
  <2>6. CASE s = NextStep(r)
    <3>1. Spent(r, s)' = 1 /\ Spent(r, s) = 0
      BY <1>6, <2>6
    <3> QED
      BY <1>3, <2>1, <2>2, <2>3, <2>5, <2>6, <3>1
  <2>7. CASE s # NextStep(r)
    BY <1>3, <1>6, <2>1, <2>5, <2>7
  <2> QED
    BY <2>6, <2>7
<1> QED
  BY <1>6, <1>7, <1>8, <1>9 DEF RunFits

LEMMA FetchStepFits ==
  ASSUME Types, NEW r \in Runs, RunFits(r), NEW answer \in {"final", "redirect", "error"},
         FetchStep(r, answer)
  PROVE  RunFits(r)'
<1> DEFINE plan == job[r].plan
           done == job[r].done
<1>0. /\ run[r].kind = "fetch" /\ run[r].status = "RUNNING" /\ job[r].pc = "steps"
      /\ run[r].kind \in Kinds /\ job[r].seen = "enabled" /\ HasStep(r)
      /\ plan \in Seq(Steps) /\ done \in Seq(Outcomes) /\ Len(plan) \in Nat /\ Len(done) \in Nat
      /\ MaxRedirects \in Nat
  BY RecordsAre, BoundsAreNatural DEF FetchStep, RunFits, AttemptsFit, ResultFits
<1>1. Len(done) < Len(plan) /\ Len(plan) = Len(done) + 1 /\ Len(plan) <= MaxRedirects + 1
  BY <1>0 DEF HasStep, RunFits, PlanFits
<1>2. UNCHANGED <<run, saved, result, crashes>>
  BY DEF FetchStep
<1>3. job[r] \in JobRecord /\ job \in [Runs -> JobRecord]
  BY DEF Types
<1>4. Range(plan) \subseteq {"request"}
  BY <1>0 DEF RunFits, PlanFits
<1>5. AttemptsFit(r)'
  BY <1>0, <1>2 DEF FetchStep, RunFits, AttemptsFit
<1>6. Spent(r, "request") = Len(done) /\ "request" \in Steps
  BY <1>0, CommandsAreSteps DEF Spent
<1>7. ASSUME Spent(r, "request")' >= Len(done) + 1, Spent(r, "request")' \in Nat,
             job'[r].pc # "idle",
             \A s \in Steps : s # "request" =>
               Spent(r, s)' \in Nat /\ Spent(r, s) <= Spent(r, s)'
      PROVE  EffectsFit(r)'
  <2> SUFFICES ASSUME NEW s \in Steps
               PROVE  effects'[r][s] <= (run'[r].attempts - 1) * Cap(s) + Spent(r, s)'
    BY <1>7 DEF EffectsFit
  <2>1. effects[r][s] <= (run[r].attempts - 1) * Cap(s) + Spent(r, s)
    BY <1>0 DEF RunFits, EffectsFit
  <2>2. run[r].attempts - 1 \in Nat /\ effects[r][s] \in Nat
    BY <1>0, RecordsAre DEF RunFits, AttemptsFit
  <2>3. (run[r].attempts - 1) * Cap(s) \in Nat
    BY <2>2, CapIs, Times
  <2>4. effects' = [effects EXCEPT ![r]["request"] = @ + 1]
    BY DEF FetchStep
  <2>5. effects'[r][s] = IF s = "request" THEN effects[r][s] + 1 ELSE effects[r][s]
    BY <1>6, <2>4 DEF Types
  <2>6. CASE s = "request"
    <3>1. \A t \in Steps : t = "request" => Spent(r, t)' >= Len(done) + 1 /\ Spent(r, t)' \in Nat
      BY <1>7
    <3>2. Spent(r, s)' >= Len(done) + 1 /\ Spent(r, s)' \in Nat
      BY <2>6, <3>1
    <3>3. Spent(r, s) = Len(done)
      BY <1>6, <2>6
    <3> DEFINE before == (run[r].attempts - 1) * Cap(s)
               after  == Spent(r, s)'
    <3>4. effects[r][s] <= before + Len(done) /\ before \in Nat /\ Len(done) \in Nat
      BY <1>0, <2>1, <2>3, <3>3
    <3>5. effects'[r][s] = effects[r][s] + 1 /\ after >= Len(done) + 1 /\ after \in Nat
      BY <2>5, <2>6, <3>2
    <3>6. (run'[r].attempts - 1) * Cap(s) = before
      BY <1>2
    <3> HIDE DEF before, after
    <3>7. effects'[r][s] <= before + after
      BY <2>2, <3>4, <3>5
    <3> QED
      BY <3>6, <3>7 DEF after
  <2>7. CASE s # "request"
    <3>1. Spent(r, s) \in Nat
      BY SpentIs DEF RunFits
    <3> QED
      BY <1>2, <1>7, <2>1, <2>2, <2>3, <2>5, <2>7, <3>1
  <2> QED
    BY <2>6, <2>7
<1>8. CASE /\ job' = [job EXCEPT ![r].done = Append(@, "OK")]
           /\ okSteps' = [okSteps EXCEPT ![r] = {"request"}]
  <2>1. job'[r] = [job[r] EXCEPT !.done = Append(@, "OK")] /\ okSteps'[r] = {"request"}
    BY <1>3, <1>8 DEF Types
  <2>2. /\ job'[r].plan = plan /\ job'[r].done = Append(done, "OK")
        /\ job'[r].pc = "steps" /\ job'[r].seen = "enabled"
    BY <1>0, <1>3, <2>1 DEF JobRecord
  <2>3. Len(job'[r].done) = Len(done) + 1 /\ Len(job'[r].plan) = Len(plan)
    BY <1>0, <2>2
  <2>4. PlanFits(r)'
    <3>1. Len(job'[r].done) <= Len(job'[r].plan) /\ Len(job'[r].plan) <= Len(job'[r].done) + 1
      BY <1>0, <1>1, <2>3
    <3> HIDE DEF plan, done
    <3> QED
      BY <1>0, <1>1, <1>2, <1>4, <2>2, <2>3, <3>1 DEF PlanFits, BuiltIn, MetadataTools
  <2>5. DoneFits(r)'
    BY <1>0, <1>2, <2>1 DEF DoneFits
  <2>6. ResultFits(r)'
    BY <1>0, <1>2, <2>2 DEF ResultFits
  <2>7. Spent(r, "request")' = Len(done) + 1
    BY <1>0, <1>2, <2>2, <2>3 DEF Spent
  <2>8. ASSUME NEW s \in Steps, s # "request"
        PROVE  Spent(r, s)' \in Nat /\ Spent(r, s) <= Spent(r, s)'
    <3>1. \A i \in 1 .. Len(done) : i \in 1 .. Len(job'[r].done) /\ job'[r].plan[i] = plan[i]
      BY <1>0, <2>2, <2>3
    <3> QED
      BY <2>8, <3>1 DEF Spent
  <2>9. EffectsFit(r)'
    BY <1>0, <1>7, <2>2, <2>7, <2>8
  <2> QED
    BY <1>5, <2>4, <2>5, <2>6, <2>9 DEF RunFits
<1>9. CASE /\ Len(done) < MaxRedirects
           /\ job' = [job EXCEPT ![r].done = Append(@, "OK"), ![r].plan = Append(@, "request")]
           /\ okSteps' = okSteps
  <2>1. job'[r] = [job[r] EXCEPT !.done = Append(@, "OK"), !.plan = Append(@, "request")]
    BY <1>3, <1>9
  <2>2. /\ job'[r].plan = Append(plan, "request") /\ job'[r].done = Append(done, "OK")
        /\ job'[r].pc = "steps" /\ job'[r].seen = "enabled"
    BY <1>0, <1>3, <2>1 DEF JobRecord
  <2>3. Len(job'[r].done) = Len(done) + 1 /\ Len(job'[r].plan) = Len(plan) + 1
    BY <1>0, <2>2
  <2>4. PlanFits(r)'
    <3>1. /\ Len(job'[r].done) <= Len(job'[r].plan) /\ Len(job'[r].plan) <= Len(job'[r].done) + 1
          /\ Len(job'[r].plan) <= MaxRedirects + 1
      <4> HIDE DEF plan, done
      <4>1. Len(done) < MaxRedirects
        BY <1>9
      <4> QED
        BY <1>0, <1>1, <4>1, <2>3
    <3>2. Range(job'[r].plan) \subseteq {"request"}
      <4> HIDE DEF plan, done
      <4>1. \A i \in 1 .. Len(plan) : plan[i] = "request"
        BY <1>0, <1>4 DEF Range
      <4>2. DOMAIN job'[r].plan = 1 .. Len(plan) + 1
        BY <1>0, <2>2
      <4>3. \A i \in 1 .. Len(plan) + 1 : job'[r].plan[i] = "request"
        BY <1>0, <2>2, <4>1
      <4> QED
        BY <4>2, <4>3 DEF Range
    <3> HIDE DEF plan, done
    <3> QED
      BY <1>0, <1>2, <2>2, <3>1, <3>2 DEF PlanFits, BuiltIn, MetadataTools
  <2>5. DoneFits(r)'
    BY <1>0, <1>1, <1>2, <2>3 DEF DoneFits
  <2>6. ResultFits(r)'
    BY <1>0, <1>2, <2>2 DEF ResultFits
  <2>7. Spent(r, "request")' = Len(done) + 1
    BY <1>0, <1>2, <2>2, <2>3 DEF Spent
  <2>8. ASSUME NEW s \in Steps, s # "request"
        PROVE  Spent(r, s)' \in Nat /\ Spent(r, s) <= Spent(r, s)'
    <3>1. \A i \in 1 .. Len(done) : i \in 1 .. Len(job'[r].done) /\ job'[r].plan[i] = plan[i]
      BY <1>0, <1>1, <2>2, <2>3
    <3> QED
      BY <2>8, <3>1 DEF Spent
  <2>9. EffectsFit(r)'
    BY <1>0, <1>7, <2>2, <2>7, <2>8
  <2> QED
    BY <1>5, <2>4, <2>5, <2>6, <2>9 DEF RunFits
<1>10. CASE job' = [job EXCEPT ![r].pc = "failing"] /\ okSteps' = okSteps
  <2>1. job'[r] = [job[r] EXCEPT !.pc = "failing"]
    BY <1>3, <1>10
  <2>2. job'[r].plan = plan /\ job'[r].done = done /\ job'[r].pc = "failing"
    BY <1>3, <2>1 DEF JobRecord
  <2>3. PlanFits(r)' /\ DoneFits(r)'
    BY <1>2, <1>10, <2>2 DEF RunFits, PlanFits, DoneFits
  <2>4. ResultFits(r)'
    BY <1>0, <1>2, <2>2 DEF ResultFits
  <2>5. Spent(r, "request")' = MaxRedirects + 1
    BY <1>0, <1>2, <2>2 DEF Spent
  <2>6. \A s \in Steps : s # "request" => Spent(r, s)' \in Nat /\ Spent(r, s) <= Spent(r, s)'
    BY <2>2 DEF Spent
  <2>7. EffectsFit(r)'
    BY <1>0, <1>1, <1>7, <2>2, <2>5, <2>6
  <2> QED
    BY <1>5, <2>3, <2>4, <2>7 DEF RunFits
<1> QED
  BY <1>8, <1>9, <1>10 DEF FetchStep

(* An action that only moves the execution on to another point. *)
LEMMA MovedOn ==
  ASSUME Types, NEW r \in Runs, RunFits(r), job[r].pc # "idle", job[r].pc # "start",
         NEW pc \in {"steps", "saving", "torn", "written", "failing"},
         job' = [job EXCEPT ![r].pc = pc], job[r].pc # "failing",
         UNCHANGED <<run, effects, okSteps, crashes>>
  PROVE  /\ AttemptsFit(r)' /\ PlanFits(r)' /\ DoneFits(r)' /\ EffectsFit(r)'
         /\ job'[r].pc = pc /\ job'[r].plan = job[r].plan /\ job'[r].done = job[r].done
         /\ job'[r].seen = job[r].seen
<1>1. job'[r] = [job[r] EXCEPT !.pc = pc] /\ job[r] \in JobRecord
  BY DEF Types
<1>2. /\ job'[r].pc = pc /\ job'[r].plan = job[r].plan /\ job'[r].done = job[r].done
      /\ job'[r].seen = job[r].seen
  BY <1>1 DEF JobRecord
<1>3. AttemptsFit(r)' /\ PlanFits(r)' /\ DoneFits(r)'
  <2>1. AttemptsFit(r)'
    BY <1>2 DEF RunFits, AttemptsFit
  <2>2. PlanFits(r)'
    BY <1>2 DEF RunFits, PlanFits
  <2>3. DoneFits(r)'
    BY <1>2 DEF RunFits, DoneFits
  <2> QED
    BY <2>1, <2>2, <2>3
<1>4. EffectsFit(r)'
  <2> SUFFICES ASSUME NEW s \in Steps
               PROVE  effects'[r][s] <= (run'[r].attempts - 1) * Cap(s) + Spent(r, s)'
    BY <1>2 DEF EffectsFit
  <2>1. effects[r][s] <= (run[r].attempts - 1) * Cap(s) + Spent(r, s)
    BY DEF RunFits, EffectsFit
  <2>2. run[r].attempts - 1 \in Nat /\ effects[r][s] \in Nat
    BY RecordsAre DEF RunFits, AttemptsFit
  <2>3. (run[r].attempts - 1) * Cap(s) \in Nat
    BY <2>2, CapIs, Times
  <2>4. Spent(r, s) \in Nat /\ Spent(r, s)' \in Nat /\ Spent(r, s) <= Spent(r, s)'
    <3>1. Spent(r, s) \in Nat /\ Len(job[r].done) \in Nat /\ MaxRedirects \in Nat
      BY SpentIs, RecordsAre, BoundsAreNatural DEF RunFits
    <3>2. run[r].kind = "fetch" => Len(job[r].done) <= MaxRedirects + 1
      BY <3>1, RecordsAre DEF RunFits, PlanFits
    <3> QED
      BY <1>2, <3>1, <3>2 DEF Spent
  <2> QED
    BY <2>1, <2>2, <2>3, <2>4
<1> QED
  BY <1>2, <1>3, <1>4

LEMMA AllWentWell ==
  ASSUME NEW outcomes, CombinedStatus(outcomes) = "OK"
  PROVE  "TIMED_OUT" \notin outcomes /\ "FAILED" \notin outcomes
BY Zenon DEF CombinedStatus

(* A result that says OK stands for steps that all did. *)
LEMMA VerdictOfDone ==
  ASSUME Types, NEW r \in Runs, RunFits(r), run[r].kind \in Kinds, ~HasStep(r),
         Verdict(run[r].kind, job[r].done) = "OK"
  PROVE  Range(job[r].plan) \ {"svg"} \subseteq okSteps[r]
<1> DEFINE plan == job[r].plan
           done == job[r].done
<1>0. /\ plan \in Seq(Steps) /\ done \in Seq(Outcomes) /\ Len(plan) \in Nat /\ Len(done) \in Nat
      /\ Len(done) <= Len(plan) /\ PlanFits(r) /\ DoneFits(r)
      /\ \A i \in 1 .. Len(done) : done[i] \in Outcomes /\ done[i] \in Range(done)
  <2>1. /\ plan \in Seq(Steps) /\ done \in Seq(Outcomes) /\ Len(plan) \in Nat /\ Len(done) \in Nat
        /\ Len(done) <= Len(plan) /\ PlanFits(r) /\ DoneFits(r)
    BY RecordsAre DEF RunFits, PlanFits
  <2> HIDE DEF plan, done
  <2>2. \A i \in 1 .. Len(done) : done[i] \in Outcomes /\ done[i] \in Range(done)
    BY <2>1 DEF Range
  <2> QED
    BY <2>1, <2>2
<1>1. ASSUME run[r].kind # "fetch", Len(done) = Len(plan),
             \A i \in 1 .. Len(plan) : plan[i] # "svg" => done[i] = "OK"
      PROVE  Range(plan) \ {"svg"} \subseteq okSteps[r]
  BY <1>0, <1>1 DEF Range, DoneFits
<1>2. ~Stopped(r) => Len(done) = Len(plan)
  BY <1>0 DEF HasStep
<1>3. CASE run[r].kind = "pprof"
  <2>1. Len(done) = Len(plan)
    BY <1>2, <1>3 DEF Stopped
  <2> DEFINE first == Take(done, 3)
  <2>2. CombinedStatus(Range(first)) = "OK"
    BY <1>3, Zenon DEF Verdict
  <2>3. \A i \in 1 .. Len(done) : i <= 3 => done[i] \in Range(first)
    <3>1. ASSUME NEW i \in 1 .. Len(done), i <= 3 PROVE done[i] \in Range(first)
      <4> DEFINE n == IF 3 < Len(done) THEN 3 ELSE Len(done)
      <4>1. n \in 0 .. Len(done) /\ i \in 1 .. n /\ first = SubSeq(done, 1, n)
        BY <1>0, <3>1 DEF Take
      <4> HIDE DEF n, first
      <4>2. DOMAIN first = 1 .. n /\ first[i] = done[i]
        BY <1>0, <4>1
      <4> QED
        BY <4>1, <4>2 DEF Range
    <3> QED
      BY <3>1
  <2>4. ASSUME NEW i \in 1 .. Len(plan), plan[i] # "svg" PROVE done[i] = "OK"
    <3>1. plan # <<>>
      BY <1>0
    <3>2. i <= 3
      <4>1. PICK svg \in BOOLEAN : plan = PprofCommands(svg)
        BY <1>0, <1>3, <3>1 DEF PlanFits
      <4>2. i > 3 => plan[i] = "svg"
        BY <4>1, PprofCommandsAre
      <4> QED
        BY <1>0, <2>4, <4>2
    <3>3. done[i] \in Range(first)
      BY <2>1, <2>3, <3>2
    <3> HIDE DEF first
    <3> QED
      BY <1>0, <2>1, <2>2, <3>3, AllWentWell, OutcomesAre
  <2> QED
    BY <1>1, <1>3, <2>1, <2>4
<1>4. CASE run[r].kind = "huawei"
  <2>1. Range(done) \subseteq {"OK"}
    BY <1>4, Zenon DEF Verdict
  <2>2. Len(done) = Len(plan)
    BY <1>2, <2>1 DEF Stopped
  <2>3. \A i \in 1 .. Len(plan) : done[i] = "OK"
    BY <1>0, <2>1, <2>2
  <2> QED
    BY <1>1, <1>4, <2>2, <2>3
<1>5. CASE run[r].kind = "fetch"
  <2>1. Len(done) = Len(plan) /\ Range(plan) \subseteq {"request"}
    BY <1>0, <1>2, <1>5 DEF Stopped, PlanFits
  <2>2. plan # <<>> => "request" \in okSteps[r]
    BY <1>0, <1>5, <2>1 DEF DoneFits
  <2>3. plan = <<>> => Range(plan) = {}
    BY DEF Range
  <2> QED
    BY <2>1, <2>2, <2>3
<1>6. CASE run[r].kind \notin {"pprof", "huawei", "fetch"}
  <2>1. Len(done) = Len(plan)
    BY <1>2, <1>6 DEF Stopped
  <2>2. CombinedStatus(Range(done)) = "OK"
    BY <1>6, Zenon DEF Verdict
  <2>3. \A i \in 1 .. Len(plan) : done[i] = "OK"
    BY <1>0, <2>1, <2>2, AllWentWell, OutcomesAre
  <2> QED
    BY <1>1, <1>6, <2>1, <2>3
<1> QED
  BY <1>3, <1>4, <1>5, <1>6

LEMMA SaveAndFailFit ==
  ASSUME Types, NEW r \in Runs, RunFits(r), SaveInput(r) \/ WriteFails(r)
  PROVE  RunFits(r)'
<1>1. CASE SaveInput(r)
  <2>1. job[r].pc = "saving" /\ job[r].seen = "enabled" /\ run[r].status = "RUNNING"
    BY <1>1 DEF SaveInput, RunFits, ResultFits, AttemptsFit
  <2>2. /\ job' = [job EXCEPT ![r].pc = "steps"]
        /\ UNCHANGED <<run, effects, okSteps, crashes>>
    BY <1>1 DEF SaveInput
  <2>3. /\ AttemptsFit(r)' /\ PlanFits(r)' /\ DoneFits(r)' /\ EffectsFit(r)'
        /\ job'[r].pc = "steps" /\ job'[r].seen = job[r].seen
    BY <2>1, <2>2, MovedOn
  <2>4. ResultFits(r)'
    BY <2>1, <2>2, <2>3 DEF ResultFits
  <2> QED
    BY <2>3, <2>4 DEF RunFits
<1>2. CASE WriteFails(r)
  <2>1. job[r].pc \in {"steps", "saving", "torn"} /\ run[r].status = "RUNNING"
    BY <1>2 DEF WriteFails, RunFits, AttemptsFit
  <2>2. /\ job' = [job EXCEPT ![r].pc = "failing"]
        /\ UNCHANGED <<run, effects, okSteps, crashes>>
    BY <1>2 DEF WriteFails
  <2>3. /\ AttemptsFit(r)' /\ PlanFits(r)' /\ DoneFits(r)' /\ EffectsFit(r)'
        /\ job'[r].pc = "failing"
    BY <2>1, <2>2, MovedOn
  <2>4. ResultFits(r)'
    BY <2>1, <2>2, <2>3 DEF ResultFits
  <2> QED
    BY <2>3, <2>4 DEF RunFits
<1> QED
  BY <1>1, <1>2

LEMMA WriteResultFits ==
  ASSUME Types, NEW r \in Runs, RunFits(r), WriteResult(r)
  PROVE  RunFits(r)'
<1>1. /\ job[r].pc \in {"steps", "torn"} /\ ~HasStep(r)
      /\ job[r].seen = "enabled" /\ run[r].status = "RUNNING"
  BY DEF WriteResult, RunFits, ResultFits, AttemptsFit
<1> DEFINE torn == job[r].pc = "steps" /\ run[r].kind \notin {"fetch", "huawei"}
           pc   == IF torn THEN "torn" ELSE "written"
<1>2. /\ job' = [job EXCEPT ![r].pc = pc]
      /\ result' = [result EXCEPT ![r] = IF torn THEN "torn" ELSE Verdict(run[r].kind, job[r].done)]
      /\ UNCHANGED <<run, effects, okSteps, crashes, saved>>
  BY DEF WriteResult
<1>3. pc \in {"torn", "written"} /\ (pc = "written" => ~torn)
  OBVIOUS
<1>4. result'[r] = IF torn THEN "torn" ELSE Verdict(run[r].kind, job[r].done)
  BY <1>2 DEF Types
<1> HIDE DEF pc, torn
<1>5. /\ AttemptsFit(r)' /\ PlanFits(r)' /\ DoneFits(r)' /\ EffectsFit(r)'
      /\ job'[r].pc = pc /\ job'[r].plan = job[r].plan /\ job'[r].done = job[r].done
      /\ job'[r].seen = job[r].seen
  BY <1>1, <1>2, <1>3, MovedOn
<1>6. ~HasStep(r)'
  BY <1>1, <1>2, <1>5 DEF HasStep, Stopped
<1>7. ResultFits(r)'
  BY <1>1, <1>2, <1>3, <1>4, <1>5, <1>6 DEF ResultFits
<1> QED
  BY <1>5, <1>7 DEF RunFits

LEMMA FinishFits ==
  ASSUME Types, NEW r \in Runs, RunFits(r), Finish(r)
  PROVE  RunFits(r)'
<1>0. /\ job[r] \in JobRecord /\ run[r] \in RunRecord /\ run[r].status = "RUNNING"
      /\ run[r].attempts - 1 \in Nat /\ run[r].attempts \in Nat /\ run[r].kind \in Kinds
  BY RecordsAre DEF Finish, RunFits, AttemptsFit
<1>1. UNCHANGED <<saved, result, effects, okSteps, crashes>>
  BY DEF Finish
<1>2. CASE /\ run' = [run EXCEPT ![r].status = IF job[r].pc = "written" THEN "SUCCEEDED" ELSE "FAILED"]
           /\ job' = [job EXCEPT ![r].pc = "idle"]
  <2>1. /\ run'[r].status = IF job[r].pc = "written" THEN "SUCCEEDED" ELSE "FAILED"
        /\ run'[r].kind = run[r].kind /\ run'[r].key = run[r].key
        /\ run'[r].attempts = run[r].attempts
    <3>1. run'[r] = [run[r] EXCEPT !.status = IF job[r].pc = "written" THEN "SUCCEEDED" ELSE "FAILED"]
      BY <1>2 DEF Types
    <3> QED
      BY <1>0, <3>1 DEF RunRecord
  <2>2. job'[r].pc = "idle" /\ job'[r].plan = job[r].plan /\ job'[r].done = job[r].done
    <3>1. job'[r] = [job[r] EXCEPT !.pc = "idle"]
      BY <1>2 DEF Types
    <3> QED
      BY <1>0, <3>1 DEF JobRecord
  <2>3. AttemptsFit(r)'
    BY <1>0, <1>1, <2>1, <2>2 DEF RunFits, AttemptsFit
  <2>4. PlanFits(r)' /\ DoneFits(r)'
    BY <1>1, <2>1, <2>2 DEF RunFits, PlanFits, DoneFits
  <2>5. ResultFits(r)'
    <3>1. CASE job[r].pc = "written"
      <4>1. ~HasStep(r) /\ result[r] = Verdict(run[r].kind, job[r].done)
        BY <3>1 DEF RunFits, ResultFits
      <4>2. result[r] \in Outcomes
        BY <4>1, OutcomesAre
      <4>3. result[r] = "OK" => Range(job[r].plan) \ {"svg"} \subseteq okSteps[r]
        BY <1>0, <4>1, VerdictOfDone
      <4> QED
        BY <1>1, <2>2, <4>2, <4>3 DEF ResultFits
    <3>2. CASE job[r].pc # "written"
      BY <2>1, <2>2, <3>2 DEF ResultFits
    <3> QED
      BY <3>1, <3>2
  <2>6. EffectsFit(r)'
    <3> SUFFICES ASSUME NEW s \in Steps
                 PROVE  effects'[r][s] <= run'[r].attempts * Cap(s)
      BY <2>2 DEF EffectsFit
    <3>1. effects[r][s] <= (run[r].attempts - 1) * Cap(s) + Spent(r, s)
      BY DEF Finish, RunFits, EffectsFit
    <3>2. Spent(r, s) \in Nat /\ Spent(r, s) <= Cap(s) /\ Cap(s) \in Nat
      BY SpentIs, CapIs DEF RunFits
    <3>3. /\ run[r].attempts * Cap(s) = (run[r].attempts - 1) * Cap(s) + Cap(s)
          /\ (run[r].attempts - 1) * Cap(s) \in Nat
      BY <1>0, <3>2, Times
    <3>4. effects[r][s] \in Nat
      BY RecordsAre
    <3> QED
      BY <1>1, <2>1, <3>1, <3>2, <3>3, <3>4
  <2> QED
    BY <2>3, <2>4, <2>5, <2>6 DEF RunFits
<1>3. CASE /\ job[r].pc = "written" /\ run' = run
           /\ job' = [job EXCEPT ![r].pc = "failing"]
  <2>1. /\ AttemptsFit(r)' /\ PlanFits(r)' /\ DoneFits(r)' /\ EffectsFit(r)'
        /\ job'[r].pc = "failing"
    BY <1>1, <1>3, MovedOn
  <2>2. ResultFits(r)'
    BY <1>0, <1>3, <2>1 DEF ResultFits
  <2> QED
    BY <2>1, <2>2 DEF RunFits
<1> QED
  BY <1>2, <1>3 DEF Finish

LEMMA RestartFits ==
  ASSUME Types, NEW r \in Runs, RunFits(r), Restart
  PROVE  RunFits(r)'
<1>0. /\ run[r] \in RunRecord /\ run[r].attempts \in Nat /\ crashes \in Nat
      /\ crashes' = crashes + 1 /\ UNCHANGED <<saved, result, effects, okSteps>>
  BY RecordsAre DEF Restart
<1>1. job'[r].pc = "idle" /\ job'[r].plan = <<>> /\ job'[r].done = <<>>
  BY DEF Restart, NoJob
<1>2. /\ run'[r].status = IF run[r].status = "RUNNING" THEN "QUEUED" ELSE run[r].status
      /\ run'[r].kind = run[r].kind /\ run'[r].key = run[r].key
      /\ run'[r].attempts = run[r].attempts
  <2>1. run'[r] = IF run[r].status = "RUNNING" THEN [run[r] EXCEPT !.status = "QUEUED"] ELSE run[r]
    BY DEF Restart
  <2> QED
    BY <1>0, <2>1 DEF RunRecord
<1>3. AttemptsFit(r)'
  BY <1>0, <1>1, <1>2 DEF RunFits, AttemptsFit
<1>4. Len(<<>>) = 0 /\ 1 .. 0 = {} /\ Range(<<>>) = {} /\ NoneTwice(<<>>)
  BY DEF Range, NoneTwice
<1>5. PlanFits(r)' /\ DoneFits(r)'
  BY <1>1, <1>4, BoundsAreNatural DEF PlanFits, DoneFits
<1>6. ResultFits(r)'
  BY <1>0, <1>1, <1>2, <1>4 DEF RunFits, ResultFits
<1>7. EffectsFit(r)'
  <2> SUFFICES ASSUME NEW s \in Steps
               PROVE  effects'[r][s] <= run'[r].attempts * Cap(s)
    BY <1>1 DEF EffectsFit
  <2>1. CASE job[r].pc = "idle"
    BY <1>0, <1>2, <2>1 DEF RunFits, EffectsFit
  <2>2. CASE job[r].pc # "idle"
    <3>0. run[r].attempts - 1 \in Nat
      BY <1>0, <2>2 DEF RunFits, AttemptsFit
    <3>1. effects[r][s] <= (run[r].attempts - 1) * Cap(s) + Spent(r, s)
      BY <2>2 DEF RunFits, EffectsFit
    <3>2. Spent(r, s) \in Nat /\ Spent(r, s) <= Cap(s) /\ Cap(s) \in Nat
      BY SpentIs, CapIs DEF RunFits
    <3>3. /\ run[r].attempts * Cap(s) = (run[r].attempts - 1) * Cap(s) + Cap(s)
          /\ (run[r].attempts - 1) * Cap(s) \in Nat
      BY <1>0, <3>0, <3>2, Times
    <3>4. effects[r][s] \in Nat
      BY RecordsAre
    <3> QED
      BY <1>0, <1>2, <3>1, <3>2, <3>3, <3>4
  <2> QED
    BY <2>1, <2>2
<1> QED
  BY <1>3, <1>5, <1>6, <1>7 DEF RunFits

LEMMA CreateRunFits ==
  ASSUME Types, NEW r \in Runs, RunFits(r), NEW q \in Requests, HandlerFits(q), CreateRun(q, r)
  PROVE  RunFits(r)'
<1>0. /\ run[r].status = "ABSENT" /\ run[r].attempts = 0 /\ crashes \in Nat
      /\ job[r].pc = "idle" /\ job[r].plan = <<>> /\ job[r].done = <<>>
      /\ req[q].kind \in Kinds /\ (req[q].key \in Keys => req[q].kind = "remote")
  BY RecordsAre DEF CreateRun, RunFits, AttemptsFit, HandlerFits
<1>1. /\ run'[r].status = "QUEUED" /\ run'[r].kind = req[q].kind /\ run'[r].key = req[q].key
      /\ run'[r].attempts = 0
  <2>1. run'[r] = [status |-> "QUEUED", kind |-> req[q].kind, target |-> req[q].target,
                   key |-> req[q].key, asked |-> req[q].asked, svg |-> req[q].svg, attempts |-> 0]
    BY CreateRunIs
  <2> QED
    BY <2>1
<1>2. UNCHANGED <<job, saved, result, effects, okSteps, crashes>>
  BY DEF CreateRun, workVars
<1>3. AttemptsFit(r)'
  BY <1>0, <1>1, <1>2 DEF AttemptsFit
<1>4. Len(<<>>) = 0 /\ 1 .. 0 = {} /\ Range(<<>>) = {} /\ NoneTwice(<<>>)
  BY DEF Range, NoneTwice
<1>5. PlanFits(r)' /\ DoneFits(r)'
  <2>1. job'[r].pc = "idle" /\ job'[r].plan = <<>> /\ job'[r].done = <<>>
    BY <1>0, <1>2
  <2> QED
    BY <1>4, <2>1, BoundsAreNatural DEF PlanFits, DoneFits
<1>6. ResultFits(r)'
  BY <1>0, <1>1, <1>2 DEF ResultFits
<1>7. EffectsFit(r)'
  BY <1>0, <1>1, <1>2 DEF RunFits, EffectsFit
<1> QED
  BY <1>3, <1>5, <1>6, <1>7 DEF RunFits

LEMMA RunsFit ==
  ASSUME Types, \A r \in Runs : RunFits(r), \A q \in Requests : HandlerFits(q), Next
  PROVE  \A r \in Runs : RunFits(r)'
<1>1. ASSUME UNCHANGED <<run, workVars, crashes>> PROVE \A r \in Runs : RunFits(r)'
  BY <1>1, RunKept DEF workVars
<1>2. CASE Stores
  BY <1>1, <1>2 DEF Stores, CreateTarget, PatchTarget, DeleteEndpoint
<1>3. CASE Handlers
  <2> SUFFICES ASSUME NEW q \in Requests, NEW r \in Runs, CreateRun(q, r)
               PROVE  \A other \in Runs : RunFits(other)'
    <3>1. \A q \in Requests :
            \/ \E body \in ToolRequests : SubmitTool(q, body)
            \/ \E e \in Endpoints : SubmitFetch(q, e)
            \/ \E x \in Executors, k \in Keys \union {NoKey} : SubmitRemote(q, x, k)
            \/ ResolveRemote(q) \/ SetLastRun(q) \/ Enqueue(q) \/ DropRequest(q)
            => UNCHANGED <<run, workVars, crashes>>
      BY DEF SubmitTool, SubmitFetch, SubmitRemote, ResolveRemote, SetLastRun, Enqueue, DropRequest
    <3> QED
      BY <1>1, <1>3, <3>1 DEF Handlers
  <2>1. RunFits(r)'
    BY CreateRunFits
  <2>2. ASSUME NEW other \in Runs, other # r PROVE RunFits(other)'
    <3>1. run'[other] = run[other] /\ UNCHANGED <<workVars, crashes>>
      BY <2>2, CreateRunIs DEF CreateRun
    <3> QED
      BY <3>1, RunKept DEF workVars
  <2> QED
    BY <2>1, <2>2
<1>4. CASE Execution
  <2> SUFFICES ASSUME NEW r \in Runs,
                      \/ Begin(r) \/ Start(r) \/ ReuseResult(r) \/ SaveInput(r) \/ WriteResult(r)
                      \/ WriteFails(r) \/ Finish(r)
                      \/ \E outcome \in Outcomes : RunStep(r, outcome)
                      \/ \E answer \in {"final", "redirect", "error"} : FetchStep(r, answer)
               PROVE  \A other \in Runs : RunFits(other)'
    BY <1>4 DEF Execution
  <2>1. RunFits(r)'
    BY BeginFits, StartFits, ReuseResultFits, SaveAndFailFit, WriteResultFits, FinishFits,
       RunStepFits, FetchStepFits
  <2>2. ASSUME NEW other \in Runs, other # r PROVE RunFits(other)'
    <3>1. /\ run'[other] = run[other] /\ job'[other] = job[other] /\ saved'[other] = saved[other]
          /\ result'[other] = result[other] /\ effects'[other] = effects[other]
          /\ okSteps'[other] = okSteps[other] /\ crashes' = crashes
      <4>1. CASE Begin(r)
        BY <2>2, <4>1 DEF Begin, Types
      <4>2. CASE Start(r)
        BY <2>2, <4>2 DEF Start, Types
      <4>3. CASE ReuseResult(r)
        BY <2>2, <4>3 DEF ReuseResult, Types
      <4>4. CASE SaveInput(r) \/ WriteFails(r)
        BY <2>2, <4>4 DEF SaveInput, WriteFails, Types
      <4>5. CASE WriteResult(r)
        BY <2>2, <4>5 DEF WriteResult, Types
      <4>6. CASE Finish(r)
        BY <2>2, <4>6 DEF Finish, Types
      <4>7. CASE \E outcome \in Outcomes : RunStep(r, outcome)
        <5>1. PICK outcome \in Outcomes : RunStep(r, outcome)
          BY <4>7
        <5>2. UNCHANGED <<run, saved, result, crashes>>
          BY <5>1 DEF RunStep
        <5>3. job'[other] = job[other] /\ effects'[other] = effects[other]
              /\ okSteps'[other] = okSteps[other]
          BY <2>2, <5>1 DEF RunStep, Types
        <5> QED
          BY <5>2, <5>3
      <4>8. CASE \E answer \in {"final", "redirect", "error"} : FetchStep(r, answer)
        BY <2>2, <4>8 DEF FetchStep, Types
      <4> QED
        BY <4>1, <4>2, <4>3, <4>4, <4>5, <4>6, <4>7, <4>8
    <3> QED
      BY <3>1, RunKept
  <2> QED
    BY <2>1, <2>2
<1>5. CASE Restart
  BY <1>5, RestartFits
<1> QED
  BY <1>2, <1>3, <1>4, <1>5 DEF Next

-----------------------------------------------------------------------------
(* The stores *)

LEMMA StoresFit ==
  ASSUME Types, \A t \in Targets : StoreFits(t), Next
  PROVE  \A t \in Targets : StoreFits(t)'
<1>1. ASSUME UNCHANGED <<memory, file, told, stuck>> PROVE \A t \in Targets : StoreFits(t)'
  BY <1>1 DEF StoreFits
<1>2. CASE Execution
  BY <1>1, <1>2, ExecutionLeaves
<1>3. CASE Handlers
  BY <1>1, <1>3 DEF Handlers, SubmitTool, SubmitFetch, SubmitRemote, ResolveRemote, SetLastRun,
                    Enqueue, DropRequest, CreateRun, storeVars
<1>4. CASE Restart
  BY <1>4 DEF Restart, StoreFits
<1>5. ASSUME NEW t \in Targets, NEW state \in {"enabled", "disabled"},
             CreateTarget(t, state) \/ PatchTarget(t, state), NEW other \in Targets
      PROVE  StoreFits(other)'
  <2>1. /\ memory' = [memory EXCEPT ![t] = state] /\ file' = [file EXCEPT ![t] = state]
        /\ told' = [told EXCEPT ![t] = state] /\ stuck' = stuck
    BY <1>5 DEF CreateTarget, PatchTarget
  <2> QED
    BY <2>1 DEF Types, StoreFits
<1>6. ASSUME NEW e \in Endpoints, DeleteEndpoint(e), NEW other \in Targets
      PROVE  StoreFits(other)'
  BY <1>6 DEF DeleteEndpoint, Types, StoreFits, Targets
<1> QED
  BY <1>2, <1>3, <1>4, <1>5, <1>6 DEF Next, Stores

-----------------------------------------------------------------------------
(* The invariant is inductive. *)

LEMMA InitIInv == Init => IInv
<1> SUFFICES ASSUME Init PROVE IInv
  OBVIOUS
<1>1. Types
  BY InitTypes
<1>2. \A q \in Requests : HandlerFits(q)
  BY KeysAreKeys DEF Init, HandlerFits, NoRequest
<1>3. \A k \in Keys : KeyFits(k)
  BY KeysAreKeys DEF Init, KeyFits, PastLookup, NoRequest, Absent
<1>4. ASSUME NEW r \in Runs PROVE RunFits(r)
  <2>1. /\ run[r] = Absent /\ job[r] = NoJob /\ crashes = 0 /\ effects[r] = [s \in Steps |-> 0]
    BY DEF Init
  <2>2. /\ run[r].status = "ABSENT" /\ run[r].kind = "none" /\ run[r].key = NoKey
        /\ run[r].attempts = 0 /\ job[r].pc = "idle" /\ job[r].plan = <<>> /\ job[r].done = <<>>
    BY <2>1 DEF Absent, NoJob
  <2>3. Len(<<>>) = 0 /\ 1 .. 0 = {} /\ Range(<<>>) = {} /\ NoneTwice(<<>>)
    BY DEF Range, NoneTwice
  <2>4. AttemptsFit(r)
    BY <2>1, <2>2, KeysAreKeys DEF AttemptsFit
  <2>5. PlanFits(r) /\ DoneFits(r)
    BY <2>2, <2>3, BoundsAreNatural DEF PlanFits, DoneFits
  <2>6. ResultFits(r)
    BY <2>2 DEF ResultFits
  <2>7. EffectsFit(r)
    <3> SUFFICES ASSUME NEW s \in Steps PROVE effects[r][s] <= 0 * Cap(s)
      BY <2>2 DEF EffectsFit
    <3>1. effects[r][s] = 0 /\ Cap(s) \in Nat
      BY <2>1, CapIs
    <3> QED
      BY <3>1
  <2> QED
    BY <2>4, <2>5, <2>6, <2>7 DEF RunFits
<1>5. \A t \in Targets : StoreFits(t)
  BY DEF Init, StoreFits
<1> QED
  BY <1>1, <1>2, <1>3, <1>4, <1>5 DEF IInv

LEMMA NextIInv == IInv /\ [Next]_vars => IInv'
<1> SUFFICES ASSUME IInv, [Next]_vars PROVE IInv'
  OBVIOUS
<1>0. /\ Types /\ (\A q \in Requests : HandlerFits(q)) /\ (\A k \in Keys \ raced : KeyFits(k))
      /\ (\A r \in Runs : RunFits(r)) /\ (\A t \in Targets : StoreFits(t))
  BY DEF IInv
<1>1. CASE Next
  <2>1. Types'
    BY <1>0, <1>1, StoresTypes, HandlersTypes, ExecutionTypes, RestartTypes DEF Next
  <2>2. \A q \in Requests : HandlerFits(q)'
    BY <1>0, <1>1, HandlersFit
  <2>3. (\A k \in Keys \ raced : KeyFits(k))'
    BY <1>0, <1>1, KeysFit
  <2>4. \A r \in Runs : RunFits(r)'
    BY <1>0, <1>1, RunsFit
  <2>5. \A t \in Targets : StoreFits(t)'
    BY <1>0, <1>1, StoresFit
  <2> QED
    BY <2>1, <2>2, <2>3, <2>4, <2>5 DEF IInv
<1>2. CASE UNCHANGED vars
  <2>1. /\ UNCHANGED <<run, wake, req, memory, file, lastRun, told, stuck>>
        /\ UNCHANGED <<job, saved, result, effects, okSteps, raced, crashes>>
    BY <1>2 DEF vars, storeVars, workVars
  <2>2. Types'
    BY <1>0, <2>1 DEF Types
  <2>3. \A q \in Requests : HandlerFits(q)'
    BY <1>0, <2>1 DEF HandlerFits
  <2>4. (\A k \in Keys \ raced : KeyFits(k))'
    BY <1>0, <2>1 DEF KeyFits, PastLookup
  <2>5. \A r \in Runs : RunFits(r)'
    BY <1>0, <2>1, RunKept
  <2>6. \A t \in Targets : StoreFits(t)'
    BY <1>0, <2>1 DEF StoreFits
  <2> QED
    BY <2>2, <2>3, <2>4, <2>5, <2>6 DEF IInv
<1> QED
  BY <1>1, <1>2

LEMMA AlwaysIInv == Spec => []IInv
<1>1. Init => IInv
  BY InitIInv
<1>2. IInv /\ [Next]_vars => IInv'
  BY NextIInv
<1> QED
  BY <1>1, <1>2, PTL DEF Spec

-----------------------------------------------------------------------------
(* Type correctness of every state, with at most one attempt more than the
   process died. *)
THEOREM RunTypes == Spec => []TypeOK
<1>1. IInv => TypeOK
  <2> SUFFICES ASSUME IInv PROVE TypeOK
    OBVIOUS
  <2>1. Types /\ \A r \in Runs : RunFits(r)
    BY DEF IInv
  <2>2. run \in [Runs -> [status : {"ABSENT", "QUEUED", "RUNNING", "SUCCEEDED", "FAILED"},
                       kind : Kinds \union {"none"}, target : Targets \union {Nothing},
                       key : Keys \union {NoKey}, asked : {<<>>} \union {q.asked : q \in ToolRequests},
                       svg : BOOLEAN, attempts : 0 .. MaxCrashes + 1]]
    <3> SUFFICES ASSUME NEW r \in Runs
                 PROVE  run[r] \in [status : {"ABSENT", "QUEUED", "RUNNING", "SUCCEEDED", "FAILED"},
                       kind : Kinds \union {"none"}, target : Targets \union {Nothing},
                       key : Keys \union {NoKey}, asked : {<<>>} \union {q.asked : q \in ToolRequests},
                       svg : BOOLEAN, attempts : 0 .. MaxCrashes + 1]
      BY <2>1 DEF Types
    <3>1. run[r] \in RunRecord
      BY <2>1, RecordsAre
    <3>2. run[r].attempts <= 1 + crashes /\ crashes \in 0 .. MaxCrashes
      BY <2>1 DEF RunFits, AttemptsFit, Types
    <3>3. run[r].attempts \in 0 .. MaxCrashes + 1
      BY <2>1, <3>2, RecordsAre, BoundsAreNatural
    <3> QED
      BY <3>1, <3>3 DEF RunRecord, Asked
  <2>3. \A q \in Requests :
          /\ req[q].pc \in {"idle", "resolve", "create", "create_fetch", "last_run", "enqueue"}
          /\ req[q].kind \in Kinds \union {"none"} /\ req[q].run \in Runs \union {Nothing}
    BY <2>1 DEF Types, HandlerRecord
  <2>4. ASSUME NEW r \in Runs
        PROVE  /\ job[r].pc \in {"idle", "start", "steps", "saving", "torn", "written", "failing"}
               /\ Range(job[r].plan) \subseteq Steps /\ Range(job[r].done) \subseteq Outcomes
               /\ job[r].pc # "idle" => run[r].status = "RUNNING"
               /\ result[r] \in Outcomes \union {"none", "torn"}
               /\ effects[r] \in [Steps -> Nat] /\ okSteps[r] \subseteq Steps
    <3>1. job[r] \in JobRecord /\ job[r].plan \in Seq(Steps) /\ job[r].done \in Seq(Outcomes)
      BY <2>1, RecordsAre
    <3>2. Range(job[r].plan) \subseteq Steps /\ Range(job[r].done) \subseteq Outcomes
      BY <3>1, RangeOfSeq
    <3>3. job[r].pc \in {"idle", "start", "steps", "saving", "torn", "written", "failing"}
      BY <3>1 DEF JobRecord
    <3> QED
      BY <2>1, <3>2, <3>3 DEF Types, RunFits, AttemptsFit
  <2>5. /\ memory \in [Targets -> {"absent", "enabled", "disabled"}]
        /\ file \in [Targets -> {"absent", "enabled", "disabled"}]
        /\ lastRun \in [Endpoints -> Runs \union {Nothing}]
        /\ told \in [Targets -> {"absent", "enabled", "disabled", "deleted"}]
        /\ stuck \subseteq Endpoints /\ raced \subseteq Keys /\ wake \subseteq Runs
    BY <2>1 DEF Types
  <2> QED
    BY <2>2, <2>3, <2>4, <2>5 DEF TypeOK
<1> QED
  BY <1>1, AlwaysIInv, PTL

(* POST /api/executor-runs: two runs share an idempotency key only when the
   look-ups of their handlers overlapped.  A handler that has looked the key up
   keeps it free until it has created its run. *)
THEOREM KeysAreHonoured == Spec => []KeysHonouredUnlessRaced
<1>1. IInv => KeysHonouredUnlessRaced
  <2> SUFFICES ASSUME IInv, NEW r \in Runs, NEW other \in Runs,
                      run[r].key \in Keys \ raced, run[r].key = run[other].key
               PROVE  r = other
    BY DEF KeysHonouredUnlessRaced
  <2>1. KeyFits(run[r].key)
    BY DEF IInv
  <2> QED
    BY <2>1 DEF KeyFits
<1> QED
  BY <1>1, AlwaysIInv, PTL

(* What a run did outside the server is done again only by an attempt that
   follows a restart, a fetch keeps to its redirects in each, and an input
   whose result is saved is not handed to its tool again. *)
THEOREM RepeatsOnlyAfterRestart == Spec => []RepeatsNeedARestart
<1>1. IInv => RepeatsNeedARestart
  <2> SUFFICES ASSUME IInv PROVE RepeatsNeedARestart
    OBVIOUS
  <2>1. Types /\ \A r \in Runs : RunFits(r)
    BY DEF IInv
  <2>2. \A r \in Runs : run[r].attempts <= 1 + crashes
    BY <2>1 DEF RunFits, AttemptsFit
  <2>3. ASSUME NEW r \in Runs, NEW s \in Steps
        PROVE  effects[r][s] <= run[r].attempts * (IF s = "request" THEN MaxRedirects + 1 ELSE 1)
    <3> SUFFICES effects[r][s] <= run[r].attempts * Cap(s)
      BY DEF Cap
    <3>0. effects[r][s] \in Nat /\ run[r].attempts \in Nat /\ RunFits(r)
      BY <2>1, RecordsAre
    <3>1. CASE job[r].pc = "idle"
      BY <3>0, <3>1 DEF RunFits, EffectsFit
    <3>2. CASE job[r].pc # "idle"
      <4>0. run[r].attempts - 1 \in Nat
        BY <3>0, <3>2 DEF RunFits, AttemptsFit
      <4>1. effects[r][s] <= (run[r].attempts - 1) * Cap(s) + Spent(r, s)
        BY <3>0, <3>2 DEF RunFits, EffectsFit
      <4>2. Spent(r, s) \in Nat /\ Spent(r, s) <= Cap(s) /\ Cap(s) \in Nat
        BY <2>1, <3>0, SpentIs, CapIs DEF RunFits
      <4>3. /\ run[r].attempts * Cap(s) = (run[r].attempts - 1) * Cap(s) + Cap(s)
            /\ (run[r].attempts - 1) * Cap(s) \in Nat
        BY <3>0, <4>0, <4>2, Times
      <4> QED
        BY <3>0, <4>1, <4>2, <4>3
    <3> QED
      BY <3>1, <3>2
  <2>4. \A r \in Runs : \A s \in DOMAIN saved[r] :
          job[r].pc = "saving" => s # job[r].plan[Len(job[r].done)]
    BY <2>1 DEF RunFits, ResultFits
  <2> QED
    BY <2>2, <2>3, <2>4 DEF RepeatsNeedARestart
<1> QED
  BY <1>1, AlwaysIInv, PTL

(* A run that is SUCCEEDED has a whole result, and one that says OK stands for
   steps that all reported OK in the attempt that wrote it. *)
THEOREM ResultsTellTheTruth == Spec => []ResultTellsTheTruth
<1>1. IInv => ResultTellsTheTruth
  <2> SUFFICES ASSUME IInv, NEW r \in Runs
               PROVE  /\ ResultShown(r) \in Outcomes \union {"conflict"}
                      /\ ResultShown(r) = "OK" => Range(job[r].plan) \ {"svg"} \subseteq okSteps[r]
    BY DEF ResultTellsTheTruth
  <2>1. ResultFits(r)
    BY DEF IInv, RunFits
  <2> QED
    BY <2>1 DEF ResultFits, ResultShown
<1> QED
  BY <1>1, AlwaysIInv, PTL

(* The steps outside the server are the only ones with an effect there. *)
LEMMA EffectsChange ==
  ASSUME Types, [Next]_vars, NEW r \in Runs, effects'[r] # effects[r]
  PROVE  \/ \E outcome \in Outcomes : RunStep(r, outcome)
         \/ \E answer \in {"final", "redirect", "error"} : FetchStep(r, answer)
<1>1. effects' # effects
  OBVIOUS
<1>2. CASE UNCHANGED vars
  BY <1>1, <1>2 DEF vars, workVars
<1>3. CASE Stores
  BY <1>1, <1>3 DEF Stores, CreateTarget, PatchTarget, DeleteEndpoint, workVars
<1>4. CASE Handlers
  BY <1>1, <1>4 DEF Handlers, SubmitTool, SubmitFetch, SubmitRemote, ResolveRemote, SetLastRun,
                    Enqueue, DropRequest, CreateRun, workVars
<1>5. CASE Restart
  BY <1>1, <1>5 DEF Restart
<1>6. CASE Execution
  <2>1. PICK x \in Runs : \/ \E outcome \in Outcomes : RunStep(x, outcome)
                          \/ \E answer \in {"final", "redirect", "error"} : FetchStep(x, answer)
    BY <1>1, <1>6 DEF Execution, Begin, Start, ReuseResult, SaveInput, WriteResult, WriteFails, Finish
  <2>2. x = r
    BY <2>1 DEF RunStep, FetchStep, Types
  <2> QED
    BY <2>1, <2>2
<1> QED
  BY <1>2, <1>3, <1>4, <1>5, <1>6 DEF Next

(* The statement that announces a package is sent only by an attempt whose
   upload of the package succeeded. *)
THEOREM PackageComesFirst == Spec => PackageBeforeUpdate
<1>1. IInv /\ [Next]_vars =>
        [\A r \in Runs : effects'[r]["gaussdb_update"] # effects[r]["gaussdb_update"]
                           => "obs_put" \in okSteps[r]]_vars
  <2> SUFFICES ASSUME IInv, [Next]_vars, NEW r \in Runs,
                      effects'[r]["gaussdb_update"] # effects[r]["gaussdb_update"]
               PROVE  "obs_put" \in okSteps[r]
    OBVIOUS
  <2>0. Types /\ RunFits(r) /\ "gaussdb_update" \in Steps /\ "request" \in Steps
    BY CommandsAreSteps DEF IInv
  <2>1. \/ \E outcome \in Outcomes : RunStep(r, outcome)
        \/ \E answer \in {"final", "redirect", "error"} : FetchStep(r, answer)
    BY <2>0, EffectsChange
  <2>2. CASE \E answer \in {"final", "redirect", "error"} : FetchStep(r, answer)
    BY <2>0, <2>2 DEF FetchStep, Types
  <2>3. ASSUME NEW outcome \in Outcomes, RunStep(r, outcome)
        PROVE  "obs_put" \in okSteps[r]
    <3>1. /\ HasStep(r) /\ run[r].kind # "fetch" /\ run[r].kind \in Kinds
          /\ PlanFits(r) /\ DoneFits(r) /\ job[r] \in JobRecord
          /\ job[r].done \in Seq(Outcomes)
      BY <2>0, <2>3, RecordsAre DEF RunStep, RunFits, AttemptsFit
    <3>2. NextStep(r) \in Steps /\ effects' = [effects EXCEPT ![r][NextStep(r)] = @ + 1]
      BY <2>3, <3>1, NextStepIs DEF RunStep
    <3>3. NextStep(r) = "gaussdb_update"
      BY <2>0, <3>2 DEF Types
    <3>4. /\ Len(job[r].done) + 1 \in 1 .. Len(job[r].plan)
          /\ job[r].plan[Len(job[r].done) + 1] = "gaussdb_update"
      BY <3>1, <3>3, NextStepIs
    <3>5. run[r].kind = "huawei" /\ Len(job[r].done) + 1 = 2 /\ job[r].plan[1] = "obs_put"
      BY <2>0, <3>1, <3>4, StepsOfPlan
    <3>6. Range(job[r].done) \subseteq {"OK"}
      BY <3>1, <3>5 DEF HasStep, Stopped
    <3>7. Len(job[r].done) = 1 /\ 1 \in DOMAIN job[r].done
      <4>1. Len(job[r].done) \in Nat /\ DOMAIN job[r].done = 1 .. Len(job[r].done)
        BY <3>1
      <4>2. Len(job[r].done) + 1 = 2
        BY <3>5, Zenon
      <4>3. \A n \in Nat : n + 1 = 2 => n = 1
        OBVIOUS
      <4>4. Len(job[r].done) = 1
        BY <4>1, <4>2, <4>3
      <4> QED
        BY <4>1, <4>4
    <3>8. job[r].done[1] = "OK"
      BY <3>6, <3>7 DEF Range
    <3> QED
      BY <3>1, <3>5, <3>7, <3>8 DEF DoneFits
  <2> QED
    BY <2>1, <2>2, <2>3
<1> QED
  BY <1>1, AlwaysIInv, PTL DEF Spec, PackageBeforeUpdate

(* An attempt that found its endpoint or executor disabled or gone does nothing
   outside the server: also one that a restart brings back. *)
THEOREM DisabledTargetsStayQuiet == Spec => DisabledStaysQuiet
<1>1. IInv /\ [Next]_vars =>
        [\A r \in Runs : effects'[r] # effects[r] => job[r].seen = "enabled"]_vars
  <2> SUFFICES ASSUME IInv, [Next]_vars, NEW r \in Runs, effects'[r] # effects[r]
               PROVE  job[r].seen = "enabled"
    OBVIOUS
  <2>0. Types /\ RunFits(r)
    BY DEF IInv
  <2>1. job[r].pc = "steps"
    BY <2>0, EffectsChange DEF RunStep, FetchStep
  <2> QED
    BY <2>0, <2>1 DEF RunFits, ResultFits
<1> QED
  BY <1>1, AlwaysIInv, PTL DEF Spec, DisabledStaysQuiet

(* What the last answer said of an endpoint or an executor is what the server
   works with, after restarts too. *)
THEOREM AnswersOnTargetsSurvive == Spec => []AnsweredTargetsSurvive
<1>1. IInv => AnsweredTargetsSurvive
  BY DEF IInv, StoreFits, AnsweredTargetsSurvive
<1> QED
  BY <1>1, AlwaysIInv, PTL

=============================================================================
