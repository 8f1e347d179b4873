------------------------------ MODULE Optimizer ------------------------------
(***************************************************************************)
(* The constrained NSGA-II search of analytics/optimization.py.            *)
(*                                                                         *)
(* A genome is a member of a small set, rounded as the cache rounds it, and *)
(* Evaluation holds what the simulator answers for it; so the number of    *)
(* evaluations is the number of genomes in the cache.  The random draws    *)
(* (initial population, parents, crossover, mutation) come from given sets. *)
(* Where two individuals sort alike the one that stands first comes first; *)
(* in a later front the code takes the one that was ranked first.          *)
(***************************************************************************)
EXTENDS Integers, Sequences, FiniteSets, FiniteSetsExt, Functions

CONSTANTS
  Evaluation,           \* genome -> [objectives, violation, score]
  InitialPopulations,   \* sequences of PopulationSize genomes
  Children,             \* pairs of genomes that crossover and mutation may draw
  PopulationSize,       \* even
  MaxGenerations,
  MaxEvaluations,
  LeverCount,
  Patience,             \* convergence_patience
  Tolerance             \* convergence_tolerance

VARIABLES
  evaluated,    \* keys of the evaluation cache
  population,   \* sequence of [genome, rank]
  offspring,    \* genomes of the generation in the making
  history,      \* best weighted score of each generation, as a set of at most one
  search,       \* "running", "converged", "exhausted" or "answered"
  answer        \* the OptimizationResult, as a set of at most one

optimizerVars == <<evaluated, population, offspring, history, search, answer>>

Genomes == DOMAIN Evaluation
Objectives(g) == Evaluation[g].objectives     \* sign-adjusted: smaller is better
FeasibleGenome(g) == Evaluation[g].violation = 0
ObjectiveNames == UNION {DOMAIN Objectives(g) : g \in Genomes}

\* What OptimizationConfig validates; an evaluation has every metric, as a finite number.
ASSUME OptimizerAssumption ==
  /\ IsFiniteSet(Genomes)
  /\ IsFiniteSet(ObjectiveNames) /\ ObjectiveNames # {}
  /\ \A g \in Genomes :
       /\ Objectives(g) \in [ObjectiveNames -> Int]
       /\ Evaluation[g].violation \in Nat /\ Evaluation[g].score \in Int
  /\ PopulationSize \in Nat \ {0} /\ PopulationSize % 2 = 0
  /\ InitialPopulations \subseteq [1..PopulationSize -> Genomes]
  /\ Children \subseteq Genomes \X Genomes
  /\ {MaxGenerations, MaxEvaluations, LeverCount, Patience, Tolerance} \subseteq Nat

ParetoDominates(g, h) ==
  /\ \A m \in DOMAIN Objectives(g) : Objectives(g)[m] <= Objectives(h)[m]
  /\ \E m \in DOMAIN Objectives(g) : Objectives(g)[m] < Objectives(h)[m]
-----------------------------------------------------------------------------
(* Wrong variants, each named for the bug it plants, for mutation runs.    *)

BudgetOverrunByOne == Cardinality(evaluated) > MaxEvaluations
CrowdingLeftAtZero(genomes, front, i) == [end |-> FALSE, gap |-> 0]
-----------------------------------------------------------------------------
\* _dominates: constraint domination.
DominatesGenome(g, h) ==
  \/ FeasibleGenome(g) /\ ~FeasibleGenome(h)
  \/ FeasibleGenome(g) /\ FeasibleGenome(h) /\ ParetoDominates(g, h)
  \/ /\ ~FeasibleGenome(g) /\ ~FeasibleGenome(h)
     /\ Evaluation[g].violation < Evaluation[h].violation

\* _fast_non_dominated_sort: an individual enters the front after the last of
\* the individuals that dominate it.  Copies share their front, so a front is
\* the one of a genome in the set of genomes present.
Ranks ==
  [pool \in SUBSET Genomes |->
     LET rank[g \in pool] ==
           LET above == {h \in pool : DominatesGenome(h, g)}
           IN IF above = {} THEN 0 ELSE 1 + Max({rank[h] : h \in above})
     IN rank]

\* The positions of a front that come before position i in the order of objective m.
LowerPositions(genomes, front, i, m) ==
  {j \in front : LET a == Objectives(genomes[j])[m]
                     b == Objectives(genomes[i])[m]
                 IN a < b \/ (a = b /\ j < i)}

\* Whether position i is at an end of a front for some objective: infinite distance.
AtEnd(genomes, front, i) ==
  \E m \in DOMAIN Objectives(genomes[i]) :
    LowerPositions(genomes, front, i, m) \in {{}, front \ {i}}

\* Otherwise its gaps, each over the span of its objective, brought to the product of
\* the spans.
GapSum(genomes, front, i) ==
  LET Values(positions, m) == {Objectives(genomes[j])[m] : j \in positions}
      Lower(m) == LowerPositions(genomes, front, i, m)
      Upper(m) == front \ (Lower(m) \cup {i})
      span == [m \in DOMAIN Objectives(genomes[i]) |->
                 Max(Values(front, m)) - Min(Values(front, m))]
      wide == {m \in DOMAIN span : span[m] > 0}
      gap == [m \in wide |-> (Min(Values(Upper(m), m)) - Max(Values(Lower(m), m)))
                               * FoldFunctionOnSet(LAMBDA a, b : a * b, 1, span, wide \ {m})]
  IN SumFunctionOnSet(gap, wide)

\* _assign_crowding, for position i of a front.
Crowding(genomes, front, i) ==
  LET end == AtEnd(genomes, front, i)
  IN [end |-> end, gap |-> IF end THEN 0 ELSE GapSum(genomes, front, i)]

\* Position i of the combined population, with its rank and its crowding in its front.
Placed(genomes, rank, i) ==
  LET front == {j \in DOMAIN genomes : rank[genomes[j]] = rank[genomes[i]]}
  IN [genome |-> genomes[i], rank |-> rank[genomes[i]], at |-> i,
      room |-> Crowding(genomes, front, i)]

\* The key of _select_next_generation: lower rank, then greater distance.
Ahead(x, y) ==
  \/ x.rank < y.rank
  \/ /\ x.rank = y.rank
     /\ \/ x.room.end /\ ~y.room.end
        \/ x.room.end = y.room.end /\ x.room.gap > y.room.gap
        \/ x.room = y.room /\ x.at < y.at

\* Its order: whoever has p - 1 ahead stands at p.
Sorted(genomes, rank) ==
  LET placed == {Placed(genomes, rank, i) : i \in DOMAIN genomes}
  IN [p \in DOMAIN genomes |->
        CHOOSE x \in placed : Cardinality({y \in placed : Ahead(y, x)}) = p - 1]

\* The feasible first front, of a population or of the deduplicated result.
FrontOf(individuals) == {x \in individuals : x.rank = 0 /\ FeasibleGenome(x.genome)}
BestScore(individuals) ==
  IF individuals = {} THEN {} ELSE {Max({Evaluation[x.genome].score : x \in individuals})}

\* _has_converged, over the last Patience + 1 generations that have a score.
Converged(scores) ==
  LET finite == {i \in Len(scores) - Patience .. Len(scores) : scores[i] # {}}
      values == UNION {scores[i] : i \in finite}
  IN /\ Len(scores) > Patience
     /\ Cardinality(finite) > 1
     /\ Max(values) - Min(values) <= Tolerance

BudgetSpent == Cardinality(evaluated) >= MaxEvaluations
GenerationComplete ==
  Len(offspring) = PopulationSize \/ (offspring # <<>> /\ BudgetSpent)
-----------------------------------------------------------------------------
OptimizerInit ==
  \E drawn \in InitialPopulations :
    /\ evaluated = Range(drawn)
    /\ population = [p \in 1..PopulationSize |->
                       [genome |-> drawn[p], rank |-> Ranks[Range(drawn)][drawn[p]]]]
    /\ offspring = <<>> /\ history = <<>> /\ search = "running" /\ answer = {}

\* One turn of the loop of _reproduce: two children of two parents.
Reproduce(g, h) ==
  /\ search = "running"
  /\ ~GenerationComplete
  /\ offspring' = offspring \o <<g, h>>
  /\ evaluated' = evaluated \cup {g, h}
  /\ UNCHANGED <<population, history, search, answer>>

\* The rest of a turn of the loop of optimize_policies.
Select ==
  /\ search = "running"
  /\ GenerationComplete
  /\ \E combined \in {[p \in 1..PopulationSize |-> population[p].genome] \o offspring} :
       \E rank \in {Ranks[Range(combined)]} : \E order \in {Sorted(combined, rank)} :
          population' = [p \in 1..PopulationSize |->
                           [genome |-> order[p].genome, rank |-> order[p].rank]]
  /\ offspring' = <<>>
  /\ history' = Append(history, BestScore(FrontOf(Range(population'))))
  /\ search' = IF Converged(history') THEN "converged"
               ELSE IF BudgetSpent \/ Len(history') = MaxGenerations THEN "exhausted"
               ELSE "running"
  /\ UNCHANGED <<evaluated, answer>>

\* _build_result: a recommendation is probed on both sides of every lever
\* (_sensitivity), through the cache and without a look at the budget.
BuildResult(probes) ==
  LET front == FrontOf(Range(population))
  IN /\ search \in {"converged", "exhausted"}
     /\ Cardinality(probes) <= IF front = {} THEN 0 ELSE 2 * LeverCount
     /\ \E chosen \in SUBSET front :
          /\ Cardinality(chosen) = IF front = {} THEN 0 ELSE 1
          /\ \A x \in chosen : {Evaluation[x.genome].score} = BestScore(front)
          /\ answer' = {[candidates |-> Range(population), recommended |-> chosen,
                         searched |-> evaluated, converged |-> search = "converged",
                         evaluations |-> Cardinality(evaluated \cup probes)]}
     /\ evaluated' = evaluated \cup probes
     /\ search' = "answered"
     /\ UNCHANGED <<population, offspring, history>>

OptimizerNext ==
  \/ \E pair \in Children : Reproduce(pair[1], pair[2])
  \/ Select
  \/ \E probes \in SUBSET Genomes : BuildResult(probes)

OptimizerSpec == OptimizerInit /\ [][OptimizerNext]_optimizerVars
-----------------------------------------------------------------------------
\* The evaluation budget is soft, but by a fixed amount: a generation that starts
\* below it may overrun it by the two children of a pair, the first pair is never
\* refused, and only the sensitivity probes come on top.
OverrunIsBounded ==
  Cardinality(evaluated) <= Max({PopulationSize + 2, MaxEvaluations + 1})
                              + (IF search = "answered" THEN 2 * LeverCount ELSE 0)

\* Selection between the generations loses nothing it must keep, although the
\* population is truncated by crowding: for every objective, the best feasible
\* policy ever evaluated is in the population (or an equal), with the rank its
\* company gives it.
NothingGoodIsLost ==
  /\ search # "answered" /\ offspring = <<>> =>
       \A g \in {e \in evaluated : FeasibleGenome(e)} : \A m \in DOMAIN Objectives(g) :
         \E x \in Range(population) :
           /\ FeasibleGenome(x.genome) /\ x.rank = 0
           /\ Objectives(x.genome)[m] <= Objectives(g)[m]
  /\ \A x \in Range(population) :
       x.rank = Ranks[{y.genome : y \in Range(population)}][x.genome]

\* What the search promises whoever asks for a policy: it ends within its budget
\* and a fixed overrun, loses no extreme feasible policy on its way, and so
\* recommends a policy exactly if it ever evaluated a feasible one, with no
\* candidate beside it that dominates it.
SearchIsSound ==
  /\ OverrunIsBounded
  /\ NothingGoodIsLost
  /\ \A r \in answer :
       /\ r.recommended # {} <=> \E g \in r.searched : FeasibleGenome(g)
       /\ \A x \in r.recommended, y \in r.candidates :
            ~DominatesGenome(y.genome, x.genome)
=============================================================================
