---------------------------- MODULE BalanceWeights --------------------------
(***************************************************************************)
(* LoadBalanceThread of tarsregistry.  Every _loadInterval it reads the    *)
(* last minutes' rows of tarsstat for the servants with dynamic weights,   *)
(* one row or several for each host, makes weights of them, and puts       *)
(* them in the place of the former ones; a query for a servant gives its   *)
(* endpoints these weights.  One servant is modelled.                      *)
(***************************************************************************)
EXTENDS Integers, FiniteSetsExt, SequencesExt

CONSTANTS
  Host,
  Rows,          \* the rows that tarsstat may hold, as sequences
  TimeShare,     \* _mapLoad2Proportion
  TimeoutShare,
  Half           \* half the range of an int: 2^31 in the code

VARIABLES
  used,      \* the rows that _loadCache was made of
  weights,   \* the reader's _loadCache: weights of the hosts
  endpoints  \* _objectsCache: weight types and weights of the endpoints

vars == <<used, weights, endpoints>>

DEFAULT_WEIGHT == 100
MIN_WEIGHT == 10
WEIGHT_PERCENT_UNIT == 100
TIMEOUT_WEIGHT_FACTOR == 90

TypeOK ==
  /\ used \in Rows \cup {<<>>}
  /\ weights \in [DOMAIN weights -> Int]
  /\ endpoints \in [Host -> [type : {"loop", "dynamic"}, weight : Nat]]

Init ==
  /\ used = <<>> /\ weights = [h \in {} |-> 0]
  /\ endpoints \in [Host -> [type : {"loop", "dynamic"}, weight : {0, 1}]]

-----------------------------------------------------------------------------
Hosts(s) == {s[i].host : i \in DOMAIN s}
Of(s, h) == {i \in DOMAIN s : s[i].host = h}
succCount(s, h) == MapThenSumSet(LAMBDA i : s[i].succ, Of(s, h))
timeoutCount(s, h) == MapThenSumSet(LAMBDA i : s[i].timeout, Of(s, h))
timeSum(s, h) == MapThenSumSet(LAMBDA i : s[i].time, Of(s, h))

mergeLoadInfo_Wrong(s, h) == timeSum(s, h)

\* The rows of one host become one: counts are added up, times averaged.
mergeLoadInfo(s, h) == timeSum(s, h) \div Cardinality(Of(s, h))

aveTimeSum(s) == MapThenSumSet(LAMBDA h : mergeLoadInfo(s, h), Hosts(s))

\* An int that has run over.
Int32(x) == ((x + Half) % (2 * Half)) - Half

aveTimeWeight(s, h) ==
  LET sum == aveTimeSum(s)
      product == Int32(DEFAULT_WEIGHT * Cardinality(Hosts(s)) * (sum - mergeLoadInfo(s, h)))
  IN  IF sum = 0 \/ product < sum THEN 0 ELSE product \div sum

timeoutRateWeight(s, h) ==
  LET succ == succCount(s, h)
      timeouts == timeoutCount(s, h)
  IN  IF succ # 0
      THEN DEFAULT_WEIGHT - (timeouts * TIMEOUT_WEIGHT_FACTOR) \div (succ + timeouts)
      ELSE IF timeouts # 0 THEN MIN_WEIGHT ELSE DEFAULT_WEIGHT

calculateWeight(s, h) ==
  LET time == IF aveTimeWeight(s, h) = 0 THEN MIN_WEIGHT ELSE aveTimeWeight(s, h)
  IN  (time * TimeShare) \div WEIGHT_PERCENT_UNIT
        + (timeoutRateWeight(s, h) * TimeoutShare) \div WEIGHT_PERCENT_UNIT

\* getAllDynamicWeightServant looks at the first endpoint's type alone.
Asked == LET first == CHOOSE h \in Host : TRUE IN endpoints[first].type = "dynamic"

\* What is loaded replaces the former weights, also when it is nothing: the
\* servant was not asked for, or the database did not answer.  The rows are
\* those under the servant's name or, if there are none, its server's.
updateDynamicWeight(rows) ==
  /\ used' = IF Asked THEN rows ELSE <<>>
  /\ weights' = [h \in Hosts(used') |-> calculateWeight(used', h)]
  /\ UNCHANGED endpoints

\* What a query for the servant is answered now: a host without rows keeps its
\* weight, and nobody is left with the weight 0.
getDynamicWeight_One(e, h) ==
  LET given == IF h \in DOMAIN weights THEN [type |-> "static", weight |-> weights[h]] ELSE e
  IN  IF given.weight = 0 THEN [given EXCEPT !.type = "loop"] ELSE given

getDynamicWeight ==
  [h \in Host |->
     CASE endpoints[h].type # "dynamic" -> endpoints[h]
       [] used = <<>> -> [endpoints[h] EXCEPT !.type = "loop"]
       [] OTHER -> getDynamicWeight_One(endpoints[h], h)]

Next == \E rows \in Rows \cup {<<>>} : updateDynamicWeight(rows)

Spec == Init /\ [][Next]_vars

-----------------------------------------------------------------------------
\* Host h is no better than g: neither faster nor with fewer of its calls timed
\* out, by the rows themselves.
NoBetter(s, h, g) ==
  LET calls(k) == succCount(s, k) + timeoutCount(s, k)
  IN  /\ timeSum(s, h) * Cardinality(Of(s, g)) >= timeSum(s, g) * Cardinality(Of(s, h))
      /\ calls(g) = 0 \/ (calls(h) # 0 /\ timeoutCount(s, h) * calls(g) >= timeoutCount(s, g) * calls(h))

Overflows(s) == DEFAULT_WEIGHT * Cardinality(Hosts(s)) * aveTimeSum(s) >= Half

\* Of two hosts that are given dynamic weights the one that does no better never
\* gets the larger weight, however many rows each has; unless the times are so
\* long that a product of calculateWeight runs over.
Balanced ==
  LET s == used
      dynamic == {h \in Hosts(s) : endpoints[h].type = "dynamic"}
      answer == getDynamicWeight
  IN  Overflows(s) \/ \A h, g \in dynamic :
        NoBetter(s, h, g) => answer[h].weight <= answer[g].weight
=============================================================================
