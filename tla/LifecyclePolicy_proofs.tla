------------------------ MODULE LifecyclePolicy_proofs ------------------------
(***************************************************************************)
(* What normalization_transition returns, for every number of nodes.       *)
(***************************************************************************)
EXTENDS LifecyclePolicy, WellFoundedInduction, TLAPS

LEMMA LeastElement ==
  ASSUME NEW S \in SUBSET Nat, S # {}
  PROVE  \E n \in S : \A m \in S : n <= m
<1>1. PICK n \in S : \A m \in S : ~(<<m, n>> \in OpToRel(<, Nat))
  BY NatLessThanWellFounded, WFMin
<1>2. \A m \in S : ~(m < n)
  BY <1>1 DEF OpToRel
<1> QED BY <1>2

LEMMA GreatestElement ==
  ASSUME NEW bound \in Nat, NEW S \in SUBSET (0..bound), S # {}
  PROVE  \E n \in S : \A m \in S : m <= n
<1> DEFINE mirror == {bound - n : n \in S}
<1>1. \A n \in S : bound - n \in Nat
  OBVIOUS
<1>2. mirror \in SUBSET Nat /\ mirror # {}
  BY <1>1
<1>3. PICK k \in mirror : \A j \in mirror : k <= j
  <2> HIDE DEF mirror
  <2> QED BY <1>2, LeastElement
<1>4. PICK n \in S : k = bound - n
  OBVIOUS
<1>5. \A m \in S : k <= bound - m
  BY <1>3
<1> QED BY <1>4, <1>5

-------------------------------------------------------------------------------
\* Towards "inactive" there is no step exactly when no node is active; else the
\* step deactivates the last active node.
THEOREM StopsLastActive ==
  ASSUME NEW states \in [Node -> StableStates]
  PROVE  LET step == StopStep(states) IN
         /\ step = NoTransition <=> \A n \in Node : states[n] # "active"
         /\ step # NoTransition =>
              /\ step.node \in Node /\ step.label = "deactivate"
              /\ states[step.node] = "active"
              /\ \A m \in Node : m > step.node => states[m] # "active"
<1> DEFINE todo == {n \in Node : states[n] = "active"}
           first == CHOOSE n \in todo : \A m \in todo : m <= n
<1>1. /\ todo = {} => StopStep(states) = NoTransition
      /\ todo # {} => StopStep(states) = [node |-> first, label |-> "deactivate"]
  BY DEF StopStep
<1>2. todo = {} <=> \A n \in Node : states[n] # "active"
  OBVIOUS
<1>3. ASSUME todo # {}
      PROVE  /\ StopStep(states) # NoTransition
             /\ first \in todo /\ \A m \in todo : m <= first
  <2>1. todo \in SUBSET (0..N) /\ N \in Nat
    BY NAssumption DEF Node
  <2>2. StopStep(states).label = "deactivate"
    <3> HIDE DEF todo, first
    <3> QED BY <1>1, <1>3
  <2> HIDE DEF todo
  <2>3. \E n \in todo : \A m \in todo : m <= n
    BY <1>3, <2>1, GreatestElement
  <2> QED BY <2>2, <2>3 DEF NoTransition
<1>4. ASSUME todo # {}
      PROVE  \A m \in Node : m > first => states[m] # "active"
  <2>1. todo \subseteq Nat /\ Node \subseteq Nat
    BY NAssumption DEF Node
  <2>2. \A m \in Node : m \notin todo => states[m] # "active"
    OBVIOUS
  <2>3. first \in todo /\ \A m \in todo : m <= first
    BY <1>3, <1>4
  <2> HIDE DEF todo, first
  <2> QED BY <2>1, <2>2, <2>3
<1>5. CASE todo = {}
  BY <1>1, <1>2, <1>5
<1>6. CASE todo # {}
  <2>1. first \in Node /\ states[first] = "active"
    BY <1>3, <1>6
  <2> HIDE DEF todo, first
  <2> QED BY <1>1, <1>2, <1>3, <1>4, <1>6, <2>1
<1> QED BY <1>5, <1>6

\* Towards "active" there is no step exactly when every node is active; else the
\* step advances the first node that is not, by the transition out of its state.
THEOREM StartsFirstStopped ==
  ASSUME NEW states \in [Node -> StableStates]
  PROVE  LET step == StartStep(states) IN
         /\ step = NoTransition <=> \A n \in Node : states[n] = "active"
         /\ step # NoTransition =>
              /\ step.node \in Node /\ step.label \in {"configure", "activate"}
              /\ Source(step.label) = states[step.node]
              /\ \A m \in Node : m < step.node => states[m] = "active"
<1> DEFINE todo == {n \in Node : states[n] # "active"}
           first == CHOOSE n \in todo : \A m \in todo : n <= m
           label == IF states[first] = "unconfigured" THEN "configure" ELSE "activate"
<1>1. /\ todo = {} => StartStep(states) = NoTransition
      /\ todo # {} => StartStep(states) = [node |-> first, label |-> label]
  BY DEF StartStep
<1>2. todo = {} <=> \A n \in Node : states[n] = "active"
  OBVIOUS
<1>3. ASSUME todo # {}
      PROVE  /\ StartStep(states) # NoTransition
             /\ first \in todo /\ \A m \in todo : first <= m
  <2>1. todo \in SUBSET Nat
    BY NAssumption DEF Node
  <2>2. StartStep(states).label \in {"configure", "activate"}
    <3>1. label \in {"configure", "activate"}
      OBVIOUS
    <3> HIDE DEF todo, first, label
    <3> QED BY <1>1, <1>3, <3>1
  <2> HIDE DEF todo
  <2>3. \E n \in todo : \A m \in todo : n <= m
    BY <1>3, <2>1, LeastElement
  <2> QED BY <2>2, <2>3 DEF NoTransition
<1>4. ASSUME todo # {}
      PROVE  \A m \in Node : m < first => states[m] = "active"
  <2>1. todo \subseteq Nat /\ Node \subseteq Nat
    BY NAssumption DEF Node
  <2>2. \A m \in Node : m \notin todo => states[m] = "active"
    OBVIOUS
  <2>3. first \in todo /\ \A m \in todo : first <= m
    BY <1>3, <1>4
  <2> HIDE DEF todo, first
  <2> QED BY <2>1, <2>2, <2>3
<1>5. CASE todo = {}
  BY <1>1, <1>2, <1>5
<1>6. CASE todo # {}
  <2>1. first \in Node /\ states[first] \in {"unconfigured", "inactive"}
    BY <1>3, <1>6 DEF StableStates
  <2>2. label \in {"configure", "activate"} /\ Source(label) = states[first]
    <3> HIDE DEF first
    <3> QED BY <2>1 DEF Source
  <2> HIDE DEF todo, first, label
  <2> QED BY <1>1, <1>2, <1>3, <1>4, <1>6, <2>1, <2>2
<1> QED BY <1>5, <1>6
=============================================================================
