--------------------------- MODULE DataflowProofs ---------------------------
(***************************************************************************)
(* The nodes a completed execution has reached are the least closed set of *)
(* nodes, for every graph and whatever fires, or is lost, together.        *)
(***************************************************************************)
EXTENDS Dataflow, TLAPS

\* Firing more nodes keeps a live edge live, as long as the handles of the
\* nodes that had fired stay.
LEMMA LiveMonotone ==
  ASSUME NEW E, NEW S, NEW T, NEW g, NEW h, NEW n,
         S \subseteq T, \A m \in S : h[m] = g[m], ShouldExecute(E, S, g, n)
  PROVE  ShouldExecute(E, T, h, n)
BY DEF ShouldExecute, Live

LEMMA TypeInit == Init => TypeOK
BY DEF Init, TypeOK

LEMMA TypeNext == TypeOK /\ [Next]_vars => TypeOK'
<1> SUFFICES ASSUME TypeOK, [Next]_vars PROVE TypeOK'
  OBVIOUS
<1> USE DEF TypeOK
<1>1. CASE Fire
  <2>0. PICK S \in SUBSET Nodes : \E L \in SUBSET (S \cap Silent) : \E h \in [S \ L -> OutputHandles] :
          /\ \A n \in S : CanFire(n)
          /\ done' = done \cup (S \ L) /\ lost' = lost \cup L
          /\ out' = [n \in Nodes |-> IF n \in S \ L THEN h[n] ELSE out[n]]
    BY <1>1 DEF Fire
  <2>1. PICK L \in SUBSET (S \cap Silent) : \E h \in [S \ L -> OutputHandles] :
          /\ \A n \in S : CanFire(n)
          /\ done' = done \cup (S \ L) /\ lost' = lost \cup L
          /\ out' = [n \in Nodes |-> IF n \in S \ L THEN h[n] ELSE out[n]]
    BY <2>0
  <2>2. PICK h \in [S \ L -> OutputHandles] :
          out' = [n \in Nodes |-> IF n \in S \ L THEN h[n] ELSE out[n]]
    BY <2>1
  <2>3. out' \in [Nodes -> OutputHandles \cup {"none"}]
    BY <2>2
  <2>4. S \cap done = {} /\ S \cap lost = {}
    BY <2>1 DEF CanFire, Reached
  <2>5. done' \subseteq Nodes /\ lost' \subseteq Nodes \cap Silent /\ done' \cap lost' = {}
    BY <2>1, <2>4
  <2> QED BY <1>1, <2>3, <2>5 DEF Fire
<1>2. CASE Complete
  BY <1>2 DEF Complete
<1>3. CASE GiveUp
  BY <1>3 DEF GiveUp
<1>4. CASE UNCHANGED vars
  BY <1>4 DEF vars
<1> QED BY <1>1, <1>2, <1>3, <1>4 DEF Next

\* What fires is made to fire by what had been reached: a set that is closed up to the
\* new nodes contains the old ones, hence the new ones.
LEMMA FireKeepsWellFounded == TypeOK /\ WellFounded /\ Fire => WellFounded'
<1> SUFFICES ASSUME TypeOK, WellFounded, Fire PROVE WellFounded'
  OBVIOUS
<1>1. PICK S \in SUBSET Nodes, L \in SUBSET Silent : \E h \in [S \ L -> OutputHandles] :
        /\ L \subseteq S /\ \A n \in S : CanFire(n)
        /\ done' = done \cup (S \ L) /\ lost' = lost \cup L
        /\ out' = [n \in Nodes |-> IF n \in S \ L THEN h[n] ELSE out[n]]
  BY DEF Fire
<1>2. S \cap Reached = {} /\ Reached' = Reached \cup S
  BY <1>1 DEF CanFire, Reached
<1>3. \A n \in done : out'[n] = out[n]
  BY <1>1, <1>2 DEF TypeOK, Reached
<1>4. edges' = edges
  BY DEF Fire
<1>5. done \cap lost = {} /\ done \cap lost' = {}
  BY <1>1, <1>2 DEF TypeOK, Reached
<1> SUFFICES ASSUME NEW T \in SUBSET Reached',
                    \A n \in Reached' : FollowsFrom(T, n)' => n \in T
             PROVE  T = Reached'
  BY DEF WellFounded, FollowsFrom
<1>6. Reached \subseteq T
  <2> DEFINE U == T \cap Reached
  <2>1. ASSUME NEW n \in Reached, FollowsFrom(U, n) PROVE n \in U
    <3>1. U \ lost \subseteq T \ lost' /\ \A m \in U \ lost : out'[m] = out[m]
      BY <1>1, <1>2, <1>3 DEF Reached
    <3>2. Deps(edges, n) \subseteq U /\ ShouldExecute(edges, U \ lost, out, n)
      BY <2>1 DEF FollowsFrom
    <3>3. U \subseteq T
      OBVIOUS
    <3> HIDE DEF U
    <3>4. ShouldExecute(edges, T \ lost', out', n)
      BY <3>1, <3>2, LiveMonotone
    <3>5. FollowsFrom(T, n)'
      BY <1>4, <3>2, <3>3, <3>4 DEF FollowsFrom
    <3>6. n \in T
      BY <1>2, <3>5
    <3> QED BY <3>6 DEF U
  <2>2. U = Reached
    <3>1. U \in SUBSET Reached
      OBVIOUS
    <3> HIDE DEF U
    <3> QED BY <2>1, <3>1 DEF WellFounded
  <2> QED BY <2>2
<1>7. ASSUME NEW n \in S PROVE n \in T
  <2>1. Deps(edges, n) \subseteq Reached /\ ShouldExecute(edges, done, out, n)
    BY <1>1, <1>7 DEF CanFire
  <2>2. done \subseteq T \ lost'
    BY <1>5, <1>6 DEF Reached
  <2>3. ShouldExecute(edges, T \ lost', out', n)
    BY <1>3, <2>1, <2>2, LiveMonotone
  <2>4. FollowsFrom(T, n)'
    BY <1>4, <1>6, <2>1, <2>3 DEF FollowsFrom
  <2> QED BY <1>2, <2>4
<1> QED BY <1>2, <1>6, <1>7

LEMMA WellFoundedNext == TypeOK /\ WellFounded /\ [Next]_vars => WellFounded'
<1>1. ASSUME UNCHANGED <<edges, done, lost, out>>, WellFounded PROVE WellFounded'
  <2>1. Reached' = Reached /\ \A S, n : FollowsFrom(S, n)' <=> FollowsFrom(S, n)
    BY <1>1 DEF Reached, FollowsFrom
  <2> QED BY <1>1, <2>1 DEF WellFounded
<1> QED BY <1>1, FireKeepsWellFounded DEF Next, Complete, GiveUp, vars

\* A completed execution has nothing left to fire.
Exhausted == outcome = "completed" => \A n \in Nodes : ~CanFire(n)

LEMMA ExhaustedNext == Exhausted /\ [Next]_vars => Exhausted'
BY DEF Exhausted, Next, Fire, Complete, GiveUp, vars, CanFire, Reached

LEMMA LeastOf == TypeOK /\ WellFounded /\ Exhausted => LeastFixpoint
<1> SUFFICES ASSUME TypeOK, WellFounded, Exhausted, outcome = "completed"
             PROVE  Closed(Reached) /\ \A S \in SUBSET Nodes : Closed(S) => Reached \subseteq S
  BY DEF LeastFixpoint
<1>1. Closed(Reached)
  <2>1. Reached \ lost = done
    BY DEF Reached, TypeOK
  <2> QED BY <2>1 DEF Exhausted, Closed, CanFire, FollowsFrom
<1>2. ASSUME NEW S \in SUBSET Nodes, Closed(S) PROVE Reached \subseteq S
  <2> DEFINE U == S \cap Reached
  <2>1. ASSUME NEW n \in Reached, FollowsFrom(U, n) PROVE n \in U
    <3>1. U \ lost \subseteq S \ lost /\ U \subseteq S
      OBVIOUS
    <3>2. n \in Nodes
      BY DEF Reached, TypeOK
    <3> HIDE DEF U
    <3>3. Deps(edges, n) \subseteq S /\ ShouldExecute(edges, S \ lost, out, n)
      BY <2>1, <3>1, LiveMonotone DEF FollowsFrom
    <3>4. n \in S
      BY <1>2, <3>2, <3>3 DEF Closed, FollowsFrom
    <3> QED BY <3>4 DEF U
  <2>2. U \in SUBSET Reached
    OBVIOUS
  <2> HIDE DEF U
  <2>3. U = Reached
    BY <2>1, <2>2 DEF WellFounded
  <2> QED BY <2>3 DEF U
<1> QED BY <1>1, <1>2

IInv == TypeOK /\ WellFounded /\ Exhausted

LEMMA Invariance == Spec => []IInv
<1>1. Init => IInv
  BY TypeInit DEF Init, IInv, WellFounded, Exhausted, Reached
<1>2. IInv /\ [Next]_vars => IInv'
  BY TypeNext, WellFoundedNext, ExhaustedNext DEF IInv
<1> QED BY <1>1, <1>2, PTL DEF Spec

\* Every variable of the abstract execution stays in its range.
THEOREM TypeCorrect == Spec => []TypeOK
<1>1. IInv => TypeOK
  BY DEF IInv
<1> QED BY <1>1, Invariance, PTL

\* No node was reached in a circle: each one that was follows from others.
THEOREM FiredForAReason == Spec => []WellFounded
<1>1. IInv => WellFounded
  BY DEF IInv
<1> QED BY <1>1, Invariance, PTL

\* Which nodes a completed execution has reached depends on the handles its nodes
\* chose and on those that were lost, never on their timing or on how many ran at once.
THEOREM Determinate == Spec => []LeastFixpoint
<1>1. IInv => LeastFixpoint
  BY LeastOf DEF IInv
<1> QED BY <1>1, Invariance, PTL
=============================================================================
