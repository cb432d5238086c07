------------------------ MODULE TxCostTracker_proofs ------------------------
(***************************************************************************)
(* Proofs about module TxCostTracker, for any number of processes and      *)
(* submissions and any size of a poll.                                     *)
(***************************************************************************)
EXTENDS TxCostTracker, FiniteSetTheorems, WellFoundedInduction, TLAPS

\* A tracker about to update a row has found its transaction in a block.
UpdateInv ==
    \A t \in Trackers, s \in Sub : at[t] = "update" /\ Oldest(t, s) => outcome[s] \in Landed

\* The inductive invariant.
IInv == TypeOK /\ UpdateInv /\ ResolvedIsReal

\* The step keeps the fee and the outcome of every transaction that landed.
Kept == \A s \in Sub : outcome[s] \in Landed => outcome'[s] = outcome[s] /\ fee'[s] = fee[s]

\* Types are kept by the world outside the trackers.
LEMMA WorldTypes ==
    ASSUME TypeOK, Age \/ \E s \in Sub : Insert(s) \/ Land(s) \/ Drop(s)
    PROVE  TypeOK'
<1>1. CASE Age
  BY <1>1, TrackerAssumption DEF Age, TypeOK
<1>2. ASSUME NEW s \in Sub, Insert(s) PROVE TypeOK'
  BY <1>2 DEF Insert, TypeOK
<1>3. ASSUME NEW s \in Sub, Land(s) PROVE TypeOK'
  BY <1>3 DEF Land, TypeOK, Outcome, Landed
<1>4. ASSUME NEW s \in Sub, Drop(s) PROVE TypeOK'
  BY <1>4 DEF Drop, TypeOK, Outcome
<1> QED BY <1>1, <1>2, <1>3, <1>4

\* Types are kept by every step of a tracker.
LEMMA TrackTypes ==
    ASSUME TypeOK, UpdateInv, NEW t \in Trackers, Track(t)
    PROVE  TypeOK'
<1>1. CASE Poll(t)
  <2>1. GetUnresolved \in SUBSET Sub
    BY DEF GetUnresolved, Unresolved
  <2> QED BY <1>1, <2>1 DEF Poll, TypeOK
<1>2. CASE Done(t) \/ Restart(t)
  BY <1>2 DEF Done, Restart, TypeOK
<1>3. ASSUME NEW s \in Sub, NextRow(t, s) PROVE batch' \in [Trackers -> SUBSET Sub] /\ at' \in [Trackers -> {"poll", "track", "update"}]
  BY <1>3 DEF NextRow, TypeOK
<1>4. ASSUME NEW s \in Sub, Expire(t, s) PROVE TypeOK'
  BY <1>3, <1>4 DEF Expire, ExpirePending, TypeOK
<1>5. ASSUME NEW s \in Sub, Lookup(t, s) PROVE TypeOK'
  BY <1>5 DEF Lookup, TypeOK
<1>6. ASSUME NEW s \in Sub, Update(t, s) PROVE TypeOK'
  <2>1. outcome[s] \in Landed
    BY <1>6 DEF Update, UpdateInv
  <2>2. usd' \in [Sub -> Amount]
    BY <1>6 DEF Update, TypeOK, GasCostUSD, Amount, Fee
  <2>3. cost' \in [Sub -> Amount]
    BY <1>6 DEF Update, TypeOK, Amount
  <2>4. status' \in [Sub -> Landed \cup {"NONE", "PENDING", "EXPIRED"}]
    BY <1>6, <2>1 DEF Update, TypeOK
  <2> QED BY <1>3, <1>6, <2>2, <2>3, <2>4 DEF Update, TypeOK
<1>7. ASSUME NEW s \in Sub, TrackError(t, s) PROVE TypeOK'
  BY <1>3, <1>7 DEF TrackError, TypeOK
<1> QED BY <1>1, <1>2, <1>4, <1>5, <1>6, <1>7 DEF Track

\* A transaction that landed stays what it is.
LEMMA StepKeeps ==
    ASSUME TypeOK, [Next]_vars
    PROVE  Kept
<1>1. ASSUME NEW s \in Sub, Land(s) \/ Drop(s) PROVE Kept
  BY <1>1 DEF Land, Drop, Kept, TypeOK, Landed
<1>2. CASE Age \/ (\E s \in Sub : Insert(s)) \/ (\E t \in Trackers : Track(t)) \/ UNCHANGED vars
  <2>1. UNCHANGED <<outcome, fee>>
    BY <1>2 DEF Age, Insert, Track, Poll, Done, Restart, Expire, Lookup, Update, TrackError, vars
  <2> QED BY <2>1 DEF Kept
<1> QED BY <1>1, <1>2 DEF Next

\* A tracker only comes to update a row after it found the transaction.
LEMMA StepUpdateInv ==
    ASSUME TypeOK, UpdateInv, [Next]_vars
    PROVE  UpdateInv'
<1> SUFFICES ASSUME NEW t \in Trackers, NEW s \in Sub, at'[t] = "update", Oldest(t, s)'
             PROVE  outcome'[s] \in Landed
  BY DEF UpdateInv
<1>0. Kept
  BY StepKeeps
<1>1. CASE UNCHANGED <<at, batch>>
  BY <1>0, <1>1 DEF UpdateInv, Oldest, Kept
<1>2. ASSUME NEW u \in Trackers, Track(u) PROVE outcome'[s] \in Landed
  <2>1. CASE u # t
    <3>1. at'[t] = at[t] /\ batch'[t] = batch[t]
      BY <1>2, <2>1 DEF Track, Poll, Done, Restart, Expire, Lookup, Update, TrackError, NextRow, TypeOK
    <3> QED BY <1>0, <3>1 DEF UpdateInv, Oldest, Kept
  <2>2. CASE u = t
    <3>1. PICK r \in Sub : Lookup(t, r)
      BY <1>2, <2>2 DEF Track, Poll, Done, Restart, Expire, Update, TrackError, NextRow, TypeOK
    <3>2. s = r
      BY <3>1 DEF Lookup, Oldest, Sub
    <3> QED BY <1>0, <3>1, <3>2 DEF Lookup, TxFound, Kept
  <2> QED BY <2>1, <2>2
<1> QED BY <1>1, <1>2 DEF Next, Age, Insert, Land, Drop, vars

\* A step leaves every resolved row as it is, or writes the same again.
LEMMA StepResolved ==
    ASSUME IInv, [Next]_vars, NEW s \in Sub, status[s] \in Landed
    PROVE  status'[s] = status[s] /\ cost'[s] = cost[s]
<1> USE DEF IInv
<1>1. CASE UNCHANGED <<status, cost>>
  BY <1>1
<1>2. ASSUME NEW r \in Sub, Insert(r) PROVE status'[s] = status[s] /\ cost'[s] = cost[s]
  BY <1>2 DEF Insert, TypeOK, Landed
<1>3. ASSUME NEW t \in Trackers, NEW r \in Sub, Expire(t, r)
      PROVE status'[s] = status[s] /\ cost'[s] = cost[s]
  BY <1>3 DEF Expire, ExpirePending, TypeOK, Landed
<1>4. ASSUME NEW t \in Trackers, NEW r \in Sub, Update(t, r)
      PROVE status'[s] = status[s] /\ cost'[s] = cost[s]
  BY <1>4 DEF Update, TypeOK, ResolvedIsReal
<1> QED BY <1>1, <1>2, <1>3, <1>4
        DEF Next, Age, Land, Drop, Track, Poll, Done, Restart, Lookup, TrackError, vars

\* A row that a step leaves resolved is right.
LEMMA StepReal ==
    ASSUME IInv, [Next]_vars
    PROVE  ResolvedIsReal'
<1> USE DEF IInv
<1> SUFFICES ASSUME NEW s \in Sub, status'[s] \in Landed
             PROVE  /\ status'[s] = outcome'[s] /\ cost'[s] = fee'[s]
                    /\ IF fee'[s] = "ZERO" THEN usd'[s] = "ZERO" ELSE ~Priced => usd'[s] = "NULL"
  BY DEF ResolvedIsReal
<1>0. Kept
  BY StepKeeps
<1>1. CASE status'[s] = status[s] /\ cost'[s] = cost[s] /\ usd'[s] = usd[s]
  BY <1>0, <1>1 DEF ResolvedIsReal, Kept
<1>2. ASSUME NEW t \in Trackers, NEW r \in Sub, Update(t, r), r = s
      PROVE  /\ status'[s] = outcome'[s] /\ cost'[s] = fee'[s]
             /\ IF fee'[s] = "ZERO" THEN usd'[s] = "ZERO" ELSE ~Priced => usd'[s] = "NULL"
  <2>1. status'[s] = outcome'[s] /\ cost'[s] = fee'[s] /\ fee'[s] = fee[s]
    BY <1>2 DEF Update, TypeOK
  <2>2. usd'[s] \in GasCostUSD(fee[s])
    BY <1>2 DEF Update, TypeOK
  <2> QED BY <2>1, <2>2 DEF GasCostUSD, TypeOK
<1>3. ASSUME NEW t \in Trackers, NEW r \in Sub, Update(t, r), r # s
      PROVE  status'[s] = status[s] /\ cost'[s] = cost[s] /\ usd'[s] = usd[s]
  BY <1>3 DEF Update, TypeOK
<1>4. ASSUME NEW r \in Sub, Insert(r) \/ \E t \in Trackers : Expire(t, r)
      PROVE  status'[s] = status[s] /\ cost'[s] = cost[s] /\ usd'[s] = usd[s]
  BY <1>4 DEF Insert, Expire, ExpirePending, TypeOK, Landed
<1> QED BY <1>1, <1>2, <1>3, <1>4
        DEF Next, Age, Land, Drop, Track, Poll, Done, Restart, Lookup, TrackError, vars

\* The invariant holds of every behaviour of the trackers.
THEOREM TrackerInvariance == Spec => []IInv
<1>1. Init => IInv
  BY TrackerAssumption
     DEF Init, IInv, TypeOK, UpdateInv, ResolvedIsReal, Outcome, Fee, Amount, Landed
<1>2. IInv /\ [Next]_vars => IInv'
  <2> SUFFICES ASSUME IInv, [Next]_vars PROVE IInv'
    OBVIOUS
  <2>1. TypeOK'
    <3>1. CASE UNCHANGED vars
      BY <3>1 DEF IInv, TypeOK, vars
    <3> QED BY <3>1, WorldTypes, TrackTypes DEF IInv, Next
  <2> QED BY <2>1, StepUpdateInv, StepReal DEF IInv
<1> QED BY <1>1, <1>2, PTL DEF Spec

\* Rows, polls and outcomes keep their types.
THEOREM TrackerTypes == Spec => []TypeOK
<1>1. IInv => TypeOK
  BY DEF IInv
<1> QED BY <1>1, TrackerInvariance, PTL

\* Every row trackSubmission resolved agrees with the chain, whichever processes overlap.
THEOREM ResolvedSound == Spec => []ResolvedIsReal
<1>1. IInv => ResolvedIsReal
  BY DEF IInv
<1> QED BY <1>1, TrackerInvariance, PTL

\* No tracker overwrites the outcome another has stored.
THEOREM ResolvedKept == Spec => ResolvedStays
<1>1. IInv /\ [Next]_vars => [\A s \in Sub : status[s] \in Landed =>
           status'[s] = status[s] /\ cost'[s] = cost[s]]_vars
  BY StepResolved
<1> QED BY <1>1, TrackerInvariance, PTL DEF Spec, ResolvedStays

-----------------------------------------------------------------------------
(* The LIMIT of the poll.                                                  *)

\* A set of submissions is finite, ...
LEMMA FiniteRows ==
    ASSUME NEW S \in SUBSET Sub
    PROVE  S \subseteq Nat /\ IsFiniteSet(S) /\ Cardinality(S) \in Nat
<1>1. IsFiniteSet(Sub)
  BY TrackerAssumption, FS_Interval DEF Sub
<1>2. IsFiniteSet(S) /\ Cardinality(S) \in Nat
  BY <1>1, FS_Subset, FS_CardinalityType
<1> QED BY <1>2, TrackerAssumption DEF Sub

\* ... and one that is not empty has a newest: a smallest one without would have none after a
\* row is taken out of it either, ...
LEMMA NewestRow ==
    ASSUME NEW S \in SUBSET Sub, S # {}
    PROVE  \E s \in S : \A r \in S : r <= s
<1> DEFINE NoNewest == {T \in FiniteSubsetsOf(S) : T # {} /\ \A s \in T : \E r \in T : ~(r <= s)}
<1>1. SUFFICES ASSUME NoNewest # {} PROVE FALSE
  <2>1. S \in FiniteSubsetsOf(S) BY FiniteRows DEF FiniteSubsetsOf
  <2> QED BY <1>1, <2>1
<1>2. PICK T \in NoNewest : \A U \in NoNewest : ~(<<U, T>> \in StrictSubsetOrdering(S))
  BY <1>1, FS_StrictSubsetOrderingWellFounded, WFMin
<1>3. PICK x \in T : TRUE OBVIOUS
<1>4. /\ T \subseteq S /\ IsFiniteSet(T) /\ T \ {x} \subseteq S /\ IsFiniteSet(T \ {x})
      /\ \A s \in T : s \in Nat
  BY FS_RemoveElement, FiniteRows DEF FiniteSubsetsOf
<1>5. T \ {x} \notin NoNewest
  BY <1>2, <1>3, <1>4 DEF StrictSubsetOrdering, FiniteSubsetsOf
<1>6. CASE T \ {x} = {} BY <1>3, <1>4, <1>6
<1>7. CASE T \ {x} # {}
  <2>1. PICK s \in T \ {x} : \A r \in T \ {x} : r <= s
    BY <1>4, <1>5, <1>7 DEF FiniteSubsetsOf
  <2>2. CASE x <= s BY <2>1, <2>2
  <2>3. CASE ~(x <= s)
    <3>1. \A r \in T : r <= x BY <1>3, <1>4, <2>1, <2>3
    <3> QED BY <3>1, <1>3
  <2> QED BY <2>2, <2>3
<1> QED BY <1>6, <1>7

\* ... and an oldest, the newest if counted from the other end.
LEMMA OldestRow ==
    ASSUME NEW S \in SUBSET Sub, S # {}
    PROVE  \E s \in S : \A r \in S : s <= r
<1> DEFINE T == {MaxSub + 1 - s : s \in S}
<1>1. \A s \in S : s \in 1 .. MaxSub
  BY DEF Sub
<1>2. T \subseteq Sub /\ T # {}
  <2>1. \A s \in S : MaxSub + 1 - s \in Sub BY <1>1, TrackerAssumption DEF Sub
  <2>2. T \subseteq Sub BY <2>1, Zenon
  <2>3. PICK s \in S : TRUE OBVIOUS
  <2>4. MaxSub + 1 - s \in T OBVIOUS
  <2> QED BY <2>2, <2>4
<1>3. PICK t \in T : \A u \in T : u <= t
  <2> HIDE DEF T
  <2> QED BY <1>2, NewestRow
<1>4. PICK s \in S : t = MaxSub + 1 - s OBVIOUS
<1>5. \A r \in S : MaxSub + 1 - r <= MaxSub + 1 - s
  BY <1>3, <1>4
<1>6. \A r \in S : s <= r
  BY <1>1, <1>5, TrackerAssumption
<1> QED BY <1>6

\* GetUnresolved leaves out nothing older than what it has.
LEMMA GetUnresolvedIsPrefix ==
    ASSUME NEW s \in GetUnresolved
    PROVE  Ahead(s) \subseteq GetUnresolved
<1> SUFFICES ASSUME NEW r \in Ahead(s) PROVE r \in GetUnresolved
  OBVIOUS
<1>1. s \in Unresolved /\ r \in Unresolved /\ r < s /\ Unresolved \subseteq Sub
  BY DEF GetUnresolved, Ahead, Unresolved
<1>2. s \in Nat /\ r \in Nat /\ Unresolved \subseteq Nat
  BY <1>1, FiniteRows
<1>3. Ahead(r) \subseteq Ahead(s) /\ Ahead(s) \subseteq Sub
  <2>1. \A q \in Unresolved : q < r => q < s BY <1>1, <1>2
  <2>2. Ahead(r) \subseteq Ahead(s) BY <2>1, Zenon DEF Ahead
  <2>3. Ahead(s) \subseteq Sub BY <1>1, Zenon DEF Ahead
  <2> QED BY <2>2, <2>3
<1>4. Cardinality(Ahead(r)) <= Cardinality(Ahead(s))
  BY <1>3, FiniteRows, FS_Subset
<1>5. Cardinality(Ahead(s)) < BatchSize
  BY DEF GetUnresolved, Ahead
<1>6. Cardinality(Ahead(r)) < BatchSize
  BY <1>3, <1>4, <1>5, FiniteRows, TrackerAssumption
<1> QED BY <1>1, <1>6 DEF GetUnresolved, Ahead

\* It has no more than BatchSize rows: those ahead of its newest one, and that one.
LEMMA GetUnresolvedIsBounded == Cardinality(GetUnresolved) <= BatchSize
<1>1. GetUnresolved \subseteq Unresolved /\ Unresolved \subseteq Sub
  BY DEF GetUnresolved, Unresolved
<1>2. CASE GetUnresolved = {}
  BY <1>2, FS_EmptySet, TrackerAssumption
<1>3. CASE GetUnresolved # {}
  <2>1. PICK s \in GetUnresolved : \A r \in GetUnresolved : r <= s
    BY <1>1, <1>3, NewestRow
  <2>2. GetUnresolved \subseteq Ahead(s) \cup {s}
    <3>1. GetUnresolved \subseteq Nat BY <1>1, FiniteRows
    <3>2. ASSUME NEW r \in GetUnresolved, r # s PROVE r \in Ahead(s)
      <4>1. r \in Unresolved /\ r < s BY <1>1, <2>1, <3>1, <3>2
      <4> QED BY <4>1 DEF Ahead
    <3> QED BY <3>2
  <2>3. Ahead(s) \subseteq Sub /\ s \notin Ahead(s) /\ Ahead(s) \cup {s} \subseteq Sub
    <3>1. s \in Nat /\ s \in Sub BY <1>1, FiniteRows
    <3>2. ~(s < s) BY <3>1
    <3>3. s \notin Ahead(s) BY <3>2, Zenon DEF Ahead
    <3>4. Ahead(s) \subseteq Sub BY <1>1, Zenon DEF Ahead
    <3> QED BY <3>1, <3>3, <3>4
  <2>4. Cardinality(Ahead(s) \cup {s}) = Cardinality(Ahead(s)) + 1
    BY <2>3, FiniteRows, FS_AddElement
  <2>5. Cardinality(Ahead(s)) < BatchSize
    BY DEF GetUnresolved, Ahead
  <2>6. Cardinality(GetUnresolved) <= Cardinality(Ahead(s) \cup {s})
    BY <2>2, <2>3, FiniteRows, FS_Subset
  <2>7. /\ Cardinality(GetUnresolved) \in Nat /\ Cardinality(Ahead(s)) \in Nat
        /\ Cardinality(Ahead(s) \cup {s}) \in Nat
    BY <1>1, <2>3, FiniteRows
  <2> QED BY <2>4, <2>5, <2>6, <2>7, TrackerAssumption
<1> QED BY <1>2, <1>3

\* It has BatchSize rows if it leaves any out: those ahead of the oldest it leaves out.
LEMMA GetUnresolvedIsFull ==
    GetUnresolved = Unresolved \/ Cardinality(GetUnresolved) = BatchSize
<1> DEFINE Left == Unresolved \ GetUnresolved
<1>1. GetUnresolved \subseteq Unresolved /\ Unresolved \subseteq Sub
  BY DEF GetUnresolved, Unresolved
<1>2. SUFFICES ASSUME Left # {} PROVE Cardinality(GetUnresolved) = BatchSize
  BY <1>1
<1>3. PICK s \in Left : \A r \in Left : s <= r
  BY <1>1, <1>2, OldestRow
<1>4. Ahead(s) \subseteq GetUnresolved /\ Ahead(s) \subseteq Sub
  <2>1. Unresolved \subseteq Nat /\ s \in Nat BY <1>1, FiniteRows
  <2>2. ASSUME NEW r \in Ahead(s) PROVE r \in GetUnresolved
    <3>1. r \in Unresolved /\ r < s BY <2>2 DEF Ahead
    <3>2. r \notin Left BY <1>3, <2>1, <3>1
    <3> QED BY <3>1, <3>2
  <2> QED BY <1>1, <2>2 DEF Ahead
<1>5. ~(Cardinality(Ahead(s)) < BatchSize)
  BY DEF GetUnresolved, Ahead
<1>6. Cardinality(Ahead(s)) <= Cardinality(GetUnresolved)
  BY <1>1, <1>4, FiniteRows, FS_Subset
<1>7. Cardinality(Ahead(s)) \in Nat /\ Cardinality(GetUnresolved) \in Nat
  BY <1>1, <1>4, FiniteRows
<1> QED BY <1>5, <1>6, <1>7, GetUnresolvedIsBounded, TrackerAssumption

\* Every poll takes the oldest of the pending rows, however many there are.
THEOREM PollSound == Spec => PollsOldest
<1> DEFINE Takes ==
      \A t \in Trackers : Poll(t) =>
         /\ batch'[t] \subseteq Unresolved
         /\ \A s \in batch'[t] : Ahead(s) \subseteq batch'[t]
         /\ \/ Cardinality(batch'[t]) = BatchSize
            \/ batch'[t] = Unresolved /\ Cardinality(Unresolved) <= BatchSize
<1>1. TypeOK /\ [Next]_vars => [Takes]_vars
  <2> SUFFICES ASSUME TypeOK, NEW t \in Trackers, Poll(t)
               PROVE  /\ batch'[t] \subseteq Unresolved
                      /\ \A s \in batch'[t] : Ahead(s) \subseteq batch'[t]
                      /\ \/ Cardinality(batch'[t]) = BatchSize
                         \/ batch'[t] = Unresolved /\ Cardinality(Unresolved) <= BatchSize
    OBVIOUS
  <2>1. batch'[t] = GetUnresolved
    BY DEF Poll, TypeOK
  <2>2. GetUnresolved \subseteq Unresolved
    BY DEF GetUnresolved
  <2>3. \A s \in GetUnresolved : Ahead(s) \subseteq GetUnresolved
    BY GetUnresolvedIsPrefix
  <2> QED BY <2>1, <2>2, <2>3, GetUnresolvedIsFull, GetUnresolvedIsBounded
<1> QED BY <1>1, TrackerTypes, PTL DEF Spec, PollsOldest
=============================================================================
